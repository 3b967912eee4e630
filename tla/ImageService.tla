---------------------------- MODULE ImageService ----------------------------
(***************************************************************************)
(* Image generation on the image configuration store: a request loads the  *)
(* configuration, chooses the OpenAI client or plain http, and in the      *)
(* second case falls back to chat completions, whose event stream it       *)
(* reads.  The calls carry no request context, so they go on when the page *)
(* has given up.                                                           *)
(*                                                                         *)
(* The prompt, the image to edit and the logging are left out.             *)
(***************************************************************************)
EXTENDS ImageConfigStore, Sequences, SequencesExt

CONSTANT StreamLines  \* the lines an event stream may have

(* A line is a chunk with an image, the end mark or any other. *)
ASSUME StreamAssumption == StreamLines \subseteq Seq({"image", "done", "other"})

VARIABLE gen  \* gen[p]: the generation that goroutine p serves

genvars == <<vars, gen>>

NoGen == [at |-> "none"]

GenInit == Init /\ gen = [p \in Procs |-> NoGen]

-----------------------------------------------------------------------------

(* The models by what the code does with their names, and the sizes of     *)
(* openAIGenerateSizes, openAIEditSizes and, on the page,                  *)
(* IMAGE_SIZE_OPTIONS.                                                     *)
Models == {"gpt-image", "dall-e-3", "dall-e-2", "dall-e-x", "openai/other", "other"}

generateSizes(family) ==
  CASE family = "gpt-image" -> {"1024x1024", "1024x1536", "1536x1024", "1792x1024"}
    [] family = "dall-e-3" -> {"1024x1024", "1024x1792", "1792x1024"}
    [] family = "dall-e-2" -> {"256x256", "512x512", "1024x1024"}
    [] OTHER -> {}

editSizes(family) ==
  CASE family = "gpt-image" -> {"1024x1024", "1024x1536", "1536x1024"}
    [] family = "dall-e-2" -> {"256x256", "512x512", "1024x1024"}
    [] OTHER -> {}

offeredSizes(family) ==
  CASE family = "gpt-image" -> {"1024x1024", "1024x1536", "1536x1024", "1792x1024"}
    [] family = "dall-e-3" -> {"1024x1024", "1024x1792", "1792x1024"}
    [] family = "dall-e-2" -> {"1024x1024", "512x512", "256x256"}
    [] OTHER -> {"1024x1024", "1024x1536", "1536x1024", "1024x1792", "1792x1024",
                 "512x512", "256x256"}

Requests ==
  [op : {"generate", "edit"}, model : Models,
   size : {""} \cup UNION {offeredSizes(m) : m \in Models}]

(* openAIImageModelFamily: the names of the three families stand for them. *)
Family(m) == IF m \in {"gpt-image", "dall-e-3", "dall-e-2"} THEN m ELSE "unknown"

(* validateOpenAIImageSize *)
SizeOk(op, model, size) ==
  \/ size = ""
  \/ size \in IF op = "edit" THEN editSizes(Family(model))
                             ELSE generateSizes(Family(model))

(* shouldUseOpenAIImageSDK *)
UsesSDK(cfg, model) ==
  \/ model \in {"gpt-image", "dall-e-3", "dall-e-2", "dall-e-x"}
  \/ BaseURL(cfg.url) = "openai" /\ model = "openai/other"

-----------------------------------------------------------------------------

(* After its lines a stream ends or breaks. *)
Streams == [lines : StreamLines, end : {"eof", "error"}]

Error == [out |-> "error", images |-> 0]

(* Faulty variant: the end mark is skipped as any other line is.           *)
StreamAnswerUnmarked(s) ==
  LET images == Len(SelectSeq(s.lines, LAMBDA l : l = "image"))
  IN IF s.end = "error" \/ images = 0 THEN Error
     ELSE [out |-> "image", images |-> images]

(* One line, after those that gave a. *)
ReadLine(a, l) ==
  CASE a.stopped -> a
    [] ~a.stopped /\ l = "done" -> [a EXCEPT !.stopped = TRUE]
    [] ~a.stopped /\ l = "image" -> [a EXCEPT !.images = @ + 1]
    [] ~a.stopped /\ l = "other" -> a

(* The loop of callChatCompletions, line after line.  The urls of all      *)
(* chunks are joined into one.                                             *)
StreamAnswer(s) ==
  LET after[n \in 0..Len(s.lines)] ==
        IF n = 0 THEN [stopped |-> FALSE, images |-> 0]
        ELSE ReadLine(after[n - 1], s.lines[n])
      read == after[Len(s.lines)]
  IN IF (~read.stopped /\ s.end = "error") \/ read.images = 0 THEN Error
     ELSE [out |-> "image", images |-> read.images]

-----------------------------------------------------------------------------

(* The url and the key of a call made with a configuration. *)
Target(cfg) ==
  [url |-> IF BaseURL(cfg.url) = "empty" THEN "openai" ELSE BaseURL(cfg.url),
   key |-> cfg.key]

Call(at, cfg) == [at |-> at, cfg |-> cfg, to |-> Target(cfg)]
Ends(out) == [at |-> "done", out |-> out]

(* The answer to stream s, which is kept for the properties. *)
Read(s) ==
  [at |-> "done", out |-> StreamAnswer(s).out, images |-> StreamAnswer(s).images, stream |-> s]

SetGen(p, g) == gen' = [gen EXCEPT ![p] = g]

(* Generate and GenerateWithImage, past their checks of the form. *)
StartGen(p) ==
  /\ gen[p] = NoGen
  /\ CallLoad(p)
  /\ SetGen(p, [at |-> "loading"])

(* The branch that GenerateImage or GenerateWithImage takes for a request; *)
(* an image that cannot be read is one more error.                         *)
Branch(cfg, req) ==
  IF UsesSDK(cfg, req.model)
  THEN IF cfg.key = "none" \/ ~SizeOk(req.op, req.model, req.size)
       THEN Ends("error") ELSE Call("sdk", cfg)
  ELSE IF BaseURL(cfg.url) = "empty" THEN Ends("error") ELSE Call("images", cfg)

Branches(cfg) == {Branch(cfg, req) : req \in Requests}

Loaded(p) ==
  /\ gen[p].at = "loading"
  /\ Return(p)
  /\ IF err[p] = "none" THEN \E g \in Branches(ans[p]) : SetGen(p, g)
                        ELSE SetGen(p, Ends("error"))

(* An answer that can be read, perhaps without an image in it, or an error. *)
SDKAnswers(p) ==
  /\ gen[p].at = "sdk"
  /\ \E out \in {"image", "nothing", "error"} : SetGen(p, Ends(out))
  /\ UNCHANGED vars

ImagesAnswers(p) ==
  /\ gen[p].at = "images"
  /\ \E out \in {"image", "nothing"} : SetGen(p, Ends(out))
  /\ UNCHANGED vars

(* Faulty variant: the fallback takes the key of the store, which may have *)
(* been saved since.                                                       *)
FallsBackReloading(p) ==
  /\ gen[p].at = "images"
  /\ SetGen(p, [gen[p] EXCEPT !.at = "chat",
                              !.to.key = IF cache = NoConfig THEN @ ELSE cache.key])
  /\ UNCHANGED vars

(* No connection, a timeout, another status than 200, no body, no JSON or  *)
(* an error in it: the same configuration goes to chat completions.        *)
FallsBack(p) ==
  /\ gen[p].at = "images"
  /\ SetGen(p, Call("chat", gen[p].cfg))
  /\ UNCHANGED vars

(* Faulty variant: a chat call that fails goes back to the images call.    *)
ChatAnswersRetrying(p) ==
  /\ gen[p].at = "chat"
  /\ \/ \E s \in Streams : SetGen(p, Read(s))
     \/ SetGen(p, Call("images", gen[p].cfg))
  /\ UNCHANGED vars

(* No stream at all, or one that is read. *)
ChatAnswers(p) ==
  /\ gen[p].at = "chat"
  /\ SetGen(p, Ends("error")) \/ \E s \in Streams : SetGen(p, Read(s))
  /\ UNCHANGED vars

(* The handler answers, 502 for an error. *)
Respond(p) == gen[p].at = "done" /\ SetGen(p, NoGen) /\ UNCHANGED vars

GenSteps(p) ==
  Loaded(p) \/ SDKAnswers(p) \/ ImagesAnswers(p) \/ FallsBack(p) \/ ChatAnswers(p)
    \/ Respond(p)

(* The steps of the store, for a load or a save of its own or for that of  *)
(* a generation.                                                           *)
StoreSteps(p) ==
  \/ gen[p] = NoGen /\ (CallLoad(p) \/ (\E c \in Configs : CallSave(p, c)) \/ Return(p))
  \/ Lock(p) \/ LoadSteps(p) \/ SaveSteps(p)

GenNext ==
  \/ \E p \in Procs : StartGen(p) \/ GenSteps(p) \/ (StoreSteps(p) /\ UNCHANGED gen)
  \/ Crash /\ gen' = [p \in Procs |-> NoGen]

GenSpec == GenInit /\ [][GenNext]_genvars

(* As the store's, and an upstream call ends: the http client gives it     *)
(* 600 s.                                                                  *)
GenFairness ==
  \A p \in Procs :
    /\ WF_genvars(GenSteps(p) \/ (Proceed(p) /\ gen[p].at # "loading" /\ UNCHANGED gen)
                  \/ ((LoadFilled(p) \/ LoadFile(p) \/ LoadFails(p)) /\ UNCHANGED gen))
    /\ SF_genvars(Lock(p) /\ UNCHANGED gen)
    /\ SF_genvars((LoadCached(p) \/ LoadMisses(p)) /\ UNCHANGED gen)

GenFairSpec == GenSpec /\ GenFairness

-----------------------------------------------------------------------------

(* A key is only ever sent to the url it was saved with: both calls of a   *)
(* generation use the configuration that was loaded at its start           *)
(* (image.go:58, 86 and 89), whatever is saved meanwhile.                  *)
KeyWithItsURL ==
  \A p \in Procs :
    gen[p].at \in {"sdk", "images", "chat"} =>
      \E c \in Configs : gen[p].to = Target(c)

AtRest(p) == gen[p] = NoGen /\ pc[p] = "idle"

(* Every generation, load and save ends, by an answer or because the       *)
(* process was killed: there is one fallback and no more (image.go:89),    *)
(* and every path of the store gives its lock back.                        *)
RequestsEnd == \A p \in Procs : ~AtRest(p) ~> AtRest(p)

(* A stream gives the images before its end mark, whatever comes after and *)
(* however the stream then ends, and without the mark only when it ends    *)
(* properly (image.go:351 to 412).                                         *)
StreamsRead ==
  \A p \in Procs : gen[p].at = "done" /\ "stream" \in DOMAIN gen[p] =>
    LET s == gen[p].stream
        marks == {i \in DOMAIN s.lines : s.lines[i] = "done"}
        images == {i \in DOMAIN s.lines :
                     s.lines[i] = "image" /\ \A j \in marks : i < j}
    IN IF images # {} /\ (marks # {} \/ s.end = "eof")
       THEN gen[p].out = "image" /\ gen[p].images = Cardinality(images)
       ELSE gen[p].out = "error"

=============================================================================
