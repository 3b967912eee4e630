----------------------------- MODULE ImageProofs -----------------------------
(***************************************************************************)
(* Proofs about ImageService: the generations take no step of the store    *)
(* that ConfigStore does not take; the calls of one generation use one     *)
(* configuration, so that no key goes to another provider's url; and an    *)
(* event stream gives the images before its mark.                          *)
(***************************************************************************)
EXTENDS ImageService, ConfigProofs, ListProofs, FiniteSetTheorems

LEMMA StoreStepsOfGenerations == [GenNext]_genvars => [Next]_vars
<1> SUFFICES ASSUME [GenNext]_genvars PROVE [Next]_vars
  OBVIOUS
<1>1. ASSUME NEW p \in Procs, StartGen(p) PROVE Next
  BY <1>1 DEF StartGen, Next
<1>2. ASSUME NEW p \in Procs, GenSteps(p) PROVE [Next]_vars
  BY <1>2 DEF GenSteps, Loaded, SDKAnswers, ImagesAnswers, FallsBack, ChatAnswers,
              Respond, Next
<1>3. ASSUME NEW p \in Procs, StoreSteps(p) PROVE Next
  BY <1>3 DEF StoreSteps, Next
<1>4. CASE Crash
  BY <1>4 DEF Next
<1>5. CASE UNCHANGED genvars
  BY <1>5 DEF genvars
<1> QED
  BY <1>1, <1>2, <1>3, <1>4, <1>5 DEF GenNext

(* Every behaviour of the image service is one of its configuration store. *)
THEOREM GenerationsImplementStore == GenSpec => Spec
<1>1. GenInit => Init
  BY DEF GenInit
<1> QED
  BY <1>1, StoreStepsOfGenerations, PTL DEF GenSpec, Spec

(* No generation meets a file that a Save is still writing.                *)
THEOREM GenerationsNoTornLoad == GenSpec => NoTornLoad
BY GenerationsImplementStore, NoTornLoadHolds

-----------------------------------------------------------------------------

(* A generation loads as a Load does, and calls with what was loaded.      *)
GenInv ==
  /\ gen = [p \in Procs |-> gen[p]]
  /\ \A p \in Procs :
       /\ gen[p].at = "loading" => Loads(p)
       /\ gen[p].at \in {"sdk", "images", "chat"} =>
            gen[p].cfg \in Configs /\ gen[p].to = Target(gen[p].cfg)

LEMMA InitGen == GenInit => GenInv
BY DEF GenInit, GenInv, NoGen

LEMMA BranchCalls ==
  ASSUME NEW cfg \in Configs, NEW g \in Branches(cfg)
  PROVE  /\ g.at \in {"sdk", "images", "done"}
         /\ g.at # "done" => g.cfg = cfg /\ g.to = Target(cfg)
<1>1. PICK req \in Requests : g = Branch(cfg, req)
  BY DEF Branches
<1>2. g = Ends("error") \/ g = Call("sdk", cfg) \/ g = Call("images", cfg)
  BY <1>1 DEF Branch
<1> QED
  BY <1>2 DEF Ends, Call

LEMMA GenStepKeeps ==
  ASSUME IInv, GenInv, NEW p \in Procs, GenSteps(p)
  PROVE  GenInv'
<1>1. CASE Loaded(p)
  <2>1. Loads(p) /\ pc[p] = "returning"
    BY <1>1 DEF Loaded, Return, Goto, GenInv
  <2>2. err[p] = "none" => ans[p] \in Configs
    BY <2>1 DEF IInv, CallInv
  <2>3. \A q \in Procs : q # p => arg'[q] = arg[q]
    BY <1>1 DEF Loaded, Return, IInv, TypeOK
  <2>4. CASE err[p] = "none"
    <3>1. PICK g \in Branches(ans[p]) : SetGen(p, g)
      BY <1>1, <2>4 DEF Loaded
    <3>2. /\ g.at \in {"sdk", "images", "done"}
          /\ g.at # "done" => g.cfg = ans[p] /\ g.to = Target(ans[p])
      BY <2>2, <2>4, <3>1, BranchCalls
    <3> QED
      BY <2>2, <2>3, <2>4, <3>1, <3>2 DEF SetGen, GenInv, Loads
  <2>5. CASE err[p] # "none"
    BY <1>1, <2>3, <2>5 DEF Loaded, SetGen, Ends, GenInv, Loads
  <2> QED
    BY <2>4, <2>5
<1>2. CASE SDKAnswers(p) \/ ImagesAnswers(p) \/ ChatAnswers(p)
  <2>1. PICK g : SetGen(p, g) /\ g.at = "done" /\ UNCHANGED arg
    BY <1>2 DEF SDKAnswers, ImagesAnswers, ChatAnswers, Ends, Read, vars, local
  <2> QED
    BY <2>1 DEF SetGen, GenInv, Loads
<1>3. CASE FallsBack(p)
  BY <1>3 DEF FallsBack, SetGen, Call, GenInv, Loads, vars, local
<1>4. CASE Respond(p)
  BY <1>4 DEF Respond, SetGen, NoGen, GenInv, Loads, vars, local
<1> QED
  BY <1>1, <1>2, <1>3, <1>4 DEF GenSteps

LEMMA StepKeepsGen == IInv /\ GenInv /\ [GenNext]_genvars => GenInv'
<1> SUFFICES ASSUME IInv, GenInv, [GenNext]_genvars PROVE GenInv'
  OBVIOUS
<1>1. ASSUME NEW p \in Procs, StartGen(p) PROVE GenInv'
  BY <1>1 DEF StartGen, CallLoad, Goto, SetGen, GenInv, IInv, CallInv, Loads
<1>2. ASSUME NEW p \in Procs, GenSteps(p) PROVE GenInv'
  BY <1>2, GenStepKeeps
<1>3. ASSUME NEW p \in Procs, StoreSteps(p), UNCHANGED gen PROVE GenInv'
  <2>1. \A q \in Procs : Loads(q) /\ gen[q] # NoGen => arg'[q] = NoConfig
    BY <1>3 DEF StoreSteps, LoadSteps, SaveSteps, CallLoad, CallSave, Return, Lock,
                LoadCached, LoadMisses, LoadFilled, LoadFile, LoadFails, OpenFails,
                Truncate, WriteData, WriteFails, Answer, Loads, IInv, TypeOK
  <2> QED
    BY <1>3, <2>1 DEF GenInv, NoGen, Loads
<1>4. CASE Crash /\ gen' = [p \in Procs |-> NoGen]
  BY <1>4 DEF GenInv, NoGen
<1>5. CASE UNCHANGED genvars
  BY <1>5 DEF genvars, vars, local, GenInv, Loads
<1> QED
  BY <1>1, <1>2, <1>3, <1>4, <1>5 DEF GenNext

(* A key is only ever sent to the url it was saved with.                   *)
THEOREM KeyWithItsURLHolds == GenSpec => []KeyWithItsURL
<1>1. GenInv => KeyWithItsURL
  BY DEF GenInv, KeyWithItsURL
<1>2. GenSpec => []IInv
  BY GenerationsImplementStore, SpecIInv
<1> QED
  BY <1>1, <1>2, InitGen, StepKeepsGen, PTL DEF GenSpec

-----------------------------------------------------------------------------
(* The event stream. *)

Marks(s) == {i \in DOMAIN s.lines : s.lines[i] = "done"}
Images(s) == {i \in DOMAIN s.lines : s.lines[i] = "image" /\ \A j \in Marks(s) : i < j}

States == [stopped : BOOLEAN, images : Nat]

LEMMA ReadLineType ==
  ASSUME NEW a \in States, NEW l \in {"image", "done", "other"}
  PROVE  /\ ReadLine(a, l) \in States
         /\ ReadLine(a, l).stopped <=> a.stopped \/ l = "done"
         /\ ReadLine(a, l).images =
              IF ~a.stopped /\ l = "image" THEN a.images + 1 ELSE a.images
<1>1. CASE a.stopped
  BY <1>1 DEF ReadLine, States
<1>2. CASE ~a.stopped /\ l = "done"
  BY <1>2 DEF ReadLine, States
<1>3. CASE ~a.stopped /\ l = "image"
  BY <1>3 DEF ReadLine, States
<1>4. CASE ~a.stopped /\ l = "other"
  BY <1>4 DEF ReadLine, States
<1>. QED
  BY <1>1, <1>2, <1>3, <1>4 DEF States

(* After n lines the loop has stopped if one was the mark, and has counted *)
(* the images among them that come before every mark.                      *)
LEMMA StreamRead ==
  ASSUME NEW s \in Streams
  PROVE  StreamAnswer(s) =
           IF Images(s) # {} /\ (Marks(s) # {} \/ s.end = "eof")
           THEN [out |-> "image", images |-> Cardinality(Images(s))]
           ELSE Error
<1>1. PICK N \in Nat, lines \in Seq({"image", "done", "other"}) :
        lines = s.lines /\ N = Len(lines) /\ DOMAIN lines = 1..N
  <2>1. s.lines \in Seq({"image", "done", "other"})
    BY StreamAssumption DEF Streams
  <2>. QED
    BY <2>1, LenProperties
<1>2. \A n \in 1..N : lines[n] \in {"image", "done", "other"}
  BY <1>1, ElementOfSeq
<1> DEFINE start == [stopped |-> FALSE, images |-> 0]
           G == [x \in (1..N) \X States |-> ReadLine(x[2], lines[x[1]])]
<1>3. start \in States /\ G \in [(1..N) \X States -> States]
  BY <1>2, ReadLineType DEF States
<1>4. \A n \in 1..N, a \in States : G[<<n, a>>] = ReadLine(a, lines[n])
  OBVIOUS
<1> HIDE DEF G
<1> DEFINE Step(f, n) == IF n = 0 THEN start ELSE ReadLine(f[n - 1], lines[n])
<1>5. PICK f : f \in [0..N -> States] /\ f = [n \in 0..N |-> Step(f, n)]
  <2>1. PICK f \in [0..N -> States] :
          f[0] = start /\ \A n \in 1..N : f[n] = G[<<n, f[n - 1]>>]
    <3>1. PICK f : IsLoop(f, States, start, N, G)
      BY <1>3, Recursion
    <3>. QED
      BY <3>1 DEF IsLoop
  <2>2. ASSUME NEW n \in 0..N PROVE f[n] = Step(f, n)
    <3> HIDE DEF start
    <3>1. CASE n = 0
      BY <2>1, <3>1
    <3>2. CASE n # 0
      <4>1. n \in 1..N /\ n - 1 \in 0..N
        BY <3>2
      <4>2. f[n - 1] \in States
        BY <2>1, <4>1
      <4>. QED
        BY <1>4, <2>1, <3>2, <4>1, <4>2
    <3>. QED
      BY <3>1, <3>2
  <2> HIDE DEF Step
  <2>3. f = [n \in 0..N |-> Step(f, n)]
    BY <2>1, <2>2
  <2>. QED
    BY <2>1, <2>3
<1> DEFINE g == CHOOSE g : g = [n \in 0..N |->
                  IF n = 0 THEN start ELSE ReadLine(g[n - 1], lines[n])]
           read == g[N]
<1>6. g = [n \in 0..N |-> Step(g, n)]
  BY <1>5
<1>7. StreamAnswer(s) =
        IF (~read.stopped /\ s.end = "error") \/ read.images = 0 THEN Error
        ELSE [out |-> "image", images |-> read.images]
  BY <1>1 DEF StreamAnswer
<1> HIDE DEF g
<1> DEFINE Seen(n) == Images(s) \cap (1..n)
           Right(n) == /\ g[n] \in States
                       /\ g[n].stopped <=> \E j \in Marks(s) : j <= n
                       /\ IsFiniteSet(Seen(n)) /\ g[n].images = Cardinality(Seen(n))
           T == {n \in Nat : n <= N => Right(n)}
<1>8. 0 \in T
  <2>1. g[0] = start
    BY <1>6
  <2>2. Seen(0) = {}
    OBVIOUS
  <2>3. ~\E j \in Marks(s) : j <= 0
    BY <1>1 DEF Marks
  <2>. QED
    BY <1>3, <2>1, <2>2, <2>3, FS_EmptySet
<1>9. ASSUME NEW n \in Nat, n \in T
      PROVE  n + 1 \in T
  <2> SUFFICES ASSUME n + 1 <= N PROVE Right(n + 1)
    OBVIOUS
  <2>1. /\ n + 1 \in 1..N /\ n + 1 \in 0..N /\ n + 1 # 0 /\ (n + 1) - 1 = n
        /\ n \in 0..N
    OBVIOUS
  <2>2. Right(n)
    BY <1>9
  <2>3. PICK a \in States : a = g[n]
    BY <2>2
  <2>4. PICK l \in {"image", "done", "other"} : l = lines[n + 1]
    BY <1>2, <2>1
  <2>5. g[n + 1] = ReadLine(a, l)
    <3>1. g[n + 1] = Step(g, n + 1)
      BY <1>6, <2>1
    <3>. QED
      BY <2>1, <2>3, <2>4, <3>1
  <2>6. /\ ReadLine(a, l) \in States
        /\ ReadLine(a, l).stopped <=> a.stopped \/ l = "done"
        /\ ReadLine(a, l).images =
             IF ~a.stopped /\ l = "image" THEN a.images + 1 ELSE a.images
    BY ReadLineType
  <2>7. (\E j \in Marks(s) : j <= n + 1) <=> (\E j \in Marks(s) : j <= n) \/ l = "done"
    <3>1. n + 1 \in Marks(s) <=> l = "done"
      BY <1>1, <2>1, <2>4 DEF Marks
    <3>2. \A j \in Marks(s) : j \in Int /\ (j <= n + 1 <=> j <= n \/ j = n + 1)
      BY <1>1 DEF Marks
    <3>3. n + 1 <= n + 1
      OBVIOUS
    <3>. QED
      BY <3>1, <3>2, <3>3
  <2>8. n + 1 \in Images(s) <=> l = "image" /\ ~\E j \in Marks(s) : j <= n
    <3>1. n + 1 \in Images(s) <=> l = "image" /\ \A j \in Marks(s) : n + 1 < j
      BY <1>1, <2>1, <2>4 DEF Images
    <3>2. \A j \in Marks(s) : j \in Int /\ (j = n + 1 => l = "done")
      BY <1>1, <2>4 DEF Marks
    <3>3. ASSUME l = "image", NEW j \in Marks(s)
          PROVE  n + 1 < j <=> ~(j <= n)
      BY <3>2, <3>3
    <3>. QED
      BY <3>1, <3>3
  <2>9. Seen(n + 1) = IF n + 1 \in Images(s) THEN Seen(n) \cup {n + 1} ELSE Seen(n)
    <3>1. 1..(n + 1) = (1..n) \cup {n + 1}
      BY <2>1
    <3>. QED
      BY <3>1
  <2>10. n + 1 \notin Seen(n)
    OBVIOUS
  <2> HIDE DEF Seen
  <2>11. /\ IsFiniteSet(Seen(n) \cup {n + 1})
         /\ Cardinality(Seen(n) \cup {n + 1}) = Cardinality(Seen(n)) + 1
    BY <2>2, <2>10, FS_AddElement
  <2>12. a.stopped <=> \E j \in Marks(s) : j <= n
    BY <2>2, <2>3
  <2>13. IsFiniteSet(Seen(n + 1)) /\ g[n + 1].images = Cardinality(Seen(n + 1))
    <3>1. CASE n + 1 \in Images(s)
      BY <2>2, <2>3, <2>5, <2>6, <2>8, <2>9, <2>11, <2>12, <3>1
    <3>2. CASE n + 1 \notin Images(s)
      BY <2>2, <2>3, <2>5, <2>6, <2>8, <2>9, <2>12, <3>2
    <3>. QED
      BY <3>1, <3>2
  <2>. QED
    BY <2>5, <2>6, <2>7, <2>12, <2>13
<1>10. Right(N)
  <2>1. N \in T
    <3> HIDE DEF T
    <3>. QED
      BY <1>8, <1>9, Induction
  <2>. QED
    BY <2>1
<1>11. Seen(N) = Images(s)
  BY <1>1 DEF Images
<1>12. (\E j \in Marks(s) : j <= N) <=> Marks(s) # {}
  BY <1>1 DEF Marks
<1>13. read.images = 0 <=> Images(s) = {}
  BY <1>10, <1>11, FS_EmptySet
<1>14. s.end \in {"eof", "error"}
  BY DEF Streams
<1>. QED
  BY <1>7, <1>10, <1>11, <1>12, <1>13, <1>14

(* What a generation has read of a stream is what StreamAnswer says of it. *)
AnswerInv ==
  /\ gen = [p \in Procs |-> gen[p]]
  /\ \A p \in Procs :
       gen[p].at = "done" /\ "stream" \in DOMAIN gen[p] =>
         \E s \in Streams : gen[p] = Read(s)

(* A stream gives the images before its end mark, for any lines.           *)
THEOREM StreamsReadHolds == GenSpec => []StreamsRead
<1>1. GenInit => AnswerInv
  BY DEF GenInit, AnswerInv, NoGen
<1>2. AnswerInv => StreamsRead
  <2> SUFFICES ASSUME AnswerInv, NEW p \in Procs, gen[p].at = "done",
                      "stream" \in DOMAIN gen[p]
               PROVE  LET s == gen[p].stream
                      IN IF Images(s) # {} /\ (Marks(s) # {} \/ s.end = "eof")
                         THEN gen[p].out = "image" /\ gen[p].images = Cardinality(Images(s))
                         ELSE gen[p].out = "error"
    BY DEF StreamsRead, Images, Marks
  <2>1. PICK s \in Streams : gen[p] = Read(s)
    BY DEF AnswerInv
  <2>2. /\ gen[p].stream = s /\ gen[p].out = StreamAnswer(s).out
        /\ gen[p].images = StreamAnswer(s).images
    BY <2>1 DEF Read
  <2>. QED
    BY <2>2, StreamRead DEF Error
<1>3. ASSUME AnswerInv, [GenNext]_genvars PROVE AnswerInv'
  <2>1. ASSUME NEW p \in Procs, NEW g, SetGen(p, g),
               g.at = "done" /\ "stream" \in DOMAIN g => \E s \in Streams : g = Read(s)
        PROVE  AnswerInv'
    BY <1>3, <2>1 DEF SetGen, AnswerInv
  <2>2. ASSUME NEW p \in Procs, StartGen(p) PROVE AnswerInv'
    BY <2>1, <2>2 DEF StartGen
  <2>3. ASSUME NEW p \in Procs, GenSteps(p) PROVE AnswerInv'
    <3>1. \A out : "stream" \notin DOMAIN Ends(out)
      BY DEF Ends
    <3>2. \A cfg : Call("sdk", cfg).at # "done" /\ Call("images", cfg).at # "done"
                      /\ Call("chat", cfg).at # "done"
      BY DEF Call
    <3>3. CASE Loaded(p)
      <4>1. PICK g : SetGen(p, g) /\ (g = Ends("error") \/ \E cfg : g \in Branches(cfg))
        BY <3>3 DEF Loaded
      <4>2. g = Ends("error") \/ \E cfg : g = Call("sdk", cfg) \/ g = Call("images", cfg)
        BY <4>1 DEF Branches, Branch
      <4>. QED
        BY <2>1, <3>1, <3>2, <4>1, <4>2
    <3>4. CASE SDKAnswers(p) \/ ImagesAnswers(p)
      BY <2>1, <3>1, <3>4 DEF SDKAnswers, ImagesAnswers
    <3>5. CASE FallsBack(p)
      BY <2>1, <3>2, <3>5 DEF FallsBack
    <3>6. CASE ChatAnswers(p)
      BY <2>1, <3>1, <3>6 DEF ChatAnswers
    <3>7. CASE Respond(p)
      BY <2>1, <3>7 DEF Respond, NoGen
    <3>. QED
      BY <2>3, <3>3, <3>4, <3>5, <3>6, <3>7 DEF GenSteps
  <2>4. CASE UNCHANGED gen
    BY <1>3, <2>4 DEF AnswerInv
  <2>5. CASE Crash /\ gen' = [p \in Procs |-> NoGen]
    BY <2>5 DEF AnswerInv, NoGen
  <2>. QED
    BY <1>3, <2>2, <2>3, <2>4, <2>5 DEF GenNext, genvars
<1>. QED
  BY <1>1, <1>2, <1>3, PTL DEF GenSpec

=============================================================================
