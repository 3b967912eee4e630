---------------------------- MODULE RedisCommands ----------------------------
(***************************************************************************)
(* ScanKeys, GetValue and Exec of RedisService, command by command, on a   *)
(* server whose keys other clients change in between.                      *)
(*                                                                         *)
(* A key holds a string or a list (hashes, sets and sorted sets are read   *)
(* as lists are) and expires in a second or never.  What the keys hold     *)
(* matters only while a command reads them, so a command begins with any   *)
(* contents and there are none between commands.                           *)
(***************************************************************************)
EXTENDS RedisService, Int64, SequencesExt, Lists

CONSTANTS
  Readers,           \* the goroutines that run these commands, the others ping
  Keys,              \* keys that match the pattern
  Cursors,           \* SCAN walks over the cursors 1..Cursors
  Bucket,            \* Bucket[k]: the cursor at which SCAN meets k
  Limits,            \* limits asked for
  defaultScanLimit, maxScanBatches,  \* of the source, 100 and 10
  Words,             \* arguments a user means, as sequences of characters
  Chars              \* those characters: no quote, which nothing escapes

(* One request reads at a time, and the limits of the source. *)
ASSUME CommandsAssumption ==
  /\ Readers \subseteq Procs /\ \A p, q \in Readers : p = q
  /\ Bucket \in [Keys -> 1..Cursors]
  /\ IsFiniteSet(Keys) /\ Keys # {} /\ Cursors \in Nat \ {0} /\ Limits \subseteq Int
  /\ {defaultScanLimit, maxScanBatches} \subseteq Nat \ {0}
  /\ maxScanBatches > 1 /\ Second > 1
  /\ "quote" \notin Chars /\ Words \subseteq Seq(Seq(Chars))

VARIABLES
  data,  \* data[k]: what key k holds on the server of the reading request
  cmd    \* cmd[p]: the command of request p and how far it is

commandvars == <<redisvars, data, cmd>>

Gone == [type |-> "none", ttl |-> -2]
Contents == {Gone} \cup [type : {"string", "list"}, ttl : {-1, 1}]
Lasting == [type |-> "string", ttl |-> -1]
NoKeys == [k \in Keys |-> Gone]
NoCmd == [op |-> "none"]

CommandsInit == RedisInit /\ data = NoKeys /\ cmd = [p \in Procs |-> NoCmd]

At(p, op, at) == cmd[p].op = op /\ cmd[p].at = at
Done(p, op) == At(p, op, "done")
Steady(p) == cmd[p].steady

(* A request with a client starts command c, on whatever the keys hold.    *)
(* Only Ping looks at the history in heard, which is reset.                *)
Start(p, c) ==
  /\ p \in Readers /\ pc[p] = "using" /\ stage[p] = "none" /\ cmd[p] = NoCmd
  /\ cmd' = [cmd EXCEPT ![p] = c]
  /\ heard' = [heard EXCEPT ![p] = FALSE]
  /\ UNCHANGED clientvars

(* The command of p goes on, with these locals. *)
GoOn(p, c) ==
  /\ cmd' = [cmd EXCEPT ![p] = c]
  /\ UNCHANGED <<redisvars, data>>

(* The server has answered a command. *)
Step(p, c) == Answering(p) /\ GoOn(p, c)

-----------------------------------------------------------------------------

(* go-redis: a TTL of -1 or -2 is that many nanoseconds, any other is in   *)
(* seconds.                                                                *)
Duration(ttl) == IF ttl < 0 THEN ttl ELSE ttl * Second

ttlToSeconds(d) ==
  CASE d = -1 * Second -> -1
    [] d < 0 /\ d # -1 * Second -> -2
    [] OTHER -> d \div Second

(* The keys are alike to GetValue: it is asked for one of them. *)
Asked == CHOOSE k \in Keys : TRUE

StartGet(p) ==
  /\ \E v \in Contents :
       /\ data' = [NoKeys EXCEPT ![Asked] = v]
       /\ Start(p, [op |-> "get", at |-> "type", key |-> Asked, steady |-> TRUE,
                    type |-> "", ttl |-> 0, value |-> ""])

ReadType(p) ==
  /\ At(p, "get", "type")
  /\ Step(p, [cmd[p] EXCEPT !.at = "ttl", !.type = data[cmd[p].key].type])

(* The error of TTL is dropped, which leaves a duration of 0. *)
ReadTTL(p) ==
  /\ At(p, "get", "ttl")
  /\ \/ Step(p, [cmd[p] EXCEPT !.at = "value",
                 !.ttl = ttlToSeconds(Duration(data[cmd[p].key].ttl))])
     \/ ~Answering(p) /\ GoOn(p, [cmd[p] EXCEPT !.at = "value", !.steady = FALSE])

(* Faulty variant: the error of the read is dropped too. *)
ReadsAnyway(t, v) == TRUE

(* Whether the command for type t reads contents v: redis refuses a key of *)
(* another type, and go-redis makes an error of a string that is gone,     *)
(* while a list that is gone is empty.                                     *)
Reads(t, v) == v.type = t \/ (t = "list" /\ v = Gone)

(* For a key that was gone no command is sent. *)
ReadValue(p) ==
  /\ At(p, "get", "value")
  /\ LET t == cmd[p].type
         v == data[cmd[p].key]
         c == [cmd[p] EXCEPT !.at = "done"]
     IN \/ t # "none" /\ Reads(t, v) /\ Step(p, [c EXCEPT !.value = v.type])
        \/ t = "none" /\ GoOn(p, [c EXCEPT !.value = "unsupported type: none"])

-----------------------------------------------------------------------------

Limit(n) == IF n <= 0 THEN defaultScanLimit ELSE n

StartScan(p) ==
  /\ data' \in [Keys -> {Gone, Lasting}]
  /\ \E n \in Limits :
       Start(p, [op |-> "scan", at |-> "batch", cursor |-> 1, limit |-> Limit(n), found |-> <<>>,
                 steady |-> {k \in Keys : data'[k] # Gone}])

Present == {k \in Keys : data[k] # Gone}

(* SCAN answers every key it meets at the cursor, in any order, and        *)
(* perhaps one it has answered before.                                     *)
Batches(cursor) ==
  LET here == {k \in Present : Bucket[k] = cursor}
      twice == {k \in Present : Bucket[k] < cursor}
  IN UNION {SetToSeqs(here \cup again) :
              again \in {{}} \cup {{k} : k \in twice}}

(* Faulty variant: a batch without keys ends the scan. *)
EndsScanEmpty(cursor, found, batch, limit) ==
  cursor = Cursors \/ batch = <<>>

EndsScan(cursor, found, batch, limit) ==
  cursor = Cursors \/ Len(found) >= Wrapped(limit * maxScanBatches)

(* scanWithLimit: the loop goes on with the next cursor, or ends and cuts  *)
(* what was found to the limit.                                            *)
ScanBatch(p) ==
  /\ At(p, "scan", "batch")
  /\ \E batch \in Batches(cmd[p].cursor) :
       LET limit == cmd[p].limit
           found == cmd[p].found \o batch
       IN IF EndsScan(cmd[p].cursor, found, batch, limit)
          THEN Step(p, [cmd[p] EXCEPT !.at = "done",
                        !.found = IF Len(found) > limit
                                  THEN SubSeq(found, 1, limit) ELSE found])
          ELSE Step(p, [cmd[p] EXCEPT !.cursor = @ + 1, !.found = found])

-----------------------------------------------------------------------------

(* The arguments when the one that is read has ended. *)
Ended(a) == IF a.cur = <<>> THEN a.parts ELSE Append(a.parts, a.cur)

(* A character, after those that gave a. *)
ReadChar(a, c) ==
  CASE c = "quote" -> [a EXCEPT !.inQ = ~@]
    [] c = "blank" /\ ~a.inQ -> [a EXCEPT !.parts = Ended(a), !.cur = <<>>]
    [] OTHER -> [a EXCEPT !.cur = Append(@, c)]

(* The loop of splitCmd. *)
ReadUpTo(s) ==
  LET upTo[n \in 0..Len(s)] ==
        IF n = 0 THEN [parts |-> <<>>, cur |-> <<>>, inQ |-> FALSE]
        ELSE ReadChar(upTo[n - 1], s[n])
  IN upTo[Len(s)]

(* Faulty variant: the last argument is only appended at a blank. *)
splitCmdUnended(s) == ReadUpTo(s).parts

splitCmd(s) == Ended(ReadUpTo(s))

(* How a user writes a word: between quotes when it has a blank or is empty. *)
Written(word) ==
  IF word = <<>> \/ Contains(word, "blank")
  THEN <<"quote">> \o word \o <<"quote">> ELSE word

Line(words, sep) ==
  LET upTo[n \in 0..Len(words)] ==
        CASE n = 0 -> <<>>
          [] n = 1 -> Written(words[1])
          [] OTHER -> upTo[n - 1] \o sep \o Written(words[n])
  IN upTo[Len(words)]

(* What becomes of each line; the handler and Exec refuse one without an   *)
(* argument.                                                               *)
Lines ==
  {c \in {[words |-> w, args |-> splitCmd(Line(w, sep))] :
            w \in Words, sep \in {<<"blank">>, <<"blank", "blank">>}} : c.args # <<>>}

Exec(p) ==
  /\ \E c \in Lines :
       Start(p, [op |-> "exec", at |-> "done", words |-> c.words, args |-> c.args])
  /\ UNCHANGED data

-----------------------------------------------------------------------------

(* The reply is sent, or a command failed and its error is.  The connection *)
(* may break, and the page may be gone and its context with it, at any time. *)
Reply(p) ==
  /\ Command(p)
  /\ cmd' = [cmd EXCEPT ![p] = NoCmd]
  /\ data' = IF p \in Readers THEN NoKeys ELSE data

(* Another client sets, deletes or retypes a key, or it expires. *)
Touch(p) ==
  \/ /\ cmd[p].op = "get" /\ ~Done(p, "get")
     /\ \E v \in Contents \ {data[cmd[p].key]} :
          data' = [data EXCEPT ![cmd[p].key] = v]
     /\ cmd' = [cmd EXCEPT ![p].steady = FALSE]
     /\ UNCHANGED redisvars
  \/ /\ At(p, "scan", "batch")
     /\ \E k \in Keys :
          /\ data' = [data EXCEPT ![k] = IF @ = Gone THEN Lasting ELSE Gone]
          /\ cmd' = [cmd EXCEPT ![p].steady = @ \ {k}]
     /\ UNCHANGED redisvars

CommandSteps(p) ==
  Reply(p) \/ StartGet(p) \/ ReadType(p) \/ ReadTTL(p) \/ ReadValue(p)
    \/ StartScan(p) \/ ScanBatch(p) \/ Exec(p)

PoolSteps(p) ==
  \/ (Request(p) \/ TakeLock(p)) /\ UNCHANGED heard
  \/ GetClient(p) \/ Ping(p) \/ SavePinged(p)

CommandsNext ==
  \/ \E p \in Procs :
       \/ cmd[p] = NoCmd /\ PoolSteps(p) /\ UNCHANGED <<data, cmd>>
       \/ CommandSteps(p)
       \/ Touch(p)
  \/ ServersChange /\ UNCHANGED <<heard, data, cmd>>

CommandsSpec == CommandsInit /\ [][CommandsNext]_commandvars

(* As RedisFairness, and a request goes on to its next command. *)
CommandsFairness ==
  \A p \in Procs :
    /\ WF_commandvars(\/ CommandSteps(p)
                      \/ /\ cmd[p] = NoCmd /\ UNCHANGED <<data, cmd>>
                         /\ GetClient(p) \/ Ping(p) \/ SavePinged(p))
    /\ SF_commandvars(TakeLock(p) /\ UNCHANGED <<heard, data, cmd>>)
    /\ SF_commandvars((Hit(p) \/ Miss(p)) /\ GetClient(p) /\ UNCHANGED <<data, cmd>>)

CommandsFairSpec == CommandsSpec /\ CommandsFairness

-----------------------------------------------------------------------------

(* TYPE and the value are asked in two commands (redis.go:158 to 165): a   *)
(* key that is deleted or retyped in between fails the request, or is an   *)
(* empty list, and never shows one type with the value of another.         *)
ValueOfType ==
  \A p \in Procs : Done(p, "get") =>
    CASE cmd[p].type = "string" -> cmd[p].value = "string"
      [] cmd[p].type = "list" -> cmd[p].value \in {"list", "none"}
      [] cmd[p].type = "none" -> cmd[p].value = "unsupported type: none"

(* A search that answers fewer keys than its limit has every key that was  *)
(* there all along, whatever batches SCAN came up with (redis.go:131 to    *)
(* 149); not so when limit*maxScanBatches overflows.                       *)
ScanComplete ==
  \A p \in Procs :
    Done(p, "scan") /\ cmd[p].limit * maxScanBatches < Half =>
      \/ Len(cmd[p].found) = cmd[p].limit
      \/ Len(cmd[p].found) < cmd[p].limit /\ Steady(p) \subseteq ToSet(cmd[p].found)

(* What is sent to redis are the words the user means, blanks in quotes    *)
(* included (redis.go:227 "支持双引号包裹含空格的参数"), but for an empty word   *)
(* in quotes, which is dropped.                                            *)
WordsKept ==
  \A p \in Procs : Done(p, "exec") =>
    LET w == cmd[p].words
    IN  cmd[p].args = Sift(w, {i \in DOMAIN w : w[i] # <<>>})

(* The ttl of a reply whose key nobody touched is -1 for a key that never  *)
(* expires and -2 for one that is gone (redis.go:252                       *)
(* "-1 = 永不过期, -2 = 已过期/不存在, >=0 = 剩余秒数").                        *)
TtlShown ==
  \A p \in Procs :
    Done(p, "get") /\ Steady(p) => cmd[p].ttl = data[cmd[p].key].ttl

=============================================================================
