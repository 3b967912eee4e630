------------------------------- MODULE Records -------------------------------
(***************************************************************************)
(* The values the two JSON list stores keep (saved connections and command *)
(* templates) and the pure list edits their Save and Delete compute.       *)
(*                                                                         *)
(* A record has a uuid, the identity Save deduplicates on (its "key": type *)
(* and DSN of a connection, name + command + kind of a template) and the   *)
(* display name.  Names are taken after strings.TrimSpace; NoName is the   *)
(* blank name.                                                             *)
(***************************************************************************)
EXTENDS Lists

CONSTANTS
  IDs,          \* uuids
  Keys,         \* identities that Save deduplicates on
  CustomNames,  \* display names a user may type
  NoName,       \* the blank display name
  AutoName      \* AutoName[k]: the name built for k when none is typed

(* A typed name is never blank, and every identity has an automatic name. *)
ASSUME NamesAssumption ==
  /\ NoName \notin CustomNames
  /\ Keys \subseteq DOMAIN AutoName

Names == CustomNames \cup {AutoName[k] : k \in Keys}

Record == [id : IDs, key : Keys, name : Names]

IdsOf(s) == {s[i].id : i \in DOMAIN s}
KeysOf(s) == {s[i].key : i \in DOMAIN s}
Members(s) == {s[i] : i \in DOMAIN s}

(* Two positions never hold the same uuid or the same identity. *)
Distinct(s) ==
  \A i, j \in DOMAIN s : s[i].id = s[j].id \/ s[i].key = s[j].key => i = j

(* Faulty variant: a blank name is kept. *)
DisplayNameBlank(key, name) == name

DisplayName(key, name) == IF name = NoName THEN AutoName[key] ELSE name

(* Faulty variant: a new record goes to the end of the list. *)
Postpend(rec, s) == Append(s, rec)

(* The position of the record with this identity: the loop's first match,  *)
(* and the only one in a Distinct list.                                    *)
Hit(s, key) ==
  CHOOSE i \in DOMAIN s :
    s[i].key = key /\ \A j \in 1..(i - 1) : s[j].key # key

Prepend(rec, s) == <<rec>> \o s

Renamed(s, key, name) == [s EXCEPT ![Hit(s, key)].name = name]

(* The list without the record of this uuid, the others in their order.    *)
(* A uuid occurs at most once in a list the stores wrote.                  *)
Without(s, id) ==
  IF id \notin IdsOf(s) THEN s
  ELSE LET k == CHOOSE i \in DOMAIN s : s[i].id = id
       IN  [i \in 1..(Len(s) - 1) |-> IF i < k THEN s[i] ELSE s[i + 1]]

=============================================================================
