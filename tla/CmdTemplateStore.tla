--------------------------- MODULE CmdTemplateStore ---------------------------
(***************************************************************************)
(* CmdTemplateStore: the SQL and redis command templates as a RecordStore. *)
(* The identity of a template is its name, command and kind, so a template *)
(* is never renamed, and Save refuses a blank name or command.             *)
(***************************************************************************)
EXTENDS RecordStore

CONSTANTS TemplateNames, Commands, Blank

Kinds == {"sql", "redis"}

(* Name, command and kind, after strings.TrimSpace. *)
Templates == (TemplateNames \cup {Blank}) \X (Commands \cup {Blank}) \X Kinds

ValidTemplates == TemplateNames \X Commands \X Kinds

BlankTemplates == Templates \ ValidTemplates

TemplateName == [t \in Templates |-> t[1]]

(* Faulty variant: the kind is ignored. *)
ListKinds(s, kind) == s

ListKind(s, kind) ==
  IF kind = "" THEN s ELSE Sift(s, {i \in DOMAIN s : s[i].key[3] = kind})

(* The handler admits the two kinds only and never passes a display name.  *)
TemplateRequest ==
  ListReq \cup DeleteReq \cup [op : {"save"}, key : Templates, name : {NoName}]

ListTemplates(p) == RLock(p) \/ List(p)
SaveTemplate(p) == Reject(p) \/ SaveKnown(p) \/ SaveNew(p)
DeleteTemplate(p) == Delete(p)

TemplateNext ==
  \/ \E p \in Procs :
       \/ \E r \in TemplateRequest : Call(p, r)
       \/ ListTemplates(p) \/ Lock(p) \/ SaveTemplate(p) \/ DeleteTemplate(p)
       \/ ParseFails(p) \/ Truncate(p) \/ WriteData(p) \/ Return(p)
       \/ Fault(p)
  \/ Crash

TemplateSpec == Init /\ [][TemplateNext]_vars

TemplateFairSpec == TemplateSpec /\ Fairness

-----------------------------------------------------------------------------

(* Two acknowledged Saves of one template got the same record, unless it   *)
(* was deleted between them (cmdtemplate.go:55).                           *)
SaveIsIdempotent == \A s, t \in acked : s.key = t.key => s = t

(* A filtered list has every acknowledged template of its kind, and no     *)
(* other kind's.                                                           *)
KindsApart ==
  \A p \in Procs, kind \in Kinds :
    pc[p] = "returning" /\ req[p].op = "list" /\ err[p] = "none" =>
      /\ \A rec \in Members(ListKind(buf[p], kind)) : rec.key[3] = kind
      /\ \A rec \in acked :
           Undisputed(rec) /\ rec.key[3] = kind =>
             rec \in Members(ListKind(buf[p], kind))

=============================================================================
