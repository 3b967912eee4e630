--------------------------- MODULE MCBusinessQuery ---------------------------
(* BusinessQuery on small sets for TLC.  The database of "pg" is written   *)
(* for every combination of five facts: anna owns an organization and is a *)
(* member of it, her login removed or not; ben may be linked to another    *)
(* member of it, who may be removed; the organization may be suspended and *)
(* the owner's credit overdue.  Anna's own account has three sessions.     *)
EXTENDS BusinessQuery

Facts == {"login removed", "linked", "member removed", "suspended", "overdue"}

User(id, email) == [id |-> id, email |-> email]

Member(id, user, deleted) ==
  [id |-> id, org |-> "acme", user |-> user, status |-> 1, deleted |-> deleted,
   remaining |-> 7]

Auth(member, login, deleted) ==
  [member |-> member, login |-> login, deleted |-> deleted, locked |-> FALSE]

Session(id, user, member, org, active, created) ==
  [id |-> id, user |-> user, member |-> member, org |-> org, active |-> active,
   created |-> created]

TablesWith(facts) ==
  [users |-> {User("anna", " Anna@x"), User("ben", "ben@x")},
   orgs |-> {[id |-> "acme", owner |-> "anna",
              status |-> IF "suspended" \in facts THEN 2 ELSE 1]},
   members |->
     {Member("m1", NULL, FALSE),
      Member("m2", IF "linked" \in facts THEN "ben" ELSE NULL,
             "member removed" \in facts)},
   auths |-> {Auth("m1", "anna@x", "login removed" \in facts),
              Auth("m2", "ben@x", FALSE)},
   sessions |->
     {Session("s1", "anna", NULL, NULL, TRUE, 1),
      Session("s2", "anna", NULL, NULL, FALSE, 2),
      Session("s3", "anna", NULL, NULL, TRUE, 3),
      Session("s4", "anna", "m1", "acme", TRUE, 4),
      Session("s5", "anna", "m2", "acme", TRUE, 5)},
   balances |-> {[user |-> "anna", balance |-> 1, enabled |-> TRUE, limit |-> 5,
                  used |-> 2, overdue |-> "overdue" \in facts]},
   gifts |-> {[user |-> "anna", amount |-> 2, expired |-> FALSE],
              [user |-> "anna", amount |-> 4, expired |-> TRUE]}]

(* The database of another connection: nobody is anything but a user. *)
Elsewhere ==
  [TablesWith({}) EXCEPT !.orgs = {}, !.members = {}, !.auths = {},
                         !.sessions = {}, !.balances = {}, !.gifts = {}]

MCTables ==
  [x \in SUBSET Facts \cup {{"elsewhere"}} |->
     IF x = {"elsewhere"} THEN Elsewhere ELSE TablesWith(x)]

MCStart == {[c \in Conns |-> IF c = "pg" THEN x ELSE {"elsewhere"}] : x \in SUBSET Facts}

(* A write adds or removes one fact. *)
MCWrites ==
  {w \in (SUBSET Facts) \X (SUBSET Facts) :
     Cardinality((w[1] \ w[2]) \cup (w[2] \ w[1])) = 1}

MCLower ==
  [t \in {" Anna@x", "anna@x", "ben@x", "anna", "ANNA", "ben", "m2", "junk"} |->
     CASE t = " Anna@x" -> "anna@x" [] t = "ANNA" -> "anna" [] OTHER -> t]

=============================================================================
