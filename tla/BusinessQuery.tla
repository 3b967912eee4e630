---------------------------- MODULE BusinessQuery ----------------------------
(***************************************************************************)
(* A request for a user overview: the identifier is normalized, the        *)
(* connection looked up by its name once, and five sections are read from  *)
(* it, one query after the other and in no common transaction.  The first  *)
(* error fails the whole request.  Meanwhile the connection may be renamed *)
(* or deleted and the databases written to.                                *)
(*                                                                         *)
(* A database is a name whose tables are Tables[name]; Writes are the      *)
(* pairs of names that a write by others leads from and to.                *)
(***************************************************************************)
EXTENDS UserOverview, Sequences

CONSTANTS
  Conns,         \* saved connections that may have the name
  NoConn,        \* no connection has it
  Postgres,      \* those of type postgres
  Tables,
  Start,         \* what the databases may be at first
  Writes,
  Inputs,        \* what may be typed as identifier
  Uuids,         \* among Lower[t]: uuids
  Emails,        \* among Lower[t]: what has an @
  Limits,        \* recentSessionLimit of a request
  defaultRecentSessionLimit,
  maxRecentSessionLimit

(* The connections of the right type are connections, and the name of none *)
(* is not; no text is a uuid and an address.                               *)
ASSUME BusinessAssumption ==
  Postgres \subseteq Conns /\ NoConn \notin Conns /\ Uuids \cap Emails = {}

(* The databases are those of Tables, before and after a write, and their  *)
(* organizations and members have primary keys, which the joins are on.    *)
ASSUME SchemaAssumption ==
  /\ Start \subseteq [Conns -> DOMAIN Tables]
  /\ Writes \subseteq (DOMAIN Tables) \X (DOMAIN Tables)
  /\ \A x \in DOMAIN Tables : Keyed(Tables[x].orgs) /\ Keyed(Tables[x].members)

VARIABLES
  named,     \* the connection FindByName finds: of Conns, or NoConn
  data,      \* data[c]: the database behind a connection
  pc,        \* "idle", "reading", "answered", "failed"
  req,       \* the request
  conn,      \* the connection it looked up
  sections,  \* the sections it has read
  written    \* history: the database was written to since the first section

vars == <<named, data, pc, req, conn, sections, written>>

Keys == <<"identities", "sessions", "wallets", "organizations", "members">>

NoReq == [type |-> "none"]

Init ==
  /\ named \in Conns \cup {NoConn}
  /\ data \in Start
  /\ pc = "idle" /\ req = NoReq /\ conn = NoConn
  /\ sections = <<>> /\ written = FALSE

-----------------------------------------------------------------------------

TypeOfIdentifier(t) ==
  IF Lower[t] \in Uuids THEN "uuid" ELSE IF Lower[t] \in Emails THEN "email" ELSE "none"

clampSessionLimit(n) ==
  IF n <= 0 THEN defaultRecentSessionLimit ELSE Min({n, maxRecentSessionLimit})

(* The request with its identifier normalized and its limit clamped.       *)
Normalized(t, activeOnly, n) ==
  [type |-> TypeOfIdentifier(t), value |-> Lower[t], activeOnly |-> activeOnly,
   limit |-> clampSessionLimit(n)]

(* The identifier makes sense and the connection is there. *)
Ask(t, activeOnly, n) ==
  /\ pc = "idle"
  /\ TypeOfIdentifier(t) # "none" /\ named \in Postgres
  /\ pc' = "reading"
  /\ req' = Normalized(t, activeOnly, n) /\ conn' = named
  /\ UNCHANGED <<named, data, sections, written>>

(* It does not, there is no such connection or only one of another type,   *)
(* or the file of the connections cannot be read, which any request meets. *)
Refuse ==
  /\ pc = "idle" /\ pc' = "failed"
  /\ UNCHANGED <<named, data, req, conn, sections, written>>

(* What the query of a section may return. *)
Results(key, d) ==
  CASE key = "identities"    -> {Identities(d, req)}
    [] key = "sessions"      -> LatestRows(SessionRows(d, req, req.activeOnly), req.limit)
    [] key = "wallets"       -> {Wallets(d, req)}
    [] key = "organizations" -> {Organizations(d, req)}
    [] key = "members"       -> {Members(d, req)}

(* Faulty variant: the name is looked up again for every section. *)
DatabaseNamed == Tables[data[IF named \in Postgres THEN named ELSE conn]]

Database == Tables[data[conn]]

(* querySection: the next section is read.  The last one completes the     *)
(* answer.                                                                 *)
ReadSection ==
  /\ pc = "reading"
  /\ \E rows \in Results(Keys[Len(sections) + 1], Database) :
       sections' = Append(sections, rows)
  /\ pc' = IF Len(sections') = Len(Keys) THEN "answered" ELSE "reading"
  /\ UNCHANGED <<named, data, req, conn, written>>

(* A query fails, runs out of its 30 s, or the page has gone. *)
SectionFails ==
  /\ pc = "reading"
  /\ pc' = "failed" /\ sections' = <<>>
  /\ UNCHANGED <<named, data, req, conn, written>>

(* The answer or the error is delivered. *)
Deliver ==
  /\ pc \in {"answered", "failed"}
  /\ pc' = "idle" /\ req' = NoReq /\ conn' = NoConn
  /\ sections' = <<>> /\ written' = FALSE
  /\ UNCHANGED <<named, data>>

(* Others save, rename and delete connections. *)
Rename ==
  /\ named' \in (Conns \cup {NoConn}) \ {named}
  /\ UNCHANGED <<data, pc, req, conn, sections, written>>

(* Others write to the database: once a request, while it is being read.   *)
Write ==
  /\ pc = "reading" /\ sections # <<>> /\ ~written
  /\ \E w \in Writes :
       data[conn] = w[1] /\ data' = [data EXCEPT ![conn] = w[2]]
  /\ written' = TRUE
  /\ UNCHANGED <<named, pc, req, conn, sections>>

Next ==
  \/ \E t \in Inputs, activeOnly \in BOOLEAN, n \in Limits : Ask(t, activeOnly, n)
  \/ Refuse \/ ReadSection \/ SectionFails \/ Deliver \/ Rename \/ Write

Spec == Init /\ [][Next]_vars

-----------------------------------------------------------------------------
(* Properties of an answer. *)

Section(key) == sections[CHOOSE i \in DOMAIN Keys : Keys[i] = key]

Answer == pc = "answered"

(* The five queries look for the user each in its own text; when nobody    *)
(* writes in between, they are about the same accounts, whatever happens   *)
(* to the connection's name: the wallets, the organizations and the        *)
(* members are those of the identities (businessquery.go:51-57).           *)
SectionsAgree ==
  Answer /\ ~written =>
    LET ids == Section("identities") IN
    /\ {w.user : w \in Section("wallets")} = {i.wallet : i \in ids}
    /\ {o.org : o \in Section("organizations")} = {i.org : i \in ids} \ {NULL}
    /\ {<<m.member, m.org>> : m \in Section("members")}
         = {<<i.member, i.org>> : i \in {x \in ids : x.member # NULL}}

(* No session of another member of the same organization is shown: they    *)
(* all have the owner's user id, so the wallet alone does not tell them    *)
(* apart (businessquery.go:307-311).                                       *)
SessionsOfIdentities ==
  Answer /\ ~written =>
    \A s \in Section("sessions") : \E i \in Section("identities") :
      /\ s.account = i.account /\ s.user = i.wallet /\ s.member = i.member
      /\ s.org = IF i.member = NULL THEN NULL ELSE i.org

Total(amounts) == Coalesce(amounts.balance, 0) + amounts.gift + amounts.credit

(* What a member can spend adds up over the sections: the owner's capacity *)
(* is the sum of the amounts the organization shows, a suspended           *)
(* organization lends nothing, and a member who is shown as available may  *)
(* spend what is left of both (businessquery.go:442-459).                  *)
CapacityAddsUp ==
  Answer /\ ~written =>
    \A m \in Section("members") :
      /\ \A o \in Section("organizations") :
           o.org = m.org =>
             m.ownerCapacity = Total(o.amounts) /\ (o.status # 1 => m.effective = 0)
      /\ \A i \in Section("identities") :
           i.member = m.member /\ i.available =>
             m.effective = Min({m.remaining, m.ownerCapacity})

(* "最近 20 条 Session" (index.html:658), the latest 20 sessions: as many   *)
(* sessions are shown as there are, up to the limit.                       *)
LatestSessions ==
  Answer /\ ~written =>
    LET found == {s.session : s \in SessionRows(Database, req, req.activeOnly)} IN
    Cardinality({s.session : s \in Section("sessions")})
      = Min({req.limit, Cardinality(found)})

=============================================================================
