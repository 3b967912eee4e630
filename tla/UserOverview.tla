---------------------------- MODULE UserOverview ----------------------------
(***************************************************************************)
(* The five queries of the business overview as operators on a database.   *)
(* A table is a set of rows, a row a record of the columns that decide     *)
(* which rows are found and which amounts are shown; a result is the set   *)
(* of its rows.  NULL is a value that equals nothing, as in SQL.           *)
(*                                                                         *)
(* d has the tables users (User), orgs (SaasOrganization), members         *)
(* (SaasOrgMember), auths (SaasOrgMemberAuth), sessions (UserSession),     *)
(* balances (SaasUserBalance, one row a user at most) and gifts            *)
(* (UserGiftBalanceEntry).  A user is looked for by e-mail address or by a *)
(* uuid, which may be the one of a user, of an owner or of a member.       *)
(***************************************************************************)
EXTENDS Integers, FiniteSetsExt

CONSTANTS
  NULL,
  Lower  \* Lower[t]: LOWER(BTRIM(t)), and ToLower(TrimSpace(t))

Same(a, b) == a # NULL /\ a = b

(* id is the primary key of a table. *)
Keyed(rows) ==
  \A x \in rows : x.id # NULL /\ \A y \in rows : x.id = y.id => x = y

Coalesce(a, b) == IF a = NULL THEN b ELSE a

MembersOfOrgs(d) == {j \in d.members \X d.orgs : j[2].id = j[1].org}

(* Rows of SaasOrgMember and SaasOrganization that a uuid names. *)
MembersNamed(d, uuid) ==
  {j \in MembersOfOrgs(d) : j[1].id = uuid \/ Same(j[1].user, uuid)}

(* Logins of an address, with their member and organization. *)
Logins(d, email) ==
  {j \in d.auths \X MembersOfOrgs(d) :
     /\ j[1].member = j[2][1].id
     /\ Lower[j[1].login] = email /\ ~j[1].deleted}

-----------------------------------------------------------------------------
(* The identities. *)

Usable(a, m, o) ==
  /\ o.status = 1 /\ m.status = 1 /\ ~m.deleted
  /\ ~a.deleted /\ ~a.locked

Identity(account, wallet, member, org, available) ==
  [account |-> account, wallet |-> wallet, member |-> member, org |-> org,
   available |-> available]

(* "available" in the rows of a member: one row a login, or one without.   *)
Available(d, m, o) ==
  LET auths == {a \in d.auths : a.member = m.id} IN
  IF auths = {} THEN {FALSE} ELSE {Usable(a, m, o) : a \in auths}

IdentitiesOfEmail(d, email) ==
  {Identity("PERSONAL", u.id, NULL, NULL, TRUE) :
     u \in {x \in d.users : Lower[x.email] = email}}
  \cup
  {Identity("ORG", j[3].owner, j[2].id, j[3].id, Usable(j[1], j[2], j[3])) :
     j \in {x \in d.auths \X d.members \X d.orgs :
              /\ x[2].id = x[1].member /\ x[3].id = x[2].org
              /\ Lower[x[1].login] = email /\ ~x[1].deleted}}

IdentitiesOfUuid(d, uuid) ==
  {Identity("PERSONAL", u.id, NULL, NULL, TRUE) :
     u \in {x \in d.users : x.id = uuid}}
  \cup
  {Identity("ORG_WALLET", o.owner, NULL, o.id, o.status = 1) :
     o \in {x \in d.orgs : x.owner = uuid}}
  \cup
  UNION {{Identity("ORG_MEMBER", j[2].owner, j[1].id, j[2].id, available) :
            available \in Available(d, j[1], j[2])} :
           j \in {x \in d.members \X d.orgs :
                    /\ x[2].id = x[1].org
                    /\ x[1].id = uuid \/ Same(x[1].user, uuid)}}

Identities(d, who) ==
  IF who.type = "email" THEN IdentitiesOfEmail(d, who.value)
  ELSE IdentitiesOfUuid(d, who.value)

-----------------------------------------------------------------------------
(* The other queries start from the accounts behind the identifier. *)

Account(type, wallet, member, org) ==
  [account |-> type, wallet |-> wallet, member |-> member, org |-> org]

Resolved(d, who) ==
  IF who.type = "email"
  THEN {Account("PERSONAL", u.id, NULL, NULL) :
          u \in {x \in d.users : Lower[x.email] = who.value}}
       \cup
       {Account("ORG", j[2][2].owner, j[2][1].id, j[2][2].id) :
          j \in Logins(d, who.value)}
  ELSE {Account("PERSONAL", u.id, NULL, NULL) :
          u \in {x \in d.users : x.id = who.value}}
       \cup
       {Account("ORG_WALLET", o.owner, NULL, o.id) :
          o \in {x \in d.orgs : x.owner = who.value}}
       \cup
       {Account("ORG_MEMBER", j[2].owner, j[1].id, j[2].id) :
          j \in MembersNamed(d, who.value)}

(* Faulty variant: the member of a session is not looked at. *)
BelongsToWallet(s, r) == Same(s.user, r.wallet)

(* The join condition of the session query. *)
Belongs(s, r) ==
  /\ Same(s.user, r.wallet)
  /\ \/ r.member = NULL /\ s.member = NULL /\ s.org = NULL
     \/ Same(s.member, r.member) /\ Same(s.org, r.org)

SessionRow(r, s) ==
  [account |-> r.account, session |-> s.id, user |-> s.user, member |-> s.member,
   org |-> s.org, active |-> s.active, created |-> s.created]

(* The rows before ORDER BY and LIMIT.  DISTINCT leaves a session twice    *)
(* that belongs to accounts of two types.                                  *)
SessionRows(d, who, activeOnly) ==
  {SessionRow(j[1], j[2]) :
     j \in {x \in Resolved(d, who) \X d.sessions :
              Belongs(x[2], x[1]) /\ (activeOnly => x[2].active)}}

(* The n latest rows; of two rows of one session either may come first. *)
LatestRows(rows, n) ==
  {top \in SUBSET rows :
     /\ Cardinality(top) = Min({n, Cardinality(rows)})
     /\ \A r \in top, q \in rows \ top : r.created >= q.created}

BalancesOf(d, user) == {b \in d.balances : Same(b.user, user)}

(* What the LEFT JOIN shows of a balance: NULL when there is no row. *)
MainBalance(d, user) ==
  IF BalancesOf(d, user) = {} THEN NULL
  ELSE (CHOOSE b \in BalancesOf(d, user) : TRUE).balance

(* The gift subquery: entries that are left and not expired. *)
GiftBalance(d, user) ==
  MapThenSumSet(LAMBDA g : g.amount,
                {g \in d.gifts : g.user = user /\ g.amount > 0 /\ ~g.expired})

(* The credit of an account that is enabled and not overdue. *)
Credit(d, user) ==
  MapThenSumSet(LAMBDA b : Max({b.limit - b.used, 0}),
                {b \in BalancesOf(d, user) : b.enabled /\ ~b.overdue})

Amounts(d, user) ==
  [balance |-> MainBalance(d, user), gift |-> GiftBalance(d, user),
   credit |-> Credit(d, user)]

Wallets(d, who) ==
  {[user |-> w, amounts |-> Amounts(d, w)] :
     w \in {r.wallet : r \in Resolved(d, who)}}

OrgIDs(d, who) == {r.org : r \in Resolved(d, who)} \ {NULL}

Organizations(d, who) ==
  {[org |-> o.id, owner |-> o.owner, status |-> o.status,
    amounts |-> Amounts(d, o.owner)] :
     o \in {x \in d.orgs : x.id \in OrgIDs(d, who)}}

OwnerCapacity(d, o) ==
  Coalesce(MainBalance(d, o.owner), 0) + GiftBalance(d, o.owner) + Credit(d, o.owner)

(* Faulty variant: a suspended organization lends its balance. *)
EffectiveAlways(d, m, o) == Min({m.remaining, OwnerCapacity(d, o)})

Effective(d, m, o) ==
  IF o.status # 1 \/ m.status # 1 \/ m.deleted THEN 0
  ELSE Min({m.remaining, OwnerCapacity(d, o)})

MemberRow(d, m, o) ==
  [member |-> m.id, org |-> o.id, remaining |-> m.remaining,
   ownerCapacity |-> OwnerCapacity(d, o), effective |-> Effective(d, m, o)]

Members(d, who) ==
  {MemberRow(d, j[1], j[2]) :
     j \in {x \in d.members \X d.orgs :
              /\ x[1].org = x[2].id /\ x[2].id \in OrgIDs(d, who)
              /\ x[1].id \in {r.member : r \in Resolved(d, who)}}}

=============================================================================
