---------------------------- MODULE BusinessProofs ----------------------------
(* Proofs about BusinessQuery for any databases, connections, identifiers  *)
(* and limits: what the five queries return is about the same accounts,    *)
(* shows the sessions of these alone and adds up, and every answer that no *)
(* write fell into is made of what they return on one database.            *)
EXTENDS BusinessQuery, SequenceTheorems, TLAPS

-----------------------------------------------------------------------------
(* The queries. *)

(* Every account that the queries start from is an identity of the user... *)
LEMMA AccountIsIdentity ==
  ASSUME NEW d, NEW who, NEW r \in Resolved(d, who)
  PROVE  \E i \in Identities(d, who) :
           /\ i.account = r.account /\ i.wallet = r.wallet
           /\ i.member = r.member /\ i.org = r.org
<1> USE DEF Identity, Account
<1>1. CASE who.type = "email"
  <2> DEFINE email == who.value
  <2>1. ASSUME NEW u \in d.users, Lower[u.email] = email,
               r = Account("PERSONAL", u.id, NULL, NULL)
        PROVE  Identity("PERSONAL", u.id, NULL, NULL, TRUE) \in Identities(d, who)
    BY <1>1, <2>1 DEF Identities, IdentitiesOfEmail
  <2>2. ASSUME NEW a \in d.auths, NEW m \in d.members, NEW o \in d.orgs,
               o.id = m.org, a.member = m.id, Lower[a.login] = email, ~a.deleted,
               r = Account("ORG", o.owner, m.id, o.id)
        PROVE  Identity("ORG", o.owner, m.id, o.id, Usable(a, m, o))
                 \in Identities(d, who)
    <3> DEFINE j == <<a, m, o>>
    <3>1. j \in {x \in d.auths \X d.members \X d.orgs :
                   /\ x[2].id = x[1].member /\ x[3].id = x[2].org
                   /\ Lower[x[1].login] = email /\ ~x[1].deleted}
      BY <2>2
    <3>2. Identity("ORG", j[3].owner, j[2].id, j[3].id, Usable(j[1], j[2], j[3]))
            \in IdentitiesOfEmail(d, email)
      BY <3>1, Zenon DEF IdentitiesOfEmail
    <3>. QED
      BY <1>1, <3>2 DEF Identities
  <2>3. \/ \E u \in d.users : Lower[u.email] = email
             /\ r = Account("PERSONAL", u.id, NULL, NULL)
        \/ \E j \in Logins(d, email) :
             r = Account("ORG", j[2][2].owner, j[2][1].id, j[2][2].id)
    BY <1>1 DEF Resolved
  <2>4. CASE \E u \in d.users : Lower[u.email] = email
               /\ r = Account("PERSONAL", u.id, NULL, NULL)
    <3>1. PICK u \in d.users : Lower[u.email] = email
                             /\ r = Account("PERSONAL", u.id, NULL, NULL)
      BY <2>4
    <3>. QED
      BY <2>1, <3>1
  <2>5. CASE \E j \in Logins(d, email) :
               r = Account("ORG", j[2][2].owner, j[2][1].id, j[2][2].id)
    <3>1. PICK a \in d.auths, m \in d.members, o \in d.orgs :
            /\ o.id = m.org /\ a.member = m.id /\ Lower[a.login] = email /\ ~a.deleted
            /\ r = Account("ORG", o.owner, m.id, o.id)
      BY <2>5 DEF Logins, MembersOfOrgs
    <3>. QED
      BY <2>2, <3>1
  <2>. QED
    BY <2>3, <2>4, <2>5
<1>2. CASE who.type # "email"
  <2> DEFINE uuid == who.value
  <2>1. ASSUME NEW u \in d.users, u.id = uuid,
               r = Account("PERSONAL", u.id, NULL, NULL)
        PROVE  Identity("PERSONAL", u.id, NULL, NULL, TRUE) \in Identities(d, who)
    BY <1>2, <2>1 DEF Identities, IdentitiesOfUuid
  <2>2. ASSUME NEW o \in d.orgs, o.owner = uuid,
               r = Account("ORG_WALLET", o.owner, NULL, o.id)
        PROVE  Identity("ORG_WALLET", o.owner, NULL, o.id, o.status = 1)
                 \in Identities(d, who)
    BY <1>2, <2>2, Zenon DEF Identities, IdentitiesOfUuid
  <2>3. ASSUME NEW m \in d.members, NEW o \in d.orgs, o.id = m.org,
               m.id = uuid \/ Same(m.user, uuid),
               r = Account("ORG_MEMBER", o.owner, m.id, o.id)
        PROVE  \E available \in Available(d, m, o) :
                 Identity("ORG_MEMBER", o.owner, m.id, o.id, available)
                   \in Identities(d, who)
    <3> DEFINE j == <<m, o>>
               J == {x \in d.members \X d.orgs :
                       /\ x[2].id = x[1].org
                       /\ x[1].id = uuid \/ Same(x[1].user, uuid)}
    <3>1. j \in J
      BY <2>3
    <3>2. PICK available : available \in Available(d, j[1], j[2])
      BY DEF Available
    <3> DEFINE Rows(x) == {Identity("ORG_MEMBER", x[2].owner, x[1].id, x[2].id, b) :
                             b \in Available(d, x[1], x[2])}
    <3>3. Identity("ORG_MEMBER", j[2].owner, j[1].id, j[2].id, available) \in Rows(j)
      BY <3>2, Zenon
    <3>4. UNION {Rows(x) : x \in J} \subseteq Identities(d, who)
      BY <1>2, Zenon DEF Identities, IdentitiesOfUuid
    <3>5. Rows(j) \subseteq UNION {Rows(x) : x \in J}
      <4> HIDE DEF Rows, J, j
      <4>. QED
        BY <3>1
    <3>. QED
      BY <3>2, <3>3, <3>4, <3>5
  <2>4. \/ \E u \in d.users : u.id = uuid /\ r = Account("PERSONAL", u.id, NULL, NULL)
        \/ \E o \in d.orgs :
             o.owner = uuid /\ r = Account("ORG_WALLET", o.owner, NULL, o.id)
        \/ \E j \in MembersNamed(d, uuid) :
             r = Account("ORG_MEMBER", j[2].owner, j[1].id, j[2].id)
    BY <1>2 DEF Resolved
  <2>5. CASE \E j \in MembersNamed(d, uuid) :
               r = Account("ORG_MEMBER", j[2].owner, j[1].id, j[2].id)
    <3>1. PICK m \in d.members, o \in d.orgs :
            /\ o.id = m.org /\ (m.id = uuid \/ Same(m.user, uuid))
            /\ r = Account("ORG_MEMBER", o.owner, m.id, o.id)
      BY <2>5 DEF MembersNamed, MembersOfOrgs
    <3>. QED
      BY <2>3, <3>1
  <2>6. CASE \E u \in d.users :
               u.id = uuid /\ r = Account("PERSONAL", u.id, NULL, NULL)
    <3>1. PICK u \in d.users : u.id = uuid /\ r = Account("PERSONAL", u.id, NULL, NULL)
      BY <2>6
    <3>. QED
      BY <2>1, <3>1
  <2>7. CASE \E o \in d.orgs :
               o.owner = uuid /\ r = Account("ORG_WALLET", o.owner, NULL, o.id)
    <3>1. PICK o \in d.orgs :
            o.owner = uuid /\ r = Account("ORG_WALLET", o.owner, NULL, o.id)
      BY <2>7
    <3>. QED
      BY <2>2, <3>1
  <2>. QED
    BY <2>4, <2>5, <2>6, <2>7
<1>. QED
  BY <1>1, <1>2

(* Where an identity with a member comes from: rows of the tables, which   *)
(* say whether it is available.                                            *)
OfMember(d, i) ==
  \E m \in d.members, o \in d.orgs :
    /\ m.org = o.id /\ i.member = m.id /\ i.org = o.id
    /\ i.available => o.status = 1 /\ m.status = 1 /\ ~m.deleted

(* ... and every identity is an account that the queries start from, with  *)
(* the rows it is made of.                                                 *)
LEMMA IdentityIsAccount ==
  ASSUME NEW d, NEW who, NEW i \in Identities(d, who)
  PROVE  /\ \E r \in Resolved(d, who) :
              /\ i.account = r.account /\ i.wallet = r.wallet
              /\ i.member = r.member /\ i.org = r.org
         /\ i.member = NULL \/ OfMember(d, i)
         /\ i.org = NULL \/ \E o \in d.orgs : i.org = o.id
<1> USE DEF Identity, Account
<1>1. CASE who.type = "email"
  <2> DEFINE email == who.value
  <2>1. CASE \E u \in d.users : Lower[u.email] = email
               /\ i = Identity("PERSONAL", u.id, NULL, NULL, TRUE)
    <3>1. PICK u \in d.users : Lower[u.email] = email
                             /\ i = Identity("PERSONAL", u.id, NULL, NULL, TRUE)
      BY <2>1
    <3>2. Account("PERSONAL", u.id, NULL, NULL) \in Resolved(d, who)
      BY <1>1, <3>1 DEF Resolved
    <3>. QED
      BY <3>1, <3>2
  <2>2. CASE \E a \in d.auths, m \in d.members, o \in d.orgs :
               /\ m.id = a.member /\ o.id = m.org /\ Lower[a.login] = email /\ ~a.deleted
               /\ i = Identity("ORG", o.owner, m.id, o.id, Usable(a, m, o))
    <3>1. PICK a \in d.auths, m \in d.members, o \in d.orgs :
            /\ m.id = a.member /\ o.id = m.org /\ Lower[a.login] = email /\ ~a.deleted
            /\ i = Identity("ORG", o.owner, m.id, o.id, Usable(a, m, o))
      BY <2>2
    <3> DEFINE j == <<a, <<m, o>>>>
    <3>2. j \in Logins(d, email)
      BY <3>1 DEF Logins, MembersOfOrgs
    <3>3. {Account("ORG", x[2][2].owner, x[2][1].id, x[2][2].id) : x \in Logins(d, email)}
            \subseteq Resolved(d, who)
      BY <1>1 DEF Resolved
    <3>4. OfMember(d, i)
      BY <3>1 DEF OfMember, Usable
    <3>5. Account("ORG", j[2][2].owner, j[2][1].id, j[2][2].id) \in Resolved(d, who)
      BY <3>2, <3>3, Zenon
    <3>. QED
      BY <3>1, <3>4, <3>5
  <2>. QED
    BY <1>1, <2>1, <2>2 DEF Identities, IdentitiesOfEmail
<1>2. CASE who.type # "email"
  <2> DEFINE uuid == who.value
  <2>1. CASE \E u \in d.users :
               u.id = uuid /\ i = Identity("PERSONAL", u.id, NULL, NULL, TRUE)
    <3>1. PICK u \in d.users :
            u.id = uuid /\ i = Identity("PERSONAL", u.id, NULL, NULL, TRUE)
      BY <2>1
    <3>2. Account("PERSONAL", u.id, NULL, NULL) \in Resolved(d, who)
      BY <1>2, <3>1 DEF Resolved
    <3>. QED
      BY <3>1, <3>2
  <2>2. CASE \E o \in d.orgs :
               /\ o.owner = uuid
               /\ i = Identity("ORG_WALLET", o.owner, NULL, o.id, o.status = 1)
    <3>1. PICK o \in d.orgs :
            /\ o.owner = uuid
            /\ i = Identity("ORG_WALLET", o.owner, NULL, o.id, o.status = 1)
      BY <2>2
    <3>2. Account("ORG_WALLET", o.owner, NULL, o.id) \in Resolved(d, who)
      BY <1>2, <3>1, Zenon DEF Resolved
    <3>. QED
      BY <3>1, <3>2
  <2>3. CASE \E m \in d.members, o \in d.orgs : \E available \in Available(d, m, o) :
               /\ o.id = m.org /\ (m.id = uuid \/ Same(m.user, uuid))
               /\ i = Identity("ORG_MEMBER", o.owner, m.id, o.id, available)
    <3>1. PICK m \in d.members, o \in d.orgs : \E available \in Available(d, m, o) :
            /\ o.id = m.org /\ (m.id = uuid \/ Same(m.user, uuid))
            /\ i = Identity("ORG_MEMBER", o.owner, m.id, o.id, available)
      BY <2>3
    <3>2. PICK available \in Available(d, m, o) :
            /\ o.id = m.org /\ (m.id = uuid \/ Same(m.user, uuid))
            /\ i = Identity("ORG_MEMBER", o.owner, m.id, o.id, available)
      BY <3>1
    <3> DEFINE j == <<m, o>>
    <3>3. j \in MembersNamed(d, uuid)
      BY <3>2 DEF MembersNamed, MembersOfOrgs
    <3>4. {Account("ORG_MEMBER", x[2].owner, x[1].id, x[2].id) :
             x \in MembersNamed(d, uuid)} \subseteq Resolved(d, who)
      BY <1>2 DEF Resolved
    <3>5. Account("ORG_MEMBER", j[2].owner, j[1].id, j[2].id) \in Resolved(d, who)
      BY <3>3, <3>4, Zenon
    <3>6. available => o.status = 1 /\ m.status = 1 /\ ~m.deleted
      BY <3>2 DEF Available, Usable
    <3>7. OfMember(d, i)
      BY <3>2, <3>6 DEF OfMember
    <3>. QED
      BY <3>2, <3>5, <3>7
  <2>. QED
    BY <1>2, <2>1, <2>2, <2>3 DEF Identities, IdentitiesOfUuid
<1>. QED
  BY <1>1, <1>2

(* The wallets and the organizations of the identities are those that the  *)
(* sections list.                                                          *)
LEMMA WalletsAgree ==
  ASSUME NEW d, NEW who
  PROVE  {w.user : w \in Wallets(d, who)} = {i.wallet : i \in Identities(d, who)}
<1>1. ASSUME NEW w \in Wallets(d, who)
      PROVE  w.user \in {i.wallet : i \in Identities(d, who)}
  <2>1. w.user \in {r.wallet : r \in Resolved(d, who)}
    BY DEF Wallets
  <2>. QED
    BY <2>1, AccountIsIdentity
<1>2. ASSUME NEW i \in Identities(d, who)
      PROVE  i.wallet \in {w.user : w \in Wallets(d, who)}
  <2>1. PICK r \in Resolved(d, who) : i.wallet = r.wallet
    BY IdentityIsAccount
  <2> DEFINE row(w) == [user |-> w, amounts |-> Amounts(d, w)]
  <2>2. row(r.wallet) \in Wallets(d, who)
    BY Zenon DEF Wallets
  <2>3. row(r.wallet).user = r.wallet
    OBVIOUS
  <2>. QED
    BY <2>1, <2>2, <2>3
<1>. QED
  BY <1>1, <1>2

LEMMA OrganizationsAgree ==
  ASSUME NEW d, NEW who
  PROVE  {o.org : o \in Organizations(d, who)}
           = {i.org : i \in Identities(d, who)} \ {NULL}
<1>1. ASSUME NEW o \in Organizations(d, who)
      PROVE  o.org \in {i.org : i \in Identities(d, who)} \ {NULL}
  <2>1. o.org \in OrgIDs(d, who)
    BY DEF Organizations
  <2>2. PICK r \in Resolved(d, who) : o.org = r.org /\ r.org # NULL
    BY <2>1 DEF OrgIDs
  <2>. QED
    BY <2>2, AccountIsIdentity
<1>2. ASSUME NEW i \in Identities(d, who), i.org # NULL
      PROVE  i.org \in {o.org : o \in Organizations(d, who)}
  <2>1. PICK x \in d.orgs : i.org = x.id
    BY <1>2, IdentityIsAccount
  <2>2. x.id \in OrgIDs(d, who)
    BY <1>2, <2>1, IdentityIsAccount DEF OrgIDs
  <2> DEFINE row(o) == [org |-> o.id, owner |-> o.owner, status |-> o.status,
                        amounts |-> Amounts(d, o.owner)]
  <2>3. x \in {y \in d.orgs : y.id \in OrgIDs(d, who)}
    BY <2>2
  <2>4. row(x) \in Organizations(d, who)
    BY <2>3, Zenon DEF Organizations
  <2>5. row(x).org = x.id
    OBVIOUS
  <2>. QED
    BY <2>1, <2>4, <2>5
<1>. QED
  BY <1>1, <1>2

(* A row of the members section is made of a member and its organization,  *)
(* and every account of the member is of that organization.                *)
LEMMA MemberOrigin ==
  ASSUME NEW d, NEW who, Keyed(d.members), Keyed(d.orgs), NEW row \in Members(d, who)
  PROVE  \E m \in d.members, o \in d.orgs :
           /\ m.org = o.id /\ row = MemberRow(d, m, o)
           /\ \E i \in Identities(d, who) : i.member = m.id
           /\ \A i \in Identities(d, who) :
                i.member = m.id =>
                  /\ i.org = o.id
                  /\ i.available => o.status = 1 /\ m.status = 1 /\ ~m.deleted
<1>1. PICK j \in d.members \X d.orgs :
        /\ j[1].org = j[2].id /\ j[1].id \in {r.member : r \in Resolved(d, who)}
        /\ row = MemberRow(d, j[1], j[2])
  BY DEF Members
<1>2. PICK m \in d.members, o \in d.orgs :
        /\ m.org = o.id /\ m.id \in {r.member : r \in Resolved(d, who)}
        /\ row = MemberRow(d, m, o)
  BY <1>1
<1>3. \E i \in Identities(d, who) : i.member = m.id
  BY <1>2, AccountIsIdentity
<1>4. ASSUME NEW i \in Identities(d, who), i.member = m.id
      PROVE  /\ i.org = o.id
             /\ i.available => o.status = 1 /\ m.status = 1 /\ ~m.deleted
  <2>1. OfMember(d, i)
    BY <1>4, IdentityIsAccount DEF Keyed
  <2>2. PICK n \in d.members, org \in d.orgs :
          /\ n.org = org.id /\ i.member = n.id /\ i.org = org.id
          /\ i.available => org.status = 1 /\ n.status = 1 /\ ~n.deleted
    BY <2>1 DEF OfMember
  <2>3. n = m
    BY <1>4, <2>2 DEF Keyed
  <2>4. org = o
    BY <1>2, <2>2, <2>3 DEF Keyed
  <2>. QED
    BY <2>2, <2>3, <2>4
<1>. QED
  BY <1>2, <1>3, <1>4

LEMMA MembersAgree ==
  ASSUME NEW d, NEW who, Keyed(d.members), Keyed(d.orgs)
  PROVE  {<<m.member, m.org>> : m \in Members(d, who)}
           = {<<i.member, i.org>> : i \in {x \in Identities(d, who) : x.member # NULL}}
<1>1. ASSUME NEW row \in Members(d, who)
      PROVE  \E i \in Identities(d, who) :
               i.member # NULL /\ i.member = row.member /\ i.org = row.org
  <2>1. PICK m \in d.members, o \in d.orgs :
          /\ m.org = o.id /\ row = MemberRow(d, m, o)
          /\ \E i \in Identities(d, who) : i.member = m.id
          /\ \A i \in Identities(d, who) : i.member = m.id => i.org = o.id
    BY MemberOrigin
  <2>2. row.member = m.id /\ row.org = o.id /\ m.id # NULL
    BY <2>1 DEF MemberRow, Keyed
  <2>. QED
    BY <2>1, <2>2
<1>2. ASSUME NEW i \in Identities(d, who), i.member # NULL
      PROVE  \E row \in Members(d, who) : row.member = i.member /\ row.org = i.org
  <2>1. PICK m \in d.members, o \in d.orgs :
          m.org = o.id /\ i.member = m.id /\ i.org = o.id
    BY <1>2, IdentityIsAccount DEF OfMember
  <2>2. /\ m.id \in {r.member : r \in Resolved(d, who)}
        /\ o.id \in OrgIDs(d, who)
    BY <2>1, IdentityIsAccount DEF OrgIDs, Keyed
  <2> DEFINE j == <<m, o>>
             J == {x \in d.members \X d.orgs :
                     /\ x[1].org = x[2].id /\ x[2].id \in OrgIDs(d, who)
                     /\ x[1].id \in {r.member : r \in Resolved(d, who)}}
  <2>3. j \in J
    BY <2>1, <2>2
  <2>4. MemberRow(d, j[1], j[2]) \in Members(d, who)
    BY <2>3, Zenon DEF Members
  <2>5. /\ MemberRow(d, j[1], j[2]).member = m.id
        /\ MemberRow(d, j[1], j[2]).org = o.id
    BY DEF MemberRow
  <2>. QED
    BY <2>1, <2>4, <2>5
<1>. QED
  BY <1>1, <1>2

(* A session row is one of an identity: its wallet, and its member or none. *)
LEMMA SessionOrigin ==
  ASSUME NEW d, NEW who, NEW activeOnly, NEW s \in SessionRows(d, who, activeOnly)
  PROVE  \E i \in Identities(d, who) :
           /\ s.account = i.account /\ s.user = i.wallet /\ s.member = i.member
           /\ s.org = IF i.member = NULL THEN NULL ELSE i.org
<1>1. PICK j \in Resolved(d, who) \X d.sessions :
        Belongs(j[2], j[1]) /\ s = SessionRow(j[1], j[2])
  BY DEF SessionRows
<1>2. PICK r \in Resolved(d, who), x \in d.sessions :
        Belongs(x, r) /\ s = SessionRow(r, x)
  BY <1>1
<1>3. /\ s.account = r.account /\ s.user = r.wallet /\ s.member = r.member
      /\ s.org = IF r.member = NULL THEN NULL ELSE r.org
  BY <1>2 DEF Belongs, Same, SessionRow
<1>4. PICK i \in Identities(d, who) :
        /\ i.account = r.account /\ i.wallet = r.wallet
        /\ i.member = r.member /\ i.org = r.org
  BY AccountIsIdentity
<1>. QED
  BY <1>3, <1>4

(* What a member may spend is the least of its own limit and of what the   *)
(* organization is shown to have, when it may spend at all.                *)
LEMMA AmountsAgree ==
  ASSUME NEW d, NEW who, Keyed(d.members), Keyed(d.orgs), NEW row \in Members(d, who)
  PROVE  /\ \A o \in Organizations(d, who) :
              o.org = row.org =>
                /\ row.ownerCapacity = Total(o.amounts)
                /\ o.status # 1 => row.effective = 0
         /\ \A i \in Identities(d, who) :
              i.member = row.member /\ i.available =>
                row.effective = Min({row.remaining, row.ownerCapacity})
<1>1. PICK m \in d.members, o \in d.orgs :
        /\ m.org = o.id /\ row = MemberRow(d, m, o)
        /\ \A i \in Identities(d, who) :
             i.member = m.id /\ i.available =>
               o.status = 1 /\ m.status = 1 /\ ~m.deleted
  BY MemberOrigin
<1>2. /\ row.member = m.id /\ row.org = o.id /\ row.remaining = m.remaining
      /\ row.ownerCapacity = OwnerCapacity(d, o) /\ row.effective = Effective(d, m, o)
  BY <1>1 DEF MemberRow
<1>3. ASSUME NEW shown \in Organizations(d, who), shown.org = row.org
      PROVE  /\ row.ownerCapacity = Total(shown.amounts)
             /\ shown.status # 1 => row.effective = 0
  <2>1. PICK x \in d.orgs :
          shown.org = x.id /\ shown.status = x.status /\ shown.amounts = Amounts(d, x.owner)
    BY DEF Organizations
  <2>2. x = o
    BY <1>2, <1>3, <2>1 DEF Keyed
  <2>. QED
    BY <1>2, <2>1, <2>2 DEF Total, Amounts, OwnerCapacity, Effective
<1>4. ASSUME NEW i \in Identities(d, who), i.member = row.member, i.available
      PROVE  row.effective = Min({row.remaining, row.ownerCapacity})
  BY <1>1, <1>2, <1>4 DEF Effective
<1>. QED
  BY <1>3, <1>4

-----------------------------------------------------------------------------
(* The answers. *)

(* What any section may return on any of the databases. *)
Rowsets == UNION {Results(Keys[i], Tables[x]) : i \in 1..5, x \in DOMAIN Tables}

(* The sections are read in the order of Keys, all five before the answer; *)
(* as long as nobody writes, each is a result of its query on what the     *)
(* database is now.                                                        *)
ReadInv ==
  /\ data \in [Conns -> DOMAIN Tables]
  /\ sections \in Seq(Rowsets)
  /\ pc \in {"idle", "failed"} => sections = << >>
  /\ pc = "reading" => conn \in Conns /\ Len(sections) < 5
  /\ pc = "answered" => conn \in Conns /\ Len(sections) = 5
  /\ pc \in {"reading", "answered"} /\ ~written =>
       \A i \in 1..Len(sections) : sections[i] \in Results(Keys[i], Database)

(* The next section is a result of its query on the database of now. *)
LEMMA ReadKeepsInv ==
  ASSUME ReadInv, ReadSection
  PROVE  ReadInv'
<1>0. /\ pc = "reading" /\ conn \in Conns /\ data \in [Conns -> DOMAIN Tables]
      /\ sections \in Seq(Rowsets) /\ Len(sections) < 5
  BY DEF ReadInv, ReadSection
<1>1. /\ pc = "reading" /\ conn \in Conns /\ data[conn] \in DOMAIN Tables
      /\ sections \in Seq(Rowsets) /\ Len(sections) \in 0..4
  <2>1. data[conn] \in DOMAIN Tables
    BY <1>0
  <2>2. PICK n \in Nat : n = Len(sections)
    BY <1>0, LenProperties
  <2>3. n \in 0..4
    BY <1>0, <2>2
  <2>. QED
    BY <1>0, <2>1, <2>2, <2>3
<1>2. PICK rows \in Results(Keys[Len(sections) + 1], Database) :
        sections' = Append(sections, rows)
  BY DEF ReadSection
<1>3. UNCHANGED <<named, data, req, conn, written, Rowsets, Database>>
  BY DEF ReadSection, Rowsets, Results, Database
<1>4. rows \in Rowsets
  BY <1>1, <1>2 DEF Rowsets, Database
<1>5. /\ sections' \in Seq(Rowsets) /\ Len(sections') = Len(sections) + 1
      /\ \A i \in 1..Len(sections) : sections'[i] = sections[i]
      /\ sections'[Len(sections) + 1] = rows
  BY <1>1, <1>2, <1>4, AppendProperties
<1>6. pc' = IF Len(sections') = 5 THEN "answered" ELSE "reading"
  BY DEF ReadSection, Keys
<1>7. ASSUME ~written, NEW i \in 1..Len(sections')
      PROVE  sections'[i] \in Results(Keys[i], Database)'
  <2>1. UNCHANGED Results(Keys[i], Database)
    BY <1>3 DEF Results
  <2>2. CASE i = Len(sections) + 1
    BY <1>2, <1>5, <2>1, <2>2
  <2>3. CASE i # Len(sections) + 1
    BY <1>1, <1>5, <1>7, <2>1, <2>3 DEF ReadInv
  <2>. QED
    BY <2>2, <2>3
<1>. QED
  BY <1>1, <1>3, <1>5, <1>6, <1>7 DEF ReadInv

(* Any step keeps the sections what they are said to be. *)
LEMMA ReadInvHolds == Spec => []ReadInv
<1>1. Init => ReadInv
  BY SchemaAssumption, EmptySeq DEF Init, ReadInv
<1>2. ASSUME ReadInv, [Next]_vars
      PROVE  ReadInv'
  <2>1. CASE UNCHANGED vars
    <3>1. UNCHANGED <<named, data, pc, req, conn, sections, written>>
      BY <2>1 DEF vars
    <3>2. UNCHANGED <<Rowsets, Database>>
      BY <3>1 DEF Rowsets, Results, Database
    <3>3. \A i : UNCHANGED Results(Keys[i], Database)
      BY <3>1, <3>2 DEF Results
    <3>. QED
      BY <1>2, <3>1, <3>2, <3>3 DEF ReadInv
  <2>2. ASSUME NEW t \in Inputs, NEW activeOnly \in BOOLEAN, NEW n \in Limits,
               Ask(t, activeOnly, n)
        PROVE  ReadInv'
    <3>1. /\ sections = << >> /\ UNCHANGED <<data, sections>> /\ pc' = "reading"
          /\ conn' \in Conns
      BY <1>2, <2>2, BusinessAssumption DEF ReadInv, Ask
    <3>. QED
      BY <1>2, <3>1, EmptySeq DEF ReadInv
  <2>3. CASE Refuse
    <3>1. sections = << >> /\ UNCHANGED <<data, sections>> /\ pc' = "failed"
      BY <1>2, <2>3 DEF ReadInv, Refuse
    <3>. QED
      BY <1>2, <3>1, EmptySeq DEF ReadInv
  <2>4. CASE SectionFails \/ Deliver
    <3>1. sections' = << >> /\ UNCHANGED data /\ pc' \in {"failed", "idle"}
      BY <2>4 DEF SectionFails, Deliver
    <3>. QED
      BY <1>2, <3>1, EmptySeq DEF ReadInv
  <2>5. CASE Rename
    <3>1. UNCHANGED <<data, pc, req, conn, sections, written>>
      BY <2>5 DEF Rename
    <3>2. UNCHANGED <<Rowsets, Database>>
      BY <3>1 DEF Rowsets, Results, Database
    <3>3. \A i : UNCHANGED Results(Keys[i], Database)
      BY <3>1, <3>2 DEF Results
    <3>. QED
      BY <1>2, <3>1, <3>2, <3>3 DEF ReadInv
  <2>6. CASE Write
    <3>1. UNCHANGED <<pc, req, conn, sections>> /\ written' = TRUE
      BY <2>6 DEF Write
    <3>2. data' \in [Conns -> DOMAIN Tables]
      <4>1. PICK w \in Writes : data' = [data EXCEPT ![conn] = w[2]]
        BY <2>6 DEF Write
      <4>2. w[2] \in DOMAIN Tables
        BY SchemaAssumption
      <4>. QED
        BY <1>2, <4>1, <4>2 DEF ReadInv
    <3>3. UNCHANGED Rowsets
      BY <3>1 DEF Rowsets, Results
    <3>. QED
      BY <1>2, <3>1, <3>2, <3>3 DEF ReadInv
  <2>. QED
    BY <1>2, <2>1, <2>2, <2>3, <2>4, <2>5, <2>6, ReadKeepsInv DEF Next
<1>. QED
  BY <1>1, <1>2, PTL DEF Spec

(* An answer that no write fell into is made of results on one database,   *)
(* whatever became of the name of its connection.                          *)
LEMMA OneDatabase ==
  ASSUME ReadInv, Answer, ~written
  PROVE  \E d :
           /\ Keyed(d.orgs) /\ Keyed(d.members)
           /\ Section("identities") = Identities(d, req)
           /\ Section("sessions") \subseteq SessionRows(d, req, req.activeOnly)
           /\ Section("wallets") = Wallets(d, req)
           /\ Section("organizations") = Organizations(d, req)
           /\ Section("members") = Members(d, req)
<1>1. Keyed(Database.orgs) /\ Keyed(Database.members)
  BY SchemaAssumption DEF ReadInv, Answer, Database
<1>2. \A i \in 1..5 : sections[i] \in Results(Keys[i], Database)
  BY DEF ReadInv, Answer
<1>3. /\ Section("identities") = sections[1] /\ Section("sessions") = sections[2]
      /\ Section("wallets") = sections[3] /\ Section("organizations") = sections[4]
      /\ Section("members") = sections[5]
  BY DEF Section, Keys
<1>4. /\ Results(Keys[1], Database) = {Identities(Database, req)}
      /\ Results(Keys[2], Database)
           = LatestRows(SessionRows(Database, req, req.activeOnly), req.limit)
      /\ Results(Keys[3], Database) = {Wallets(Database, req)}
      /\ Results(Keys[4], Database) = {Organizations(Database, req)}
      /\ Results(Keys[5], Database) = {Members(Database, req)}
  BY DEF Keys, Results
<1>5. sections[2] \subseteq SessionRows(Database, req, req.activeOnly)
  BY <1>2, <1>4 DEF LatestRows
<1>. QED
  BY <1>1, <1>2, <1>3, <1>4, <1>5

(* The five queries, each with its own text, are about the same accounts.  *)
THEOREM SectionsAgreeHolds == Spec => []SectionsAgree
<1>1. ReadInv => SectionsAgree
  <2> SUFFICES ASSUME ReadInv, Answer, ~written PROVE SectionsAgree
    BY DEF SectionsAgree
  <2>. QED
    BY OneDatabase, WalletsAgree, OrganizationsAgree, MembersAgree DEF SectionsAgree
<1>. QED
  BY <1>1, ReadInvHolds, PTL

(* Only sessions of the identities are shown, of a member only its own.    *)
THEOREM SessionsOfIdentitiesHolds == Spec => []SessionsOfIdentities
<1>1. ReadInv => SessionsOfIdentities
  <2> SUFFICES ASSUME ReadInv, Answer, ~written PROVE SessionsOfIdentities
    BY DEF SessionsOfIdentities
  <2>. QED
    BY OneDatabase, SessionOrigin DEF SessionsOfIdentities
<1>. QED
  BY <1>1, ReadInvHolds, PTL

(* What a member can spend adds up over the sections. *)
THEOREM CapacityAddsUpHolds == Spec => []CapacityAddsUp
<1>1. ReadInv => CapacityAddsUp
  <2> SUFFICES ASSUME ReadInv, Answer, ~written PROVE CapacityAddsUp
    BY DEF CapacityAddsUp
  <2>. QED
    BY OneDatabase, AmountsAgree DEF CapacityAddsUp
<1>. QED
  BY <1>1, ReadInvHolds, PTL

=============================================================================
