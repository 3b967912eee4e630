----------------------------- MODULE AuthProofs ------------------------------
(***************************************************************************)
(* Proofs about AuthService, for any browsers, secrets, session times and  *)
(* clock; and that the page in front of it (WebPage) takes no step of the  *)
(* login that AuthService does not take.  The invariant that carries the   *)
(* safety properties relates each cookie to the login that it was given    *)
(* for: the server itself remembers none.  The invariant of the page       *)
(* relates the panes to the describe calls that are in flight, and each    *)
(* place of the recent tables to what was chosen since.                    *)
(***************************************************************************)
EXTENDS WebPage, ListProofs, FiniteSetTheorems

-----------------------------------------------------------------------------
(* Cutting a time to whole seconds loses less than a second, and two times *)
(* a second or more apart stay apart.                                      *)

LEMMA DivBounds ==
  ASSUME NEW a \in Nat, NEW s \in Nat \ {0}
  PROVE  a \div s \in Nat /\ (a \div s) * s <= a /\ a < (a \div s) * s + s
OBVIOUS

LEMMA EarlierSecond ==
  ASSUME NEW a \in Nat, NEW b \in Nat, NEW s \in Nat \ {0}, a \div s < b \div s
  PROVE  a < b
<1>1. a \div s + 1 <= b \div s
  BY DivBounds
<1>2. (a \div s + 1) * s <= (b \div s) * s
  BY <1>1, DivBounds
<1> QED
  BY <1>2, DivBounds

LEMMA SecondApart ==
  ASSUME NEW a \in Nat, NEW b \in Nat, NEW s \in Nat \ {0}, a + s <= b
  PROVE  a \div s < b \div s
<1> SUFFICES ASSUME b \div s <= a \div s PROVE FALSE
  BY DivBounds
<1>1. (b \div s) * s <= (a \div s) * s
  BY DivBounds
<1> QED
  BY <1>1, DivBounds

-----------------------------------------------------------------------------
(* What a session's cookie says of it, and why no browser drops it early.  *)

Grants(c, s) ==
  /\ c.user = s.user /\ c.key = s.secret
  /\ c.exp = (s.at + s.ttl) \div Second
  /\ s.at + s.ttl < c.keep + Second

CookieOfSession ==
  \A b \in Browsers :
    /\ jar[b] # NoCookie => session[b] # NoCookie /\ Grants(jar[b], session[b])
    /\ session[b] # NoCookie /\ jar[b] = NoCookie =>
         session[b].at + session[b].ttl < now + Second

AuthInv == AuthTypeOK /\ CookieOfSession

-----------------------------------------------------------------------------

LEMMA ServiceType ==
  ASSUME NEW env \in Environment
  PROVE  LET a == NewAuthServiceFromEnv(env) IN
         /\ a \in [user : Names \cup {Unset}, password : Passwords \cup {Unset},
                   secret : Secrets \cup {Unset}, ttl : Nat]
         /\ Unset \notin {a.user, a.password, a.secret} => a.ttl > 0
BY AuthAssumption DEF NewAuthServiceFromEnv, Environment, Off, SessionTTL

LEMMA InitAuthInv == AuthInit => AuthInv
<1> SUFFICES ASSUME AuthInit PROVE AuthInv
  OBVIOUS
<1>1. AuthTypeOK
  BY ServiceType DEF AuthInit, AuthTypeOK, Enabled
<1>2. CookieOfSession
  BY DEF AuthInit, CookieOfSession
<1> QED
  BY <1>1, <1>2 DEF AuthInv

LEMMA LoginKeeps ==
  ASSUME AuthInv, NEW b \in Browsers, Login(b)
  PROVE  AuthInv'
<1> USE AuthAssumption, NoCookieAssumption
<1>1. PICK user \in Names, password \in Passwords :
        /\ Credentials(user, password)
        /\ jar' = [jar EXCEPT ![b] = [user |-> TrimSpace[user], exp |-> Expiry,
                                      key |-> auth.secret, keep |-> KeptUntil]]
  BY DEF Login
<1> DEFINE c == [user |-> TrimSpace[user], exp |-> Expiry,
                 key |-> auth.secret, keep |-> KeptUntil]
           s == [user |-> auth.user, secret |-> auth.secret,
                 at |-> now, ttl |-> auth.ttl]
<1>2. Enabled /\ TrimSpace[user] = auth.user
  BY <1>1 DEF Credentials
<1>3. /\ now \in Nat /\ auth.ttl \in Nat \ {0}
      /\ auth.user \in Names /\ auth.secret \in Secrets
  BY <1>2 DEF AuthInv, AuthTypeOK, Enabled
<1>4. /\ Expiry \in Nat /\ Expiry * Second <= now + auth.ttl
      /\ now + auth.ttl < Expiry * Second + Second
  <2>1. now + auth.ttl \in Nat
    BY <1>3
  <2> QED
    BY <2>1, DivBounds DEF Expiry
<1>5. /\ auth.ttl \div Second \in Nat /\ (auth.ttl \div Second) * Second \in Nat
      /\ auth.ttl < (auth.ttl \div Second) * Second + Second
  <2>1. auth.ttl \div Second \in Nat /\ auth.ttl < (auth.ttl \div Second) * Second + Second
    BY <1>3, DivBounds
  <2> QED
    BY <2>1
<1>6. Expiry * Second \in Nat
  BY <1>4
<1>7. KeptUntil \in Nat /\ now + auth.ttl < KeptUntil + Second
  <2>1. CASE auth.ttl \div Second > 0
    BY <2>1, <1>3, <1>5 DEF KeptUntil
  <2>2. CASE ~(auth.ttl \div Second > 0)
    BY <2>2, <1>3, <1>4, <1>6 DEF KeptUntil
  <2> QED
    BY <2>1, <2>2
<1>8. c \in Cookies /\ s \in Sessions
  BY <1>2, <1>3, <1>4, <1>7 DEF Cookies, Sessions
<1>9. Grants(c, s)
  BY <1>2, <1>7 DEF Grants, Expiry
<1> HIDE DEF c, s
<1>10. jar' = [jar EXCEPT ![b] = c] /\ session' = [session EXCEPT ![b] = s]
  BY <1>1 DEF Login, c, s
<1>11. now' = now /\ auth' = auth
  BY DEF Login
<1>12. AuthTypeOK'
  BY <1>8, <1>10, <1>11 DEF AuthInv, AuthTypeOK, Enabled
<1>13. CookieOfSession'
  BY <1>8, <1>9, <1>10, <1>11 DEF AuthInv, AuthTypeOK, CookieOfSession, Grants
<1> QED
  BY <1>12, <1>13 DEF AuthInv

LEMMA LogoutKeeps ==
  ASSUME AuthInv, NEW b \in Browsers, Logout(b)
  PROVE  AuthInv'
<1>1. AuthTypeOK'
  BY DEF AuthInv, AuthTypeOK, Logout, ClearCookie, Enabled
<1>2. CookieOfSession'
  BY DEF AuthInv, AuthTypeOK, CookieOfSession, Logout, ClearCookie, Grants
<1> QED
  BY <1>1, <1>2 DEF AuthInv

(* A cookie is past its age only when its session is nearly over.          *)
LEMMA ForgetKeeps ==
  ASSUME AuthInv, NEW b \in Browsers, Forget(b)
  PROVE  AuthInv'
<1>1. AuthTypeOK'
  BY DEF AuthInv, AuthTypeOK, Forget, Enabled
<1>2. /\ session[b] \in Sessions /\ jar[b] \in Cookies
      /\ session[b].at + session[b].ttl < jar[b].keep + Second
      /\ jar[b].keep <= now
  BY DEF AuthInv, AuthTypeOK, CookieOfSession, Forget, Grants, Cookies
<1>3. session[b].at + session[b].ttl < now + Second
  BY <1>2, AuthAssumption DEF AuthInv, AuthTypeOK, Sessions, Cookies
<1>4. CookieOfSession'
  BY <1>3 DEF AuthInv, AuthTypeOK, CookieOfSession, Forget, Grants
<1> QED
  BY <1>1, <1>4 DEF AuthInv

LEMMA TickKeeps ==
  ASSUME AuthInv, Tick
  PROVE  AuthInv'
<1>1. AuthTypeOK'
  BY DEF AuthInv, AuthTypeOK, Tick, Enabled
<1>2. ASSUME NEW b \in Browsers, session[b] # NoCookie,
             session[b].at + session[b].ttl < now + Second
      PROVE  session[b].at + session[b].ttl < now' + Second
  BY <1>2, AuthAssumption DEF AuthInv, AuthTypeOK, Tick, Sessions
<1>3. CookieOfSession'
  BY <1>2 DEF AuthInv, CookieOfSession, Tick, Grants
<1> QED
  BY <1>1, <1>3 DEF AuthInv

LEMMA RestartKeeps ==
  ASSUME AuthInv, Restart
  PROVE  AuthInv'
<1>1. AuthTypeOK'
  BY ServiceType DEF AuthInv, AuthTypeOK, Restart, Enabled
<1>2. CookieOfSession'
  BY DEF AuthInv, CookieOfSession, Restart, Grants
<1> QED
  BY <1>1, <1>2 DEF AuthInv

LEMMA StepKeepsAuthInv == AuthInv /\ [AuthNext]_authVars => AuthInv'
<1> SUFFICES ASSUME AuthInv, [AuthNext]_authVars PROVE AuthInv'
  OBVIOUS
<1>1. ASSUME NEW b \in Browsers, Login(b) PROVE AuthInv'
  BY <1>1, LoginKeeps
<1>2. ASSUME NEW b \in Browsers, Logout(b) PROVE AuthInv'
  BY <1>2, LogoutKeeps
<1>3. ASSUME NEW b \in Browsers, Forget(b) PROVE AuthInv'
  BY <1>3, ForgetKeeps
<1>4. CASE Tick
  BY <1>4, TickKeeps
<1>5. CASE Restart
  BY <1>5, RestartKeeps
<1>6. CASE UNCHANGED authVars
  BY <1>6 DEF authVars, AuthInv, AuthTypeOK, CookieOfSession, Grants, Enabled
<1> QED
  BY <1>1, <1>2, <1>3, <1>4, <1>5, <1>6 DEF AuthNext

-----------------------------------------------------------------------------

LEMMA AuthInvLocks == AuthInv => Locked
<1> SUFFICES ASSUME AuthInv, NEW b \in Browsers,
                    NEW path \in PrivatePages \cup PrivateCalls,
                    Enabled, Answer(path, jar[b]) = "handled"
             PROVE  /\ session[b] # NoCookie
                    /\ session[b].user = auth.user /\ session[b].secret = auth.secret
                    /\ now < session[b].at + session[b].ttl
  BY DEF Locked
<1>1. Authenticated(jar[b])
  BY DEF Answer, PrivatePages, PrivateCalls, PublicPaths
<1>2. jar[b] # NoCookie /\ Verified(jar[b]) /\ Alive(jar[b])
  BY <1>1 DEF Authenticated
<1>3. session[b] # NoCookie /\ Grants(jar[b], session[b])
  BY <1>2 DEF AuthInv, CookieOfSession
<1>4. session[b] \in Sessions /\ now \in Nat
  BY <1>3 DEF AuthInv, AuthTypeOK
<1>5. now \div Second < (session[b].at + session[b].ttl) \div Second
  BY <1>2, <1>3 DEF Alive, Grants
<1>6. now < session[b].at + session[b].ttl
  BY <1>4, <1>5, EarlierSecond, AuthAssumption DEF Sessions
<1> QED
  BY <1>2, <1>3, <1>6 DEF Verified, Grants

LEMMA AuthInvLasts == AuthInv => SessionLasts
<1> SUFFICES ASSUME AuthInv, NEW b \in Browsers,
                    session[b] # NoCookie,
                    session[b].user = auth.user, session[b].secret = auth.secret,
                    now + Second <= session[b].at + session[b].ttl
             PROVE  Authenticated(jar[b])
  BY DEF SessionLasts, Answer, PrivatePages, PrivateCalls, PublicPaths
<1>1. session[b] \in Sessions /\ now \in Nat
  BY DEF AuthInv, AuthTypeOK
<1>2. jar[b] # NoCookie
  BY <1>1, AuthAssumption DEF AuthInv, CookieOfSession, Sessions
<1>3. Grants(jar[b], session[b])
  BY <1>2 DEF AuthInv, CookieOfSession
<1>4. now \div Second < (session[b].at + session[b].ttl) \div Second
  <2>1. session[b].at + session[b].ttl \in Nat
    BY <1>1 DEF Sessions
  <2> QED
    BY <1>1, <2>1, SecondApart, AuthAssumption
<1> QED
  BY <1>2, <1>3, <1>4 DEF Authenticated, Verified, Alive, Grants

(* The type invariant of the login.                                        *)
THEOREM AuthTypeCorrect == AuthSpec => []AuthTypeOK
<1>1. AuthInv => AuthTypeOK
  BY DEF AuthInv
<1> QED
  BY <1>1, InitAuthInv, StepKeepsAuthInv, PTL DEF AuthSpec

(* A private page or call is handled only within a live session.           *)
THEOREM LockedHolds == AuthSpec => []Locked
BY InitAuthInv, StepKeepsAuthInv, AuthInvLocks, PTL DEF AuthSpec

(* A login lasts up to a second before its time is over.                   *)
THEOREM SessionLastsHolds == AuthSpec => []SessionLasts
BY InitAuthInv, StepKeepsAuthInv, AuthInvLasts, PTL DEF AuthSpec

-----------------------------------------------------------------------------

LEMMA PageStepsOfAuth == [WebNext]_webVars => [AuthNext]_authVars
<1> SUFFICES ASSUME [WebNext]_webVars PROVE [AuthNext]_authVars
  OBVIOUS
<1>1. CASE LeavePage
  BY <1>1, PageAssumption DEF LeavePage, AuthNext
<1>2. CASE Open \/ TypeQuery \/ SwitchTab \/ ClearRecentTables
  BY <1>2 DEF Open, TypeQuery, SwitchTab, ClearRecentTables
<1>3. ASSUME NEW table \in Tables, SelectTable(table) PROVE UNCHANGED authVars
  BY <1>3 DEF SelectTable
<1>4. ASSUME NEW i \in DOMAIN calls, DescribeAnswered(i) \/ DescribeLost(i)
      PROVE  UNCHANGED authVars
  BY <1>4 DEF DescribeAnswered, DescribeLost
<1>5. CASE ServerNext
  BY <1>5 DEF ServerNext, AuthNext
<1>6. CASE UNCHANGED webVars
  BY <1>6 DEF webVars
<1> QED
  BY <1>1, <1>2, <1>3, <1>4, <1>5, <1>6 DEF WebNext, PageNext

(* The login behaves behind the page as it does alone, so that what holds  *)
(* of it alone holds of the two together.                                  *)
THEOREM WebImplementsAuth == WebSpec => AuthSpec
<1>1. WebInit => AuthInit
  BY DEF WebInit
<1> QED
  BY <1>1, PageStepsOfAuth, PTL DEF WebSpec, AuthSpec

(* Behind the page, a private page or call is handled only within a live   *)
(* session.                                                                *)
THEOREM WebLocked == WebSpec => []Locked
BY WebImplementsAuth, LockedHolds

-----------------------------------------------------------------------------

(* While a call is in flight that was not overtaken, the latest one is for *)
(* the highlighted table and the panel is on the screen; what leaving the  *)
(* panel put by is what the query box will show again.                     *)
PaneInv ==
  /\ calls \in Seq(Tables) /\ upset \in BOOLEAN
  /\ active # NoTable /\ ~upset =>
       /\ calls = << >> =>
            /\ structure \in {active, "error"} /\ box \in {active, "typed"}
            /\ tab # "db" => kept \in {active, "typed"}
       /\ calls # << >> => tab = "db" /\ calls[Len(calls)] = active

LEMMA AppendFacts ==
  ASSUME NEW s \in Seq(Tables), NEW e \in Tables
  PROVE  /\ Append(s, e) \in Seq(Tables) /\ Append(s, e) # << >>
         /\ Append(s, e)[Len(Append(s, e))] = e
OBVIOUS

LEMMA SelectKeepsPane ==
  ASSUME PaneInv, NEW table \in Tables, SelectTable(table)
  PROVE  PaneInv'
<1>1. /\ calls' = Append(calls, table) /\ active' = table
      /\ tab = "db" /\ tab' = tab /\ upset' = (upset /\ calls # << >>)
  BY DEF SelectTable, tabs
<1>2. /\ calls' \in Seq(Tables) /\ calls' # << >>
      /\ calls'[Len(calls')] = table
  BY <1>1, AppendFacts DEF PaneInv
<1>3. upset' \in BOOLEAN
  BY <1>1
<1> QED
  BY <1>1, <1>2, <1>3 DEF PaneInv

LEMMA DroppedFacts ==
  ASSUME NEW s \in Seq(Tables), NEW i \in 1..Len(s)
  PROVE  LET t == SubSeq(s, 1, i - 1) \o SubSeq(s, i + 1, Len(s))
         IN  /\ t \in Seq(Tables)
             /\ t = << >> => i = Len(s)
             /\ i = 1 /\ t # << >> => t[Len(t)] = s[Len(s)]
<1> DEFINE u == SubSeq(s, 1, i - 1)
           v == SubSeq(s, i + 1, Len(s))
           n == Len(s)
           t == u \o v
<1>1. n \in Nat /\ i \in Nat /\ 1 <= i /\ i <= n
  OBVIOUS
<1>2. u \in Seq(Tables) /\ Len(u) = i - 1
  <2>1. \A k \in 1..(i - 1) : s[k] \in Tables
    BY <1>1
  <2> QED
    BY <1>1, <2>1
<1>3. /\ v \in Seq(Tables) /\ Len(v) = n - i
      /\ \A k \in 1..(n - i) : v[k] = s[i + k]
  <2>1. \A k \in (i + 1)..n : s[k] \in Tables
    BY <1>1
  <2> QED
    BY <1>1, <2>1
<1> HIDE DEF u, v
<1>4. /\ t \in Seq(Tables) /\ Len(t) = n - 1
      /\ \A k \in 1..(n - 1) : t[k] = IF k <= i - 1 THEN u[k] ELSE v[k - (i - 1)]
  <2>1. Len(u) + Len(v) = n - 1
    BY <1>1, <1>2, <1>3
  <2>2. /\ t \in Seq(Tables) /\ Len(t) = Len(u) + Len(v)
        /\ \A k \in 1..(Len(u) + Len(v)) :
             t[k] = IF k <= Len(u) THEN u[k] ELSE v[k - Len(u)]
    BY <1>2, <1>3, ConcatProperties
  <2> QED
    BY <1>2, <2>1, <2>2
<1> HIDE DEF n, t
<1>5. t = << >> => i = n
  <2>1. t = << >> => n - 1 = 0
    BY <1>4, EmptySeq
  <2> QED
    BY <1>1, <2>1
<1>6. ASSUME i = 1, t # << >> PROVE t[Len(t)] = s[n]
  <2>1. Len(t) # 0
    BY <1>4, <1>6, EmptySeq
  <2>2. n - 1 \in 1..(n - i) /\ Len(u) = 0
    BY <1>1, <1>2, <1>4, <1>6, <2>1
  <2>3. t[n - 1] = v[n - 1]
    BY <1>1, <1>4, <1>6, <2>2
  <2> QED
    BY <1>1, <1>3, <1>4, <1>6, <2>2, <2>3
<1> QED
  BY <1>4, <1>5, <1>6 DEF u, v, n, t

LEMMA AnswerKeepsPane ==
  ASSUME PaneInv, NEW i \in DOMAIN calls, DescribeAnswered(i) \/ DescribeLost(i)
  PROVE  PaneInv'
<1>1. calls' = Dropped(i) /\ UNCHANGED <<tab, kept, active>>
  BY DEF DescribeAnswered, DescribeLost, tabs
<1>2. calls \in Seq(Tables) /\ i \in 1..Len(calls)
  BY DEF PaneInv
<1>3. /\ calls' \in Seq(Tables)
      /\ calls' = << >> => i = Len(calls)
      /\ i = 1 /\ calls' # << >> => calls'[Len(calls')] = calls[Len(calls)]
  BY <1>1, <1>2, DroppedFacts DEF Dropped
<1>4. CASE DescribeLost(i)
  BY <1>3, <1>4 DEF DescribeLost, PaneInv
<1>5. CASE DescribeAnswered(i)
  <2>1. /\ structure' \in {calls[i], "error"} /\ box' = calls[i]
        /\ upset' = (upset \/ i > 1)
    BY <1>5 DEF DescribeAnswered
  <2>2. upset' \in BOOLEAN
    BY <2>1
  <2>3. ASSUME active' # NoTable, ~upset'
        PROVE  /\ i = 1 /\ calls # << >> /\ tab' = "db"
               /\ calls[Len(calls)] = active'
    <3>1. ~upset /\ ~(i > 1)
      BY <2>1, <2>3
    <3>2. i = 1
      BY <1>2, <3>1
    <3>3. calls # << >>
      BY <1>2, EmptySeq
    <3> QED
      BY <1>1, <2>3, <3>1, <3>2, <3>3 DEF PaneInv
  <2>4. ASSUME active' # NoTable, ~upset', calls' = << >>
        PROVE  structure' \in {active', "error"} /\ box' = active'
    BY <1>3, <2>1, <2>3, <2>4
  <2>5. ASSUME active' # NoTable, ~upset', calls' # << >>
        PROVE  calls'[Len(calls')] = active'
    BY <1>3, <2>3, <2>5
  <2> QED
    BY <1>3, <2>2, <2>3, <2>4, <2>5 DEF PaneInv
<1> QED
  BY <1>4, <1>5

LEMMA StepKeepsPane ==
  ASSUME PaneInv, [WebNext]_webVars
  PROVE  PaneInv'
<1>1. CASE Open \/ LeavePage
  <2>1. active' = NoTable /\ calls' = << >> /\ upset' = FALSE
    BY <1>1 DEF Open, LeavePage, Blank
  <2> QED
    BY <2>1, EmptySeq DEF PaneInv
<1>2. CASE TypeQuery
  BY <1>2 DEF TypeQuery, tabs, PaneInv
<1>3. CASE SwitchTab
  <2>1. /\ UNCHANGED <<active, structure, calls>>
        /\ upset' = (upset \/ calls # << >>)
        /\ \/ tab = "db" /\ tab' = "other" /\ kept' = box /\ box' = box
           \/ tab # "db" /\ tab' = "db" /\ box' = kept
    BY <1>3 DEF SwitchTab, Kept
  <2>2. upset' \in BOOLEAN
    BY <2>1
  <2>3. ASSUME active # NoTable, ~upset'
        PROVE  ~upset /\ calls = << >>
    BY <2>1, <2>3
  <2> QED
    BY <2>1, <2>2, <2>3 DEF PaneInv
<1>4. CASE ClearRecentTables \/ ServerNext \/ UNCHANGED webVars
  <2>1. UNCHANGED <<panes, tabs>>
    BY <1>4 DEF ClearRecentTables, ServerNext, webVars, pageVars
  <2> QED
    BY <2>1 DEF panes, tabs, PaneInv
<1> QED
  BY <1>1, <1>2, <1>3, <1>4, SelectKeepsPane, AnswerKeepsPane DEF WebNext, PageNext

(* The panel shows the table that is highlighted, for any number of tables *)
(* and of calls in flight.                                                 *)
THEOREM PaneOfActiveTableHolds == WebSpec => []PaneOfActiveTable
<1>1. WebInit => PaneInv
  BY EmptySeq DEF WebInit, PageInit, PaneInv
<1>2. PaneInv => PaneOfActiveTable
  BY DEF PaneInv, PaneOfActiveTable
<1> QED
  BY <1>1, <1>2, StepKeepsPane, PTL DEF WebSpec

-----------------------------------------------------------------------------
(* The recent tables. *)

(* r has the seen tables whose rank is below the limit, each in the place  *)
(* of its rank.                                                            *)
Ranked(r, Seen, rank) ==
  \A u \in Tables, i \in Nat \ {0} :
    i \in DOMAIN r /\ r[i] = u <=> i <= MAX_RECENT_TABLES /\ u \in Seen /\ rank[u] = i - 1

(* What PushRecent makes of a list r of N tables that has t in place q, or *)
(* nowhere when q is behind the last: t comes first, what was before it    *)
(* moves down by one, and what is beyond the limit falls off.              *)
Pushed(w, n, r, N, t, q) ==
  /\ w = Cut(<<t>> \o Others(r, t)) /\ DOMAIN w = 1..n /\ w[1] = t
  /\ n <= MAX_RECENT_TABLES
  /\ n = MAX_RECENT_TABLES \/ n = IF q = N + 1 THEN N + 1 ELSE N
  /\ n <= IF q = N + 1 THEN N + 1 ELSE N
  /\ \A k \in Nat \ {0} : k + 1 <= n => w[k + 1] = IF k < q THEN r[k] ELSE r[k + 1]

LEMMA PushedList ==
  ASSUME NEW r \in Seq(Tables), NEW t \in Tables,
         NEW N \in Nat, N = Len(r), DOMAIN r = 1..N, NEW q \in 1..(N + 1),
         \A i \in 1..N : r[i] = t <=> i = q
  PROVE  \E w \in Seq(Tables), n \in Nat \ {0} : Pushed(w, n, r, N, t, q)
<1>1. PICK M \in Nat \ {0} : M = MAX_RECENT_TABLES
  BY PageAssumption
<1>2. Others(r, t) = Sift(r, DOMAIN r \ {q})
  <2>1. {i \in DOMAIN r : r[i] # t} = DOMAIN r \ {q}
    OBVIOUS
  <2>. QED
    BY <2>1 DEF Others
<1>3. PICK o \in Seq(Tables) :
        /\ o = Others(r, t)
        /\ Len(o) = IF q = Len(r) + 1 THEN Len(r) ELSE Len(r) - 1
        /\ \A k \in 1..Len(o) : o[k] = IF k < q THEN r[k] ELSE r[k + 1]
  <2>1. PICK o : o = Sift(r, DOMAIN r \ {q})
    OBVIOUS
  <2>2. /\ o \in Seq(Tables)
        /\ Len(o) = IF q = Len(r) + 1 THEN Len(r) ELSE Len(r) - 1
        /\ \A k \in 1..Len(o) : o[k] = IF k < q THEN r[k] ELSE r[k + 1]
    BY <2>1, SiftWithoutOne
  <2>. QED
    BY <1>2, <2>1, <2>2
<1>4. PICK K \in Nat : K = Len(o)
  BY LenProperties
<1>5. /\ K + 1 = IF q = N + 1 THEN N + 1 ELSE N
      /\ \A k \in 1..K : o[k] = IF k < q THEN r[k] ELSE r[k + 1]
  <2>1. K = IF q = N + 1 THEN N ELSE N - 1
    BY <1>3, <1>4
  <2>2. \A k \in 1..K : o[k] = IF k < q THEN r[k] ELSE r[k + 1]
    BY <1>3, <1>4
  <2>. QED
    BY <2>1, <2>2
<1>6. PICK s \in Seq(Tables) :
        /\ s = <<t>> \o o /\ Len(s) = K + 1 /\ s[1] = t
        /\ \A k \in 1..K : s[k + 1] = o[k]
  <2>1. PICK h \in Seq(Tables) : h = <<t>> /\ Len(h) = 1 /\ h[1] = t
    <3>1. <<t>> \in Seq(Tables) /\ Len(<<t>>) = 1 /\ <<t>>[1] = t
      OBVIOUS
    <3>. QED
      BY <3>1, Zenon
  <2>2. PICK s : s = h \o o
    OBVIOUS
  <2>3. /\ s \in Seq(Tables) /\ Len(s) = Len(h) + Len(o)
        /\ \A k \in 1..(Len(h) + Len(o)) :
             s[k] = IF k <= Len(h) THEN h[k] ELSE o[k - Len(h)]
    BY <2>2, ConcatProperties
  <2>4. /\ Len(s) = 1 + K
        /\ \A k \in 1..(1 + K) : s[k] = IF k <= 1 THEN h[k] ELSE o[k - 1]
    BY <1>4, <2>1, <2>3
  <2>5. s[1] = t
    BY <2>1, <2>4
  <2>6. ASSUME NEW k \in 1..K PROVE s[k + 1] = o[k]
    <3>1. k + 1 \in 1..(1 + K) /\ ~(k + 1 <= 1) /\ (k + 1) - 1 = k
      OBVIOUS
    <3>. QED
      BY <2>4, <3>1
  <2>7. Len(s) = K + 1
    BY <2>4
  <2>8. s = <<t>> \o o
    BY <2>1, <2>2, Zenon
  <2>. QED
    BY <2>3, <2>5, <2>6, <2>7, <2>8, Zenon
<1>7. PICK n \in Nat \ {0} : n = IF K + 1 < M THEN K + 1 ELSE M
  OBVIOUS
<1>8. PICK w \in Seq(Tables) :
        /\ w = Cut(s) /\ DOMAIN w = 1..n
        /\ \A i \in 1..n : w[i] = s[i]
  <2>1. Cut(s) = SubSeq(s, 1, n)
    BY <1>1, <1>6, <1>7 DEF Cut
  <2>2. \A i \in 1..n : s[i] \in Tables
    <3>1. \A i \in 1..n : i \in 1..Len(s)
      BY <1>6, <1>7
    <3>. QED
      BY <3>1, ElementOfSeq
  <2>3. 1 \in Int /\ n \in Int /\ n - 1 + 1 = n
    OBVIOUS
  <2>4. PICK w : w = SubSeq(s, 1, n)
    OBVIOUS
  <2>5. /\ w \in Seq(Tables) /\ Len(w) = n
        /\ \A i \in 1..n : w[i] = s[i]
    BY <1>7, <2>2, <2>3, <2>4, SubSeqProperties
  <2>. QED
    BY <2>1, <2>4, <2>5, LenProperties
<1>9. w = Cut(<<t>> \o Others(r, t))
  BY <1>3, <1>6, <1>8
<1>10. w[1] = t
  <2>1. 1 \in 1..n
    OBVIOUS
  <2>. QED
    BY <1>6, <1>8, <2>1
<1>11. ASSUME NEW k \in Nat \ {0}, k + 1 <= n
       PROVE  w[k + 1] = IF k < q THEN r[k] ELSE r[k + 1]
  <2>1. k \in 1..K /\ k + 1 \in 1..n
    BY <1>7, <1>11
  <2>. QED
    BY <1>5, <1>6, <1>8, <2>1
<1>12. /\ n <= M /\ (n = M \/ n = K + 1) /\ n <= K + 1
  BY <1>7
<1>13. /\ n <= MAX_RECENT_TABLES
       /\ n = MAX_RECENT_TABLES \/ n = IF q = N + 1 THEN N + 1 ELSE N
       /\ n <= IF q = N + 1 THEN N + 1 ELSE N
  BY <1>1, <1>5, <1>12
<1>. QED
  BY <1>8, <1>9, <1>10, <1>11, <1>13, Zenon DEF Pushed

(* PushRecent on such a list: table t comes first, those that were before  *)
(* it move down by one, and those behind it stay where they are.           *)
LEMMA PushKeepsRanks ==
  ASSUME NEW r \in Seq(Tables), NEW t \in Tables, NEW Seen \in SUBSET Tables,
         NEW c \in [Tables -> Nat], NEW d \in [Tables -> Nat],
         Ranked(r, Seen, c), d[t] = 0,
         \A u \in Seen \ {t} :
           /\ t \in Seen => c[t] # c[u]
           /\ d[u] = IF t \in Seen /\ c[t] < c[u] THEN c[u] ELSE c[u] + 1
  PROVE  /\ Cut(<<t>> \o Others(r, t)) \in Seq(Tables)
         /\ Ranked(Cut(<<t>> \o Others(r, t)), Seen \cup {t}, d)
<1>0. PICK M \in Nat \ {0} : M = MAX_RECENT_TABLES
  BY PageAssumption
<1>1. PICK L \in Nat : L = Len(r) /\ DOMAIN r = 1..L
  BY LenProperties
<1>2. \A i \in 1..L : r[i] \in Seen /\ c[r[i]] = i - 1 /\ i <= M
  <2> TAKE i \in 1..L
  <2>1. PICK u \in Tables : u = r[i]
    BY <1>1, ElementOfSeq
  <2>2. i \in Nat \ {0}
    OBVIOUS
  <2>3. i <= M /\ u \in Seen /\ c[u] = i - 1
    BY <1>0, <1>1, <2>1, <2>2 DEF Ranked
  <2>. QED
    BY <2>1, <2>3
<1>3. ASSUME NEW u \in Seen, NEW i \in Nat \ {0}, c[u] = i - 1, i <= M
      PROVE  i <= L /\ r[i] = u
  <2>1. i \in DOMAIN r /\ r[i] = u
    BY <1>0, <1>3 DEF Ranked
  <2>. QED
    BY <1>1, <2>1
<1>4. PICK q \in 1..(L + 1) : \A i \in 1..L : r[i] = t <=> i = q
  <2>1. CASE \E i \in 1..L : r[i] = t
    <3>1. PICK q \in 1..L : r[q] = t
      BY <2>1
    <3>2. q \in 1..(L + 1)
      OBVIOUS
    <3>3. ASSUME NEW i \in 1..L, r[i] = t PROVE i = q
      <4>1. c[t] = i - 1 /\ c[t] = q - 1
        BY <1>2, <3>1, <3>3
      <4>. QED
        BY <4>1
    <3>4. \A i \in 1..L : r[i] = t <=> i = q
      BY <3>1, <3>3
    <3>. QED
      BY <3>2, <3>4
  <2>2. CASE ~\E i \in 1..L : r[i] = t
    <3>1. PICK q \in 1..(L + 1) : q = L + 1
      OBVIOUS
    <3>2. \A i \in 1..L : i # q
      BY <3>1
    <3>. QED
      BY <2>2, <3>2
  <2>. QED
    BY <2>1, <2>2
<1>5. PICK w \in Seq(Tables), n \in Nat \ {0} : Pushed(w, n, r, L, t, q)
  BY <1>1, <1>4, PushedList, Zenon
<1>6. /\ n <= M /\ DOMAIN w = 1..n
      /\ n = M \/ n = IF q = L + 1 THEN L + 1 ELSE L
      /\ n <= IF q = L + 1 THEN L + 1 ELSE L
      /\ w[1] = t
      /\ \A k \in Nat \ {0} : k + 1 <= n => w[k + 1] = IF k < q THEN r[k] ELSE r[k + 1]
  BY <1>0, <1>5 DEF Pushed
<1>7. ASSUME t \in Seen, NEW m \in Nat, c[t] = m
      PROVE  q = m + 1 \/ (q = L + 1 /\ M <= m)
  <2>1. CASE m + 1 <= M
    <3>1. m + 1 \in Nat \ {0} /\ c[t] = (m + 1) - 1
      BY <1>7
    <3>2. m + 1 <= L /\ r[m + 1] = t
      BY <1>3, <1>7, <2>1, <3>1
    <3>3. m + 1 \in 1..L
      BY <3>2
    <3>. QED
      BY <1>4, <3>2, <3>3
  <2>2. CASE ~(m + 1 <= M)
    <3>1. \A i \in 1..L : r[i] # t
      <4> SUFFICES ASSUME NEW i \in 1..L, r[i] = t PROVE FALSE
        OBVIOUS
      <4>1. c[t] = i - 1 /\ i <= M
        BY <1>2
      <4>. QED
        BY <1>7, <2>2, <4>1
    <3>2. q \notin 1..L
      BY <1>4, <3>1
    <3>. QED
      BY <2>2, <3>2
  <2>. QED
    BY <2>1, <2>2
<1>8. t \notin Seen => q = L + 1
  <2> SUFFICES ASSUME t \notin Seen, q \in 1..L PROVE FALSE
    OBVIOUS
  <2>. QED
    BY <1>2, <1>4
<1>9. ASSUME NEW i \in 1..n
      PROVE  w[i] \in Seen \cup {t} /\ d[w[i]] = i - 1
  <2>1. CASE i = 1
    BY <1>6, <2>1
  <2>2. CASE i # 1
    <3>1. PICK k \in Nat \ {0} : k + 1 = i /\ i - 1 = k
      BY <2>2
    <3>2. w[i] = IF k < q THEN r[k] ELSE r[k + 1]
      BY <1>6, <3>1
    <3>3. CASE k < q
      <4>1. k \in 1..L /\ k # q
        BY <1>6, <3>1, <3>3
      <4>2. PICK u \in Seen : u = r[k] /\ u = w[i]
        BY <1>2, <3>2, <3>3, <4>1
      <4>3. c[u] = k - 1 /\ u # t /\ k <= M
        BY <1>2, <1>4, <4>1, <4>2
      <4>4. ~(t \in Seen /\ c[t] < c[u])
        <5> SUFFICES ASSUME t \in Seen, c[t] < c[u] PROVE FALSE
          OBVIOUS
        <5>1. PICK m \in Nat : m = c[t]
          OBVIOUS
        <5>2. q = m + 1 \/ M <= m
          BY <1>7, <5>1
        <5>. QED
          BY <3>3, <4>3, <5>1, <5>2
      <4>5. d[u] = c[u] + 1
        BY <4>3, <4>4
      <4>. QED
        BY <3>1, <4>2, <4>3, <4>5
    <3>4. CASE ~(k < q)
      <4>1. q \in 1..L /\ k + 1 \in 1..L /\ k + 1 # q
        BY <1>6, <3>1, <3>4
      <4>2. PICK u \in Seen : u = r[k + 1] /\ u = w[i]
        BY <1>2, <3>2, <3>4, <4>1
      <4>3. c[u] = k /\ u # t
        <5>1. c[u] = k
          <6>1. PICK j \in 1..L : j = k + 1 /\ j - 1 = k
            BY <4>1
          <6>. QED
            BY <1>2, <4>2, <6>1
        <5>. QED
          BY <1>4, <4>1, <4>2, <5>1
      <4>4. t \in Seen /\ c[t] = q - 1
        BY <1>2, <1>4, <4>1
      <4>5. d[u] = c[u]
        BY <3>4, <4>3, <4>4
      <4>. QED
        BY <3>1, <4>2, <4>3, <4>5
    <3>. QED
      BY <3>3, <3>4
  <2>. QED
    BY <2>1, <2>2
<1>10. ASSUME NEW u \in Seen \cup {t}, NEW i \in Nat \ {0}, i <= M, d[u] = i - 1
       PROVE  i \in 1..n /\ w[i] = u
  <2>1. CASE u = t
    BY <1>6, <1>10, <2>1
  <2>2. CASE u # t
    <3>1. PICK x \in Nat : x = c[u]
      BY <2>2
    <3>2. CASE t \in Seen /\ c[t] < c[u]
      <4>1. PICK m \in Nat : m = c[t] /\ m < x
        BY <3>1, <3>2
      <4>2. x = i - 1
        <5>1. d[u] = x
          BY <2>2, <3>1, <3>2
        <5>. QED
          BY <1>10, <5>1
      <4>3. i <= L /\ r[i] = u
        BY <1>3, <1>10, <2>2, <3>1, <4>2
      <4>4. q = m + 1
        <5>1. q = m + 1 \/ (q = L + 1 /\ M <= m)
          BY <1>7, <3>2, <4>1
        <5>2. m < M
          BY <1>10, <4>1, <4>2
        <5>. QED
          BY <5>1, <5>2
      <4>5. x \in Nat \ {0} /\ ~(x < q) /\ x + 1 = i /\ q # L + 1
        BY <4>1, <4>2, <4>3, <4>4
      <4>6. i <= n
        <5>1. i \in Nat /\ i <= L /\ i <= M
          BY <1>10, <4>3
        <5> QED
          BY <1>6, <4>5, <5>1, SMTT(30)
      <4>7. w[x + 1] = r[x + 1]
        BY <1>6, <4>5, <4>6
      <4>8. w[i] = u
        BY <4>3, <4>5, <4>7, Zenon
      <4>. QED
        BY <4>6, <4>8
    <3>3. CASE ~(t \in Seen /\ c[t] < c[u])
      <4>1. d[u] = x + 1
        BY <2>2, <3>1, <3>3
      <4>2. PICK k \in Nat \ {0} : k = x + 1 /\ k + 1 = i /\ k <= M
        BY <1>10, <3>1, <4>1
      <4>3. k <= L /\ r[k] = u
        <5>1. u \in Seen /\ c[u] = k - 1
          BY <2>2, <3>1, <4>2
        <5>. QED
          BY <1>3, <4>2, <5>1
      <4>4. k < q
        <5>1. CASE t \in Seen
          <6>1. PICK m \in Nat : m = c[t]
            OBVIOUS
          <6>2. m # x /\ ~(m < x)
            BY <2>2, <3>1, <3>3, <5>1, <6>1
          <6>3. q = m + 1 \/ q = L + 1
            BY <1>7, <5>1, <6>1
          <6>. QED
            BY <4>2, <4>3, <6>2, <6>3
        <5>2. CASE t \notin Seen
          BY <1>8, <4>3, <5>2
        <5>. QED
          BY <5>1, <5>2
      <4>5. i <= n
        <5>1. i <= M /\ k <= L /\ i = k + 1 /\ q \in 1..(L + 1)
          BY <1>10, <4>2, <4>3
        <5>2. q = L + 1 \/ i <= L
          BY <4>4, <5>1
        <5>. QED
          BY <1>6, <5>1, <5>2
      <4>. QED
        BY <1>6, <4>2, <4>3, <4>4, <4>5
    <3>. QED
      BY <3>2, <3>3
  <2>. QED
    BY <2>1, <2>2
<1>11. Ranked(w, Seen \cup {t}, d)
  <2> SUFFICES ASSUME NEW u \in Tables, NEW i \in Nat \ {0}
               PROVE  i \in DOMAIN w /\ w[i] = u
                        <=> i <= MAX_RECENT_TABLES /\ u \in Seen \cup {t} /\ d[u] = i - 1
    BY DEF Ranked
  <2>1. ASSUME i \in 1..n, w[i] = u
        PROVE  i <= M /\ u \in Seen \cup {t} /\ d[u] = i - 1
    BY <1>6, <1>9, <2>1
  <2>2. ASSUME i <= M, u \in Seen \cup {t}, d[u] = i - 1
        PROVE  i \in 1..n /\ w[i] = u
    BY <1>10, <2>2
  <2>. QED
    BY <1>0, <1>6, <2>1, <2>2
<1>. QED
  BY <1>5, <1>11 DEF Pushed
(* The tables l has behind the last u (all of them when it has no u).      *)
After(l, u) ==
  {l[j] : j \in {i \in DOMAIN l : \A k \in DOMAIN l : l[k] = u => i > k}}

LEMMA AfterFinite ==
  ASSUME NEW l \in Seq(Tables), NEW u
  PROVE  IsFiniteSet(After(l, u)) /\ Cardinality(After(l, u)) \in Nat
<1> DEFINE T == {l[j] : j \in DOMAIN l}
<1>1. PICK N \in Nat : DOMAIN l = 1..N
  BY LenProperties
<1>2. IsFiniteSet(DOMAIN l)
  BY <1>1, FS_Interval
<1>3. [j \in DOMAIN l |-> l[j]] \in Surjection(DOMAIN l, T)
  BY DEF Surjection
<1>4. IsFiniteSet(T)
  BY <1>2, <1>3, FS_Surjection
<1>5. After(l, u) \in SUBSET T
  BY DEF After
<1> HIDE DEF T
<1>6. IsFiniteSet(After(l, u))
  BY <1>4, <1>5, FS_Subset
<1>. QED
  BY <1>6, FS_CardinalityType

LEMMA AfterHas ==
  ASSUME NEW l, NEW u, NEW x
  PROVE  x \in After(l, u) <=>
           \E j \in DOMAIN l : l[j] = x /\ \A k \in DOMAIN l : l[k] = u => j > k
BY DEF After

(* Behind the last t there is nothing new yet; behind the others, t is.    *)
LEMMA AfterOneMore ==
  ASSUME NEW l \in Seq(Tables), NEW t \in Tables
  PROVE  LET m == Append(l, t) IN
         /\ m \in Seq(Tables)
         /\ After(m, t) = {}
         /\ \A u : u # t => After(m, u) = After(l, u) \cup {t}
         /\ \A u : (\E j \in DOMAIN m : m[j] = u) <=> u = t \/ \E j \in DOMAIN l : l[j] = u
<1>1. PICK N \in Nat : N = Len(l) /\ DOMAIN l = 1..N
  BY LenProperties
<1>2. PICK m \in Seq(Tables) :
        /\ m = Append(l, t) /\ DOMAIN m = 1..(N + 1)
        /\ \A k \in 1..N : m[k] = l[k]
        /\ m[N + 1] = t
  <2>1. PICK m : m = Append(l, t)
    OBVIOUS
  <2>2. /\ m \in Seq(Tables) /\ Len(m) = N + 1
        /\ \A k \in 1..N : m[k] = l[k]
        /\ m[N + 1] = t
    BY <1>1, <2>1, AppendProperties
  <2>3. DOMAIN m = 1..(N + 1)
    BY <2>2, LenProperties
  <2>. QED
    BY <2>1, <2>2, <2>3
<1>3. /\ N + 1 \in 1..(N + 1) /\ \A k \in 1..N : k \in 1..(N + 1)
      /\ \A k \in 1..(N + 1) : k \in 1..N \/ k = N + 1
      /\ \A k \in 1..N : N + 1 > k /\ ~(k > N + 1)
      /\ ~(N + 1 > N + 1)
  OBVIOUS
<1>4. After(m, t) = {}
  <2> SUFFICES ASSUME NEW x, x \in After(m, t) PROVE FALSE
    OBVIOUS
  <2>1. PICK j \in 1..(N + 1) : \A k \in 1..(N + 1) : m[k] = t => j > k
    BY <1>2, AfterHas
  <2>2. j > N + 1
    BY <1>2, <1>3, <2>1
  <2>. QED
    BY <1>3, <2>2
<1>5. ASSUME NEW u, u # t PROVE After(m, u) = After(l, u) \cup {t}
  <2>1. ASSUME NEW x \in After(m, u) PROVE x \in After(l, u) \cup {t}
    <3>1. PICK j \in 1..(N + 1) : m[j] = x /\ \A k \in 1..(N + 1) : m[k] = u => j > k
      BY <1>2, <2>1, AfterHas
    <3>2. CASE j = N + 1
      BY <1>2, <3>1, <3>2
    <3>3. CASE j \in 1..N
      <4>1. l[j] = x /\ \A k \in 1..N : l[k] = u => j > k
        BY <1>2, <1>3, <3>1, <3>3
      <4>. QED
        BY <1>1, <3>3, <4>1, AfterHas
    <3>. QED
      BY <1>3, <3>2, <3>3
  <2>2. t \in After(m, u)
    <3>1. \A k \in 1..(N + 1) : m[k] = u => N + 1 > k
      BY <1>2, <1>3, <1>5
    <3>. QED
      BY <1>2, <1>3, <3>1, AfterHas
  <2>3. ASSUME NEW x \in After(l, u) PROVE x \in After(m, u)
    <3>1. PICK j \in 1..N : l[j] = x /\ \A k \in 1..N : l[k] = u => j > k
      BY <1>1, <2>3, AfterHas
    <3>2. m[j] = x /\ j \in 1..(N + 1)
      BY <1>2, <1>3, <3>1
    <3>3. \A k \in 1..(N + 1) : m[k] = u => j > k
      BY <1>2, <1>3, <1>5, <3>1
    <3>. QED
      BY <1>2, <3>2, <3>3, AfterHas
  <2>. QED
    BY <2>1, <2>2, <2>3
<1>6. ASSUME NEW u
      PROVE (\E j \in DOMAIN m : m[j] = u) <=> u = t \/ \E j \in DOMAIN l : l[j] = u
  BY <1>1, <1>2, <1>3
<1>. QED
  BY <1>2, <1>4, <1>5, <1>6

(* Of two tables that l has, the one that was last has less behind it: t   *)
(* is behind u and what is behind t is behind u, or the other way around.  *)
LEMMA LastOne ==
  ASSUME NEW l \in Seq(Tables), NEW t, NEW j \in DOMAIN l, l[j] = t
  PROVE  \E i \in DOMAIN l : l[i] = t /\ \A k \in DOMAIN l : l[k] = t => k <= i
<1>1. PICK N \in Nat : DOMAIN l = 1..N
  BY LenProperties
<1> DEFINE T == {n \in Nat : n <= N /\ l[N - n] = t /\ N - n \in 1..N}
<1>2. N - j \in Nat /\ N - (N - j) = j /\ N - j <= N
  BY <1>1
<1>3. N - j \in T
  BY <1>1, <1>2
<1>4. PICK n \in T : \A m \in T : n <= m
  <2>1. T \in SUBSET Nat /\ T # {}
    BY <1>3
  <2> HIDE DEF T
  <2>. QED
    BY <2>1, LeastNatural
<1>5. N - n \in DOMAIN l /\ l[N - n] = t
  BY <1>1, <1>4
<1>6. ASSUME NEW k \in DOMAIN l, l[k] = t PROVE k <= N - n
  <2>1. N - k \in Nat /\ N - (N - k) = k /\ N - k <= N
    BY <1>1
  <2>2. N - k \in T
    BY <1>1, <1>6, <2>1
  <2>3. n <= N - k
    BY <1>4, <2>2
  <2>. QED
    BY <1>1, <1>4, <2>1, <2>3
<1>. QED
  BY <1>5, <1>6

LEMMA AfterOrdered ==
  ASSUME NEW l \in Seq(Tables), NEW t, NEW u, t # u,
         \E j \in DOMAIN l : l[j] = t,
         \E j \in DOMAIN l : l[j] = u
  PROVE  \/ /\ t \in After(l, u) /\ After(l, t) \subseteq After(l, u)
            /\ t \notin After(l, t)
         \/ /\ u \in After(l, t) /\ After(l, u) \subseteq After(l, t)
            /\ u \notin After(l, u) /\ t \notin After(l, u)
<1>1. PICK N \in Nat : DOMAIN l = 1..N
  BY LenProperties
<1>2. PICK a \in 1..N : l[a] = t /\ \A k \in 1..N : l[k] = t => k <= a
  BY <1>1, LastOne
<1>3. PICK b \in 1..N : l[b] = u /\ \A k \in 1..N : l[k] = u => k <= b
  BY <1>1, LastOne
<1>4. \A x : x \in After(l, t) <=> \E j \in 1..N : l[j] = x /\ j > a
  <2> TAKE x
  <2>1. x \in After(l, t) <=> \E j \in 1..N : l[j] = x /\ \A k \in 1..N : l[k] = t => j > k
    BY <1>1, AfterHas
  <2>2. ASSUME NEW j \in 1..N
        PROVE  (\A k \in 1..N : l[k] = t => j > k) <=> j > a
    <3>1. ASSUME \A k \in 1..N : l[k] = t => j > k PROVE j > a
      BY <1>2, <3>1
    <3>2. ASSUME j > a, NEW k \in 1..N, l[k] = t PROVE j > k
      BY <1>2, <3>2
    <3>. QED
      BY <3>1, <3>2
  <2>. QED
    BY <2>1, <2>2
<1>5. \A x : x \in After(l, u) <=> \E j \in 1..N : l[j] = x /\ j > b
  <2> TAKE x
  <2>1. x \in After(l, u) <=> \E j \in 1..N : l[j] = x /\ \A k \in 1..N : l[k] = u => j > k
    BY <1>1, AfterHas
  <2>2. ASSUME NEW j \in 1..N
        PROVE  (\A k \in 1..N : l[k] = u => j > k) <=> j > b
    <3>1. ASSUME \A k \in 1..N : l[k] = u => j > k PROVE j > b
      BY <1>3, <3>1
    <3>2. ASSUME j > b, NEW k \in 1..N, l[k] = u PROVE j > k
      BY <1>3, <3>2
    <3>. QED
      BY <3>1, <3>2
  <2>. QED
    BY <2>1, <2>2
<1>6. a # b
  BY <1>2, <1>3
<1>7. CASE b < a
  <2>1. t \in After(l, u)
    BY <1>2, <1>5, <1>7
  <2>2. \A x \in After(l, t) : x \in After(l, u)
    BY <1>4, <1>5, <1>7
  <2>3. t \notin After(l, t)
    BY <1>2, <1>4
  <2>. QED
    BY <2>1, <2>2, <2>3
<1>8. CASE a < b
  <2>1. u \in After(l, t)
    BY <1>3, <1>4, <1>8
  <2>2. \A x \in After(l, u) : x \in After(l, t)
    BY <1>4, <1>5, <1>8
  <2>3. u \notin After(l, u)
    BY <1>3, <1>5
  <2>4. t \notin After(l, u)
    BY <1>2, <1>5, <1>8
  <2>. QED
    BY <2>1, <2>2, <2>3, <2>4
<1>. QED
  BY <1>6, <1>7, <1>8

(* A set with one element more is larger. *)
LEMMA OneMoreIsLarger ==
  ASSUME NEW S, NEW T, IsFiniteSet(S), IsFiniteSet(T), T \subseteq S,
         NEW x \in S, x \notin T
  PROVE  Cardinality(T) < Cardinality(S)
<1>1. Cardinality(S) \in Nat /\ Cardinality(T) \in Nat
  BY FS_CardinalityType
<1>2. Cardinality(T) <= Cardinality(S) /\ (Cardinality(S) = Cardinality(T) => S = T)
  BY FS_Subset
<1>. QED
  BY <1>1, <1>2

(* How the ranks change when t is chosen, as PushKeepsRanks has it.        *)
LEMMA RanksAfterOneMore ==
  ASSUME NEW l \in Seq(Tables), NEW t \in Tables, NEW u \in Tables, u # t,
         \E j \in DOMAIN l : l[j] = u
  PROVE  LET seen == \E j \in DOMAIN l : l[j] = t
             rank(x) == Cardinality(After(l, x))
         IN  /\ seen => rank(t) # rank(u)
             /\ Cardinality(After(Append(l, t), u)) =
                  IF seen /\ rank(t) < rank(u) THEN rank(u) ELSE rank(u) + 1
<1>1. PICK A : A = After(l, t) /\ IsFiniteSet(A) /\ Cardinality(A) \in Nat
  BY AfterFinite
<1>2. PICK B : B = After(l, u) /\ IsFiniteSet(B) /\ Cardinality(B) \in Nat
  BY AfterFinite
<1>3. PICK m : m = Append(l, t)
  OBVIOUS
<1>4. After(m, u) = B \cup {t}
  BY <1>2, <1>3, AfterOneMore
<1>5. Cardinality(B \cup {t}) = IF t \in B THEN Cardinality(B) ELSE Cardinality(B) + 1
  BY <1>2, FS_AddElement
<1>6. CASE \E j \in DOMAIN l : l[j] = t
  <2>1. \/ t \in B /\ A \subseteq B /\ t \notin A
        \/ u \in A /\ B \subseteq A /\ u \notin B /\ t \notin B
    BY <1>1, <1>2, <1>6, AfterOrdered
  <2>2. CASE t \in B /\ A \subseteq B /\ t \notin A
    <3>1. Cardinality(A) < Cardinality(B)
      BY <1>1, <1>2, <2>2, OneMoreIsLarger
    <3>. QED
      BY <1>1, <1>2, <1>3, <1>4, <1>5, <1>6, <2>2, <3>1
  <2>3. CASE u \in A /\ B \subseteq A /\ u \notin B /\ t \notin B
    <3>1. Cardinality(B) < Cardinality(A)
      BY <1>1, <1>2, <2>3, OneMoreIsLarger
    <3>2. ~(Cardinality(A) < Cardinality(B)) /\ Cardinality(A) # Cardinality(B)
      BY <1>1, <1>2, <3>1
    <3>. QED
      BY <1>1, <1>2, <1>3, <1>4, <1>5, <1>6, <2>3, <3>2
  <2>. QED
    BY <2>1, <2>2, <2>3
<1>7. CASE ~\E j \in DOMAIN l : l[j] = t
  <2>1. t \notin B
    BY <1>2, <1>7, AfterHas
  <2>. QED
    BY <1>1, <1>2, <1>3, <1>4, <1>5, <1>7, <2>1
<1>. QED
  BY <1>6, <1>7
(* Each recent table is in the place that the tables chosen since leave it *)
(* (for any bound on their number).                                        *)
Chosen(l) == {u \in Tables : \E j \in DOMAIN l : l[j] = u}
Since(l) == [u \in Tables |-> Cardinality(After(l, u))]

RecentInv ==
  log \in Seq(Tables) /\ recent \in Seq(Tables) /\ Ranked(recent, Chosen(log), Since(log))

LEMMA SelectKeepsRecent ==
  ASSUME RecentInv, NEW t \in Tables, SelectTable(t)
  PROVE  RecentInv'
<1>1. PICK l \in Seq(Tables) : l = log
  BY DEF RecentInv
<1>2. PICK m \in Seq(Tables) : m = log' /\ m = Append(l, t)
  <2>1. log' = Append(l, t)
    BY <1>1 DEF SelectTable
  <2>. QED
    BY <2>1, AfterOneMore
<1>3. recent' = Cut(<<t>> \o Others(recent, t))
  BY DEF SelectTable, PushRecent
<1>4. /\ Since(l) \in [Tables -> Nat] /\ Since(m) \in [Tables -> Nat]
      /\ Chosen(l) \in SUBSET Tables
  BY AfterFinite DEF Since, Chosen
<1>5. Since(m)[t] = 0
  BY <1>2, AfterOneMore, FS_EmptySet DEF Since
<1>6. ASSUME NEW u \in Chosen(l) \ {t}
      PROVE  /\ t \in Chosen(l) => Since(l)[t] # Since(l)[u]
             /\ Since(m)[u] = IF t \in Chosen(l) /\ Since(l)[t] < Since(l)[u]
                              THEN Since(l)[u] ELSE Since(l)[u] + 1
  BY <1>2, RanksAfterOneMore DEF Since, Chosen
<1>7. Chosen(m) = Chosen(l) \cup {t}
  BY <1>2, AfterOneMore DEF Chosen
<1>8. recent \in Seq(Tables) /\ Ranked(recent, Chosen(l), Since(l))
  BY <1>1 DEF RecentInv
<1>9. /\ recent' \in Seq(Tables)
      /\ Ranked(recent', Chosen(l) \cup {t}, Since(m))
  BY <1>3, <1>4, <1>5, <1>6, <1>8, PushKeepsRanks
<1>. QED
  BY <1>2, <1>7, <1>9 DEF RecentInv

LEMMA NoneRanked ==
  ASSUME log = << >>, recent = << >>
  PROVE  RecentInv
BY EmptySeq DEF RecentInv, Ranked, Chosen

LEMMA StepKeepsRecent ==
  ASSUME RecentInv, [WebNext]_webVars
  PROVE  RecentInv'
<1>1. ASSUME NEW t \in Tables, SelectTable(t) PROVE RecentInv'
  BY <1>1, SelectKeepsRecent
<1>2. CASE ClearRecentTables
  BY <1>2, EmptySeq DEF ClearRecentTables, RecentInv, Ranked, Chosen
<1>3. ASSUME UNCHANGED <<recent, log>> PROVE RecentInv'
  BY <1>3 DEF RecentInv
<1>4. CASE Open \/ LeavePage \/ TypeQuery \/ SwitchTab \/ ServerNext \/ UNCHANGED webVars
  BY <1>3, <1>4 DEF Open, LeavePage, TypeQuery, SwitchTab, ServerNext, webVars, pageVars
<1>5. ASSUME NEW i \in DOMAIN calls, DescribeAnswered(i) \/ DescribeLost(i)
      PROVE  RecentInv'
  BY <1>3, <1>5 DEF DescribeAnswered, DescribeLost
<1>. QED
  BY <1>1, <1>2, <1>4, <1>5 DEF WebNext, PageNext

(* The recent tables are the last distinct ones chosen, the latest first,  *)
(* for any number of tables, of choices and of places in the list.         *)
THEOREM RecentAreLatestHolds == WebSpec => []RecentAreLatest
<1>1. WebInit => RecentInv
  BY NoneRanked DEF WebInit, PageInit
<1>2. RecentInv => RecentAreLatest
  <2> SUFFICES ASSUME RecentInv, NEW u \in Tables, NEW i \in 1..(MaxLog + 1)
               PROVE  (i \in DOMAIN recent /\ recent[i] = u) <=>
                         /\ i <= MAX_RECENT_TABLES
                         /\ \E j \in DOMAIN log : log[j] = u
                         /\ Cardinality(ChosenAfter(u)) = i - 1
    BY DEF RecentAreLatest
  <2>1. i \in Nat \ {0}
    BY PageAssumption
  <2>2. i \in DOMAIN recent /\ recent[i] = u <=>
          i <= MAX_RECENT_TABLES /\ u \in Chosen(log) /\ Since(log)[u] = i - 1
    BY <2>1 DEF RecentInv, Ranked
  <2>3. ChosenAfter(u) = After(log, u)
    BY DEF ChosenAfter, After
  <2>. QED
    BY <2>2, <2>3 DEF Chosen, Since
<1>. QED
  BY <1>1, <1>2, StepKeepsRecent, PTL DEF WebSpec

=============================================================================
