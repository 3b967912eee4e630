----------------------------- MODULE AuthService -----------------------------
(***************************************************************************)
(* The application's login: AuthService, the three routes of AuthHandler,  *)
(* RequireAuth in front of every other handler, and the browsers that keep *)
(* the session cookie.  The server keeps no sessions: a session is the     *)
(* signed cookie alone, and a restart may bring another configuration.     *)
(* Time is counted in ticks, Second of them to a second, so that what the  *)
(* code cuts to whole seconds is cut here.  A signature is the secret that *)
(* made it.  A request that changes nothing (a refused login, a page that  *)
(* is read) is a stuttering step: Answer says what it gets in each state.  *)
(***************************************************************************)
EXTENDS Integers

CONSTANTS
  Browsers,
  Names, Passwords, Secrets,  \* what the environment may set, "" apart
  TTLs,        \* what AUTH_SESSION_TTL may be; absent or unparsable is 0
  DefaultTTL,  \* 12 hours
  Second,
  TrimSpace,   \* strings.TrimSpace on Names
  Unset,       \* ""
  NoCookie,
  MaxTime      \* bound: the clock stops here

ASSUME AuthAssumption ==
  /\ Second \in Nat \ {0} /\ DefaultTTL \in Nat \ {0} /\ TTLs \subseteq Int
  /\ MaxTime \in Nat
  /\ TrimSpace \in [Names -> Names]
  /\ Unset \notin Names \cup Passwords \cup Secrets

Environment ==
  [user : Names \cup {Unset}, password : Passwords \cup {Unset},
   secret : Secrets \cup {Unset}, ttl : TTLs]

Cookies == [user : Names, exp : Nat, key : Secrets, keep : Nat]

(* What a login granted, for the properties: the server keeps no sessions. *)
Sessions == [user : Names, secret : Secrets, at : Nat, ttl : Nat \ {0}]

ASSUME NoCookieAssumption == NoCookie \notin Cookies \cup Sessions

Off == [user |-> Unset, password |-> Unset, secret |-> Unset, ttl |-> 0]

SessionTTL(env) == IF env.ttl > 0 THEN env.ttl ELSE DefaultTTL

NewAuthServiceFromEnv(env) ==
  IF Unset \in {env.user, env.password, env.secret} THEN Off
  ELSE [env EXCEPT !.ttl = SessionTTL(env)]

VARIABLES
  now,
  auth,    \* the service of the running process
  jar,     \* jar[b]: the dtb_auth cookie browser b holds
  session  \* history: what the last login in b was granted, gone at logout

authVars == <<now, auth, jar, session>>

Enabled == Unset \notin {auth.user, auth.password, auth.secret}

(* Faulty variant: the cookie lives on in the second its time is over. *)
AliveWithinSecond(c) == now \div Second <= c.exp

Alive(c) == now \div Second < c.exp

Verified(c) == c.key = auth.secret /\ c.user = auth.user

Authenticated(c) ==
  \/ ~Enabled
  \/ c # NoCookie /\ Verified(c) /\ Alive(c)

PrivatePages == {"/"}
PrivateCalls == {"/api/auth/logout", "/api/other"}
PublicPaths == {"/login", "/api/auth/login", "/static/"}

(* The form shows unless the visitor is logged in already. *)
ShowsLogin(c) == ~Authenticated(c)

(* What a request gets: to be handled, a redirect, or 401. *)
Answer(path, c) ==
  CASE path = "/login" -> IF ShowsLogin(c) THEN "handled" ELSE "/"
    [] path \in PublicPaths \ {"/login"} -> "handled"
    [] path \in PrivatePages -> IF Authenticated(c) THEN "handled" ELSE "/login"
    [] path \in PrivateCalls -> IF Authenticated(c) THEN "handled" ELSE "401"

-----------------------------------------------------------------------------

AuthInit ==
  /\ now = 0
  /\ \E env \in Environment : auth = NewAuthServiceFromEnv(env)
  /\ jar = [b \in Browsers |-> NoCookie]
  /\ session = [b \in Browsers |-> NoCookie]

Expiry == (now + auth.ttl) \div Second

(* MaxAge, cut to whole seconds; if that is nothing, Expires counts. *)
KeptUntil ==
  IF auth.ttl \div Second > 0 THEN now + (auth.ttl \div Second) * Second
  ELSE Expiry * Second

(* Faulty variant: only the password is compared. *)
CredentialsAnyUser(user, password) == Enabled /\ password = auth.password

Credentials(user, password) ==
  Enabled /\ TrimSpace[user] = auth.user /\ password = auth.password

Login(b) ==
  /\ \E user \in Names, password \in Passwords :
       /\ Credentials(user, password)
       /\ jar' = [jar EXCEPT ![b] = [user |-> TrimSpace[user], exp |-> Expiry,
                                     key |-> auth.secret, keep |-> KeptUntil]]
  /\ session' = [session EXCEPT ![b] = [user |-> auth.user, secret |-> auth.secret,
                                        at |-> now, ttl |-> auth.ttl]]
  /\ UNCHANGED <<now, auth>>

ClearCookie(b) == jar' = [jar EXCEPT ![b] = NoCookie]

(* RequireAuth lets the call through only while the session is alive. *)
Logout(b) ==
  /\ Answer("/api/auth/logout", jar[b]) = "handled"
  /\ ClearCookie(b)
  /\ session' = [session EXCEPT ![b] = NoCookie]
  /\ UNCHANGED <<now, auth>>

(* A browser drops a cookie past its age when it looks: nothing here       *)
(* relies on its clock.                                                    *)
Forget(b) ==
  /\ jar[b] # NoCookie /\ now >= jar[b].keep
  /\ jar' = [jar EXCEPT ![b] = NoCookie]
  /\ UNCHANGED <<now, auth, session>>

Tick == now < MaxTime /\ now' = now + 1 /\ UNCHANGED <<auth, jar, session>>

Restart ==
  /\ \E env \in Environment : auth' = NewAuthServiceFromEnv(env)
  /\ UNCHANGED <<now, jar, session>>

AuthNext ==
  \/ \E b \in Browsers : Login(b) \/ Logout(b) \/ Forget(b)
  \/ Tick \/ Restart

AuthSpec == AuthInit /\ [][AuthNext]_authVars

-----------------------------------------------------------------------------

AuthTypeOK ==
  /\ now \in Nat
  /\ auth \in [user : Names \cup {Unset}, password : Passwords \cup {Unset},
               secret : Secrets \cup {Unset}, ttl : Nat]
  /\ Enabled => auth.ttl > 0
  /\ jar \in [Browsers -> Cookies \cup {NoCookie}]
  /\ session \in [Browsers -> Sessions \cup {NoCookie}]

(* While login is on, RequireAuth (middleware.go:12) lets a private page or *)
(* call through only for a browser that has logged in as the configured     *)
(* user, under the secret the server signs with now, less than the granted  *)
(* time ago, and has not logged out: whatever restarts came between.        *)
Locked ==
  \A b \in Browsers : \A path \in PrivatePages \cup PrivateCalls :
    Enabled /\ Answer(path, jar[b]) = "handled" =>
      /\ session[b] # NoCookie
      /\ session[b].user = auth.user /\ session[b].secret = auth.secret
      /\ now < session[b].at + session[b].ttl

(* A login lasts: up to a second before the granted time is over, the      *)
(* browser is let in, also by a process that was started since with the    *)
(* same user and secret (auth.go:58-69 cut the time to seconds twice, in   *)
(* the claim and in MaxAge).                                               *)
SessionLasts ==
  \A b \in Browsers :
    /\ session[b] # NoCookie
    /\ session[b].user = auth.user /\ session[b].secret = auth.secret
    /\ now + Second <= session[b].at + session[b].ttl
    => \A path \in PrivatePages \cup PrivateCalls : Answer(path, jar[b]) = "handled"

=============================================================================
