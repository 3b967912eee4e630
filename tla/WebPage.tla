------------------------------- MODULE WebPage -------------------------------
(***************************************************************************)
(* The database panel of the page in the browser Me, behind the login.     *)
(* selectTable marks a table, asks for its structure and goes on when the  *)
(* answer is there: by then the user may have chosen another table, typed  *)
(* a query, gone to another panel, logged out or lost the session.  Calls  *)
(* are answered in any order, with an error at any time (from the database *)
(* or 401).  The panes are abstracted to the table they show; a pane may   *)
(* also hold the spinner, an error, or a query the user typed.             *)
(***************************************************************************)
EXTENDS AuthService, Lists, FiniteSets

CONSTANTS
  Me, Tables, NoTable,
  MAX_RECENT_TABLES,
  MaxCalls,  \* bound: the calls in flight
  MaxLog     \* bound: the tables chosen since the list was cleared

ASSUME PageAssumption ==
  /\ Me \in Browsers /\ NoTable \notin Tables
  /\ MAX_RECENT_TABLES \in Nat \ {0} /\ MaxCalls \in Nat /\ MaxLog \in Nat

VARIABLES
  screen,     \* "login", or "app" while the page is open
  active,     \* _dbActiveTable, which the list highlights
  structure,  \* dbStructureResult
  box,        \* dbQuery
  tab,        \* "db", or "other" while another panel is shown
  kept,       \* the dbQuery that leaving the panel put in localStorage
  calls,      \* the tables of the describe calls in flight, oldest first
  recent,     \* the recent tables of the connection, in localStorage
  log,        \* history: the tables chosen since the recent ones were cleared
  upset       \* history: a call was overtaken or lost, or the panel was left
              \* during one

panes == <<active, structure, box, calls, upset>>
tabs == <<tab, kept>>
pageVars == <<screen, panes, tabs, recent, log>>
webVars == <<authVars, pageVars>>

PageInit ==
  /\ screen = "login" /\ active = NoTable /\ structure = "" /\ box = ""
  /\ tab = "db" /\ kept = ""
  /\ calls = << >> /\ recent = << >> /\ log = << >> /\ upset = FALSE

(* A new page shows the panel and the query that were kept. *)
Blank ==
  /\ active' = NoTable /\ structure' = ""
  /\ box' = IF tab = "db" THEN kept ELSE ""
  /\ calls' = << >> /\ upset' = FALSE
  /\ UNCHANGED tabs

(* The browser goes to "/": a new page, or the login form.  What was in    *)
(* flight is nobody's any more; the recent tables stay in the storage.     *)
Open ==
  /\ screen' = IF Answer("/", jar[Me]) = "handled" THEN "app" ELSE "login"
  /\ Blank
  /\ UNCHANGED <<authVars, recent, log>>

(* logout() goes to the form whatever the call got (utils.js:36-39).       *)
LeavePage ==
  /\ screen = "app"
  /\ \/ Logout(Me)
     \/ Answer("/api/auth/logout", jar[Me]) = "401" /\ UNCHANGED authVars
  /\ screen' = IF ShowsLogin(jar'[Me]) THEN "login" ELSE "app"
  /\ Blank
  /\ UNCHANGED <<recent, log>>

Others(list, table) == Sift(list, {i \in DOMAIN list : list[i] # table})

Cut(list) ==
  SubSeq(list, 1, IF Len(list) < MAX_RECENT_TABLES THEN Len(list) ELSE MAX_RECENT_TABLES)

(* Faulty variant: the list is cut before the table is put in front.       *)
PushRecentCutFirst(table) ==
  recent' = <<table>> \o Cut(Others(recent, table))

PushRecent(table) ==
  recent' = Cut(<<table>> \o Others(recent, table))

(* A click on a table in the list or among the recent ones.                *)
SelectTable(table) ==
  /\ screen = "app" /\ tab = "db" /\ Len(calls) < MaxCalls /\ Len(log) < MaxLog
  /\ active' = table
  /\ PushRecent(table) /\ log' = Append(log, table)
  /\ structure' = "spinner"
  /\ calls' = Append(calls, table)
  /\ upset' = (upset /\ calls # << >>)
  /\ UNCHANGED <<authVars, screen, tabs, box>>

Dropped(i) == SubSeq(calls, 1, i - 1) \o SubSeq(calls, i + 1, Len(calls))

(* The query box gets a SELECT of the table, also when there is an error.  *)
DescribeAnswered(i) ==
  /\ structure' \in {calls[i], "error"}
  /\ box' = calls[i]
  /\ calls' = Dropped(i)
  /\ upset' = (upset \/ i > 1)
  /\ UNCHANGED <<authVars, screen, tabs, active, recent, log>>

(* post times out or the network fails: the exception ends selectTable,    *)
(* and the spinner stays.                                                  *)
DescribeLost(i) ==
  /\ calls' = Dropped(i) /\ upset' = TRUE
  /\ UNCHANGED <<authVars, screen, tabs, active, structure, box, recent, log>>

TypeQuery ==
  /\ screen = "app" /\ tab = "db" /\ box' = "typed"
  /\ UNCHANGED <<authVars, screen, tabs, active, structure, calls, upset, recent, log>>

(* Faulty variant: the fields are only kept when there is nothing yet.     *)
KeptOnce == IF kept = "" THEN box ELSE kept

Kept == box

(* A click in the sidebar: the fields of the panel that is left are kept,  *)
(* those of the panel that is shown are restored.                          *)
SwitchTab ==
  /\ screen = "app"
  /\ IF tab = "db" THEN tab' = "other" /\ kept' = Kept /\ UNCHANGED box
                   ELSE tab' = "db" /\ box' = kept /\ UNCHANGED kept
  /\ upset' = (upset \/ calls # << >>)
  /\ UNCHANGED <<authVars, screen, active, structure, calls, recent, log>>

ClearRecentTables ==
  /\ screen = "app" /\ tab = "db" /\ recent' = << >> /\ log' = << >>
  /\ UNCHANGED <<authVars, screen, tabs, panes>>

PageNext ==
  \/ Open \/ LeavePage \/ TypeQuery \/ SwitchTab \/ ClearRecentTables
  \/ \E table \in Tables : SelectTable(table)
  \/ \E i \in DOMAIN calls : DescribeAnswered(i) \/ DescribeLost(i)

(* Elsewhere: the login form, other windows of the browser, the server.    *)
ServerNext ==
  /\ \/ \E b \in Browsers : Login(b) \/ Forget(b)
     \/ \E b \in Browsers \ {Me} : Logout(b)
     \/ Tick \/ Restart
  /\ UNCHANGED pageVars

WebNext == PageNext \/ ServerNext

WebInit == AuthInit /\ PageInit

WebSpec == WebInit /\ [][WebNext]_webVars

-----------------------------------------------------------------------------

(* When the calls were answered one after the other, none was lost and the *)
(* panel was not left during one, it shows what is highlighted: the        *)
(* structure of that table or an error, and in the query box a SELECT of   *)
(* it unless the user wrote his own, also when he comes back from another  *)
(* panel (app.js:308-332 and state.js:17-44, which check nothing of this). *)
PaneOfActiveTable ==
  calls = << >> /\ ~upset /\ active # NoTable =>
    structure \in {active, "error"} /\ box \in {active, "typed"}

ChosenAfter(table) ==
  {log[j] : j \in {i \in DOMAIN log :
                     \A k \in DOMAIN log : log[k] = table => i > k}}

(* The recent tables are the last distinct ones the user chose, the latest *)
(* first and at most MAX_RECENT_TABLES: a table is in place i when i - 1   *)
(* others were chosen since it was (history.js:16-25).                     *)
RecentAreLatest ==
  \A table \in Tables : \A i \in 1..(MaxLog + 1) :
    (i \in DOMAIN recent /\ recent[i] = table) <=>
      /\ i <= MAX_RECENT_TABLES
      /\ \E j \in DOMAIN log : log[j] = table
      /\ Cardinality(ChosenAfter(table)) = i - 1

=============================================================================
