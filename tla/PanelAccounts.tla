---------------------------- MODULE PanelAccounts ----------------------------
(***************************************************************************)
(* Accounts of the admin panel: the registration of the first              *)
(* administrator, logging in and out, new passwords, and the middleware    *)
(* that admits requests.  Requests are coroutines of one process; each     *)
(* works in a transaction of its own, and what it read may be out of date  *)
(* when it commits.                                                        *)
(*                                                                         *)
(* There is no clock: that expires_at of a session or the 20 seconds of    *)
(* the cache have passed is an action that may happen at any time.         *)
(***************************************************************************)
EXTENDS Integers, FiniteSets

CONSTANTS
  Logins,       \* logins allowed to register
  Passwords,
  Requests,     \* requests being served at the same time
  Unknown,      \* no password, no cached answer
  MaxSessions,  \* bound on logins
  MaxResets     \* bound on new passwords

ASSUME PanelAssumption ==
  Unknown \notin BOOLEAN \cup Passwords /\ MaxSessions \in Nat /\ MaxResets \in Nat
ASSUME FiniteAssumption == IsFiniteSet(Logins) /\ IsFiniteSet(Requests)

VARIABLES
  account,   \* login -> password and session_version of its row, version 0 for none
  session,   \* token -> row of bot_sessions; tokens are numbered
  cache,     \* _admin_exists_cache
  req,       \* request -> where it stands and what it remembers
  opened, resets,   \* how many logins and new passwords there were
  welcomed,  \* history: has a request ended that registered an administrator
  together,  \* history: registrations that passed their check while another one was under way
  clashed    \* history: logins for which two resets ran at the same time

tables == <<account, session>>
counts == <<opened, resets>>
history == <<welcomed, together, clashed>>
vars == <<tables, cache, req, counts, history>>

NoAccount == [version |-> 0, password |-> Unknown]
NoToken == 0
Idle == [at |-> "idle"]
Ending == [at |-> "ending", registered |-> FALSE]
Admins == {a \in Logins : account[a].version > 0}

\* What a request remembers from one of its steps to the next.
RequestStates ==
  {Idle} \cup [at : {"ending"}, registered : BOOLEAN]
  \cup [at : {"setup"}, who : Logins, password : Passwords]
  \cup [at : {"login", "reset"}, who : Logins, version : Nat, password : Passwords]
  \cup [at : {"asked"}, token : Nat, has : BOOLEAN]
  \cup [at : {"known", "found", "admitted"}, token : Nat]

\* Sessions have an account, and none is ahead of it unless resets clashed.
TypeOK ==
  /\ account \in [Logins -> {NoAccount} \cup [version : Nat \ {0}, password : Passwords]]
  /\ session \in [DOMAIN session ->
                   [who : Logins, version : Nat, live : BOOLEAN, password : Passwords]]
  /\ DOMAIN session \subseteq 1 .. opened
  /\ \A t \in DOMAIN session :
       LET s == session[t] IN
       s.who \in Admins /\ (s.version <= account[s.who].version \/ s.who \in clashed)
  /\ cache \in BOOLEAN \cup {Unknown}
  /\ req \in [Requests -> RequestStates]
  /\ opened \in Nat /\ resets \in Nat
  /\ welcomed \in BOOLEAN /\ together \in Nat /\ clashed \subseteq Logins

Init ==
  /\ account = [a \in Logins |-> NoAccount]
  /\ session = [t \in {} |-> Idle]
  /\ cache = Unknown
  /\ req = [r \in Requests |-> Idle]
  /\ opened = 0 /\ resets = 0
  /\ welcomed = FALSE /\ together = 0 /\ clashed = {}

-----------------------------------------------------------------------------
Goto(r, next) == req' = [req EXCEPT ![r] = next]
OthersAt(r, step) == {q \in Requests \ {r} : req[q].at = step}

\* get_session, after the handler and its commit: the cache is cleared.
Ends(r) ==
  /\ req[r].at = "ending"
  /\ cache' = Unknown
  /\ welcomed' = (welcomed \/ req[r].registered)
  /\ Goto(r, Idle)
  /\ UNCHANGED <<tables, counts, together, clashed>>

SetupChecksMutant(r, a, p) ==
  /\ req[r] = Idle
  /\ IF cache = TRUE THEN Goto(r, Ending)
                     ELSE Goto(r, [at |-> "setup", who |-> a, password |-> p])
  /\ together' = IF OthersAt(r, "setup") # {} THEN together + 1 ELSE together
  /\ UNCHANGED <<tables, cache, counts, welcomed, clashed>>
\* setup_post: SELECT ... FOR UPDATE locks the administrators there are; when there is
\* none it locks nothing.
SetupChecks(r, a, p) ==
  /\ req[r] = Idle
  /\ IF Admins # {} THEN Goto(r, Ending)
                    ELSE Goto(r, [at |-> "setup", who |-> a, password |-> p])
  /\ together' = IF Admins = {} /\ OthersAt(r, "setup") # {} THEN together + 1 ELSE together
  /\ UNCHANGED <<tables, cache, counts, welcomed, clashed>>

\* The new row, and the commit of get_session.  The column login is unique.
SetupCommits(r) ==
  /\ req[r].at = "setup"
  /\ LET a == req[r].who IN
       IF a \in Admins
         THEN UNCHANGED account /\ Goto(r, Ending)
         ELSE /\ account' = [account EXCEPT ![a] = [version |-> 1, password |-> req[r].password]]
              /\ Goto(r, [Ending EXCEPT !.registered = TRUE])
  /\ UNCHANGED <<session, cache, counts, history>>

\* login_post finds the account and the password is right.
LoginChecks(r, a) ==
  /\ req[r] = Idle
  /\ a \in Admins
  /\ opened + Cardinality(OthersAt(r, "login")) < MaxSessions
  /\ Goto(r, [at |-> "login", who |-> a, version |-> account[a].version,
              password |-> account[a].password])
  /\ UNCHANGED <<tables, cache, counts, history>>

LoginCommitsMutant(r) ==
  /\ req[r].at = "login"
  /\ opened' = opened + 1
  /\ session' = [t \in DOMAIN session \cup {opened + 1} |->
       IF t \in DOMAIN session THEN session[t]
       ELSE [who |-> req[r].who, version |-> account[req[r].who].version, live |-> TRUE,
             password |-> req[r].password]]
  /\ Goto(r, Ending)
  /\ UNCHANGED <<account, cache, resets, history>>
\* The session gets the version read with the password.  (Its password is history.)
LoginCommits(r) ==
  /\ req[r].at = "login"
  /\ opened' = opened + 1
  /\ session' = [t \in DOMAIN session \cup {opened + 1} |->
       IF t \in DOMAIN session THEN session[t]
       ELSE [who |-> req[r].who, version |-> req[r].version, live |-> TRUE,
             password |-> req[r].password]]
  /\ Goto(r, Ending)
  /\ UNCHANGED <<account, cache, resets, history>>

\* A new password, set by an administrator, by the script or with a token found in the
\* database: the account is read,
ResetChecks(r, a, p) ==
  /\ req[r] = Idle
  /\ a \in Admins
  /\ resets + Cardinality(OthersAt(r, "reset")) < MaxResets
  /\ Goto(r, [at |-> "reset", who |-> a, version |-> account[a].version, password |-> p])
  /\ clashed' = IF \E q \in OthersAt(r, "reset") : req[q].who = a THEN clashed \cup {a} ELSE clashed
  /\ UNCHANGED <<tables, cache, counts, welcomed, together>>

ResetCommitsMutant(r) ==
  /\ req[r].at = "reset"
  /\ resets' = resets + 1
  /\ LET a == req[r].who IN
       /\ account' = [account EXCEPT ![a].password = req[r].password]
       /\ session' = [t \in DOMAIN session |->
                        IF session[t].who = a THEN [session[t] EXCEPT !.version = @ + 1] ELSE session[t]]
  /\ Goto(r, Ending)
  /\ UNCHANGED <<cache, opened, history>>
\* and then the password, the next version and the deletion of the account's sessions
\* are committed.
ResetCommits(r) ==
  /\ req[r].at = "reset"
  /\ resets' = resets + 1
  /\ LET a == req[r].who IN
       /\ account' = [account EXCEPT ![a] = [version |-> req[r].version + 1,
                                             password |-> req[r].password]]
       /\ session' = [t \in {u \in DOMAIN session : session[u].who # a} |-> session[t]]
  /\ Goto(r, Ending)
  /\ UNCHANGED <<cache, opened, history>>

-----------------------------------------------------------------------------
\* A request with the cookie of session t, or with none, enters the middleware.
\* _has_admin looks into the cache: an administrator exists, or there is none and the
\* request is sent to /setup,
EntersKnown(r, t) ==
  /\ req[r] = Idle
  /\ cache # Unknown
  /\ IF cache = TRUE /\ t # NoToken THEN Goto(r, [at |-> "known", token |-> t]) ELSE UNCHANGED req
  /\ UNCHANGED <<tables, cache, counts, history>>

\* or the database is asked,
Asks(r, t) ==
  /\ req[r] = Idle
  /\ cache = Unknown
  /\ Goto(r, [at |-> "asked", token |-> t, has |-> Admins # {}])
  /\ UNCHANGED <<tables, cache, counts, history>>

\* and its answer remembered.  (/setup itself asks in the same way, through get_session.)
Remembers(r) ==
  /\ req[r].at = "asked"
  /\ cache' = req[r].has
  /\ \/ Goto(r, IF req[r].has /\ req[r].token # NoToken
                  THEN [at |-> "known", token |-> req[r].token] ELSE Idle)
     \/ req[r].token = NoToken /\ Goto(r, Ending)
  /\ UNCHANGED <<tables, counts, history>>

\* The session is in the table, has not expired, and has its account's version.
Fresh(t) ==
  /\ t \in DOMAIN session
  /\ session[t].live
  /\ session[t].version = account[session[t].who].version

LooksUp(r) ==
  /\ req[r].at = "known"
  /\ Goto(r, IF Fresh(req[r].token) THEN [at |-> "found", token |-> req[r].token] ELSE Idle)
  /\ UNCHANGED <<tables, cache, counts, history>>

\* The commit of the new expires_at; without the row it raises and the request is sent
\* to /login.
Admits(r) ==
  /\ req[r].at = "found"
  /\ LET t == req[r].token IN
       IF t \in DOMAIN session
         THEN session' = [session EXCEPT ![t].live = TRUE] /\ Goto(r, [at |-> "admitted", token |-> t])
         ELSE UNCHANGED session /\ Goto(r, Idle)
  /\ UNCHANGED <<account, cache, counts, history>>

\* The handler, with or without get_session; the one of /logout deletes the session.
Serves(r) ==
  /\ req[r].at = "admitted"
  /\ Goto(r, Ending) \/ Goto(r, Idle)
  /\ UNCHANGED <<tables, cache, counts, history>>

LogsOut(r) ==
  /\ req[r].at = "admitted"
  /\ session' = [t \in DOMAIN session \ {req[r].token} |-> session[t]]
  /\ Goto(r, Ending)
  /\ UNCHANGED <<account, cache, counts, history>>

SessionExpires(t) ==
  /\ session[t].live
  /\ session' = [session EXCEPT ![t].live = FALSE]
  /\ UNCHANGED <<account, cache, req, counts, history>>

CacheExpiresMutant ==
  /\ cache = TRUE
  /\ cache' = Unknown
  /\ UNCHANGED <<tables, req, counts, history>>
CacheExpires ==
  /\ cache # Unknown
  /\ cache' = Unknown
  /\ UNCHANGED <<tables, req, counts, history>>

Cookies == {NoToken} \cup DOMAIN session

Next ==
  \/ \E r \in Requests :
       \/ \E a \in Logins, p \in Passwords : SetupChecks(r, a, p) \/ ResetChecks(r, a, p)
       \/ \E a \in Logins : LoginChecks(r, a)
       \/ \E t \in Cookies : EntersKnown(r, t) \/ Asks(r, t)
       \/ SetupCommits(r) \/ LoginCommits(r) \/ ResetCommits(r)
       \/ Remembers(r) \/ LooksUp(r) \/ Admits(r) \/ Serves(r) \/ LogsOut(r) \/ Ends(r)
  \/ \E t \in DOMAIN session : SessionExpires(t)
  \/ CacheExpires

Spec == Init /\ [][Next]_vars

\* What the cache holds expires, and a request that has asked for the administrators
\* gets its answer.  Nobody need send a request.
Fairness ==
  /\ WF_vars(CacheExpires)
  /\ \A r \in Requests : WF_vars(Remembers(r))

FairSpec == Spec /\ Fairness

-----------------------------------------------------------------------------
\* Whoever is admitted logged in with the password that is valid now, however logins,
\* resets and the middleware interleave; only two resets of one account at the same
\* time, which end with the same version, can let an older login in.
OldPasswordsShutOut ==
  [][\A r \in Requests :
       req[r].at = "found" /\ req'[r].at = "admitted" =>
         LET s == session[req[r].token] IN
         s.password = account[s.who].password \/ s.who \in clashed]_vars

\* Registration is for the first administrator only (ADMINISTRATOR_GUIDE.md:9-11): any
\* further one registered while another registration was under way.
OneFirstAdmin == Cardinality(Admins) <= 1 + together

\* That there is an administrator is known in the end to every request, whatever was
\* read from the database before.
AdminNoticed == Admins # {} ~> [](cache # FALSE)
=============================================================================
