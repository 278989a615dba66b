------------------------ MODULE PanelAccountsProofs ------------------------
(***************************************************************************)
(* Old passwords stay shut out and a second first administrator needs a    *)
(* race of two registrations, for any numbers of accounts, requests,       *)
(* sessions and resets.                                                    *)
(***************************************************************************)
EXTENDS PanelAccounts, FiniteSetTheorems, TLAPS

\* Version v with password p was current for account a, and nothing replaced the
\* password since without a new version.
Was(a, v, p) ==
  v <= account[a].version /\ (v = account[a].version => p = account[a].password)

\* Unless resets of its account clashed:
\* a session has its password,
SessionsHonest ==
  \A t \in DOMAIN session :
    LET s == session[t] IN s.who \in clashed \/ Was(s.who, s.version, s.password)

\* so has the session a login is about to open,
LoginsHonest ==
  \A r \in Requests : req[r].at = "login" =>
    req[r].who \in Admins /\ (req[r].who \in clashed \/ Was(req[r].who, req[r].version, req[r].password))

\* a reset under way is the only one of its account and knows its version,
ResetsCurrent ==
  \A r \in Requests : req[r].at = "reset" =>
    /\ req[r].who \in Admins
    /\ \/ req[r].who \in clashed
       \/ /\ req[r].version = account[req[r].who].version
          /\ \A q \in Requests \ {r} : req[q].at = "reset" => req[q].who # req[r].who

\* and a session that was found fresh is fresh as long as it is in the table.
FoundFresh ==
  \A r \in Requests : req[r].at = "found" /\ req[r].token \in DOMAIN session =>
    LET s == session[req[r].token] IN
    s.who \in clashed \/ s.version = account[s.who].version

\* A token in a cookie has been given out.
TokensGiven ==
  \A r \in Requests : req[r].at \in {"asked", "known", "found", "admitted"} => req[r].token <= opened

Honest == SessionsHonest /\ LoginsHonest /\ ResetsCurrent /\ FoundFresh /\ TokensGiven

\* The inductive invariant.
Inv == TypeOK /\ Honest

SettingUp == {r \in Requests : req[r].at = "setup"}
\* The inductive invariant of registration: whoever is still under way counts.
Registrations == Cardinality(Admins) + Cardinality(SettingUp) <= 1 + together

-----------------------------------------------------------------------------
\* What a request remembers at the steps that commit something.
LEMMA Remembered ==
  ASSUME TypeOK, NEW r \in Requests
  PROVE  /\ req[r].at = "setup" => req[r].who \in Logins /\ req[r].password \in Passwords
         /\ req[r].at \in {"login", "reset"} =>
              req[r].who \in Logins /\ req[r].version \in Nat /\ req[r].password \in Passwords
         /\ req[r].at = "asked" => req[r].token \in Nat /\ req[r].has \in BOOLEAN
         /\ req[r].at \in {"known", "found", "admitted"} => req[r].token \in Nat
         /\ req[r].at = "ending" => req[r].registered \in BOOLEAN
  BY DEF TypeOK, RequestStates, Idle

\* An account's row, and what being an administrator says of it.
LEMMA Row ==
  ASSUME TypeOK, NEW a \in Logins
  PROVE  /\ account[a].version \in Nat
         /\ a \in Admins => account[a] \in [version : Nat \ {0}, password : Passwords]
         /\ a \notin Admins => account[a].version = 0
  BY DEF TypeOK, NoAccount, Admins

\* A request that moves on to a state of its own leaves all of them well formed.
LEMMA Moves ==
  ASSUME TypeOK, NEW r \in Requests, NEW next \in RequestStates, Goto(r, next)
  PROVE  /\ req' \in [Requests -> RequestStates]
         /\ req'[r] = next
         /\ \A q \in Requests \ {r} : req'[q] = req[q]
  BY DEF TypeOK, Goto

\* The states a request can be sent to without knowing anything.
LEMMA Resting == Idle \in RequestStates /\ Ending \in RequestStates /\ [Ending EXCEPT !.registered = TRUE] \in RequestStates
  BY DEF RequestStates, Idle, Ending

\* The tables are well formed from the start.
LEMMA TypeInit == Init => TypeOK
  <1> SUFFICES ASSUME Init PROVE TypeOK
    OBVIOUS
  <1>1. DOMAIN session = {} /\ session = [t \in DOMAIN session |-> session[t]]
    BY DEF Init
  <1>2. session \in [DOMAIN session -> [who : Logins, version : Nat, live : BOOLEAN, password : Passwords]]
    BY <1>1
  <1>3. cache \in BOOLEAN \cup {Unknown} /\ req \in [Requests -> RequestStates]
    BY Resting DEF Init
  <1>4. account \in [Logins -> {NoAccount} \cup [version : Nat \ {0}, password : Passwords]]
    BY DEF Init
  <1>5. QED  BY <1>1, <1>2, <1>3, <1>4 DEF Init, TypeOK

\* A step that writes no table keeps them well formed.
LEMMA TypeQuiet ==
  ASSUME TypeOK, UNCHANGED <<tables, counts>>, req' \in [Requests -> RequestStates],
         cache' \in BOOLEAN \cup {Unknown}, welcomed' \in BOOLEAN, together' \in Nat,
         clashed \subseteq clashed', clashed' \subseteq Logins
  PROVE  TypeOK'
  BY DEF TypeOK, tables, counts, Admins

\* So does the commit of a registration: a new account has no sessions yet.
LEMMA TypeSetupCommits == ASSUME TypeOK, NEW r \in Requests, SetupCommits(r) PROVE TypeOK'
  <1> DEFINE a == req[r].who
  <1>1. a \in Logins /\ req[r].password \in Passwords
    BY Remembered DEF SetupCommits
  <1>2. req' \in [Requests -> RequestStates]
    BY Moves, Resting DEF SetupCommits
  <1>3. CASE a \in Admins
    BY <1>2, <1>3, TypeQuiet DEF SetupCommits, tables, counts, history, TypeOK
  <1>4. CASE a \notin Admins
    <2>1. account' = [account EXCEPT ![a] = [version |-> 1, password |-> req[r].password]]
      BY <1>4 DEF SetupCommits
    <2>2. account' \in [Logins -> {NoAccount} \cup [version : Nat \ {0}, password : Passwords]]
      BY <2>1, <1>1 DEF TypeOK
    <2>3. \A t \in DOMAIN session : session[t].who # a
      BY <1>4 DEF TypeOK
    <2>4. \A t \in DOMAIN session : account'[session[t].who] = account[session[t].who]
      BY <2>1, <2>3 DEF TypeOK
    <2>5. \A t \in DOMAIN session : session[t].who \in Admins'
      BY <2>4 DEF TypeOK, Admins
    <2>6. QED  BY <1>2, <2>2, <2>4, <2>5 DEF SetupCommits, TypeOK, counts, history
  <1>5. QED  BY <1>3, <1>4

\* A login opens a session of an administrator.
LEMMA TypeLoginCommits ==
  ASSUME TypeOK, LoginsHonest, NEW r \in Requests, LoginCommits(r) PROVE TypeOK'
  <1> DEFINE row == [who |-> req[r].who, version |-> req[r].version, live |-> TRUE,
                     password |-> req[r].password]
             new == opened + 1
  <1>1. row \in [who : Logins, version : Nat, live : BOOLEAN, password : Passwords]
    BY Remembered DEF LoginCommits
  <1>2. req' \in [Requests -> RequestStates]
    BY Moves, Resting DEF LoginCommits
  <1>3. session' = [t \in DOMAIN session \cup {new} |-> IF t \in DOMAIN session THEN session[t] ELSE row]
    BY DEF LoginCommits
  <1>4. req[r].who \in Admins /\ (req[r].who \in clashed \/ req[r].version <= account[req[r].who].version)
    BY DEF LoginsHonest, LoginCommits, Was
  <1>5. \A t \in DOMAIN session' :
          LET s == session'[t] IN
          s.who \in Admins /\ (s.version <= account[s.who].version \/ s.who \in clashed)
    BY <1>3, <1>4 DEF TypeOK
  <1>6. session' \in [DOMAIN session' -> [who : Logins, version : Nat, live : BOOLEAN, password : Passwords]]
    BY <1>1, <1>3 DEF TypeOK
  <1>7. DOMAIN session' \subseteq 1 .. opened' /\ opened' \in Nat
    BY <1>3 DEF TypeOK, LoginCommits
  <1>8. QED  BY <1>2, <1>5, <1>6, <1>7 DEF LoginCommits, TypeOK, history, Admins

\* A reset deletes the sessions of its account before they could be ahead of it.
LEMMA TypeResetCommits ==
  ASSUME TypeOK, ResetsCurrent, NEW r \in Requests, ResetCommits(r) PROVE TypeOK'
  <1> DEFINE a == req[r].who
  <1>1. a \in Logins /\ req[r].version \in Nat /\ req[r].password \in Passwords
    BY Remembered DEF ResetCommits
  <1>2. req' \in [Requests -> RequestStates]
    BY Moves, Resting DEF ResetCommits
  <1>3. account' = [account EXCEPT ![a] = [version |-> req[r].version + 1, password |-> req[r].password]]
    BY DEF ResetCommits
  <1>4. session' = [t \in {u \in DOMAIN session : session[u].who # a} |-> session[t]]
    BY DEF ResetCommits
  <1>5. account' \in [Logins -> {NoAccount} \cup [version : Nat \ {0}, password : Passwords]]
    BY <1>1, <1>3 DEF TypeOK
  <1>6. \A t \in DOMAIN session' : session'[t] = session[t] /\ t \in DOMAIN session
                                   /\ account'[session[t].who] = account[session[t].who]
    BY <1>3, <1>4 DEF TypeOK
  <1>7. session' \in [DOMAIN session' -> [who : Logins, version : Nat, live : BOOLEAN, password : Passwords]]
    BY <1>4 DEF TypeOK
  <1>8. \A t \in DOMAIN session' : session'[t].who \in Admins'
    BY <1>6 DEF TypeOK, Admins
  <1>9. QED  BY <1>2, <1>5, <1>6, <1>7, <1>8 DEF ResetCommits, TypeOK, history

\* Marking a session live or expired, or deleting it, concerns nobody else.
LEMMA TypeMarks ==
  ASSUME TypeOK, NEW t \in DOMAIN session, NEW b \in BOOLEAN, session' = [session EXCEPT ![t].live = b],
         UNCHANGED <<account, counts, cache, history>>, req' \in [Requests -> RequestStates]
  PROVE  TypeOK'
  BY DEF TypeOK, counts, history, Admins

\* Logging out deletes one session.
LEMMA TypeLogsOut == ASSUME TypeOK, NEW r \in Requests, LogsOut(r) PROVE TypeOK'
  <1>1. req' \in [Requests -> RequestStates]
    BY Moves, Resting DEF LogsOut
  <1>2. QED  BY <1>1 DEF LogsOut, TypeOK, counts, history, Admins

\* And so does every other step.
LEMMA TypeNext == ASSUME TypeOK, LoginsHonest, ResetsCurrent, [Next]_vars PROVE TypeOK'
  <1> USE DEF history
  <1>1. ASSUME NEW r \in Requests, Ends(r) PROVE TypeOK'
    <2>1. req[r].registered \in BOOLEAN  BY <1>1, Remembered DEF Ends
    <2>2. QED  BY <1>1, <2>1, Moves, Resting, TypeQuiet DEF Ends, TypeOK
  <1>2. ASSUME NEW r \in Requests, NEW a \in Logins, NEW p \in Passwords, SetupChecks(r, a, p)
        PROVE  TypeOK'
    <2>1. [at |-> "setup", who |-> a, password |-> p] \in RequestStates  BY DEF RequestStates
    <2>2. req' \in [Requests -> RequestStates]
      BY <1>2, <2>1, Moves, Resting DEF SetupChecks
    <2>3. QED  BY <1>2, <2>2, TypeQuiet DEF SetupChecks, TypeOK
  <1>3. ASSUME NEW r \in Requests, NEW a \in Logins, LoginChecks(r, a) PROVE TypeOK'
    <2>1. [at |-> "login", who |-> a, version |-> account[a].version,
           password |-> account[a].password] \in RequestStates
      BY <1>3, Row DEF LoginChecks, RequestStates
    <2>2. QED  BY <1>3, <2>1, Moves, TypeQuiet DEF LoginChecks, TypeOK
  <1>4. ASSUME NEW r \in Requests, NEW a \in Logins, NEW p \in Passwords, ResetChecks(r, a, p)
        PROVE  TypeOK'
    <2>1. [at |-> "reset", who |-> a, version |-> account[a].version, password |-> p] \in RequestStates
      BY Row DEF RequestStates
    <2>2. QED  BY <1>4, <2>1, Moves, TypeQuiet DEF ResetChecks, TypeOK
  <1>5. ASSUME NEW r \in Requests, NEW t \in Cookies, EntersKnown(r, t) \/ Asks(r, t) PROVE TypeOK'
    <2>1. t \in Nat  BY DEF Cookies, NoToken, TypeOK
    <2>2. [at |-> "known", token |-> t] \in RequestStates
      BY <2>1 DEF RequestStates
    <2>3. [at |-> "asked", token |-> t, has |-> Admins # {}] \in RequestStates
      BY <2>1 DEF RequestStates
    <2>4. req' \in [Requests -> RequestStates]
      BY <1>5, <2>2, <2>3, Moves DEF EntersKnown, Asks, TypeOK
    <2>5. QED  BY <1>5, <2>4, TypeQuiet DEF EntersKnown, Asks, TypeOK
  <1>6. ASSUME NEW r \in Requests, Remembers(r) PROVE TypeOK'
    <2>1. req[r].token \in Nat /\ req[r].has \in BOOLEAN  BY <1>6, Remembered DEF Remembers
    <2>2. [at |-> "known", token |-> req[r].token] \in RequestStates  BY <2>1 DEF RequestStates
    <2>3. req' \in [Requests -> RequestStates]  BY <1>6, <2>2, Moves, Resting DEF Remembers
    <2>4. QED  BY <1>6, <2>1, <2>3, TypeQuiet DEF Remembers, TypeOK
  <1>7. ASSUME NEW r \in Requests, LooksUp(r) PROVE TypeOK'
    <2>1. [at |-> "found", token |-> req[r].token] \in RequestStates
      BY <1>7, Remembered DEF LooksUp, RequestStates
    <2>2. req' \in [Requests -> RequestStates]  BY <1>7, <2>1, Moves, Resting DEF LooksUp
    <2>3. QED  BY <1>7, <2>2, TypeQuiet DEF LooksUp, TypeOK
  <1>8. ASSUME NEW r \in Requests, Admits(r) PROVE TypeOK'
    <2>1. [at |-> "admitted", token |-> req[r].token] \in RequestStates
      BY <1>8, Remembered DEF Admits, RequestStates
    <2>2. req' \in [Requests -> RequestStates]  BY <1>8, <2>1, Moves, Resting DEF Admits
    <2>3. CASE req[r].token \in DOMAIN session
      BY <1>8, <2>2, <2>3, TypeMarks DEF Admits
    <2>4. CASE req[r].token \notin DOMAIN session
      BY <1>8, <2>2, <2>4, TypeQuiet DEF Admits, tables, TypeOK
    <2>5. QED  BY <2>3, <2>4
  <1>9. ASSUME NEW r \in Requests, Serves(r) PROVE TypeOK'
    BY <1>9, Moves, Resting, TypeQuiet DEF Serves, TypeOK
  <1>10. ASSUME NEW t \in DOMAIN session, SessionExpires(t) PROVE TypeOK'
    BY <1>10, TypeMarks DEF SessionExpires, TypeOK
  <1>11. CASE CacheExpires
    BY <1>11, TypeQuiet DEF CacheExpires, TypeOK
  <1>12. CASE UNCHANGED vars
    BY <1>12, TypeQuiet DEF vars, TypeOK
  <1>13. QED
    BY <1>1, <1>2, <1>3, <1>4, <1>5, <1>6, <1>7, <1>8, <1>9, <1>10, <1>11, <1>12,
       TypeSetupCommits, TypeLoginCommits, TypeResetCommits, TypeLogsOut DEF Next

-----------------------------------------------------------------------------
\* A step of a request that changes no table and does not lead to where a request
\* relies on the tables keeps the invariant.
LEMMA HonestQuiet ==
  ASSUME Inv, NEW r \in Requests, NEW next \in RequestStates, Goto(r, next),
         UNCHANGED <<tables, counts, clashed>>, next.at \notin {"login", "reset", "found"},
         next.at \in {"asked", "known", "admitted"} => next.token <= opened
  PROVE  Honest'
  <1>1. req'[r] = next /\ \A q \in Requests \ {r} : req'[q] = req[q]
    BY Moves DEF Inv
  <1>2. SessionsHonest'  BY DEF Inv, Honest, SessionsHonest, Was, tables
  <1>3. LoginsHonest'    BY <1>1 DEF Inv, Honest, LoginsHonest, Was, tables, Admins
  <1>4. ResetsCurrent'   BY <1>1 DEF Inv, Honest, ResetsCurrent, tables, Admins
  <1>5. FoundFresh'      BY <1>1 DEF Inv, Honest, FoundFresh, tables
  <1>6. TokensGiven'     BY <1>1 DEF Inv, Honest, TokensGiven, counts
  <1>7. QED  BY <1>2, <1>3, <1>4, <1>5, <1>6 DEF Honest

\* A resting request relies on nothing.
LEMMA RestingAt ==
  /\ Idle.at = "idle" /\ Ending.at = "ending" /\ [Ending EXCEPT !.registered = TRUE].at = "ending"
  BY DEF Idle, Ending

\* The first administrator had no session, login or reset before.
LEMMA HonestSetupCommits == ASSUME Inv, NEW r \in Requests, SetupCommits(r) PROVE Honest'
  <1> DEFINE a == req[r].who
  <1>1. a \in Logins  BY Remembered DEF SetupCommits, Inv
  <1>2. CASE a \in Admins
    BY <1>2, HonestQuiet, Resting, RestingAt DEF SetupCommits, tables, counts, history
  <1>3. CASE a \notin Admins
    <2>1. req'[r].at = "ending" /\ \A q \in Requests \ {r} : req'[q] = req[q]
      BY <1>3, Moves, Resting, RestingAt DEF SetupCommits, Inv
    <2>2. \A b \in Logins \ {a} : account'[b] = account[b]
      BY <1>3 DEF SetupCommits, Inv, TypeOK
    <2>3. Admins \subseteq Admins'
      BY <1>3, <2>2 DEF Admins
    <2>4. UNCHANGED <<session, opened, clashed>>
      BY DEF SetupCommits, counts, history
    <2>5. \A t \in DOMAIN session : session[t].who \in Logins \ {a}
      BY <1>3 DEF Inv, TypeOK
    <2>6. \A q \in Requests : req[q].at \in {"login", "reset"} => req[q].who \in Logins \ {a}
      BY <1>3, Remembered DEF Inv, Honest, LoginsHonest, ResetsCurrent
    <2>7. SessionsHonest'  BY <2>2, <2>4, <2>5 DEF Inv, Honest, SessionsHonest, Was
    <2>8. LoginsHonest'    BY <2>1, <2>2, <2>3, <2>4, <2>6 DEF Inv, Honest, LoginsHonest, Was
    <2>9. ResetsCurrent'   BY <2>1, <2>2, <2>3, <2>4, <2>6 DEF Inv, Honest, ResetsCurrent
    <2>10. FoundFresh'     BY <2>1, <2>2, <2>4, <2>5 DEF Inv, Honest, FoundFresh
    <2>11. TokensGiven'    BY <2>1, <2>4 DEF Inv, Honest, TokensGiven
    <2>12. QED  BY <2>7, <2>8, <2>9, <2>10, <2>11 DEF Honest
  <1>4. QED  BY <1>2, <1>3

\* A login remembers the row it has read.
LEMMA HonestLoginChecks == ASSUME Inv, NEW r \in Requests, NEW a \in Logins, LoginChecks(r, a) PROVE Honest'
  <1> DEFINE next == [at |-> "login", who |-> a, version |-> account[a].version,
                      password |-> account[a].password]
  <1>1. next \in RequestStates
    BY Row DEF LoginChecks, RequestStates, Inv
  <1>2. req'[r] = next /\ \A q \in Requests \ {r} : req'[q] = req[q]
    BY <1>1, Moves DEF LoginChecks, Inv
  <1>3. UNCHANGED <<account, session, opened, clashed>> /\ a \in Admins
    BY DEF LoginChecks, tables, counts, history
  <1>4. account[a].version \in Nat  BY Row DEF Inv
  <1>5. SessionsHonest'  BY <1>3 DEF Inv, Honest, SessionsHonest, Was
  <1>6. LoginsHonest'    BY <1>2, <1>3, <1>4 DEF Inv, Honest, LoginsHonest, Was, Admins
  <1>7. ResetsCurrent'   BY <1>2, <1>3 DEF Inv, Honest, ResetsCurrent, Admins
  <1>8. FoundFresh'      BY <1>2, <1>3 DEF Inv, Honest, FoundFresh
  <1>9. TokensGiven'     BY <1>2, <1>3 DEF Inv, Honest, TokensGiven
  <1>10. QED  BY <1>5, <1>6, <1>7, <1>8, <1>9 DEF Honest

\* The session gets what the login remembers, under a token nobody has.
LEMMA HonestLoginCommits == ASSUME Inv, NEW r \in Requests, LoginCommits(r) PROVE Honest'
  <1> DEFINE row == [who |-> req[r].who, version |-> req[r].version, live |-> TRUE,
                     password |-> req[r].password]
             new == opened + 1
  <1>1. req'[r].at = "ending" /\ \A q \in Requests \ {r} : req'[q] = req[q]
    BY Moves, Resting, RestingAt DEF LoginCommits, Inv
  <1>2. DOMAIN session' = DOMAIN session \cup {new} /\ session'[new] = row
        /\ \A t \in DOMAIN session : session'[t] = session[t]
    <2>1. new \notin DOMAIN session  BY DEF Inv, TypeOK
    <2>2. QED  BY <2>1 DEF LoginCommits
  <1>3. UNCHANGED <<account, clashed>> /\ opened' = new /\ opened \in Nat
    BY DEF LoginCommits, history, Inv, TypeOK
  <1>4. row.who \in clashed \/ Was(row.who, row.version, row.password)
    BY DEF LoginCommits, Inv, Honest, LoginsHonest
  <1>5. SessionsHonest'  BY <1>2, <1>3, <1>4 DEF Inv, Honest, SessionsHonest, Was
  <1>6. LoginsHonest'    BY <1>1, <1>3 DEF Inv, Honest, LoginsHonest, Was, Admins
  <1>7. ResetsCurrent'   BY <1>1, <1>3 DEF Inv, Honest, ResetsCurrent, Admins
  <1>8. FoundFresh'
    <2>1. \A q \in Requests : req[q].at = "found" => req[q].token # new
      <3>1. \A q \in Requests : req[q].at = "found" => req[q].token \in Nat /\ req[q].token <= opened
        BY Remembered DEF Inv, Honest, TokensGiven
      <3>2. QED  BY <3>1, <1>3
    <2>2. QED  BY <1>1, <1>2, <1>3, <2>1 DEF Inv, Honest, FoundFresh
  <1>9. TokensGiven'
    <2>1. \A q \in Requests : req[q].at \in {"asked", "known", "found", "admitted"} => req[q].token \in Nat
      BY Remembered DEF Inv
    <2>2. QED  BY <1>1, <1>3, <2>1 DEF Inv, Honest, TokensGiven
  <1>10. QED  BY <1>5, <1>6, <1>7, <1>8, <1>9 DEF Honest

\* A reset remembers the version it has read, and clashes with any other of the account.
LEMMA HonestResetChecks ==
  ASSUME Inv, NEW r \in Requests, NEW a \in Logins, NEW p \in Passwords, ResetChecks(r, a, p)
  PROVE  Honest'
  <1> DEFINE next == [at |-> "reset", who |-> a, version |-> account[a].version, password |-> p]
  <1>1. next \in RequestStates
    BY Row DEF RequestStates, Inv
  <1>2. req'[r] = next /\ \A q \in Requests \ {r} : req'[q] = req[q]
    BY <1>1, Moves DEF ResetChecks, Inv
  <1>3. UNCHANGED <<account, session, opened>> /\ a \in Admins /\ clashed \subseteq clashed'
    BY DEF ResetChecks, tables, counts
  <1>4. SessionsHonest'  BY <1>3 DEF Inv, Honest, SessionsHonest, Was
  <1>5. LoginsHonest'    BY <1>2, <1>3 DEF Inv, Honest, LoginsHonest, Was, Admins
  <1>6. ResetsCurrent'
    <2>1. (\E q \in Requests \ {r} : req[q].at = "reset" /\ req[q].who = a) => a \in clashed'
      BY DEF ResetChecks, OthersAt
    <2>2. QED  BY <1>2, <1>3, <2>1 DEF Inv, Honest, ResetsCurrent, Admins
  <1>7. FoundFresh'      BY <1>2, <1>3 DEF Inv, Honest, FoundFresh
  <1>8. TokensGiven'     BY <1>2, <1>3 DEF Inv, Honest, TokensGiven
  <1>9. QED  BY <1>4, <1>5, <1>6, <1>7, <1>8 DEF Honest

\* With the next version every login of the account is out of date and no session is left.
LEMMA HonestResetCommits == ASSUME Inv, NEW r \in Requests, ResetCommits(r) PROVE Honest'
  <1> DEFINE a == req[r].who
  <1>1. a \in Logins /\ a \in Admins /\ req[r].version \in Nat /\ req[r].password \in Passwords
    BY Remembered DEF ResetCommits, Inv, Honest, ResetsCurrent
  <1>2. req'[r].at = "ending" /\ \A q \in Requests \ {r} : req'[q] = req[q]
    BY Moves, Resting, RestingAt DEF ResetCommits, Inv
  <1>3. account'[a] = [version |-> req[r].version + 1, password |-> req[r].password]
        /\ \A b \in Logins \ {a} : account'[b] = account[b]
    BY <1>1 DEF ResetCommits, Inv, TypeOK
  <1>4. \A t \in DOMAIN session' : t \in DOMAIN session /\ session'[t] = session[t] /\ session[t].who \in Logins \ {a}
    BY DEF ResetCommits, Inv, TypeOK
  <1>5. UNCHANGED <<opened, clashed>>
    BY DEF ResetCommits, history
  <1>6. Admins \subseteq Admins'
    BY <1>1, <1>3 DEF Admins
  <1>7. a \in clashed \/ account'[a].version = account[a].version + 1
    BY <1>3 DEF ResetCommits, Inv, Honest, ResetsCurrent
  <1>8. a \in clashed \/ \A q \in Requests \ {r} : req[q].at = "reset" => req[q].who # a
    BY DEF ResetCommits, Inv, Honest, ResetsCurrent
  <1>9. account[a].version \in Nat  BY <1>1, Row DEF Inv
  <1>10. \A q \in Requests : req[q].at \in {"login", "reset"} => req[q].who \in Logins /\ req[q].version \in Nat
    BY Remembered DEF Inv
  <1>11. SessionsHonest'  BY <1>3, <1>4, <1>5 DEF Inv, Honest, SessionsHonest, Was
  <1>12. LoginsHonest'
    <2> SUFFICES ASSUME NEW q \in Requests, req'[q].at = "login"
                 PROVE  (req[q].who \in Admins /\ (req[q].who \in clashed \/ Was(req[q].who, req[q].version, req[q].password)))'
      BY DEF LoginsHonest
    <2>1. req'[q] = req[q] /\ req[q].at = "login"  BY <1>2
    <2>2. req[q].who \in Admins /\ (req[q].who \in clashed \/ Was(req[q].who, req[q].version, req[q].password))
      BY <2>1 DEF Inv, Honest, LoginsHonest
    <2>3. req[q].who \in Logins /\ req[q].version \in Nat  BY <2>1, <1>10
    <2>4. CASE req[q].who = a
      <3>1. a \in clashed \/ req[q].version < account'[a].version
        BY <2>2, <2>3, <2>4, <1>7, <1>9 DEF Was
      <3>2. account'[a].version \in Nat  BY <1>1, <1>3
      <3>3. QED  BY <2>1, <2>2, <2>3, <2>4, <3>1, <3>2, <1>5, <1>6 DEF Was
    <2>5. CASE req[q].who # a
      BY <2>1, <2>2, <2>3, <2>5, <1>3, <1>5, <1>6 DEF Was
    <2>6. QED  BY <2>4, <2>5
  <1>13. ResetsCurrent'
    BY <1>2, <1>3, <1>5, <1>6, <1>8, <1>10 DEF Inv, Honest, ResetsCurrent
  <1>14. FoundFresh'      BY <1>2, <1>3, <1>4, <1>5 DEF Inv, Honest, FoundFresh
  <1>15. TokensGiven'     BY <1>2, <1>5 DEF Inv, Honest, TokensGiven
  <1>16. QED  BY <1>11, <1>12, <1>13, <1>14, <1>15 DEF Honest

\* The middleware only goes on with a session that is fresh.
LEMMA HonestLooksUp == ASSUME Inv, NEW r \in Requests, LooksUp(r) PROVE Honest'
  <1> DEFINE t == req[r].token
  <1>1. CASE ~Fresh(t)
    BY <1>1, HonestQuiet, Resting, RestingAt DEF LooksUp, tables, counts, history
  <1>2. CASE Fresh(t)
    <2>1. t \in Nat /\ t <= opened
      BY Remembered DEF LooksUp, Inv, Honest, TokensGiven
    <2>2. [at |-> "found", token |-> t] \in RequestStates
      BY <2>1 DEF RequestStates
    <2>3. req'[r] = [at |-> "found", token |-> t] /\ \A q \in Requests \ {r} : req'[q] = req[q]
      BY <1>2, <2>2, Moves DEF LooksUp, Inv
    <2>4. UNCHANGED <<account, session, opened, clashed>>
      BY DEF LooksUp, tables, counts, history
    <2>5. session[t].version = account[session[t].who].version
      BY <1>2 DEF Fresh
    <2>6. SessionsHonest'  BY <2>4 DEF Inv, Honest, SessionsHonest, Was
    <2>7. LoginsHonest'    BY <2>3, <2>4 DEF Inv, Honest, LoginsHonest, Was, Admins
    <2>8. ResetsCurrent'   BY <2>3, <2>4 DEF Inv, Honest, ResetsCurrent, Admins
    <2>9. FoundFresh'      BY <2>3, <2>4, <2>5 DEF Inv, Honest, FoundFresh
    <2>10. TokensGiven'    BY <2>1, <2>3, <2>4 DEF Inv, Honest, TokensGiven
    <2>11. QED  BY <2>6, <2>7, <2>8, <2>9, <2>10 DEF Honest
  <1>3. QED  BY <1>1, <1>2

\* Rows that change only in whether they have expired, or go, take nothing from the invariant.
LEMMA HonestRows ==
  ASSUME Inv, UNCHANGED <<account, opened, clashed>>, DOMAIN session' \subseteq DOMAIN session,
         \A t \in DOMAIN session' : /\ session'[t].who = session[t].who
                                  /\ session'[t].version = session[t].version
                                  /\ session'[t].password = session[t].password,
         \A q \in Requests : \/ req'[q] = req[q]
                             \/ req'[q].at \in {"idle", "ending"}
                             \/ req'[q].at = "admitted" /\ req'[q].token <= opened
  PROVE  Honest'
  <1>1. SessionsHonest'  BY DEF Inv, Honest, SessionsHonest, Was
  <1>2. LoginsHonest'    BY DEF Inv, Honest, LoginsHonest, Was, Admins
  <1>3. ResetsCurrent'   BY DEF Inv, Honest, ResetsCurrent, Admins
  <1>4. FoundFresh'      BY DEF Inv, Honest, FoundFresh
  <1>5. TokensGiven'     BY DEF Inv, Honest, TokensGiven
  <1>6. QED  BY <1>1, <1>2, <1>3, <1>4, <1>5 DEF Honest

\* An admission marks a session live, or finds it gone and sends the request away.
LEMMA HonestAdmits == ASSUME Inv, NEW r \in Requests, Admits(r) PROVE Honest'
  <1> DEFINE t == req[r].token
  <1>1. t \in Nat /\ t <= opened
    BY Remembered DEF Admits, Inv, Honest, TokensGiven
  <1>2. [at |-> "admitted", token |-> t] \in RequestStates
    BY <1>1 DEF RequestStates
  <1>3. UNCHANGED <<account, opened, clashed>>
    BY DEF Admits, counts, history
  <1>4. \A q \in Requests : \/ req'[q] = req[q]
                            \/ req'[q].at = "idle"
                            \/ req'[q].at = "admitted" /\ req'[q].token <= opened
    BY <1>1, <1>2, Moves, Resting, RestingAt DEF Admits, Inv
  <1>5. DOMAIN session' = DOMAIN session
        /\ \A u \in DOMAIN session : /\ session'[u].who = session[u].who
                                     /\ session'[u].version = session[u].version
                                     /\ session'[u].password = session[u].password
    BY DEF Admits, Inv, TypeOK
  <1>6. QED  BY <1>3, <1>4, <1>5, HonestRows

\* Logging out deletes one session, and nobody relies on its being there.
LEMMA HonestLogsOut == ASSUME Inv, NEW r \in Requests, LogsOut(r) PROVE Honest'
  <1>1. UNCHANGED <<account, opened, clashed>>
    BY DEF LogsOut, counts, history
  <1>2. \A q \in Requests : req'[q] = req[q] \/ req'[q].at = "ending"
    BY Moves, Resting, RestingAt DEF LogsOut, Inv
  <1>3. DOMAIN session' \subseteq DOMAIN session /\ \A u \in DOMAIN session' : session'[u] = session[u]
    BY DEF LogsOut
  <1>4. QED  BY <1>1, <1>2, <1>3, HonestRows

\* A session that has expired keeps its account, version and password.
LEMMA HonestSessionExpires == ASSUME Inv, NEW t \in DOMAIN session, SessionExpires(t) PROVE Honest'
  <1>1. UNCHANGED <<account, opened, clashed, req>>
    BY DEF SessionExpires, counts, history
  <1>2. DOMAIN session' = DOMAIN session
        /\ \A u \in DOMAIN session : /\ session'[u].who = session[u].who
                                     /\ session'[u].version = session[u].version
                                     /\ session'[u].password = session[u].password
    BY DEF SessionExpires, Inv, TypeOK
  <1>3. QED  BY <1>1, <1>2, HonestRows

\* No step breaks the inductive invariant.
LEMMA InvNext == Inv /\ [Next]_vars => Inv'
  <1> SUFFICES ASSUME Inv, [Next]_vars PROVE Honest'
    BY TypeNext DEF Inv, Honest
  <1> USE DEF tables, counts, history
  <1>1. ASSUME NEW r \in Requests, Ends(r) PROVE Honest'
    BY <1>1, HonestQuiet, Resting, RestingAt DEF Ends
  <1>2. ASSUME NEW r \in Requests, NEW a \in Logins, NEW p \in Passwords, SetupChecks(r, a, p)
        PROVE  Honest'
    <2>1. [at |-> "setup", who |-> a, password |-> p] \in RequestStates  BY DEF RequestStates
    <2>2. QED  BY <1>2, <2>1, HonestQuiet, Resting, RestingAt DEF SetupChecks
  <1>3. ASSUME NEW r \in Requests, NEW t \in Cookies, EntersKnown(r, t) \/ Asks(r, t) PROVE Honest'
    <2>1. t \in Nat /\ t <= opened  BY DEF Cookies, NoToken, Inv, TypeOK
    <2>2. [at |-> "known", token |-> t] \in RequestStates
      BY <2>1 DEF RequestStates
    <2>3. [at |-> "asked", token |-> t, has |-> Admins # {}] \in RequestStates
      BY <2>1 DEF RequestStates
    <2>4. CASE Asks(r, t)
      BY <2>4, <2>1, <2>3, HonestQuiet DEF Asks
    <2>5. CASE EntersKnown(r, t) /\ cache = TRUE /\ t # NoToken
      BY <2>5, <2>1, <2>2, HonestQuiet DEF EntersKnown
    <2>6. CASE EntersKnown(r, t) /\ ~(cache = TRUE /\ t # NoToken)
      BY <2>6, HonestRows DEF EntersKnown
    <2>7. QED  BY <1>3, <2>4, <2>5, <2>6
  <1>4. ASSUME NEW r \in Requests, Remembers(r) PROVE Honest'
    <2>1. req[r].token \in Nat /\ req[r].token <= opened
      BY <1>4, Remembered DEF Remembers, Inv, Honest, TokensGiven
    <2>2. [at |-> "known", token |-> req[r].token] \in RequestStates  BY <2>1 DEF RequestStates
    <2>3. QED  BY <1>4, <2>1, <2>2, HonestQuiet, Resting, RestingAt DEF Remembers
  <1>5. ASSUME NEW r \in Requests, Serves(r) PROVE Honest'
    BY <1>5, HonestQuiet, Resting, RestingAt DEF Serves
  <1>6. CASE CacheExpires
    BY <1>6, HonestRows DEF CacheExpires
  <1>7. CASE UNCHANGED vars
    BY <1>7, HonestRows DEF vars
  <1>8. QED
    BY <1>1, <1>2, <1>3, <1>4, <1>5, <1>6, <1>7, HonestSetupCommits, HonestLoginChecks,
       HonestLoginCommits, HonestResetChecks, HonestResetCommits, HonestLooksUp, HonestAdmits,
       HonestLogsOut, HonestSessionExpires DEF Next

\* It holds at the start, where nobody has asked for anything.
LEMMA InvInit == Init => Inv
  BY TypeInit DEF Init, Inv, Honest, SessionsHonest, LoginsHonest, ResetsCurrent, FoundFresh,
     TokensGiven, Idle

\* The inductive invariant always holds.
LEMMA Invariant == Spec => []Inv
  BY InvInit, InvNext, PTL DEF Spec

\* Type correctness: every row and request stays well formed, every session has an
\* account, and none is ahead of its account unless resets clashed.
THEOREM TypeCorrect == Spec => []TypeOK
  BY Invariant, PTL DEF Inv

-----------------------------------------------------------------------------
\* Only Admits admits, and only a session that is still in the table.
LEMMA AdmittedBy ==
  ASSUME Inv, Next, NEW r \in Requests, req[r].at = "found", req'[r].at = "admitted"
  PROVE  req[r].token \in DOMAIN session
  <1>1. ASSUME NEW q \in Requests, NEW next, Goto(q, next) PROVE q = r /\ next.at = "admitted"
    BY <1>1 DEF Goto, Inv, TypeOK
  <1>2. Idle.at # "admitted" /\ Ending.at # "admitted" /\ [Ending EXCEPT !.registered = TRUE].at # "admitted"
    BY RestingAt
  <1>3. req' # req  OBVIOUS
  <1>4. ASSUME NEW q \in Requests, Admits(q) PROVE req[r].token \in DOMAIN session
    BY <1>1, <1>2, <1>4 DEF Admits
  <1>5. ASSUME NEW q \in Requests, NEW a \in Logins, NEW p \in Passwords,
               SetupChecks(q, a, p) \/ ResetChecks(q, a, p)
        PROVE  FALSE
    BY <1>1, <1>2, <1>5 DEF SetupChecks, ResetChecks
  <1>6. ASSUME NEW q \in Requests, NEW t \in Cookies, EntersKnown(q, t) \/ Asks(q, t) PROVE FALSE
    BY <1>1, <1>3, <1>6 DEF EntersKnown, Asks
  <1>7. ASSUME NEW q \in Requests, SetupCommits(q) \/ LoginCommits(q) \/ ResetCommits(q) PROVE FALSE
    BY <1>1, <1>2, <1>7 DEF SetupCommits, LoginCommits, ResetCommits
  <1>8. ASSUME NEW q \in Requests, Remembers(q) \/ LooksUp(q) PROVE FALSE
    BY <1>1, <1>2, <1>8 DEF Remembers, LooksUp
  <1>9. ASSUME NEW q \in Requests, Serves(q) \/ LogsOut(q) \/ Ends(q) PROVE FALSE
    BY <1>1, <1>2, <1>9 DEF Serves, LogsOut, Ends
  <1>10. ASSUME NEW t \in DOMAIN session, SessionExpires(t) PROVE FALSE
    BY <1>3, <1>10 DEF SessionExpires
  <1>11. CASE CacheExpires
    BY <1>3, <1>11 DEF CacheExpires
  <1>12. ASSUME NEW q \in Requests, NEW a \in Logins, LoginChecks(q, a) PROVE FALSE
    BY <1>1, <1>12 DEF LoginChecks
  <1>13. QED  BY <1>4, <1>5, <1>6, <1>7, <1>8, <1>9, <1>10, <1>11, <1>12 DEF Next

\* Whoever is admitted logged in with the password that is valid now, unless two resets
\* of the account clashed: for any numbers of accounts, requests, logins and resets.
THEOREM ShutOut == Spec => OldPasswordsShutOut
  <1> DEFINE Admission ==
        \A r \in Requests :
          req[r].at = "found" /\ req'[r].at = "admitted" =>
            LET s == session[req[r].token] IN
            s.password = account[s.who].password \/ s.who \in clashed
  <1>1. ASSUME Inv, Next PROVE Admission
    <2> SUFFICES ASSUME NEW r \in Requests, req[r].at = "found", req'[r].at = "admitted"
                 PROVE  LET s == session[req[r].token] IN
                        s.password = account[s.who].password \/ s.who \in clashed
      OBVIOUS
    <2>1. req[r].token \in DOMAIN session
      BY <1>1, AdmittedBy
    <2>2. QED  BY <1>1, <2>1 DEF Inv, Honest, FoundFresh, SessionsHonest, Was
  <1>2. Inv /\ [Next]_vars => [Admission]_vars
    BY <1>1
  <1>3. QED  BY <1>2, Invariant, PTL DEF Spec, OldPasswordsShutOut

-----------------------------------------------------------------------------
\* A registration under way is counted once, whatever else moves.
LEMMA SettingUpMoves ==
  ASSUME TypeOK, NEW r \in Requests, NEW next \in RequestStates, Goto(r, next)
  PROVE  /\ next.at = "setup" => SettingUp' = SettingUp \cup {r}
         /\ next.at # "setup" => SettingUp' = SettingUp \ {r}
  BY Moves DEF SettingUp

\* Administrators and registrations under way can be counted.
LEMMA Finite == IsFiniteSet(Admins) /\ IsFiniteSet(SettingUp)
                /\ Cardinality(Admins) \in Nat /\ Cardinality(SettingUp) \in Nat
  <1>1. Admins \subseteq Logins /\ SettingUp \subseteq Requests  BY DEF Admins, SettingUp
  <1>2. IsFiniteSet(Admins) /\ IsFiniteSet(SettingUp)  BY <1>1, FiniteAssumption, FS_Subset
  <1>3. QED  BY <1>2, FS_CardinalityType

LEMMA Elsewhere ==
  ASSUME TypeOK, NEW r \in Requests, NEW next \in RequestStates, Goto(r, next),
         req[r].at # "setup", next.at # "setup"
  PROVE  SettingUp' = SettingUp
  BY SettingUpMoves DEF SettingUp

\* Only the check adds to the count, and it adds to together as well when it is not alone.
LEMMA RegistrationsChecks ==
  ASSUME Inv, Registrations, NEW r \in Requests, NEW a \in Logins, NEW p \in Passwords,
         SetupChecks(r, a, p)
  PROVE  Registrations'
  <1> DEFINE next == [at |-> "setup", who |-> a, password |-> p]
  <1>1. r \notin SettingUp /\ Admins' = Admins
    BY DEF SetupChecks, SettingUp, Idle, tables, Admins
  <1>2. CASE Admins # {}
    <2>1. SettingUp' = SettingUp
      BY <1>1, <1>2, Elsewhere, Resting, RestingAt DEF SetupChecks, Inv
    <2>2. together' = together
      BY <1>2 DEF SetupChecks
    <2>3. QED  BY <1>1, <2>1, <2>2 DEF Registrations
  <1>3. CASE Admins = {}
    <2>1. next \in RequestStates  BY DEF RequestStates
    <2>2. SettingUp' = SettingUp \cup {r}
      BY <1>3, <2>1, SettingUpMoves DEF SetupChecks, Inv
    <2>3. Cardinality(SettingUp') = Cardinality(SettingUp) + 1
      BY <1>1, <2>2, Finite, FS_AddElement
    <2>4. Cardinality(Admins') = 0 /\ Cardinality(Admins) = 0
      BY <1>1, <1>3, FS_EmptySet
    <2>5. OthersAt(r, "setup") = SettingUp
      BY <1>1 DEF OthersAt, SettingUp
    <2>6. CASE SettingUp = {}
      BY <1>3, <2>3, <2>4, <2>5, <2>6, FS_EmptySet DEF SetupChecks, Registrations, Inv, TypeOK
    <2>7. CASE SettingUp # {}
      <3>1. together' = together + 1 /\ together \in Nat
        BY <1>3, <2>5, <2>7 DEF SetupChecks, Inv, TypeOK
      <3>2. QED  BY <2>3, <2>4, <3>1, Finite DEF Registrations
    <2>8. QED  BY <2>6, <2>7
  <1>4. QED  BY <1>2, <1>3

\* A commit turns a registration under way into at most one administrator.
LEMMA RegistrationsCommits ==
  ASSUME Inv, Registrations, NEW r \in Requests, SetupCommits(r) PROVE Registrations'
  <1> DEFINE a == req[r].who
  <1>1. a \in Logins  BY Remembered DEF SetupCommits, Inv
  <1>2. SettingUp' = SettingUp \ {r} /\ r \in SettingUp
    <2>1. SettingUp' = SettingUp \ {r}
      BY SettingUpMoves, Resting, RestingAt DEF SetupCommits, Inv
    <2>2. QED  BY <2>1 DEF SettingUp, SetupCommits
  <1>3. Cardinality(SettingUp') = Cardinality(SettingUp) - 1
    BY <1>2, Finite, FS_RemoveElement
  <1>4. Admins' = Admins \/ Admins' = Admins \cup {a}
    <2>1. CASE a \in Admins  BY <2>1 DEF SetupCommits, Admins
    <2>2. CASE a \notin Admins  BY <1>1, <2>2 DEF SetupCommits, Admins, Inv, TypeOK
    <2>3. QED  BY <2>1, <2>2
  <1>5. Cardinality(Admins') \in Nat /\ Cardinality(Admins') <= Cardinality(Admins) + 1
    <2>1. Cardinality(Admins \cup {a}) = IF a \in Admins THEN Cardinality(Admins) ELSE Cardinality(Admins) + 1
      BY Finite, FS_AddElement
    <2>2. QED  BY <1>4, <2>1, Finite
  <1>6. together' = together /\ together \in Nat
    BY DEF SetupCommits, history, Inv, TypeOK
  <1>7. QED  BY <1>3, <1>5, <1>6, Finite DEF Registrations

\* A step that neither registers nor checks keeps the count.
LEMMA RegistrationsQuiet ==
  ASSUME Registrations, UNCHANGED <<Admins, SettingUp, together>> PROVE Registrations'
  BY DEF Registrations

\* No step of anyone breaks the count.
LEMMA RegistrationsNext == Inv /\ Registrations /\ [Next]_vars => Registrations'
  <1> SUFFICES ASSUME Inv, Registrations, [Next]_vars PROVE Registrations'
    OBVIOUS
  <1> USE RegistrationsQuiet, Elsewhere, Resting, RestingAt DEF tables, counts, history, Admins, Inv
  <1>1. ASSUME NEW r \in Requests, NEW a \in Logins, LoginChecks(r, a) PROVE Registrations'
    <2>1. [at |-> "login", who |-> a, version |-> account[a].version,
           password |-> account[a].password] \in RequestStates
      BY <1>1, Row DEF LoginChecks, RequestStates
    <2>2. QED  BY <1>1, <2>1 DEF LoginChecks
  <1>2. ASSUME NEW r \in Requests, NEW a \in Logins, NEW p \in Passwords, ResetChecks(r, a, p)
        PROVE  Registrations'
    <2>1. [at |-> "reset", who |-> a, version |-> account[a].version, password |-> p] \in RequestStates
      BY Row DEF RequestStates
    <2>2. QED  BY <1>2, <2>1 DEF ResetChecks
  <1>3. ASSUME NEW r \in Requests, LoginCommits(r) \/ Serves(r) \/ LogsOut(r) \/ Ends(r)
        PROVE  Registrations'
    BY <1>3 DEF LoginCommits, Serves, LogsOut, Ends
  <1>4. ASSUME NEW r \in Requests, ResetCommits(r) PROVE Registrations'
    <2>1. req[r].who \in Admins /\ req[r].version \in Nat
      BY <1>4, Remembered DEF ResetCommits, Honest, ResetsCurrent
    <2>2. Admins' = Admins
      BY <1>4, <2>1 DEF ResetCommits, TypeOK
    <2>3. SettingUp' = SettingUp
      BY <1>4 DEF ResetCommits
    <2>4. QED  BY <1>4, <2>2, <2>3 DEF ResetCommits
  <1>5. ASSUME NEW r \in Requests, NEW t \in Cookies, EntersKnown(r, t) \/ Asks(r, t)
        PROVE  Registrations'
    <2>1. t \in Nat  BY DEF Cookies, NoToken, TypeOK
    <2>2. /\ [at |-> "known", token |-> t] \in RequestStates
          /\ [at |-> "asked", token |-> t, has |-> Admins # {}] \in RequestStates
      BY <2>1 DEF RequestStates
    <2>3. SettingUp' = SettingUp
      <3>1. CASE UNCHANGED req  BY <3>1 DEF SettingUp
      <3>2. CASE Goto(r, [at |-> "known", token |-> t])
        BY <1>5, <2>2, <3>2 DEF EntersKnown, Asks
      <3>3. CASE Goto(r, [at |-> "asked", token |-> t, has |-> Admins # {}])
        BY <1>5, <2>2, <3>3 DEF EntersKnown, Asks
      <3>4. QED  BY <1>5, <3>1, <3>2, <3>3 DEF EntersKnown, Asks
    <2>4. QED  BY <1>5, <2>3 DEF EntersKnown, Asks
  <1>6. ASSUME NEW r \in Requests, Remembers(r) \/ LooksUp(r) \/ Admits(r) PROVE Registrations'
    <2>1. req[r].token \in Nat  BY <1>6, Remembered DEF Remembers, LooksUp, Admits
    <2>2. \A at \in {"known", "found", "admitted"} : [at |-> at, token |-> req[r].token] \in RequestStates
      BY <2>1 DEF RequestStates
    <2>3. SettingUp' = SettingUp
      BY <1>6, <2>2 DEF Remembers, LooksUp, Admits
    <2>4. QED  BY <1>6, <2>3 DEF Remembers, LooksUp, Admits
  <1>7. ASSUME NEW t \in DOMAIN session, SessionExpires(t) PROVE Registrations'
    BY <1>7 DEF SessionExpires, SettingUp
  <1>8. CASE CacheExpires
    BY <1>8 DEF CacheExpires, SettingUp
  <1>9. CASE UNCHANGED vars
    BY <1>9 DEF vars, SettingUp
  <1>10. QED
    BY <1>1, <1>2, <1>3, <1>4, <1>5, <1>6, <1>7, <1>8, <1>9, RegistrationsChecks, RegistrationsCommits
    DEF Next

\* There is at most one administrator more than there were registrations that passed
\* their check while another one was under way.
THEOREM FirstAdminOnly == Spec => []OneFirstAdmin
  <1>1. Init => Registrations
    <2> SUFFICES ASSUME Init PROVE Registrations
      OBVIOUS
    <2>1. Admins = {} /\ SettingUp = {}  BY DEF Init, Admins, NoAccount, SettingUp, Idle
    <2>2. QED  BY <2>1, FS_EmptySet DEF Init, Registrations
  <1>2. Inv /\ Registrations => OneFirstAdmin
    BY Finite DEF Registrations, OneFirstAdmin, Inv, TypeOK
  <1>3. QED  BY <1>1, <1>2, InvInit, InvNext, RegistrationsNext, PTL DEF Spec
=============================================================================
