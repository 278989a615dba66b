-------------------------- MODULE DeploymentProofs --------------------------
(***************************************************************************)
(* Restarts are safe until a container is created again, and a panel that  *)
(* is up decrypts every row, for any number of secrets, regenerations,     *)
(* kills, saves and commands.                                              *)
(***************************************************************************)
EXTENDS Deployment, TLAPS

\* The rows are under the first key, whatever was regenerated,
RowsUnderFirst == \A s \in Secrets : row[s] = NoRow \/ (row[s].key = 1 /\ row[s].value # 0)

\* credentials with the first password have the first key or none that loads,
Fits(c) == c.password = First.password => c.key = First.key \/ ~Loads(c.key)
CredentialsFit == Fits(file) /\ \A c \in Containers : Fits(env[c])

\* so have those a regeneration is writing, and a key it made does not load,
RegenFits ==
  regen # Idle => Fits(regen.new) /\ (regen.ofKey => ~Loads(regen.new.key))

\* and until one is created again the containers have the first credentials.
EnvFirst == recreated \/ \A c \in Containers : env[c] = First

\* The inductive invariant.
Inv ==
  /\ TypeOK /\ RowsUnderFirst /\ CredentialsFit /\ RegenFits /\ EnvFirst
  /\ dbPassword = First.password

-----------------------------------------------------------------------------
\* The types of the values the constants name.
LEMMA Constants ==
  /\ First \in CredentialType /\ Empty \in CredentialType /\ NoKey \in KeyType
  /\ NoValues \in [Secrets -> Nat] /\ NoRow \in [key : Nat, value : Nat]
  BY DEF First, Empty, NoKey, NoValues, NoRow, CredentialType, KeyType

\* A process that has ended has a well formed record.
LEMMA BotAtType ==
  ASSUME NEW state \in {"exited", "down"}
  PROVE  /\ BotAt(state) \in [at : {"exited", "down", "waiting", "running"}, key : KeyType,
                              values : [Secrets -> Nat]]
         /\ BotAt(state).at = state /\ BotAt(state).values = NoValues
  BY Constants DEF BotAt

\* Spending keeps the counters numbers.
LEMMA SpendType ==
  ASSUME TypeOK, NEW b \in {"regens", "outside", "saves", "commands", "fails"}, NEW max,
         Spend(b, max)
  PROVE  used' \in [{"regens", "outside", "saves", "commands", "fails"} -> Nat]
  BY DEF TypeOK, Spend

\* A password nobody has used yet is a number other than the first.
LEMMA FreshType == ASSUME TypeOK PROVE Fresh \in Nat /\ Fresh >= 2
  BY DEF TypeOK, Fresh

\* init_env.py leaves credentials that fit: what it makes has another password.
LEMMA InitEnvFits ==
  ASSUME TypeOK, Fits(file)
  PROVE  InitEnv(file) \in CredentialType /\ Fits(InitEnv(file))
<1> file \in CredentialType BY DEF TypeOK
<1> QED BY FreshType DEF InitEnv, Fits, First, CredentialType, KeyType

\* A regeneration moves no row: its key cannot encrypt.
LEMMA RowsStay ==
  ASSUME Inv, RegenRows
  PROVE  row' = row
<1>1. CASE ~regen.ofKey BY <1>1 DEF RegenRows
<1>2. CASE regen.ofKey
  <2>1. ~Loads(regen.new.key) BY <1>2 DEF Inv, RegenFits, RegenRows, Idle
  <2>2. row' = [s \in Secrets |-> Reencrypted(row[s], env["panel"].key, regen.new.key)]
    BY <1>2 DEF RegenRows
  <2>3. \A s \in Secrets : Reencrypted(row[s], env["panel"].key, regen.new.key) = row[s]
    BY <2>1 DEF Reencrypted
  <2>4. row \in [Secrets -> [key : Nat, value : Nat]] BY DEF Inv, TypeOK
  <2> QED BY <2>2, <2>3, <2>4
<1> QED BY <1>1, <1>2

\* A panel that is to start, or that has started, has the first credentials in full.
LEMMA PanelHasFirst ==
  ASSUME Inv, Connects("panel"), Loads(env["panel"].key)
  PROVE  env["panel"].key = First.key
  BY DEF Inv, CredentialsFit, Fits, Connects, Containers

-----------------------------------------------------------------------------
\* The first credentials: everything is made from one .env.
LEMMA InvInit == ASSUME Init PROVE Inv
<1> USE DEF Init
<1>1. TypeOK
  <2>1. bot \in [at : {"exited", "down", "waiting", "running"}, key : KeyType,
                 values : [Secrets -> Nat]]
    BY Constants
  <2>2. used \in [{"regens", "outside", "saves", "commands", "fails"} -> Nat]
    OBVIOUS
  <2>3. row \in [Secrets -> [key : Nat, value : Nat]]
    BY Constants
  <2>4. env \in [Containers -> CredentialType]
    BY Constants
  <2>5. bot.at # "running" /\ bot.values = NoValues
    OBVIOUS
  <2>6. dbPassword \in Nat \ {0} BY DEF First
  <2>7. last \in CommandType BY DEF Began, CommandType
  <2> QED BY <2>1, <2>2, <2>3, <2>4, <2>5, <2>6, <2>7, Constants DEF TypeOK
<1>2. RowsUnderFirst BY DEF RowsUnderFirst
<1>3. CredentialsFit BY DEF CredentialsFit, Fits, First
<1>4. RegenFits BY DEF RegenFits
<1>5. EnvFirst BY DEF EnvFirst
<1> QED BY <1>1, <1>2, <1>3, <1>4, <1>5 DEF Inv

\* The steps of the processes.
LEMMA InvProcesses ==
  ASSUME Inv, PanelStarts \/ BotStarts \/ BotPolls \/ BotGivesUp \/ KillBot \/ KillPanel
  PROVE  Inv'
<1> USE DEF credentials, control
<1>1. CASE PanelStarts
  BY <1>1 DEF PanelStarts, Inv, TypeOK, RowsUnderFirst, CredentialsFit, RegenFits, EnvFirst
<1>2. CASE BotStarts
  <2>1. bot'.key \in KeyType /\ bot'.at = "waiting" /\ bot'.values = bot.values
    BY <1>2 DEF BotStarts, Inv, TypeOK, CredentialType, Containers
  <2>2. TypeOK' BY <1>2, <2>1 DEF BotStarts, Inv, TypeOK
  <2> QED BY <1>2, <2>2 DEF BotStarts, Inv, RowsUnderFirst, CredentialsFit, RegenFits, EnvFirst
<1>3. CASE BotPolls
  <2>1. bot' = [bot EXCEPT !.at = "running", !.values = [s \in Secrets |-> row[s].value]]
    BY <1>3 DEF BotPolls
  <2>2. [s \in Secrets |-> row[s].value] \in [Secrets -> Nat]
    BY DEF Inv, TypeOK
  <2>3. PICK s \in Secrets : TRUE BY DeploymentAssumption
  <2>4. row[s].value # 0
    BY <1>3 DEF BotPolls, Configured, Opens, Inv, RowsUnderFirst
  <2>5. [t \in Secrets |-> row[t].value] # NoValues
    BY <2>3, <2>4 DEF NoValues
  <2>6. TypeOK' BY <1>3, <2>1, <2>2, <2>5 DEF BotPolls, Inv, TypeOK
  <2> QED BY <1>3, <2>6 DEF BotPolls, Inv, RowsUnderFirst, CredentialsFit, RegenFits, EnvFirst
<1>4. CASE BotGivesUp \/ KillBot
  <2>1. bot' = BotAt("down") BY <1>4 DEF BotGivesUp, KillBot
  <2>2. used' \in [{"regens", "outside", "saves", "commands", "fails"} -> Nat]
    BY <1>4, SpendType DEF BotGivesUp, KillBot, Inv
  <2>3. TypeOK' BY <1>4, <2>1, <2>2, BotAtType DEF BotGivesUp, KillBot, Inv, TypeOK
  <2> QED BY <1>4, <2>3
        DEF BotGivesUp, KillBot, Inv, RowsUnderFirst, CredentialsFit, RegenFits, EnvFirst
<1>5. CASE KillPanel
  <2>1. used' \in [{"regens", "outside", "saves", "commands", "fails"} -> Nat]
    BY <1>5, SpendType DEF KillPanel, Inv
  <2>3. pending' \subseteq pending /\ overtaken' \in BOOLEAN
    <3>1. PICK lost : pending' = pending \ lost /\ overtaken' = (overtaken \/ last \in lost)
      BY <1>5 DEF KillPanel
    <3>2. overtaken' \in BOOLEAN BY <3>1, Zenon
    <3> QED BY <3>1, <3>2
  <2>2. TypeOK' BY <1>5, <2>1, <2>3 DEF KillPanel, Inv, TypeOK
  <2> QED BY <1>5, <2>2 DEF KillPanel, Inv, RowsUnderFirst, CredentialsFit, RegenFits, EnvFirst
<1> QED BY <1>1, <1>2, <1>3, <1>4, <1>5

\* New containers from .env.
LEMMA InvUp == ASSUME Inv, Up PROVE Inv'
<1> USE DEF credentials, control
<1>1. InitEnv(file) \in CredentialType /\ Fits(InitEnv(file))
  BY InitEnvFits DEF Inv, CredentialsFit
<1>2. used' \in [{"regens", "outside", "saves", "commands", "fails"} -> Nat]
  BY SpendType DEF Up, Inv
<1>3. env' \in [Containers -> CredentialType] /\ \A c \in Containers : env'[c] = file
  BY DEF Up, Inv, TypeOK
<1>4. bot' = BotAt("down") BY DEF Up
<1>7. Began \in CommandType BY DEF Began, CommandType
<1>5. TypeOK' BY <1>1, <1>2, <1>3, <1>4, <1>7, BotAtType DEF Up, Inv, TypeOK
<1>6. CredentialsFit' BY <1>1, <1>3 DEF Up, Inv, CredentialsFit, Fits
<1> QED BY <1>5, <1>6 DEF Up, Inv, RowsUnderFirst, RegenFits, EnvFirst

\* Secrets are saved by a panel that is up, which has the first key.
LEMMA InvSave ==
  ASSUME Inv, panel = "up" => env["panel"].key = First.key, NEW S \in SUBSET Secrets, Save(S)
  PROVE  Inv'
<1> USE DEF credentials, control
<1>1. env["panel"].key.id = 1 BY DEF Save, First
<1>2. used["saves"] + 1 \in Nat /\ used["saves"] + 1 # 0 BY DEF Inv, TypeOK
<1>3. row' \in [Secrets -> [key : Nat, value : Nat]]
  BY <1>1, <1>2 DEF Save, Inv, TypeOK
<1>4. RowsUnderFirst' BY <1>1, <1>2 DEF Save, Inv, RowsUnderFirst
<1>5. used' \in [{"regens", "outside", "saves", "commands", "fails"} -> Nat]
  BY SpendType DEF Save, Inv
<1>6. TypeOK' BY <1>3, <1>5 DEF Save, Inv, TypeOK
<1> QED BY <1>4, <1>6 DEF Save, Inv, CredentialsFit, Fits, RegenFits, EnvFirst

\* The steps of a regeneration.
LEMMA InvRegen ==
  ASSUME Inv,
         (\E p, k \in BOOLEAN : RegenTruncates(p, k)) \/ RegenWrites \/ RegenRows \/ RegenAlters
  PROVE  Inv'
<1> USE DEF credentials, control
<1>1. ASSUME NEW p \in BOOLEAN, NEW k \in BOOLEAN, RegenTruncates(p, k) PROVE Inv'
  <2> DEFINE new == [password |-> IF p THEN Fresh ELSE file.password,
                     key |-> IF k THEN NewKey(Fresh) ELSE file.key]
  <2>1. regen' = [at |-> "truncated", ofKey |-> k, new |-> new]
    BY <1>1 DEF RegenTruncates
  <2>2. NewKey(Fresh) \in KeyType /\ ~Loads(NewKey(Fresh))
    BY FreshType DEF Inv, NewKey, KeyType, Loads
  <2>3. file \in CredentialType BY DEF Inv, TypeOK
  <2>4. new \in CredentialType
    BY <2>2, <2>3, FreshType DEF CredentialType, Inv
  <2>5. Fits(new) /\ (k => ~Loads(new.key))
    BY <2>2, <2>3, FreshType DEF Inv, CredentialsFit, Fits, First
  <2> HIDE DEF new
  <2>6. regen'.new = new /\ regen'.ofKey = k /\ regen' # Idle
        /\ regen' \in [at : {"truncated", "rows", "alter"}, ofKey : BOOLEAN, new : CredentialType]
    BY <2>1, <2>4 DEF Idle
  <2>7. RegenFits' BY <2>5, <2>6 DEF RegenFits
  <2>8. used' \in [{"regens", "outside", "saves", "commands", "fails"} -> Nat]
    BY <1>1, SpendType DEF RegenTruncates, Inv
  <2>9. TypeOK' BY <1>1, <2>6, <2>8, Constants DEF RegenTruncates, Inv, TypeOK
  <2>10. CredentialsFit'
    BY <1>1 DEF RegenTruncates, Inv, CredentialsFit, Fits, Empty, First
  <2> QED BY <1>1, <2>7, <2>9, <2>10 DEF RegenTruncates, Inv, RowsUnderFirst, EnvFirst
<1>2. ASSUME RegenWrites \/ RegenRows \/ RegenAlters
      PROVE  regen \in [at : {"truncated", "rows", "alter"}, ofKey : BOOLEAN,
                        new : CredentialType]
             /\ Fits(regen.new) /\ (regen.ofKey => ~Loads(regen.new.key))
  <2>1. regen # Idle BY <1>2 DEF RegenWrites, RegenRows, RegenAlters, Idle
  <2> QED BY <2>1 DEF Inv, TypeOK, RegenFits
<1>3. CASE RegenWrites
  <2>1. regen'.new = regen.new /\ regen'.ofKey = regen.ofKey
        /\ regen' \in [at : {"truncated", "rows", "alter"}, ofKey : BOOLEAN, new : CredentialType]
    BY <1>2, <1>3 DEF RegenWrites
  <2>2. regen.new \in CredentialType BY <1>2, <1>3
  <2>3. TypeOK' BY <1>3, <2>1, <2>2 DEF RegenWrites, Inv, TypeOK
  <2>4. RegenFits' /\ CredentialsFit'
    BY <1>2, <1>3, <2>1 DEF RegenWrites, Inv, RegenFits, CredentialsFit
  <2> QED BY <1>3, <2>3, <2>4 DEF RegenWrites, Inv, RowsUnderFirst, EnvFirst
<1>4. CASE RegenRows
  <2>1. regen'.new = regen.new /\ regen'.ofKey = regen.ofKey
        /\ regen' \in [at : {"truncated", "rows", "alter"}, ofKey : BOOLEAN, new : CredentialType]
    BY <1>2, <1>4 DEF RegenRows
  <2>2. TypeOK' BY <1>4, <2>1, RowsStay DEF RegenRows, Inv, TypeOK
  <2>3. RegenFits' BY <1>2, <1>4, <2>1 DEF RegenFits
  <2> QED BY <1>4, <2>2, <2>3, RowsStay DEF RegenRows, Inv, RowsUnderFirst, CredentialsFit, EnvFirst
<1>5. CASE RegenAlters
  BY <1>5 DEF RegenAlters, Altered, Inv, TypeOK, RowsUnderFirst, CredentialsFit, RegenFits, EnvFirst
<1> QED BY <1>1, <1>3, <1>4, <1>5

\* What Docker does to the container leaves it stopped exactly when it is told to stop it.
LEMMA ObeyedFacts ==
  ASSUME TypeOK, NEW c \in CommandType
  PROVE  /\ Obeyed(c) \in {bot, BotAt("exited"), BotAt("down")}
         /\ Obeyed(c).at = "exited" <=> c.to = "stop"
<1>1. BotAt("down").at = "down" /\ BotAt("exited").at = "exited" BY DEF BotAt
<1>2. c.to \in {"start", "stop", "restart"} BY DEF CommandType
<1> QED BY <1>1, <1>2 DEF Obeyed

\* A request is numbered by the count of requests.
LEMMA CommandIsOne ==
  ASSUME TypeOK, NEW to \in {"start", "stop", "restart"}
  PROVE  Command(to) \in CommandType /\ Command(to).to = to
<1>1. used["commands"] + 1 \in Nat BY DEF TypeOK
<1> QED BY <1>1 DEF Command, CommandType

\* What the steps about commands have in common.
CommandStep ==
  /\ Spend("commands", MaxCommands) \/ Spend("fails", MaxFails) \/ UNCHANGED used
  /\ bot' \in {bot, BotAt("exited"), BotAt("down")}
  /\ pending' \subseteq CommandType /\ last' \in CommandType /\ overtaken' \in BOOLEAN
  /\ UNCHANGED <<credentials, panel, regen, recreated>>

LEMMA CommandSteps ==
  ASSUME TypeOK, Stop \/ Start \/ Restart \/ (\E c \in pending : Lands(c) \/ RestartFails(c))
  PROVE  CommandStep
<1>1. pending \subseteq CommandType /\ last \in CommandType /\ overtaken \in BOOLEAN BY DEF TypeOK
<1>2. ASSUME NEW to \in {"start", "stop", "restart"}, Request,
             \/ UNCHANGED control
             \/ TakenOn(Command(to)) /\ pending' \in {pending, pending \cup {Command(to)}},
             bot' \in {bot, Obeyed(Command(to))}
      PROVE  CommandStep
  <2>1. pending' \subseteq CommandType /\ last' \in CommandType /\ overtaken' \in BOOLEAN
    BY <1>1, <1>2, CommandIsOne DEF TakenOn, control
  <2>2. bot' \in {bot, BotAt("exited"), BotAt("down")} BY <1>2, CommandIsOne, ObeyedFacts
  <2> QED BY <1>2, <2>1, <2>2 DEF Request, CommandStep
<1>3. ASSUME NEW to \in {"start", "stop"}, StopOrStart(to) PROVE CommandStep
  <2>1. to \in {"start", "stop", "restart"} BY <1>3
  <2>2. /\ Request /\ bot' \in {bot, Obeyed(Command(to))}
        /\ \/ UNCHANGED control
           \/ TakenOn(Command(to)) /\ pending' \in {pending, pending \cup {Command(to)}}
    BY <1>3 DEF StopOrStart
  <2> QED BY <1>2, <2>1, <2>2
<1>4. CASE Restart
  <2>1. /\ Request /\ bot' \in {bot, Obeyed(Command("restart"))}
        /\ TakenOn(Command("restart")) /\ pending' \in {pending, pending \cup {Command("restart")}}
    BY <1>4 DEF Restart
  <2> QED BY <1>2, <2>1
<1>5. ASSUME NEW c \in pending, Lands(c) PROVE CommandStep
  <2>1. c \in CommandType BY <1>1
  <2>2. bot' \in {bot, BotAt("exited"), BotAt("down")} BY <1>5, <2>1, ObeyedFacts DEF Lands
  <2>3. overtaken' \in BOOLEAN BY <1>5, Zenon DEF Lands
  <2> QED BY <1>1, <1>5, <2>2, <2>3 DEF Lands, CommandStep
<1>6. ASSUME NEW c \in pending, RestartFails(c) PROVE CommandStep
  <2>1. overtaken' \in BOOLEAN BY <1>6, Zenon DEF RestartFails
  <2> QED BY <1>1, <1>6, <2>1 DEF RestartFails, CommandStep
<1> QED BY <1>3, <1>4, <1>5, <1>6 DEF Stop, Start

\* The commands to the bot's container.
LEMMA InvCommands ==
  ASSUME Inv, Stop \/ Start \/ Restart \/ (\E c \in pending : Lands(c) \/ RestartFails(c))
  PROVE  Inv'
<1> USE DEF credentials, control
<1>1. used' \in [{"regens", "outside", "saves", "commands", "fails"} -> Nat]
  <2>1. \/ Spend("commands", MaxCommands) \/ Spend("fails", MaxFails) \/ UNCHANGED used
    BY CommandSteps DEF Inv, CommandStep
  <2>2. TypeOK BY DEF Inv
  <2> QED BY <2>1, <2>2, SpendType DEF TypeOK
<1>2. /\ bot' \in [at : {"exited", "down", "waiting", "running"}, key : KeyType,
                   values : [Secrets -> Nat]]
      /\ bot'.at = "running" <=> bot'.values # NoValues
  <2>1. bot' \in {bot, BotAt("exited"), BotAt("down")} BY CommandSteps DEF Inv, CommandStep
  <2> QED BY <2>1, BotAtType DEF Inv, TypeOK
<1>3. pending' \subseteq CommandType /\ last' \in CommandType /\ overtaken' \in BOOLEAN
  BY CommandSteps DEF Inv, CommandStep
<1>4. UNCHANGED <<credentials, panel, regen, recreated>> BY CommandSteps DEF Inv, CommandStep
<1>5. TypeOK' BY <1>1, <1>2, <1>3, <1>4 DEF Inv, TypeOK
<1> QED BY <1>4, <1>5 DEF Inv, RowsUnderFirst, CredentialsFit, RegenFits, EnvFirst

\* A panel that is up has the first key.
UpHasFirst == panel = "up" => Connects("panel") /\ env["panel"].key = First.key

\* A panel that is up keeps the first credentials: nothing changes them under it.
LEMMA UpHasFirstNext ==
  ASSUME Inv, UpHasFirst, [Next]_vars
  PROVE  UpHasFirst'
<1> USE DEF credentials, UpHasFirst
<1>1. CASE PanelStarts
  BY <1>1, PanelHasFirst DEF PanelStarts, Connects
<1>2. CASE Up BY <1>2 DEF Up
<1>3. CASE KillPanel BY <1>3 DEF KillPanel
<1>4. CASE RegenAlters BY <1>4 DEF RegenAlters, Altered, Connects
<1>5. CASE UNCHANGED <<panel, env, dbPassword>> BY <1>5 DEF Connects
<1>6. [Next]_vars => \/ PanelStarts \/ Up \/ KillPanel \/ RegenAlters
                     \/ UNCHANGED <<panel, env, dbPassword>>
  BY DEF Next, vars, BotStarts, BotPolls, BotGivesUp, KillBot, Save, RegenTruncates, RegenWrites,
         RegenRows, Stop, Start, StopOrStart, Restart, Request, Lands, RestartFails
<1> QED BY <1>1, <1>2, <1>3, <1>4, <1>5, <1>6

\* Every step preserves the invariant.
LEMMA InvNext == ASSUME Inv, UpHasFirst, [Next]_vars PROVE Inv'
<1>1. CASE PanelStarts \/ BotStarts \/ BotPolls \/ BotGivesUp \/ KillBot \/ KillPanel
  BY <1>1, InvProcesses
<1>2. CASE Up BY <1>2, InvUp
<1>3. CASE \E S \in SUBSET Secrets \ {{}} : Save(S)
  BY <1>3, InvSave DEF UpHasFirst
<1>4. CASE (\E p, k \in BOOLEAN : (p \/ k) /\ RegenTruncates(p, k)) \/ RegenWrites \/ RegenRows
           \/ RegenAlters
  BY <1>4, InvRegen
<1>5. CASE Stop \/ Start \/ Restart \/ (\E c \in pending : Lands(c) \/ RestartFails(c))
  BY <1>5, InvCommands
<1>6. CASE UNCHANGED vars
  BY <1>6 DEF vars, credentials, control, Inv, TypeOK, RowsUnderFirst, CredentialsFit, RegenFits,
              EnvFirst
<1> QED BY <1>1, <1>2, <1>3, <1>4, <1>5, <1>6 DEF Next

\* The invariant holds throughout.
LEMMA Inductive == Spec => [](Inv /\ UpHasFirst)
<1>1. ASSUME Init PROVE Inv /\ UpHasFirst
  BY <1>1, InvInit DEF Init, UpHasFirst
<1>2. ASSUME Inv /\ UpHasFirst, [Next]_vars PROVE (Inv /\ UpHasFirst)'
  BY <1>2, InvNext, UpHasFirstNext
<1> QED BY <1>1, <1>2, PTL DEF Spec

-----------------------------------------------------------------------------
\* .env, the environments, the rows, the processes and the commands stay well formed, for
\* every number of secrets and every bound (main.py, settings.py, docker_control.py).
THEOREM TypeCorrect == Spec => []TypeOK
BY Inductive, PTL DEF Inv

\* Until a container is created again a restart loses nothing, wherever a regeneration was
\* interrupted: no key it makes can encrypt a row, and ALTER USER is never reached
\* (settings.py 164-233).
THEOREM RestartsLoseNothing == Spec => []RestartIsSafe
<1>1. ASSUME Inv PROVE RestartIsSafe
  <2>1. CASE recreated BY <2>1 DEF RestartIsSafe
  <2>2. CASE \A c \in Containers : env[c] = First
    BY <1>1, <2>2 DEF RestartIsSafe, Inv, RowsUnderFirst, Connects, Loads, Opens, First
  <2> QED BY <1>1, <2>1, <2>2 DEF Inv, EnvFirst
<1> QED BY <1>1, Inductive, PTL

\* A panel that is up decrypts every row: credentials with another key have another
\* password too, or a key that does not load, so that they never start a panel
\* (lifespan of admin/main.py, load_master_key, init_env.py).
THEOREM UpPanelReads == Spec => []SecretsStayReadable
<1>1. ASSUME Inv, UpHasFirst PROVE SecretsStayReadable
  BY <1>1 DEF SecretsStayReadable, UpHasFirst, Inv, RowsUnderFirst, Opens, Loads, First
<1> QED BY <1>1, Inductive, PTL

\* No step undoes the last command without another that takes effect after it.
LEMMA LastCommandNext ==
  ASSUME TypeOK, LastCommandHolds, [Next]_vars
  PROVE  LastCommandHolds'
<1> USE DEF credentials, control, LastCommandHolds
<1>1. BotAt("down").at = "down" /\ BotAt("exited").at = "exited" BY DEF BotAt
<1>2. pending \subseteq CommandType BY DEF TypeOK
<1>3. ASSUME NEW to \in {"start", "stop"}, StopOrStart(to) PROVE LastCommandHolds'
  <2> DEFINE c == Command(to)
  <2>1. c \in CommandType /\ c.to = to BY <1>3, CommandIsOne
  <2>2. Obeyed(c).at = "exited" <=> to = "stop" BY <2>1, ObeyedFacts
  <2>3. \/ bot' = Obeyed(c) /\ TakenOn(c)
        \/ UNCHANGED <<bot, control>>
        \/ pending' = pending \cup {c} /\ TakenOn(c)
    BY <1>3 DEF StopOrStart
  <2> HIDE DEF c
  <2>4. CASE bot' = Obeyed(c) /\ TakenOn(c) BY <2>1, <2>2, <2>4 DEF TakenOn
  <2>5. CASE UNCHANGED <<bot, control>> BY <2>5
  <2>6. CASE pending' = pending \cup {c} /\ TakenOn(c) BY <2>6 DEF TakenOn
  <2> QED BY <2>3, <2>4, <2>5, <2>6
<1>4. CASE Restart BY <1>4 DEF Restart, TakenOn
<1>5. ASSUME NEW c \in pending, Lands(c) PROVE LastCommandHolds'
  <2>1. Obeyed(c).at = "exited" <=> c.to = "stop" BY <1>2, ObeyedFacts
  <2>2. bot' = Obeyed(c) /\ overtaken' = (c # last) /\ last' = last BY <1>5 DEF Lands
  <2> QED BY <2>1, <2>2
<1>6. ASSUME NEW c \in pending, RestartFails(c) PROVE LastCommandHolds'
  <2>1. /\ bot' = bot /\ last' = last /\ pending' = pending \ {c}
        /\ overtaken' = (overtaken \/ c = last)
    BY <1>6 DEF RestartFails
  <2> QED BY <2>1
<1>7. CASE Up BY <1>1, <1>7 DEF Up, Began
<1>8. CASE KillPanel
  <2>1. PICK lost : /\ pending' = pending \ lost /\ overtaken' = (overtaken \/ last \in lost)
                    /\ bot' = bot /\ last' = last
    BY <1>8 DEF KillPanel
  <2> QED BY <2>1
<1>9. CASE BotStarts \/ BotPolls \/ BotGivesUp \/ KillBot
  <2>1. bot.at # "exited" /\ bot'.at # "exited"
    BY <1>1, <1>9 DEF BotStarts, BotPolls, BotGivesUp, KillBot, TypeOK
  <2> QED BY <1>9, <2>1 DEF BotStarts, BotPolls, BotGivesUp, KillBot
<1>10. CASE UNCHANGED <<bot, control>> BY <1>10
<1>11. [Next]_vars =>
         \/ Stop \/ Start \/ Restart \/ (\E c \in pending : Lands(c) \/ RestartFails(c))
         \/ Up \/ KillPanel
         \/ BotStarts \/ BotPolls \/ BotGivesUp \/ KillBot \/ UNCHANGED <<bot, control>>
  BY DEF Next, vars, PanelStarts, Save, RegenTruncates, RegenWrites, RegenRows, RegenAlters
<1> HIDE DEF LastCommandHolds
<1> QED BY <1>3, <1>4, <1>5, <1>6, <1>7, <1>8, <1>9, <1>10, <1>11 DEF Stop, Start

\* The container is stopped if and only if the last command that was not refused is a stop,
\* once it has taken effect and unless an earlier one has since: with any number of others
\* outstanding, refused or lost, and whatever Docker or compose restarts of itself
\* (ops.py 73-178, docker_control.py 55-85).
THEOREM CommandsObeyed == Spec => []LastCommandHolds
<1>1. ASSUME Init PROVE LastCommandHolds
  BY <1>1 DEF Init, LastCommandHolds, Began
<1> QED BY <1>1, LastCommandNext, TypeCorrect, PTL DEF Spec
=============================================================================
