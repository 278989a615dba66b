----------------------------- MODULE Deployment -----------------------------
(***************************************************************************)
(* The containers, their credentials and the secrets kept in the database: *)
(* .env and who writes it, the environment a container was created with,   *)
(* the master key and the rows encrypted under it, the start of the panel  *)
(* and of the bot, and the commands by which the panel stops and starts    *)
(* the bot through the Docker API.                                         *)
(*                                                                         *)
(* A password is a number and a master key a number with a length, 0 for   *)
(* none.  A restarted container keeps its environment, a recreated one     *)
(* takes it from .env; PostgreSQL takes its password once, when its volume *)
(* is made.                                                                *)
(***************************************************************************)
EXTENDS Integers, FiniteSets

CONSTANTS
  Secrets,      \* the secrets the bot cannot start without
  MaxRegens,    \* bounds on regenerations,
  MaxOutside,   \* what is done to the containers from outside the panel,
  MaxSaves,     \* forms of secrets saved,
  MaxCommands,  \* commands to the bot's container,
  MaxFails      \* and failures of Docker or of Redmine

ASSUME DeploymentAssumption ==
  /\ Secrets # {} /\ IsFiniteSet(Secrets)
  /\ {MaxRegens, MaxOutside, MaxSaves, MaxCommands, MaxFails} \subseteq Nat

VARIABLES
  file,        \* .env: its password and its key
  env,         \* container -> the credentials it was created with
  dbPassword,  \* the password PostgreSQL accepts
  row,         \* secret -> its row of app_secrets: the key it is encrypted under, its value
  panel,       \* "down" until its container has started it, "up"
  bot,         \* its process, the key it found, the values it runs with
  regen,       \* the regeneration being served
  pending,     \* commands that have not taken effect: restarts in their threads, and stops and
               \* starts that go on in Docker after the panel's call timed out
  used,        \* how much of each bound is used up
  last,        \* history: the last command that was not refused, with its number
  overtaken,   \* history: an earlier command took effect after it, or it was a restart and
               \* came to nothing
  recreated    \* history: was a container created from a .env written after the first

credentials == <<file, env, dbPassword, row>>
control == <<pending, last, overtaken>>
vars == <<credentials, panel, bot, regen, control, used, recreated>>

Containers == {"panel", "bot"}
NoKey == [id |-> 0, bytes |-> 0]
Empty == [password |-> 0, key |-> NoKey]
NoRow == [key |-> 0, value |-> 0]
NoValues == [s \in Secrets |-> 0]
Idle == [at |-> "idle"]
KeyType == [id : Nat, bytes : {0, 32, 64}]
CredentialType == [password : Nat, key : KeyType]
CommandType == [to : {"start", "stop", "restart"}, number : Nat]

\* load_master_key accepts the key, and decrypt_secret opens the row with it.
Loads(key) == key.bytes = 32
Opens(key, r) == Loads(key) /\ r # NoRow /\ r.key = key.id

\* Rows are encrypted under a key that loads, and no key has two lengths.
TypeOK ==
  /\ file \in CredentialType
  /\ env \in [Containers -> CredentialType]
  /\ dbPassword \in Nat \ {0}
  /\ row \in [Secrets -> [key : Nat, value : Nat]]
  /\ panel \in {"down", "up"}
  /\ bot \in [at : {"exited", "down", "waiting", "running"}, key : KeyType,
              values : [Secrets -> Nat]]
  /\ bot.at = "running" <=> bot.values # NoValues
  /\ regen = Idle \/ regen \in [at : {"truncated", "rows", "alter"}, ofKey : BOOLEAN,
                                new : CredentialType]
  /\ pending \subseteq CommandType /\ last \in CommandType /\ overtaken \in BOOLEAN
  /\ used \in [{"regens", "outside", "saves", "commands", "fails"} -> Nat]
  /\ recreated \in BOOLEAN

Began == [to |-> "start", number |-> 0]
First == [password |-> 1, key |-> [id |-> 1, bytes |-> 32]]
Init ==
  /\ file = First /\ env = [c \in Containers |-> First] /\ dbPassword = First.password
  /\ row = [s \in Secrets |-> NoRow]
  /\ panel = "down" /\ bot = [at |-> "down", key |-> NoKey, values |-> NoValues]
  /\ regen = Idle /\ pending = {}
  /\ used = [b \in {"regens", "outside", "saves", "commands", "fails"} |-> 0]
  /\ last = Began /\ overtaken = FALSE /\ recreated = FALSE

Spend(b, max) == used[b] < max /\ used' = [used EXCEPT ![b] = @ + 1]
BotAtMutant(state) == [bot EXCEPT !.at = state]
BotAt(state) == [at |-> state, key |-> NoKey, values |-> NoValues]
-----------------------------------------------------------------------------
(* The processes. *)

Connects(c) == env[c].password = dbPassword

\* `alembic upgrade head`, then the lifespan of the panel; what fails there ends the
\* process, and Docker starts it again.
PanelStarts ==
  /\ panel = "down"
  /\ Connects("panel") /\ Loads(env["panel"].key)
  /\ panel' = "up"
  /\ UNCHANGED <<credentials, bot, regen, control, used, recreated>>

BotStartsMutant ==
  /\ bot.at = "down"
  /\ bot' = [bot EXCEPT !.at = "waiting", !.key = file.key]
  /\ UNCHANGED <<credentials, panel, regen, control, used, recreated>>
\* load_dotenv adds what the environment lacks.
BotStarts ==
  /\ bot.at = "down"
  /\ bot' = [bot EXCEPT !.at = "waiting",
               !.key = IF env["bot"].key = NoKey THEN file.key ELSE env["bot"].key]
  /\ UNCHANGED <<credentials, panel, regen, control, used, recreated>>

Configured == Connects("bot") /\ \A s \in Secrets : Opens(bot.key, row[s])

\* main polls until all the secrets can be decrypted, and runs with what it read.
BotPolls ==
  /\ bot.at = "waiting" /\ Configured
  /\ bot' = [bot EXCEPT !.at = "running", !.values = [s \in Secrets |-> row[s].value]]
  /\ UNCHANGED <<credentials, panel, regen, control, used, recreated>>

\* The runtime configuration or Redmine fails: main returns, and Docker starts it again.
BotGivesUp ==
  /\ bot.at = "waiting" /\ Configured
  /\ Spend("fails", MaxFails)
  /\ bot' = BotAt("down")
  /\ UNCHANGED <<credentials, panel, regen, control, recreated>>

\* `docker compose restart`, a crash, the death of the host: the environment stays.
KillBot ==
  /\ bot.at \in {"waiting", "running"}
  /\ Spend("outside", MaxOutside)
  /\ bot' = BotAt("down")
  /\ UNCHANGED <<credentials, panel, regen, control, recreated>>
KillPanel ==
  /\ panel = "up"
  /\ Spend("outside", MaxOutside)
  /\ panel' = "down" /\ regen' = Idle
  /\ \E lost \in SUBSET {c \in pending : c.to = "restart"} :   \* Docker may have the others
       /\ pending' = pending \ lost
       /\ overtaken' = (overtaken \/ last \in lost)
  /\ UNCHANGED <<credentials, bot, last, recreated>>

Fresh == used["regens"] + used["outside"] + 2

\* init_env.main: it leaves a file alone that has both values, and writes new ones
\* otherwise.
InitEnv(f) ==
  IF f.password # 0 /\ f.key.id # 0 THEN f
  ELSE [password |-> Fresh, key |-> [id |-> Fresh, bytes |-> 32]]

\* `docker compose up`: compose reads .env, init_env.py runs, and the containers whose
\* environment changed are created again.
Up ==
  /\ Spend("outside", MaxOutside)
  /\ file # env["panel"]
  /\ env' = [c \in Containers |-> file]
  /\ file' = InitEnv(file)
  /\ recreated' = TRUE
  /\ panel' = "down" /\ regen' = Idle /\ pending' = {}
  /\ bot' = BotAt("down") /\ last' = Began /\ overtaken' = FALSE
  /\ UNCHANGED <<dbPassword, row>>
-----------------------------------------------------------------------------
(* Requests of the panel about credentials and secrets. *)

\* onboarding_save and secrets_save: the fields that are neither empty nor masked.
Save(S) ==
  /\ panel = "up" /\ regen.at # "truncated"
  /\ Spend("saves", MaxSaves)
  /\ row' = [s \in Secrets |->
       IF s \in S THEN [key |-> env["panel"].key.id, value |-> used["saves"] + 1] ELSE row[s]]
  /\ UNCHANGED <<file, env, dbPassword, panel, bot, regen, control, recreated>>

NewKeyMutant(n) == [id |-> n, bytes |-> 32]
\* secrets.token_hex(32) has 64 characters.
NewKey(n) == [id |-> n, bytes |-> 64]

\* regenerate_db_config: update_env_file_with_lock empties .env and writes it again.
\* Nothing else of the panel runs between the two, but compose or the bot may read it,
\* and the process may die.
RegenTruncates(ofPassword, ofKey) ==
  /\ panel = "up" /\ regen = Idle
  /\ Spend("regens", MaxRegens)
  /\ regen' = [at |-> "truncated", ofKey |-> ofKey,
               new |-> [password |-> IF ofPassword THEN Fresh ELSE file.password,
                        key |-> IF ofKey THEN NewKey(Fresh) ELSE file.key]]
  /\ file' = Empty
  /\ UNCHANGED <<env, dbPassword, row, panel, bot, control, recreated>>

RegenWrites ==
  /\ regen.at = "truncated"
  /\ file' = regen.new
  /\ regen' = [regen EXCEPT !.at = "rows"]
  /\ UNCHANGED <<env, dbPassword, row, panel, bot, control, used, recreated>>

\* One row under the new key; encrypt_secret raises for one of 64 bytes, and whatever
\* raises leaves the row as it was.
Reencrypted(r, old, new) == IF Opens(old, r) /\ Loads(new) THEN [r EXCEPT !.key = new.id] ELSE r

RegenRows ==
  /\ regen.at = "rows"
  /\ row' = IF ~regen.ofKey THEN row
            ELSE [s \in Secrets |-> Reencrypted(row[s], env["panel"].key, regen.new.key)]
  /\ regen' = [regen EXCEPT !.at = "alter"]
  /\ UNCHANGED <<file, env, dbPassword, panel, bot, control, used, recreated>>

AlteredMutant(old, new) == new
\* admin.main has no sync_database_url_for_alembic: the attempt raises before ALTER USER,
\* and the request answers with the error.
Altered(old, new) == old

RegenAlters ==
  /\ regen.at = "alter"
  /\ dbPassword' = Altered(dbPassword, regen.new.password)
  /\ regen' = Idle
  /\ UNCHANGED <<file, env, row, panel, bot, control, used, recreated>>
-----------------------------------------------------------------------------
(* Commands to the container of the bot. *)

ObeyedMutant(c) ==
  CASE c.to = "stop" -> BotAt("exited")
    [] c.to = "start" /\ bot.at = "exited" -> BotAt("down")
    [] c.to = "restart" /\ bot.at # "exited" -> BotAt("down")
    [] OTHER -> bot
\* What Docker does to the container.  A start answers 304 if it runs already.
Obeyed(c) ==
  CASE c.to = "stop" -> BotAt("exited")
    [] c.to = "restart" -> BotAt("down")
    [] OTHER -> IF bot.at = "exited" THEN BotAt("down") ELSE bot

\* The command a request of the panel is about, which serves nothing else meanwhile.
Command(to) == [to |-> to, number |-> used["commands"] + 1]
Request ==
  /\ panel = "up" /\ regen.at # "truncated"
  /\ Spend("commands", MaxCommands)
  /\ UNCHANGED <<credentials, panel, regen, recreated>>

TakenOn(c) == last' = c /\ overtaken' = FALSE

\* control_service calls Docker, which does it, or refuses or is not reached, or the call
\* times out and Docker does it later.  The panel answers the last two alike.
StopOrStart(to) ==
  /\ Request
  /\ \/ bot' = Obeyed(Command(to)) /\ TakenOn(Command(to)) /\ UNCHANGED pending
     \/ UNCHANGED <<bot, control>>
     \/ pending' = pending \cup {Command(to)} /\ TakenOn(Command(to)) /\ UNCHANGED bot
Stop == StopOrStart("stop")
Start == StopOrStart("start")

\* A restart is accepted at once and carried out by a thread, 1.5 seconds later.
Restart ==
  /\ Request
  /\ pending' = pending \cup {Command("restart")} /\ TakenOn(Command("restart"))
  /\ UNCHANGED bot

\* A command that was outstanding takes effect,
Lands(c) ==
  /\ c \in pending
  /\ pending' = pending \ {c}
  /\ bot' = Obeyed(c)
  /\ overtaken' = (c # last)
  /\ UNCHANGED <<credentials, panel, regen, last, used, recreated>>

\* or the call of the thread fails, of which only a row of the audit tells.
RestartFails(c) ==
  /\ c \in pending /\ c.to = "restart"
  /\ Spend("fails", MaxFails)
  /\ pending' = pending \ {c}
  /\ overtaken' = (overtaken \/ c = last)
  /\ UNCHANGED <<credentials, panel, bot, regen, last, recreated>>

Next ==
  \/ PanelStarts \/ BotStarts \/ BotPolls \/ BotGivesUp \/ KillBot \/ KillPanel \/ Up
  \/ \E S \in SUBSET Secrets \ {{}} : Save(S)
  \/ \E p, k \in BOOLEAN : (p \/ k) /\ RegenTruncates(p, k)
  \/ RegenWrites \/ RegenRows \/ RegenAlters
  \/ Stop \/ Start \/ Restart
  \/ \E c \in pending : Lands(c) \/ RestartFails(c)

Spec == Init /\ [][Next]_vars
\* Docker restarts what has ended, the bot polls for ever, and a request goes on while its
\* process lives.
FairSpec ==
  /\ Spec
  /\ WF_vars(PanelStarts) /\ WF_vars(BotStarts) /\ WF_vars(BotPolls)
  /\ WF_vars(RegenWrites) /\ WF_vars(RegenRows) /\ WF_vars(RegenAlters)
-----------------------------------------------------------------------------
(* Properties. *)

\* Until a container is created again nothing is lost, whatever was regenerated and
\* wherever it was interrupted: a restart brings both processes back to the database, and
\* every secret can be decrypted by both (settings.py 164-233, docker-compose.yml).
RestartIsSafe ==
  recreated \/ \A c \in Containers :
                 /\ Connects(c) /\ Loads(env[c].key)
                 /\ \A s \in Secrets : row[s] # NoRow => Opens(env[c].key, row[s])

\* A panel that is up decrypts every row there is: a key that does not fit the rows never
\* gets a panel, which would encrypt under it (lifespan and load_master_key; the password
\* of the database shuts the new key out).
SecretsStayReadable ==
  panel = "up" => \A s \in Secrets : row[s] # NoRow => Opens(env["panel"].key, row[s])

\* The container is stopped if and only if the last command that was not refused is a stop,
\* once it has taken effect and unless an earlier one has since (ops.py 73-178,
\* docker_control.py 55-85): whatever else is outstanding, and whichever process dies and is
\* started again meanwhile.
LastCommandHolds ==
  last \notin pending /\ ~overtaken => (bot.at = "exited" <=> last.to = "stop")

\* Once the secrets a bot needs are saved and its container has the credentials for them,
\* it runs, without a restart, unless it is stopped or its credentials are taken away
\* (the loop of main.py 272-330, the load_dotenv of config.py).
Equipped ==
  /\ bot.at # "exited" /\ Connects("bot")
  /\ \A s \in Secrets : Opens(env["bot"].key, row[s])
ConfiguredBotRuns == Equipped ~> bot.at = "running" \/ ~Equipped
=============================================================================
