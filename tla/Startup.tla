------------------------------- MODULE Startup -------------------------------
(***************************************************************************)
(* How an installation comes up: main() of cmd/api, with EnsureRuntimeRole  *)
(* and MigrateUp of platform/db, EnsureLocalOwner of models/localauth.go    *)
(* and the seeding of the model key, models/instance.go.                    *)
(*                                                                         *)
(* Several processes may start against one database: replicas, or a new     *)
(* image beside the one it replaces.  Every statement outside a transaction *)
(* is an action, so two boots interleave between any two of them, and a     *)
(* process may stop at any of them; its connections close with it, which    *)
(* releases the schema lock.  log.Fatal stops the process too, so an error  *)
(* of a statement is a stop at it.  The supervisor starts it again          *)
(* (docker-compose.yml, restart: unless-stopped) with the environment as    *)
(* the operator has it by then.                                            *)
(*                                                                         *)
(* Some migrations rename or drop what the statements of older images use   *)
(* (00013_local_username.sql): an image they have passed cannot look its    *)
(* owner up any more (docs/DOCKER.md: an older binary against a newer       *)
(* schema is not supported).                                               *)
(***************************************************************************)
EXTENDS Integers, FiniteSets

CONSTANTS
    Instances,
    Image(_),       \* the newest migration the image of an instance carries
    Passwords,      \* values of OWNER_PASSWORD
    Keys,           \* model keys: ANTHROPIC_API_KEY, and those typed later
    EnvKeys,        \* those ANTHROPIC_API_KEY takes, None among them or not
    None,           \* an unset variable, an absent row, an empty key
    MaxStops,       \* bound: processes stopped or killed
    MaxSaves        \* bound: times the key is saved on the settings page

Latest == CHOOSE n \in {Image(i) : i \in Instances} :
              \A i \in Instances : Image(i) <= n
Migrations == 1..Latest

ASSUME ImageAssumption == \A i \in Instances : Image(i) \in Nat \ {0}
ASSUME NoneAssumption ==
    None \notin Instances \cup Passwords \cup Keys /\ EnvKeys \subseteq Keys \cup {None}
ASSUME BoundAssumption == MaxStops \in Nat /\ MaxSaves \in Nat

VARIABLES
    role,           \* the runtime role exists
    defaults,       \* ... and has default privileges on tables to come
    usable,         \* migrations whose tables it may use
    version,        \* goose's version: migrations 1..version are applied
    lock,           \* who holds the advisory lock, or None
    account,        \* the owner's "user" row, its identity and its site exist
    credential,     \* the password of local_credential, or None for no row
    admin,          \* user.is_instance_admin
    key,            \* instance_setting.ai_api_key
    setBy,          \* who wrote it last: None, "environment" or "page"
    at,             \* the statement each instance executes next
    env,            \* the environment each instance was started with
    read,           \* what the instance read and has yet to act on
    clients,        \* the configured clients are in oauth_client
    breaking,       \* the migrations that older images do not survive
    passed,         \* ghost: those one of them passed after they had begun
    stops, saves

schema == <<role, defaults, usable, version, lock>>
owner == <<account, credential, admin>>
setting == <<key, setBy, clients>>
releases == <<breaking, passed>>
counts == <<releases, stops, saves>>
vars == <<schema, owner, setting, at, env, read, counts>>

Environments == [password : Passwords \cup {None}, key : EnvKeys]
Steps == {"down", "role", "create role", "grant", "defaults", "lock", "version",
          "migrate", "unlock", "clients", "owner", "found", "password", "sign in",
          "credential", "mark", "key", "seed", "serving"}

Serving(i) == at[i] = "serving"

\* No migration that older images do not survive is beyond the image of i.
Usable(i) == \A n \in breaking : n <= version => n <= Image(i)

\* The statements that come after an instance has looked its owner up.
Begun == {"found", "password", "sign in", "credential", "mark", "key", "seed", "serving"}

Goes(i, from, to) == at[i] = from /\ at' = [at EXCEPT ![i] = to]
Reads(i, value) == read' = [read EXCEPT ![i] = value]

\* log.Fatal, a kill, or the end of a shutdown.
Stops(i) ==
    /\ at' = [at EXCEPT ![i] = "down"]
    /\ Reads(i, None)
    /\ lock' = IF lock = i THEN None ELSE lock

-----------------------------------------------------------------------------
\* The process starts.  The operator changes OWNER_PASSWORD between starts and
\* removes it only once the account exists (docs/DOCKER.md), keeping
\* OWNER_USER; config.Load accepts every environment considered here.

Load(i) ==
    /\ Goes(i, "down", "role")
    /\ \E e \in Environments :
          /\ e.password = None => credential # None
          /\ env' = [env EXCEPT ![i] = e]
    /\ passed' = passed \ {i}
    /\ UNCHANGED <<schema, owner, setting, read, breaking, stops, saves>>

-----------------------------------------------------------------------------
\* EnsureRuntimeRole, on a connection of the owner role.

LookForRole(i) ==
    /\ Goes(i, "role", IF role THEN "grant" ELSE "create role")
    /\ UNCHANGED <<schema, owner, setting, env, read, counts>>

\* Whoever creates it second fails and starts over.
CreateRole(i) ==
    /\ at[i] = "create role"
    /\ IF role THEN Stops(i) /\ UNCHANGED role
               ELSE Goes(i, "create role", "grant") /\ role' = TRUE /\ UNCHANGED <<lock, read>>
    /\ UNCHANGED <<defaults, usable, version, owner, setting, env, counts>>

GrantTables(i) ==
    /\ Goes(i, "grant", "defaults")
    /\ usable' = 1..version
    /\ UNCHANGED <<role, defaults, version, lock, owner, setting, env, read, counts>>

GrantDefaults(i) ==
    /\ Goes(i, "defaults", "lock")
    /\ defaults' = TRUE
    /\ UNCHANGED <<role, usable, version, lock, owner, setting, env, read, counts>>

-----------------------------------------------------------------------------
\* MigrateUp.

\* Not TakeLock: without waiting for the holder.
TakeLockAnyway(i) ==
    /\ Goes(i, "lock", "version")
    /\ lock' = i
    /\ UNCHANGED <<role, defaults, usable, version, owner, setting, env, read, counts>>

TakeLock(i) ==
    /\ lock = None
    /\ Goes(i, "lock", "version")
    /\ lock' = i
    /\ UNCHANGED <<role, defaults, usable, version, owner, setting, env, read, counts>>

\* Five minutes of waiting for other instances end the process.
WaitingEnds(i) ==
    /\ at[i] = "lock" /\ lock # None
    /\ stops < MaxStops /\ stops' = stops + 1
    /\ Stops(i)
    /\ UNCHANGED <<role, defaults, usable, version, owner, setting, env, releases, saves>>

\* goose asks for the version before each migration; the image may be older
\* than the schema and then has nothing to apply.
ReadVersion(i) ==
    /\ Goes(i, "version", IF version < Image(i) THEN "migrate" ELSE "unlock")
    /\ Reads(i, version)
    /\ UNCHANGED <<schema, owner, setting, env, counts>>

\* One transaction changes the tables and records the version.
Migrate(i) ==
    /\ Goes(i, "migrate", "version")
    /\ version' = read[i] + 1
    /\ usable' = IF defaults THEN usable \cup {version'} ELSE usable
    /\ passed' = passed \cup
          {j \in Instances : at[j] \in Begun /\ version' \in breaking /\ Image(j) < version'}
    /\ UNCHANGED <<role, defaults, lock, owner, setting, env, read, breaking, stops, saves>>

\* The owner connection closes as well.
Unlock(i) ==
    /\ Goes(i, "unlock", "clients")
    /\ lock' = None
    /\ Reads(i, None)
    /\ UNCHANGED <<role, defaults, usable, version, owner, setting, env, counts>>

\* The clients of the configuration are written on every boot.
SyncOAuthClients(i) ==
    /\ Goes(i, "clients", "owner")
    /\ clients' = TRUE
    /\ UNCHANGED <<schema, owner, key, setBy, env, read, counts>>

-----------------------------------------------------------------------------
\* EnsureLocalOwner, as the runtime role.

\* The image of a process that the schema has left behind asks for a column
\* that is gone.
FindOwner(i) ==
    /\ at[i] = "owner"
    /\ IF ~Usable(i)
       THEN Stops(i)
       ELSE IF credential # None
       THEN Goes(i, "owner", "found") /\ Reads(i, credential) /\ UNCHANGED lock
       ELSE IF env[i].password # None
       THEN Goes(i, "owner", "sign in") /\ UNCHANGED <<read, lock>>
       ELSE Stops(i)
    /\ UNCHANGED <<role, defaults, usable, version, owner, setting, env, counts>>

\* Not MarkFound: marked only where the account is created.
FoundIsMarked(i) ==
    /\ Goes(i, "found", "password")
    /\ UNCHANGED <<schema, owner, setting, env, read, counts>>

\* The account is marked on every boot: the one that created it may have
\* stopped before it did.
MarkFound(i) ==
    /\ Goes(i, "found", "password")
    /\ admin' = TRUE
    /\ UNCHANGED <<schema, account, credential, setting, env, read, counts>>

\* A password that differs from the hash read at first replaces it.
Rotate(i) ==
    /\ Goes(i, "password", "key")
    /\ credential' = IF env[i].password \in {None, read[i]} THEN credential
                     ELSE env[i].password
    /\ Reads(i, None)
    /\ UNCHANGED <<schema, account, admin, setting, env, counts>>

\* Not SignInOwner: an account that exists is refused.
SignInNewOwner(i) ==
    /\ at[i] = "sign in"
    /\ IF account THEN Stops(i) /\ UNCHANGED account
                  ELSE Goes(i, "sign in", "credential") /\ account' = TRUE /\ UNCHANGED <<lock, read>>
    /\ UNCHANGED <<role, defaults, usable, version, credential, admin, setting, env, counts>>

\* SignIn creates the account with its site in one transaction, or finds what
\* an earlier boot created and did not finish.
SignInOwner(i) ==
    /\ Goes(i, "sign in", "credential")
    /\ account' = TRUE
    /\ UNCHANGED <<schema, credential, admin, setting, env, read, counts>>

\* The username is unique: the second of two first boots stops here, and an
\* image that the schema has passed meanwhile.
CreateCredential(i) ==
    /\ at[i] = "credential"
    /\ IF credential = None /\ Usable(i)
       THEN /\ Goes(i, "credential", "mark")
            /\ credential' = env[i].password
            /\ UNCHANGED <<read, lock>>
       ELSE Stops(i) /\ UNCHANGED credential
    /\ UNCHANGED <<role, defaults, usable, version, account, admin, setting, env, counts>>

MarkCreated(i) ==
    /\ Goes(i, "mark", "key")
    /\ admin' = TRUE
    /\ UNCHANGED <<schema, account, credential, setting, env, read, counts>>

-----------------------------------------------------------------------------
\* SeedInstanceAIFromEnv reads the setting and writes it in two statements; an
\* error is only logged.

LookForKey(i) ==
    /\ Goes(i, "key", IF env[i].key # None /\ key = None THEN "seed" ELSE "serving")
    /\ UNCHANGED <<schema, owner, setting, env, read, counts>>

SeedKey(i) ==
    /\ Goes(i, "seed", "serving")
    /\ \/ key' = env[i].key /\ setBy' = "environment"
       \/ UNCHANGED <<key, setBy>>
    /\ UNCHANGED <<schema, owner, clients, env, read, counts>>

\* Resolver.settings: the key a call is made with.  The environment stands in
\* for a setting that is empty.
KeyInUse(i) == IF key # None THEN key ELSE env[i].key

-----------------------------------------------------------------------------
\* What happens to a running installation.

\* AdminServerAI, by the account marked as the installation's administrator; an
\* empty key turns filing off.
SaveKey(k) ==
    /\ saves < MaxSaves /\ saves' = saves + 1
    /\ admin /\ credential # None /\ \E i \in Instances : Serving(i)
    /\ key' = k /\ setBy' = "page"
    /\ UNCHANGED <<schema, owner, clients, at, env, read, releases, stops>>

\* A crash, a kill, or the operator's restart.
Crash(i) ==
    /\ stops < MaxStops /\ stops' = stops + 1
    /\ at[i] # "down" /\ Stops(i)
    /\ UNCHANGED <<role, defaults, usable, version, owner, setting, env, releases, saves>>

-----------------------------------------------------------------------------
Boot(i) ==
    \/ Load(i) \/ LookForRole(i) \/ CreateRole(i) \/ GrantTables(i) \/ GrantDefaults(i)
    \/ TakeLock(i) \/ WaitingEnds(i) \/ ReadVersion(i) \/ Migrate(i) \/ Unlock(i)
    \/ SyncOAuthClients(i) \/ FindOwner(i) \/ MarkFound(i) \/ Rotate(i)
    \/ SignInOwner(i) \/ CreateCredential(i) \/ MarkCreated(i)
    \/ LookForKey(i) \/ SeedKey(i)

\* A fresh database; or one with some migrations applied, whose role was made
\* by hand or did not come with the dump it was restored from, and whose owner
\* was provisioned before installations had an administrator.
Init ==
    /\ \/ version = 0 /\ account = FALSE /\ credential = None /\ role = FALSE
       \/ version \in Migrations /\ account = TRUE /\ credential \in Passwords
          /\ role \in BOOLEAN
    /\ usable = IF role THEN 1..version ELSE {}
    /\ defaults = FALSE /\ admin = FALSE
    /\ lock = None /\ key = None /\ setBy = None /\ clients = FALSE
    /\ breaking \in SUBSET (Migrations \ {1}) /\ passed = {}
    /\ at = [i \in Instances |-> "down"]
    /\ env \in [Instances -> {[password |-> None, key |-> None]}]
    /\ read = [i \in Instances |-> None]
    /\ stops = 0 /\ saves = 0

Next ==
    \/ \E i \in Instances : Boot(i) \/ Crash(i)
    \/ \E k \in Keys \cup {None} : SaveKey(k)

\* A process that runs goes on, and one that stopped is started again; a lock
\* that is released goes to those who wait for it (pg_advisory_lock queues).
Fairness == \A i \in Instances : WF_vars(Boot(i)) /\ SF_vars(TakeLock(i))
Spec == Init /\ [][Next]_vars /\ Fairness

-----------------------------------------------------------------------------
\* Every variable keeps its type; what an instance has read is a version, or
\* the password it found.
TypeOK ==
    /\ role \in BOOLEAN /\ defaults \in BOOLEAN
    /\ usable \subseteq Nat /\ version \in Nat /\ lock \in Instances \cup {None}
    /\ account \in BOOLEAN /\ admin \in BOOLEAN /\ credential \in Passwords \cup {None}
    /\ key \in Keys \cup {None} /\ setBy \in {None, "environment", "page"}
    /\ at \in [Instances -> Steps]
    /\ env \in [Instances -> [password : Passwords \cup {None}, key : Keys \cup {None}]]
    /\ read \in [Instances -> Passwords \cup Nat \cup {None}]
    /\ clients \in BOOLEAN /\ breaking \subseteq Migrations /\ passed \subseteq Instances
    /\ stops \in Nat /\ saves \in Nat

\* The migration an instance is about to apply is the next one: two instances
\* that start together never apply one twice, or out of order
\* (docs/SECURITY.md: under an advisory lock on a dedicated connection).
MigrationsFollowOneAnother ==
    \A i \in Instances : at[i] = "migrate" => read[i] = version

\* An instance that serves has what it needs, whatever boots failed before it
\* and whichever run beside it: every migration of its image, and none that its
\* image does not survive unless another instance applied it after this one had
\* looked its owner up; a role that may use every table; the configured clients;
\* an owner who can sign in, and who is the administrator.
ServingInstancesAreComplete ==
    \A i \in Instances : Serving(i) =>
        /\ Image(i) <= version /\ (Usable(i) \/ i \in passed)
        /\ role /\ 1..version \subseteq usable /\ clients
        /\ account /\ credential # None /\ admin

\* However often processes stop while they boot, in the end all of them serve
\* whose image can use the schema there is by then; a process of another image
\* may be starting over and over beside them.
InstallationComesUp == <>[](\A i \in Instances : Usable(i) => Serving(i))

\* A key cleared on the settings page stays off: no call is made with another
\* (SaveInstanceAI: an empty key turns AI-assisted filing off for the whole
\* installation).
ClearedKeyIsOff ==
    setBy = "page" /\ key = None => \A i \in Instances : Serving(i) => KeyInUse(i) = None
=============================================================================
