---------------------------- MODULE StartupProofs ----------------------------
(***************************************************************************)
(* Theorems about Startup, for any number of instances, images, passwords   *)
(* and crashes: the type invariant, that migrations follow one another, and *)
(* that an instance that serves has all it needs.                           *)
(***************************************************************************)
EXTENDS Startup, TLAPS

\* The statements an instance executes under the schema lock, and those that
\* come after it created the role, granted the defaults, saw its schema
\* complete, wrote the clients, found or made the credential, and marked the administrator.
Locked == {"version", "migrate", "unlock"}
AfterOwner == {"serving", "key", "seed", "password"}
AfterCredential == AfterOwner \cup {"found", "mark"}
AfterClients == AfterCredential \cup {"owner", "sign in", "credential"}
AfterSchema == AfterClients \cup {"unlock", "clients"}
AfterDefaults == AfterSchema \cup {"lock", "version", "migrate"}
AfterRole == AfterDefaults \cup {"grant", "defaults"}

\* The schema has not left an instance behind, or only after it had begun.
Left(i) == Usable(i) \/ i \in passed

\* What an instance knows by the statement it has come to.
Knows(i) ==
    /\ at[i] \in Locked => lock = i
    /\ at[i] = "migrate" => read[i] = version
    /\ at[i] \in AfterRole => role
    /\ at[i] = "defaults" => 1..version \subseteq usable
    /\ at[i] \in AfterDefaults => defaults
    /\ at[i] \in AfterSchema => Image(i) <= version
    /\ at[i] \in AfterClients => clients
    /\ at[i] \in Begun => Left(i)
    /\ at[i] \in {"sign in", "credential"} => env[i].password # None
    /\ at[i] = "credential" => account
    /\ at[i] \in AfterCredential => credential # None
    /\ at[i] \in AfterOwner => admin

\* The inductive invariant.  Once the default privileges are there every
\* migration is usable, and a credential is never without its account.
IInv ==
    /\ TypeOK
    /\ \A i \in Instances : Knows(i)
    /\ defaults => 1..version \subseteq usable
    /\ credential # None => account

-----------------------------------------------------------------------------
\* A fresh database and an older one satisfy the invariant.
LEMMA InvInit == Init => IInv
<1> SUFFICES ASSUME Init PROVE IInv
    OBVIOUS
<1>1. version \in Nat
    BY DEF Init, Migrations
<1>2. TypeOK
    <2>1. role \in BOOLEAN /\ account \in BOOLEAN /\ credential \in Passwords \cup {None}
        BY DEF Init
    <2>2. usable \subseteq Nat
        BY <1>1 DEF Init
    <2>3. env \in [Instances -> [password : Passwords \cup {None}, key : Keys \cup {None}]]
        BY DEF Init
    <2> QED BY <1>1, <2>1, <2>2, <2>3 DEF Init, TypeOK, Steps
<1>3. ASSUME NEW i \in Instances PROVE Knows(i)
    BY <1>3 DEF Init, Knows, Locked, AfterOwner, AfterCredential, AfterSchema,
                AfterDefaults, AfterRole, AfterClients, Begun
<1> QED BY <1>2, <1>3 DEF Init, IInv

-----------------------------------------------------------------------------
\* Every step keeps the types.
LEMMA TypeBoot ==
    ASSUME IInv, NEW i \in Instances, Boot(i)
    PROVE  TypeOK'
<1> USE DEF TypeOK, Goes, Reads, schema, owner, setting, releases, counts, Steps
<1>0. TypeOK /\ Knows(i) /\ Image(i) \in Nat
    BY ImageAssumption DEF IInv
<1>1. CASE Load(i)
    <2>1. PICK e \in Environments : env' = [env EXCEPT ![i] = e]
        BY <1>1 DEF Load
    <2>2. e \in [password : Passwords \cup {None}, key : Keys \cup {None}]
        BY <2>1, NoneAssumption DEF Environments
    <2>3. env' \in [Instances -> [password : Passwords \cup {None}, key : Keys \cup {None}]]
        BY <1>0, <2>1, <2>2
    <2> QED BY <1>0, <1>1, <2>3 DEF Load
<1>2. CASE LookForRole(i)
    BY <1>0, <1>2 DEF LookForRole
<1>3. CASE CreateRole(i)
    BY <1>0, <1>3 DEF CreateRole, Stops
<1>4. CASE GrantTables(i)
    <2>1. usable' = 1..version /\ version \in Nat
        BY <1>0, <1>4 DEF GrantTables
    <2>2. 1..version \subseteq Nat
        BY <2>1
    <2> QED BY <1>0, <1>4, <2>1, <2>2 DEF GrantTables
<1>5. CASE GrantDefaults(i)
    BY <1>0, <1>5 DEF GrantDefaults
<1>6. CASE TakeLock(i)
    BY <1>0, <1>6 DEF TakeLock
<1>7. CASE WaitingEnds(i)
    <2>1. stops' \in Nat
        <3>1. stops \in Nat /\ stops' = stops + 1
            BY <1>0, <1>7 DEF WaitingEnds
        <3> HIDE DEF TypeOK
        <3> QED BY <3>1
    <2>2. /\ at' = [at EXCEPT ![i] = "down"] /\ read' = [read EXCEPT ![i] = None]
          /\ lock' \in {lock, None}
          /\ UNCHANGED <<role, defaults, usable, version, account, credential, admin,
                         key, setBy, clients, breaking, passed, env, saves>>
        BY <1>7 DEF WaitingEnds, Stops
    <2> QED BY <1>0, <2>1, <2>2
<1>8. CASE ReadVersion(i)
    BY <1>0, <1>8 DEF ReadVersion
<1>9. CASE Migrate(i)
    <2>1. version' = version + 1
        BY <1>0, <1>9 DEF Migrate, Knows
    <2>2. usable' = (IF defaults THEN usable \cup {version'} ELSE usable)
        BY <1>9 DEF Migrate
    <2>3. version' \in Nat /\ usable \subseteq Nat
        <3>1. version \in Nat /\ usable \subseteq Nat
            BY <1>0
        <3> QED BY <2>1, <3>1
    <2>4. usable' \subseteq Nat /\ version' \in Nat
        <3> HIDE DEF TypeOK
        <3> QED BY <2>2, <2>3
    <2>5. /\ at' = [at EXCEPT ![i] = "version"]
          /\ UNCHANGED <<role, defaults, lock, account, credential, admin, key, setBy,
                         clients, breaking, env, read, stops, saves>>
          /\ passed' \subseteq Instances
        BY <1>0, <1>9 DEF Migrate
    <2> QED BY <1>0, <2>4, <2>5
<1>10. CASE Unlock(i)
    BY <1>0, <1>10 DEF Unlock
<1>19. CASE SyncOAuthClients(i)
    BY <1>0, <1>19 DEF SyncOAuthClients
<1>11. CASE FindOwner(i)
    BY <1>0, <1>11 DEF FindOwner, Stops
<1>12. CASE MarkFound(i)
    BY <1>0, <1>12 DEF MarkFound
<1>13. CASE Rotate(i)
    BY <1>0, <1>13 DEF Rotate
<1>14. CASE SignInOwner(i)
    BY <1>0, <1>14 DEF SignInOwner
<1>15. CASE CreateCredential(i)
    BY <1>0, <1>15 DEF CreateCredential, Stops
<1>16. CASE MarkCreated(i)
    BY <1>0, <1>16 DEF MarkCreated
<1>17. CASE LookForKey(i)
    BY <1>0, <1>17 DEF LookForKey
<1>18. CASE SeedKey(i)
    BY <1>0, <1>18 DEF SeedKey
<1> QED BY <1>1, <1>2, <1>3, <1>4, <1>5, <1>6, <1>7, <1>8, <1>9, <1>10, <1>11, <1>12, <1>13, <1>14, <1>15, <1>16, <1>17, <1>18, <1>19 DEF Boot

LEMMA TypeStep ==
    ASSUME IInv, [Next]_vars
    PROVE  TypeOK'
<1>0. TypeOK
    BY DEF IInv
<1>1. ASSUME NEW i \in Instances, Boot(i) PROVE TypeOK'
    BY <1>1, TypeBoot
<1>2. ASSUME NEW i \in Instances, Crash(i) PROVE TypeOK'
    <2>1. stops' \in Nat
        BY <1>0, <1>2 DEF Crash, TypeOK
    <2>2. /\ at' = [at EXCEPT ![i] = "down"] /\ read' = [read EXCEPT ![i] = None]
          /\ lock' \in {lock, None}
          /\ UNCHANGED <<role, defaults, usable, version, account, credential, admin,
                         key, setBy, clients, breaking, passed, env, saves>>
        BY <1>2 DEF Crash, Stops, Reads, owner, setting, releases
    <2> QED BY <1>0, <2>1, <2>2 DEF TypeOK, Steps
<1>3. ASSUME NEW k \in Keys \cup {None}, SaveKey(k) PROVE TypeOK'
    BY <1>0, <1>3, BoundAssumption DEF SaveKey, TypeOK, schema, owner, releases
<1>4. CASE UNCHANGED vars
    BY <1>0, <1>4 DEF vars, schema, owner, setting, releases, counts, TypeOK
<1> QED BY <1>1, <1>2, <1>3, <1>4 DEF Next

-----------------------------------------------------------------------------
\* What an instance knows survives the steps of the others: the role, the
\* defaults, the account and the marks never go, the schema never goes back,
\* and only the holder of the lock migrates.
Keeps ==
    /\ role => role'
    /\ defaults => defaults'
    /\ account => account'
    /\ credential # None => credential' # None
    /\ admin => admin'
    /\ clients => clients'
    /\ version <= version'
    /\ version' \in Nat /\ version \in Nat

\* An instance other than the one that steps knows what it knew.
LEMMA OthersKnow ==
    ASSUME TypeOK, NEW j \in Instances, Knows(j), Keeps,
           UNCHANGED <<at[j], env[j], read[j]>>,
           lock = j => lock' = j,
           at[j] = "migrate" => version' = version,
           at[j] = "defaults" => 1..version' \subseteq usable',
           at[j] \in Begun => Left(j)'
    PROVE  Knows(j)'
<1>1. at[j]' = at[j] /\ env[j]' = env[j] /\ read[j]' = read[j]
    OBVIOUS
<1>2. at[j] \in AfterSchema => Image(j) <= version'
    <2>1. Image(j) \in Nat
        BY ImageAssumption
    <2>2. version <= version' /\ version' \in Nat /\ version \in Nat
        BY DEF Keeps
    <2>3. at[j] \in AfterSchema => Image(j) <= version
        BY DEF Knows
    <2> QED BY <2>1, <2>2, <2>3
<1>3. /\ at[j] \in Locked => lock' = j
      /\ at[j] \in AfterRole => role'
      /\ at[j] \in AfterDefaults => defaults'
      /\ at[j] = "credential" => account'
      /\ at[j] \in AfterCredential => credential' # None
      /\ at[j] \in AfterOwner => admin'
      /\ at[j] \in AfterClients => clients'
    BY DEF Knows, Keeps
<1>4. /\ at[j] = "migrate" => read[j] = version'
      /\ at[j] = "defaults" => 1..version' \subseteq usable'
      /\ at[j] \in {"sign in", "credential"} => env[j].password # None
    BY DEF Knows
<1>5. at[j] \in Begun => Left(j)'
    OBVIOUS
<1> HIDE DEF Left
<1> QED BY <1>1, <1>2, <1>3, <1>4, <1>5 DEF Knows

\* The holder of the lock is one.
LEMMA OneHolder ==
    ASSUME IInv, NEW i \in Instances, NEW j \in Instances, at[i] \in Locked, at[j] \in Locked
    PROVE  i = j
BY DEF IInv, Knows

\* What every step of instance i does to the rest: it keeps what was there,
\* takes or gives back the lock itself, migrates as its holder, and leaves the
\* local variables of the others alone.
Alone(i) ==
    /\ Keeps
    /\ \A j \in Instances \ {i} :
          at'[j] = at[j] /\ env'[j] = env[j] /\ read'[j] = read[j]
    /\ \/ lock' = lock
       \/ lock = None /\ lock' = i
       \/ lock = i /\ lock' = None
    /\ version' # version => at[i] = "migrate"
    /\ 1..version \subseteq usable => 1..version' \subseteq usable'
    /\ defaults' => defaults \/ at[i] = "defaults"
    /\ credential' # None => account'
    /\ \A j \in Instances \ {i} : at[j] \in Begun /\ Left(j) => Left(j)'

\* An instance that stops knows nothing.
LEMMA StopKnows ==
    ASSUME TypeOK, NEW i \in Instances, Stops(i)
    PROVE  Knows(i)'
<1>1. at'[i] = "down"
    BY DEF Stops, TypeOK
<1> QED BY <1>1 DEF Knows, Locked, AfterRole, AfterDefaults, AfterSchema, AfterClients,
        AfterCredential, AfterOwner, Begun

\* A step that leaves the schema alone.
Locals(i) ==
    \A j \in Instances \ {i} : at'[j] = at[j] /\ env'[j] = env[j] /\ read'[j] = read[j]

LEMMA SchemaAlone ==
    ASSUME TypeOK, NEW i \in Instances, Locals(i),
           UNCHANGED <<role, defaults, usable, version, releases>>,
           \/ lock' = lock
           \/ lock = None /\ lock' = i
           \/ lock = i /\ lock' = None,
           account => account', admin => admin', clients => clients',
           credential # None => credential' # None,
           credential' # None => account'
    PROVE  Alone(i)
BY DEF Alone, Keeps, Locals, TypeOK, Left, Usable, releases

LEMMA BootAlone ==
    ASSUME IInv, NEW i \in Instances, Boot(i)
    PROVE  Alone(i)
<1> USE DEF TypeOK, Alone, Keeps, Goes, Reads, schema, owner, setting, releases, counts, Left, Usable
<1>0. TypeOK /\ Knows(i) /\ (credential # None => account) /\ None \notin Instances
    BY NoneAssumption DEF IInv
<1>1. CASE Load(i)
    BY <1>0, <1>1 DEF Load
<1>2. CASE LookForRole(i)
    <2>1. UNCHANGED <<role, defaults, usable, version, releases>> /\ Locals(i)
        BY <1>0, <1>2 DEF LookForRole, Locals
    <2>2. /\ lock' = lock \/ (lock = i /\ lock' = None)
          /\ account => account'
          /\ admin => admin'
          /\ clients => clients'
          /\ credential # None => credential' # None
          /\ credential' # None => account'
        BY <1>0, <1>2 DEF LookForRole
    <2> HIDE DEF TypeOK, Alone
    <2> QED BY <1>0, <2>1, <2>2, SchemaAlone
<1>3. CASE CreateRole(i)
    <2>1. CASE role
        <3>1. UNCHANGED <<role, defaults, usable, version, releases>> /\ Locals(i)
            BY <1>0, <1>3, <2>1 DEF CreateRole, Stops, Locals
        <3>2. /\ lock' = lock \/ (lock = i /\ lock' = None)
              /\ UNCHANGED <<account, admin, credential, clients>>
            BY <1>3, <2>1 DEF CreateRole, Stops
        <3> HIDE DEF TypeOK, Alone
        <3> QED BY <1>0, <3>1, <3>2, SchemaAlone
    <2>2. CASE ~role
        <3>1. /\ at' = [at EXCEPT ![i] = "grant"] /\ role'
              /\ UNCHANGED <<defaults, usable, version, lock, account, admin, credential,
                             clients, breaking, passed, env, read>>
            BY <1>3, <2>2 DEF CreateRole
        <3>2. Locals(i)
            BY <1>0, <3>1 DEF Locals
        <3>3. Keeps
            BY <1>0, <3>1
        <3> HIDE DEF Keeps
        <3> QED BY <1>0, <3>1, <3>2, <3>3 DEF Locals
    <2> QED BY <2>1, <2>2
<1>4. CASE GrantTables(i)
    BY <1>0, <1>4 DEF GrantTables
<1>5. CASE GrantDefaults(i)
    BY <1>0, <1>5 DEF GrantDefaults
<1>6. CASE TakeLock(i)
    BY <1>0, <1>6 DEF TakeLock
<1>7. CASE WaitingEnds(i)
    BY <1>0, <1>7 DEF WaitingEnds, Stops
<1>8. CASE ReadVersion(i)
    BY <1>0, <1>8 DEF ReadVersion
<1>9. CASE Migrate(i)
    <2>1. at[i] = "migrate" /\ version \in Nat /\ version' = version + 1 /\ defaults
        BY <1>0, <1>9 DEF Migrate, Knows, AfterDefaults
    <2>2. /\ usable' = usable \cup {version'}
          /\ UNCHANGED <<role, defaults, lock, account, credential, admin, clients>>
        BY <1>9, <2>1 DEF Migrate
    <2>3. Locals(i)
        BY <1>0, <1>9 DEF Migrate, Locals
    <2>4. 1..version' \subseteq (1..version) \cup {version'}
        BY <2>1
    <2>5. Keeps
        BY <2>1, <2>2
    <2>6. ASSUME NEW j \in Instances, at[j] \in Begun, Left(j) PROVE Left(j)'
        <3>1. /\ passed \subseteq passed' /\ breaking' = breaking
              /\ version + 1 \in breaking /\ Image(j) < version + 1 => j \in passed'
            BY <1>9, <2>1, <2>6 DEF Migrate
        <3>2. Image(j) \in Nat
            BY ImageAssumption
        <3>3. breaking \subseteq Int
            BY <1>0 DEF Migrations
        <3>4. ASSUME Usable(j), j \notin passed' PROVE Usable(j)'
            <4> SUFFICES ASSUME NEW n \in breaking, n <= version + 1 PROVE n <= Image(j)
                BY <2>1, <3>1
            <4>1. n <= version \/ n = version + 1
                BY <2>1, <3>3
            <4> QED BY <2>1, <3>1, <3>2, <3>4, <4>1
        <3> QED BY <2>6, <3>1, <3>4
    <2> HIDE DEF TypeOK, Keeps, Left, Usable
    <2> QED BY <1>0, <2>1, <2>2, <2>3, <2>4, <2>5, <2>6 DEF Locals
<1>10. CASE Unlock(i)
    BY <1>0, <1>10 DEF Unlock, Knows, Locked
<1>19. CASE SyncOAuthClients(i)
    BY <1>0, <1>19 DEF SyncOAuthClients
<1>11. CASE FindOwner(i)
    <2>1. UNCHANGED <<role, defaults, usable, version, releases>> /\ Locals(i)
        BY <1>0, <1>11 DEF FindOwner, Locals, Stops
    <2>2. /\ lock' = lock \/ (lock = i /\ lock' = None)
          /\ account => account'
          /\ admin => admin'
          /\ clients => clients'
          /\ credential # None => credential' # None
          /\ credential' # None => account'
        BY <1>0, <1>11 DEF FindOwner, Stops
    <2> HIDE DEF TypeOK, Alone
    <2> QED BY <1>0, <2>1, <2>2, SchemaAlone
<1>12. CASE MarkFound(i)
    BY <1>0, <1>12 DEF MarkFound
<1>13. CASE Rotate(i)
    <2>1. UNCHANGED <<role, defaults, usable, version, releases>> /\ Locals(i)
        BY <1>0, <1>13 DEF Rotate, Locals
    <2>2. /\ lock' = lock \/ (lock = i /\ lock' = None)
          /\ account => account'
          /\ admin => admin'
          /\ clients => clients'
          /\ credential # None => credential' # None
          /\ credential' # None => account'
        BY <1>0, <1>13 DEF Rotate, Knows, AfterCredential, AfterOwner
    <2> HIDE DEF TypeOK, Alone
    <2> QED BY <1>0, <2>1, <2>2, SchemaAlone
<1>14. CASE SignInOwner(i)
    <2>1. UNCHANGED <<role, defaults, usable, version, releases>> /\ Locals(i)
        BY <1>0, <1>14 DEF SignInOwner, Locals
    <2>2. /\ lock' = lock \/ (lock = i /\ lock' = None)
          /\ account => account'
          /\ admin => admin'
          /\ clients => clients'
          /\ credential # None => credential' # None
          /\ credential' # None => account'
        BY <1>0, <1>14 DEF SignInOwner
    <2> HIDE DEF TypeOK, Alone
    <2> QED BY <1>0, <2>1, <2>2, SchemaAlone
<1>15. CASE CreateCredential(i)
    BY <1>0, <1>15 DEF CreateCredential, Stops, Knows, Locked
<1>16. CASE MarkCreated(i)
    BY <1>0, <1>16 DEF MarkCreated
<1>17. CASE LookForKey(i)
    BY <1>0, <1>17 DEF LookForKey
<1>18. CASE SeedKey(i)
    BY <1>0, <1>18 DEF SeedKey
<1> QED BY <1>1, <1>2, <1>3, <1>4, <1>5, <1>6, <1>7, <1>8, <1>9, <1>10, <1>11, <1>12, <1>13, <1>14, <1>15, <1>16, <1>17, <1>18, <1>19 DEF Boot

\* What the instance that steps knows afterwards.
LEMMA BootKnows ==
    ASSUME IInv, NEW i \in Instances, Boot(i)
    PROVE  Knows(i)'
<1> USE DEF TypeOK, Goes, Reads, schema, owner, setting, releases, counts, Knows, Locked, AfterRole,
        AfterDefaults, AfterSchema, AfterClients, AfterCredential, AfterOwner, Begun, Left, Usable
<1>0. TypeOK /\ Knows(i) /\ (defaults => 1..version \subseteq usable) /\ Image(i) \in Nat
    BY ImageAssumption DEF IInv
<1>1. CASE Load(i)
    BY <1>0, <1>1 DEF Load
<1>2. CASE LookForRole(i)
    BY <1>0, <1>2 DEF LookForRole
<1>3. CASE CreateRole(i)
    BY <1>0, <1>3, StopKnows DEF CreateRole
<1>4. CASE GrantTables(i)
    BY <1>0, <1>4 DEF GrantTables
<1>5. CASE GrantDefaults(i)
    BY <1>0, <1>5 DEF GrantDefaults
<1>6. CASE TakeLock(i)
    BY <1>0, <1>6 DEF TakeLock
<1>7. CASE WaitingEnds(i)
    BY <1>0, <1>7, StopKnows DEF WaitingEnds
<1>8. CASE ReadVersion(i)
    BY <1>0, <1>8 DEF ReadVersion
<1>9. CASE Migrate(i)
    BY <1>0, <1>9 DEF Migrate
<1>10. CASE Unlock(i)
    BY <1>0, <1>10 DEF Unlock
<1>19. CASE SyncOAuthClients(i)
    BY <1>0, <1>19 DEF SyncOAuthClients
<1>11. CASE FindOwner(i)
    BY <1>0, <1>11, StopKnows DEF FindOwner
<1>12. CASE MarkFound(i)
    BY <1>0, <1>12 DEF MarkFound
<1>13. CASE Rotate(i)
    BY <1>0, <1>13 DEF Rotate
<1>14. CASE SignInOwner(i)
    BY <1>0, <1>14 DEF SignInOwner
<1>15. CASE CreateCredential(i)
    BY <1>0, <1>15, StopKnows DEF CreateCredential
<1>16. CASE MarkCreated(i)
    BY <1>0, <1>16 DEF MarkCreated
<1>17. CASE LookForKey(i)
    BY <1>0, <1>17 DEF LookForKey
<1>18. CASE SeedKey(i)
    BY <1>0, <1>18 DEF SeedKey
<1> QED BY <1>1, <1>2, <1>3, <1>4, <1>5, <1>6, <1>7, <1>8, <1>9, <1>10, <1>11, <1>12, <1>13, <1>14, <1>15, <1>16, <1>17, <1>18, <1>19 DEF Boot

-----------------------------------------------------------------------------
LEMMA InvBoot ==
    ASSUME IInv, NEW i \in Instances, Boot(i)
    PROVE  IInv'
<1>1. TypeOK' /\ Alone(i) /\ Knows(i)'
    BY TypeBoot, BootAlone, BootKnows
<1>2. ASSUME NEW j \in Instances PROVE Knows(j)'
    <2>1. CASE j = i
        BY <1>1, <2>1
    <2>2. CASE j # i
        <3>1. UNCHANGED <<at[j], env[j], read[j]>> /\ Keeps
            BY <1>1, <2>2 DEF Alone
        <3>2. TypeOK /\ Knows(j) /\ None \notin Instances
            BY NoneAssumption DEF IInv
        <3>3. lock = j => lock' = j
            BY <1>1, <2>2, <3>2 DEF Alone
        <3>4. at[j] = "migrate" => version' = version
            BY <1>1, <2>2, OneHolder DEF Alone, Locked
        <3>5. at[j] = "defaults" => 1..version' \subseteq usable'
            BY <1>1, <3>2 DEF Alone, Knows
        <3>6. at[j] \in Begun => Left(j)'
            BY <1>1, <2>2, <3>2 DEF Alone, Knows
        <3> QED BY <3>1, <3>2, <3>3, <3>4, <3>5, <3>6, OthersKnow
    <2> QED BY <2>1, <2>2
<1>3. defaults' => 1..version' \subseteq usable'
    BY <1>1 DEF Alone, IInv, Knows
<1>4. credential' # None => account'
    BY <1>1 DEF Alone
<1> QED BY <1>1, <1>2, <1>3, <1>4 DEF IInv

LEMMA InvCrash ==
    ASSUME IInv, NEW i \in Instances, Crash(i)
    PROVE  IInv'
<1>0. TypeOK /\ None \notin Instances
    BY NoneAssumption DEF IInv
<1>1. /\ Stops(i)
      /\ UNCHANGED <<role, defaults, usable, version, account, credential, admin, clients,
                     breaking, passed, env>>
    BY DEF Crash, owner, setting, releases
<1>2. TypeOK'
    BY TypeStep DEF Next
<1>3. ASSUME NEW j \in Instances PROVE Knows(j)'
    <2>1. CASE j = i
        BY <1>0, <1>1, <2>1, StopKnows
    <2>2. CASE j # i
        <3>1. UNCHANGED <<at[j], env[j], read[j]>> /\ Keeps
            BY <1>0, <1>1, <2>2 DEF Stops, Reads, Keeps, TypeOK
        <3>2. lock = j => lock' = j
            BY <1>1, <2>2 DEF Stops
        <3>3. Knows(j)
            BY DEF IInv
        <3>4. at[j] = "defaults" => 1..version' \subseteq usable'
            BY <1>1, <3>3 DEF Knows
        <3>5. Left(j)' = Left(j)
            BY <1>1 DEF Left, Usable
        <3>6. at[j] \in Begun => Left(j)'
            BY <3>3, <3>5 DEF Knows
        <3> QED BY <1>0, <1>1, <3>1, <3>2, <3>3, <3>4, <3>6, OthersKnow
    <2> QED BY <2>1, <2>2
<1> QED BY <1>1, <1>2, <1>3 DEF IInv

LEMMA InvStep == IInv /\ [Next]_vars => IInv'
<1> SUFFICES ASSUME IInv, [Next]_vars PROVE IInv'
    OBVIOUS
<1>0. TypeOK'
    BY TypeStep
<1>1. ASSUME NEW i \in Instances, Boot(i) PROVE IInv'
    BY <1>1, InvBoot
<1>2. ASSUME NEW i \in Instances, Crash(i) PROVE IInv'
    BY <1>2, InvCrash
<1>3. ASSUME NEW k \in Keys \cup {None}, SaveKey(k) PROVE IInv'
    BY <1>0, <1>3 DEF SaveKey, IInv, Knows, Left, Usable, schema, owner, releases
<1>4. CASE UNCHANGED vars
    BY <1>0, <1>4 DEF vars, schema, owner, setting, releases, counts, IInv, Knows, Left, Usable
<1> QED BY <1>1, <1>2, <1>3, <1>4 DEF Next

\* The invariant holds however instances start, stop and start again.
THEOREM InvariantHolds == Spec => []IInv
BY InvInit, InvStep, PTL DEF Spec

-----------------------------------------------------------------------------
\* Every variable keeps its type.
THEOREM TypeCorrect == Spec => []TypeOK
<1>1. IInv => TypeOK
    BY DEF IInv
<1> QED BY <1>1, InvariantHolds, PTL

\* The migration an instance is about to apply is always the next one, with
\* any number of instances on any images and crashes anywhere
\* (platform/db/migrate.go, MigrateUp).
THEOREM MigrationsAreOrdered == Spec => []MigrationsFollowOneAnother
<1>1. IInv => MigrationsFollowOneAnother
    BY DEF IInv, Knows, MigrationsFollowOneAnother
<1> QED BY <1>1, InvariantHolds, PTL

\* An instance that serves has its schema, a role that may use every table,
\* and an owner who is the administrator, whatever boots failed before it
\* (cmd/api/main.go, EnsureRuntimeRole, MigrateUp, EnsureLocalOwner).
THEOREM ServingIsComplete == Spec => []ServingInstancesAreComplete
<1>1. IInv => ServingInstancesAreComplete
    <2> SUFFICES ASSUME IInv, NEW i \in Instances, at[i] = "serving"
                 PROVE  /\ Image(i) <= version /\ (Usable(i) \/ i \in passed)
                        /\ role /\ 1..version \subseteq usable /\ clients
                        /\ account /\ credential # None /\ admin
        BY DEF ServingInstancesAreComplete, Serving
    <2>1. /\ at[i] \in AfterOwner /\ at[i] \in AfterCredential /\ at[i] \in AfterSchema
          /\ at[i] \in AfterDefaults /\ at[i] \in AfterRole
          /\ at[i] \in AfterClients /\ at[i] \in Begun
        BY DEF AfterOwner, AfterCredential, AfterClients, AfterSchema, AfterDefaults, AfterRole,
               Begun
    <2> QED BY <2>1 DEF IInv, Knows, Left
<1> QED BY <1>1, InvariantHolds, PTL

=============================================================================
