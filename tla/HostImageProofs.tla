--------------------------- MODULE HostImageProofs ---------------------------
(***************************************************************************)
(* Proofs about the two parts of the daemon that meet the host's files.    *)
(* DaemonStart, for any processes, any schema version above the last one   *)
(* whose step fails on what is there, and any number of crashes: the       *)
(* schema is proved with what the database has being a prefix of the       *)
(* versions, or a newer release's that no process touches, the socket with *)
(* the lock.  AvatarFetch, for any requests, images and slots and any      *)
(* number of faults: no image is downloaded by two requests at once, locks *)
(* and slots are accounted for and never awaited in a circle, and the      *)
(* cache's files are whole.  The invariant behind the first of these is    *)
(* about the table of weak references: it never forgets a lock that some   *)
(* request has.                                                            *)
(***************************************************************************)
EXTENDS DaemonStart, AvatarFetch, FiniteSetTheorems, TLAPS

-----------------------------------------------------------------------------
(* The start of a process                                                  *)

USE DEF NoProcess

\* Processes that passed the migration.
Migrants == {"restore", "lock"} \cup HoldsLock

\* The database has the versions up to k: the recorded one as long as steps fail
\* on what is there, that one or a later one afterwards.  No process believes in
\* a version the database does not have.
HasUpTo(k) ==
    /\ features = 1..k
    /\ version <= k
    /\ version < 4 => k = version
    /\ \A p \in Process : daemon[p].version <= k

SchemaPrefix ==
    /\ \E k \in 0..SCHEMA_VERSION : HasUpTo(k)
    /\ \A p \in Process : daemon[p].pc \in Migrants => features = 1..SCHEMA_VERSION

\* Processes that have not seen the version.
Beginners == {"off", "launch", "look", "create", "read_version"}

\* A newer release wrote the database, and no process gets further than its version.
TooNew ==
    /\ NewerSchema
    /\ features = 1..version
    /\ \A p \in Process : daemon[p].pc \in Beginners

SchemaIInv == SchemaPrefix \/ TooNew

\* The socket is the one of the process that serves, or is about to.
SocketOwned ==
    \A p \in Process :
        /\ daemon[p].pc = "serving" =>
             socketFile = [of |-> p, private |-> TRUE, listening |-> TRUE]
        /\ daemon[p].pc = "secure" => socketFile.of = p /\ socketFile.listening

-----------------------------------------------------------------------------
(* Type correctness                                                        *)

\* A process that ends with an error leaves every variable its type: the lock
\* goes with it.
LEMMA ExitsTyped ==
    ASSUME NEW p \in Process, HostTypeOK, Exits(p)
    PROVE  /\ daemon' \in [Process -> [pc : Stages \cup {"off"}, version : 0..SCHEMA_VERSION]]
           /\ \A q \in Process : lockHolder' = q <=> daemon'[q].pc \in HoldsLock
           /\ lockHolder' \in Process \cup {NoProcess}
           /\ socketFile' \in [of : Process \cup {NoProcess}, private : BOOLEAN,
                               listening : BOOLEAN]
  <1>1. Off \in [pc : Stages \cup {"off"}, version : 0..SCHEMA_VERSION]
    BY HostAssumption DEF Off
  <1>2. daemon' \in [Process -> [pc : Stages \cup {"off"}, version : 0..SCHEMA_VERSION]]
    BY <1>1 DEF HostTypeOK, Exits
  <1>3. ASSUME NEW q \in Process PROVE lockHolder' = q <=> daemon'[q].pc \in HoldsLock
    <2>1. CASE q = p
      <3>1. daemon'[q].pc = "off"
        BY <2>1 DEF HostTypeOK, Exits, Off
      <3>2. lockHolder' # q
        BY <2>1, HostAssumption DEF Exits
      <3> QED BY <3>1, <3>2 DEF HoldsLock
    <2>2. CASE q # p
      <3>1. daemon'[q] = daemon[q]
        BY <2>2 DEF HostTypeOK, Exits
      <3>2. lockHolder' = q <=> lockHolder = q
        BY <2>2, HostAssumption DEF Exits
      <3> QED BY <3>1, <3>2 DEF HostTypeOK
    <2> QED BY <2>1, <2>2
  <1>4. lockHolder' \in Process \cup {NoProcess}
    BY DEF HostTypeOK, Exits
  <1>5. socketFile' \in [of : Process \cup {NoProcess}, private : BOOLEAN, listening : BOOLEAN]
    BY DEF HostTypeOK, Exits
  <1> QED BY <1>2, <1>3, <1>4, <1>5

\* A process that goes on without touching lock and socket, on the same side of
\* the lock, leaves every variable its type.
LEMMA GoesTyped ==
    ASSUME NEW p \in Process, NEW pc \in Stages, HostTypeOK, Goes(p, pc),
           UNCHANGED <<lockHolder, socketFile>>,
           daemon[p].pc \in HoldsLock <=> pc \in HoldsLock
    PROVE  /\ daemon' \in [Process -> [pc : Stages \cup {"off"}, version : 0..SCHEMA_VERSION]]
           /\ \A q \in Process : lockHolder' = q <=> daemon'[q].pc \in HoldsLock
           /\ lockHolder' \in Process \cup {NoProcess}
           /\ socketFile' \in [of : Process \cup {NoProcess}, private : BOOLEAN,
                               listening : BOOLEAN]
  BY HostAssumption DEF HostTypeOK, Goes

LEMMA HostTypeInit == HostInit => HostTypeOK
  <1> SUFFICES ASSUME HostInit PROVE HostTypeOK
    OBVIOUS
  <1>1. version \in 0..SCHEMA_VERSION + 1 /\ features \subseteq 1..SCHEMA_VERSION + 1
    BY HostAssumption DEF HostInit
  <1>2. \A p \in Process : daemon[p] = Off /\ lockHolder # p
    BY HostAssumption DEF HostInit
  <1>3. daemon \in [Process -> [pc : Stages \cup {"off"}, version : 0..SCHEMA_VERSION]]
    <2>1. Off \in [pc : Stages \cup {"off"}, version : 0..SCHEMA_VERSION]
      BY HostAssumption DEF Off
    <2> QED BY <2>1 DEF HostInit
  <1>4. \A p \in Process : lockHolder = p <=> daemon[p].pc \in HoldsLock
    BY <1>2 DEF Off, HoldsLock
  <1>5. socketFile \in [of : Process \cup {NoProcess}, private : BOOLEAN, listening : BOOLEAN]
    BY DEF HostInit, NoSocket
  <1>6. dbFile \in BOOLEAN /\ wanted \in BOOLEAN /\ lockHolder \in Process \cup {NoProcess}
    BY DEF HostInit
  <1>7. hostFaults \in 0..MaxHostFaults
    BY HostAssumption DEF HostInit
  <1> QED BY <1>1, <1>3, <1>4, <1>5, <1>6, <1>7 DEF HostTypeOK

LEMMA HostTypeNext == HostTypeOK /\ [HostNext]_hostVars => HostTypeOK'
  <1> SUFFICES ASSUME HostTypeOK, [HostNext]_hostVars PROVE HostTypeOK'
    OBVIOUS
  <1> USE HostAssumption DEF HostTypeOK
  <1>1. CASE UNCHANGED hostVars
    BY <1>1 DEF hostVars
  <1>2. ASSUME NEW p \in Process, StartService(p) PROVE HostTypeOK'
    <2>1. "look" \in Stages /\ daemon[p].pc \notin HoldsLock /\ "look" \notin HoldsLock
      BY <1>2 DEF StartService, Off, Stages, HoldsLock
    <2> QED BY <1>2, <2>1, GoesTyped DEF StartService
  <1>3. ASSUME NEW p \in Process, Launch(p) PROVE HostTypeOK'
    <2>1. "launch" \in Stages /\ daemon[p].pc \notin HoldsLock /\ "launch" \notin HoldsLock
      BY <1>3 DEF Launch, Off, Stages, HoldsLock
    <2> QED BY <1>3, <2>1, GoesTyped DEF Launch
  <1>4. ASSUME NEW p \in Process, StartUnmanaged(p) PROVE HostTypeOK'
    <2>1. "look" \in Stages /\ daemon[p].pc \notin HoldsLock /\ "look" \notin HoldsLock
      BY <1>4 DEF StartUnmanaged, Stages, HoldsLock
    <2> QED BY <1>4, <2>1, GoesTyped DEF StartUnmanaged
  <1>5. ASSUME NEW p \in Process, LookForDatabase(p) PROVE HostTypeOK'
    <2>1. /\ {"read_version", "create"} \subseteq Stages
          /\ daemon[p].pc \notin HoldsLock
          /\ "read_version" \notin HoldsLock /\ "create" \notin HoldsLock
      BY <1>5 DEF LookForDatabase, Stages, HoldsLock
    <2> QED BY <1>5, <2>1, GoesTyped DEF LookForDatabase
  <1>6. ASSUME NEW p \in Process, CreateDatabase(p) PROVE HostTypeOK'
    <2>1. "read_version" \in Stages /\ daemon[p].pc \notin HoldsLock
            /\ "read_version" \notin HoldsLock
      BY <1>6 DEF CreateDatabase, Stages, HoldsLock
    <2> QED BY <1>6, <2>1, GoesTyped, ExitsTyped DEF CreateDatabase
  <1>7. ASSUME NEW p \in Process, ReadVersion(p) PROVE HostTypeOK'
    <2>1. CASE NewerSchema
      BY <1>7, <2>1, ExitsTyped DEF ReadVersion
    <2>2. CASE ~NewerSchema
      <3>1. version \in 0..SCHEMA_VERSION
        BY <2>2 DEF NewerSchema
      <3> QED BY <1>7, <2>2, <3>1 DEF ReadVersion, Stages, HoldsLock
    <2> QED BY <2>1, <2>2
  <1>8. ASSUME NEW p \in Process, MigrateStep(p) PROVE HostTypeOK'
    <2> DEFINE v == daemon[p].version
    <2>1. v \in 0..SCHEMA_VERSION /\ v < SCHEMA_VERSION /\ daemon[p].pc = "migrate"
      BY <1>8 DEF MigrateStep
    <2>2. /\ After(v) \in 0..SCHEMA_VERSION
          /\ Adds(v) \subseteq 1..SCHEMA_VERSION + 1
      BY <2>1 DEF After, Adds
    <2>3. CASE Clashes(v)
      BY <1>8, <2>3, ExitsTyped DEF MigrateStep
    <2>4. CASE ~Clashes(v)
      <3>1. daemon' = [daemon EXCEPT ![p].version = After(v)]
              /\ features' = features \cup Adds(v) /\ version' = After(v)
              /\ UNCHANGED <<lockHolder, socketFile, dbFile, wanted, hostFaults>>
        BY <1>8, <2>4 DEF MigrateStep
      <3> QED BY <2>1, <2>2, <3>1
    <2> QED BY <2>3, <2>4
  <1>9. ASSUME NEW p \in Process, Migrated(p) PROVE HostTypeOK'
    <2>1. "restore" \in Stages /\ daemon[p].pc \notin HoldsLock /\ "restore" \notin HoldsLock
      BY <1>9 DEF Migrated, Stages, HoldsLock
    <2> QED BY <1>9, <2>1, GoesTyped DEF Migrated
  <1>10. ASSUME NEW p \in Process, RestoreProviders(p) PROVE HostTypeOK'
    <2>1. "lock" \in Stages /\ daemon[p].pc \notin HoldsLock /\ "lock" \notin HoldsLock
      BY <1>10 DEF RestoreProviders, Stages, HoldsLock
    <2> QED BY <1>10, <2>1, GoesTyped DEF RestoreProviders
  <1>11. ASSUME NEW p \in Process, LockSocket(p) PROVE HostTypeOK'
    <2>1. CASE lockHolder = NoProcess
      BY <1>11, <2>1 DEF LockSocket, Goes, Stages, HoldsLock
    <2>2. CASE lockHolder # NoProcess
      BY <1>11, <2>2, ExitsTyped DEF LockSocket
    <2> QED BY <2>1, <2>2
  <1>12. ASSUME NEW p \in Process, InspectSocket(p) PROVE HostTypeOK'
    <2>1. /\ {"bind", "clear"} \subseteq Stages /\ daemon[p].pc \in HoldsLock
          /\ {"bind", "clear"} \subseteq HoldsLock
      BY <1>12 DEF InspectSocket, Stages, HoldsLock
    <2> QED BY <1>12, <2>1, GoesTyped, ExitsTyped DEF InspectSocket
  <1>13. ASSUME NEW p \in Process, ClearSocket(p) PROVE HostTypeOK'
    BY <1>13 DEF ClearSocket, Goes, NoSocket, Stages, HoldsLock
  <1>14. ASSUME NEW p \in Process, BindSocket(p) PROVE HostTypeOK'
    <2>1. CASE socketFile = NoSocket
      <3>1. (p \in Managed) \in BOOLEAN
        OBVIOUS
      <3>2. socketFile' \in [of : Process \cup {NoProcess}, private : BOOLEAN, listening : BOOLEAN]
        <4> DEFINE private == p \in Managed
        <4>1. socketFile' = [of |-> p, private |-> private, listening |-> TRUE]
          BY <1>14, <2>1 DEF BindSocket
        <4>2. private \in BOOLEAN
          BY <3>1
        <4> HIDE DEF private
        <4> QED BY <4>1, <4>2
      <3>3. Goes(p, "secure") /\ UNCHANGED <<lockHolder, dbFile, version, features, wanted, hostFaults>>
        BY <1>14, <2>1 DEF BindSocket
      <3>4. daemon[p].pc = "bind"
        BY <1>14 DEF BindSocket
      <3> QED BY <3>2, <3>3, <3>4 DEF Goes, Stages, HoldsLock
    <2>2. CASE socketFile # NoSocket
      BY <1>14, <2>2, ExitsTyped DEF BindSocket
    <2> QED BY <2>1, <2>2
  <1>15. ASSUME NEW p \in Process, SecureSocket(p) PROVE HostTypeOK'
    BY <1>15 DEF SecureSocket, Goes, Stages, HoldsLock
  <1>16. ASSUME NEW p \in Process, CloseListener(p) PROVE HostTypeOK'
    BY <1>16 DEF CloseListener, Goes, Stages, HoldsLock
  <1>17. ASSUME NEW p \in Process, RemoveSocket(p) PROVE HostTypeOK'
    BY <1>17 DEF RemoveSocket, NoSocket, Off, Stages, HoldsLock
  <1>18. ASSUME NEW p \in Process, StopDaemon(p) PROVE HostTypeOK'
    <2>1. "draining" \in Stages /\ daemon[p].pc \in HoldsLock /\ "draining" \in HoldsLock
      BY <1>18 DEF StopDaemon, Stages, HoldsLock
    <2> QED BY <1>18, <2>1, GoesTyped DEF StopDaemon, HostFault
  <1>19. ASSUME NEW p \in Process, Crash(p) PROVE HostTypeOK'
    BY <1>19, ExitsTyped DEF Crash, HostFault
  <1>20. ASSUME NEW p \in Process, RestoreHangs(p) PROVE HostTypeOK'
    <2>1. "hung" \in Stages /\ daemon[p].pc \notin HoldsLock /\ "hung" \notin HoldsLock
      BY <1>20 DEF RestoreHangs, Stages, HoldsLock
    <2> QED BY <1>20, <2>1, GoesTyped DEF RestoreHangs, HostFault
  <1> QED
    BY <1>1, <1>2, <1>3, <1>4, <1>5, <1>6, <1>7, <1>8, <1>9, <1>10, <1>11, <1>12, <1>13,
       <1>14, <1>15, <1>16, <1>17, <1>18, <1>19, <1>20
    DEF HostNext, DaemonStep

\* Every reachable state has its type, and only one process is past the lock.
THEOREM HostTypeCorrect == HostSpec => []HostTypeOK
  <1> QED BY HostTypeInit, HostTypeNext, PTL DEF HostSpec

-----------------------------------------------------------------------------
(* The schema                                                              *)

\* A process that goes on to a stage before the end of the migration, or past
\* it when it was there already, leaves the schema as it is.
LEMMA GoesKeepsSchema ==
    ASSUME NEW p \in Process, NEW pc, HostTypeOK, SchemaPrefix, Goes(p, pc),
           UNCHANGED <<version, features>>, pc \in Migrants => daemon[p].pc \in Migrants
    PROVE  SchemaPrefix'
  <1>1. PICK k \in 0..SCHEMA_VERSION : HasUpTo(k)
    BY DEF SchemaPrefix
  <1>2. \A q \in Process : daemon'[q].version = daemon[q].version
    BY DEF HostTypeOK, Goes
  <1>3. HasUpTo(k)'
    BY <1>1, <1>2 DEF HasUpTo
  <1>4. ASSUME NEW q \in Process, daemon'[q].pc \in Migrants
        PROVE  features' = 1..SCHEMA_VERSION
    <2>1. daemon[q].pc \in Migrants
      BY <1>4 DEF HostTypeOK, Goes
    <2> QED BY <2>1 DEF SchemaPrefix
  <1> QED BY <1>3, <1>4 DEF SchemaPrefix

\* So does one that ends.
LEMMA LeavesKeepsSchema ==
    ASSUME NEW p \in Process, HostTypeOK, SchemaPrefix, daemon' = [daemon EXCEPT ![p] = Off],
           UNCHANGED <<version, features>>
    PROVE  SchemaPrefix'
  <1>1. PICK k \in 0..SCHEMA_VERSION : HasUpTo(k)
    BY DEF SchemaPrefix
  <1>2. \A q \in Process : daemon'[q] = daemon[q] \/ daemon'[q] = Off
    BY DEF HostTypeOK
  <1>3. \A q \in Process : daemon'[q].version <= k
    BY <1>1, <1>2 DEF HasUpTo, Off
  <1>4. HasUpTo(k)'
    BY <1>1, <1>3 DEF HasUpTo
  <1>5. ASSUME NEW q \in Process, daemon'[q].pc \in Migrants
        PROVE  features' = 1..SCHEMA_VERSION
    <2>1. daemon[q].pc \in Migrants
      BY <1>2, <1>5 DEF Off, Migrants, HoldsLock
    <2> QED BY <2>1 DEF SchemaPrefix
  <1> QED BY <1>4, <1>5 DEF SchemaPrefix

\* A step of a migration: from a version the database has, and up to version 4
\* only from the last one it has, since the step would fail otherwise.
LEMMA MigrateKeepsSchema ==
    ASSUME NEW p \in Process, HostTypeOK, SchemaPrefix, MigrateStep(p)
    PROVE  SchemaPrefix'
  <1> DEFINE v == daemon[p].version
  <1>1. PICK k \in 0..SCHEMA_VERSION : HasUpTo(k)
    BY DEF SchemaPrefix
  <1>2. /\ v \in 0..SCHEMA_VERSION /\ v < SCHEMA_VERSION /\ v <= k
        /\ daemon[p].pc = "migrate"
    BY <1>1 DEF HostTypeOK, MigrateStep, HasUpTo
  <1>3. SCHEMA_VERSION \in Nat /\ SCHEMA_VERSION > 4 /\ k \in Nat /\ version \in Nat
    BY <1>1, HostAssumption DEF HostTypeOK
  <1>4. CASE Clashes(v)
    <2>1. daemon' = [daemon EXCEPT ![p] = Off] /\ UNCHANGED <<version, features>>
      BY <1>4 DEF MigrateStep, Exits
    <2> QED BY <2>1, LeavesKeepsSchema
  <1>5. CASE ~Clashes(v)
    <2>1. /\ features' = features \cup Adds(v)
          /\ version' = After(v)
          /\ daemon' = [daemon EXCEPT ![p].version = After(v)]
      BY <1>5 DEF MigrateStep
    <2>2. /\ daemon'[p].version = After(v)
          /\ \A q \in Process : q # p => daemon'[q].version = daemon[q].version
          /\ \A q \in Process : daemon'[q].pc = daemon[q].pc
      BY <2>1 DEF HostTypeOK
    <2>3. \A q \in Process : daemon[q].version \in Nat /\ daemon[q].version <= k
      BY <1>1, <1>3 DEF HostTypeOK, HasUpTo
    <2>4. \E j \in 0..SCHEMA_VERSION : HasUpTo(j)'
      <3>1. CASE v = 0
        <4>1. features' = 1..SCHEMA_VERSION
          <5>1. features \subseteq 1..SCHEMA_VERSION
            BY <1>1, <1>3 DEF HasUpTo
          <5>2. Adds(v) = 1..SCHEMA_VERSION
            BY <3>1 DEF Adds
          <5> QED BY <2>1, <5>1, <5>2
        <4>2. version' = SCHEMA_VERSION /\ daemon'[p].version = SCHEMA_VERSION
          BY <2>1, <2>2, <3>1 DEF After
        <4>3. \A q \in Process : daemon'[q].version <= SCHEMA_VERSION
          BY <1>3, <2>2, <2>3, <4>2
        <4>4. HasUpTo(SCHEMA_VERSION)'
          BY <1>3, <4>1, <4>2, <4>3 DEF HasUpTo
        <4> QED BY <1>3, <4>4
      <3>2. CASE 0 < v /\ v < 4
        <4>1. k = v
          <5>1. v + 1 \notin features
            BY <1>5, <3>2 DEF Clashes, Adds
          <5> QED BY <1>1, <1>2, <1>3, <5>1 DEF HasUpTo
        <4>2. PICK j \in 0..SCHEMA_VERSION : j = v + 1
          BY <1>2, <1>3
        <4>3. features' = 1..j
          BY <1>1, <1>2, <1>3, <2>1, <3>2, <4>1, <4>2 DEF HasUpTo, Adds
        <4>4. version' = j /\ daemon'[p].version = j
          BY <1>2, <2>1, <2>2, <3>2, <4>2 DEF After
        <4>5. \A q \in Process : daemon'[q].version <= j
          BY <1>2, <2>2, <2>3, <4>1, <4>2, <4>4
        <4>6. HasUpTo(j)'
          BY <1>3, <4>3, <4>4, <4>5 DEF HasUpTo
        <4> QED BY <4>6
      <3>3. CASE v >= 4
        <4>1. PICK j \in 0..SCHEMA_VERSION : j = IF k < v + 1 THEN v + 1 ELSE k
          BY <1>2, <1>3
        <4>2. features' = 1..j
          BY <1>1, <1>2, <1>3, <2>1, <3>3, <4>1 DEF HasUpTo, Adds
        <4>3. version' = v + 1 /\ daemon'[p].version = v + 1
          BY <1>2, <2>1, <2>2, <3>3 DEF After
        <4>4. \A q \in Process : daemon'[q].version <= j
          BY <1>2, <1>3, <2>2, <2>3, <4>1, <4>3
        <4>5. version' <= j /\ ~(version' < 4)
          BY <1>2, <1>3, <3>3, <4>1, <4>3
        <4>6. HasUpTo(j)'
          BY <4>2, <4>4, <4>5 DEF HasUpTo
        <4> QED BY <4>6
      <3> QED BY <1>2, <3>1, <3>2, <3>3
    <2>5. ASSUME NEW q \in Process, daemon'[q].pc \in Migrants
          PROVE  features' = 1..SCHEMA_VERSION
      <3>1. features = 1..SCHEMA_VERSION
        BY <2>2, <2>5 DEF SchemaPrefix
      <3>2. Adds(v) \subseteq 1..SCHEMA_VERSION
        BY <1>2, <1>3 DEF Adds
      <3> QED BY <2>1, <3>1, <3>2
    <2> QED BY <2>4, <2>5 DEF SchemaPrefix
  <1> QED BY <1>4, <1>5

LEMMA SchemaIInvInit == HostInit => SchemaIInv
  <1> SUFFICES ASSUME HostInit PROVE SchemaIInv
    OBVIOUS
  <1>1. version \in 0..SCHEMA_VERSION + 1
    BY HostTypeInit DEF HostTypeOK
  <1>2. \A p \in Process : daemon[p] = Off
    BY DEF HostInit
  <1>3. CASE NewerSchema
    <2>1. \A p \in Process : daemon[p].pc \in Beginners
      BY <1>2 DEF Off, Beginners
    <2> QED BY <1>3, <2>1 DEF HostInit, TooNew, SchemaIInv
  <1>4. CASE ~NewerSchema
    <2>1. version \in 0..SCHEMA_VERSION
      BY <1>1, <1>4, HostAssumption DEF NewerSchema
    <2>2. HasUpTo(version)
      BY <1>2, <2>1, HostAssumption DEF HasUpTo, HostInit, Off
    <2>3. \A p \in Process : daemon[p].pc \notin Migrants
      BY <1>2 DEF Off, Migrants, HoldsLock
    <2> QED BY <2>1, <2>2, <2>3 DEF SchemaPrefix, SchemaIInv
  <1> QED BY <1>3, <1>4

\* A database of a newer release stays as it is: every process ends where it
\* reads the version.
LEMMA TooNewNext == HostTypeOK /\ TooNew /\ [HostNext]_hostVars => TooNew'
  <1> SUFFICES ASSUME HostTypeOK, TooNew, [HostNext]_hostVars PROVE TooNew'
    OBVIOUS
  <1>1. CASE UNCHANGED hostVars
    BY <1>1 DEF hostVars, TooNew, NewerSchema
  <1>2. ASSUME NEW p \in Process, HostNext,
               \/ StartService(p) \/ Launch(p) \/ DaemonStep(p)
               \/ RestoreHangs(p) \/ StopDaemon(p) \/ Crash(p)
        PROVE  TooNew'
    <2>1. daemon[p].pc \in Beginners
      BY DEF TooNew
    <2>2. \/ StartService(p) \/ Launch(p) \/ StartUnmanaged(p) \/ LookForDatabase(p)
          \/ CreateDatabase(p) \/ ReadVersion(p) \/ Crash(p)
      BY <1>2, <2>1 DEF DaemonStep, Beginners, MigrateStep, Migrated, RestoreProviders,
         RestoreHangs, LockSocket, InspectSocket, ClearSocket, BindSocket, SecureSocket,
         CloseListener, RemoveSocket, StopDaemon
    <2>3. UNCHANGED <<version, features>>
      BY <2>2 DEF StartService, Launch, StartUnmanaged, LookForDatabase, CreateDatabase,
         ReadVersion, Crash
    <2>4. \/ \E pc \in Beginners : Goes(p, pc)
          \/ daemon' = [daemon EXCEPT ![p] = Off]
      BY <2>2 DEF StartService, Launch, StartUnmanaged, LookForDatabase, CreateDatabase,
         ReadVersion, Crash, TooNew, Exits, Beginners
    <2>5. ASSUME NEW q \in Process PROVE daemon'[q].pc \in Beginners
      <3>1. daemon[q].pc \in Beginners
        BY DEF TooNew
      <3>2. CASE daemon' = [daemon EXCEPT ![p] = Off]
        BY <3>1, <3>2 DEF HostTypeOK, Off, Beginners
      <3>3. ASSUME NEW pc \in Beginners, Goes(p, pc) PROVE daemon'[q].pc \in Beginners
        BY <3>1, <3>3 DEF HostTypeOK, Goes
      <3> QED BY <2>4, <3>2, <3>3
    <2> QED BY <2>3, <2>5 DEF TooNew, NewerSchema
  <1> QED BY <1>1, <1>2 DEF HostNext

LEMMA SchemaPrefixNext == HostTypeOK /\ SchemaPrefix /\ [HostNext]_hostVars => SchemaPrefix'
  <1> SUFFICES ASSUME HostTypeOK, SchemaPrefix, [HostNext]_hostVars PROVE SchemaPrefix'
    OBVIOUS
  <1>1. CASE UNCHANGED hostVars
    BY <1>1 DEF hostVars, SchemaPrefix, HasUpTo
  <1>2. ASSUME NEW p \in Process, MigrateStep(p) PROVE SchemaPrefix'
    BY <1>2, MigrateKeepsSchema
  <1>3. ASSUME NEW p \in Process, Migrated(p) PROVE SchemaPrefix'
    <2>1. PICK k \in 0..SCHEMA_VERSION : HasUpTo(k)
      BY DEF SchemaPrefix
    <2>2. k = SCHEMA_VERSION
      BY <1>3, <2>1, HostAssumption DEF Migrated, HasUpTo
    <2>3. features' = 1..SCHEMA_VERSION
      BY <1>3, <2>1, <2>2 DEF Migrated, HasUpTo
    <2>4. \A q \in Process : daemon'[q].version = daemon[q].version
      BY <1>3 DEF HostTypeOK, Migrated, Goes
    <2>5. HasUpTo(k)'
      BY <1>3, <2>1, <2>4 DEF Migrated, HasUpTo
    <2> QED BY <2>3, <2>5 DEF SchemaPrefix
  <1>4. ASSUME NEW p \in Process, ReadVersion(p) PROVE SchemaPrefix'
    <2>1. PICK k \in 0..SCHEMA_VERSION : HasUpTo(k)
      BY DEF SchemaPrefix
    <2> ~NewerSchema
      BY <2>1, HostAssumption DEF HostTypeOK, HasUpTo, NewerSchema
    <2>2. UNCHANGED <<version, features>>
            /\ daemon' = [daemon EXCEPT ![p] = [pc |-> "migrate", version |-> version]]
      BY <1>4 DEF ReadVersion
    <2>3. \A q \in Process : daemon'[q].version <= k
      BY <2>1, <2>2 DEF HostTypeOK, HasUpTo
    <2>4. HasUpTo(k)'
      BY <2>1, <2>2, <2>3 DEF HasUpTo
    <2>5. \A q \in Process : daemon'[q].pc \in Migrants => daemon[q].pc \in Migrants
      BY <2>2 DEF HostTypeOK, Migrants, HoldsLock
    <2> QED BY <2>2, <2>4, <2>5 DEF SchemaPrefix
  <1>5. ASSUME NEW p \in Process,
               \/ StartService(p) \/ Launch(p) \/ StartUnmanaged(p) \/ LookForDatabase(p)
               \/ RestoreProviders(p) \/ RestoreHangs(p) \/ ClearSocket(p) \/ SecureSocket(p)
               \/ CloseListener(p) \/ StopDaemon(p)
        PROVE  SchemaPrefix'
    <2>1. \E pc : Goes(p, pc) /\ (pc \in Migrants => daemon[p].pc \in Migrants)
      BY <1>5 DEF StartService, Launch, StartUnmanaged, LookForDatabase, RestoreProviders,
         RestoreHangs, ClearSocket, SecureSocket, CloseListener, StopDaemon, Migrants, HoldsLock
    <2>2. UNCHANGED <<version, features>>
      BY <1>5 DEF StartService, Launch, StartUnmanaged, LookForDatabase, RestoreProviders,
         RestoreHangs, ClearSocket, SecureSocket, CloseListener, StopDaemon
    <2> QED BY <2>1, <2>2, GoesKeepsSchema
  <1>6. ASSUME NEW p \in Process,
               CreateDatabase(p) \/ LockSocket(p) \/ InspectSocket(p) \/ BindSocket(p)
        PROVE  SchemaPrefix'
    <2>1. \/ \E pc : Goes(p, pc) /\ (pc \in Migrants => daemon[p].pc \in Migrants)
          \/ daemon' = [daemon EXCEPT ![p] = Off]
      BY <1>6 DEF CreateDatabase, LockSocket, InspectSocket, BindSocket, Exits,
         Migrants, HoldsLock
    <2>2. UNCHANGED <<version, features>>
      BY <1>6 DEF CreateDatabase, LockSocket, InspectSocket, BindSocket
    <2> QED BY <2>1, <2>2, GoesKeepsSchema, LeavesKeepsSchema
  <1>7. ASSUME NEW p \in Process, RemoveSocket(p) \/ Crash(p) PROVE SchemaPrefix'
    <2>1. daemon' = [daemon EXCEPT ![p] = Off] /\ UNCHANGED <<version, features>>
      BY <1>7 DEF RemoveSocket, Crash, Exits
    <2> QED BY <2>1, LeavesKeepsSchema
  <1> QED
    BY <1>1, <1>2, <1>3, <1>4, <1>5, <1>6, <1>7 DEF HostNext, DaemonStep

\* What SchemaSound says follows: the versions up to the recorded one are there,
\* and the next one is not while a step would fail on it.
LEMMA PrefixIsSound == HostTypeOK /\ SchemaIInv => SchemaSound
  <1> SUFFICES ASSUME HostTypeOK, SchemaIInv PROVE SchemaSound
    OBVIOUS
  <1>a. CASE TooNew
    <2>1. ~(version < 4)
      BY <1>a, HostAssumption DEF TooNew, NewerSchema, HostTypeOK
    <2>2. 1..version \subseteq features
      BY <1>a DEF TooNew
    <2>3. \A p \in Process : daemon[p].pc \notin Migrants
      BY <1>a DEF TooNew, Beginners, Migrants, HoldsLock
    <2> QED BY <2>1, <2>2, <2>3 DEF SchemaSound, Migrants
  <1> SUFFICES ASSUME SchemaPrefix PROVE SchemaSound
    BY <1>a DEF SchemaIInv
  <1>1. PICK k \in 0..SCHEMA_VERSION : HasUpTo(k)
    BY DEF SchemaPrefix
  <1>2. version \in Nat /\ k \in Nat /\ version <= k
    BY <1>1, HostAssumption DEF HostTypeOK, HasUpTo
  <1>3. 1..version \subseteq features
    BY <1>1, <1>2 DEF HasUpTo
  <1>4. version < 4 => version + 1 \notin features
    BY <1>1, <1>2 DEF HasUpTo
  <1> QED BY <1>3, <1>4 DEF SchemaPrefix, SchemaSound, Migrants

\* However many processes migrate the database at once, and wherever they die,
\* the schema is never less than its version says, nor more in a way the next
\* migration would fail on; the schema of a newer release is not touched.
THEOREM HostSchemaSound == HostSpec => []SchemaSound
  <1>1. HostInit => HostTypeOK /\ SchemaIInv
    BY HostTypeInit, SchemaIInvInit
  <1>2. (HostTypeOK /\ SchemaIInv) /\ [HostNext]_hostVars => (HostTypeOK /\ SchemaIInv)'
    BY HostTypeNext, SchemaPrefixNext, TooNewNext DEF SchemaIInv
  <1> QED BY <1>1, <1>2, PrefixIsSound, PTL DEF HostSpec

-----------------------------------------------------------------------------
(* The socket                                                              *)

\* A process that ends, or goes on to a stage before or after its own serving,
\* takes the socket from no other.
LEMMA ExitsKeepsSocket ==
    ASSUME NEW p \in Process, HostTypeOK, SocketOwned, Exits(p)
    PROVE  SocketOwned'
  <1>1. daemon'[p].pc = "off"
    BY DEF HostTypeOK, Exits, Off
  <1>2. ASSUME NEW q \in Process, q # p
        PROVE  daemon'[q] = daemon[q] /\ (socketFile.of = q => socketFile' = socketFile)
    BY <1>2 DEF HostTypeOK, Exits
  <1> QED BY <1>1, <1>2 DEF SocketOwned

LEMMA GoesKeepsSocket ==
    ASSUME NEW p \in Process, NEW pc, HostTypeOK, SocketOwned, Goes(p, pc),
           pc \notin {"secure", "serving"}, UNCHANGED socketFile
    PROVE  SocketOwned'
  <1>1. daemon'[p].pc = pc
    BY DEF HostTypeOK, Goes
  <1>2. \A q \in Process : q # p => daemon'[q] = daemon[q]
    BY DEF HostTypeOK, Goes
  <1> QED BY <1>1, <1>2 DEF SocketOwned

\* The process that holds the lock is the only one to have a socket, so that
\* what it does to the file it does to nobody else's.
LEMMA HolderKeepsSocket ==
    ASSUME NEW p \in Process, HostTypeOK, daemon[p].pc \in HoldsLock,
           daemon'[p].pc \notin {"secure", "serving"},
           \A q \in Process : q # p => daemon'[q] = daemon[q]
    PROVE  SocketOwned'
  <1>1. ASSUME NEW q \in Process, q # p PROVE daemon'[q].pc \notin HoldsLock
    BY <1>1 DEF HostTypeOK
  <1> QED BY <1>1 DEF SocketOwned, HoldsLock

LEMMA SocketOwnedNext == HostTypeOK /\ SocketOwned /\ [HostNext]_hostVars => SocketOwned'
  <1> SUFFICES ASSUME HostTypeOK, SocketOwned, [HostNext]_hostVars PROVE SocketOwned'
    OBVIOUS
  <1>1. CASE UNCHANGED hostVars
    BY <1>1 DEF hostVars, SocketOwned
  <1>2. ASSUME NEW p \in Process,
               \/ StartService(p) \/ Launch(p) \/ StartUnmanaged(p) \/ LookForDatabase(p)
               \/ Migrated(p) \/ RestoreProviders(p) \/ RestoreHangs(p) \/ StopDaemon(p)
        PROVE  SocketOwned'
    <2>1. \E pc : Goes(p, pc) /\ pc \notin {"secure", "serving"}
      BY <1>2 DEF StartService, Launch, StartUnmanaged, LookForDatabase, Migrated,
         RestoreProviders, RestoreHangs, StopDaemon
    <2>2. UNCHANGED socketFile
      BY <1>2 DEF StartService, Launch, StartUnmanaged, LookForDatabase, Migrated,
         RestoreProviders, RestoreHangs, StopDaemon
    <2> QED BY <2>1, <2>2, GoesKeepsSocket
  <1>3. ASSUME NEW p \in Process, CreateDatabase(p) \/ LockSocket(p) \/ InspectSocket(p)
        PROVE  SocketOwned'
    <2>1. \/ /\ \E pc : Goes(p, pc) /\ pc \notin {"secure", "serving"}
             /\ UNCHANGED socketFile
          \/ Exits(p)
      BY <1>3 DEF CreateDatabase, LockSocket, InspectSocket
    <2> QED BY <2>1, GoesKeepsSocket, ExitsKeepsSocket
  <1>4. ASSUME NEW p \in Process, ReadVersion(p) PROVE SocketOwned'
    <2> SUFFICES ASSUME ~NewerSchema PROVE SocketOwned'
      BY <1>4, ExitsKeepsSocket DEF ReadVersion
    <2>1. UNCHANGED socketFile
            /\ daemon' = [daemon EXCEPT ![p] = [pc |-> "migrate", version |-> version]]
      BY <1>4 DEF ReadVersion
    <2>2. daemon'[p].pc = "migrate"
      BY <2>1 DEF HostTypeOK
    <2>3. \A q \in Process : q # p => daemon'[q] = daemon[q]
      BY <2>1 DEF HostTypeOK
    <2> QED BY <2>1, <2>2, <2>3 DEF SocketOwned
  <1>5. ASSUME NEW p \in Process, MigrateStep(p) PROVE SocketOwned'
    <2>1. \/ Exits(p)
          \/ /\ UNCHANGED socketFile
             /\ daemon' = [daemon EXCEPT ![p].version = After(daemon[p].version)]
      BY <1>5 DEF MigrateStep
    <2>2. CASE Exits(p)
      BY <2>2, ExitsKeepsSocket
    <2>3. CASE UNCHANGED socketFile
               /\ daemon' = [daemon EXCEPT ![p].version = After(daemon[p].version)]
      <3>1. \A q \in Process : daemon'[q].pc = daemon[q].pc
        BY <2>3 DEF HostTypeOK
      <3> QED BY <2>3, <3>1 DEF SocketOwned
    <2> QED BY <2>1, <2>2, <2>3
  <1>6. ASSUME NEW p \in Process, ClearSocket(p) \/ CloseListener(p) \/ RemoveSocket(p)
        PROVE  SocketOwned'
    <2>1. daemon[p].pc \in HoldsLock /\ daemon'[p].pc \in {"bind", "removing", "off"}
      BY <1>6 DEF ClearSocket, CloseListener, RemoveSocket, Goes, HoldsLock, Off, HostTypeOK
    <2>2. \A q \in Process : q # p => daemon'[q] = daemon[q]
      BY <1>6 DEF ClearSocket, CloseListener, RemoveSocket, Goes, HostTypeOK
    <2> QED BY <2>1, <2>2, HolderKeepsSocket
  <1>7. ASSUME NEW p \in Process, BindSocket(p) PROVE SocketOwned'
    <2>1. CASE Exits(p)
      BY <2>1, ExitsKeepsSocket
    <2>2. CASE /\ socketFile' = [of |-> p, private |-> p \in Managed, listening |-> TRUE]
               /\ Goes(p, "secure")
      <3>1. socketFile'.of = p /\ socketFile'.listening
        BY <2>2
      <3>2. daemon[p].pc \in HoldsLock /\ daemon'[p].pc = "secure"
        BY <1>7, <2>2 DEF BindSocket, Goes, HoldsLock, HostTypeOK
      <3>3. ASSUME NEW q \in Process, q # p PROVE daemon'[q].pc \notin HoldsLock
        BY <2>2, <3>2, <3>3 DEF HostTypeOK, Goes
      <3> QED BY <3>1, <3>2, <3>3 DEF SocketOwned, HoldsLock
    <2> QED BY <1>7, <2>1, <2>2 DEF BindSocket
  <1>8. ASSUME NEW p \in Process, SecureSocket(p) PROVE SocketOwned'
    <2>1. socketFile.of = p /\ socketFile.listening
      BY <1>8 DEF SecureSocket, SocketOwned
    <2>2. socketFile' = [of |-> p, private |-> TRUE, listening |-> TRUE]
      BY <1>8, <2>1 DEF SecureSocket, HostTypeOK
    <2>3. daemon[p].pc \in HoldsLock /\ daemon'[p].pc = "serving"
      BY <1>8 DEF SecureSocket, Goes, HoldsLock, HostTypeOK
    <2>4. ASSUME NEW q \in Process, q # p PROVE daemon'[q].pc \notin HoldsLock
      BY <1>8, <2>3, <2>4 DEF SecureSocket, HostTypeOK, Goes
    <2> QED BY <2>2, <2>3, <2>4 DEF SocketOwned, HoldsLock
  <1>9. ASSUME NEW p \in Process, Crash(p) PROVE SocketOwned'
    BY <1>9, ExitsKeepsSocket DEF Crash
  <1> QED
    BY <1>1, <1>2, <1>3, <1>4, <1>5, <1>6, <1>7, <1>8, <1>9 DEF HostNext, DaemonStep

\* Whoever starts, stops or dies, the path of the socket leads to the process
\* that serves, and only its user may use it.
THEOREM HostPathLeadsToServer == HostSpec => []PathLeadsToServer
  <1>1. HostInit => SocketOwned
    BY DEF HostInit, SocketOwned, Off
  <1>2. HostInit => HostTypeOK /\ SocketOwned
    BY <1>1, HostTypeInit
  <1>3. (HostTypeOK /\ SocketOwned) /\ [HostNext]_hostVars => (HostTypeOK /\ SocketOwned)'
    BY HostTypeNext, SocketOwnedNext
  <1>4. SocketOwned => PathLeadsToServer
    BY DEF SocketOwned, PathLeadsToServer
  <1> QED BY <1>2, <1>3, <1>4, PTL DEF HostSpec

-----------------------------------------------------------------------------
(* The image cache                                                         *)

HIDE DEF NoProcess
USE AvatarAssumption

Fetching == [pc : Busy, url : ImageUrl, lock : Fetcher]

Resting == [pc : {"idle", "answered", "failed", "dropped"}]

FetchTyped ==
    /\ fetch \in [Fetcher -> Resting \cup Fetching]
    /\ keyLocks \in [ImageUrl -> Fetcher \cup {None}]
    /\ lockOwner \in [Fetcher -> Fetcher \cup {None}]

\* A request past the lock holds its own.
HoldsOwn == \A r \in Fetcher : fetch[r].pc \in Holding => lockOwner[fetch[r].lock] = r

\* A request that has a lock, held or awaited, has the one in the table.
InTable == \A r \in Fetcher : fetch[r].pc \in Busy => keyLocks[fetch[r].url] = fetch[r].lock

LockIInv == FetchTyped /\ HoldsOwn /\ InTable

-----------------------------------------------------------------------------
LEMMA BusyIsFetching ==
    ASSUME FetchTyped, NEW r \in Fetcher, fetch[r].pc \in Busy
    PROVE  fetch[r] \in Fetching
  BY DEF FetchTyped, Resting, Busy

\* A request that goes on while it holds its lock.
LEMMA AdvanceKeeps ==
    ASSUME LockIInv, NEW r \in Fetcher, NEW pc \in Holding, fetch[r].pc \in Holding,
           fetch' = [fetch EXCEPT ![r].pc = pc], UNCHANGED <<keyLocks, lockOwner>>
    PROVE  LockIInv'
  <1>1. fetch[r] \in Fetching
    BY BusyIsFetching DEF LockIInv, Holding, Busy
  <1>2. fetch'[r] = [fetch[r] EXCEPT !.pc = pc] /\ \A q \in Fetcher : q # r => fetch'[q] = fetch[q]
    BY DEF LockIInv, FetchTyped
  <1>3. [fetch[r] EXCEPT !.pc = pc] \in Fetching
    BY <1>1 DEF Fetching, Holding, Busy
  <1>4. FetchTyped'
    BY <1>3 DEF LockIInv, FetchTyped
  <1>5. fetch'[r].pc = pc /\ fetch'[r].url = fetch[r].url /\ fetch'[r].lock = fetch[r].lock
    BY <1>1, <1>2 DEF Fetching
  <1>6. HoldsOwn'
    BY <1>2, <1>5 DEF LockIInv, HoldsOwn
  <1>7. InTable'
    BY <1>2, <1>5 DEF LockIInv, InTable, Holding, Busy
  <1> QED BY <1>4, <1>6, <1>7 DEF LockIInv

\* A request that ends gives its lock back; the locks of the others stay.
LEMMA EndsKeeps ==
    ASSUME LockIInv, NEW r \in Fetcher, NEW pc \in {"answered", "failed", "dropped"}, Ends(r, pc),
           UNCHANGED keyLocks
    PROVE  LockIInv'
  <1>1. /\ fetch'[r] = [pc |-> pc]
        /\ \A q \in Fetcher : q # r => fetch'[q] = fetch[q]
    BY DEF LockIInv, FetchTyped, Ends
  <1>2. FetchTyped'
    <2>1. [pc |-> pc] \in Resting
      BY DEF Resting
    <2>2. fetch' \in [Fetcher -> Resting \cup Fetching]
      BY <2>1 DEF LockIInv, FetchTyped, Ends
    <2>3. lockOwner' \in [Fetcher -> Fetcher \cup {None}]
      BY DEF LockIInv, FetchTyped, Ends
    <2> QED BY <2>2, <2>3 DEF LockIInv, FetchTyped
  <1>3. fetch'[r].pc \notin Busy
    BY <1>1 DEF Busy
  <1>4. HoldsOwn'
    <2> SUFFICES ASSUME NEW q \in Fetcher, fetch'[q].pc \in Holding
                 PROVE  lockOwner'[fetch'[q].lock] = q
      BY DEF HoldsOwn
    <2>1. q # r /\ fetch'[q] = fetch[q]
      BY <1>1, <1>3 DEF Holding, Busy
    <2>2. lockOwner[fetch[q].lock] = q
      BY <2>1 DEF LockIInv, HoldsOwn
    <2>3. fetch[q].lock \in Fetcher
      BY <2>1, BusyIsFetching DEF LockIInv, Holding, Busy, Fetching
    <2> QED BY <2>1, <2>2, <2>3 DEF Ends
  <1>5. InTable'
    BY <1>1, <1>3 DEF LockIInv, InTable
  <1> QED BY <1>2, <1>4, <1>5 DEF LockIInv

\* The entries that are dropped refer to locks no request has, so that a lock in
\* use is found again by the next request for its image.
LEMMA GetKeepsTable ==
    ASSUME LockIInv, NEW r \in Fetcher, NEW u \in ImageUrl, GetKeyLock(r, u)
    PROVE  LockIInv'
  <1> DEFINE lock == IF Pruned[u] = None THEN r ELSE Pruned[u]
  <1>1. /\ fetch[r].pc = "idle"
        /\ keyLocks' = [Pruned EXCEPT ![u] = lock]
        /\ fetch' = [fetch EXCEPT ![r] = [pc |-> "lock", url |-> u, lock |-> lock]]
        /\ UNCHANGED lockOwner
    BY DEF GetKeyLock
  <1>2. Pruned \in [ImageUrl -> Fetcher \cup {None}]
    BY DEF LockIInv, FetchTyped, Pruned
  <1>3. lock \in Fetcher
    BY <1>2
  <1>4. /\ fetch'[r] = [pc |-> "lock", url |-> u, lock |-> lock]
        /\ \A q \in Fetcher : q # r => fetch'[q] = fetch[q]
    BY <1>1 DEF LockIInv, FetchTyped
  <1>5. ASSUME NEW q \in Fetcher, fetch[q].pc \in Busy
        PROVE  /\ fetch[q].url \in ImageUrl /\ fetch[q].lock \in Fetcher
               /\ Pruned[fetch[q].url] = fetch[q].lock
    <2>1. fetch[q].url \in ImageUrl /\ fetch[q].lock \in Fetcher
      BY <1>5, BusyIsFetching DEF LockIInv, Fetching
    <2>2. keyLocks[fetch[q].url] = fetch[q].lock
      BY <1>5 DEF LockIInv, InTable
    <2>3. Alive(fetch[q].lock)
      BY <1>5 DEF Alive
    <2> QED BY <2>1, <2>2, <2>3 DEF Pruned
  <1> HIDE DEF lock
  <1>6. FetchTyped'
    <2>1. [pc |-> "lock", url |-> u, lock |-> lock] \in Fetching
      BY <1>3 DEF Fetching, Busy
    <2>2. fetch' \in [Fetcher -> Resting \cup Fetching]
      BY <1>1, <2>1 DEF LockIInv, FetchTyped
    <2>3. keyLocks' \in [ImageUrl -> Fetcher \cup {None}]
      BY <1>1, <1>2, <1>3
    <2> QED BY <1>1, <2>2, <2>3 DEF LockIInv, FetchTyped
  <1>7. HoldsOwn'
    BY <1>1, <1>4 DEF LockIInv, HoldsOwn, Holding
  <1>8. InTable'
    <2> SUFFICES ASSUME NEW q \in Fetcher, fetch'[q].pc \in Busy
                 PROVE  keyLocks'[fetch'[q].url] = fetch'[q].lock
      BY DEF InTable
    <2>1. CASE q = r
      BY <1>1, <1>2, <1>4, <2>1
    <2>2. CASE q # r
      <3>1. fetch'[q] = fetch[q] /\ fetch[q].pc \in Busy
        BY <1>4, <2>2
      <3>2. fetch[q].url = u => lock = fetch[q].lock
        BY <1>5, <3>1 DEF lock
      <3> QED BY <1>1, <1>2, <1>5, <3>1, <3>2
    <2> QED BY <2>1, <2>2
  <1> QED BY <1>6, <1>7, <1>8 DEF LockIInv

\* A lock is taken only from nobody.
LEMMA TakeKeeps ==
    ASSUME LockIInv, NEW r \in Fetcher, TakeKeyLock(r)
    PROVE  LockIInv'
  <1>1. /\ fetch[r].pc = "lock"
        /\ lockOwner[fetch[r].lock] = None
        /\ lockOwner' = [lockOwner EXCEPT ![fetch[r].lock] = r]
        /\ fetch' = [fetch EXCEPT ![r].pc = "slot"]
        /\ UNCHANGED keyLocks
    BY DEF TakeKeyLock
  <1>2. fetch[r] \in Fetching
    BY <1>1, BusyIsFetching DEF LockIInv, Busy
  <1>3. fetch'[r] = [fetch[r] EXCEPT !.pc = "slot"] /\ \A q \in Fetcher : q # r => fetch'[q] = fetch[q]
    BY <1>1 DEF LockIInv, FetchTyped
  <1>4. fetch'[r].pc = "slot" /\ fetch'[r].url = fetch[r].url /\ fetch'[r].lock = fetch[r].lock
    BY <1>2, <1>3 DEF Fetching
  <1>5. FetchTyped'
    <2>1. [fetch[r] EXCEPT !.pc = "slot"] \in Fetching
      BY <1>2 DEF Fetching, Busy
    <2>2. fetch' \in [Fetcher -> Resting \cup Fetching]
      BY <1>1, <2>1 DEF LockIInv, FetchTyped
    <2>3. lockOwner' \in [Fetcher -> Fetcher \cup {None}]
      BY <1>1 DEF LockIInv, FetchTyped
    <2> QED BY <1>1, <2>2, <2>3 DEF LockIInv, FetchTyped
  <1>6. HoldsOwn'
    <2> SUFFICES ASSUME NEW q \in Fetcher, fetch'[q].pc \in Holding
                 PROVE  lockOwner'[fetch'[q].lock] = q
      BY DEF HoldsOwn
    <2>1. CASE q = r
      BY <1>1, <1>2, <1>4, <2>1 DEF LockIInv, FetchTyped, Fetching
    <2>2. CASE q # r
      <3>1. fetch'[q] = fetch[q]
        BY <1>3, <2>2
      <3>2. lockOwner[fetch[q].lock] = q
        BY <3>1 DEF LockIInv, HoldsOwn
      <3>3. fetch[q].lock # fetch[r].lock
        BY <1>1, <3>2
      <3>4. fetch[q].lock \in Fetcher
        BY <3>1, BusyIsFetching DEF LockIInv, Holding, Busy, Fetching
      <3> QED BY <1>1, <3>1, <3>2, <3>3, <3>4 DEF LockIInv, FetchTyped
    <2> QED BY <2>1, <2>2
  <1>7. InTable'
    BY <1>1, <1>3, <1>4 DEF LockIInv, InTable, Busy
  <1> QED BY <1>5, <1>6, <1>7 DEF LockIInv

LEMMA LockInit == AvatarInit => LockIInv
  <1> SUFFICES ASSUME AvatarInit PROVE LockIInv
    OBVIOUS
  <1>1. \A r \in Fetcher : fetch[r].pc = "idle"
    BY DEF AvatarInit
  <1>2. FetchTyped
    <2>1. [pc |-> "idle"] \in Resting
      BY DEF Resting
    <2> QED BY <2>1 DEF AvatarInit, FetchTyped
  <1> QED BY <1>1, <1>2 DEF LockIInv, HoldsOwn, InTable, Holding, Busy

LEMMA LockNext == LockIInv /\ [AvatarNext]_avatarVars => LockIInv'
  <1> SUFFICES ASSUME LockIInv, [AvatarNext]_avatarVars PROVE LockIInv'
    OBVIOUS
  <1>1. ASSUME UNCHANGED <<fetch, keyLocks, lockOwner>> PROVE LockIInv'
    BY <1>1 DEF LockIInv, FetchTyped, HoldsOwn, InTable
  <1>2. CASE UNCHANGED avatarVars
    BY <1>1, <1>2 DEF avatarVars
  <1>3. ASSUME NEW r \in Fetcher, NEW u \in ImageUrl, GetKeyLock(r, u) PROVE LockIInv'
    BY <1>3, GetKeepsTable
  <1>4. ASSUME NEW r \in Fetcher, TakeKeyLock(r) PROVE LockIInv'
    BY <1>4, TakeKeeps
  <1>5. ASSUME NEW r \in Fetcher, TakeSlot(r) PROVE LockIInv'
    BY <1>5, AdvanceKeeps DEF TakeSlot, Holding
  <1>6. ASSUME NEW r \in Fetcher, ReadCache(r) PROVE LockIInv'
    BY <1>6, AdvanceKeeps, EndsKeeps DEF ReadCache, Holding
  <1>7. ASSUME NEW r \in Fetcher, Download(r) PROVE LockIInv'
    BY <1>7, AdvanceKeeps DEF Download, Holding
  <1>8. ASSUME NEW r \in Fetcher, DownloadFails(r) \/ AbortFetch(r) PROVE LockIInv'
    BY <1>8, EndsKeeps DEF DownloadFails, AbortFetch
  <1>9. ASSUME NEW r \in Fetcher, WriteTemporary(r) PROVE LockIInv'
    BY <1>1, <1>9 DEF WriteTemporary
  <1>10. ASSUME NEW r \in Fetcher, RenameTemporary(r) \/ WriteFails(r) PROVE LockIInv'
    <2>1. UNCHANGED keyLocks
      BY <1>10 DEF RenameTemporary, WriteFails
    <2>2. \E pc \in {"answered", "failed"} : Ends(r, pc) \/ UNCHANGED <<fetch, lockOwner>>
      BY <1>10 DEF RenameTemporary, WriteFails, ThreadEnds
    <2> QED BY <1>1, <2>1, <2>2, EndsKeeps
  <1>11. ASSUME NEW u \in ImageUrl, GrowOld(u) PROVE LockIInv'
    BY <1>1, <1>11 DEF GrowOld
  <1>12. CASE CrashFetches
    <2>1. \A r \in Fetcher : fetch'[r].pc \notin Busy
      BY <1>12 DEF CrashFetches, Busy
    <2>2. FetchTyped'
      <3>1. [pc |-> "dropped"] \in Resting
        BY DEF Resting
      <3>2. fetch' \in [Fetcher -> Resting \cup Fetching]
        BY <1>12, <3>1 DEF CrashFetches, LockIInv, FetchTyped
      <3> QED BY <1>12, <3>2 DEF CrashFetches, FetchTyped
    <2> QED BY <2>1, <2>2 DEF LockIInv, HoldsOwn, InTable, Holding, Busy
  <1> QED
    BY <1>2, <1>3, <1>4, <1>5, <1>6, <1>7, <1>8, <1>9, <1>10, <1>11, <1>12
    DEF AvatarNext, FetchStep

\* No image is downloaded by two requests at once, although the table forgets a
\* lock as soon as no request has it.
THEOREM AvatarOneDownload == AvatarSpec => []OneDownload
  <1>1. LockIInv => OneDownload
    <2> SUFFICES ASSUME LockIInv, NEW r \in Fetcher, NEW q \in Fetcher,
                        {fetch[r].pc, fetch[q].pc} \subseteq InSlot,
                        fetch[r].url = fetch[q].url
                 PROVE  r = q
      BY DEF OneDownload, InSlot
    <2>1. fetch[r].lock = fetch[q].lock
      BY DEF LockIInv, InTable, InSlot, Busy
    <2>2. lockOwner[fetch[r].lock] = r /\ lockOwner[fetch[q].lock] = q
      BY DEF LockIInv, HoldsOwn, InSlot, Holding
    <2> QED BY <2>1, <2>2
  <1> QED BY <1>1, LockInit, LockNext, PTL DEF AvatarSpec

-----------------------------------------------------------------------------
(* Locks, slots and files                                                  *)

\* A lock has an owner exactly as long as that request is past it.
OwnersHold ==
    \A r \in Fetcher : fetch[r].pc \in Holding <=> \E k \in Fetcher : lockOwner[k] = r

SlotTakers == {r \in Fetcher : fetch[r].pc \in InSlot}

\* The slots taken and the free ones are all there are.
SlotsAdd ==
    /\ IsFiniteSet(SlotTakers)
    /\ slots = MAX_CONCURRENT_AVATAR_FETCHES - Cardinality(SlotTakers)
    /\ slots >= 0

File == [of : ImageUrl \cup {None}, text : {"partial", "whole"}, running : BOOLEAN]

FilesTyped ==
    /\ cache \in [ImageUrl -> {"none", "fresh", "stale", "partial"}]
    /\ temporary \in [Fetcher -> File]
    /\ avatarFaults \in 0..MaxAvatarFaults

AvatarIInv == LockIInv /\ OwnersHold /\ SlotsAdd /\ FilesTyped /\ CacheWhole

\* A request goes on with its lock, and with its slot if it has one.
LEMMA AdvanceAdds ==
    ASSUME LockIInv, OwnersHold, SlotsAdd, NEW r \in Fetcher, NEW pc \in Holding,
           fetch[r].pc \in Holding, pc \in InSlot <=> fetch[r].pc \in InSlot,
           fetch' = [fetch EXCEPT ![r].pc = pc], UNCHANGED <<lockOwner, slots>>
    PROVE  OwnersHold' /\ SlotsAdd'
  <1>1. fetch[r] \in Fetching
    BY BusyIsFetching DEF LockIInv, Holding, Busy
  <1>2. fetch'[r] = [fetch[r] EXCEPT !.pc = pc] /\ \A q \in Fetcher : q # r => fetch'[q] = fetch[q]
    BY DEF LockIInv, FetchTyped
  <1>3. fetch'[r].pc = pc
    BY <1>1, <1>2 DEF Fetching
  <1>4. SlotTakers' = SlotTakers
    BY <1>2, <1>3 DEF SlotTakers
  <1>5. OwnersHold'
    BY <1>2, <1>3 DEF OwnersHold
  <1> QED BY <1>4, <1>5 DEF SlotsAdd

\* A lock and a slot that were not held are taken by one request.
LEMMA TakeAdds ==
    ASSUME LockIInv, OwnersHold, SlotsAdd, NEW r \in Fetcher, TakeKeyLock(r) \/ TakeSlot(r)
    PROVE  OwnersHold' /\ SlotsAdd'
  <1>1. fetch[r].pc \in {"lock", "slot"} /\ fetch[r] \in Fetching
    BY BusyIsFetching DEF TakeKeyLock, TakeSlot, LockIInv, Busy
  <1>2. CASE TakeKeyLock(r)
    <2>1. /\ fetch[r].pc = "lock" /\ lockOwner[fetch[r].lock] = None
          /\ lockOwner' = [lockOwner EXCEPT ![fetch[r].lock] = r]
          /\ fetch' = [fetch EXCEPT ![r].pc = "slot"] /\ UNCHANGED slots
      BY <1>2 DEF TakeKeyLock
    <2>2. fetch'[r] = [fetch[r] EXCEPT !.pc = "slot"]
          /\ \A q \in Fetcher : q # r => fetch'[q] = fetch[q]
      BY <2>1 DEF LockIInv, FetchTyped
    <2>3. fetch'[r].pc = "slot" /\ fetch[r].lock \in Fetcher
      BY <1>1, <2>2 DEF Fetching
    <2>4. /\ lockOwner'[fetch[r].lock] = r
          /\ \A k \in Fetcher : k # fetch[r].lock => lockOwner'[k] = lockOwner[k]
      BY <2>1, <2>3 DEF LockIInv, FetchTyped
    <2>5. OwnersHold'
      <3> SUFFICES ASSUME NEW q \in Fetcher
                   PROVE  fetch'[q].pc \in Holding <=> \E k \in Fetcher : lockOwner'[k] = q
        BY DEF OwnersHold
      <3>1. CASE q = r
        BY <2>3, <2>4, <3>1 DEF Holding
      <3>2. CASE q # r
        <4>1. \A k \in Fetcher : lockOwner'[k] = q <=> lockOwner[k] = q
          BY <2>1, <2>4, <3>2
        <4> QED BY <2>2, <3>2, <4>1 DEF OwnersHold
      <3> QED BY <3>1, <3>2
    <2>6. SlotTakers' = SlotTakers
      BY <2>1, <2>2, <2>3 DEF SlotTakers, InSlot
    <2> QED BY <2>1, <2>5, <2>6 DEF SlotsAdd
  <1>3. CASE TakeSlot(r)
    <2>1. /\ fetch[r].pc = "slot" /\ slots > 0 /\ slots' = slots - 1 /\ UNCHANGED lockOwner
          /\ fetch' = [fetch EXCEPT ![r].pc = "read"]
      BY <1>3 DEF TakeSlot
    <2>2. fetch'[r] = [fetch[r] EXCEPT !.pc = "read"]
          /\ \A q \in Fetcher : q # r => fetch'[q] = fetch[q]
      BY <2>1 DEF LockIInv, FetchTyped
    <2>3. fetch'[r].pc = "read"
      BY <1>1, <2>2 DEF Fetching
    <2>4. OwnersHold'
      BY <2>1, <2>2, <2>3 DEF OwnersHold, Holding
    <2>5. SlotTakers' = SlotTakers \cup {r} /\ r \notin SlotTakers
      BY <2>1, <2>2, <2>3 DEF SlotTakers, InSlot
    <2>6. IsFiniteSet(SlotTakers') /\ Cardinality(SlotTakers') = Cardinality(SlotTakers) + 1
      BY <2>5, FS_AddElement DEF SlotsAdd
    <2>7. Cardinality(SlotTakers) \in Nat
      BY FS_CardinalityType DEF SlotsAdd
    <2> QED BY <2>1, <2>4, <2>6, <2>7 DEF SlotsAdd
  <1> QED BY <1>2, <1>3

\* A request that ends gives back what it has, and only that.
LEMMA EndsAdds ==
    ASSUME LockIInv, OwnersHold, SlotsAdd, NEW r \in Fetcher,
           NEW pc \in {"answered", "failed", "dropped"}, Ends(r, pc)
    PROVE  OwnersHold' /\ SlotsAdd'
  <1>1. /\ fetch'[r] = [pc |-> pc]
        /\ \A q \in Fetcher : q # r => fetch'[q] = fetch[q]
    BY DEF LockIInv, FetchTyped, Ends
  <1>2. fetch'[r].pc \notin Holding /\ fetch'[r].pc \notin InSlot
    BY <1>1 DEF Holding, InSlot
  <1>3. \A k \in Fetcher : lockOwner'[k] = IF lockOwner[k] = r THEN None ELSE lockOwner[k]
    BY DEF Ends
  <1>4. OwnersHold'
    <2> SUFFICES ASSUME NEW q \in Fetcher
                 PROVE  fetch'[q].pc \in Holding <=> \E k \in Fetcher : lockOwner'[k] = q
      BY DEF OwnersHold
    <2>1. CASE q = r
      BY <1>2, <1>3, <2>1
    <2>2. CASE q # r
      <3>1. \A k \in Fetcher : lockOwner'[k] = q <=> lockOwner[k] = q
        BY <1>3, <2>2
      <3> QED BY <1>1, <2>2, <3>1 DEF OwnersHold
    <2> QED BY <2>1, <2>2
  <1>5. SlotTakers' = SlotTakers \ {r}
    BY <1>1, <1>2 DEF SlotTakers
  <1>6. Cardinality(SlotTakers) \in Nat
    BY FS_CardinalityType DEF SlotsAdd
  <1>7. SlotsAdd'
    <2>1. CASE fetch[r].pc \in InSlot
      <3>1. slots' = slots + 1
        BY <2>1 DEF Ends
      <3>2. r \in SlotTakers
        BY <2>1 DEF SlotTakers
      <3>3. IsFiniteSet(SlotTakers') /\ Cardinality(SlotTakers') = Cardinality(SlotTakers) - 1
        BY <1>5, <3>2, FS_RemoveElement DEF SlotsAdd
      <3> QED BY <1>6, <3>1, <3>3 DEF SlotsAdd
    <2>2. CASE fetch[r].pc \notin InSlot
      <3>1. slots' = slots /\ SlotTakers' = SlotTakers
        BY <1>5, <2>2 DEF Ends, SlotTakers
      <3> QED BY <3>1 DEF SlotsAdd
    <2> QED BY <2>1, <2>2
  <1> QED BY <1>4, <1>7

LEMMA ImageFaultCounted ==
    ASSUME FilesTyped, AvatarFault
    PROVE  avatarFaults' \in 0..MaxAvatarFaults
  BY DEF FilesTyped, AvatarFault

\* The files: what a thread writes in place is its own, what it renames is whole.
LEMMA FilesKept ==
    ASSUME LockIInv, FilesTyped, CacheWhole, AvatarNext
    PROVE  FilesTyped' /\ CacheWhole'
  <1>1. NoFile \in File
    BY DEF NoFile, File
  <1>2. ASSUME UNCHANGED <<cache, temporary>>, AvatarFault \/ UNCHANGED avatarFaults
        PROVE  FilesTyped' /\ CacheWhole'
    BY <1>2, ImageFaultCounted DEF FilesTyped, CacheWhole
  <1>3. ASSUME NEW r \in Fetcher, NEW u \in ImageUrl, GetKeyLock(r, u)
        PROVE  FilesTyped' /\ CacheWhole'
    BY <1>2, <1>3 DEF GetKeyLock
  <1>4. ASSUME NEW r \in Fetcher,
               TakeKeyLock(r) \/ TakeSlot(r) \/ ReadCache(r) \/ DownloadFails(r) \/ AbortFetch(r)
        PROVE  FilesTyped' /\ CacheWhole'
    BY <1>2, <1>4 DEF TakeKeyLock, TakeSlot, ReadCache, DownloadFails, AbortFetch
  <1>5. ASSUME NEW r \in Fetcher, Download(r) PROVE FilesTyped' /\ CacheWhole'
    <2>1. fetch[r] \in Fetching
      BY <1>5, BusyIsFetching DEF LockIInv, Download, Busy
    <2>2. [of |-> fetch[r].url, text |-> "partial", running |-> TRUE] \in File
      BY <2>1 DEF Fetching, File
    <2> QED BY <1>5, <2>2 DEF Download, FilesTyped, CacheWhole
  <1>6. ASSUME NEW r \in Fetcher, WriteTemporary(r) PROVE FilesTyped' /\ CacheWhole'
    <2>1. [temporary[r] EXCEPT !.text = "whole"] \in File
      BY DEF FilesTyped, File
    <2> QED BY <1>6, <2>1 DEF WriteTemporary, FilesTyped, CacheWhole
  <1>7. ASSUME NEW r \in Fetcher, RenameTemporary(r) PROVE FilesTyped' /\ CacheWhole'
    BY <1>1, <1>7 DEF RenameTemporary, ThreadEnds, FilesTyped, CacheWhole
  <1>8. ASSUME NEW r \in Fetcher, WriteFails(r) PROVE FilesTyped' /\ CacheWhole'
    BY <1>1, <1>8, ImageFaultCounted DEF WriteFails, ThreadEnds, FilesTyped, CacheWhole
  <1>9. ASSUME NEW u \in ImageUrl, GrowOld(u) PROVE FilesTyped' /\ CacheWhole'
    BY <1>9, ImageFaultCounted DEF GrowOld, FilesTyped, CacheWhole
  <1>10. CASE CrashFetches
    <2>1. \A r \in Fetcher : [temporary[r] EXCEPT !.running = FALSE] \in File
      BY DEF FilesTyped, File
    <2> QED BY <1>10, <2>1, ImageFaultCounted DEF CrashFetches, FilesTyped, CacheWhole
  <1> QED
    BY <1>3, <1>4, <1>5, <1>6, <1>7, <1>8, <1>9, <1>10 DEF AvatarNext, FetchStep

LEMMA SlotsKept ==
    ASSUME LockIInv, OwnersHold, SlotsAdd, AvatarNext
    PROVE  OwnersHold' /\ SlotsAdd'
  <1>1. ASSUME UNCHANGED <<fetch, lockOwner, slots>> PROVE OwnersHold' /\ SlotsAdd'
    BY <1>1 DEF OwnersHold, SlotsAdd, SlotTakers
  <1>2. ASSUME NEW r \in Fetcher, NEW u \in ImageUrl, GetKeyLock(r, u)
        PROVE  OwnersHold' /\ SlotsAdd'
    <2>1. /\ fetch[r].pc = "idle" /\ fetch'[r].pc = "lock"
          /\ \A q \in Fetcher : q # r => fetch'[q] = fetch[q]
          /\ UNCHANGED <<lockOwner, slots>>
      BY <1>2 DEF GetKeyLock, LockIInv, FetchTyped
    <2>2. SlotTakers' = SlotTakers
      BY <2>1 DEF SlotTakers, InSlot
    <2> QED BY <2>1, <2>2 DEF OwnersHold, Holding, SlotsAdd
  <1>3. ASSUME NEW r \in Fetcher, TakeKeyLock(r) \/ TakeSlot(r) PROVE OwnersHold' /\ SlotsAdd'
    BY <1>3, TakeAdds
  <1>4. ASSUME NEW r \in Fetcher, ReadCache(r) PROVE OwnersHold' /\ SlotsAdd'
    BY <1>4, EndsAdds, AdvanceAdds DEF ReadCache, Holding, InSlot
  <1>5. ASSUME NEW r \in Fetcher, Download(r) PROVE OwnersHold' /\ SlotsAdd'
    BY <1>5, AdvanceAdds DEF Download, Holding, InSlot
  <1>6. ASSUME NEW r \in Fetcher, DownloadFails(r) \/ AbortFetch(r) PROVE OwnersHold' /\ SlotsAdd'
    BY <1>6, EndsAdds DEF DownloadFails, AbortFetch
  <1>7. ASSUME NEW r \in Fetcher, RenameTemporary(r) \/ WriteFails(r)
        PROVE  OwnersHold' /\ SlotsAdd'
    <2>1. \/ \E pc \in {"answered", "failed"} : Ends(r, pc)
          \/ UNCHANGED <<fetch, lockOwner, slots>>
      BY <1>7 DEF RenameTemporary, WriteFails, ThreadEnds
    <2> QED BY <1>1, <2>1, EndsAdds
  <1>8. ASSUME NEW r \in Fetcher, WriteTemporary(r) PROVE OwnersHold' /\ SlotsAdd'
    BY <1>1, <1>8 DEF WriteTemporary
  <1>9. ASSUME NEW u \in ImageUrl, GrowOld(u) PROVE OwnersHold' /\ SlotsAdd'
    BY <1>1, <1>9 DEF GrowOld
  <1>10. CASE CrashFetches
    <2>1. /\ \A r \in Fetcher : fetch'[r].pc \notin Busy
          /\ \A k \in Fetcher : lockOwner'[k] = None
          /\ slots' = MAX_CONCURRENT_AVATAR_FETCHES
      BY <1>10 DEF CrashFetches, Busy
    <2>2. SlotTakers' = {}
      BY <2>1 DEF SlotTakers, InSlot, Busy
    <2> QED BY <2>1, <2>2, FS_EmptySet DEF OwnersHold, Holding, Busy, SlotsAdd
  <1> QED
    BY <1>2, <1>3, <1>4, <1>5, <1>6, <1>7, <1>8, <1>9, <1>10 DEF AvatarNext, FetchStep

LEMMA AvatarStart == AvatarInit => AvatarIInv
  <1> SUFFICES ASSUME AvatarInit PROVE AvatarIInv
    OBVIOUS
  <1>1. \A r \in Fetcher : fetch[r].pc = "idle" /\ lockOwner[r] = None
    BY DEF AvatarInit
  <1>2. SlotTakers = {}
    BY <1>1 DEF SlotTakers, InSlot
  <1>3. OwnersHold /\ SlotsAdd
    BY <1>1, <1>2, FS_EmptySet DEF AvatarInit, OwnersHold, Holding, SlotsAdd
  <1>4. FilesTyped /\ CacheWhole
    BY DEF AvatarInit, FilesTyped, CacheWhole, NoFile, File
  <1> QED BY <1>3, <1>4, LockInit DEF AvatarIInv

LEMMA AvatarKeeps == AvatarIInv /\ [AvatarNext]_avatarVars => AvatarIInv'
  <1> SUFFICES ASSUME AvatarIInv, [AvatarNext]_avatarVars PROVE AvatarIInv'
    OBVIOUS
  <1>1. CASE AvatarNext
    BY <1>1, LockNext, SlotsKept, FilesKept DEF AvatarIInv
  <1>2. CASE UNCHANGED avatarVars
    BY <1>2, LockNext DEF avatarVars, AvatarIInv, OwnersHold, SlotsAdd, SlotTakers, FilesTyped, CacheWhole
  <1> QED BY <1>1, <1>2

\* Locks and slots are accounted for (avatar_fetch_slots, avatar_key_lock): a lock
\* is held by the request that is past it, and no more images are downloaded at a
\* time than there are slots, also when requests are dropped half way.
THEOREM AvatarTypeCorrect == AvatarSpec => []AvatarTypeOK
  <1>1. AvatarIInv => AvatarTypeOK
    BY DEF AvatarIInv, LockIInv, FetchTyped, OwnersHold, SlotsAdd, SlotTakers, FilesTyped, File,
       AvatarTypeOK, Resting, Fetching
  <1> QED BY <1>1, AvatarStart, AvatarKeeps, PTL DEF AvatarSpec

\* The cache never has half a file (write_avatar_cache): it is renamed into place
\* once it is written, by a thread that outlives its request.
THEOREM AvatarCacheWhole == AvatarSpec => []CacheWhole
  <1>1. AvatarIInv => CacheWhole
    BY DEF AvatarIInv
  <1> QED BY <1>1, AvatarStart, AvatarKeeps, PTL DEF AvatarSpec


-----------------------------------------------------------------------------
(* Nobody waits in a circle                                                *)

\* A request that waits for its file has a thread that writes it.
ThreadsWrite == \A r \in Fetcher : fetch[r].pc = "write" => temporary[r].running

\* What keeps a request from its next step: its lock, then a slot, then its thread.
GoesOn(r) ==
    \/ fetch[r].pc = "lock" /\ lockOwner[fetch[r].lock] = None
    \/ fetch[r].pc = "slot" /\ slots > 0
    \/ fetch[r].pc \in {"read", "download"}
    \/ fetch[r].pc = "write" /\ temporary[r].running

\* As long as a request is under way, one of them has what it waits for: slots
\* are taken behind locks, and nobody with a slot waits for another request.
SomeFetchGoesOn == (\E r \in Fetcher : fetch[r].pc \in Busy) => \E r \in Fetcher : GoesOn(r)

LEMMA ThreadsKept == AvatarIInv /\ ThreadsWrite /\ [AvatarNext]_avatarVars => ThreadsWrite'
  <1> SUFFICES ASSUME AvatarIInv, ThreadsWrite, [AvatarNext]_avatarVars
               PROVE  ThreadsWrite'
    OBVIOUS
  <1>0. /\ fetch = [q \in Fetcher |-> fetch[q]] /\ temporary \in [Fetcher -> File]
        /\ \A r \in Fetcher : fetch[r].pc \in Busy => fetch[r] \in Fetching
    BY BusyIsFetching DEF AvatarIInv, LockIInv, FetchTyped, FilesTyped
  <1>1. ASSUME NEW r \in Fetcher, temporary' = temporary,
               \A q \in Fetcher : q # r => fetch'[q] = fetch[q], fetch'[r].pc # "write"
        PROVE  ThreadsWrite'
    BY <1>1 DEF ThreadsWrite
  <1>2. ASSUME NEW r \in Fetcher, NEW pc \in {"answered", "failed", "dropped"}, Ends(r, pc)
        PROVE  fetch'[r].pc # "write" /\ \A q \in Fetcher : q # r => fetch'[q] = fetch[q]
    <2>1. fetch'[r] = [pc |-> pc] /\ \A q \in Fetcher : q # r => fetch'[q] = fetch[q]
      BY <1>0, <1>2 DEF Ends
    <2> QED BY <2>1
  <1>3. ASSUME NEW r \in Fetcher, NEW pc \in {"slot", "read", "download"},
               fetch[r].pc \in Busy, fetch' = [fetch EXCEPT ![r].pc = pc],
               temporary' = temporary
        PROVE  ThreadsWrite'
    <2>1. /\ fetch'[r] = [fetch[r] EXCEPT !.pc = pc] /\ fetch[r] \in Fetching
          /\ \A q \in Fetcher : q # r => fetch'[q] = fetch[q]
      BY <1>0, <1>3
    <2>2. fetch'[r].pc = pc
      BY <2>1 DEF Fetching
    <2> QED BY <1>1, <1>3, <2>1, <2>2
  <1>4. ASSUME NEW r \in Fetcher, NEW u \in ImageUrl, GetKeyLock(r, u)
        PROVE  ThreadsWrite'
    <2>1. /\ fetch'[r].pc = "lock" /\ temporary' = temporary
          /\ \A q \in Fetcher : q # r => fetch'[q] = fetch[q]
      BY <1>0, <1>4 DEF GetKeyLock
    <2> QED BY <1>1, <2>1
  <1>5. ASSUME NEW r \in Fetcher, TakeKeyLock(r) \/ TakeSlot(r)
        PROVE  ThreadsWrite'
    BY <1>3, <1>5 DEF TakeKeyLock, TakeSlot, Busy
  <1>6. ASSUME NEW r \in Fetcher, ReadCache(r)
        PROVE  ThreadsWrite'
    <2>1. fetch[r].pc \in Busy /\ temporary' = temporary
      BY <1>6 DEF ReadCache, Busy
    <2>2. CASE Ends(r, "answered")
      BY <1>1, <1>2, <2>1, <2>2
    <2>3. CASE fetch' = [fetch EXCEPT ![r].pc = "download"]
      BY <1>3, <2>1, <2>3
    <2> QED BY <1>6, <2>2, <2>3 DEF ReadCache
  <1>7. ASSUME NEW r \in Fetcher, DownloadFails(r) \/ AbortFetch(r)
        PROVE  ThreadsWrite'
    BY <1>1, <1>2, <1>7 DEF DownloadFails, AbortFetch
  <1>8. ASSUME NEW r \in Fetcher, Download(r)
        PROVE  ThreadsWrite'
    <2>1. /\ \A q \in Fetcher : q # r => fetch'[q] = fetch[q] /\ temporary'[q] = temporary[q]
          /\ temporary'[r].running
      BY <1>0, <1>8 DEF Download
    <2> QED BY <2>1 DEF ThreadsWrite
  <1>9. ASSUME NEW r \in Fetcher, WriteTemporary(r)
        PROVE  ThreadsWrite'
    <2>1. \A q \in Fetcher : temporary'[q].running = temporary[q].running /\ fetch'[q] = fetch[q]
      BY <1>0, <1>9 DEF WriteTemporary, File
    <2> QED BY <2>1 DEF ThreadsWrite
  <1>10. ASSUME NEW r \in Fetcher, NEW pc \in {"answered", "failed"}, ThreadEnds(r, pc)
         PROVE  ThreadsWrite'
    <2>1. /\ \A q \in Fetcher : q # r => fetch'[q] = fetch[q] /\ temporary'[q] = temporary[q]
          /\ fetch'[r].pc # "write"
      <3>1. \A q \in Fetcher : q # r => temporary'[q] = temporary[q]
        BY <1>0, <1>10 DEF ThreadEnds
      <3>2. CASE fetch[r].pc = "write"
        BY <1>2, <1>10, <3>1, <3>2 DEF ThreadEnds
      <3>3. CASE fetch[r].pc # "write"
        BY <1>10, <3>1, <3>3 DEF ThreadEnds
      <3> QED BY <3>2, <3>3
    <2> QED BY <2>1 DEF ThreadsWrite
  <1>11. ASSUME NEW u \in ImageUrl, GrowOld(u)
         PROVE  ThreadsWrite'
    BY <1>11 DEF GrowOld, ThreadsWrite
  <1>12. CASE CrashFetches
    <2>1. \A r \in Fetcher : fetch'[r].pc # "write"
      BY <1>12 DEF CrashFetches, Busy
    <2> QED BY <2>1 DEF ThreadsWrite
  <1>13. CASE UNCHANGED avatarVars
    BY <1>13 DEF avatarVars, ThreadsWrite
  <1> QED
    BY <1>4, <1>5, <1>6, <1>7, <1>8, <1>9, <1>10, <1>11, <1>12, <1>13
       DEF AvatarNext, FetchStep, RenameTemporary, WriteFails

LEMMA CircleBroken == AvatarIInv /\ ThreadsWrite => SomeFetchGoesOn
  <1> SUFFICES ASSUME AvatarIInv, ThreadsWrite, NEW r \in Fetcher, fetch[r].pc \in Busy
               PROVE  \E q \in Fetcher : GoesOn(q)
    BY DEF SomeFetchGoesOn
  <1>1. ASSUME NEW q \in Fetcher, fetch[q].pc \in InSlot
        PROVE  GoesOn(q)
    BY <1>1 DEF InSlot, GoesOn, ThreadsWrite
  <1>2. ASSUME NEW q \in Fetcher, fetch[q].pc = "slot"
        PROVE  \E p \in Fetcher : GoesOn(p)
    <2>1. CASE slots > 0
      BY <1>2, <2>1 DEF GoesOn
    <2>2. CASE ~(slots > 0)
      <3>1. /\ IsFiniteSet(SlotTakers) /\ Cardinality(SlotTakers) \in Nat
            /\ slots = MAX_CONCURRENT_AVATAR_FETCHES - Cardinality(SlotTakers) /\ slots >= 0
        BY FS_CardinalityType DEF AvatarIInv, SlotsAdd
      <3>2. Cardinality(SlotTakers) # 0
        BY <2>2, <3>1
      <3>3. PICK p : p \in SlotTakers
        BY <3>2, FS_EmptySet
      <3> QED BY <1>1, <3>3 DEF SlotTakers
    <2> QED BY <2>1, <2>2
  <1>3. CASE fetch[r].pc = "lock"
    <2>1. fetch[r].lock \in Fetcher
      BY BusyIsFetching DEF AvatarIInv, LockIInv, Fetching
    <2>2. CASE lockOwner[fetch[r].lock] = None
      BY <1>3, <2>2 DEF GoesOn
    <2>3. CASE lockOwner[fetch[r].lock] # None
      <3> DEFINE q == lockOwner[fetch[r].lock]
      <3>1. q \in Fetcher /\ fetch[q].pc \in Holding
        BY <2>1, <2>3 DEF AvatarIInv, LockIInv, FetchTyped, OwnersHold
      <3> HIDE DEF q
      <3> QED BY <1>1, <1>2, <3>1 DEF Holding, InSlot
    <2> QED BY <2>2, <2>3
  <1> QED BY <1>1, <1>2, <1>3 DEF Busy, InSlot

\* The safety half of every avatar.fetch being answered: the locks of the images
\* and the slots are never awaited in a circle, whatever fails or is dropped, and
\* a request that waits for its file has a thread that writes it.
THEOREM AvatarNeverStuck == AvatarSpec => []SomeFetchGoesOn
  <1>1. AvatarInit => ThreadsWrite
    BY DEF AvatarInit, ThreadsWrite
  <1> QED BY <1>1, AvatarStart, AvatarKeeps, ThreadsKept, CircleBroken, PTL DEF AvatarSpec

=============================================================================
