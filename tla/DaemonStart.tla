---------------------------- MODULE DaemonStart ----------------------------
(***************************************************************************)
(* Starting, stopping and crashing quickmaild processes on one database    *)
(* and one socket.                                                         *)
(*                                                                         *)
(* A process opens the database, which it refuses when a newer release     *)
(* wrote it, migrates its schema step by step, restores the providers, and *)
(* only then takes the lock of the socket, clears a socket nobody listens  *)
(* on, binds its own and serves.  The service manager starts one process   *)
(* and starts it again when it fails; the launcher starts others when it   *)
(* finds no daemon answering, so that several may be on their way at once. *)
(***************************************************************************)
EXTENDS Integers, FiniteSets

CONSTANTS
    Process,        \* daemon processes, one life after another
    Managed,        \* those of the service manager, whose umask is 0077
    SCHEMA_VERSION,
    MaxHostFaults   \* bound: crashes, errors, stops

NoProcess == "none"

ASSUME HostAssumption ==
    /\ NoProcess \notin Process
    /\ Managed \subseteq Process
    /\ SCHEMA_VERSION \in Nat
    /\ SCHEMA_VERSION > 4
    /\ MaxHostFaults \in Nat

VARIABLES
    dbFile,         \* whether the database file exists
    version,        \* PRAGMA user_version
    features,       \* what each schema version added, as the database has it
    daemon,         \* what each process is doing
    lockHolder,     \* who holds the flock of the socket's lock file
    socketFile,     \* the socket's directory entry
    wanted,         \* whether somebody wants a daemon
    hostFaults

hostVars == <<dbFile, version, features, daemon, lockHolder, socketFile, wanted, hostFaults>>
-----------------------------------------------------------------------------
Off == [pc |-> "off", version |-> 0]

\* A socket file belongs to the process that bound it, and listens as long as
\* that process keeps its listener; it is private to the user or not.
NoSocket == [of |-> NoProcess, private |-> TRUE, listening |-> FALSE]

Stages == {"launch", "look", "create", "read_version", "migrate", "restore", "hung", "lock",
           "inspect", "clear", "bind", "secure", "serving", "draining", "removing"}

HoldsLock == {"inspect", "clear", "bind", "secure", "serving", "draining", "removing"}

HostTypeOK ==
    /\ dbFile \in BOOLEAN
    /\ version \in 0..SCHEMA_VERSION + 1
    /\ features \subseteq 1..SCHEMA_VERSION + 1
    /\ daemon \in [Process -> [pc : Stages \cup {"off"}, version : 0..SCHEMA_VERSION]]
    /\ \A p \in Process : lockHolder = p <=> daemon[p].pc \in HoldsLock
    /\ lockHolder \in Process \cup {NoProcess}
    /\ socketFile \in [of : Process \cup {NoProcess}, private : BOOLEAN, listening : BOOLEAN]
    /\ wanted \in BOOLEAN
    /\ hostFaults \in 0..MaxHostFaults

\* The database is new, or another release, older or newer, left it at some
\* version.
HostInit ==
    /\ dbFile \in BOOLEAN
    /\ version \in IF dbFile THEN 1..SCHEMA_VERSION + 1 ELSE {0}
    /\ features = 1..version
    /\ daemon = [p \in Process |-> Off]
    /\ lockHolder = NoProcess
    /\ socketFile = NoSocket
    /\ wanted = FALSE
    /\ hostFaults = 0

HostFault == hostFaults < MaxHostFaults /\ hostFaults' = hostFaults + 1

Goes(p, pc) == daemon' = [daemon EXCEPT ![p].pc = pc]

\* Mutant of Exits: the lock outlives the process.
ExitsLocked(p) ==
    /\ daemon' = [daemon EXCEPT ![p] = Off]
    /\ socketFile' = IF socketFile.of = p THEN [socketFile EXCEPT !.listening = FALSE]
                     ELSE socketFile
    /\ UNCHANGED lockHolder

\* A process that ends with an error.
Exits(p) ==
    /\ daemon' = [daemon EXCEPT ![p] = Off]
    /\ lockHolder' = IF lockHolder = p THEN NoProcess ELSE lockHolder
    /\ socketFile' = IF socketFile.of = p THEN [socketFile EXCEPT !.listening = FALSE]
                     ELSE socketFile

Answering == \E p \in Process : daemon[p].pc = "serving"

-----------------------------------------------------------------------------
(* Who starts a process                                                    *)

\* The service manager has one process, which it starts and starts again.
StartService(p) ==
    /\ p \in Managed
    /\ daemon[p] = Off
    /\ Goes(p, "look")
    /\ wanted' = TRUE
    /\ UNCHANGED <<dbFile, version, features, lockHolder, socketFile, hostFaults>>

\* The launcher pings, and starts a process of its own when nobody answers and
\* systemd has no unit that is active or on its way: without systemctl, or with a
\* unit that failed.  The ping, the question to systemd and the start are steps
\* apart, and by then the service or another launcher may have started one.
Launch(p) ==
    /\ p \notin Managed
    /\ daemon[p] = Off
    /\ ~Answering
    /\ Goes(p, "launch")
    /\ UNCHANGED <<dbFile, version, features, lockHolder, socketFile, wanted, hostFaults>>

StartUnmanaged(p) ==
    /\ daemon[p].pc = "launch"
    /\ Goes(p, "look")
    /\ UNCHANGED <<dbFile, version, features, lockHolder, socketFile, wanted, hostFaults>>

-----------------------------------------------------------------------------
(* The database (Repository::open, migrate)                                *)

LookForDatabase(p) ==
    /\ daemon[p].pc = "look"
    /\ Goes(p, IF dbFile THEN "read_version" ELSE "create")
    /\ UNCHANGED <<dbFile, version, features, lockHolder, socketFile, wanted, hostFaults>>

\* create_new: another process may have created the file in between.
CreateDatabase(p) ==
    /\ daemon[p].pc = "create"
    /\ dbFile' = TRUE
    /\ IF dbFile THEN Exits(p)
       ELSE Goes(p, "read_version") /\ UNCHANGED <<lockHolder, socketFile>>
    /\ UNCHANGED <<version, features, wanted, hostFaults>>

\* A newer release wrote the database.
NewerSchema == version > SCHEMA_VERSION

\* The version is read once, outside of any transaction.
ReadVersion(p) ==
    /\ daemon[p].pc = "read_version"
    /\ IF NewerSchema
       THEN Exits(p)
       ELSE /\ daemon' = [daemon EXCEPT ![p] = [pc |-> "migrate", version |-> version]]
            /\ UNCHANGED <<lockHolder, socketFile>>
    /\ UNCHANGED <<dbFile, version, features, wanted, hostFaults>>

\* What a step adds.  The first creates everything; up to version 4 a step fails
\* on what is there already, the later ones put it there again.
Adds(v) == IF v = 0 THEN 1..SCHEMA_VERSION ELSE {v + 1}

After(v) == IF v = 0 THEN SCHEMA_VERSION ELSE v + 1

Clashes(v) == v < 4 /\ Adds(v) \cap features # {}

\* Mutant of MigrateStep: the version is written before what it stands for.
MigrateStepVersionFirst(p) ==
    LET v == daemon[p].version IN
    /\ daemon[p].pc = "migrate"
    /\ v < SCHEMA_VERSION
    /\ IF version = After(v)
       THEN /\ features' = features \cup Adds(v)
            /\ daemon' = [daemon EXCEPT ![p].version = After(v)]
            /\ UNCHANGED version
       ELSE /\ version' = After(v)
            /\ UNCHANGED <<features, daemon>>
    /\ UNCHANGED <<dbFile, lockHolder, socketFile, wanted, hostFaults>>

\* One step, in one transaction, from the version the process believes in.
MigrateStep(p) ==
    LET v == daemon[p].version IN
    /\ daemon[p].pc = "migrate"
    /\ v < SCHEMA_VERSION
    /\ IF Clashes(v)
       THEN Exits(p) /\ UNCHANGED <<version, features>>
       ELSE /\ features' = features \cup Adds(v)
            /\ version' = After(v)
            /\ daemon' = [daemon EXCEPT ![p].version = After(v)]
            /\ UNCHANGED <<lockHolder, socketFile>>
    /\ UNCHANGED <<dbFile, wanted, hostFaults>>

Migrated(p) ==
    /\ daemon[p].pc = "migrate"
    /\ daemon[p].version = SCHEMA_VERSION
    /\ Goes(p, "restore")
    /\ UNCHANGED <<dbFile, version, features, lockHolder, socketFile, wanted, hostFaults>>

\* restore_providers writes each account's auth_state, whoever serves.
RestoreProviders(p) ==
    /\ daemon[p].pc = "restore"
    /\ Goes(p, "lock")
    /\ UNCHANGED <<dbFile, version, features, lockHolder, socketFile, wanted, hostFaults>>

\* It asks Online Accounts for each account over D-Bus, without a deadline and
\* before there is a socket or a handler of SIGTERM.
RestoreHangs(p) ==
    /\ daemon[p].pc = "restore"
    /\ HostFault
    /\ Goes(p, "hung")
    /\ UNCHANGED <<dbFile, version, features, lockHolder, socketFile, wanted>>

-----------------------------------------------------------------------------
(* The socket (bind_user_socket, SocketGuard)                              *)

\* Mutant of LockSocket: the lock is taken whoever has it.
LockSocketAnyway(p) ==
    /\ daemon[p].pc = "lock"
    /\ Goes(p, "inspect")
    /\ lockHolder' = p
    /\ UNCHANGED <<dbFile, version, features, socketFile, wanted, hostFaults>>

LockSocket(p) ==
    /\ daemon[p].pc = "lock"
    /\ IF lockHolder = NoProcess
       THEN Goes(p, "inspect") /\ lockHolder' = p /\ UNCHANGED socketFile
       ELSE Exits(p)
    /\ UNCHANGED <<dbFile, version, features, wanted, hostFaults>>

\* A socket others may use is refused, one that answers is in use.
InspectSocket(p) ==
    /\ daemon[p].pc = "inspect"
    /\ IF socketFile = NoSocket
       THEN Goes(p, "bind") /\ UNCHANGED <<lockHolder, socketFile>>
       ELSE IF ~socketFile.private \/ socketFile.listening
            THEN Exits(p)
            ELSE Goes(p, "clear") /\ UNCHANGED <<lockHolder, socketFile>>
    /\ UNCHANGED <<dbFile, version, features, wanted, hostFaults>>

ClearSocket(p) ==
    /\ daemon[p].pc = "clear"
    /\ socketFile' = NoSocket
    /\ Goes(p, "bind")
    /\ UNCHANGED <<dbFile, version, features, lockHolder, wanted, hostFaults>>

\* The mode of the new socket is the umask's until it is set.
BindSocket(p) ==
    /\ daemon[p].pc = "bind"
    /\ IF socketFile = NoSocket
       THEN /\ socketFile' = [of |-> p, private |-> p \in Managed, listening |-> TRUE]
            /\ Goes(p, "secure")
            /\ UNCHANGED lockHolder
       ELSE Exits(p)
    /\ UNCHANGED <<dbFile, version, features, wanted, hostFaults>>

SecureSocket(p) ==
    /\ daemon[p].pc = "secure"
    /\ socketFile' = [socketFile EXCEPT !.private = TRUE]
    /\ Goes(p, "serving")
    /\ UNCHANGED <<dbFile, version, features, lockHolder, wanted, hostFaults>>

\* SIGTERM, for a service from the service manager: no connection is accepted any
\* more, and those there are end.
StopDaemon(p) ==
    /\ daemon[p].pc = "serving"
    /\ HostFault
    /\ Goes(p, "draining")
    /\ wanted' = (wanted /\ p \notin Managed)
    /\ UNCHANGED <<dbFile, version, features, lockHolder, socketFile>>

\* The listener is dropped, then the guard removes the file it bound and the lock.
CloseListener(p) ==
    /\ daemon[p].pc = "draining"
    /\ socketFile' = IF socketFile.of = p THEN [socketFile EXCEPT !.listening = FALSE]
                     ELSE socketFile
    /\ Goes(p, "removing")
    /\ UNCHANGED <<dbFile, version, features, lockHolder, wanted, hostFaults>>

RemoveSocket(p) ==
    /\ daemon[p].pc = "removing"
    /\ socketFile' = IF socketFile.of = p THEN NoSocket ELSE socketFile
    /\ lockHolder' = NoProcess
    /\ daemon' = [daemon EXCEPT ![p] = Off]
    /\ UNCHANGED <<dbFile, version, features, wanted, hostFaults>>

-----------------------------------------------------------------------------
\* A crash, or an error of the disk or the database, at any step.  Everything
\* committed stays, and so does the socket's file.
Crash(p) ==
    /\ daemon[p] # Off
    /\ HostFault
    /\ Exits(p)
    /\ UNCHANGED <<dbFile, version, features, wanted>>

DaemonStep(p) ==
    \/ StartUnmanaged(p) \/ LookForDatabase(p) \/ CreateDatabase(p) \/ ReadVersion(p)
    \/ MigrateStep(p) \/ Migrated(p) \/ RestoreProviders(p) \/ LockSocket(p)
    \/ InspectSocket(p) \/ ClearSocket(p) \/ BindSocket(p) \/ SecureSocket(p)
    \/ CloseListener(p) \/ RemoveSocket(p)

HostNext ==
    \E p \in Process :
        \/ StartService(p) \/ Launch(p) \/ DaemonStep(p)
        \/ RestoreHangs(p) \/ StopDaemon(p) \/ Crash(p)

HostSpec == HostInit /\ [][HostNext]_hostVars

\* Restart=on-failure: a service that is wanted is started again and again.
HostFairness ==
    /\ \A p \in Process : WF_hostVars(DaemonStep(p))
    /\ \A p \in Managed : WF_hostVars(wanted /\ StartService(p))

-----------------------------------------------------------------------------
(* Properties                                                              *)

\* The schema is never less than its version says, nor more in a way the next
\* migration would fail on, whatever processes migrate it at once and wherever
\* they die; a process that passed the migration has the whole schema.
SchemaSound ==
    /\ 1..version \subseteq features
    /\ version < 4 => version + 1 \notin features
    /\ \A p \in Process :
         daemon[p].pc \in {"restore", "lock"} \cup HoldsLock => features = 1..SCHEMA_VERSION

\* The socket leads to the process that serves, and nobody but the user can use
\* it: no other process clears, binds or removes it, starting or stopping.
PathLeadsToServer ==
    \A p \in Process :
        daemon[p].pc = "serving" =>
            socketFile = [of |-> p, private |-> TRUE, listening |-> TRUE]

\* A socket bound with an open umask by a process that died before it set the
\* mode: every later process refuses it.
OpenSocketLeft == ~socketFile.private /\ ~socketFile.listening

\* The service waits for Online Accounts, which never answer.
ServiceHung == \E p \in Managed : daemon[p].pc = "hung"

\* A service that is wanted serves, or another process does in its place, but
\* where one of the three holds that nothing in the program ends: again and again
\* this is so.
HostServed == wanted => Answering \/ OpenSocketLeft \/ NewerSchema \/ ServiceHung

=============================================================================
