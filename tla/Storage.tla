------------------------------ MODULE Storage -------------------------------
(***************************************************************************)
(* The database file of an installation: the migrations every process      *)
(* applies when it starts, and the backup and restore tools.               *)
(*                                                                         *)
(* The contents of an installation are abstracted to a number, the writes  *)
(* committed to it.  A file is its main part, the contents without its     *)
(* write-ahead log, and the log beside it: None, or [over, gives] - the    *)
(* contents it was written over and what replaying it there gives.         *)
(* Replaying a log over other contents gives Mixed.                        *)
(***************************************************************************)
EXTENDS Naturals, FiniteSets

CONSTANTS
    Servers,        \* the processes that open the database: API and workers
    Migrations,     \* the migration files, 1 .. n in order
    MaxWrites,      \* bound: writes committed
    MaxCrashes,     \* bound: processes and tools that die
    None

ASSUME StorageAssumption ==
    /\ Migrations \in Nat \ {0}
    /\ MaxWrites \in Nat
    /\ MaxCrashes \in Nat
    /\ None \notin Nat

Mixed == MaxWrites + 1
Versions == 1 .. Migrations

VARIABLES
    migrated,   \* the rows of schema_migrations
    ran,        \* how often each migration's statements were committed
    server,     \* [at, read, next] of each process: where its start stands
    main,       \* contents of the database file without its log
    log,        \* the log beside it
    saved,      \* contents of the backup file, None while there is none
    tool,       \* [at, source] of the restore that is running or ended
    crashes     \* deaths so far

storageVars == <<migrated, ran, server, main, log, saved, tool, crashes>>
fileVars == <<main, log, saved, tool>>
migrationVars == <<migrated, ran, server>>

Down == [at |-> "down", read |-> {}, next |-> 1]

\* What a process that opens the file finds.
Found == CASE log = None                          -> main
           [] log # None /\ log.over = main       -> log.gives
           [] OTHER                               -> Mixed

AllDown == \A s \in Servers : server[s].at = "down"

StorageInit ==
    /\ migrated \in {1 .. n : n \in 0 .. Migrations}
    /\ ran = [m \in Versions |-> IF m \in migrated THEN 1 ELSE 0]
    /\ server = [s \in Servers |-> Down]
    /\ main = 0
    /\ log = None
    /\ saved = None
    /\ tool = [at |-> "idle", source |-> None]
    /\ crashes = 0

-----------------------------------------------------------------------------
(* Starting a process *)

\* The applied migrations are read once, before any is applied.
ReadMigrations(s) ==
    /\ server[s].at = "down"
    /\ tool.at \in {"idle", "restored"}
    /\ server' = [server EXCEPT ![s] = [at |-> "applying", read |-> migrated, next |-> 1]]
    /\ UNCHANGED <<migrated, ran, fileVars, crashes>>

\* Variant: a row that is there already does not refuse the transaction.
ApplyAgain(s) ==
    /\ server[s].at = "applying"
    /\ server[s].next <= Migrations
    /\ LET m == server[s].next
       IN  /\ IF m \in server[s].read
              THEN UNCHANGED <<migrated, ran>>
              ELSE migrated' = migrated \cup {m} /\ ran' = [ran EXCEPT ![m] = @ + 1]
           /\ server' = [server EXCEPT ![s].next = m + 1]
    /\ UNCHANGED <<fileVars, crashes>>

\* A migration that was not applied when the process read is run and
\* recorded in one transaction; one that another process has meanwhile
\* recorded fails it, and the process with it.
ApplyMigration(s) ==
    /\ server[s].at = "applying"
    /\ server[s].next <= Migrations
    /\ LET m == server[s].next
       IN  \/ /\ m \in server[s].read
              /\ server' = [server EXCEPT ![s].next = m + 1]
              /\ UNCHANGED <<migrated, ran>>
           \/ /\ m \notin server[s].read \cup migrated
              /\ migrated' = migrated \cup {m}
              /\ ran' = [ran EXCEPT ![m] = @ + 1]
              /\ server' = [server EXCEPT ![s].next = m + 1]
           \/ /\ m \in migrated \ server[s].read
              /\ server' = [server EXCEPT ![s] = Down]
              /\ UNCHANGED <<migrated, ran>>
    /\ UNCHANGED <<fileVars, crashes>>

FinishStart(s) ==
    /\ server[s].at = "applying"
    /\ server[s].next > Migrations
    /\ server' = [server EXCEPT ![s].at = "up"]
    /\ UNCHANGED <<migrated, ran, fileVars, crashes>>

\* A process stops or dies; a transaction it was in is rolled back.
Stop(s) ==
    /\ server[s].at # "down"
    /\ crashes < MaxCrashes
    /\ server' = [server EXCEPT ![s] = Down]
    /\ crashes' = crashes + 1
    /\ UNCHANGED <<migrated, ran, fileVars>>

-----------------------------------------------------------------------------
(* Writes, backup and restore *)

\* A commit goes to the log.
Commit(s) ==
    /\ server[s].at = "up"
    /\ Found < MaxWrites
    /\ log' = [over |-> main, gives |-> Found + 1]
    /\ UNCHANGED <<migrationVars, main, saved, tool, crashes>>

\* Removes the earlier backup, folds the log in and copies what is there,
\* while the server may be running.
CreateBackup ==
    /\ tool.at = "idle"
    /\ Found # Mixed
    /\ main' = Found
    /\ log' = None
    /\ saved' = Found
    /\ UNCHANGED <<migrationVars, tool, crashes>>

\* The tool dies after the earlier backup is gone.
BackupCutShort ==
    /\ tool.at = "idle"
    /\ crashes < MaxCrashes
    /\ saved' = None
    /\ crashes' = crashes + 1
    /\ UNCHANGED <<migrationVars, main, log, tool>>

\* The backup is opened and checked before anything is replaced.
BeginRestore ==
    /\ tool.at = "idle"
    /\ AllDown
    /\ saved # None
    /\ tool' = [at |-> "checked", source |-> saved]
    /\ UNCHANGED <<migrationVars, main, log, saved, crashes>>

\* Variant: the log beside the replaced file is not removed.
CopyAndKeepLog ==
    /\ tool.at = "checked"
    /\ main' = tool.source
    /\ tool' = [tool EXCEPT !.at = "cleared"]
    /\ UNCHANGED <<migrationVars, log, saved, crashes>>

CopyFile ==
    /\ tool.at = "checked"
    /\ main' = tool.source
    /\ tool' = [tool EXCEPT !.at = "copied"]
    /\ UNCHANGED <<migrationVars, log, saved, crashes>>

RemoveLog ==
    /\ tool.at = "copied"
    /\ log' = None
    /\ tool' = [tool EXCEPT !.at = "cleared"]
    /\ UNCHANGED <<migrationVars, main, saved, crashes>>

\* What was written is opened and compared with what the backup held.
VerifyRestore ==
    /\ tool.at = "cleared"
    /\ tool' = [tool EXCEPT !.at = IF Found = tool.source THEN "restored" ELSE "mismatch"]
    /\ UNCHANGED <<migrationVars, main, log, saved, crashes>>

\* The tool dies, and what it did so far stays.
RestoreCutShort ==
    /\ tool.at \in {"checked", "copied", "cleared"}
    /\ crashes < MaxCrashes
    /\ tool' = [at |-> "idle", source |-> None]
    /\ crashes' = crashes + 1
    /\ UNCHANGED <<migrationVars, main, log, saved>>

StorageNext ==
    \/ \E s \in Servers :
          \/ ReadMigrations(s)
          \/ ApplyMigration(s)
          \/ FinishStart(s)
          \/ Stop(s)
          \/ Commit(s)
    \/ CreateBackup
    \/ BackupCutShort
    \/ BeginRestore
    \/ CopyFile
    \/ RemoveLog
    \/ VerifyRestore
    \/ RestoreCutShort

StorageSpec == StorageInit /\ [][StorageNext]_storageVars

-----------------------------------------------------------------------------
(* Properties *)

\* However processes start together, die and start again, a migration is
\* committed once, in its order, and a process serves only on the schema of
\* all of them.  (db/index.ts:85: both read what is applied before either
\* applies; the primary key of schema_migrations decides.)
MigrationsApplyOnce ==
    /\ \A m \in Versions : ran[m] = IF m \in migrated THEN 1 ELSE 0
    /\ \A m \in migrated : 1 .. m \subseteq migrated
    /\ \A s \in Servers : server[s].at = "up" => migrated = Versions

\* A restore that comes to its end reports success, and what a process then
\* finds is what the backup held - whatever was committed since the backup,
\* whatever an earlier restore that was cut short left behind.  (backup.ts:
\* "a log belonging to the replaced database must not be replayed into the
\* restored one".)
RestoreLeavesTheBackup ==
    [][tool.at = "cleared" /\ tool'.at \notin {"cleared", "idle"}
          => tool'.at = "restored" /\ Found' = saved]_storageVars

=============================================================================
