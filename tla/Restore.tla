------------------------------- MODULE Restore -------------------------------
(***************************************************************************)
(* Restoring a backup (ops/backup.rs): the parts of BoBe's data (database, *)
(* configuration, artifacts, files of the agent) are replaced one by one,  *)
(* and a journal says how far that got.  What a stopped restore left is    *)
(* finished or undone by the next process that takes the data's locks.     *)
(*                                                                         *)
(* A step is one durable operation on the file system: a rename with the   *)
(* sync of its directory, a removal, or an atomic write of the journal.    *)
(* The process may stop between any two.  What it prepares before it       *)
(* writes the journal has a name of its own and is never read again, so    *)
(* the preparation and the first journal are one step; a backup that is    *)
(* refused changes nothing.  Part 1 is the database, which is always there *)
(* and holds the authority epoch.                                          *)
(***************************************************************************)
EXTENDS Naturals, FiniteSets

CONSTANTS
    Parts,      \* number of parts of the data
    MaxWrites,  \* bound: changes the service makes to its data
    MaxEpoch,   \* bound: the authority epoch
    MaxBackups  \* bound: backups there may be when the owner makes one more

ASSUME PartsAssumption ==
    /\ Parts \in Nat \ {0}
    /\ MaxWrites \in Nat
    /\ MaxEpoch \in Nat \ {0}
    /\ MaxBackups \in Nat

VARIABLES
    live,      \* part -> what its target holds
    aside,     \* part -> what its ".old" file holds
    staged,    \* part -> what its ".new" file holds
    journal,   \* the restore journal
    restorer,  \* the process that restores or reconciles
    backups    \* the backups that were made

files == <<live, aside, staged, journal>>

Part     == 1 .. Parts
Database == 1
Absent   == [stamp |-> 0, epoch |-> 0, by |-> "nobody"]

\* A part as the service left it: at which of its changes, and which version of
\* BoBe that was.
Content == [stamp : 1 .. MaxWrites + 1, epoch : 0 .. MaxEpoch, by : {"previous", "candidate"}]
           \cup {Absent}

NoJournal == [phase |-> "none", had |-> {}]
Resting   == [at |-> "idle", part |-> 0]

RestoreTypeOK ==
    /\ live \in [Part -> Content]
    /\ aside \in [Part -> Content]
    /\ staged \in [Part -> Content]
    /\ journal \in [phase : {"none", "installing", "installed"}, had : SUBSET Part]
    /\ restorer \in [at : {"idle", "move", "install", "undo", "put_back", "done", "failed"},
                     part : 0 .. Parts + 1]
    /\ backups \subseteq [Part -> Content]

\* The data as its owner would get it back: what a restore that has not been
\* committed replaced still counts.
Data ==
    IF journal.phase # "installing" THEN live
    ELSE [p \in Part |-> IF aside[p] # Absent THEN aside[p]
                         ELSE IF p \in journal.had THEN live[p] ELSE Absent]

RestoreInit ==
    /\ live = [p \in Part |-> [stamp |-> 1, epoch |-> IF p = Database THEN 1 ELSE 0,
                               by |-> "previous"]]
    /\ aside = [p \in Part |-> Absent]
    /\ staged = [p \in Part |-> Absent]
    /\ journal = NoJournal
    /\ restorer = Resting
    /\ backups = {}

-----------------------------------------------------------------------------
(***************************************************************************)
(* The restore.                                                            *)
(***************************************************************************)
Larger(m, n) == IF m > n THEN m ELSE n

\* The backup with an epoch above those of the backup and of the data.
Raised(backup) ==
    [backup EXCEPT ![Database].epoch = Larger(@, live[Database].epoch) + 1]

\* Bound: the epoch.
BeginRestore(backup) ==
    /\ restorer.at = "idle"
    /\ journal.phase = "none"
    /\ Larger(backup[Database].epoch, live[Database].epoch) < MaxEpoch
    /\ staged' = Raised(backup)
    /\ journal' = [phase |-> "installing", had |-> {p \in Part : live[p] # Absent}]
    /\ restorer' = [at |-> "move", part |-> 1]
    /\ UNCHANGED <<live, aside>>

\* Mutant: what is replaced is removed at once.
RemoveTarget(p) ==
    /\ live' = [live EXCEPT ![p] = Absent]
    /\ UNCHANGED aside

RenameAside(p) ==
    /\ aside' = [aside EXCEPT ![p] = live[p]]
    /\ live' = [live EXCEPT ![p] = Absent]

MoveAside ==
    LET p == restorer.part IN
    /\ restorer.at = "move"
    /\ p \in Part
    /\ IF p \in journal.had THEN RenameAside(p) ELSE UNCHANGED <<live, aside>>
    /\ restorer' = [restorer EXCEPT !.at = "install"]
    /\ UNCHANGED <<staged, journal>>

\* A part the backup does not have is left out.
InstallReplacement ==
    LET p == restorer.part IN
    /\ restorer.at = "install"
    /\ IF staged[p] = Absent THEN UNCHANGED <<live, staged>>
       ELSE /\ live' = [live EXCEPT ![p] = staged[p]]
            /\ staged' = [staged EXCEPT ![p] = Absent]
    /\ restorer' = [at |-> "move", part |-> p + 1]
    /\ UNCHANGED <<aside, journal>>

\* The write that commits the restore.
WriteInstalled ==
    /\ restorer = [at |-> "move", part |-> Parts + 1]
    /\ journal' = [journal EXCEPT !.phase = "installed"]
    /\ restorer' = [at |-> "undo", part |-> Parts]
    /\ UNCHANGED <<live, aside, staged>>

\* A step that fails: the process reconciles at once.
AbortRestore ==
    /\ restorer.at \in {"move", "install"}
    /\ restorer' = [at |-> "undo", part |-> Parts]
    /\ UNCHANGED files

-----------------------------------------------------------------------------
(***************************************************************************)
(* reconcile_journal: finishes what is committed, undoes what is not, part *)
(* by part from the last to the first.  The clean-up of a restore that     *)
(* succeeded removes the same files.                                       *)
(***************************************************************************)
BeginReconcile ==
    /\ restorer.at = "idle"
    /\ journal.phase # "none"
    /\ restorer' = [at |-> "undo", part |-> Parts]
    /\ UNCHANGED files

\* The target of a part before what was replaced is put back.
Undone(p) ==
    IF aside[p] # Absent \/ p \notin journal.had THEN [live EXCEPT ![p] = Absent] ELSE live

ReconcilePart ==
    LET p == restorer.part IN
    /\ restorer.at = "undo"
    /\ p \in Part
    /\ IF journal.phase = "installed"
       THEN /\ aside' = [aside EXCEPT ![p] = Absent]
            /\ staged' = [staged EXCEPT ![p] = Absent]
            /\ restorer' = [restorer EXCEPT !.part = p - 1]
            /\ UNCHANGED live
       ELSE /\ live' = Undone(p)
            /\ restorer' = [restorer EXCEPT !.at = "put_back"]
            /\ UNCHANGED <<aside, staged>>
    /\ UNCHANGED journal

PutBack ==
    LET p == restorer.part IN
    /\ restorer.at = "put_back"
    /\ IF aside[p] = Absent THEN UNCHANGED <<live, aside>>
       ELSE /\ live' = [live EXCEPT ![p] = aside[p]]
            /\ aside' = [aside EXCEPT ![p] = Absent]
    /\ staged' = [staged EXCEPT ![p] = Absent]
    /\ restorer' = [at |-> "undo", part |-> p - 1]
    /\ UNCHANGED journal

\* A commit that reached the disk although its write failed is reported as a failure.
Outcomes == IF journal.phase = "installed" THEN {"done", "failed"} ELSE {"failed"}

RemoveJournal ==
    /\ restorer = [at |-> "undo", part |-> 0]
    /\ \E outcome \in Outcomes : restorer' = [at |-> outcome, part |-> 0]
    /\ journal' = NoJournal
    /\ UNCHANGED <<live, aside, staged>>

\* A step of the clean-up fails, or one of the rollback: the journal stays for the
\* next start.
GiveUp ==
    /\ restorer.at \in {"undo", "put_back"}
    /\ \E outcome \in Outcomes : restorer' = [at |-> outcome, part |-> 0]
    /\ UNCHANGED files

RestoreStep ==
    MoveAside \/ InstallReplacement \/ WriteInstalled \/ AbortRestore
    \/ ReconcilePart \/ PutBack \/ RemoveJournal \/ GiveUp
=============================================================================
