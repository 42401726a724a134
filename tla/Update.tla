------------------------------- MODULE Update -------------------------------
(***************************************************************************)
(* A standalone update (ops/update.rs, `bobe update apply` in main.rs)     *)
(* over the restore it rolls back with: the link to the current version,   *)
(* the service and the version its unit names, the journal of the update,  *)
(* and the command that applies or recovers it, which may stop anywhere.   *)
(*                                                                         *)
(* The candidate may change the form of the data; the previous version     *)
(* cannot read it then.  Of the owner it is assumed that no other command  *)
(* is given while one runs.  One candidate is modelled; an update that was *)
(* undone may be applied again.                                            *)
(***************************************************************************)
EXTENDS Restore

VARIABLES
    managed,   \* the service is installed with the supervisor
    link,      \* the version "current" names
    unit,      \* the version the unit of the service names
    service,   \* the version that runs, or "stopped"
    candidate, \* the files of the candidate are there
    update,    \* the journal of the update
    updater    \* the command: where it stands, and whether it recovers

updating == <<managed, link, unit, service, candidate, update, updater>>
vars == <<files, restorer, backups, updating>>

NoBackup == [p \in Part |-> Absent]
NoUpdate == [phase |-> "none", backup |-> NoBackup]
Unused   == [at |-> "idle", recovers |-> FALSE]

Version == {"previous", "candidate"}

TypeOK ==
    /\ RestoreTypeOK
    /\ managed \in BOOLEAN
    /\ link \in Version
    /\ unit \in Version
    /\ service \in Version \cup {"stopped"}
    /\ candidate \in BOOLEAN
    /\ update \in [phase : {"none", "staging", "stopping", "backup_verified", "activated",
                            "rolling_back", "committed"},
                   backup : [Part -> Content]]
    /\ updater \in [at : {"idle", "stage", "stop", "back_up", "activate", "activated", "install",
                          "wait", "probe", "commit", "clear", "stop_service", "preserve",
                          "roll_back", "stop_again", "restore", "restoring", "abandon",
                          "reinstall", "wait_previous", "discard"},
                    recovers : BOOLEAN]

Init ==
    /\ RestoreInit
    /\ managed \in BOOLEAN
    /\ link = "previous"
    /\ unit = "previous"
    /\ service \in {"previous", "stopped"}
    /\ candidate = FALSE
    /\ update = NoUpdate
    /\ updater = Unused

-----------------------------------------------------------------------------
(***************************************************************************)
(* The service, and the owner's own backups and restores.                  *)
(***************************************************************************)
Quiet    == updater.at = "idle" /\ restorer.at = "idle"
Offline  == service = "stopped" /\ restorer.at = "idle"
Starting == IF managed THEN unit ELSE link
Reads(version, data) == version = "candidate" \/ data[Database].by = "previous"

\* A start reconciles first: the journal is gone when the service runs.
StartService ==
    /\ Quiet
    /\ service = "stopped"
    /\ journal.phase = "none"
    /\ service' = Starting
    /\ UNCHANGED <<files, restorer, backups, managed, link, unit, candidate, update, updater>>

\* Every part that is there is written; a part may come or go.  A version that
\* cannot read the data leaves them alone.  Bound: the stamp.
ServiceWrites ==
    /\ service # "stopped"
    /\ Reads(service, live)
    /\ live[Database].stamp <= MaxWrites
    /\ \E kept \in SUBSET Part :
          /\ Database \in kept
          /\ live' = [p \in Part |->
                IF p \in kept
                THEN [stamp |-> live[Database].stamp + 1, epoch |-> live[p].epoch, by |-> service]
                ELSE Absent]
    /\ UNCHANGED <<aside, staged, journal, restorer, backups, updating>>

CreateBackup ==
    /\ Quiet
    /\ journal.phase = "none"
    /\ Cardinality(backups) < MaxBackups
    /\ backups' = backups \cup {live}
    /\ UNCHANGED <<files, restorer, updating>>

\* A managed service is stopped for it.  The command refuses a backup whose form
\* its version does not read.
OwnerRestores(backup) ==
    /\ Quiet
    /\ managed \/ service = "stopped"
    /\ Reads(link, backup)
    /\ BeginRestore(backup)
    /\ service' = "stopped"
    /\ UNCHANGED <<backups, managed, link, unit, candidate, update, updater>>

\* Every command and every start of the service reconciles first.
Reconciles ==
    /\ updater.at = "idle"
    /\ Offline
    /\ BeginReconcile
    /\ UNCHANGED <<backups, updating>>

Reported ==
    /\ restorer.at \in {"done", "failed"}
    /\ restorer' = Resting
    /\ updater' = IF updater.at # "restoring" THEN updater
                  ELSE IF restorer.at = "done" THEN [updater EXCEPT !.at = "abandon"] ELSE Unused
    /\ UNCHANGED <<files, backups, managed, link, unit, service, candidate, update>>

Restoring == RestoreStep /\ UNCHANGED <<backups, updating>>

\* The command stops, with the machine or without it.
Crash ==
    /\ restorer' = Resting
    /\ updater' = Unused
    /\ service' \in {service, "stopped"}
    /\ UNCHANGED <<files, backups, managed, link, unit, candidate, update>>

-----------------------------------------------------------------------------
(***************************************************************************)
(* `bobe update apply`.                                                    *)
(***************************************************************************)
At(place)  == updater.at = place
Go(place)  == updater' = [updater EXCEPT !.at = place]
Write(j)   == update' = j
Phase(ph)  == [update EXCEPT !.phase = ph]
Untouched  == UNCHANGED <<files, restorer>>

\* Without a supervisor the daemon has to be stopped.
Apply ==
    /\ Quiet
    /\ journal.phase = "none"
    /\ managed \/ service = "stopped"
    /\ update.phase = "none"
    /\ link = "previous"
    /\ Write([NoUpdate EXCEPT !.phase = "staging"])
    /\ updater' = [at |-> "stage", recovers |-> FALSE]
    /\ Untouched /\ UNCHANGED <<backups, managed, link, unit, service, candidate>>

StageArchive ==
    /\ At("stage")
    /\ \/ candidate' = TRUE /\ Write(Phase("stopping")) /\ Go("stop")
       \/ candidate' = FALSE /\ Write(NoUpdate) /\ updater' = Unused
    /\ Untouched /\ UNCHANGED <<backups, managed, link, unit, service>>

StopForUpdate ==
    /\ At("stop")
    /\ service' = "stopped"
    /\ Go("back_up")
    /\ Untouched /\ UNCHANGED <<backups, managed, link, unit, candidate, update>>

\* The data that are backed up are those of the version that stopped.
BackUp ==
    /\ At("back_up")
    /\ backups' = backups \cup {live}
    /\ Write([phase |-> "backup_verified", backup |-> live])
    /\ Go("activate")
    /\ Untouched /\ UNCHANGED <<managed, link, unit, service, candidate>>

Activate ==
    /\ At("activate")
    /\ link' = "candidate"
    /\ Go("activated")
    /\ Untouched /\ UNCHANGED <<backups, managed, unit, service, candidate, update>>

WriteActivated ==
    /\ At("activated")
    /\ Write(Phase("activated"))
    /\ Go(IF managed THEN "install" ELSE "commit")
    /\ Untouched /\ UNCHANGED <<backups, managed, link, unit, service, candidate>>

\* A step between the stop and the activation fails: the previous version comes back.
PreparationFails ==
    /\ updater.at \in {"back_up", "activate", "activated"}
    /\ Go("abandon")
    /\ Untouched /\ UNCHANGED <<backups, managed, link, unit, service, candidate, update>>

InstallCandidate ==
    /\ At("install")
    /\ unit' = "candidate"
    /\ service' = "candidate"
    /\ Go("wait")
    /\ Untouched /\ UNCHANGED <<backups, managed, link, candidate, update>>

\* Mutant: a candidate that does not become ready is given up like one that never
\* started.
AbandonInstead(recovers) == "abandon"

\* Not ready in time, or not installed: the command that applies rolls back at once,
\* the one that recovers saves the data first.
UnreadyGoes(recovers) == IF recovers THEN "stop_service" ELSE "roll_back"

WaitForCandidate ==
    /\ updater.at \in {"install", "wait"}
    /\ \/ At("wait") /\ Go("commit")
       \/ Go(UnreadyGoes(updater.recovers))
    /\ Untouched /\ UNCHANGED <<backups, managed, link, unit, service, candidate, update>>

Commit ==
    /\ At("commit")
    /\ Write(Phase("committed"))
    /\ Go("clear")
    /\ Untouched /\ UNCHANGED <<backups, managed, link, unit, service, candidate>>

ClearJournal ==
    /\ At("clear")
    /\ Write(NoUpdate)
    /\ updater' = Unused
    /\ Untouched /\ UNCHANGED <<backups, managed, link, unit, service, candidate>>

-----------------------------------------------------------------------------
(***************************************************************************)
(* roll_back and abandon.                                                  *)
(***************************************************************************)
RollBack ==
    /\ At("roll_back")
    /\ Write(Phase("rolling_back"))
    /\ Go("stop_again")
    /\ Untouched /\ UNCHANGED <<backups, managed, link, unit, service, candidate>>

StopForRollback ==
    /\ At("stop_again")
    /\ service' = "stopped"
    /\ Go(IF update.backup = NoBackup THEN "abandon" ELSE "restore")
    /\ Untouched /\ UNCHANGED <<backups, managed, link, unit, candidate, update>>

RestoreBackup ==
    /\ At("restore")
    /\ BeginRestore(update.backup)
    /\ Go("restoring")
    /\ UNCHANGED <<backups, managed, link, unit, service, candidate, update>>

Abandon ==
    /\ At("abandon")
    /\ link' = "previous"
    /\ Go(IF managed THEN "reinstall" ELSE "discard")
    /\ Untouched /\ UNCHANGED <<backups, managed, unit, service, candidate, update>>

Reinstall ==
    /\ At("reinstall")
    /\ unit' = "previous"
    /\ service' = "previous"
    /\ Go("wait_previous")
    /\ Untouched /\ UNCHANGED <<backups, managed, link, candidate, update>>

\* Not ready: the journal stays, and the next command recovers.
WaitForPrevious ==
    /\ At("wait_previous")
    /\ Go("discard") \/ updater' = Unused
    /\ Untouched /\ UNCHANGED <<backups, managed, link, unit, service, candidate, update>>

DiscardCandidate ==
    /\ At("discard")
    /\ candidate' = FALSE
    /\ Go("clear")
    /\ Untouched /\ UNCHANGED <<backups, managed, link, unit, service, update>>

-----------------------------------------------------------------------------
(***************************************************************************)
(* recover: what the next command does about an update that stopped.       *)
(***************************************************************************)
RecoveryOf ==
    IF update.phase = "staging" THEN "discard"
    ELSE IF update.phase = "committed" THEN "clear"
    ELSE IF update.phase = "rolling_back" THEN "stop_service"
    ELSE IF link # "candidate" THEN "abandon"
    ELSE IF managed THEN "probe" ELSE "commit"

Recover ==
    /\ Quiet
    /\ journal.phase = "none"
    /\ managed \/ service = "stopped"
    /\ update.phase # "none"
    /\ updater' = [at |-> RecoveryOf, recovers |-> TRUE]
    /\ Untouched /\ UNCHANGED <<backups, managed, link, unit, service, candidate, update>>

\* A candidate that does not answer is started once more.
Probe ==
    /\ At("probe")
    /\ (service = "candidate" /\ Go("commit")) \/ Go("install")
    /\ Untouched /\ UNCHANGED <<backups, managed, link, unit, service, candidate, update>>

\* Mutant: what a recovery that stopped has saved is not saved again.
SavedOnce == IF update.phase = "rolling_back" THEN "roll_back" ELSE "preserve"

AfterStop == "preserve"

StopForRecovery ==
    /\ At("stop_service")
    /\ service' = "stopped"
    /\ Go(AfterStop)
    /\ Untouched /\ UNCHANGED <<backups, managed, link, unit, candidate, update>>

PreserveData ==
    /\ At("preserve")
    /\ backups' = backups \cup {live}
    /\ Go("roll_back")
    /\ Untouched /\ UNCHANGED <<managed, link, unit, service, candidate, update>>

UpdateStep ==
    \/ Apply \/ StageArchive \/ StopForUpdate \/ BackUp \/ Activate \/ WriteActivated
    \/ PreparationFails \/ InstallCandidate \/ WaitForCandidate \/ Commit \/ ClearJournal
    \/ RollBack \/ StopForRollback \/ RestoreBackup \/ Abandon \/ Reinstall
    \/ WaitForPrevious \/ DiscardCandidate
    \/ Recover \/ Probe \/ StopForRecovery \/ PreserveData

Next ==
    \/ UpdateStep \/ Restoring \/ Reported \/ Reconciles \/ Crash
    \/ StartService \/ ServiceWrites \/ CreateBackup
    \/ \E backup \in backups : OwnerRestores(backup)

Spec == Init /\ [][Next]_vars

-----------------------------------------------------------------------------
(***************************************************************************)
(* Properties.                                                             *)
(***************************************************************************)

Contract == INSTANCE DataContract WITH data <- Data, serving <- service # "stopped"

\* Whatever stops a restore, an update or a rollback, and wherever: all the data are
\* those the service left, or all are those of one backup in a new epoch.  Nothing is
\* lost with a part that was moved aside, and nothing of a restore that is undone stays.
KeepsData == Contract!Spec

\* When no update is under way, the version that starts next reads the data: one
\* that was rolled back is not left over data its candidate had changed, and the files
\* of the version that the link and the unit name are there.
DataFitsVersion ==
    (update.phase = "none" /\ At("idle")) =>
        /\ Reads(link, Data)
        /\ managed => Reads(unit, Data)
        /\ candidate \/ (link = "previous" /\ unit = "previous")

\* The step with which a restore is committed while the command rolls back.
RollsBackNow(recovers) ==
    /\ At("restoring")
    /\ updater.recovers = recovers
    /\ journal.phase = "installing" /\ journal'.phase = "installed"

\* A recovery replaces only data that were saved as a backup of their own, also
\* when it has to be begun again after the previous version has run in between.
RecoverySavesData == [][RollsBackNow(TRUE) => Data \in backups]_vars

\* docs/cli.md:168-170: the update "backs up, and rolls back if the new version never
\* becomes ready, saving the current data as a new backup first".
RollbackSavesData == [][RollsBackNow(FALSE) => Data \in backups]_vars
=============================================================================
