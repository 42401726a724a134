---------------------------- MODULE UpdateProofs ----------------------------
(***************************************************************************)
(* Proofs about the restore and the update: for any number of parts, of    *)
(* changes, epochs and backups, wherever either stops, the data are whole  *)
(* and of the version that reads them.                                     *)
(*                                                                         *)
(* The argument has two halves.  RestoreInv says, for every place of the   *)
(* restorer, which parts are still as they were, which are aside and which *)
(* are replaced, so that what the owner would get back (Data) and what the *)
(* restore is about to commit (Incoming) are known to be whole throughout. *)
(* The rest is about the update, for which Data is one value: what the     *)
(* journal's phase and the command's place say about the link, the unit,   *)
(* the version that runs and the version that wrote the data.              *)
(***************************************************************************)
EXTENDS Update, TLAPS

-----------------------------------------------------------------------------
(***************************************************************************)
(* The inductive invariant: the restore.                                   *)
(***************************************************************************)

\* The parts the restorer has yet to come to are as they were; those behind it are
\* aside, if they were there.
Moving ==
    restorer.at \in {"move", "install"} =>
        /\ journal.phase = "installing"
        /\ restorer.part \in 1 .. Parts + 1
        /\ \A p \in Part : p > restorer.part => aside[p] = Absent
        /\ \A p \in Part : (p > restorer.part /\ p \in journal.had) => live[p] # Absent
        /\ \A p \in Part : (p > restorer.part /\ p \notin journal.had) => live[p] = Absent
        /\ \A p \in Part : (p < restorer.part /\ p \in journal.had) => aside[p] # Absent

\* The part it has come to is moved aside first and then replaced.
MovingHere ==
    LET p == restorer.part IN
    /\ (restorer.at = "move" /\ p \in Part) =>
          aside[p] = Absent /\ (live[p] # Absent <=> p \in journal.had)
    /\ restorer.at = "install" =>
          p \in Part /\ live[p] = Absent /\ (aside[p] # Absent <=> p \in journal.had)

\* What the data will be when the restore is committed.
Incoming == [p \in Part |-> IF p < restorer.part THEN live[p] ELSE staged[p]]

\* Data are those of a backup, in an epoch above its own and above that of the old data.
InEpoch(data, backup, old) ==
    /\ \A p \in Part \ {Database} : data[p] = backup[p]
    /\ data[Database].stamp = backup[Database].stamp
    /\ data[Database].by = backup[Database].by
    /\ data[Database].epoch > backup[Database].epoch
    /\ data[Database].epoch > old[Database].epoch

\* What is about to be committed is one backup, whatever the restorer has done so far.
ReplacesByBackup ==
    restorer.at \in {"move", "install"} =>
        \E b \in backups : InEpoch(Incoming, b, Data)

\* What is undone or finished is gone from the last part on.
Undoing ==
    /\ restorer.at \in {"undo", "put_back"} =>
          /\ journal.phase # "none"
          /\ restorer.part \in 0 .. Parts
          /\ \A p \in Part : p > restorer.part =>
                aside[p] = Absent
                /\ (journal.phase = "installing" => (p \in journal.had \/ live[p] = Absent))
    /\ restorer.at = "put_back" =>
          /\ restorer.part \in Part
          /\ journal.phase = "installing"
          /\ (aside[restorer.part] # Absent \/ restorer.part \notin journal.had)
                => live[restorer.part] = Absent

\* Without a journal nothing is aside, and nothing is put back that was not there.
SetAside ==
    /\ journal.phase = "none" => \A p \in Part : aside[p] = Absent
    /\ journal.phase = "installing" => \A p \in Part : aside[p] # Absent => p \in journal.had
    /\ restorer.at = "done" => journal.phase # "installing"

\* The database is there, and no part is of a later change than it.
Whole(data) ==
    /\ data[Database] # Absent
    /\ \A p \in Part : data[p].stamp <= data[Database].stamp

AllWhole == Whole(Data) /\ \A b \in backups : Whole(b)

RestoreInv == Moving /\ MovingHere /\ ReplacesByBackup /\ Undoing /\ SetAside /\ AllWhole

-----------------------------------------------------------------------------
(***************************************************************************)
(* The inductive invariant: the update.                                    *)
(***************************************************************************)
Previous(data) == data[Database].by = "previous"

\* A restore runs alone: the service is stopped, and the update waits for it or there is
\* none.  One that was not committed keeps both from going on.
Offstage ==
    /\ restorer.at # "idle" => service = "stopped" /\ updater.at \in {"idle", "restoring"}
    /\ updater.at = "restoring" => restorer.at # "idle"
    /\ journal.phase = "installing" => service = "stopped" /\ updater.at \in {"idle", "restoring"}

\* The service runs the version its supervisor or the link names; the files of the
\* candidate are there while either names it.
Runs ==
    /\ managed => service \in {"stopped", unit}
    /\ ~managed => /\ unit = "previous"
                   /\ service # "stopped" => service = link /\ updater.at = "idle"
    /\ candidate \/ (link = "previous" /\ unit = "previous")

\* The previous version is in place, over data it reads.
PreviousInPlace == link = "previous" /\ unit = "previous" /\ Previous(Data)

\* The backup of the update is one of the backups, made by the previous version.
BackupOk == update.backup \in backups /\ Previous(update.backup)

\* What the journal of the update says when the command is gone.
PhaseInv ==
    /\ update.phase = "none" => updater.at = "idle"
    /\ update.phase \in {"staging", "stopping"} => PreviousInPlace
    /\ (update.phase \in {"none", "backup_verified"} /\ link = "previous") => PreviousInPlace
    /\ update.phase \in {"activated", "committed"} => link = "candidate"
    /\ (update.phase \in {"none", "committed"} /\ link = "candidate" /\ managed)
          => unit = "candidate"
    /\ update.phase \in {"backup_verified", "activated", "rolling_back"} => BackupOk

\* What the command has done when it stands at a place.
PlaceInv ==
    /\ At("stage") => update.phase = "staging"
    /\ updater.at \in {"stop", "back_up"} => update.phase = "stopping" /\ candidate
    /\ At("activate") => update.phase = "backup_verified" /\ link = "previous" /\ candidate
    /\ At("activated") => /\ update.phase = "backup_verified"
                          /\ link = "candidate" /\ unit = "previous" /\ Previous(Data)
    /\ updater.at \in {"back_up", "activate", "activated", "preserve", "restore"}
          => service = "stopped"
    /\ updater.at \in {"probe", "install", "wait"} =>
          update.phase \in {"backup_verified", "activated"} /\ link = "candidate" /\ managed
    /\ At("wait") => unit = "candidate"
    /\ At("commit") => /\ update.phase \in {"backup_verified", "activated"}
                       /\ link = "candidate" /\ (managed => unit = "candidate")
    /\ updater.at \in {"stop_service", "preserve", "roll_back"} =>
          update.phase \in {"backup_verified", "activated", "rolling_back"}
    /\ updater.at \in {"stop_again", "restore", "restoring"} => update.phase = "rolling_back"
    /\ updater.at \in {"abandon", "reinstall"} =>
          /\ update.phase \in {"stopping", "backup_verified", "rolling_back"}
          /\ Previous(Data) /\ service # "candidate"
          /\ update.phase # "rolling_back" => unit = "previous"
    /\ At("reinstall") => managed /\ link = "previous"
    /\ updater.at \in {"wait_previous", "discard"} => update.phase # "committed" /\ PreviousInPlace
    /\ At("clear") => update.phase = "committed" \/ PreviousInPlace

\* A restore replaces the data by data the version reads that starts next; one of a
\* rollback by data of the previous version.
RestoreFits ==
    /\ restorer.at \in {"move", "install"} =>
          /\ Reads(link, Incoming)
          /\ At("restoring") => Previous(Incoming)
    /\ (At("restoring") /\ (journal.phase = "installed" \/ restorer.at = "done")) => Previous(Data)

\* From when a recovery saved the data until it has replaced them they do not change.
Saved ==
    (updater.recovers /\ (\/ updater.at \in {"roll_back", "stop_again", "restore"}
                          \/ At("restoring") /\ journal.phase = "installing"))
        => Data \in backups /\ service = "stopped"

IInv == TypeOK /\ RestoreInv /\ Offstage /\ Runs /\ PhaseInv /\ PlaceInv /\ RestoreFits /\ Saved

-----------------------------------------------------------------------------
(***************************************************************************)
(* Facts about parts and what they hold.                                   *)
(***************************************************************************)
\* There is a database.
LEMMA PartFacts == Database \in Part /\ Parts \in Nat /\ Parts >= 1
BY PartsAssumption DEF Part, Database

\* What a part may hold: nothing, or what a version left at one of its changes.
LEMMA ContentFacts ==
    /\ Absent \in Content
    /\ \A c \in Content : c.stamp \in Nat /\ c.epoch \in Nat
    /\ \A c \in Content : c # Absent =>
          c.stamp \in 1 .. MaxWrites + 1 /\ c.epoch \in 0 .. MaxEpoch
          /\ c.by \in {"previous", "candidate"}
          /\ c = [stamp |-> c.stamp, epoch |-> c.epoch, by |-> c.by]
    /\ \A c \in Content : c.by = "previous" => c # Absent
    /\ Absent.stamp = 0
    /\ \A s \in 1 .. MaxWrites + 1, e \in 0 .. MaxEpoch, b \in {"previous", "candidate"} :
          [stamp |-> s, epoch |-> e, by |-> b] \in Content \ {Absent}
BY PartsAssumption DEF Content, Absent

\* The one fact of these that most steps need.
LEMMA AbsentIsContent == Absent \in Content
BY ContentFacts

\* What the owner would get back and what is about to be committed, part by part.
LEMMA DataType ==
    ASSUME RestoreTypeOK
    PROVE  /\ Data \in [Part -> Content]
           /\ Incoming \in [Part -> Content]
           /\ journal.phase # "installing" => Data = live
           /\ journal.phase = "installing" => \A p \in Part :
                 Data[p] = IF aside[p] # Absent THEN aside[p]
                           ELSE IF p \in journal.had THEN live[p] ELSE Absent
           /\ \A p \in Part : Incoming[p] = IF p < restorer.part THEN live[p] ELSE staged[p]
<1> USE ContentFacts DEF RestoreTypeOK
<1>1. Data \in [Part -> Content]
  BY DEF Data
<1>2. Incoming \in [Part -> Content]
  BY DEF Incoming
<1>3. journal.phase # "installing" => Data = live
  BY DEF Data
<1>4. journal.phase = "installing" => \A p \in Part :
                 Data[p] = IF aside[p] # Absent THEN aside[p]
                           ELSE IF p \in journal.had THEN live[p] ELSE Absent
  BY DEF Data
<1>5. \A p \in Part : Incoming[p] = IF p < restorer.part THEN live[p] ELSE staged[p]
  BY DEF Incoming
<1> QED BY <1>1, <1>2, <1>3, <1>4, <1>5

\* The same after a step.
LEMMA DataTypeNext ==
    ASSUME RestoreTypeOK'
    PROVE  /\ Data' \in [Part -> Content]
           /\ Incoming' \in [Part -> Content]
           /\ journal'.phase # "installing" => Data' = live'
           /\ journal'.phase = "installing" => \A p \in Part :
                 Data'[p] = IF aside'[p] # Absent THEN aside'[p]
                            ELSE IF p \in journal'.had THEN live'[p] ELSE Absent
           /\ \A p \in Part : Incoming'[p] = IF p < restorer'.part THEN live'[p] ELSE staged'[p]
<1> USE ContentFacts DEF RestoreTypeOK
<1>1. Data' \in [Part -> Content]
  BY DEF Data
<1>2. Incoming' \in [Part -> Content]
  BY DEF Incoming
<1>3. journal'.phase # "installing" => Data' = live'
  BY DEF Data
<1>4. journal'.phase = "installing" => \A p \in Part :
                 Data'[p] = IF aside'[p] # Absent THEN aside'[p]
                            ELSE IF p \in journal'.had THEN live'[p] ELSE Absent
  BY DEF Data
<1>5. \A p \in Part : Incoming'[p] = IF p < restorer'.part THEN live'[p] ELSE staged'[p]
  BY DEF Incoming
<1> QED BY <1>1, <1>2, <1>3, <1>4, <1>5

\* A step that leaves the files and the restorer alone, and at most adds the data as a
\* backup, disturbs nothing of the restore.
LEMMA FilesStay ==
    ASSUME RestoreTypeOK, RestoreInv, UNCHANGED <<files, restorer>>,
           \/ backups' = backups
           \/ journal.phase # "installing" /\ backups' = backups \cup {live}
    PROVE  /\ RestoreTypeOK' /\ RestoreInv'
           /\ Data' = Data /\ Incoming' = Incoming
           /\ backups \subseteq backups'
<1>1. Data' = Data
  BY DEF Data, files
<1>2. Incoming' = Incoming
  BY DEF Incoming, files
<1>3. backups \subseteq backups'
  OBVIOUS
<1>4. RestoreTypeOK'
  BY DEF RestoreTypeOK, files
<1>5. Moving'
  BY DEF RestoreInv, Moving, files
<1>6. MovingHere'
  BY DEF RestoreInv, MovingHere, files
<1>7. ReplacesByBackup'
  BY <1>1, <1>2, <1>3 DEF RestoreInv, ReplacesByBackup, InEpoch
<1>8. Undoing'
  BY DEF RestoreInv, Undoing, files
<1>9. SetAside'
  BY DEF RestoreInv, SetAside, files
<1>10. AllWhole'
  BY <1>1, DataType DEF RestoreInv, AllWhole, Whole
<1> QED BY <1>1, <1>2, <1>3, <1>4, <1>5, <1>6, <1>7, <1>8, <1>9, <1>10 DEF RestoreInv

\* RenameAside: the data of a part count wherever they are.
LEMMA MoveAsideKeeps ==
    ASSUME RestoreTypeOK, RestoreInv, MoveAside, backups' = backups
    PROVE  /\ RestoreTypeOK' /\ RestoreInv'
           /\ Data' = Data /\ Incoming' = Incoming
<1> USE PartFacts, AbsentIsContent DEF MoveAside, RenameAside
<1>1. RestoreTypeOK'
  BY DEF RestoreTypeOK, RestoreInv, MovingHere, Undoing, Part
<1>2. \A p \in Part : Data'[p] = Data[p]
  BY <1>1, DataType, DataTypeNext DEF RestoreInv, Moving, MovingHere, RestoreTypeOK
<1>3. Data' = Data
  BY <1>1, <1>2, DataType, DataTypeNext
<1>4. \A p \in Part : Incoming'[p] = Incoming[p]
  BY <1>1, DataType, DataTypeNext DEF RestoreTypeOK
<1>5. Incoming' = Incoming
  BY <1>1, <1>4, DataType, DataTypeNext
<1>6. Moving'
  BY <1>5 DEF RestoreTypeOK, RestoreInv, Moving
<1>7. MovingHere'
  BY <1>5 DEF RestoreTypeOK, RestoreInv, MovingHere
<1>8. ReplacesByBackup'
  BY <1>3, <1>5 DEF RestoreInv, ReplacesByBackup
<1>9. Undoing'
  BY <1>5 DEF Undoing
<1>10. SetAside'
  BY <1>5 DEF RestoreTypeOK, RestoreInv, Moving, SetAside
<1>11. AllWhole'
  BY <1>3 DEF RestoreInv, AllWhole
<1> QED BY <1>1, <1>3, <1>5, <1>6, <1>7, <1>8, <1>9, <1>10, <1>11 DEF RestoreInv

\* What is installed was about to be committed already.
LEMMA InstallReplacementKeeps ==
    ASSUME RestoreTypeOK, RestoreInv, InstallReplacement, backups' = backups
    PROVE  /\ RestoreTypeOK' /\ RestoreInv'
           /\ Data' = Data /\ Incoming' = Incoming
<1> USE PartFacts, AbsentIsContent DEF InstallReplacement
<1>0. restorer.part \in Part
  BY DEF RestoreInv, MovingHere
<1>1. RestoreTypeOK'
  <2>1. live' \in [Part -> Content] /\ staged' \in [Part -> Content]
    BY <1>0 DEF RestoreTypeOK
  <2>2. restorer' \in [at : {"idle", "move", "install", "undo", "put_back", "done", "failed"},
                        part : 0 .. Parts + 1]
    BY <1>0 DEF Part
  <2> QED BY <2>1, <2>2 DEF RestoreTypeOK
<1>2. \A p \in Part : Data'[p] = Data[p]
  BY <1>1, DataType, DataTypeNext DEF RestoreInv, Moving, MovingHere, RestoreTypeOK
<1>3. Data' = Data
  BY <1>1, <1>2, DataType, DataTypeNext
<1>4. \A p \in Part : Incoming'[p] = Incoming[p]
  BY <1>1, DataType, DataTypeNext DEF RestoreInv, MovingHere, RestoreTypeOK, Part
<1>5. Incoming' = Incoming
  BY <1>1, <1>4, DataType, DataTypeNext
<1>6. Moving'
  <2>1. journal.phase = "installing" /\ restorer.part \in Part
    BY DEF RestoreInv, Moving, MovingHere
  <2>2. \A p \in Part : p # restorer.part => live'[p] = live[p]
    BY <2>1 DEF RestoreTypeOK
  <2>3. restorer' = [at |-> "move", part |-> restorer.part + 1] /\ UNCHANGED <<aside, journal>>
    OBVIOUS
  <2> QED BY <2>1, <2>2, <2>3 DEF RestoreInv, Moving, MovingHere, Part
<1>7. MovingHere'
  BY <1>5 DEF RestoreTypeOK, RestoreInv, Moving, MovingHere
<1>8. ReplacesByBackup'
  BY <1>3, <1>5 DEF RestoreInv, ReplacesByBackup
<1>9. Undoing'
  BY <1>5 DEF Undoing
<1>10. SetAside'
  BY <1>5 DEF RestoreInv, SetAside
<1>11. AllWhole'
  BY <1>3 DEF RestoreInv, AllWhole
<1> QED BY <1>1, <1>3, <1>5, <1>6, <1>7, <1>8, <1>9, <1>10, <1>11 DEF RestoreInv

\* An abort leaves the files as they are.
LEMMA AbortRestoreKeeps ==
    ASSUME RestoreTypeOK, RestoreInv, AbortRestore, backups' = backups
    PROVE  /\ RestoreTypeOK' /\ RestoreInv'
           /\ Data' = Data
<1> USE PartFacts, AbsentIsContent DEF AbortRestore, files
<1>1. RestoreTypeOK'
  BY DEF RestoreTypeOK
<1>2. \A p \in Part : Data'[p] = Data[p]
  BY <1>1, DataType, DataTypeNext
<1>3. Data' = Data
  BY <1>1, <1>2, DataType, DataTypeNext
<1>5. restorer'.at \notin {"move", "install"}
  BY DEF RestoreTypeOK
<1>6. Moving'
  BY <1>5 DEF Moving
<1>7. MovingHere'
  BY <1>5 DEF MovingHere
<1>8. ReplacesByBackup'
  BY <1>3, <1>5 DEF ReplacesByBackup
<1>9. Undoing'
  BY <1>5 DEF RestoreInv, Part, Moving, Undoing
<1>10. SetAside'
  BY <1>5 DEF RestoreInv, SetAside
<1>11. AllWhole'
  BY <1>3 DEF RestoreInv, AllWhole
<1> QED BY <1>1, <1>3, <1>5, <1>6, <1>7, <1>8, <1>9, <1>10, <1>11 DEF RestoreInv

\* What is removed is never what the owner would get back.
LEMMA ReconcilePartKeeps ==
    ASSUME RestoreTypeOK, RestoreInv, ReconcilePart, backups' = backups
    PROVE  /\ RestoreTypeOK' /\ RestoreInv'
           /\ Data' = Data
<1> USE PartFacts, AbsentIsContent DEF ReconcilePart, Undone
<1>0. journal.phase # "none" /\ restorer.part \in Part
  BY DEF RestoreInv, Undoing
<1>1. RestoreTypeOK'
  <2>1. live' \in [Part -> Content] /\ aside' \in [Part -> Content] /\ staged' \in [Part -> Content]
    BY <1>0 DEF RestoreTypeOK
  <2>2. restorer' \in [at : {"idle", "move", "install", "undo", "put_back", "done", "failed"},
                        part : 0 .. Parts + 1]
    BY <1>0 DEF Part, RestoreTypeOK
  <2> QED BY <2>1, <2>2 DEF RestoreTypeOK
<1>2. \A p \in Part : Data'[p] = Data[p]
  BY <1>1, DataType, DataTypeNext DEF RestoreInv, Undoing, RestoreTypeOK
<1>3. Data' = Data
  BY <1>1, <1>2, DataType, DataTypeNext
<1>5. restorer'.at \notin {"move", "install"}
  BY DEF RestoreTypeOK
<1>6. Moving'
  BY <1>5 DEF Moving
<1>7. MovingHere'
  BY <1>5 DEF MovingHere
<1>8. ReplacesByBackup'
  BY <1>3, <1>5 DEF ReplacesByBackup
<1>9. Undoing'
  <2>1. /\ restorer.at = "undo" /\ restorer.part \in Part
        /\ journal' = journal /\ journal.phase # "none"
    BY <1>0
  <2>2. CASE journal.phase = "installed"
    <3>1. aside' = [aside EXCEPT ![restorer.part] = Absent]
          /\ restorer' = [restorer EXCEPT !.part = restorer.part - 1]
      BY <2>2
    <3>2. restorer'.at = "undo" /\ restorer'.part = restorer.part - 1
      BY <3>1 DEF RestoreTypeOK
    <3>3. \A p \in Part : aside'[p] = IF p = restorer.part THEN Absent ELSE aside[p]
      BY <3>1 DEF RestoreTypeOK
    <3> HIDE DEF ReconcilePart
    <3> QED BY <2>1, <2>2, <3>2, <3>3 DEF RestoreInv, Undoing, Part
  <2>3. CASE journal.phase = "installing"
    <3>1. live' = Undone(restorer.part) /\ aside' = aside
          /\ restorer' = [restorer EXCEPT !.at = "put_back"]
      BY <2>3
    <3>2. \A p \in Part : p # restorer.part => live'[p] = live[p]
      BY <2>1, <3>1 DEF RestoreTypeOK
    <3>3. (aside[restorer.part] # Absent \/ restorer.part \notin journal.had)
             => live'[restorer.part] = Absent
      BY <2>1, <3>1 DEF RestoreTypeOK
    <3> HIDE DEF Undone
    <3> QED BY <2>1, <2>3, <3>1, <3>2, <3>3 DEF RestoreInv, Undoing
  <2> QED BY <2>1, <2>2, <2>3 DEF RestoreTypeOK
<1>10. SetAside'
  BY <1>5 DEF RestoreTypeOK, RestoreInv, SetAside
<1>11. AllWhole'
  BY <1>3 DEF RestoreInv, AllWhole
<1> QED BY <1>1, <1>3, <1>5, <1>6, <1>7, <1>8, <1>9, <1>10, <1>11 DEF RestoreInv

\* A part that was aside and is put back.
LEMMA PutBackKeeps ==
    ASSUME RestoreTypeOK, RestoreInv, PutBack, backups' = backups
    PROVE  /\ RestoreTypeOK' /\ RestoreInv'
           /\ Data' = Data
<1> USE PartFacts, AbsentIsContent DEF PutBack
<1>0. restorer.part \in Part
  BY DEF RestoreInv, Undoing
<1>1. RestoreTypeOK'
  <2>1. live' \in [Part -> Content] /\ aside' \in [Part -> Content] /\ staged' \in [Part -> Content]
    BY <1>0 DEF RestoreTypeOK
  <2>2. restorer' \in [at : {"idle", "move", "install", "undo", "put_back", "done", "failed"},
                        part : 0 .. Parts + 1]
    BY <1>0 DEF Part
  <2> QED BY <2>1, <2>2 DEF RestoreTypeOK
<1>2. \A p \in Part : Data'[p] = Data[p]
  BY <1>1, DataType, DataTypeNext DEF RestoreInv, Undoing, SetAside, RestoreTypeOK
<1>3. Data' = Data
  BY <1>1, <1>2, DataType, DataTypeNext
<1>5. restorer'.at \notin {"move", "install"}
  BY DEF RestoreTypeOK
<1>6. Moving'
  BY <1>5 DEF Moving
<1>7. MovingHere'
  BY <1>5 DEF MovingHere
<1>8. ReplacesByBackup'
  BY <1>3, <1>5 DEF ReplacesByBackup
<1>9. Undoing'
  BY <1>5 DEF RestoreTypeOK, RestoreInv, Part, SetAside, Undoing
<1>10. SetAside'
  BY <1>5 DEF RestoreTypeOK, RestoreInv, SetAside
<1>11. AllWhole'
  BY <1>3 DEF RestoreInv, AllWhole
<1> QED BY <1>1, <1>3, <1>5, <1>6, <1>7, <1>8, <1>9, <1>10, <1>11 DEF RestoreInv

\* Without the journal the targets count, which are complete by then.
LEMMA RemoveJournalKeeps ==
    ASSUME RestoreTypeOK, RestoreInv, RemoveJournal, backups' = backups
    PROVE  /\ RestoreTypeOK' /\ RestoreInv'
           /\ Data' = Data
<1> USE PartFacts, AbsentIsContent DEF RemoveJournal, Outcomes, NoJournal
<1>1. RestoreTypeOK'
  BY DEF RestoreTypeOK
<1>2. \A p \in Part : Data'[p] = Data[p]
  BY <1>1, DataType, DataTypeNext DEF RestoreInv, Undoing, Part
<1>3. Data' = Data
  BY <1>1, <1>2, DataType, DataTypeNext
<1>5. restorer'.at \notin {"move", "install"}
  BY DEF RestoreTypeOK
<1>6. Moving'
  BY <1>5 DEF Moving
<1>7. MovingHere'
  BY <1>5 DEF MovingHere
<1>8. ReplacesByBackup'
  BY <1>3, <1>5 DEF ReplacesByBackup
<1>9. Undoing'
  BY <1>5 DEF Undoing
<1>10. SetAside'
  BY <1>5 DEF RestoreInv, Part, SetAside, Undoing
<1>11. AllWhole'
  BY <1>3 DEF RestoreInv, AllWhole
<1> QED BY <1>1, <1>3, <1>5, <1>6, <1>7, <1>8, <1>9, <1>10, <1>11 DEF RestoreInv

\* A step that fails leaves the journal to the next process.
LEMMA GiveUpKeeps ==
    ASSUME RestoreTypeOK, RestoreInv, GiveUp, backups' = backups
    PROVE  /\ RestoreTypeOK' /\ RestoreInv'
           /\ Data' = Data
<1> USE PartFacts, AbsentIsContent DEF GiveUp, Outcomes, files
<1>1. RestoreTypeOK'
  BY DEF RestoreTypeOK
<1>2. \A p \in Part : Data'[p] = Data[p]
  BY <1>1, DataType, DataTypeNext
<1>3. Data' = Data
  BY <1>1, <1>2, DataType, DataTypeNext
<1>5. restorer'.at \notin {"move", "install"}
  BY DEF RestoreTypeOK
<1>6. Moving'
  BY <1>5 DEF Moving
<1>7. MovingHere'
  BY <1>5 DEF MovingHere
<1>8. ReplacesByBackup'
  BY <1>3, <1>5 DEF ReplacesByBackup
<1>9. Undoing'
  BY <1>5 DEF Undoing
<1>10. SetAside'
  BY <1>5 DEF RestoreInv, SetAside
<1>11. AllWhole'
  BY <1>3 DEF RestoreInv, AllWhole
<1> QED BY <1>1, <1>3, <1>5, <1>6, <1>7, <1>8, <1>9, <1>10, <1>11 DEF RestoreInv

\* The commit: all the data become those of one backup at once.
LEMMA WriteInstalledKeeps ==
    ASSUME RestoreTypeOK, RestoreInv, WriteInstalled, backups' = backups
    PROVE  /\ RestoreTypeOK' /\ RestoreInv'
           /\ Data' = Incoming
           /\ \E b \in backups : InEpoch(Data', b, Data)
<1> USE PartFacts DEF WriteInstalled
<1>1. RestoreTypeOK'
  BY DEF RestoreTypeOK
<1>2. \A p \in Part : Data'[p] = Incoming[p]
  <2>1. Data' = live
    BY <1>1, DataTypeNext DEF RestoreTypeOK
  <2>2. \A p \in Part : p < restorer.part
    BY DEF Part
  <2> QED BY <2>1, <2>2, DataType
<1>3. Data' = Incoming
  BY <1>1, <1>2, DataType, DataTypeNext
<1>4. PICK b \in backups : InEpoch(Data', b, Data)
  BY <1>3 DEF RestoreInv, ReplacesByBackup
<1>5. Whole(Data')
  <2>1. Whole(b) /\ b \in [Part -> Content]
    BY DEF RestoreInv, AllWhole, RestoreTypeOK
  <2>2. Data' \in [Part -> Content]
    BY <1>1, DataTypeNext
  <2>3. Data'[Database] # Absent
    BY <1>4, <2>1, <2>2, ContentFacts, PartFacts DEF InEpoch, Whole
  <2>4. ASSUME NEW p \in Part PROVE Data'[p].stamp <= Data'[Database].stamp
    BY <1>4, <2>1, ContentFacts DEF InEpoch, Whole
  <2> QED BY <2>3, <2>4 DEF Whole
<1>6. AllWhole'
  BY <1>5 DEF RestoreInv, AllWhole, Whole
<1>7. Undoing' /\ SetAside' /\ Moving' /\ MovingHere' /\ ReplacesByBackup'
  BY DEF Part, Moving, MovingHere, Undoing, SetAside, ReplacesByBackup
<1> QED BY <1>1, <1>3, <1>4, <1>6, <1>7 DEF RestoreInv

\* The next process begins at the last part, whatever the one before it has done.
LEMMA BeginReconcileKeeps ==
    ASSUME RestoreTypeOK, RestoreInv, BeginReconcile, backups' = backups
    PROVE  RestoreTypeOK' /\ RestoreInv' /\ Data' = Data
<1> USE PartFacts DEF BeginReconcile, files
<1>1. RestoreTypeOK'
  BY DEF RestoreTypeOK
<1>2. Data' = Data
  BY DEF Data
<1>3. AllWhole'
  BY <1>2 DEF RestoreInv, AllWhole, Whole
<1>4. Undoing' /\ SetAside' /\ Moving' /\ MovingHere' /\ ReplacesByBackup'
  BY DEF RestoreInv, Part, Moving, MovingHere, Undoing, SetAside, ReplacesByBackup
<1> QED BY <1>1, <1>2, <1>3, <1>4 DEF RestoreInv

\* A process that ends, in order or not, leaves the files as they are.
LEMMA RestorerRests ==
    ASSUME RestoreTypeOK, RestoreInv, restorer' = Resting, UNCHANGED <<files, backups>>
    PROVE  RestoreTypeOK' /\ RestoreInv' /\ Data' = Data
<1> USE PartFacts DEF files, Resting
<1>1. RestoreTypeOK'
  BY DEF RestoreTypeOK
<1>2. Data' = Data
  BY DEF Data
<1>3. AllWhole'
  BY <1>2 DEF RestoreInv, AllWhole, Whole
<1>4. Undoing' /\ SetAside' /\ Moving' /\ MovingHere' /\ ReplacesByBackup'
  BY DEF RestoreInv, Moving, MovingHere, Undoing, SetAside, ReplacesByBackup
<1> QED BY <1>1, <1>2, <1>3, <1>4 DEF RestoreInv

\* The first journal of a restore, with the backup raised to a new epoch.
LEMMA BeginRestoreKeeps ==
    ASSUME RestoreTypeOK, RestoreInv, NEW b \in backups, BeginRestore(b), backups' = backups
    PROVE  /\ RestoreTypeOK' /\ RestoreInv'
           /\ Data' = Data
           /\ Incoming'[Database].by = b[Database].by
<1> USE PartFacts, ContentFacts DEF BeginRestore
<1>1. b \in [Part -> Content] /\ live \in [Part -> Content] /\ Whole(b) /\ Data = live
  BY DataType, DataTypeNext DEF RestoreTypeOK, RestoreInv, AllWhole
<1>2. \E e \in 0 .. MaxEpoch :
         /\ e > b[Database].epoch /\ e > live[Database].epoch
         /\ Raised(b) = [b EXCEPT ![Database] =
                            [stamp |-> b[Database].stamp, epoch |-> e, by |-> b[Database].by]]
  <2>1. b[Database] \in Content /\ live[Database] \in Content /\ b[Database] # Absent
    BY <1>1 DEF Whole
  <2> DEFINE e == Larger(b[Database].epoch, live[Database].epoch) + 1
  <2>2. e \in 0 .. MaxEpoch /\ e > b[Database].epoch /\ e > live[Database].epoch
    BY <2>1, PartsAssumption DEF Larger
  <2>3. [b[Database] EXCEPT !.epoch = e]
               = [stamp |-> b[Database].stamp, epoch |-> e, by |-> b[Database].by]
    BY <2>1
  <2>4. Raised(b) = [b EXCEPT ![Database] = [b[Database] EXCEPT !.epoch = e]]
    BY DEF Raised, Larger
  <2> QED BY <2>2, <2>3, <2>4
<1>3. Raised(b) \in [Part -> Content] /\ InEpoch(Raised(b), b, live)
      /\ Raised(b)[Database].by = b[Database].by
  <2>1. PICK e \in 0 .. MaxEpoch :
         /\ e > b[Database].epoch /\ e > live[Database].epoch
         /\ Raised(b) = [b EXCEPT ![Database] =
                            [stamp |-> b[Database].stamp, epoch |-> e, by |-> b[Database].by]]
    BY <1>2
  <2>2. b[Database] \in Content /\ b[Database] # Absent
    BY <1>1 DEF Whole
  <2>3. [stamp |-> b[Database].stamp, epoch |-> e, by |-> b[Database].by] \in Content
    BY <2>2
  <2> QED BY <1>1, <2>1, <2>3 DEF InEpoch
<1>4. RestoreTypeOK'
  BY <1>3 DEF RestoreTypeOK
<1>5. \A p \in Part : Data'[p] = Data[p]
  BY <1>1, <1>4, DataType, DataTypeNext DEF RestoreInv, SetAside, RestoreTypeOK
<1>6. Data' = Data
  BY <1>4, <1>5, DataType, DataTypeNext
<1>7. \A p \in Part : Incoming'[p] = Raised(b)[p]
  BY <1>4, DataType, DataTypeNext DEF Part, RestoreTypeOK
<1>8. Incoming' = Raised(b)
  BY <1>3, <1>4, <1>7, DataType, DataTypeNext
<1>9. ReplacesByBackup'
  BY <1>1, <1>3, <1>6, <1>8 DEF ReplacesByBackup, InEpoch
<1>10. AllWhole'
  BY <1>6 DEF RestoreInv, AllWhole, Whole
<1>11. Undoing' /\ SetAside' /\ Moving' /\ MovingHere'
  BY <1>1 DEF RestoreInv, Part, Moving, MovingHere, Undoing, SetAside
<1> QED BY <1>3, <1>4, <1>6, <1>8, <1>9, <1>10, <1>11 DEF RestoreInv

-----------------------------------------------------------------------------
(***************************************************************************)
(* The steps of the update.  None but the backup it makes and the data a   *)
(* recovery saves touches what a restore is about.                         *)
(***************************************************************************)
\* An update that has no backup yet is told apart from one that has.
LEMMA NoBackupType == NoBackup \in [Part -> Content] /\ ~Whole(NoBackup)
BY AbsentIsContent, PartFacts DEF NoBackup, Whole

LEMMA ApplyKeeps == ASSUME IInv, Apply PROVE IInv'
<1> USE DEF IInv, Apply, Quiet, NoUpdate, At, Go, Write, Phase, Untouched
<1>1. /\ RestoreTypeOK' /\ RestoreInv'
      /\ Data' = Data /\ Incoming' = Incoming
      /\ backups \subseteq backups' /\ UNCHANGED <<files, restorer>>
  BY FilesStay, DataType DEF TypeOK, PlaceInv, Offstage
<1>2. TypeOK'
  BY NoBackupType, <1>1 DEF TypeOK, Version, PlaceInv
<1>3. Offstage'
  BY <1>1 DEF Offstage, files, TypeOK
<1>4. Runs'
  BY <1>1 DEF Runs
<1>5. PhaseInv'
  BY <1>1 DEF PhaseInv, PreviousInPlace
<1>6. PlaceInv'
  BY <1>1 DEF PlaceInv
<1>7. RestoreFits'
  BY <1>1 DEF RestoreFits
<1>8. Saved'
  BY <1>1 DEF Saved
<1> QED BY <1>1, <1>2, <1>3, <1>4, <1>5, <1>6, <1>7, <1>8

LEMMA StageArchiveKeeps == ASSUME IInv, StageArchive PROVE IInv'
<1> USE DEF IInv, StageArchive, NoUpdate, Unused, At, Go, Write, Phase, Untouched
<1>1. /\ RestoreTypeOK' /\ RestoreInv'
      /\ Data' = Data /\ Incoming' = Incoming
      /\ backups \subseteq backups' /\ UNCHANGED <<files, restorer>>
  BY FilesStay, DataType DEF TypeOK, PlaceInv, Offstage
<1>2. TypeOK'
  <2>1. update' \in [phase : {"none", "staging", "stopping", "backup_verified", "activated",
                              "rolling_back", "committed"},
                     backup : [Part -> Content]]
    BY NoBackupType DEF TypeOK
  <2>2. updater' \in [at : {"stop", "idle"}, recovers : BOOLEAN]
    <3>1. CASE Go("stop")
      BY <3>1 DEF TypeOK
    <3>2. CASE updater' = Unused
      BY <3>2
    <3> QED BY <3>1, <3>2
  <2> QED BY <1>1, <2>1, <2>2 DEF TypeOK, Version
<1>3. Offstage'
  BY <1>1 DEF Offstage, files, TypeOK
<1>4. Runs'
  BY <1>1 DEF Runs, PlaceInv, PhaseInv, PreviousInPlace
<1>5. PhaseInv'
  BY <1>1 DEF PhaseInv, PlaceInv, PreviousInPlace, TypeOK
<1>6. PlaceInv'
  BY <1>1 DEF PlaceInv, TypeOK
<1>7. RestoreFits'
  BY <1>1 DEF RestoreFits, TypeOK
<1>8. Saved'
  BY <1>1 DEF Saved, TypeOK
<1> QED BY <1>1, <1>2, <1>3, <1>4, <1>5, <1>6, <1>7, <1>8

LEMMA StopForUpdateKeeps == ASSUME IInv, StopForUpdate PROVE IInv'
<1> USE DEF IInv, StopForUpdate, At, Go, Write, Phase, Untouched
<1>1. /\ RestoreTypeOK' /\ RestoreInv'
      /\ Data' = Data /\ Incoming' = Incoming
      /\ backups \subseteq backups' /\ UNCHANGED <<files, restorer>>
  BY FilesStay, DataType DEF TypeOK, PlaceInv, Offstage
<1>2. TypeOK'
  BY NoBackupType, <1>1 DEF TypeOK, Version, PlaceInv
<1>3. Offstage'
  BY <1>1 DEF Offstage, files, TypeOK
<1>4. Runs'
  BY <1>1 DEF Runs
<1>5. PhaseInv'
  BY <1>1 DEF PhaseInv, PreviousInPlace, BackupOk
<1>6. PlaceInv'
  BY <1>1 DEF PlaceInv
<1>7. RestoreFits'
  BY <1>1 DEF RestoreFits
<1>8. Saved'
  BY <1>1 DEF Saved
<1> QED BY <1>1, <1>2, <1>3, <1>4, <1>5, <1>6, <1>7, <1>8

LEMMA BackUpKeeps == ASSUME IInv, BackUp PROVE IInv'
<1> USE DEF IInv, BackUp, At, Go, Write, Phase, Untouched
<1>1. /\ RestoreTypeOK' /\ RestoreInv'
      /\ Data' = Data /\ Incoming' = Incoming
      /\ backups \subseteq backups' /\ UNCHANGED <<files, restorer>>
  BY FilesStay, DataType DEF TypeOK, PlaceInv, Offstage
<1>2. TypeOK'
  <2>1. update' \in [phase : {"none", "staging", "stopping", "backup_verified", "activated",
                              "rolling_back", "committed"},
                     backup : [Part -> Content]]
    BY DEF TypeOK, RestoreTypeOK
  <2> QED BY <1>1, <2>1 DEF TypeOK, Version
<1>3. Offstage'
  BY <1>1 DEF Offstage, files, TypeOK
<1>4. Runs'
  BY <1>1 DEF Runs
<1>5. PhaseInv'
  <2>1. Data = live
    BY DataType DEF TypeOK, Offstage
  <2>2. PreviousInPlace /\ live \in backups'
    BY DEF PlaceInv, PhaseInv
  <2>3. update' = [phase |-> "backup_verified", backup |-> live] /\ updater'.at = "activate"
    BY DEF TypeOK
  <2> QED BY <1>1, <2>1, <2>2, <2>3 DEF PhaseInv, BackupOk, PreviousInPlace
<1>6. PlaceInv'
  BY <1>1 DEF PlaceInv, PhaseInv, PreviousInPlace
<1>7. RestoreFits'
  BY <1>1 DEF RestoreFits
<1>8. Saved'
  BY <1>1 DEF Saved
<1> QED BY <1>1, <1>2, <1>3, <1>4, <1>5, <1>6, <1>7, <1>8

LEMMA ActivateKeeps == ASSUME IInv, Activate PROVE IInv'
<1> USE DEF IInv, Activate, At, Go, Write, Phase, Untouched
<1>1. /\ RestoreTypeOK' /\ RestoreInv'
      /\ Data' = Data /\ Incoming' = Incoming
      /\ backups \subseteq backups' /\ UNCHANGED <<files, restorer>>
  BY FilesStay, DataType DEF TypeOK, PlaceInv, Offstage
<1>2. TypeOK'
  BY NoBackupType, <1>1 DEF TypeOK, Version, PlaceInv
<1>3. Offstage'
  BY <1>1 DEF Offstage, files, TypeOK
<1>4. Runs'
  BY <1>1 DEF Runs, PlaceInv
<1>5. PhaseInv'
  BY <1>1 DEF PhaseInv, PlaceInv, BackupOk
<1>6. PlaceInv'
  BY <1>1 DEF PlaceInv, PhaseInv, PreviousInPlace
<1>7. RestoreFits'
  BY <1>1 DEF RestoreFits, Reads
<1>8. Saved'
  BY <1>1 DEF Saved
<1> QED BY <1>1, <1>2, <1>3, <1>4, <1>5, <1>6, <1>7, <1>8

LEMMA WriteActivatedKeeps == ASSUME IInv, WriteActivated PROVE IInv'
<1> USE DEF IInv, WriteActivated, At, Go, Write, Phase, Untouched
<1>1. /\ RestoreTypeOK' /\ RestoreInv'
      /\ Data' = Data /\ Incoming' = Incoming
      /\ backups \subseteq backups' /\ UNCHANGED <<files, restorer>>
  BY FilesStay, DataType DEF TypeOK, PlaceInv, Offstage
<1>2. TypeOK'
  BY NoBackupType, <1>1 DEF TypeOK, Version, PlaceInv
<1>3. Offstage'
  BY <1>1 DEF Offstage, files, TypeOK
<1>4. Runs'
  BY <1>1 DEF Runs
<1>5. PhaseInv'
  BY <1>1 DEF PhaseInv, PlaceInv, BackupOk
<1>6. PlaceInv'
  BY <1>1 DEF PlaceInv
<1>7. RestoreFits'
  BY <1>1 DEF RestoreFits
<1>8. Saved'
  BY <1>1 DEF Saved
<1> QED BY <1>1, <1>2, <1>3, <1>4, <1>5, <1>6, <1>7, <1>8

LEMMA PreparationFailsKeeps == ASSUME IInv, PreparationFails PROVE IInv'
<1> USE DEF IInv, PreparationFails, At, Go, Write, Phase, Untouched
<1>1. /\ RestoreTypeOK' /\ RestoreInv'
      /\ Data' = Data /\ Incoming' = Incoming
      /\ backups \subseteq backups' /\ UNCHANGED <<files, restorer>>
  BY FilesStay, DataType DEF TypeOK, PlaceInv, Offstage
<1>2. TypeOK'
  BY NoBackupType, <1>1 DEF TypeOK, Version, PlaceInv
<1>3. Offstage'
  BY <1>1 DEF Offstage, files, TypeOK
<1>4. Runs'
  BY <1>1 DEF Runs
<1>5. PhaseInv'
  BY <1>1 DEF PhaseInv, PreviousInPlace, BackupOk
<1>6. PlaceInv'
  BY <1>1 DEF PlaceInv, PhaseInv, PreviousInPlace
<1>7. RestoreFits'
  BY <1>1 DEF RestoreFits
<1>8. Saved'
  BY <1>1 DEF Saved
<1> QED BY <1>1, <1>2, <1>3, <1>4, <1>5, <1>6, <1>7, <1>8

LEMMA InstallCandidateKeeps == ASSUME IInv, InstallCandidate PROVE IInv'
<1> USE DEF IInv, InstallCandidate, At, Go, Write, Phase, Untouched
<1>1. /\ RestoreTypeOK' /\ RestoreInv'
      /\ Data' = Data /\ Incoming' = Incoming
      /\ backups \subseteq backups' /\ UNCHANGED <<files, restorer>>
  BY FilesStay, DataType DEF TypeOK, PlaceInv, Offstage
<1>2. TypeOK'
  BY NoBackupType, <1>1 DEF TypeOK, Version, PlaceInv
<1>3. Offstage'
  BY <1>1 DEF Offstage, files, TypeOK
<1>4. Runs'
  BY <1>1 DEF Runs, PlaceInv
<1>5. PhaseInv'
  BY <1>1 DEF PhaseInv, PlaceInv, BackupOk
<1>6. PlaceInv'
  BY <1>1 DEF PlaceInv
<1>7. RestoreFits'
  BY <1>1 DEF RestoreFits
<1>8. Saved'
  BY <1>1 DEF Saved
<1> QED BY <1>1, <1>2, <1>3, <1>4, <1>5, <1>6, <1>7, <1>8

LEMMA WaitForCandidateKeeps == ASSUME IInv, WaitForCandidate PROVE IInv'
<1> USE DEF IInv, WaitForCandidate, UnreadyGoes, At, Go, Write, Phase, Untouched
<1>1. /\ RestoreTypeOK' /\ RestoreInv'
      /\ Data' = Data /\ Incoming' = Incoming
      /\ backups \subseteq backups' /\ UNCHANGED <<files, restorer>>
  BY FilesStay, DataType DEF TypeOK, PlaceInv, Offstage
<1>2. TypeOK'
  BY NoBackupType, <1>1 DEF TypeOK, Version, PlaceInv
<1>3. Offstage'
  BY <1>1 DEF Offstage, files, TypeOK
<1>4. Runs'
  BY <1>1 DEF Runs
<1>5. PhaseInv'
  BY <1>1 DEF PhaseInv, PreviousInPlace, BackupOk
<1>6. PlaceInv'
  BY <1>1 DEF PlaceInv, TypeOK
<1>7. RestoreFits'
  BY <1>1 DEF RestoreFits, TypeOK
<1>8. Saved'
  BY <1>1 DEF Saved, TypeOK
<1> QED BY <1>1, <1>2, <1>3, <1>4, <1>5, <1>6, <1>7, <1>8

LEMMA CommitKeeps == ASSUME IInv, Commit PROVE IInv'
<1> USE DEF IInv, Commit, At, Go, Write, Phase, Untouched
<1>1. /\ RestoreTypeOK' /\ RestoreInv'
      /\ Data' = Data /\ Incoming' = Incoming
      /\ backups \subseteq backups' /\ UNCHANGED <<files, restorer>>
  BY FilesStay, DataType DEF TypeOK, PlaceInv, Offstage
<1>2. TypeOK'
  BY NoBackupType, <1>1 DEF TypeOK, Version, PlaceInv
<1>3. Offstage'
  BY <1>1 DEF Offstage, files, TypeOK
<1>4. Runs'
  BY <1>1 DEF Runs
<1>5. PhaseInv'
  BY <1>1 DEF PhaseInv, PlaceInv
<1>6. PlaceInv'
  BY <1>1 DEF PlaceInv
<1>7. RestoreFits'
  BY <1>1 DEF RestoreFits
<1>8. Saved'
  BY <1>1 DEF Saved
<1> QED BY <1>1, <1>2, <1>3, <1>4, <1>5, <1>6, <1>7, <1>8

LEMMA ClearJournalKeeps == ASSUME IInv, ClearJournal PROVE IInv'
<1> USE DEF IInv, ClearJournal, NoUpdate, Unused, At, Go, Write, Phase, Untouched
<1>1. /\ RestoreTypeOK' /\ RestoreInv'
      /\ Data' = Data /\ Incoming' = Incoming
      /\ backups \subseteq backups' /\ UNCHANGED <<files, restorer>>
  BY FilesStay, DataType DEF TypeOK, PlaceInv, Offstage
<1>2. TypeOK'
  BY NoBackupType, <1>1 DEF TypeOK, Version, PlaceInv
<1>3. Offstage'
  BY <1>1 DEF Offstage, files, TypeOK
<1>4. Runs'
  BY <1>1 DEF Runs
<1>5. PhaseInv'
  BY <1>1 DEF PhaseInv, PlaceInv, PreviousInPlace
<1>6. PlaceInv'
  BY <1>1 DEF PlaceInv
<1>7. RestoreFits'
  BY <1>1 DEF RestoreFits
<1>8. Saved'
  BY <1>1 DEF Saved
<1> QED BY <1>1, <1>2, <1>3, <1>4, <1>5, <1>6, <1>7, <1>8

LEMMA RollBackKeeps == ASSUME IInv, RollBack PROVE IInv'
<1> USE DEF IInv, RollBack, At, Go, Write, Phase, Untouched
<1>1. /\ RestoreTypeOK' /\ RestoreInv'
      /\ Data' = Data /\ Incoming' = Incoming
      /\ backups \subseteq backups' /\ UNCHANGED <<files, restorer>>
  BY FilesStay, DataType DEF TypeOK, PlaceInv, Offstage
<1>2. TypeOK'
  BY NoBackupType, <1>1 DEF TypeOK, Version, PlaceInv
<1>3. Offstage'
  BY <1>1 DEF Offstage, files, TypeOK
<1>4. Runs'
  BY <1>1 DEF Runs
<1>5. PhaseInv'
  BY <1>1 DEF PhaseInv, PlaceInv, BackupOk
<1>6. PlaceInv'
  BY <1>1 DEF PlaceInv
<1>7. RestoreFits'
  BY <1>1 DEF RestoreFits
<1>8. Saved'
  BY <1>1 DEF Saved
<1> QED BY <1>1, <1>2, <1>3, <1>4, <1>5, <1>6, <1>7, <1>8

LEMMA StopForRollbackKeeps == ASSUME IInv, StopForRollback PROVE IInv'
<1> USE DEF IInv, StopForRollback, At, Go, Write, Phase, Untouched
<1>1. /\ RestoreTypeOK' /\ RestoreInv'
      /\ Data' = Data /\ Incoming' = Incoming
      /\ backups \subseteq backups' /\ UNCHANGED <<files, restorer>>
  BY FilesStay, DataType DEF TypeOK, PlaceInv, Offstage
<1>2. TypeOK'
  BY NoBackupType, <1>1 DEF TypeOK, Version, PlaceInv
<1>3. Offstage'
  BY <1>1 DEF Offstage, files, TypeOK
<1>4. Runs'
  BY <1>1 DEF Runs
<1>5. PhaseInv'
  BY <1>1 DEF PhaseInv, PreviousInPlace, BackupOk
<1>6. PlaceInv'
  <2>1. update.backup # NoBackup
    BY PartFacts DEF PlaceInv, PhaseInv, BackupOk, Previous, NoBackup, Absent
  <2>2. updater' = [updater EXCEPT !.at = "restore"]
    BY <2>1
  <2> HIDE DEF StopForRollback
  <2>3. updater'.at = "restore" /\ At("stop_again") /\ service' = "stopped" /\ UNCHANGED update
    BY <2>2 DEF TypeOK, StopForRollback
  <2> QED BY <2>3 DEF PlaceInv
<1>7. RestoreFits'
  BY <1>1 DEF RestoreFits
<1>8. Saved'
  BY <1>1 DEF Saved
<1> QED BY <1>1, <1>2, <1>3, <1>4, <1>5, <1>6, <1>7, <1>8

LEMMA AbandonKeeps == ASSUME IInv, Abandon PROVE IInv'
<1> USE DEF IInv, Abandon, At, Go, Write, Phase, Untouched
<1>1. /\ RestoreTypeOK' /\ RestoreInv'
      /\ Data' = Data /\ Incoming' = Incoming
      /\ backups \subseteq backups' /\ UNCHANGED <<files, restorer>>
  BY FilesStay, DataType DEF TypeOK, PlaceInv, Offstage
<1>2. TypeOK'
  BY NoBackupType, <1>1 DEF TypeOK, Version, PlaceInv
<1>3. Offstage'
  BY <1>1 DEF Offstage, files, TypeOK
<1>4. Runs'
  BY <1>1 DEF Runs
<1>5. PhaseInv'
  BY <1>1 DEF PhaseInv, PlaceInv, PreviousInPlace, BackupOk
<1>6. PlaceInv'
  BY <1>1 DEF PlaceInv, Runs, PreviousInPlace
<1>7. RestoreFits'
  BY <1>1 DEF RestoreFits, Offstage
<1>8. Saved'
  BY <1>1 DEF Saved
<1> QED BY <1>1, <1>2, <1>3, <1>4, <1>5, <1>6, <1>7, <1>8

LEMMA ReinstallKeeps == ASSUME IInv, Reinstall PROVE IInv'
<1> USE DEF IInv, Reinstall, At, Go, Write, Phase, Untouched
<1>1. /\ RestoreTypeOK' /\ RestoreInv'
      /\ Data' = Data /\ Incoming' = Incoming
      /\ backups \subseteq backups' /\ UNCHANGED <<files, restorer>>
  BY FilesStay, DataType DEF TypeOK, PlaceInv, Offstage
<1>2. TypeOK'
  BY NoBackupType, <1>1 DEF TypeOK, Version, PlaceInv
<1>3. Offstage'
  BY <1>1 DEF Offstage, files, TypeOK
<1>4. Runs'
  BY <1>1 DEF Runs, PlaceInv
<1>5. PhaseInv'
  BY <1>1 DEF PhaseInv, PlaceInv, PreviousInPlace, BackupOk
<1>6. PlaceInv'
  BY <1>1 DEF PlaceInv, PreviousInPlace
<1>7. RestoreFits'
  BY <1>1 DEF RestoreFits
<1>8. Saved'
  BY <1>1 DEF Saved
<1> QED BY <1>1, <1>2, <1>3, <1>4, <1>5, <1>6, <1>7, <1>8

LEMMA WaitForPreviousKeeps == ASSUME IInv, WaitForPrevious PROVE IInv'
<1> USE DEF IInv, WaitForPrevious, Unused, At, Go, Write, Phase, Untouched
<1>1. /\ RestoreTypeOK' /\ RestoreInv'
      /\ Data' = Data /\ Incoming' = Incoming
      /\ backups \subseteq backups' /\ UNCHANGED <<files, restorer>>
  BY FilesStay, DataType DEF TypeOK, PlaceInv, Offstage
<1>2. TypeOK'
  <2>1. CASE Go("discard")
    BY <1>1, <2>1 DEF TypeOK, Version
  <2>2. CASE updater' = Unused
    BY <1>1, <2>2 DEF TypeOK, Version
  <2> QED BY <2>1, <2>2
<1>3. Offstage'
  BY <1>1 DEF Offstage, files, TypeOK
<1>4. Runs'
  BY <1>1 DEF Runs
<1>5. PhaseInv'
  BY <1>1 DEF PhaseInv, PreviousInPlace, BackupOk
<1>6. PlaceInv'
  BY <1>1 DEF PlaceInv, PreviousInPlace, TypeOK
<1>7. RestoreFits'
  BY <1>1 DEF RestoreFits, TypeOK
<1>8. Saved'
  BY <1>1 DEF Saved, TypeOK
<1> QED BY <1>1, <1>2, <1>3, <1>4, <1>5, <1>6, <1>7, <1>8

LEMMA DiscardCandidateKeeps == ASSUME IInv, DiscardCandidate PROVE IInv'
<1> USE DEF IInv, DiscardCandidate, At, Go, Write, Phase, Untouched
<1>1. /\ RestoreTypeOK' /\ RestoreInv'
      /\ Data' = Data /\ Incoming' = Incoming
      /\ backups \subseteq backups' /\ UNCHANGED <<files, restorer>>
  BY FilesStay, DataType DEF TypeOK, PlaceInv, Offstage
<1>2. TypeOK'
  BY NoBackupType, <1>1 DEF TypeOK, Version, PlaceInv
<1>3. Offstage'
  BY <1>1 DEF Offstage, files, TypeOK
<1>4. Runs'
  BY <1>1 DEF Runs, PlaceInv, PreviousInPlace
<1>5. PhaseInv'
  BY <1>1 DEF PhaseInv, PreviousInPlace, BackupOk
<1>6. PlaceInv'
  BY <1>1 DEF PlaceInv, PreviousInPlace
<1>7. RestoreFits'
  BY <1>1 DEF RestoreFits
<1>8. Saved'
  BY <1>1 DEF Saved
<1> QED BY <1>1, <1>2, <1>3, <1>4, <1>5, <1>6, <1>7, <1>8

LEMMA RecoverKeeps == ASSUME IInv, Recover PROVE IInv'
<1> USE DEF IInv, Recover, Quiet, RecoveryOf, At, Go, Write, Phase, Untouched
<1>1. /\ RestoreTypeOK' /\ RestoreInv'
      /\ Data' = Data /\ Incoming' = Incoming
      /\ backups \subseteq backups' /\ UNCHANGED <<files, restorer>>
  BY FilesStay, DataType DEF TypeOK, PlaceInv, Offstage
<1>2. TypeOK'
  BY NoBackupType, <1>1 DEF TypeOK, Version, PlaceInv
<1>3. Offstage'
  BY <1>1 DEF Offstage, files, TypeOK
<1>4. Runs'
  BY <1>1 DEF Runs
<1>5. PhaseInv'
  BY <1>1 DEF PhaseInv, PreviousInPlace, BackupOk
<1>6. PlaceInv'
  BY <1>1 DEF PlaceInv, PhaseInv, Runs, PreviousInPlace, Version, TypeOK
<1>7. RestoreFits'
  BY <1>1 DEF RestoreFits
<1>8. Saved'
  BY <1>1 DEF Saved
<1> QED BY <1>1, <1>2, <1>3, <1>4, <1>5, <1>6, <1>7, <1>8

LEMMA ProbeKeeps == ASSUME IInv, Probe PROVE IInv'
<1> USE DEF IInv, Probe, At, Go, Write, Phase, Untouched
<1>1. /\ RestoreTypeOK' /\ RestoreInv'
      /\ Data' = Data /\ Incoming' = Incoming
      /\ backups \subseteq backups' /\ UNCHANGED <<files, restorer>>
  BY FilesStay, DataType DEF TypeOK, PlaceInv, Offstage
<1>2. TypeOK'
  BY NoBackupType, <1>1 DEF TypeOK, Version, PlaceInv
<1>3. Offstage'
  BY <1>1 DEF Offstage, files, TypeOK
<1>4. Runs'
  BY <1>1 DEF Runs
<1>5. PhaseInv'
  BY <1>1 DEF PhaseInv, PreviousInPlace, BackupOk
<1>6. PlaceInv'
  BY <1>1 DEF PlaceInv, Runs, TypeOK
<1>7. RestoreFits'
  BY <1>1 DEF RestoreFits, TypeOK
<1>8. Saved'
  BY <1>1 DEF Saved, TypeOK
<1> QED BY <1>1, <1>2, <1>3, <1>4, <1>5, <1>6, <1>7, <1>8

LEMMA StopForRecoveryKeeps == ASSUME IInv, StopForRecovery PROVE IInv'
<1> USE DEF IInv, StopForRecovery, AfterStop, At, Go, Write, Phase, Untouched
<1>1. /\ RestoreTypeOK' /\ RestoreInv'
      /\ Data' = Data /\ Incoming' = Incoming
      /\ backups \subseteq backups' /\ UNCHANGED <<files, restorer>>
  BY FilesStay, DataType DEF TypeOK, PlaceInv, Offstage
<1>2. TypeOK'
  BY NoBackupType, <1>1 DEF TypeOK, Version, PlaceInv
<1>3. Offstage'
  BY <1>1 DEF Offstage, files, TypeOK
<1>4. Runs'
  BY <1>1 DEF Runs
<1>5. PhaseInv'
  BY <1>1 DEF PhaseInv, PreviousInPlace, BackupOk
<1>6. PlaceInv'
  BY <1>1 DEF PlaceInv
<1>7. RestoreFits'
  BY <1>1 DEF RestoreFits
<1>8. Saved'
  BY <1>1 DEF Saved
<1> QED BY <1>1, <1>2, <1>3, <1>4, <1>5, <1>6, <1>7, <1>8

LEMMA PreserveDataKeeps == ASSUME IInv, PreserveData PROVE IInv'
<1> USE DEF IInv, PreserveData, At, Go, Write, Phase, Untouched
<1>1. /\ RestoreTypeOK' /\ RestoreInv'
      /\ Data' = Data /\ Incoming' = Incoming
      /\ backups \subseteq backups' /\ UNCHANGED <<files, restorer>>
  BY FilesStay, DataType DEF TypeOK, PlaceInv, Offstage
<1>2. TypeOK'
  BY NoBackupType, <1>1 DEF TypeOK, Version, PlaceInv
<1>3. Offstage'
  BY <1>1 DEF Offstage, files, TypeOK
<1>4. Runs'
  BY <1>1 DEF Runs
<1>5. PhaseInv'
  BY <1>1 DEF PhaseInv, PreviousInPlace, BackupOk
<1>6. PlaceInv'
  BY <1>1 DEF PlaceInv
<1>7. RestoreFits'
  BY <1>1 DEF RestoreFits
<1>8. Saved'
  <2>1. Data = live
    BY DataType DEF TypeOK, Offstage, PlaceInv
  <2> QED BY <1>1, <2>1 DEF Saved, PlaceInv, TypeOK
<1> QED BY <1>1, <1>2, <1>3, <1>4, <1>5, <1>6, <1>7, <1>8

-----------------------------------------------------------------------------
(***************************************************************************)
(* The steps of the restorer, of the owner and of the service.             *)
(***************************************************************************)
\* A step of the restorer, whichever it is, as the update sees it.
LEMMA RestoreStepKeeps ==
    ASSUME RestoreTypeOK, RestoreInv, RestoreStep, backups' = backups
    PROVE  /\ RestoreTypeOK' /\ RestoreInv'
           /\ restorer.at # "idle" /\ restorer'.at # "idle"
           /\ restorer'.at \in {"move", "install"} =>
                 restorer.at \in {"move", "install"} /\ Incoming' = Incoming
           /\ journal'.phase = "installing" => journal.phase = "installing"
           /\ \/ /\ Data' = Data
                 /\ journal'.phase \in {journal.phase, "none"}
                 /\ (journal'.phase = "installed" \/ restorer'.at = "done")
                       => journal.phase = "installed"
              \/ /\ Data' = Incoming /\ restorer.at = "move"
                 /\ journal.phase = "installing" /\ journal'.phase = "installed"
                 /\ \E b \in backups : InEpoch(Data', b, Data)
<1> USE DEF RestoreTypeOK
<1>1. CASE MoveAside
  BY <1>1, MoveAsideKeeps DEF MoveAside
<1>2. CASE InstallReplacement
  BY <1>2, InstallReplacementKeeps DEF InstallReplacement
<1>3. CASE WriteInstalled
  BY <1>3, WriteInstalledKeeps DEF WriteInstalled, RestoreInv, Moving
<1>4. CASE AbortRestore
  BY <1>4, AbortRestoreKeeps DEF AbortRestore, files
<1>5. CASE ReconcilePart
  BY <1>5, ReconcilePartKeeps DEF ReconcilePart
<1>6. CASE PutBack
  BY <1>6, PutBackKeeps DEF PutBack
<1>7. CASE RemoveJournal
  BY <1>7, RemoveJournalKeeps DEF RemoveJournal, NoJournal, Outcomes
<1>8. CASE GiveUp
  BY <1>8, GiveUpKeeps DEF GiveUp, files, Outcomes
<1> QED BY <1>1, <1>2, <1>3, <1>4, <1>5, <1>6, <1>7, <1>8 DEF RestoreStep

\* The restorer goes on.
LEMMA RestoringKeeps == ASSUME IInv, Restoring PROVE IInv'
<1> USE DEF IInv, Restoring, updating
<1>1. /\ RestoreTypeOK' /\ RestoreInv'
      /\ restorer.at # "idle" /\ restorer'.at # "idle"
      /\ restorer'.at \in {"move", "install"} =>
            restorer.at \in {"move", "install"} /\ Incoming' = Incoming
      /\ journal'.phase = "installing" => journal.phase = "installing"
      /\ \/ /\ Data' = Data
            /\ journal'.phase \in {journal.phase, "none"}
            /\ (journal'.phase = "installed" \/ restorer'.at = "done")
                  => journal.phase = "installed"
         \/ /\ Data' = Incoming /\ restorer.at = "move"
            /\ journal.phase = "installing" /\ journal'.phase = "installed"
  BY RestoreStepKeeps DEF TypeOK
<1>2. updater.at \in {"idle", "restoring"} /\ UNCHANGED <<updating, backups>>
  BY <1>1 DEF Offstage
<1>3. TypeOK'
  BY <1>1 DEF TypeOK
<1>4. Offstage'
  BY <1>1 DEF Offstage
<1>5. Runs'
  BY DEF Runs
<1>6. PhaseInv'
  <2>1. PreviousInPlace => PreviousInPlace'
    BY <1>1 DEF PreviousInPlace, Previous, RestoreFits, Reads
  <2> QED BY <2>1 DEF PhaseInv, BackupOk, Previous
<1>7. PlaceInv'
  BY <1>2 DEF PlaceInv, At
<1>8. RestoreFits'
  BY <1>1 DEF RestoreFits, At
<1>9. Saved'
  <2>1. CASE journal'.phase = "installing"
    BY <1>1, <1>2, <2>1 DEF Saved, At
  <2>2. CASE journal'.phase # "installing"
    BY <1>2, <2>2 DEF Saved, At
  <2> QED BY <2>1, <2>2
<1> QED BY <1>1, <1>3, <1>4, <1>5, <1>6, <1>7, <1>8, <1>9

\* A restore begins, of the owner or of a rollback.
LEMMA BeginsKeeps ==
    ASSUME IInv, NEW b \in backups, BeginRestore(b), backups' = backups,
           UNCHANGED <<managed, link, unit, candidate, update>>, service' = "stopped",
           Reads(link, b),
           \/ Quiet /\ updater' = updater
           \/ At("restore") /\ Go("restoring") /\ Previous(b)
    PROVE  IInv'
<1> USE DEF IInv, At, Go, Quiet
<1>1. /\ RestoreTypeOK' /\ RestoreInv'
      /\ Data' = Data
      /\ Incoming'[Database].by = b[Database].by
  BY BeginRestoreKeeps DEF TypeOK
<1>2. restorer' = [at |-> "move", part |-> 1] /\ journal'.phase = "installing"
      /\ journal.phase = "none"
  BY DEF BeginRestore
<1>3. TypeOK'
  BY <1>1 DEF TypeOK
<1>4. Offstage'
  BY <1>2 DEF Offstage, TypeOK
<1>5. Runs'
  BY DEF Runs
<1>6. PhaseInv'
  BY <1>1 DEF PhaseInv, BackupOk, PreviousInPlace
<1>7. PlaceInv'
  BY <1>1 DEF PlaceInv, TypeOK
<1>8. RestoreFits'
  BY <1>1, <1>2 DEF RestoreFits, Reads, Previous
<1>9. Saved'
  BY <1>1, <1>2 DEF Saved, TypeOK
<1> QED BY <1>1, <1>3, <1>4, <1>5, <1>6, <1>7, <1>8, <1>9

LEMMA RestoreBackupKeeps == ASSUME IInv, RestoreBackup PROVE IInv'
<1>1. update.backup \in backups /\ Previous(update.backup) /\ service = "stopped"
  BY DEF IInv, RestoreBackup, PlaceInv, PhaseInv, BackupOk, At
<1>2. Reads(link, update.backup)
  BY <1>1 DEF Reads, Previous
<1> QED BY <1>1, <1>2, BeginsKeeps DEF RestoreBackup

LEMMA OwnerRestoresKeeps ==
    ASSUME IInv, NEW b \in backups, OwnerRestores(b) PROVE IInv'
BY BeginsKeeps DEF OwnerRestores

LEMMA ReconcilesKeeps == ASSUME IInv, Reconciles PROVE IInv'
<1> USE DEF IInv, Reconciles, updating
<1>1. RestoreTypeOK' /\ RestoreInv' /\ Data' = Data
  BY BeginReconcileKeeps DEF TypeOK
<1>2. UNCHANGED <<files, backups, updating>> /\ restorer'.at = "undo" /\ updater.at = "idle"
      /\ service = "stopped"
  BY DEF BeginReconcile, Offline
<1>3. TypeOK'
  BY <1>1 DEF TypeOK
<1>4. Offstage'
  BY <1>2 DEF Offstage, files
<1>5. Runs'
  BY DEF Runs
<1>6. PhaseInv'
  BY <1>1 DEF PhaseInv, BackupOk, PreviousInPlace
<1>7. PlaceInv'
  BY <1>2 DEF PlaceInv, At
<1>8. RestoreFits'
  BY <1>2 DEF RestoreFits, At
<1>9. Saved'
  BY <1>2 DEF Saved, At
<1> QED BY <1>1, <1>3, <1>4, <1>5, <1>6, <1>7, <1>8, <1>9

LEMMA ReportedKeeps == ASSUME IInv, Reported PROVE IInv'
<1> USE DEF IInv, Reported, Unused
<1>1. RestoreTypeOK' /\ RestoreInv' /\ Data' = Data
  BY RestorerRests DEF TypeOK
<1>2. /\ UNCHANGED <<files, backups, managed, link, unit, service, candidate, update>>
      /\ restorer' = Resting /\ restorer'.at = "idle" /\ service = "stopped"
      /\ updater.at \in {"idle", "restoring"} /\ Data' = Data
  BY <1>1 DEF Offstage, Resting
<1>3. CASE updater.at = "idle"
  <2>1. TypeOK'
    BY <1>1, <1>2, <1>3 DEF TypeOK
  <2>2. Offstage' /\ Runs'
    BY <1>2, <1>3 DEF Offstage, Runs, files
  <2>3. PhaseInv'
    BY <1>1, <1>3 DEF PhaseInv, BackupOk, PreviousInPlace
  <2>4. PlaceInv' /\ RestoreFits' /\ Saved'
    BY <1>2, <1>3 DEF PlaceInv, RestoreFits, Saved, At
  <2> QED BY <1>1, <2>1, <2>2, <2>3, <2>4
<1>4. CASE updater.at = "restoring" /\ restorer.at = "done"
  <2>1. updater'.at = "abandon" /\ updater' = [updater EXCEPT !.at = "abandon"]
    BY <1>4 DEF TypeOK
  <2>2. update.phase = "rolling_back" /\ Previous(Data)' /\ journal.phase # "installing"
    BY <1>1, <1>4 DEF PlaceInv, RestoreFits, RestoreInv, SetAside, At
  <2> HIDE DEF Reported
  <2>3. TypeOK'
    BY <1>1, <1>2, <2>1 DEF TypeOK
  <2>4. Offstage' /\ Runs'
    BY <1>2, <2>1, <2>2, <1>4 DEF Offstage, Runs, files
  <2>5. PhaseInv'
    BY <1>1, <1>2, <2>2, <1>4 DEF PhaseInv, BackupOk
  <2>6. PlaceInv' /\ RestoreFits' /\ Saved'
    BY <1>2, <2>1, <2>2 DEF PlaceInv, RestoreFits, Saved, At
  <2> QED BY <1>1, <2>3, <2>4, <2>5, <2>6
<1>5. CASE updater.at = "restoring" /\ restorer.at = "failed"
  <2>1. updater' = [at |-> "idle", recovers |-> FALSE]
    BY <1>5
  <2> HIDE DEF Reported
  <2>3. TypeOK'
    BY <1>1, <1>2, <2>1 DEF TypeOK
  <2>4. Offstage' /\ Runs'
    BY <1>2, <2>1, <1>5 DEF Offstage, Runs, files
  <2>5. PhaseInv'
    BY <1>1, <1>2, <2>1, <1>5 DEF PhaseInv, BackupOk, PreviousInPlace
  <2>6. PlaceInv' /\ RestoreFits' /\ Saved'
    BY <1>2, <2>1 DEF PlaceInv, RestoreFits, Saved, At
  <2> QED BY <1>1, <2>3, <2>4, <2>5, <2>6
<1> QED BY <1>2, <1>3, <1>4, <1>5

LEMMA CrashKeeps == ASSUME IInv, Crash PROVE IInv'
<1> USE DEF IInv, Crash, Unused
<1>1. RestoreTypeOK' /\ RestoreInv' /\ Data' = Data
  BY RestorerRests DEF TypeOK
<1>2. restorer'.at = "idle" /\ updater'.at = "idle" /\ ~updater'.recovers
  BY DEF Resting
<1>3. TypeOK'
  BY <1>1 DEF TypeOK
<1>4. Offstage'
  BY <1>2 DEF Offstage, files
<1>5. Runs'
  BY DEF Runs, TypeOK
<1>6. PhaseInv'
  BY <1>1, <1>2 DEF PhaseInv, BackupOk, PreviousInPlace
<1>7. PlaceInv' /\ RestoreFits' /\ Saved'
  BY <1>2 DEF PlaceInv, RestoreFits, Saved, At
<1> QED BY <1>1, <1>3, <1>4, <1>5, <1>6, <1>7

LEMMA StartServiceKeeps == ASSUME IInv, StartService PROVE IInv'
<1> USE DEF IInv, StartService, Quiet, updating
<1>1. /\ RestoreTypeOK' /\ RestoreInv'
      /\ Data' = Data /\ Incoming' = Incoming
  BY FilesStay DEF TypeOK
<1>2. TypeOK'
  BY <1>1 DEF TypeOK, Starting
<1>3. Offstage'
  BY DEF Offstage, files
<1>4. Runs'
  BY DEF Runs, Starting
<1>5. PhaseInv'
  BY <1>1 DEF PhaseInv, BackupOk, PreviousInPlace
<1>6. PlaceInv' /\ RestoreFits' /\ Saved'
  BY <1>1 DEF PlaceInv, RestoreFits, Saved, At
<1> QED BY <1>1, <1>2, <1>3, <1>4, <1>5, <1>6

LEMMA CreateBackupKeeps == ASSUME IInv, CreateBackup PROVE IInv'
<1> USE DEF IInv, CreateBackup, Quiet, updating
<1>1. /\ RestoreTypeOK' /\ RestoreInv'
      /\ Data' = Data /\ Incoming' = Incoming /\ backups \subseteq backups'
  BY FilesStay DEF TypeOK
<1>2. TypeOK'
  BY <1>1 DEF TypeOK
<1>3. Offstage' /\ Runs'
  BY DEF Offstage, Runs, files
<1>5. PhaseInv'
  BY <1>1 DEF PhaseInv, BackupOk, PreviousInPlace
<1>6. PlaceInv' /\ RestoreFits' /\ Saved'
  BY <1>1 DEF PlaceInv, RestoreFits, Saved, At
<1> QED BY <1>1, <1>2, <1>3, <1>5, <1>6

\* The service writes: a change later than any before, of its own version.
LEMMA ServiceWritesData ==
    ASSUME IInv, ServiceWrites
    PROVE  /\ RestoreTypeOK' /\ RestoreInv' /\ Data = live /\ Data' = live'
           /\ restorer.at = "idle" /\ restorer' = restorer /\ updater.at # "restoring"
           /\ Data'[Database].by = service
           /\ Data'[Database].epoch = Data[Database].epoch
           /\ \A p \in Part : \/ Data'[p].stamp = 0
                              \/ /\ Data'[p].stamp = Data'[Database].stamp
                                 /\ Data'[p].stamp > Data[p].stamp
<1> USE DEF IInv
<1>1. restorer.at = "idle" /\ journal.phase # "installing" /\ updater.at # "restoring"
      /\ service \in {"previous", "candidate"}
  BY DEF ServiceWrites, Offstage, TypeOK, Version
<1>2. Data = live /\ live \in [Part -> Content]
  BY <1>1, DataType DEF TypeOK, RestoreTypeOK
<1> DEFINE next == live[Database].stamp + 1
<1>3. next \in 1 .. MaxWrites + 1 /\ \A p \in Part : next > live[p].stamp
  BY <1>2, ContentFacts, PartFacts, PartsAssumption DEF ServiceWrites, RestoreInv, AllWhole, Whole
<1>4. PICK kept \in SUBSET Part :
          /\ Database \in kept
          /\ live' = [p \in Part |->
                IF p \in kept
                THEN [stamp |-> next, epoch |-> live[p].epoch, by |-> service]
                ELSE Absent]
  BY DEF ServiceWrites
<1> HIDE DEF next
<1>5. \A p \in Part : live[p].epoch \in 0 .. MaxEpoch
  BY <1>2, ContentFacts, PartsAssumption DEF Absent
<1>6. \A p \in Part :
          [stamp |-> next, epoch |-> live[p].epoch, by |-> service] \in Content \ {Absent}
  BY <1>1, <1>3, <1>5, ContentFacts
<1>7. live' \in [Part -> Content] /\ live'[Database] # Absent
  BY <1>4, <1>6, AbsentIsContent, PartFacts
<1>8. RestoreTypeOK' /\ Data' = live'
  BY <1>1, <1>7, DataTypeNext DEF TypeOK, RestoreTypeOK, ServiceWrites
<1>9. \A p \in Part : live'[p].stamp \in {0, next} /\ live'[Database].stamp = next
      /\ live'[Database].by = service /\ live'[Database].epoch = live[Database].epoch
  BY <1>4, ContentFacts, PartFacts
<1>10. \A p \in Part : \/ Data'[p].stamp = 0
                       \/ /\ Data'[p].stamp = Data'[Database].stamp
                          /\ Data'[p].stamp > Data[p].stamp
  BY <1>2, <1>3, <1>8, <1>9
<1>11. AllWhole'
  BY <1>3, <1>7, <1>8, <1>9 DEF RestoreInv, AllWhole, Whole, ServiceWrites
<1>12. Moving' /\ MovingHere' /\ ReplacesByBackup' /\ Undoing' /\ SetAside'
  BY <1>1 DEF RestoreInv, Moving, MovingHere, ReplacesByBackup, Undoing, SetAside, ServiceWrites
<1> QED BY <1>1, <1>2, <1>8, <1>9, <1>10, <1>11, <1>12, PartFacts DEF RestoreInv, ServiceWrites

LEMMA ServiceWritesKeeps == ASSUME IInv, ServiceWrites PROVE IInv'
<1> USE DEF IInv
<1>1. /\ RestoreTypeOK' /\ RestoreInv' /\ restorer.at = "idle" /\ restorer' = restorer
      /\ updater.at # "restoring" /\ Data'[Database].by = service
      /\ service # "stopped" /\ UNCHANGED <<journal, backups, updating>>
  BY ServiceWritesData DEF ServiceWrites
<1> USE DEF updating
<1>2. TypeOK'
  BY <1>1 DEF TypeOK
<1>3. Offstage' /\ Runs'
  BY <1>1 DEF Offstage, Runs
<1>4. (PreviousInPlace \/ (link = "previous" /\ unit = "previous")) => PreviousInPlace'
  BY <1>1 DEF PreviousInPlace, Previous, Runs
<1>5. PhaseInv'
  BY <1>1, <1>4 DEF PhaseInv, BackupOk, Previous
<1>6. PlaceInv'
  BY <1>1, <1>4 DEF PlaceInv, At, Previous, TypeOK, Version
<1>7. RestoreFits' /\ Saved'
  BY <1>1 DEF RestoreFits, Saved, At
<1> QED BY <1>1, <1>2, <1>3, <1>5, <1>6, <1>7

-----------------------------------------------------------------------------
(***************************************************************************)
(* The invariant and what follows from it.                                 *)
(***************************************************************************)
\* Nothing happens.
LEMMA StutterKeeps == ASSUME IInv, UNCHANGED vars PROVE IInv'
<1> USE DEF IInv, vars, updating
<1>1. RestoreTypeOK' /\ RestoreInv' /\ Data' = Data /\ Incoming' = Incoming
  BY FilesStay DEF TypeOK
<1>2. TypeOK'
  BY <1>1 DEF TypeOK
<1>3. Offstage' /\ Runs'
  BY DEF Offstage, Runs, files
<1>4. PhaseInv'
  BY <1>1 DEF PhaseInv, BackupOk, PreviousInPlace
<1>5. PlaceInv' /\ RestoreFits' /\ Saved'
  BY <1>1 DEF PlaceInv, RestoreFits, Saved, At, files, PreviousInPlace
<1> QED BY <1>1, <1>2, <1>3, <1>4, <1>5

\* The initial states satisfy the invariant ...
LEMMA InitInv == Init => IInv
<1> SUFFICES ASSUME Init PROVE IInv
  OBVIOUS
<1> USE PartFacts, AbsentIsContent DEF Init, RestoreInit, NoJournal, Resting
<1>1. RestoreTypeOK
  <2>1. \A p \in Part : live[p] \in Content \ {Absent} /\ live[p].stamp = 1
    BY PartsAssumption DEF Content, Absent
  <2> QED BY <2>1 DEF RestoreTypeOK
<1>2. TypeOK
  BY <1>1, NoBackupType DEF TypeOK, NoUpdate, Unused, Version
<1>3. Data = live
  BY <1>1, DataType
<1>4. RestoreInv
  BY <1>3 DEF RestoreInv, Moving, MovingHere, ReplacesByBackup, Undoing, SetAside, AllWhole,
     Whole, Absent
<1>5. Offstage /\ Runs /\ PhaseInv /\ PlaceInv /\ RestoreFits /\ Saved
  BY <1>3 DEF Offstage, Runs, PhaseInv, PlaceInv, RestoreFits, Saved, PreviousInPlace, Previous, At,
     NoUpdate, Unused
<1> QED BY <1>1, <1>2, <1>4, <1>5 DEF IInv

\* ... and every step keeps it.
LEMMA StepInv == IInv /\ [Next]_vars => IInv'
<1> SUFFICES ASSUME IInv, [Next]_vars PROVE IInv'
  OBVIOUS
<1>1. CASE UpdateStep
  BY <1>1, ApplyKeeps, StageArchiveKeeps, StopForUpdateKeeps, BackUpKeeps, ActivateKeeps,
     WriteActivatedKeeps, PreparationFailsKeeps, InstallCandidateKeeps, WaitForCandidateKeeps,
     CommitKeeps, ClearJournalKeeps, RollBackKeeps, StopForRollbackKeeps, RestoreBackupKeeps,
     AbandonKeeps, ReinstallKeeps, WaitForPreviousKeeps, DiscardCandidateKeeps, RecoverKeeps,
     ProbeKeeps, StopForRecoveryKeeps, PreserveDataKeeps
     DEF UpdateStep
<1>2. CASE \E backup \in backups : OwnerRestores(backup)
  BY <1>2, OwnerRestoresKeeps
<1> QED BY <1>1, <1>2, RestoringKeeps, ReportedKeeps, ReconcilesKeeps, CrashKeeps,
     StartServiceKeeps, ServiceWritesKeeps, CreateBackupKeeps, StutterKeeps DEF Next

\* The journals, the files and the running version agree in every reachable state.
THEOREM Invariance == Spec => []IInv
BY InitInv, StepInv, PTL DEF Spec

\* Every part of the state keeps its type; a raised epoch stays within its bound.
THEOREM TypeCorrect == Spec => []TypeOK
<1>1. IInv => TypeOK
  BY DEF IInv
<1> QED BY <1>1, Invariance, PTL

\* After an update that ended, undone or not and however often it was interrupted
\* (ops/update.rs, apply and recover), the version that starts next reads the data.
THEOREM DataFits == Spec => []DataFitsVersion
<1>1. IInv => DataFitsVersion
  <2> SUFFICES ASSUME IInv, update.phase = "none" PROVE
        /\ Reads(link, Data) /\ (managed => Reads(unit, Data))
        /\ candidate \/ (link = "previous" /\ unit = "previous")
    BY DEF DataFitsVersion
  <2> QED BY DEF IInv, TypeOK, Version, Runs, PhaseInv, PreviousInPlace, Reads, Previous
<1> QED BY <1>1, Invariance, PTL

\* A recovery (recover in ops/update.rs) never replaces data that it has not saved as a
\* backup of their own.
THEOREM RecoverySaves == Spec => RecoverySavesData
<1>1. IInv /\ [Next]_vars => (RollsBackNow(TRUE) => Data \in backups)
  BY DEF IInv, Saved, RollsBackNow
<1> QED BY <1>1, Invariance, PTL DEF Spec, RecoverySavesData


-----------------------------------------------------------------------------
(***************************************************************************)
(* The refinement of DataContract.                                         *)
(***************************************************************************)
\* What a step makes of the data, as the contract names it.
\* What a step makes of the data: it keeps them, the service writes them, or they become
\* those of one backup.
LEMMA DataMoves ==
    ASSUME IInv, [Next]_vars
    PROVE  \/ /\ Data' = Data
              /\ backups' = backups \/ backups' = backups \cup {Data}
           \/ ServiceWrites
           \/ /\ \E b \in backups : InEpoch(Data', b, Data)
              /\ backups' = backups
<1> DEFINE Kept == Data' = Data /\ (backups' = backups \/ backups' = backups \cup {Data})
<1> USE DEF IInv
<1>1. ASSUME UNCHANGED <<files, restorer>>,
             \/ backups' = backups
             \/ journal.phase # "installing" /\ backups' = backups \cup {live}
      PROVE  Kept
  BY <1>1, FilesStay, DataType DEF TypeOK
<1>2. CASE UpdateStep
  <2>1. CASE RestoreBackup
    <3>1. update.backup \in backups
      BY <2>1 DEF RestoreBackup, PlaceInv, PhaseInv, BackupOk, At
    <3> QED BY <2>1, <3>1, BeginRestoreKeeps DEF RestoreBackup, TypeOK
  <2>2. CASE BackUp \/ PreserveData
    BY <2>2, <1>1 DEF BackUp, PreserveData, Untouched, At, Offstage
  <2>3. CASE ~RestoreBackup /\ ~BackUp /\ ~PreserveData
    <3>1. UNCHANGED <<files, restorer>> /\ backups' = backups
      BY <1>2, <2>3 DEF UpdateStep, Apply, StageArchive, StopForUpdate, Activate, WriteActivated,
         PreparationFails, InstallCandidate, WaitForCandidate, Commit, ClearJournal, RollBack,
         StopForRollback, Abandon, Reinstall, WaitForPrevious, DiscardCandidate, Recover, Probe,
         StopForRecovery, Untouched
    <3> QED BY <3>1, <1>1
  <2> QED BY <2>1, <2>2, <2>3
<1>3. CASE Restoring
  BY <1>3, RestoreStepKeeps DEF Restoring, TypeOK
<1>4. CASE Reported \/ Crash
  BY <1>4, RestorerRests DEF Reported, Crash, TypeOK
<1>5. CASE Reconciles
  BY <1>5, BeginReconcileKeeps DEF Reconciles, TypeOK
<1>6. CASE StartService \/ CreateBackup
  BY <1>6, <1>1 DEF StartService, CreateBackup
<1>7. CASE \E backup \in backups : OwnerRestores(backup)
  BY <1>7, BeginRestoreKeeps DEF OwnerRestores, TypeOK
<1>8. CASE UNCHANGED vars
  BY <1>8, <1>1 DEF vars
<1> QED BY <1>2, <1>3, <1>4, <1>5, <1>6, <1>7, <1>8 DEF Next

\* Each of these is a step of the contract.
LEMMA DataKept == ASSUME IInv, [Next]_vars PROVE Contract!Next
<1> USE DEF IInv
<1>0. Data \in [Part -> Content] /\ Data' \in [Part -> Content]
  BY StepInv, DataType, DataTypeNext DEF TypeOK
<1>1. CASE Data' = Data /\ (backups' = backups \/ backups' = backups \cup {Data})
  BY <1>1 DEF Contract!Next, Contract!Keep
<1>2. CASE ServiceWrites
  <2>1. Contract!Write
    BY <1>0, <1>2, ServiceWritesData DEF Contract!Write, ServiceWrites, Database
  <2> QED BY <1>2, <2>1 DEF Contract!Next, ServiceWrites, updating
<1>3. CASE (\E b \in backups : InEpoch(Data', b, Data)) /\ backups' = backups
  <2>1. PICK b \in backups : InEpoch(Data', b, Data)
    BY <1>3
  <2>2. b \in [Part -> Content] /\ b[1] # Absent /\ b[1] \in Content /\ Data'[1] \in Content
    BY <1>0, PartFacts DEF TypeOK, RestoreTypeOK, RestoreInv, AllWhole, Whole, Database
  <2>3. Data'[1] # Absent
    BY StepInv DEF RestoreInv, AllWhole, Whole, Database
  <2>4. Data'[1] = [b[1] EXCEPT !.epoch = Data'[1].epoch]
    BY <2>1, <2>2, <2>3, ContentFacts DEF InEpoch, Database
  <2>5. Data' = [b EXCEPT ![1].epoch = Data'[1].epoch]
    BY <1>0, <2>1, <2>2, <2>4 DEF InEpoch, Database
  <2>6. Contract!Restore
    BY <2>1, <2>5 DEF Contract!Restore, InEpoch, Database
  <2> QED BY <1>3, <2>6 DEF Contract!Next
<1> QED BY <1>1, <1>2, <1>3, DataMoves

\* A restore or a rollback that stops anywhere (ops/backup.rs) leaves all the data of the
\* service or all those of one backup: the specification implements DataContract.
THEOREM DataIsKept == Spec => KeepsData
<1>1. Init => Contract!Init
  BY DEF Init, RestoreInit, Contract!Init
<1>2. IInv /\ [Next]_vars => [Contract!Next]_<<Data, backups>>
  BY DataKept
<1> QED BY <1>1, <1>2, Invariance, PTL DEF Spec, KeepsData, Contract!Spec
=============================================================================
