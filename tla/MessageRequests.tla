--------------------------- MODULE MessageRequests ---------------------------
(***************************************************************************)
(* Incoming messages of one channel (BoBeService/src/runtime/              *)
(* message_requests.rs): the rows of message_requests, the task of each    *)
(* message from its place in line to the recorded result, cancellation,    *)
(* shutdown, crashes and the recovery at startup.                          *)
(*                                                                         *)
(* A step is what happens between two awaits: a transaction, a poll of the *)
(* biased select, or a look at the two cancellation tokens.  Admission is  *)
(* taken as ChannelService promises it: a line with one server, closed for *)
(* maintenance only when it is quiet.  A request_id stands for the message *)
(* and its content; repeating one with other content changes nothing.      *)
(***************************************************************************)
EXTENDS Naturals, FiniteSets, SequencesExt

CONSTANTS
  Requests,   \* request ids
  MaxQueued,  \* queued rows at one time (64)
  MaxStops,   \* a bound of the model: crashes and shutdowns
  Nobody

ASSUME RequestsAssumption ==
  /\ IsFiniteSet(Requests)
  /\ Nobody \notin Requests \cup {"pending", "closed"}
  /\ {"pending", "closed"} \cap Requests = {}
  /\ MaxQueued \in Nat /\ MaxStops \in Nat

VARIABLES
  row,         \* message_requests: request id -> row
  order,       \* the rows in the order of their rowids
  reply,       \* conversation_turns: what is stored under the request id
  question,    \* a question shown in the channel: open, closed or answered by
  daemon,      \* the life of the process; "stopping" is the shutdown token
  task,        \* request id -> where its spawned task stands
  cancelled,   \* requests whose cancellation token is cancelled
  drafts,      \* requests with a streamed draft in memory
  line,        \* tickets in line
  turn,        \* the request that holds the channel's permit, or Nobody
  submission,  \* what holds the submission mutex, and how far it is
  maintenance, \* "open", "closing" (the permit) or "locked" (and the data)
  stops        \* crashes and shutdowns so far

tables == <<row, order, reply, question>>
memory == <<task, cancelled, drafts, line, turn>>
vars == <<tables, daemon, memory, submission, maintenance, stops>>

Statuses == {"absent", "queued", "running", "completed", "failed", "tombstone"}
Row == [status: Statuses, bound: BOOLEAN, device: BOOLEAN]
NoRow == [status |-> "absent", bound |-> FALSE, device |-> FALSE]

\* In line and at the second poll of the select; with the permit, around the
\* claim, around the answer; at work, writing the reply, reply written; and the
\* result before it is recorded.
Stages == {"none", "line", "polled", "admitted", "claiming", "claimed",
           "answering", "answered", "requeueing", "working", "writing",
           "written", "failing", "succeeding"}
Claimed == {"claimed", "answering", "answered", "requeueing"}
Executing == {"working", "writing", "written"}

NoSubmission == [of |-> Nobody, at |-> "idle"]

TypeOK ==
  /\ row \in [Requests -> Row]
  /\ order \in Seq(Requests)
  /\ reply \in [Requests -> {"none", "partial", "complete"}]
  /\ question \in Requests \cup {"pending", "closed"}
  /\ daemon \in {"off", "starting", "up", "stopping"}
  /\ task \in [Requests -> Stages]
  /\ cancelled \subseteq Requests
  /\ drafts \subseteq Requests
  /\ line \in Seq(Requests)
  /\ turn \in Requests \cup {Nobody}
  /\ submission \in [of: Requests \cup {Nobody},
                     at: {"idle", "checked", "refused"}]
  /\ submission.at # "idle" => submission.of \in Requests
  /\ maintenance \in {"open", "closing", "locked"}
  /\ stops \in Nat

Idle == [r \in Requests |-> "none"]

Init ==
  /\ row = [r \in Requests |-> NoRow]
  /\ order = <<>>
  /\ reply = [r \in Requests |-> "none"]
  /\ question = "pending"
  /\ daemon = "off"
  /\ task = Idle
  /\ cancelled = {} /\ drafts = {}
  /\ line = <<>> /\ turn = Nobody
  /\ submission = NoSubmission
  /\ maintenance = "open"
  /\ stops = 0

-----------------------------------------------------------------------------
Queued == {r \in Requests : row[r].status = "queued"}
Serving == daemon \in {"up", "stopping"}

At(r, stage) == task' = [task EXCEPT ![r] = stage]
SetStatus(r, status) == row' = [row EXCEPT ![r].status = status]
\* Rows and tickets are unique: the one of r is taken out, if it is there.
Without(seq, r) ==
  IF \E i \in DOMAIN seq : seq[i] = r
  THEN RemoveAt(seq, CHOOSE i \in DOMAIN seq : seq[i] = r)
  ELSE seq

\* The task ends: its ticket, permit, draft and registration go with it.
Over(r) == /\ At(r, "none")
           /\ cancelled' = cancelled \ {r}
           /\ turn' = IF turn = r THEN Nobody ELSE turn
           /\ line' = Without(line, r)

-----------------------------------------------------------------------------
(* submit, under its mutex.  A known id answers from its row and changes   *)
(* nothing; a failed one, or one with a tombstone, is refused.             *)

\* Mutant: a failed message may be sent again.
FreshOrFailed(r) == row[r].status \in {"absent", "failed"}
Fresh(r) == row[r].status = "absent"

SubmitCheck(r) ==
  /\ daemon = "up"
  /\ maintenance # "locked"
  /\ submission = NoSubmission
  /\ Fresh(r)
  /\ Cardinality(Queued) < MaxQueued
  /\ submission' = [of |-> r, at |-> "checked"]
  /\ UNCHANGED <<tables, daemon, memory, maintenance, stops>>

NewRow(bound, device) == [status |-> "queued", bound |-> bound, device |-> device]

\* The message may be bound to the question it answers.  Admission refuses a
\* ticket while a maintenance has begun.
SubmitInsert(bound, device) ==
  LET r == submission.of
  IN /\ submission.at = "checked"
     /\ bound => question = "pending"
     /\ row' = [row EXCEPT ![r] = NewRow(bound, device)]
     /\ order' = Append(order, r)
     /\ IF maintenance = "open"
        THEN /\ At(r, "line")
             /\ line' = Append(line, r)
             /\ submission' = NoSubmission
        ELSE /\ submission' = [submission EXCEPT !.at = "refused"]
             /\ UNCHANGED <<task, line>>
     /\ UNCHANGED <<reply, question, daemon, cancelled, drafts, turn,
                    maintenance, stops>>

MarkFailed ==
  /\ submission.at = "refused"
  /\ SetStatus(submission.of, "failed")
  /\ submission' = NoSubmission
  /\ UNCHANGED <<order, reply, question, daemon, memory, maintenance, stops>>

-----------------------------------------------------------------------------
(* The biased select: the token, then shutdown, then admission.            *)

\* Mutant: the next ticket does not wait for the permit to come back.
FirstInLineBusy(r) == maintenance = "open" /\ r = Head(line)
FirstInLine(r) == maintenance = "open" /\ turn = Nobody /\ r = Head(line)

LeaveLine(r) ==
  /\ task[r] = "line"
  /\ r \in cancelled
  /\ At(r, "failing")
  /\ line' = Without(line, r)
  /\ UNCHANGED <<tables, daemon, cancelled, drafts, turn, submission,
                 maintenance, stops>>

PassToken(r) ==
  /\ task[r] = "line"
  /\ r \notin cancelled
  /\ daemon = "stopping" \/ FirstInLine(r)
  /\ At(r, "polled")
  /\ UNCHANGED <<tables, daemon, cancelled, drafts, line, turn, submission,
                 maintenance, stops>>

\* Deferred: the row stays queued and the next start takes it up.
DeferInLine(r) ==
  /\ task[r] = "polled"
  /\ daemon = "stopping"
  /\ Over(r)
  /\ UNCHANGED <<tables, daemon, drafts, submission, maintenance, stops>>

Admit(r) ==
  /\ task[r] = "polled"
  /\ daemon # "stopping"
  /\ IF FirstInLine(r)
     THEN At(r, "admitted") /\ turn' = r /\ line' = Tail(line)
     ELSE At(r, "line") /\ UNCHANGED <<turn, line>>
  /\ UNCHANGED <<tables, daemon, cancelled, drafts, submission, maintenance,
                 stops>>

-----------------------------------------------------------------------------
(* prepare_execution.                                                      *)

DeferAdmitted(r) ==
  /\ task[r] = "admitted"
  /\ daemon = "stopping"
  /\ Over(r)
  /\ UNCHANGED <<tables, daemon, drafts, submission, maintenance, stops>>

BeginClaim(r) ==
  /\ task[r] = "admitted"
  /\ daemon # "stopping"
  /\ At(r, "claiming")
  /\ UNCHANGED <<tables, daemon, cancelled, drafts, line, turn, submission,
                 maintenance, stops>>

Claim(r) ==
  /\ task[r] = "claiming"
  /\ IF row[r].status = "queued"
     THEN SetStatus(r, "running") /\ At(r, "claimed")
     ELSE At(r, "failing") /\ UNCHANGED row
  /\ UNCHANGED <<order, reply, question, daemon, cancelled, drafts, line, turn,
                 submission, maintenance, stops>>

\* stop_before_execution: here the token is looked at first.
Proceed(r, next) ==
  At(r, IF r \in cancelled THEN "failing"
        ELSE IF daemon = "stopping" THEN "requeueing" ELSE next)

CheckClaimed(r) ==
  /\ task[r] = "claimed"
  /\ Proceed(r, "answering")
  /\ UNCHANGED <<tables, daemon, cancelled, drafts, line, turn, submission,
                 maintenance, stops>>

\* Mutant: a refused answer is ignored.
AnswerAcceptedAlways(r) == TRUE
AnswerAccepted(r) == question \in {"pending", r}

AnswerBound(r) ==
  /\ task[r] = "answering"
  /\ IF ~row[r].bound THEN At(r, "answered") /\ UNCHANGED question
     ELSE IF AnswerAccepted(r)
          THEN /\ At(r, "answered")
               /\ question' = IF question = "pending" THEN r ELSE question
          ELSE At(r, "failing") /\ UNCHANGED question
  /\ UNCHANGED <<row, order, reply, daemon, cancelled, drafts, line, turn,
                 submission, maintenance, stops>>

CheckAnswered(r) ==
  /\ task[r] = "answered"
  /\ Proceed(r, "working")
  /\ UNCHANGED <<tables, daemon, cancelled, drafts, line, turn, submission,
                 maintenance, stops>>

Requeue(r) ==
  /\ task[r] = "requeueing"
  /\ row' = IF row[r].status = "running" THEN [row EXCEPT ![r].status = "queued"]
                                         ELSE row
  /\ Over(r)
  /\ UNCHANGED <<order, reply, question, daemon, drafts, submission,
                 maintenance, stops>>

-----------------------------------------------------------------------------
(* The work: a draft that grows in memory, then the stored reply.          *)

StreamDraft(r) ==
  /\ task[r] = "working"
  /\ r \notin drafts
  /\ drafts' = drafts \cup {r}
  /\ UNCHANGED <<tables, daemon, task, cancelled, line, turn, submission,
                 maintenance, stops>>

\* The agent fails, or has nothing to say.
EndWithoutReply(r, success) ==
  /\ task[r] = "working"
  /\ success => r \notin drafts
  /\ At(r, IF success THEN "succeeding" ELSE "failing")
  /\ UNCHANGED <<tables, daemon, cancelled, drafts, line, turn, submission,
                 maintenance, stops>>

\* finalize_assistant_stream takes the draft out before it writes the turn.
TakeDraft(r) ==
  /\ task[r] = "working"
  /\ r \in drafts
  /\ drafts' = drafts \ {r}
  /\ At(r, "writing")
  /\ UNCHANGED <<tables, daemon, cancelled, line, turn, submission,
                 maintenance, stops>>

StoreReply(r, complete) ==
  /\ task[r] = "writing"
  /\ reply' = [reply EXCEPT ![r] = IF complete THEN "complete" ELSE "partial"]
  /\ At(r, IF complete THEN "written" ELSE "failing")
  /\ UNCHANGED <<row, order, question, daemon, cancelled, drafts, line, turn,
                 submission, maintenance, stops>>

Return(r) ==
  /\ task[r] = "written"
  /\ At(r, "succeeding")
  /\ UNCHANGED <<tables, daemon, cancelled, drafts, line, turn, submission,
                 maintenance, stops>>

\* A cancelled or stopped task is dropped at whichever await it stands.
Abort(r) ==
  /\ task[r] \in Executing
  /\ r \in cancelled \/ daemon = "stopping"
  /\ At(r, "failing")
  /\ UNCHANGED <<tables, daemon, cancelled, drafts, line, turn, submission,
                 maintenance, stops>>

-----------------------------------------------------------------------------
(* The end of a task.                                                      *)

SettleDraft(r) ==
  /\ task[r] = "failing"
  /\ r \in drafts
  /\ drafts' = drafts \ {r}
  /\ reply' = [reply EXCEPT ![r] = "partial"]
  /\ UNCHANGED <<row, order, question, daemon, task, cancelled, line, turn,
                 submission, maintenance, stops>>

Result(r) == IF task[r] = "succeeding" THEN "completed" ELSE "failed"

\* Mutant: a message that was never claimed is not settled.
UnsettledRunning(r) == row[r].status = "running"
Unsettled(r) == row[r].status \in {"queued", "running"}

Record(r) ==
  /\ task[r] \in {"failing", "succeeding"}
  /\ r \notin drafts
  /\ row' = IF Unsettled(r) THEN [row EXCEPT ![r].status = Result(r)] ELSE row
  /\ Over(r)
  /\ UNCHANGED <<order, reply, question, daemon, drafts, submission,
                 maintenance, stops>>

\* The owner, or the connection of a device, cancels a run that is registered.
Cancel(r) ==
  /\ Serving
  /\ task[r] # "none"
  /\ r \notin cancelled
  /\ cancelled' = cancelled \cup {r}
  /\ UNCHANGED <<tables, daemon, task, drafts, line, turn, submission,
                 maintenance, stops>>

\* The question expires, is cancelled or is answered elsewhere.
CloseQuestion ==
  /\ Serving
  /\ question = "pending"
  /\ question' = "closed"
  /\ UNCHANGED <<row, order, reply, daemon, memory, submission, maintenance,
                 stops>>

-----------------------------------------------------------------------------
(* Maintenance, purge and retention.                                       *)

BeginMaintenance ==
  /\ Serving
  /\ maintenance = "open"
  /\ line = <<>> /\ turn = Nobody
  /\ maintenance' = "closing"
  /\ UNCHANGED <<tables, daemon, memory, submission, stops>>

\* A submission in progress reads the personal data: the lock is not waited for.
LockData ==
  /\ maintenance = "closing"
  /\ maintenance' = IF submission = NoSubmission THEN "locked" ELSE "open"
  /\ UNCHANGED <<tables, daemon, memory, submission, stops>>

EndMaintenance ==
  /\ maintenance = "locked"
  /\ maintenance' = "open"
  /\ UNCHANGED <<tables, daemon, memory, submission, stops>>

Forgotten(r) == [row[r] EXCEPT !.status = "tombstone"]

Purge ==
  /\ maintenance = "locked"
  /\ row' = [r \in Requests |-> IF row[r].status = "absent" THEN row[r]
                                                          ELSE Forgotten(r)]
  /\ order' = <<>>
  /\ reply' = [r \in Requests |-> "none"]
  /\ question' = "closed"
  /\ maintenance' = "open"
  /\ UNCHANGED <<daemon, memory, submission, stops>>

\* Retention drops settled rows that are old enough, and keeps a tombstone.
Retire(r) ==
  /\ Serving
  /\ row[r].status \in {"completed", "failed"}
  /\ row' = [row EXCEPT ![r] = Forgotten(r)]
  /\ order' = Without(order, r)
  /\ UNCHANGED <<reply, question, daemon, memory, submission, maintenance, stops>>

-----------------------------------------------------------------------------
(* Shutdown, crash and recovery.                                           *)

BeginShutdown ==
  /\ daemon = "up"
  /\ stops < MaxStops
  /\ stops' = stops + 1
  /\ daemon' = "stopping"
  /\ UNCHANGED <<tables, memory, submission, maintenance>>

\* Whatever is in memory is gone; a write in progress happened or did not.
Die ==
  /\ daemon' = "off"
  /\ task' = Idle
  /\ cancelled' = {} /\ drafts' = {}
  /\ line' = <<>> /\ turn' = Nobody
  /\ submission' = NoSubmission
  /\ maintenance' = "open"
  /\ UNCHANGED tables

\* A stopping daemon drains its turns, but not for ever.
Exit == daemon = "stopping" /\ Die /\ UNCHANGED stops

Crash == /\ daemon \in {"starting", "up"}
         /\ stops < MaxStops
         /\ stops' = stops + 1
         /\ Die

\* Mutant: rows that ran when the daemon died are left alone.
ReconciledRunning(r) == row[r].status
\* reconcile_interrupted_requests, and the messages of devices that are gone.
Reconciled(r) ==
  CASE row[r].status = "running" ->
         IF reply[r] = "complete" THEN "completed" ELSE "failed"
    [] row[r].status = "queued" /\ row[r].device -> "failed"
    [] OTHER -> row[r].status

Recover ==
  /\ daemon = "off"
  /\ row' = [r \in Requests |-> [row[r] EXCEPT !.status = Reconciled(r)]]
  /\ daemon' = "starting"
  /\ UNCHANGED <<order, reply, question, memory, submission, maintenance, stops>>

Earlier(a, b) == \E i, j \in DOMAIN order : i < j /\ order[i] = a /\ order[j] = b
\* Mutant: retained messages restart in another order.
RestartedReversed ==
  {queue \in [1..Cardinality(Queued) -> Queued] :
     /\ ToSet(queue) = Queued
     /\ \A i, j \in DOMAIN queue : i < j => Earlier(queue[j], queue[i])}
\* The queued rows ORDER BY rowid.
Restarted ==
  {queue \in [1..Cardinality(Queued) -> Queued] :
     /\ ToSet(queue) = Queued
     /\ \A i, j \in DOMAIN queue : i < j => Earlier(queue[i], queue[j])}

\* A retained queue above its limit ends the start.
StartUp ==
  /\ daemon = "starting"
  /\ IF Cardinality(Queued) <= MaxQueued
     THEN /\ daemon' = "up"
          /\ line' \in Restarted
          /\ task' = [r \in Requests |-> IF r \in Queued THEN "line" ELSE "none"]
     ELSE daemon' = "off" /\ UNCHANGED <<line, task>>
  /\ UNCHANGED <<tables, cancelled, drafts, turn, submission, maintenance, stops>>

-----------------------------------------------------------------------------
Submitting == \/ \E r \in Requests : SubmitCheck(r)
              \/ \E bound, device \in BOOLEAN : SubmitInsert(bound, device)
              \/ MarkFailed

\* What a task does by itself.
Proceeding(r) ==
  \/ LeaveLine(r) \/ PassToken(r) \/ DeferInLine(r) \/ Admit(r)
  \/ DeferAdmitted(r) \/ BeginClaim(r) \/ Claim(r) \/ CheckClaimed(r)
  \/ AnswerBound(r) \/ CheckAnswered(r) \/ Requeue(r)
  \/ TakeDraft(r) \/ Return(r) \/ Abort(r)
  \/ \E success \in BOOLEAN : EndWithoutReply(r, success) \/ StoreReply(r, success)
  \/ SettleDraft(r) \/ Record(r)

Others ==
  \/ \E r \in Requests : StreamDraft(r) \/ Cancel(r) \/ Retire(r)
  \/ CloseQuestion
  \/ BeginMaintenance \/ LockData \/ EndMaintenance \/ Purge

Lifecycle == BeginShutdown \/ Exit \/ Crash \/ Recover \/ StartUp

Next == Submitting \/ (\E r \in Requests : Proceeding(r)) \/ Others \/ Lifecycle

Spec == Init /\ [][Next]_vars

\* Tasks are polled when they can make progress and the agent ends every run, a
\* submission and a maintenance go on once begun, a stopping daemon exits, and
\* one that is off is started.
Fairness ==
  /\ \A r \in Requests : WF_vars(Proceeding(r))
  /\ WF_vars(MarkFailed \/ \E bound, device \in BOOLEAN : SubmitInsert(bound, device))
  /\ WF_vars(LockData \/ EndMaintenance)
  /\ WF_vars(Exit) /\ WF_vars(Recover \/ StartUp)

FairSpec == Spec /\ Fairness

-----------------------------------------------------------------------------
(* Safety.                                                                 *)

\* A message that was accepted is in somebody's hands while the daemon is up: a
\* queued or running row without a task would wait for the next start, and a
\* repeated request would be told that it is on its way.
AcceptedHasTask ==
  /\ daemon = "up" => \A r \in Queued :
       task[r] # "none" \/ (submission.of = r /\ submission.at = "refused")
  /\ Serving => \A r \in Requests :
       row[r].status = "running" => task[r] \in Claimed \cup Executing \cup
                                                {"failing", "succeeding"}

\* The permit of the channel is held by the one task past the line that has not
\* given it back, so that a message is executed only after the one before it
\* has its result recorded.
PermitHasHolder ==
  \A r \in Requests :
    /\ turn = r => task[r] \notin {"none", "line", "polled"}
    /\ task[r] \in Claimed \cup Executing \cup {"admitted", "claiming",
                                               "succeeding"} => turn = r

\* A message that was bound to a question is executed only as its answer: not
\* when the question expired or was answered while the message was in line.
BoundRunOwnsAnswer ==
  \A r \in Requests : row[r].bound /\ task[r] \in Executing => question = r

-----------------------------------------------------------------------------
(* What a step may never do.                                               *)

\* A message that answered its question, was put back by a shutdown and comes
\* again after the restart is not refused for its own answer.
RequeuedAnswerIsAccepted ==
  [][\A r \in Requests :
       /\ task[r] = "answering" /\ task'[r] = "failing"
       => question # r]_vars

\* Messages of a channel are executed in the order they were accepted, across
\* requeues and restarts.
StartsInOrder ==
  [][\A r, other \in Requests :
       /\ task[r] = "answered" /\ task'[r] = "working"
       /\ Earlier(other, r)
       => row[other].status # "queued" \/ task[other] = "failing"]_vars

-----------------------------------------------------------------------------
\* Every accepted message gets its result, across shutdowns and crashes.
AcceptedIsSettled ==
  \A r \in Requests :
    row[r].status = "queued" ~> row[r].status \notin {"queued", "running"}

-----------------------------------------------------------------------------
(* Admission and the contract of messages.                                 *)

\* The one channel of this module, as admission sees it.
Admission == INSTANCE ChannelService WITH
  Channels <- {"channel"}, Turns <- Requests, Capacity <- 1,
  line <- [c \in {"channel"} |-> line],
  serving <- [c \in {"channel"} |-> turn],
  closed <- maintenance # "open"

\* While the daemon serves, tickets, permits and maintenance change only in the
\* ways that admission allows: whoever is served was first in line, a task leaves
\* once, by its own end, and a purge waits for both.
KeepsAdmission ==
  [][Serving /\ Serving' => [Admission!Next]_(Admission!service)]_vars

PhaseOf(r) ==
  CASE row[r].status = "absent" -> "none"
    [] row[r].status = "tombstone" -> "forgotten"
    [] row[r].status = "queued" -> "accepted"
    [] row[r].status = "running" ->
         IF task[r] \in Executing THEN "executing"
         ELSE IF task[r] \in Claimed THEN "accepted" ELSE "stopped"
    [] OTHER -> row[r].status

Promise == INSTANCE MessageContract WITH phase <- [r \in Requests |-> PhaseOf(r)]

\* A message reaches the agent at most once and one at a time, whatever is
\* repeated, cancelled, requeued, purged or lost by a crash; its identity is
\* spent for good.
KeepsPromise == Promise!Spec
=============================================================================
