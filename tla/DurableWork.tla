----------------------------- MODULE DurableWork -----------------------------
(***************************************************************************)
(* BoBe's durable background work: the rows of agent_jobs and owner_inputs *)
(* (BoBeService/src/db/agent_job_repo.rs, db/owner_input_repo.rs), the two *)
(* loops of BackgroundWork that drive them (runtime/background_work.rs)    *)
(* and the runs that ask questions (agent/host.rs).                        *)
(*                                                                         *)
(* Every SQLite transaction is one step.  Everything else that the daemon  *)
(* holds (live runs, the runner's candidate, the deliverer's candidate,    *)
(* callbacks in flight) lives in memory and is lost by Crash.              *)
(*                                                                         *)
(* A job is its rowid, so Jobs is ordered as `ORDER BY rowid` is, and a    *)
(* question is its creation index.  A delivery_id is drawn afresh exactly  *)
(* when attempt grows, so the pair <<job, attempt>> stands for it.         *)
(***************************************************************************)
EXTENDS Naturals, FiniteSets

CONSTANTS
  NumJobs,         \* rows of agent_jobs the model has room for
  NumQuestions,    \* rows of owner_inputs the model has room for
  Keys,            \* the request identities clients submit work under
  ChatRuns,        \* chat runs, each of which lives once
  MaxOutstanding,  \* MAX_OUTSTANDING: jobs queued, running or waiting
  MaxPending,      \* pending questions at one time (8 in ask_owner)
  ReleaseBatch,    \* answers one release looks at (LIMIT 8)
  MaxActive,       \* MAX_ACTIVE: job runs at one time
  MaxAttempt,      \* a bound of the model: explicit resumes stop there
  MaxTurns,        \* a bound of the model: complete turns of deliveries
  MaxStops         \* a bound of the model: crashes and shutdowns

Jobs == 1..NumJobs
Questions == 1..NumQuestions
Runs == Jobs \cup ChatRuns    \* a job's run has the job's own id
NoJob == 0

\* source_key: a client's request, or the continuation of a question.
OwnerKey(request) == <<"owner", request>>
InputKey(q) == <<"owner-input", q>>
NoKey == <<"none", 0>>
SourceKeys == ({"owner"} \X Keys) \cup ({"owner-input"} \X Questions)

ASSUME ConstantsAssumption ==
  /\ {NumJobs, NumQuestions, MaxOutstanding, MaxPending} \subseteq Nat
  /\ {ReleaseBatch, MaxActive, MaxAttempt, MaxTurns, MaxStops} \subseteq Nat
  /\ IsFiniteSet(Keys) /\ IsFiniteSet(ChatRuns)
  /\ ChatRuns \cap Nat = {}

VARIABLES
  jobs,       \* agent_jobs: rowid -> row
  questions,  \* owner_inputs: creation index -> row
  turns,      \* <<job, attempt>> whose delivery is a complete assistant turn
  shown,      \* <<job, attempt>> with a receipt in conversation_presentations
  run,        \* the run registry: is this run live, told to stop, or neither
  asking,     \* runs with an ask_owner callback past its authority check
  runner,     \* where run_jobs stands, and the candidate start_next read
  offer,      \* where deliver_one stands, and the candidate it read
  stops       \* crashes and shutdowns so far

vars == <<jobs, questions, turns, shown, run, asking, runner, offer, stops>>
tables == <<jobs, questions>>
memory == <<run, asking, runner, offer>>

JobStatus == {"absent", "queued", "running", "cancel_requested", "completed",
              "failed", "cancelled", "interrupted", "awaiting_input"}
DeliveryStatus == {"pending", "delivering", "committed", "presented",
                   "interrupted", "suppressed"}
QuestionStatus == {"absent", "pending", "answered", "declined", "cancelled",
                   "expired"}
Deliverable == {"completed", "failed", "interrupted", "awaiting_input"}
Claimed == {"running", "cancel_requested"}
Dead == {"declined", "cancelled", "expired"}

JobRow == [status: JobStatus, attempt: Nat, delivery: DeliveryStatus,
           key: SourceKeys \cup {NoKey}]
QuestionRow == [status: QuestionStatus, run: Runs \cup {NoJob},
                settled: BOOLEAN, resumed: Jobs \cup {NoJob},
                oversized: BOOLEAN]

TypeOK ==
  /\ jobs \in [Jobs -> JobRow]
  /\ questions \in [Questions -> QuestionRow]
  /\ turns \subseteq Jobs \X Nat
  /\ shown \subseteq Jobs \X Nat
  /\ run \in [Runs -> {"idle", "live", "stopping", "over"}]
  /\ asking \subseteq Runs
  /\ runner \in [at: {"off", "recovering", "wait", "release", "pick", "claim",
                      "scan", "drain"}, job: Jobs \cup {NoJob}]
  /\ offer \in [at: {"idle", "picked", "evaluating", "claimed", "streaming"},
                job: Jobs \cup {NoJob}, attempt: Nat, asks: BOOLEAN]
  /\ runner.at = "claim" => runner.job \in Jobs
  /\ offer.at # "idle" => offer.job \in Jobs
  /\ stops \in Nat

Init ==
  /\ jobs = [j \in Jobs |-> [status |-> "absent", attempt |-> 0,
                             delivery |-> "pending", key |-> NoKey]]
  /\ questions = [q \in Questions |-> [status |-> "absent", run |-> NoJob,
                                       settled |-> FALSE, resumed |-> NoJob,
                                       oversized |-> FALSE]]
  /\ turns = {}
  /\ shown = {}
  /\ run = [r \in Runs |-> "idle"]
  /\ asking = {}
  /\ runner = [at |-> "recovering", job |-> NoJob]
  /\ offer = [at |-> "idle", job |-> NoJob, attempt |-> 0, asks |-> FALSE]
  /\ stops = 0

-----------------------------------------------------------------------------
(* What the queries of the two repositories select.                        *)

Serving == runner.at \notin {"off", "recovering"}

Outstanding == {j \in Jobs : jobs[j].status \in
                  {"queued", "running", "cancel_requested", "awaiting_input"}}
FreeRows == {j \in Jobs : jobs[j].status = "absent"}

Open(q) == /\ questions[q].status \in {"pending", "answered"}
           /\ questions[q].resumed = NoJob

\* A bound of the model: rows are kept for the continuations that may come.
Promised == {q \in Questions : Open(q) /\ questions[q].run \in ChatRuns}
              \cup (asking \cap ChatRuns)
RowToSpare == Cardinality(FreeRows) > Cardinality(Promised)

NextRow(j) == j \in FreeRows /\ \A i \in FreeRows : j <= i

Pending == {q \in Questions : questions[q].status = "pending"}
AskedBy(r) == {q \in Questions : /\ questions[q].status # "absent"
                                 /\ questions[q].run = r}
OpenOf(j) == {q \in AskedBy(j) : Open(q)}
AnsweredOf(j) == {q \in OpenOf(j) : questions[q].status = "answered"}

NewJob(key) == [status |-> "queued", attempt |-> 1, delivery |-> "pending",
                key |-> key]
NextAttempt(row) == [row EXCEPT !.status = "queued", !.attempt = @ + 1,
                                !.delivery = "pending"]
CancelledJob(row) == [row EXCEPT !.status = "cancelled",
                                 !.delivery = "suppressed"]

-----------------------------------------------------------------------------
(* Owner and agent requests against agent_jobs.                            *)

\* submit and enqueue_in: a known source_key returns its job and changes nothing.
Submit(request) ==
  /\ Serving
  /\ \A j \in Jobs : jobs[j].key # OwnerKey(request)
  /\ RowToSpare
  /\ Cardinality(Outstanding) < MaxOutstanding
  /\ \E j \in Jobs : /\ NextRow(j)
                   /\ jobs' = [jobs EXCEPT ![j] = NewJob(OwnerKey(request))]
  /\ UNCHANGED <<questions, turns, shown, memory, stops>>

\* A queued or waiting job stops at once, a running one is asked to stop.
CancelRow(row) ==
  IF row.status \in {"queued", "awaiting_input"} THEN CancelledJob(row)
  ELSE IF row.status = "running"
       THEN [row EXCEPT !.status = "cancel_requested", !.delivery = "suppressed"]
       ELSE row

\* cancel closes every open question of the job, whatever the job's status.
CancelQuestionsOf(j) ==
  [q \in Questions |-> IF q \in OpenOf(j)
                       THEN [questions[q] EXCEPT !.status = "cancelled"]
                       ELSE questions[q]]

Cancel(j) ==
  /\ Serving
  /\ jobs[j].status # "absent"
  /\ jobs' = [jobs EXCEPT ![j] = CancelRow(@)]
  /\ questions' = CancelQuestionsOf(j)
  /\ UNCHANGED <<turns, shown, memory, stops>>

\* resume is the only way back for a failed or interrupted job.
Resume(j) ==
  /\ Serving
  /\ Cardinality(Outstanding) < MaxOutstanding
  /\ jobs[j].status \in {"interrupted", "failed"}
  /\ jobs[j].delivery # "delivering"
  /\ OpenOf(j) = {}
  /\ jobs[j].attempt < MaxAttempt
  /\ jobs' = [jobs EXCEPT ![j] = NextAttempt(@)]
  /\ UNCHANGED <<questions, turns, shown, memory, stops>>

-----------------------------------------------------------------------------
(* Questions to the owner.                                                 *)

Unasked == {q \in Questions : questions[q].status = "absent"}
NextQuestion(q) == q \in Unasked /\ \A p \in Unasked : q <= p

\* A callback passes the authority check of host.rs before it reaches the
\* table; run[r] may change, and the run may even end, in between.
AskOwnerAdmitted(r) ==
  /\ Serving
  /\ run[r] = "live"
  /\ r \notin asking
  /\ Unasked # {} /\ (r \in ChatRuns => RowToSpare)
  /\ asking' = asking \cup {r}
  /\ UNCHANGED <<tables, turns, shown, run, runner, offer, stops>>

\* ask_owner: refused while the run has a pending question or too many pend.
AskOwner(r) ==
  /\ Serving
  /\ r \in asking
  /\ asking' = asking \ {r}
  /\ \/ /\ Cardinality(Pending) >= MaxPending \/ AskedBy(r) \cap Pending # {}
        /\ UNCHANGED questions
     \/ /\ Cardinality(Pending) < MaxPending
        /\ AskedBy(r) \cap Pending = {}
        /\ \E q \in Questions :
             /\ NextQuestion(q)
             /\ questions' = [questions EXCEPT ![q] =
                  [status |-> "pending", run |-> r, settled |-> FALSE,
                   resumed |-> NoJob, oversized |-> FALSE]]
  /\ UNCHANGED <<jobs, turns, shown, run, runner, offer, stops>>

\* Mutant: a resolved question leaves the job alone.
StopNothing(j) == jobs

\* A resolved question stops the job only if the job waits for its owner.
StopIfWaiting(j) == [i \in Jobs |->
  IF i = j /\ jobs[i].status = "awaiting_input" THEN CancelledJob(jobs[i])
                                                ELSE jobs[i]]

\* answer_owner_input; an approval may be declined.  With the question, what it is
\* about and the context asked for, an accepted answer may be longer than the
\* context of a continuation may be; a job takes an answer of any length.
Answer(q, declined) ==
  /\ Serving
  /\ questions[q].status = "pending"
  /\ \E oversized \in BOOLEAN :
       /\ oversized => ~declined /\ questions[q].run \in ChatRuns
       /\ questions' = [questions EXCEPT ![q].oversized = oversized,
            ![q].status = IF declined THEN "declined" ELSE "answered"]
  /\ jobs' = IF declined THEN StopIfWaiting(questions[q].run) ELSE jobs
  /\ UNCHANGED <<turns, shown, memory, stops>>

\* cancel_owner_input stops a waiting job even if q was resolved before.
CancelOwnerInput(q) ==
  /\ Serving
  /\ questions[q].status \notin {"absent", "answered"}
  /\ questions' = IF questions[q].status = "pending"
                  THEN [questions EXCEPT ![q].status = "cancelled"]
                  ELSE questions
  /\ jobs' = StopIfWaiting(questions[q].run)
  /\ UNCHANGED <<turns, shown, memory, stops>>

\* expire_owner_inputs when the questions of due are past their time: it also
\* stops every waiting job that has any resolved question without an answer.
ExpireOwnerInputs(due) ==
  LET expired == [q \in Questions |->
        IF q \in due THEN [questions[q] EXCEPT !.status = "expired"]
                     ELSE questions[q]]
  IN /\ questions' = expired
     /\ jobs' = [j \in Jobs |->
          IF /\ jobs[j].status = "awaiting_input"
             /\ \E q \in AskedBy(j) : expired[q].status \in Dead
          THEN CancelledJob(jobs[j]) ELSE jobs[j]]

-----------------------------------------------------------------------------
(* release_owner_answers.  The loop walks the batch in order of creation   *)
(* and stops at the first chat answer that finds the queue full.           *)

Saved == {q \in Questions : /\ questions[q].status = "answered"
                            /\ questions[q].settled
                            /\ questions[q].resumed = NoJob}
Batch == {q \in Saved : Cardinality({p \in Saved : p < q}) < ReleaseBatch}
ChatAnswers == {q \in Batch : questions[q].run \in ChatRuns}
ChatBefore(q) == Cardinality({p \in ChatAnswers : p < q})
\* Mutant: off by one at the limit of the queue.
HasRoomAtLimit(n) == Cardinality(Outstanding) + n <= MaxOutstanding
HasRoom(n) == Cardinality(Outstanding) + n < MaxOutstanding

\* Each chat answer before q took one place, and none of them was refused.
ReleasedChat == {q \in ChatAnswers : HasRoom(ChatBefore(q))}
Reached(q) == ChatBefore(q) = 0 \/ HasRoom(ChatBefore(q) - 1)

\* Mutant: only a job whose question was never offered takes its answer.
ReleasedUndelivered(j) == {q \in Batch :
  /\ questions[q].run = j
  /\ Reached(q)
  /\ jobs[j].status = "awaiting_input"
  /\ jobs[j].delivery = "pending"
  /\ \A p \in Batch : p < q => questions[p].run # j}

\* A waiting job takes the first answer that reaches it, unless a delivery of
\* its question is under way.
ReleasedTo(j) == {q \in Batch :
  /\ questions[q].run = j
  /\ Reached(q)
  /\ jobs[j].status = "awaiting_input"
  /\ jobs[j].delivery # "delivering"
  /\ \A p \in Batch : p < q => questions[p].run # j}

\* Chat answers take the lowest free rows, in the order they were asked.
Continuations == {row \in [ReleasedChat -> FreeRows] :
  \A q \in ReleasedChat : \A i \in Jobs :
    i \in FreeRows /\ i < row[q] <=> \E p \in ReleasedChat : p < q /\ row[p] = i}

\* enqueue_in refuses a continuation whose context is over MAX_CONTEXT_BYTES.
Refused == \E q \in ReleasedChat : questions[q].oversized

SpendAnswers == \E row \in Continuations :
  /\ jobs' = [j \in Jobs |->
       IF ReleasedTo(j) # {} THEN NextAttempt(jobs[j])
       ELSE IF \E q \in ReleasedChat : row[q] = j
            THEN NewJob(InputKey(CHOOSE q \in ReleasedChat : row[q] = j))
            ELSE jobs[j]]
  /\ questions' = [q \in Questions |->
       IF q \in ReleasedChat THEN [questions[q] EXCEPT !.resumed = row[q]]
       ELSE IF \E j \in Jobs : q \in ReleasedTo(j)
            THEN [questions[q] EXCEPT !.resumed = questions[q].run]
            ELSE questions[q]]

\* One transaction: an answer that is refused rolls back the whole batch.
ReleaseOwnerAnswers == IF Refused THEN UNCHANGED tables ELSE SpendAnswers

-----------------------------------------------------------------------------
(* run_jobs: one pass sweeps expired questions, releases answers, starts   *)
(* queued jobs while a place is free, and tells cancelled runs to stop.    *)

Step(at, job) == runner' = [at |-> at, job |-> job]
Active == {j \in Jobs : run[j] # "idle"}
Queued == {j \in Jobs : jobs[j].status = "queued"}

RunnerExpire(due) ==
  /\ runner.at = "wait"
  /\ ExpireOwnerInputs(due)
  /\ Step("release", NoJob)
  /\ UNCHANGED <<turns, shown, run, asking, offer, stops>>

RunnerRelease ==
  /\ runner.at = "release"
  /\ ReleaseOwnerAnswers
  /\ Step("pick", NoJob)
  /\ UNCHANGED <<turns, shown, run, asking, offer, stops>>


\* next_queued is a read of its own: the job may be gone when it is claimed.
RunnerPick ==
  /\ runner.at = "pick"
  /\ IF Cardinality(Active) < MaxActive /\ Queued # {}
     THEN \E j \in Queued : /\ \A i \in Queued : j <= i
                            /\ Step("claim", j)
     ELSE Step("scan", NoJob)
  /\ UNCHANGED <<tables, turns, shown, run, asking, offer, stops>>

\* Mutant: the candidate is claimed as it was read.
ClaimUnchecked(j) == jobs[j].status # "absent"
Claim(j) == jobs[j].status = "queued"

RunnerClaim ==
  /\ runner.at = "claim"
  /\ IF Claim(runner.job)
     THEN /\ jobs' = [jobs EXCEPT ![runner.job].status = "running"]
          /\ run' = [run EXCEPT ![runner.job] = "live"]
          /\ Step("pick", NoJob)
     ELSE /\ UNCHANGED <<jobs, run>>
          /\ Step("scan", NoJob)
  /\ UNCHANGED <<questions, turns, shown, asking, offer, stops>>

RunnerScan ==
  /\ runner.at = "scan"
  /\ run' = [r \in Runs |->
       IF r \in Active /\ jobs[r].status = "cancel_requested" THEN "stopping"
                                                             ELSE run[r]]
  /\ Step("wait", NoJob)
  /\ UNCHANGED <<tables, turns, shown, asking, offer, stops>>

\* The second half of the API's cancel_run: the token of the run itself.
StopRun(j) ==
  /\ Serving
  /\ run[j] = "live"
  /\ jobs[j].status = "cancel_requested"
  /\ run' = [run EXCEPT ![j] = "stopping"]
  /\ UNCHANGED <<tables, turns, shown, asking, runner, offer, stops>>

-----------------------------------------------------------------------------
(* A run ends: finish settles its questions in the same transaction.       *)

FinishedStatus(j, outcome) ==
  IF jobs[j].status \notin Claimed THEN jobs[j].status
  ELSE IF jobs[j].status = "cancel_requested" THEN "cancelled"
  ELSE IF OpenOf(j) # {} THEN "awaiting_input"
  ELSE IF \E q \in AskedBy(j) : /\ ~questions[q].settled
                                /\ questions[q].status \in Dead
       THEN "cancelled"
  ELSE outcome

SettledQuestions(r) ==
  [q \in Questions |-> IF q \in AskedBy(r)
                       THEN [questions[q] EXCEPT !.settled = TRUE]
                       ELSE questions[q]]

FinishRun(j, outcome) ==
  /\ Serving
  /\ \/ run[j] = "live" /\ outcome \in {"completed", "failed"}
     \/ run[j] = "stopping" /\ outcome \in {"completed", "interrupted"}
  /\ LET status == FinishedStatus(j, outcome) IN
       jobs' = [jobs EXCEPT ![j].status = status,
                            ![j].delivery =
                              IF status = "cancelled" \/ AnsweredOf(j) # {}
                              THEN "suppressed" ELSE @]
  /\ questions' = SettledQuestions(j)
  /\ run' = [run EXCEPT ![j] = "idle"]
  /\ UNCHANGED <<turns, shown, asking, runner, offer, stops>>

StartChat(c) ==
  /\ Serving /\ runner.at # "drain"
  /\ run[c] = "idle"
  /\ run' = [run EXCEPT ![c] = "live"]
  /\ UNCHANGED <<tables, turns, shown, asking, runner, offer, stops>>

\* settle_run and finish_input_origin.
EndChat(c) ==
  /\ Serving
  /\ run[c] = "live"
  /\ run' = [run EXCEPT ![c] = "over"]
  /\ questions' = SettledQuestions(c)
  /\ UNCHANGED <<jobs, turns, shown, asking, runner, offer, stops>>

-----------------------------------------------------------------------------
(* deliver_one: it reads a candidate, decides without any lock, claims the *)
(* delivery of the attempt it read, and lets a task write the turn.        *)

NoOffer == [at |-> "idle", job |-> NoJob, attempt |-> 0, asks |-> FALSE]
OfferedTurn == <<offer.job, offer.attempt>>
SameAttempt == jobs[offer.job].attempt = offer.attempt

OfferPick(j) ==
  /\ Serving /\ runner.at # "drain"
  /\ offer.at = "idle"
  /\ jobs[j].status \in Deliverable
  /\ jobs[j].delivery = "pending"
  /\ offer' = [NoOffer EXCEPT !.at = "picked", !.job = j]
  /\ UNCHANGED <<tables, turns, shown, run, asking, runner, stops>>

\* The row is read again after its id was: it may be another attempt by then.
OfferRead ==
  /\ offer.at = "picked"
  /\ offer' = [offer EXCEPT !.at = "evaluating",
                            !.attempt = jobs[offer.job].attempt]
  /\ UNCHANGED <<tables, turns, shown, run, asking, runner, stops>>

\* defer_delivery only moves the due time of a delivery that stays pending.
OfferDefer ==
  /\ offer.at = "evaluating"
  /\ offer' = NoOffer
  /\ UNCHANGED <<tables, turns, shown, run, asking, runner, stops>>

OfferSuppress ==
  /\ offer.at = "evaluating"
  /\ jobs' = [jobs EXCEPT ![offer.job].delivery =
                IF SameAttempt /\ @ = "pending" THEN "suppressed" ELSE @]
  /\ offer' = NoOffer
  /\ UNCHANGED <<questions, turns, shown, run, asking, runner, stops>>

Claimable == /\ SameAttempt
             /\ jobs[offer.job].delivery = "pending"
             /\ jobs[offer.job].status \in Deliverable

OfferClaim ==
  /\ offer.at = "evaluating"
  /\ IF Claimable
     THEN /\ jobs' = [jobs EXCEPT ![offer.job].delivery = "delivering"]
          /\ offer' = [offer EXCEPT !.at = "claimed",
                         !.asks = jobs[offer.job].status = "awaiting_input"]
     ELSE offer' = NoOffer /\ UNCHANGED jobs
  /\ UNCHANGED <<questions, turns, shown, run, asking, runner, stops>>

\* A question is delivered only while it is pending.
OfferBegin ==
  /\ offer.at = "claimed"
  /\ offer.asks => AskedBy(offer.job) \cap Pending # {}
  /\ offer' = [offer EXCEPT !.at = "streaming"]
  /\ UNCHANGED <<tables, turns, shown, run, asking, runner, stops>>

OfferComplete ==
  /\ offer.at = "streaming"
  /\ OfferedTurn \notin turns
  /\ Cardinality(turns) < MaxTurns
  /\ turns' = turns \cup {OfferedTurn}
  /\ UNCHANGED <<tables, shown, memory, stops>>

\* Mutant: a delivery that failed is offered again.
DeliveryOutcomeRetried(succeeded) ==
  IF OfferedTurn \in shown THEN "presented"
  ELSE IF OfferedTurn \in turns THEN "committed"
  ELSE IF succeeded THEN "suppressed" ELSE "pending"

DeliveryOutcome(succeeded) ==
  IF OfferedTurn \in shown THEN "presented"
  ELSE IF OfferedTurn \in turns THEN "committed"
  ELSE IF succeeded THEN "suppressed" ELSE "interrupted"

\* A user may preempt the task at any moment; the turn decides what is left.
OfferFinish(succeeded) ==
  /\ offer.at \in {"claimed", "streaming"}
  /\ (offer.at = "streaming" /\ OfferedTurn \notin turns) => ~succeeded
  /\ jobs' = [jobs EXCEPT ![offer.job].delivery =
                IF SameAttempt /\ @ \in {"delivering", "presented"}
                THEN DeliveryOutcome(succeeded) ELSE @]
  /\ offer' = NoOffer
  /\ UNCHANGED <<questions, turns, shown, run, asking, runner, stops>>

\* acknowledge_presentation, from any client and as often as it likes.
Acknowledge(j, attempt) ==
  /\ Serving
  /\ <<j, attempt>> \in turns
  /\ shown' = shown \cup {<<j, attempt>>}
  /\ jobs' = [jobs EXCEPT ![j].delivery =
                IF /\ jobs[j].attempt = attempt
                   /\ @ \in {"delivering", "committed"}
                THEN "presented" ELSE @]
  /\ UNCHANGED <<questions, turns, memory, stops>>

-----------------------------------------------------------------------------
(* Shutdown, crash and startup.                                            *)

Shutdown ==
  /\ runner.at = "wait"
  /\ stops < MaxStops
  /\ stops' = stops + 1
  /\ Step("drain", NoJob)
  /\ run' = [r \in Runs |-> IF r \in Active THEN "stopping" ELSE run[r]]
  /\ UNCHANGED <<tables, turns, shown, asking, offer>>

RunnerExit ==
  /\ runner.at = "drain"
  /\ Active = {}
  /\ \A c \in ChatRuns : run[c] # "live"
  /\ offer.at = "idle"
  /\ Step("off", NoJob)
  /\ asking' = {}
  /\ UNCHANGED <<tables, turns, shown, run, offer, stops>>

Crash ==
  /\ runner.at # "off"
  /\ stops < MaxStops
  /\ stops' = stops + 1
  /\ run' = [r \in Runs |-> IF r \in Jobs THEN "idle"
                            ELSE IF run[r] = "live" THEN "over" ELSE run[r]]
  /\ asking' = {}
  /\ Step("off", NoJob)
  /\ offer' = NoOffer
  /\ UNCHANGED <<tables, turns, shown>>

\* Mutants: startup forgets the runs that died, or the stop they were told.
RecoveredStatusRunning(j) ==
  IF jobs[j].status = "cancel_requested" THEN "cancelled" ELSE jobs[j].status
RecoveredStatusUnstopped(j) ==
  IF jobs[j].status \in Claimed
  THEN IF OpenOf(j) # {} THEN "awaiting_input" ELSE "interrupted"
  ELSE jobs[j].status

RecoveredStatus(j) ==
  IF jobs[j].status = "cancel_requested" THEN "cancelled"
  ELSE IF jobs[j].status = "running"
       THEN IF OpenOf(j) # {} THEN "awaiting_input" ELSE "interrupted"
  ELSE jobs[j].status

\* Mutant: startup takes a delivery as done.
RecoveredDeliveryDone(j) ==
  IF jobs[j].delivery = "delivering" THEN "committed" ELSE jobs[j].delivery

RecoveredDelivery(j) ==
  LET turn == <<j, jobs[j].attempt>>
      delivery == IF jobs[j].delivery # "delivering" THEN jobs[j].delivery
                  ELSE IF turn \in turns THEN "committed" ELSE "interrupted"
  IN IF delivery = "committed" /\ turn \in shown THEN "presented" ELSE delivery

Recover ==
  /\ runner.at = "off"
  /\ jobs' = [j \in Jobs |-> [jobs[j] EXCEPT !.status = RecoveredStatus(j),
                                             !.delivery = RecoveredDelivery(j)]]
  /\ questions' = [q \in Questions |->
       IF questions[q].status = "absent" THEN questions[q]
       ELSE [questions[q] EXCEPT !.settled = TRUE, !.status =
               IF /\ Open(q)
                  /\ \E j \in Jobs : /\ questions[q].run = j
                                     /\ RecoveredStatus(j) = "cancelled"
               THEN "cancelled" ELSE @]]
  /\ Step("recovering", NoJob)
  /\ UNCHANGED <<turns, shown, run, asking, offer, stops>>

\* recover ends with a sweep; only then do the loops and the API start.
Start(due) ==
  /\ runner.at = "recovering"
  /\ ExpireOwnerInputs(due)
  /\ Step("wait", NoJob)
  /\ UNCHANGED <<turns, shown, run, asking, offer, stops>>

\* The API sweeps before it lists questions.
ListOwnerInputs(due) ==
  /\ Serving
  /\ ExpireOwnerInputs(due)
  /\ UNCHANGED <<turns, shown, memory, stops>>

-----------------------------------------------------------------------------
Clients ==
  \/ \E request \in Keys : Submit(request)
  \/ \E j \in Jobs : Cancel(j) \/ Resume(j) \/ StopRun(j)
  \/ \E q \in Questions : \/ CancelOwnerInput(q)
                          \/ \E declined \in BOOLEAN : Answer(q, declined)
  \/ \E due \in SUBSET Pending : ListOwnerInputs(due)
  \/ \E turn \in turns : Acknowledge(turn[1], turn[2])

Agents ==
  \/ \E r \in Runs : AskOwnerAdmitted(r) \/ AskOwner(r)
  \/ \E j \in Jobs : \E outcome \in {"completed", "failed", "interrupted"} :
       FinishRun(j, outcome)
  \/ \E c \in ChatRuns : StartChat(c) \/ EndChat(c)

Runner ==
  \/ \E due \in SUBSET Pending : RunnerExpire(due)
  \/ RunnerRelease \/ RunnerPick \/ RunnerClaim \/ RunnerScan

Deliverer ==
  \/ \E j \in Jobs : OfferPick(j)
  \/ OfferRead \/ OfferDefer \/ OfferSuppress \/ OfferClaim
  \/ OfferBegin \/ OfferComplete
  \/ \E succeeded \in BOOLEAN : OfferFinish(succeeded)

Lifecycle ==
  \/ Shutdown \/ RunnerExit \/ Crash \/ Recover
  \/ \E due \in SUBSET Pending : Start(due)

Next == Clients \/ Agents \/ Runner \/ Deliverer \/ Lifecycle

Spec == Init /\ [][Next]_vars

\* The loops keep turning (each waits at most a second), a run ends by its own
\* deadline, callbacks and deliveries finish, a daemon that stops is started
\* again, and in the end every question that stays unanswered is past its time.
Fairness ==
  /\ WF_vars(Runner)
  /\ SF_vars(RunnerExpire(Pending))
  /\ \A j \in Jobs : WF_vars(\E outcome \in {"completed", "failed", "interrupted"} :
                              FinishRun(j, outcome))
  /\ \A c \in ChatRuns : WF_vars(EndChat(c))
  /\ WF_vars(OfferRead \/ OfferDefer \/ OfferSuppress \/ OfferClaim)
  /\ WF_vars(\E succeeded \in BOOLEAN : OfferFinish(succeeded))
  /\ WF_vars(RunnerExit \/ Recover \/ \E due \in SUBSET Pending : Start(due))

FairSpec == Spec /\ Fairness

-----------------------------------------------------------------------------
(* Safety.                                                                 *)

\* The claim in the table and the run in memory agree: while the daemon is up
\* no job is marked running without a run (it would hold its place in the queue
\* until the next start) and no run works on a job that is not claimed for it;
\* a stopped daemon has no runs, so that startup alone settles what it left.
RunHoldsClaim ==
  IF runner.at = "off"
  THEN \A j \in Jobs : run[j] = "idle"
  ELSE \A j \in Jobs : jobs[j].status \in Claimed <=> run[j] # "idle"

\* A job that waits for its owner has a question that can still end the wait:
\* without one nothing but an explicit cancel would ever move it.
AwaitingHasOpenQuestion ==
  \A j \in Jobs : jobs[j].status = "awaiting_input" => OpenOf(j) # {}

\* Work that was cancelled, by whichever of the five ways, or was told to stop,
\* has no result to deliver, even when that happens inside a delivery.
CancelledIsSuppressed ==
  \A j \in Jobs : jobs[j].status \in {"cancel_requested", "cancelled"} =>
    jobs[j].delivery = "suppressed"

\* "A stored reply is committed, and presented only on a receipt": a delivery
\* counts as committed only with its own complete turn, and as presented only
\* with a receipt for that very attempt.
DeliveryHasEvidence ==
  \A j \in Jobs :
    /\ jobs[j].delivery = "committed" => <<j, jobs[j].attempt>> \in turns
    /\ jobs[j].delivery = "presented" => <<j, jobs[j].attempt>> \in shown

\* At most one delivery is under way, and it is the deliverer's own.
DeliveringIsOffered ==
  runner.at # "off" =>
    \A j \in Jobs : jobs[j].delivery = "delivering" =>
      /\ offer.at \in {"claimed", "streaming"}
      /\ OfferedTurn = <<j, jobs[j].attempt>>

\* The queue keeps its limit through submits, resumes and continuations.
QueueWithinLimit == Cardinality(Outstanding) <= MaxOutstanding

\* "An answer given after the question was shown releases it once": a saved
\* answer of a settled run belongs to a job that can still take it.
SavedAnswerCanRelease ==
  \A q \in Saved : questions[q].run \in Jobs =>
    jobs[questions[q].run].status \in
      {"queued", "running", "cancel_requested", "awaiting_input"}

-----------------------------------------------------------------------------
(* What a step may never do.                                               *)

\* The delivery of an attempt is decided once: it is never offered again.
DeliveryDecidedOnce ==
  [][\A j \in Jobs : /\ jobs[j].delivery # "pending"
                     /\ jobs'[j].attempt = jobs[j].attempt
                     => jobs'[j].delivery # "pending"]_vars

-----------------------------------------------------------------------------
(* What must happen in the end, under Fairness.                            *)


\* A cancelled run stops, also when the daemon dies before it can.
StopIsHonoured ==
  \A j \in Jobs : jobs[j].status = "cancel_requested"
                     ~> jobs[j].status = "cancelled"

\* What keeps the release from answers for ever: an answer too long for its
\* continuation fails every release; answers of jobs that ended, which nothing
\* takes, fill the batch; or jobs that wait for their own saved answers fill the
\* queue, while an older chat answer finds it full and ends every batch.
Poisoned == \E q \in Batch : questions[q].oversized
Stranded == {q \in Saved : /\ questions[q].run \in Jobs
                           /\ questions[q].run \notin Outstanding}
Clogged == Cardinality(Stranded) >= ReleaseBatch
Wedged == /\ Cardinality(Outstanding) >= MaxOutstanding
          /\ \A j \in Outstanding : jobs[j].status = "awaiting_input"
          /\ \E p \in ChatAnswers : \A q \in Saved :
               questions[q].run \in Outstanding => p < q

\* A saved answer that has somebody to go to: the owner's conversation, or a job
\* that waits for it.
Wanted(q) ==
  /\ q \in Saved
  /\ \/ questions[q].run \in ChatRuns
     \/ \E j \in Jobs : questions[q].run = j /\ jobs[j].status = "awaiting_input"

\* A wanted answer is spent, on its job or on a continuation, or the wait for it
\* is stopped, however full the queue was and whatever the daemon was doing when
\* it came, unless the release is stuck for good in one of the three ways above.
AnswerIsSpent ==
  \/ <>[](Poisoned \/ Clogged \/ Wedged)
  \/ \A q \in Questions : Wanted(q) ~> ~Wanted(q)

-----------------------------------------------------------------------------
(* The tables keep the contract of background work.                        *)

PhaseOf(status) ==
  CASE status = "absent" -> "none"
    [] status = "queued" -> "ready"
    [] status = "running" -> "working"
    [] status = "cancel_requested" -> "stopping"
    [] status = "awaiting_input" -> "waiting"
    [] status = "completed" -> "done"
    [] status \in {"failed", "interrupted"} -> "broken"
    [] status = "cancelled" -> "withdrawn"

Contract == INSTANCE WorkContract WITH
  Answers <- Questions,
  phase <- [j \in Jobs |-> PhaseOf(jobs[j].status)],
  rounds <- [j \in Jobs |-> jobs[j].attempt],
  spent <- [q \in Questions |-> questions[q].resumed]

\* Every step of the daemon, its crashes and restarts included, is a step of
\* the contract: an answer releases one attempt once, interrupted work waits
\* for an explicit resume, and cancelled work stays cancelled.
KeepsContract == Contract!Spec
=============================================================================
