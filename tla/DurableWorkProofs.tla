-------------------------- MODULE DurableWorkProofs --------------------------
(***************************************************************************)
(* Proofs about DurableWork for every number of jobs, questions, requests, *)
(* chat runs, attempts and stops.                                          *)
(***************************************************************************)
EXTENDS DurableWork, FiniteSetTheorems, FunctionTheorems, WellFoundedInduction, TLAPS

(* The rows the operators build are rows.                                  *)

LEMMA RowTypes ==
  ASSUME NEW row \in JobRow
  PROVE  /\ NextAttempt(row) \in JobRow
         /\ CancelledJob(row) \in JobRow
         /\ CancelRow(row) \in JobRow
<1>1. NextAttempt(row) \in JobRow
  <2>1. row.attempt + 1 \in Nat
    BY DEF JobRow
  <2>2. \A n \in Nat : [row EXCEPT !.status = "queued", !.attempt = n,
                                   !.delivery = "pending"] \in JobRow
    BY DEF JobRow, JobStatus, DeliveryStatus
  <2> QED BY <2>1, <2>2 DEF NextAttempt
<1>2. CancelledJob(row) \in JobRow
  BY DEF JobRow, CancelledJob, JobStatus, DeliveryStatus
<1>3. [row EXCEPT !.status = "cancel_requested",
                  !.delivery = "suppressed"] \in JobRow
  BY DEF JobRow, JobStatus, DeliveryStatus
<1> QED BY <1>1, <1>2, <1>3 DEF CancelRow

LEMMA RowFields ==
  ASSUME NEW row \in JobRow
  PROVE  /\ NextAttempt(row).status = "queued"
         /\ NextAttempt(row).attempt = row.attempt + 1
         /\ NextAttempt(row).delivery = "pending"
         /\ CancelledJob(row).status = "cancelled"
         /\ CancelledJob(row).attempt = row.attempt
         /\ CancelledJob(row).delivery = "suppressed"
         /\ CancelRow(row).attempt = row.attempt
BY DEF JobRow, NextAttempt, CancelledJob, CancelRow

LEMMA NewJobType ==
  /\ \A request \in Keys : NewJob(OwnerKey(request)) \in JobRow
  /\ \A q \in Questions : NewJob(InputKey(q)) \in JobRow
BY DEF NewJob, OwnerKey, InputKey, JobRow, JobStatus, DeliveryStatus, SourceKeys

\* A sweep rewrites statuses and nothing else.
LEMMA SweepTypes ==
  ASSUME TypeOK, NEW due \in SUBSET Pending, ExpireOwnerInputs(due)
  PROVE  jobs' \in [Jobs -> JobRow] /\ questions' \in [Questions -> QuestionRow]
BY RowTypes DEF TypeOK, ExpireOwnerInputs, QuestionRow, QuestionStatus

\* A release spends its batch or leaves the tables as they are.
LEMMA ReleaseCases == ReleaseOwnerAnswers => SpendAnswers \/ UNCHANGED tables
BY DEF ReleaseOwnerAnswers

LEMMA ReleaseTypes ==
  ASSUME TypeOK, ReleaseOwnerAnswers
  PROVE  jobs' \in [Jobs -> JobRow] /\ questions' \in [Questions -> QuestionRow]
<1> SUFFICES ASSUME SpendAnswers
             PROVE  jobs' \in [Jobs -> JobRow] /\ questions' \in [Questions -> QuestionRow]
  BY ReleaseCases DEF TypeOK, tables
<1>1. PICK row \in Continuations :
        /\ jobs' = [j \in Jobs |->
             IF ReleasedTo(j) # {} THEN NextAttempt(jobs[j])
             ELSE IF \E q \in ReleasedChat : row[q] = j
                  THEN NewJob(InputKey(CHOOSE q \in ReleasedChat : row[q] = j))
                  ELSE jobs[j]]
        /\ questions' = [q \in Questions |->
             IF q \in ReleasedChat
             THEN [questions[q] EXCEPT !.resumed = row[q]]
             ELSE IF \E j \in Jobs : q \in ReleasedTo(j)
                  THEN [questions[q] EXCEPT !.resumed = questions[q].run]
                  ELSE questions[q]]
  BY DEF SpendAnswers
<1>2. ReleasedChat \subseteq Questions
  BY DEF ReleasedChat, ChatAnswers, Batch, Saved
<1>3. row \in [ReleasedChat -> Jobs]
  BY <1>1 DEF Continuations, FreeRows
<1>4. \A j \in Jobs : \A q \in ReleasedTo(j) : questions[q].run = j
  BY DEF ReleasedTo
<1>5. \A j \in Jobs : (\E q \in ReleasedChat : row[q] = j) =>
        NewJob(InputKey(CHOOSE q \in ReleasedChat : row[q] = j)) \in JobRow
  BY <1>2, NewJobType
<1>6. jobs' \in [Jobs -> JobRow]
  BY <1>1, <1>5, RowTypes DEF TypeOK
<1>7. questions' \in [Questions -> QuestionRow]
  BY <1>1, <1>3, <1>4 DEF TypeOK, QuestionRow
<1> QED BY <1>6, <1>7

\* An answer resolves its question and leaves the rest of its row.
LEMMA AnswerEffect ==
  ASSUME TypeOK, NEW q \in Questions, NEW declined \in BOOLEAN, Answer(q, declined)
  PROVE  \E row \in QuestionRow :
           /\ questions' = [questions EXCEPT ![q] = row]
           /\ row.status = IF declined THEN "declined" ELSE "answered"
           /\ row.run = questions[q].run
           /\ row.resumed = questions[q].resumed
<1>1. PICK oversized \in BOOLEAN :
        questions' = [questions EXCEPT ![q].oversized = oversized,
          ![q].status = IF declined THEN "declined" ELSE "answered"]
  BY DEF Answer
<1> DEFINE row == [questions[q] EXCEPT !.oversized = oversized,
                     !.status = IF declined THEN "declined" ELSE "answered"]
<1>2. questions[q] \in QuestionRow
  BY DEF TypeOK
<1>3. /\ row \in QuestionRow
      /\ row.status = IF declined THEN "declined" ELSE "answered"
      /\ row.run = questions[q].run
      /\ row.resumed = questions[q].resumed
  BY <1>2 DEF QuestionRow, QuestionStatus
<1>4. questions' = [questions EXCEPT ![q] = row]
  BY <1>1
<1> QED BY <1>3, <1>4

-----------------------------------------------------------------------------
(* Type correctness, one lemma for each disjunct of Next.                  *)

LEMMA ClientTypes == TypeOK /\ Clients => TypeOK'
<1> SUFFICES ASSUME TypeOK, Clients PROVE TypeOK'
  OBVIOUS
<1>1. ASSUME NEW request \in Keys, Submit(request) PROVE TypeOK'
  BY <1>1, NewJobType DEF Submit, TypeOK, memory
<1>2. ASSUME NEW j \in Jobs, Cancel(j) PROVE TypeOK'
  <2>1. CancelQuestionsOf(j) \in [Questions -> QuestionRow]
    BY DEF TypeOK, CancelQuestionsOf, QuestionRow, QuestionStatus
  <2> QED BY <1>2, <2>1, RowTypes DEF Cancel, TypeOK, memory
<1>3. ASSUME NEW j \in Jobs, Resume(j) PROVE TypeOK'
  BY <1>3, RowTypes DEF Resume, TypeOK, memory
<1>4. ASSUME NEW j \in Jobs, StopRun(j) PROVE TypeOK'
  BY <1>4 DEF StopRun, TypeOK, tables
<1>5. \A j : StopIfWaiting(j) \in [Jobs -> JobRow]
  BY RowTypes DEF StopIfWaiting, TypeOK
<1>6. ASSUME NEW q \in Questions, CancelOwnerInput(q) PROVE TypeOK'
  <2>1. questions' \in [Questions -> QuestionRow]
    <3>1. [questions[q] EXCEPT !.status = "cancelled"] \in QuestionRow
      BY DEF TypeOK, QuestionRow, QuestionStatus
    <3> QED BY <1>6, <3>1 DEF CancelOwnerInput, TypeOK
  <2> QED BY <1>5, <1>6, <2>1 DEF CancelOwnerInput, TypeOK, memory
<1>7. ASSUME NEW q \in Questions, NEW declined \in BOOLEAN, Answer(q, declined)
      PROVE TypeOK'
  <2>1. questions' \in [Questions -> QuestionRow]
    <3>1. PICK row \in QuestionRow : questions' = [questions EXCEPT ![q] = row]
      BY <1>7, AnswerEffect
    <3> QED BY <3>1 DEF TypeOK
  <2>2. jobs' \in [Jobs -> JobRow]
    BY <1>5, <1>7 DEF Answer, TypeOK
  <2> QED BY <1>7, <2>1, <2>2 DEF Answer, TypeOK, memory
<1>8. ASSUME NEW due \in SUBSET Pending, ListOwnerInputs(due) PROVE TypeOK'
  BY <1>8, SweepTypes DEF ListOwnerInputs, TypeOK, memory
<1>9. ASSUME NEW turn \in turns, Acknowledge(turn[1], turn[2]) PROVE TypeOK'
  <2>1. turn[1] \in Jobs /\ turn[2] \in Nat
    BY DEF TypeOK
  <2>2. shown' \subseteq Jobs \X Nat
    BY <1>9, <2>1 DEF Acknowledge, TypeOK
  <2>3. jobs' \in [Jobs -> JobRow]
    BY <1>9, <2>1 DEF Acknowledge, TypeOK, JobRow, DeliveryStatus
  <2> QED BY <1>9, <2>2, <2>3 DEF Acknowledge, TypeOK, memory
<1> QED BY <1>1, <1>2, <1>3, <1>4, <1>6, <1>7, <1>8, <1>9 DEF Clients

LEMMA AgentTypes == TypeOK /\ Agents => TypeOK'
<1> SUFFICES ASSUME TypeOK, Agents PROVE TypeOK'
  OBVIOUS
<1>1. ASSUME NEW r \in Runs, AskOwnerAdmitted(r) PROVE TypeOK'
  BY <1>1 DEF AskOwnerAdmitted, TypeOK, tables
<1>2. ASSUME NEW r \in Runs, AskOwner(r) PROVE TypeOK'
  <2>1. [status |-> "pending", run |-> r, settled |-> FALSE,
         resumed |-> NoJob, oversized |-> FALSE] \in QuestionRow
    BY DEF QuestionRow, QuestionStatus
  <2>2. questions' \in [Questions -> QuestionRow]
    BY <1>2, <2>1 DEF AskOwner, TypeOK
  <2> QED BY <1>2, <2>2 DEF AskOwner, TypeOK
<1>3. \A r : SettledQuestions(r) \in [Questions -> QuestionRow]
  BY DEF SettledQuestions, TypeOK, QuestionRow
<1>4. ASSUME NEW j \in Jobs, FinishRun(j, "completed") \/ FinishRun(j, "failed")
                             \/ FinishRun(j, "interrupted")
      PROVE TypeOK'
  <2>1. \A outcome \in {"completed", "failed", "interrupted"} :
          FinishedStatus(j, outcome) \in JobStatus
    BY DEF FinishedStatus, TypeOK, JobRow, JobStatus
  <2>2. jobs' \in [Jobs -> JobRow]
    BY <1>4, <2>1 DEF FinishRun, TypeOK, JobRow, DeliveryStatus
  <2> QED BY <1>3, <1>4, <2>2 DEF FinishRun, TypeOK, Runs
<1>5. ASSUME NEW c \in ChatRuns, StartChat(c) \/ EndChat(c) PROVE TypeOK'
  BY <1>3, <1>5 DEF StartChat, EndChat, TypeOK, tables, Runs
<1> QED BY <1>1, <1>2, <1>4, <1>5 DEF Agents

LEMMA RunnerTypes == TypeOK /\ Runner => TypeOK'
<1> SUFFICES ASSUME TypeOK, Runner PROVE TypeOK'
  OBVIOUS
<1>1. ASSUME NEW due \in SUBSET Pending, RunnerExpire(due) PROVE TypeOK'
  BY <1>1, SweepTypes DEF RunnerExpire, Step, TypeOK
<1>2. CASE RunnerRelease
  BY <1>2, ReleaseTypes DEF RunnerRelease, Step, TypeOK
<1>3. CASE RunnerPick
  BY <1>3 DEF RunnerPick, Queued, Step, TypeOK, tables
<1>4. CASE RunnerClaim
  <2>1. jobs' \in [Jobs -> JobRow]
    BY <1>4 DEF RunnerClaim, TypeOK, JobRow, JobStatus
  <2> QED BY <1>4, <2>1 DEF RunnerClaim, Step, TypeOK
<1>5. CASE RunnerScan
  BY <1>5 DEF RunnerScan, Step, TypeOK, tables
<1> QED BY <1>1, <1>2, <1>3, <1>4, <1>5 DEF Runner

LEMMA DelivererTypes == TypeOK /\ Deliverer => TypeOK'
<1> SUFFICES ASSUME TypeOK, Deliverer PROVE TypeOK'
  OBVIOUS
<1>1. ASSUME NEW j \in Jobs, OfferPick(j) PROVE TypeOK'
  BY <1>1 DEF OfferPick, NoOffer, TypeOK, tables
<1>2. CASE OfferRead
  <2>1. jobs[offer.job].attempt \in Nat
    BY <1>2 DEF OfferRead, TypeOK, JobRow
  <2> QED BY <1>2, <2>1 DEF OfferRead, TypeOK, tables
<1>3. CASE OfferDefer
  BY <1>3 DEF OfferDefer, NoOffer, TypeOK, tables
<1>4. CASE OfferSuppress
  <2>1. jobs' \in [Jobs -> JobRow]
    BY <1>4 DEF OfferSuppress, TypeOK, JobRow, DeliveryStatus
  <2> QED BY <1>4, <2>1 DEF OfferSuppress, NoOffer, TypeOK
<1>5. CASE OfferClaim
  <2>1. jobs' \in [Jobs -> JobRow]
    BY <1>5 DEF OfferClaim, TypeOK, JobRow, DeliveryStatus
  <2>2. \A asks \in BOOLEAN : [offer EXCEPT !.at = "claimed", !.asks = asks] \in
          [at: {"idle", "picked", "evaluating", "claimed", "streaming"},
           job: Jobs \cup {NoJob}, attempt: Nat, asks: BOOLEAN]
    BY DEF TypeOK
  <2>3. (jobs[offer.job].status = "awaiting_input") \in BOOLEAN
    OBVIOUS
  <2>4. CASE Claimable
    <3>1. offer' = [offer EXCEPT !.at = "claimed",
                      !.asks = jobs[offer.job].status = "awaiting_input"]
      BY <1>5, <2>4 DEF OfferClaim
    <3>2. offer'.job = offer.job /\ offer.job \in Jobs
      BY <1>5, <3>1 DEF OfferClaim, TypeOK
    <3>3. offer' \in [at: {"idle", "picked", "evaluating", "claimed", "streaming"},
                      job: Jobs \cup {NoJob}, attempt: Nat, asks: BOOLEAN]
      BY <2>2, <2>3, <3>1
    <3> QED BY <1>5, <2>1, <3>2, <3>3 DEF OfferClaim, TypeOK
  <2>5. CASE ~Claimable
    <3>1. offer' = NoOffer
      BY <1>5, <2>5 DEF OfferClaim
    <3> QED BY <1>5, <2>1, <3>1 DEF OfferClaim, NoOffer, TypeOK
  <2> QED BY <2>4, <2>5
<1>6. CASE OfferBegin
  BY <1>6 DEF OfferBegin, TypeOK, tables
<1>7. CASE OfferComplete
  BY <1>7 DEF OfferComplete, OfferedTurn, TypeOK, tables, memory
<1>8. ASSUME NEW succeeded \in BOOLEAN, OfferFinish(succeeded) PROVE TypeOK'
  <2>1. DeliveryOutcome(succeeded) \in DeliveryStatus
    BY DEF DeliveryOutcome, DeliveryStatus
  <2>2. jobs' \in [Jobs -> JobRow]
    BY <1>8, <2>1 DEF OfferFinish, TypeOK, JobRow
  <2> QED BY <1>8, <2>2 DEF OfferFinish, NoOffer, TypeOK
<1> QED BY <1>1, <1>2, <1>3, <1>4, <1>5, <1>6, <1>7, <1>8 DEF Deliverer

LEMMA LifecycleTypes == TypeOK /\ Lifecycle => TypeOK'
<1> SUFFICES ASSUME TypeOK, Lifecycle PROVE TypeOK'
  OBVIOUS
<1>1. CASE Shutdown
  BY <1>1 DEF Shutdown, Step, TypeOK, tables
<1>2. CASE RunnerExit
  BY <1>2 DEF RunnerExit, Step, TypeOK, tables
<1>3. CASE Crash
  BY <1>3 DEF Crash, Step, NoOffer, TypeOK, tables
<1>4. CASE Recover
  <2>1. \A j \in Jobs : /\ RecoveredStatus(j) \in JobStatus
                        /\ RecoveredDelivery(j) \in DeliveryStatus
    BY DEF RecoveredStatus, RecoveredDelivery, TypeOK, JobRow, JobStatus,
           DeliveryStatus
  <2>2. \A row \in JobRow, status \in JobStatus, delivery \in DeliveryStatus :
          [row EXCEPT !.status = status, !.delivery = delivery] \in JobRow
    BY DEF JobRow
  <2>3. jobs' \in [Jobs -> JobRow]
    BY <1>4, <2>1, <2>2 DEF Recover, TypeOK
  <2>4. \A row \in QuestionRow :
          /\ [row EXCEPT !.settled = TRUE, !.status = "cancelled"] \in QuestionRow
          /\ [row EXCEPT !.settled = TRUE, !.status = row.status] \in QuestionRow
    BY DEF QuestionRow, QuestionStatus
  <2>5. questions' \in [Questions -> QuestionRow]
    BY <1>4, <2>4 DEF Recover, TypeOK
  <2> QED BY <1>4, <2>3, <2>5 DEF Recover, Step, TypeOK
<1>5. ASSUME NEW due \in SUBSET Pending, Start(due) PROVE TypeOK'
  BY <1>5, SweepTypes DEF Start, Step, TypeOK
<1> QED BY <1>1, <1>2, <1>3, <1>4, <1>5 DEF Lifecycle

\* The tables and the daemon's memory always hold values of their types.
THEOREM TypeCorrect == Spec => []TypeOK
<1>1. Init => TypeOK
  BY ConstantsAssumption DEF Init, TypeOK, JobRow, QuestionRow, JobStatus,
     DeliveryStatus, QuestionStatus, NoJob
<1>2. TypeOK /\ [Next]_vars => TypeOK'
  <2>1. TypeOK /\ Next => TypeOK'
    BY ClientTypes, AgentTypes, RunnerTypes, DelivererTypes, LifecycleTypes
       DEF Next
  <2>2. TypeOK /\ UNCHANGED vars => TypeOK'
    BY DEF TypeOK, vars
  <2> QED BY <2>1, <2>2
<1> QED BY <1>1, <1>2, PTL DEF Spec

-----------------------------------------------------------------------------
(* What each step does to the tables, pointwise.                           *)

\* The deliverer changes one delivery at most.
LEMMA DelivererEffect ==
  ASSUME TypeOK, Deliverer
  PROVE  /\ \A j \in Jobs : /\ jobs'[j].status = jobs[j].status
                            /\ jobs'[j].attempt = jobs[j].attempt
                            /\ jobs[j].delivery = "suppressed" =>
                                 jobs'[j].delivery = "suppressed"
         /\ UNCHANGED <<questions, shown, run, asking, runner>>
<1>1. ASSUME NEW j \in Jobs, OfferPick(j)
      PROVE jobs' = jobs /\ UNCHANGED <<questions, shown, run, asking, runner>>
  BY <1>1 DEF OfferPick, tables
<1>2. CASE OfferRead \/ OfferDefer \/ OfferBegin \/ OfferComplete
  BY <1>2 DEF OfferRead, OfferDefer, OfferBegin, OfferComplete, tables, memory
<1>3. \A d : \A j \in Jobs :
        /\ [jobs EXCEPT ![offer.job].delivery = d][j].status = jobs[j].status
        /\ [jobs EXCEPT ![offer.job].delivery = d][j].attempt = jobs[j].attempt
        /\ [jobs EXCEPT ![offer.job].delivery = d][j].delivery \in
             {d, jobs[j].delivery}
        /\ j # offer.job => [jobs EXCEPT ![offer.job].delivery = d][j] = jobs[j]
  BY DEF TypeOK, JobRow
<1>4. CASE OfferSuppress
  BY <1>3, <1>4 DEF OfferSuppress
<1>5. CASE OfferClaim
  <2>1. CASE Claimable
    <3>1. jobs' = [jobs EXCEPT ![offer.job].delivery = "delivering"]
      BY <1>5, <2>1 DEF OfferClaim
    <3> QED BY <1>3, <1>5, <2>1, <3>1 DEF OfferClaim, Claimable
  <2>2. CASE ~Claimable
    BY <1>5, <2>2 DEF OfferClaim
  <2> QED BY <2>1, <2>2
<1>6. ASSUME NEW succeeded \in BOOLEAN, OfferFinish(succeeded)
      PROVE /\ \A j \in Jobs : /\ jobs'[j].status = jobs[j].status
                               /\ jobs'[j].attempt = jobs[j].attempt
                               /\ jobs[j].delivery = "suppressed" =>
                                    jobs'[j].delivery = "suppressed"
            /\ UNCHANGED <<questions, shown, run, asking, runner>>
  BY <1>3, <1>6 DEF OfferFinish
<1> QED BY <1>1, <1>2, <1>4, <1>5, <1>6 DEF Deliverer

\* A release hands a waiting job its next attempt, or fills a free row.
LEMMA ReleaseEffect ==
  ASSUME TypeOK, ReleaseOwnerAnswers \/ SpendAnswers
  PROVE  \A j \in Jobs :
           \/ jobs'[j] = jobs[j]
           \/ /\ ReleasedTo(j) # {}
              /\ jobs[j].status = "awaiting_input"
              /\ jobs'[j] = NextAttempt(jobs[j])
           \/ /\ jobs[j].status = "absent"
              /\ \E q \in Questions : jobs'[j] = NewJob(InputKey(q))
<1>0. CASE UNCHANGED tables
  BY <1>0 DEF tables
<1> SUFFICES ASSUME SpendAnswers
             PROVE  \A j \in Jobs :
                      \/ jobs'[j] = jobs[j]
                      \/ /\ ReleasedTo(j) # {}
                         /\ jobs[j].status = "awaiting_input"
                         /\ jobs'[j] = NextAttempt(jobs[j])
                      \/ /\ jobs[j].status = "absent"
                         /\ \E q \in Questions : jobs'[j] = NewJob(InputKey(q))
  BY <1>0, ReleaseCases
<1>1. ReleasedChat \subseteq Questions
  BY DEF ReleasedChat, ChatAnswers, Batch, Saved
<1>2. PICK row \in Continuations : jobs' = [j \in Jobs |->
        IF ReleasedTo(j) # {} THEN NextAttempt(jobs[j])
        ELSE IF \E q \in ReleasedChat : row[q] = j
             THEN NewJob(InputKey(CHOOSE q \in ReleasedChat : row[q] = j))
             ELSE jobs[j]]
  BY DEF SpendAnswers
<1>3. \A q \in ReleasedChat : jobs[row[q]].status = "absent"
  BY <1>2 DEF Continuations, FreeRows
<1>4. \A j \in Jobs : ReleasedTo(j) # {} => jobs[j].status = "awaiting_input"
  BY DEF ReleasedTo
<1>5. ASSUME NEW j \in Jobs, \E q \in ReleasedChat : row[q] = j
      PROVE \E q \in Questions :
              InputKey(CHOOSE p \in ReleasedChat : row[p] = j) = InputKey(q)
  BY <1>1, <1>5
<1> QED BY <1>2, <1>3, <1>4, <1>5

\* A sweep stops waiting jobs.
LEMMA SweepEffect ==
  ASSUME TypeOK, NEW due \in SUBSET Pending, ExpireOwnerInputs(due)
  PROVE  \A j \in Jobs :
           \/ jobs'[j] = jobs[j]
           \/ /\ jobs[j].status = "awaiting_input"
              /\ jobs'[j] = CancelledJob(jobs[j])
BY DEF ExpireOwnerInputs

LEMMA StopEffect ==
  ASSUME TypeOK, NEW j
  PROVE  \A i \in Jobs :
           \/ StopIfWaiting(j)[i] = jobs[i]
           \/ /\ jobs[i].status = "awaiting_input"
              /\ StopIfWaiting(j)[i] = CancelledJob(jobs[i])
BY DEF StopIfWaiting

LEMMA RecoverEffect ==
  ASSUME TypeOK, Recover
  PROVE  \A j \in Jobs : /\ jobs'[j].status = RecoveredStatus(j)
                         /\ jobs'[j].delivery = RecoveredDelivery(j)
                         /\ jobs'[j].attempt = jobs[j].attempt
<1>1. \A row \in JobRow : \A s, d :
        /\ [row EXCEPT !.status = s, !.delivery = d].status = s
        /\ [row EXCEPT !.status = s, !.delivery = d].delivery = d
        /\ [row EXCEPT !.status = s, !.delivery = d].attempt = row.attempt
  BY DEF JobRow
<1>2. TAKE j \in Jobs
<1>3. jobs[j] \in JobRow
  BY DEF TypeOK
<1>4. jobs'[j] = [jobs[j] EXCEPT !.status = RecoveredStatus(j),
                                 !.delivery = RecoveredDelivery(j)]
  BY DEF Recover
<1> QED BY <1>1, <1>3, <1>4

-----------------------------------------------------------------------------
(* Runs and claims.                                                        *)

\* Only RunnerClaim, FinishRun and the lifecycle change both sides.
LEMMA ClaimsStep == TypeOK /\ RunHoldsClaim /\ Next => RunHoldsClaim'
<1> SUFFICES ASSUME TypeOK, RunHoldsClaim, Next PROVE RunHoldsClaim'
  OBVIOUS
<1> USE DEF RunHoldsClaim, Claimed
<1>1. CASE Clients
  <2>1. ASSUME NEW request \in Keys, Submit(request) PROVE RunHoldsClaim'
    BY <2>1 DEF Submit, NextRow, FreeRows, NewJob, memory, TypeOK, Serving
  <2>2. ASSUME NEW j \in Jobs, Cancel(j) PROVE RunHoldsClaim'
    BY <2>2 DEF Cancel, CancelRow, CancelledJob, memory, TypeOK, JobRow
  <2>3. ASSUME NEW j \in Jobs, Resume(j) PROVE RunHoldsClaim'
    BY <2>3 DEF Resume, NextAttempt, memory, TypeOK, JobRow
  <2>4. ASSUME NEW j \in Jobs, StopRun(j) PROVE RunHoldsClaim'
    BY <2>4 DEF StopRun, tables, TypeOK, Runs, Serving
  <2>5. ASSUME NEW q \in Questions, CancelOwnerInput(q) PROVE RunHoldsClaim'
    BY <2>5, StopEffect, RowFields DEF CancelOwnerInput, memory, TypeOK
  <2>6. ASSUME NEW q \in Questions, NEW declined \in BOOLEAN, Answer(q, declined)
        PROVE RunHoldsClaim'
    BY <2>6, StopEffect, RowFields DEF Answer, memory, TypeOK
  <2>7. ASSUME NEW due \in SUBSET Pending, ListOwnerInputs(due) PROVE RunHoldsClaim'
    BY <2>7, SweepEffect, RowFields DEF ListOwnerInputs, memory, TypeOK
  <2>8. ASSUME NEW turn \in turns, Acknowledge(turn[1], turn[2])
        PROVE RunHoldsClaim'
    BY <2>8 DEF Acknowledge, memory, TypeOK, JobRow
  <2> QED BY <1>1, <2>1, <2>2, <2>3, <2>4, <2>5, <2>6, <2>7, <2>8 DEF Clients
<1>2. CASE Agents
  <2>1. ASSUME NEW r \in Runs, AskOwnerAdmitted(r) \/ AskOwner(r)
        PROVE RunHoldsClaim'
    BY <2>1 DEF AskOwnerAdmitted, AskOwner, tables
  <2>2. ASSUME NEW j \in Jobs,
               NEW outcome \in {"completed", "failed", "interrupted"},
               FinishRun(j, outcome)
        PROVE RunHoldsClaim'
    <3>1. FinishedStatus(j, outcome) \notin Claimed
      BY DEF FinishedStatus
    <3>2. jobs'[j].status = FinishedStatus(j, outcome)
      BY <2>2 DEF FinishRun, TypeOK, JobRow
    <3>3. \A i \in Jobs : i # j => jobs'[i].status = jobs[i].status
      BY <2>2 DEF FinishRun, TypeOK
    <3> QED BY <2>2, <3>1, <3>2, <3>3 DEF FinishRun, Serving, TypeOK, Runs
  <2>3. ASSUME NEW c \in ChatRuns, StartChat(c) \/ EndChat(c)
        PROVE RunHoldsClaim'
    <3>1. c \notin Jobs
      BY ConstantsAssumption DEF Jobs
    <3> QED BY <2>3, <3>1 DEF StartChat, EndChat, tables, TypeOK, Runs
  <2> QED BY <1>2, <2>1, <2>2, <2>3 DEF Agents
<1>3. CASE Runner
  <2>1. ASSUME NEW due \in SUBSET Pending, RunnerExpire(due) PROVE RunHoldsClaim'
    BY <2>1, SweepEffect, RowFields DEF RunnerExpire, Step, TypeOK
  <2>2. CASE RunnerRelease
    <3>1. \A j \in Jobs : jobs'[j].status \in Claimed <=> jobs[j].status \in Claimed
      <4> TAKE j \in Jobs
      <4>1. jobs[j] \in JobRow
        BY DEF TypeOK
      <4>2. CASE jobs'[j] = jobs[j]
        BY <4>2
      <4>3. CASE /\ jobs[j].status = "awaiting_input"
                 /\ jobs'[j] = NextAttempt(jobs[j])
        BY <4>1, <4>3, RowFields
      <4>4. ASSUME jobs[j].status = "absent",
                   NEW q \in Questions, jobs'[j] = NewJob(InputKey(q))
            PROVE  jobs'[j].status \notin Claimed /\ jobs[j].status \notin Claimed
        BY <4>4 DEF NewJob
      <4> QED BY <2>2, <4>2, <4>3, <4>4, ReleaseEffect DEF RunnerRelease
    <3> QED BY <2>2, <3>1 DEF RunnerRelease, Step, TypeOK
  <2>3. CASE RunnerPick
    BY <2>3 DEF RunnerPick, Step, tables, TypeOK
  <2>4. CASE RunnerClaim
    BY <2>4 DEF RunnerClaim, Claim, Step, TypeOK, JobRow, Runs
  <2>5. CASE RunnerScan
    BY <2>5 DEF RunnerScan, Active, Step, tables, TypeOK, Runs
  <2> QED BY <1>3, <2>1, <2>2, <2>3, <2>4, <2>5 DEF Runner
<1>4. CASE Deliverer
  BY <1>4, DelivererEffect
<1>5. CASE Lifecycle
  <2>1. CASE Shutdown
    BY <2>1 DEF Shutdown, Active, Step, tables, TypeOK, Runs
  <2>2. CASE RunnerExit
    BY <2>2 DEF RunnerExit, Active, Step, tables, TypeOK
  <2>3. CASE Crash
    BY <2>3 DEF Crash, Step, tables, TypeOK, Runs
  <2>4. CASE Recover
    <3>1. \A j \in Jobs : RecoveredStatus(j) \notin Claimed
      BY DEF RecoveredStatus
    <3>2. \A j \in Jobs : run'[j] = "idle" /\ runner'.at = "recovering"
      BY <2>4 DEF Recover, Step
    <3> QED BY <2>4, <3>1, <3>2, RecoverEffect
  <2>5. ASSUME NEW due \in SUBSET Pending, Start(due) PROVE RunHoldsClaim'
    BY <2>5, SweepEffect, RowFields DEF Start, Step, TypeOK
  <2> QED BY <1>5, <2>1, <2>2, <2>3, <2>4, <2>5 DEF Lifecycle
<1> QED BY <1>1, <1>2, <1>3, <1>4, <1>5 DEF Next

\* Claims and runs agree, through every race, crash and restart.
THEOREM RunsMatchClaims == Spec => []RunHoldsClaim
<1>1. Init => RunHoldsClaim
  BY DEF Init, RunHoldsClaim, Claimed, Runs
<1>2. TypeOK /\ RunHoldsClaim /\ [Next]_vars => RunHoldsClaim'
  BY ClaimsStep DEF vars, RunHoldsClaim
<1> QED BY <1>1, <1>2, TypeCorrect, PTL DEF Spec

-----------------------------------------------------------------------------
(* Cancelled work has no delivery.                                         *)

LEMMA SuppressedStep ==
  TypeOK /\ CancelledIsSuppressed /\ Next => CancelledIsSuppressed'
<1> SUFFICES ASSUME TypeOK, CancelledIsSuppressed, Next
             PROVE  CancelledIsSuppressed'
  OBVIOUS
<1> USE DEF CancelledIsSuppressed
<1>0. \A j \in Jobs : jobs[j] \in JobRow
  BY DEF TypeOK
<1>1. CASE Clients
  <2>1. ASSUME NEW request \in Keys, Submit(request) PROVE CancelledIsSuppressed'
    BY <2>1 DEF Submit, NewJob, TypeOK
  <2>2. ASSUME NEW j \in Jobs, Cancel(j) PROVE CancelledIsSuppressed'
    BY <2>2 DEF Cancel, CancelRow, CancelledJob, TypeOK, JobRow
  <2>3. ASSUME NEW j \in Jobs, Resume(j) PROVE CancelledIsSuppressed'
    BY <2>3, <1>0, RowFields DEF Resume, TypeOK
  <2>4. ASSUME NEW j \in Jobs, StopRun(j) PROVE CancelledIsSuppressed'
    BY <2>4 DEF StopRun, tables
  <2>5. ASSUME NEW q \in Questions, CancelOwnerInput(q)
        PROVE  CancelledIsSuppressed'
    BY <2>5, <1>0, StopEffect, RowFields DEF CancelOwnerInput
  <2>6. ASSUME NEW q \in Questions, NEW declined \in BOOLEAN, Answer(q, declined)
        PROVE CancelledIsSuppressed'
    BY <2>6, <1>0, StopEffect, RowFields DEF Answer
  <2>7. ASSUME NEW due \in SUBSET Pending, ListOwnerInputs(due)
        PROVE  CancelledIsSuppressed'
    BY <2>7, <1>0, SweepEffect, RowFields DEF ListOwnerInputs
  <2>8. ASSUME NEW turn \in turns, Acknowledge(turn[1], turn[2])
        PROVE CancelledIsSuppressed'
    BY <2>8 DEF Acknowledge, TypeOK, JobRow
  <2> QED BY <1>1, <2>1, <2>2, <2>3, <2>4, <2>5, <2>6, <2>7, <2>8 DEF Clients
<1>2. CASE Agents
  <2>1. ASSUME NEW r \in Runs, AskOwnerAdmitted(r) \/ AskOwner(r)
        PROVE CancelledIsSuppressed'
    BY <2>1 DEF AskOwnerAdmitted, AskOwner, tables
  <2>2. ASSUME NEW j \in Jobs,
               NEW outcome \in {"completed", "failed", "interrupted"},
               FinishRun(j, outcome)
        PROVE CancelledIsSuppressed'
    <3>1. FinishedStatus(j, outcome) # "cancel_requested"
      BY DEF FinishedStatus, Claimed
    <3>2. jobs'[j].status = FinishedStatus(j, outcome)
      BY <2>2 DEF FinishRun, TypeOK, JobRow
    <3>3. FinishedStatus(j, outcome) = "cancelled" =>
            jobs'[j].delivery = "suppressed"
      BY <2>2 DEF FinishRun, TypeOK, JobRow
    <3>4. \A i \in Jobs : i # j => jobs'[i] = jobs[i]
      BY <2>2 DEF FinishRun, TypeOK
    <3> QED BY <3>1, <3>2, <3>3, <3>4
  <2>3. ASSUME NEW c \in ChatRuns, StartChat(c) \/ EndChat(c)
        PROVE CancelledIsSuppressed'
    BY <2>3 DEF StartChat, EndChat, tables
  <2> QED BY <1>2, <2>1, <2>2, <2>3 DEF Agents
<1>3. CASE Runner
  <2>1. ASSUME NEW due \in SUBSET Pending, RunnerExpire(due)
        PROVE CancelledIsSuppressed'
    BY <2>1, <1>0, SweepEffect, RowFields DEF RunnerExpire
  <2>2. CASE RunnerRelease
    <3>1. \A q \in Questions : NewJob(InputKey(q)).status = "queued"
      BY DEF NewJob
    <3> QED BY <2>2, <3>1, <1>0, ReleaseEffect, RowFields DEF RunnerRelease
  <2>3. CASE RunnerPick \/ RunnerScan
    BY <2>3 DEF RunnerPick, RunnerScan, tables
  <2>4. CASE RunnerClaim
    BY <2>4 DEF RunnerClaim, TypeOK, JobRow
  <2> QED BY <1>3, <2>1, <2>2, <2>3, <2>4 DEF Runner
<1>4. CASE Deliverer
  BY <1>4, DelivererEffect
<1>5. CASE Lifecycle
  <2>1. CASE Shutdown \/ RunnerExit \/ Crash
    BY <2>1 DEF Shutdown, RunnerExit, Crash, tables
  <2>2. CASE Recover
    <3>1. \A j \in Jobs : RecoveredStatus(j) \in {"cancel_requested", "cancelled"} =>
            jobs[j].status \in {"cancel_requested", "cancelled"}
      BY DEF RecoveredStatus
    <3>2. \A j \in Jobs : jobs[j].delivery = "suppressed" =>
            RecoveredDelivery(j) = "suppressed"
      BY DEF RecoveredDelivery
    <3> QED BY <2>2, <3>1, <3>2, RecoverEffect
  <2>3. ASSUME NEW due \in SUBSET Pending, Start(due) PROVE CancelledIsSuppressed'
    BY <2>3, <1>0, SweepEffect, RowFields DEF Start
  <2> QED BY <1>5, <2>1, <2>2, <2>3 DEF Lifecycle
<1> QED BY <1>1, <1>2, <1>3, <1>4, <1>5 DEF Next

\* Cancelled work, and work told to stop, never has a result to deliver.
THEOREM CancelledIsNeverDelivered == Spec => []CancelledIsSuppressed
<1>1. Init => CancelledIsSuppressed
  BY DEF Init, CancelledIsSuppressed
<1>2. TypeOK /\ CancelledIsSuppressed /\ [Next]_vars => CancelledIsSuppressed'
  BY SuppressedStep DEF vars, CancelledIsSuppressed
<1> QED BY <1>1, <1>2, TypeCorrect, PTL DEF Spec

-----------------------------------------------------------------------------
(* Delivery states rest on evidence.                                       *)

\* What a delivery state claims of the conversation; it is kept as long as the
\* attempt stays, since turns and receipts are only added.
Evidence(j) ==
  /\ jobs[j].delivery = "committed" => <<j, jobs[j].attempt>> \in turns
  /\ jobs[j].delivery = "presented" => <<j, jobs[j].attempt>> \in shown

LEMMA EvidenceStep == TypeOK /\ DeliveryHasEvidence /\ Next => DeliveryHasEvidence'
<1> SUFFICES ASSUME TypeOK, DeliveryHasEvidence, Next, NEW j \in Jobs
             PROVE  Evidence(j)'
  BY DEF DeliveryHasEvidence, Evidence
<1>0. /\ Evidence(j)
      /\ \A i \in Jobs : jobs[i] \in JobRow
  BY DEF DeliveryHasEvidence, Evidence, TypeOK
<1>a. ASSUME jobs'[j] = jobs[j], turns \subseteq turns', shown \subseteq shown'
      PROVE  Evidence(j)'
  BY <1>0, <1>a DEF Evidence
<1>b. ASSUME jobs'[j].delivery \in {"pending", "suppressed"} PROVE Evidence(j)'
  BY <1>b DEF Evidence
<1>c. ASSUME jobs'[j].attempt = jobs[j].attempt,
             jobs'[j].delivery = jobs[j].delivery,
             turns' = turns, shown' = shown
      PROVE  Evidence(j)'
  BY <1>0, <1>c DEF Evidence
<1>1. CASE Clients
  <2>1. ASSUME NEW request \in Keys, Submit(request) PROVE Evidence(j)'
    <3>1. jobs'[j] = jobs[j] \/ jobs'[j] = NewJob(OwnerKey(request))
      BY <2>1 DEF Submit, TypeOK
    <3> QED BY <2>1, <3>1, <1>a, <1>b DEF Submit, NewJob
  <2>2. ASSUME NEW i \in Jobs, Cancel(i) PROVE Evidence(j)'
    <3>1. jobs'[j] = jobs[j] \/ jobs'[j] = CancelRow(jobs[j])
      BY <2>2 DEF Cancel, TypeOK
    <3>2. CancelRow(jobs[j]) = jobs[j] \/ CancelRow(jobs[j]).delivery = "suppressed"
      BY <1>0 DEF CancelRow, CancelledJob, JobRow
    <3> QED BY <2>2, <3>1, <3>2, <1>a, <1>b DEF Cancel
  <2>3. ASSUME NEW i \in Jobs, Resume(i) PROVE Evidence(j)'
    <3>1. jobs'[j] = jobs[j] \/ jobs'[j] = NextAttempt(jobs[j])
      BY <2>3 DEF Resume, TypeOK
    <3> QED BY <2>3, <3>1, <1>0, <1>a, <1>b, RowFields DEF Resume
  <2>4. ASSUME NEW i \in Jobs, StopRun(i) PROVE Evidence(j)'
    BY <2>4, <1>a DEF StopRun, tables
  <2>5. ASSUME NEW q \in Questions, CancelOwnerInput(q) PROVE Evidence(j)'
    BY <2>5, <1>0, <1>a, <1>b, StopEffect, RowFields DEF CancelOwnerInput
  <2>6. ASSUME NEW q \in Questions, NEW declined \in BOOLEAN, Answer(q, declined)
        PROVE Evidence(j)'
    BY <2>6, <1>0, <1>a, <1>b, StopEffect, RowFields DEF Answer
  <2>7. ASSUME NEW due \in SUBSET Pending, ListOwnerInputs(due) PROVE Evidence(j)'
    BY <2>7, <1>0, <1>a, <1>b, SweepEffect, RowFields DEF ListOwnerInputs
  <2>8. ASSUME NEW turn \in turns, Acknowledge(turn[1], turn[2])
        PROVE Evidence(j)'
    <3>1. turns' = turns /\ shown \subseteq shown' /\ <<turn[1], turn[2]>> \in shown'
      BY <2>8 DEF Acknowledge
    <3>2. CASE /\ j = turn[1] /\ jobs[j].attempt = turn[2]
               /\ jobs[j].delivery \in {"delivering", "committed"}
      BY <2>8, <3>1, <3>2, <1>0 DEF Acknowledge, Evidence, TypeOK, JobRow
    <3>3. CASE ~ (/\ j = turn[1] /\ jobs[j].attempt = turn[2]
                  /\ jobs[j].delivery \in {"delivering", "committed"})
      <4>1. jobs'[j].attempt = jobs[j].attempt /\ jobs'[j].delivery = jobs[j].delivery
        BY <2>8, <3>3, <1>0 DEF Acknowledge, TypeOK, JobRow
      <4> QED BY <3>1, <4>1, <1>0 DEF Evidence
    <3> QED BY <3>2, <3>3
  <2> QED BY <1>1, <2>1, <2>2, <2>3, <2>4, <2>5, <2>6, <2>7, <2>8 DEF Clients
<1>2. CASE Agents
  <2>1. ASSUME NEW r \in Runs, AskOwnerAdmitted(r) \/ AskOwner(r) PROVE Evidence(j)'
    BY <2>1, <1>a DEF AskOwnerAdmitted, AskOwner, tables
  <2>2. ASSUME NEW i \in Jobs,
               NEW outcome \in {"completed", "failed", "interrupted"},
               FinishRun(i, outcome)
        PROVE Evidence(j)'
    <3>1. \/ jobs'[j].delivery = "suppressed"
          \/ /\ jobs'[j].delivery = jobs[j].delivery
             /\ jobs'[j].attempt = jobs[j].attempt
      BY <2>2, <1>0 DEF FinishRun, TypeOK, JobRow
    <3> QED BY <2>2, <3>1, <1>b, <1>c DEF FinishRun
  <2>3. ASSUME NEW c \in ChatRuns, StartChat(c) \/ EndChat(c) PROVE Evidence(j)'
    BY <2>3, <1>a DEF StartChat, EndChat, tables
  <2> QED BY <1>2, <2>1, <2>2, <2>3 DEF Agents
<1>3. CASE Runner
  <2>1. ASSUME NEW due \in SUBSET Pending, RunnerExpire(due) PROVE Evidence(j)'
    BY <2>1, <1>0, <1>a, <1>b, SweepEffect, RowFields DEF RunnerExpire
  <2>2. CASE RunnerRelease
    <3>1. \A q \in Questions : NewJob(InputKey(q)).delivery = "pending"
      BY DEF NewJob
    <3> QED BY <2>2, <3>1, <1>0, <1>a, <1>b, ReleaseEffect, RowFields
            DEF RunnerRelease
  <2>3. CASE RunnerPick \/ RunnerScan
    BY <2>3, <1>a DEF RunnerPick, RunnerScan, tables
  <2>4. CASE RunnerClaim
    <3>1. jobs'[j].attempt = jobs[j].attempt /\ jobs'[j].delivery = jobs[j].delivery
      BY <2>4, <1>0 DEF RunnerClaim, TypeOK, JobRow
    <3> QED BY <2>4, <3>1, <1>c DEF RunnerClaim
  <2> QED BY <1>3, <2>1, <2>2, <2>3, <2>4 DEF Runner
<1>4. CASE Deliverer
  <2>1. ASSUME NEW i \in Jobs, OfferPick(i) PROVE Evidence(j)'
    BY <2>1, <1>a DEF OfferPick, tables
  <2>2. CASE OfferRead \/ OfferDefer \/ OfferBegin
    BY <2>2, <1>a DEF OfferRead, OfferDefer, OfferBegin, tables
  <2>3. CASE OfferComplete
    BY <2>3, <1>a DEF OfferComplete, tables
  <2>4. CASE OfferSuppress
    <3>1. \/ jobs'[j].delivery = "suppressed"
          \/ /\ jobs'[j].delivery = jobs[j].delivery
             /\ jobs'[j].attempt = jobs[j].attempt
      BY <2>4, <1>0 DEF OfferSuppress, TypeOK, JobRow
    <3> QED BY <2>4, <3>1, <1>b, <1>c DEF OfferSuppress
  <2>5. CASE OfferClaim
    <3>1. CASE Claimable
      <4>1. jobs' = [jobs EXCEPT ![offer.job].delivery = "delivering"]
        BY <2>5, <3>1 DEF OfferClaim
      <4>2. CASE j = offer.job
        BY <4>1, <4>2, <1>0 DEF Evidence, TypeOK, JobRow
      <4>3. CASE j # offer.job
        BY <2>5, <4>1, <4>3, <1>a DEF OfferClaim, TypeOK
      <4> QED BY <4>2, <4>3
    <3>2. CASE ~Claimable
      BY <2>5, <3>2, <1>a DEF OfferClaim
    <3> QED BY <3>1, <3>2
  <2>6. ASSUME NEW succeeded \in BOOLEAN, OfferFinish(succeeded) PROVE Evidence(j)'
    <3>1. turns' = turns /\ shown' = shown
      BY <2>6 DEF OfferFinish
    <3>2. CASE /\ j = offer.job /\ SameAttempt
               /\ jobs[j].delivery \in {"delivering", "presented"}
      <4>1. /\ jobs'[j].delivery = DeliveryOutcome(succeeded)
            /\ jobs'[j].attempt = jobs[j].attempt
        BY <2>6, <3>2, <1>0 DEF OfferFinish, TypeOK, JobRow
      <4>2. OfferedTurn = <<j, jobs'[j].attempt>>
        BY <3>2, <4>1 DEF OfferedTurn, SameAttempt
      <4> QED BY <3>1, <4>1, <4>2 DEF Evidence, DeliveryOutcome
    <3>3. CASE ~ (/\ j = offer.job /\ SameAttempt
                  /\ jobs[j].delivery \in {"delivering", "presented"})
      <4>1. jobs'[j].attempt = jobs[j].attempt /\ jobs'[j].delivery = jobs[j].delivery
        BY <2>6, <3>3, <1>0 DEF OfferFinish, TypeOK, JobRow
      <4> QED BY <3>1, <4>1, <1>c
    <3> QED BY <3>2, <3>3
  <2> QED BY <1>4, <2>1, <2>2, <2>3, <2>4, <2>5, <2>6 DEF Deliverer
<1>5. CASE Lifecycle
  <2>1. CASE Shutdown \/ RunnerExit \/ Crash
    BY <2>1, <1>a DEF Shutdown, RunnerExit, Crash, tables
  <2>2. CASE Recover
    <3>1. /\ jobs'[j].delivery = RecoveredDelivery(j)
          /\ jobs'[j].attempt = jobs[j].attempt
      BY <2>2, RecoverEffect
    <3>2. turns' = turns /\ shown' = shown
      BY <2>2 DEF Recover
    <3>3. ASSUME RecoveredDelivery(j) = "committed"
          PROVE  <<j, jobs[j].attempt>> \in turns
      BY <3>3, <1>0 DEF RecoveredDelivery, Evidence
    <3>4. ASSUME RecoveredDelivery(j) = "presented"
          PROVE  <<j, jobs[j].attempt>> \in shown
      BY <3>4, <1>0 DEF RecoveredDelivery, Evidence
    <3> QED BY <3>1, <3>2, <3>3, <3>4 DEF Evidence
  <2>3. ASSUME NEW due \in SUBSET Pending, Start(due) PROVE Evidence(j)'
    BY <2>3, <1>0, <1>a, <1>b, SweepEffect, RowFields DEF Start
  <2> QED BY <1>5, <2>1, <2>2, <2>3 DEF Lifecycle
<1> QED BY <1>1, <1>2, <1>3, <1>4, <1>5 DEF Next

\* A committed delivery has its turn and a presented one its receipt.
THEOREM DeliveriesHaveEvidence == Spec => []DeliveryHasEvidence
<1>1. Init => DeliveryHasEvidence
  BY DEF Init, DeliveryHasEvidence
<1>2. TypeOK /\ DeliveryHasEvidence /\ [Next]_vars => DeliveryHasEvidence'
  BY EvidenceStep DEF vars, DeliveryHasEvidence
<1> QED BY <1>1, <1>2, TypeCorrect, PTL DEF Spec

-----------------------------------------------------------------------------
(* A wait always has something to wait for.                                *)

\* Every question of OpenOf(j) is still open after the step.
StaysOpen(j) == \A q \in Questions :
  questions[q].run = j /\ Open(q) => (questions[q].run = j /\ Open(q))'

LEMMA OpenIsAsked ==
  \A j, q : q \in OpenOf(j) <=> q \in Questions /\ questions[q].run = j /\ Open(q)
BY DEF OpenOf, AskedBy, Open

\* A sweep that leaves a job waiting found none of its questions due.
LEMMA SweepKeepsOpen ==
  ASSUME TypeOK, NEW due \in SUBSET Pending, ExpireOwnerInputs(due),
         NEW j \in Jobs, jobs'[j].status = "awaiting_input"
  PROVE  jobs[j].status = "awaiting_input" /\ StaysOpen(j)
<1>1. jobs[j] \in JobRow /\ jobs[j].status = "awaiting_input"
  BY SweepEffect, RowFields DEF TypeOK
<1>2. jobs'[j] # CancelledJob(jobs[j])
  BY <1>1, RowFields
<1>3. \A q \in AskedBy(j) : q \notin due
  <2> SUFFICES ASSUME NEW q \in AskedBy(j), q \in due PROVE FALSE
    OBVIOUS
  <2>1. q \in Questions /\ questions[q] \in QuestionRow
    BY DEF AskedBy, TypeOK
  <2>2. [questions[q] EXCEPT !.status = "expired"].status \in Dead
    BY <2>1 DEF QuestionRow, Dead
  <2>3. jobs'[j] = CancelledJob(jobs[j])
    BY <1>1, <2>1, <2>2 DEF ExpireOwnerInputs
  <2> QED BY <1>2, <2>3
<1>4. \A q \in AskedBy(j) : questions'[q] = questions[q]
  BY <1>3 DEF ExpireOwnerInputs, AskedBy
<1> QED BY <1>1, <1>4 DEF StaysOpen, Open, AskedBy

\* A question that is closed leaves no job waiting for its owner behind.
LEMMA StopKeepsOpen ==
  ASSUME TypeOK, NEW q \in Questions, NEW row \in QuestionRow,
         row.run = questions[q].run,
         questions' = [questions EXCEPT ![q] = row],
         jobs' = StopIfWaiting(questions[q].run),
         NEW j \in Jobs, jobs'[j].status = "awaiting_input"
  PROVE  jobs[j].status = "awaiting_input" /\ StaysOpen(j)
<1>1. jobs[j] \in JobRow
  BY DEF TypeOK
<1>2. jobs[j].status = "awaiting_input"
  BY <1>1, RowFields, StopEffect
<1>3. jobs'[j] # CancelledJob(jobs[j])
  BY <1>1, RowFields
<1>4. j # questions[q].run
  BY <1>2, <1>3 DEF StopIfWaiting
<1>5. \A p \in Questions : p # q => questions'[p] = questions[p]
  BY DEF TypeOK
<1> QED BY <1>2, <1>4, <1>5 DEF StaysOpen, Open

LEMMA WaitStep ==
  TypeOK /\ AwaitingHasOpenQuestion /\ Next => AwaitingHasOpenQuestion'
<1> SUFFICES ASSUME TypeOK, AwaitingHasOpenQuestion, Next,
                    NEW j \in Jobs, jobs'[j].status = "awaiting_input"
             PROVE  \E q \in Questions : (questions[q].run = j /\ Open(q))'
  BY DEF AwaitingHasOpenQuestion, OpenOf, AskedBy, Open
<1>0. /\ \A i \in Jobs : jobs[i] \in JobRow
      /\ \A q \in Questions : questions[q] \in QuestionRow
  BY DEF TypeOK
<1> DEFINE Waits == \E q \in Questions : (questions[q].run = j /\ Open(q))'
<1>k. ASSUME jobs[j].status = "awaiting_input", StaysOpen(j) PROVE Waits
  BY <1>k, OpenIsAsked DEF AwaitingHasOpenQuestion, StaysOpen
<1>u. ASSUME questions' = questions PROVE StaysOpen(j)
  BY <1>u DEF StaysOpen, Open
<1>1. CASE Clients
  <2>1. ASSUME NEW request \in Keys, Submit(request) PROVE Waits
    BY <2>1, <1>k, <1>u DEF Submit, NewJob, TypeOK
  <2>2. ASSUME NEW i \in Jobs, Cancel(i) PROVE Waits
    <3>1. CancelRow(jobs[i]).status # "awaiting_input"
      BY <1>0, RowFields DEF CancelRow, JobRow
    <3>2. i # j /\ jobs[j].status = "awaiting_input"
      BY <2>2, <3>1 DEF Cancel, TypeOK
    <3>3. StaysOpen(j)
      BY <2>2, <3>2, OpenIsAsked DEF Cancel, CancelQuestionsOf, StaysOpen, Open
    <3> QED BY <3>2, <3>3, <1>k
  <2>3. ASSUME NEW i \in Jobs, Resume(i) PROVE Waits
    <3>1. jobs[j].status = "awaiting_input"
      BY <2>3, <1>0, RowFields DEF Resume, TypeOK
    <3> QED BY <2>3, <3>1, <1>k, <1>u DEF Resume
  <2>4. ASSUME NEW i \in Jobs, StopRun(i) PROVE Waits
    BY <2>4, <1>k, <1>u DEF StopRun, tables
  <2>5. ASSUME NEW q \in Questions, CancelOwnerInput(q) PROVE Waits
    <3>1. \E row \in QuestionRow :
            /\ row.run = questions[q].run
            /\ questions' = [questions EXCEPT ![q] = row]
      <4>1. [questions[q] EXCEPT !.status = "cancelled"] \in QuestionRow
        BY <1>0 DEF QuestionRow, QuestionStatus
      <4>2. [questions[q] EXCEPT !.status = "cancelled"].run = questions[q].run
        BY <1>0 DEF QuestionRow
      <4>3. CASE questions[q].status = "pending"
        BY <2>5, <4>1, <4>2, <4>3 DEF CancelOwnerInput, TypeOK
      <4>4. CASE questions[q].status # "pending"
        <5>1. questions' = [questions EXCEPT ![q] = questions[q]]
          BY <2>5, <4>4 DEF CancelOwnerInput, TypeOK
        <5> QED BY <5>1, <1>0
      <4> QED BY <4>3, <4>4
    <3> QED BY <2>5, <3>1, <1>k, StopKeepsOpen DEF CancelOwnerInput
  <2>6. ASSUME NEW q \in Questions, NEW declined \in BOOLEAN, Answer(q, declined)
        PROVE Waits
    <3>0. PICK row \in QuestionRow :
            /\ questions' = [questions EXCEPT ![q] = row]
            /\ row.status = IF declined THEN "declined" ELSE "answered"
            /\ row.run = questions[q].run
            /\ row.resumed = questions[q].resumed
      BY <2>6, AnswerEffect
    <3>1. CASE declined
      <4>1. row.status = "declined" /\ jobs' = StopIfWaiting(questions[q].run)
        BY <2>6, <3>0, <3>1 DEF Answer
      <4> QED BY <3>0, <4>1, <1>k, StopKeepsOpen
    <3>2. CASE ~declined
      <4>1. jobs' = jobs /\ row.status = "answered"
        BY <2>6, <3>0, <3>2 DEF Answer
      <4>2. StaysOpen(j)
        BY <3>0, <4>1, <1>0 DEF StaysOpen, Open, TypeOK
      <4> QED BY <4>1, <4>2, <1>k
    <3> QED BY <3>1, <3>2
  <2>7. ASSUME NEW due \in SUBSET Pending, ListOwnerInputs(due) PROVE Waits
    BY <2>7, <1>k, SweepKeepsOpen DEF ListOwnerInputs
  <2>8. ASSUME NEW turn \in turns, Acknowledge(turn[1], turn[2]) PROVE Waits
    <3>1. jobs[j].status = "awaiting_input"
      BY <2>8, <1>0 DEF Acknowledge, TypeOK, JobRow
    <3> QED BY <2>8, <3>1, <1>k, <1>u DEF Acknowledge
  <2> QED BY <1>1, <2>1, <2>2, <2>3, <2>4, <2>5, <2>6, <2>7, <2>8 DEF Clients
<1>2. CASE Agents
  <2>1. ASSUME NEW r \in Runs, AskOwnerAdmitted(r) PROVE Waits
    BY <2>1, <1>k, <1>u DEF AskOwnerAdmitted, tables
  <2>2. ASSUME NEW r \in Runs, AskOwner(r) PROVE Waits
    <3>1. \A q \in Questions : Open(q) => questions'[q] = questions[q]
      BY <2>2 DEF AskOwner, NextQuestion, Unasked, Open, TypeOK
    <3>2. StaysOpen(j) /\ jobs' = jobs
      BY <2>2, <3>1 DEF AskOwner, StaysOpen, Open
    <3> QED BY <3>2, <1>k
  <2>3. ASSUME NEW i \in Jobs,
               NEW outcome \in {"completed", "failed", "interrupted"},
               FinishRun(i, outcome)
        PROVE Waits
    <3>1. StaysOpen(j)
      BY <2>3, <1>0 DEF FinishRun, SettledQuestions, StaysOpen, Open, QuestionRow
    <3>2. CASE i = j
      <4>1. FinishedStatus(j, outcome) = "awaiting_input"
        BY <2>3, <3>2, <1>0 DEF FinishRun, TypeOK, JobRow
      <4>2. jobs[j].status = "awaiting_input" \/ OpenOf(j) # {}
        BY <4>1 DEF FinishedStatus
      <4> QED BY <3>1, <4>2, <1>k, OpenIsAsked DEF StaysOpen
    <3>3. CASE i # j
      <4>1. jobs[j].status = "awaiting_input"
        BY <2>3, <3>3, <1>0 DEF FinishRun, TypeOK
      <4> QED BY <3>1, <4>1, <1>k
    <3> QED BY <3>2, <3>3
  <2>4. ASSUME NEW c \in ChatRuns, StartChat(c) PROVE Waits
    BY <2>4, <1>k, <1>u DEF StartChat, tables
  <2>5. ASSUME NEW c \in ChatRuns, EndChat(c) PROVE Waits
    <3>1. StaysOpen(j) /\ jobs' = jobs
      BY <2>5, <1>0 DEF EndChat, SettledQuestions, StaysOpen, Open, QuestionRow
    <3> QED BY <3>1, <1>k
  <2> QED BY <1>2, <2>1, <2>2, <2>3, <2>4, <2>5 DEF Agents
<1>3. CASE Runner
  <2>1. ASSUME NEW due \in SUBSET Pending, RunnerExpire(due) PROVE Waits
    BY <2>1, <1>k, SweepKeepsOpen DEF RunnerExpire
  <2>2. CASE RunnerRelease
    <3>1. CASE SpendAnswers
      <4>1. PICK row \in Continuations :
              /\ jobs' = [i \in Jobs |->
                   IF ReleasedTo(i) # {} THEN NextAttempt(jobs[i])
                   ELSE IF \E q \in ReleasedChat : row[q] = i
                        THEN NewJob(InputKey(CHOOSE q \in ReleasedChat : row[q] = i))
                        ELSE jobs[i]]
              /\ questions' = [q \in Questions |->
                   IF q \in ReleasedChat
                   THEN [questions[q] EXCEPT !.resumed = row[q]]
                   ELSE IF \E i \in Jobs : q \in ReleasedTo(i)
                        THEN [questions[q] EXCEPT !.resumed = questions[q].run]
                        ELSE questions[q]]
        BY <3>1 DEF SpendAnswers
      <4>2. ReleasedTo(j) = {}
        BY <4>1, <1>0, RowFields
      <4>3. jobs[j].status = "awaiting_input"
        BY <4>1, <4>2 DEF NewJob
      <4>4. \A q \in ReleasedChat : questions[q].run # j
        BY ConstantsAssumption DEF ReleasedChat, ChatAnswers, Jobs
      <4>5. \A i \in Jobs : \A q \in ReleasedTo(i) : questions[q].run = i
        BY DEF ReleasedTo
      <4>6. \A q \in Questions : questions[q].run = j => questions'[q] = questions[q]
        BY <4>1, <4>2, <4>4, <4>5
      <4>7. StaysOpen(j)
        BY <4>6 DEF StaysOpen, Open
      <4> QED BY <4>3, <4>7, <1>k
    <3>2. CASE UNCHANGED tables
      BY <3>2, <1>k, <1>u DEF tables
    <3> QED BY <2>2, <3>1, <3>2, ReleaseCases DEF RunnerRelease
  <2>3. CASE RunnerPick \/ RunnerScan
    BY <2>3, <1>k, <1>u DEF RunnerPick, RunnerScan, tables
  <2>4. CASE RunnerClaim
    <3>1. jobs[j].status = "awaiting_input"
      BY <2>4, <1>0 DEF RunnerClaim, TypeOK, JobRow
    <3> QED BY <2>4, <3>1, <1>k, <1>u DEF RunnerClaim
  <2> QED BY <1>3, <2>1, <2>2, <2>3, <2>4 DEF Runner
<1>4. CASE Deliverer
  BY <1>4, <1>k, <1>u, DelivererEffect
<1>5. CASE Lifecycle
  <2>1. CASE Shutdown \/ RunnerExit \/ Crash
    BY <2>1, <1>k, <1>u DEF Shutdown, RunnerExit, Crash, tables
  <2>2. CASE Recover
    <3>1. RecoveredStatus(j) = "awaiting_input"
      BY <2>2, RecoverEffect
    <3>2. jobs[j].status = "awaiting_input" \/ OpenOf(j) # {}
      BY <3>1 DEF RecoveredStatus
    <3>3. StaysOpen(j)
      <4> SUFFICES ASSUME NEW q \in Questions, questions[q].run = j, Open(q)
                   PROVE  (questions[q].run = j /\ Open(q))'
        BY DEF StaysOpen
      <4>1. questions'[q] = [questions[q] EXCEPT !.settled = TRUE,
                               !.status = questions[q].status]
        BY <2>2, <3>1 DEF Recover, Open
      <4> QED BY <4>1, <1>0 DEF Open, QuestionRow
    <3> QED BY <3>2, <3>3, <1>k, OpenIsAsked DEF StaysOpen
  <2>3. ASSUME NEW due \in SUBSET Pending, Start(due) PROVE Waits
    BY <2>3, <1>k, SweepKeepsOpen DEF Start
  <2> QED BY <1>5, <2>1, <2>2, <2>3 DEF Lifecycle
<1> QED BY <1>1, <1>2, <1>3, <1>4, <1>5 DEF Next

\* No job ever waits for a question that can no longer end its wait.
THEOREM WaitsAreForOpenQuestions == Spec => []AwaitingHasOpenQuestion
<1>1. Init => AwaitingHasOpenQuestion
  BY DEF Init, AwaitingHasOpenQuestion
<1>2. TypeOK /\ AwaitingHasOpenQuestion /\ [Next]_vars => AwaitingHasOpenQuestion'
  <2>1. UNCHANGED vars /\ AwaitingHasOpenQuestion => AwaitingHasOpenQuestion'
    BY DEF vars, AwaitingHasOpenQuestion, OpenOf, AskedBy, Open
  <2> QED BY <2>1, WaitStep
<1> QED BY <1>1, <1>2, TypeCorrect, PTL DEF Spec

-----------------------------------------------------------------------------
(***************************************************************************)
(* How a job may move.                                                     *)
(***************************************************************************)

\* What a step that makes no job ready may do to the status of one.
StatusMoves == {<<"queued", "running">>, <<"running", "completed">>,
                <<"running", "failed">>, <<"running", "interrupted">>,
                <<"running", "awaiting_input">>, <<"running", "cancel_requested">>,
                <<"running", "cancelled">>, <<"queued", "cancelled">>,
                <<"awaiting_input", "cancelled">>, <<"cancel_requested", "cancelled">>}

\* A job is left in its attempt, and what was decided of its delivery stays decided.
Resting(j) ==
  /\ jobs'[j].attempt = jobs[j].attempt
  /\ jobs[j].delivery # "pending" => jobs'[j].delivery # "pending"
  /\ jobs'[j].status = jobs[j].status \/ <<jobs[j].status, jobs'[j].status>> \in StatusMoves

\* No answer is spent.
NothingSpent == \A q \in Questions : questions'[q].resumed = questions[q].resumed

Quiet == (\A j \in Jobs : Resting(j)) /\ NothingSpent

\* A row that is not used yet has no past.
Unused ==
  /\ \A j \in Jobs : jobs[j].status = "absent" => jobs[j].attempt = 0
  /\ \A q \in Questions : questions[q].status = "absent" => questions[q].resumed = NoJob

LEMMA SameRests ==
  ASSUME NEW j \in Jobs, jobs'[j] = jobs[j]
  PROVE  Resting(j)
BY DEF Resting

LEMMA StoppedRests ==
  ASSUME TypeOK, NEW j \in Jobs, jobs[j].status \in {"queued", "awaiting_input"},
         jobs'[j] = CancelledJob(jobs[j])
  PROVE  Resting(j)
<1>1. jobs[j] \in JobRow
  BY DEF TypeOK
<1>2. /\ jobs'[j].status = "cancelled" /\ jobs'[j].attempt = jobs[j].attempt
      /\ jobs'[j].delivery = "suppressed"
  BY <1>1, RowFields
<1> QED BY <1>2 DEF Resting, StatusMoves

LEMMA SweepRests ==
  ASSUME TypeOK, NEW due \in SUBSET Pending, ExpireOwnerInputs(due)
  PROVE  Quiet
<1>1. \A j \in Jobs : Resting(j)
  BY SweepEffect, SameRests, StoppedRests
<1>2. ASSUME NEW q \in Questions PROVE questions'[q].resumed = questions[q].resumed
  BY DEF ExpireOwnerInputs, TypeOK, QuestionRow
<1> QED BY <1>1, <1>2 DEF Quiet, NothingSpent

LEMMA ClientsRest ==
  ASSUME TypeOK, Clients
  PROVE  \/ \E request \in Keys : Submit(request)
         \/ \E j \in Jobs : Resume(j)
         \/ Quiet
<1>0. /\ \A j \in Jobs : jobs[j] \in JobRow
      /\ \A q \in Questions : questions[q] \in QuestionRow
  BY DEF TypeOK
<1>1. ASSUME NEW i \in Jobs, Cancel(i) PROVE Quiet
  <2>1. ASSUME NEW j \in Jobs PROVE Resting(j)
    <3>1. CASE i # j \/ jobs[j].status \notin {"queued", "awaiting_input", "running"}
      <4>1. jobs'[j] = jobs[j]
        BY <1>1, <3>1 DEF Cancel, CancelRow, TypeOK
      <4> QED BY <4>1, SameRests
    <3>2. CASE i = j /\ jobs[j].status \in {"queued", "awaiting_input"}
      <4>1. jobs'[j] = CancelledJob(jobs[j])
        BY <1>1, <3>2 DEF Cancel, CancelRow, TypeOK
      <4> QED BY <3>2, <4>1, StoppedRests
    <3>3. CASE i = j /\ jobs[j].status = "running"
      <4>1. jobs'[j] = [jobs[j] EXCEPT !.status = "cancel_requested",
                                       !.delivery = "suppressed"]
        BY <1>1, <3>3 DEF Cancel, CancelRow, TypeOK
      <4>2. /\ jobs'[j].status = "cancel_requested" /\ jobs'[j].attempt = jobs[j].attempt
            /\ jobs'[j].delivery = "suppressed"
        BY <1>0, <4>1 DEF JobRow
      <4> QED BY <3>3, <4>2 DEF Resting, StatusMoves
    <3> QED BY <3>1, <3>2, <3>3
  <2>2. ASSUME NEW q \in Questions PROVE questions'[q].resumed = questions[q].resumed
    BY <1>0, <1>1 DEF Cancel, CancelQuestionsOf, QuestionRow
  <2> QED BY <2>1, <2>2 DEF Quiet, NothingSpent
<1>2. ASSUME NEW j \in Jobs, StopRun(j) PROVE Quiet
  BY <1>2, SameRests DEF StopRun, tables, Quiet, NothingSpent
<1>3. ASSUME NEW i PROVE \A j \in Jobs : jobs'= StopIfWaiting(i) => Resting(j)
  BY StopEffect, SameRests, StoppedRests
<1>4. ASSUME NEW q \in Questions, CancelOwnerInput(q) PROVE Quiet
  <2>1. ASSUME NEW p \in Questions PROVE questions'[p].resumed = questions[p].resumed
    BY <1>0, <1>4 DEF CancelOwnerInput, TypeOK, QuestionRow
  <2> QED BY <1>3, <1>4, <2>1 DEF CancelOwnerInput, Quiet, NothingSpent
<1>5. ASSUME NEW q \in Questions, NEW declined \in BOOLEAN, Answer(q, declined) PROVE Quiet
  <2>1. ASSUME NEW p \in Questions PROVE questions'[p].resumed = questions[p].resumed
    BY <1>0, <1>5 DEF Answer, TypeOK, QuestionRow
  <2> QED BY <1>3, <1>5, <2>1, SameRests DEF Answer, Quiet, NothingSpent
<1>6. ASSUME NEW due \in SUBSET Pending, ListOwnerInputs(due) PROVE Quiet
  BY <1>6, SweepRests DEF ListOwnerInputs
<1>7. ASSUME NEW turn \in turns, Acknowledge(turn[1], turn[2]) PROVE Quiet
  <2>1. ASSUME NEW j \in Jobs PROVE Resting(j)
    <3>1. /\ jobs'[j].status = jobs[j].status /\ jobs'[j].attempt = jobs[j].attempt
          /\ jobs'[j].delivery \in {jobs[j].delivery, "presented"}
      BY <1>0, <1>7 DEF Acknowledge, TypeOK, JobRow
    <3> QED BY <3>1 DEF Resting
  <2> QED BY <1>7, <2>1 DEF Acknowledge, Quiet, NothingSpent
<1> QED BY <1>1, <1>2, <1>4, <1>5, <1>6, <1>7 DEF Clients

LEMMA AgentsRest ==
  ASSUME TypeOK, Unused, Agents
  PROVE  Quiet
<1>0. /\ \A j \in Jobs : jobs[j] \in JobRow
      /\ \A q \in Questions : questions[q] \in QuestionRow
  BY DEF TypeOK
<1>1. ASSUME NEW r \in Runs, AskOwnerAdmitted(r) PROVE Quiet
  BY <1>1, SameRests DEF AskOwnerAdmitted, tables, Quiet, NothingSpent
<1>2. ASSUME NEW r \in Runs, AskOwner(r) PROVE Quiet
  <2>1. ASSUME NEW q \in Questions PROVE questions'[q].resumed = questions[q].resumed
    BY <1>2 DEF AskOwner, NextQuestion, Unasked, Unused, TypeOK
  <2> QED BY <1>2, <2>1, SameRests DEF AskOwner, Quiet, NothingSpent
<1>3. ASSUME NEW r PROVE \A q \in Questions : SettledQuestions(r)[q].resumed = questions[q].resumed
  BY <1>0 DEF SettledQuestions, QuestionRow
<1>4. ASSUME NEW i \in Jobs, NEW outcome \in {"completed", "failed", "interrupted"},
             FinishRun(i, outcome)
      PROVE  Quiet
  <2>1. ASSUME NEW j \in Jobs PROVE Resting(j)
    <3>1. CASE i # j
      <4>1. jobs'[j] = jobs[j]
        BY <1>4, <3>1 DEF FinishRun, TypeOK
      <4> QED BY <4>1, SameRests
    <3>2. CASE i = j
      <4>1. /\ jobs'[j].status = FinishedStatus(j, outcome)
            /\ jobs'[j].attempt = jobs[j].attempt
            /\ jobs'[j].delivery \in {jobs[j].delivery, "suppressed"}
        BY <1>0, <1>4, <3>2 DEF FinishRun, TypeOK, JobRow
      <4>2. \/ FinishedStatus(j, outcome) = jobs[j].status
            \/ <<jobs[j].status, FinishedStatus(j, outcome)>> \in StatusMoves
        BY DEF FinishedStatus, Claimed, StatusMoves
      <4> QED BY <4>1, <4>2 DEF Resting
    <3> QED BY <3>1, <3>2
  <2> QED BY <1>3, <1>4, <2>1 DEF FinishRun, Quiet, NothingSpent
<1>5. ASSUME NEW c \in ChatRuns, StartChat(c) PROVE Quiet
  BY <1>5, SameRests DEF StartChat, tables, Quiet, NothingSpent
<1>6. ASSUME NEW c \in ChatRuns, EndChat(c) PROVE Quiet
  BY <1>3, <1>6, SameRests DEF EndChat, Quiet, NothingSpent
<1> QED BY <1>1, <1>2, <1>4, <1>5, <1>6 DEF Agents

LEMMA RunnerRests ==
  ASSUME TypeOK, Runner
  PROVE  SpendAnswers \/ Quiet
<1>1. ASSUME NEW due \in SUBSET Pending, RunnerExpire(due) PROVE Quiet
  BY <1>1, SweepRests DEF RunnerExpire
<1>2. CASE RunnerPick \/ RunnerScan
  BY <1>2, SameRests DEF RunnerPick, RunnerScan, tables, Quiet, NothingSpent
<1>3. CASE RunnerClaim
  <2>1. ASSUME NEW j \in Jobs PROVE Resting(j)
    <3>1. \/ jobs'[j] = jobs[j]
          \/ jobs[j].status = "queued" /\ jobs'[j] = [jobs[j] EXCEPT !.status = "running"]
      BY <1>3 DEF RunnerClaim, Claim, TypeOK
    <3>2. [jobs[j] EXCEPT !.status = "running"].status = "running"
          /\ [jobs[j] EXCEPT !.status = "running"].attempt = jobs[j].attempt
          /\ [jobs[j] EXCEPT !.status = "running"].delivery = jobs[j].delivery
      BY DEF TypeOK, JobRow
    <3> QED BY <3>1, <3>2, SameRests DEF Resting, StatusMoves
  <2> QED BY <1>3, <2>1 DEF RunnerClaim, Quiet, NothingSpent
<1>4. CASE RunnerRelease
  <2>1. CASE SpendAnswers
    BY <2>1
  <2>2. CASE UNCHANGED tables
    BY <2>2, SameRests DEF tables, Quiet, NothingSpent
  <2> QED BY <1>4, <2>1, <2>2, ReleaseCases DEF RunnerRelease
<1> QED BY <1>1, <1>2, <1>3, <1>4 DEF Runner

LEMMA DelivererRests ==
  ASSUME TypeOK, Deliverer
  PROVE  Quiet
<1>0. \A j \in Jobs : jobs[j] \in JobRow
  BY DEF TypeOK
<1>1. \A d : \A j \in Jobs :
        [jobs EXCEPT ![offer.job].delivery = d][j].delivery =
          IF j = offer.job THEN d ELSE jobs[j].delivery
  BY DEF TypeOK, JobRow
<1>2. ASSUME NEW j \in Jobs, jobs[j].delivery # "pending" PROVE jobs'[j].delivery # "pending"
  <2>1. ASSUME NEW i \in Jobs, OfferPick(i) PROVE jobs'[j].delivery # "pending"
    BY <1>2, <2>1 DEF OfferPick, tables
  <2>2. CASE OfferRead \/ OfferDefer \/ OfferBegin \/ OfferComplete
    BY <1>2, <2>2 DEF OfferRead, OfferDefer, OfferBegin, OfferComplete, tables
  <2>3. CASE OfferSuppress
    BY <1>1, <1>2, <2>3 DEF OfferSuppress
  <2>4. CASE OfferClaim
    <3>1. CASE Claimable
      <4>1. jobs' = [jobs EXCEPT ![offer.job].delivery = "delivering"]
        BY <2>4, <3>1 DEF OfferClaim
      <4> QED BY <1>1, <1>2, <4>1
    <3>2. CASE ~Claimable
      BY <1>2, <2>4, <3>2 DEF OfferClaim
    <3> QED BY <3>1, <3>2
  <2>5. ASSUME NEW succeeded \in BOOLEAN, OfferFinish(succeeded)
        PROVE  jobs'[j].delivery # "pending"
    <3>1. DeliveryOutcome(succeeded) # "pending"
      BY DEF DeliveryOutcome
    <3> QED BY <1>1, <1>2, <2>5, <3>1 DEF OfferFinish
  <2> QED BY <2>1, <2>2, <2>3, <2>4, <2>5 DEF Deliverer
<1> QED BY <1>2, DelivererEffect DEF Quiet, Resting, NothingSpent

LEMMA LifecycleRests ==
  ASSUME TypeOK, Lifecycle
  PROVE  Quiet
<1>0. \A q \in Questions : questions[q] \in QuestionRow
  BY DEF TypeOK
<1>1. CASE Shutdown \/ RunnerExit \/ Crash
  BY <1>1, SameRests DEF Shutdown, RunnerExit, Crash, tables, Quiet, NothingSpent
<1>2. CASE Recover
  <2>1. ASSUME NEW j \in Jobs PROVE Resting(j)
    <3>1. /\ jobs'[j].status = RecoveredStatus(j)
          /\ jobs'[j].delivery = RecoveredDelivery(j)
          /\ jobs'[j].attempt = jobs[j].attempt
      BY <1>2, RecoverEffect
    <3>2. \/ RecoveredStatus(j) = jobs[j].status
          \/ <<jobs[j].status, RecoveredStatus(j)>> \in StatusMoves
      BY DEF RecoveredStatus, StatusMoves
    <3>3. jobs[j].delivery # "pending" => RecoveredDelivery(j) # "pending"
      BY DEF RecoveredDelivery
    <3> QED BY <3>1, <3>2, <3>3 DEF Resting
  <2>2. ASSUME NEW q \in Questions PROVE questions'[q].resumed = questions[q].resumed
    BY <1>0, <1>2 DEF Recover, QuestionRow
  <2> QED BY <2>1, <2>2 DEF Quiet, NothingSpent
<1>3. ASSUME NEW due \in SUBSET Pending, Start(due) PROVE Quiet
  BY <1>3, SweepRests DEF Start
<1> QED BY <1>1, <1>2, <1>3 DEF Lifecycle

\* Only a submit, a resume and a release make a job ready.
LEMMA StepShape ==
  ASSUME TypeOK, Unused, [Next]_vars
  PROVE  \/ \E request \in Keys : Submit(request)
         \/ \E j \in Jobs : Resume(j)
         \/ SpendAnswers
         \/ Quiet
<1>1. CASE UNCHANGED vars
  BY <1>1, SameRests DEF vars, Quiet, NothingSpent
<1> QED BY <1>1, ClientsRest, AgentsRest, RunnerRests, DelivererRests, LifecycleRests DEF Next

(***************************************************************************)
(* What a release does: which rows it fills, and which answers it spends.  *)
(***************************************************************************)

\* Rows that are not used stay so or have a first attempt.
LEMMA UnusedStep ==
  ASSUME TypeOK, Unused, [Next]_vars, TypeOK'
  PROVE  Unused'
<1>0. /\ \A j \in Jobs : jobs[j] \in JobRow /\ jobs'[j] \in JobRow
      /\ \A q \in Questions : questions[q] \in QuestionRow
  BY DEF TypeOK
<1>1. ASSUME NEW j \in Jobs, jobs'[j].status = "absent" PROVE jobs'[j].attempt = 0
  <2>1. ASSUME NEW request \in Keys, Submit(request) PROVE jobs'[j] = jobs[j]
    BY <1>1, <2>1 DEF Submit, NewJob, TypeOK
  <2>2. ASSUME NEW i \in Jobs, Resume(i) PROVE jobs'[j] = jobs[j]
    BY <1>0, <1>1, <2>2, RowFields DEF Resume, TypeOK
  <2>3. CASE SpendAnswers
    <3>1. \A q \in Questions : NewJob(InputKey(q)).status = "queued"
      BY DEF NewJob
    <3>2. jobs'[j] = jobs[j]
      BY <1>0, <1>1, <2>3, <3>1, ReleaseEffect, RowFields
    <3> QED BY <1>1, <3>2 DEF Unused
  <2>4. CASE Quiet
    <3>1. jobs[j].status = "absent" /\ jobs'[j].attempt = jobs[j].attempt
      BY <1>1, <2>4 DEF Quiet, Resting, StatusMoves
    <3> QED BY <3>1 DEF Unused
  <2> QED BY <1>1, <2>1, <2>2, <2>3, <2>4, StepShape DEF Unused
<1>2. ASSUME NEW q \in Questions, questions'[q].status = "absent"
      PROVE  questions'[q].resumed = NoJob
  <2>1. CASE SpendAnswers
    <3>1. q \notin ReleasedChat /\ \A i \in Jobs : q \notin ReleasedTo(i)
      <4>1. \A p \in ReleasedChat : questions[p].status = "answered"
        BY DEF ReleasedChat, ChatAnswers, Batch, Saved
      <4>2. \A i \in Jobs : \A p \in ReleasedTo(i) : questions[p].status = "answered"
        BY DEF ReleasedTo, Batch, Saved
      <4>3. questions'[q].status = questions[q].status
        BY <1>0, <2>1 DEF SpendAnswers, QuestionRow
      <4> QED BY <1>2, <4>1, <4>2, <4>3
    <3>2. questions'[q] = questions[q]
      BY <2>1, <3>1 DEF SpendAnswers
    <3> QED BY <1>2, <3>2 DEF Unused
  <2>2. CASE UNCHANGED questions
    BY <1>2, <2>2 DEF Unused
  <2>3. ASSUME NEW due \in SUBSET Pending, ExpireOwnerInputs(due)
        PROVE  questions'[q].resumed = NoJob
    <3>1. questions'[q].status = "absent" => questions'[q] = questions[q]
      BY <1>0, <2>3 DEF ExpireOwnerInputs, QuestionRow
    <3> QED BY <1>2, <3>1 DEF Unused
  <2>4. questions[q].status = "absent" => questions[q].resumed = NoJob
    BY DEF Unused
  <2>5. CASE Clients
    <3>1. ASSUME NEW i \in Jobs, Cancel(i) PROVE questions'[q] = questions[q]
      BY <1>0, <1>2, <3>1 DEF Cancel, CancelQuestionsOf, QuestionRow
    <3>2. ASSUME NEW p \in Questions, CancelOwnerInput(p) PROVE questions'[q] = questions[q]
      BY <1>0, <1>2, <3>2 DEF CancelOwnerInput, QuestionRow, TypeOK
    <3>3. ASSUME NEW p \in Questions, NEW declined \in BOOLEAN, Answer(p, declined)
          PROVE  questions'[q] = questions[q]
      <4>1. PICK row \in QuestionRow :
              /\ questions' = [questions EXCEPT ![p] = row]
              /\ row.status = IF declined THEN "declined" ELSE "answered"
        BY <3>3, AnswerEffect
      <4> QED BY <1>2, <4>1 DEF TypeOK
    <3> QED BY <1>2, <2>2, <2>3, <2>4, <2>5, <3>1, <3>2, <3>3
            DEF Clients, Submit, Resume, StopRun, tables, ListOwnerInputs, Acknowledge
  <2>6. CASE Agents
    <3>1. ASSUME NEW r \in Runs, AskOwner(r) PROVE questions'[q] = questions[q]
      BY <1>2, <3>1 DEF AskOwner, TypeOK
    <3>2. ASSUME NEW r, questions' = SettledQuestions(r)
          PROVE  questions'[q] = questions[q] \/ questions'[q].status # "absent"
      BY <1>0, <3>2 DEF SettledQuestions, AskedBy, QuestionRow
    <3> QED BY <1>2, <2>2, <2>4, <2>6, <3>1, <3>2
            DEF Agents, AskOwnerAdmitted, FinishRun, StartChat, EndChat, tables
  <2>7. CASE Runner
    BY <2>1, <2>2, <2>3, <2>7, ReleaseCases
       DEF Runner, RunnerExpire, RunnerRelease, RunnerPick, RunnerClaim, RunnerScan, tables
  <2>8. CASE Deliverer
    BY <2>2, <2>8, DelivererEffect
  <2>9. CASE Lifecycle
    <3>1. ASSUME Recover PROVE questions'[q] = questions[q]
      BY <1>0, <1>2, <3>1 DEF Recover, Open, QuestionRow
    <3> QED BY <1>2, <2>2, <2>3, <2>4, <2>9, <3>1
            DEF Lifecycle, Shutdown, RunnerExit, Crash, Start, tables
  <2> QED BY <2>2, <2>5, <2>6, <2>7, <2>8, <2>9 DEF Next, vars
<1> QED BY <1>1, <1>2 DEF Unused

\* The rows taken by one release are free, and a row is taken for one answer.
LEMMA RowsOfRelease ==
  ASSUME TypeOK, NEW row \in Continuations
  PROVE  /\ ReleasedChat \subseteq Questions
         /\ \A q \in ReleasedChat : row[q] \in Jobs /\ jobs[row[q]].status = "absent"
         /\ \A p, q \in ReleasedChat : row[p] = row[q] => p = q
         /\ row \in [ReleasedChat -> Jobs]
<1>1. ReleasedChat \subseteq Questions
  BY DEF ReleasedChat, ChatAnswers, Batch, Saved
<1>2. row \in [ReleasedChat -> FreeRows]
  BY DEF Continuations
<1>3. \A q \in ReleasedChat : row[q] \in Jobs /\ jobs[row[q]].status = "absent"
  BY <1>2 DEF FreeRows
<1>4. ASSUME NEW p \in ReleasedChat, NEW q \in ReleasedChat, row[p] = row[q]
      PROVE  ~(p < q)
  <2>1. ASSUME p < q PROVE row[p] < row[q]
    BY <1>2, <2>1 DEF Continuations, FreeRows
  <2>2. row[p] \in Nat
    BY <1>3, ConstantsAssumption DEF Jobs
  <2> QED BY <1>4, <2>1, <2>2
<1>5. ASSUME NEW p \in ReleasedChat, NEW q \in ReleasedChat, row[p] = row[q]
      PROVE  p = q
  <2>1. p \in Nat /\ q \in Nat
    BY <1>1, ConstantsAssumption DEF Questions
  <2>2. ~(p < q) /\ ~(q < p)
    BY <1>4, <1>5
  <2> QED BY <2>1, <2>2
<1>6. row \in [ReleasedChat -> Jobs]
  BY <1>2, <1>3
<1> QED BY <1>1, <1>3, <1>5, <1>6

-----------------------------------------------------------------------------
(***************************************************************************)
(* The limit of the queue.                                                 *)
(***************************************************************************)

LEMMA LastOf ==
  ASSUME NEW n \in Nat, NEW S, S \subseteq 1 .. n, S # {}
  PROVE  \E m \in S : \A k \in S : k <= m
<1> DEFINE T == {n - k : k \in S}
<1>0. \A k \in S : k \in Int /\ n - k \in Nat
  OBVIOUS
<1>1. T \subseteq Nat /\ T # {}
  BY <1>0
<1>2. PICK t \in T : \A u \in T : <<u, t>> \notin OpToRel(<, Nat)
  BY <1>1, NatLessThanWellFounded, WFMin
<1>3. PICK m \in S : t = n - m
  OBVIOUS
<1>4. ASSUME NEW k \in S PROVE k <= m
  <2>1. n - k \in T /\ k \in Int /\ m \in Int
    BY <1>0
  <2>2. ~(n - k < t)
    BY <1>0, <1>2, <2>1 DEF OpToRel
  <2> QED BY <1>3, <2>1, <2>2
<1> QED BY <1>4

LEMMA QueueFacts ==
  /\ IsFiniteSet(Jobs) /\ IsFiniteSet(Questions)
  /\ \A S \in SUBSET Jobs : IsFiniteSet(S) /\ Cardinality(S) \in Nat
  /\ \A S \in SUBSET Questions : IsFiniteSet(S) /\ Cardinality(S) \in Nat
<1>0. NumJobs \in Int /\ NumQuestions \in Int /\ 1 \in Int
  BY ConstantsAssumption
<1>1. IsFiniteSet(Jobs) /\ IsFiniteSet(Questions)
  BY <1>0, FS_Interval DEF Jobs, Questions
<1> QED BY <1>1, FS_Subset, FS_CardinalityType

\* The last chat answer that was released found room, and took the last place.
LEMMA ReleaseHasRoom ==
  ASSUME TypeOK, QueueWithinLimit
  PROVE  Cardinality(Outstanding) + Cardinality(ReleasedChat) <= MaxOutstanding
<1>0. Outstanding \in SUBSET Jobs /\ ReleasedChat \in SUBSET Questions
  BY DEF Outstanding, ReleasedChat, ChatAnswers, Batch, Saved
<1>1. /\ Cardinality(Outstanding) \in Nat /\ MaxOutstanding \in Nat
      /\ IsFiniteSet(ReleasedChat) /\ Cardinality(ReleasedChat) \in Nat
  BY <1>0, QueueFacts, ConstantsAssumption
<1>2. CASE ReleasedChat = {}
  BY <1>1, <1>2, FS_EmptySet DEF QueueWithinLimit
<1>3. CASE ReleasedChat # {}
  <2>1. PICK q \in ReleasedChat : \A p \in ReleasedChat : p <= q
    BY <1>0, <1>3, LastOf, ConstantsAssumption DEF Questions
  <2> DEFINE Before == {p \in ChatAnswers : p < q}
  <2>2. Before \in SUBSET Questions
    BY DEF ChatAnswers, Batch, Saved
  <2>3. IsFiniteSet(Before) /\ Cardinality(Before) \in Nat
    BY <2>2, QueueFacts
  <2>4. ReleasedChat \ {q} \in SUBSET Before
    <3>1. ASSUME NEW p \in ReleasedChat, p # q PROVE p \in ChatAnswers /\ p < q
      <4>1. p \in Nat /\ q \in Nat /\ p <= q
        BY <1>0, <2>1, ConstantsAssumption DEF Questions
      <4>2. p \in ChatAnswers
        BY DEF ReleasedChat
      <4> QED BY <3>1, <4>1, <4>2
    <3> QED BY <3>1
  <2>5. Cardinality(ReleasedChat \ {q}) = Cardinality(ReleasedChat) - 1
    BY <1>1, FS_RemoveElement
  <2>6. Cardinality(ReleasedChat \ {q}) <= Cardinality(Before)
    BY <2>3, <2>4, FS_Subset
  <2>7. Cardinality(Outstanding) + Cardinality(Before) < MaxOutstanding
    BY DEF ReleasedChat, HasRoom, ChatBefore
  <2> HIDE DEF Before
  <2> QED BY <1>1, <2>3, <2>5, <2>6, <2>7
<1> QED BY <1>2, <1>3

LEMMA LimitStep ==
  ASSUME TypeOK, Unused, QueueWithinLimit, [Next]_vars
  PROVE  QueueWithinLimit'
<1> DEFINE Count == Cardinality(Outstanding)
<1> DEFINE Now == {j \in Jobs : jobs'[j].status \in
                     {"queued", "running", "cancel_requested", "awaiting_input"}}
<1>0. /\ Outstanding \in SUBSET Jobs /\ Now \in SUBSET Jobs
      /\ Outstanding' = Now
      /\ \A j \in Jobs : jobs[j] \in JobRow
  BY DEF Outstanding, TypeOK
<1>1. /\ IsFiniteSet(Outstanding) /\ Count \in Nat
      /\ IsFiniteSet(Now) /\ Cardinality(Now) \in Nat /\ MaxOutstanding \in Nat
  BY <1>0, QueueFacts, ConstantsAssumption
<1> SUFFICES Cardinality(Now) <= MaxOutstanding
  BY <1>0 DEF QueueWithinLimit
<1>2. ASSUME NEW j \in Jobs, Count < MaxOutstanding, \A i \in Jobs : i # j => jobs'[i] = jobs[i]
      PROVE  Cardinality(Now) <= MaxOutstanding
  <2>1. Now \in SUBSET (Outstanding \cup {j})
    BY <1>2 DEF Outstanding
  <2>2. /\ IsFiniteSet(Outstanding \cup {j})
        /\ Cardinality(Outstanding \cup {j}) \in {Count, Count + 1}
    BY <1>1, FS_AddElement
  <2>3. Cardinality(Now) <= Cardinality(Outstanding \cup {j})
    BY <2>1, <2>2, FS_Subset
  <2> HIDE DEF Now, Count
  <2> QED BY <1>1, <1>2, <2>2, <2>3
<1>3. ASSUME NEW request \in Keys, Submit(request) PROVE Cardinality(Now) <= MaxOutstanding
  BY <1>2, <1>3 DEF Submit, TypeOK
<1>4. ASSUME NEW j \in Jobs, Resume(j) PROVE Cardinality(Now) <= MaxOutstanding
  BY <1>2, <1>4 DEF Resume, TypeOK
<1>5. CASE SpendAnswers
  <2>1. PICK row \in Continuations : jobs' = [j \in Jobs |->
          IF ReleasedTo(j) # {} THEN NextAttempt(jobs[j])
          ELSE IF \E q \in ReleasedChat : row[q] = j
               THEN NewJob(InputKey(CHOOSE q \in ReleasedChat : row[q] = j))
               ELSE jobs[j]]
    BY <1>5 DEF SpendAnswers
  <2> DEFINE Taken == Range(row)
  <2>2. row \in [ReleasedChat -> Jobs] /\ ReleasedChat \in SUBSET Questions
    BY RowsOfRelease
  <2>3. IsFiniteSet(ReleasedChat) /\ Cardinality(ReleasedChat) \in Nat
    BY <2>2, QueueFacts
  <2>4. row \in Surjection(ReleasedChat, Taken)
    BY <2>2, Fun_RangeProperties
  <2>5. IsFiniteSet(Taken) /\ Cardinality(Taken) <= Cardinality(ReleasedChat)
    BY <2>3, <2>4, FS_Surjection
  <2>6. Now \in SUBSET (Outstanding \cup Taken)
    <3> SUFFICES ASSUME NEW j \in Now PROVE j \in Outstanding \cup Taken
      OBVIOUS
    <3>1. ReleasedTo(j) # {} => jobs[j].status = "awaiting_input"
      BY DEF ReleasedTo
    <3>2. ASSUME NEW q \in ReleasedChat, row[q] = j PROVE j \in Taken
      BY <2>2, <3>2 DEF Range
    <3> QED BY <2>1, <3>1, <3>2 DEF Outstanding
  <2>7. /\ IsFiniteSet(Outstanding \cup Taken)
        /\ Cardinality(Outstanding \cup Taken)
             = Count + Cardinality(Taken) - Cardinality(Outstanding \cap Taken)
        /\ Cardinality(Outstanding \cap Taken) \in Nat
        /\ Cardinality(Taken) \in Nat
    BY <1>1, <2>5, FS_Union, FS_Intersection, FS_CardinalityType
  <2>8. Cardinality(Now) <= Cardinality(Outstanding \cup Taken)
    BY <2>6, <2>7, FS_Subset
  <2>9. Count + Cardinality(ReleasedChat) <= MaxOutstanding
    BY ReleaseHasRoom
  <2> HIDE DEF Now, Count, Taken
  <2> QED BY <1>1, <2>3, <2>5, <2>7, <2>8, <2>9
<1>6. CASE Quiet
  <2>1. Now \in SUBSET Outstanding
    BY <1>6 DEF Quiet, Resting, StatusMoves, Outstanding
  <2>2. Cardinality(Now) <= Count
    BY <1>1, <2>1, FS_Subset
  <2>3. Count <= MaxOutstanding
    BY DEF QueueWithinLimit
  <2> HIDE DEF Now, Count
  <2> QED BY <1>1, <2>2, <2>3
<1> QED BY <1>3, <1>4, <1>5, <1>6, StepShape

\* A job row that nobody inserted has no attempt behind it and a question that
\* nobody asked has resumed nothing, so what is inserted next starts clean.
THEOREM RowsAreUnused == Spec => []Unused
<1>1. Init => Unused
  BY DEF Init, Unused
<1>2. TypeOK /\ TypeOK' /\ Unused /\ [Next]_vars => Unused'
  BY UnusedStep
<1> QED BY <1>1, <1>2, TypeCorrect, PTL DEF Spec

\* No order of submits, resumes, retries and releases lets more jobs stand in the
\* queue than its limit: a release admits several answers in one transaction, and
\* the count that the last of them passed was taken with all the others in it.
THEOREM QueueKeepsItsLimit == Spec => []QueueWithinLimit
<1>1. Init => QueueWithinLimit
  <2>1. Init => Outstanding = {}
    BY DEF Init, Outstanding
  <2>2. 0 <= MaxOutstanding
    BY ConstantsAssumption
  <2> QED BY <2>1, <2>2, FS_EmptySet DEF QueueWithinLimit
<1>2. TypeOK /\ Unused /\ QueueWithinLimit /\ [Next]_vars => QueueWithinLimit'
  BY LimitStep
<1> QED BY <1>1, <1>2, TypeCorrect, RowsAreUnused, PTL DEF Spec

\* A result that was delivered, or given up, is not offered again before the job is
\* run again: whoever writes a delivery state tests the one it read.
THEOREM DeliveriesAreDecidedOnce == Spec => DeliveryDecidedOnce
<1>1. TypeOK /\ Unused /\ [Next]_vars =>
        [\A j \in Jobs : /\ jobs[j].delivery # "pending"
                         /\ jobs'[j].attempt = jobs[j].attempt
                         => jobs'[j].delivery # "pending"]_vars
  <2> SUFFICES ASSUME TypeOK, Unused, [Next]_vars,
                      NEW j \in Jobs, jobs[j].delivery # "pending",
                      jobs'[j].attempt = jobs[j].attempt
               PROVE  jobs'[j].delivery # "pending"
    OBVIOUS
  <2>0. \A i \in Jobs : jobs[i] \in JobRow /\ jobs[i].attempt \in Nat
                        /\ NextAttempt(jobs[i]).attempt # jobs[i].attempt
    BY RowFields DEF TypeOK, JobRow
  <2>1. \A key : NewJob(key).attempt = 1
    BY DEF NewJob
  <2>2. ASSUME NEW request \in Keys, Submit(request) PROVE jobs'[j].delivery # "pending"
    <3>1. jobs'[j] = jobs[j] \/ (jobs[j].attempt = 0 /\ jobs'[j].attempt = 1)
      BY <2>1, <2>2 DEF Submit, NextRow, FreeRows, Unused, TypeOK
    <3> QED BY <3>1
  <2>3. ASSUME NEW i \in Jobs, Resume(i) PROVE jobs'[j].delivery # "pending"
    <3>1. jobs'[j] = jobs[j]
      BY <2>0, <2>3 DEF Resume, TypeOK
    <3> QED BY <3>1
  <2>4. CASE SpendAnswers
    <3>1. jobs'[j] = jobs[j] \/ (jobs[j].attempt = 0 /\ jobs'[j].attempt = 1)
      BY <2>0, <2>1, <2>4, ReleaseEffect DEF Unused
    <3> QED BY <3>1
  <2>5. CASE Quiet
    BY <2>5 DEF Quiet, Resting
  <2> QED BY <2>2, <2>3, <2>4, <2>5, StepShape
<1> QED BY <1>1, TypeCorrect, RowsAreUnused, PTL DEF Spec, DeliveryDecidedOnce

-----------------------------------------------------------------------------
(***************************************************************************)
(* The refinement of WorkContract.                                         *)
(***************************************************************************)

LEMMA PhaseFacts ==
  /\ \A status \in JobStatus : PhaseOf(status) \in Contract!Phases
  /\ PhaseOf("absent") = "none" /\ PhaseOf("queued") = "ready"
  /\ PhaseOf("awaiting_input") = "waiting"
  /\ \A status \in {"failed", "interrupted"} : PhaseOf(status) = "broken"
BY DEF JobStatus, PhaseOf, Contract!Phases

LEMMA PhaseMoves ==
  ASSUME NEW s, NEW t, <<s, t>> \in StatusMoves
  PROVE  <<PhaseOf(s), PhaseOf(t)>> \in Contract!Moves
BY DEF StatusMoves, PhaseOf, Contract!Moves

\* An answer that was not spent is spent on a job.
SpentNow(j) == {q \in Questions : questions[q].resumed = NoJob /\ questions'[q].resumed = j}

LEMMA SpentFacts ==
  /\ \A j : Contract!SpentOn(j) = SpentNow(j)
  /\ NothingSpent => \A j \in Jobs : SpentNow(j) = {}
<1>1. \A j : Contract!SpentOn(j) = SpentNow(j)
  BY DEF Contract!SpentOn, SpentNow, Contract!NoJob, NoJob
<1>2. ASSUME NothingSpent, NEW j \in Jobs PROVE SpentNow(j) = {}
  BY <1>2, ConstantsAssumption DEF NothingSpent, SpentNow, NoJob, Jobs
<1> QED BY <1>1, <1>2

LEMMA RestingIsStaying ==
  ASSUME NEW j \in Jobs, Resting(j), SpentNow(j) = {}
  PROVE  Contract!Stays(j)
<1>1. PhaseOf(jobs'[j].status) = PhaseOf(jobs[j].status)
        \/ <<PhaseOf(jobs[j].status), PhaseOf(jobs'[j].status)>> \in Contract!Moves
  BY PhaseMoves DEF Resting
<1> QED BY <1>1, SpentFacts DEF Contract!Stays, Resting

\* What a release spends: one answer on each job that it makes ready.
LEMMA ReleaseSpends ==
  ASSUME TypeOK, Unused, SpendAnswers
  PROVE  /\ \A q \in Questions : questions[q].resumed # NoJob =>
                                   questions'[q].resumed = questions[q].resumed
         /\ \A j \in Jobs : \/ jobs'[j] = jobs[j] /\ SpentNow(j) = {}
                            \/ /\ jobs[j].status \in {"absent", "awaiting_input"}
                               /\ jobs'[j].status = "queued"
                               /\ jobs'[j].attempt = jobs[j].attempt + 1
                               /\ \E q \in Questions : SpentNow(j) = {q}
<1>1. PICK row \in Continuations :
        /\ jobs' = [j \in Jobs |->
             IF ReleasedTo(j) # {} THEN NextAttempt(jobs[j])
             ELSE IF \E q \in ReleasedChat : row[q] = j
                  THEN NewJob(InputKey(CHOOSE q \in ReleasedChat : row[q] = j))
                  ELSE jobs[j]]
        /\ questions' = [q \in Questions |->
             IF q \in ReleasedChat
             THEN [questions[q] EXCEPT !.resumed = row[q]]
             ELSE IF \E j \in Jobs : q \in ReleasedTo(j)
                  THEN [questions[q] EXCEPT !.resumed = questions[q].run]
                  ELSE questions[q]]
  BY DEF SpendAnswers
<1>2. /\ ReleasedChat \subseteq Questions
      /\ \A q \in ReleasedChat : row[q] \in Jobs /\ jobs[row[q]].status = "absent"
      /\ \A p, q \in ReleasedChat : row[p] = row[q] => p = q
  BY RowsOfRelease
<1>3. ReleasedChat \subseteq Batch /\ Batch \subseteq Saved /\ Saved \subseteq Questions
  BY DEF ReleasedChat, ChatAnswers, Batch, Saved
<1>4. \A q \in Saved : questions[q].resumed = NoJob
  BY DEF Saved
<1>5. \A j \in Jobs : \A q \in ReleasedTo(j) :
        q \in Batch /\ questions[q].run = j /\ jobs[j].status = "awaiting_input"
  BY DEF ReleasedTo
<1>6. \A q \in ReleasedChat : questions[q].run \notin Jobs
  BY ConstantsAssumption DEF ReleasedChat, ChatAnswers, Jobs
<1>7. \A q \in Questions : questions[q] \in QuestionRow
  BY DEF TypeOK
<1>8. ASSUME NEW q \in ReleasedChat
      PROVE  questions'[q].resumed = row[q]
  <2>1. questions'[q] = [questions[q] EXCEPT !.resumed = row[q]]
    BY <1>1, <1>2, <1>8
  <2> QED BY <1>2, <1>7, <2>1 DEF QuestionRow
<1>9. ASSUME NEW j \in Jobs, NEW q \in ReleasedTo(j)
      PROVE  questions'[q].resumed = j
  <2>1. questions'[q] = [questions[q] EXCEPT !.resumed = j]
    BY <1>1, <1>3, <1>5, <1>6, <1>9
  <2> QED BY <1>3, <1>5, <1>7, <2>1 DEF QuestionRow
<1>10. ASSUME NEW q \in Questions, q \notin ReleasedChat, \A j \in Jobs : q \notin ReleasedTo(j)
       PROVE  questions'[q] = questions[q]
  BY <1>1, <1>10
<1>11. \A q \in Questions : questions[q].resumed # NoJob =>
                              questions'[q].resumed = questions[q].resumed
  BY <1>3, <1>4, <1>5, <1>10
<1>12. ASSUME NEW j \in Jobs
       PROVE  \/ jobs'[j] = jobs[j] /\ SpentNow(j) = {}
              \/ /\ jobs[j].status \in {"absent", "awaiting_input"}
                 /\ jobs'[j].status = "queued"
                 /\ jobs'[j].attempt = jobs[j].attempt + 1
                 /\ \E q \in Questions : SpentNow(j) = {q}
  <2>0. j # NoJob /\ jobs[j] \in JobRow
    BY ConstantsAssumption DEF Jobs, NoJob, TypeOK
  <2>1. \A q \in SpentNow(j) : q \in ReleasedTo(j) \/ (q \in ReleasedChat /\ row[q] = j)
    <3> SUFFICES ASSUME NEW q \in SpentNow(j)
                 PROVE  q \in ReleasedTo(j) \/ (q \in ReleasedChat /\ row[q] = j)
      OBVIOUS
    <3>1. q \in Questions /\ questions[q].resumed = NoJob /\ questions'[q].resumed = j
      BY DEF SpentNow
    <3>2. ASSUME NEW i \in Jobs, q \in ReleasedTo(i) PROVE q \in ReleasedTo(j)
      BY <1>9, <3>1, <3>2
    <3> QED BY <1>8, <1>10, <2>0, <3>1, <3>2
  <2>2. CASE ReleasedTo(j) # {}
    <3>1. PICK q \in ReleasedTo(j) : TRUE
      BY <2>2
    <3>2. \A p \in ReleasedTo(j) : p = q
      <4>1. \A p \in ReleasedTo(j) : p \in Batch /\ questions[p].run = j
                                     /\ (\A o \in Batch : o < p => questions[o].run # j)
        BY DEF ReleasedTo
      <4>2. \A p \in ReleasedTo(j) : ~(p < q) /\ ~(q < p)
        BY <3>1, <4>1
      <4>3. \A p \in ReleasedTo(j) : p \in Nat
        <5>1. Questions \subseteq Nat
          BY ConstantsAssumption DEF Questions
        <5> QED BY <1>3, <4>1, <5>1
      <4> QED BY <3>1, <4>2, <4>3
    <3>3. \A p \in ReleasedChat : row[p] # j
      BY <1>2, <1>5, <3>1
    <3>4. q \in SpentNow(j)
      BY <1>3, <1>4, <1>5, <1>9, <3>1 DEF SpentNow
    <3>5. SpentNow(j) = {q} /\ q \in Questions
      BY <2>1, <3>2, <3>3, <3>4 DEF SpentNow
    <3>6. jobs'[j] = NextAttempt(jobs[j])
      BY <1>1, <2>2
    <3> QED BY <1>5, <2>0, <3>1, <3>5, <3>6, RowFields
  <2>3. ASSUME ReleasedTo(j) = {}, NEW q \in ReleasedChat, row[q] = j
        PROVE  /\ jobs[j].status = "absent"
               /\ jobs'[j].status = "queued"
               /\ jobs'[j].attempt = jobs[j].attempt + 1
               /\ q \in Questions /\ SpentNow(j) = {q}
    <3>1. \E p : jobs'[j] = NewJob(InputKey(p))
      BY <1>1, <2>3
    <3>2. jobs'[j].status = "queued" /\ jobs'[j].attempt = 1
      BY <3>1 DEF NewJob
    <3>3. jobs[j].status = "absent" /\ jobs[j].attempt = 0
      BY <1>2, <2>3 DEF Unused
    <3>4. q \in SpentNow(j)
      BY <1>2, <1>3, <1>4, <1>8, <2>3 DEF SpentNow
    <3>5. SpentNow(j) = {q}
      BY <1>2, <2>1, <2>3, <3>4
    <3> QED BY <1>2, <3>2, <3>3, <3>5
  <2>4. CASE ReleasedTo(j) = {} /\ \A q \in ReleasedChat : row[q] # j
    BY <1>1, <2>1, <2>4
  <2> QED BY <2>2, <2>3, <2>4
<1> QED BY <1>11, <1>12

\* Every step is one of the contract.
LEMMA WorkStep ==
  ASSUME TypeOK, TypeOK', Unused, [Next]_vars
  PROVE  Contract!Next
<1>0. /\ \A j \in Jobs : jobs[j] \in JobRow /\ jobs'[j] \in JobRow
      /\ \A q \in Questions : questions'[q] \in QuestionRow
  BY DEF TypeOK
<1>1. /\ [j \in Jobs |-> PhaseOf(jobs'[j].status)] \in [Jobs -> Contract!Phases]
      /\ [j \in Jobs |-> jobs'[j].attempt] \in [Jobs -> Nat]
      /\ [q \in Questions |-> questions'[q].resumed] \in [Questions -> Jobs \cup {NoJob}]
  BY <1>0, PhaseFacts DEF JobRow, QuestionRow
<1>2. ASSUME NEW i \in Jobs, NothingSpent,
             jobs[i].status \in {"absent", "failed", "interrupted"},
             jobs'[i].status = "queued", jobs'[i].attempt = jobs[i].attempt + 1,
             \A j \in Jobs : j # i => jobs'[j] = jobs[j]
      PROVE  Contract!Next
  <2>1. Contract!MadeReady(i)
    BY <1>2, PhaseFacts, SpentFacts DEF Contract!MadeReady
  <2>2. \A j \in Jobs : j # i => Contract!Stays(j)
    BY <1>2, SameRests, SpentFacts, RestingIsStaying
  <2> QED BY <1>1, <1>2, <2>1, <2>2 DEF Contract!Next, NothingSpent, Contract!NoJob, NoJob
<1>3. ASSUME NEW request \in Keys, Submit(request) PROVE Contract!Next
  <2>1. PICK i \in Jobs : NextRow(i) /\ jobs' = [jobs EXCEPT ![i] = NewJob(OwnerKey(request))]
    BY <1>3 DEF Submit
  <2>2. jobs'[i] = NewJob(OwnerKey(request)) /\ \A j \in Jobs : j # i => jobs'[j] = jobs[j]
    BY <2>1 DEF TypeOK
  <2>3. jobs'[i].status = "queued" /\ jobs'[i].attempt = 1
    BY <2>2 DEF NewJob
  <2>4. jobs[i].status = "absent" /\ jobs[i].attempt = 0
    BY <2>1 DEF NextRow, FreeRows, Unused
  <2>5. NothingSpent
    BY <1>3 DEF Submit, NothingSpent
  <2> QED BY <1>2, <2>2, <2>3, <2>4, <2>5
<1>4. ASSUME NEW i \in Jobs, Resume(i) PROVE Contract!Next
  <2>1. jobs'[i] = NextAttempt(jobs[i]) /\ \A j \in Jobs : j # i => jobs'[j] = jobs[j]
    BY <1>4 DEF Resume, TypeOK
  <2>2. NothingSpent /\ jobs[i].status \in {"interrupted", "failed"}
    BY <1>4 DEF Resume, NothingSpent
  <2> QED BY <1>0, <1>2, <2>1, <2>2, RowFields
<1>5. CASE SpendAnswers
  <2>1. ASSUME NEW j \in Jobs PROVE Contract!MadeReady(j) \/ Contract!Stays(j)
    <3>1. CASE jobs'[j] = jobs[j] /\ SpentNow(j) = {}
      BY <3>1, SameRests, RestingIsStaying
    <3>2. CASE /\ jobs[j].status \in {"absent", "awaiting_input"}
               /\ jobs'[j].status = "queued"
               /\ jobs'[j].attempt = jobs[j].attempt + 1
               /\ \E q \in Questions : SpentNow(j) = {q}
      BY <3>2, PhaseFacts, SpentFacts DEF Contract!MadeReady
    <3> QED BY <1>5, <3>1, <3>2, ReleaseSpends
  <2>2. \A q \in Questions : questions[q].resumed # NoJob =>
                               questions'[q].resumed = questions[q].resumed
    BY <1>5, ReleaseSpends
  <2> QED BY <1>1, <2>1, <2>2 DEF Contract!Next, Contract!NoJob, NoJob
<1>6. CASE Quiet
  <2>1. \A j \in Jobs : Contract!Stays(j)
    BY <1>6, SpentFacts, RestingIsStaying DEF Quiet
  <2> QED BY <1>1, <1>6, <2>1 DEF Contract!Next, Quiet, NothingSpent, Contract!NoJob, NoJob
<1> QED BY <1>3, <1>4, <1>5, <1>6, StepShape

\* Tables, locks, leases and a restart between any two transactions included, a job
\* runs one attempt at a time and an owner's answer is spent on one resume of its
\* own job: every step is a step of WorkContract or leaves what it promises alone.
THEOREM WorkIsKept == Spec => KeepsContract
<1>1. Init => Contract!Init
  BY PhaseFacts DEF Init, Contract!Init, Contract!NoJob, NoJob
<1>2. TypeOK /\ TypeOK' /\ Unused /\ [Next]_vars => [Contract!Next]_(Contract!contract)
  BY WorkStep
<1> QED BY <1>1, <1>2, TypeCorrect, RowsAreUnused, PTL DEF Spec, KeepsContract, Contract!Spec

-----------------------------------------------------------------------------
(* Deliveries under way.                                                   *)

\* No step but a claim of the deliverer puts a delivery under way, and the attempt
\* stays while it is.
Underway(j) ==
  jobs'[j].delivery = "delivering" =>
    jobs[j].delivery = "delivering" /\ jobs'[j].attempt = jobs[j].attempt

LEMMA OthersKeepUnderway ==
  ASSUME TypeOK, Clients \/ Agents \/ Runner \/ Lifecycle, ~Recover, NEW j \in Jobs
  PROVE  Underway(j)
<1>0. \A i \in Jobs : jobs[i] \in JobRow
  BY DEF TypeOK
<1>a. ASSUME jobs'[j] = jobs[j] PROVE Underway(j)
  BY <1>a DEF Underway
<1>b. ASSUME jobs'[j].delivery \in {"pending", "suppressed"} PROVE Underway(j)
  BY <1>b DEF Underway
<1>c. ASSUME jobs'[j].attempt = jobs[j].attempt,
             jobs'[j].delivery = jobs[j].delivery
      PROVE  Underway(j)
  BY <1>c DEF Underway
<1>1. CASE Clients
  <2>1. ASSUME NEW request \in Keys, Submit(request) PROVE Underway(j)
    <3>1. jobs'[j] = jobs[j] \/ jobs'[j] = NewJob(OwnerKey(request))
      BY <2>1 DEF Submit, TypeOK
    <3> QED BY <3>1, <1>a, <1>b DEF NewJob
  <2>2. ASSUME NEW i \in Jobs, Cancel(i) PROVE Underway(j)
    <3>1. jobs'[j] = jobs[j] \/ jobs'[j] = CancelRow(jobs[j])
      BY <2>2 DEF Cancel, TypeOK
    <3>2. CancelRow(jobs[j]) = jobs[j] \/ CancelRow(jobs[j]).delivery = "suppressed"
      BY <1>0 DEF CancelRow, CancelledJob, JobRow
    <3> QED BY <3>1, <3>2, <1>a, <1>b
  <2>3. ASSUME NEW i \in Jobs, Resume(i) PROVE Underway(j)
    <3>1. jobs'[j] = jobs[j] \/ jobs'[j] = NextAttempt(jobs[j])
      BY <2>3 DEF Resume, TypeOK
    <3> QED BY <3>1, <1>0, <1>a, <1>b, RowFields
  <2>4. ASSUME NEW i \in Jobs, StopRun(i) PROVE Underway(j)
    BY <2>4, <1>a DEF StopRun, tables
  <2>5. ASSUME NEW q \in Questions, CancelOwnerInput(q) PROVE Underway(j)
    BY <2>5, <1>0, <1>a, <1>b, StopEffect, RowFields DEF CancelOwnerInput
  <2>6. ASSUME NEW q \in Questions, NEW declined \in BOOLEAN, Answer(q, declined)
        PROVE Underway(j)
    BY <2>6, <1>0, <1>a, <1>b, StopEffect, RowFields DEF Answer
  <2>7. ASSUME NEW due \in SUBSET Pending, ListOwnerInputs(due) PROVE Underway(j)
    BY <2>7, <1>0, <1>a, <1>b, SweepEffect, RowFields DEF ListOwnerInputs
  <2>8. ASSUME NEW turn \in turns, Acknowledge(turn[1], turn[2])
        PROVE Underway(j)
    <3>1. /\ jobs'[j].attempt = jobs[j].attempt
          /\ jobs'[j].delivery \in {"presented", jobs[j].delivery}
      BY <2>8, <1>0 DEF Acknowledge, TypeOK, JobRow
    <3> QED BY <3>1 DEF Underway
  <2> QED BY <1>1, <2>1, <2>2, <2>3, <2>4, <2>5, <2>6, <2>7, <2>8 DEF Clients
<1>2. CASE Agents
  <2>1. ASSUME NEW r \in Runs, AskOwnerAdmitted(r) \/ AskOwner(r) PROVE Underway(j)
    BY <2>1, <1>a DEF AskOwnerAdmitted, AskOwner, tables
  <2>2. ASSUME NEW i \in Jobs,
               NEW outcome \in {"completed", "failed", "interrupted"},
               FinishRun(i, outcome)
        PROVE Underway(j)
    <3>1. \/ jobs'[j].delivery = "suppressed"
          \/ /\ jobs'[j].delivery = jobs[j].delivery
             /\ jobs'[j].attempt = jobs[j].attempt
      BY <2>2, <1>0 DEF FinishRun, TypeOK, JobRow
    <3> QED BY <3>1, <1>b, <1>c
  <2>3. ASSUME NEW c \in ChatRuns, StartChat(c) \/ EndChat(c) PROVE Underway(j)
    BY <2>3, <1>a DEF StartChat, EndChat, tables
  <2> QED BY <1>2, <2>1, <2>2, <2>3 DEF Agents
<1>3. CASE Runner
  <2>1. ASSUME NEW due \in SUBSET Pending, RunnerExpire(due) PROVE Underway(j)
    BY <2>1, <1>0, <1>a, <1>b, SweepEffect, RowFields DEF RunnerExpire
  <2>2. CASE RunnerRelease
    <3>1. \A q \in Questions : NewJob(InputKey(q)).delivery = "pending"
      BY DEF NewJob
    <3> QED BY <2>2, <3>1, <1>0, <1>a, <1>b, ReleaseEffect, RowFields
            DEF RunnerRelease
  <2>3. CASE RunnerPick \/ RunnerScan
    BY <2>3, <1>a DEF RunnerPick, RunnerScan, tables
  <2>4. CASE RunnerClaim
    <3>1. jobs'[j].attempt = jobs[j].attempt /\ jobs'[j].delivery = jobs[j].delivery
      BY <2>4, <1>0 DEF RunnerClaim, TypeOK, JobRow
    <3> QED BY <3>1, <1>c
  <2> QED BY <1>3, <2>1, <2>2, <2>3, <2>4 DEF Runner
<1>4. CASE Lifecycle
  <2>1. CASE Shutdown \/ RunnerExit \/ Crash
    BY <2>1, <1>a DEF Shutdown, RunnerExit, Crash, tables
  <2>2. ASSUME NEW due \in SUBSET Pending, Start(due) PROVE Underway(j)
    BY <2>2, <1>0, <1>a, <1>b, SweepEffect, RowFields DEF Start
  <2> QED BY <1>4, <2>1, <2>2 DEF Lifecycle
<1> QED BY <1>1, <1>2, <1>3, <1>4

\* Such a step leaves the deliverer alone, unless the daemon stops.
LEMMA OthersKeepOffer ==
  ASSUME TypeOK, Clients \/ Agents \/ Runner \/ Lifecycle, ~Recover, runner'.at # "off"
  PROVE  offer' = offer /\ runner.at # "off"
<1>1. CASE Clients
  <2>1. UNCHANGED <<offer, runner>>
    BY <1>1 DEF Clients, Submit, Cancel, Resume, StopRun, CancelOwnerInput, Answer,
                ListOwnerInputs, Acknowledge, memory
  <2> QED BY <2>1
<1>2. CASE Agents
  <2>1. UNCHANGED <<offer, runner>>
    BY <1>2 DEF Agents, AskOwnerAdmitted, AskOwner, FinishRun, StartChat, EndChat
  <2> QED BY <2>1
<1>3. CASE Runner
  BY <1>3 DEF Runner, RunnerExpire, RunnerRelease, RunnerPick, RunnerClaim, RunnerScan, Step
<1>4. CASE Lifecycle
  BY <1>4 DEF Lifecycle, Shutdown, RunnerExit, Crash, Start, Step
<1> QED BY <1>1, <1>2, <1>3, <1>4

LEMMA DelivererKeepsOffered ==
  ASSUME TypeOK, DeliveringIsOffered, Deliverer
  PROVE  DeliveringIsOffered'
<1>0. /\ \A i \in Jobs : jobs[i] \in JobRow
      /\ runner' = runner
  BY DelivererEffect DEF TypeOK
<1> SUFFICES ASSUME runner.at # "off", NEW j \in Jobs, jobs'[j].delivery = "delivering"
             PROVE  offer'.at \in {"claimed", "streaming"} /\ OfferedTurn' = <<j, jobs'[j].attempt>>
  BY <1>0 DEF DeliveringIsOffered
<1>1. jobs[j].delivery = "delivering" =>
        offer.at \in {"claimed", "streaming"} /\ offer.job = j /\ offer.attempt = jobs[j].attempt
  BY DEF DeliveringIsOffered, OfferedTurn
<1>2. ASSUME NEW i \in Jobs, OfferPick(i) PROVE FALSE
  BY <1>1, <1>2 DEF OfferPick, tables
<1>3. CASE OfferRead \/ OfferDefer
  BY <1>1, <1>3 DEF OfferRead, OfferDefer, tables
<1>4. CASE OfferBegin
  <2>1. jobs' = jobs /\ offer'.at = "streaming" /\ offer'.job = offer.job
        /\ offer'.attempt = offer.attempt
    BY <1>4 DEF OfferBegin, tables, TypeOK
  <2> QED BY <1>1, <2>1 DEF OfferedTurn
<1>5. CASE OfferComplete
  BY <1>1, <1>5 DEF OfferComplete, tables, memory, OfferedTurn
<1>6. CASE OfferSuppress
  <2>1. jobs[j].delivery = "delivering"
    BY <1>0, <1>6 DEF OfferSuppress, TypeOK, JobRow
  <2> QED BY <1>1, <1>6, <2>1 DEF OfferSuppress
<1>7. CASE OfferClaim
  <2>1. jobs[j].delivery # "delivering"
    BY <1>1, <1>7 DEF OfferClaim
  <2>2. Claimable /\ j = offer.job
    BY <1>0, <1>7, <2>1 DEF OfferClaim, TypeOK, JobRow
  <2>3. offer'.at = "claimed" /\ offer'.job = j /\ offer'.attempt = jobs[j].attempt
    BY <1>7, <2>2 DEF OfferClaim, Claimable, SameAttempt, TypeOK
  <2>4. jobs'[j].attempt = jobs[j].attempt
    BY DelivererEffect
  <2> QED BY <2>3, <2>4 DEF OfferedTurn
<1>8. ASSUME NEW succeeded \in BOOLEAN, OfferFinish(succeeded) PROVE FALSE
  <2>1. DeliveryOutcome(succeeded) # "delivering"
    BY DEF DeliveryOutcome
  <2>2. jobs'[j].delivery =
          IF j = offer.job /\ SameAttempt /\ jobs[j].delivery \in {"delivering", "presented"}
          THEN DeliveryOutcome(succeeded) ELSE jobs[j].delivery
    BY <1>0, <1>8 DEF OfferFinish, TypeOK, JobRow
  <2>3. jobs[j].delivery = "delivering" /\ j = offer.job /\ SameAttempt
    BY <1>1, <2>1, <2>2 DEF SameAttempt
  <2> QED BY <2>1, <2>2, <2>3
<1> QED BY <1>2, <1>3, <1>4, <1>5, <1>6, <1>7, <1>8 DEF Deliverer

LEMMA OfferedStep == TypeOK /\ DeliveringIsOffered /\ [Next]_vars => DeliveringIsOffered'
<1> SUFFICES ASSUME TypeOK, DeliveringIsOffered, [Next]_vars PROVE DeliveringIsOffered'
  OBVIOUS
<1>1. CASE UNCHANGED vars
  BY <1>1 DEF vars, tables, memory, DeliveringIsOffered, OfferedTurn
<1>2. CASE Deliverer
  BY <1>2, DelivererKeepsOffered
<1>3. CASE Recover
  <2>1. \A j \in Jobs : jobs'[j].delivery = RecoveredDelivery(j)
    BY <1>3, RecoverEffect
  <2>2. \A j \in Jobs : RecoveredDelivery(j) # "delivering"
    BY DEF RecoveredDelivery
  <2> QED BY <2>1, <2>2 DEF DeliveringIsOffered
<1>4. CASE (Clients \/ Agents \/ Runner \/ Lifecycle) /\ ~Recover
  <2> SUFFICES ASSUME runner'.at # "off", NEW j \in Jobs, jobs'[j].delivery = "delivering"
               PROVE  offer'.at \in {"claimed", "streaming"}
                      /\ OfferedTurn' = <<j, jobs'[j].attempt>>
    BY DEF DeliveringIsOffered
  <2>1. offer' = offer /\ runner.at # "off"
    BY <1>4, OthersKeepOffer
  <2>2. jobs[j].delivery = "delivering" /\ jobs'[j].attempt = jobs[j].attempt
    BY <1>4, OthersKeepUnderway DEF Underway
  <2> QED BY <2>1, <2>2 DEF DeliveringIsOffered, OfferedTurn
<1> QED BY <1>1, <1>2, <1>3, <1>4 DEF Next, Lifecycle

\* At most one delivery is under way, and it is of the attempt that the deliverer
\* claimed: nobody resumes or continues a job whose result is being delivered.
THEOREM DeliveryIsOffered == Spec => []DeliveringIsOffered
<1>1. Init => DeliveringIsOffered
  BY DEF Init, DeliveringIsOffered
<1> QED BY <1>1, TypeCorrect, OfferedStep, PTL DEF Spec
=============================================================================
