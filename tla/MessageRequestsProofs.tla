------------------------ MODULE MessageRequestsProofs ------------------------
(***************************************************************************)
(* Proofs about MessageRequests for every set of messages, every capacity  *)
(* and any number of crashes.                                              *)
(***************************************************************************)
EXTENDS MessageRequests, FiniteSetTheorems, SequenceTheorems, TLAPS

-----------------------------------------------------------------------------
(* The inductive invariant, in the order in which its parts are proved.    *)

\* The variables that the proofs look into have their types.
Types ==
  /\ row \in [Requests -> Row]
  /\ task \in [Requests -> Stages]
  /\ turn \in Requests \cup {Nobody}
  /\ submission \in [of: Requests \cup {Nobody},
                     at: {"idle", "checked", "refused"}]
  /\ submission.at # "idle" => submission.of \in Requests

\* A daemon that does not serve has nothing in memory, a maintenance is alone,
\* and the permit is held as PermitHasHolder says.
Memory ==
  /\ daemon \in {"off", "starting"} =>
       /\ turn = Nobody /\ maintenance = "open" /\ submission = NoSubmission
       /\ \A r \in Requests : task[r] = "none"
  /\ maintenance # "open" => turn = Nobody
  /\ PermitHasHolder

\* A row exists before its task, and only a stopping daemon requeues one.
Rows ==
  /\ daemon = "starting" => \A r \in Requests : row[r].status # "running"
  /\ \A r \in Requests :
       /\ row[r].status = "absent" => task[r] = "none"
       /\ submission.at = "checked" /\ submission.of = r =>
            row[r].status = "absent"
       /\ task[r] = "requeueing" => daemon = "stopping"
  /\ AcceptedHasTask

\* From its answer on a bound message owns the question.
Answers ==
  \A r \in Requests :
    row[r].bound /\ task[r] \in Executing \cup {"answered"} => question = r

IInv == Types /\ Memory /\ Rows /\ Answers

\* The ways in which a task changes nothing but its stage, its token and its
\* draft.
Walking(r) ==
  \/ LeaveLine(r) \/ PassToken(r) \/ BeginClaim(r)
  \/ CheckClaimed(r) \/ CheckAnswered(r) \/ TakeDraft(r) \/ Return(r)
  \/ Abort(r)
  \/ \E success \in BOOLEAN : EndWithoutReply(r, success) \/ StoreReply(r, success)

\* Where such a step can lead.
Walks == {<<"line", "failing">>, <<"line", "polled">>, <<"admitted", "claiming">>,
          <<"claimed", "failing">>, <<"claimed", "requeueing">>,
          <<"claimed", "answering">>, <<"answered", "failing">>,
          <<"answered", "requeueing">>, <<"answered", "working">>,
          <<"working", "writing">>, <<"working", "failing">>,
          <<"working", "succeeding">>, <<"writing", "written">>,
          <<"writing", "failing">>, <<"written", "succeeding">>,
          <<"written", "failing">>}

-----------------------------------------------------------------------------
LEMMA InitIInv == Init => IInv
<1> SUFFICES ASSUME Init PROVE IInv
  OBVIOUS
<1> USE RequestsAssumption DEF Init
<1>1. Types
  BY DEF Types, NoRow, Row, Statuses, Idle, Stages, NoSubmission
<1>2. Memory
  BY DEF Memory, PermitHasHolder, Idle, Claimed, Executing
<1>3. Rows
  BY DEF Rows, AcceptedHasTask, NoRow, Idle, NoSubmission, Queued, Serving
<1>4. Answers
  BY DEF Answers, NoRow
<1> QED BY <1>1, <1>2, <1>3, <1>4 DEF IInv

\* A step that only walks moves one task along Walks and leaves the rest.
LEMMA WalkingMoves ==
  ASSUME Types, NEW r \in Requests, Walking(r)
  PROVE  /\ UNCHANGED <<row, question, daemon, turn, submission, maintenance>>
         /\ \E stage \in Stages :
              /\ <<task[r], stage>> \in Walks
              /\ task' = [task EXCEPT ![r] = stage]
              /\ stage = "requeueing" => daemon = "stopping"
<1>1. CASE LeaveLine(r) \/ PassToken(r) \/ BeginClaim(r)
  BY <1>1 DEF LeaveLine, PassToken, BeginClaim, At, tables, Stages, Walks
<1>2. CASE CheckClaimed(r) \/ CheckAnswered(r)
  BY <1>2 DEF CheckClaimed, CheckAnswered, Proceed, At, tables, Stages, Walks
<1>3. CASE TakeDraft(r) \/ Return(r) \/ Abort(r)
  BY <1>3 DEF TakeDraft, Return, Abort, At, tables, Stages, Walks, Executing
<1>4. ASSUME NEW success \in BOOLEAN,
             EndWithoutReply(r, success) \/ StoreReply(r, success)
      PROVE  /\ UNCHANGED <<row, question, daemon, turn, submission, maintenance>>
             /\ \E stage \in Stages :
                  /\ <<task[r], stage>> \in Walks
                  /\ task' = [task EXCEPT ![r] = stage]
                  /\ stage = "requeueing" => daemon = "stopping"
  BY <1>4 DEF EndWithoutReply, StoreReply, At, tables, Stages, Walks
<1> QED BY <1>1, <1>2, <1>3, <1>4 DEF Walking

LEMMA NoSubmissionIs ==
  /\ NoSubmission \in [of: Requests \cup {Nobody},
                      at: {"idle", "checked", "refused"}]
  /\ NoSubmission.of = Nobody
  /\ NoSubmission.at = "idle"
BY DEF NoSubmission

\* The steps that look at a draft or a token only.
LEMMA AsideChangesNothing ==
  ASSUME NEW r \in Requests,
         StreamDraft(r) \/ Cancel(r) \/ SettleDraft(r) \/ UNCHANGED vars
  PROVE  UNCHANGED <<row, question, daemon, task, turn, submission, maintenance>>
BY DEF StreamDraft, Cancel, SettleDraft, vars, tables, memory

\* Next, action by action, with the steps above put together.
LEMMA NextCases ==
  ASSUME [Next]_vars
  PROVE  \/ \E r \in Requests : SubmitCheck(r)
         \/ \E bound, device \in BOOLEAN : SubmitInsert(bound, device)
         \/ MarkFailed
         \/ \E r \in Requests : \/ Walking(r)
                                \/ DeferInLine(r) \/ Admit(r) \/ DeferAdmitted(r)
                                \/ Claim(r) \/ AnswerBound(r) \/ Requeue(r)
                                \/ SettleDraft(r) \/ Record(r)
                                \/ StreamDraft(r) \/ Cancel(r) \/ Retire(r)
         \/ CloseQuestion
         \/ BeginMaintenance \/ LockData \/ EndMaintenance \/ Purge
         \/ BeginShutdown \/ Exit \/ Crash \/ Recover \/ StartUp
         \/ UNCHANGED vars
<1>1. CASE Submitting
  BY <1>1 DEF Submitting
<1>2. ASSUME NEW r \in Requests, Proceeding(r)
      PROVE  \/ Walking(r)
             \/ DeferInLine(r) \/ Admit(r) \/ DeferAdmitted(r)
             \/ Claim(r) \/ AnswerBound(r) \/ Requeue(r)
             \/ SettleDraft(r) \/ Record(r)
  BY <1>2 DEF Proceeding, Walking
<1>3. CASE Others
  BY <1>3 DEF Others
<1>4. CASE Lifecycle
  BY <1>4 DEF Lifecycle
<1> QED BY <1>1, <1>2, <1>3, <1>4 DEF Next

-----------------------------------------------------------------------------
LEMMA TypesStep == Types /\ [Next]_vars => Types'
<1> SUFFICES ASSUME Types, [Next]_vars PROVE Types'
  OBVIOUS
<1> USE RequestsAssumption DEF Types, Row, Statuses, Stages
<1>1. ASSUME NEW r \in Requests, SubmitCheck(r) PROVE Types'
  BY <1>1 DEF SubmitCheck, tables, memory
<1>2. ASSUME NEW bound \in BOOLEAN, NEW device \in BOOLEAN,
             SubmitInsert(bound, device)
      PROVE  Types'
  <2> DEFINE r == submission.of
  <2>1. r \in Requests /\ NewRow(bound, device) \in Row
    BY <1>2 DEF SubmitInsert, NewRow
  <2>2. row' = [row EXCEPT ![r] = NewRow(bound, device)]
        /\ turn' = turn
    BY <1>2 DEF SubmitInsert
  <2>3. row' \in [Requests -> Row]
    BY <2>1, <2>2
  <2>4. CASE maintenance = "open"
    <3>1. task' \in [Requests -> Stages]
      BY <1>2, <2>1, <2>4 DEF SubmitInsert, At
    <3>2. submission' = NoSubmission
      BY <1>2, <2>4 DEF SubmitInsert
    <3> QED BY <2>2, <2>3, <3>1, <3>2, NoSubmissionIs
  <2>5. CASE maintenance # "open"
    BY <1>2, <2>1, <2>2, <2>3, <2>5 DEF SubmitInsert
  <2> QED BY <2>4, <2>5
<1>3. CASE MarkFailed
  <2>1. PICK r \in Requests : r = submission.of
    BY <1>3 DEF MarkFailed
  <2>2. row' = [row EXCEPT ![r].status = "failed"]
        /\ UNCHANGED <<task, turn>> /\ submission' = NoSubmission
    BY <1>3, <2>1 DEF MarkFailed, SetStatus, memory
  <2>3. row' \in [Requests -> Row]
    BY <2>2
  <2> QED BY <2>2, <2>3, NoSubmissionIs
<1>4. ASSUME NEW r \in Requests, Walking(r) PROVE Types'
  <2>1. UNCHANGED <<row, turn, submission>>
    BY <1>4, WalkingMoves
  <2>2. PICK stage \in Stages : task' = [task EXCEPT ![r] = stage]
    BY <1>4, WalkingMoves
  <2> QED BY <2>1, <2>2
<1>5. ASSUME NEW r \in Requests,
             DeferInLine(r) \/ Admit(r) \/ DeferAdmitted(r)
      PROVE  Types'
  BY <1>5 DEF DeferInLine, Admit, DeferAdmitted, Over, At, tables
<1>6. ASSUME NEW r \in Requests, Claim(r) \/ AnswerBound(r) PROVE Types'
  BY <1>6 DEF Claim, AnswerBound, SetStatus, At
<1>7. ASSUME NEW r \in Requests, Requeue(r) \/ Record(r) PROVE Types'
  BY <1>7 DEF Requeue, Record, Result, Unsettled, Over, At
<1>8. ASSUME NEW r \in Requests,
             StreamDraft(r) \/ Cancel(r) \/ SettleDraft(r) \/ UNCHANGED vars
      PROVE  Types'
  BY <1>8, AsideChangesNothing
<1>9. ASSUME NEW r \in Requests, Retire(r) PROVE Types'
  BY <1>9 DEF Retire, Forgotten, memory
<1>10. CASE CloseQuestion \/ BeginMaintenance \/ LockData \/ EndMaintenance
            \/ BeginShutdown \/ UNCHANGED vars
  BY <1>10 DEF CloseQuestion, BeginMaintenance, LockData, EndMaintenance,
               BeginShutdown, tables, memory, vars
<1>11. CASE Purge
  BY <1>11 DEF Purge, Forgotten, memory
<1>12. CASE Exit \/ Crash
  BY <1>12 DEF Exit, Crash, Die, Idle, NoSubmission, tables
<1>13. CASE Recover
  <2>1. \A r \in Requests : Reconciled(r) \in Statuses
    BY DEF Reconciled
  <2> QED BY <1>13, <2>1 DEF Recover, memory
<1>14. CASE StartUp
  BY <1>14 DEF StartUp, tables
<1> QED BY NextCases, <1>1, <1>2, <1>3, <1>4, <1>5, <1>6, <1>7, <1>8, <1>9,
           <1>10, <1>11, <1>12, <1>13, <1>14

-----------------------------------------------------------------------------
LEMMA MemoryStep == IInv /\ [Next]_vars => Memory'
<1> SUFFICES ASSUME IInv, [Next]_vars PROVE Memory'
  OBVIOUS
<1>t. Types /\ Memory /\ Rows
  BY DEF IInv
<1>0. Types'
  BY <1>t, TypesStep
<1> USE RequestsAssumption DEF Types, Memory, PermitHasHolder, Claimed, Executing
<1>1. ASSUME NEW r \in Requests, SubmitCheck(r) PROVE Memory'
  BY <1>t, <1>1 DEF SubmitCheck, memory
<1>2. ASSUME NEW bound \in BOOLEAN, NEW device \in BOOLEAN,
             SubmitInsert(bound, device)
      PROVE  Memory'
  <2>1. PICK r \in Requests : r = submission.of
    BY <1>t, <1>2 DEF SubmitInsert
  <2>2. task[r] = "none"
    BY <1>t, <1>2, <2>1 DEF SubmitInsert, Rows
  <2>3. submission # NoSubmission
    BY <1>2, NoSubmissionIs DEF SubmitInsert
  <2>4. UNCHANGED <<turn, daemon, maintenance>>
    BY <1>2 DEF SubmitInsert
  <2>5. task' = task \/ task' = [task EXCEPT ![r] = "line"]
    BY <1>2, <2>1 DEF SubmitInsert, At
  <2> QED BY <1>t, <2>2, <2>3, <2>4, <2>5
<1>3. CASE MarkFailed
  <2>1. submission # NoSubmission /\ UNCHANGED <<turn, daemon, maintenance, task>>
    BY <1>3, NoSubmissionIs DEF MarkFailed, memory
  <2> QED BY <1>t, <2>1
<1>4. ASSUME NEW r \in Requests, Walking(r) PROVE Memory'
  <2>1. UNCHANGED <<daemon, turn, submission, maintenance>>
    BY <1>t, <1>4, WalkingMoves
  <2>2. PICK stage \in Stages : /\ <<task[r], stage>> \in Walks
                                /\ task' = [task EXCEPT ![r] = stage]
    BY <1>t, <1>4, WalkingMoves
  <2> QED BY <1>t, <2>1, <2>2 DEF Walks
<1>5. ASSUME NEW r \in Requests, DeferInLine(r) \/ DeferAdmitted(r) PROVE Memory'
  BY <1>t, <1>5 DEF DeferInLine, DeferAdmitted, Over, At
<1>6. ASSUME NEW r \in Requests, Admit(r) PROVE Memory'
  BY <1>t, <1>6 DEF Admit, FirstInLine, At
<1>7. ASSUME NEW r \in Requests, Claim(r) \/ AnswerBound(r) PROVE Memory'
  BY <1>t, <1>7 DEF Claim, AnswerBound, At
<1>8. ASSUME NEW r \in Requests, Requeue(r) \/ Record(r) PROVE Memory'
  BY <1>t, <1>8 DEF Requeue, Record, Over, At
<1>9. ASSUME NEW r \in Requests,
             StreamDraft(r) \/ Cancel(r) \/ SettleDraft(r) \/ UNCHANGED vars
      PROVE  Memory'
  BY <1>t, <1>9, AsideChangesNothing
<1>10. ASSUME NEW r \in Requests, Retire(r) PROVE Memory'
  BY <1>t, <1>10 DEF Retire, memory
<1>11. CASE CloseQuestion \/ BeginShutdown \/ UNCHANGED vars
  BY <1>t, <1>11 DEF CloseQuestion, BeginShutdown, memory, vars
<1>12. CASE BeginMaintenance \/ LockData \/ EndMaintenance \/ Purge
  BY <1>t, <1>12 DEF BeginMaintenance, LockData, EndMaintenance, Purge, Serving,
                     memory
<1>13. CASE Exit \/ Crash
  BY <1>13 DEF Exit, Crash, Die, Idle
<1>14. CASE Recover
  BY <1>t, <1>14 DEF Recover, memory
<1>15. CASE StartUp
  BY <1>t, <1>15 DEF StartUp
<1> QED BY NextCases, <1>1, <1>2, <1>3, <1>4, <1>5, <1>6, <1>7, <1>8, <1>9,
           <1>10, <1>11, <1>12, <1>13, <1>14, <1>15

-----------------------------------------------------------------------------
\* The stages in which the row of a task is running.
Later == Claimed \cup Executing \cup {"failing", "succeeding"}

LEMMA WalksOnward ==
  ASSUME NEW from, NEW to, <<from, to>> \in Walks
  PROVE  /\ from # "none" /\ to # "none"
         /\ from \in Later => to \in Later
BY DEF Walks, Later, Claimed, Executing

LEMMA RowsStep == IInv /\ [Next]_vars => Rows'
<1> SUFFICES ASSUME IInv, [Next]_vars PROVE Rows'
  OBVIOUS
<1>t. Types /\ Memory /\ Rows
  BY DEF IInv
<1> USE RequestsAssumption DEF Types, Row, Rows, AcceptedHasTask, Queued, Serving,
        Claimed, Executing
<1>1. ASSUME NEW r \in Requests, SubmitCheck(r) PROVE Rows'
  <2>1. UNCHANGED <<row, task, daemon>> /\ daemon = "up" /\ Fresh(r)
    BY <1>1 DEF SubmitCheck, tables, memory
  <2>2. submission.at = "idle"
    BY <1>1, NoSubmissionIs DEF SubmitCheck
  <2>3. submission'.of = r /\ submission'.at = "checked"
    BY <1>1 DEF SubmitCheck
  <2> QED BY <1>t, <2>1, <2>2, <2>3 DEF Fresh
<1>2. ASSUME NEW bound \in BOOLEAN, NEW device \in BOOLEAN,
             SubmitInsert(bound, device)
      PROVE  Rows'
  <2>1. PICK r \in Requests : r = submission.of
    BY <1>t, <1>2 DEF SubmitInsert
  <2>2. row[r].status = "absent" /\ task[r] = "none"
    BY <1>t, <1>2, <2>1 DEF SubmitInsert
  <2>3. PICK new \in Row : /\ new.status = "queued"
                           /\ row' = [row EXCEPT ![r] = new]
    BY <1>2, <2>1 DEF SubmitInsert, NewRow, Statuses
  <2>4. daemon' = daemon
    BY <1>2 DEF SubmitInsert
  <2>5. \/ /\ task' = [task EXCEPT ![r] = "line"]
           /\ submission'.at = "idle"
        \/ /\ task' = task
           /\ submission'.at = "refused" /\ submission'.of = r
    BY <1>t, <1>2, <2>1, NoSubmissionIs DEF SubmitInsert, At
  <2>6. submission.at = "checked"
    BY <1>2 DEF SubmitInsert
  <2> QED BY <1>t, <2>1, <2>2, <2>3, <2>4, <2>5, <2>6
<1>3. CASE MarkFailed
  <2>1. PICK r \in Requests : r = submission.of
    BY <1>t, <1>3 DEF MarkFailed
  <2>2. /\ row' = [row EXCEPT ![r].status = "failed"]
        /\ submission'.at = "idle"
        /\ UNCHANGED <<task, daemon>>
    BY <1>3, <2>1, NoSubmissionIs DEF MarkFailed, SetStatus, memory
  <2> QED BY <1>t, <2>1, <2>2
<1>4. ASSUME NEW r \in Requests, Walking(r) PROVE Rows'
  <2>1. UNCHANGED <<row, daemon, submission>>
    BY <1>t, <1>4, WalkingMoves
  <2>2. PICK stage \in Stages : /\ <<task[r], stage>> \in Walks
                                /\ task' = [task EXCEPT ![r] = stage]
                                /\ stage = "requeueing" => daemon = "stopping"
    BY <1>t, <1>4, WalkingMoves
  <2>3. /\ task[r] # "none" /\ stage # "none"
        /\ task[r] \in Later => stage \in Later
    BY <2>2, WalksOnward
  <2>4. task'[r] = stage /\ \A q \in Requests \ {r} : task'[q] = task[q]
    BY <1>t, <2>2
  <2>5. \A q \in Requests : /\ task'[q] = "none" <=> task[q] = "none"
                            /\ task[q] \in Later => task'[q] \in Later
                            /\ task'[q] = "requeueing" => daemon = "stopping"
    BY <1>t, <2>2, <2>3, <2>4
  <2> QED BY <1>t, <2>1, <2>5 DEF Later
<1>5. ASSUME NEW r \in Requests, DeferInLine(r) \/ DeferAdmitted(r) PROVE Rows'
  BY <1>t, <1>5 DEF DeferInLine, DeferAdmitted, Over, At, tables
<1>6. ASSUME NEW r \in Requests, Admit(r) PROVE Rows'
  BY <1>t, <1>6 DEF Admit, At, tables
<1>7. ASSUME NEW r \in Requests, Claim(r) PROVE Rows'
  BY <1>t, <1>7 DEF Claim, At, SetStatus, Memory
<1>8. ASSUME NEW r \in Requests, AnswerBound(r) PROVE Rows'
  BY <1>t, <1>8 DEF AnswerBound, At
<1>9. ASSUME NEW r \in Requests, Requeue(r) PROVE Rows'
  BY <1>t, <1>9 DEF Requeue, Over, At
<1>10. ASSUME NEW r \in Requests, Record(r) PROVE Rows'
  BY <1>t, <1>10 DEF Record, Result, Unsettled, Over, At
<1>11. ASSUME NEW r \in Requests,
              StreamDraft(r) \/ Cancel(r) \/ SettleDraft(r) \/ UNCHANGED vars
       PROVE  Rows'
  BY <1>t, <1>11, AsideChangesNothing
<1>12. ASSUME NEW r \in Requests, Retire(r) PROVE Rows'
  BY <1>t, <1>12 DEF Retire, Forgotten, memory
<1>13. CASE \/ CloseQuestion \/ BeginMaintenance \/ LockData \/ EndMaintenance
            \/ BeginShutdown \/ UNCHANGED vars
  BY <1>t, <1>13 DEF CloseQuestion, BeginMaintenance, LockData, EndMaintenance,
                     BeginShutdown, tables, memory, vars
<1>14. CASE Purge
  BY <1>t, <1>14 DEF Purge, Forgotten, memory
<1>15. CASE Exit \/ Crash
  BY <1>t, <1>15, NoSubmissionIs DEF Exit, Crash, Die, Idle, tables
<1>16. CASE Recover
  <2>1. \A r \in Requests : /\ Reconciled(r) # "running"
                            /\ Reconciled(r) = "absent" <=> row[r].status = "absent"
    BY DEF Reconciled
  <2>2. \A r \in Requests : row'[r].status = Reconciled(r)
    BY <1>t, <1>16 DEF Recover
  <2> QED BY <1>t, <1>16, <2>1, <2>2 DEF Recover, memory
<1>17. CASE StartUp
  BY <1>t, <1>17 DEF StartUp, Memory, tables
<1> QED BY NextCases, <1>1, <1>2, <1>3, <1>4, <1>5, <1>6, <1>7, <1>8, <1>9,
           <1>10, <1>11, <1>12, <1>13, <1>14, <1>15, <1>16, <1>17

-----------------------------------------------------------------------------
LEMMA AnswersStep == IInv /\ [Next]_vars => Answers'
<1> SUFFICES ASSUME IInv, [Next]_vars PROVE Answers'
  OBVIOUS
<1>t. Types /\ Memory /\ Rows /\ Answers
  BY DEF IInv
<1> USE RequestsAssumption DEF Types, Row, Answers, Executing
<1>1. ASSUME NEW r \in Requests, SubmitCheck(r) PROVE Answers'
  BY <1>t, <1>1 DEF SubmitCheck, tables, memory
<1>2. ASSUME NEW bound \in BOOLEAN, NEW device \in BOOLEAN,
             SubmitInsert(bound, device)
      PROVE  Answers'
  <2>1. PICK r \in Requests : r = submission.of
    BY <1>t, <1>2 DEF SubmitInsert
  <2>2. task[r] = "none"
    BY <1>t, <1>2, <2>1 DEF SubmitInsert, Rows
  <2>3. \A q \in Requests \ {r} : row'[q] = row[q]
    BY <1>t, <1>2, <2>1 DEF SubmitInsert
  <2>4. task' = task \/ task' = [task EXCEPT ![r] = "line"]
    BY <1>2, <2>1 DEF SubmitInsert, At
  <2>5. question' = question
    BY <1>2 DEF SubmitInsert
  <2> QED BY <1>t, <2>2, <2>3, <2>4, <2>5
<1>3. CASE MarkFailed
  <2>1. PICK r \in Requests : r = submission.of
    BY <1>t, <1>3 DEF MarkFailed
  <2> QED BY <1>t, <1>3, <2>1 DEF MarkFailed, SetStatus, memory
<1>4. ASSUME NEW r \in Requests, Walking(r) PROVE Answers'
  <2>1. UNCHANGED <<row, question>>
    BY <1>t, <1>4, WalkingMoves
  <2>2. PICK stage \in Stages : <<task[r], stage>> \in Walks
                               /\ task' = [task EXCEPT ![r] = stage]
    BY <1>t, <1>4, WalkingMoves
  <2> QED BY <1>t, <2>1, <2>2 DEF Walks
<1>5. ASSUME NEW r \in Requests,
             DeferInLine(r) \/ Admit(r) \/ DeferAdmitted(r)
      PROVE  Answers'
  BY <1>t, <1>5 DEF DeferInLine, Admit, DeferAdmitted, Over, At, tables
<1>6. ASSUME NEW r \in Requests, Claim(r) PROVE Answers'
  BY <1>t, <1>6 DEF Claim, At, SetStatus
<1>7. ASSUME NEW r \in Requests, AnswerBound(r) PROVE Answers'
  BY <1>t, <1>7 DEF AnswerBound, AnswerAccepted, At
<1>8. ASSUME NEW r \in Requests, Requeue(r) \/ Record(r) PROVE Answers'
  BY <1>t, <1>8 DEF Requeue, Record, Over, At
<1>9. ASSUME NEW r \in Requests,
             StreamDraft(r) \/ Cancel(r) \/ SettleDraft(r) \/ UNCHANGED vars
      PROVE  Answers'
  BY <1>t, <1>9, AsideChangesNothing
<1>10. ASSUME NEW r \in Requests, Retire(r) PROVE Answers'
  BY <1>t, <1>10 DEF Retire, Forgotten, memory
<1>11. CASE CloseQuestion
  BY <1>t, <1>11 DEF CloseQuestion, memory
<1>12. CASE BeginMaintenance \/ LockData \/ EndMaintenance \/ BeginShutdown
            \/ UNCHANGED vars
  BY <1>t, <1>12 DEF BeginMaintenance, LockData, EndMaintenance, BeginShutdown,
                     tables, memory, vars
<1>13. CASE Purge
  \* The maintenance is alone: nobody is at work whose question could go.
  <2>1. \A r \in Requests : task[r] \notin Executing \cup {"answered"}
    BY <1>t, <1>13 DEF Purge, Memory, PermitHasHolder, Claimed
  <2> QED BY <1>13, <2>1 DEF Purge, memory
<1>14. CASE Exit \/ Crash
  BY <1>14 DEF Exit, Crash, Die, Idle
<1>15. CASE Recover
  BY <1>t, <1>15 DEF Recover, memory
<1>16. CASE StartUp
  BY <1>t, <1>16 DEF StartUp, tables
<1> QED BY NextCases, <1>1, <1>2, <1>3, <1>4, <1>5, <1>6, <1>7, <1>8, <1>9,
           <1>10, <1>11, <1>12, <1>13, <1>14, <1>15, <1>16

-----------------------------------------------------------------------------
\* Every reachable state keeps the invariant that the code of a task, of
\* shutdown and of recovery maintains together.
THEOREM Invariance == Spec => []IInv
<1>1. IInv /\ [Next]_vars => IInv'
  BY TypesStep, MemoryStep, RowsStep, AnswersStep DEF IInv
<1> QED BY InitIInv, <1>1, PTL DEF Spec

\* Messages of a channel are executed one at a time: the permit has one holder
\* from the admission until its result is recorded, also when it is cancelled,
\* stopped or put back.
THEOREM PermitIsHeld == Spec => []PermitHasHolder
<1>1. IInv => PermitHasHolder
  BY DEF IInv, Memory
<1> QED BY Invariance, <1>1, PTL

\* A message that was accepted has a task in a serving daemon, across every
\* order of shutdown, requeue, crash and recovery: it is never left waiting for
\* nobody.
THEOREM AcceptedIsInHand == Spec => []AcceptedHasTask
<1>1. IInv => AcceptedHasTask
  BY DEF IInv, Rows
<1> QED BY Invariance, <1>1, PTL

\* A message bound to a question is executed only as its answer, whoever else
\* answers or closes the question while the message is in line or put back.
THEOREM BoundRunAnswers == Spec => []BoundRunOwnsAnswer
<1>1. IInv => BoundRunOwnsAnswer
  BY DEF IInv, Answers, BoundRunOwnsAnswer
<1> QED BY Invariance, <1>1, PTL

-----------------------------------------------------------------------------
\* A step refuses an answer only if the question is not already answered by the
\* same message.
LEMMA RefusalIsForOthers ==
  ASSUME Types, [Next]_vars, NEW q \in Requests,
         task[q] = "answering", task'[q] = "failing"
  PROVE  question # q
<1> USE RequestsAssumption DEF Types
<1>1. ASSUME NEW r \in Requests, Walking(r) PROVE question # q
  <2>1. PICK stage \in Stages : <<task[r], stage>> \in Walks
                               /\ task' = [task EXCEPT ![r] = stage]
    BY <1>1, WalkingMoves
  <2> QED BY <2>1 DEF Walks
<1>2. ASSUME NEW r \in Requests, AnswerBound(r) PROVE question # q
  BY <1>2 DEF AnswerBound, AnswerAccepted, At
<1>3. ASSUME NEW r \in Requests,
             \/ DeferInLine(r) \/ Admit(r) \/ DeferAdmitted(r) \/ Claim(r)
             \/ Requeue(r) \/ Record(r)
      PROVE  question # q
  BY <1>3 DEF DeferInLine, Admit, DeferAdmitted, Claim, Requeue, Record, Over, At
<1>4. ASSUME NEW r \in Requests,
             StreamDraft(r) \/ Cancel(r) \/ SettleDraft(r) \/ UNCHANGED vars
      PROVE  question # q
  BY <1>4, AsideChangesNothing
<1>5. ASSUME NEW r \in Requests, SubmitCheck(r) \/ Retire(r) PROVE question # q
  BY <1>5 DEF SubmitCheck, Retire, memory
<1>6. ASSUME NEW bound \in BOOLEAN, NEW device \in BOOLEAN,
             SubmitInsert(bound, device)
      PROVE  question # q
  BY <1>6 DEF SubmitInsert, At
<1>7. CASE \/ MarkFailed \/ CloseQuestion \/ BeginMaintenance \/ LockData
           \/ EndMaintenance \/ Purge \/ BeginShutdown \/ Recover
           \/ UNCHANGED vars
  BY <1>7 DEF MarkFailed, CloseQuestion, BeginMaintenance, LockData,
              EndMaintenance, Purge, BeginShutdown, Recover, memory, vars
<1>8. CASE Exit \/ Crash \/ StartUp
  BY <1>8 DEF Exit, Crash, StartUp, Die, Idle
<1> QED BY NextCases, <1>1, <1>2, <1>3, <1>4, <1>5, <1>6, <1>7, <1>8

\* A message that answered its question and was put back by a shutdown is not
\* refused for its own answer when it comes again.
THEOREM RequeuedAnswers == Spec => RequeuedAnswerIsAccepted
<1>1. Types /\ [Next]_vars =>
        [\A r \in Requests : /\ task[r] = "answering" /\ task'[r] = "failing"
                             => question # r]_vars
  BY RefusalIsForOthers
<1>2. IInv => Types
  BY DEF IInv
<1> QED BY Invariance, <1>1, <1>2, PTL DEF Spec, RequeuedAnswerIsAccepted

-----------------------------------------------------------------------------
(* What a reply and its draft say of the row and the task.                 *)

Promised ==
  /\ reply \in [Requests -> {"none", "partial", "complete"}]
  /\ drafts \subseteq Requests
  /\ daemon \in {"off", "starting", "up", "stopping"}
  /\ maintenance = "locked" => submission.at = "idle"
  /\ \A r \in Requests :
       /\ submission.at = "refused" /\ submission.of = r =>
            row[r].status = "queued" /\ task[r] = "none"
       /\ task[r] \in Claimed \cup Executing \cup {"succeeding"} => row[r].status = "running"
       /\ Serving /\ row[r].status = "running" => turn = r
       /\ r \in drafts => task[r] \in {"working", "failing"} /\ row[r].status = "running"
       /\ reply[r] # "none" =>
            /\ row[r].status \notin {"absent", "queued"}
            /\ task[r] \notin Claimed \cup {"working", "writing"}
            /\ r \notin drafts

\* A step that leaves rows, replies and drafts and moves a task onward.
LEMMA WalkKeepsPromised ==
  ASSUME IInv, Promised, NEW r \in Requests, Walking(r),
         UNCHANGED <<reply, drafts>>
  PROVE  Promised'
<1>1. Types
  BY DEF IInv
<1>2. UNCHANGED <<row, daemon, turn, submission, maintenance>>
  BY <1>1, WalkingMoves
<1>3. PICK stage \in Stages : /\ <<task[r], stage>> \in Walks
                              /\ task' = [task EXCEPT ![r] = stage]
  BY <1>1, WalkingMoves
<1>4. task'[r] = stage /\ \A q \in Requests \ {r} : task'[q] = task[q]
  BY <1>1, <1>3 DEF Types
<1>5. /\ task[r] # "none"
      /\ stage \in Claimed \cup Executing \cup {"succeeding"} =>
           task[r] \in Claimed \cup Executing
      /\ stage \in Claimed \cup {"working"} => task[r] \in Claimed
      /\ stage = "writing" => task[r] = "working"
      /\ task[r] # "failing"
  BY <1>3 DEF Walks, Claimed, Executing
<1>6. r \in drafts /\ task[r] = "working" => task'[r] = "failing"
  <2>1. SUFFICES ASSUME r \in drafts, task[r] = "working" PROVE task'[r] = "failing"
    OBVIOUS
  <2>2. ~TakeDraft(r)
    BY <2>1 DEF TakeDraft
  <2>3. CASE Abort(r)
    BY <1>1, <2>3 DEF Abort, At, Types
  <2>4. ASSUME NEW success \in BOOLEAN, EndWithoutReply(r, success)
        PROVE  task'[r] = "failing"
    BY <1>1, <2>1, <2>4 DEF EndWithoutReply, At, Types
  <2>5. ASSUME NEW success \in BOOLEAN, StoreReply(r, success) PROVE FALSE
    BY <2>1, <2>5 DEF StoreReply
  <2>6. ~(LeaveLine(r) \/ PassToken(r) \/ BeginClaim(r) \/ CheckClaimed(r)
          \/ CheckAnswered(r) \/ Return(r))
    BY <2>1 DEF LeaveLine, PassToken, BeginClaim, CheckClaimed, CheckAnswered, Return
  <2> QED BY <2>2, <2>3, <2>4, <2>5, <2>6 DEF Walking
<1>7. r \in drafts => task[r] = "working"
  BY <1>5 DEF Promised
<1>8. \A q \in Requests :
        /\ task'[q] \in Claimed \cup Executing \cup {"succeeding"} =>
             task[q] \in Claimed \cup Executing \cup {"succeeding"}
        /\ q \in drafts => task'[q] \in {"working", "failing"}
        /\ task'[q] \in Claimed \cup {"working", "writing"} =>
             task[q] \in Claimed \cup {"working", "writing"}
        /\ task[q] = "none" => task'[q] = "none"
  BY <1>4, <1>5, <1>6, <1>7 DEF Promised
<1> QED BY <1>2, <1>8 DEF Promised, Serving

LEMMA InitPromised == Init => Promised
<1> SUFFICES ASSUME Init PROVE Promised
  OBVIOUS
<1>1. submission.at = "idle"
  BY NoSubmissionIs DEF Init
<1> QED BY <1>1 DEF Init, Promised, NoRow, Idle, Claimed, Executing, Serving

LEMMA PromisedStep == IInv /\ Promised /\ [Next]_vars => Promised'
<1> SUFFICES ASSUME IInv, Promised, [Next]_vars PROVE Promised'
  OBVIOUS
<1>t. Types /\ Memory /\ Rows
  BY DEF IInv
<1> USE RequestsAssumption DEF Types, Row, Promised, Serving, Claimed, Executing
<1>1. ASSUME NEW r \in Requests, SubmitCheck(r) PROVE Promised'
  BY <1>t, <1>1 DEF SubmitCheck, tables, memory
<1>2. ASSUME NEW bound \in BOOLEAN, NEW device \in BOOLEAN,
             SubmitInsert(bound, device)
      PROVE  Promised'
  <2>1. PICK r \in Requests : r = submission.of
    BY <1>t, <1>2 DEF SubmitInsert
  <2>2. task[r] = "none" /\ row[r].status = "absent" /\ reply[r] = "none" /\ r \notin drafts
    BY <1>t, <1>2, <2>1 DEF SubmitInsert, Rows
  <2>3. /\ row'[r].status = "queued" /\ \A q \in Requests \ {r} : row'[q] = row[q]
        /\ UNCHANGED <<reply, drafts, daemon, turn, maintenance>>
    BY <1>t, <1>2, <2>1 DEF SubmitInsert, NewRow
  <2>4. maintenance # "locked"
    BY <1>2 DEF SubmitInsert
  <2>5. \/ task' = [task EXCEPT ![r] = "line"] /\ submission'.at = "idle"
        \/ /\ task' = task
           /\ submission'.at = "refused" /\ submission'.of = r
    BY <1>t, <1>2, <2>1, NoSubmissionIs DEF SubmitInsert, At
  <2> QED BY <1>t, <2>2, <2>3, <2>4, <2>5
<1>3. CASE MarkFailed
  <2>1. PICK r \in Requests : r = submission.of
    BY <1>t, <1>3 DEF MarkFailed
  <2>2. row[r].status = "queued" /\ task[r] = "none"
    BY <1>3, <2>1 DEF MarkFailed
  <2>3. /\ row' = [row EXCEPT ![r].status = "failed"]
        /\ submission'.at = "idle"
        /\ UNCHANGED <<reply, task, drafts, turn, daemon, maintenance>>
    BY <1>3, <2>1, NoSubmissionIs DEF MarkFailed, SetStatus, memory
  <2> QED BY <1>t, <2>2, <2>3
<1>4. ASSUME NEW r \in Requests, Walking(r) PROVE Promised'
  <2>1. CASE UNCHANGED <<reply, drafts>>
    BY <1>4, <2>1, WalkKeepsPromised
  <2>2. CASE TakeDraft(r)
    BY <1>t, <2>2 DEF TakeDraft, At, tables
  <2>3. ASSUME NEW complete \in BOOLEAN, StoreReply(r, complete) PROVE Promised'
    BY <1>t, <2>3 DEF StoreReply, At
  <2>4. \/ UNCHANGED <<reply, drafts>> \/ TakeDraft(r)
        \/ \E complete \in BOOLEAN : StoreReply(r, complete)
    BY <1>4 DEF Walking, LeaveLine, PassToken, BeginClaim, CheckClaimed, CheckAnswered,
                Return, Abort, EndWithoutReply, tables
  <2> QED BY <2>1, <2>2, <2>3, <2>4
<1>5. ASSUME NEW r \in Requests, DeferInLine(r) \/ DeferAdmitted(r) PROVE Promised'
  BY <1>t, <1>5 DEF DeferInLine, DeferAdmitted, Over, At, tables, Memory, PermitHasHolder,
     AcceptedHasTask, Rows
<1>6. ASSUME NEW r \in Requests, Admit(r) PROVE Promised'
  <2>1. /\ task[r] = "polled" /\ task'[r] \in {"admitted", "line"}
        /\ \A q \in Requests \ {r} : task'[q] = task[q]
        /\ turn' = turn \/ (turn' = r /\ turn = Nobody)
        /\ UNCHANGED <<row, reply, daemon, drafts, submission, maintenance>>
    BY <1>t, <1>6 DEF Admit, FirstInLine, At, tables
  <2> QED BY <1>t, <2>1 DEF Rows, AcceptedHasTask
<1>7. ASSUME NEW r \in Requests, Claim(r) PROVE Promised'
  <2>1. turn = r /\ task[r] = "claiming"
    BY <1>t, <1>7 DEF Claim, Memory, PermitHasHolder
  <2> QED BY <1>t, <1>7, <2>1 DEF Claim, At, SetStatus
<1>8. ASSUME NEW r \in Requests, AnswerBound(r) PROVE Promised'
  BY <1>t, <1>8 DEF AnswerBound, At
<1>9. ASSUME NEW r \in Requests, Requeue(r) PROVE Promised'
  BY <1>t, <1>9 DEF Requeue, Over, At
<1>10. ASSUME NEW r \in Requests, Record(r) PROVE Promised'
  BY <1>t, <1>10 DEF Record, Result, Unsettled, Over, At
<1>11. ASSUME NEW r \in Requests, StreamDraft(r) PROVE Promised'
  BY <1>t, <1>11 DEF StreamDraft, tables
<1>12. ASSUME NEW r \in Requests, SettleDraft(r) PROVE Promised'
  BY <1>t, <1>12 DEF SettleDraft
<1>13. ASSUME NEW r \in Requests, Cancel(r) PROVE Promised'
  BY <1>13 DEF Cancel, tables
<1>14. ASSUME NEW r \in Requests, Retire(r) PROVE Promised'
  BY <1>t, <1>14 DEF Retire, Forgotten, memory
<1>15. CASE CloseQuestion \/ BeginShutdown \/ UNCHANGED vars
  BY <1>15 DEF CloseQuestion, BeginShutdown, tables, memory, vars
<1>16. CASE BeginMaintenance \/ LockData \/ EndMaintenance
  BY <1>16, NoSubmissionIs DEF BeginMaintenance, LockData, EndMaintenance, tables, memory
<1>17. CASE Purge
  <2>1. /\ turn = Nobody /\ Serving /\ submission.at = "idle"
        /\ \A r \in Requests : row[r].status # "running"
    <3>1. maintenance = "locked"
      BY <1>17 DEF Purge
    <3>2. turn = Nobody /\ daemon \notin {"off", "starting"}
      BY <1>t, <3>1 DEF Memory
    <3>3. Serving
      BY <3>2
    <3> QED BY <3>1, <3>2, <3>3
  <2> QED BY <1>t, <1>17, <2>1 DEF Purge, Forgotten, memory
<1>18. CASE Exit \/ Crash
  BY <1>18, NoSubmissionIs DEF Exit, Crash, Die, Idle, tables
<1>19. CASE Recover
  <2>1. \A r \in Requests : /\ Reconciled(r) # "running"
                            /\ Reconciled(r) \in {"absent", "queued"} =>
                                 row[r].status \in {"absent", "queued"}
    BY DEF Reconciled
  <2>2. \A r \in Requests : row'[r].status = Reconciled(r) /\ task[r] = "none"
    BY <1>t, <1>19 DEF Recover, Memory
  <2>3. /\ UNCHANGED <<reply, task, drafts, turn, submission, maintenance>>
        /\ submission.at = "idle"
    BY <1>t, <1>19, NoSubmissionIs DEF Recover, Memory, memory
  <2>4. daemon' = "starting"
    BY <1>19 DEF Recover
  <2> QED BY <2>1, <2>2, <2>3, <2>4
<1>20. CASE StartUp
  BY <1>t, <1>20, NoSubmissionIs DEF StartUp, Memory, Rows, tables, Queued
<1> QED BY NextCases, <1>1, <1>2, <1>3, <1>4, <1>5, <1>6, <1>7, <1>8, <1>9, <1>10, <1>11,
           <1>12, <1>13, <1>14, <1>15, <1>16, <1>17, <1>18, <1>19, <1>20

LEMMA PromisedAlways == Spec => [](IInv /\ Promised)
BY InitPromised, PromisedStep, Invariance, PTL DEF Spec

-----------------------------------------------------------------------------
(* The refinement of MessageContract.                                      *)

\* The phase of a message, from the status of its row and the stage of its task.
PhaseAt(status, stage) ==
  CASE status = "absent" -> "none"
    [] status = "tombstone" -> "forgotten"
    [] status = "queued" -> "accepted"
    [] status = "running" ->
         IF stage \in Executing THEN "executing"
         ELSE IF stage \in Claimed THEN "accepted" ELSE "stopped"
    [] OTHER -> status

LEMMA PhaseFacts ==
  /\ \A stage : /\ PhaseAt("absent", stage) = "none"
                /\ PhaseAt("tombstone", stage) = "forgotten"
                /\ PhaseAt("queued", stage) = "accepted"
                /\ PhaseAt("completed", stage) = "completed"
                /\ PhaseAt("failed", stage) = "failed"
                /\ PhaseAt("running", stage) =
                     IF stage \in Executing THEN "executing"
                     ELSE IF stage \in Claimed THEN "accepted" ELSE "stopped"
  /\ \A r : PhaseOf(r) = PhaseAt(row[r].status, task[r])
  /\ \A r : PhaseOf(r)' = PhaseAt(row'[r].status, task'[r])
BY DEF PhaseAt, PhaseOf

\* Which changes of a row and its task are moves of the contract.
Moved(r) == \/ PhaseOf(r)' = PhaseOf(r)
            \/ <<PhaseOf(r), PhaseOf(r)'>> \in Promise!Moves

LEMMA StatusMoves ==
  ASSUME NEW r, row[r].status \in Statuses,
         \/ row'[r].status = row[r].status /\ row[r].status # "running"
         \/ row'[r].status = row[r].status /\ task'[r] = task[r]
         \/ row[r].status = "absent" /\ row'[r].status = "queued"
         \/ row[r].status = "queued" /\ row'[r].status \in {"failed", "tombstone"}
         \/ row[r].status \in {"completed", "failed"} /\ row'[r].status = "tombstone"
         \/ /\ row[r].status = "running" /\ task[r] \notin Claimed \cup Executing
            /\ row'[r].status \in {"completed", "failed"}
         \/ /\ row[r].status = "queued" /\ row'[r].status = "running"
            /\ task'[r] \in Claimed
         \/ /\ row[r].status = "running" /\ task[r] \in Claimed
            /\ row'[r].status = "queued"
  PROVE  Moved(r)
BY PhaseFacts DEF Moved, Promise!Moves, Statuses, Claimed, Executing

LEMMA TaskMoves ==
  ASSUME NEW r, row[r].status = "running", row'[r].status = "running",
         \/ task[r] \in Claimed /\ task'[r] \in Claimed
         \/ task[r] \in Claimed /\ task'[r] \notin Claimed \cup Executing
         \/ task[r] = "answered" /\ task'[r] = "working"
         \/ task[r] \in Executing /\ task'[r] \in Executing
         \/ task[r] \in Executing /\ task'[r] \notin Claimed \cup Executing
         \/ task[r] \notin Claimed \cup Executing /\ task'[r] \notin Claimed \cup Executing
  PROVE  Moved(r)
BY PhaseFacts DEF Moved, Promise!Moves, Claimed, Executing

\* A step that moves one task and no row.
LEMMA OneTaskMoves ==
  ASSUME Types, NEW r \in Requests, row' = row,
         \A q \in Requests \ {r} : task'[q] = task[q],
         \/ row[r].status # "running"
         \/ <<task[r], task'[r]>> \in Walks
         \/ <<task[r], task'[r]>> \in {<<"polled", "line">>, <<"polled", "none">>,
               <<"polled", "admitted">>, <<"admitted", "none">>, <<"claiming", "failing">>,
               <<"answering", "answered">>, <<"answering", "failing">>}
  PROVE  \A q \in Requests : Moved(q)
<1>1. \A q \in Requests : row[q].status \in Statuses
  BY DEF Types, Row
<1>2. \A q \in Requests \ {r} : Moved(q)
  BY <1>1, StatusMoves
<1>3. CASE row[r].status # "running"
  BY <1>1, <1>2, <1>3, StatusMoves
<1>4. CASE row[r].status = "running"
  <2>1. Moved(r)
    BY <1>4, TaskMoves DEF Walks, Claimed, Executing
  <2> QED BY <1>2, <2>1
<1> QED BY <1>3, <1>4

\* A step that changes one row and no other task.
LEMMA OneRowMoves ==
  ASSUME Types, NEW r \in Requests, Moved(r),
         \A q \in Requests \ {r} : row'[q] = row[q] /\ task'[q] = task[q]
  PROVE  \A q \in Requests : Moved(q)
<1>1. \A q \in Requests : row[q].status \in Statuses
  BY DEF Types, Row
<1> QED BY <1>1, StatusMoves

LEMMA PhasesMove ==
  ASSUME IInv, Promised, [Next]_vars
  PROVE  \A q \in Requests : Moved(q)
<1>t. Types /\ Memory /\ Rows
  BY DEF IInv
<1>s. \A q \in Requests : row[q].status \in Statuses
  BY <1>t DEF Types, Row
<1> USE RequestsAssumption DEF Types, Row
<1>1. ASSUME NEW r \in Requests, SubmitCheck(r) PROVE \A q \in Requests : Moved(q)
  BY <1>s, <1>1, StatusMoves DEF SubmitCheck, tables, memory
<1>2. ASSUME NEW bound \in BOOLEAN, NEW device \in BOOLEAN,
             SubmitInsert(bound, device)
      PROVE  \A q \in Requests : Moved(q)
  <2>1. PICK r \in Requests : r = submission.of
    BY <1>t, <1>2 DEF SubmitInsert
  <2>2. row[r].status = "absent" /\ row'[r].status = "queued"
    BY <1>t, <1>2, <2>1 DEF SubmitInsert, Rows, NewRow
  <2>3. \A q \in Requests \ {r} : row'[q] = row[q] /\ task'[q] = task[q]
    BY <1>t, <1>2, <2>1 DEF SubmitInsert, At
  <2>4. Moved(r)
    BY <1>s, <2>2, StatusMoves
  <2> QED BY <1>t, <2>3, <2>4, OneRowMoves
<1>3. CASE MarkFailed
  <2>1. PICK r \in Requests : r = submission.of
    BY <1>t, <1>3 DEF MarkFailed
  <2>2. row[r].status = "queued" /\ row'[r].status = "failed"
    BY <1>t, <1>3, <2>1 DEF MarkFailed, SetStatus, Promised
  <2>3. \A q \in Requests \ {r} : row'[q] = row[q] /\ task'[q] = task[q]
    BY <1>t, <1>3, <2>1 DEF MarkFailed, SetStatus, memory
  <2>4. Moved(r)
    BY <1>s, <2>2, StatusMoves
  <2> QED BY <1>t, <2>3, <2>4, OneRowMoves
<1>4. ASSUME NEW r \in Requests, Walking(r) PROVE \A q \in Requests : Moved(q)
  <2>1. row' = row
    BY <1>t, <1>4, WalkingMoves
  <2>2. PICK stage \in Stages : /\ <<task[r], stage>> \in Walks
                               /\ task' = [task EXCEPT ![r] = stage]
    BY <1>t, <1>4, WalkingMoves
  <2>3. task'[r] = stage /\ \A q \in Requests \ {r} : task'[q] = task[q]
    BY <1>t, <2>2
  <2> QED BY <1>t, <2>1, <2>2, <2>3, OneTaskMoves
<1>5. ASSUME NEW r \in Requests, DeferInLine(r) \/ Admit(r) \/ DeferAdmitted(r)
      PROVE  \A q \in Requests : Moved(q)
  <2>1. /\ row' = row /\ \A q \in Requests \ {r} : task'[q] = task[q]
        /\ <<task[r], task'[r]>> \in {<<"polled", "line">>, <<"polled", "none">>,
              <<"polled", "admitted">>, <<"admitted", "none">>}
    BY <1>t, <1>5 DEF DeferInLine, Admit, DeferAdmitted, Over, At, tables
  <2> QED BY <1>t, <2>1, OneTaskMoves
<1>6. ASSUME NEW r \in Requests, Claim(r) PROVE \A q \in Requests : Moved(q)
  <2>1. CASE row[r].status = "queued"
    <3>1. /\ row'[r].status = "running" /\ task'[r] \in Claimed
          /\ \A q \in Requests \ {r} : row'[q] = row[q] /\ task'[q] = task[q]
      BY <1>t, <1>6, <2>1 DEF Claim, SetStatus, At, Claimed
    <3>2. Moved(r)
      BY <1>s, <2>1, <3>1, StatusMoves
    <3> QED BY <1>t, <3>1, <3>2, OneRowMoves
  <2>2. CASE row[r].status # "queued"
    <3>1. /\ row' = row /\ \A q \in Requests \ {r} : task'[q] = task[q]
          /\ <<task[r], task'[r]>> = <<"claiming", "failing">>
      BY <1>t, <1>6, <2>2 DEF Claim, At
    <3> QED BY <1>t, <3>1, OneTaskMoves
  <2> QED BY <2>1, <2>2
<1>7. ASSUME NEW r \in Requests, AnswerBound(r) PROVE \A q \in Requests : Moved(q)
  <2>1. /\ row' = row /\ \A q \in Requests \ {r} : task'[q] = task[q]
        /\ <<task[r], task'[r]>> \in {<<"answering", "answered">>, <<"answering", "failing">>}
    BY <1>t, <1>7 DEF AnswerBound, At
  <2> QED BY <1>t, <2>1, OneTaskMoves
<1>8. ASSUME NEW r \in Requests, Requeue(r) PROVE \A q \in Requests : Moved(q)
  <2>1. /\ task[r] = "requeueing" /\ task[r] \in Claimed /\ row[r].status = "running"
        /\ row'[r].status = "queued"
        /\ \A q \in Requests \ {r} : row'[q] = row[q] /\ task'[q] = task[q]
    BY <1>t, <1>8 DEF Requeue, Over, At, Promised, Claimed
  <2>2. Moved(r)
    BY <1>s, <2>1, StatusMoves
  <2> QED BY <1>t, <2>1, <2>2, OneRowMoves
<1>9. ASSUME NEW r \in Requests, Record(r) PROVE \A q \in Requests : Moved(q)
  <2>1. /\ task[r] \notin Claimed \cup Executing
        /\ row[r].status = "queued" => row'[r].status = "failed"
        /\ row[r].status = "running" => row'[r].status \in {"completed", "failed"}
        /\ row[r].status \notin {"queued", "running"} => row'[r].status = row[r].status
        /\ \A q \in Requests \ {r} : row'[q] = row[q] /\ task'[q] = task[q]
    BY <1>t, <1>9 DEF Record, Result, Unsettled, Over, At, Promised, Claimed, Executing
  <2>2. Moved(r)
    BY <1>s, <2>1, StatusMoves
  <2> QED BY <1>t, <2>1, <2>2, OneRowMoves
<1>10. ASSUME NEW r \in Requests, Retire(r) PROVE \A q \in Requests : Moved(q)
  <2>1. /\ row[r].status \in {"completed", "failed"} /\ row'[r].status = "tombstone"
        /\ \A q \in Requests \ {r} : row'[q] = row[q] /\ task'[q] = task[q]
    BY <1>t, <1>10 DEF Retire, Forgotten, memory
  <2>2. Moved(r)
    BY <1>s, <2>1, StatusMoves
  <2> QED BY <1>t, <2>1, <2>2, OneRowMoves
<1>11. ASSUME NEW r \in Requests,
              StreamDraft(r) \/ Cancel(r) \/ SettleDraft(r) \/ UNCHANGED vars
       PROVE  \A q \in Requests : Moved(q)
  BY <1>s, <1>11, AsideChangesNothing, StatusMoves
<1>12. CASE CloseQuestion \/ BeginMaintenance \/ LockData \/ EndMaintenance \/ BeginShutdown
            \/ UNCHANGED vars
  BY <1>s, <1>12, StatusMoves DEF CloseQuestion, BeginMaintenance, LockData, EndMaintenance,
     BeginShutdown, tables, memory, vars
<1>13. CASE Purge
  <2>1. \A q \in Requests : row[q].status # "running"
    <3>1. turn = Nobody /\ Serving
      BY <1>t, <1>13 DEF Purge, Memory, Promised, Serving
    <3> QED BY <3>1 DEF Promised
  <2>2. \A q \in Requests :
          row'[q].status = IF row[q].status = "absent" THEN "absent" ELSE "tombstone"
    BY <1>t, <1>13 DEF Purge, Forgotten
  <2> QED BY <1>s, <2>1, <2>2, StatusMoves DEF Statuses
<1>14. CASE Exit \/ Crash
  <2>1. row' = row /\ \A q \in Requests : task'[q] = "none"
    BY <1>14 DEF Exit, Crash, Die, Idle, tables
  <2>2. ASSUME NEW q \in Requests PROVE Moved(q)
    <3>1. CASE row[q].status = "running"
      BY <2>1, <3>1, TaskMoves DEF Claimed, Executing
    <3>2. CASE row[q].status # "running"
      BY <1>s, <2>1, <3>2, StatusMoves
    <3> QED BY <3>1, <3>2
  <2> QED BY <2>2
<1>15. CASE Recover
  <2>1. \A q \in Requests : row'[q].status = Reconciled(q) /\ task[q] = "none"
    BY <1>t, <1>15 DEF Recover, Memory
  <2>2. \A q \in Requests :
          \/ row[q].status = "running" /\ Reconciled(q) \in {"completed", "failed"}
          \/ row[q].status = "queued" /\ Reconciled(q) \in {"queued", "failed"}
          \/ row[q].status \notin {"running", "queued"} /\ Reconciled(q) = row[q].status
    BY DEF Reconciled
  <2> QED BY <1>s, <2>1, <2>2, StatusMoves DEF Claimed, Executing
<1>16. CASE StartUp
  <2>1. row' = row /\ \A q \in Requests : row[q].status # "running"
    BY <1>t, <1>16 DEF StartUp, Rows, tables
  <2> QED BY <1>s, <2>1, StatusMoves
<1> QED BY NextCases, <1>1, <1>2, <1>3, <1>4, <1>5, <1>6, <1>7, <1>8, <1>9, <1>10, <1>11,
           <1>12, <1>13, <1>14, <1>15, <1>16

\* A reply is stored for a message that is executed or wound up, and once.
Replied(r) ==
  \/ reply'[r] = reply[r]
  \/ /\ reply[r] = "none"
     /\ reply'[r] \in {"partial", "complete"}
     /\ PhaseOf(r) \in {"executing", "stopped"}
  \/ reply'[r] = "none" /\ PhaseOf(r)' \in {"none", "forgotten"}

LEMMA RepliesFollow ==
  ASSUME IInv, Promised, [Next]_vars
  PROVE  \A q \in Requests : Replied(q)
<1>t. Types
  BY DEF IInv
<1>1. ASSUME NEW r \in Requests, NEW complete \in BOOLEAN, StoreReply(r, complete)
      PROVE  \A q \in Requests : Replied(q)
  <2>1. task[r] = "writing" /\ row[r].status = "running" /\ reply[r] = "none"
    BY <1>1 DEF StoreReply, Promised, Executing
  <2>2. PhaseOf(r) = "executing"
    BY <2>1, PhaseFacts DEF Executing
  <2>3. /\ reply'[r] \in {"partial", "complete"}
        /\ \A q \in Requests \ {r} : reply'[q] = reply[q]
    BY <1>1 DEF StoreReply, Promised
  <2> QED BY <2>1, <2>2, <2>3 DEF Replied
<1>2. ASSUME NEW r \in Requests, SettleDraft(r) PROVE \A q \in Requests : Replied(q)
  <2>1. task[r] = "failing" /\ row[r].status = "running" /\ reply[r] = "none"
    BY <1>2 DEF SettleDraft, Promised
  <2>2. PhaseOf(r) = "stopped"
    BY <2>1, PhaseFacts DEF Executing, Claimed
  <2>3. reply'[r] = "partial" /\ \A q \in Requests \ {r} : reply'[q] = reply[q]
    BY <1>2 DEF SettleDraft, Promised
  <2> QED BY <2>1, <2>2, <2>3 DEF Replied
<1>3. CASE Purge
  <2>1. \A q \in Requests : /\ reply'[q] = "none"
                            /\ row'[q].status \in {"absent", "tombstone"}
    BY <1>t, <1>3 DEF Purge, Forgotten, Types, Row
  <2> QED BY <2>1, PhaseFacts DEF Replied
<1>4. CASE UNCHANGED reply
  BY <1>4 DEF Replied
<1>5. ASSUME NEW r \in Requests, Walking(r)
      PROVE  UNCHANGED reply \/ \E complete \in BOOLEAN : StoreReply(r, complete)
  BY <1>5 DEF Walking, LeaveLine, PassToken, BeginClaim, CheckClaimed, CheckAnswered,
              TakeDraft, Return, Abort, EndWithoutReply, tables
<1>6. ASSUME NEW r \in Requests,
             \/ SubmitCheck(r) \/ DeferInLine(r) \/ Admit(r) \/ DeferAdmitted(r)
             \/ Claim(r) \/ AnswerBound(r) \/ Requeue(r) \/ Record(r)
             \/ StreamDraft(r) \/ Cancel(r) \/ Retire(r)
      PROVE  UNCHANGED reply
  BY <1>6 DEF SubmitCheck, DeferInLine, Admit, DeferAdmitted, Claim, AnswerBound, Requeue,
              Record, StreamDraft, Cancel, Retire, tables
<1>7. ASSUME NEW bound \in BOOLEAN, NEW device \in BOOLEAN, SubmitInsert(bound, device)
      PROVE  UNCHANGED reply
  BY <1>7 DEF SubmitInsert
<1>8. MarkFailed \/ CloseQuestion \/ BeginMaintenance \/ LockData \/ EndMaintenance
        \/ BeginShutdown \/ UNCHANGED vars => UNCHANGED reply
  BY DEF MarkFailed, CloseQuestion, BeginMaintenance, LockData, EndMaintenance,
         BeginShutdown, tables, vars
<1>9. Exit \/ Crash \/ Recover \/ StartUp => UNCHANGED reply
  BY DEF Exit, Crash, Die, Recover, StartUp, tables
<1> QED BY NextCases, <1>1, <1>2, <1>3, <1>4, <1>5, <1>6, <1>7, <1>8, <1>9

LEMMA PhaseTypes ==
  ASSUME NEW r, row[r].status \in Statuses
  PROVE  PhaseOf(r) \in Promise!Phases
BY DEF PhaseOf, Statuses, Promise!Phases

LEMMA PhaseTypesNext ==
  ASSUME NEW r, row'[r].status \in Statuses
  PROVE  PhaseOf(r)' \in Promise!Phases
BY DEF PhaseOf, Statuses, Promise!Phases

LEMMA SameCardinality == \A S : Promise!Cardinality(S) = Cardinality(S)
BY DEF Promise!Cardinality, Cardinality

\* The one permit of the channel lets one message be executed.
LEMMA OneExecuting ==
  ASSUME PermitHasHolder', \A r \in Requests : row'[r].status \in Statuses
  PROVE  Cardinality({r \in Requests : PhaseOf(r)' = "executing"}) <= 1
<1>1. \A r \in Requests : PhaseOf(r)' = "executing" => r = turn'
  <2>1. \A r \in Requests : PhaseOf(r)' = "executing" => task'[r] \in Executing
    BY DEF PhaseOf, Statuses
  <2> QED BY <2>1 DEF PermitHasHolder
<1>2. {r \in Requests : PhaseOf(r)' = "executing"} \subseteq {turn'}
  BY <1>1
<1>3. IsFiniteSet({turn'}) /\ Cardinality({turn'}) = 1
  BY FS_Singleton
<1> QED BY <1>2, <1>3, FS_Subset

LEMMA PromiseStep ==
  ASSUME IInv, IInv', Promised, Promised', [Next]_vars
  PROVE  Promise!Next
<1>1. \A r \in Requests : row'[r].status \in Statuses
  BY DEF IInv, Types, Row
<1>2. [r \in Requests |-> PhaseOf(r)]' \in [Requests -> Promise!Phases]
  BY <1>1, PhaseTypesNext
<1>3. reply' \in [Requests -> {"none", "partial", "complete"}]
  BY DEF Promised
<1>4. ASSUME NEW r \in Requests
      PROVE  /\ \/ [q \in Requests |-> PhaseOf(q)]'[r] = [q \in Requests |-> PhaseOf(q)][r]
                \/ <<[q \in Requests |-> PhaseOf(q)][r], [q \in Requests |-> PhaseOf(q)]'[r]>>
                     \in Promise!Moves
             /\ Promise!Replies(r)
  <2>1. Moved(r) /\ Replied(r)
    BY PhasesMove, RepliesFollow
  <2> QED BY <2>1 DEF Moved, Replied, Promise!Replies
<1>5. Promise!Cardinality(Promise!Executing') <= 1
  <2>1. Promise!Executing' = {r \in Requests : PhaseOf(r)' = "executing"}
    BY DEF Promise!Executing
  <2>2. PermitHasHolder'
    BY DEF IInv, Memory
  <2> QED BY <1>1, <2>1, <2>2, OneExecuting, SameCardinality
<1> QED BY <1>2, <1>3, <1>4, <1>5 DEF Promise!Next

\* Rows, tasks, tokens and drafts in any order of the awaits, with every shutdown, crash
\* and purge between them: a message reaches the agent at most once and one at a time,
\* its reply is stored once, and its identity is never free again.
THEOREM PromiseIsKept == Spec => KeepsPromise
<1>1. Init => Promise!Init
  BY PhaseFacts DEF Init, NoRow, Promise!Init
<1>2. (IInv /\ Promised) /\ (IInv /\ Promised)' /\ [Next]_vars
        => [Promise!Next]_(Promise!promise)
  BY PromiseStep
<1> QED BY <1>1, <1>2, PromisedAlways, PTL DEF Spec, KeepsPromise, Promise!Spec

-----------------------------------------------------------------------------
(* Sequences of distinct requests: who is in one, and who before whom.     *)

InSeq(s, a) == \E i \in DOMAIN s : s[i] = a
Before(s, a, b) == \E i, j \in DOMAIN s : i < j /\ s[i] = a /\ s[j] = b
Unique(s) == \A i, j \in DOMAIN s : s[i] = s[j] => i = j

\* t is s without a.
Lacks(t, s, a) ==
  /\ t \in Seq(Requests)
  /\ Unique(t)
  /\ \A b \in Requests :
       /\ InSeq(t, b) <=> InSeq(s, b) /\ b # a
       /\ \A c \in Requests : Before(t, b, c) <=> Before(s, b, c) /\ b # a /\ c # a

\* In a sequence of distinct members any two of them are in one order.
LEMMA OneOrder ==
  ASSUME NEW s \in Seq(Requests), Unique(s), NEW a \in Requests, NEW b \in Requests
  PROVE  /\ Before(s, a, b) => InSeq(s, a) /\ InSeq(s, b) /\ a # b /\ ~Before(s, b, a)
         /\ InSeq(s, a) /\ InSeq(s, b) /\ a # b => Before(s, a, b) \/ Before(s, b, a)
<1>1. Len(s) \in Nat /\ DOMAIN s = 1 .. Len(s)
  BY LenProperties
<1> QED BY <1>1 DEF Before, InSeq, Unique

\* The first comes before all others.
LEMMA HeadIsBefore ==
  ASSUME NEW s \in Seq(Requests), Unique(s), NEW b \in Requests, InSeq(s, b)
  PROVE  s # <<>> /\ InSeq(s, Head(s)) /\ (b # Head(s) => Before(s, Head(s), b))
<1>1. Len(s) \in Nat /\ DOMAIN s = 1 .. Len(s)
  BY LenProperties
<1>2. PICK i \in 1 .. Len(s) : s[i] = b
  BY <1>1 DEF InSeq
<1>3. s # <<>> /\ Head(s) = s[1] /\ 1 \in 1 .. Len(s)
  BY <1>1, <1>2, EmptySeq
<1>4. b # Head(s) => 1 < i
  BY <1>2, <1>3
<1> QED BY <1>1, <1>2, <1>3, <1>4 DEF Before, InSeq

\* Whoever is appended comes after all others.
LEMMA AppendedLast ==
  ASSUME NEW s \in Seq(Requests), Unique(s), NEW a \in Requests, ~InSeq(s, a)
  PROVE  /\ Append(s, a) \in Seq(Requests)
         /\ Unique(Append(s, a))
         /\ \A b \in Requests :
              /\ InSeq(Append(s, a), b) <=> InSeq(s, b) \/ b = a
              /\ \A c \in Requests :
                   Before(Append(s, a), b, c) <=>
                     Before(s, b, c) \/ (InSeq(s, b) /\ c = a)
<1> DEFINE t == Append(s, a)
<1>1. Len(s) \in Nat /\ DOMAIN s = 1 .. Len(s)
  BY LenProperties
<1>2. /\ t \in Seq(Requests) /\ Len(t) = Len(s) + 1 /\ t[Len(s) + 1] = a
      /\ \A i \in 1 .. Len(s) : t[i] = s[i]
  BY AppendProperties
<1>3. DOMAIN t = 1 .. Len(s) + 1
  BY <1>2, LenProperties
<1> HIDE DEF t
<1>4. Unique(t)
  BY <1>1, <1>2, <1>3 DEF Unique, InSeq
<1>5. ASSUME NEW b \in Requests PROVE InSeq(t, b) <=> InSeq(s, b) \/ b = a
  BY <1>1, <1>2, <1>3 DEF InSeq
<1>6. ASSUME NEW b \in Requests, NEW c \in Requests
      PROVE  Before(t, b, c) <=> Before(s, b, c) \/ (InSeq(s, b) /\ c = a)
  <2>1. ASSUME Before(t, b, c) PROVE Before(s, b, c) \/ (InSeq(s, b) /\ c = a)
    <3>1. PICK i, j \in 1 .. Len(s) + 1 : i < j /\ t[i] = b /\ t[j] = c
      BY <1>3, <2>1 DEF Before
    <3>2. i \in 1 .. Len(s) /\ s[i] = b
      BY <1>1, <1>2, <3>1
    <3>3. CASE j = Len(s) + 1
      BY <1>1, <1>2, <3>1, <3>2, <3>3 DEF InSeq
    <3>4. CASE j # Len(s) + 1
      <4>1. j \in 1 .. Len(s) /\ s[j] = c
        BY <1>1, <1>2, <3>1, <3>4
      <4> QED BY <1>1, <3>1, <3>2, <4>1 DEF Before
    <3> QED BY <3>3, <3>4
  <2>2. ASSUME Before(s, b, c) PROVE Before(t, b, c)
    <3>1. PICK i, j \in 1 .. Len(s) : i < j /\ s[i] = b /\ s[j] = c
      BY <1>1, <2>2 DEF Before
    <3>2. i \in 1 .. Len(s) + 1 /\ j \in 1 .. Len(s) + 1
      BY <1>1
    <3> QED BY <1>2, <1>3, <3>1, <3>2 DEF Before
  <2>3. ASSUME InSeq(s, b), c = a PROVE Before(t, b, c)
    <3>1. PICK i \in 1 .. Len(s) : s[i] = b
      BY <1>1, <2>3 DEF InSeq
    <3>2. i \in 1 .. Len(s) + 1 /\ Len(s) + 1 \in 1 .. Len(s) + 1 /\ i < Len(s) + 1
      BY <1>1
    <3> QED BY <1>2, <1>3, <2>3, <3>1, <3>2 DEF Before
  <2> QED BY <2>1, <2>2, <2>3
<1> QED BY <1>2, <1>4, <1>5, <1>6 DEF t

\* What taking out the member at i leaves at each place.
LEMMA SeqRemoveAt ==
  ASSUME NEW s \in Seq(Requests), NEW i \in 1 .. Len(s)
  PROVE  /\ RemoveAt(s, i) \in Seq(Requests)
         /\ Len(RemoveAt(s, i)) = Len(s) - 1
         /\ \A j \in 1 .. Len(s) - 1 : RemoveAt(s, i)[j] = IF j < i THEN s[j] ELSE s[j + 1]
<1>1. Len(s) \in Nat /\ i \in Nat /\ 1 <= i /\ i <= Len(s)
      /\ \A j \in 1 .. Len(s) : s[j] \in Requests
  BY LenProperties, ElementOfSeq
<1> DEFINE a == SubSeq(s, 1, i - 1)
<1> DEFINE b == SubSeq(s, i + 1, Len(s))
<1>2. /\ a \in Seq(Requests) /\ Len(a) = i - 1
      /\ \A j \in 1 .. i - 1 : a[j] = s[j]
  <2>1. 1 \in Int /\ i - 1 \in Int /\ \A j \in 1 .. i - 1 : s[j] \in Requests
    BY <1>1
  <2>2. /\ a \in Seq(Requests) /\ Len(a) = IF 1 <= i - 1 THEN i - 1 - 1 + 1 ELSE 0
        /\ \A j \in 1 .. i - 1 - 1 + 1 : a[j] = s[1 + j - 1]
    BY <2>1, SubSeqProperties
  <2> HIDE DEF a
  <2> QED BY <1>1, <2>2
<1>3. /\ b \in Seq(Requests) /\ Len(b) = Len(s) - i
      /\ \A j \in 1 .. Len(s) - i : b[j] = s[i + j]
  <2>1. i + 1 \in Int /\ Len(s) \in Int /\ \A j \in i + 1 .. Len(s) : s[j] \in Requests
    BY <1>1
  <2>2. /\ b \in Seq(Requests)
        /\ Len(b) = IF i + 1 <= Len(s) THEN Len(s) - (i + 1) + 1 ELSE 0
        /\ \A j \in 1 .. Len(s) - (i + 1) + 1 : b[j] = s[(i + 1) + j - 1]
    BY <2>1, SubSeqProperties
  <2> HIDE DEF b
  <2>3. \A j \in 1 .. Len(s) - i : j \in 1 .. Len(s) - (i + 1) + 1 /\ (i + 1) + j - 1 = i + j
    BY <1>1
  <2> QED BY <1>1, <2>2, <2>3
<1>4. /\ a \o b \in Seq(Requests) /\ Len(a \o b) = Len(a) + Len(b)
      /\ \A j \in 1 .. Len(a) + Len(b) :
            (a \o b)[j] = IF j <= Len(a) THEN a[j] ELSE b[j - Len(a)]
  BY <1>2, <1>3, ConcatProperties
<1>5. RemoveAt(s, i) = a \o b
  BY DEF RemoveAt
<1> HIDE DEF a, b
<1>6. ASSUME NEW j \in 1 .. Len(s) - 1
      PROVE  (a \o b)[j] = IF j < i THEN s[j] ELSE s[j + 1]
  <2>1. CASE j < i
    BY <1>1, <1>2, <1>3, <1>4, <2>1
  <2>2. CASE ~(j < i)
    <3>1. j \in 1 .. Len(a) + Len(b) /\ ~(j <= Len(a)) /\ j - Len(a) \in 1 .. Len(s) - i
          /\ i + (j - Len(a)) = j + 1
      BY <1>1, <1>2, <1>3, <2>2
    <3> QED BY <1>3, <1>4, <2>2, <3>1
  <2> QED BY <2>1, <2>2
<1>7. Len(a) + Len(b) = Len(s) - 1
  BY <1>1, <1>2, <1>3
<1>8. Len(a \o b) = Len(s) - 1 /\ a \o b \in Seq(Requests)
  BY <1>4, <1>7
<1> QED BY <1>5, <1>6, <1>8

\* A sequence that lost its member at i keeps the others in their order.
LEMMA OneLess ==
  ASSUME NEW s \in Seq(Requests), Unique(s), NEW i \in 1 .. Len(s),
         NEW t \in Seq(Requests), Len(t) = Len(s) - 1,
         \A j \in 1 .. Len(s) - 1 : t[j] = IF j < i THEN s[j] ELSE s[j + 1]
  PROVE  Lacks(t, s, s[i])
<1>1. Len(s) \in Nat /\ DOMAIN s = 1 .. Len(s) /\ i \in Nat /\ 1 <= i /\ i <= Len(s)
      /\ DOMAIN t = 1 .. Len(s) - 1
  BY LenProperties
<1> DEFINE From(j) == IF j < i THEN j ELSE j + 1
<1> DEFINE To(j) == IF j < i THEN j ELSE j - 1
<1>2. ASSUME NEW j \in 1 .. Len(s) - 1
      PROVE  From(j) \in 1 .. Len(s) /\ From(j) # i /\ t[j] = s[From(j)]
  BY <1>1
<1>3. ASSUME NEW j \in 1 .. Len(s), j # i
      PROVE  To(j) \in 1 .. Len(s) - 1 /\ From(To(j)) = j
  BY <1>1, <1>3
<1>4. \A j, k \in Int : (j < k <=> From(j) < From(k)) /\ (From(j) = From(k) => j = k)
  BY <1>1
<1>5. \A j, k \in Int : j # i /\ k # i /\ j < k => To(j) < To(k)
  BY <1>1
<1> HIDE DEF From, To
<1>6. \A j \in 1 .. Len(s) - 1 : j \in Int
  BY <1>1
<1>7. \A j \in 1 .. Len(s) : j \in Int
  BY <1>1
<1>8. Unique(t)
  BY <1>1, <1>2, <1>4, <1>6 DEF Unique
<1>9. ASSUME NEW b \in Requests PROVE InSeq(t, b) <=> InSeq(s, b) /\ b # s[i]
  <2>1. ASSUME InSeq(t, b) PROVE InSeq(s, b) /\ b # s[i]
    <3>1. PICK j \in 1 .. Len(s) - 1 : t[j] = b
      BY <1>1, <2>1 DEF InSeq
    <3>2. From(j) \in 1 .. Len(s) /\ From(j) # i /\ s[From(j)] = b
      BY <1>2, <3>1
    <3> QED BY <1>1, <3>2 DEF InSeq, Unique
  <2>2. ASSUME InSeq(s, b), b # s[i] PROVE InSeq(t, b)
    <3>1. PICK j \in 1 .. Len(s) : s[j] = b
      BY <1>1, <2>2 DEF InSeq
    <3>2. To(j) \in 1 .. Len(s) - 1 /\ From(To(j)) = j
      BY <1>3, <2>2, <3>1
    <3>3. t[To(j)] = b
      BY <1>2, <3>1, <3>2
    <3> QED BY <1>1, <3>2, <3>3 DEF InSeq
  <2> QED BY <2>1, <2>2
<1>10. ASSUME NEW b \in Requests, NEW c \in Requests
       PROVE  Before(t, b, c) <=> Before(s, b, c) /\ b # s[i] /\ c # s[i]
  <2>1. ASSUME Before(t, b, c) PROVE Before(s, b, c) /\ b # s[i] /\ c # s[i]
    <3>1. PICK j, k \in 1 .. Len(s) - 1 : j < k /\ t[j] = b /\ t[k] = c
      BY <1>1, <2>1 DEF Before
    <3>2. /\ From(j) \in 1 .. Len(s) /\ From(j) # i /\ s[From(j)] = b
          /\ From(k) \in 1 .. Len(s) /\ From(k) # i /\ s[From(k)] = c
      BY <1>2, <3>1
    <3>3. From(j) < From(k)
      BY <1>4, <1>6, <3>1
    <3> QED BY <1>1, <3>2, <3>3 DEF Before, Unique
  <2>2. ASSUME Before(s, b, c), b # s[i], c # s[i] PROVE Before(t, b, c)
    <3>1. PICK j, k \in 1 .. Len(s) : j < k /\ s[j] = b /\ s[k] = c
      BY <1>1, <2>2 DEF Before
    <3>2. /\ To(j) \in 1 .. Len(s) - 1 /\ From(To(j)) = j
          /\ To(k) \in 1 .. Len(s) - 1 /\ From(To(k)) = k
      BY <1>3, <2>2, <3>1
    <3>3. t[To(j)] = b /\ t[To(k)] = c
      BY <1>2, <3>1, <3>2
    <3>4. To(j) < To(k)
      BY <1>5, <1>7, <2>2, <3>1
    <3> QED BY <1>1, <3>2, <3>3, <3>4 DEF Before
  <2> QED BY <2>1, <2>2
<1> QED BY <1>8, <1>9, <1>10 DEF Lacks

\* What Without and Tail take out.
LEMMA WithoutLacks ==
  ASSUME NEW s \in Seq(Requests), Unique(s), NEW a \in Requests
  PROVE  Lacks(Without(s, a), s, a)
<1>1. DOMAIN s = 1 .. Len(s)
  BY LenProperties
<1>2. CASE InSeq(s, a)
  <2>1. PICK i \in 1 .. Len(s) : i = (CHOOSE j \in DOMAIN s : s[j] = a) /\ s[i] = a
    BY <1>1, <1>2 DEF InSeq
  <2>2. Without(s, a) = RemoveAt(s, i)
    BY <1>2, <2>1 DEF InSeq, Without
  <2>3. Lacks(RemoveAt(s, i), s, s[i])
    BY SeqRemoveAt, OneLess
  <2> QED BY <2>1, <2>2, <2>3
<1>3. CASE ~InSeq(s, a)
  <2>1. Without(s, a) = s
    BY <1>3 DEF InSeq, Without
  <2>2. \A b, c \in Requests : Before(s, b, c) => b # a /\ c # a
    BY <1>3, OneOrder
  <2> QED BY <1>3, <2>1, <2>2 DEF Lacks
<1> QED BY <1>2, <1>3

LEMMA TailLacks ==
  ASSUME NEW s \in Seq(Requests), Unique(s), s # <<>>
  PROVE  Lacks(Tail(s), s, Head(s))
<1>1. Len(s) \in Nat /\ Len(s) # 0 /\ Head(s) = s[1]
  BY EmptySeq, LenProperties
<1>2. /\ Tail(s) \in Seq(Requests) /\ Len(Tail(s)) = Len(s) - 1
      /\ \A j \in 1 .. Len(s) - 1 : Tail(s)[j] = s[j + 1]
  BY HeadTailProperties
<1>3. 1 \in 1 .. Len(s) /\ \A j \in 1 .. Len(s) - 1 : ~(j < 1)
  BY <1>1
<1> QED BY <1>1, <1>2, <1>3, OneLess

-----------------------------------------------------------------------------
(* The order in which messages are accepted, wait and start.               *)

\* The line is of the queued rows that have not been tried yet.
Listed ==
  /\ order \in Seq(Requests) /\ Unique(order)
  /\ line \in Seq(Requests) /\ Unique(line)
  /\ maintenance # "open" => \A r \in Requests : ~InSeq(line, r)
  /\ \A r \in Requests :
       /\ InSeq(order, r) <=> row[r].status \notin {"absent", "tombstone"}
       /\ InSeq(line, r) <=> task[r] \in {"line", "polled"}
       /\ task[r] \in {"line", "polled"} => row[r].status = "queued"

Started == Claimed \cup {"admitted", "claiming"}

\* The line has the order of the rows, nothing comes after a row that was refused
\* a ticket until it is marked, and what a started message has left behind it in
\* the queue is about to fail.
InOrder ==
  \A r, s \in Requests :
    /\ Before(line, s, r) => Before(order, s, r)
    /\ submission.at = "refused" /\ submission.of = s => ~Before(order, s, r)
    /\ /\ daemon = "up" /\ task[r] \in Started
       /\ Before(order, s, r) /\ row[s].status = "queued"
       => task[s] = "failing"

Ordered == Listed /\ InOrder

LEMMA EmptyLine ==
  /\ <<>> \in Seq(Requests) /\ Unique(<<>>)
  /\ \A a, b : ~InSeq(<<>>, a) /\ ~Before(<<>>, a, b)
BY DEF Unique, InSeq, Before

LEMMA InitOrdered == Init => Ordered
BY EmptyLine, NoSubmissionIs
   DEF Init, Ordered, Listed, InOrder, NoRow, Idle, Started, Claimed

\* Nothing that has to do with the order changes.
LEMMA AsideKeepsOrdered ==
  ASSUME Ordered, UNCHANGED <<row, order, task, line, submission>>,
         daemon' = daemon \/ daemon' # "up",
         maintenance' = maintenance \/ maintenance' = "open"
  PROVE  Ordered'
BY DEF Ordered, Listed, InOrder

\* A task moves, or ends, and leaves the line if it was there.
LEMMA TaskKeepsOrdered ==
  ASSUME IInv, Ordered, NEW r \in Requests, NEW to \in Stages,
         task' = [task EXCEPT ![r] = to], UNCHANGED <<order, row, daemon, maintenance, submission>>,
         \/ /\ line' = line
            /\ to \in {"line", "polled"} <=> task[r] \in {"line", "polled"}
         \/ /\ Lacks(line', line, r)
            /\ to \notin {"line", "polled"},
         to \in Started => task[r] \in Started,
         task[r] = "failing" => row[r].status # "queued" \/ daemon # "up"
  PROVE  Ordered'
<1>1. task'[r] = to /\ \A q \in Requests \ {r} : task'[q] = task[q]
  BY DEF IInv, Types
<1>2. Listed'
  <2>1. line' \in Seq(Requests) /\ Unique(line')
    BY DEF Ordered, Listed, Lacks
  <2>2. \A q \in Requests : InSeq(line', q) <=> task'[q] \in {"line", "polled"}
    BY <1>1 DEF Ordered, Listed, Lacks
  <2>3. \A q \in Requests : task'[q] \in {"line", "polled"} => row[q].status = "queued"
    BY <1>1 DEF Ordered, Listed, Started, Claimed
  <2>4. maintenance # "open" => \A q \in Requests : ~InSeq(line', q)
    BY DEF Ordered, Listed, Lacks
  <2> QED BY <2>1, <2>2, <2>3, <2>4 DEF Ordered, Listed
<1>3. InOrder'
  <2>1. \A q, s \in Requests : Before(line', s, q) => Before(order, s, q)
    BY DEF Ordered, InOrder, Lacks
  <2>2. ASSUME NEW q \in Requests, NEW s \in Requests,
               daemon = "up", task'[q] \in Started,
               Before(order, s, q), row[s].status = "queued"
        PROVE  task'[s] = "failing"
    <3>1. task[q] \in Started
      BY <1>1, <2>2
    <3>2. task[s] = "failing"
      BY <2>2, <3>1 DEF Ordered, InOrder
    <3> QED BY <1>1, <2>2, <3>2
  <2> QED BY <2>1, <2>2 DEF Ordered, InOrder
<1> QED BY <1>2, <1>3 DEF Ordered

\* A new row is last in the order, and its ticket last in line.
LEMMA SubmitKeepsOrdered ==
  ASSUME IInv, Promised, Ordered, NEW bound \in BOOLEAN, NEW device \in BOOLEAN,
         SubmitInsert(bound, device)
  PROVE  Ordered'
<1>t. Types /\ Rows
  BY DEF IInv
<1>1. PICK r \in Requests : r = submission.of
  BY <1>t DEF SubmitInsert, Types
<1>2. row[r].status = "absent" /\ task[r] = "none" /\ submission.at = "checked"
  BY <1>t, <1>1 DEF SubmitInsert, Rows
<1>3. /\ row'[r].status = "queued" /\ \A q \in Requests \ {r} : row'[q] = row[q]
      /\ order' = Append(order, r)
      /\ UNCHANGED <<daemon, maintenance>>
  BY <1>t, <1>1 DEF SubmitInsert, NewRow, Types
<1>4. ~InSeq(order, r) /\ ~InSeq(line, r)
  BY <1>2 DEF Ordered, Listed
<1>5. /\ order' \in Seq(Requests) /\ Unique(order')
      /\ \A q \in Requests :
           /\ InSeq(order', q) <=> InSeq(order, q) \/ q = r
           /\ \A s \in Requests :
                Before(order', s, q) <=> Before(order, s, q) \/ (InSeq(order, s) /\ q = r)
  BY <1>3, <1>4, AppendedLast DEF Ordered, Listed
<1>6. \A q, s \in Requests : Before(order, s, q) => s # r /\ q # r
  BY <1>4, OneOrder DEF Ordered, Listed
<1>7. CASE maintenance = "open"
  <2>1. /\ task'[r] = "line" /\ \A q \in Requests \ {r} : task'[q] = task[q]
        /\ line' = Append(line, r) /\ submission'.at = "idle"
    BY <1>t, <1>1, <1>7, NoSubmissionIs DEF SubmitInsert, At, Types
  <2>2. /\ line' \in Seq(Requests) /\ Unique(line')
        /\ \A q \in Requests :
             /\ InSeq(line', q) <=> InSeq(line, q) \/ q = r
             /\ \A s \in Requests :
                  Before(line', s, q) <=> Before(line, s, q) \/ (InSeq(line, s) /\ q = r)
    BY <1>4, <2>1, AppendedLast DEF Ordered, Listed
  <2>3. Listed'
    <3>1. \A q \in Requests : /\ InSeq(order', q) <=> row'[q].status \notin {"absent", "tombstone"}
                              /\ InSeq(line', q) <=> task'[q] \in {"line", "polled"}
                              /\ task'[q] \in {"line", "polled"} => row'[q].status = "queued"
      BY <1>3, <1>5, <2>1, <2>2 DEF Ordered, Listed
    <3> QED BY <1>3, <1>5, <1>7, <2>2, <3>1 DEF Listed
  <2>4. ASSUME NEW q \in Requests, NEW s \in Requests, Before(line', s, q)
        PROVE  Before(order', s, q)
    <3>1. CASE Before(line, s, q)
      BY <1>5, <3>1 DEF Ordered, InOrder
    <3>2. CASE InSeq(line, s) /\ q = r
      BY <1>5, <3>2 DEF Ordered, Listed
    <3> QED BY <2>2, <2>4, <3>1, <3>2
  <2>5. ASSUME NEW q \in Requests, NEW s \in Requests, daemon = "up", task'[q] \in Started,
               Before(order', s, q), row'[s].status = "queued"
        PROVE  task'[s] = "failing"
    <3>1. q # r
      BY <2>1, <2>5 DEF Started, Claimed
    <3>2. Before(order, s, q) /\ s # r
      BY <1>5, <1>6, <2>5, <3>1
    <3> QED BY <1>3, <2>1, <2>5, <3>1, <3>2 DEF Ordered, InOrder
  <2> QED BY <1>3, <2>1, <2>3, <2>4, <2>5 DEF Ordered, InOrder
<1>8. CASE maintenance # "open"
  <2>1. UNCHANGED <<task, line>> /\ submission'.at = "refused" /\ submission'.of = r
    BY <1>t, <1>1, <1>8 DEF SubmitInsert, Types
  <2>2. Listed'
    <3>1. \A q \in Requests : /\ InSeq(order', q) <=> row'[q].status \notin {"absent", "tombstone"}
                              /\ InSeq(line', q) <=> task'[q] \in {"line", "polled"}
                              /\ task'[q] \in {"line", "polled"} => row'[q].status = "queued"
      BY <1>2, <1>3, <1>5, <2>1 DEF Ordered, Listed
    <3> QED BY <1>3, <1>5, <2>1, <3>1 DEF Ordered, Listed
  <2>3. \A q, s \in Requests :
          /\ Before(line', s, q) => Before(order', s, q)
          /\ s = r => ~Before(order', s, q)
    BY <1>4, <1>5, <1>6, <2>1 DEF Ordered, InOrder
  <2>4. ASSUME NEW q \in Requests, NEW s \in Requests, daemon = "up", task'[q] \in Started,
               Before(order', s, q), row'[s].status = "queued"
        PROVE  task'[s] = "failing"
    <3>1. q # r
      BY <1>2, <2>1, <2>4 DEF Started, Claimed
    <3>2. Before(order, s, q) /\ s # r
      BY <1>5, <1>6, <2>4, <3>1
    <3> QED BY <1>3, <2>1, <2>4, <3>1, <3>2 DEF Ordered, InOrder
  <2> QED BY <1>3, <2>1, <2>2, <2>3, <2>4 DEF Ordered, InOrder
<1> QED BY <1>7, <1>8

\* Whoever is admitted was first in line, so that no earlier row waits there.
LEMMA AdmitKeepsOrdered ==
  ASSUME IInv, Promised, Ordered, NEW r \in Requests, Admit(r)
  PROVE  Ordered'
<1>t. Types /\ Memory /\ Rows
  BY DEF IInv
<1>1. /\ task[r] = "polled" /\ daemon # "stopping"
      /\ UNCHANGED <<row, order, daemon, maintenance, submission>>
  BY DEF Admit, tables
<1>2. CASE ~FirstInLine(r)
  <2>1. task' = [task EXCEPT ![r] = "line"] /\ line' = line
    BY <1>2 DEF Admit, At
  <2>2. "line" \in Stages /\ "line" \notin Started
    BY DEF Stages, Started, Claimed
  <2> QED BY <1>1, <2>1, <2>2, TaskKeepsOrdered
<1>3. CASE FirstInLine(r)
  <2>1. /\ task'[r] = "admitted" /\ \A q \in Requests \ {r} : task'[q] = task[q]
        /\ line' = Tail(line) /\ turn = Nobody /\ r = Head(line)
    BY <1>t, <1>3 DEF Admit, At, FirstInLine, Types
  <2>2. InSeq(line, r) /\ line # <<>>
    BY <1>1, HeadIsBefore DEF Ordered, Listed
  <2>3. Lacks(line', line, r)
    BY <2>1, <2>2, TailLacks DEF Ordered, Listed
  <2>4. Listed'
    <3>1. \A q \in Requests : /\ InSeq(line', q) <=> task'[q] \in {"line", "polled"}
                              /\ task'[q] \in {"line", "polled"} => row[q].status = "queued"
      BY <2>1, <2>3 DEF Ordered, Listed, Lacks
    <3> QED BY <1>1, <2>3, <3>1 DEF Ordered, Listed, Lacks
  <2>5. ASSUME NEW q \in Requests, NEW s \in Requests, daemon = "up", task'[q] \in Started,
               Before(order, s, q), row[s].status = "queued"
        PROVE  task'[s] = "failing"
    <3>1. q = r
      <4>1. \A p \in Requests : task[p] \notin Started
        BY <1>t, <2>1, RequestsAssumption DEF Memory, PermitHasHolder, Started
      <4> QED BY <2>1, <2>5, <4>1
    <3>2. s # r /\ ~Before(order, r, s)
      BY <2>5, <3>1, OneOrder DEF Ordered, Listed
    <3>3. ~InSeq(line, s)
      <4>1. SUFFICES ASSUME InSeq(line, s) PROVE FALSE
        OBVIOUS
      <4>2. Before(line, r, s)
        BY <2>1, <3>2, <4>1, HeadIsBefore DEF Ordered, Listed
      <4> QED BY <3>2, <4>2 DEF Ordered, InOrder
    <3>4. task[s] # "none"
      <4>1. ~(submission.of = s /\ submission.at = "refused")
        BY <2>5, <3>1 DEF Ordered, InOrder
      <4> QED BY <1>t, <2>5, <4>1 DEF Rows, AcceptedHasTask, Queued
    <3>5. task[s] \notin {"line", "polled"}
      BY <3>3 DEF Ordered, Listed
    <3>6. task[s] \notin Claimed \cup Executing \cup {"admitted", "claiming", "succeeding"}
      BY <1>t, <2>1, RequestsAssumption DEF Memory, PermitHasHolder
    <3>7. task[s] \in Stages
      BY <1>t DEF Types
    <3>8. task[s] = "failing"
      BY <3>4, <3>5, <3>6, <3>7 DEF Stages, Claimed, Executing
    <3> QED BY <2>1, <3>2, <3>8
  <2>6. \A q, s \in Requests : Before(line', s, q) => Before(order, s, q)
    BY <2>3 DEF Ordered, InOrder, Lacks
  <2> QED BY <1>1, <2>4, <2>5, <2>6 DEF Ordered, InOrder
<1> QED BY <1>2, <1>3

\* A step that only walks: out of the line by a cancellation, or without it.
LEMMA WalkKeepsOrdered ==
  ASSUME IInv, Ordered, NEW r \in Requests, Walking(r)
  PROVE  Ordered'
<1>t. Types
  BY DEF IInv
<1>1. /\ UNCHANGED <<row, daemon, submission, maintenance>>
      /\ order' = order
  BY <1>t, WalkingMoves
     DEF Walking, LeaveLine, PassToken, BeginClaim, CheckClaimed, CheckAnswered, TakeDraft,
         Return, Abort, EndWithoutReply, StoreReply, tables
<1>2. CASE LeaveLine(r)
  <2>1. task' = [task EXCEPT ![r] = "failing"] /\ task[r] = "line"
        /\ line' = Without(line, r)
    BY <1>2 DEF LeaveLine, At
  <2>2. Lacks(line', line, r)
    BY <2>1, WithoutLacks DEF Ordered, Listed
  <2>3. "failing" \in Stages /\ "failing" \notin Started
    BY DEF Stages, Started, Claimed
  <2> QED BY <1>1, <2>1, <2>2, <2>3, TaskKeepsOrdered
<1>3. CASE ~LeaveLine(r)
  <2>1. PICK to \in Stages : <<task[r], to>> \in Walks /\ task' = [task EXCEPT ![r] = to]
    BY <1>t, WalkingMoves
  <2>2. line' = line
    BY <1>3
       DEF Walking, PassToken, BeginClaim, CheckClaimed, CheckAnswered, TakeDraft,
           Return, Abort, EndWithoutReply, StoreReply
  <2>3. PassToken(r) \/ task[r] # "line"
    BY <1>3
       DEF Walking, BeginClaim, CheckClaimed, CheckAnswered, TakeDraft,
           Return, Abort, EndWithoutReply, StoreReply, Executing
  <2>4. PassToken(r) => to = "polled" /\ task[r] = "line"
    BY <1>t, <2>1 DEF PassToken, At, Types
  <2>5. /\ to \in {"line", "polled"} <=> task[r] \in {"line", "polled"}
        /\ to \in Started => task[r] \in Started
        /\ task[r] # "failing"
    BY <2>1, <2>3, <2>4 DEF Walks, Started, Claimed
  <2> QED BY <1>1, <2>1, <2>2, <2>5, TaskKeepsOrdered
<1> QED BY <1>2, <1>3

\* A row gets another status, and its task moves or ends outside of the line.
LEMMA RowKeepsOrdered ==
  ASSUME IInv, Ordered, NEW r \in Requests, NEW status, NEW to \in Stages,
         row'[r].status = status, task'[r] = to,
         \A q \in Requests \ {r} : row'[q] = row[q] /\ task'[q] = task[q],
         row[r].status \notin {"absent", "tombstone"},
         status \notin {"absent", "tombstone"},
         task[r] \notin {"line", "polled"}, to \notin {"line", "polled"},
         to \in Started => task[r] \in Started,
         status = "queued" => daemon # "up",
         UNCHANGED <<order, daemon, maintenance>>,
         submission' = submission \/ submission'.at = "idle",
         line' = line \/ Lacks(line', line, r)
  PROVE  Ordered'
<1>1. line' \in Seq(Requests) /\ Unique(line')
      /\ \A q \in Requests : /\ InSeq(line', q) <=> InSeq(line, q)
                             /\ \A s \in Requests : Before(line', s, q) => Before(line, s, q)
  BY DEF Ordered, Listed, Lacks
<1>2. Listed'
  <2>1. \A q \in Requests : /\ InSeq(order, q) <=> row'[q].status \notin {"absent", "tombstone"}
                            /\ InSeq(line', q) <=> task'[q] \in {"line", "polled"}
                            /\ task'[q] \in {"line", "polled"} => row'[q].status = "queued"
    <3> TAKE q \in Requests
    <3>1. CASE q = r
      BY <1>1, <3>1 DEF Ordered, Listed
    <3>2. CASE q # r
      BY <1>1, <3>2 DEF Ordered, Listed
    <3> QED BY <3>1, <3>2
  <2> QED BY <1>1, <2>1 DEF Ordered, Listed
<1>3. \A q, s \in Requests :
        /\ Before(line', s, q) => Before(order, s, q)
        /\ submission'.at = "refused" /\ submission'.of = s => ~Before(order, s, q)
  BY <1>1 DEF Ordered, InOrder
<1>4. ASSUME NEW q \in Requests, NEW s \in Requests, daemon = "up", task'[q] \in Started,
             Before(order, s, q), row'[s].status = "queued"
      PROVE  task'[s] = "failing"
  <2>1. s # r
    BY <1>4
  <2>2. task[q] \in Started
    BY <1>4
  <2> QED BY <1>4, <2>1, <2>2 DEF Ordered, InOrder
<1> QED BY <1>2, <1>3, <1>4 DEF Ordered, InOrder

\* A settled row has no ticket, so that the line keeps its order without it.
LEMMA RetireKeepsOrdered ==
  ASSUME IInv, Promised, Ordered, NEW r \in Requests, Retire(r)
  PROVE  Ordered'
<1>t. Types
  BY DEF IInv
<1>1. /\ row'[r].status = "tombstone" /\ \A q \in Requests \ {r} : row'[q] = row[q]
      /\ UNCHANGED <<task, line, daemon, submission, maintenance>>
      /\ row[r].status \in {"completed", "failed"}
      /\ order' = Without(order, r)
  BY <1>t DEF Retire, Forgotten, memory, Types, Row
<1>2. Lacks(order', order, r)
  BY <1>1, WithoutLacks DEF Ordered, Listed
<1>3. ~InSeq(line, r)
  BY <1>1 DEF Ordered, Listed
<1>4. \A q, s \in Requests : Before(line, s, q) => s # r /\ q # r
  BY <1>3, OneOrder DEF Ordered, Listed
<1>5. Listed'
  <2>1. order' \in Seq(Requests) /\ Unique(order')
    BY <1>2 DEF Lacks
  <2>2. \A q \in Requests : /\ InSeq(order', q) <=> row'[q].status \notin {"absent", "tombstone"}
                            /\ task'[q] \in {"line", "polled"} => row'[q].status = "queued"
    BY <1>1, <1>2 DEF Ordered, Listed, Lacks
  <2> QED BY <1>1, <2>1, <2>2 DEF Ordered, Listed
<1>6. \A q, s \in Requests : Before(line', s, q) => Before(order', s, q)
  BY <1>1, <1>2, <1>4 DEF Ordered, InOrder, Lacks
<1>7. \A q, s \in Requests :
        /\ Before(order', s, q) => Before(order, s, q)
        /\ row'[s].status = "queued" => row[s].status = "queued"
  BY <1>1, <1>2 DEF Lacks
<1> QED BY <1>1, <1>5, <1>6, <1>7 DEF Ordered, InOrder

LEMMA PurgeKeepsOrdered ==
  ASSUME IInv, Promised, Ordered, Purge
  PROVE  Ordered'
<1>1. /\ \A q \in Requests : row'[q].status \in {"absent", "tombstone"}
      /\ order' = <<>> /\ UNCHANGED <<task, line, submission, daemon>>
      /\ maintenance' = "open" /\ maintenance = "locked"
  BY DEF IInv, Types, Purge, Forgotten, memory, Row
<1>2. \A q \in Requests : task[q] \notin {"line", "polled"} /\ ~InSeq(line, q)
  BY <1>1 DEF Ordered, Listed
<1>3. Listed'
  BY <1>1, <1>2, EmptyLine DEF Ordered, Listed
<1>4. \A q, s \in Requests : ~Before(line, s, q)
  BY <1>2, OneOrder DEF Ordered, Listed
<1> QED BY <1>1, <1>3, <1>4, EmptyLine DEF Ordered, InOrder

LEMMA DieKeepsOrdered ==
  ASSUME Ordered, Die
  PROVE  Ordered'
<1>1. /\ UNCHANGED <<row, order>> /\ line' = <<>> /\ daemon' = "off"
      /\ maintenance' = "open" /\ submission'.at = "idle"
      /\ \A q \in Requests : task'[q] = "none"
  BY NoSubmissionIs DEF Die, tables, Idle
<1> QED BY <1>1, EmptyLine DEF Ordered, Listed, InOrder

LEMMA RecoverKeepsOrdered ==
  ASSUME IInv, Ordered, Recover
  PROVE  Ordered'
<1>1. /\ UNCHANGED <<order, line, task, submission, maintenance>>
      /\ daemon' = "starting"
      /\ \A q \in Requests : row'[q].status = Reconciled(q) /\ task[q] = "none"
  BY DEF IInv, Memory, Recover, memory, Types, Row
<1>2. \A q \in Requests : Reconciled(q) \in {"absent", "tombstone"}
                          <=> row[q].status \in {"absent", "tombstone"}
  BY DEF Reconciled
<1> QED BY <1>1, <1>2 DEF Ordered, Listed, InOrder

\* The line of a start holds every queued row once, in the order of the rows.
LEMMA StartUpKeepsOrdered ==
  ASSUME IInv, Ordered, StartUp
  PROVE  Ordered'
<1>t. Memory
  BY DEF IInv
<1>0. /\ UNCHANGED <<row, order, submission, maintenance>>
      /\ daemon = "starting" /\ maintenance = "open" /\ submission.at = "idle"
  BY <1>t, NoSubmissionIs DEF StartUp, Memory, tables
<1>1. CASE Cardinality(Queued) <= MaxQueued
  <2>1. line' \in Restarted
        /\ \A q \in Requests : task'[q] = IF q \in Queued THEN "line" ELSE "none"
    BY <1>1 DEF StartUp
  <2>2. Cardinality(Queued) \in Nat
    <3>1. IsFiniteSet(Queued)
      BY RequestsAssumption, FS_Subset DEF Queued
    <3> QED BY <3>1, FS_CardinalityType
  <2>3. /\ line' \in [1 .. Cardinality(Queued) -> Queued]
        /\ ToSet(line') = Queued
        /\ \A i, j \in DOMAIN line' : i < j => Before(order, line'[i], line'[j])
    BY <2>1 DEF Restarted, Earlier, Before
  <2>4. line' \in Seq(Requests)
    <3>1. line' \in Seq(Queued)
      BY <2>2, <2>3, IsASeq
    <3>2. Queued \subseteq Requests
      BY DEF Queued
    <3> QED BY <3>1, <3>2, SeqMonotonic
  <2>5. \A q \in Requests : InSeq(line', q) <=> q \in Queued
    BY <2>3 DEF InSeq, ToSet
  <2>6. \A i, j \in DOMAIN line' : line'[i] \in Requests /\ (i < j => line'[i] # line'[j])
    BY <2>3, OneOrder DEF Ordered, Listed, Queued
  <2>7. Unique(line')
    <3>1. \A i \in DOMAIN line' : i \in Int
      BY <2>2, <2>3
    <3> QED BY <2>6, <3>1 DEF Unique
  <2>8. \A q, s \in Requests : Before(line', s, q) => Before(order, s, q)
    <3> SUFFICES ASSUME NEW q \in Requests, NEW s \in Requests, Before(line', s, q)
                 PROVE  Before(order, s, q)
      OBVIOUS
    <3>1. PICK i, j \in DOMAIN line' : i < j /\ line'[i] = s /\ line'[j] = q
      BY DEF Before
    <3> QED BY <2>3, <3>1
  <2>9. \A q \in Requests :
          /\ task'[q] \in {"line", "polled"} <=> q \in Queued
          /\ q \in Queued <=> row[q].status = "queued"
          /\ task'[q] \notin Started
    BY <2>1 DEF Queued, Started, Claimed
  <2>10. Listed'
    BY <1>0, <2>4, <2>5, <2>7, <2>9 DEF Ordered, Listed
  <2> QED BY <1>0, <2>8, <2>9, <2>10 DEF Ordered, InOrder
<1>2. CASE ~(Cardinality(Queued) <= MaxQueued)
  BY <1>0, <1>2, AsideKeepsOrdered DEF StartUp
<1> QED BY <1>1, <1>2

LEMMA OrderedStep == IInv /\ Promised /\ Ordered /\ [Next]_vars => Ordered'
<1> SUFFICES ASSUME IInv, Promised, Ordered, [Next]_vars PROVE Ordered'
  OBVIOUS
<1>t. Types /\ Rows
  BY DEF IInv
<1>a. "none" \in Stages /\ "none" \notin Started /\ "failing" \in Stages
      /\ "failing" \notin Started
  BY DEF Stages, Started, Claimed
<1>b. \A r \in Requests : Lacks(Without(line, r), line, r)
  BY WithoutLacks DEF Ordered, Listed
<1>1. ASSUME NEW r \in Requests, SubmitCheck(r) PROVE Ordered'
  <2>1. UNCHANGED <<row, order, task, line, daemon, maintenance>>
        /\ submission'.at = "checked"
    BY <1>1 DEF SubmitCheck, tables, memory
  <2> QED BY <2>1 DEF Ordered, Listed, InOrder
<1>2. ASSUME NEW bound \in BOOLEAN, NEW device \in BOOLEAN,
             SubmitInsert(bound, device)
      PROVE  Ordered'
  BY <1>2, SubmitKeepsOrdered
<1>3. CASE MarkFailed
  <2>1. PICK r \in Requests : r = submission.of
    BY <1>t, <1>3 DEF MarkFailed, Types
  <2>2. row[r].status = "queued" /\ task[r] = "none"
    BY <1>3, <2>1 DEF MarkFailed, Promised
  <2>3. /\ row'[r].status = "failed" /\ \A q \in Requests \ {r} : row'[q] = row[q]
        /\ UNCHANGED <<order, line, task, daemon, maintenance>>
        /\ submission'.at = "idle"
    BY <1>t, <1>3, <2>1, NoSubmissionIs DEF MarkFailed, SetStatus, memory, Types, Row
  <2> QED BY <1>a, <2>2, <2>3, RowKeepsOrdered
<1>4. ASSUME NEW r \in Requests, Walking(r) PROVE Ordered'
  BY <1>4, WalkKeepsOrdered
<1>5. ASSUME NEW r \in Requests, DeferInLine(r) \/ DeferAdmitted(r) PROVE Ordered'
  <2>1. /\ task' = [task EXCEPT ![r] = "none"] /\ line' = Without(line, r)
        /\ UNCHANGED <<order, row, daemon, maintenance, submission>>
        /\ task[r] # "failing"
    BY <1>5 DEF DeferInLine, DeferAdmitted, Over, At, tables
  <2>2. Lacks(line', line, r)
    BY <1>b, <2>1
  <2> QED BY <1>a, <2>1, <2>2, TaskKeepsOrdered
<1>6. ASSUME NEW r \in Requests, Admit(r) PROVE Ordered'
  BY <1>6, AdmitKeepsOrdered
<1>7. ASSUME NEW r \in Requests, Claim(r) PROVE Ordered'
  <2>1. /\ task[r] = "claiming"
        /\ UNCHANGED <<order, line, daemon, maintenance, submission>>
    BY <1>7 DEF Claim
  <2>2. CASE row[r].status = "queued"
    <3>1. /\ row'[r].status = "running" /\ task'[r] = "claimed"
          /\ \A q \in Requests \ {r} : row'[q] = row[q] /\ task'[q] = task[q]
      BY <1>t, <1>7, <2>2 DEF Claim, SetStatus, At, Types, Row
    <3>2. "claimed" \in Stages /\ task[r] \in Started
      BY <2>1 DEF Stages, Started
    <3> QED BY <2>1, <2>2, <3>1, <3>2, RowKeepsOrdered
  <2>3. CASE row[r].status # "queued"
    <3>1. task' = [task EXCEPT ![r] = "failing"] /\ row' = row
      BY <1>7, <2>3 DEF Claim, At
    <3> QED BY <1>a, <2>1, <3>1, TaskKeepsOrdered
  <2> QED BY <2>2, <2>3
<1>8. ASSUME NEW r \in Requests, AnswerBound(r) PROVE Ordered'
  <2>1. /\ task[r] = "answering"
        /\ UNCHANGED <<order, row, line, daemon, maintenance, submission>>
    BY <1>8 DEF AnswerBound
  <2>2. PICK to \in {"answered", "failing"} : task' = [task EXCEPT ![r] = to]
    BY <1>8 DEF AnswerBound, At
  <2>3. to \in Stages /\ task[r] \in Started
    BY <2>1 DEF Stages, Started, Claimed
  <2> QED BY <2>1, <2>2, <2>3, TaskKeepsOrdered
<1>9. ASSUME NEW r \in Requests, Requeue(r) PROVE Ordered'
  <2>1. /\ task[r] = "requeueing" /\ daemon = "stopping" /\ row[r].status = "running"
        /\ UNCHANGED <<order, daemon, maintenance, submission>>
    BY <1>t, <1>9 DEF Requeue, Rows, Promised, Claimed
  <2>2. /\ row'[r].status = "queued" /\ task'[r] = "none"
        /\ \A q \in Requests \ {r} : row'[q] = row[q] /\ task'[q] = task[q]
    BY <1>t, <1>9, <2>1 DEF Requeue, Over, At, Types, Row
  <2>3. Lacks(line', line, r)
    BY <1>9, <1>b DEF Requeue, Over
  <2> QED BY <1>a, <2>1, <2>2, <2>3, RowKeepsOrdered
<1>10. ASSUME NEW r \in Requests, Record(r) PROVE Ordered'
  <2>1. /\ task[r] \in {"failing", "succeeding"}
        /\ task' = [task EXCEPT ![r] = "none"]
        /\ UNCHANGED <<order, daemon, maintenance, submission>>
        /\ Lacks(line', line, r)
    BY <1>10, <1>b DEF Record, Over, At
  <2>2. CASE Unsettled(r)
    <3>1. PICK status \in {"completed", "failed"} : row' = [row EXCEPT ![r].status = status]
      BY <1>10, <2>2 DEF Record, Result
    <3>2. /\ row'[r].status = status /\ task'[r] = "none"
          /\ \A q \in Requests \ {r} : row'[q] = row[q] /\ task'[q] = task[q]
      BY <1>t, <2>1, <3>1 DEF Types, Row
    <3>3. row[r].status \notin {"absent", "tombstone"}
      BY <2>2 DEF Unsettled
    <3> QED BY <1>a, <2>1, <3>1, <3>2, <3>3, RowKeepsOrdered
  <2>3. CASE ~Unsettled(r)
    <3>1. row' = row /\ row[r].status # "queued"
      BY <1>10, <2>3 DEF Record, Unsettled
    <3> QED BY <1>a, <2>1, <3>1, TaskKeepsOrdered
  <2> QED BY <2>2, <2>3
<1>11. ASSUME NEW r \in Requests,
              StreamDraft(r) \/ Cancel(r) \/ SettleDraft(r)
       PROVE  Ordered'
  <2>1. UNCHANGED <<row, order, task, line, daemon, submission, maintenance>>
    BY <1>11 DEF StreamDraft, Cancel, SettleDraft, tables
  <2> QED BY <2>1, AsideKeepsOrdered
<1>12. ASSUME NEW r \in Requests, Retire(r) PROVE Ordered'
  BY <1>12, RetireKeepsOrdered
<1>13. CASE CloseQuestion \/ EndMaintenance \/ BeginShutdown \/ UNCHANGED vars
  <2>1. /\ UNCHANGED <<row, order, task, line, submission>>
        /\ daemon' = daemon \/ daemon' # "up"
        /\ maintenance' = maintenance \/ maintenance' = "open"
    BY <1>13 DEF CloseQuestion, EndMaintenance, BeginShutdown, tables, memory, vars
  <2> QED BY <2>1, AsideKeepsOrdered
<1>14. CASE BeginMaintenance \/ LockData
  <2>1. UNCHANGED <<row, order, task, line, submission, daemon>>
    BY <1>14 DEF BeginMaintenance, LockData, tables, memory
  <2>2. \A r \in Requests : maintenance' # "open" => ~InSeq(line, r)
    BY <1>14, EmptyLine DEF BeginMaintenance, LockData, Ordered, Listed
  <2> QED BY <2>1, <2>2 DEF Ordered, Listed, InOrder
<1>15. CASE Purge
  BY <1>15, PurgeKeepsOrdered
<1>16. CASE Exit \/ Crash
  BY <1>16, DieKeepsOrdered DEF Exit, Crash
<1>17. CASE Recover
  BY <1>17, RecoverKeepsOrdered
<1>18. CASE StartUp
  BY <1>18, StartUpKeepsOrdered
<1> QED BY NextCases, <1>1, <1>2, <1>3, <1>4, <1>5, <1>6, <1>7, <1>8, <1>9, <1>10, <1>11,
           <1>12, <1>13, <1>14, <1>15, <1>16, <1>17, <1>18

LEMMA OrderedAlways == Spec => [](IInv /\ Promised /\ Ordered)
BY InitOrdered, OrderedStep, PromisedAlways, PTL DEF Spec

\* Only the last check before the work, with no shutdown begun, starts a message.
LEMMA StartIsChecked ==
  ASSUME IInv, Promised, [Next]_vars, NEW q \in Requests,
         task[q] = "answered", task'[q] = "working"
  PROVE  daemon = "up"
<1>t. Types /\ Memory
  BY DEF IInv
<1> USE RequestsAssumption DEF Types
<1>1. ASSUME NEW r \in Requests, Walking(r) PROVE daemon # "stopping"
  <2>1. PICK stage \in Stages : task' = [task EXCEPT ![r] = stage]
    BY <1>t, <1>1, WalkingMoves
  <2>2. q = r
    BY <1>t, <2>1
  <2>3. CheckAnswered(q)
    BY <1>1, <2>2
       DEF Walking, LeaveLine, PassToken, BeginClaim, CheckClaimed, TakeDraft,
           Return, Abort, EndWithoutReply, StoreReply, Executing
  <2> QED BY <1>t, <2>3 DEF CheckAnswered, Proceed, At
<1>2. ASSUME NEW r \in Requests, AnswerBound(r) PROVE daemon # "stopping"
  BY <1>t, <1>2 DEF AnswerBound, At
<1>3. ASSUME NEW r \in Requests,
             \/ DeferInLine(r) \/ Admit(r) \/ DeferAdmitted(r) \/ Claim(r)
             \/ Requeue(r) \/ Record(r)
      PROVE  daemon # "stopping"
  BY <1>t, <1>3 DEF DeferInLine, Admit, DeferAdmitted, Claim, Requeue, Record, Over, At
<1>4. ASSUME NEW r \in Requests,
             StreamDraft(r) \/ Cancel(r) \/ SettleDraft(r) \/ UNCHANGED vars
      PROVE  daemon # "stopping"
  BY <1>4, AsideChangesNothing
<1>5. ASSUME NEW r \in Requests, SubmitCheck(r) \/ Retire(r) PROVE daemon # "stopping"
  BY <1>5 DEF SubmitCheck, Retire, memory
<1>6. ASSUME NEW bound \in BOOLEAN, NEW device \in BOOLEAN,
             SubmitInsert(bound, device)
      PROVE  daemon # "stopping"
  BY <1>t, <1>6 DEF SubmitInsert, At
<1>7. CASE \/ MarkFailed \/ CloseQuestion \/ BeginMaintenance \/ LockData
           \/ EndMaintenance \/ Purge \/ BeginShutdown \/ Recover
           \/ UNCHANGED vars
  BY <1>7 DEF MarkFailed, CloseQuestion, BeginMaintenance, LockData,
              EndMaintenance, Purge, BeginShutdown, Recover, memory, vars
<1>8. CASE Exit \/ Crash \/ StartUp
  BY <1>8 DEF Exit, Crash, StartUp, Die, Idle
<1>9. daemon # "stopping"
  BY NextCases, <1>1, <1>2, <1>3, <1>4, <1>5, <1>6, <1>7, <1>8
<1> QED BY <1>t, <1>9 DEF Memory, Promised

\* Messages of a channel are executed in the order they were accepted, across
\* requeues and restarts: an earlier one has left the queue, or will not run.
THEOREM MessagesStartInOrder == Spec => StartsInOrder
<1>1. IInv /\ Promised /\ Ordered /\ [Next]_vars =>
        [\A r, other \in Requests :
           /\ task[r] = "answered" /\ task'[r] = "working"
           /\ Earlier(other, r)
           => row[other].status # "queued" \/ task[other] = "failing"]_vars
  <2> SUFFICES ASSUME IInv, Promised, Ordered, [Next]_vars,
                      NEW r \in Requests, NEW other \in Requests,
                      task[r] = "answered", task'[r] = "working", Earlier(other, r)
               PROVE  row[other].status # "queued" \/ task[other] = "failing"
    OBVIOUS
  <2>1. daemon = "up" /\ task[r] \in Started
    BY StartIsChecked DEF Started, Claimed
  <2>2. Before(order, other, r)
    BY DEF Earlier, Before
  <2> QED BY <2>1, <2>2 DEF Ordered, InOrder
<1> QED BY <1>1, OrderedAlways, PTL DEF Spec, StartsInOrder

-----------------------------------------------------------------------------
(* What the messages of the channel ask of admission.                      *)

\* Nothing changes of what admission sees.
Unseen == UNCHANGED <<line, turn, maintenance>>

LEMMA UnseenStutters == Unseen => UNCHANGED Admission!service
BY DEF Unseen, Admission!service

\* A task that ends leaves the line, gives the permit back, or had neither.
LEMMA WithoutLeaves ==
  ASSUME Listed, NEW r \in Requests
  PROVE  \/ Without(line, r) = line /\ ~InSeq(line, r)
         \/ /\ InSeq(line, r)
            /\ \E i \in 1 .. Len(line) :
                 Without(line, r) = SubSeq(line, 1, i - 1) \o SubSeq(line, i + 1, Len(line))
<1>1. DOMAIN line = 1 .. Len(line)
  BY LenProperties DEF Listed
<1>2. CASE InSeq(line, r)
  <2>1. PICK i \in 1 .. Len(line) : i = (CHOOSE j \in DOMAIN line : line[j] = r)
    BY <1>1, <1>2 DEF InSeq
  <2>2. Without(line, r) = RemoveAt(line, i)
    BY <1>2, <2>1 DEF InSeq, Without
  <2> QED BY <1>2, <2>2 DEF RemoveAt
<1>3. CASE ~InSeq(line, r)
  BY <1>3 DEF InSeq, Without
<1> QED BY <1>2, <1>3

LEMMA Leaves ==
  ASSUME NEW i \in 1 .. Len(line), UNCHANGED <<turn, maintenance>>,
         line' = SubSeq(line, 1, i - 1) \o SubSeq(line, i + 1, Len(line))
  PROVE  Admission!Leave("channel")
BY DEF Admission!Leave

LEMMA BusyIs == Admission!Busy = IF turn = Nobody THEN {} ELSE {"channel"}
BY DEF Admission!Busy

LEMMA OverIsSeen ==
  ASSUME IInv, Ordered, NEW r \in Requests, Over(r), maintenance' = maintenance
  PROVE  [Admission!Next]_(Admission!service)
<1>t. Memory /\ Listed
  BY DEF IInv, Ordered
<1>1. line' = Without(line, r) /\ turn' = IF turn = r THEN Nobody ELSE turn
  BY DEF Over
<1>2. CASE InSeq(line, r)
  <2>1. turn' = turn
    BY <1>t, <1>1, <1>2 DEF Memory, PermitHasHolder, Listed
  <2>2. \E i \in 1 .. Len(line) :
          line' = SubSeq(line, 1, i - 1) \o SubSeq(line, i + 1, Len(line))
    BY <1>t, <1>1, <1>2, WithoutLeaves
  <2> QED BY <2>1, <2>2, Leaves DEF Admission!Next
<1>3. CASE ~InSeq(line, r)
  <2>1. line' = line
    BY <1>t, <1>1, <1>3, WithoutLeaves
  <2>2. CASE turn = r
    <3>1. turn' = Nobody /\ turn # Nobody
      BY <1>1, <2>2, RequestsAssumption
    <3>2. Admission!End("channel")
      BY <2>1, <3>1, BusyIs DEF Admission!End
    <3> QED BY <3>2 DEF Admission!Next
  <2>3. CASE turn # r
    BY <1>1, <2>1, <2>3, UnseenStutters DEF Unseen
  <2> QED BY <2>2, <2>3
<1> QED BY <1>2, <1>3

\* The cardinality of the instance is that of the module.
LEMMA SameCount == \A S : Admission!Cardinality(S) = Cardinality(S)
BY DEF Admission!Cardinality, Cardinality

LEMMA AdmitIsSeen ==
  ASSUME IInv, Ordered, NEW r \in Requests, Admit(r)
  PROVE  [Admission!Next]_(Admission!service)
<1>1. CASE ~FirstInLine(r)
  BY <1>1, UnseenStutters DEF Admit, Unseen
<1>2. CASE FirstInLine(r)
  <2>1. /\ turn = Nobody /\ turn' = r /\ r = Head(line) /\ line' = Tail(line)
        /\ maintenance = "open" /\ maintenance' = "open"
    BY <1>2 DEF Admit, FirstInLine
  <2>2. line # <<>>
    BY HeadIsBefore DEF Ordered, Listed, Admit
  <2>3. Admission!Busy = {}
    BY <2>1, BusyIs
  <2>4. Admission!Cardinality(Admission!Busy) < 1
    BY <2>3, SameCount, FS_EmptySet
  <2>5. Admission!Begin("channel")
    BY <2>1, <2>2, <2>3, <2>4 DEF Admission!Begin
  <2> QED BY <2>5 DEF Admission!Next
<1> QED BY <1>1, <1>2

LEMMA AdmissionStep ==
  ASSUME IInv, Promised, Ordered, [Next]_vars, Serving, Serving'
  PROVE  [Admission!Next]_(Admission!service)
<1>t. Types /\ Memory /\ Listed
  BY DEF IInv, Ordered
<1>1. ASSUME NEW r \in Requests,
             SubmitCheck(r) \/ Retire(r) \/ StreamDraft(r) \/ Cancel(r) \/ SettleDraft(r)
      PROVE  [Admission!Next]_(Admission!service)
  BY <1>1, UnseenStutters DEF SubmitCheck, Retire, StreamDraft, Cancel, SettleDraft, memory, Unseen
<1>2. ASSUME NEW bound \in BOOLEAN, NEW device \in BOOLEAN,
             SubmitInsert(bound, device)
      PROVE  [Admission!Next]_(Admission!service)
  <2>1. PICK r \in Requests : r = submission.of
    BY <1>t, <1>2 DEF SubmitInsert, Types
  <2>2. CASE maintenance = "open"
    <3>1. line' = Append(line, r) /\ turn' = turn /\ maintenance' = "open"
      BY <1>2, <2>1, <2>2 DEF SubmitInsert
    <3>2. Admission!Join("channel")
      BY <2>2, <3>1 DEF Admission!Join
    <3> QED BY <3>2 DEF Admission!Next
  <2>3. CASE maintenance # "open"
    BY <1>2, <2>3, UnseenStutters DEF SubmitInsert, Unseen
  <2> QED BY <2>2, <2>3
<1>3. CASE MarkFailed \/ CloseQuestion \/ BeginShutdown \/ UNCHANGED vars
  BY <1>3, UnseenStutters DEF MarkFailed, CloseQuestion, BeginShutdown, memory, vars, Unseen
<1>4. ASSUME NEW r \in Requests, Walking(r)
      PROVE  [Admission!Next]_(Admission!service)
  <2>1. UNCHANGED <<turn, maintenance>>
    BY <1>t, <1>4, WalkingMoves
  <2>2. CASE LeaveLine(r)
    <3>1. line' = Without(line, r)
      BY <2>2 DEF LeaveLine
    <3>2. line' = line \/ \E i \in 1 .. Len(line) :
            line' = SubSeq(line, 1, i - 1) \o SubSeq(line, i + 1, Len(line))
      BY <1>t, <3>1, WithoutLeaves
    <3> QED BY <2>1, <3>2, Leaves, UnseenStutters DEF Unseen, Admission!Next
  <2>3. CASE ~LeaveLine(r)
    <3>1. line' = line
      BY <1>4, <2>3
         DEF Walking, PassToken, BeginClaim, CheckClaimed, CheckAnswered, TakeDraft,
             Return, Abort, EndWithoutReply, StoreReply
    <3> QED BY <2>1, <3>1, UnseenStutters DEF Unseen
  <2> QED BY <2>2, <2>3
<1>5. ASSUME NEW r \in Requests,
             DeferInLine(r) \/ DeferAdmitted(r) \/ Requeue(r) \/ Record(r)
      PROVE  [Admission!Next]_(Admission!service)
  BY <1>5, OverIsSeen DEF DeferInLine, DeferAdmitted, Requeue, Record
<1>6. ASSUME NEW r \in Requests, Admit(r) PROVE [Admission!Next]_(Admission!service)
  BY <1>6, AdmitIsSeen
<1>7. ASSUME NEW r \in Requests, Claim(r) \/ AnswerBound(r)
      PROVE  [Admission!Next]_(Admission!service)
  BY <1>7, UnseenStutters DEF Claim, AnswerBound, Unseen
<1>8. CASE BeginMaintenance
  <2>1. /\ maintenance = "open" /\ maintenance' = "closing" /\ line = <<>> /\ turn = Nobody
        /\ UNCHANGED <<line, turn>>
    BY <1>8 DEF BeginMaintenance, memory
  <2>2. Admission!Close
    BY <2>1, BusyIs DEF Admission!Close
  <2> QED BY <2>2 DEF Admission!Next
<1>9. CASE LockData \/ EndMaintenance \/ Purge
  <2>1. UNCHANGED <<line, turn>> /\ maintenance # "open"
    BY <1>9 DEF LockData, EndMaintenance, Purge, memory
  <2>2. CASE maintenance' = "open"
    <3>1. Admission!Reopen
      BY <2>1, <2>2 DEF Admission!Reopen
    <3> QED BY <3>1 DEF Admission!Next
  <2>3. CASE maintenance' # "open"
    BY <2>1, <2>3 DEF Admission!service
  <2> QED BY <2>2, <2>3
<1>10. ~(Exit \/ Crash \/ Recover \/ StartUp)
  BY DEF Exit, Crash, Die, Recover, StartUp, Serving
<1> QED BY NextCases, <1>1, <1>2, <1>3, <1>4, <1>5, <1>6, <1>7, <1>8, <1>9, <1>10

\* The messages of a channel use admission as ChannelService allows it, which is
\* what TurnAdmission was shown to implement.
THEOREM AdmissionIsKept == Spec => KeepsAdmission
<1>1. IInv /\ Promised /\ Ordered /\ [Next]_vars =>
        [Serving /\ Serving' => [Admission!Next]_(Admission!service)]_vars
  BY AdmissionStep
<1> QED BY <1>1, OrderedAlways, PTL DEF Spec, KeepsAdmission
=============================================================================
