----------------------------- MODULE PlannedWork -----------------------------
(***************************************************************************)
(* Planned work: the schedules (db/agent_schedule_repo.rs), the hourly     *)
(* review of goals (db/goal_review_repo.rs) and the loop that turns what   *)
(* is due into queued jobs and starts them (runtime/background_work.rs).   *)
(*                                                                         *)
(* A step is one transaction or one awaited read; reads of tables that do  *)
(* not concern each other are one step.  The loop reads the list of what   *)
(* is due and then, for every schedule on it, the room in the queue and    *)
(* the state of its goal before the transaction that fires it: the owner,  *)
(* the reviews and other callers run in between.                           *)
(*                                                                         *)
(* A job is reduced to what planning asks of it.  "running" stands for     *)
(* every state of a job that was claimed and has not settled (stopping and *)
(* waiting for the owner included), "interrupted" for every one that may   *)
(* be resumed, "offered" for such a job whose result is being delivered;   *)
(* the module DurableWork tells them apart.  Retention forgets any of the  *)
(* settled jobs over its limit; finished schedules it may forget at will.  *)
(* A goal that rests is completed, paused or archived, or goal work is     *)
(* switched off.                                                           *)
(***************************************************************************)
EXTENDS Integers, Sequences, FiniteSets, SequencesExt

CONSTANTS
    Sources,         \* identities of schedules (source_key)
    Goals,           \* identities of goals
    Asked,           \* source -> what its request asks for: every, goal
    MaxOutstanding,  \* live jobs the queue admits
    MaxEnabled,      \* schedules kept active, and the batch of due_schedules
    MaxRetained,     \* settled jobs that are kept
    Interval,        \* every_seconds of the schedules that recur
    ReviewInterval,  \* seconds between two reviews of the goals
    MaxTime,         \* bound: the clock
    MaxJobs,         \* bound: jobs made
    MaxChanges       \* bound: requests of the owner and restarts of the daemon

ASSUME PlanningAssumption ==
    /\ Sources \subseteq Nat \ {0} /\ IsFiniteSet(Sources)
    /\ Goals \subseteq Nat \ {0} /\ IsFiniteSet(Goals)
    /\ Asked \in [Sources -> [every : {0, Interval}, goal : Goals \cup {0}]]
    /\ MaxOutstanding \in Nat \ {0}
    /\ MaxEnabled \in Nat \ {0}
    /\ MaxRetained \in Nat
    /\ MaxTime \in Nat
    /\ MaxJobs \in Nat
    /\ MaxChanges \in Nat
    /\ Interval \in Nat \ {0}
    /\ ReviewInterval \in Nat \ {0}

VARIABLES
    now,         \* the clock
    goals,       \* goal -> its status
    schedules,   \* source -> its row in agent_schedules
    retired,     \* tombstones of schedules
    jobs,        \* agent_jobs, in the order they were made
    tombstones,  \* identities of jobs that are gone or were renamed
    loop,        \* where the loop of background work stands
    reviewAt,    \* next_due_at of the cadence "goals"
    changes,     \* requests and restarts so far
    refused      \* is there a saved answer that enqueue_in always refuses

plan == <<schedules, retired>>
queue == <<jobs, tombstones>>
vars == <<now, goals, plan, queue, loop, reviewAt, changes, refused>>

None       == 0
NoSchedule == [generation |-> 0]
Time       == 0 .. MaxTime + Interval + ReviewInterval

Schedule == [generation : Nat \ {0}, enabled : BOOLEAN, due : Time,
             every : {None, Interval}, goal : Goals \cup {None}, last : 0 .. MaxJobs]

\* The identity of a job: the occurrence of a schedule or of a review it is for.
Occurrence(s, row) == [of |-> "schedule", id |-> s, generation |-> row.generation, due |-> row.due]
Review(g, d)       == [of |-> "goal", id |-> g, generation |-> None, due |-> d]

JobKey == [of : {"schedule", "goal"}, id : Sources \cup Goals, generation : Nat, due : Time]

JobStatus == {"queued", "running", "settled", "interrupted", "offered", "forgotten"}

Job == [key : JobKey, schedule : Sources \cup {None}, goal : Goals \cup {None},
        status : JobStatus, resumed : BOOLEAN]

TypeOK ==
    /\ now \in 0 .. MaxTime
    /\ goals \in [Goals -> {"active", "resting", "removed"}]
    /\ schedules \in [Sources -> Schedule \cup {NoSchedule}]
    /\ retired \subseteq Sources
    /\ jobs \in Seq(Job)
    /\ tombstones \subseteq JobKey
    /\ loop \in [at : {"idle", "check", "enqueue", "start", "claim"},
                 now : 0 .. MaxTime, todo : Seq(Sources), job : 0 .. MaxJobs]
    /\ reviewAt \in Time
    /\ changes \in 0 .. MaxChanges
    /\ refused \in BOOLEAN

Idle == [at |-> "idle", now |-> 0, todo |-> << >>, job |-> None]

Init ==
    /\ now = 0
    /\ goals = [g \in Goals |-> "active"]
    /\ schedules = [s \in Sources |-> NoSchedule]
    /\ retired = {}
    /\ jobs = << >>
    /\ tombstones = {}
    /\ loop = Idle
    /\ reviewAt = 0
    /\ changes = 0
    /\ refused = FALSE

-----------------------------------------------------------------------------
(***************************************************************************)
(* What the tables show.                                                   *)
(***************************************************************************)
Live(j)     == jobs[j].status \in {"queued", "running"}
Outstanding == Cardinality({j \in DOMAIN jobs : Live(j)})
Kept(s)     == schedules[s] # NoSchedule
Enabled(s)  == Kept(s) /\ schedules[s].enabled
StateOf(g)  == IF g = None THEN "active" ELSE goals[g]

\* The identities enqueue_in finds in the table or among the tombstones.
Used == tombstones \cup {jobs[j].key : j \in {i \in DOMAIN jobs : jobs[i].status # "forgotten"}}

\* The schedules that count against the limit: the enabled ones, and those that
\* may be enabled again without asking.
Counted == {s \in Sources : Kept(s) /\ (\/ schedules[s].enabled
                                       \/ schedules[s].every # None
                                       \/ schedules[s].last = None)}

\* The first occurrence after a time, in the cadence of the last one.
NextDue(due, every, at) == due + ((at - due) \div every + 1) * every

\* Mutant: what is queued already stays queued.
QueueKept(s) == jobs

\* The queued jobs of a schedule are cancelled, and so never delivered.
QueuedCancelled(s) ==
    [j \in DOMAIN jobs |-> IF jobs[j].schedule = s /\ jobs[j].status = "queued"
                           THEN [jobs[j] EXCEPT !.status = "settled"] ELSE jobs[j]]

NewJob(k, s, g) == [key |-> k, schedule |-> s, goal |-> g, status |-> "queued", resumed |-> FALSE]

-----------------------------------------------------------------------------
(***************************************************************************)
(* The owner, and the agent for the owner.                                 *)
(***************************************************************************)

\* A retry of the same request finds its schedule and changes nothing; one of a
\* schedule that was removed is refused.
CreateSchedule(s, at) ==
    /\ ~Kept(s)
    /\ s \notin retired
    /\ StateOf(Asked[s].goal) # "removed"
    /\ Cardinality(Counted) < MaxEnabled
    /\ schedules' = [schedules EXCEPT ![s] =
          [generation |-> 1, enabled |-> TRUE, due |-> at, every |-> Asked[s].every,
           goal |-> Asked[s].goal, last |-> None]]
    /\ UNCHANGED <<now, goals, retired, queue, loop, reviewAt>>

\* Mutant: a schedule that is enabled again keeps its generation.
EnabledAgain(s, on) ==
    IF schedules[s].enabled = on THEN schedules
    ELSE [schedules EXCEPT ![s].enabled = on]

\* Only a change is a new generation.
Switched(s, on) ==
    IF schedules[s].enabled = on THEN schedules
    ELSE [schedules EXCEPT ![s].enabled = on, ![s].generation = @ + 1]

\* A finished schedule that is enabled again counts against the limit again.
SetScheduleEnabled(s, on) ==
    /\ Kept(s)
    /\ on /\ s \notin Counted => Cardinality(Counted) < MaxEnabled
    /\ schedules' = Switched(s, on)
    /\ jobs' = IF on THEN jobs ELSE QueuedCancelled(s)

OwnerSwitches(s, on) ==
    /\ Kept(s)
    /\ SetScheduleEnabled(s, on)
    /\ UNCHANGED <<now, goals, retired, tombstones, loop, reviewAt>>

\* The caller names the generation it has read; a schedule that fired since then
\* still has it.
Reschedule(s, at) ==
    /\ Kept(s)
    /\ schedules' = [schedules EXCEPT ![s].due = at, ![s].generation = @ + 1]
    /\ UNCHANGED <<now, goals, retired, queue, loop, reviewAt>>

DeleteSchedule(s) ==
    /\ Kept(s)
    /\ schedules' = [schedules EXCEPT ![s] = NoSchedule]
    /\ retired' = retired \cup {s}
    /\ jobs' = QueuedCancelled(s)
    /\ UNCHANGED <<now, goals, tombstones, loop, reviewAt>>

SetGoal(g, status) ==
    /\ goals[g] \notin {"removed", status}
    /\ goals' = [goals EXCEPT ![g] = status]
    /\ UNCHANGED <<now, plan, queue, loop, reviewAt>>

CancelJob(j) ==
    /\ jobs[j].status = "queued"
    /\ jobs' = [jobs EXCEPT ![j].status = "settled"]
    /\ UNCHANGED <<now, goals, plan, tombstones, loop, reviewAt>>

\* Work that failed is resumed, or work that waits for the owner is answered.
\* Bound: once for each job.
ResumeJob(j) ==
    /\ \/ jobs[j].status = "interrupted" /\ Outstanding < MaxOutstanding
       \/ jobs[j].status = "running"
    /\ ~jobs[j].resumed
    /\ jobs' = [jobs EXCEPT ![j].status = "queued", ![j].resumed = TRUE]
    /\ UNCHANGED <<now, goals, plan, tombstones, loop, reviewAt>>

\* An answer to a question of the chat, saved at a length that a continuation does
\* not take (the module DurableWork).  Nothing removes it.
AnswerAtLength ==
    /\ ~refused
    /\ refused' = TRUE
    /\ UNCHANGED <<now, goals, plan, queue, loop, reviewAt>>

-----------------------------------------------------------------------------
(***************************************************************************)
(* The loop: what is due.                                                  *)
(***************************************************************************)
Due == {s \in Sources : Enabled(s) /\ schedules[s].due <= now}

\* due_schedules: the earliest first; of those due together, either.
DueLists == {list \in SetToSeqs(Due) : \A i, j \in DOMAIN list :
                i <= j => schedules[list[i]].due <= schedules[list[j]].due}

\* release_owner_answers comes first, and its error is the error of the pass; an
\* answer that finds the queue full is left for later without one.
ReleaseFails == refused /\ Outstanding < MaxOutstanding

QueueSchedules ==
    /\ loop.at = "idle"
    /\ Due # {} \/ \E j \in DOMAIN jobs : jobs[j].status = "queued"
    /\ \/ (Due = {} \/ ReleaseFails) /\ loop' = [Idle EXCEPT !.at = "start"]
       \/ /\ Due # {} /\ ~ReleaseFails
          /\ \E list \in DueLists :
                loop' = [at |-> "check", now |-> now, todo |-> list, job |-> None]
    /\ UNCHANGED <<now, goals, plan, queue, reviewAt, changes, refused>>

PassEnds == loop' = [Idle EXCEPT !.at = "start"]

\* Mutant: what is handled ends the pass.
OnwardNever == PassEnds

\* The pass goes on to the next schedule, or to starting jobs.
Onward ==
    loop' = IF Len(loop.todo) = 1 THEN [Idle EXCEPT !.at = "start"]
            ELSE [loop EXCEPT !.at = "check", !.todo = Tail(@)]

\* The loop asks whether there is room in the queue and reads the goal.  A schedule
\* whose goal is gone is disabled; one whose goal rests stays due.  One that was
\* deleted since the list was read ends the pass if its goal is gone too.
CheckRoomAndGoal ==
    LET s    == Head(loop.todo)
        goal == StateOf(Asked[s].goal)
    IN
    /\ loop.at = "check"
    /\ \/ /\ Outstanding >= MaxOutstanding
          /\ PassEnds
          /\ UNCHANGED <<schedules, jobs>>
       \/ /\ Outstanding < MaxOutstanding
          /\ goal = "active"
          /\ loop' = [loop EXCEPT !.at = "enqueue"]
          /\ UNCHANGED <<schedules, jobs>>
       \/ /\ Outstanding < MaxOutstanding
          /\ goal = "resting"
          /\ Onward
          /\ UNCHANGED <<schedules, jobs>>
       \/ /\ Outstanding < MaxOutstanding
          /\ goal = "removed"
          /\ IF Kept(s) THEN SetScheduleEnabled(s, FALSE) /\ Onward
             ELSE PassEnds /\ UNCHANGED <<schedules, jobs>>
    /\ UNCHANGED <<now, goals, retired, tombstones, reviewAt, changes, refused>>

\* Mutant: the row is not read again.
StillDueUnread(s) == Kept(s)

\* The transaction reads the row again.
StillDue(s) == Enabled(s) /\ schedules[s].due <= loop.now

After(row) == NextDue(row.due, row.every, loop.now)

\* The schedule moves on in the transaction that queues its job; if the queue
\* refuses the job nothing happens, and the pass ends.  A schedule whose job is
\* not settled yet skips the occurrence, or stays due if it has only one.
EnqueueSchedule ==
    LET s   == Head(loop.todo)
        row == schedules[s]
        key == Occurrence(s, row)
    IN
    /\ loop.at = "enqueue"
    /\ \/ /\ ~StillDue(s)
          /\ Onward
          /\ UNCHANGED <<schedules, jobs>>
       \/ /\ StillDue(s)
          /\ \E j \in DOMAIN jobs : jobs[j].schedule = s /\ Live(j)
          /\ schedules' = IF row.every = None THEN schedules
                          ELSE [schedules EXCEPT ![s].due = After(row)]
          /\ Onward
          /\ UNCHANGED jobs
       \/ /\ StillDue(s)
          /\ \A j \in DOMAIN jobs : jobs[j].schedule = s => ~Live(j)
          /\ IF Outstanding < MaxOutstanding /\ key \notin Used
             THEN /\ Len(jobs) < MaxJobs
                  /\ jobs' = Append(jobs, NewJob(key, s, row.goal))
                  /\ schedules' = [schedules EXCEPT ![s] =
                        [row EXCEPT !.enabled = row.every # None, !.last = Len(jobs) + 1,
                                    !.due = IF row.every = None THEN row.due ELSE After(row)]]
                  /\ Onward
             ELSE PassEnds /\ UNCHANGED <<schedules, jobs>>
    /\ UNCHANGED <<now, goals, retired, tombstones, reviewAt, changes, refused>>

-----------------------------------------------------------------------------
(***************************************************************************)
(* The loop: jobs.                                                         *)
(***************************************************************************)
Candidates == {j \in DOMAIN jobs : jobs[j].status = "queued"}

\* The oldest queued job starts, unless its goal is not active any more.
StartNext ==
    LET j == CHOOSE i \in Candidates : \A k \in Candidates : i <= k IN
    /\ loop.at = "start"
    /\ IF Candidates = {}
       THEN loop' = Idle /\ UNCHANGED jobs
       ELSE IF StateOf(jobs[j].goal) # "active"
       THEN loop' = Idle /\ jobs' = [jobs EXCEPT ![j].status = "settled"]
       ELSE loop' = [loop EXCEPT !.at = "claim", !.job = j] /\ UNCHANGED jobs
    /\ UNCHANGED <<now, goals, plan, tombstones, reviewAt, changes, refused>>

Claim ==
    /\ loop.at = "claim"
    /\ IF jobs[loop.job].status = "queued"
       THEN /\ jobs' = [jobs EXCEPT ![loop.job].status = "running"]
            /\ loop' = [Idle EXCEPT !.at = "start"]
       ELSE loop' = Idle /\ UNCHANGED jobs
    /\ UNCHANGED <<now, goals, plan, tombstones, reviewAt, changes, refused>>

\* A run settles, as its result or as it was stopped.
Finish(j) ==
    /\ jobs[j].status = "running"
    /\ \E status \in {"settled", "interrupted"} :
          jobs' = [jobs EXCEPT ![j].status = status]
    /\ UNCHANGED <<now, goals, plan, tombstones, loop, reviewAt, changes, refused>>

\* Only the reviews ask whether a result is being delivered.
Deliver(j) ==
    /\ jobs[j].goal # None
    /\ jobs[j].status \in {"interrupted", "offered"}
    /\ jobs' = [jobs EXCEPT ![j].status = IF @ = "offered" THEN "interrupted" ELSE "offered"]
    /\ UNCHANGED <<now, goals, plan, tombstones, loop, reviewAt, changes, refused>>

\* Mutant: retention leaves no tombstone of a job.
ForgetWithoutTrace(j) == tombstones

TombstoneOf(j) == tombstones \cup {jobs[j].key}

PruneJob(j) ==
    /\ jobs[j].status \in {"settled", "interrupted"}
    /\ Cardinality({i \in DOMAIN jobs : jobs[i].status \in {"settled", "interrupted"}}) > MaxRetained
    /\ jobs' = [jobs EXCEPT ![j].status = "forgotten"]
    /\ tombstones' = TombstoneOf(j)
    /\ UNCHANGED <<now, goals, plan, loop, reviewAt, changes, refused>>

\* A finished schedule is forgotten too, though its job may be waiting for the owner;
\* its request stays refused.
PruneSchedule(s) ==
    /\ Kept(s)
    /\ ~schedules[s].enabled
    /\ schedules[s].every = None
    /\ schedules[s].last # None
    /\ jobs[schedules[s].last].status # "queued"
    /\ schedules' = [schedules EXCEPT ![s] = NoSchedule]
    /\ retired' = retired \cup {s}
    /\ UNCHANGED <<now, goals, queue, loop, reviewAt, changes, refused>>

-----------------------------------------------------------------------------
(***************************************************************************)
(* The reviews.                                                            *)
(***************************************************************************)

\* The latest job of a goal, 0 if it has none.
Previous(g) == LET of == {j \in DOMAIN jobs : jobs[j].goal = g /\ jobs[j].status # "forgotten"}
               IN IF of = {} THEN None ELSE CHOOSE j \in of : \A i \in of : i <= j

\* The goal has no live work and was not reviewed for this occurrence.
Open(g) == (Previous(g) = None \/ ~Live(Previous(g))) /\ Review(g, reviewAt) \notin Used

\* Longest without work first.
Before(g, h) == Previous(g) < Previous(h) \/ (Previous(g) = Previous(h) /\ g < h)

\* Of the open goals that are listed, those that are started: as many as there is
\* room for.  A goal whose last result is being delivered has to wait.
Started(listed) ==
    LET ready == {g \in listed : Open(g) /\ (Previous(g) = None \/ jobs[Previous(g)].status # "offered")}
    IN {g \in ready : Cardinality({h \in ready : Before(h, g)}) < MaxOutstanding - Outstanding}

\* Failed or interrupted work of the goal is resumed under its new identity.
Resumed(started) == {g \in started : Previous(g) # None /\ jobs[Previous(g)].status = "interrupted"}

RenewedJobs(resumed) ==
    [j \in DOMAIN jobs |->
        IF \E g \in resumed : j = Previous(g)
        THEN [jobs[j] EXCEPT !.status = "queued", !.key = Review(jobs[j].goal, reviewAt)]
        ELSE jobs[j]]

\* The others begin new work, in the order of the list.
InOrder(begun) == {list \in SetToSeqs(begun) : \A i, j \in DOMAIN list :
                      i < j => Before(list[i], list[j])}

ReviewJobs(list) == [i \in DOMAIN list |-> NewJob(Review(list[i], reviewAt), None, list[i])]

\* The trigger lists the active goals before the transaction: any of them may have
\* been changed since, and those whose last reviews changed nothing are not listed.
\* The clock moves when every goal that was listed has been seen to.
ReviewGoals(listed) ==
    LET started  == Started(listed)
        resumed  == Resumed(started)
        complete == \A g \in listed : Open(g) => g \in started
    IN
    /\ reviewAt <= now
    /\ \E begun \in InOrder(started \ resumed) :
          /\ Len(jobs) + Len(begun) <= MaxJobs
          /\ jobs' = RenewedJobs(resumed) \o ReviewJobs(begun)
    /\ tombstones' = tombstones \cup {jobs[Previous(g)].key : g \in resumed}
    /\ reviewAt' = IF complete THEN NextDue(reviewAt, ReviewInterval, now) ELSE reviewAt
    /\ UNCHANGED <<now, goals, plan, loop, changes, refused>>

-----------------------------------------------------------------------------
Tick ==
    /\ now < MaxTime
    /\ now' = now + 1
    /\ UNCHANGED <<goals, plan, queue, loop, reviewAt, changes, refused>>

\* The daemon stops at any point and starts again: what ran is interrupted.
Restart ==
    /\ loop' = Idle
    /\ jobs' = [j \in DOMAIN jobs |-> IF jobs[j].status \in {"running", "offered"}
                                      THEN [jobs[j] EXCEPT !.status = "interrupted"] ELSE jobs[j]]
    /\ UNCHANGED <<now, goals, plan, tombstones, reviewAt>>

Request ==
    \/ \E s \in Sources :
         \/ \E at \in 0 .. MaxTime : CreateSchedule(s, at) \/ Reschedule(s, at)
         \/ \E on \in BOOLEAN : OwnerSwitches(s, on)
         \/ DeleteSchedule(s)
    \/ \E g \in Goals, status \in {"active", "resting", "removed"} : SetGoal(g, status)
    \/ \E j \in DOMAIN jobs : CancelJob(j) \/ ResumeJob(j)

Disturbance ==
    /\ changes < MaxChanges
    /\ changes' = changes + 1
    /\ AnswerAtLength \/ ((Request \/ Restart) /\ UNCHANGED refused)

Loop ==
    QueueSchedules \/ CheckRoomAndGoal \/ EnqueueSchedule \/ StartNext \/ Claim

Jobs ==
    \/ \E j \in DOMAIN jobs : Finish(j) \/ Deliver(j) \/ PruneJob(j)
    \/ \E s \in Sources : PruneSchedule(s)

Next ==
    \/ Disturbance \/ Loop \/ Jobs \/ Tick
    \/ \E listed \in SUBSET Goals : ReviewGoals(listed)

Spec == Init /\ [][Next]_vars

(***************************************************************************)
(* The loop goes on: it waits at most a second.  Nothing is assumed of the *)
(* owner, of the reviews or of the jobs: a job that waits for an answer    *)
(* which is never released does not end (the module DurableWork).          *)
(***************************************************************************)
Fairness == WF_vars(Loop)

FairSpec == Spec /\ Fairness

-----------------------------------------------------------------------------
(***************************************************************************)
(* Properties.                                                             *)
(***************************************************************************)

\* The next occurrence of an enabled schedule has an identity no job ever had,
\* however often the schedule was moved, disabled, enabled and fired: the queue
\* never refuses it as a repetition of other work, which would end every pass
\* of the loop at this schedule.
KeyIsFresh ==
    \A s \in Sources : Enabled(s) => Occurrence(s, schedules[s]) \notin Used

\* Planned work that waits in the queue is work the owner still wants: its schedule
\* is there and enabled, or had this one occurrence, though the schedule may be
\* disabled or deleted while the loop holds it as due.
QueuedIsWanted ==
    \A j \in DOMAIN jobs :
        (jobs[j].status = "queued" /\ jobs[j].key.of = "schedule" /\ ~jobs[j].resumed) =>
            LET s == jobs[j].schedule IN
            Kept(s) /\ (schedules[s].enabled \/ (schedules[s].every = None /\ schedules[s].last = j))

\* The identities of the jobs that a step makes or renames.
BegunNow == {jobs'[j].key : j \in {i \in DOMAIN jobs' :
                i \in DOMAIN jobs => jobs[i].key # jobs'[i].key}}

\* A goal is reviewed once for each turn of the review clock, and a schedule fires
\* once for each occurrence: no job takes an identity that was used, and retention
\* or a resumed review never makes one free again.
ReviewsDoNotRepeat == [][BegunNow \cap Used = {} /\ Used \subseteq Used']_vars

PlanOf(s) ==
    IF Kept(s) THEN [state |-> "kept", on |-> schedules[s].enabled, due |-> schedules[s].due,
                     every |-> schedules[s].every, edition |-> schedules[s].generation]
    ELSE [state |-> IF s \in retired THEN "gone" ELSE "none", on |-> FALSE, due |-> 0,
          every |-> 0, edition |-> 0]

Fired == {j \in DOMAIN jobs : jobs[j].schedule # None}

Contract == INSTANCE ScheduleContract WITH
    plans <- [s \in Sources |-> PlanOf(s)],
    busy  <- {jobs[j].schedule : j \in {i \in DOMAIN jobs : Live(i)}},
    fired <- Cardinality(Fired)

\* What the loop does between the owner's requests is what schedules promise
\* (the module ScheduleContract): fired when due and on, once, in their cadence.
KeepsSchedule == Contract!Spec

\* A schedule whose time has come does not stay due for ever: the loop fires it or
\* skips the occurrence, or the owner changes it, or its goal rests; one that has
\* only this occurrence and was enabled again waits for its last job.  No other
\* schedule keeps it from its turn, and neither does a queue that is full for a
\* while: only an answer that no release gets past, or a queue that stays full.
DueIsServed ==
    \A s \in Sources :
        \/ <>[](refused \/ Outstanding >= MaxOutstanding)
        \/ []<>(Enabled(s) /\ schedules[s].due <= now =>
                   \/ StateOf(schedules[s].goal) # "active"
                   \/ /\ schedules[s].every = None
                      /\ \E j \in DOMAIN jobs : jobs[j].schedule = s /\ Live(j)
                   \/ Len(jobs) = MaxJobs)
=============================================================================
