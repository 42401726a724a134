-------------------------- MODULE PlannedWorkProofs --------------------------
(***************************************************************************)
(* Proofs about planned work: for any schedules and goals, any limits and  *)
(* any interleaving of the owner, the loop, the reviews and retention, no  *)
(* identity of a job is ever used twice, what waits in the queue is wanted *)
(* and every schedule keeps its promise.                                   *)
(*                                                                         *)
(* Why an identity is fresh is a fact about the past: retention may have   *)
(* forgotten the job that had it, and the owner may have moved, switched   *)
(* or fired the schedule any number of times since.  Past says it of every *)
(* identity that was ever used: a schedule that is kept is at a later      *)
(* generation, or at a later occurrence of the same one if it is enabled;  *)
(* one that is not kept is gone for good.                                  *)
(***************************************************************************)
EXTENDS PlannedWork, FiniteSetTheorems, SequenceTheorems, TLAPS

-----------------------------------------------------------------------------
\* The next occurrence is later than the time asked about, by no more than a period,
\* and lies in the cadence.
LEMMA NextDueFacts ==
    ASSUME NEW due \in Int, NEW every \in Nat \ {0}, NEW at \in Int, due <= at
    PROVE  /\ NextDue(due, every, at) \in Int
           /\ NextDue(due, every, at) > at
           /\ NextDue(due, every, at) <= at + every
           /\ (NextDue(due, every, at) - due) % every = 0
<1> DEFINE q == (at - due) \div every
<1> DEFINE r == (at - due) % every
<1>1. q \in Int /\ r \in Int /\ 0 <= r /\ r < every /\ at - due = every * q + r
  BY Z3
<1> HIDE DEF q, r
<1>2. NextDue(due, every, at) = due + (q + 1) * every
  BY DEF NextDue, q
<1>3. (q + 1) * every = every * q + every /\ every * q \in Int
  BY <1>1, Z3
<1>4. NextDue(due, every, at) - due = (q + 1) * every
  BY <1>1, <1>2, <1>3
<1>5. ((q + 1) * every) % every = 0
  BY <1>1, Z3
<1> QED BY <1>1, <1>2, <1>3, <1>4, <1>5

\* A set of numbers that is not empty has a least one, and a bounded one a greatest:
\* what the CHOOSEs of StartNext and Previous find.
LEMMA LeastIndex ==
    ASSUME NEW S, S \subseteq Nat, S # {}
    PROVE  \E m \in S : \A k \in S : m <= k
<1>1. PICK m \in S : \A k \in S : <<k, m>> \notin OpToRel(<, Nat)
  BY NatLessThanWellFounded, WFMin
<1>2. \A k \in S : ~(k < m)
  BY <1>1 DEF OpToRel
<1> QED BY <1>2

LEMMA GreatestIndex ==
    ASSUME NEW n \in Nat, NEW S, S \subseteq 1 .. n, S # {}
    PROVE  \E m \in S : \A k \in S : k <= m
<1> DEFINE T == {n - k : k \in S}
<1>0. \A k \in S : k \in Int /\ n - k \in Nat
  OBVIOUS
<1>1. T \subseteq Nat /\ T # {}
  BY <1>0
<1>2. PICK t \in T : \A u \in T : t <= u
  BY <1>1, LeastIndex
<1>3. PICK m \in S : t = n - m
  OBVIOUS
<1>4. ASSUME NEW k \in S PROVE k <= m
  <2>1. n - k \in T /\ k \in Int /\ m \in Int
    BY <1>0
  <2>2. t <= n - k
    BY <1>2, <2>1
  <2> QED BY <1>3, <2>1, <2>2
<1> QED BY <1>4

\* The fields of a job, an identity and a row, so that no proof has to open the sets.
LEMMA JobFacts ==
    \A x \in Job : /\ x.key \in JobKey /\ x.schedule \in Sources \cup {None}
                   /\ x.goal \in Goals \cup {None} /\ x.status \in JobStatus
                   /\ x.resumed \in BOOLEAN
BY DEF Job

LEMMA KeyFacts ==
    /\ \A k \in JobKey : k.of \in {"schedule", "goal"} /\ k.generation \in Nat /\ k.due \in Nat
                         /\ k.id \in Sources \cup Goals
    /\ \A g \in Goals, d \in Time : Review(g, d) \in JobKey /\ Review(g, d).of = "goal"
    /\ \A s \in Sources, row \in Schedule :
          /\ Occurrence(s, row) \in JobKey
          /\ Occurrence(s, row)
                = [of |-> "schedule", id |-> s, generation |-> row.generation, due |-> row.due]
<1> USE PlanningAssumption
<1>1. \A k \in JobKey : k.of \in {"schedule", "goal"} /\ k.generation \in Nat /\ k.due \in Nat
                        /\ k.id \in Sources \cup Goals
  BY DEF JobKey, Time
<1>2. \A g \in Goals, d \in Time : Review(g, d) \in JobKey /\ Review(g, d).of = "goal"
  BY DEF JobKey, Review, None
<1>3. \A s \in Sources, row \in Schedule :
          /\ Occurrence(s, row) \in JobKey
          /\ Occurrence(s, row)
                = [of |-> "schedule", id |-> s, generation |-> row.generation, due |-> row.due]
  BY DEF JobKey, Occurrence, Schedule
<1> QED BY <1>1, <1>2, <1>3

LEMMA RowFacts ==
    /\ \A row \in Schedule :
          /\ row.generation \in Nat \ {0} /\ row.enabled \in BOOLEAN /\ row.due \in Time
          /\ row.due \in Nat /\ row.every \in {None, Interval}
          /\ row.goal \in Goals \cup {None} /\ row.last \in 0 .. MaxJobs
          /\ row # NoSchedule
    /\ \A n \in Nat \ {0}, on \in BOOLEAN, d \in Time, e \in {None, Interval},
          g \in Goals \cup {None}, l \in 0 .. MaxJobs :
          [generation |-> n, enabled |-> on, due |-> d, every |-> e, goal |-> g, last |-> l]
              \in Schedule
<1>1. \A row \in Schedule :
          /\ row.generation \in Nat \ {0} /\ row.enabled \in BOOLEAN /\ row.due \in Time
          /\ row.due \in Nat /\ row.every \in {None, Interval}
          /\ row.goal \in Goals \cup {None} /\ row.last \in 0 .. MaxJobs
  BY PlanningAssumption DEF Schedule, Time
<1>2. \A row \in Schedule : row # NoSchedule
  BY <1>1 DEF NoSchedule
<1>3. \A n \in Nat \ {0}, on \in BOOLEAN, d \in Time, e \in {None, Interval},
          g \in Goals \cup {None}, l \in 0 .. MaxJobs :
          [generation |-> n, enabled |-> on, due |-> d, every |-> e, goal |-> g, last |-> l]
              \in Schedule
  BY DEF Schedule
<1> QED BY <1>1, <1>2, <1>3

LEMMA AskedFacts ==
    \A s \in Sources : /\ Asked[s].every \in {None, Interval} /\ Asked[s].goal \in Goals \cup {None}
                       /\ s # None
BY PlanningAssumption DEF None

\* A job that changes its state keeps everything else.
LEMMA JobMoves ==
    ASSUME NEW x \in Job, NEW st \in JobStatus
    PROVE  /\ [x EXCEPT !.status = st] \in Job
           /\ [x EXCEPT !.status = st].status = st
           /\ [x EXCEPT !.status = st].key = x.key
           /\ [x EXCEPT !.status = st].schedule = x.schedule
           /\ [x EXCEPT !.status = st].goal = x.goal
           /\ [x EXCEPT !.status = st].resumed = x.resumed
BY DEF Job

LEMMA NewJobFacts ==
    ASSUME NEW k \in JobKey, NEW s \in Sources \cup {None}, NEW g \in Goals \cup {None}
    PROVE  /\ NewJob(k, s, g) \in Job
           /\ NewJob(k, s, g).key = k /\ NewJob(k, s, g).schedule = s
           /\ NewJob(k, s, g).goal = g /\ NewJob(k, s, g).status = "queued"
           /\ ~NewJob(k, s, g).resumed
BY DEF Job, NewJob, JobStatus

\* A function over 1 .. n is a sequence of n elements.
LEMMA Sequence ==
    ASSUME NEW S, NEW n \in Nat, NEW f \in [1 .. n -> S]
    PROVE  f \in Seq(S) /\ Len(f) = n /\ DOMAIN f = 1 .. n
<1>1. f \in Seq(S)
  BY SeqDef
<1> QED BY <1>1, LenProperties

LEMMA SwitchedRow ==
    ASSUME NEW r \in Schedule, NEW on \in BOOLEAN
    PROVE  [r EXCEPT !.enabled = on, !.generation = @ + 1]
              = [generation |-> r.generation + 1, enabled |-> on, due |-> r.due,
                 every |-> r.every, goal |-> r.goal, last |-> r.last]
<1> DEFINE x == [r EXCEPT !.enabled = on]
<1>1. r.generation + 1 \in Nat \ {0}
  BY RowFacts
<1>2. [r EXCEPT !.enabled = on, !.generation = @ + 1] = [x EXCEPT !.generation = r.generation + 1]
  BY DEF Schedule
<1>3. x \in Schedule /\ x.enabled = on /\ x.due = r.due /\ x.every = r.every
      /\ x.goal = r.goal /\ x.last = r.last
  BY DEF Schedule
<1> HIDE DEF x
<1>4. [x EXCEPT !.generation = r.generation + 1]
        = [generation |-> r.generation + 1, enabled |-> x.enabled, due |-> x.due,
           every |-> x.every, goal |-> x.goal, last |-> x.last]
  BY <1>1, <1>3 DEF Schedule
<1> QED BY <1>2, <1>3, <1>4

LEMMA MovedRow ==
    ASSUME NEW r \in Schedule, NEW at \in Time
    PROVE  [r EXCEPT !.due = at, !.generation = @ + 1]
              = [generation |-> r.generation + 1, enabled |-> r.enabled, due |-> at,
                 every |-> r.every, goal |-> r.goal, last |-> r.last]
<1> DEFINE x == [r EXCEPT !.due = at]
<1>1. r.generation + 1 \in Nat \ {0}
  BY RowFacts
<1>2. [r EXCEPT !.due = at, !.generation = @ + 1] = [x EXCEPT !.generation = r.generation + 1]
  BY DEF Schedule
<1>3. x \in Schedule /\ x.due = at /\ x.enabled = r.enabled /\ x.every = r.every
      /\ x.goal = r.goal /\ x.last = r.last
  BY DEF Schedule
<1> HIDE DEF x
<1>4. [x EXCEPT !.generation = r.generation + 1]
        = [generation |-> r.generation + 1, enabled |-> x.enabled, due |-> x.due,
           every |-> x.every, goal |-> x.goal, last |-> x.last]
  BY <1>1, <1>3 DEF Schedule
<1> QED BY <1>2, <1>3, <1>4

-----------------------------------------------------------------------------
(***************************************************************************)
(* The inductive invariant.                                                *)
(***************************************************************************)

\* Every identity a job has or had, those of forgotten jobs included.
EverUsed == tombstones \cup {jobs[j].key : j \in DOMAIN jobs}

\* The identity of planned work names its schedule.
Named ==
    \A j \in DOMAIN jobs : jobs[j].key.of = "schedule" =>
        jobs[j].schedule \in Sources /\ jobs[j].schedule = jobs[j].key.id

\* The schedule will not come to the occurrence again that was known as k.
Behind(k, s) ==
    IF Kept(s)
    THEN /\ k.generation <= schedules[s].generation
         /\ (k.generation = schedules[s].generation /\ schedules[s].enabled)
               => k.due < schedules[s].due
    ELSE s \in retired

Past == \A k \in EverUsed : k.of = "schedule" => k.id \in Sources /\ Behind(k, k.id)

\* The loop looks at the clock before the clock moves on, has something to do where it
\* stands, and claims a job that is there.
LoopInv ==
    /\ loop.now <= now
    /\ loop.at \in {"check", "enqueue"} => loop.todo # << >>
    /\ loop.at = "claim" => loop.job \in DOMAIN jobs
    /\ DOMAIN jobs \subseteq 1 .. MaxJobs

IInv == TypeOK /\ Named /\ Past /\ LoopInv /\ QueuedIsWanted

-----------------------------------------------------------------------------
(***************************************************************************)
(* Steps by what they do to the jobs, and to one schedule.                 *)
(***************************************************************************)

\* What a step does if it repeats no work (see ReviewsDoNotRepeat).
NoRepeat == BegunNow \cap Used = {} /\ Used \subseteq Used'

\* What every step does to the jobs that only changes the state of some: no identity is
\* made or renamed, no schedule's work begins to wait, and what is forgotten has left its
\* identity.
JobsStay ==
    /\ jobs' \in Seq(Job) /\ Len(jobs') = Len(jobs)
    /\ tombstones \subseteq tombstones' /\ tombstones' \subseteq EverUsed
    /\ \A j \in DOMAIN jobs :
          /\ jobs'[j].key = jobs[j].key /\ jobs'[j].schedule = jobs[j].schedule
          /\ jobs'[j].status = "queued" => jobs[j].status = "queued" \/ jobs'[j].resumed
          /\ jobs[j].resumed => jobs'[j].resumed
          /\ jobs'[j].status = "forgotten" =>
                jobs[j].status = "forgotten" \/ jobs[j].key \in tombstones'

LEMMA JobsType ==
    ASSUME TypeOK
    PROVE  /\ Len(jobs) \in Nat /\ DOMAIN jobs = 1 .. Len(jobs)
           /\ jobs \in [1 .. Len(jobs) -> Job]
           /\ \A j \in DOMAIN jobs : jobs[j] \in Job
           /\ EverUsed \subseteq JobKey
<1>1. /\ Len(jobs) \in Nat /\ DOMAIN jobs = 1 .. Len(jobs)
      /\ jobs \in [1 .. Len(jobs) -> Job]
  BY LenProperties DEF TypeOK
<1>2. \A j \in DOMAIN jobs : jobs[j] \in Job
  BY <1>1
<1>3. EverUsed \subseteq JobKey
  BY <1>2, JobFacts DEF EverUsed, TypeOK
<1> QED BY <1>1, <1>2, <1>3

LEMMA JobsStayKeeps ==
    ASSUME TypeOK, Named, JobsStay
    PROVE  /\ EverUsed' \subseteq EverUsed /\ NoRepeat /\ Named'
           /\ tombstones' \subseteq JobKey
           /\ DOMAIN jobs' = DOMAIN jobs /\ Fired' = Fired
<1>1. DOMAIN jobs' = DOMAIN jobs
  BY JobsType, LenProperties DEF JobsStay
<1>2. EverUsed' \subseteq EverUsed
  BY <1>1 DEF EverUsed, JobsStay
<1>3. BegunNow = {}
  BY <1>1 DEF BegunNow, JobsStay
<1>4. Used \subseteq Used'
  BY <1>1 DEF Used, JobsStay
<1>5. Named'
  BY <1>1 DEF Named, JobsStay
<1>6. Fired' = Fired
  BY <1>1 DEF Fired, JobsStay
<1>7. tombstones' \subseteq JobKey
  BY JobsType DEF JobsStay
<1> QED BY <1>1, <1>2, <1>3, <1>4, <1>5, <1>6, <1>7 DEF NoRepeat

LEMMA SameQueue ==
    ASSUME TypeOK, UNCHANGED queue PROVE JobsStay
BY JobsType DEF JobsStay, queue, TypeOK, EverUsed

LEMMA JobChanges ==
    ASSUME TypeOK, NEW j \in DOMAIN jobs, NEW st \in JobStatus,
           jobs' = [jobs EXCEPT ![j].status = st],
           st = "queued" => jobs[j].status = "queued",
           tombstones' = IF st = "forgotten" THEN tombstones \cup {jobs[j].key} ELSE tombstones
    PROVE  JobsStay /\ jobs'[j].status = st /\ \A i \in DOMAIN jobs : i # j => jobs'[i] = jobs[i]
<1> DEFINE x == [jobs[j] EXCEPT !.status = st]
<1>1. /\ x \in Job /\ x.status = st /\ x.key = jobs[j].key
      /\ x.schedule = jobs[j].schedule /\ x.resumed = jobs[j].resumed
  BY JobsType, JobMoves
<1>2. jobs' = [jobs EXCEPT ![j] = x]
  OBVIOUS
<1> HIDE DEF x
<1>3. jobs' \in Seq(Job) /\ Len(jobs') = Len(jobs)
      /\ \A i \in DOMAIN jobs : jobs'[i] = IF i = j THEN x ELSE jobs[i]
  <2>1. jobs \in Seq(Job) /\ j \in 1 .. Len(jobs) /\ DOMAIN jobs = 1 .. Len(jobs)
    BY JobsType DEF TypeOK
  <2> QED BY <1>1, <1>2, <2>1, ExceptSeq
<1>4. tombstones \subseteq tombstones' /\ tombstones' \subseteq EverUsed
      /\ (st = "forgotten" => jobs[j].key \in tombstones')
  BY DEF EverUsed
<1> QED BY <1>1, <1>3, <1>4 DEF JobsStay

LEMMA CancelledStay ==
    ASSUME TypeOK, NEW s \in Sources, jobs' = QueuedCancelled(s), tombstones' = tombstones
    PROVE  JobsStay /\ \A j \in DOMAIN jobs : jobs'[j].schedule = s => jobs'[j].status # "queued"
<1> DEFINE x(j) == [jobs[j] EXCEPT !.status = "settled"]
<1>1. \A j \in DOMAIN jobs :
        /\ x(j) \in Job /\ x(j).status = "settled" /\ x(j).key = jobs[j].key
        /\ x(j).schedule = jobs[j].schedule /\ x(j).resumed = jobs[j].resumed
  BY JobsType, JobMoves DEF JobStatus
<1>2. jobs' = [j \in DOMAIN jobs |->
                  IF jobs[j].schedule = s /\ jobs[j].status = "queued" THEN x(j) ELSE jobs[j]]
  BY DEF QueuedCancelled
<1> HIDE DEF x
<1>3. jobs' \in [1 .. Len(jobs) -> Job]
  BY <1>1, <1>2, JobsType
<1>4. jobs' \in Seq(Job) /\ Len(jobs') = Len(jobs)
  BY <1>3, JobsType, Sequence
<1>5. \A j \in DOMAIN jobs :
        jobs'[j] = IF jobs[j].schedule = s /\ jobs[j].status = "queued" THEN x(j) ELSE jobs[j]
  BY <1>2
<1> QED BY <1>1, <1>4, <1>5 DEF JobsStay, EverUsed

LEMMA Rows ==
    ASSUME TypeOK
    PROVE  \A s \in Sources : /\ Kept(s) <=> schedules[s] # NoSchedule
                              /\ Kept(s) => schedules[s] \in Schedule
BY DEF TypeOK, Kept

\* What the owner and the loop may do to a schedule that stays: a new generation, or a
\* later occurrence in the same one.
RowMoves(s, row) ==
    /\ schedules' = [schedules EXCEPT ![s] = row]
    /\ retired' = retired
    /\ Kept(s) /\ row \in Schedule
    /\ row.every = schedules[s].every /\ row.last = schedules[s].last
    /\ \/ row.generation > schedules[s].generation
       \/ /\ row.generation = schedules[s].generation
          /\ row.enabled = schedules[s].enabled
          /\ schedules[s].due <= row.due

LEMMA RowMovesKeeps ==
    ASSUME TypeOK, Past, NEW s \in Sources, NEW row, RowMoves(s, row), EverUsed' \subseteq EverUsed
    PROVE  /\ Past' /\ schedules' \in [Sources -> Schedule \cup {NoSchedule}]
           /\ \A z \in Sources : Kept(z)' = Kept(z) /\ (z # s => schedules'[z] = schedules[z])
           /\ schedules'[s] = row
<1>1. schedules' \in [Sources -> Schedule \cup {NoSchedule}] /\ schedules'[s] = row
      /\ \A z \in Sources : z # s => schedules'[z] = schedules[z]
  BY DEF RowMoves, TypeOK
<1>2. \A z \in Sources : Kept(z)' = Kept(z)
  BY <1>1, RowFacts DEF RowMoves, Kept
<1>3. ASSUME NEW k \in EverUsed', k.of = "schedule" PROVE k.id \in Sources /\ Behind(k, k.id)'
  <2>1. k \in JobKey /\ k.id \in Sources /\ Behind(k, k.id)
    BY <1>3, JobsType DEF Past
  <2>2. CASE k.id # s
    BY <1>1, <1>2, <2>1, <2>2 DEF Behind, RowMoves
  <2>3. CASE k.id = s
    <3>1. /\ k.generation \in Nat /\ k.due \in Nat /\ row.generation \in Nat /\ row.due \in Nat
          /\ schedules[s].generation \in Nat /\ schedules[s].due \in Nat
      BY <2>1, KeyFacts, RowFacts, Rows DEF RowMoves
    <3>2. Kept(s) /\ Kept(s)'
      BY <1>2 DEF RowMoves
    <3> QED BY <1>1, <2>1, <2>3, <3>1, <3>2 DEF Behind, RowMoves
  <2> QED BY <2>2, <2>3
<1> QED BY <1>1, <1>2, <1>3 DEF Past

LEMMA SamePlan ==
    ASSUME Past, UNCHANGED plan, EverUsed' \subseteq EverUsed
    PROVE  Past' /\ \A s \in Sources : Kept(s)' = Kept(s)
<1>1. UNCHANGED <<schedules, retired>>
  BY DEF plan
<1>2. \A s \in Sources : Kept(s)' = Kept(s)
  BY <1>1 DEF Kept
<1>3. Past'
  BY <1>1 DEF Past, Behind, Kept
<1> QED BY <1>2, <1>3

\* What waits stays wanted if each schedule is as it was, or has nothing that waits, or
\* is at least as enabled as it was.
LEMMA WantedStays ==
    ASSUME TypeOK, Named, QueuedIsWanted, JobsStay, DOMAIN jobs' = DOMAIN jobs,
           \A s \in Sources :
              \/ schedules'[s] = schedules[s]
              \/ \A j \in DOMAIN jobs : jobs'[j].schedule = s => jobs'[j].status # "queued"
              \/ /\ schedules'[s] # NoSchedule
                 /\ schedules'[s].every = schedules[s].every
                 /\ schedules'[s].last = schedules[s].last
                 /\ schedules[s].enabled => schedules'[s].enabled
    PROVE  QueuedIsWanted'
<1>1. ASSUME NEW j \in DOMAIN jobs', jobs'[j].status = "queued", jobs'[j].key.of = "schedule",
             ~jobs'[j].resumed
      PROVE  /\ schedules'[jobs'[j].schedule] # NoSchedule
             /\ \/ schedules'[jobs'[j].schedule].enabled
                \/ /\ schedules'[jobs'[j].schedule].every = None
                   /\ schedules'[jobs'[j].schedule].last = j
  <2>1. /\ j \in DOMAIN jobs /\ jobs[j].status = "queued" /\ jobs[j].key.of = "schedule"
        /\ ~jobs[j].resumed /\ jobs'[j].schedule = jobs[j].schedule /\ jobs[j].schedule \in Sources
    BY <1>1, JobsType, JobFacts DEF JobsStay, Named
  <2>3. PICK s \in Sources : jobs[j].schedule = s /\ jobs'[j].schedule = s
    BY <2>1
  <2>2. Kept(s) /\ (schedules[s].enabled \/ (schedules[s].every = None /\ schedules[s].last = j))
    BY <2>1, <2>3 DEF QueuedIsWanted
  <2>4. CASE schedules'[s] = schedules[s]
    BY <2>2, <2>3, <2>4 DEF Kept
  <2>5. CASE \A i \in DOMAIN jobs : jobs'[i].schedule = s => jobs'[i].status # "queued"
    BY <1>1, <2>1, <2>3, <2>5
  <2>6. CASE /\ schedules'[s] # NoSchedule
             /\ schedules'[s].every = schedules[s].every
             /\ schedules'[s].last = schedules[s].last
             /\ schedules[s].enabled => schedules'[s].enabled
    BY <2>2, <2>3, <2>6 DEF Kept
  <2> QED BY <2>3, <2>4, <2>5, <2>6
<1> QED BY <1>1 DEF QueuedIsWanted, Kept

-----------------------------------------------------------------------------
(***************************************************************************)
(* The owner's requests, and retention of schedules.                       *)
(***************************************************************************)
LEMMA CreateScheduleKeeps ==
    ASSUME IInv, NEW s \in Sources, NEW at \in 0 .. MaxTime, CreateSchedule(s, at),
           changes' \in 0 .. MaxChanges, refused' \in BOOLEAN
    PROVE  IInv' /\ NoRepeat /\ Fired' = Fired
<1> USE DEF IInv, CreateSchedule
<1> DEFINE row == [generation |-> 1, enabled |-> TRUE, due |-> at, every |-> Asked[s].every,
                   goal |-> Asked[s].goal, last |-> None]
<1>1. JobsStay
  BY SameQueue
<1>2. /\ EverUsed' \subseteq EverUsed /\ NoRepeat /\ Fired' = Fired /\ Named'
      /\ tombstones' \subseteq JobKey /\ DOMAIN jobs' = DOMAIN jobs
  BY <1>1, JobsStayKeeps
<1>3. row \in Schedule
  <2>1. at \in Time /\ None \in 0 .. MaxJobs /\ 1 \in Nat \ {0}
    BY PlanningAssumption DEF Time, None
  <2> QED BY <2>1, RowFacts, AskedFacts
<1>4. schedules' = [schedules EXCEPT ![s] = row]
  OBVIOUS
<1> HIDE DEF row
<1>5. schedules' \in [Sources -> Schedule \cup {NoSchedule}] /\ schedules'[s] = row
      /\ \A z \in Sources : z # s => schedules'[z] = schedules[z]
  BY <1>3, <1>4 DEF TypeOK
<1>6. TypeOK'
  BY <1>1, <1>2, <1>5 DEF TypeOK, JobsStay, queue
<1>7. Past'
  <2>1. ASSUME NEW k \in EverUsed', k.of = "schedule" PROVE k.id \in Sources /\ Behind(k, k.id)'
    <3>1. k.id \in Sources /\ Behind(k, k.id)
      BY <1>2, <2>1 DEF Past
    <3>2. k.id # s
      BY <3>1 DEF Behind
    <3> QED BY <1>5, <3>1, <3>2 DEF Behind, Kept
  <2> QED BY <2>1 DEF Past
<1>8. LoopInv'
  BY <1>2 DEF LoopInv
<1>9. QueuedIsWanted'
  <2>1. \A j \in DOMAIN jobs : jobs[j].schedule = s /\ jobs[j].status = "queued"
            => jobs[j].key.of # "schedule" \/ jobs[j].resumed
    BY DEF QueuedIsWanted
  <2>2. ASSUME NEW j \in DOMAIN jobs, jobs[j].status = "queued", jobs[j].key.of = "schedule",
               ~jobs[j].resumed
        PROVE  schedules'[jobs[j].schedule] = schedules[jobs[j].schedule]
    BY <1>5, <2>1, <2>2 DEF Named
  <2> QED BY <1>2, <2>2 DEF QueuedIsWanted, Kept, queue
<1> QED BY <1>2, <1>6, <1>7, <1>8, <1>9

LEMMA SwitchedFacts ==
    ASSUME TypeOK, NEW s \in Sources, NEW on \in BOOLEAN, Kept(s)
    PROVE  \E row : /\ Switched(s, on) = [schedules EXCEPT ![s] = row]
                    /\ row \in Schedule /\ row.every = schedules[s].every
                    /\ row.last = schedules[s].last /\ row.enabled = on
                    /\ row.goal = schedules[s].goal /\ row.due = schedules[s].due
                    /\ \/ schedules[s].enabled = on /\ row = schedules[s]
                       \/ schedules[s].enabled # on /\ row.generation = schedules[s].generation + 1
<1>1. schedules[s] \in Schedule
  BY Rows
<1>2. CASE schedules[s].enabled = on
  <2>1. Switched(s, on) = [schedules EXCEPT ![s] = schedules[s]]
    BY <1>2 DEF Switched, TypeOK
  <2> QED BY <1>1, <1>2, <2>1
<1>3. CASE schedules[s].enabled # on
  <2> DEFINE row == [schedules[s] EXCEPT !.enabled = on, !.generation = @ + 1]
  <2>1. Switched(s, on) = [schedules EXCEPT ![s] = row]
    BY <1>3 DEF Switched, TypeOK
  <2>2. row \in Schedule /\ row.every = schedules[s].every
                    /\ row.last = schedules[s].last /\ row.enabled = on
                    /\ row.goal = schedules[s].goal /\ row.due = schedules[s].due
                    /\ row.generation = schedules[s].generation + 1
    <3>1. row = [generation |-> schedules[s].generation + 1, enabled |-> on,
                 due |-> schedules[s].due, every |-> schedules[s].every,
                 goal |-> schedules[s].goal, last |-> schedules[s].last]
      BY <1>1, SwitchedRow
    <3>2. schedules[s].generation + 1 \in Nat \ {0}
      BY <1>1, RowFacts
    <3> HIDE DEF row
    <3> QED BY <1>1, <3>1, <3>2, RowFacts
  <2> HIDE DEF row
  <2> QED BY <1>3, <2>1, <2>2
<1> QED BY <1>2, <1>3

\* Enabling and disabling, by the owner or by the loop.
LEMMA SwitchKeeps ==
    ASSUME IInv, NEW s \in Sources, NEW on \in BOOLEAN, Kept(s), SetScheduleEnabled(s, on),
           UNCHANGED <<retired, tombstones>>
    PROVE  /\ JobsStay /\ Past' /\ QueuedIsWanted'
           /\ schedules' \in [Sources -> Schedule \cup {NoSchedule}]
<1> USE DEF IInv, SetScheduleEnabled
<1>1. PICK row : /\ Switched(s, on) = [schedules EXCEPT ![s] = row]
                 /\ row \in Schedule /\ row.every = schedules[s].every
                 /\ row.last = schedules[s].last /\ row.enabled = on
                 /\ \/ schedules[s].enabled = on /\ row = schedules[s]
                    \/ schedules[s].enabled # on /\ row.generation = schedules[s].generation + 1
  BY SwitchedFacts
<1>2. RowMoves(s, row)
  BY <1>1, Rows, RowFacts DEF RowMoves
<1>3. JobsStay /\ (on \/ \A j \in DOMAIN jobs : jobs'[j].schedule = s => jobs'[j].status # "queued")
  BY SameQueue, CancelledStay DEF queue
<1>4. EverUsed' \subseteq EverUsed /\ DOMAIN jobs' = DOMAIN jobs
  BY <1>3, JobsStayKeeps
<1>5. /\ Past' /\ schedules' \in [Sources -> Schedule \cup {NoSchedule}]
      /\ \A z \in Sources : z # s => schedules'[z] = schedules[z]
      /\ schedules'[s] = row
  BY <1>2, <1>4, RowMovesKeeps
<1>6. schedules'[s] # NoSchedule /\ schedules'[s].every = schedules[s].every
      /\ schedules'[s].last = schedules[s].last /\ schedules'[s].enabled = on
  BY <1>1, <1>5, RowFacts
<1>7. QueuedIsWanted'
  BY <1>3, <1>4, <1>5, <1>6, WantedStays
<1> QED BY <1>3, <1>5, <1>7

LEMMA OwnerSwitchesKeeps ==
    ASSUME IInv, NEW s \in Sources, NEW on \in BOOLEAN, OwnerSwitches(s, on),
           changes' \in 0 .. MaxChanges, refused' \in BOOLEAN
    PROVE  IInv' /\ NoRepeat /\ Fired' = Fired
<1> USE DEF IInv, OwnerSwitches
<1>1. /\ JobsStay /\ Past' /\ QueuedIsWanted'
      /\ schedules' \in [Sources -> Schedule \cup {NoSchedule}]
  BY SwitchKeeps
<1>2. /\ NoRepeat /\ Fired' = Fired /\ Named'
      /\ tombstones' \subseteq JobKey /\ DOMAIN jobs' = DOMAIN jobs
  BY <1>1, JobsStayKeeps
<1>3. TypeOK'
  BY <1>1, <1>2 DEF TypeOK, JobsStay
<1>4. LoopInv'
  BY <1>2 DEF LoopInv
<1> QED BY <1>1, <1>2, <1>3, <1>4

LEMMA RescheduleKeeps ==
    ASSUME IInv, NEW s \in Sources, NEW at \in 0 .. MaxTime, Reschedule(s, at),
           changes' \in 0 .. MaxChanges, refused' \in BOOLEAN
    PROVE  IInv' /\ NoRepeat /\ Fired' = Fired
<1> USE DEF IInv, Reschedule
<1> DEFINE row == [schedules[s] EXCEPT !.due = at, !.generation = @ + 1]
<1>1. JobsStay
  BY SameQueue
<1>2. /\ EverUsed' \subseteq EverUsed /\ NoRepeat /\ Fired' = Fired /\ Named'
      /\ tombstones' \subseteq JobKey /\ DOMAIN jobs' = DOMAIN jobs
  BY <1>1, JobsStayKeeps
<1>3. schedules' = [schedules EXCEPT ![s] = row]
  BY DEF TypeOK
<1>4. /\ row \in Schedule /\ row.every = schedules[s].every
      /\ row.last = schedules[s].last /\ row.enabled = schedules[s].enabled
      /\ row.generation = schedules[s].generation + 1
      /\ schedules[s].generation \in Nat
  <2>1. schedules[s] \in Schedule /\ at \in Time
    BY Rows, PlanningAssumption DEF Time
  <2>2. row = [generation |-> schedules[s].generation + 1,
               enabled |-> schedules[s].enabled, due |-> at,
               every |-> schedules[s].every, goal |-> schedules[s].goal, last |-> schedules[s].last]
    BY <2>1, MovedRow
  <2>3. schedules[s].generation + 1 \in Nat \ {0} /\ schedules[s].generation \in Nat
    BY <2>1, RowFacts
  <2> HIDE DEF row
  <2> QED BY <2>1, <2>2, <2>3, RowFacts
<1>0. Kept(s) /\ UNCHANGED <<now, goals, retired, queue, loop, reviewAt>>
  OBVIOUS
<1> HIDE DEF row, Reschedule
<1>5. RowMoves(s, row)
  BY <1>0, <1>3, <1>4 DEF RowMoves
<1>6. /\ Past' /\ schedules' \in [Sources -> Schedule \cup {NoSchedule}]
      /\ \A z \in Sources : z # s => schedules'[z] = schedules[z]
      /\ schedules'[s] = row
  BY <1>2, <1>5, RowMovesKeeps
<1>7. TypeOK'
  BY <1>0, <1>1, <1>2, <1>6 DEF TypeOK, JobsStay
<1>8. LoopInv'
  BY <1>0, <1>2 DEF LoopInv
<1>9. row # NoSchedule
  BY <1>4, RowFacts
<1>10. QueuedIsWanted'
  BY <1>1, <1>2, <1>4, <1>6, <1>9, WantedStays
<1> QED BY <1>2, <1>6, <1>7, <1>8, <1>10

LEMMA GoneKeeps ==
    ASSUME IInv, NEW s \in Sources, schedules' = [schedules EXCEPT ![s] = NoSchedule],
           retired' = retired \cup {s}, JobsStay,
           \A j \in DOMAIN jobs : jobs'[j].schedule = s =>
               jobs'[j].status # "queued" \/ jobs'[j].resumed \/ jobs'[j].key.of # "schedule"
    PROVE  /\ Past' /\ QueuedIsWanted' /\ retired' \subseteq Sources
           /\ schedules' \in [Sources -> Schedule \cup {NoSchedule}]
<1> USE DEF IInv
<1>1. EverUsed' \subseteq EverUsed /\ DOMAIN jobs' = DOMAIN jobs
  BY JobsStayKeeps
<1>2. schedules' \in [Sources -> Schedule \cup {NoSchedule}] /\ schedules'[s] = NoSchedule
      /\ \A z \in Sources : z # s => schedules'[z] = schedules[z]
  BY DEF TypeOK
<1>3. Past'
  <2>1. ASSUME NEW k \in EverUsed', k.of = "schedule" PROVE k.id \in Sources /\ Behind(k, k.id)'
    <3>1. k.id \in Sources /\ Behind(k, k.id)
      BY <1>1, <2>1 DEF Past
    <3>2. CASE k.id = s
      BY <1>2, <3>1, <3>2 DEF Behind, Kept
    <3>3. CASE k.id # s
      BY <1>2, <3>1, <3>3 DEF Behind, Kept
    <3> QED BY <3>1, <3>2, <3>3
  <2> QED BY <2>1 DEF Past
<1>4. QueuedIsWanted'
  <2>1. ASSUME NEW j \in DOMAIN jobs', jobs'[j].status = "queued", jobs'[j].key.of = "schedule",
               ~jobs'[j].resumed
        PROVE  /\ schedules'[jobs'[j].schedule] # NoSchedule
               /\ \/ schedules'[jobs'[j].schedule].enabled
                  \/ /\ schedules'[jobs'[j].schedule].every = None
                     /\ schedules'[jobs'[j].schedule].last = j
    <3>1. j \in DOMAIN jobs /\ jobs'[j].schedule # s /\ jobs'[j].schedule = jobs[j].schedule
          /\ jobs[j].status = "queued" /\ jobs[j].key.of = "schedule" /\ ~jobs[j].resumed
      BY <1>1, <2>1, JobsType, JobFacts DEF JobsStay
    <3>2. jobs[j].schedule \in Sources
      BY <3>1 DEF Named
    <3> QED BY <1>2, <3>1, <3>2 DEF QueuedIsWanted, Kept
  <2> QED BY <2>1 DEF QueuedIsWanted, Kept
<1> QED BY <1>2, <1>3, <1>4 DEF TypeOK

LEMMA DeleteScheduleKeeps ==
    ASSUME IInv, NEW s \in Sources, DeleteSchedule(s), changes' \in 0 .. MaxChanges, refused' \in BOOLEAN
    PROVE  IInv' /\ NoRepeat /\ Fired' = Fired
<1> USE DEF IInv, DeleteSchedule
<1>1. JobsStay /\ \A j \in DOMAIN jobs : jobs'[j].schedule = s => jobs'[j].status # "queued"
  BY CancelledStay
<1>2. /\ Past' /\ QueuedIsWanted' /\ retired' \subseteq Sources
      /\ schedules' \in [Sources -> Schedule \cup {NoSchedule}]
  BY <1>1, GoneKeeps
<1>3. /\ NoRepeat /\ Fired' = Fired /\ Named'
      /\ tombstones' \subseteq JobKey /\ DOMAIN jobs' = DOMAIN jobs
  BY <1>1, JobsStayKeeps
<1>4. TypeOK'
  BY <1>1, <1>2, <1>3 DEF TypeOK, JobsStay
<1>5. LoopInv'
  BY <1>3 DEF LoopInv
<1> QED BY <1>2, <1>3, <1>4, <1>5

LEMMA PruneScheduleKeeps ==
    ASSUME IInv, NEW s \in Sources, PruneSchedule(s)
    PROVE  IInv' /\ NoRepeat /\ Fired' = Fired
<1> USE DEF IInv, PruneSchedule
<1>1. JobsStay
  BY SameQueue
<1>2. /\ NoRepeat /\ Fired' = Fired /\ Named'
      /\ tombstones' \subseteq JobKey /\ DOMAIN jobs' = DOMAIN jobs
  BY <1>1, JobsStayKeeps
<1>3. ASSUME NEW j \in DOMAIN jobs, jobs'[j].schedule = s
      PROVE  jobs'[j].status # "queued" \/ jobs'[j].resumed \/ jobs'[j].key.of # "schedule"
  BY <1>3 DEF QueuedIsWanted, queue
<1>4. /\ Past' /\ QueuedIsWanted' /\ retired' \subseteq Sources
      /\ schedules' \in [Sources -> Schedule \cup {NoSchedule}]
  BY <1>1, <1>3, GoneKeeps
<1>5. TypeOK'
  BY <1>1, <1>2, <1>4 DEF TypeOK, JobsStay
<1>6. LoopInv'
  BY <1>2 DEF LoopInv
<1> QED BY <1>2, <1>4, <1>5, <1>6

-----------------------------------------------------------------------------
(***************************************************************************)
(* Where the loop stands.                                                  *)
(***************************************************************************)

\* A list that SetToSeqs makes of a finite set.
LEMMA Listed ==
    ASSUME NEW S, NEW U, IsFiniteSet(U), S \subseteq U, NEW list \in SetToSeqs(S)
    PROVE  /\ list \in Seq(S) /\ list \in Seq(U)
           /\ Len(list) \in Nat /\ DOMAIN list = 1 .. Len(list) /\ list \in [1 .. Len(list) -> S]
           /\ \A i, j \in DOMAIN list : i # j => list[i] # list[j]
           /\ S # {} => list # << >>
<1> DEFINE n == Cardinality(S)
<1>1. IsFiniteSet(S)
  BY FS_Subset
<1>2. n \in Nat /\ (n = 0 <=> S = {})
  BY <1>1, FS_CardinalityType, FS_EmptySet
<1>3. list \in [1 .. n -> S] /\ \A i, j \in 1 .. n : i # j => list[i] # list[j]
  BY DEF SetToSeqs
<1> HIDE DEF n
<1>4. list \in Seq(S) /\ Len(list) = n /\ DOMAIN list = 1 .. n
  BY <1>2, <1>3, Sequence
<1>5. list \in Seq(U)
  BY <1>4, SeqMonotonic
<1>6. list = << >> => n = 0
  BY <1>4, EmptySeq
<1> QED BY <1>2, <1>3, <1>4, <1>5, <1>6

\* What is due is a list of schedules.
LEMMA DueListFacts ==
    ASSUME NEW list \in DueLists, Due # {}
    PROVE  list \in Seq(Sources) /\ list # << >>
BY Listed, PlanningAssumption DEF DueLists, Due

-----------------------------------------------------------------------------
Standings == [at : {"idle", "check", "enqueue", "start", "claim"},
              now : 0 .. MaxTime, todo : Seq(Sources), job : 0 .. MaxJobs]

\* What a step may make of the place of the loop.
LoopMoves ==
    /\ loop' \in Standings
    /\ loop'.now <= now
    /\ loop'.at \in {"check", "enqueue"} => loop'.todo # << >>
    /\ loop'.at = "claim" => loop'.job \in DOMAIN jobs

\* The loop at rest.
LEMMA StandingFacts ==
    /\ Idle \in Standings /\ Idle.at = "idle" /\ Idle.now = 0
    /\ [Idle EXCEPT !.at = "start"] \in Standings
    /\ [Idle EXCEPT !.at = "start"].at = "start" /\ [Idle EXCEPT !.at = "start"].now = 0
<1>1. << >> \in Seq(Sources) /\ 0 \in 0 .. MaxTime /\ None \in 0 .. MaxJobs
  BY EmptySeq, PlanningAssumption DEF None
<1> DEFINE empty == << >>
<1>2. Idle = [at |-> "idle", now |-> 0, todo |-> empty, job |-> None]
  BY DEF Idle
<1>3. [Idle EXCEPT !.at = "start"] = [at |-> "start", now |-> 0, todo |-> empty, job |-> None]
  BY <1>2
<1> HIDE DEF empty
<1>4. empty \in Seq(Sources)
  BY <1>1 DEF empty
<1> QED BY <1>1, <1>2, <1>3, <1>4 DEF Standings

LEMMA StandingType ==
    \A x \in Standings :
        /\ x.at \in {"idle", "check", "enqueue", "start", "claim"} /\ x.now \in 0 .. MaxTime
        /\ x.now \in Nat /\ x.todo \in Seq(Sources) /\ x.job \in 0 .. MaxJobs
<1> DEFINE Todos == Seq(Sources)
<1>1. Standings = [at : {"idle", "check", "enqueue", "start", "claim"},
                   now : 0 .. MaxTime, todo : Todos, job : 0 .. MaxJobs]
  BY DEF Standings
<1> HIDE DEF Todos
<1> QED BY <1>1, PlanningAssumption DEF Todos

\* The loop with another place, list or job.
LEMMA LoopFacts ==
    ASSUME NEW x \in Standings
    PROVE  /\ [x EXCEPT !.at = "enqueue"] \in Standings
           /\ [x EXCEPT !.at = "enqueue"].at = "enqueue"
           /\ [x EXCEPT !.at = "enqueue"].todo = x.todo
           /\ [x EXCEPT !.at = "enqueue"].now = x.now
           /\ \A t \in Seq(Sources) :
                 /\ [x EXCEPT !.at = "check", !.todo = t] \in Standings
                 /\ [x EXCEPT !.at = "check", !.todo = t].at = "check"
                 /\ [x EXCEPT !.at = "check", !.todo = t].todo = t
                 /\ [x EXCEPT !.at = "check", !.todo = t].now = x.now
           /\ \A j \in 0 .. MaxJobs :
                 /\ [x EXCEPT !.at = "claim", !.job = j] \in Standings
                 /\ [x EXCEPT !.at = "claim", !.job = j].at = "claim"
                 /\ [x EXCEPT !.at = "claim", !.job = j].job = j
                 /\ [x EXCEPT !.at = "claim", !.job = j].now = x.now
<1> DEFINE Todos == Seq(Sources)
<1>1. Standings = [at : {"idle", "check", "enqueue", "start", "claim"},
                   now : 0 .. MaxTime, todo : Todos, job : 0 .. MaxJobs]
  BY DEF Standings
<1> HIDE DEF Todos
<1>2. /\ [x EXCEPT !.at = "enqueue"] \in Standings
      /\ [x EXCEPT !.at = "enqueue"].at = "enqueue"
      /\ [x EXCEPT !.at = "enqueue"].todo = x.todo
      /\ [x EXCEPT !.at = "enqueue"].now = x.now
  BY <1>1
<1>3. ASSUME NEW t \in Todos
      PROVE  /\ [x EXCEPT !.at = "check", !.todo = t] \in Standings
             /\ [x EXCEPT !.at = "check", !.todo = t].at = "check"
             /\ [x EXCEPT !.at = "check", !.todo = t].todo = t
             /\ [x EXCEPT !.at = "check", !.todo = t].now = x.now
  BY <1>1
<1>4. ASSUME NEW j \in 0 .. MaxJobs
      PROVE  /\ [x EXCEPT !.at = "claim", !.job = j] \in Standings
             /\ [x EXCEPT !.at = "claim", !.job = j].at = "claim"
             /\ [x EXCEPT !.at = "claim", !.job = j].job = j
             /\ [x EXCEPT !.at = "claim", !.job = j].now = x.now
  BY <1>1
<1> QED BY <1>2, <1>3, <1>4 DEF Todos

\* The pass goes on, ends, or goes from the checks to the transaction.
LEMMA OnwardMoves ==
    ASSUME TypeOK, LoopInv, loop.todo # << >>
    PROVE  /\ Head(loop.todo) \in Sources
           /\ Onward => LoopMoves
           /\ PassEnds => LoopMoves
           /\ loop' = [loop EXCEPT !.at = "enqueue"] => LoopMoves
<1>0. loop \in Standings /\ now \in Nat /\ loop.now <= now
  BY PlanningAssumption DEF TypeOK, Standings, LoopInv
<1>1. loop \in Standings /\ loop.todo \in Seq(Sources) /\ now \in Nat /\ loop.now <= now
  BY <1>0, StandingType
<1>2. Head(loop.todo) \in Sources /\ Tail(loop.todo) \in Seq(Sources)
      /\ Len(Tail(loop.todo)) = Len(loop.todo) - 1
  BY <1>1, HeadTailProperties
<1>3. PassEnds => LoopMoves
  BY <1>1, StandingFacts DEF PassEnds, LoopMoves
<1>4. ASSUME Onward PROVE LoopMoves
  <2>1. CASE Len(loop.todo) = 1
    BY <1>3, <1>4, <2>1 DEF Onward, PassEnds
  <2>2. CASE Len(loop.todo) # 1
    <3>1. Tail(loop.todo) # << >>
      <4> DEFINE rest == Tail(loop.todo)
      <4> DEFINE length == Len(loop.todo)
      <4>1. length \in Nat /\ length # 1 /\ Len(rest) = length - 1
        BY <1>1, <1>2, <2>2, LenProperties
      <4>2. rest = << >> => Len(rest) = 0
        BY EmptySeq
      <4> HIDE DEF rest, length
      <4>3. rest # << >>
        BY <4>1, <4>2
      <4> QED BY <4>3 DEF rest
    <3>2. PICK t \in Seq(Sources) : t # << >> /\ loop' = [loop EXCEPT !.at = "check", !.todo = t]
      BY <1>2, <1>4, <2>2, <3>1 DEF Onward
    <3>3. /\ [loop EXCEPT !.at = "check", !.todo = t] \in Standings
          /\ [loop EXCEPT !.at = "check", !.todo = t].at = "check"
          /\ [loop EXCEPT !.at = "check", !.todo = t].todo = t
          /\ [loop EXCEPT !.at = "check", !.todo = t].now = loop.now
      <4>1. \A u \in Seq(Sources) :
                /\ [loop EXCEPT !.at = "check", !.todo = u] \in Standings
                /\ [loop EXCEPT !.at = "check", !.todo = u].at = "check"
                /\ [loop EXCEPT !.at = "check", !.todo = u].todo = u
                /\ [loop EXCEPT !.at = "check", !.todo = u].now = loop.now
        BY <1>0, LoopFacts, Zenon
      <4> QED BY <4>1, <3>2, Zenon
    <3>4. loop' \in Standings /\ loop'.at = "check" /\ loop'.todo = t /\ loop'.now = loop.now
      BY <3>2, <3>3, Zenon
    <3> QED BY <1>1, <3>2, <3>4 DEF LoopMoves
  <2> QED BY <2>1, <2>2
<1>5. ASSUME loop' = [loop EXCEPT !.at = "enqueue"] PROVE LoopMoves
  <2>1. /\ loop' \in Standings /\ loop'.at = "enqueue"
        /\ loop'.todo = loop.todo /\ loop'.now = loop.now
    BY <1>0, <1>5, LoopFacts
  <2> QED BY <1>1, <2>1 DEF LoopMoves
<1> QED BY <1>2, <1>3, <1>4, <1>5

\* The loop stays, or goes back to rest.
LEMMA LoopRests ==
    ASSUME TypeOK, LoopInv, \/ loop' = loop \/ loop' = Idle \/ PassEnds
    PROVE  LoopMoves
<1>1. loop \in Standings /\ now \in Nat /\ loop.now <= now
  BY PlanningAssumption DEF TypeOK, Standings, LoopInv
<1>2. Idle.now <= now /\ [Idle EXCEPT !.at = "start"].now <= now
  BY <1>1, StandingFacts
<1> QED BY <1>1, <1>2, StandingFacts DEF LoopMoves, PassEnds, LoopInv

\* The steps that leave the schedules alone and only change the state of jobs keep the
\* invariant, repeat nothing and fire nothing.
LEMMA QueueSteps ==
    ASSUME IInv, JobsStay, UNCHANGED plan, LoopMoves,
           now' \in 0 .. MaxTime, now <= now',
           goals' \in [Goals -> {"active", "resting", "removed"}],
           reviewAt' \in Time, changes' \in 0 .. MaxChanges, refused' \in BOOLEAN
    PROVE  IInv' /\ NoRepeat /\ Fired' = Fired
<1>1. /\ EverUsed' \subseteq EverUsed /\ NoRepeat /\ Fired' = Fired /\ Named'
      /\ tombstones' \subseteq JobKey /\ DOMAIN jobs' = DOMAIN jobs
  BY JobsStayKeeps DEF IInv
<1>2. Past'
  BY <1>1, SamePlan DEF IInv
<1>3. QueuedIsWanted'
  BY <1>1, WantedStays DEF IInv, plan
<1>4. LoopInv'
  <2>1. loop' \in Standings /\ now \in Int /\ now' \in Int /\ loop'.now <= now /\ now <= now'
    BY DEF LoopMoves, IInv, TypeOK
  <2>2. loop'.now \in Int
    BY <2>1, StandingType
  <2>3. loop'.now <= now'
    BY <2>1, <2>2
  <2> QED BY <1>1, <2>3 DEF IInv, LoopInv, LoopMoves
<1>5. TypeOK'
  BY <1>1 DEF TypeOK, IInv, JobsStay, LoopMoves, Standings, plan
<1> QED BY <1>1, <1>2, <1>3, <1>4, <1>5 DEF IInv

LEMMA SetGoalKeeps ==
    ASSUME IInv, NEW g \in Goals, NEW status \in {"active", "resting", "removed"},
           SetGoal(g, status), changes' \in 0 .. MaxChanges, refused' \in BOOLEAN
    PROVE  IInv' /\ NoRepeat /\ Fired' = Fired
<1>1. JobsStay /\ LoopMoves
  BY SameQueue, LoopRests DEF IInv, SetGoal
<1>2. /\ UNCHANGED <<now, plan, reviewAt>> /\ now <= now'
      /\ goals' \in [Goals -> {"active", "resting", "removed"}]
  BY DEF SetGoal, IInv, TypeOK
<1> QED BY <1>1, <1>2, QueueSteps DEF IInv, TypeOK

\* Those of them at which the clock and the goals stand still.
LEMMA JobSteps ==
    ASSUME IInv, JobsStay, UNCHANGED <<now, goals, plan, reviewAt>>, LoopMoves,
           changes' \in 0 .. MaxChanges, refused' \in BOOLEAN
    PROVE  IInv' /\ NoRepeat /\ Fired' = Fired
<1>1. now <= now'
  BY DEF IInv, TypeOK
<1> QED BY <1>1, QueueSteps DEF IInv, TypeOK

LEMMA AnswerAtLengthKeeps ==
    ASSUME IInv, AnswerAtLength, changes' \in 0 .. MaxChanges, refused' \in BOOLEAN
    PROVE  IInv' /\ NoRepeat /\ Fired' = Fired
<1>1. UNCHANGED <<now, goals, plan, queue, loop, reviewAt>>
  BY DEF AnswerAtLength
<1>2. JobsStay
  BY <1>1, SameQueue DEF IInv
<1>3. LoopMoves
  BY <1>1, LoopRests DEF IInv
<1> QED BY <1>1, <1>2, <1>3, JobSteps

LEMMA CancelJobKeeps ==
    ASSUME IInv, NEW j \in DOMAIN jobs, CancelJob(j), changes' \in 0 .. MaxChanges, refused' \in BOOLEAN
    PROVE  IInv' /\ NoRepeat /\ Fired' = Fired
<1>1. JobsStay
  BY JobChanges DEF IInv, CancelJob, JobStatus
<1>2. LoopMoves
  BY LoopRests DEF IInv, CancelJob
<1> QED BY <1>1, <1>2, JobSteps DEF CancelJob

\* A job that is resumed waits again, whatever became of its schedule.
LEMMA ResumedStay ==
    ASSUME TypeOK, NEW j \in DOMAIN jobs, NEW x \in Job, x.resumed = TRUE,
           x.key = jobs[j].key, x.schedule = jobs[j].schedule, x.status = "queued",
           jobs' = [jobs EXCEPT ![j] = x], tombstones' = tombstones
    PROVE  JobsStay
<1>1. jobs' \in Seq(Job) /\ Len(jobs') = Len(jobs)
      /\ \A i \in DOMAIN jobs : jobs'[i] = IF i = j THEN x ELSE jobs[i]
  <2>1. jobs \in Seq(Job) /\ j \in 1 .. Len(jobs) /\ DOMAIN jobs = 1 .. Len(jobs)
    BY JobsType DEF TypeOK
  <2> QED BY <2>1, ExceptSeq
<1> QED BY <1>1 DEF JobsStay, EverUsed

LEMMA ResumeJobKeeps ==
    ASSUME IInv, NEW j \in DOMAIN jobs, ResumeJob(j), changes' \in 0 .. MaxChanges, refused' \in BOOLEAN
    PROVE  IInv' /\ NoRepeat /\ Fired' = Fired
<1> DEFINE x == [jobs[j] EXCEPT !.status = "queued", !.resumed = TRUE]
<1>1. /\ x \in Job /\ x.key = jobs[j].key /\ x.status = "queued"
      /\ x.schedule = jobs[j].schedule /\ x.resumed = TRUE
  <2>1. jobs[j] \in Job
    BY JobsType DEF IInv
  <2> QED BY <2>1 DEF Job, JobStatus
<1>2. jobs' = [jobs EXCEPT ![j] = x]
  BY JobsType DEF IInv, ResumeJob
<1> HIDE DEF x
<1>3. JobsStay
  BY <1>1, <1>2, ResumedStay DEF IInv, ResumeJob
<1>4. LoopMoves
  BY LoopRests DEF IInv, ResumeJob
<1> QED BY <1>3, <1>4, JobSteps DEF ResumeJob

LEMMA RestartKeeps ==
    ASSUME IInv, Restart, changes' \in 0 .. MaxChanges, refused' \in BOOLEAN
    PROVE  IInv' /\ NoRepeat /\ Fired' = Fired
<1> USE DEF IInv, Restart
<1> DEFINE x(j) == [jobs[j] EXCEPT !.status = "interrupted"]
<1>1. \A j \in DOMAIN jobs :
        /\ x(j) \in Job /\ x(j).status = "interrupted" /\ x(j).key = jobs[j].key
        /\ x(j).schedule = jobs[j].schedule /\ x(j).resumed = jobs[j].resumed
  BY JobsType, JobMoves DEF JobStatus
<1>2. jobs' = [j \in DOMAIN jobs |->
                  IF jobs[j].status \in {"running", "offered"} THEN x(j) ELSE jobs[j]]
  OBVIOUS
<1> HIDE DEF x
<1>3. jobs' \in [1 .. Len(jobs) -> Job]
  BY <1>1, <1>2, JobsType
<1>4. jobs' \in Seq(Job) /\ Len(jobs') = Len(jobs)
  BY <1>3, JobsType, Sequence
<1>5. \A j \in DOMAIN jobs :
        jobs'[j] = IF jobs[j].status \in {"running", "offered"} THEN x(j) ELSE jobs[j]
  BY <1>2
<1>6. JobsStay
  BY <1>1, <1>4, <1>5 DEF JobsStay, EverUsed
<1>7. LoopMoves
  BY LoopRests
<1> QED BY <1>6, <1>7, JobSteps

-----------------------------------------------------------------------------
(***************************************************************************)
(* The life of jobs, and the steps of the loop before its transaction.     *)
(***************************************************************************)
LEMMA FinishKeeps ==
    ASSUME IInv, NEW j \in DOMAIN jobs, Finish(j)
    PROVE  IInv' /\ NoRepeat /\ Fired' = Fired
<1>1. JobsStay
  BY JobChanges DEF IInv, Finish, JobStatus
<1>2. LoopMoves
  BY LoopRests DEF IInv, Finish
<1> QED BY <1>1, <1>2, JobSteps DEF IInv, TypeOK, Finish

LEMMA DeliverKeeps ==
    ASSUME IInv, NEW j \in DOMAIN jobs, Deliver(j)
    PROVE  IInv' /\ NoRepeat /\ Fired' = Fired
<1>1. JobsStay
  <2>1. PICK st \in {"interrupted", "offered"} : jobs' = [jobs EXCEPT ![j].status = st]
    BY DEF Deliver
  <2> QED BY <2>1, JobChanges DEF IInv, Deliver, JobStatus
<1>2. LoopMoves
  BY LoopRests DEF IInv, Deliver
<1> QED BY <1>1, <1>2, JobSteps DEF IInv, TypeOK, Deliver

LEMMA PruneJobKeeps ==
    ASSUME IInv, NEW j \in DOMAIN jobs, PruneJob(j)
    PROVE  IInv' /\ NoRepeat /\ Fired' = Fired
<1>1. JobsStay
  BY JobChanges DEF IInv, PruneJob, JobStatus, TombstoneOf
<1>2. LoopMoves
  BY LoopRests DEF IInv, PruneJob
<1> QED BY <1>1, <1>2, JobSteps DEF IInv, TypeOK, PruneJob

LEMMA TickKeeps ==
    ASSUME IInv, Tick PROVE IInv' /\ NoRepeat /\ Fired' = Fired
<1>1. JobsStay
  BY SameQueue DEF IInv, Tick
<1>2. LoopMoves
  BY LoopRests DEF IInv, Tick
<1>3. now' \in 0 .. MaxTime /\ now <= now'
  BY PlanningAssumption DEF IInv, TypeOK, Tick
<1> QED BY <1>1, <1>2, <1>3, QueueSteps DEF IInv, TypeOK, Tick

LEMMA StutterKeeps ==
    ASSUME IInv, UNCHANGED vars PROVE IInv' /\ NoRepeat /\ Fired' = Fired
<1>1. JobsStay
  BY SameQueue DEF IInv, vars
<1>2. LoopMoves
  BY LoopRests DEF IInv, vars
<1> QED BY <1>1, <1>2, JobSteps DEF IInv, TypeOK, vars

LEMMA QueueSchedulesKeeps ==
    ASSUME IInv, QueueSchedules PROVE IInv' /\ NoRepeat /\ Fired' = Fired
<1>1. JobsStay
  BY SameQueue DEF IInv, QueueSchedules
<1>2. LoopMoves
  <2>1. CASE loop' = [Idle EXCEPT !.at = "start"]
    BY <2>1, LoopRests DEF IInv, PassEnds
  <2>2. CASE \E list \in DueLists :
                Due # {} /\ loop' = [at |-> "check", now |-> now, todo |-> list, job |-> None]
    <3>1. PICK list \in DueLists :
              Due # {} /\ loop' = [at |-> "check", now |-> now, todo |-> list, job |-> None]
      BY <2>2
    <3>2. list \in Seq(Sources) /\ list # << >>
      BY <3>1, DueListFacts
    <3>3. now \in 0 .. MaxTime /\ None \in 0 .. MaxJobs
      BY PlanningAssumption DEF IInv, TypeOK, None
    <3> QED BY <3>1, <3>2, <3>3 DEF LoopMoves, Standings
  <2> QED BY <2>1, <2>2 DEF QueueSchedules
<1> QED BY <1>1, <1>2, JobSteps DEF IInv, TypeOK, QueueSchedules

LEMMA CheckRoomAndGoalKeeps ==
    ASSUME IInv, CheckRoomAndGoal PROVE IInv' /\ NoRepeat /\ Fired' = Fired
<1> DEFINE s == Head(loop.todo)
<1>1. loop.todo # << >> /\ s \in Sources
  BY OnwardMoves DEF IInv, LoopInv, CheckRoomAndGoal
<1>2. UNCHANGED <<now, goals, retired, tombstones, reviewAt, changes, refused>>
  BY DEF CheckRoomAndGoal
<1>3. LoopMoves
  BY <1>1, OnwardMoves DEF IInv, CheckRoomAndGoal
<1>4. CASE UNCHANGED <<schedules, jobs>>
  <2>1. JobsStay
    BY <1>2, <1>4, SameQueue DEF IInv, queue
  <2> QED BY <1>2, <1>3, <1>4, <2>1, JobSteps DEF IInv, TypeOK, plan
<1>5. CASE Kept(s) /\ SetScheduleEnabled(s, FALSE)
  <2>1. /\ JobsStay /\ Past' /\ QueuedIsWanted'
        /\ schedules' \in [Sources -> Schedule \cup {NoSchedule}]
    BY <1>1, <1>2, <1>5, SwitchKeeps
  <2>2. /\ NoRepeat /\ Fired' = Fired /\ Named'
        /\ tombstones' \subseteq JobKey /\ DOMAIN jobs' = DOMAIN jobs
    BY <2>1, JobsStayKeeps DEF IInv
  <2>3. TypeOK'
    BY <1>2, <1>3, <2>1, <2>2 DEF IInv, TypeOK, JobsStay, LoopMoves, Standings
  <2>4. LoopInv'
    BY <1>2, <1>3, <2>2 DEF IInv, LoopInv, LoopMoves
  <2> QED BY <2>1, <2>2, <2>3, <2>4 DEF IInv
<1> QED BY <1>4, <1>5 DEF CheckRoomAndGoal

LEMMA StartNextKeeps ==
    ASSUME IInv, StartNext PROVE IInv' /\ NoRepeat /\ Fired' = Fired
<1> DEFINE j == CHOOSE i \in Candidates : \A k \in Candidates : i <= k
<1>1. UNCHANGED <<now, goals, plan, tombstones, reviewAt, changes, refused>>
  BY DEF StartNext
<1>2. CASE Candidates = {}
  <2>1. loop' = Idle /\ jobs' = jobs
    BY <1>2 DEF StartNext
  <2>2. JobsStay
    BY <1>1, <2>1, SameQueue DEF IInv, queue
  <2> QED BY <1>1, <2>1, <2>2, LoopRests, JobSteps DEF IInv, TypeOK
<1>3. CASE Candidates # {}
  <2>1. j \in Candidates
    <3>1. Candidates \subseteq Nat
      BY JobsType DEF Candidates, IInv
    <3> QED BY <1>3, <3>1, LeastIndex
  <2>2. j \in DOMAIN jobs /\ jobs[j].status = "queued"
    BY <2>1 DEF Candidates
  <2>3. CASE loop' = Idle /\ jobs' = [jobs EXCEPT ![j].status = "settled"]
    <3> HIDE DEF j
    <3>1. JobsStay
      BY <1>1, <2>2, <2>3, JobChanges DEF IInv, JobStatus
    <3> QED BY <1>1, <2>3, <3>1, LoopRests, JobSteps DEF IInv, TypeOK
  <2>4. CASE loop' = [loop EXCEPT !.at = "claim", !.job = j] /\ jobs' = jobs
    <3> HIDE DEF j
    <3>1. JobsStay
      BY <1>1, <2>4, SameQueue DEF IInv, queue
    <3>2. LoopMoves
      <4>1. loop \in Standings /\ loop.now <= now
        BY DEF IInv, TypeOK, LoopInv, Standings
      <4>2. PICK n \in 0 .. MaxJobs : n = j
        BY <2>2, PlanningAssumption DEF IInv, LoopInv
      <4>3. /\ [loop EXCEPT !.at = "claim", !.job = n] \in Standings
            /\ [loop EXCEPT !.at = "claim", !.job = n].at = "claim"
            /\ [loop EXCEPT !.at = "claim", !.job = n].job = n
            /\ [loop EXCEPT !.at = "claim", !.job = n].now = loop.now
        BY <4>1, LoopFacts, Zenon
      <4>4. loop' \in Standings /\ loop'.at = "claim" /\ loop'.job = j /\ loop'.now = loop.now
        BY <2>4, <4>2, <4>3, Zenon
      <4> QED BY <2>2, <4>1, <4>4 DEF LoopMoves
    <3> QED BY <1>1, <3>1, <3>2, JobSteps DEF IInv, TypeOK
  <2> QED BY <1>3, <2>3, <2>4 DEF StartNext
<1> QED BY <1>2, <1>3

LEMMA ClaimKeeps ==
    ASSUME IInv, Claim PROVE IInv' /\ NoRepeat /\ Fired' = Fired
<1>1. LoopMoves
  BY LoopRests DEF IInv, Claim, PassEnds
<1>2. JobsStay
  <2>1. loop.job \in DOMAIN jobs
    BY DEF Claim, IInv, LoopInv
  <2>2. CASE jobs' = [jobs EXCEPT ![loop.job].status = "running"]
    BY <2>1, <2>2, JobChanges DEF IInv, Claim, JobStatus
  <2>3. CASE jobs' = jobs
    BY <2>3, SameQueue DEF IInv, Claim, queue
  <2> QED BY <2>2, <2>3 DEF Claim
<1> QED BY <1>1, <1>2, JobSteps DEF IInv, TypeOK, Claim

-----------------------------------------------------------------------------
(***************************************************************************)
(* The transaction that fires a schedule.                                  *)
(***************************************************************************)

\* The occurrence a schedule moves on to is one the clock may reach.
LEMMA AfterFacts ==
    ASSUME IInv, NEW row \in Schedule, row.due <= loop.now, row.every # None
    PROVE  /\ After(row) \in Time /\ After(row) \in Nat /\ row.due < After(row)
           /\ (After(row) - row.due) % row.every = 0
           /\ After(row) - row.every <= now /\ row.every \in Nat \ {0}
<1>1. /\ row.due \in Nat /\ row.every = Interval /\ Interval \in Nat \ {0}
      /\ loop.now \in 0 .. MaxTime /\ loop.now <= now /\ now \in 0 .. MaxTime
      /\ MaxTime \in Nat /\ ReviewInterval \in Nat
  <2>1. loop \in Standings
    BY DEF IInv, TypeOK, Standings
  <2> QED BY <2>1, StandingType, RowFacts, PlanningAssumption DEF IInv, TypeOK, LoopInv, None
<1>2. /\ After(row) \in Int /\ After(row) > loop.now /\ After(row) <= loop.now + row.every
      /\ (After(row) - row.due) % row.every = 0
  <2>1. PICK d \in Int, e \in Nat \ {0}, a \in Int :
            d = row.due /\ e = row.every /\ a = loop.now /\ d <= a
    BY <1>1
  <2>2. /\ NextDue(d, e, a) \in Int /\ NextDue(d, e, a) > a
        /\ NextDue(d, e, a) <= a + e /\ (NextDue(d, e, a) - d) % e = 0
    BY <2>1, NextDueFacts
  <2>3. After(row) = NextDue(d, e, a)
    BY <2>1 DEF After
  <2> QED BY <2>1, <2>2, <2>3, Zenon
<1> QED BY <1>1, <1>2 DEF Time

\* The transaction that finds nothing to do.
LEMMA SameTables ==
    ASSUME IInv, LoopMoves,
           UNCHANGED <<now, goals, schedules, retired, jobs, tombstones, reviewAt, changes, refused>>
    PROVE  IInv' /\ NoRepeat /\ Fired' = Fired
<1>1. JobsStay
  BY SameQueue DEF IInv, queue
<1> QED BY <1>1, JobSteps DEF IInv, TypeOK, plan

\* The occurrence is left out.
LEMMA OccurrenceSkipped ==
    ASSUME IInv, LoopMoves, UNCHANGED <<now, goals, retired, jobs, tombstones, reviewAt, changes, refused>>,
           NEW s \in Sources, StillDue(s), schedules[s].every # None,
           schedules' = [schedules EXCEPT ![s].due = After(schedules[s])]
    PROVE  IInv' /\ NoRepeat /\ Fired' = Fired
<1> DEFINE row == [schedules[s] EXCEPT !.due = After(schedules[s])]
<1>1. Kept(s) /\ schedules[s] \in Schedule /\ schedules[s].due <= loop.now
  BY Rows DEF IInv, StillDue, Enabled
<1>2. /\ After(schedules[s]) \in Time /\ After(schedules[s]) \in Nat
      /\ schedules[s].due \in Nat /\ schedules[s].due < After(schedules[s])
  BY <1>1, AfterFacts, RowFacts
<1>3. /\ row \in Schedule /\ row.due = After(schedules[s])
      /\ row.every = schedules[s].every /\ row.last = schedules[s].last
      /\ row.enabled = schedules[s].enabled /\ row.generation = schedules[s].generation
  BY <1>1, <1>2 DEF Schedule
<1>4. schedules' = [schedules EXCEPT ![s] = row]
  BY DEF IInv, TypeOK
<1> HIDE DEF row
<1>5. RowMoves(s, row)
  <2>1. schedules[s].due <= row.due
    BY <1>2, <1>3
  <2>2. retired' = retired
    OBVIOUS
  <2> QED BY <1>1, <1>3, <1>4, <2>1, <2>2, Zenon DEF RowMoves
<1>6. JobsStay
  BY SameQueue DEF IInv, queue
<1>7. /\ EverUsed' \subseteq EverUsed /\ NoRepeat /\ Fired' = Fired /\ Named'
      /\ tombstones' \subseteq JobKey /\ DOMAIN jobs' = DOMAIN jobs
  BY <1>6, JobsStayKeeps DEF IInv
<1>8. /\ Past' /\ schedules' \in [Sources -> Schedule \cup {NoSchedule}]
      /\ \A z \in Sources : z # s => schedules'[z] = schedules[z]
      /\ schedules'[s] = row
  BY <1>5, <1>7, RowMovesKeeps DEF IInv
<1>9. row # NoSchedule
  BY <1>3, RowFacts
<1>10. QueuedIsWanted'
  BY <1>3, <1>6, <1>7, <1>8, <1>9, WantedStays DEF IInv
<1>11. TypeOK'
  BY <1>7, <1>8 DEF IInv, TypeOK, LoopMoves, Standings
<1>12. LoopInv'
  BY DEF IInv, LoopInv, LoopMoves
<1> QED BY <1>7, <1>8, <1>10, <1>11, <1>12 DEF IInv

\* The row of a schedule whose occurrence was queued.
FiredRow(row) ==
    [row EXCEPT !.enabled = row.every # None, !.last = Len(jobs) + 1,
                !.due = IF row.every = None THEN row.due ELSE After(row)]

LEMMA FiredRowFacts ==
    ASSUME IInv, NEW row \in Schedule, row.due <= loop.now, Len(jobs) < MaxJobs
    PROVE  /\ FiredRow(row) \in Schedule
           /\ FiredRow(row).generation = row.generation
           /\ FiredRow(row).enabled = (row.every # None)
           /\ FiredRow(row).every = row.every
           /\ FiredRow(row).last = Len(jobs) + 1
           /\ FiredRow(row).due = IF row.every = None THEN row.due ELSE After(row)
<1> DEFINE d == IF row.every = None THEN row.due ELSE After(row)
<1> DEFINE n == Len(jobs) + 1
<1> DEFINE on == row.every # None
<1>1. d \in Time
  BY AfterFacts, RowFacts
<1>2. n \in 0 .. MaxJobs
  BY JobsType, PlanningAssumption DEF IInv
<1>3. FiredRow(row) = [row EXCEPT !.enabled = on, !.last = n, !.due = d] /\ on \in BOOLEAN
  BY DEF FiredRow
<1> HIDE DEF d, n, on
<1>4. FiredRow(row) = [generation |-> row.generation, enabled |-> on, due |-> d,
                       every |-> row.every, goal |-> row.goal, last |-> n]
  BY <1>3 DEF Schedule
<1>5. FiredRow(row) \in Schedule
  <2>1. /\ row.generation \in Nat \ {0} /\ row.every \in {None, Interval}
        /\ row.goal \in Goals \cup {None}
    BY RowFacts
  <2> QED BY <1>1, <1>2, <1>3, <1>4, <2>1 DEF Schedule
<1> QED BY <1>4, <1>5 DEF d, n, on

\* The occurrence is queued: its identity is the first of its kind, and the schedule is
\* behind it no longer.
LEMMA OccurrenceFires ==
    ASSUME IInv, LoopMoves, UNCHANGED <<now, goals, retired, tombstones, reviewAt, changes, refused>>,
           NEW s \in Sources, StillDue(s), Len(jobs) < MaxJobs,
           \A j \in DOMAIN jobs : jobs[j].schedule = s => ~Live(j),
           Occurrence(s, schedules[s]) \notin Used,
           jobs' = Append(jobs, NewJob(Occurrence(s, schedules[s]), s, schedules[s].goal)),
           schedules' = [schedules EXCEPT ![s] = FiredRow(schedules[s])]
    PROVE  /\ IInv' /\ NoRepeat
           /\ Fired' = Fired \cup {Len(jobs) + 1} /\ Len(jobs) + 1 \notin Fired
<1> DEFINE old == schedules[s]
<1> DEFINE key == Occurrence(s, old)
<1> DEFINE new == NewJob(key, s, old.goal)
<1> DEFINE row == FiredRow(old)
<1> DEFINE n == Len(jobs)
<1>1. Kept(s) /\ old \in Schedule /\ old.due <= loop.now /\ old.enabled
  BY Rows DEF IInv, StillDue, Enabled
<1>2. /\ old.generation \in Nat /\ old.due \in Nat /\ old.every \in {None, Interval}
      /\ old.goal \in Goals \cup {None} /\ n \in Nat /\ DOMAIN jobs = 1 .. n
      /\ jobs \in Seq(Job)
  BY <1>1, RowFacts, JobsType DEF IInv, TypeOK
<1>3. /\ row \in Schedule /\ row.generation = old.generation
      /\ row.enabled = (old.every # None) /\ row.every = old.every
      /\ row.last = n + 1 /\ row.due = IF old.every = None THEN old.due ELSE After(old)
  BY <1>1, FiredRowFacts
<1>4. old.every # None => After(old) \in Nat /\ old.due < After(old)
  <2>1. \A d \in Time : d \in Nat
    BY PlanningAssumption DEF Time
  <2> QED BY <1>1, <2>1, AfterFacts
<1>5. /\ key \in JobKey /\ key.of = "schedule" /\ key.id = s
      /\ key.generation = old.generation /\ key.due = old.due
  <2>1. /\ key \in JobKey
        /\ key = [of |-> "schedule", id |-> s, generation |-> old.generation, due |-> old.due]
    BY <1>1, KeyFacts
  <2> QED BY <2>1
<1>6. /\ new \in Job /\ new.key = key /\ new.schedule = s /\ new.status = "queued"
  BY <1>2, <1>5, NewJobFacts
<1>7. jobs' = Append(jobs, new) /\ schedules' = [schedules EXCEPT ![s] = row] /\ key \notin Used
  OBVIOUS
<1> HIDE DEF row, new, key
<1>8. /\ jobs' \in Seq(Job) /\ Len(jobs') = n + 1 /\ DOMAIN jobs' = 1 .. n + 1
      /\ jobs'[n + 1] = new /\ \A j \in 1 .. n : jobs'[j] = jobs[j]
  BY <1>2, <1>6, <1>7, AppendProperties, LenProperties
<1>9. /\ schedules' \in [Sources -> Schedule \cup {NoSchedule}] /\ schedules'[s] = row
      /\ \A z \in Sources : z # s => schedules'[z] = schedules[z]
  BY <1>3, <1>7 DEF IInv, TypeOK
<1> HIDE DEF n
<1>10. TypeOK'
  BY <1>8, <1>9 DEF IInv, TypeOK, LoopMoves, Standings
<1>11. Named'
  BY <1>2, <1>5, <1>6, <1>8 DEF IInv, Named
<1>12. EverUsed' \subseteq EverUsed \cup {key}
  <2>1. ASSUME NEW j \in DOMAIN jobs' PROVE jobs'[j].key \in EverUsed \cup {key}
    <3>1. CASE j = n + 1
      BY <1>6, <1>8, <3>1
    <3>2. CASE j \in 1 .. n
      BY <1>2, <1>8, <3>2 DEF EverUsed
    <3> QED BY <1>2, <1>8, <2>1, <3>1, <3>2
  <2> QED BY <2>1 DEF EverUsed
<1>13. Past'
  <2>1. ASSUME NEW k \in EverUsed', k.of = "schedule" PROVE k.id \in Sources /\ Behind(k, k.id)'
    <3>1. CASE k = key
      <4>1. Kept(s)'
        BY <1>3, <1>9, RowFacts DEF Kept
      <4>2. row.enabled => old.due < row.due
        BY <1>3, <1>4
      <4> HIDE DEF old
      <4> QED BY <1>2, <1>3, <1>5, <1>9, <3>1, <4>1, <4>2 DEF Behind
    <3>2. CASE k \in EverUsed
      <4>1. k.id \in Sources /\ Behind(k, k.id) /\ k.generation \in Nat /\ k.due \in Nat
        BY <2>1, <3>2, JobsType, KeyFacts DEF IInv, Past
      <4>2. CASE k.id # s
        BY <1>9, <4>1, <4>2 DEF Behind, Kept
      <4>3. CASE k.id = s
        <5>1. k.generation <= old.generation /\ (k.generation = old.generation => k.due < old.due)
          BY <1>1, <4>1, <4>3 DEF Behind
        <5>2. Kept(s)'
          BY <1>3, <1>9, RowFacts DEF Kept
        <5> QED BY <1>2, <1>3, <1>4, <1>9, <4>1, <4>3, <5>1, <5>2 DEF Behind
      <4> QED BY <4>2, <4>3
    <3> QED BY <1>12, <2>1, <3>1, <3>2
  <2> QED BY <2>1 DEF Past
<1>14. LoopInv'
  <2>1. DOMAIN jobs' \subseteq 1 .. MaxJobs
    BY <1>2, <1>8, PlanningAssumption DEF n
  <2>2. loop'.at = "claim" => loop'.job \in DOMAIN jobs'
    BY <1>2, <1>8 DEF LoopMoves
  <2> QED BY <2>1, <2>2 DEF LoopMoves, LoopInv
<1>15. QueuedIsWanted'
  <2>1. ASSUME NEW j \in DOMAIN jobs', jobs'[j].status = "queued", jobs'[j].key.of = "schedule",
               ~jobs'[j].resumed
        PROVE  /\ schedules'[jobs'[j].schedule] # NoSchedule
               /\ \/ schedules'[jobs'[j].schedule].enabled
                  \/ /\ schedules'[jobs'[j].schedule].every = None
                     /\ schedules'[jobs'[j].schedule].last = j
    <3>1. CASE j = n + 1
      BY <1>3, <1>6, <1>8, <1>9, <3>1, RowFacts
    <3>2. CASE j \in 1 .. n
      <4>1. /\ jobs'[j] = jobs[j] /\ j \in DOMAIN jobs /\ jobs[j].schedule \in Sources
            /\ jobs[j].schedule # s
        BY <1>2, <1>8, <2>1, <3>2 DEF IInv, Named, Live
      <4> QED BY <1>9, <2>1, <4>1 DEF IInv, QueuedIsWanted, Kept
    <3> QED BY <1>2, <1>8, <2>1, <3>1, <3>2
  <2> QED BY <2>1 DEF QueuedIsWanted, Kept
<1>16. NoRepeat
  <2>1. ASSUME NEW j \in DOMAIN jobs', j \in DOMAIN jobs => jobs[j].key # jobs'[j].key
        PROVE  jobs'[j].key \notin Used
    <3>1. j = n + 1
      BY <1>2, <1>8, <2>1
    <3> QED BY <1>6, <1>7, <1>8, <3>1
  <2>2. Used \subseteq Used'
    BY <1>2, <1>8 DEF Used
  <2> QED BY <2>1, <2>2 DEF NoRepeat, BegunNow
<1>17. Fired' = Fired \cup {n + 1} /\ n + 1 \notin Fired
  <2>1. s # None
    BY AskedFacts
  <2> QED BY <1>2, <1>6, <1>8, <2>1 DEF Fired
<1> QED BY <1>10, <1>11, <1>13, <1>14, <1>15, <1>16, <1>17 DEF IInv, n

\* The transaction does nothing, leaves an occurrence out or queues it.
LEMMA EnqueueCases ==
    ASSUME IInv, EnqueueSchedule
    PROVE  /\ Head(loop.todo) \in Sources /\ LoopMoves
           /\ UNCHANGED <<now, goals, retired, tombstones, reviewAt, changes, refused>>
           /\ \E s \in Sources :
                \/ UNCHANGED <<schedules, jobs>>
                \/ /\ StillDue(s) /\ schedules[s].every # None
                   /\ \E j \in DOMAIN jobs : jobs[j].schedule = s /\ Live(j)
                   /\ schedules' = [schedules EXCEPT ![s].due = After(schedules[s])]
                   /\ jobs' = jobs
                \/ /\ StillDue(s) /\ Len(jobs) < MaxJobs
                   /\ \A j \in DOMAIN jobs : jobs[j].schedule = s => ~Live(j)
                   /\ Occurrence(s, schedules[s]) \notin Used
                   /\ jobs' = Append(jobs,
                                NewJob(Occurrence(s, schedules[s]), s, schedules[s].goal))
                   /\ schedules' = [schedules EXCEPT ![s] = FiredRow(schedules[s])]
<1>1. loop.todo # << >> /\ Head(loop.todo) \in Sources
  BY OnwardMoves DEF IInv, LoopInv, EnqueueSchedule
<1>2. LoopMoves
  BY <1>1, OnwardMoves DEF IInv, EnqueueSchedule
<1> QED BY <1>1, <1>2 DEF EnqueueSchedule, FiredRow

LEMMA EnqueueScheduleKeeps ==
    ASSUME IInv, EnqueueSchedule PROVE IInv' /\ NoRepeat
BY EnqueueCases, SameTables, OccurrenceSkipped, OccurrenceFires

-----------------------------------------------------------------------------
(***************************************************************************)
(* The reviews.                                                            *)
(***************************************************************************)

\* The latest job of a goal is one of its jobs.
LEMMA PreviousFacts ==
    ASSUME TypeOK, NEW g \in Goals, Previous(g) # None
    PROVE  /\ Previous(g) \in DOMAIN jobs /\ jobs[Previous(g)].goal = g
           /\ jobs[Previous(g)].status # "forgotten"
<1> DEFINE of == {j \in DOMAIN jobs : jobs[j].goal = g /\ jobs[j].status # "forgotten"}
<1>1. of # {} /\ Previous(g) = CHOOSE j \in of : \A i \in of : i <= j
  BY DEF Previous
<1>2. \E j \in of : \A i \in of : i <= j
  BY <1>1, JobsType, GreatestIndex
<1> QED BY <1>1, <1>2

\* A goal is not started for an occurrence that was reviewed.
LEMMA StartedFacts ==
    ASSUME NEW listed \in SUBSET Goals, NEW g \in Started(listed)
    PROVE  g \in Goals /\ Review(g, reviewAt) \notin Used
BY DEF Started, Open

\* A job that is resumed for a review takes the identity of the review and stays the job
\* of its goal.
LEMMA RenewedFacts ==
    ASSUME TypeOK, NEW resumed \in SUBSET Goals, NEW all \in SUBSET Goals, resumed = Resumed(all),
           NEW j \in DOMAIN jobs
    PROVE  /\ RenewedJobs(resumed)[j] \in Job
           /\ \/ RenewedJobs(resumed)[j] = jobs[j]
              \/ \E g \in resumed :
                    /\ j = Previous(g) /\ jobs[j].goal = g
                    /\ RenewedJobs(resumed)[j].key = Review(g, reviewAt)
                    /\ RenewedJobs(resumed)[j].schedule = jobs[j].schedule
                    /\ RenewedJobs(resumed)[j].status = "queued"
<1> DEFINE y == RenewedJobs(resumed)[j]
<1>1. CASE ~ \E g \in resumed : j = Previous(g)
  <2>1. y = jobs[j]
    BY <1>1 DEF RenewedJobs
  <2> QED BY <2>1, JobsType
<1>2. CASE \E g \in resumed : j = Previous(g)
  <2>1. PICK g \in resumed : j = Previous(g)
    BY <1>2
  <2>2. Previous(g) # None /\ jobs[j].goal = g
    BY <2>1, PreviousFacts DEF Resumed
  <2> DEFINE x == jobs[j]
  <2> DEFINE k == Review(g, reviewAt)
  <2>3. y = [x EXCEPT !.status = "queued", !.key = k]
    BY <1>2, <2>2 DEF RenewedJobs
  <2>4. x \in Job /\ k \in JobKey
    BY JobsType, KeyFacts DEF TypeOK
  <2> HIDE DEF x, k, y
  <2>5. /\ y \in Job /\ y.key = k /\ y.schedule = x.schedule /\ y.status = "queued"
    BY <2>3, <2>4 DEF Job, JobStatus
  <2> QED BY <2>1, <2>2, <2>5 DEF x, k, y
<1> QED BY <1>1, <1>2

\* What the transaction of a review does to the tables: jobs that were there stay, or are
\* renamed and leave their identity; the new ones are reviews too.
LEMMA ReviewShape ==
    ASSUME IInv, NEW listed \in SUBSET Goals, ReviewGoals(listed)
    PROVE  /\ \E n \in Nat :
                 /\ jobs' \in Seq(Job) /\ Len(jobs) + n <= MaxJobs
                 /\ Len(jobs') = Len(jobs) + n
                 /\ \A j \in (Len(jobs) + 1) .. (Len(jobs) + n) :
                       /\ \E g \in Goals : jobs'[j].key = Review(g, reviewAt)
                                           /\ Review(g, reviewAt) \notin Used
                       /\ jobs'[j].schedule = None
           /\ \A j \in DOMAIN jobs :
                 \/ jobs'[j] = jobs[j]
                 \/ /\ \E g \in Goals : jobs'[j].key = Review(g, reviewAt)
                                        /\ Review(g, reviewAt) \notin Used
                    /\ jobs'[j].schedule = jobs[j].schedule
                    /\ jobs[j].key \in tombstones'
           /\ tombstones \subseteq tombstones' /\ tombstones' \subseteq EverUsed
           /\ reviewAt' \in Time
           /\ UNCHANGED <<now, goals, plan, loop, changes, refused>>
<1> DEFINE started == Started(listed)
<1> DEFINE resumed == Resumed(started)
<1>1. \A g \in started : g \in Goals /\ Review(g, reviewAt) \notin Used
  BY StartedFacts
<1>2. resumed \subseteq started /\ \A g \in resumed : Previous(g) # None
  BY DEF Resumed
<1>3. \A g \in resumed : Previous(g) \in DOMAIN jobs
  BY <1>1, <1>2, PreviousFacts DEF IInv
<1>4. /\ jobs \in Seq(Job) /\ Len(jobs) \in Nat /\ DOMAIN jobs = 1 .. Len(jobs)
  BY JobsType DEF IInv, TypeOK
<1>5. PICK begun \in InOrder(started \ resumed) :
          /\ Len(jobs) + Len(begun) <= MaxJobs
          /\ jobs' = RenewedJobs(resumed) \o ReviewJobs(begun)
  BY DEF ReviewGoals
<1>6. tombstones' = tombstones \cup {jobs[Previous(g)].key : g \in resumed}
  BY DEF ReviewGoals
<1>7. reviewAt' \in Time
  <2>1. /\ reviewAt \in Nat /\ reviewAt <= now /\ now \in 0 .. MaxTime /\ reviewAt \in Time
        /\ ReviewInterval \in Nat \ {0} /\ MaxTime \in Nat /\ Interval \in Nat
    BY PlanningAssumption DEF IInv, TypeOK, Time, ReviewGoals
  <2>2. NextDue(reviewAt, ReviewInterval, now) \in Time
    <3>1. /\ NextDue(reviewAt, ReviewInterval, now) \in Int
          /\ NextDue(reviewAt, ReviewInterval, now) > now
          /\ NextDue(reviewAt, ReviewInterval, now) <= now + ReviewInterval
      BY <2>1, NextDueFacts
    <3> QED BY <2>1, <3>1 DEF Time
  <2> QED BY <2>1, <2>2 DEF ReviewGoals
<1>8. UNCHANGED <<now, goals, plan, loop, changes, refused>>
  BY DEF ReviewGoals
<1>9. \A j \in DOMAIN jobs :
          /\ RenewedJobs(resumed)[j] \in Job
          /\ \/ RenewedJobs(resumed)[j] = jobs[j]
             \/ \E g \in resumed :
                   /\ j = Previous(g)
                   /\ RenewedJobs(resumed)[j].key = Review(g, reviewAt)
                   /\ RenewedJobs(resumed)[j].schedule = jobs[j].schedule
  <2>1. resumed \in SUBSET Goals /\ started \in SUBSET Goals
    BY <1>1, <1>2
  <2> HIDE DEF started
  <2> QED BY <2>1, RenewedFacts DEF IInv
<1> DEFINE old == RenewedJobs(resumed)
<1> DEFINE new == ReviewJobs(begun)
<1> DEFINE n == Len(begun)
<1>10. /\ begun \in Seq(started \ resumed) /\ n \in Nat /\ DOMAIN begun = 1 .. n
       /\ begun \in [1 .. n -> started \ resumed]
  <2>1. /\ started \ resumed \subseteq Goals /\ IsFiniteSet(Goals)
        /\ begun \in SetToSeqs(started \ resumed)
    BY <1>1, PlanningAssumption DEF InOrder
  <2> HIDE DEF started, resumed
  <2> QED BY <2>1, Listed
<1>11. old \in Seq(Job) /\ Len(old) = Len(jobs)
  <2>1. old \in [1 .. Len(jobs) -> Job]
    BY <1>4, <1>9 DEF RenewedJobs
  <2> HIDE DEF old
  <2> QED BY <1>4, <2>1, Sequence
<1>12. \A i \in 1 .. n : /\ new[i] \in Job /\ new[i].key = Review(begun[i], reviewAt)
                         /\ new[i].schedule = None /\ begun[i] \in started
  <2>1. SUFFICES ASSUME NEW i \in 1 .. n
        PROVE  /\ new[i] \in Job /\ new[i].key = Review(begun[i], reviewAt)
               /\ new[i].schedule = None /\ begun[i] \in started
    OBVIOUS
  <2>2. PICK g \in Goals : g = begun[i] /\ g \in started
    BY <1>1, <1>10
  <2>3. Review(g, reviewAt) \in JobKey
    BY KeyFacts DEF IInv, TypeOK
  <2>4. new[i] = NewJob(Review(g, reviewAt), None, g)
    BY <1>10, <2>2 DEF ReviewJobs
  <2> QED BY <2>2, <2>3, <2>4, NewJobFacts
<1>13. new \in Seq(Job) /\ Len(new) = n
  <2>1. new \in [1 .. n -> Job]
    BY <1>10, <1>12 DEF ReviewJobs
  <2> HIDE DEF new, n
  <2> QED BY <1>10, <2>1, Sequence
<1>14. jobs' = old \o new /\ Len(jobs) + n <= MaxJobs
  BY <1>5
<1> HIDE DEF old, new, n
<1>15. /\ jobs' \in Seq(Job) /\ Len(jobs') = Len(jobs) + n
       /\ \A i \in 1 .. Len(jobs) + n :
             jobs'[i] = IF i <= Len(jobs) THEN old[i] ELSE new[i - Len(jobs)]
  <2>1. /\ old \o new \in Seq(Job)
        /\ Len(old \o new) = Len(old) + Len(new)
        /\ \A i \in 1 .. Len(old) + Len(new) :
              (old \o new)[i] = IF i <= Len(old) THEN old[i] ELSE new[i - Len(old)]
    BY <1>11, <1>13, ConcatProperties
  <2> QED BY <1>11, <1>13, <1>14, <2>1, Zenon
<1>16. \A j \in (Len(jobs) + 1) .. (Len(jobs) + n) :
            /\ \E g \in Goals : jobs'[j].key = Review(g, reviewAt)
                                /\ Review(g, reviewAt) \notin Used
            /\ jobs'[j].schedule = None
  <2>1. SUFFICES ASSUME NEW j \in (Len(jobs) + 1) .. (Len(jobs) + n)
        PROVE  /\ \E g \in Goals : jobs'[j].key = Review(g, reviewAt)
                                   /\ Review(g, reviewAt) \notin Used
               /\ jobs'[j].schedule = None
    OBVIOUS
  <2>2. PICK i \in 1 .. n : i = j - Len(jobs)
    BY <1>4, <1>10
  <2>3. jobs'[j] = new[i]
    BY <1>4, <1>10, <1>15, <2>2
  <2> HIDE DEF started
  <2> QED BY <1>1, <1>12, <2>2, <2>3
<1>17. \A j \in DOMAIN jobs :
          \/ jobs'[j] = jobs[j]
          \/ /\ \E g \in Goals : jobs'[j].key = Review(g, reviewAt)
                                 /\ Review(g, reviewAt) \notin Used
             /\ jobs'[j].schedule = jobs[j].schedule
             /\ jobs[j].key \in tombstones'
  <2>1. \A j \in DOMAIN jobs : jobs'[j] = old[j]
    BY <1>4, <1>10, <1>15
  <2> HIDE DEF started, resumed
  <2> QED BY <1>1, <1>2, <1>6, <1>9, <2>1 DEF old
<1>18. tombstones \subseteq tombstones' /\ tombstones' \subseteq EverUsed
  <2> HIDE DEF resumed
  <2> QED BY <1>3, <1>6 DEF EverUsed
<1> QED BY <1>7, <1>8, <1>10, <1>14, <1>15, <1>16, <1>17, <1>18 DEF n

LEMMA ReviewGoalsKeeps ==
    ASSUME IInv, NEW listed \in SUBSET Goals, ReviewGoals(listed)
    PROVE  IInv' /\ NoRepeat /\ Fired' = Fired
<1>1. PICK n \in Nat :
          /\ jobs' \in Seq(Job) /\ Len(jobs) + n <= MaxJobs
          /\ Len(jobs') = Len(jobs) + n
          /\ \A j \in (Len(jobs) + 1) .. (Len(jobs) + n) :
                /\ \E g \in Goals : jobs'[j].key = Review(g, reviewAt)
                                    /\ Review(g, reviewAt) \notin Used
                /\ jobs'[j].schedule = None
  BY ReviewShape
<1>2. \A j \in DOMAIN jobs :
          \/ jobs'[j] = jobs[j]
          \/ /\ \E g \in Goals : jobs'[j].key = Review(g, reviewAt)
                                 /\ Review(g, reviewAt) \notin Used
             /\ jobs'[j].schedule = jobs[j].schedule
             /\ jobs[j].key \in tombstones'
  BY ReviewShape
<1>3. /\ tombstones \subseteq tombstones' /\ tombstones' \subseteq EverUsed
      /\ reviewAt' \in Time /\ UNCHANGED <<now, goals, plan, loop, changes, refused>>
  BY ReviewShape
<1>4. /\ Len(jobs) \in Nat /\ DOMAIN jobs = 1 .. Len(jobs)
      /\ DOMAIN jobs' = 1 .. (Len(jobs) + n)
  BY <1>1, JobsType, LenProperties DEF IInv
<1>5. \A g \in Goals : Review(g, reviewAt).of = "goal"
  BY KeyFacts DEF IInv, TypeOK
<1>6. ASSUME NEW j \in DOMAIN jobs'
      PROVE  \/ j \in DOMAIN jobs /\ jobs'[j] = jobs[j]
             \/ /\ \E g \in Goals : jobs'[j].key = Review(g, reviewAt)
                                    /\ Review(g, reviewAt) \notin Used
                /\ jobs'[j].key.of = "goal" /\ jobs'[j].key \notin Used
                /\ j \in DOMAIN jobs => /\ jobs'[j].schedule = jobs[j].schedule
                                        /\ jobs[j].key \in tombstones'
                /\ j \notin DOMAIN jobs => jobs'[j].schedule = None
  <2>1. CASE j \in DOMAIN jobs
    BY <1>2, <1>5, <2>1
  <2>2. CASE j \in (Len(jobs) + 1) .. (Len(jobs) + n)
    BY <1>1, <1>4, <1>5, <2>2
  <2> QED BY <1>4, <1>6, <2>1, <2>2
<1>7. TypeOK'
  <2>1. tombstones' \subseteq JobKey
    BY <1>3, JobsType DEF IInv
  <2> QED BY <1>1, <1>3, <2>1 DEF IInv, TypeOK, plan
<1>8. Named'
  BY <1>6 DEF IInv, Named
<1>9. UNCHANGED <<schedules, retired>>
  BY <1>3 DEF plan
<1>10. Past'
  <2>1. ASSUME NEW k \in EverUsed', k.of = "schedule" PROVE k \in EverUsed
    BY <1>3, <1>6, <2>1 DEF EverUsed
  <2>2. ASSUME NEW k \in EverUsed', k.of = "schedule" PROVE k.id \in Sources /\ Behind(k, k.id)'
    BY <1>9, <2>1, <2>2 DEF IInv, Past, Behind, Kept
  <2> QED BY <2>2 DEF Past
<1>11. LoopInv'
  BY <1>1, <1>3, <1>4, PlanningAssumption DEF IInv, LoopInv
<1>12. QueuedIsWanted'
  <2>1. ASSUME NEW j \in DOMAIN jobs', jobs'[j].status = "queued", jobs'[j].key.of = "schedule",
               ~jobs'[j].resumed
        PROVE  /\ schedules'[jobs'[j].schedule] # NoSchedule
               /\ \/ schedules'[jobs'[j].schedule].enabled
                  \/ /\ schedules'[jobs'[j].schedule].every = None
                     /\ schedules'[jobs'[j].schedule].last = j
    BY <1>6, <1>9, <2>1 DEF IInv, QueuedIsWanted, Kept
  <2> QED BY <2>1 DEF QueuedIsWanted, Kept
<1>13. NoRepeat
  <2>1. \A j \in DOMAIN jobs' : (j \in DOMAIN jobs => jobs[j].key # jobs'[j].key)
                                   => jobs'[j].key \notin Used
    BY <1>6
  <2>2. \A j \in DOMAIN jobs : jobs[j].status # "forgotten" =>
            jobs[j].key \in tombstones' \/ jobs'[j] = jobs[j]
    BY <1>2
  <2>3. DOMAIN jobs \subseteq DOMAIN jobs'
    BY <1>4
  <2>4. Used \subseteq Used'
    BY <1>3, <2>2, <2>3 DEF Used
  <2> QED BY <2>1, <2>4 DEF NoRepeat, BegunNow
<1>14. Fired' = Fired
  <2>1. DOMAIN jobs \subseteq DOMAIN jobs'
    BY <1>4
  <2> QED BY <1>6, <2>1 DEF Fired
<1> QED BY <1>7, <1>8, <1>10, <1>11, <1>12, <1>13, <1>14 DEF IInv

-----------------------------------------------------------------------------
(***************************************************************************)
(* The invariant, and what follows from it.                                *)
(***************************************************************************)
LEMMA InitInv == Init => IInv
<1> SUFFICES ASSUME Init PROVE IInv
  OBVIOUS
<1> USE DEF Init
<1>1. /\ jobs = << >> /\ DOMAIN jobs = {} /\ jobs \in Seq(Job)
  BY EmptySeq
<1>2. TypeOK
  <2>1. loop \in Standings
    BY StandingFacts
  <2>2. 0 \in 0 .. MaxTime /\ 0 \in Time /\ 0 \in 0 .. MaxChanges
    BY PlanningAssumption DEF Time
  <2> QED BY <1>1, <2>1, <2>2 DEF TypeOK, Standings
<1>3. Named /\ Past /\ QueuedIsWanted
  BY <1>1 DEF Named, Past, EverUsed, QueuedIsWanted
<1>4. LoopInv
  BY <1>1, StandingFacts DEF LoopInv
<1> QED BY <1>2, <1>3, <1>4 DEF IInv

\* The owner's requests.
LEMMA RequestKeeps ==
    ASSUME IInv, Request, changes' \in 0 .. MaxChanges, refused' \in BOOLEAN
    PROVE  IInv' /\ NoRepeat
<1>1. CASE \E s \in Sources : \E at \in 0 .. MaxTime : CreateSchedule(s, at) \/ Reschedule(s, at)
  BY <1>1, CreateScheduleKeeps, RescheduleKeeps
<1>2. CASE \E s \in Sources, on \in BOOLEAN : OwnerSwitches(s, on)
  BY <1>2, OwnerSwitchesKeeps
<1>3. CASE \E s \in Sources : DeleteSchedule(s)
  BY <1>3, DeleteScheduleKeeps
<1>4. CASE \E g \in Goals, status \in {"active", "resting", "removed"} : SetGoal(g, status)
  BY <1>4, SetGoalKeeps
<1>5. CASE \E j \in DOMAIN jobs : CancelJob(j) \/ ResumeJob(j)
  BY <1>5, CancelJobKeeps, ResumeJobKeeps
<1> QED BY <1>1, <1>2, <1>3, <1>4, <1>5 DEF Request

LEMMA BoundedChange ==
    ASSUME IInv, Disturbance
    PROVE  changes' \in 0 .. MaxChanges /\ refused' \in BOOLEAN
<1>1. changes' \in 0 .. MaxChanges
  BY PlanningAssumption DEF Disturbance, IInv, TypeOK
<1>2. refused' \in BOOLEAN
  <2>1. refused \in BOOLEAN /\ (refused' = TRUE \/ refused' = refused)
    BY DEF Disturbance, AnswerAtLength, IInv, TypeOK
  <2> QED BY <2>1
<1> QED BY <1>1, <1>2

\* Every step keeps the invariant, takes no identity that was used and frees none.
LEMMA StepInv == IInv /\ [Next]_vars => IInv' /\ NoRepeat
<1> SUFFICES ASSUME IInv, [Next]_vars PROVE IInv' /\ NoRepeat
  OBVIOUS
<1>1. CASE Disturbance
  <2>1. changes' \in 0 .. MaxChanges /\ refused' \in BOOLEAN
    BY <1>1, BoundedChange
  <2>2. AnswerAtLength \/ Request \/ Restart
    BY <1>1 DEF Disturbance
  <2> QED BY <2>1, <2>2, AnswerAtLengthKeeps, RequestKeeps, RestartKeeps
<1>2. CASE Loop
  BY <1>2, QueueSchedulesKeeps, CheckRoomAndGoalKeeps, EnqueueScheduleKeeps, StartNextKeeps,
     ClaimKeeps DEF Loop
<1>3. CASE Jobs
  BY <1>3, FinishKeeps, DeliverKeeps, PruneJobKeeps, PruneScheduleKeeps DEF Jobs
<1>4. CASE Tick
  BY <1>4, TickKeeps
<1>5. CASE \E listed \in SUBSET Goals : ReviewGoals(listed)
  BY <1>5, ReviewGoalsKeeps
<1>6. CASE UNCHANGED vars
  BY <1>6, StutterKeeps
<1> QED BY <1>1, <1>2, <1>3, <1>4, <1>5, <1>6 DEF Next

\* The inductive invariant holds in every state.
THEOREM Invariance == Spec => []IInv
<1>1. IInv /\ [Next]_vars => IInv'
  BY StepInv
<1> QED BY <1>1, InitInv, PTL DEF Spec

\* Every variable of PlannedWork keeps its type, within the bounds of the model.
THEOREM TypeCorrect == Spec => []TypeOK
<1>1. IInv => TypeOK
  BY DEF IInv
<1> QED BY <1>1, Invariance, PTL

\* The identity of the next occurrence is never taken, so enqueue_in never refuses what is
\* due as a repetition and no pass of the loop ends there for ever.
THEOREM FreshKeys == Spec => []KeyIsFresh
<1>1. ASSUME IInv PROVE KeyIsFresh
  <2> SUFFICES ASSUME NEW s \in Sources, Enabled(s), Occurrence(s, schedules[s]) \in Used
               PROVE  FALSE
    BY DEF KeyIsFresh
  <2> DEFINE key == Occurrence(s, schedules[s])
  <2>1. Kept(s) /\ schedules[s] \in Schedule /\ schedules[s].enabled
    BY <1>1, Rows DEF IInv, Enabled
  <2>2. key = [of |-> "schedule", id |-> s, generation |-> schedules[s].generation,
               due |-> schedules[s].due]
    BY <2>1, KeyFacts
  <2>3. key \in EverUsed
    BY DEF Used, EverUsed
  <2> HIDE DEF key
  <2>4. Behind(key, s)
    BY <1>1, <2>2, <2>3 DEF IInv, Past
  <2>5. schedules[s].due \in Nat
    BY <2>1, RowFacts
  <2> QED BY <2>1, <2>2, <2>4, <2>5 DEF Behind
<1> QED BY <1>1, Invariance, PTL

\* Work of a schedule waits in the queue only while the schedule is there and enabled, or
\* had no more than this occurrence: disabling, deleting and retention cancel or wait.
THEOREM WaitingIsWanted == Spec => []QueuedIsWanted
<1>1. IInv => QueuedIsWanted
  BY DEF IInv
<1> QED BY <1>1, Invariance, PTL

\* No transaction gives a job an identity that was used, and no retention or resumed review
\* makes one free again.
THEOREM NothingRepeats == Spec => ReviewsDoNotRepeat
<1>1. IInv /\ [Next]_vars => [BegunNow \cap Used = {} /\ Used \subseteq Used']_vars
  BY StepInv DEF NoRepeat
<1> QED BY <1>1, Invariance, PTL DEF Spec, ReviewsDoNotRepeat

-----------------------------------------------------------------------------
(***************************************************************************)
(* The contract.                                                           *)
(***************************************************************************)

\* What the contract calls plans and busy.
Plans == [s \in Sources |-> PlanOf(s)]
Busy  == {jobs[j].schedule : j \in {i \in DOMAIN jobs : Live(i)}}

\* The plan of a schedule that is kept.
Holds(row) == [state |-> "kept", on |-> row.enabled, due |-> row.due,
               every |-> row.every, edition |-> row.generation]

\* A step of the contract, over the plans the model shows it.
Promised ==
    /\ now' >= now
    /\ \/ UNCHANGED Plans /\ Cardinality(Fired)' = Cardinality(Fired)
       \/ \E s \in Sources :
             /\ Plans[s].state # "gone"
             /\ Plans' = [Plans EXCEPT ![s] = Plans'[s]]
             /\ Contract!Fire(s) \/ Contract!Skip(s) \/ Contract!Change(s)

LEMMA PlansOf ==
    ASSUME TypeOK
    PROVE  \A s \in Sources : Kept(s) => /\ Plans[s] = Holds(schedules[s])
                                         /\ schedules[s] \in Schedule
BY Rows DEF Plans, PlanOf, Holds

LEMMA SamePlans == UNCHANGED <<schedules, retired>> => UNCHANGED Plans
BY DEF Plans, PlanOf, Kept

LEMMA OnePlan ==
    ASSUME TypeOK, NEW s \in Sources, NEW row \in Schedule, retired' = retired,
           schedules' = [schedules EXCEPT ![s] = row]
    PROVE  /\ Plans' = [Plans EXCEPT ![s] = Plans'[s]]
           /\ Plans'[s] = Holds(row)
<1>1. schedules'[s] = row /\ \A z \in Sources : z # s => schedules'[z] = schedules[z]
  BY DEF TypeOK
<1>2. \A z \in Sources : z # s => PlanOf(z)' = PlanOf(z)
  BY <1>1 DEF PlanOf, Kept
<1>3. Plans' = [Plans EXCEPT ![s] = Plans'[s]]
  BY <1>2 DEF Plans
<1>4. PlanOf(s)' = Holds(row)
  BY <1>1, RowFacts DEF PlanOf, Kept, Holds
<1> QED BY <1>3, <1>4 DEF Plans

LEMMA PlanGone ==
    ASSUME TypeOK, NEW s \in Sources, retired' = retired \cup {s},
           schedules' = [schedules EXCEPT ![s] = NoSchedule]
    PROVE  /\ Plans' = [Plans EXCEPT ![s] = Plans'[s]]
           /\ Plans'[s].state = "gone"
<1>1. schedules'[s] = NoSchedule /\ \A z \in Sources : z # s => schedules'[z] = schedules[z]
  BY DEF TypeOK
<1>2. \A z \in Sources : z # s => PlanOf(z)' = PlanOf(z)
  BY <1>1 DEF PlanOf, Kept
<1>3. Plans' = [Plans EXCEPT ![s] = Plans'[s]]
  BY <1>2 DEF Plans
<1>4. PlanOf(s)'.state = "gone"
  BY <1>1 DEF PlanOf, Kept
<1> QED BY <1>3, <1>4 DEF Plans

\* Plans that differ in one respect, or in one and in their edition.
LEMMA SwitchedPlan ==
    ASSUME NEW old \in Schedule, NEW row \in Schedule, NEW p, p = Holds(old),
           row.enabled # old.enabled, row.due = old.due, row.every = old.every,
           row.generation = old.generation + 1
    PROVE  [p EXCEPT !.on = ~@, !.edition = @ + 1] = Holds(row)
<1>1. DOMAIN p = {"state", "on", "due", "every", "edition"}
  BY DEF Holds
<1>2. p.on = old.enabled /\ p.edition = old.generation /\ row.enabled = ~old.enabled
  BY RowFacts DEF Holds
<1> DEFINE q == [p EXCEPT !.on = row.enabled]
<1>3. [p EXCEPT !.on = ~@, !.edition = @ + 1] = [q EXCEPT !.edition = row.generation]
  BY <1>1, <1>2
<1>4. q = [state |-> "kept", on |-> row.enabled, due |-> row.due,
           every |-> row.every, edition |-> old.generation]
  BY DEF Holds
<1> HIDE DEF q
<1>5. [q EXCEPT !.edition = row.generation] = Holds(row)
  BY <1>4 DEF Holds
<1> QED BY <1>3, <1>5

LEMMA MovedPlan ==
    ASSUME NEW old \in Schedule, NEW row \in Schedule, NEW p, p = Holds(old),
           row.enabled = old.enabled, row.every = old.every,
           row.generation = old.generation + 1
    PROVE  [p EXCEPT !.due = row.due, !.edition = @ + 1] = Holds(row)
<1>1. DOMAIN p = {"state", "on", "due", "every", "edition"} /\ p.edition = old.generation
  BY DEF Holds
<1> DEFINE q == [p EXCEPT !.due = row.due]
<1>2. [p EXCEPT !.due = row.due, !.edition = @ + 1] = [q EXCEPT !.edition = row.generation]
  BY <1>1
<1>3. q = [state |-> "kept", on |-> row.enabled, due |-> row.due,
           every |-> row.every, edition |-> old.generation]
  BY DEF Holds
<1> HIDE DEF q
<1>4. [q EXCEPT !.edition = row.generation] = Holds(row)
  BY <1>3 DEF Holds
<1> QED BY <1>2, <1>4

LEMMA SamePlanBut ==
    ASSUME NEW old \in Schedule, NEW row \in Schedule, NEW p, p = Holds(old),
           row.every = old.every, row.generation = old.generation
    PROVE  /\ row.enabled = old.enabled => [p EXCEPT !.due = row.due] = Holds(row)
           /\ row.due = old.due /\ row.enabled = FALSE => [p EXCEPT !.on = FALSE] = Holds(row)
<1>1. p = [state |-> "kept", on |-> old.enabled, due |-> old.due,
           every |-> row.every, edition |-> row.generation]
  BY DEF Holds
<1>2. ASSUME row.enabled = old.enabled PROVE [p EXCEPT !.due = row.due] = Holds(row)
  BY <1>1, <1>2 DEF Holds
<1>3. ASSUME row.due = old.due, row.enabled = FALSE PROVE [p EXCEPT !.on = FALSE] = Holds(row)
  <2>1. PICK off : off = FALSE
    OBVIOUS
  <2>2. [p EXCEPT !.on = off] = [state |-> "kept", on |-> off, due |-> row.due,
           every |-> row.every, edition |-> row.generation]
    BY <1>1, <1>3
  <2>3. [p EXCEPT !.on = off] = Holds(row)
    BY <1>3, <2>1, <2>2 DEF Holds
  <2> QED BY <2>1, <2>3, Zenon
<1> QED BY <1>2, <1>3

LEMMA Holding ==
    \A row \in Schedule : /\ Holds(row).state = "kept" /\ Holds(row).on = row.enabled
                          /\ Holds(row).due = row.due /\ Holds(row).every = row.every
BY DEF Holds

LEMMA StepOfContract == Promised => Contract!Next
BY DEF Promised, Contract!Next, Plans

\* A change of one plan that is not work.
LEMMA ChangeKept ==
    ASSUME now' >= now, Fired' = Fired, NEW s \in Sources,
           Plans[s].state # "gone", Plans' = [Plans EXCEPT ![s] = Plans'[s]],
           \/ Plans[s].state = "none" /\ Plans'[s].on
           \/ Plans'[s].state = "gone"
           \/ Plans'[s] = [Plans[s] EXCEPT !.on = ~@, !.edition = @ + 1]
           \/ Plans'[s] = [Plans[s] EXCEPT !.due = Plans'[s].due, !.edition = @ + 1]
    PROVE  Promised
BY DEF Promised, Contract!Change, Plans

LEMMA CreateSchedulePromised ==
    ASSUME IInv, Fired' = Fired, now' >= now, NEW s \in Sources, NEW at \in 0 .. MaxTime,
           CreateSchedule(s, at)
    PROVE  Promised
<1> DEFINE row == [generation |-> 1, enabled |-> TRUE, due |-> at, every |-> Asked[s].every,
                   goal |-> Asked[s].goal, last |-> None]
<1>1. row \in Schedule /\ row.enabled
  <2>1. at \in Time /\ None \in 0 .. MaxJobs /\ 1 \in Nat \ {0}
    BY PlanningAssumption DEF Time, None
  <2> QED BY <2>1, RowFacts, AskedFacts
<1>2. schedules' = [schedules EXCEPT ![s] = row] /\ retired' = retired
  BY DEF CreateSchedule
<1> HIDE DEF row
<1>3. Plans' = [Plans EXCEPT ![s] = Plans'[s]] /\ Plans'[s] = Holds(row)
  BY <1>1, <1>2, OnePlan DEF IInv
<1>4. Plans'[s].on
  BY <1>1, <1>3 DEF Holds
<1>5. Plans[s].state = "none"
  BY DEF Plans, PlanOf, CreateSchedule
<1> QED BY <1>3, <1>4, <1>5, ChangeKept

LEMMA SwitchPromised ==
    ASSUME IInv, Fired' = Fired, now' >= now, NEW s \in Sources, NEW on \in BOOLEAN, Kept(s),
           schedules' = Switched(s, on), retired' = retired
    PROVE  Promised
<1>1. PICK row : /\ schedules' = [schedules EXCEPT ![s] = row]
                 /\ row \in Schedule /\ row.every = schedules[s].every
                 /\ row.enabled = on /\ row.due = schedules[s].due
                 /\ \/ schedules[s].enabled = on /\ row = schedules[s]
                    \/ schedules[s].enabled # on /\ row.generation = schedules[s].generation + 1
  BY SwitchedFacts DEF IInv
<1>2. /\ Plans' = [Plans EXCEPT ![s] = Plans'[s]] /\ Plans'[s] = Holds(row)
      /\ Plans[s] = Holds(schedules[s]) /\ schedules[s] \in Schedule
  BY <1>1, OnePlan, PlansOf DEF IInv
<1>3. CASE schedules[s].enabled = on /\ row = schedules[s]
  <2>1. schedules' = schedules
    BY <1>1, <1>3 DEF IInv, TypeOK
  <2> QED BY <2>1, SamePlans DEF Promised
<1>4. CASE schedules[s].enabled # on /\ row.generation = schedules[s].generation + 1
  <2>1. schedules[s].enabled \in BOOLEAN
    BY <1>2, RowFacts
  <2>2. Plans'[s] = [Plans[s] EXCEPT !.on = ~@, !.edition = @ + 1]
    <3> DEFINE p == Plans[s]
    <3>1. p = Holds(schedules[s]) /\ row.enabled # schedules[s].enabled
      BY <1>1, <1>2, <1>4
    <3> HIDE DEF p
    <3>2. [p EXCEPT !.on = ~@, !.edition = @ + 1] = Holds(row)
      BY <1>1, <1>2, <1>4, <3>1, SwitchedPlan
    <3> QED BY <1>2, <3>2 DEF p
  <2>3. Plans[s].state # "gone"
    BY <1>2, Holding
  <2> QED BY <1>2, <2>2, <2>3, ChangeKept
<1> QED BY <1>1, <1>3, <1>4

LEMMA ReschedulePromised ==
    ASSUME IInv, Fired' = Fired, now' >= now, NEW s \in Sources, NEW at \in 0 .. MaxTime,
           Reschedule(s, at)
    PROVE  Promised
<1> DEFINE row == [schedules[s] EXCEPT !.due = at, !.generation = @ + 1]
<1>1. schedules[s] \in Schedule /\ at \in Time /\ Kept(s)
  BY Rows, PlanningAssumption DEF Time, Reschedule, IInv
<1>2. row = [generation |-> schedules[s].generation + 1,
             enabled |-> schedules[s].enabled, due |-> at,
             every |-> schedules[s].every, goal |-> schedules[s].goal, last |-> schedules[s].last]
  BY <1>1, MovedRow
<1>3. schedules[s].generation + 1 \in Nat \ {0}
  BY <1>1, RowFacts
<1>4. schedules' = [schedules EXCEPT ![s] = row] /\ retired' = retired
  BY DEF Reschedule, IInv, TypeOK
<1> HIDE DEF row
<1>5. row \in Schedule
  BY <1>1, <1>2, <1>3, RowFacts
<1>6. /\ Plans' = [Plans EXCEPT ![s] = Plans'[s]] /\ Plans'[s] = Holds(row)
      /\ Plans[s] = Holds(schedules[s])
  BY <1>1, <1>4, <1>5, OnePlan, PlansOf DEF IInv
<1>7. Plans'[s] = [Plans[s] EXCEPT !.due = Plans'[s].due, !.edition = @ + 1]
  <2>1. /\ row.enabled = schedules[s].enabled /\ row.every = schedules[s].every
        /\ row.generation = schedules[s].generation + 1
    BY <1>2
  <2>2. Plans'[s].due = row.due
    BY <1>5, <1>6, Holding
  <2>3. [Plans[s] EXCEPT !.due = row.due, !.edition = @ + 1] = Holds(row)
    <3> DEFINE p == Plans[s]
    <3>1. p = Holds(schedules[s])
      BY <1>6
    <3> HIDE DEF p
    <3>2. [p EXCEPT !.due = row.due, !.edition = @ + 1] = Holds(row)
      BY <1>1, <1>5, <2>1, <3>1, MovedPlan
    <3> QED BY <3>2 DEF p
  <2> QED BY <1>6, <2>2, <2>3, Zenon
<1>8. Plans[s].state # "gone"
  BY <1>1, <1>6, Holding
<1> QED BY <1>6, <1>7, <1>8, ChangeKept

LEMMA GonePromised ==
    ASSUME IInv, Fired' = Fired, now' >= now, NEW s \in Sources, Kept(s),
           retired' = retired \cup {s}, schedules' = [schedules EXCEPT ![s] = NoSchedule]
    PROVE  Promised
<1>1. Plans' = [Plans EXCEPT ![s] = Plans'[s]] /\ Plans'[s].state = "gone"
  BY PlanGone DEF IInv
<1>2. Plans[s].state # "gone"
  BY PlansOf, Holding DEF IInv
<1> QED BY <1>1, <1>2, ChangeKept

\* An occurrence becomes work.
LEMMA FireOf ==
    ASSUME NEW s \in Sources, Cardinality(Fired') = Cardinality(Fired) + 1,
           Plans[s].on, Plans[s].due <= now,
           \/ Plans[s].every = 0 /\ Plans'[s] = [Plans[s] EXCEPT !.on = FALSE]
           \/ /\ Plans[s].every # 0
              /\ Plans'[s] = [Plans[s] EXCEPT !.due = Plans'[s].due]
              /\ Contract!Follows(Plans'[s].due, Plans[s].due, Plans[s].every)
    PROVE  Contract!Fire(s)
BY DEF Contract!Fire, Plans

\* The transaction of the loop fires, skips or does nothing.
LEMMA EnqueuePromised ==
    ASSUME IInv, now' >= now, EnqueueSchedule
    PROVE  Promised
<1>1. UNCHANGED <<now, goals, retired, tombstones, reviewAt, changes, refused>> /\ LoopMoves
  BY EnqueueCases
<1>2. PICK s \in Sources :
        \/ UNCHANGED <<schedules, jobs>>
        \/ /\ StillDue(s) /\ schedules[s].every # None
           /\ \E j \in DOMAIN jobs : jobs[j].schedule = s /\ Live(j)
           /\ schedules' = [schedules EXCEPT ![s].due = After(schedules[s])]
           /\ jobs' = jobs
        \/ /\ StillDue(s) /\ Len(jobs) < MaxJobs
           /\ \A j \in DOMAIN jobs : jobs[j].schedule = s => ~Live(j)
           /\ Occurrence(s, schedules[s]) \notin Used
           /\ jobs' = Append(jobs, NewJob(Occurrence(s, schedules[s]), s, schedules[s].goal))
           /\ schedules' = [schedules EXCEPT ![s] = FiredRow(schedules[s])]
  BY EnqueueCases
<1>3. CASE UNCHANGED <<schedules, jobs>>
  BY <1>1, <1>3, SamePlans DEF Promised, Fired
<1> DEFINE old == schedules[s]
<1>4. ASSUME StillDue(s)
      PROVE  /\ Kept(s) /\ old \in Schedule /\ old.enabled /\ old.due <= loop.now
             /\ old.due <= now /\ Plans[s] = Holds(old)
             /\ old.every # None =>
                   /\ After(old) \in Time /\ old.due < After(old)
                   /\ (After(old) - old.due) % old.every = 0
                   /\ After(old) - old.every <= now /\ old.every \in Nat \ {0}
  <2>1. Kept(s) /\ old \in Schedule /\ old.enabled /\ old.due <= loop.now /\ Plans[s] = Holds(old)
    BY <1>4, Rows, PlansOf DEF IInv, StillDue, Enabled
  <2>2. old.due <= now
    <3>1. loop \in Standings /\ loop.now <= now /\ now \in Nat
      BY PlanningAssumption DEF IInv, TypeOK, Standings, LoopInv
    <3>2. loop.now \in Nat /\ old.due \in Nat
      BY <2>1, <3>1, StandingType, RowFacts
    <3> QED BY <2>1, <3>1, <3>2
  <2> QED BY <2>1, <2>2, AfterFacts
<1>5. CASE /\ StillDue(s) /\ schedules[s].every # None
           /\ \E j \in DOMAIN jobs : jobs[j].schedule = s /\ Live(j)
           /\ schedules' = [schedules EXCEPT ![s].due = After(schedules[s])]
           /\ jobs' = jobs
  <2> DEFINE row == [old EXCEPT !.due = After(old)]
  <2>1. /\ row \in Schedule /\ row.due = After(old) /\ row.every = old.every
        /\ row.enabled = old.enabled /\ row.generation = old.generation
    BY <1>4, <1>5 DEF Schedule
  <2>2. schedules' = [schedules EXCEPT ![s] = row] /\ retired' = retired
    BY <1>1, <1>5 DEF IInv, TypeOK
  <2> HIDE DEF row
  <2>3. /\ Plans' = [Plans EXCEPT ![s] = Plans'[s]] /\ Plans'[s] = Holds(row)
    BY <2>1, <2>2, OnePlan DEF IInv
  <2>4. /\ Plans[s].on /\ Plans[s].due <= now /\ Plans[s].every # 0 /\ Plans[s].state # "gone"
        /\ Plans[s].due = old.due /\ Plans[s].every = old.every
    BY <1>4, <1>5 DEF Holds, None
  <2>5. Plans'[s] = [Plans[s] EXCEPT !.due = Plans'[s].due] /\ Plans'[s].due = After(old)
    BY <1>4, <1>5, <2>1, <2>3 DEF Holds
  <2>6. Contract!Follows(Plans'[s].due, Plans[s].due, Plans[s].every)
    BY <1>4, <1>5, <2>4, <2>5 DEF Contract!Follows
  <2>7. s \in Busy
    BY <1>5 DEF Busy
  <2>8. Fired' = Fired
    BY <1>5 DEF Fired
  <2>9. Contract!Skip(s)
    BY <2>4, <2>5, <2>6, <2>7, <2>8 DEF Contract!Skip, Plans, Busy
  <2> QED BY <2>3, <2>4, <2>9 DEF Promised
<1>6. CASE /\ StillDue(s) /\ Len(jobs) < MaxJobs
           /\ \A j \in DOMAIN jobs : jobs[j].schedule = s => ~Live(j)
           /\ Occurrence(s, schedules[s]) \notin Used
           /\ jobs' = Append(jobs, NewJob(Occurrence(s, schedules[s]), s, schedules[s].goal))
           /\ schedules' = [schedules EXCEPT ![s] = FiredRow(schedules[s])]
  <2> DEFINE row == FiredRow(old)
  <2>1. /\ row \in Schedule /\ row.generation = old.generation
        /\ row.enabled = (old.every # None) /\ row.every = old.every
        /\ row.due = IF old.every = None THEN old.due ELSE After(old)
    BY <1>4, <1>6, FiredRowFacts
  <2>2. schedules' = [schedules EXCEPT ![s] = row] /\ retired' = retired
    BY <1>1, <1>6
  <2> HIDE DEF row
  <2>3. /\ Plans' = [Plans EXCEPT ![s] = Plans'[s]] /\ Plans'[s] = Holds(row)
    BY <2>1, <2>2, OnePlan DEF IInv
  <2>4. /\ Plans[s].on /\ Plans[s].due <= now /\ Plans[s].state # "gone"
        /\ Plans[s].due = old.due /\ Plans[s].every = old.every
    BY <1>4, <1>6 DEF Holds
  <2>9. old \in Schedule
    BY <1>4, <1>6
  <2>5. Cardinality(Fired') = Cardinality(Fired) + 1
    <3>1. Fired' = Fired \cup {Len(jobs) + 1} /\ Len(jobs) + 1 \notin Fired
      BY <1>1, <1>6, OccurrenceFires
    <3>2. IsFiniteSet(Fired)
      <4>1. Fired \subseteq 1 .. Len(jobs) /\ Len(jobs) \in Int /\ 1 \in Int
        BY JobsType DEF IInv, Fired
      <4>2. IsFiniteSet(1 .. Len(jobs))
        BY <4>1, FS_Interval
      <4> QED BY <4>1, <4>2, FS_Subset
    <3> QED BY <3>1, <3>2, FS_AddElement
  <2>6. CASE old.every = None
    <3>1. row.enabled = FALSE /\ row.due = old.due /\ Plans[s].every = 0
      BY <2>1, <2>4, <2>6 DEF None
    <3>2. Plans'[s] = [Plans[s] EXCEPT !.on = FALSE]
      <4> DEFINE p == Plans[s]
      <4>1. p = Holds(old)
        BY <1>4, <1>6
      <4> HIDE DEF p, old
      <4>2. [p EXCEPT !.on = FALSE] = Holds(row)
        BY <2>1, <3>1, <4>1, <2>9, SamePlanBut
      <4> QED BY <2>3, <4>2 DEF p
    <3>3. Contract!Fire(s)
      BY <2>4, <2>5, <3>1, <3>2, FireOf
    <3> QED BY <2>3, <2>4, <3>3 DEF Promised
  <2>7. CASE old.every # None
    <3>1. row.enabled = TRUE /\ row.due = After(old) /\ Plans[s].every # 0
      BY <2>1, <2>4, <2>7 DEF None
    <3>2. Plans'[s] = [Plans[s] EXCEPT !.due = row.due] /\ Plans'[s].due = row.due
      BY <1>4, <1>6, <2>1, <2>3, <3>1, SamePlanBut, Holding
    <3>3. Contract!Follows(Plans'[s].due, Plans[s].due, Plans[s].every)
      BY <1>4, <1>6, <2>4, <2>7, <3>1, <3>2 DEF Contract!Follows
    <3>4. Plans'[s] = [Plans[s] EXCEPT !.due = Plans'[s].due]
      BY <3>2
    <3>5. Contract!Fire(s)
      BY <2>4, <2>5, <3>1, <3>3, <3>4, FireOf
    <3> QED BY <2>3, <2>4, <3>5 DEF Promised
  <2> QED BY <2>6, <2>7
<1> QED BY <1>2, <1>3, <1>5, <1>6

\* Steps that leave the schedules alone and queue no work of theirs.
LEMMA QuietPromised ==
    ASSUME IInv, Fired' = Fired, UNCHANGED plan, now' >= now
    PROVE  Promised
<1>1. UNCHANGED <<schedules, retired>>
  BY DEF plan
<1> QED BY <1>1, SamePlans DEF Promised

LEMMA RequestPromised ==
    ASSUME IInv, Request, changes' \in 0 .. MaxChanges, refused' \in BOOLEAN
    PROVE  Promised
<1>0. now \in Nat
  BY PlanningAssumption DEF IInv, TypeOK
<1>1. CASE \E s \in Sources : \E at \in 0 .. MaxTime : CreateSchedule(s, at)
  <2>1. PICK s \in Sources, at \in 0 .. MaxTime : CreateSchedule(s, at)
    BY <1>1
  <2>2. Fired' = Fired
    BY <2>1, CreateScheduleKeeps
  <2>3. now' >= now
    BY <1>0, <2>1 DEF CreateSchedule
  <2> QED BY <2>1, <2>2, <2>3, CreateSchedulePromised
<1>2. CASE \E s \in Sources : \E at \in 0 .. MaxTime : Reschedule(s, at)
  <2>1. PICK s \in Sources, at \in 0 .. MaxTime : Reschedule(s, at)
    BY <1>2
  <2>2. Fired' = Fired
    BY <2>1, RescheduleKeeps
  <2>3. now' >= now
    BY <1>0, <2>1 DEF Reschedule
  <2> QED BY <2>1, <2>2, <2>3, ReschedulePromised
<1>3. CASE \E s \in Sources, on \in BOOLEAN : OwnerSwitches(s, on)
  <2>1. PICK s \in Sources, on \in BOOLEAN : OwnerSwitches(s, on)
    BY <1>3
  <2>2. Fired' = Fired
    BY <2>1, OwnerSwitchesKeeps
  <2>3. Kept(s) /\ schedules' = Switched(s, on) /\ retired' = retired /\ now' >= now
    BY <1>0, <2>1 DEF OwnerSwitches, SetScheduleEnabled
  <2> QED BY <2>2, <2>3, SwitchPromised
<1>4. CASE \E s \in Sources : DeleteSchedule(s)
  <2>1. PICK s \in Sources : DeleteSchedule(s)
    BY <1>4
  <2>2. Fired' = Fired
    BY <2>1, DeleteScheduleKeeps
  <2>3. /\ Kept(s) /\ retired' = retired \cup {s} /\ now' >= now
        /\ schedules' = [schedules EXCEPT ![s] = NoSchedule]
    BY <1>0, <2>1 DEF DeleteSchedule
  <2> QED BY <2>2, <2>3, GonePromised
<1>5. CASE \E g \in Goals, status \in {"active", "resting", "removed"} : SetGoal(g, status)
  <2>1. PICK g \in Goals, status \in {"active", "resting", "removed"} : SetGoal(g, status)
    BY <1>5
  <2>2. Fired' = Fired
    BY <2>1, SetGoalKeeps
  <2> QED BY <1>0, <2>1, <2>2, QuietPromised DEF SetGoal
<1>6. CASE \E j \in DOMAIN jobs : CancelJob(j) \/ ResumeJob(j)
  <2>1. PICK j \in DOMAIN jobs : CancelJob(j) \/ ResumeJob(j)
    BY <1>6
  <2>2. Fired' = Fired
    BY <2>1, CancelJobKeeps, ResumeJobKeeps
  <2>3. UNCHANGED plan /\ now' >= now
    BY <1>0, <2>1 DEF CancelJob, ResumeJob
  <2> QED BY <2>2, <2>3, QuietPromised
<1> QED BY <1>1, <1>2, <1>3, <1>4, <1>5, <1>6 DEF Request

LEMMA LoopPromised ==
    ASSUME IInv, Loop
    PROVE  Promised
<1>0. now \in Nat
  BY PlanningAssumption DEF IInv, TypeOK
<1>1. CASE QueueSchedules
  <2>1. Fired' = Fired
    BY <1>1, QueueSchedulesKeeps
  <2> QED BY <1>0, <1>1, <2>1, QuietPromised DEF QueueSchedules
<1>2. CASE StartNext
  <2>1. Fired' = Fired
    BY <1>2, StartNextKeeps
  <2>2. UNCHANGED <<now, plan>>
    BY <1>2 DEF StartNext
  <2> QED BY <1>0, <2>1, <2>2, QuietPromised
<1>3. CASE Claim
  <2>1. Fired' = Fired
    BY <1>3, ClaimKeeps
  <2> QED BY <1>0, <1>3, <2>1, QuietPromised DEF Claim
<1>4. CASE CheckRoomAndGoal
  <2>1. Fired' = Fired
    BY <1>4, CheckRoomAndGoalKeeps
  <2>2. retired' = retired /\ now' >= now
    BY <1>0, <1>4 DEF CheckRoomAndGoal
  <2>3. PICK s \in Sources : s = Head(loop.todo)
    BY <1>4, OnwardMoves DEF IInv, LoopInv, CheckRoomAndGoal
  <2>4. CASE UNCHANGED schedules
    BY <2>1, <2>2, <2>4, QuietPromised DEF plan
  <2>5. CASE Kept(s) /\ schedules' = Switched(s, FALSE)
    <3>1. FALSE \in BOOLEAN
      OBVIOUS
    <3> QED BY <2>1, <2>2, <2>5, <3>1, SwitchPromised
  <2> QED BY <1>4, <2>3, <2>4, <2>5 DEF CheckRoomAndGoal, SetScheduleEnabled
<1>5. CASE EnqueueSchedule
  <2>1. now' >= now
    BY <1>0, <1>5 DEF EnqueueSchedule
  <2> QED BY <1>5, <2>1, EnqueuePromised
<1> QED BY <1>1, <1>2, <1>3, <1>4, <1>5 DEF Loop

LEMMA JobsPromised ==
    ASSUME IInv, Jobs
    PROVE  Promised
<1>0. now \in Nat
  BY PlanningAssumption DEF IInv, TypeOK
<1>1. CASE \E j \in DOMAIN jobs : Finish(j) \/ Deliver(j) \/ PruneJob(j)
  <2>1. PICK j \in DOMAIN jobs : Finish(j) \/ Deliver(j) \/ PruneJob(j)
    BY <1>1
  <2>2. Fired' = Fired
    BY <2>1, FinishKeeps, DeliverKeeps, PruneJobKeeps
  <2>3. UNCHANGED <<now, plan>>
    BY <2>1 DEF Finish, Deliver, PruneJob
  <2> QED BY <1>0, <2>2, <2>3, QuietPromised
<1>2. CASE \E s \in Sources : PruneSchedule(s)
  <2>1. PICK s \in Sources : PruneSchedule(s)
    BY <1>2
  <2>2. Fired' = Fired
    BY <2>1, PruneScheduleKeeps
  <2>3. /\ Kept(s) /\ retired' = retired \cup {s} /\ now' >= now
        /\ schedules' = [schedules EXCEPT ![s] = NoSchedule]
    BY <1>0, <2>1 DEF PruneSchedule
  <2> QED BY <2>2, <2>3, GonePromised
<1> QED BY <1>1, <1>2 DEF Jobs

\* Every step is one the contract allows, or changes nothing it speaks of.
LEMMA StepPromised == IInv /\ [Next]_vars => [Contract!Next]_<<now, Plans, Cardinality(Fired)>>
<1> SUFFICES ASSUME IInv, [Next]_vars
             PROVE  [Contract!Next]_<<now, Plans, Cardinality(Fired)>>
  OBVIOUS
<1>0. now \in Nat
  BY PlanningAssumption DEF IInv, TypeOK
<1>1. CASE Disturbance
  <2>1. changes' \in 0 .. MaxChanges /\ refused' \in BOOLEAN
    BY <1>1, BoundedChange
  <2>2. CASE Request
    <3>1. Promised
      BY <2>1, <2>2, RequestPromised
    <3> QED BY <3>1, StepOfContract
  <2>3. CASE Restart
    <3>1. Fired' = Fired
      BY <2>1, <2>3, RestartKeeps
    <3>2. UNCHANGED plan /\ now' >= now
      BY <1>0, <2>3 DEF Restart
    <3>3. Promised
      BY <3>1, <3>2, QuietPromised
    <3> QED BY <3>3, StepOfContract
  <2>4. CASE AnswerAtLength
    <3>1. Fired' = Fired
      BY <2>1, <2>4, AnswerAtLengthKeeps
    <3>2. UNCHANGED plan /\ now' >= now
      BY <1>0, <2>4 DEF AnswerAtLength, plan
    <3>3. Promised
      BY <3>1, <3>2, QuietPromised
    <3> QED BY <3>3, StepOfContract
  <2> QED BY <1>1, <2>2, <2>3, <2>4 DEF Disturbance
<1>2. CASE Loop
  BY <1>2, LoopPromised, StepOfContract
<1>3. CASE Jobs
  BY <1>3, JobsPromised, StepOfContract
<1>4. CASE Tick
  <2>1. Fired' = Fired
    BY <1>4, TickKeeps
  <2>2. UNCHANGED plan /\ now' >= now
    BY <1>0, <1>4 DEF Tick, plan
  <2> QED BY <2>1, <2>2, QuietPromised, StepOfContract
<1>5. CASE \E listed \in SUBSET Goals : ReviewGoals(listed)
  <2>1. PICK listed \in SUBSET Goals : ReviewGoals(listed)
    BY <1>5
  <2>2. Fired' = Fired
    BY <2>1, ReviewGoalsKeeps
  <2>3. UNCHANGED <<now, plan>>
    BY <2>1 DEF ReviewGoals
  <2> QED BY <1>0, <2>2, <2>3, QuietPromised, StepOfContract
<1>6. CASE UNCHANGED vars
  <2>1. UNCHANGED <<now, schedules, retired, jobs>>
    BY <1>6 DEF vars, plan, queue
  <2>2. Fired' = Fired
    BY <2>1 DEF Fired
  <2> QED BY <2>1, <2>2, SamePlans
<1> QED BY <1>1, <1>2, <1>3, <1>4, <1>5, <1>6 DEF Next

\* Planned work implements the contract of schedules: whatever the loop, the owner, reviews
\* and restarts do, a schedule fires when due and on, once, in its cadence.
THEOREM SchedulesKeepTheirPromise == Spec => KeepsSchedule
<1>1. Init => Contract!Init
  <2> SUFFICES ASSUME Init PROVE Contract!Init
    OBVIOUS
  <2>1. \A s \in Sources : PlanOf(s).state = "none"
    BY DEF Init, PlanOf, Kept
  <2>2. Fired = {} /\ Cardinality(Fired) = 0
    <3>1. DOMAIN jobs = {}
      BY DEF Init
    <3> QED BY <3>1, FS_EmptySet DEF Fired
  <2> QED BY <2>1, <2>2 DEF Contract!Init
<1>2. IInv /\ [Next]_vars => [Contract!Next]_<<now, Plans, Cardinality(Fired)>>
  BY StepPromised
<1> QED BY <1>1, <1>2, Invariance, PTL DEF Spec, KeepsSchedule, Contract!Spec, Plans
=============================================================================
