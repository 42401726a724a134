--------------------------- MODULE AgentHostProofs ---------------------------
(***************************************************************************)
(* Proofs about AgentHost for all sets of calls and any number of workers. *)
(***************************************************************************)
EXTENDS AgentHost, TLAPS

(***************************************************************************)
(* The inductive invariant.                                                *)
(***************************************************************************)

\* The host has the only worker there is.
OneWorker ==
    /\ Live \subseteq {slot}
    /\ slot # 0 => worker[slot].node # "none"
    /\ \A w \in Worker : worker[w].exited => worker[w].node = "exited"

\* Who is in the middle of a start or a shutdown has the mutex, and a worker in mind.
Holders ==
    /\ \A c \in Call :
          call[c].at \in {"replacing", "initializing", "discarding"} => holder = c /\ slot # 0
    /\ upkeep.at \in {"asking", "stopping"} => holder = "upkeep" /\ slot # 0
    /\ closer \in {"asking", "stopping"} => holder = "closer" /\ slot # 0

\* Nobody starts a worker after the shutdown, and a purge has shut it down a second
\* time with no call left that could start another but those of sign-ins.
Shutting == closer = "closed" => \A c \in Call : call[c].at # "replacing"
Purging ==
    /\ upkeep.at = "working" \/ upkeep.round = 2 => Permitted = {}
    /\ upkeep.round = 2 /\ upkeep.at \in {"draining", "purging"} => slot \in strays \cup {0}
    /\ upkeep.at = "purging" => upkeep.round = 2
    /\ upkeep.at = "idle" => upkeep.round = 1

\* A request was made of a worker; it is in the tables from then to its end.
Connected ==
    /\ \A c \in Call :
          call[c].at \in {"connected", "checked", "waiting", "aborting", "abort_sent", "reaping"} =>
              call[c].on # 0 /\ worker[call[c].on].node # "none"
    /\ \A c \in cancelling : call[c].on # 0
Registered ==
    /\ \A c \in Call : c \in registered <=> call[c].at \in {"waiting", "aborting", "abort_sent", "reaping"}
    /\ \A c \in Call : call[c].at \in {"aborting", "abort_sent", "reaping"} => c \in Run
    /\ revoked \subseteq registered

\* A tool works for an activity that is not settled, of a worker that is there.
Serving ==
    \A c \in Run :
        /\ activity[c] # "none" => c \in registered
        /\ reply[c] = "ok" => activity[c] = "done"
        /\ tool[c] # "none" =>
              /\ activity[c] = "active" \/ (activity[c] = "failed" /\ Of(c).node = "exited")
              /\ ~Of(c).exited

IInv == TypeOK /\ OneWorker /\ Holders /\ Shutting /\ Purging /\ Connected /\ Registered /\ Serving

-----------------------------------------------------------------------------
(***************************************************************************)
(* What the steps do to the records of calls and workers.                  *)
(***************************************************************************)

\* Which processes there are is the same.
SameProcesses ==
    \A v \in Worker : worker'[v].node = worker[v].node /\ worker'[v].exited = worker[v].exited

\* A call that goes elsewhere is still a call of the same connection.
LEMMA CallGoes ==
    ASSUME TypeOK, NEW c \in Call,
           NEW p \in {"new", "admitted", "replacing", "initializing", "discarding", "connected",
                      "checked", "waiting", "aborting", "abort_sent", "reaping", "over"},
           Goes(c, p)
    PROVE  /\ call' \in [Call -> CallState]
           /\ call'[c].at = p
           /\ \A d \in Call : call'[d].on = call[d].on
           /\ \A d \in Call \ {c} : call'[d] = call[d]
  <1>1. call[c] \in CallState  BY DEF TypeOK
  <1>2. /\ [call[c] EXCEPT !.at = p] \in CallState
        /\ [call[c] EXCEPT !.at = p].at = p
        /\ [call[c] EXCEPT !.at = p].on = call[c].on
    BY <1>1 DEF CallState
  <1>3. call' = [call EXCEPT ![c] = [call[c] EXCEPT !.at = p]]  BY DEF Goes
  <1>4. call'[c] = [call[c] EXCEPT !.at = p] /\ \A d \in Call \ {c} : call'[d] = call[d]
    BY <1>3 DEF TypeOK
  <1> QED BY <1>1, <1>2, <1>3, <1>4 DEF TypeOK

\* A worker that is told to stop is the same process until it exits.
LEMMA WorkerStops ==
    ASSUME TypeOK, NEW w \in Worker, worker' = [worker EXCEPT ![w].stop = TRUE]
    PROVE  worker' \in [Worker -> WorkerState] /\ SameProcesses
  <1>1. worker[w] \in WorkerState  BY DEF TypeOK
  <1>2. /\ [worker[w] EXCEPT !.stop = TRUE] \in WorkerState
        /\ [worker[w] EXCEPT !.stop = TRUE].node = worker[w].node
        /\ [worker[w] EXCEPT !.stop = TRUE].exited = worker[w].exited
    BY <1>1 DEF WorkerState
  <1>3. worker' = [worker EXCEPT ![w] = [worker[w] EXCEPT !.stop = TRUE]]  OBVIOUS
  <1>4. /\ worker'[w] = [worker[w] EXCEPT !.stop = TRUE]
        /\ \A v \in Worker \ {w} : worker'[v] = worker[v]
    BY <1>3 DEF TypeOK
  <1> QED BY <1>1, <1>2, <1>3, <1>4 DEF TypeOK, SameProcesses

\* Neither does its first answer, or what its reader or its writer finds, change it.
LEMMA WorkerInitialized ==
    ASSUME TypeOK, NEW w \in Worker, worker' = [worker EXCEPT ![w].initialized = TRUE]
    PROVE  worker' \in [Worker -> WorkerState] /\ SameProcesses
  <1>1. worker[w] \in WorkerState  BY DEF TypeOK
  <1>2. /\ [worker[w] EXCEPT !.initialized = TRUE] \in WorkerState
        /\ [worker[w] EXCEPT !.initialized = TRUE].node = worker[w].node
        /\ [worker[w] EXCEPT !.initialized = TRUE].exited = worker[w].exited
    BY <1>1 DEF WorkerState
  <1>3. worker' = [worker EXCEPT ![w] = [worker[w] EXCEPT !.initialized = TRUE]]  OBVIOUS
  <1>4. /\ worker'[w] = [worker[w] EXCEPT !.initialized = TRUE]
        /\ \A v \in Worker \ {w} : worker'[v] = worker[v]
    BY <1>3 DEF TypeOK
  <1> QED BY <1>1, <1>2, <1>3, <1>4 DEF TypeOK, SameProcesses

LEMMA WorkerFails ==
    ASSUME TypeOK, NEW w \in Worker,
           \/ worker' = [worker EXCEPT ![w].alive = FALSE, ![w].stop = TRUE]
           \/ worker' = [worker EXCEPT ![w].reading = FALSE, ![w].alive = FALSE, ![w].stop = TRUE]
    PROVE  worker' \in [Worker -> WorkerState] /\ SameProcesses
  <1>1. worker[w] \in WorkerState  BY DEF TypeOK
  <1>2. PICK r \in WorkerState :
           worker' = [worker EXCEPT ![w] = r] /\ r.node = worker[w].node /\ r.exited = worker[w].exited
    <2> DEFINE q == [worker[w] EXCEPT !.alive = FALSE, !.stop = TRUE]
               r == [worker[w] EXCEPT !.reading = FALSE, !.alive = FALSE, !.stop = TRUE]
    <2>1. q \in WorkerState /\ q.node = worker[w].node /\ q.exited = worker[w].exited
      BY <1>1 DEF WorkerState
    <2>2. r \in WorkerState /\ r.node = worker[w].node /\ r.exited = worker[w].exited
      BY <1>1 DEF WorkerState
    <2>3. worker' = [worker EXCEPT ![w] = q] \/ worker' = [worker EXCEPT ![w] = r]
      BY DEF TypeOK
    <2> QED BY <2>1, <2>2, <2>3
  <1>3. worker'[w].node = worker[w].node /\ worker'[w].exited = worker[w].exited
        /\ \A v \in Worker \ {w} : worker'[v] = worker[v]
    BY <1>2 DEF TypeOK
  <1> QED BY <1>2, <1>3 DEF TypeOK, SameProcesses

\* A process that ends is not yet a worker that has exited.
LEMMA WorkerDies ==
    ASSUME TypeOK, NEW w \in Worker, worker' = [worker EXCEPT ![w].node = "exited"]
    PROVE  /\ worker' \in [Worker -> WorkerState]
           /\ worker'[w].node = "exited" /\ worker'[w].exited = worker[w].exited
           /\ \A v \in Worker \ {w} : worker'[v] = worker[v]
  <1>1. worker[w] \in WorkerState  BY DEF TypeOK
  <1>2. /\ [worker[w] EXCEPT !.node = "exited"] \in WorkerState
        /\ [worker[w] EXCEPT !.node = "exited"].node = "exited"
        /\ [worker[w] EXCEPT !.node = "exited"].exited = worker[w].exited
    BY <1>1 DEF WorkerState
  <1>3. worker' = [worker EXCEPT ![w] = [worker[w] EXCEPT !.node = "exited"]]  OBVIOUS
  <1>4. /\ worker'[w] = [worker[w] EXCEPT !.node = "exited"]
        /\ \A v \in Worker \ {w} : worker'[v] = worker[v]
    BY <1>3 DEF TypeOK
  <1> QED BY <1>1, <1>2, <1>3, <1>4 DEF TypeOK

\* The record of a worker that is started, and of one that has exited.
LEMMA WorkerSet ==
    ASSUME TypeOK, NEW w \in Worker, NEW r \in {Spawned, Gone}, worker' = [worker EXCEPT ![w] = r]
    PROVE  worker' \in [Worker -> WorkerState] /\ worker'[w] = r
           /\ \A v \in Worker \ {w} : worker'[v] = worker[v]
  <1>1. r \in WorkerState  BY DEF Spawned, Gone, Unborn, WorkerState
  <1> QED BY <1>1 DEF TypeOK

-----------------------------------------------------------------------------
(***************************************************************************)
(* Every step keeps the invariant: a lemma for each action, after three    *)
(* about what several of them do.                                          *)
(***************************************************************************)

\* However a call ends, with no tool left, nothing of it is in the tables.
LEMMA EndsKeeps ==
    ASSUME IInv, NEW c \in Call, Ends(c), c \in Run => tool[c] = "none",
           UNCHANGED <<tool, worker, slot, holder, duties>>
    PROVE  IInv'
  <1> USE HostAssumption DEF IInv, Ends, Call, Duty, duties
  <1>1. /\ call' \in [Call -> CallState] /\ call'[c].at = "over"
        /\ \A d \in Call : call'[d].on = call[d].on
        /\ \A d \in Call \ {c} : call'[d] = call[d]
    BY CallGoes
  <1>2. TypeOK'  BY <1>1 DEF TypeOK
  <1>3. OneWorker'  BY DEF OneWorker, Live
  <1>4. Holders'  BY <1>1 DEF Holders
  <1>5. Shutting'  BY <1>1 DEF Shutting
  <1>6. Purging'  BY <1>1 DEF Purging, Permitted
  <1>7. Connected'  BY <1>1 DEF Connected, TypeOK
  <1>8. Registered'  BY <1>1 DEF Registered, TypeOK
  <1>9. Serving'  BY <1>1 DEF Serving, Of, TypeOK
  <1> QED BY <1>2, <1>3, <1>4, <1>5, <1>6, <1>7, <1>8, <1>9

\* A run that is on its way to its end stays in the tables, whatever its authority
\* has become and whether its worker is told to stop.
LEMMA RunGoesOn ==
    ASSUME IInv, NEW c \in Run, NEW p \in {"aborting", "abort_sent", "reaping"},
           call[c].at \in {"waiting", "aborting", "abort_sent", "reaping"},
           Goes(c, p),
           worker' = worker \/ worker' = [worker EXCEPT ![call[c].on].stop = TRUE],
           revoked' \in {revoked, revoked \cup {c}},
           UNCHANGED <<reply, registered, cancelling, activity, tool, slot, holder, duties>>
    PROVE  IInv'
  <1> USE HostAssumption DEF IInv, Call, Duty, duties
  <1>1. /\ call' \in [Call -> CallState] /\ call'[c].at = p
        /\ \A d \in Call : call'[d].on = call[d].on
        /\ \A d \in Call \ {c} : call'[d] = call[d]
    BY CallGoes
  <1>2. call[c].on \in Worker
    <2>1. call[c] \in CallState /\ call[c].on # 0  BY DEF TypeOK, Connected
    <2> QED BY <2>1 DEF CallState
  <1>3. worker' \in [Worker -> WorkerState] /\ SameProcesses
    BY <1>2, WorkerStops DEF TypeOK, SameProcesses
  <1>4. TypeOK'  BY <1>1, <1>3 DEF TypeOK
  <1>5. OneWorker'  BY <1>3 DEF OneWorker, Live, SameProcesses, Worker, TypeOK
  <1>6. Holders'  BY <1>1 DEF Holders
  <1>7. Shutting'  BY <1>1 DEF Shutting
  <1>8. Purging'  BY <1>1 DEF Purging, Permitted
  <1>9. Connected'
    <2>1. \A d \in Call : call[d].on \in {0} \cup Worker  BY DEF TypeOK, CallState
    <2> QED BY <1>1, <1>3, <2>1 DEF Connected, SameProcesses, TypeOK
  <1>10. Registered'  BY <1>1 DEF Registered, TypeOK
  <1>11. Serving'
    <2>1. \A d \in registered : call[d].on \in Worker
      BY DEF TypeOK, CallState, Registered, Connected
    <2> QED BY <1>1, <1>3, <2>1 DEF Serving, Of, SameProcesses, TypeOK
  <1> QED BY <1>4, <1>5, <1>6, <1>7, <1>8, <1>9, <1>10, <1>11

\* Telling a worker to stop disturbs nothing.
LEMMA StopDisturbsNothing ==
    ASSUME IInv, NEW w \in Worker, worker' = [worker EXCEPT ![w].stop = TRUE],
           cancelling' \subseteq cancelling,
           UNCHANGED <<call, reply, registered, revoked, activity, tool, slot, holder, duties>>
    PROVE  IInv'
  <1> USE HostAssumption DEF IInv, Call, Duty, duties
  <1>1. worker' \in [Worker -> WorkerState] /\ SameProcesses
    BY WorkerStops
  <1>2. TypeOK'  BY <1>1 DEF TypeOK
  <1>3. OneWorker'  BY <1>1 DEF OneWorker, Live, SameProcesses, Worker, TypeOK
  <1>4. Holders' /\ Shutting' /\ Purging' /\ Registered'
    BY DEF Holders, Shutting, Purging, Permitted, Registered
  <1>5. \A d \in Call : call[d].on \in {0} \cup Worker  BY DEF TypeOK, CallState
  <1>6. Connected'  BY <1>1, <1>5 DEF Connected, SameProcesses, TypeOK
  <1>7. Serving'
    BY <1>1, <1>5 DEF Serving, Connected, Registered, Of, SameProcesses, TypeOK
  <1> QED BY <1>2, <1>3, <1>4, <1>6, <1>7

\* A request, its answer, its abort; a cancellation from outside.
LEMMA EndCallKeeps == ASSUME IInv, NEW c \in Call, EndCall(c) PROVE IInv'
  BY EndsKeeps DEF EndCall

LEMMA TakeReplyKeeps == ASSUME IInv, NEW c \in Call, TakeReply(c) PROVE IInv'
  <1> USE DEF TakeReply, At, Continues, tables
  <1>1. CASE Goes(c, "aborting") /\ Continues /\ UNCHANGED worker
    BY <1>1, RunGoesOn
  <1>2. CASE reply[c] = "ok" /\ Ends(c) /\ UNCHANGED worker
    <2>1. tool[c] = "none"  BY <1>2 DEF IInv, Serving
    <2> QED BY <1>2, <2>1, EndsKeeps
  <1>3. CASE Goes(c, "reaping") /\ Continues
             /\ worker' = [worker EXCEPT ![call[c].on].stop = TRUE]
    BY <1>3, RunGoesOn
  <1> QED BY <1>1, <1>2, <1>3

LEMMA GiveUpKeeps == ASSUME IInv, NEW c \in Call, GiveUp(c) PROVE IInv'
  BY RunGoesOn DEF GiveUp, At, Continues, tables

LEMMA SendAbortKeeps == ASSUME IInv, NEW c \in Call, SendAbort(c) PROVE IInv'
  <1>1. c \in Run  BY DEF SendAbort, At, IInv, Registered
  <1>2. CASE Goes(c, "abort_sent") /\ UNCHANGED worker
    BY <1>1, <1>2, RunGoesOn DEF SendAbort, At
  <1>3. CASE Goes(c, "reaping") /\ worker' = [worker EXCEPT ![call[c].on].stop = TRUE]
    BY <1>1, <1>3, RunGoesOn DEF SendAbort, At
  <1> QED BY <1>2, <1>3 DEF SendAbort

LEMMA AbortAnsweredKeeps == ASSUME IInv, NEW c \in Call, AbortAnswered(c) PROVE IInv'
  <1>1. c \in Run => tool[c] = "none"  BY DEF AbortAnswered, IInv, Serving
  <1> QED BY <1>1, EndsKeeps DEF AbortAnswered

LEMMA AbortFailsKeeps == ASSUME IInv, NEW c \in Call, AbortFails(c) PROVE IInv'
  <1>1. c \in Run  BY DEF AbortFails, At, IInv, Registered
  <1> QED BY <1>1, RunGoesOn DEF AbortFails, At, tables

LEMMA ReapedKeeps == ASSUME IInv, NEW c \in Call, Reaped(c) PROVE IInv'
  <1>1. c \in Run => tool[c] = "none"  BY DEF Reaped, IInv, Serving
  <1> QED BY <1>1, EndsKeeps DEF Reaped

LEMMA CancelRunKeeps == ASSUME IInv, NEW c \in Run, CancelRun(c) PROVE IInv'
  <1>1. CASE worker' = [worker EXCEPT ![slot].stop = TRUE] /\ UNCHANGED <<revoked, cancelling>>
    <2>1. slot \in Worker  BY DEF CancelRun, IInv, TypeOK
    <2> QED BY <1>1, <2>1, StopDisturbsNothing DEF CancelRun
  <1>2. CASE /\ c \in On(slot) /\ revoked' = revoked \cup {c}
             /\ cancelling' = cancelling \cup {c} /\ UNCHANGED worker
    <2> USE <1>2, HostAssumption DEF CancelRun, On, IInv, Call, duties
    <2>1. TypeOK'  BY DEF TypeOK
    <2>2. OneWorker' /\ Holders' /\ Shutting' /\ Purging'
      BY DEF OneWorker, Live, Holders, Shutting, Purging, Permitted
    <2>3. Connected'  BY DEF Connected
    <2>4. Registered'  BY DEF Registered
    <2>5. Serving'  BY DEF Serving, Of
    <2> QED BY <2>1, <2>2, <2>3, <2>4, <2>5
  <1> QED BY <1>1, <1>2 DEF CancelRun

LEMMA CancelEndsKeeps == ASSUME IInv, NEW c \in Run, CancelEnds(c) PROVE IInv'
  <1>1. CASE UNCHANGED worker
    <2> USE <1>1, HostAssumption DEF CancelEnds, IInv, Call, duties
    <2>1. TypeOK'  BY DEF TypeOK
    <2>2. OneWorker' /\ Holders' /\ Shutting' /\ Purging'
      BY DEF OneWorker, Live, Holders, Shutting, Purging, Permitted
    <2>3. Connected' /\ Registered'  BY DEF Connected, Registered
    <2>4. Serving'  BY DEF Serving, Of
    <2> QED BY <2>1, <2>2, <2>3, <2>4
  <1>2. CASE worker' = [worker EXCEPT ![call[c].on].stop = TRUE]
    <2>1. call[c].on \in Worker
      <3>1. call[c] \in CallState /\ call[c].on # 0
        BY DEF CancelEnds, IInv, TypeOK, Connected, Call
      <3> QED BY <3>1 DEF CallState
    <2> QED BY <1>2, <2>1, StopDisturbsNothing DEF CancelEnds
  <1> QED BY <1>1, <1>2 DEF CancelEnds

LEMMA StopProcessesKeeps == ASSUME IInv, NEW w \in Worker, StopProcesses(w) PROVE IInv'
  BY StopDisturbsNothing DEF StopProcesses, tables

LEMMA LeaveKeeps == ASSUME IInv, NEW c \in Call, Leave(c) PROVE IInv'
  <1> USE HostAssumption DEF IInv, Leave, At, Call, Duty, tables, duties
  <1>1. /\ call' \in [Call -> CallState] /\ call'[c].at = "over"
        /\ \A d \in Call : call'[d].on = call[d].on
        /\ \A d \in Call \ {c} : call'[d] = call[d]
    BY CallGoes
  <1>2. worker' \in [Worker -> WorkerState] /\ SameProcesses
    BY WorkerStops DEF TypeOK, Holders, SameProcesses
  <1>3. TypeOK'  BY <1>1, <1>2 DEF TypeOK
  <1>4. OneWorker'  BY <1>2 DEF OneWorker, TypeOK, Live, Worker, SameProcesses
  <1>5. Holders'  BY <1>1 DEF Holders
  <1>6. Shutting'  BY <1>1 DEF Shutting
  <1>7. Purging'  BY <1>1 DEF Purging, Permitted
  <1>8. \A d \in Call : call[d].on \in {0} \cup Worker  BY DEF TypeOK, CallState
  <1>9. Connected'  BY <1>1, <1>2, <1>8 DEF Connected, SameProcesses, TypeOK
  <1>10. Registered'  BY <1>1 DEF Registered, TypeOK
  <1>11. Serving'
    BY <1>1, <1>2, <1>8 DEF Serving, Of, Registered, Connected, SameProcesses, TypeOK
  <1> QED BY <1>3, <1>4, <1>5, <1>6, <1>7, <1>9, <1>10, <1>11

LEMMA AbandonUpkeepKeeps == ASSUME IInv, AbandonUpkeep PROVE IInv'
  <1> USE HostAssumption DEF IInv, AbandonUpkeep, Call, Duty, tables
  <1>1. worker' \in [Worker -> WorkerState] /\ SameProcesses
    BY WorkerStops DEF TypeOK, Holders, SameProcesses
  <1>2. TypeOK'  BY <1>1 DEF TypeOK
  <1>3. OneWorker'  BY <1>1 DEF OneWorker, TypeOK, Live, Worker, SameProcesses
  <1>4. Holders'  BY DEF Holders, TypeOK
  <1>5. Shutting' /\ Purging' /\ Registered'  BY DEF Shutting, Purging, Permitted, Registered, TypeOK
  <1>6. \A d \in Call : call[d].on \in {0} \cup Worker  BY DEF TypeOK, CallState
  <1>7. Connected'  BY <1>1, <1>6 DEF Connected, SameProcesses, TypeOK
  <1>8. Serving'
    BY <1>1, <1>6 DEF Serving, Of, Registered, Connected, SameProcesses, TypeOK
  <1> QED BY <1>2, <1>3, <1>4, <1>5, <1>7, <1>8

LEMMA SpawnKeeps == ASSUME IInv, NEW c \in Call, Spawn(c) PROVE IInv'
  <1> USE HostAssumption DEF IInv, Spawn, Vacant, At, Call, Duty, tables, duties
  <1>1. /\ call' \in [Call -> CallState] /\ call'[c].at = "initializing"
        /\ \A d \in Call : call'[d].on = call[d].on
        /\ \A d \in Call \ {c} : call'[d] = call[d]
    BY CallGoes
  <1>2. PICK w \in Worker :
           worker[w].node = "none" /\ worker' = [worker EXCEPT ![w] = Spawned] /\ slot' = w
    <2>1. PICK w \in Worker : Fresh(w) /\ worker' = [worker EXCEPT ![w] = Spawned] /\ slot' = w
      OBVIOUS
    <2>2. w >= w  BY DEF Worker
    <2>3. worker[w].node = "none"  BY <2>1, <2>2 DEF Fresh
    <2> QED BY <2>1, <2>3
  <1>3. w # 0  BY DEF Worker
  <1>4. /\ worker' \in [Worker -> WorkerState] /\ worker'[w] = Spawned
        /\ \A v \in Worker \ {w} : worker'[v] = worker[v]
    BY <1>2, WorkerSet
  <1>5. Live = {}  BY DEF OneWorker, Live, Worker, TypeOK
  <1>6. \A d \in Call : call[d].on \in {0} \cup Worker  BY DEF TypeOK, CallState
  <1>7. TypeOK'  BY <1>1, <1>2, <1>4 DEF TypeOK
  <1>8. OneWorker'
    BY <1>2, <1>3, <1>4, <1>5 DEF OneWorker, Live, TypeOK, Spawned, Unborn
  <1>9. Holders'
    <2>1. holder = "none" \/ holder = c  BY DEF Holders
    <2>2. \A d \in Call \ {c} : call[d].at \notin {"replacing", "initializing", "discarding"}
      BY <2>1 DEF Holders
    <2> QED BY <1>1, <1>2, <1>3, <2>1, <2>2 DEF Holders
  <1>10. Shutting'  BY <1>1 DEF Shutting
  <1>11. Purging'
    <2>1. CASE c \in SignIn
      <3>1. Permitted' = Permitted  BY <1>1, <2>1 DEF Permitted
      <3>2. slot' \in strays' \/ ~Paused  BY <1>2, <2>1 DEF Paused
      <3> QED BY <3>1, <3>2 DEF Purging, Paused
    <2>2. CASE c \notin SignIn
      <3>1. Permitted # {}  BY <2>2 DEF Permitted
      <3> QED BY <3>1 DEF Purging
    <2> QED BY <2>1, <2>2
  <1>12. Connected'
    BY <1>1, <1>2, <1>4, <1>6 DEF Connected, TypeOK, Spawned, Unborn
  <1>13. Registered'  BY <1>1 DEF Registered, TypeOK
  <1>14. Serving'
    BY <1>1, <1>2, <1>4, <1>6 DEF Serving, Of, Registered, Connected, TypeOK
  <1> QED BY <1>7, <1>8, <1>9, <1>10, <1>11, <1>12, <1>13, <1>14

LEMMA AskKeeps == ASSUME IInv, NEW c \in Run, Ask(c) PROVE IInv'
  <1> USE HostAssumption DEF IInv, Ask, Call, tables, duties
  <1>1. TypeOK'  BY DEF TypeOK
  <1>2. OneWorker' /\ Holders' /\ Shutting' /\ Purging' /\ Connected' /\ Registered'
    BY DEF OneWorker, Live, Holders, Shutting, Purging, Permitted, Connected, Registered
  <1>3. Serving'
    <2>1. call[c] \in CallState /\ call[c].on # 0
      BY DEF TypeOK, Serving, Connected, Registered
    <2>2. ~Of(c).exited  BY <2>1 DEF CallState, OneWorker, Of
    <2>3. tool' = [tool EXCEPT ![c] = "asked"] /\ tool \in [Run -> {"none", "asked", "acting", "process"}]
      BY DEF TypeOK
    <2>4. \A d \in Run : Of(d)' = Of(d)  BY DEF Of
    <2> HIDE DEF Of
    <2> QED BY <2>2, <2>3, <2>4 DEF Serving
  <1> QED BY <1>1, <1>2, <1>3


\* How a call gets its connection.
LEMMA AdmitKeeps == ASSUME IInv, NEW c \in Call, Admit(c) PROVE IInv'
  <1> USE HostAssumption DEF IInv, Admit, Paused, At, Call, Duty, tables, duties
  <1>1. /\ call' \in [Call -> CallState] /\ call'[c].at = "admitted"
        /\ \A d \in Call : call'[d].on = call[d].on
        /\ \A d \in Call \ {c} : call'[d] = call[d]
    BY CallGoes
  <1>2. TypeOK'  BY <1>1 DEF TypeOK, Worker
  <1>3. OneWorker'  BY <1>1 DEF OneWorker, TypeOK, Live, Worker
  <1>4. Holders'  BY <1>1 DEF Holders, TypeOK
  <1>5. Shutting'  BY <1>1 DEF Shutting, TypeOK
  <1>6. Purging'  BY <1>1 DEF Purging, TypeOK, Permitted
  <1>7. Connected'  BY <1>1 DEF Connected, TypeOK, Worker
  <1>8. Registered'  BY <1>1 DEF Registered, TypeOK
  <1>9. Serving'  BY <1>1 DEF Serving, TypeOK, Worker, Of
  <1> QED BY <1>2, <1>3, <1>4, <1>5, <1>6, <1>7, <1>8, <1>9

LEMMA RefuseClosedKeeps == ASSUME IInv, NEW c \in Call, RefuseClosed(c) PROVE IInv'
  <1> USE HostAssumption DEF IInv, RefuseClosed, At, Call, Duty, tables, duties
  <1>1. /\ call' \in [Call -> CallState] /\ call'[c].at = "over"
        /\ \A d \in Call : call'[d].on = call[d].on
        /\ \A d \in Call \ {c} : call'[d] = call[d]
    BY CallGoes
  <1>2. TypeOK'  BY <1>1 DEF TypeOK
  <1>3. OneWorker'  BY <1>1 DEF OneWorker, TypeOK, Live, Worker
  <1>4. Holders'  BY <1>1 DEF Holders, TypeOK
  <1>5. Shutting'  BY <1>1 DEF Shutting, TypeOK
  <1>6. Purging'
    <2>1. Permitted' \subseteq Permitted  BY <1>1 DEF Permitted
    <2> QED BY <2>1 DEF Purging
  <1>7. Connected'  BY <1>1 DEF Connected, TypeOK
  <1>8. Registered'  BY <1>1 DEF Registered, TypeOK
  <1>9. Serving'
    <2>1. \A d \in Run : Of(d)' = Of(d)  BY <1>1 DEF Of
    <2> QED BY <2>1 DEF Serving
  <1> QED BY <1>2, <1>3, <1>4, <1>5, <1>6, <1>7, <1>8, <1>9

LEMMA ReuseKeeps == ASSUME IInv, NEW c \in Call, Reuse(c) PROVE IInv'
  <1> USE HostAssumption DEF IInv, Reuse, Usable, At, Goes, Call, Duty, tables, duties
  <1>1. TypeOK'  BY DEF TypeOK, Worker, CallState
  <1>2. OneWorker'  BY DEF OneWorker, TypeOK, Live, Worker
  <1>3. Holders'  BY DEF Holders, TypeOK
  <1>4. Shutting'  BY DEF Shutting, TypeOK
  <1>5. Purging'  BY DEF Purging, TypeOK, Permitted
  <1>6. Connected'  BY DEF Connected, TypeOK, Worker, OneWorker
  <1>7. Registered'  BY DEF Registered, TypeOK
  <1>8. Serving'  BY DEF Serving, TypeOK, Worker, Of, Registered
  <1> QED BY <1>1, <1>2, <1>3, <1>4, <1>5, <1>6, <1>7, <1>8

LEMMA ReplaceKeeps == ASSUME IInv, NEW c \in Call, Replace(c) PROVE IInv'
  <1> USE HostAssumption DEF IInv, Replace, Usable, At, Call, Duty, tables, duties
  <1>1. /\ call' \in [Call -> CallState] /\ call'[c].at = "replacing"
        /\ \A d \in Call : call'[d].on = call[d].on
        /\ \A d \in Call \ {c} : call'[d] = call[d]
    BY CallGoes
  <1>2. worker' \in [Worker -> WorkerState] /\ SameProcesses
    BY WorkerStops DEF TypeOK, Holders
  <1>3. \A d \in Call : call[d].on \in {0} \cup Worker  BY DEF TypeOK, CallState
  <1>4. TypeOK'  BY <1>1, <1>2, <1>3 DEF TypeOK, Worker
  <1>5. OneWorker'  BY <1>1, <1>2, <1>3 DEF OneWorker, TypeOK, Live, Worker, SameProcesses
  <1>6. Holders'  BY <1>1, <1>2, <1>3 DEF Holders, TypeOK
  <1>7. Shutting'  BY <1>1, <1>2, <1>3 DEF Shutting, TypeOK
  <1>8. Purging'  BY <1>1, <1>2, <1>3 DEF Purging, TypeOK, Permitted
  <1>9. Connected'  BY <1>1, <1>2, <1>3 DEF Connected, TypeOK, SameProcesses
  <1>10. Registered'  BY <1>1, <1>2, <1>3 DEF Registered, TypeOK
  <1>11. Serving'  BY <1>1, <1>2, <1>3 DEF Serving, TypeOK, SameProcesses, Of
  <1> QED BY <1>4, <1>5, <1>6, <1>7, <1>8, <1>9, <1>10, <1>11

LEMMA SpawnFailsKeeps == ASSUME IInv, NEW c \in Call, SpawnFails(c) PROVE IInv'
  <1> USE HostAssumption DEF IInv, SpawnFails, Vacant, At, Call, Duty, tables, duties
  <1>1. /\ call' \in [Call -> CallState] /\ call'[c].at = "over"
        /\ \A d \in Call : call'[d].on = call[d].on
        /\ \A d \in Call \ {c} : call'[d] = call[d]
    BY CallGoes
  <1>2. TypeOK'  BY <1>1 DEF TypeOK, Worker
  <1>3. OneWorker'  BY <1>1 DEF OneWorker, TypeOK, Live, Worker
  <1>4. Holders'  BY <1>1 DEF Holders, TypeOK
  <1>5. Shutting'  BY <1>1 DEF Shutting, TypeOK
  <1>6. Purging'  BY <1>1 DEF Purging, TypeOK, Permitted
  <1>7. Connected'  BY <1>1 DEF Connected, TypeOK, Worker
  <1>8. Registered'  BY <1>1 DEF Registered, TypeOK
  <1>9. Serving'  BY <1>1 DEF Serving, TypeOK, Worker, Of
  <1> QED BY <1>2, <1>3, <1>4, <1>5, <1>6, <1>7, <1>8, <1>9

LEMMA InitializedKeeps == ASSUME IInv, NEW c \in Call, Initialized(c) PROVE IInv'
  <1> USE HostAssumption DEF IInv, Initialized, At, Goes, Call, Duty, tables, duties
  <1>1. worker' \in [Worker -> WorkerState] /\ SameProcesses
    BY WorkerInitialized DEF TypeOK, Holders
  <1>2. \A d \in Call : call[d].on \in {0} \cup Worker  BY DEF TypeOK, CallState
  <1>3. TypeOK'  BY <1>1, <1>2 DEF TypeOK, Worker, CallState
  <1>4. OneWorker'  BY <1>1, <1>2 DEF OneWorker, TypeOK, Live, Worker, SameProcesses
  <1>5. Holders'  BY <1>1, <1>2 DEF Holders, TypeOK
  <1>6. Shutting'  BY <1>1, <1>2 DEF Shutting, TypeOK
  <1>7. Purging'  BY <1>1, <1>2 DEF Purging, TypeOK, Permitted
  <1>8. Connected'  BY <1>1, <1>2 DEF Connected, TypeOK, SameProcesses, OneWorker, Holders
  <1>9. Registered'  BY <1>1, <1>2 DEF Registered, TypeOK
  <1>10. Serving'  BY <1>1, <1>2 DEF Serving, TypeOK, SameProcesses, Of, Registered
  <1> QED BY <1>3, <1>4, <1>5, <1>6, <1>7, <1>8, <1>9, <1>10

LEMMA InitializeFailsKeeps == ASSUME IInv, NEW c \in Call, InitializeFails(c) PROVE IInv'
  <1> USE HostAssumption DEF IInv, InitializeFails, At, Call, Duty, tables, duties
  <1>1. /\ call' \in [Call -> CallState] /\ call'[c].at = "discarding"
        /\ \A d \in Call : call'[d].on = call[d].on
        /\ \A d \in Call \ {c} : call'[d] = call[d]
    BY CallGoes
  <1>2. worker' \in [Worker -> WorkerState] /\ SameProcesses
    BY WorkerStops DEF TypeOK, Holders
  <1>3. \A d \in Call : call[d].on \in {0} \cup Worker  BY DEF TypeOK, CallState
  <1>4. TypeOK'  BY <1>1, <1>2, <1>3 DEF TypeOK, Worker
  <1>5. OneWorker'  BY <1>1, <1>2, <1>3 DEF OneWorker, TypeOK, Live, Worker, SameProcesses
  <1>6. Holders'  BY <1>1, <1>2, <1>3 DEF Holders, TypeOK
  <1>7. Shutting'  BY <1>1, <1>2, <1>3 DEF Shutting, TypeOK
  <1>8. Purging'  BY <1>1, <1>2, <1>3 DEF Purging, TypeOK, Permitted
  <1>9. Connected'  BY <1>1, <1>2, <1>3 DEF Connected, TypeOK, SameProcesses
  <1>10. Registered'  BY <1>1, <1>2, <1>3 DEF Registered, TypeOK
  <1>11. Serving'  BY <1>1, <1>2, <1>3 DEF Serving, TypeOK, SameProcesses, Of, Registered, Connected
  <1> QED BY <1>4, <1>5, <1>6, <1>7, <1>8, <1>9, <1>10, <1>11

LEMMA DiscardKeeps == ASSUME IInv, NEW c \in Call, Discard(c) PROVE IInv'
  <1> USE HostAssumption DEF IInv, Discard, At, Call, Duty, tables, duties
  <1>1. /\ call' \in [Call -> CallState] /\ call'[c].at = "over"
        /\ \A d \in Call : call'[d].on = call[d].on
        /\ \A d \in Call \ {c} : call'[d] = call[d]
    BY CallGoes
  <1>2. TypeOK'  BY <1>1 DEF TypeOK, Worker
  <1>3. OneWorker'  BY <1>1 DEF OneWorker, TypeOK, Live, Worker
  <1>4. Holders'  BY <1>1 DEF Holders, TypeOK
  <1>5. Shutting'  BY <1>1 DEF Shutting, TypeOK
  <1>6. Purging'  BY <1>1 DEF Purging, TypeOK, Permitted
  <1>7. Connected'  BY <1>1 DEF Connected, TypeOK, Worker
  <1>8. Registered'  BY <1>1 DEF Registered, TypeOK
  <1>9. Serving'  BY <1>1 DEF Serving, TypeOK, Worker, Of
  <1> QED BY <1>2, <1>3, <1>4, <1>5, <1>6, <1>7, <1>8, <1>9

\* The request is registered.
LEMMA CheckAliveKeeps == ASSUME IInv, NEW c \in Call, CheckAlive(c) PROVE IInv'
  <1> USE HostAssumption DEF IInv, CheckAlive, At, Goes, Call, Duty, tables, duties
  <1>1. TypeOK'  BY DEF TypeOK, Worker, CallState
  <1>2. OneWorker'  BY DEF OneWorker, TypeOK, Live, Worker
  <1>3. Holders'  BY DEF Holders, TypeOK
  <1>4. Shutting'  BY DEF Shutting, TypeOK
  <1>5. Purging'  BY DEF Purging, TypeOK, Permitted
  <1>6. Connected'  BY DEF Connected, TypeOK, Worker
  <1>7. Registered'  BY DEF Registered, TypeOK
  <1>8. Serving'  BY DEF Serving, TypeOK, Worker, Of
  <1> QED BY <1>1, <1>2, <1>3, <1>4, <1>5, <1>6, <1>7, <1>8

LEMMA RegisterKeeps == ASSUME IInv, NEW c \in Call, Register(c) PROVE IInv'
  <1> USE HostAssumption DEF IInv, Register, At, Call, Duty, tables, duties
  <1>1. /\ call' \in [Call -> CallState] /\ call'[c].at = "waiting"
        /\ \A d \in Call : call'[d].on = call[d].on
        /\ \A d \in Call \ {c} : call'[d] = call[d]
    BY CallGoes
  <1>2. TypeOK'  BY <1>1 DEF TypeOK, Worker
  <1>3. OneWorker'  BY <1>1 DEF OneWorker, TypeOK, Live, Worker
  <1>4. Holders'  BY <1>1 DEF Holders, TypeOK
  <1>5. Shutting'  BY <1>1 DEF Shutting, TypeOK
  <1>6. Purging'  BY <1>1 DEF Purging, TypeOK, Permitted
  <1>7. Connected'  BY <1>1 DEF Connected, TypeOK, Worker
  <1>8. Registered'  BY <1>1 DEF Registered, TypeOK
  <1>9. Serving'  BY <1>1 DEF Serving, TypeOK, Worker, Of, Registered, Connected
  <1> QED BY <1>2, <1>3, <1>4, <1>5, <1>6, <1>7, <1>8, <1>9

LEMMA NotSentKeeps == ASSUME IInv, NEW c \in Call, NotSent(c) PROVE IInv'
  <1> USE HostAssumption DEF IInv, NotSent, At, Call, Duty, tables, duties
  <1>1. /\ call' \in [Call -> CallState] /\ call'[c].at = "over"
        /\ \A d \in Call : call'[d].on = call[d].on
        /\ \A d \in Call \ {c} : call'[d] = call[d]
    BY CallGoes
  <1>2. TypeOK'  BY <1>1 DEF TypeOK
  <1>3. OneWorker'  BY <1>1 DEF OneWorker, TypeOK, Live, Worker
  <1>4. Holders'  BY <1>1 DEF Holders, TypeOK
  <1>5. Shutting'  BY <1>1 DEF Shutting, TypeOK
  <1>6. Purging'  BY <1>1 DEF Purging, TypeOK, Permitted
  <1>7. Connected'  BY <1>1 DEF Connected, TypeOK
  <1>8. Registered'  BY <1>1 DEF Registered, TypeOK
  <1>9. Serving'  BY <1>1 DEF Serving, TypeOK, Of
  <1> QED BY <1>2, <1>3, <1>4, <1>5, <1>6, <1>7, <1>8, <1>9

\* The worker and its callbacks.
LEMMA ReceiveKeeps == ASSUME IInv, NEW c \in Run, Receive(c) PROVE IInv'
  <1> USE HostAssumption DEF IInv, Receive, Call, Duty, tables, duties
  <1>1. TypeOK'  BY DEF TypeOK, Worker
  <1>2. OneWorker'  BY DEF OneWorker, TypeOK, Live, Worker
  <1>3. Holders'  BY DEF Holders, TypeOK
  <1>4. Shutting'  BY DEF Shutting, TypeOK
  <1>5. Purging'  BY DEF Purging, TypeOK, Permitted
  <1>6. Connected'  BY DEF Connected, TypeOK, Worker
  <1>7. Registered'  BY DEF Registered, TypeOK
  <1>8. Serving'  BY DEF Serving, TypeOK, Worker, Of
  <1> QED BY <1>1, <1>2, <1>3, <1>4, <1>5, <1>6, <1>7, <1>8

LEMMA SettleKeeps == ASSUME IInv, NEW c \in Run, Settle(c) PROVE IInv'
  <1> USE HostAssumption DEF IInv, Settle, Call, Duty, tables, duties
  <1>1. TypeOK'  BY DEF TypeOK, Worker
  <1>2. OneWorker'  BY DEF OneWorker, TypeOK, Live, Worker
  <1>3. Holders'  BY DEF Holders, TypeOK
  <1>4. Shutting'  BY DEF Shutting, TypeOK
  <1>5. Purging'  BY DEF Purging, TypeOK, Permitted
  <1>6. Connected'  BY DEF Connected, TypeOK, Worker
  <1>7. Registered'  BY DEF Registered, TypeOK
  <1>8. Serving'  BY DEF Serving, TypeOK, Worker, Of
  <1> QED BY <1>1, <1>2, <1>3, <1>4, <1>5, <1>6, <1>7, <1>8

LEMMA RefuseKeeps == ASSUME IInv, NEW c \in Run, Refuse(c) PROVE IInv'
  <1> USE HostAssumption DEF IInv, Refuse, Call, Duty, tables, duties
  <1>1. TypeOK'  BY DEF TypeOK, Worker
  <1>2. OneWorker'  BY DEF OneWorker, TypeOK, Live, Worker
  <1>3. Holders'  BY DEF Holders, TypeOK
  <1>4. Shutting'  BY DEF Shutting, TypeOK
  <1>5. Purging'  BY DEF Purging, TypeOK, Permitted
  <1>6. Connected'  BY DEF Connected, TypeOK, Worker
  <1>7. Registered'  BY DEF Registered, TypeOK
  <1>8. Serving'  BY DEF Serving, TypeOK, Worker, Of
  <1> QED BY <1>1, <1>2, <1>3, <1>4, <1>5, <1>6, <1>7, <1>8

LEMMA ResolveKeeps == ASSUME IInv, NEW c \in Run, Resolve(c) PROVE IInv'
  <1> USE HostAssumption DEF IInv, Resolve, Call, Duty, tables, duties
  <1>1. TypeOK'  BY DEF TypeOK, Worker
  <1>2. OneWorker'  BY DEF OneWorker, TypeOK, Live, Worker
  <1>3. Holders'  BY DEF Holders, TypeOK
  <1>4. Shutting'  BY DEF Shutting, TypeOK
  <1>5. Purging'  BY DEF Purging, TypeOK, Permitted
  <1>6. Connected'  BY DEF Connected, TypeOK, Worker
  <1>7. Registered'  BY DEF Registered, TypeOK
  <1>8. Serving'  BY DEF Serving, TypeOK, Worker, Of
  <1> QED BY <1>1, <1>2, <1>3, <1>4, <1>5, <1>6, <1>7, <1>8

LEMMA FallBehindKeeps == ASSUME IInv, NEW c \in Run, FallBehind(c) PROVE IInv'
  <1> USE HostAssumption DEF IInv, FallBehind, Call, Duty, tables, duties
  <1>1. TypeOK'  BY DEF TypeOK, Worker
  <1>2. OneWorker'  BY DEF OneWorker, TypeOK, Live, Worker
  <1>3. Holders'  BY DEF Holders, TypeOK
  <1>4. Shutting'  BY DEF Shutting, TypeOK
  <1>5. Purging'  BY DEF Purging, TypeOK, Permitted
  <1>6. Connected'  BY DEF Connected, TypeOK, Worker, Registered
  <1>7. Registered'  BY DEF Registered, TypeOK
  <1>8. Serving'  BY DEF Serving, TypeOK, Worker, Of
  <1> QED BY <1>1, <1>2, <1>3, <1>4, <1>5, <1>6, <1>7, <1>8

LEMMA InvokeKeeps == ASSUME IInv, NEW c \in Run, Invoke(c) PROVE IInv'
  <1> USE HostAssumption DEF IInv, Invoke, Call, Duty, tables, duties
  <1>1. TypeOK'  BY DEF TypeOK, Worker
  <1>2. OneWorker'  BY DEF OneWorker, TypeOK, Live, Worker
  <1>3. Holders'  BY DEF Holders, TypeOK
  <1>4. Shutting'  BY DEF Shutting, TypeOK
  <1>5. Purging'  BY DEF Purging, TypeOK, Permitted
  <1>6. Connected'  BY DEF Connected, TypeOK, Worker
  <1>7. Registered'  BY DEF Registered, TypeOK
  <1>8. Serving'  BY DEF Serving, TypeOK, Worker, Of
  <1> QED BY <1>1, <1>2, <1>3, <1>4, <1>5, <1>6, <1>7, <1>8

LEMMA ToolEndsKeeps == ASSUME IInv, NEW c \in Run, ToolEnds(c) PROVE IInv'
  <1> USE HostAssumption DEF IInv, ToolEnds, Call, Duty, tables, duties
  <1>1. TypeOK'  BY DEF TypeOK, Worker
  <1>2. OneWorker'  BY DEF OneWorker, TypeOK, Live, Worker
  <1>3. Holders'  BY DEF Holders, TypeOK
  <1>4. Shutting'  BY DEF Shutting, TypeOK
  <1>5. Purging'  BY DEF Purging, TypeOK, Permitted
  <1>6. Connected'  BY DEF Connected, TypeOK, Worker
  <1>7. Registered'  BY DEF Registered, TypeOK
  <1>8. Serving'  BY DEF Serving, TypeOK, Worker, Of
  <1> QED BY <1>1, <1>2, <1>3, <1>4, <1>5, <1>6, <1>7, <1>8

LEMMA ProcessEndsKeeps == ASSUME IInv, NEW c \in Run, ProcessEnds(c) PROVE IInv'
  <1> USE HostAssumption DEF IInv, ProcessEnds, Call, Duty, tables, duties
  <1>1. TypeOK'  BY DEF TypeOK, Worker
  <1>2. OneWorker'  BY DEF OneWorker, TypeOK, Live, Worker
  <1>3. Holders'  BY DEF Holders, TypeOK
  <1>4. Shutting'  BY DEF Shutting, TypeOK
  <1>5. Purging'  BY DEF Purging, TypeOK, Permitted
  <1>6. Connected'  BY DEF Connected, TypeOK, Worker
  <1>7. Registered'  BY DEF Registered, TypeOK
  <1>8. Serving'  BY DEF Serving, TypeOK, Worker, Of
  <1> QED BY <1>1, <1>2, <1>3, <1>4, <1>5, <1>6, <1>7, <1>8

\* What becomes of the process.
LEMMA FaultKeeps == ASSUME IInv, NEW w \in Worker, Fault(w) PROVE IInv'
  <1> USE HostAssumption DEF IInv, Fault, At, Goes, Call, Duty, tables, duties
  <1>1. /\ worker' \in [Worker -> WorkerState]
        /\ worker'[w].node = "exited" /\ worker'[w].exited = worker[w].exited
        /\ \A v \in Worker \ {w} : worker'[v] = worker[v]
    BY WorkerDies
  <1>2. \A d \in Call : call[d].on \in {0} \cup Worker  BY DEF TypeOK, CallState
  <1>3. TypeOK'  BY <1>1, <1>2 DEF TypeOK, Worker
  <1>4. OneWorker'  BY <1>1, <1>2 DEF OneWorker, TypeOK, Live, Worker
  <1>5. Holders'  BY <1>1, <1>2 DEF Holders, TypeOK
  <1>6. Shutting'  BY <1>1, <1>2 DEF Shutting, TypeOK
  <1>7. Purging'  BY <1>1, <1>2 DEF Purging, TypeOK, Permitted
  <1>8. Connected'  BY <1>1, <1>2 DEF Connected, TypeOK
  <1>9. Registered'  BY <1>1, <1>2 DEF Registered, TypeOK
  <1>10. Serving'  BY <1>1, <1>2 DEF Serving, TypeOK, Of, Registered, Connected
  <1> QED BY <1>3, <1>4, <1>5, <1>6, <1>7, <1>8, <1>9, <1>10

LEMMA DieKeeps == ASSUME IInv, NEW w \in Worker, Die(w) PROVE IInv'
  <1> USE HostAssumption DEF IInv, Die, At, Goes, Call, Duty, tables, duties
  <1>1. /\ worker' \in [Worker -> WorkerState]
        /\ worker'[w].node = "exited" /\ worker'[w].exited = worker[w].exited
        /\ \A v \in Worker \ {w} : worker'[v] = worker[v]
    BY WorkerDies
  <1>2. \A d \in Call : call[d].on \in {0} \cup Worker  BY DEF TypeOK, CallState
  <1>3. TypeOK'  BY <1>1, <1>2 DEF TypeOK, Worker
  <1>4. OneWorker'  BY <1>1, <1>2 DEF OneWorker, TypeOK, Live, Worker
  <1>5. Holders'  BY <1>1, <1>2 DEF Holders, TypeOK
  <1>6. Shutting'  BY <1>1, <1>2 DEF Shutting, TypeOK
  <1>7. Purging'  BY <1>1, <1>2 DEF Purging, TypeOK, Permitted
  <1>8. Connected'  BY <1>1, <1>2 DEF Connected, TypeOK
  <1>9. Registered'  BY <1>1, <1>2 DEF Registered, TypeOK
  <1>10. Serving'  BY <1>1, <1>2 DEF Serving, TypeOK, Of, Registered, Connected
  <1> QED BY <1>3, <1>4, <1>5, <1>6, <1>7, <1>8, <1>9, <1>10

LEMMA ReaderEndsKeeps == ASSUME IInv, NEW w \in Worker, ReaderEnds(w) PROVE IInv'
  <1> USE HostAssumption DEF IInv, ReaderEnds, Failing, On, CallbacksEnd, At, Goes, Call, Duty, tables, duties
  <1>1. worker' \in [Worker -> WorkerState] /\ SameProcesses
    BY WorkerFails
  <1>2. \A d \in Call : call[d].on \in {0} \cup Worker  BY DEF TypeOK, CallState
  <1>3. TypeOK'  BY <1>1, <1>2 DEF TypeOK, Worker
  <1>4. OneWorker'  BY <1>1, <1>2 DEF OneWorker, TypeOK, Live, Worker, SameProcesses
  <1>5. Holders'  BY <1>1, <1>2 DEF Holders, TypeOK
  <1>6. Shutting'  BY <1>1, <1>2 DEF Shutting, TypeOK
  <1>7. Purging'  BY <1>1, <1>2 DEF Purging, TypeOK, Permitted
  <1>8. Connected'  BY <1>1, <1>2 DEF Connected, TypeOK, SameProcesses
  <1>9. Registered'  BY <1>1, <1>2 DEF Registered, TypeOK
  <1>10. Serving'  BY <1>1, <1>2 DEF Serving, TypeOK, SameProcesses, Of, Registered, Connected
  <1> QED BY <1>3, <1>4, <1>5, <1>6, <1>7, <1>8, <1>9, <1>10

LEMMA WriterFailsKeeps == ASSUME IInv, NEW w \in Worker, WriterFails(w) PROVE IInv'
  <1> USE HostAssumption DEF IInv, WriterFails, Failing, On, At, Goes, Call, Duty, tables, duties
  <1>1. worker' \in [Worker -> WorkerState] /\ SameProcesses
    BY WorkerFails
  <1>2. \A d \in Call : call[d].on \in {0} \cup Worker  BY DEF TypeOK, CallState
  <1>3. TypeOK'  BY <1>1, <1>2 DEF TypeOK, Worker
  <1>4. OneWorker'  BY <1>1, <1>2 DEF OneWorker, TypeOK, Live, Worker, SameProcesses
  <1>5. Holders'  BY <1>1, <1>2 DEF Holders, TypeOK
  <1>6. Shutting'  BY <1>1, <1>2 DEF Shutting, TypeOK
  <1>7. Purging'  BY <1>1, <1>2 DEF Purging, TypeOK, Permitted
  <1>8. Connected'  BY <1>1, <1>2 DEF Connected, TypeOK, SameProcesses
  <1>9. Registered'  BY <1>1, <1>2 DEF Registered, TypeOK
  <1>10. Serving'  BY <1>1, <1>2 DEF Serving, TypeOK, SameProcesses, Of, Registered, Connected
  <1> QED BY <1>3, <1>4, <1>5, <1>6, <1>7, <1>8, <1>9, <1>10

LEMMA ExitKeeps == ASSUME IInv, NEW w \in Worker, Exit(w) PROVE IInv'
  <1> USE HostAssumption DEF IInv, Exit, Failing, On, CallbacksEnd, At, Goes, Call, Duty, tables, duties
  <1>1. /\ worker' \in [Worker -> WorkerState] /\ worker'[w] = Gone
        /\ \A v \in Worker \ {w} : worker'[v] = worker[v]
    BY WorkerSet
  <1>2. \A d \in Call : call[d].on \in {0} \cup Worker  BY DEF TypeOK, CallState
  <1>3. TypeOK'  BY <1>1, <1>2 DEF TypeOK, Worker
  <1>4. OneWorker'  BY <1>1, <1>2 DEF OneWorker, TypeOK, Live, Worker, Gone, Unborn
  <1>5. Holders'  BY <1>1, <1>2 DEF Holders, TypeOK
  <1>6. Shutting'  BY <1>1, <1>2 DEF Shutting, TypeOK
  <1>7. Purging'  BY <1>1, <1>2 DEF Purging, TypeOK, Permitted
  <1>8. Connected'  BY <1>1, <1>2 DEF Connected, TypeOK, Gone, Unborn, Registered
  <1>9. Registered'  BY <1>1, <1>2 DEF Registered, TypeOK
  <1>10. Serving'  BY <1>1, <1>2 DEF Serving, TypeOK, Of, Gone, Unborn, Registered, Connected
  <1> QED BY <1>3, <1>4, <1>5, <1>6, <1>7, <1>8, <1>9, <1>10

\* Shutdown and maintenance.
LEMMA BeginShutdownKeeps == ASSUME IInv, NEW d \in Duty, BeginShutdown(d) PROVE IInv'
  <1> USE HostAssumption DEF IInv, BeginShutdown, Place, Moves, AfterShutdown, On, At, Goes, Call, Duty, tables, duties
  <1>1. TypeOK'  BY DEF TypeOK, Worker
  <1>2. OneWorker'  BY DEF OneWorker, TypeOK, Live, Worker
  <1>3. Holders'  BY DEF Holders, TypeOK
  <1>4. Shutting'  BY DEF Shutting, TypeOK, Holders
  <1>5. Purging'  BY DEF Purging, TypeOK, Permitted
  <1>6. Connected'  BY DEF Connected, TypeOK, Worker
  <1>7. Registered'  BY DEF Registered, TypeOK
  <1>8. Serving'  BY DEF Serving, TypeOK, Worker, Of
  <1> QED BY <1>1, <1>2, <1>3, <1>4, <1>5, <1>6, <1>7, <1>8

LEMMA AskedShutdownKeeps == ASSUME IInv, NEW d \in Duty, AskedShutdown(d) PROVE IInv'
  <1> USE HostAssumption DEF IInv, AskedShutdown, Place, Moves, AfterShutdown, At, Goes, Call, Duty, tables, duties
  <1>1. worker' \in [Worker -> WorkerState] /\ SameProcesses
    BY WorkerStops DEF TypeOK, Holders
  <1>2. \A c \in Call : call[c].on \in {0} \cup Worker  BY DEF TypeOK, CallState
  <1>3. TypeOK'  BY <1>1, <1>2 DEF TypeOK, Worker
  <1>4. OneWorker'  BY <1>1, <1>2 DEF OneWorker, TypeOK, Live, Worker, SameProcesses
  <1>5. Holders'  BY <1>1, <1>2 DEF Holders, TypeOK
  <1>6. Shutting'  BY <1>1, <1>2 DEF Shutting, TypeOK
  <1>7. Purging'  BY <1>1, <1>2 DEF Purging, TypeOK, Permitted
  <1>8. Connected'  BY <1>1, <1>2 DEF Connected, TypeOK, SameProcesses
  <1>9. Registered'  BY <1>1, <1>2 DEF Registered, TypeOK
  <1>10. Serving'  BY <1>1, <1>2 DEF Serving, TypeOK, SameProcesses, Of, Registered, Connected
  <1> QED BY <1>3, <1>4, <1>5, <1>6, <1>7, <1>8, <1>9, <1>10

LEMMA EndShutdownKeeps == ASSUME IInv, NEW d \in Duty, EndShutdown(d) PROVE IInv'
  <1> USE HostAssumption DEF IInv, EndShutdown, Place, Moves, AfterShutdown, At, Goes, Call, Duty, tables, duties
  <1>1. TypeOK'  BY DEF TypeOK, Worker
  <1>2. OneWorker'  BY DEF OneWorker, TypeOK, Live, Worker
  <1>3. Holders'  BY DEF Holders, TypeOK
  <1>4. Shutting'  BY DEF Shutting, TypeOK, Holders
  <1>5. Purging'  BY DEF Purging, TypeOK, Permitted
  <1>6. Connected'  BY DEF Connected, TypeOK, Worker
  <1>7. Registered'  BY DEF Registered, TypeOK
  <1>8. Serving'  BY DEF Serving, TypeOK, Worker, Of
  <1> QED BY <1>1, <1>2, <1>3, <1>4, <1>5, <1>6, <1>7, <1>8

LEMMA CloseKeeps == ASSUME IInv, Close PROVE IInv'
  <1> USE HostAssumption DEF IInv, Close, Paused, At, Goes, Call, Duty, tables, duties
  <1>1. TypeOK'  BY DEF TypeOK, Worker
  <1>2. OneWorker'  BY DEF OneWorker, TypeOK, Live, Worker
  <1>3. Holders'  BY DEF Holders, TypeOK
  <1>4. Shutting'  BY DEF Shutting, TypeOK
  <1>5. Purging'  BY DEF Purging, TypeOK, Permitted
  <1>6. Connected'  BY DEF Connected, TypeOK, Worker
  <1>7. Registered'  BY DEF Registered, TypeOK
  <1>8. Serving'  BY DEF Serving, TypeOK, Worker, Of
  <1> QED BY <1>1, <1>2, <1>3, <1>4, <1>5, <1>6, <1>7, <1>8

LEMMA BeginUpkeepKeeps == ASSUME IInv, BeginUpkeep PROVE IInv'
  <1> USE HostAssumption DEF IInv, BeginUpkeep, At, Goes, Call, Duty, tables, duties
  <1>1. TypeOK'  BY DEF TypeOK, Worker
  <1>2. OneWorker'  BY DEF OneWorker, TypeOK, Live, Worker
  <1>3. Holders'  BY DEF Holders, TypeOK
  <1>4. Shutting'  BY DEF Shutting, TypeOK
  <1>5. Purging'  BY DEF Purging, TypeOK, Permitted
  <1>6. Connected'  BY DEF Connected, TypeOK, Worker
  <1>7. Registered'  BY DEF Registered, TypeOK
  <1>8. Serving'  BY DEF Serving, TypeOK, Worker, Of
  <1> QED BY <1>1, <1>2, <1>3, <1>4, <1>5, <1>6, <1>7, <1>8

LEMMA DrainedKeeps == ASSUME IInv, Drained PROVE IInv'
  <1> USE HostAssumption DEF IInv, Drained, At, Goes, Call, Duty, tables, duties
  <1>1. TypeOK'  BY DEF TypeOK, Worker
  <1>2. OneWorker'  BY DEF OneWorker, TypeOK, Live, Worker
  <1>3. Holders'  BY DEF Holders, TypeOK
  <1>4. Shutting'  BY DEF Shutting, TypeOK
  <1>5. Purging'  BY DEF Purging, TypeOK, Permitted
  <1>6. Connected'  BY DEF Connected, TypeOK, Worker
  <1>7. Registered'  BY DEF Registered, TypeOK
  <1>8. Serving'  BY DEF Serving, TypeOK, Worker, Of
  <1> QED BY <1>1, <1>2, <1>3, <1>4, <1>5, <1>6, <1>7, <1>8

LEMMA PurgeSessionsKeeps == ASSUME IInv, PurgeSessions PROVE IInv'
  <1> USE HostAssumption DEF IInv, PurgeSessions, At, Goes, Call, Duty, tables, duties
  <1>1. TypeOK'  BY DEF TypeOK, Worker
  <1>2. OneWorker'  BY DEF OneWorker, TypeOK, Live, Worker
  <1>3. Holders'  BY DEF Holders, TypeOK
  <1>4. Shutting'  BY DEF Shutting, TypeOK
  <1>5. Purging'  BY DEF Purging, TypeOK, Permitted
  <1>6. Connected'  BY DEF Connected, TypeOK, Worker
  <1>7. Registered'  BY DEF Registered, TypeOK
  <1>8. Serving'  BY DEF Serving, TypeOK, Worker, Of
  <1> QED BY <1>1, <1>2, <1>3, <1>4, <1>5, <1>6, <1>7, <1>8

LEMMA EndUpkeepKeeps == ASSUME IInv, EndUpkeep PROVE IInv'
  <1> USE HostAssumption DEF IInv, EndUpkeep, At, Goes, Call, Duty, tables, duties
  <1>1. TypeOK'  BY DEF TypeOK, Worker
  <1>2. OneWorker'  BY DEF OneWorker, TypeOK, Live, Worker
  <1>3. Holders'  BY DEF Holders, TypeOK
  <1>4. Shutting'  BY DEF Shutting, TypeOK
  <1>5. Purging'  BY DEF Purging, TypeOK, Permitted
  <1>6. Connected'  BY DEF Connected, TypeOK, Worker
  <1>7. Registered'  BY DEF Registered, TypeOK
  <1>8. Serving'  BY DEF Serving, TypeOK, Worker, Of
  <1> QED BY <1>1, <1>2, <1>3, <1>4, <1>5, <1>6, <1>7, <1>8

-----------------------------------------------------------------------------
(***************************************************************************)
(* The invariant.                                                          *)
(***************************************************************************)
LEMMA InitInv == Init => IInv
  <1> SUFFICES ASSUME Init PROVE IInv  OBVIOUS
  <1> USE HostAssumption DEF Init
  <1>1. TypeOK  BY DEF TypeOK, CallState, WorkerState, Unborn, Worker
  <1>2. OneWorker /\ Holders /\ Shutting /\ Purging
    BY DEF OneWorker, Live, Unborn, Holders, Shutting, Purging
  <1>3. Connected /\ Registered  BY DEF Connected, Registered
  <1>4. Serving  BY DEF Serving
  <1> QED BY <1>1, <1>2, <1>3, <1>4 DEF IInv

LEMMA NextInv == IInv /\ Next => IInv'
  <1> SUFFICES ASSUME IInv, Next PROVE IInv'  OBVIOUS
  <1>1. ASSUME NEW c \in Call, Admit(c) \/ Leave(c) PROVE IInv'
    BY <1>1, AdmitKeeps, LeaveKeeps
  <1>2. ASSUME NEW c \in Call, Locking(c) PROVE IInv'
    BY <1>2, RefuseClosedKeeps, ReuseKeeps, ReplaceKeeps, SpawnKeeps, SpawnFailsKeeps DEF Locking
  <1>3. ASSUME NEW c \in Call, Connecting(c) PROVE IInv'
    BY <1>3, SpawnKeeps, SpawnFailsKeeps, InitializedKeeps, InitializeFailsKeeps, DiscardKeeps
       DEF Connecting
  <1>4. ASSUME NEW c \in Call, Requesting(c) PROVE IInv'
    BY <1>4, CheckAliveKeeps, RegisterKeeps, NotSentKeeps, EndCallKeeps, TakeReplyKeeps,
       GiveUpKeeps, SendAbortKeeps, AbortAnsweredKeeps, AbortFailsKeeps, ReapedKeeps
       DEF Requesting
  <1>5. ASSUME NEW c \in Run, Working(c) \/ CancelRun(c) \/ CancelEnds(c) PROVE IInv'
    BY <1>5, ReceiveKeeps, SettleKeeps, RefuseKeeps, ResolveKeeps, CancelRunKeeps, CancelEndsKeeps
       DEF Working
  <1>6. ASSUME NEW c \in Run, Acting(c) PROVE IInv'
    BY <1>6, FallBehindKeeps, AskKeeps, InvokeKeeps, ToolEndsKeeps, ProcessEndsKeeps DEF Acting
  <1>7. ASSUME NEW w \in Worker, Failure(w) \/ Monitor(w) PROVE IInv'
    BY <1>7, FaultKeeps, DieKeeps, ReaderEndsKeeps, WriterFailsKeeps, StopProcessesKeeps, ExitKeeps
       DEF Failure, Monitor
  <1>8. ASSUME NEW d \in Duty, Shutdown(d) PROVE IInv'
    BY <1>8, BeginShutdownKeeps, AskedShutdownKeeps, EndShutdownKeeps DEF Shutdown
  <1>9. CASE Close \/ Upkeep
    BY <1>9, CloseKeeps, BeginUpkeepKeeps, DrainedKeeps, PurgeSessionsKeeps, EndUpkeepKeeps,
       AbandonUpkeepKeeps DEF Upkeep
  <1> QED BY <1>1, <1>2, <1>3, <1>4, <1>5, <1>6, <1>7, <1>8, <1>9 DEF Next

LEMMA StepInv == IInv /\ [Next]_vars => IInv'
  <1>1. IInv /\ UNCHANGED vars => IInv'
    BY DEF vars, IInv, TypeOK, OneWorker, Live, Holders, Shutting, Purging, Permitted, Connected,
           Registered, Serving, Of
  <1> QED BY <1>1, NextInv

\* The inductive invariant holds in every behaviour (agent/host.rs, agent/process.rs).
THEOREM Invariance == Spec => []IInv
  BY InitInv, StepInv, PTL DEF Spec

\* The state keeps its types, for all sets of calls and any number of workers.
THEOREM TypeCorrect == Spec => []TypeOK
  <1>1. IInv => TypeOK  BY DEF IInv
  <1> QED BY <1>1, Invariance, PTL

\* Nothing acts for a run while data are copied or deleted, and a purge deletes the
\* sessions of the agent while no worker is there but one that a sign-in started behind
\* the second shutdown: it left no worker, and no call that it waited for can start
\* another (Host::shutdown, purge_sessions).
THEOREM PurgeMeetsOnlyStrays == Spec => []PurgeFindsOnlyStrays
  <1>1. ASSUME IInv, upkeep.at \in {"working", "purging"} PROVE AtWork = {}
    <2>1. Permitted = {}  BY <1>1 DEF IInv, Purging
    <2>2. \A c \in Run : c \notin registered
      BY <1>1, <2>1 DEF IInv, Registered, Permitted, Call
    <2> QED BY <1>1, <2>2 DEF IInv, Serving, AtWork
  <1>2. ASSUME IInv, upkeep.at = "purging" PROVE Live \subseteq strays
    BY <1>2 DEF IInv, Purging, OneWorker, Live, Worker
  <1>3. IInv => PurgeFindsOnlyStrays
    BY <1>1, <1>2 DEF PurgeFindsOnlyStrays
  <1> QED BY <1>3, Invariance, PTL

-----------------------------------------------------------------------------
(***************************************************************************)
(* The refinement.  Most steps are Rest: they change nothing the contract  *)
(* speaks of, or take authority or tools away.                             *)
(***************************************************************************)
LEMMA SameLive == ASSUME SameProcesses PROVE Live' = Live
  BY DEF SameProcesses, Live

\* A step that ends no request, and begins none.
LEMMA Resting ==
    ASSUME IInv,
           \A d \in Call : call'[d].at = "over" <=> call[d].at = "over",
           registered' = registered, revoked \subseteq revoked',
           Live' = Live, AtWork' \subseteq AtWork,
           (closer = "closed")' = (closer = "closed")
    PROVE  Contract!Rest
  <1> DEFINE stopped == {d \in Call : Phase[d] = "open" /\ d \in revoked'}
  <1>1. \A d \in Call : PhaseOf(d)' = IF d \in stopped THEN "stopped" ELSE PhaseOf(d)
    BY DEF PhaseOf, Phase, At
  <1> HIDE DEF stopped
  <1>2. Phase' = [d \in Call |-> IF d \in stopped THEN "stopped" ELSE Phase[d]]
    BY <1>1 DEF Phase
  <1>3. stopped \in SUBSET {d \in Call : Phase[d] = "open"}  BY DEF stopped
  <1> QED BY <1>2, <1>3 DEF Contract!Rest, Contract!Withdraw

\* A step in which the call of c ends, with no tool left.
LEMMA Ending ==
    ASSUME IInv, NEW c \in Call,
           call'[c].at = "over", \A d \in Call \ {c} : call'[d] = call[d],
           registered' = registered \ {c}, revoked' = revoked \ {c},
           Live' = Live, AtWork' = AtWork, c \notin AtWork,
           UNCHANGED closer
    PROVE  Contract!Next
  <1>1. \A d \in Call : PhaseOf(d)' = IF d = c THEN "over" ELSE PhaseOf(d)
    BY DEF PhaseOf, At
  <1>2. Phase' = [Phase EXCEPT ![c] = "over"]  BY <1>1 DEF Phase
  <1>3. Contract!End(c)  BY <1>2 DEF Contract!End
  <1> QED BY <1>3 DEF Contract!Next

\* So does one that had made no request.
LEMMA EndingEarly ==
    ASSUME IInv, NEW c \in Call, c \notin registered, Goes(c, "over"),
           Live' = Live, UNCHANGED <<tables, tool, closer>>
    PROVE  Contract!Next
  <1>1. c \notin AtWork  BY DEF IInv, Serving, AtWork
  <1>2. registered' = registered \ {c} /\ revoked' = revoked \ {c}
    BY DEF tables, IInv, Registered
  <1>3. call'[c].at = "over" /\ \A d \in Call \ {c} : call'[d] = call[d]
    BY CallGoes DEF IInv
  <1> QED BY <1>1, <1>2, <1>3, Ending DEF AtWork

LEMMA EndingRequest ==
    ASSUME IInv, NEW c \in Call, Ends(c), c \in Run => tool[c] = "none",
           UNCHANGED <<tool, worker, closer>>
    PROVE  Contract!Next
  <1>1. c \notin AtWork  BY DEF AtWork
  <1>2. call'[c].at = "over" /\ \A d \in Call \ {c} : call'[d] = call[d]
    BY CallGoes DEF IInv, Ends
  <1> QED BY <1>1, <1>2, Ending DEF AtWork, Live, Ends

\* A call that goes somewhere else, its worker perhaps told to stop.
LEMMA Going ==
    ASSUME IInv, NEW c \in Call,
           NEW p \in {"admitted", "replacing", "initializing", "discarding", "connected",
                      "checked", "waiting", "aborting", "abort_sent", "reaping"},
           call[c].at # "over", Goes(c, p),
           worker' = worker \/ SameProcesses,
           UNCHANGED registered, revoked \subseteq revoked',
           UNCHANGED <<tool, closer>>
    PROVE  Contract!Rest
  <1>1. \A d \in Call : call'[d].at = "over" <=> call[d].at = "over"
    <2>1. call'[c].at = p /\ \A d \in Call \ {c} : call'[d] = call[d]
      BY CallGoes DEF IInv
    <2> QED BY <2>1
  <1>2. Live' = Live  BY SameLive DEF Live
  <1> QED BY <1>1, <1>2, Resting DEF AtWork

LEMMA RequestsRefine == ASSUME IInv, NEW c \in Call, Admit(c) \/ Leave(c) \/ Requesting(c)
                        PROVE Contract!Next
  <1> USE DEF At, tables, duties, Continues
  <1>1. CASE Admit(c)
    BY <1>1, Going DEF Admit, Contract!Next
  <1>2. CASE Leave(c)
    <2>1. SameProcesses
      BY <1>2, WorkerStops DEF Leave, IInv, TypeOK, Holders, SameProcesses
    <2> QED BY <1>2, <2>1, SameLive, EndingEarly DEF Leave, IInv, Registered
  <1>3. CASE CheckAlive(c)
    <2>1. CASE Goes(c, "checked")  BY <1>3, <2>1, Going DEF CheckAlive, Contract!Next
    <2>2. CASE Goes(c, "over")
      BY <1>3, <2>2, EndingEarly DEF CheckAlive, IInv, Registered, Live
    <2> QED BY <1>3, <2>1, <2>2 DEF CheckAlive
  <1>4. CASE Register(c)
    <2>1. /\ call'[c].at = "waiting" /\ call[c].at = "checked"
          /\ \A d \in Call \ {c} : call'[d] = call[d]
      BY <1>4, CallGoes DEF Register, IInv
    <2>2. c \notin registered /\ c \notin revoked
      BY <2>1 DEF IInv, Registered
    <2>3. \A d \in Call : PhaseOf(d)' = IF d = c THEN "open" ELSE PhaseOf(d)
      <3>1. PhaseOf(c)' = "open"  BY <1>4, <2>1, <2>2 DEF Register, PhaseOf
      <3>2. ASSUME NEW d \in Call \ {c} PROVE PhaseOf(d)' = PhaseOf(d)
        BY <1>4, <2>1, <3>2 DEF Register, PhaseOf
      <3> QED BY <3>1, <3>2
    <2>4. Phase' = [Phase EXCEPT ![c] = "open"] /\ Phase[c] = "idle"
      BY <2>1, <2>2, <2>3 DEF Phase, PhaseOf
    <2>5. Live # {}
      <3>1. call[c] \in CallState /\ call[c].on # 0 /\ Of(c).node # "none"
        BY <2>1 DEF IInv, TypeOK, Connected, Of
      <3> QED BY <1>4, <3>1 DEF Register, Live, Of, CallState
    <2>6. Live' = Live /\ AtWork' = AtWork /\ UNCHANGED closer
      BY <1>4 DEF Register, Live, AtWork
    <2>7. Contract!Begin(c)  BY <2>4, <2>5, <2>6 DEF Contract!Begin
    <2> QED BY <2>7 DEF Contract!Next
  <1>5. CASE NotSent(c)
    BY <1>5, EndingEarly DEF NotSent, IInv, Registered, Live
  <1>6. CASE EndCall(c)
    BY <1>6, EndingRequest DEF EndCall
  <1>7. CASE TakeReply(c)
    <2>1. call[c] \in CallState /\ call[c].on # 0
      BY <1>7 DEF TakeReply, IInv, TypeOK, Connected
    <2>2. CASE Goes(c, "aborting") /\ Continues /\ UNCHANGED worker
      BY <1>7, <2>2, Going DEF TakeReply, Contract!Next
    <2>3. CASE reply[c] = "ok" /\ Ends(c) /\ UNCHANGED worker
      <3>1. tool[c] = "none"  BY <1>7, <2>3 DEF TakeReply, IInv, Serving
      <3> QED BY <1>7, <2>3, <3>1, EndingRequest DEF TakeReply
    <2>4. CASE Goes(c, "reaping") /\ worker' = [worker EXCEPT ![call[c].on].stop = TRUE]
               /\ Continues
      <3>1. SameProcesses  BY <2>1, <2>4, WorkerStops DEF IInv, CallState
      <3> QED BY <1>7, <2>4, <3>1, Going DEF TakeReply, Contract!Next
    <2> QED BY <1>7, <2>2, <2>3, <2>4 DEF TakeReply
  <1>8. CASE GiveUp(c)
    BY <1>8, Going DEF GiveUp, Contract!Next
  <1>9. CASE SendAbort(c) \/ AbortFails(c)
    <2>1. call[c] \in CallState /\ call[c].on # 0
      BY <1>9 DEF SendAbort, AbortFails, IInv, TypeOK, Connected
    <2>2. worker' = worker \/ SameProcesses
      BY <1>9, <2>1, WorkerStops DEF SendAbort, AbortFails, IInv, CallState
    <2>3. Goes(c, "abort_sent") \/ Goes(c, "reaping")
      BY <1>9 DEF SendAbort, AbortFails
    <2> QED BY <1>9, <2>2, <2>3, Going DEF SendAbort, AbortFails, Contract!Next
  <1>10. CASE AbortAnswered(c) \/ Reaped(c)
    <2>1. c \in Run => tool[c] = "none"
      BY <1>10 DEF AbortAnswered, Reaped, IInv, Serving
    <2> QED BY <1>10, <2>1, EndingRequest DEF AbortAnswered, Reaped
  <1> QED BY <1>1, <1>2, <1>3, <1>4, <1>5, <1>6, <1>7, <1>8, <1>9, <1>10 DEF Requesting

LEMMA ConnectionsRefine == ASSUME IInv, NEW c \in Call, Locking(c) \/ Connecting(c)
                           PROVE Contract!Next
  <1> USE DEF At, tables, duties
  <1>1. CASE RefuseClosed(c)
    BY <1>1, EndingEarly DEF RefuseClosed, IInv, Registered, Live
  <1>2. CASE Reuse(c)
    <2>1. \A d \in Call : call'[d].at = "over" <=> call[d].at = "over"
      BY <1>2 DEF Reuse, IInv, TypeOK
    <2> QED BY <1>2, <2>1, Resting DEF Reuse, Live, AtWork, Contract!Next
  <1>3. CASE Replace(c) \/ InitializeFails(c)
    <2>1. SameProcesses
      BY <1>3, WorkerStops DEF Replace, InitializeFails, IInv, TypeOK, Holders
    <2> QED BY <1>3, <2>1, Going DEF Replace, InitializeFails, Contract!Next
  <1>4. CASE Spawn(c)
    <2>1. PICK w \in Worker : Fresh(w) /\ worker' = [worker EXCEPT ![w] = Spawned]
      BY <1>4 DEF Spawn
    <2>2. worker'[w] = Spawned /\ \A v \in Worker \ {w} : worker'[v] = worker[v]
      BY <2>1, WorkerSet DEF IInv
    <2>3. Live = {}
      BY <1>4 DEF Spawn, Vacant, IInv, OneWorker, Live, Worker
    <2>4. Live' = {w}
      BY <2>2, <2>3 DEF Live, Spawned, Unborn
    <2>5. closer # "closed"
      BY <1>4 DEF Spawn, Vacant, IInv, Shutting
    <2>6. /\ call'[c].at = "initializing" /\ call[c].at # "over"
          /\ \A d \in Call \ {c} : call'[d] = call[d]
      BY <1>4, CallGoes DEF Spawn, Vacant, IInv
    <2>7. \A d \in Call : PhaseOf(d)' = PhaseOf(d)
      BY <1>4, <2>6 DEF Spawn, PhaseOf
    <2>8. Phase' = Phase  BY <2>7 DEF Phase
    <2>9. Contract!Start
      BY <1>4, <2>3, <2>4, <2>5, <2>8 DEF Spawn, Contract!Start, AtWork
    <2> QED BY <2>9 DEF Contract!Next
  <1>5. CASE SpawnFails(c)
    BY <1>5, EndingEarly DEF SpawnFails, Vacant, IInv, Registered, Live
  <1>6. CASE Initialized(c)
    <2>1. SameProcesses
      BY <1>6, WorkerInitialized DEF Initialized, IInv, TypeOK, Holders
    <2>2. \A d \in Call : call'[d].at = "over" <=> call[d].at = "over"
      BY <1>6 DEF Initialized, IInv, TypeOK
    <2> QED BY <1>6, <2>1, <2>2, SameLive, Resting DEF Initialized, AtWork, Contract!Next
  <1>7. CASE Discard(c)
    BY <1>7, EndingEarly DEF Discard, IInv, Registered, Live
  <1> QED BY <1>1, <1>2, <1>3, <1>4, <1>5, <1>6, <1>7 DEF Locking, Connecting

LEMMA RunsRefine ==
    ASSUME IInv, NEW c \in Run, Working(c) \/ CancelRun(c) \/ CancelEnds(c) \/ Acting(c)
    PROVE  Contract!Next
  <1> USE DEF tables, duties
  <1>1. CASE Working(c)
    BY <1>1, Resting
       DEF Working, Receive, Settle, Refuse, Resolve, Live, AtWork, Contract!Next
  <1>2. CASE CancelRun(c)
    <2>1. slot \in Worker  BY <1>2 DEF CancelRun, IInv, TypeOK
    <2>2. Live' = Live
      BY <1>2, <2>1, WorkerStops, SameLive DEF CancelRun, IInv, Live
    <2> QED BY <1>2, <2>2, Resting DEF CancelRun, AtWork, Contract!Next
  <1>3. CASE CancelEnds(c)
    <2>1. call[c] \in CallState /\ call[c].on # 0
      BY <1>3 DEF CancelEnds, IInv, TypeOK, Connected, Call
    <2>2. Live' = Live
      BY <1>3, <2>1, WorkerStops, SameLive DEF CancelEnds, IInv, Live, CallState
    <2> QED BY <1>3, <2>2, Resting DEF CancelEnds, AtWork, Contract!Next
  <1>4. CASE FallBehind(c)
    BY <1>4, Resting DEF FallBehind, Live, AtWork, Contract!Next
  <1>5. CASE Ask(c) \/ ToolEnds(c) \/ ProcessEnds(c)
    <2>1. AtWork' \subseteq AtWork
      BY <1>5 DEF Ask, ToolEnds, ProcessEnds, AtWork, IInv, TypeOK
    <2> QED BY <1>5, <2>1, Resting DEF Ask, ToolEnds, ProcessEnds, Live, Contract!Next
  <1>6. CASE Invoke(c)
    <2>1. CASE tool' = [tool EXCEPT ![c] = "none"]
      <3>1. AtWork' \subseteq AtWork  BY <2>1 DEF AtWork, IInv, TypeOK
      <3> QED BY <1>6, <3>1, Resting DEF Invoke, Live, Contract!Next
    <2>2. CASE c \in registered \ revoked
               /\ \E kind \in {"acting", "process"} : tool' = [tool EXCEPT ![c] = kind]
      <3>1. AtWork' = AtWork \cup {c}  BY <2>2 DEF AtWork, IInv, TypeOK
      <3>2. Phase[c] = "open"
        <4>1. c \in Call /\ call[c].at # "over"  BY <2>2 DEF IInv, Registered, Call
        <4> QED BY <2>2, <4>1 DEF Phase, PhaseOf, At
      <3>3. Phase' = Phase /\ Live' = Live /\ UNCHANGED closer
        BY <1>6 DEF Invoke, Phase, PhaseOf, At, Live
      <3>4. Contract!Act(c)  BY <3>1, <3>2, <3>3 DEF Contract!Act
      <3> QED BY <3>4 DEF Contract!Next, Call
    <2> QED BY <1>6, <2>1, <2>2 DEF Invoke
  <1> QED BY <1>1, <1>2, <1>3, <1>4, <1>5, <1>6 DEF Acting

LEMMA WorkersRefine == ASSUME IInv, NEW w \in Worker, Failure(w) \/ Monitor(w)
                       PROVE Contract!Next
  <1> USE DEF tables, duties
  <1>1. CASE Fault(w) \/ Die(w)
    <2>1. /\ worker'[w].node = "exited" /\ worker'[w].exited = worker[w].exited
          /\ \A v \in Worker \ {w} : worker'[v] = worker[v]
      BY <1>1, WorkerDies DEF Fault, Die, IInv
    <2>2. Live' = Live  BY <1>1, <2>1 DEF Fault, Die, Live
    <2> QED BY <1>1, <2>2, Resting DEF Fault, Die, AtWork, Contract!Next
  <1>2. CASE ReaderEnds(w) \/ WriterFails(w)
    <2>1. Live' = Live
      BY <1>2, WorkerFails, SameLive DEF ReaderEnds, WriterFails, IInv
    <2>2. AtWork' \subseteq AtWork
      BY <1>2 DEF ReaderEnds, WriterFails, CallbacksEnd, AtWork
    <2>3. revoked \subseteq revoked'
      BY <1>2 DEF ReaderEnds, WriterFails, Failing
    <2> QED BY <1>2, <2>1, <2>2, <2>3, Resting DEF ReaderEnds, WriterFails, Contract!Next
  <1>3. CASE StopProcesses(w)
    <2>1. Live' = Live
      BY <1>3, WorkerStops, SameLive DEF StopProcesses, IInv
    <2> QED BY <1>3, <2>1, Resting DEF StopProcesses, AtWork, Contract!Next
  <1>4. CASE Exit(w)
    <2>1. worker'[w] = Gone /\ \A v \in Worker \ {w} : worker'[v] = worker[v]
      BY <1>4, WorkerSet DEF Exit, IInv
    <2>2. Live \subseteq {w}
      BY <1>4 DEF Exit, IInv, OneWorker, Live
    <2>3. Live' = {}  BY <2>1, <2>2 DEF Live, Gone, Unborn
    <2>4. AtWork' = {}
      <3>1. ASSUME NEW c \in Run, tool[c] # "none" PROVE call[c].on = w
        <4>1. c \in registered /\ ~Of(c).exited
          BY <3>1 DEF IInv, Serving
        <4>2. call[c] \in CallState /\ call[c].on # 0 /\ Of(c).node # "none"
          BY <4>1 DEF IInv, TypeOK, Registered, Connected, Of
        <4> QED BY <2>2, <4>1, <4>2 DEF Live, Of, CallState
      <3>2. ASSUME NEW c \in Run PROVE tool'[c] \notin {"acting", "process"}
        BY <1>4, <3>1 DEF Exit, CallbacksEnd
      <3> QED BY <3>2 DEF AtWork
    <2>5. Contract!Withdraw
      <3> DEFINE stopped == {d \in Call : Phase[d] = "open" /\ d \in revoked'}
      <3>1. \A d \in Call : PhaseOf(d)' = IF d \in stopped THEN "stopped" ELSE PhaseOf(d)
        BY <1>4 DEF Exit, Failing, PhaseOf, Phase, At
      <3> HIDE DEF stopped
      <3>2. Phase' = [d \in Call |-> IF d \in stopped THEN "stopped" ELSE Phase[d]]
        BY <3>1 DEF Phase
      <3>3. stopped \in SUBSET {d \in Call : Phase[d] = "open"}  BY DEF stopped
      <3> QED BY <3>2, <3>3 DEF Contract!Withdraw
    <2>6. Contract!Stop  BY <1>4, <2>3, <2>4, <2>5 DEF Exit, Contract!Stop
    <2> QED BY <2>6 DEF Contract!Next
  <1> QED BY <1>1, <1>2, <1>3, <1>4 DEF Failure, Monitor

LEMMA ShutdownRefines == ASSUME IInv, NEW d \in Duty, Shutdown(d) PROVE Contract!Next
  <1> USE DEF tables, duties, Place, Moves, AfterShutdown, Duty
  <1>1. CASE AskedShutdown(d)
    <2>1. slot \in Worker  BY <1>1 DEF AskedShutdown, IInv, TypeOK, Holders
    <2>2. Live' = Live
      BY <1>1, <2>1, WorkerStops, SameLive DEF AskedShutdown, IInv
    <2> QED BY <1>1, <2>2, Resting DEF AskedShutdown, AtWork, Contract!Next
  <1>2. CASE /\ BeginShutdown(d) \/ EndShutdown(d)
             /\ (closer = "closed")' = (closer = "closed")
    BY <1>2, Resting DEF BeginShutdown, EndShutdown, Live, AtWork, Contract!Next
  <1>3. CASE /\ BeginShutdown(d) \/ EndShutdown(d)
             /\ closer # "closed" /\ closer' = "closed"
    <2>1. d = "closer" /\ (slot = 0 \/ worker[slot].exited)
      BY <1>3 DEF BeginShutdown, EndShutdown
    <2>2. Live = {}
      BY <2>1 DEF IInv, OneWorker, Live, Worker
    <2>3. Live' = Live /\ AtWork' = AtWork
      BY <1>3 DEF BeginShutdown, EndShutdown, Live, AtWork
    <2>4. registered' = registered /\ revoked' = revoked /\ call' = call
      BY <1>3, <2>1 DEF BeginShutdown, EndShutdown
    <2>5. Phase' = Phase  BY <2>4 DEF Phase, PhaseOf, At
    <2>6. Contract!Shut  BY <1>3, <2>2, <2>3, <2>5 DEF Contract!Shut
    <2> QED BY <2>6 DEF Contract!Next
  <1>4. BeginShutdown(d) \/ EndShutdown(d) => (closer = "closed" => closer' = "closed")
    BY DEF BeginShutdown, EndShutdown
  <1> QED BY <1>1, <1>2, <1>3, <1>4 DEF Shutdown

LEMMA UpkeepRefines == ASSUME IInv, Close \/ Upkeep PROVE Contract!Next
  <1> USE DEF tables, duties
  <1>1. CASE AbandonUpkeep
    <2>1. Live' = Live
      BY <1>1, WorkerStops, SameLive DEF AbandonUpkeep, IInv, TypeOK, Holders, Live
    <2> QED BY <1>1, <2>1, Resting DEF AbandonUpkeep, AtWork, Contract!Next
  <1>2. CASE Close \/ BeginUpkeep \/ Drained \/ PurgeSessions \/ EndUpkeep
    BY <1>2, Resting
       DEF Close, BeginUpkeep, Drained, PurgeSessions, EndUpkeep, Live, AtWork, Contract!Next
  <1> QED BY <1>1, <1>2 DEF Upkeep

\* The agent of the daemon keeps its contract, for all sets of calls and any number of
\* workers: one worker at a time, none after the shutdown, and nothing acts for a run
\* that has ended or begins anything for one that was told to stop (Host::connection,
\* Connection::abort, DomainBridge::invoke, Host::shutdown).
THEOREM AgentKept == Spec => KeepsAgent
  <1>1. Init => Contract!Init
    <2> SUFFICES ASSUME Init PROVE Contract!Init  OBVIOUS
    <2>1. Live = {} /\ AtWork = {} /\ (closer = "closed") = FALSE
      BY DEF Init, Live, AtWork, Unborn
    <2>2. Phase = [c \in Call |-> "idle"]
      BY DEF Init, Phase, PhaseOf, At
    <2> QED BY <2>1, <2>2 DEF Contract!Init
  <1>2. IInv /\ [Next]_vars => [Contract!Next]_(Contract!vars)
    <2> SUFFICES ASSUME IInv, [Next]_vars PROVE [Contract!Next]_(Contract!vars)  OBVIOUS
    <2>1. CASE Next
      BY <2>1, RequestsRefine, ConnectionsRefine, RunsRefine, WorkersRefine, ShutdownRefines,
         UpkeepRefines DEF Next
    <2>2. CASE UNCHANGED vars
      BY <2>2 DEF vars, Contract!vars, Live, Phase, PhaseOf, At, AtWork
    <2> QED BY <2>1, <2>2
  <1> QED BY <1>1, <1>2, Invariance, PTL DEF Spec, KeepsAgent, Contract!Spec

=============================================================================
