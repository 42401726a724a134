------------------------------- MODULE AgentHost -------------------------------
(***************************************************************************)
(* The agent of the daemon: the host that starts, replaces and shuts down  *)
(* the Node worker (agent/host.rs), the calls that are made of it          *)
(* (agent/runtime.rs), the callbacks the worker makes and the processes it *)
(* owns (agent/process.rs), and the maintenance of personal data that      *)
(* pauses it all (api/handlers/backup.rs, api/handlers/privacy.rs).        *)
(*                                                                         *)
(* A step is what a task does between two awaits, or under one hold of a   *)
(* mutex.  A call is a task of the daemon; a run is a call with authority  *)
(* of its own (chat or background), whose tools call back.  Workers are    *)
(* numbered in the order they are started, up to a bound.                  *)
(*                                                                         *)
(* A message to the worker and its answer are the state of the activity    *)
(* there.  The worker itself is modelled by what BoBeAgent does: it        *)
(* settles an activity when its tools have, and answers an abort when the  *)
(* activity has settled, unless it has a fault: then it refuses whatever   *)
(* it has and ends.  It may die at any time.  Every call has a deadline,   *)
(* which may pass at any time.                                             *)
(*                                                                         *)
(* The calls of a sign-in (agent/auth.rs) are made without the permit of   *)
(* the lifecycle: only auth_login looks whether a maintenance is going on, *)
(* once, before its task is spawned; auth_submit and auth_cancel do not.   *)
(* A maintenance cancels the sign-ins it finds: those are calls that end.  *)
(***************************************************************************)
EXTENDS Naturals, FiniteSets

CONSTANTS
    Run,         \* calls with authority: a chat turn, a background job
    Query,       \* calls without, that wait for an answer: status, models, logout
    SignIn,      \* calls of a sign-in: auth_login, auth_submit, auth_cancel
    MaxCalls,    \* bound: calls that are made
    MaxWorkers   \* bound: workers that are started

Call    == Run \cup Query \cup SignIn
Worker  == 1 .. MaxWorkers
Duty    == {"upkeep", "closer"}

ASSUME HostAssumption ==
    /\ MaxWorkers \in Nat \ {0}
    /\ Run \cap (Query \cup SignIn) = {} /\ Query \cap SignIn = {}
    /\ "none" \notin Call /\ Duty \cap Call = {}

ASSUME CallsAssumption == IsFiniteSet(Call) /\ MaxCalls \in Nat

VARIABLES
    call,        \* call -> where its task stands, and the connection it uses
    reply,       \* run -> what its oneshot holds
    registered,  \* calls in the tables of their connection
    revoked,     \* runs whose authority was cancelled
    cancelling,  \* runs that someone else aborts
    activity,    \* run -> what the worker makes of it
    tool,        \* run -> the callback or process that works for it
    worker,      \* number -> the connection and its process
    slot,        \* the connection of the host, 0 if none
    holder,      \* who holds the mutex of the host
    upkeep,      \* maintenance of personal data
    strays,      \* history: workers that sign-ins started since its last shutdown began
    closer       \* the shutdown of the daemon

vars == <<call, reply, registered, revoked, cancelling, activity, tool, worker, slot,
          holder, upkeep, strays, closer>>
tables == <<reply, registered, revoked, cancelling>>
duties == <<upkeep, strays, closer>>

Unborn == [node |-> "none", alive |-> FALSE, initialized |-> FALSE, stop |-> FALSE,
           reading |-> FALSE, exited |-> FALSE]
Spawned == [Unborn EXCEPT !.node = "running", !.alive = TRUE, !.reading = TRUE]
Gone    == [Unborn EXCEPT !.node = "exited", !.stop = TRUE, !.exited = TRUE]

CallState ==
    [at : {"new", "admitted", "replacing", "initializing", "discarding", "connected",
           "checked", "waiting", "aborting", "abort_sent", "reaping", "over"},
     on : {0} \cup Worker]
WorkerState ==
    [node : {"none", "running", "exited"}, alive : BOOLEAN, initialized : BOOLEAN,
     stop : BOOLEAN, reading : BOOLEAN, exited : BOOLEAN]

TypeOK ==
    /\ call \in [Call -> CallState]
    /\ reply \in [Run -> {"none", "ok", "error"}]
    /\ registered \subseteq Call /\ revoked \subseteq Run /\ cancelling \subseteq Run
    /\ activity \in [Run -> {"none", "sent", "active", "done", "failed"}]
    /\ tool \in [Run -> {"none", "asked", "acting", "process"}]
    /\ worker \in [Worker -> WorkerState]
    /\ slot \in {0} \cup Worker
    /\ holder \in Call \cup Duty \cup {"none"}
    /\ upkeep \in [at : {"idle", "lock", "asking", "stopping", "draining",
                         "working", "purging"},
                   round : {1, 2}]
    /\ strays \subseteq Worker
    /\ closer \in {"open", "lock", "asking", "stopping", "closed"}

Init ==
    /\ call = [c \in Call |-> [at |-> "new", on |-> 0]]
    /\ reply = [c \in Run |-> "none"]
    /\ registered = {} /\ revoked = {} /\ cancelling = {}
    /\ activity = [c \in Run |-> "none"]
    /\ tool = [c \in Run |-> "none"]
    /\ worker = [w \in Worker |-> Unborn]
    /\ slot = 0
    /\ holder = "none"
    /\ upkeep = [at |-> "idle", round |-> 1]
    /\ strays = {}
    /\ closer = "open"

-----------------------------------------------------------------------------
(***************************************************************************)
(* Helpers.                                                                *)
(***************************************************************************)
At(c, place)   == call[c].at = place
Goes(c, place) == call' = [call EXCEPT ![c].at = place]
Of(c)          == worker[call[c].on]
On(w)          == {c \in registered : call[c].on = w}
Usable(w)      == worker[w].alive /\ worker[w].initialized /\ ~worker[w].stop
Paused         == upkeep.at # "idle"
Fresh(w)       == \A v \in Worker : worker[v].node = "none" <=> v >= w

\* The workers that are there, with what they started.
Live == {w \in Worker : worker[w].node # "none" /\ ~worker[w].exited}

\* Who is inside the lifecycle's read lock.
Permitted == {c \in Run \cup Query : call[c].at \notin {"new", "over"}}

\* Connection::fail: what waits is refused, what acts loses its authority; once.
Failing(w) ==
    IF worker[w].alive
    THEN /\ reply' = [c \in Run |-> IF c \in On(w) /\ reply[c] = "none" THEN "error" ELSE reply[c]]
         /\ revoked' = revoked \cup (On(w) \cap Run)
    ELSE UNCHANGED <<reply, revoked>>

\* The callbacks of a connection are tasks of its reader.
CallbacksEnd(w) ==
    tool' = [c \in Run |-> IF call[c].on = w /\ tool[c] \in {"asked", "acting"} THEN "none" ELSE tool[c]]

\* Connection::finish, and the end of the call: the tables forget the request, and what
\* the worker still makes of it is ignored.
Ends(c) ==
    /\ Goes(c, "over")
    /\ registered' = registered \ {c}
    /\ revoked' = revoked \ {c}
    /\ UNCHANGED cancelling
    /\ IF c \in Run
       THEN reply' = [reply EXCEPT ![c] = "none"] /\ activity' = [activity EXCEPT ![c] = "none"]
       ELSE UNCHANGED <<reply, activity>>

Continues == UNCHANGED <<tables, activity>>

-----------------------------------------------------------------------------
(***************************************************************************)
(* Host::connection, and how a call gets there.                            *)
(***************************************************************************)

\* AgentAuthorityLifecycle::read.  The flag is looked at again with the lock held,
\* so a call that is admitted is inside the lock before a maintenance begins.  The
\* calls of a sign-in come past both.
Admit(c) ==
    /\ At(c, "new")
    /\ Paused => c \in SignIn
    /\ Cardinality({d \in Call : ~At(d, "new")}) < MaxCalls
    /\ Goes(c, "admitted")
    /\ UNCHANGED <<tables, activity, tool, worker, slot, holder, duties>>

RefuseClosed(c) ==
    /\ At(c, "admitted") /\ holder = "none"
    /\ closer # "open"
    /\ Goes(c, "over")
    /\ UNCHANGED <<tables, activity, tool, worker, slot, holder, duties>>

Reuse(c) ==
    /\ At(c, "admitted") /\ holder = "none"
    /\ closer = "open"
    /\ slot # 0 /\ Usable(slot)
    /\ call' = [call EXCEPT ![c] = [at |-> "connected", on |-> slot]]
    /\ UNCHANGED <<tables, activity, tool, worker, slot, holder, duties>>

Replace(c) ==
    /\ At(c, "admitted") /\ holder = "none"
    /\ closer = "open"
    /\ slot # 0 /\ ~Usable(slot)
    /\ holder' = c
    /\ worker' = [worker EXCEPT ![slot].stop = TRUE]
    /\ Goes(c, "replacing")
    /\ UNCHANGED <<tables, activity, tool, slot, duties>>

\* The place is free: at once, or when the worker that was there has exited.
Vacant(c) ==
    \/ At(c, "admitted") /\ holder = "none" /\ closer = "open" /\ slot = 0
    \/ At(c, "replacing") /\ worker[slot].exited

Spawn(c) ==
    /\ Vacant(c)
    /\ holder' = c
    /\ \E w \in Worker :
          /\ Fresh(w)
          /\ worker' = [worker EXCEPT ![w] = Spawned]
          /\ slot' = w
          /\ strays' = IF Paused /\ c \in SignIn THEN strays \cup {w} ELSE strays
    /\ Goes(c, "initializing")
    /\ UNCHANGED <<tables, activity, tool, upkeep, closer>>

SpawnFails(c) ==
    /\ Vacant(c)
    /\ holder' = "none"
    /\ slot' = 0
    /\ Goes(c, "over")
    /\ UNCHANGED <<tables, activity, tool, worker, duties>>

Initialized(c) ==
    /\ At(c, "initializing")
    /\ worker[slot].alive
    /\ worker' = [worker EXCEPT ![slot].initialized = TRUE]
    /\ holder' = "none"
    /\ call' = [call EXCEPT ![c] = [at |-> "connected", on |-> slot]]
    /\ UNCHANGED <<tables, activity, tool, slot, duties>>

\* An error, an answer of another protocol, or the deadline.
InitializeFails(c) ==
    /\ At(c, "initializing")
    /\ worker' = [worker EXCEPT ![slot].stop = TRUE]
    /\ Goes(c, "discarding")
    /\ UNCHANGED <<tables, activity, tool, slot, holder, duties>>

Discard(c) ==
    /\ At(c, "discarding")
    /\ worker[slot].exited
    /\ slot' = 0
    /\ holder' = "none"
    /\ Goes(c, "over")
    /\ UNCHANGED <<tables, activity, tool, worker, duties>>

\* The caller goes away: the guard of start_connection stops the worker, the mutex is
\* released, and the connection stays for the next one to replace.
Leave(c) ==
    /\ \/ At(c, "admitted") /\ UNCHANGED <<worker, holder>>
       \/ At(c, "connected") /\ UNCHANGED <<worker, holder>>
       \/ /\ call[c].at \in {"replacing", "initializing", "discarding"}
          /\ worker' = [worker EXCEPT ![slot].stop = TRUE]
          /\ holder' = "none"
    /\ Goes(c, "over")
    /\ UNCHANGED <<tables, activity, tool, slot, duties>>

-----------------------------------------------------------------------------
(***************************************************************************)
(* A request: Connection::begin, its answer, its abort.                    *)
(***************************************************************************)

\* With request_order held, which only one call has.
CheckAlive(c) ==
    /\ At(c, "connected")
    /\ \A other \in Call : ~(At(other, "checked") /\ call[other].on = call[c].on)
    /\ Goes(c, IF Of(c).alive THEN "checked" ELSE "over")
    /\ UNCHANGED <<tables, activity, tool, worker, slot, holder, duties>>

\* The connection may have failed since; what takes the message is still there.
Register(c) ==
    /\ At(c, "checked")
    /\ ~Of(c).exited
    /\ registered' = registered \cup {c}
    /\ activity' = IF c \in Run THEN [activity EXCEPT ![c] = "sent"] ELSE activity
    /\ Goes(c, "waiting")
    /\ UNCHANGED <<reply, revoked, cancelling, tool, worker, slot, holder, duties>>

\* Too much is pending, or the message is too long or does not leave in time.
NotSent(c) ==
    /\ At(c, "checked")
    /\ Goes(c, "over")
    /\ UNCHANGED <<tables, activity, tool, worker, slot, holder, duties>>

\* Connection::call: whatever the answer, or none before the deadline, the call is over.
EndCall(c) ==
    /\ c \notin Run /\ At(c, "waiting")
    /\ Ends(c)
    /\ UNCHANGED <<tool, worker, slot, holder, duties>>

\* Mutant: a run that is refused ends without the abort of what it has left.
TakeReplyUnaborted(c) ==
    /\ c \in Run /\ At(c, "waiting")
    /\ reply[c] # "none"
    /\ Ends(c)
    /\ UNCHANGED <<tool, worker, slot, holder, duties>>

\* A reply of a worker that has failed since is kept until the worker is gone.
TakeReply(c) ==
    /\ c \in Run /\ At(c, "waiting")
    /\ \/ reply[c] = "error" /\ Goes(c, "aborting") /\ Continues /\ UNCHANGED worker
       \/ reply[c] = "ok" /\ Of(c).alive /\ Ends(c) /\ UNCHANGED worker
       \/ reply[c] = "ok" /\ ~Of(c).alive /\ Goes(c, "reaping") /\ Continues
          /\ worker' = [worker EXCEPT ![call[c].on].stop = TRUE]
    /\ UNCHANGED <<tool, slot, holder, duties>>

\* The deadline, a cancellation, or a caller that goes away.
GiveUp(c) ==
    /\ c \in Run /\ At(c, "waiting")
    /\ Goes(c, "aborting") /\ Continues
    /\ UNCHANGED <<tool, worker, slot, holder, duties>>

\* Connection::abort: the authority goes first, then the worker is told.
SendAbort(c) ==
    /\ At(c, "aborting")
    /\ revoked' = revoked \cup {c}
    /\ IF Of(c).alive
       THEN Goes(c, "abort_sent") /\ UNCHANGED worker
       ELSE Goes(c, "reaping") /\ worker' = [worker EXCEPT ![call[c].on].stop = TRUE]
    /\ UNCHANGED <<reply, registered, cancelling, activity, tool, slot, holder, duties>>

AbortAnswered(c) ==
    /\ At(c, "abort_sent")
    /\ Of(c).node = "running" /\ Of(c).alive /\ Of(c).reading
    /\ activity[c] \in {"done", "failed"}
    /\ Ends(c)
    /\ UNCHANGED <<tool, worker, slot, holder, duties>>

\* Mutant: a worker that does not answer the abort is not told to stop.
AbortFailsQuietly(c) ==
    /\ At(c, "abort_sent")
    /\ Goes(c, "reaping")
    /\ UNCHANGED <<tables, activity, tool, worker, slot, holder, duties>>

AbortFails(c) ==
    /\ At(c, "abort_sent")
    /\ worker' = [worker EXCEPT ![call[c].on].stop = TRUE]
    /\ Goes(c, "reaping")
    /\ UNCHANGED <<tables, activity, tool, slot, holder, duties>>

Reaped(c) ==
    /\ At(c, "reaping")
    /\ Of(c).exited
    /\ Ends(c)
    /\ UNCHANGED <<tool, worker, slot, holder, duties>>

\* Host::cancel_run, from outside the call.
CancelRun(c) ==
    /\ holder = "none" /\ slot # 0
    /\ \/ /\ ~Usable(slot)
          /\ worker' = [worker EXCEPT ![slot].stop = TRUE]
          /\ UNCHANGED <<revoked, cancelling>>
       \/ /\ Usable(slot) /\ c \in On(slot)
          /\ revoked' = revoked \cup {c}
          /\ cancelling' = cancelling \cup {c}
          /\ UNCHANGED worker
    /\ UNCHANGED <<call, reply, registered, activity, tool, slot, holder, duties>>

CancelEnds(c) ==
    /\ c \in cancelling
    /\ cancelling' = cancelling \ {c}
    /\ \/ activity[c] \in {"none", "done", "failed"} /\ UNCHANGED worker
       \/ worker' = [worker EXCEPT ![call[c].on].stop = TRUE]
    /\ UNCHANGED <<call, reply, registered, revoked, activity, tool, slot, holder, duties>>

-----------------------------------------------------------------------------
(***************************************************************************)
(* The worker, its callbacks and processes.                                *)
(***************************************************************************)
Receive(c) ==
    /\ activity[c] = "sent"
    /\ Of(c).node = "running"
    /\ activity' = [activity EXCEPT ![c] = "active"]
    /\ UNCHANGED <<call, tables, tool, worker, slot, holder, duties>>

\* A tool waits for its callback and for its process; the activity waits for the tool.
Settle(c) ==
    /\ activity[c] = "active"
    /\ Of(c).node = "running"
    /\ tool[c] = "none"
    /\ activity' = [activity EXCEPT ![c] = "done"]
    /\ UNCHANGED <<call, tables, tool, worker, slot, holder, duties>>

Refuse(c) ==
    /\ activity[c] = "sent"
    /\ Of(c).node = "running"
    /\ activity' = [activity EXCEPT ![c] = "failed"]
    /\ UNCHANGED <<call, tables, tool, worker, slot, holder, duties>>

\* Connection::resolve.
Resolve(c) ==
    /\ c \in registered /\ reply[c] = "none"
    /\ Of(c).reading
    /\ \/ activity[c] = "done" /\ \E outcome \in {"ok", "error"} : reply' = [reply EXCEPT ![c] = outcome]
       \/ activity[c] = "failed" /\ reply' = [reply EXCEPT ![c] = "error"]
    /\ UNCHANGED <<call, registered, revoked, cancelling, activity, tool, worker, slot, holder, duties>>

\* The consumer of a chat is full: the reader answers for the worker and aborts it.
FallBehind(c) ==
    /\ c \in registered /\ reply[c] = "none"
    /\ Of(c).reading /\ activity[c] = "active"
    /\ reply' = [reply EXCEPT ![c] = "error"]
    /\ revoked' = revoked \cup {c}
    /\ cancelling' = cancelling \cup {c}
    /\ UNCHANGED <<call, registered, activity, tool, worker, slot, holder, duties>>

Ask(c) ==
    /\ activity[c] = "active" /\ tool[c] = "none"
    /\ Of(c).node = "running" /\ Of(c).reading
    /\ tool' = [tool EXCEPT ![c] = "asked"]
    /\ UNCHANGED <<call, tables, activity, worker, slot, holder, duties>>

\* DomainBridge::invoke, up to what it does: the authority is looked up by the request,
\* and a process is started only while its owner is not stopping.
Invoke(c) ==
    /\ tool[c] = "asked"
    /\ \/ c \in registered \ revoked /\ tool' = [tool EXCEPT ![c] = "acting"]
       \/ c \in registered \ revoked /\ ~Of(c).stop /\ tool' = [tool EXCEPT ![c] = "process"]
       \/ (c \notin registered \ revoked \/ Of(c).stop) /\ tool' = [tool EXCEPT ![c] = "none"]
    /\ UNCHANGED <<call, tables, activity, worker, slot, holder, duties>>

ToolEnds(c) ==
    /\ tool[c] = "acting"
    /\ tool' = [tool EXCEPT ![c] = "none"]
    /\ UNCHANGED <<call, tables, activity, worker, slot, holder, duties>>

\* By itself, or terminated with its run or with its owner.
ProcessEnds(c) ==
    /\ tool[c] = "process"
    /\ tool' = [tool EXCEPT ![c] = "none"]
    /\ UNCHANGED <<call, tables, activity, worker, slot, holder, duties>>

\* A worker that ends with a fault refuses what it has; the reader finds that later.
Fault(w) ==
    /\ worker[w].node = "running"
    /\ worker' = [worker EXCEPT ![w].node = "exited"]
    /\ activity' = [c \in Run |-> IF call[c].on = w /\ activity[c] \in {"sent", "active"}
                                    THEN "failed" ELSE activity[c]]
    /\ UNCHANGED <<call, tables, tool, slot, holder, duties>>

Die(w) ==
    /\ worker[w].node = "running"
    /\ worker' = [worker EXCEPT ![w].node = "exited"]
    /\ UNCHANGED <<call, tables, activity, tool, slot, holder, duties>>

\* Connection::read stops: the output has ended, or what it holds is no message.
ReaderEnds(w) ==
    /\ worker[w].reading
    /\ Failing(w)
    /\ CallbacksEnd(w)
    /\ worker' = [worker EXCEPT ![w].reading = FALSE, ![w].alive = FALSE, ![w].stop = TRUE]
    /\ UNCHANGED <<call, registered, cancelling, activity, slot, holder, duties>>

WriterFails(w) ==
    /\ worker[w].alive
    /\ Failing(w)
    /\ worker' = [worker EXCEPT ![w].alive = FALSE, ![w].stop = TRUE]
    /\ UNCHANGED <<call, registered, cancelling, activity, tool, slot, holder, duties>>

\* The monitor of Connection::spawn: processes first, then the tables, then the tasks.
StopProcesses(w) ==
    /\ worker[w].node = "exited" /\ ~worker[w].stop
    /\ worker' = [worker EXCEPT ![w].stop = TRUE]
    /\ UNCHANGED <<call, tables, activity, tool, slot, holder, duties>>

Exit(w) ==
    /\ worker[w].node = "exited" /\ worker[w].stop /\ ~worker[w].exited
    /\ \A c \in Run : ~(call[c].on = w /\ tool[c] = "process")
    /\ Failing(w)
    /\ CallbacksEnd(w)
    /\ worker' = [worker EXCEPT ![w] = Gone]
    /\ UNCHANGED <<call, registered, cancelling, activity, slot, holder, duties>>

-----------------------------------------------------------------------------
(***************************************************************************)
(* Host::shutdown, for maintenance and for the end of the daemon.          *)
(***************************************************************************)
Place(d) == IF d = "upkeep" THEN upkeep.at ELSE closer

Moves(d, place) ==
    IF d = "upkeep"
    THEN upkeep' = [upkeep EXCEPT !.at = place] /\ UNCHANGED <<strays, closer>>
    ELSE closer' = place /\ UNCHANGED <<upkeep, strays>>

AfterShutdown(d) == IF d = "upkeep" THEN "draining" ELSE "closed"

BeginShutdown(d) ==
    /\ Place(d) = "lock" /\ holder = "none"
    /\ IF slot = 0
       THEN Moves(d, AfterShutdown(d)) /\ UNCHANGED <<revoked, holder>>
       ELSE Moves(d, "asking") /\ holder' = d /\ revoked' = revoked \cup (On(slot) \cap Run)
    /\ UNCHANGED <<call, reply, registered, cancelling, activity, tool, worker, slot>>

\* The worker answered, or did not in time.
AskedShutdown(d) ==
    /\ Place(d) = "asking"
    /\ worker' = [worker EXCEPT ![slot].stop = TRUE]
    /\ Moves(d, "stopping")
    /\ UNCHANGED <<call, tables, activity, tool, slot, holder>>

EndShutdown(d) ==
    /\ Place(d) = "stopping"
    /\ worker[slot].exited
    /\ slot' = 0
    /\ holder' = "none"
    /\ Moves(d, AfterShutdown(d))
    /\ UNCHANGED <<call, tables, activity, tool, worker>>

\* Host::close.  Bound: no maintenance is going on, or begins afterwards; the two would
\* take turns with the mutex.
Close ==
    /\ closer = "open" /\ ~Paused
    /\ closer' = "lock"
    /\ UNCHANGED <<call, tables, activity, tool, worker, slot, holder, upkeep, strays>>

\* A backup, an export or a purge.  Turns and background work are excluded by the
\* admission and by personal_data_lifecycle; an abort they left may go on.
BeginUpkeep ==
    /\ upkeep.at = "idle" /\ closer = "open"
    /\ \A c \in Run : call[c].at \in {"new", "aborting", "abort_sent", "reaping", "over"}
    /\ upkeep' = [at |-> "lock", round |-> 1]
    /\ strays' = {}
    /\ UNCHANGED <<call, tables, activity, tool, worker, slot, holder, closer>>

\* The write lock, once everybody has left.
Drained ==
    /\ upkeep.at = "draining"
    /\ Permitted = {}
    /\ upkeep' = [upkeep EXCEPT !.at = IF upkeep.round = 1 THEN "working" ELSE "purging"]
    /\ UNCHANGED <<call, tables, activity, tool, worker, slot, holder, strays, closer>>

\* Mutant: the sessions are deleted without the second shutdown.
PurgeSessionsAtOnce ==
    /\ upkeep.at = "working"
    /\ upkeep' = [at |-> "draining", round |-> 2]
    /\ strays' = {}
    /\ UNCHANGED <<call, tables, activity, tool, worker, slot, holder, closer>>

\* A purge shuts the agent down once more before it deletes the sessions.
PurgeSessions ==
    /\ upkeep.at = "working"
    /\ upkeep' = [at |-> "lock", round |-> 2]
    /\ strays' = {}
    /\ UNCHANGED <<call, tables, activity, tool, worker, slot, holder, closer>>

EndUpkeep ==
    /\ upkeep.at \in {"working", "purging"}
    /\ upkeep' = [at |-> "idle", round |-> 1]
    /\ UNCHANGED <<call, tables, activity, tool, worker, slot, holder, strays, closer>>

\* An error or the deadline of the whole.  The guard of shutdown stops the worker.
AbandonUpkeep ==
    /\ upkeep.at # "idle"
    /\ upkeep' = [at |-> "idle", round |-> 1]
    /\ IF upkeep.at \in {"asking", "stopping"}
       THEN holder' = "none" /\ worker' = [worker EXCEPT ![slot].stop = TRUE]
       ELSE UNCHANGED <<holder, worker>>
    /\ UNCHANGED <<call, tables, activity, tool, slot, strays, closer>>

-----------------------------------------------------------------------------
Locking(c)    == RefuseClosed(c) \/ Reuse(c) \/ Replace(c) \/ (At(c, "admitted") /\ (Spawn(c) \/ SpawnFails(c)))
Connecting(c) ==
    \/ (At(c, "replacing") /\ (Spawn(c) \/ SpawnFails(c)))
    \/ Initialized(c) \/ InitializeFails(c) \/ Discard(c)
Requesting(c) ==
    \/ CheckAlive(c) \/ Register(c) \/ NotSent(c) \/ EndCall(c) \/ TakeReply(c) \/ GiveUp(c)
    \/ SendAbort(c) \/ AbortAnswered(c) \/ AbortFails(c) \/ Reaped(c)
Working(c)    == Receive(c) \/ Settle(c) \/ Refuse(c) \/ Resolve(c)
Acting(c)     == FallBehind(c) \/ Ask(c) \/ Invoke(c) \/ ToolEnds(c) \/ ProcessEnds(c)
Failure(w)    == Fault(w) \/ Die(w) \/ ReaderEnds(w) \/ WriterFails(w)
Monitor(w)    == StopProcesses(w) \/ Exit(w)
Shutdown(d)   == BeginShutdown(d) \/ AskedShutdown(d) \/ EndShutdown(d)
Upkeep        ==
    BeginUpkeep \/ Drained \/ PurgeSessions \/ EndUpkeep \/ AbandonUpkeep

Next ==
    \/ \E c \in Call :
          Admit(c) \/ Locking(c) \/ Connecting(c) \/ Leave(c)
             \/ Requesting(c)
    \/ \E c \in Run : Working(c) \/ CancelRun(c) \/ CancelEnds(c) \/ Acting(c)
    \/ \E w \in Worker : Failure(w) \/ Monitor(w)
    \/ \E d \in Duty : Shutdown(d)
    \/ Close \/ Upkeep

Spec == Init /\ [][Next]_vars

\* Tasks go on, deadlines pass, and the mutex of the host is handed out in order.  A
\* worker that is told to stop is killed in the end, and so is a process.  Nothing is
\* assumed of a worker that is not.
Fairness ==
    /\ \A c \in Call : SF_vars(Locking(c)) /\ WF_vars(Connecting(c) \/ Requesting(c))
    /\ \A c \in Run : WF_vars(tool[c] = "process" /\ (c \in revoked \/ Of(c).stop) /\ ProcessEnds(c))
    /\ \A w \in Worker : WF_vars((worker[w].stop /\ Die(w)) \/ Monitor(w))
    /\ \A d \in Duty : WF_vars(AskedShutdown(d) \/ EndShutdown(d))
    /\ SF_vars(BeginShutdown("closer"))

FairSpec == Spec /\ Fairness

-----------------------------------------------------------------------------
(***************************************************************************)
(* Properties.                                                             *)
(***************************************************************************)
PhaseOf(c) ==
    IF At(c, "over") THEN "over"
    ELSE IF c \notin registered THEN "idle"
    ELSE IF c \in revoked THEN "stopped"
    ELSE "open"

Phase  == [c \in Call |-> PhaseOf(c)]
AtWork == {c \in Run : tool[c] \in {"acting", "process"}}

Contract == INSTANCE AgentContract WITH
    live   <- Live,
    phase  <- Phase,
    acting <- AtWork,
    shut   <- closer = "closed"

\* Whatever dies, is aborted, replaced or shut down, and in whatever order: one worker at
\* a time, none after the shutdown, and nothing acts for a run that was told to stop
\* since, or that has ended.
KeepsAgent == Contract!Spec

\* While the data of the owner are copied or deleted nothing acts for a run, and when a
\* purge deletes the sessions of the agent no worker has them open that it could have
\* stopped: one that a call restarted between the two shutdowns is gone, and what is
\* there was started by a sign-in after the second began.
PurgeFindsOnlyStrays ==
    /\ upkeep.at \in {"working", "purging"} => AtWork = {}
    /\ upkeep.at = "purging" => Live \subseteq strays

\* Every call that was admitted ends, although its worker may hang, die with the request
\* half registered, or be replaced meanwhile; and the shutdown of the daemon ends.  A call
\* that is over stays so and is made once: none stays on its way if again and again
\* none is.
CallsEnd ==
    []<>(/\ \A c \in Call : call[c].at \in {"new", "over"}
         /\ closer \in {"open", "closed"})
=============================================================================
