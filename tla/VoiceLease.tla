----------------------------- MODULE VoiceLease -----------------------------
(***************************************************************************)
(* The voice lease of the body gateway (body/gateway.rs) and the socket    *)
(* handlers that drive it (body/handlers.rs): bodies and the speech        *)
(* adapter connect, are replaced and leave; one body at a time is granted  *)
(* the lease, captures, is transcribed, has its turn run and spoken, and   *)
(* the lease is released in several awaited steps that end with the        *)
(* terminal "idle" for the body.                                           *)
(*                                                                         *)
(* A step is what the code does under one hold of the state lock, or one   *)
(* awaited send.  What a task does between two such steps is kept as       *)
(* explicit state: the request being granted, that some task has read the  *)
(* route of the lease and is about to pass it to release_route, the stage  *)
(* a release has reached, the send gate of a connection.  A call that      *)
(* finds nothing of its own left to do (a denied request, a second         *)
(* release_route) is not a step.                                           *)
(*                                                                         *)
(* Leases and connection generations are numbered in the order they are    *)
(* made, up to a bound.  Time is abstract: an expiry watcher may find its  *)
(* deadline passed at any moment; every deadline is capped by the hard     *)
(* deadline of the lease, so it is found passed in the end.  The audio of  *)
(* a turn is one stream that is opened, closed and drained; the flushes    *)
(* that send its frames, and their credit, are the module PlaybackCredit.  *)
(***************************************************************************)
EXTENDS Naturals, FiniteSets

CONSTANTS
    Device,          \* enrolled bodies
    MaxGenerations,  \* bound: connections bodies make
    MaxLeases        \* bound: leases granted

ASSUME BoundsAssumption ==
    /\ MaxGenerations \in Nat \ {0}
    /\ MaxLeases \in Nat \ {0}
    /\ "none" \notin Device

VARIABLES
    peer,        \* generation -> who it was given to
    socket,      \* generation -> where its handler stands
    body,        \* device -> generation of its registered connection, 0 if none
    adapter,     \* a speech adapter is registered
    request,     \* the capture request that holds lease_grants
    lease,       \* the lease slot
    owed,        \* some task is about to release the lease in use
    stage,       \* the step the release of the current lease has reached
    route,       \* lease -> the connection generation it was granted to
    turn,        \* lease -> the task that runs its turn
    gate,        \* generation -> the lease whose close holds its send gate, 0 if free
    told         \* lease -> what its body has heard

vars == <<peer, socket, body, adapter, request, lease, owed, stage,
          route, turn, gate, told>>

Generation == 1 .. MaxGenerations
LeaseId    == 1 .. MaxLeases
Trigger    == {"action_button", "wake_word"}
Phase      == {"woken", "granted", "capturing", "transcribing", "generating", "playing",
               "draining", "releasing"}
NoLease    == [id |-> 0]
NoRequest  == [by |-> 0]

\* What the body has heard of a lease it was granted: nothing yet, its speaker
\* stream opened, then closed, and the "idle" that ends the turn.
Told == {"granted", "open", "closed", "idle"}

Lease ==
    [id : LeaseId, device : Device, generation : Generation,
     phase : Phase,        \* "woken" is Granted to a wake word
     direct   : BOOLEAN,   \* stt_stream is some: the daemon itself recognizes
     watched  : BOOLEAN,   \* its expiry task runs
     complete : BOOLEAN,   \* generation_complete
     playback : {"none", "unopened", "open", "closing", "close_sent", "drained"}]

TypeOK ==
    /\ peer \in [Generation -> Device \cup {"none"}]
    /\ socket \in [Generation -> {"none", "open", "closing", "closed"}]
    /\ body \in [Device -> 0 .. MaxGenerations]
    /\ adapter \in BOOLEAN
    /\ request \in {NoRequest} \cup
          [by : Generation, at : {"preempting", "granted"}]
    /\ lease \in {NoLease} \cup Lease
    /\ owed \in BOOLEAN
    /\ stage \in {"none", "turn", "idle", "finish"}
    /\ route \in [LeaseId -> 0 .. MaxGenerations]
    /\ turn \in [LeaseId -> {"none", "started", "running", "aborted"}]
    /\ gate \in [Generation -> 0 .. MaxLeases]
    /\ told \in [LeaseId -> Told]

Init ==
    /\ peer = [g \in Generation |-> "none"]
    /\ socket = [g \in Generation |-> "none"]
    /\ body = [d \in Device |-> 0]
    /\ adapter = FALSE
    /\ request = NoRequest
    /\ lease = NoLease
    /\ owed = FALSE
    /\ stage = "none"
    /\ route = [l \in LeaseId |-> 0]
    /\ turn = [l \in LeaseId |-> "none"]
    /\ gate = [g \in Generation |-> 0]
    /\ told = [l \in LeaseId |-> "granted"]

-----------------------------------------------------------------------------
(***************************************************************************)
(* What the state lock shows.                                              *)
(***************************************************************************)
NextGeneration == Cardinality({g \in Generation : peer[g] # "none"}) + 1

LastLease == Cardinality({l \in LeaseId : route[l] # 0})

Current(g) == peer[g] \in Device /\ body[peer[g]] = g

Routable(l) == lease.id = l /\ lease.phase # "releasing"

\* A device holds the lease through one of these connections.
Holds(d, gs) == \E l \in LeaseId :
    Routable(l) /\ lease.device = d /\ lease.generation \in gs

\* The handler of a connection reads its next message: its request is answered
\* and the release of the lease of the connection it replaced has begun.
Reading(g) ==
    /\ socket[g] = "open"
    /\ request.by # g
    /\ ~(owed /\ Holds(peer[g], 1 .. g - 1))

\* The first caller of release_route begins the release, which aborts the
\* expiry watcher and the turn; the others find nothing to do.
BeginRelease ==
    /\ lease' = [lease EXCEPT !.phase = "releasing", !.watched = FALSE]
    /\ turn' = [turn EXCEPT ![lease.id] = IF @ = "running" THEN "aborted" ELSE @]
    /\ stage' = "turn"
    /\ owed' = FALSE

-----------------------------------------------------------------------------
(***************************************************************************)
(* Connections.                                                            *)
(***************************************************************************)

\* A body registers; a connection it already had is replaced at once, and the
\* lease of that connection is the new handler's to release.
RegisterBody(d) ==
    LET g == NextGeneration IN
    /\ g \in Generation
    /\ peer' = [peer EXCEPT ![g] = d]
    /\ socket' = [socket EXCEPT ![g] = "open"]
    /\ body' = [body EXCEPT ![d] = g]
    /\ owed' = (owed \/ Holds(d, {body[d]}))
    /\ UNCHANGED <<adapter, request, lease, stage, route, turn, gate, told>>

\* A handler ends: its peer closes or falls silent, a message is malformed or
\* too late, the connection was cancelled because it was replaced or revoked,
\* or it has given up ("closing").  It takes its lease with it.
UnregisterBody(g) ==
    /\ Reading(g) \/ socket[g] = "closing"
    /\ socket' = [socket EXCEPT ![g] = "closed"]
    /\ body' = IF Current(g) THEN [body EXCEPT ![peer[g]] = 0] ELSE body
    /\ owed' = (owed \/ (Current(g) /\ Holds(peer[g], {g})))
    /\ UNCHANGED <<peer, adapter, request, lease, stage, route, turn, gate, told>>

\* The owner revokes a body.  Its handler is cancelled and ends by itself.
RevokeEndpoint(d) ==
    /\ body[d] # 0 \/ Holds(d, Generation)
    /\ body' = [body EXCEPT ![d] = 0]
    /\ owed' = (owed \/ Holds(d, Generation))
    /\ UNCHANGED <<peer, socket, adapter, request, lease, stage, route, turn,
                   gate, told>>

RegisterAdapter ==
    /\ ~adapter
    /\ adapter' = TRUE
    /\ UNCHANGED <<peer, socket, body, request, lease, owed, stage, route,
                   turn, gate, told>>

\* A lease whose speech the daemon recognizes itself does not need the adapter.
UnregisterAdapter ==
    /\ adapter
    /\ adapter' = FALSE
    /\ owed' = (owed \/ \E l \in LeaseId : Routable(l) /\ ~lease.direct)
    /\ UNCHANGED <<peer, socket, body, request, lease, stage, route, turn,
                   gate, told>>

-----------------------------------------------------------------------------
(***************************************************************************)
(* The grant.  One request at a time holds lease_grants.                   *)
(***************************************************************************)

\* The lease is made under the same hold of the lock that finds the slot empty,
\* the connection current and an engine there, and takes the channel's
\* admission with it.
AcquireLease(g, t, direct) ==
    LET l == LastLease + 1 IN
    /\ lease = NoLease
    /\ l \in LeaseId
    /\ Current(g)
    /\ direct \/ adapter
    /\ lease' = [id |-> l, device |-> peer[g], generation |-> g,
                 phase |-> IF t = "wake_word" THEN "woken" ELSE "granted",
                 direct |-> direct, watched |-> FALSE, complete |-> FALSE,
                 playback |-> "none"]
    /\ route' = [route EXCEPT ![l] = g]
    /\ request' = [by |-> g, at |-> "granted"]
    /\ UNCHANGED <<peer, socket, body, adapter, owed, stage, turn, gate, told>>

\* A free lease is granted; a button takes it from a wake word that has not
\* begun to capture and waits for its release.  A request that is denied
\* changes nothing.
RequestCapture(g, t) ==
    /\ Reading(g)
    /\ request = NoRequest
    /\ Current(g)
    /\ \/ \E direct \in BOOLEAN : AcquireLease(g, t, direct)
       \/ /\ lease # NoLease
          /\ t = "action_button"
          /\ lease.phase = "woken"
          /\ BeginRelease
          /\ request' = [by |-> g, at |-> "preempting"]
          /\ UNCHANGED <<peer, socket, body, adapter, route, gate, told>>

\* The preempted lease has been released in full.  The request may still be
\* denied: the connection was replaced, no speech engine is left, or the turn
\* of the channel is not admitted.
GrantPreempted(granted) ==
    /\ request # NoRequest
    /\ request.at = "preempting"
    /\ lease = NoLease
    /\ IF granted
       THEN \E direct \in BOOLEAN : AcquireLease(request.by, "action_button", direct)
       ELSE /\ request' = NoRequest
            /\ UNCHANGED <<peer, socket, body, adapter, lease, owed, stage,
                           route, turn, gate, told>>

\* Mutant: the watcher is spawned before the lease is looked at, and lost.
SendGrantUnwatched(delivered) ==
    /\ request # NoRequest
    /\ request.at = "granted"
    /\ request' = NoRequest
    /\ socket' = IF delivered THEN socket
                 ELSE [socket EXCEPT ![request.by] = "closing"]
    /\ UNCHANGED <<peer, body, adapter, lease, owed, stage, route, turn, gate, told>>

\* The body is told outside the send gate; then the expiry watcher is spawned
\* and kept if the lease is still routable.  A failed send ends the connection.
SendGrant(delivered) ==
    LET l == LastLease IN
    /\ request # NoRequest
    /\ request.at = "granted"
    /\ request' = NoRequest
    /\ IF delivered
       THEN /\ lease' = IF Routable(l) THEN [lease EXCEPT !.watched = TRUE] ELSE lease
            /\ UNCHANGED socket
       ELSE /\ socket' = [socket EXCEPT ![request.by] = "closing"]
            /\ UNCHANGED lease
    /\ UNCHANGED <<peer, body, adapter, owed, stage, route, turn, gate, told>>

\* A step that ends with release_route for the lease in use.
Gives(l) ==
    /\ Routable(l)
    /\ ~owed
    /\ owed' = TRUE

\* The body cancels its request before it captures, or reports at any time that
\* its capture failed.
CancelCapture(l) ==
    /\ Gives(l)
    /\ Reading(lease.generation)
    /\ UNCHANGED <<peer, socket, body, adapter, request, lease, stage, route,
                   turn, gate, told>>

-----------------------------------------------------------------------------
(***************************************************************************)
(* Capture and transcript.                                                 *)
(***************************************************************************)

\* The stream goes to the daemon's own recognizer or to the adapter.  Without
\* an adapter, or when the recognizer cannot finish, the handler gives the
\* connection up; a failed send to the adapter releases the lease as well.
Forward(sent) ==
    IF sent /\ (lease.direct \/ adapter)
    THEN UNCHANGED <<socket, owed>>
    ELSE /\ socket' = [socket EXCEPT ![lease.generation] = "closing"]
         /\ owed' = (owed \/ (adapter /\ ~lease.direct))

OpenCapture(l, sent) ==
    /\ Routable(l)
    /\ lease.phase \in {"woken", "granted"}
    /\ lease.direct => sent
    /\ Reading(lease.generation)
    /\ lease' = [lease EXCEPT !.phase = "capturing"]
    /\ Forward(sent)
    /\ UNCHANGED <<peer, body, adapter, request, stage, route, turn, gate, told>>

CloseCapture(l, sent) ==
    /\ Routable(l)
    /\ lease.phase = "capturing"
    /\ Reading(lease.generation)
    /\ lease' = [lease EXCEPT !.phase = "transcribing"]
    /\ Forward(sent)
    /\ UNCHANGED <<peer, body, adapter, request, stage, route, turn, gate, told>>

\* A microphone frame the recognizer or the adapter fails on.
ForwardMicrophoneFails(l) ==
    /\ Gives(l)
    /\ lease.phase = "capturing"
    /\ Reading(lease.generation)
    /\ socket' = [socket EXCEPT ![lease.generation] = "closing"]
    /\ UNCHANGED <<peer, body, adapter, request, lease, stage, route, turn,
                   gate, told>>

\* The lease moves on and the task of the turn is spawned: it runs from here on,
\* before the lease knows it.  Without a voice to speak with there is no turn.
TranscriptFinal(l, voice) ==
    /\ Routable(l)
    /\ lease.phase = "transcribing"
    /\ lease.direct \/ adapter
    /\ lease' = [lease EXCEPT !.phase = "generating"]
    /\ turn' = [turn EXCEPT ![l] = IF voice THEN "started" ELSE "none"]
    /\ owed' = (owed \/ ~voice)
    /\ UNCHANGED <<peer, socket, body, adapter, request, stage, route, gate, told>>

TranscriptEmpty(l) ==
    /\ Gives(l)
    /\ lease.phase = "transcribing"
    /\ lease.direct \/ adapter
    /\ UNCHANGED <<peer, socket, body, adapter, request, lease, stage, route,
                   turn, gate, told>>

-----------------------------------------------------------------------------
(***************************************************************************)
(* The turn.                                                               *)
(***************************************************************************)

\* The lease takes the task's abort handle and completion, or the task is
\* aborted because the lease is no longer there to take them.
AttachTurn(l) ==
    /\ turn[l] = "started"
    /\ turn' = [turn EXCEPT ![l] = IF Routable(l) THEN "running" ELSE "none"]
    /\ UNCHANGED <<peer, socket, body, adapter, request, lease, owed, stage,
                   route, gate, told>>

\* A turn that was aborted is settled too; it has no lease to tell of its end.
SettleTurn(l) ==
    /\ turn[l] = "aborted"
    /\ turn' = [turn EXCEPT ![l] = "none"]
    /\ UNCHANGED <<peer, socket, body, adapter, request, lease, owed, stage,
                   route, gate, told>>

\* The turn returns, the task that joins it settles it and then says that it
\* has finished; a lease without playback is released on the spot.
TurnTaskFinished(l) ==
    /\ turn[l] = "running"
    /\ turn' = [turn EXCEPT ![l] = "none"]
    /\ lease' = [lease EXCEPT !.complete = TRUE]
    /\ owed' = (owed \/ lease.playback = "none")
    /\ UNCHANGED <<peer, socket, body, adapter, request, stage, route, gate, told>>

Speaking(l) == Routable(l) /\ turn[l] \in {"started", "running"}

\* The turn reports an error or is truncated, or its audio cannot be decoded,
\* queued or sent.
VoiceFails(l) ==
    /\ Speaking(l)
    /\ Gives(l)
    /\ UNCHANGED <<peer, socket, body, adapter, request, lease, stage, route,
                   turn, gate, told>>

-----------------------------------------------------------------------------
(***************************************************************************)
(* Playback.                                                               *)
(***************************************************************************)

QueueBodyPcm(l) ==
    /\ Speaking(l)
    /\ lease.phase = "generating"
    /\ lease.playback = "none"
    /\ lease' = [lease EXCEPT !.phase = "playing", !.playback = "unopened"]
    /\ UNCHANGED <<peer, socket, body, adapter, request, owed, stage, route,
                   turn, gate, told>>

\* The stream is opened under the send gate while the lease is routable; a
\* body that cannot be sent the open loses the lease.
OpenBodyPlayback(l, sent) ==
    /\ Speaking(l)
    /\ lease.playback = "unopened"
    /\ IF sent
       THEN /\ Current(lease.generation)
            /\ gate[lease.generation] = 0
            /\ lease' = [lease EXCEPT !.playback = "open"]
            /\ told' = [told EXCEPT ![l] = "open"]
            /\ UNCHANGED owed
       ELSE /\ Gives(l)
            /\ UNCHANGED <<lease, told>>
    /\ UNCHANGED <<peer, socket, body, adapter, request, stage, route, turn, gate>>

MarkTtsEnd(l) ==
    /\ Speaking(l)
    /\ lease.playback = "open"
    /\ lease' = [lease EXCEPT !.playback = "closing"]
    /\ UNCHANGED <<peer, socket, body, adapter, request, owed, stage, route,
                   turn, gate, told>>

\* The flush that empties the backlog takes the gate, notes the close as sent
\* and then sends it.
FlushPlayback(l) ==
    LET g == lease.generation IN
    /\ Routable(l)
    /\ lease.playback = "closing"
    /\ Current(g)
    /\ gate[g] = 0
    /\ gate' = [gate EXCEPT ![g] = l]
    /\ lease' = [lease EXCEPT !.phase = "draining", !.playback = "close_sent"]
    /\ UNCHANGED <<peer, socket, body, adapter, request, owed, stage, route,
                   turn, told>>

FlushSends(g, sent) ==
    LET l == gate[g] IN
    /\ gate[g] # 0
    /\ gate' = [gate EXCEPT ![g] = 0]
    /\ told' = IF sent THEN [told EXCEPT ![l] = "closed"] ELSE told
    /\ owed' = (owed \/ (~sent /\ Routable(l)))
    /\ UNCHANGED <<peer, socket, body, adapter, request, lease, stage, route, turn>>

\* The body has played everything it was sent.
PlaybackDrained(l) ==
    /\ Routable(l)
    /\ lease.playback = "close_sent"
    /\ Reading(lease.generation)
    /\ told[l] = "closed"
    /\ lease' = [lease EXCEPT !.playback = "drained"]
    /\ UNCHANGED <<peer, socket, body, adapter, request, owed, stage, route,
                   turn, gate, told>>

PlaybackFailed(l) ==
    /\ Gives(l)
    /\ lease.playback \notin {"none", "unopened"}
    /\ Reading(lease.generation)
    /\ UNCHANGED <<peer, socket, body, adapter, request, lease, stage, route,
                   turn, gate, told>>

\* Whichever comes last, the drained stream or the finished turn, releases.
ReleaseIfDrained(l) ==
    /\ Gives(l)
    /\ lease.complete
    /\ lease.playback = "drained"
    /\ UNCHANGED <<peer, socket, body, adapter, request, lease, stage, route,
                   turn, gate, told>>

-----------------------------------------------------------------------------
(***************************************************************************)
(* Expiry and release.                                                     *)
(***************************************************************************)

\* Mutant: the watcher goes without releasing the lease.
WatcherGivesUp(l) ==
    /\ Routable(l)
    /\ lease.watched
    /\ lease' = [lease EXCEPT !.watched = FALSE]
    /\ UNCHANGED <<peer, socket, body, adapter, request, owed, stage, route, turn,
                   gate, told>>

\* The watcher finds the deadline passed, and is gone.
WatchLeaseExpiry(l) ==
    /\ Routable(l)
    /\ lease.watched
    /\ lease' = [lease EXCEPT !.watched = FALSE]
    /\ owed' = TRUE
    /\ UNCHANGED <<peer, socket, body, adapter, request, stage, route, turn,
                   gate, told>>

ReleaseRoute ==
    /\ owed
    /\ BeginRelease
    /\ UNCHANGED <<peer, socket, body, adapter, request, route, gate, told>>

\* Mutant: the aborted turn is not waited for.
ReleaseAtOnce(sent) ==
    /\ stage = "turn"
    /\ stage' = "idle"
    /\ adapter' = (adapter /\ sent)
    /\ UNCHANGED <<peer, socket, body, request, lease, owed, route, turn, gate,
                   told>>

\* A turn the lease knows is waited for until it is settled; then the adapter
\* is told.  One that cannot be reached is dropped.
ReleaseAwaitsTurn(sent) ==
    /\ stage = "turn"
    /\ turn[lease.id] \notin {"running", "aborted"}
    /\ stage' = "idle"
    /\ adapter' = (adapter /\ sent)
    /\ UNCHANGED <<peer, socket, body, request, lease, owed, route, turn, gate,
                   told>>

\* Mutant: the terminal idle does not queue for the send gate.
SendIdleUngated(sent) ==
    /\ stage = "idle"
    /\ stage' = "finish"
    /\ IF Current(lease.generation) /\ sent
       THEN told' = [told EXCEPT ![lease.id] = "idle"] /\ UNCHANGED body
       ELSE UNCHANGED told /\ body' =
              IF Current(lease.generation) THEN [body EXCEPT ![lease.device] = 0] ELSE body
    /\ UNCHANGED <<peer, socket, adapter, request, lease, owed, route, turn, gate>>

\* face.set idle and turn.state idle for the body, under the send gate; a body
\* that cannot be told is dropped and its handler cancelled.
SendTerminalIdle(sent) ==
    LET g == lease.generation IN
    /\ stage = "idle"
    /\ stage' = "finish"
    /\ IF ~Current(g)
       THEN UNCHANGED <<told, body>>
       ELSE /\ gate[g] = 0
            /\ IF sent
               THEN /\ told' = [told EXCEPT ![lease.id] = "idle"]
                    /\ UNCHANGED body
               ELSE /\ body' = [body EXCEPT ![lease.device] = 0]
                    /\ UNCHANGED told
    /\ UNCHANGED <<peer, socket, adapter, request, lease, owed, route, turn, gate>>

FinishRelease ==
    /\ stage = "finish"
    /\ stage' = "none"
    /\ lease' = NoLease
    /\ UNCHANGED <<peer, socket, body, adapter, request, owed, route, turn,
                   gate, told>>

-----------------------------------------------------------------------------
Connecting ==
    \/ \E d \in Device : RegisterBody(d) \/ RevokeEndpoint(d)
    \/ \E g \in Generation : UnregisterBody(g)
    \/ RegisterAdapter \/ UnregisterAdapter

Granting ==
    \/ \E g \in Generation, t \in Trigger : RequestCapture(g, t)
    \/ \E granted \in BOOLEAN : GrantPreempted(granted)
    \/ \E delivered \in BOOLEAN : SendGrant(delivered)
    \/ \E l \in LeaseId : CancelCapture(l)

Capturing ==
    \E l \in LeaseId :
        \/ \E sent \in BOOLEAN : OpenCapture(l, sent) \/ CloseCapture(l, sent)
        \/ ForwardMicrophoneFails(l)
        \/ \E voice \in BOOLEAN : TranscriptFinal(l, voice)
        \/ TranscriptEmpty(l)

Turning ==
    \E l \in LeaseId :
        AttachTurn(l) \/ SettleTurn(l) \/ TurnTaskFinished(l) \/ VoiceFails(l)

Playing ==
    \/ \E l \in LeaseId :
         \/ QueueBodyPcm(l) \/ MarkTtsEnd(l) \/ FlushPlayback(l)
         \/ \E sent \in BOOLEAN : OpenBodyPlayback(l, sent)
         \/ PlaybackDrained(l) \/ PlaybackFailed(l) \/ ReleaseIfDrained(l)
    \/ \E g \in Generation, sent \in BOOLEAN : FlushSends(g, sent)

Releasing ==
    \/ \E l \in LeaseId : WatchLeaseExpiry(l)
    \/ ReleaseRoute
    \/ \E sent \in BOOLEAN : ReleaseAwaitsTurn(sent) \/ SendTerminalIdle(sent)
    \/ FinishRelease

Next == Connecting \/ Granting \/ Capturing \/ Turning \/ Playing \/ Releasing

Spec == Init /\ [][Next]_vars

(***************************************************************************)
(* Spawned tasks and awaited calls go on: releases, turn tasks, grants,    *)
(* flushes, a handler that is leaving.  An expiry watcher finds its        *)
(* deadline passed in the end, because no progress moves it past the hard  *)
(* deadline.  Nothing is assumed of bodies, adapters or engines.           *)
(***************************************************************************)
Fairness ==
    /\ WF_vars(\E l \in LeaseId : WatchLeaseExpiry(l))
    /\ WF_vars(\E l \in LeaseId : AttachTurn(l))
    /\ WF_vars(\E l \in LeaseId : SettleTurn(l))
    /\ WF_vars(\E granted \in BOOLEAN : GrantPreempted(granted))
    /\ WF_vars(\E delivered \in BOOLEAN : SendGrant(delivered))
    /\ WF_vars(\E g \in Generation : socket[g] = "closing" /\ UnregisterBody(g))
    /\ WF_vars(\E g \in Generation, sent \in BOOLEAN : FlushSends(g, sent))
    /\ WF_vars(ReleaseRoute)
    /\ WF_vars(\E sent \in BOOLEAN : ReleaseAwaitsTurn(sent))
    /\ WF_vars(\E sent \in BOOLEAN : SendTerminalIdle(sent))
    /\ WF_vars(FinishRelease)

FairSpec == Spec /\ Fairness

-----------------------------------------------------------------------------
(***************************************************************************)
(* Properties.                                                             *)
(***************************************************************************)

Over(l) == route[l] # 0 /\ lease.id # l

\* A lease that is given up leaves nothing behind for the next holder to meet:
\* its turn has been settled, no flush of it is under way on a connection that
\* still counts, and its body, if that connection is still the registered one,
\* has been told that the turn is over (finish_release).
HandoverIsClean ==
    \A l \in LeaseId : Over(l) =>
        /\ turn[l] \notin {"running", "aborted"}
        /\ Current(route[l]) => gate[route[l]] # l /\ told[l] = "idle"

\* A lease in use always has something that will end it: its expiry watcher,
\* a caller of release_route, the grant that is about to start the watcher, or
\* a handler that is leaving with it (request_capture, watch_lease_expiry).
LeaseIsWatched ==
    \A l \in LeaseId : Routable(l) =>
        \/ lease.watched
        \/ owed
        \/ request # NoRequest /\ request.at = "granted"
        \/ Current(lease.generation) /\ socket[lease.generation] = "closing"

\* Every lease ends, whatever its body, its adapter and its turn do
\* (watch_lease_expiry, finish_release).
LeaseEnds == \A l \in LeaseId : (lease.id = l) ~> (lease.id # l)

\* What a body is sent about each lease keeps the order it is promised: nothing
\* of the stream precedes its opening or follows its close or the final idle
\* (open_body_playback, flush_playback, send_terminal_idle).
Contract == INSTANCE VoiceTurnContract
KeepsTurnOrder == Contract!Spec

=============================================================================
