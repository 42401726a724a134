--------------------------- MODULE VoiceLeaseProofs ---------------------------
(***************************************************************************)
(* Proofs about VoiceLease for all sets of bodies, and every number of     *)
(* connections and leases.                                                 *)
(***************************************************************************)
EXTENDS VoiceLease, FiniteSetTheorems, TLAPS

(***************************************************************************)
(* The inductive invariant.                                                *)
(***************************************************************************)

\* Connections and leases are numbered in the order they are made.
Numbered ==
    /\ \A g \in Generation : peer[g] # "none" <=> g < NextGeneration
    /\ \A l \in LeaseId : route[l] # 0 <=> l <= LastLease

\* What is named was made.
Known ==
    /\ \A l \in LeaseId : route[l] < NextGeneration
    /\ request.by < NextGeneration
    /\ request # NoRequest /\ request.at = "granted" => LastLease # 0

\* While a release is owed or under way there is a lease to release.
Released ==
    /\ (owed \/ stage # "none") => lease # NoLease
    /\ lease # NoLease => (stage # "none" <=> lease.phase = "releasing")
    /\ owed => stage = "none"

\* The lease in use is the last one; the request that was granted is its own, and
\* it is the lease of the connection that counts until its release is owed.
Slot ==
    lease # NoLease =>
        /\ lease.id = LastLease
        /\ lease.generation = route[lease.id]
        /\ lease.device = peer[lease.generation]
        /\ stage = "none" => Current(lease.generation) \/ owed
        /\ request # NoRequest /\ request.at = "granted" => request.by = lease.generation

\* Only the turn of the lease in use runs as the lease's own, and a release goes on
\* when it is settled.
Running == \A l \in LeaseId : turn[l] = "running" => Routable(l)
Settled == stage \in {"idle", "finish"} => turn[lease.id] \notin {"running", "aborted"}

\* A flush holds the gate of its own connection, and its stream is open.
Gated ==
    \A g \in Generation : gate[g] # 0 => route[gate[g]] = g /\ told[gate[g]] = "open"

\* When a release is about to finish its body was told, unless it has gone.
Finishing ==
    stage = "finish" /\ Current(lease.generation) =>
        gate[lease.generation] # lease.id /\ told[lease.id] = "idle"

\* What the lease knows of its stream is what the body has heard.
Heard ==
    /\ \A l \in LeaseId : route[l] = 0 => told[l] = "granted"
    /\ lease # NoLease /\ stage = "none" =>
        /\ lease.playback \in {"none", "unopened"} => told[lease.id] = "granted"
        /\ lease.playback \in {"open", "closing"} =>
             told[lease.id] = "open" /\ \A g \in Generation : gate[g] # lease.id

IInv == /\ TypeOK
        /\ Numbered /\ Known /\ Released /\ Slot
        /\ Running /\ Settled /\ Gated /\ Finishing /\ Heard
        /\ HandoverIsClean /\ LeaseIsWatched

-----------------------------------------------------------------------------
(***************************************************************************)
(* Type correctness, one lemma for each group of actions.                  *)
(***************************************************************************)

Outgoing == {"none", "unopened", "open", "closing", "close_sent", "drained"}

LEMMA LeaseIsSome ==
  ASSUME NEW x \in Lease
  PROVE  /\ x.id \in LeaseId /\ x.id # 0
         /\ x.generation \in Generation /\ x.device \in Device
         /\ x # NoLease
<1>1. x.id \in LeaseId /\ x.id # 0 /\ x.generation \in Generation /\ x.device \in Device
  BY BoundsAssumption DEF Lease, LeaseId
<1>2. NoLease.id = 0
  BY DEF NoLease
<1> QED BY <1>1, <1>2

\* The slot holds a lease or nothing; the number 0 is no lease.
LEMMA SlotFacts ==
  ASSUME TypeOK
  PROVE  /\ lease # NoLease => lease \in Lease /\ lease.id \in LeaseId
                               /\ lease.generation \in Generation /\ lease.device \in Device
         /\ lease = NoLease <=> lease.id = 0
         /\ \A l \in LeaseId : lease.id = l => lease # NoLease
<1>1. lease \in {NoLease} \cup Lease
  BY DEF TypeOK
<1>2. NoLease.id = 0 /\ \A l \in LeaseId : l # 0
  BY BoundsAssumption DEF NoLease, LeaseId
<1> QED BY <1>1, <1>2, LeaseIsSome

LEMMA LastIsNumber == LastLease \in Nat /\ NextGeneration \in Nat
<1>1. IsFiniteSet(LeaseId) /\ IsFiniteSet(Generation)
  BY FS_Interval, BoundsAssumption DEF LeaseId, Generation
<1>2. IsFiniteSet({l \in LeaseId : route[l] # 0})
  BY <1>1, FS_Subset
<1>3. IsFiniteSet({g \in Generation : peer[g] # "none"})
  BY <1>1, FS_Subset
<1> QED BY <1>2, <1>3, FS_CardinalityType DEF LastLease, NextGeneration

\* What a step makes of the lease in use is a lease.
LEMMA LeaseTypes ==
  ASSUME NEW x \in Lease
  PROVE  /\ \A ph \in Phase : [x EXCEPT !.phase = ph] \in Lease
         /\ \A b \in BOOLEAN : [x EXCEPT !.watched = b] \in Lease
                               /\ [x EXCEPT !.complete = b] \in Lease
         /\ \A p \in Outgoing : [x EXCEPT !.playback = p] \in Lease
         /\ \A ph \in Phase, b \in BOOLEAN : [x EXCEPT !.phase = ph, !.watched = b] \in Lease
         /\ \A ph \in Phase, p \in Outgoing : [x EXCEPT !.phase = ph, !.playback = p] \in Lease
BY DEF Lease, Outgoing

LEMMA BeginReleaseTypes ==
  ASSUME TypeOK, lease # NoLease, BeginRelease
  PROVE  /\ lease' \in Lease
         /\ turn' \in [LeaseId -> {"none", "started", "running", "aborted"}]
         /\ stage' \in {"none", "turn", "idle", "finish"}
         /\ owed' \in BOOLEAN
<1>1. lease \in Lease
  BY SlotFacts
<1>2. lease' \in Lease
  BY <1>1, LeaseTypes DEF BeginRelease, Phase
<1>3. turn' \in [LeaseId -> {"none", "started", "running", "aborted"}]
  BY DEF BeginRelease, TypeOK
<1> QED BY <1>2, <1>3 DEF BeginRelease

LEMMA AcquireTypes ==
  ASSUME TypeOK, NEW g \in Generation, NEW t \in Trigger, NEW direct \in BOOLEAN,
         AcquireLease(g, t, direct)
  PROVE  TypeOK'
<1>1. LastLease + 1 \in LeaseId
  BY DEF AcquireLease
<1>2. peer[g] \in Device
  BY DEF AcquireLease, Current
<1>3. lease' \in Lease
  BY <1>1, <1>2 DEF AcquireLease, Lease, Phase
<1>4. route' \in [LeaseId -> 0 .. MaxGenerations]
  BY BoundsAssumption DEF AcquireLease, TypeOK, Generation
<1>5. request' \in [by : Generation, at : {"preempting", "granted"}]
  BY DEF AcquireLease
<1> QED BY <1>3, <1>4, <1>5 DEF AcquireLease, TypeOK

LEMMA BodyTypes ==
  ASSUME TypeOK, NEW d \in Device
  PROVE  [body EXCEPT ![d] = 0] \in [Device -> 0 .. MaxGenerations]
BY BoundsAssumption DEF TypeOK

LEMMA ConnectingTypes == TypeOK /\ Connecting => TypeOK'
<1> SUFFICES ASSUME TypeOK, Connecting PROVE TypeOK'
  OBVIOUS
<1>1. ASSUME NEW d \in Device, RegisterBody(d) PROVE TypeOK'
  <2>1. Generation \subseteq 0 .. MaxGenerations
    BY BoundsAssumption DEF Generation
  <2>2. peer' \in [Generation -> Device \cup {"none"}]
    BY <1>1 DEF RegisterBody, TypeOK
  <2>3. socket' \in [Generation -> {"none", "open", "closing", "closed"}]
    BY <1>1 DEF RegisterBody, TypeOK
  <2>4. body' \in [Device -> 0 .. MaxGenerations]
    BY <1>1, <2>1 DEF RegisterBody, TypeOK
  <2>5. owed' \in BOOLEAN
    BY <1>1 DEF RegisterBody, TypeOK
  <2> QED BY <1>1, <2>2, <2>3, <2>4, <2>5 DEF RegisterBody, TypeOK
<1>2. ASSUME NEW d \in Device, RevokeEndpoint(d) PROVE TypeOK'
  <2>1. body' \in [Device -> 0 .. MaxGenerations]
    BY <1>2, BoundsAssumption DEF RevokeEndpoint, TypeOK
  <2>2. owed' \in BOOLEAN
    BY <1>2 DEF RevokeEndpoint, TypeOK
  <2> QED BY <1>2, <2>1, <2>2 DEF RevokeEndpoint, TypeOK
<1>3. ASSUME NEW g \in Generation, UnregisterBody(g) PROVE TypeOK'
  <2>1. body' \in [Device -> 0 .. MaxGenerations]
    <3>1. CASE Current(g)
      <4>1. peer[g] \in Device
        BY <3>1 DEF Current
      <4>2. body' = [body EXCEPT ![peer[g]] = 0]
        BY <1>3, <3>1 DEF UnregisterBody
      <4> QED BY <4>1, <4>2, BodyTypes
    <3>2. CASE ~Current(g)
      BY <1>3, <3>2 DEF UnregisterBody, TypeOK
    <3> QED BY <3>1, <3>2
  <2>2. owed' \in BOOLEAN
    BY <1>3 DEF UnregisterBody, TypeOK
  <2>3. socket' \in [Generation -> {"none", "open", "closing", "closed"}]
    BY <1>3 DEF UnregisterBody, TypeOK
  <2> QED BY <1>3, <2>1, <2>2, <2>3 DEF UnregisterBody, TypeOK
<1>4. CASE RegisterAdapter
  BY <1>4 DEF RegisterAdapter, TypeOK
<1>5. CASE UnregisterAdapter
  BY <1>5 DEF UnregisterAdapter, TypeOK
<1> QED BY <1>1, <1>2, <1>3, <1>4, <1>5 DEF Connecting

LEMMA GrantingTypes == TypeOK /\ Granting => TypeOK'
<1> SUFFICES ASSUME TypeOK, Granting PROVE TypeOK'
  OBVIOUS
<1>1. ASSUME NEW g \in Generation, NEW t \in Trigger, RequestCapture(g, t) PROVE TypeOK'
  <2>1. ASSUME NEW direct \in BOOLEAN, AcquireLease(g, t, direct) PROVE TypeOK'
    BY <2>1, AcquireTypes
  <2>2. ASSUME lease # NoLease, BeginRelease, request' = [by |-> g, at |-> "preempting"],
               UNCHANGED <<peer, socket, body, adapter, route, gate, told>>
        PROVE TypeOK'
    <3>1. request' \in [by : Generation, at : {"preempting", "granted"}]
      BY <2>2
    <3> QED BY <2>2, <3>1, BeginReleaseTypes DEF TypeOK
  <2> QED BY <1>1, <2>1, <2>2 DEF RequestCapture
<1>2. ASSUME NEW granted \in BOOLEAN, GrantPreempted(granted) PROVE TypeOK'
  <2>1. request.by \in Generation
    BY <1>2 DEF GrantPreempted, TypeOK
  <2>2. ASSUME NEW direct \in BOOLEAN, AcquireLease(request.by, "action_button", direct)
        PROVE TypeOK'
    BY <2>1, <2>2, AcquireTypes DEF Trigger
  <2>3. CASE granted
    BY <1>2, <2>2, <2>3 DEF GrantPreempted
  <2>4. CASE ~granted
    BY <1>2, <2>4 DEF GrantPreempted, TypeOK
  <2> QED BY <2>3, <2>4
<1>3. ASSUME NEW delivered \in BOOLEAN, SendGrant(delivered) PROVE TypeOK'
  <2>1. LastLease \in Nat
    BY LastIsNumber
  <2>2. lease' \in {NoLease} \cup Lease
    <3>1. CASE lease = NoLease
      <4>1. ~(lease.phase # "releasing" /\ lease.id = LastLease) \/ lease' = lease
        BY <1>3, <3>1, BoundsAssumption DEF SendGrant, Routable, NoLease
      <4> QED BY <1>3, <3>1, <4>1 DEF SendGrant, Routable, NoLease
    <3>2. CASE lease \in Lease
      BY <1>3, <3>2, LeaseTypes DEF SendGrant
    <3> QED BY <3>1, <3>2 DEF TypeOK
  <2>3. socket' \in [Generation -> {"none", "open", "closing", "closed"}]
    BY <1>3 DEF SendGrant, TypeOK
  <2>4. request' \in {NoRequest}
    BY <1>3 DEF SendGrant
  <2> QED BY <1>3, <2>2, <2>3, <2>4 DEF SendGrant, TypeOK
<1>4. ASSUME NEW l \in LeaseId, CancelCapture(l) PROVE TypeOK'
  BY <1>4 DEF CancelCapture, Gives, TypeOK
<1> QED BY <1>1, <1>2, <1>3, <1>4 DEF Granting

\* What leads to a release touches the lease itself no more.
LEMMA GivesTypes ==
  ASSUME TypeOK, NEW l \in LeaseId, Gives(l),
         UNCHANGED <<peer, body, adapter, request, lease, stage, route, turn, gate, told>>,
         socket' = socket \/ socket' = [socket EXCEPT ![lease.generation] = "closing"]
  PROVE  TypeOK'
BY DEF Gives, TypeOK

LEMMA ForwardTypes ==
  ASSUME TypeOK, NEW sent \in BOOLEAN, Forward(sent)
  PROVE  socket' \in [Generation -> {"none", "open", "closing", "closed"}] /\ owed' \in BOOLEAN
<1>1. [socket EXCEPT ![lease.generation] = "closing"]
        \in [Generation -> {"none", "open", "closing", "closed"}]
  BY DEF TypeOK
<1> QED BY <1>1 DEF Forward, TypeOK

LEMMA CapturingTypes == TypeOK /\ Capturing => TypeOK'
<1> SUFFICES ASSUME TypeOK, NEW l \in LeaseId,
                    \/ \E sent \in BOOLEAN : OpenCapture(l, sent) \/ CloseCapture(l, sent)
                    \/ ForwardMicrophoneFails(l)
                    \/ \E voice \in BOOLEAN : TranscriptFinal(l, voice)
                    \/ TranscriptEmpty(l)
             PROVE  TypeOK'
  BY DEF Capturing
<1>1. ASSUME NEW sent \in BOOLEAN, OpenCapture(l, sent) PROVE TypeOK'
  <2>1. lease' \in Lease
    BY <1>1, SlotFacts, LeaseTypes DEF OpenCapture, Routable, Phase
  <2> QED BY <1>1, <2>1, ForwardTypes DEF OpenCapture, TypeOK
<1>2. ASSUME NEW sent \in BOOLEAN, CloseCapture(l, sent) PROVE TypeOK'
  <2>1. lease' \in Lease
    BY <1>2, SlotFacts, LeaseTypes DEF CloseCapture, Routable, Phase
  <2> QED BY <1>2, <2>1, ForwardTypes DEF CloseCapture, TypeOK
<1>3. CASE ForwardMicrophoneFails(l) \/ TranscriptEmpty(l)
  BY <1>3, GivesTypes DEF ForwardMicrophoneFails, TranscriptEmpty
<1>4. ASSUME NEW voice \in BOOLEAN, TranscriptFinal(l, voice) PROVE TypeOK'
  <2>1. lease' \in Lease
    BY <1>4, SlotFacts, LeaseTypes DEF TranscriptFinal, Routable, Phase
  <2>2. turn' \in [LeaseId -> {"none", "started", "running", "aborted"}]
    BY <1>4 DEF TranscriptFinal, TypeOK
  <2>3. owed' \in BOOLEAN
    BY <1>4 DEF TranscriptFinal, TypeOK
  <2> QED BY <1>4, <2>1, <2>2, <2>3 DEF TranscriptFinal, TypeOK
<1> QED BY <1>1, <1>2, <1>3, <1>4

LEMMA TurningTypes == TypeOK /\ Running /\ Turning => TypeOK'
<1> SUFFICES ASSUME TypeOK, Running, NEW l \in LeaseId,
                    AttachTurn(l) \/ SettleTurn(l) \/ TurnTaskFinished(l) \/ VoiceFails(l)
             PROVE  TypeOK'
  BY DEF Turning
<1>1. CASE AttachTurn(l)
  BY <1>1 DEF AttachTurn, TypeOK
<1>2. CASE SettleTurn(l)
  BY <1>2 DEF SettleTurn, TypeOK
<1>3. CASE TurnTaskFinished(l)
  <2>1. lease' \in Lease
    BY <1>3, SlotFacts, LeaseTypes DEF TurnTaskFinished, Running, Routable
  <2>2. turn' \in [LeaseId -> {"none", "started", "running", "aborted"}]
    BY <1>3 DEF TurnTaskFinished, TypeOK
  <2>3. owed' \in BOOLEAN
    BY <1>3 DEF TurnTaskFinished, TypeOK
  <2> QED BY <1>3, <2>1, <2>2, <2>3 DEF TurnTaskFinished, TypeOK
<1>4. CASE VoiceFails(l)
  BY <1>4, GivesTypes DEF VoiceFails
<1> QED BY <1>1, <1>2, <1>3, <1>4

LEMMA PlayingTypes == TypeOK /\ Playing => TypeOK'
<1> SUFFICES ASSUME TypeOK, Playing PROVE TypeOK'
  OBVIOUS
<1>1. ASSUME NEW l \in LeaseId, QueueBodyPcm(l) PROVE TypeOK'
  <2>1. lease' \in Lease
    BY <1>1, SlotFacts, LeaseTypes DEF QueueBodyPcm, Speaking, Routable, Phase, Outgoing
  <2> QED BY <1>1, <2>1 DEF QueueBodyPcm, TypeOK
<1>2. ASSUME NEW l \in LeaseId, MarkTtsEnd(l) PROVE TypeOK'
  <2>1. lease' \in Lease
    BY <1>2, SlotFacts, LeaseTypes DEF MarkTtsEnd, Speaking, Routable, Outgoing
  <2> QED BY <1>2, <2>1 DEF MarkTtsEnd, TypeOK
<1>3. ASSUME NEW l \in LeaseId, FlushPlayback(l) PROVE TypeOK'
  <2>1. lease' \in Lease
    BY <1>3, SlotFacts, LeaseTypes DEF FlushPlayback, Routable, Phase, Outgoing
  <2>2. gate' \in [Generation -> 0 .. MaxLeases]
    <3>1. l \in 0 .. MaxLeases /\ lease.generation \in Generation
      BY <1>3, BoundsAssumption, SlotFacts DEF FlushPlayback, Routable, LeaseId
    <3>2. gate' = [gate EXCEPT ![lease.generation] = l]
      BY <1>3 DEF FlushPlayback
    <3> QED BY <3>1, <3>2 DEF TypeOK
  <2> QED BY <1>3, <2>1, <2>2 DEF FlushPlayback, TypeOK
<1>4. ASSUME NEW l \in LeaseId, NEW sent \in BOOLEAN, OpenBodyPlayback(l, sent)
      PROVE TypeOK'
  <2>1. CASE sent
    <3>1. lease' \in Lease
      BY <1>4, <2>1, SlotFacts, LeaseTypes DEF OpenBodyPlayback, Speaking, Routable, Outgoing
    <3>2. told' \in [LeaseId -> Told]
      BY <1>4, <2>1 DEF OpenBodyPlayback, TypeOK, Told
    <3> QED BY <1>4, <2>1, <3>1, <3>2 DEF OpenBodyPlayback, TypeOK
  <2>2. CASE ~sent
    BY <1>4, <2>2 DEF OpenBodyPlayback, Gives, TypeOK
  <2> QED BY <2>1, <2>2
<1>5. ASSUME NEW l \in LeaseId, PlaybackDrained(l) PROVE TypeOK'
  <2>1. lease' \in Lease
    BY <1>5, SlotFacts, LeaseTypes DEF PlaybackDrained, Routable, Outgoing
  <2> QED BY <1>5, <2>1 DEF PlaybackDrained, TypeOK
<1>6. ASSUME NEW l \in LeaseId, PlaybackFailed(l) \/ ReleaseIfDrained(l) PROVE TypeOK'
  BY <1>6, GivesTypes DEF PlaybackFailed, ReleaseIfDrained
<1>7. ASSUME NEW g \in Generation, NEW sent \in BOOLEAN, FlushSends(g, sent) PROVE TypeOK'
  <2>1. gate' \in [Generation -> 0 .. MaxLeases]
    BY <1>7, BoundsAssumption DEF FlushSends, TypeOK
  <2>2. told' \in [LeaseId -> Told]
    BY <1>7 DEF FlushSends, TypeOK, Told
  <2>3. owed' \in BOOLEAN
    BY <1>7 DEF FlushSends, TypeOK
  <2> QED BY <1>7, <2>1, <2>2, <2>3 DEF FlushSends, TypeOK
<1> QED BY <1>1, <1>2, <1>3, <1>4, <1>5, <1>6, <1>7 DEF Playing

LEMMA ReleasingTypes == TypeOK /\ Released /\ Releasing => TypeOK'
<1> SUFFICES ASSUME TypeOK, Released, Releasing PROVE TypeOK'
  OBVIOUS
<1>1. ASSUME NEW l \in LeaseId, WatchLeaseExpiry(l) PROVE TypeOK'
  <2>1. lease' \in Lease
    BY <1>1, SlotFacts, LeaseTypes DEF WatchLeaseExpiry, Routable
  <2> QED BY <1>1, <2>1 DEF WatchLeaseExpiry, TypeOK
<1>2. CASE ReleaseRoute
  <2>1. lease # NoLease /\ BeginRelease
    BY <1>2 DEF ReleaseRoute, Released
  <2> QED BY <1>2, <2>1, BeginReleaseTypes DEF ReleaseRoute, TypeOK
<1>3. ASSUME NEW sent \in BOOLEAN, ReleaseAwaitsTurn(sent) PROVE TypeOK'
  BY <1>3 DEF ReleaseAwaitsTurn, TypeOK
<1>4. ASSUME NEW sent \in BOOLEAN, SendTerminalIdle(sent) PROVE TypeOK'
  <2>1. told' \in [LeaseId -> Told]
    BY <1>4 DEF SendTerminalIdle, TypeOK, Told
  <2>2. [body EXCEPT ![lease.device] = 0] \in [Device -> 0 .. MaxGenerations]
    <3>1. lease.device \in Device
      BY <1>4, SlotFacts DEF SendTerminalIdle, Released
    <3> QED BY <3>1, BodyTypes
  <2>3. body' \in [Device -> 0 .. MaxGenerations]
    BY <1>4, <2>2 DEF SendTerminalIdle, TypeOK
  <2> QED BY <1>4, <2>1, <2>3 DEF SendTerminalIdle, TypeOK
<1>5. CASE FinishRelease
  BY <1>5 DEF FinishRelease, TypeOK
<1> QED BY <1>1, <1>2, <1>3, <1>4, <1>5 DEF Releasing

-----------------------------------------------------------------------------
LEMMA ReleaseBegins ==
  ASSUME IInv, lease # NoLease, stage = "none", BeginRelease,
         UNCHANGED <<peer, socket, body, route, gate, told>>,
         request' = request \/ (request'.at = "preempting" /\ request'.by < NextGeneration)
  PROVE  /\ Numbered' /\ Known' /\ Released' /\ Slot'
         /\ Running' /\ Settled' /\ Gated' /\ Finishing' /\ Heard'
         /\ HandoverIsClean' /\ LeaseIsWatched'
<1>1. UNCHANGED <<NextGeneration, LastLease>>
  BY DEF NextGeneration, LastLease
<1>2. lease \in Lease /\ lease.id \in LeaseId
  BY SlotFacts DEF IInv
<1>3. /\ lease'.id = lease.id /\ lease'.generation = lease.generation
      /\ lease'.device = lease.device /\ lease'.phase = "releasing" /\ lease' # NoLease
  BY <1>2 DEF BeginRelease, Lease, NoLease
<1>4. Numbered' /\ Known'
  BY <1>1 DEF Numbered, Known, IInv
<1>5. Released' /\ Slot'
  BY <1>1, <1>3 DEF Released, Slot, IInv, BeginRelease, Current
<1>6. Running' /\ Settled'
  BY <1>2, <1>3 DEF Running, Settled, IInv, BeginRelease, Routable, TypeOK
<1>7. Gated' /\ Finishing' /\ Heard'
  BY <1>3 DEF Gated, Finishing, Heard, IInv, BeginRelease
<1>8. HandoverIsClean'
  BY <1>2, <1>3 DEF HandoverIsClean, Over, IInv, BeginRelease, Current, TypeOK
<1>9. LeaseIsWatched'
  BY <1>3 DEF LeaseIsWatched, Routable
<1> QED BY <1>4, <1>5, <1>6, <1>7, <1>8, <1>9

\* The lease in use goes on: it stays the lease it was, and is not released.
SameLease ==
    /\ lease \in Lease /\ lease' \in Lease
    /\ lease'.id = lease.id
    /\ lease'.generation = lease.generation
    /\ lease'.device = lease.device
    /\ lease'.phase # "releasing"
    /\ stage = "none" /\ UNCHANGED stage

\* Its turn may start, end or be dropped; the stream stays as open as it was.
GoesOn ==
    /\ SameLease
    /\ owed => owed'
    /\ lease.watched => lease'.watched \/ owed'
    /\ \A g \in Generation : socket[g] = "closing" => socket'[g] = "closing"
    /\ \A l \in LeaseId : turn'[l] \in {"running", "aborted"} =>
                             turn'[l] = turn[l] \/ (turn'[l] = "running" /\ l = lease.id)
    /\ lease'.playback \in {"none", "unopened"} => lease.playback \in {"none", "unopened"}
    /\ lease'.playback \in {"open", "closing"} => lease.playback \in {"open", "closing"}
    /\ UNCHANGED <<peer, body, route, request, gate, told>>

LEMMA LeaseGoesOn ==
  ASSUME IInv, TypeOK', GoesOn
  PROVE  IInv'
<1>1. UNCHANGED <<NextGeneration, LastLease>>
  BY DEF GoesOn, NextGeneration, LastLease
<1>2. /\ lease # NoLease /\ lease' # NoLease
      /\ lease.id \in LeaseId /\ lease.generation \in Generation
  BY LeaseIsSome DEF GoesOn, SameLease
<1>3. Numbered' /\ Known'
  BY <1>1 DEF Numbered, Known, IInv, GoesOn
<1>4. Released' /\ Slot'
  BY <1>1, <1>2 DEF Released, Slot, IInv, GoesOn, SameLease, Current
<1>5. Running' /\ Settled'
  BY <1>2 DEF Running, Settled, IInv, GoesOn, SameLease, Routable
<1>6. Gated' /\ Finishing' /\ Heard'
  BY <1>2 DEF Gated, Finishing, Heard, IInv, GoesOn, SameLease
<1>7. HandoverIsClean'
  BY <1>2 DEF HandoverIsClean, Over, IInv, GoesOn, SameLease, Current
<1>8. LeaseIsWatched'
  <2>1. Routable(lease.id)
    BY <1>2 DEF Routable, IInv, Released, GoesOn, SameLease
  <2>2. \/ lease.watched
        \/ owed
        \/ request # NoRequest /\ request.at = "granted"
        \/ Current(lease.generation) /\ socket[lease.generation] = "closing"
    BY <1>2, <2>1 DEF IInv, LeaseIsWatched
  <2> QED BY <1>2, <2>2 DEF LeaseIsWatched, GoesOn, SameLease, Current
<1> QED BY <1>3, <1>4, <1>5, <1>6, <1>7, <1>8 DEF IInv

\* The fields a step of the lease leaves alone.
LEMMA LeaseKept ==
  ASSUME NEW x \in Lease, NEW ph, NEW b, NEW p
  PROVE  /\ [x EXCEPT !.phase = ph].id = x.id
         /\ [x EXCEPT !.phase = ph].generation = x.generation
         /\ [x EXCEPT !.phase = ph].device = x.device
         /\ [x EXCEPT !.phase = ph].watched = x.watched
         /\ [x EXCEPT !.phase = ph].playback = x.playback
         /\ [x EXCEPT !.phase = ph].phase = ph
         /\ [x EXCEPT !.playback = p].id = x.id
         /\ [x EXCEPT !.playback = p].generation = x.generation
         /\ [x EXCEPT !.playback = p].device = x.device
         /\ [x EXCEPT !.playback = p].watched = x.watched
         /\ [x EXCEPT !.playback = p].playback = p
         /\ [x EXCEPT !.playback = p].phase = x.phase
         /\ [x EXCEPT !.phase = ph, !.playback = p].id = x.id
         /\ [x EXCEPT !.phase = ph, !.playback = p].generation = x.generation
         /\ [x EXCEPT !.phase = ph, !.playback = p].device = x.device
         /\ [x EXCEPT !.phase = ph, !.playback = p].watched = x.watched
         /\ [x EXCEPT !.phase = ph, !.playback = p].playback = p
         /\ [x EXCEPT !.phase = ph, !.playback = p].phase = ph
         /\ [x EXCEPT !.watched = b].id = x.id
         /\ [x EXCEPT !.watched = b].generation = x.generation
         /\ [x EXCEPT !.watched = b].device = x.device
         /\ [x EXCEPT !.watched = b].watched = b
         /\ [x EXCEPT !.watched = b].playback = x.playback
         /\ [x EXCEPT !.watched = b].phase = x.phase
         /\ [x EXCEPT !.complete = b].id = x.id
         /\ [x EXCEPT !.complete = b].generation = x.generation
         /\ [x EXCEPT !.complete = b].device = x.device
         /\ [x EXCEPT !.complete = b].watched = x.watched
         /\ [x EXCEPT !.complete = b].playback = x.playback
         /\ [x EXCEPT !.complete = b].phase = x.phase
BY DEF Lease

LEMMA Routed ==
  ASSUME IInv, NEW l \in LeaseId, Routable(l)
  PROVE  lease \in Lease /\ lease.id = l /\ lease.phase # "releasing" /\ stage = "none"
BY SlotFacts DEF IInv, Routable, Released

LEMMA GivesGoesOn ==
  ASSUME IInv, TypeOK', NEW l \in LeaseId, Gives(l),
         UNCHANGED <<peer, body, adapter, request, lease, stage, route, turn, gate, told>>,
         socket' = socket \/ socket' = [socket EXCEPT ![lease.generation] = "closing"]
  PROVE  IInv'
<1>1. lease \in Lease /\ lease.phase # "releasing" /\ stage = "none"
  BY Routed DEF Gives
<1>2. \A g \in Generation : socket[g] = "closing" => socket'[g] = "closing"
  BY DEF IInv, TypeOK
<1>3. GoesOn
  BY <1>1, <1>2 DEF GoesOn, SameLease, Gives
<1> QED BY <1>3, LeaseGoesOn

LEMMA CapturingKeeps == IInv /\ Capturing => IInv'
<1> SUFFICES ASSUME IInv, Capturing PROVE IInv'
  OBVIOUS
<1>1. TypeOK'
  BY CapturingTypes DEF IInv
<1>2. ASSUME NEW sent \in BOOLEAN, Forward(sent)
      PROVE  /\ \A g \in Generation : socket[g] = "closing" => socket'[g] = "closing"
             /\ owed => owed'
  BY <1>2 DEF Forward, IInv, TypeOK
<1>3. ASSUME NEW l \in LeaseId, NEW sent \in BOOLEAN, OpenCapture(l, sent) PROVE IInv'
  <2>1. Routable(l) /\ Forward(sent)
    BY <1>3 DEF OpenCapture
  <2>2. SameLease /\ lease'.watched = lease.watched /\ lease'.playback = lease.playback
    <3>1. lease \in Lease /\ stage = "none" /\ UNCHANGED stage
      BY <1>3, Routed DEF OpenCapture
    <3>2. lease' = [lease EXCEPT !.phase = "capturing"]
      BY <1>3 DEF OpenCapture
    <3>3. lease' \in Lease
      BY <3>1, <3>2, LeaseTypes DEF Phase
    <3> QED BY <3>1, <3>2, <3>3, LeaseKept DEF SameLease
  <2>3. GoesOn
    BY <1>2, <1>3, <2>1, <2>2 DEF OpenCapture, GoesOn
  <2> QED BY <1>1, <2>3, LeaseGoesOn
<1>4. ASSUME NEW l \in LeaseId, NEW sent \in BOOLEAN, CloseCapture(l, sent) PROVE IInv'
  <2>1. Routable(l) /\ Forward(sent)
    BY <1>4 DEF CloseCapture
  <2>2. SameLease /\ lease'.watched = lease.watched /\ lease'.playback = lease.playback
    <3>1. lease \in Lease /\ stage = "none" /\ UNCHANGED stage
      BY <1>4, Routed DEF CloseCapture
    <3>2. lease' = [lease EXCEPT !.phase = "transcribing"]
      BY <1>4 DEF CloseCapture
    <3>3. lease' \in Lease
      BY <3>1, <3>2, LeaseTypes DEF Phase
    <3> QED BY <3>1, <3>2, <3>3, LeaseKept DEF SameLease
  <2>3. GoesOn
    BY <1>2, <1>4, <2>1, <2>2 DEF CloseCapture, GoesOn
  <2> QED BY <1>1, <2>3, LeaseGoesOn
<1>5. ASSUME NEW l \in LeaseId, ForwardMicrophoneFails(l) \/ TranscriptEmpty(l) PROVE IInv'
  BY <1>1, <1>5, GivesGoesOn DEF ForwardMicrophoneFails, TranscriptEmpty
<1>6. ASSUME NEW l \in LeaseId, NEW voice \in BOOLEAN, TranscriptFinal(l, voice) PROVE IInv'
  <2>1. \A k \in LeaseId : turn'[k] \in {"running", "aborted"} => turn'[k] = turn[k]
    BY <1>6 DEF TranscriptFinal, IInv, TypeOK
  <2>2. SameLease /\ lease'.watched = lease.watched /\ lease'.playback = lease.playback
    <3>1. lease \in Lease /\ stage = "none" /\ UNCHANGED stage
      BY <1>6, Routed DEF TranscriptFinal
    <3>2. lease' = [lease EXCEPT !.phase = "generating"]
      BY <1>6 DEF TranscriptFinal
    <3>3. lease' \in Lease
      BY <3>1, <3>2, LeaseTypes DEF Phase
    <3> QED BY <3>1, <3>2, <3>3, LeaseKept DEF SameLease
  <2>3. GoesOn
    BY <1>6, <2>1, <2>2 DEF TranscriptFinal, GoesOn
  <2> QED BY <1>1, <2>3, LeaseGoesOn
<1> QED BY <1>3, <1>4, <1>5, <1>6 DEF Capturing

\* A turn the lease does not wait for goes away.
LEMMA TurnDropped ==
  ASSUME IInv, TypeOK', NEW l \in LeaseId, turn' = [turn EXCEPT ![l] = "none"],
         UNCHANGED <<peer, socket, body, request, lease, owed, stage, route, gate, told>>
  PROVE  IInv'
<1>1. UNCHANGED <<NextGeneration, LastLease>>
  BY DEF NextGeneration, LastLease
<1>2. \A k : turn'[k] \in {"running", "aborted"} => turn'[k] = turn[k]
  BY DEF IInv, TypeOK
<1>3. Numbered' /\ Known' /\ Released' /\ Slot' /\ Gated' /\ Finishing' /\ Heard'
  BY <1>1 DEF IInv, Numbered, Known, Released, Slot, Gated, Finishing, Heard, Current
<1>4. Running' /\ Settled'
  BY <1>2 DEF IInv, Running, Settled, Routable
<1>5. HandoverIsClean' /\ LeaseIsWatched'
  BY <1>2 DEF IInv, HandoverIsClean, LeaseIsWatched, Over, Routable, Current
<1> QED BY <1>3, <1>4, <1>5 DEF IInv

LEMMA TurningKeeps == IInv /\ Turning => IInv'
<1> SUFFICES ASSUME IInv, NEW l \in LeaseId,
                    AttachTurn(l) \/ SettleTurn(l) \/ TurnTaskFinished(l) \/ VoiceFails(l)
             PROVE  IInv'
  BY DEF Turning
<1>1. TypeOK'
  BY TurningTypes DEF IInv, Turning
<1>2. CASE AttachTurn(l)
  <2>1. CASE Routable(l)
    <3>1. SameLease
      BY <1>2, <2>1, Routed DEF AttachTurn, SameLease
    <3>2. \A k \in LeaseId : turn'[k] \in {"running", "aborted"} =>
                turn'[k] = turn[k] \/ (turn'[k] = "running" /\ k = lease.id)
      BY <1>2, <2>1 DEF AttachTurn, IInv, TypeOK, Routable
    <3>3. GoesOn
      BY <1>2, <3>1, <3>2 DEF AttachTurn, GoesOn
    <3> QED BY <1>1, <3>3, LeaseGoesOn
  <2>2. CASE ~Routable(l)
    BY <1>1, <1>2, <2>2, TurnDropped DEF AttachTurn
  <2> QED BY <2>1, <2>2
<1>3. CASE SettleTurn(l)
  BY <1>1, <1>3, TurnDropped DEF SettleTurn
<1>4. CASE TurnTaskFinished(l)
  <2>1. lease \in Lease /\ lease.id = l /\ lease.phase # "releasing" /\ stage = "none"
    BY <1>4, Routed DEF TurnTaskFinished, IInv, Running
  <2>2. lease' = [lease EXCEPT !.complete = TRUE] /\ UNCHANGED stage
    BY <1>4 DEF TurnTaskFinished
  <2>3. lease' \in Lease
    BY <2>1, <2>2, LeaseTypes
  <2>4. SameLease /\ lease'.watched = lease.watched /\ lease'.playback = lease.playback
    BY <2>1, <2>2, <2>3, LeaseKept DEF SameLease
  <2>5. \A k \in LeaseId : turn'[k] \in {"running", "aborted"} => turn'[k] = turn[k]
    BY <1>4 DEF TurnTaskFinished, IInv, TypeOK
  <2>6. GoesOn
    BY <1>4, <2>4, <2>5 DEF TurnTaskFinished, GoesOn
  <2> QED BY <1>1, <2>6, LeaseGoesOn
<1>5. CASE VoiceFails(l)
  BY <1>1, <1>5, GivesGoesOn DEF VoiceFails
<1> QED BY <1>2, <1>3, <1>4, <1>5

\* The three steps of a stream that the body or its connection hear of.
LEMMA StreamOpens ==
  ASSUME IInv, TypeOK', NEW l \in LeaseId, Routable(l),
         lease.playback = "unopened", gate[lease.generation] = 0,
         lease' = [lease EXCEPT !.playback = "open"],
         told' = [told EXCEPT ![l] = "open"],
         UNCHANGED <<peer, socket, body, request, owed, stage, route, turn, gate>>
  PROVE  IInv'
<1>1. UNCHANGED <<NextGeneration, LastLease>>
  BY DEF NextGeneration, LastLease
<1>2. lease \in Lease /\ lease.id = l /\ lease.phase # "releasing" /\ stage = "none"
  BY Routed
<1>3. /\ lease' \in Lease /\ lease # NoLease /\ lease' # NoLease /\ lease'.id = l
      /\ lease'.generation = lease.generation /\ lease'.device = lease.device
      /\ lease'.phase = lease.phase /\ lease'.watched = lease.watched
      /\ lease'.playback = "open"
  <2>1. lease' \in Lease
    BY <1>2, LeaseTypes DEF Outgoing
  <2> QED BY <1>2, <2>1, LeaseKept, LeaseIsSome
<1>4. told'[l] = "open" /\ \A k \in LeaseId : k # l => told'[k] = told[k]
  BY DEF IInv, TypeOK
<1>5. route[l] = lease.generation /\ route[l] # 0
  BY <1>2, <1>3, LeaseIsSome, BoundsAssumption DEF IInv, Slot, Generation
<1>6. Numbered' /\ Known' /\ Released' /\ Slot' /\ Running' /\ Settled' /\ Finishing'
  BY <1>1, <1>2, <1>3 DEF IInv, Numbered, Known, Released, Slot, Running, Settled,
     Finishing, Routable, Current
<1>7. Gated'
  BY <1>4, <1>5 DEF IInv, Gated, TypeOK
<1>8. Heard'
  <2>1. \A g \in Generation : gate[g] # l
    BY <1>2, <1>5, LeaseIsSome DEF IInv, Gated
  <2> QED BY <1>2, <1>3, <1>4, <1>5, <2>1 DEF IInv, Heard
<1>9. HandoverIsClean' /\ LeaseIsWatched'
  BY <1>2, <1>3, <1>4 DEF IInv, HandoverIsClean, LeaseIsWatched, Over, Routable, Current
<1> QED BY <1>6, <1>7, <1>8, <1>9 DEF IInv

LEMMA StreamCloses ==
  ASSUME IInv, TypeOK', NEW l \in LeaseId, FlushPlayback(l)
  PROVE  IInv'
<1>1. UNCHANGED <<NextGeneration, LastLease>>
  BY DEF NextGeneration, LastLease, FlushPlayback
<1>2. lease \in Lease /\ lease.id = l /\ stage = "none"
  BY Routed DEF FlushPlayback
<1>3. /\ lease' \in Lease /\ lease # NoLease /\ lease' # NoLease /\ lease'.id = l
      /\ lease'.generation = lease.generation /\ lease'.device = lease.device
      /\ lease'.phase = "draining" /\ lease'.watched = lease.watched
      /\ lease'.playback = "close_sent"
  <2>1. lease' = [lease EXCEPT !.phase = "draining", !.playback = "close_sent"]
    BY DEF FlushPlayback
  <2>2. lease' \in Lease
    BY <1>2, <2>1, LeaseTypes DEF Outgoing, Phase
  <2> QED BY <1>2, <2>1, <2>2, LeaseKept, LeaseIsSome
<1>4. /\ lease.generation \in Generation /\ gate'[lease.generation] = l
      /\ \A g \in Generation : g # lease.generation => gate'[g] = gate[g]
  BY <1>2, LeaseIsSome DEF IInv, TypeOK, FlushPlayback
<1>5. route[l] = lease.generation /\ told[l] = "open"
  BY <1>2, <1>3 DEF IInv, Slot, Heard, FlushPlayback
<1>6. Numbered' /\ Known' /\ Released' /\ Slot' /\ Running' /\ Settled' /\ Finishing' /\ Heard'
  BY <1>1, <1>2, <1>3 DEF IInv, Numbered, Known, Released, Slot, Running, Settled,
     Finishing, Heard, Routable, Current, FlushPlayback
<1>7. Gated'
  BY <1>4, <1>5 DEF IInv, Gated, FlushPlayback
<1>8. HandoverIsClean'
  <2>1. \A k \in LeaseId : k # l /\ gate'[route[k]] = k /\ route[k] \in Generation =>
            gate[route[k]] = k
    BY <1>4
  <2> QED BY <1>2, <1>3, <1>4, <2>1 DEF IInv, HandoverIsClean, Over, Current, FlushPlayback,
             TypeOK, Generation
<1>9. LeaseIsWatched'
  BY <1>2, <1>3 DEF IInv, LeaseIsWatched, Routable, Current, FlushPlayback, Released
<1> QED BY <1>6, <1>7, <1>8, <1>9 DEF IInv

LEMMA CloseIsSent ==
  ASSUME IInv, TypeOK', NEW g \in Generation, NEW sent \in BOOLEAN, FlushSends(g, sent)
  PROVE  IInv'
<1> DEFINE k == gate[g]
<1>1. UNCHANGED <<NextGeneration, LastLease>>
  BY DEF NextGeneration, LastLease, FlushSends
<1>2. /\ k \in LeaseId /\ route[k] = g /\ told[k] = "open"
      /\ gate'[g] = 0 /\ \A h \in Generation : h # g => gate'[h] = gate[h]
  BY BoundsAssumption DEF IInv, TypeOK, FlushSends, Gated, LeaseId
<1>3. /\ \A l \in LeaseId : l # k => told'[l] = told[l]
      /\ told'[k] \in {"open", "closed"}
  BY <1>2 DEF IInv, TypeOK, FlushSends
<1>4. owed' => lease # NoLease /\ stage = "none"
  BY <1>2, Routed, LeaseIsSome DEF FlushSends, IInv, Released
<1>5. lease # NoLease => lease.id \in LeaseId /\ lease.id # 0
  BY SlotFacts, LeaseIsSome DEF IInv
<1>6. Numbered' /\ Known' /\ Released' /\ Slot' /\ Running' /\ Settled'
  BY <1>1, <1>4 DEF IInv, Numbered, Known, Released, Slot, Running, Settled,
     Routable, Current, FlushSends
<1>7. Gated'
  <2>1. \A h \in Generation : gate'[h] # 0 => h # g /\ gate[h] # k
    BY <1>2 DEF IInv, Gated
  <2> QED BY <1>2, <1>3, <2>1 DEF IInv, Gated, FlushSends, TypeOK
<1>8. Finishing'
  BY <1>2, <1>3, <1>5 DEF IInv, Finishing, FlushSends, Current, Released, TypeOK, Generation
<1>9. Heard'
  <2>1. route[k] # 0
    BY <1>2, BoundsAssumption DEF Generation
  <2>2. \A h \in Generation : gate'[h] \in {0, gate[h]}
    BY <1>2
  <2> QED BY <1>2, <1>3, <1>5, <2>1, <2>2 DEF IInv, Heard, FlushSends
<1>10. HandoverIsClean'
  BY <1>2, <1>3 DEF IInv, HandoverIsClean, Over, Current, FlushSends, TypeOK, LeaseId
<1>11. LeaseIsWatched'
  BY <1>4 DEF IInv, LeaseIsWatched, Routable, Current, FlushSends
<1> QED BY <1>6, <1>7, <1>8, <1>9, <1>10, <1>11 DEF IInv

LEMMA PlayingKeeps == IInv /\ Playing => IInv'
<1> SUFFICES ASSUME IInv, Playing PROVE IInv'
  OBVIOUS
<1>1. TypeOK'
  BY PlayingTypes DEF IInv
<1>2. ASSUME NEW l \in LeaseId, QueueBodyPcm(l) PROVE IInv'
  <2>1. lease \in Lease /\ lease.id = l /\ stage = "none" /\ UNCHANGED stage
    BY <1>2, Routed DEF QueueBodyPcm, Speaking
  <2>2. lease' = [lease EXCEPT !.phase = "playing", !.playback = "unopened"]
    BY <1>2 DEF QueueBodyPcm
  <2>3. lease' \in Lease
    BY <2>1, <2>2, LeaseTypes DEF Phase, Outgoing
  <2>4. SameLease /\ lease'.watched = lease.watched /\ lease'.playback = "unopened"
    BY <2>1, <2>2, <2>3, LeaseKept DEF SameLease
  <2>5. GoesOn
    BY <1>2, <2>4 DEF QueueBodyPcm, GoesOn
  <2> QED BY <1>1, <2>5, LeaseGoesOn
<1>3. ASSUME NEW l \in LeaseId, MarkTtsEnd(l) PROVE IInv'
  <2>1. lease \in Lease /\ lease.phase # "releasing" /\ stage = "none" /\ UNCHANGED stage
    BY <1>3, Routed DEF MarkTtsEnd, Speaking
  <2>2. lease' = [lease EXCEPT !.playback = "closing"]
    BY <1>3 DEF MarkTtsEnd
  <2>3. lease' \in Lease
    BY <2>1, <2>2, LeaseTypes DEF Outgoing
  <2>4. SameLease /\ lease'.watched = lease.watched /\ lease'.playback = "closing"
    BY <2>1, <2>2, <2>3, LeaseKept DEF SameLease
  <2>5. GoesOn
    BY <1>3, <2>4 DEF MarkTtsEnd, GoesOn
  <2> QED BY <1>1, <2>5, LeaseGoesOn
<1>4. ASSUME NEW l \in LeaseId, PlaybackDrained(l) PROVE IInv'
  <2>1. lease \in Lease /\ lease.phase # "releasing" /\ stage = "none" /\ UNCHANGED stage
    BY <1>4, Routed DEF PlaybackDrained
  <2>2. lease' = [lease EXCEPT !.playback = "drained"]
    BY <1>4 DEF PlaybackDrained
  <2>3. lease' \in Lease
    BY <2>1, <2>2, LeaseTypes DEF Outgoing
  <2>4. SameLease /\ lease'.watched = lease.watched /\ lease'.playback = "drained"
    BY <2>1, <2>2, <2>3, LeaseKept DEF SameLease
  <2>5. GoesOn
    BY <1>4, <2>4 DEF PlaybackDrained, GoesOn
  <2> QED BY <1>1, <2>5, LeaseGoesOn
<1>5. ASSUME NEW l \in LeaseId, PlaybackFailed(l) \/ ReleaseIfDrained(l) PROVE IInv'
  BY <1>1, <1>5, GivesGoesOn DEF PlaybackFailed, ReleaseIfDrained
<1>6. ASSUME NEW l \in LeaseId, NEW sent \in BOOLEAN, OpenBodyPlayback(l, sent) PROVE IInv'
  <2>1. CASE ~sent
    BY <1>1, <1>6, <2>1, GivesGoesOn DEF OpenBodyPlayback
  <2>2. CASE sent
    BY <1>1, <1>6, <2>2, StreamOpens DEF OpenBodyPlayback, Speaking
  <2> QED BY <2>1, <2>2
<1>7. ASSUME NEW l \in LeaseId, FlushPlayback(l) PROVE IInv'
  BY <1>1, <1>7, StreamCloses
<1>8. ASSUME NEW g \in Generation, NEW sent \in BOOLEAN, FlushSends(g, sent) PROVE IInv'
  BY <1>1, <1>8, CloseIsSent
<1> QED BY <1>2, <1>3, <1>4, <1>5, <1>6, <1>7, <1>8 DEF Playing

\* The awaits of a release, in their order.
LEMMA TurnAwaited ==
  ASSUME IInv, TypeOK', NEW sent \in BOOLEAN, ReleaseAwaitsTurn(sent)
  PROVE  IInv'
<1>1. UNCHANGED <<NextGeneration, LastLease>>
  BY DEF NextGeneration, LastLease, ReleaseAwaitsTurn
<1>2. Numbered' /\ Known' /\ Released' /\ Slot'
  BY <1>1 DEF IInv, Numbered, Known, Released, Slot, ReleaseAwaitsTurn, Current
<1>3. Running' /\ Settled' /\ Gated' /\ Finishing' /\ Heard'
  BY DEF IInv, Running, Settled, Gated, Finishing, Heard, ReleaseAwaitsTurn, Routable
<1>4. HandoverIsClean' /\ LeaseIsWatched'
  BY DEF IInv, HandoverIsClean, LeaseIsWatched, Over, Routable, Current, ReleaseAwaitsTurn
<1> QED BY <1>2, <1>3, <1>4 DEF IInv

LEMMA IdleIsSent ==
  ASSUME IInv, TypeOK', NEW sent \in BOOLEAN, SendTerminalIdle(sent)
  PROVE  IInv'
<1> DEFINE g == lease.generation
<1>1. UNCHANGED <<NextGeneration, LastLease>>
  BY DEF NextGeneration, LastLease, SendTerminalIdle
<1>2. /\ lease \in Lease /\ lease # NoLease /\ lease.id \in LeaseId /\ lease.id # 0
      /\ g \in Generation /\ lease.device \in Device /\ ~owed
      /\ stage = "idle" /\ stage' = "finish" /\ lease.phase = "releasing"
      /\ route[lease.id] = g /\ peer[g] = lease.device
  BY SlotFacts, LeaseIsSome DEF IInv, SendTerminalIdle, Released, Slot
<1>3. /\ Current(g)' => Current(g) /\ gate[g] = 0 /\ told' = [told EXCEPT ![lease.id] = "idle"]
      /\ \A h \in Generation : Current(h)' => Current(h)
  <2>1. CASE ~Current(g)
    BY <2>1 DEF SendTerminalIdle, Current
  <2>2. CASE Current(g) /\ sent
    BY <2>2 DEF SendTerminalIdle, Current
  <2>3. CASE Current(g) /\ ~sent
    <3>1. body' = [body EXCEPT ![lease.device] = 0] /\ UNCHANGED <<peer, lease>>
      BY <2>3 DEF SendTerminalIdle
    <3>2. body'[lease.device] = 0 /\ \A d \in Device : d # lease.device => body'[d] = body[d]
      BY <1>2, <3>1 DEF IInv, TypeOK
    <3>3. \A h \in Generation : h # 0
      BY BoundsAssumption DEF Generation
    <3> QED BY <1>2, <3>1, <3>2, <3>3 DEF Current
  <2> QED BY <2>1, <2>2, <2>3
<1>4. /\ \A l \in LeaseId : told'[l] \in {told[l], "idle"}
      /\ \A l \in LeaseId : l # lease.id => told'[l] = told[l]
      /\ told' # told => gate[g] = 0
  BY DEF IInv, TypeOK, SendTerminalIdle
<1>5. Numbered' /\ Known' /\ Released' /\ Slot'
  BY <1>1, <1>2 DEF IInv, Numbered, Known, Released, Slot, SendTerminalIdle
<1>6. Running' /\ Settled'
  BY <1>2 DEF IInv, Running, Settled, Routable, SendTerminalIdle
<1>7. Gated'
  <2>1. \A h \in Generation : gate[h] # 0 => gate[h] \in LeaseId
    BY BoundsAssumption DEF IInv, TypeOK, LeaseId
  <2>2. \A h \in Generation : gate[h] # 0 /\ told' # told => gate[h] # lease.id
    BY <1>2, <1>4 DEF IInv, Gated
  <2> QED BY <1>4, <2>1, <2>2 DEF IInv, Gated, SendTerminalIdle
<1>8. Finishing'
  BY <1>2, <1>3 DEF IInv, Finishing, SendTerminalIdle, TypeOK
<1>9. Heard'
  <2>1. route[lease.id] # 0
    BY <1>2, BoundsAssumption DEF Generation
  <2> QED BY <1>2, <1>4, <2>1 DEF IInv, Heard, SendTerminalIdle
<1>10. HandoverIsClean'
  <2>1. \A l \in LeaseId : route[l] # 0 => route[l] \in Generation
    BY BoundsAssumption DEF IInv, TypeOK, Generation
  <2> QED BY <1>2, <1>3, <1>4, <2>1 DEF IInv, HandoverIsClean, Over, SendTerminalIdle
<1>11. LeaseIsWatched'
  BY <1>2 DEF LeaseIsWatched, Routable, SendTerminalIdle
<1> QED BY <1>5, <1>6, <1>7, <1>8, <1>9, <1>10, <1>11 DEF IInv

LEMMA ReleaseEnds == ASSUME IInv, TypeOK', FinishRelease PROVE IInv'
<1>1. UNCHANGED <<NextGeneration, LastLease>>
  BY DEF NextGeneration, LastLease, FinishRelease
<1>2. /\ lease # NoLease /\ ~owed /\ stage = "finish" /\ lease' = NoLease /\ stage' = "none"
      /\ lease'.id = 0 /\ \A l \in LeaseId : l # 0
  BY BoundsAssumption DEF IInv, FinishRelease, Released, NoLease, LeaseId
<1>3. Numbered' /\ Known' /\ Released' /\ Slot'
  BY <1>1, <1>2 DEF IInv, Numbered, Known, Released, Slot, FinishRelease
<1>4. Running' /\ Settled' /\ Gated' /\ Finishing' /\ Heard'
  BY <1>2 DEF IInv, Running, Settled, Gated, Finishing, Heard, FinishRelease, Routable, Released
<1>5. HandoverIsClean'
  <2>1. ASSUME NEW l \in LeaseId, route[l] # 0, lease.id = l
        PROVE  /\ turn[l] \notin {"running", "aborted"}
               /\ Current(route[l]) => gate[route[l]] # l /\ told[l] = "idle"
    BY <1>2, <2>1 DEF IInv, Settled, Finishing, Slot
  <2> QED BY <2>1 DEF IInv, HandoverIsClean, Over, FinishRelease, Current
<1>6. LeaseIsWatched'
  BY <1>2 DEF LeaseIsWatched, Routable
<1> QED BY <1>3, <1>4, <1>5, <1>6 DEF IInv

LEMMA ReleasingKeeps == IInv /\ Releasing => IInv'
<1> SUFFICES ASSUME IInv, Releasing PROVE IInv'
  OBVIOUS
<1>1. TypeOK'
  BY ReleasingTypes DEF IInv
<1>2. ASSUME NEW l \in LeaseId, WatchLeaseExpiry(l) PROVE IInv'
  <2>1. lease \in Lease /\ lease.phase # "releasing" /\ stage = "none" /\ UNCHANGED stage
    BY <1>2, Routed DEF WatchLeaseExpiry
  <2>2. lease' = [lease EXCEPT !.watched = FALSE]
    BY <1>2 DEF WatchLeaseExpiry
  <2>3. lease' \in Lease
    BY <2>1, <2>2, LeaseTypes
  <2>4. SameLease /\ lease'.playback = lease.playback
    BY <2>1, <2>2, <2>3, LeaseKept DEF SameLease
  <2>5. GoesOn
    BY <1>2, <2>4 DEF WatchLeaseExpiry, GoesOn
  <2> QED BY <1>1, <2>5, LeaseGoesOn
<1>3. CASE ReleaseRoute
  <2>1. lease # NoLease /\ stage = "none" /\ BeginRelease
    BY <1>3 DEF IInv, ReleaseRoute, Released
  <2> QED BY <1>1, <1>3, <2>1, ReleaseBegins DEF ReleaseRoute, IInv
<1>4. ASSUME NEW sent \in BOOLEAN, ReleaseAwaitsTurn(sent) PROVE IInv'
  BY <1>1, <1>4, TurnAwaited
<1>5. ASSUME NEW sent \in BOOLEAN, SendTerminalIdle(sent) PROVE IInv'
  BY <1>1, <1>5, IdleIsSent
<1>6. CASE FinishRelease
  BY <1>1, <1>6, ReleaseEnds
<1> QED BY <1>2, <1>3, <1>4, <1>5, <1>6 DEF Releasing

\* A lease is granted: it is new, and what it finds is what the last one left.
LEMMA Acquired ==
  ASSUME IInv, TypeOK', NEW g \in Generation, NEW t \in Trigger, NEW direct \in BOOLEAN,
         AcquireLease(g, t, direct)
  PROVE  IInv'
<1> DEFINE l == LastLease + 1
<1>1. /\ l \in LeaseId /\ l # 0 /\ LastLease \in Int
      /\ lease = NoLease /\ stage = "none" /\ ~owed /\ Current(g) /\ g # 0
      /\ \A h \in Generation : peer[h] # "none" <=> h < NextGeneration
      /\ peer[g] \in Device
  BY BoundsAssumption, LastIsNumber DEF AcquireLease, IInv, Released, Numbered, LeaseId,
     Generation, Current
<1>2. /\ lease' \in Lease /\ lease'.id = l /\ lease'.generation = g /\ lease'.device = peer[g]
      /\ lease'.phase # "releasing" /\ lease'.playback = "none" /\ lease' # NoLease
  <2>1. lease' = [id |-> l, device |-> peer[g], generation |-> g,
                  phase |-> IF t = "wake_word" THEN "woken" ELSE "granted",
                  direct |-> direct, watched |-> FALSE, complete |-> FALSE,
                  playback |-> "none"]
    BY DEF AcquireLease
  <2>2. lease' \in Lease
    BY <1>1, <2>1 DEF Lease, Phase
  <2> QED BY <2>1, <2>2, LeaseIsSome
<1>3. /\ route'[l] = g /\ \A k \in LeaseId : k # l => route'[k] = route[k]
      /\ route[l] = 0
  BY <1>1 DEF AcquireLease, IInv, TypeOK, Numbered
<1>4. NextGeneration' = NextGeneration
  BY DEF AcquireLease, NextGeneration
<1>5. LastLease' = l
  <2>1. \A k \in LeaseId : route[k] # 0 <=> k <= LastLease
    BY DEF IInv, Numbered
  <2>2. \A k \in LeaseId : k # l => (k <= LastLease <=> k <= l)
    BY <1>1 DEF LeaseId
  <2>3. \A k \in LeaseId : route'[k] # 0 <=> k <= l
    BY <1>1, <1>3, <2>1, <2>2
  <2>4. l \in 1 .. MaxLeases
    BY <1>1 DEF LeaseId
  <2> HIDE DEF l
  <2>5. {k \in LeaseId : route'[k] # 0} = 1 .. l
    BY <2>3, <2>4, BoundsAssumption DEF LeaseId
  <2>6. Cardinality(1 .. l) = l
    BY <2>4, BoundsAssumption, FS_Interval
  <2> QED BY <2>5, <2>6 DEF LastLease
<1>6. Numbered'
  BY <1>1, <1>3, <1>4, <1>5 DEF IInv, Numbered, AcquireLease, LeaseId
<1>7. g < NextGeneration
  BY <1>1, BoundsAssumption DEF Current
<1>8. Known'
  <2>1. \A k \in LeaseId : route'[k] < NextGeneration'
    BY <1>3, <1>4, <1>7 DEF IInv, Known
  <2>2. request'.by = g
    BY DEF AcquireLease
  <2> QED BY <1>1, <1>4, <1>5, <1>7, <2>1, <2>2 DEF Known
<1>9. Released' /\ Slot'
  BY <1>1, <1>2, <1>3, <1>5 DEF Released, Slot, AcquireLease, Current
<1>10. lease.id = 0 /\ \A k \in LeaseId : k # 0
  BY <1>1, SlotFacts, BoundsAssumption DEF IInv, LeaseId
<1>11. Running' /\ Settled' /\ Finishing'
  BY <1>1, <1>2, <1>10 DEF IInv, Running, Settled, Finishing, AcquireLease, Routable
<1>12. \A h \in Generation : gate[h] # l
  BY <1>1, <1>3, BoundsAssumption DEF IInv, Gated, Generation
<1>13. Gated'
  BY <1>3, <1>12 DEF IInv, Gated, AcquireLease, TypeOK
<1>14. Heard'
  BY <1>1, <1>2, <1>3 DEF IInv, Heard, AcquireLease
<1>15. HandoverIsClean'
  BY <1>1, <1>2, <1>3, <1>10 DEF IInv, HandoverIsClean, Over, AcquireLease, Current
<1>16. LeaseIsWatched'
  BY DEF LeaseIsWatched, AcquireLease, NoRequest
<1> QED BY <1>6, <1>8, <1>9, <1>11, <1>13, <1>14, <1>15, <1>16 DEF IInv

LEMMA GrantIsSent ==
  ASSUME IInv, TypeOK', NEW delivered \in BOOLEAN, SendGrant(delivered)
  PROVE  IInv'
<1>1. UNCHANGED <<NextGeneration, LastLease>>
  BY DEF NextGeneration, LastLease, SendGrant
<1>2. /\ request.by \in Generation /\ request # NoRequest /\ request.at = "granted"
      /\ request' = NoRequest /\ request'.by = 0 /\ NextGeneration \in Nat
  BY LastIsNumber DEF IInv, TypeOK, SendGrant, NoRequest
<1>3. lease # NoLease => lease.generation = request.by /\ lease.id = LastLease
  BY <1>2 DEF IInv, Slot
<1>4. /\ lease = NoLease => lease' = NoLease
      /\ lease # NoLease => /\ lease' # NoLease /\ lease'.id = lease.id
                            /\ lease'.generation = lease.generation
                            /\ lease'.device = lease.device
                            /\ lease'.phase = lease.phase
                            /\ lease'.playback = lease.playback
                            /\ delivered /\ lease.phase # "releasing" => lease'.watched
  <2>1. CASE lease = NoLease
    <3>1. lease.id = 0 /\ LastLease # 0
      BY <1>2, <2>1 DEF NoLease, IInv, Known
    <3>2. ~Routable(LastLease)
      BY <3>1 DEF Routable
    <3>3. lease' = lease
      BY <3>2 DEF SendGrant
    <3> QED BY <2>1, <3>3
  <2>2. CASE lease # NoLease
    <3>1. lease \in Lease
      BY <2>2, SlotFacts DEF IInv
    <3>2. \/ lease' = lease
          \/ lease' = [lease EXCEPT !.watched = TRUE]
      BY DEF SendGrant
    <3>3. delivered /\ lease.phase # "releasing" => lease' = [lease EXCEPT !.watched = TRUE]
      BY <1>3, <2>2 DEF SendGrant, Routable
    <3>4. [lease EXCEPT !.watched = TRUE] \in Lease
      BY <3>1, LeaseTypes
    <3> DEFINE w == [lease EXCEPT !.watched = TRUE]
    <3>5. /\ w.id = lease.id /\ w.generation = lease.generation /\ w.device = lease.device
          /\ w.phase = lease.phase /\ w.playback = lease.playback /\ w.watched
      BY <3>1 DEF Lease
    <3>6. w # NoLease
      BY <3>4, LeaseIsSome
    <3> HIDE DEF w
    <3> QED BY <2>2, <3>2, <3>3, <3>5, <3>6 DEF w
  <2> QED BY <2>1, <2>2
<1>5. /\ ~delivered => socket'[request.by] = "closing"
      /\ \A g \in Generation : socket[g] = "closing" => socket'[g] = "closing"
  BY <1>2 DEF IInv, TypeOK, SendGrant
<1>6. \A l \in LeaseId : lease'.id = l <=> lease.id = l
  BY <1>4
<1>7. \A l \in LeaseId : Routable(l)' <=> Routable(l)
  BY <1>4 DEF Routable
<1>8. Numbered' /\ Known'
  <2>1. 0 < NextGeneration
    BY <1>2, BoundsAssumption DEF IInv, Known, Generation
  <2> QED BY <1>1, <1>2, <2>1 DEF IInv, Numbered, Known, SendGrant
<1>9. Released' /\ Slot'
  BY <1>1, <1>2, <1>4 DEF IInv, Released, Slot, SendGrant, Current
<1>10. Running' /\ Settled' /\ Gated' /\ Finishing' /\ Heard'
  BY <1>4, <1>7 DEF IInv, Running, Settled, Gated, Finishing, Heard, SendGrant, Released, Current
<1>11. HandoverIsClean'
  BY <1>6 DEF IInv, HandoverIsClean, Over, SendGrant, Current
<1>12. LeaseIsWatched'
  <2>1. ASSUME NEW l \in LeaseId, Routable(l)'
        PROVE  \/ lease'.watched \/ owed'
               \/ Current(lease.generation)' /\ socket'[lease'.generation] = "closing"
    <3>1. lease # NoLease /\ lease.phase # "releasing" /\ stage = "none"
      BY <1>7, <2>1, SlotFacts DEF IInv, Routable, Released
    <3>2. CASE delivered
      BY <1>4, <3>1, <3>2
    <3>3. CASE ~delivered
      <4>1. Current(lease.generation) \/ owed
        BY <3>1 DEF IInv, Slot
      <4> QED BY <1>3, <1>4, <1>5, <3>1, <3>3, <4>1 DEF SendGrant, Current
    <3> QED BY <3>2, <3>3
  <2> QED BY <2>1 DEF LeaseIsWatched
<1> QED BY <1>8, <1>9, <1>10, <1>11, <1>12 DEF IInv

LEMMA GrantingKeeps == IInv /\ Granting => IInv'
<1> SUFFICES ASSUME IInv, Granting PROVE IInv'
  OBVIOUS
<1>1. TypeOK'
  BY GrantingTypes DEF IInv
<1>2. ASSUME NEW g \in Generation, NEW t \in Trigger, RequestCapture(g, t) PROVE IInv'
  <2>1. ASSUME NEW direct \in BOOLEAN, AcquireLease(g, t, direct) PROVE IInv'
    BY <1>1, <2>1, Acquired
  <2>2. ASSUME lease # NoLease, lease.phase = "woken", BeginRelease,
               request' = [by |-> g, at |-> "preempting"],
               UNCHANGED <<peer, socket, body, adapter, route, gate, told>>
        PROVE  IInv'
    <3>1. stage = "none"
      BY <2>2 DEF IInv, Released
    <3>2. request'.at = "preempting" /\ request'.by < NextGeneration
      <4>1. peer[g] # "none"
        BY <1>2, BoundsAssumption DEF RequestCapture, Current
      <4> QED BY <2>2, <4>1 DEF IInv, Numbered
    <3> QED BY <1>1, <2>2, <3>1, <3>2, ReleaseBegins DEF IInv
  <2> QED BY <1>2, <2>1, <2>2 DEF RequestCapture
<1>3. ASSUME NEW granted \in BOOLEAN, GrantPreempted(granted) PROVE IInv'
  <2>1. request.by \in Generation /\ lease = NoLease
    BY <1>3 DEF GrantPreempted, IInv, TypeOK
  <2>2. ASSUME NEW direct \in BOOLEAN, AcquireLease(request.by, "action_button", direct)
        PROVE IInv'
    BY <1>1, <2>1, <2>2, Acquired DEF Trigger
  <2>3. CASE granted
    BY <1>3, <2>2, <2>3 DEF GrantPreempted
  <2>4. CASE ~granted
    <3>1. UNCHANGED <<NextGeneration, LastLease>>
      BY <1>3, <2>4 DEF GrantPreempted, NextGeneration, LastLease
    <3>2. 0 < NextGeneration /\ request'.by = 0
      BY <1>3, <2>1, <2>4, LastIsNumber, BoundsAssumption
         DEF GrantPreempted, NoRequest, IInv, Known, Generation
    <3>3. Numbered' /\ Known' /\ Released' /\ Slot'
      BY <1>3, <2>1, <2>4, <3>1, <3>2
         DEF GrantPreempted, IInv, Numbered, Known, Released, Slot
    <3>4. Running' /\ Settled' /\ Gated' /\ Finishing' /\ Heard'
      BY <1>3, <2>4 DEF GrantPreempted, IInv, Running, Settled, Gated, Finishing, Heard,
         Routable, Current
    <3>5. HandoverIsClean' /\ LeaseIsWatched'
      BY <1>3, <2>1, <2>4, SlotFacts DEF GrantPreempted, IInv, HandoverIsClean,
         LeaseIsWatched, Over, Routable, Current
    <3> QED BY <1>1, <3>3, <3>4, <3>5 DEF IInv
  <2> QED BY <2>3, <2>4
<1>4. ASSUME NEW delivered \in BOOLEAN, SendGrant(delivered) PROVE IInv'
  BY <1>1, <1>4, GrantIsSent
<1>5. ASSUME NEW l \in LeaseId, CancelCapture(l) PROVE IInv'
  BY <1>1, <1>5, GivesGoesOn DEF CancelCapture
<1> QED BY <1>2, <1>3, <1>4, <1>5 DEF Granting

\* Connections come and go: none comes back, and the lease of one that does not
\* count any more is owed its release.
ConnectionsChange ==
    /\ owed => owed'
    /\ owed' => owed \/ \E l \in LeaseId : Routable(l)
    /\ NextGeneration' \in Int /\ NextGeneration <= NextGeneration'
    /\ \A g \in Generation : g < NextGeneration =>
          peer'[g] = peer[g] /\ (Current(g)' => Current(g))
    /\ lease # NoLease /\ stage = "none" /\ Current(lease.generation) =>
          \/ owed'
          \/ /\ Current(lease.generation)'
             /\ socket'[lease.generation] = socket[lease.generation]
    /\ UNCHANGED <<request, lease, stage, route, turn, gate, told>>

LEMMA ConnectionsKeep ==
  ASSUME IInv, TypeOK', Numbered', ConnectionsChange
  PROVE  IInv'
<1>1. LastLease' = LastLease /\ NextGeneration \in Nat
  BY LastIsNumber DEF LastLease, ConnectionsChange
<1>2. /\ lease # NoLease => lease.generation \in Generation /\ lease.id \in LeaseId
                            /\ lease.generation < NextGeneration
      /\ \A l \in LeaseId : route[l] # 0 => route[l] \in Generation /\ route[l] < NextGeneration
      /\ request.by \in Nat
  <2>1. \A l \in LeaseId : route[l] # 0 => route[l] \in Generation /\ route[l] < NextGeneration
    BY BoundsAssumption DEF IInv, TypeOK, Known, Generation
  <2>2. request.by \in Nat
    BY BoundsAssumption DEF IInv, TypeOK, NoRequest, Generation
  <2> QED BY <2>1, <2>2, SlotFacts DEF IInv, Slot, Known
<1>3. Known'
  BY <1>1, <1>2 DEF IInv, Known, ConnectionsChange, TypeOK
<1>4. Released'
  <2>1. (\E l \in LeaseId : Routable(l)) => lease # NoLease /\ stage = "none"
    BY Routed, LeaseIsSome
  <2> QED BY <2>1 DEF IInv, Released, ConnectionsChange
<1>5. Slot'
  BY <1>1, <1>2 DEF IInv, Slot, ConnectionsChange
<1>6. Running' /\ Settled' /\ Gated' /\ Heard'
  BY DEF IInv, Running, Settled, Gated, Heard, ConnectionsChange, Routable
<1>7. Finishing'
  BY <1>2 DEF IInv, Finishing, ConnectionsChange, Released
<1>8. HandoverIsClean'
  BY <1>2 DEF IInv, HandoverIsClean, ConnectionsChange, Over
<1>9. LeaseIsWatched'
  <2>1. ASSUME NEW l \in LeaseId, Routable(l)
        PROVE  lease # NoLease /\ stage = "none"
    BY <2>1, Routed, LeaseIsSome
  <2> QED BY <2>1 DEF IInv, LeaseIsWatched, ConnectionsChange, Routable
<1> QED BY <1>3, <1>4, <1>5, <1>6, <1>7, <1>8, <1>9 DEF IInv

LEMMA ConnectingKeeps == IInv /\ Connecting => IInv'
<1> SUFFICES ASSUME IInv, Connecting PROVE IInv'
  OBVIOUS
<1>1. TypeOK'
  BY ConnectingTypes DEF IInv
<1>2. lease # NoLease => /\ lease.id \in LeaseId /\ lease.generation \in Generation
                         /\ lease.device \in Device /\ lease.device = peer[lease.generation]
                         /\ stage = "none" => Routable(lease.id)
  BY SlotFacts DEF IInv, Slot, Released, Routable
<1>3. ASSUME NEW d \in Device, RegisterBody(d) PROVE IInv'
  <2> DEFINE g == NextGeneration
  <2>1. /\ g \in Generation /\ g \in Nat
        /\ peer'[g] = d /\ \A h \in Generation : h # g => peer'[h] = peer[h]
        /\ body'[d] = g /\ \A e \in Device : e # d => body'[e] = body[e]
        /\ \A h \in Generation : h # g => socket'[h] = socket[h]
    BY <1>3, LastIsNumber DEF RegisterBody, IInv, TypeOK
  <2>2. \A h \in Generation : peer[h] # "none" <=> h < g
    BY DEF IInv, Numbered
  <2>3. \A h \in Generation : peer'[h] # "none" <=> h < g + 1
    BY <2>1, <2>2, BoundsAssumption DEF Generation
  <2>4. g \in 1 .. MaxGenerations
    BY <2>1 DEF Generation
  <2>5. NextGeneration' = g + 1
    <3> HIDE DEF g
    <3>1. {h \in Generation : peer'[h] # "none"} = 1 .. g
      BY <2>3, <2>4, BoundsAssumption DEF Generation
    <3>2. Cardinality(1 .. g) = g
      BY <2>4, BoundsAssumption, FS_Interval
    <3> QED BY <3>1, <3>2 DEF NextGeneration
  <2>6. UNCHANGED <<route, lease>> /\ LastLease' = LastLease
    BY <1>3 DEF RegisterBody, LastLease
  <2>7. Numbered'
    BY <2>3, <2>5, <2>6 DEF IInv, Numbered
  <2>8. \A h \in Generation : h < g =>
          /\ Current(h)' => Current(h)
          /\ Current(h) /\ peer[h] # d => Current(h)'
    BY <2>1 DEF Current
  <2>9. lease # NoLease /\ stage = "none" /\ Current(lease.generation) /\ lease.device = d => owed'
    <3>1. lease # NoLease /\ stage = "none" /\ Current(lease.generation) /\ lease.device = d =>
             Holds(d, {body[d]})
      BY <1>2 DEF Holds, Current
    <3> QED BY <1>3, <3>1 DEF RegisterBody
  <2>10. owed' => owed \/ \E l \in LeaseId : Routable(l)
    BY <1>3 DEF RegisterBody, Holds
  <2>11. lease # NoLease => lease.generation < g
    BY <1>2, <2>2, BoundsAssumption
  <2>12. owed => owed'
    BY <1>3 DEF RegisterBody
  <2>13. lease # NoLease /\ stage = "none" /\ Current(lease.generation) =>
            \/ owed'
            \/ /\ Current(lease.generation)'
               /\ socket'[lease.generation] = socket[lease.generation]
    <3>1. CASE lease # NoLease /\ stage = "none" /\ Current(lease.generation) /\ ~owed'
      <4>1. lease.device # d /\ lease.generation # g
        BY <2>9, <2>11, <3>1, <2>1
      <4>2. Current(lease.generation)'
        BY <1>2, <2>1, <2>6, <3>1, <4>1 DEF Current
      <4> QED BY <1>2, <2>1, <2>6, <3>1, <4>1, <4>2
    <3> QED BY <3>1
  <2>14. ConnectionsChange
    BY <1>3, <2>1, <2>5, <2>8, <2>10, <2>12, <2>13 DEF ConnectionsChange, RegisterBody
  <2> QED BY <1>1, <2>7, <2>14, ConnectionsKeep
<1>4. ASSUME UNCHANGED <<peer, route>>
      PROVE  Numbered' /\ NextGeneration' = NextGeneration /\ NextGeneration \in Nat
  <2>1. UNCHANGED <<NextGeneration, LastLease>>
    BY <1>4 DEF NextGeneration, LastLease
  <2> QED BY <1>4, <2>1, LastIsNumber DEF IInv, Numbered
<1>5. ASSUME NEW d \in Device, RevokeEndpoint(d) PROVE IInv'
  <2>1. body'[d] = 0 /\ \A e \in Device : e # d => body'[e] = body[e]
    BY <1>5 DEF RevokeEndpoint, IInv, TypeOK
  <2>2. \A h \in Generation : /\ Current(h)' => Current(h)
                              /\ Current(h) /\ peer[h] # d => Current(h)'
    BY <1>5, <2>1, BoundsAssumption DEF RevokeEndpoint, Current, Generation
  <2>3. lease # NoLease /\ stage = "none" /\ lease.device = d => owed'
    BY <1>2, <1>5 DEF RevokeEndpoint, Holds
  <2>4. /\ owed' => owed \/ \E l \in LeaseId : Routable(l)
        /\ owed => owed'
        /\ UNCHANGED <<peer, socket, request, lease, stage, route, turn, gate, told>>
    BY <1>5 DEF RevokeEndpoint, Holds
  <2>5. ConnectionsChange
    BY <1>2, <1>4, <2>2, <2>3, <2>4 DEF ConnectionsChange
  <2> QED BY <1>1, <1>4, <2>4, <2>5, ConnectionsKeep
<1>6. ASSUME NEW g \in Generation, UnregisterBody(g) PROVE IInv'
  <2>1. \A h \in Generation : h # g => socket'[h] = socket[h]
    BY <1>6 DEF UnregisterBody, IInv, TypeOK
  <2>2. \A h \in Generation : /\ Current(h)' => Current(h)
                              /\ Current(h) /\ h # g => Current(h)'
    <3>1. CASE Current(g)
      <4>1. body' = [body EXCEPT ![peer[g]] = 0] /\ peer' = peer
        BY <1>6, <3>1 DEF UnregisterBody
      <4>2. peer[g] \in Device /\ body[peer[g]] = g
        BY <3>1 DEF Current
      <4>3. body'[peer[g]] = 0 /\ \A e \in Device : e # peer[g] => body'[e] = body[e]
        BY <4>1, <4>2 DEF IInv, TypeOK
      <4> QED BY <4>1, <4>2, <4>3, BoundsAssumption DEF Current, Generation
    <3>2. CASE ~Current(g)
      BY <1>6, <3>2 DEF UnregisterBody, Current
    <3> QED BY <3>1, <3>2
  <2>3. lease # NoLease /\ stage = "none" /\ Current(lease.generation) /\ lease.generation = g => owed'
    BY <1>2, <1>6 DEF UnregisterBody, Holds
  <2>4. /\ owed' => owed \/ \E l \in LeaseId : Routable(l)
        /\ owed => owed'
        /\ UNCHANGED <<peer, request, lease, stage, route, turn, gate, told>>
    BY <1>6 DEF UnregisterBody, Holds
  <2>5. ConnectionsChange
    BY <1>2, <1>4, <2>1, <2>2, <2>3, <2>4 DEF ConnectionsChange
  <2> QED BY <1>1, <1>4, <2>4, <2>5, ConnectionsKeep
<1>7. CASE RegisterAdapter \/ UnregisterAdapter
  <2>1. /\ owed' => owed \/ \E l \in LeaseId : Routable(l)
        /\ owed => owed'
        /\ UNCHANGED <<peer, socket, body, request, lease, stage, route, turn, gate, told>>
    <3>1. CASE RegisterAdapter
      BY <3>1 DEF RegisterAdapter
    <3>2. CASE UnregisterAdapter
      BY <3>2 DEF UnregisterAdapter
    <3> QED BY <1>7, <3>1, <3>2
  <2>2. ConnectionsChange
    BY <1>4, <2>1 DEF ConnectionsChange, Current
  <2> QED BY <1>1, <1>4, <2>1, <2>2, ConnectionsKeep
<1> QED BY <1>3, <1>5, <1>6, <1>7 DEF Connecting

-----------------------------------------------------------------------------
(***************************************************************************)
(* The theorems.                                                           *)
(***************************************************************************)
LEMMA InitInv == Init => IInv
<1> SUFFICES ASSUME Init PROVE IInv
  OBVIOUS
<1>1. TypeOK
  <2>1. 0 \in 0 .. MaxGenerations /\ 0 \in 0 .. MaxLeases /\ "granted" \in Told
    BY BoundsAssumption DEF Told
  <2>2. /\ request \in {NoRequest} \cup [by : Generation, at : {"preempting", "granted"}]
        /\ lease \in {NoLease} \cup Lease
    BY DEF Init
  <2>3. peer \in [Generation -> Device \cup {"none"}]
    BY DEF Init
  <2> QED BY <2>1, <2>2, <2>3 DEF Init, TypeOK
<1>2. NextGeneration = 1 /\ LastLease = 0
  <2>1. /\ {g \in Generation : peer[g] # "none"} = {}
        /\ {l \in LeaseId : route[l] # 0} = {}
    BY DEF Init
  <2> QED BY <2>1, FS_EmptySet DEF NextGeneration, LastLease
<1>3. Numbered /\ Known /\ Released /\ Slot
  BY <1>2, BoundsAssumption DEF Init, Numbered, Known, Released, Slot, NoRequest, NoLease,
     Generation, LeaseId
<1>4. lease.id = 0 /\ \A l \in LeaseId : l # 0
  BY BoundsAssumption DEF Init, NoLease, LeaseId
<1>5. Running /\ Settled /\ Gated /\ Finishing /\ Heard
  BY DEF Init, Running, Settled, Gated, Finishing, Heard
<1>6. HandoverIsClean /\ LeaseIsWatched
  BY <1>4 DEF Init, HandoverIsClean, LeaseIsWatched, Over, Routable
<1> QED BY <1>1, <1>3, <1>5, <1>6 DEF IInv

LEMMA StepInv == IInv /\ [Next]_vars => IInv'
<1>1. IInv /\ Next => IInv'
  BY ConnectingKeeps, GrantingKeeps, CapturingKeeps, TurningKeeps, PlayingKeeps,
     ReleasingKeeps DEF Next
<1>2. IInv /\ UNCHANGED vars => IInv'
  BY DEF vars, IInv, TypeOK, Numbered, Known, Released, Slot, Running, Settled, Gated,
     Finishing, Heard, HandoverIsClean, LeaseIsWatched, Over, Routable, Current,
     NextGeneration, LastLease
<1> QED BY <1>1, <1>2

\* The gateway's state always holds values of its types.
THEOREM TypeCorrect == Spec => []TypeOK
<1>1. IInv => TypeOK
  BY DEF IInv
<1> QED BY <1>1, InitInv, StepInv, PTL DEF Spec

\* A lease in use always has something that will end it, whatever bodies connect,
\* are replaced or are revoked while it is granted (request_capture, watch_lease_expiry,
\* register_body).
THEOREM LeaseHasItsEnd == Spec => []LeaseIsWatched
<1>1. IInv => LeaseIsWatched
  BY DEF IInv
<1> QED BY <1>1, InitInv, StepInv, PTL DEF Spec

\* A lease is handed on only when its turn is settled and its body was told, if the
\* body is still there (release_route, finish_release).
THEOREM HandoverCorrect == Spec => []HandoverIsClean
<1>1. IInv => HandoverIsClean
  BY DEF IInv
<1> QED BY <1>1, InitInv, StepInv, PTL DEF Spec

\* A body hears of a step only if the step opens its stream, closes it, or ends its turn.
LEMMA OrderStep == IInv /\ [Next]_vars => [Contract!Next]_told
<1> SUFFICES ASSUME IInv, Next PROVE Contract!Next \/ UNCHANGED told
  BY DEF vars
<1>1. CASE Connecting
  BY <1>1 DEF Connecting, RegisterBody, RevokeEndpoint, UnregisterBody, RegisterAdapter,
     UnregisterAdapter
<1>2. CASE Granting
  BY <1>2 DEF Granting, RequestCapture, AcquireLease, GrantPreempted, SendGrant, CancelCapture
<1>3. CASE Capturing
  BY <1>3 DEF Capturing, OpenCapture, CloseCapture, ForwardMicrophoneFails, TranscriptFinal,
     TranscriptEmpty
<1>4. CASE Turning
  BY <1>4 DEF Turning, AttachTurn, SettleTurn, TurnTaskFinished, VoiceFails
<1>5. CASE Playing
  <2>1. ASSUME NEW l \in LeaseId,
               \/ QueueBodyPcm(l) \/ MarkTtsEnd(l) \/ FlushPlayback(l) \/ PlaybackDrained(l)
               \/ PlaybackFailed(l) \/ ReleaseIfDrained(l)
        PROVE  UNCHANGED told
    BY <2>1 DEF QueueBodyPcm, MarkTtsEnd, FlushPlayback, PlaybackDrained, PlaybackFailed,
       ReleaseIfDrained
  <2>2. ASSUME NEW l \in LeaseId, NEW sent \in BOOLEAN, OpenBodyPlayback(l, sent)
        PROVE  Contract!Next \/ UNCHANGED told
    <3>1. lease.id = l /\ lease # NoLease /\ stage = "none" /\ lease.playback = "unopened"
      BY <2>2, Routed, LeaseIsSome DEF OpenBodyPlayback, Speaking
    <3>2. told[l] = "granted"
      BY <3>1 DEF IInv, Heard
    <3> QED BY <2>2, <3>2 DEF OpenBodyPlayback, Contract!Next, Contract!Open
  <2>3. ASSUME NEW g \in Generation, NEW sent \in BOOLEAN, FlushSends(g, sent)
        PROVE  Contract!Next \/ UNCHANGED told
    <3>1. gate[g] \in LeaseId /\ told[gate[g]] = "open"
      BY <2>3, BoundsAssumption DEF FlushSends, IInv, Gated, TypeOK, LeaseId
    <3> QED BY <2>3, <3>1 DEF FlushSends, Contract!Next, Contract!Close
  <2> QED BY <1>5, <2>1, <2>2, <2>3 DEF Playing
<1>6. CASE Releasing
  <2>1. CASE \/ \E l \in LeaseId : WatchLeaseExpiry(l)
             \/ ReleaseRoute \/ FinishRelease
             \/ \E sent \in BOOLEAN : ReleaseAwaitsTurn(sent)
    BY <2>1 DEF WatchLeaseExpiry, ReleaseRoute, FinishRelease, ReleaseAwaitsTurn
  <2>2. ASSUME NEW sent \in BOOLEAN, SendTerminalIdle(sent)
        PROVE  Contract!Next \/ UNCHANGED told
    <3>1. lease.id \in LeaseId
      BY <2>2, SlotFacts DEF SendTerminalIdle, IInv, Released
    <3>2. CASE told[lease.id] = "idle"
      BY <2>2, <3>1, <3>2 DEF SendTerminalIdle, IInv, TypeOK
    <3>3. CASE told[lease.id] # "idle"
      BY <2>2, <3>1, <3>3 DEF SendTerminalIdle, Contract!Next, Contract!Idle
    <3> QED BY <3>2, <3>3
  <2> QED BY <1>6, <2>1, <2>2 DEF Releasing
<1> QED BY <1>1, <1>2, <1>3, <1>4, <1>5, <1>6 DEF Next

\* What bodies are sent about their leases keeps the order they are promised
\* (open_body_playback, flush_playback, send_terminal_idle).
THEOREM KeepsTheOrder == Spec => KeepsTurnOrder
<1>1. Init => Contract!Init
  BY DEF Init, Contract!Init
<1> QED BY <1>1, InitInv, StepInv, OrderStep, PTL DEF Spec, KeepsTurnOrder, Contract!Spec
=============================================================================
