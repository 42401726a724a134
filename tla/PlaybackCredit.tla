--------------------------- MODULE PlaybackCredit ---------------------------
(***************************************************************************)
(* The speech stream of one voice lease: the daemon's backlog and credit   *)
(* (PlaybackState in body/gateway.rs), the frames and reports on the wire, *)
(* and the device's playback ring (esp32-sdk bobe_audio.c).                *)
(*                                                                         *)
(* Both directions of the connection keep their order.  Frames on their    *)
(* way to the device are the ones sent and not yet received; the close     *)
(* follows them.  The device reports its progress through a mailbox of one *)
(* place, which a newer report overwrites (playback_progress_queue).  What *)
(* cannot be sent ends the connection.  A frame that has left the ring     *)
(* counts as played; the DMA buffers behind the ring are left out, and so  *)
(* is all but the number of the frames.                                    *)
(*                                                                         *)
(* Every call that queues, credits or closes ends with flush_playback,     *)
(* which waits for the send gate: the flush is a step of its own, enabled  *)
(* exactly while there is something for it to do.                          *)
(***************************************************************************)
EXTENDS Integers, Sequences

CONSTANTS
    MaxCredit,   \* MAX_PLAYBACK_CREDIT_FRAMES of the daemon
    MaxPending,  \* MAX_PENDING_PLAYBACK_FRAMES
    Buffer,      \* BOBE_PLAYBACK_CREDIT_FRAMES of the device
    Rebuffer,    \* BOBE_PLAYBACK_REBUFFER_FRAMES
    MaxFrames    \* bound: frames the turn produces

ASSUME CreditAssumption ==
    /\ MaxCredit \in Nat \ {0}
    /\ MaxPending \in Nat \ {0}
    /\ Buffer \in 1 .. MaxCredit
    /\ Rebuffer \in 1 .. Buffer
    /\ MaxFrames \in Nat

VARIABLES
    \* the daemon
    made,        \* frames the turn has produced
    pending,     \* length of the backlog
    credit,      \* credit_frames
    sent,        \* frames_sent
    acked,       \* played_samples, in frames
    ready,       \* ready_received
    closing,
    closed,      \* close_sent
    drained,
    held,        \* the lease is still routable
    \* the device and the wire
    reports,     \* messages on their way to the daemon
    mailbox,     \* the latest progress that is not on its way yet
    speaker,     \* "off", "filling", "playing", "starved", "failed" or "finished"
    received,    \* playback_frames_accepted
    played,      \* playback_frames_completed
    reported,    \* last_reported_frames
    shut         \* playback_closing

daemon == <<made, pending, credit, sent, acked, ready, closing, closed, drained, held>>
device == <<speaker, received, played, reported, shut>>
vars   == <<daemon, reports, mailbox, device>>

Ready(c)  == [kind |-> "ready", played |-> 0, credit |-> c]
Ack(n, c) == [kind |-> "ack", played |-> n, credit |-> c]
Drained   == [kind |-> "drained", played |-> 0, credit |-> 0]

Nothing   == [kind |-> "none"]

Report == [kind : {"ready", "ack", "drained"}, played : Nat, credit : 0 .. Buffer]

TypeOK ==
    /\ made \in 0 .. MaxFrames
    /\ pending \in 0 .. MaxPending
    /\ credit \in 0 .. MaxCredit
    /\ sent \in Nat
    /\ acked \in Nat
    /\ ready \in BOOLEAN
    /\ closing \in BOOLEAN
    /\ closed \in BOOLEAN
    /\ drained \in BOOLEAN
    /\ held \in BOOLEAN
    /\ reports \in Seq(Report)
    /\ mailbox \in {Nothing} \cup Report
    /\ speaker \in {"off", "filling", "playing", "starved", "failed", "finished"}
    /\ received \in Nat
    /\ played \in Nat
    /\ reported \in Nat
    /\ shut \in BOOLEAN

Init ==
    /\ made = 0 /\ pending = 0 /\ credit = 0 /\ sent = 0 /\ acked = 0
    /\ ready = FALSE /\ closing = FALSE /\ closed = FALSE /\ drained = FALSE
    /\ held = TRUE
    /\ reports = << >> /\ mailbox = Nothing
    /\ speaker = "off" /\ received = 0 /\ played = 0 /\ reported = 0
    /\ shut = FALSE

Least(S) == CHOOSE x \in S : \A y \in S : x <= y

-----------------------------------------------------------------------------
(***************************************************************************)
(* The daemon.                                                             *)
(***************************************************************************)

\* A frame of speech joins the backlog; one too many fails the route.
QueueBodyPcm ==
    /\ held
    /\ ~closed
    /\ made < MaxFrames
    /\ made' = made + 1
    /\ IF pending < MaxPending
       THEN pending' = pending + 1 /\ UNCHANGED held
       ELSE held' = FALSE /\ UNCHANGED pending
    /\ UNCHANGED <<credit, sent, acked, ready, closing, closed, drained,
                   reports, mailbox, device>>

MarkTtsEnd ==
    /\ held
    /\ ~closing
    /\ closing' = TRUE
    /\ UNCHANGED <<made, pending, credit, sent, acked, ready, closed, drained, held,
                   reports, mailbox, device>>

\* Mutant: the close does not wait for the backlog.
FlushClosesEarly ==
    LET n == Least({credit, pending}) IN
    /\ held
    /\ n > 0 \/ (closing /\ ~closed)
    /\ pending' = pending - n
    /\ credit' = credit - n
    /\ sent' = sent + n
    /\ closed' = (closed \/ closing)
    /\ UNCHANGED <<made, acked, ready, closing, drained, held, reports, mailbox, device>>

\* Under the send gate: what the credit covers leaves the backlog, and the
\* close follows the last frame.
FlushPlayback ==
    LET n == Least({credit, pending}) IN
    /\ held
    /\ n > 0 \/ (closing /\ pending = 0 /\ ~closed)
    /\ pending' = pending - n
    /\ credit' = credit - n
    /\ sent' = sent + n
    /\ closed' = (closed \/ (closing /\ pending = n))
    /\ UNCHANGED <<made, acked, ready, closing, drained, held, reports, mailbox, device>>

\* Mutant: frames on their way are forgotten.
GrantedAsReported(c, n) == Least({c, MaxCredit})

\* What the device says it has room for, less the frames it cannot have seen.
Granted(c, n) == Least({c, MaxCredit, MaxCredit - Least({sent - n, MaxCredit})})

Heard(kind) == held /\ reports # << >> /\ Head(reports).kind = kind

\* audio.playback.ready; a second one would change nothing.
ApplyReady ==
    /\ Heard("ready")
    /\ reports' = Tail(reports)
    /\ ready' = TRUE
    /\ credit' = IF ready THEN credit ELSE Granted(Head(reports).credit, acked)
    /\ UNCHANGED <<made, pending, sent, acked, closing, closed, drained, held, mailbox, device>>

\* Mutant: progress is noted and gives no credit.
ApplyAckNoted ==
    LET r == Head(reports) IN
    /\ Heard("ack")
    /\ reports' = Tail(reports)
    /\ held' = (r.played <= sent)
    /\ acked' = IF r.played \in acked + 1 .. sent THEN r.played ELSE acked
    /\ UNCHANGED <<made, pending, credit, sent, ready, closing, closed, drained, mailbox, device>>

\* audio.playback.ack: one that says more than was sent ends the connection,
\* one that says nothing new changes nothing.
ApplyAck ==
    LET r == Head(reports) IN
    /\ Heard("ack")
    /\ reports' = Tail(reports)
    /\ held' = (r.played <= sent)
    /\ IF r.played \in acked + 1 .. sent
       THEN /\ acked' = r.played
            /\ ready' = TRUE
            /\ credit' = Granted(r.credit, r.played)
       ELSE UNCHANGED <<acked, ready, credit>>
    /\ UNCHANGED <<made, pending, sent, closing, closed, drained, mailbox, device>>

\* audio.playback.drained before the close was sent ends the connection.
PlaybackDrained ==
    /\ Heard("drained")
    /\ reports' = Tail(reports)
    /\ drained' = closed
    /\ held' = closed
    /\ UNCHANGED <<made, pending, credit, sent, acked, ready, closing, closed, mailbox, device>>

\* The lease ends for a reason of its own: the body leaves, the turn fails, the
\* watchdog finds no progress.
LeaseEnds ==
    /\ held
    /\ ~drained
    /\ held' = FALSE
    /\ UNCHANGED <<made, pending, credit, sent, acked, ready, closing, closed, drained,
                   reports, mailbox, device>>

-----------------------------------------------------------------------------
(***************************************************************************)
(* The device.                                                             *)
(***************************************************************************)

OpenPlayback ==
    /\ speaker = "off"
    /\ speaker' = "filling"
    /\ reports' = Append(reports, Ready(Buffer))
    /\ UNCHANGED <<daemon, mailbox, received, played, reported, shut>>

Running == speaker \in {"filling", "playing", "starved"}

\* The speaker starts when the ring is full, and goes on after an underrun when
\* enough frames have come in again.
Woken(ring) ==
    \/ speaker = "filling" /\ ring = Buffer
    \/ speaker = "starved" /\ ring >= Rebuffer

\* A frame the ring has no room for fails the playback.
ReceiveFrame ==
    LET ring == received + 1 - played IN
    /\ Running
    /\ received < sent
    /\ IF ring <= Buffer
       THEN /\ received' = received + 1
            /\ speaker' = IF Woken(ring) THEN "playing" ELSE speaker
       ELSE speaker' = "failed" /\ UNCHANGED received
    /\ UNCHANGED <<daemon, reports, mailbox, played, reported, shut>>

\* The close starts the speaker on whatever there is to play.
ClosePlayback ==
    /\ Running
    /\ closed
    /\ received = sent
    /\ ~shut
    /\ shut' = TRUE
    /\ speaker' = "playing"
    /\ UNCHANGED <<daemon, reports, mailbox, received, played, reported>>

PlayFrame ==
    /\ speaker = "playing"
    /\ played < received
    /\ played' = played + 1
    /\ speaker' = IF played + 1 = received /\ ~shut THEN "starved" ELSE "playing"
    /\ UNCHANGED <<daemon, reports, mailbox, received, reported, shut>>

\* The playback task notes what has been played since its last report.
ReportProgress ==
    /\ Running
    /\ played # reported
    /\ ~(shut /\ played = received)
    /\ reported' = played
    /\ mailbox' = Ack(played, Buffer - (received - played))
    /\ UNCHANGED <<daemon, reports, speaker, received, played, shut>>

SendAck ==
    /\ Running
    /\ mailbox # Nothing
    /\ reports' = Append(reports, mailbox)
    /\ mailbox' = Nothing
    /\ UNCHANGED <<daemon, device>>

\* The turn is no longer being spoken: what is left in the mailbox is dropped.
FinishPlayback ==
    /\ Running
    /\ shut
    /\ played = received
    /\ speaker' = "finished"
    /\ reports' = Append(reports, Drained)
    /\ mailbox' = Nothing
    /\ UNCHANGED <<daemon, received, played, reported, shut>>

-----------------------------------------------------------------------------
Daemon ==
    \/ QueueBodyPcm \/ MarkTtsEnd \/ FlushPlayback
    \/ ApplyReady \/ ApplyAck \/ PlaybackDrained \/ LeaseEnds

Body ==
    \/ OpenPlayback \/ ReceiveFrame \/ ClosePlayback \/ PlayFrame \/ FinishPlayback
    \/ ReportProgress \/ SendAck

Next == Daemon \/ Body

Spec == Init /\ [][Next]_vars

(***************************************************************************)
(* The daemon flushes and reads its connection, the device's task runs and *)
(* its speaker plays.  The turn may stop producing frames at any time but  *)
(* is not assumed to end, and no lease is assumed to end early.            *)
(***************************************************************************)
Fairness ==
    /\ WF_vars(FlushPlayback)
    /\ WF_vars(ApplyReady \/ ApplyAck \/ PlaybackDrained)
    /\ WF_vars(OpenPlayback)
    /\ WF_vars(ReceiveFrame)
    /\ WF_vars(ClosePlayback)
    /\ WF_vars(PlayFrame)
    /\ WF_vars(FinishPlayback)
    /\ WF_vars(ReportProgress)
    /\ WF_vars(SendAck)

FairSpec == Spec /\ Fairness

-----------------------------------------------------------------------------
(***************************************************************************)
(* Properties.                                                             *)
(***************************************************************************)

\* The credit the daemon still holds and the frames it has not seen played
\* never add up to more than its window (apply_playback_credit).
CreditIsCovered == credit + (sent - acked) <= MaxCredit

\* The device has room for every frame on its way to it.
BodyHasRoom == sent - played <= Buffer

\* A stream that drained has played every frame the turn produced, and its
\* backlog is empty (flush_playback, playback_drained).
WholeAnswerIsPlayed == drained => played = made /\ pending = 0

\* The stream keeps the window a listener of the protocol may rely on, whatever
\* reports are overwritten or late (apply_playback_credit, flush_playback).
Window == INSTANCE PlaybackWindow
            WITH Window <- MaxCredit, sent <- sent, played <- played, done <- drained
KeepsWindow == Window!Spec

\* A speech that has come to its end is played to its end, unless its lease ends
\* early: credit and frames never wait for each other (release_if_drained).
PlaysToTheEnd == closing ~> (drained \/ ~held)
=============================================================================
