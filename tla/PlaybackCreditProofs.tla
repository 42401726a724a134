------------------------ MODULE PlaybackCreditProofs ------------------------
(***************************************************************************)
(* Proofs about the speech stream of one lease, for every window, backlog, *)
(* ring and number of frames.                                              *)
(***************************************************************************)
EXTENDS PlaybackCredit, TLAPS

-----------------------------------------------------------------------------
(***************************************************************************)
(* The least of two or three numbers.                                      *)
(***************************************************************************)

\* What flush_playback takes from the backlog: credit and backlog both bound it.
LEMMA LeastOfTwo ==
    ASSUME NEW a \in Nat, NEW b \in Nat
    PROVE  /\ Least({a, b}) \in Nat
           /\ Least({a, b}) <= a
           /\ Least({a, b}) <= b
           /\ Least({a, b}) = a \/ Least({a, b}) = b
<1>1. \E x \in {a, b} : \A y \in {a, b} : x <= y
  <2>1. CASE a <= b  BY <2>1
  <2>2. CASE b <= a  BY <2>2
  <2> QED BY <2>1, <2>2
<1>2. Least({a, b}) \in {a, b} /\ \A y \in {a, b} : Least({a, b}) <= y
  BY <1>1 DEF Least
<1> QED BY <1>2

\* The credit that apply_playback_credit grants is within every one of its limits.
LEMMA LeastOfThree ==
    ASSUME NEW a \in Nat, NEW b \in Nat, NEW c \in Nat
    PROVE  /\ Least({a, b, c}) \in Nat
           /\ Least({a, b, c}) <= a
           /\ Least({a, b, c}) <= b
           /\ Least({a, b, c}) <= c
<1>1. \E x \in {a, b, c} : \A y \in {a, b, c} : x <= y
  <2>1. CASE a <= b /\ a <= c  BY <2>1
  <2>2. CASE b <= a /\ b <= c  BY <2>2
  <2>3. CASE c <= a /\ c <= b  BY <2>3
  <2> QED BY <2>1, <2>2, <2>3
<1>2. Least({a, b, c}) \in {a, b, c} /\ \A y \in {a, b, c} : Least({a, b, c}) <= y
  BY <1>1 DEF Least
<1> QED BY <1>2

\* The grant of apply_playback_credit: never above the window less what is on its way.
LEMMA GrantIsCovered ==
    ASSUME NEW c \in Nat, NEW n \in Nat, n <= sent, sent \in Nat, sent - n <= MaxCredit
    PROVE  Granted(c, n) \in 0 .. MaxCredit /\ Granted(c, n) + (sent - n) <= MaxCredit
<1>0. MaxCredit \in Nat
  BY CreditAssumption
<1>1. sent - n \in Nat
  OBVIOUS
<1>2. Least({sent - n, MaxCredit}) \in Nat /\ Least({sent - n, MaxCredit}) = sent - n
  BY <1>0, <1>1, LeastOfTwo
<1>3. MaxCredit - (sent - n) \in Nat
  BY <1>0, <1>1
<1>4. Granted(c, n) = Least({c, MaxCredit, MaxCredit - (sent - n)})
  BY <1>2 DEF Granted
<1> QED BY <1>0, <1>1, <1>3, <1>4, LeastOfThree

-----------------------------------------------------------------------------
(***************************************************************************)
(* The inductive invariant.  The device is never ahead of the daemon and   *)
(* the daemon never ahead of what it was told; the close is sent with an   *)
(* empty backlog; a report says no more than what has happened.            *)
(***************************************************************************)
InOrder == acked <= played /\ played <= received /\ received <= sent

RingFits == received - played <= Buffer

BacklogIsCounted == held => made = pending + sent

ClosedIsWhole == closed => pending = 0 /\ made = sent

ShutIsWhole == shut => closed /\ received = sent

Truthful(r) ==
    /\ r.kind = "ack" => r.played <= played
    /\ r.kind = "drained" => shut /\ played = received

ReportsAreTrue == \A i \in 1 .. Len(reports) : Truthful(reports[i])

MailboxIsTrue == mailbox # Nothing => mailbox.kind = "ack" /\ mailbox.played <= played

DrainedIsWhole == drained => closed /\ played = sent

IInv ==
    /\ TypeOK
    /\ InOrder
    /\ RingFits
    /\ CreditIsCovered
    /\ BacklogIsCounted
    /\ ClosedIsWhole
    /\ ShutIsWhole
    /\ ReportsAreTrue
    /\ MailboxIsTrue
    /\ DrainedIsWhole

-----------------------------------------------------------------------------
LEMMA InitIInv == Init => IInv
<1> SUFFICES ASSUME Init PROVE IInv
  OBVIOUS
<1>1. TypeOK
  <2>1. reports \in Seq(Report) /\ mailbox \in {Nothing} \cup Report
    BY DEF Init
  <2>2. made \in 0 .. MaxFrames /\ pending \in 0 .. MaxPending /\ credit \in 0 .. MaxCredit
    BY CreditAssumption DEF Init
  <2>3. sent \in Nat /\ acked \in Nat /\ received \in Nat /\ played \in Nat /\ reported \in Nat
    BY DEF Init
  <2>4. speaker \in {"off", "filling", "playing", "starved", "failed", "finished"}
    BY DEF Init
  <2>5. /\ ready \in BOOLEAN /\ closing \in BOOLEAN /\ closed \in BOOLEAN
        /\ drained \in BOOLEAN /\ held \in BOOLEAN /\ shut \in BOOLEAN
    BY DEF Init
  <2> QED BY <2>1, <2>2, <2>3, <2>4, <2>5 DEF TypeOK
<1>2. InOrder /\ RingFits /\ CreditIsCovered /\ BacklogIsCounted
  BY CreditAssumption DEF Init, InOrder, RingFits, CreditIsCovered, BacklogIsCounted
<1>3. ClosedIsWhole /\ ShutIsWhole /\ MailboxIsTrue /\ DrainedIsWhole
  BY DEF Init, ClosedIsWhole, ShutIsWhole, MailboxIsTrue, DrainedIsWhole
<1>4. ReportsAreTrue
  BY DEF Init, ReportsAreTrue
<1> QED BY <1>1, <1>2, <1>3, <1>4 DEF IInv

\* The device is told to report by records of the right kind.
LEMMA ReportsAreRecords ==
    /\ Ready(Buffer) \in Report /\ Ready(Buffer).kind = "ready"
    /\ Drained \in Report /\ Drained.kind = "drained"
    /\ \A n \in Nat, c \in 0 .. Buffer :
          /\ Ack(n, c) \in Report
          /\ Ack(n, c).kind = "ack"
          /\ Ack(n, c).played = n
    /\ Nothing \notin Report
    /\ \A r \in Report : r.played \in Nat /\ r.credit \in 0 .. Buffer
BY CreditAssumption DEF Report, Ready, Ack, Drained, Nothing

\* The first report on its way to the daemon, and those behind it.
LEMMA FirstReport ==
    ASSUME IInv, reports # << >>
    PROVE  /\ Head(reports) \in Report
           /\ Truthful(Head(reports))
           /\ Tail(reports) \in Seq(Report)
           /\ \A i \in 1 .. Len(Tail(reports)) : Truthful(Tail(reports)[i])
<1>1. reports \in Seq(Report) /\ \A i \in 1 .. Len(reports) : Truthful(reports[i])
  BY DEF IInv, TypeOK, ReportsAreTrue
<1>2. Len(reports) > 0 /\ Head(reports) = reports[1] /\ Tail(reports) \in Seq(Report)
  BY <1>1
<1>3. \A i \in 1 .. Len(Tail(reports)) : Tail(reports)[i] = reports[i + 1] /\ i + 1 \in 1 .. Len(reports)
  BY <1>1, <1>2
<1> QED BY <1>1, <1>2, <1>3

-----------------------------------------------------------------------------
(***************************************************************************)
(* Every step keeps the invariant: first the types, then the counts, then  *)
(* what the reports say.                                                   *)
(***************************************************************************)

\* What a flush takes.
LEMMA FlushTakes ==
    ASSUME TypeOK
    PROVE  /\ Least({credit, pending}) \in Nat
           /\ Least({credit, pending}) <= credit
           /\ Least({credit, pending}) <= pending
<1>1. credit \in Nat /\ pending \in Nat
  BY CreditAssumption DEF TypeOK
<1> QED BY <1>1, LeastOfTwo

\* The limits and the counters are numbers, in the order GrantIsCovered asks for.
LEMMA Numbers ==
    ASSUME IInv
    PROVE  /\ MaxCredit \in Nat /\ MaxPending \in Nat /\ Buffer \in Nat /\ MaxFrames \in Nat
           /\ made \in Nat /\ pending \in Nat /\ credit \in Nat /\ sent \in Nat
           /\ acked \in Nat /\ received \in Nat /\ played \in Nat
           /\ acked <= sent
           /\ sent - acked <= MaxCredit
<1>1. MaxCredit \in Nat /\ MaxPending \in Nat /\ Buffer \in Nat /\ MaxFrames \in Nat
  BY CreditAssumption
<1>2. TypeOK /\ InOrder /\ CreditIsCovered
  BY DEF IInv
<1>3. /\ made \in Nat /\ pending \in Nat /\ credit \in Nat /\ sent \in Nat
      /\ acked \in Nat /\ received \in Nat /\ played \in Nat
  BY <1>1, <1>2 DEF TypeOK
<1> QED BY <1>1, <1>2, <1>3 DEF InOrder, CreditIsCovered

LEMMA StepTypeOK == IInv /\ Next => TypeOK'
<1> SUFFICES ASSUME IInv, Next PROVE TypeOK'
  OBVIOUS
<1> USE CreditAssumption DEF daemon, device
<1>0. TypeOK /\ InOrder /\ RingFits /\ CreditIsCovered
  BY DEF IInv
<1>1. CASE QueueBodyPcm
  <2>1. made' \in 0 .. MaxFrames
    BY <1>0, <1>1, Numbers DEF QueueBodyPcm, TypeOK
  <2>2. pending' \in 0 .. MaxPending /\ held' \in BOOLEAN
    <3>1. CASE pending < MaxPending
      BY <1>0, <1>1, <3>1, Numbers DEF QueueBodyPcm, TypeOK
    <3>2. CASE ~(pending < MaxPending)
      BY <1>0, <1>1, <3>2, Numbers DEF QueueBodyPcm, TypeOK
    <3> QED BY <3>1, <3>2
  <2> QED BY <1>0, <1>1, <2>1, <2>2 DEF QueueBodyPcm, TypeOK
<1>2. CASE MarkTtsEnd
  BY <1>0, <1>2 DEF MarkTtsEnd, TypeOK
<1>3. CASE FlushPlayback
  BY <1>0, <1>3, FlushTakes DEF FlushPlayback, TypeOK
<1>4. CASE ApplyReady
  <2>1. reports # << >> /\ held
    BY <1>4 DEF ApplyReady, Heard
  <2>2. reports' \in Seq(Report) /\ Head(reports).credit \in Nat
    BY <1>4, <2>1, FirstReport, ReportsAreRecords DEF ApplyReady
  <2>3. credit' \in 0 .. MaxCredit
    <3>1. Granted(Head(reports).credit, acked) \in 0 .. MaxCredit
      BY <2>2, Numbers, GrantIsCovered
    <3> QED BY <1>0, <1>4, <3>1 DEF ApplyReady, TypeOK
  <2> QED BY <1>0, <1>4, <2>2, <2>3 DEF ApplyReady, TypeOK
<1>5. CASE ApplyAck
  <2>1. reports # << >> /\ held
    BY <1>5 DEF ApplyAck, Heard
  <2>2. /\ reports' \in Seq(Report)
        /\ Head(reports).credit \in Nat
        /\ Head(reports).played \in Nat
    BY <1>5, <2>1, FirstReport, ReportsAreRecords DEF ApplyAck
  <2>3. credit' \in 0 .. MaxCredit /\ acked' \in Nat /\ ready' \in BOOLEAN
    <3>1. CASE Head(reports).played \in acked + 1 .. sent
      <4>1. Granted(Head(reports).credit, Head(reports).played) \in 0 .. MaxCredit
        <5> DEFINE n == Head(reports).played
        <5>1. n \in Nat /\ n <= sent /\ sent - n <= MaxCredit
          BY <2>2, <3>1, Numbers
        <5> HIDE DEF n
        <5> QED BY <2>2, <5>1, Numbers, GrantIsCovered DEF n
      <4> QED BY <1>5, <2>2, <3>1, <4>1 DEF ApplyAck
    <3>2. CASE Head(reports).played \notin acked + 1 .. sent
      BY <1>0, <1>5, <3>2 DEF ApplyAck, TypeOK
    <3> QED BY <3>1, <3>2
  <2>4. held' \in BOOLEAN
    BY <1>5 DEF ApplyAck
  <2> QED BY <1>0, <1>5, <2>2, <2>3, <2>4 DEF ApplyAck, TypeOK
<1>6. CASE PlaybackDrained
  <2>1. reports # << >>
    BY <1>6 DEF PlaybackDrained, Heard
  <2>2. reports' \in Seq(Report)
    BY <1>6, <2>1, FirstReport DEF PlaybackDrained
  <2> QED BY <1>0, <1>6, <2>2 DEF PlaybackDrained, TypeOK
<1>7. CASE LeaseEnds
  BY <1>0, <1>7 DEF LeaseEnds, TypeOK
<1>8. CASE OpenPlayback
  BY <1>0, <1>8, ReportsAreRecords DEF OpenPlayback, TypeOK
<1>9. CASE ReceiveFrame
  BY <1>0, <1>9 DEF ReceiveFrame, TypeOK
<1>10. CASE ClosePlayback
  BY <1>0, <1>10 DEF ClosePlayback, TypeOK
<1>11. CASE PlayFrame
  BY <1>0, <1>11 DEF PlayFrame, TypeOK
<1>12. CASE FinishPlayback
  BY <1>0, <1>12, ReportsAreRecords DEF FinishPlayback, TypeOK
<1>13. CASE ReportProgress
  <2>1. Buffer - (received - played) \in 0 .. Buffer
    BY <1>0 DEF TypeOK, InOrder, RingFits
  <2>2. mailbox' \in Report
    BY <1>0, <1>13, <2>1, ReportsAreRecords DEF ReportProgress, TypeOK
  <2> QED BY <1>0, <1>13, <2>2 DEF ReportProgress, TypeOK
<1>14. CASE SendAck
  BY <1>0, <1>14 DEF SendAck, TypeOK
<1> QED BY <1>1, <1>2, <1>3, <1>4, <1>5, <1>6, <1>7, <1>8, <1>9, <1>10, <1>11, <1>12, <1>13, <1>14 DEF Next, Daemon, Body

\* The parts of the invariant that are about numbers of frames.
Counts ==
    /\ InOrder
    /\ RingFits
    /\ CreditIsCovered
    /\ BacklogIsCounted
    /\ ClosedIsWhole
    /\ ShutIsWhole
    /\ DrainedIsWhole

LEMMA StepCounts == IInv /\ Next => Counts'
<1> SUFFICES ASSUME IInv, Next PROVE Counts'
  OBVIOUS
<1> USE CreditAssumption DEF daemon, device, Counts, InOrder, RingFits, CreditIsCovered,
                             BacklogIsCounted, ClosedIsWhole, ShutIsWhole, DrainedIsWhole
<1>0. TypeOK /\ Counts
  BY DEF IInv
<1>1. CASE QueueBodyPcm
  <2>1. /\ UNCHANGED <<credit, sent, acked, closed, drained, received, played, shut>>
        /\ held /\ ~closed
        /\ made' = made + 1
        /\ held' => pending' = pending + 1
    <3>1. CASE pending < MaxPending
      BY <1>1, <3>1 DEF QueueBodyPcm
    <3>2. CASE ~(pending < MaxPending)
      BY <1>1, <3>2 DEF QueueBodyPcm
    <3> QED BY <3>1, <3>2
  <2> QED BY <1>0, <2>1, Numbers
<1>2. CASE MarkTtsEnd
  BY <1>0, <1>2 DEF MarkTtsEnd, TypeOK
<1>3. CASE FlushPlayback
  <2> DEFINE n == Least({credit, pending})
  <2>1. n \in Nat /\ n <= credit /\ n <= pending
    BY <1>0, FlushTakes
  <2>2. /\ pending' = pending - n
        /\ credit' = credit - n
        /\ sent' = sent + n
        /\ closed' => closed \/ pending = n
        /\ closed => closed'
        /\ held
        /\ UNCHANGED <<made, acked, drained, held, received, played, shut>>
    BY <1>3 DEF FlushPlayback
  <2> HIDE DEF n
  <2>3. InOrder' /\ RingFits' /\ CreditIsCovered' /\ BacklogIsCounted'
    BY <1>0, <2>1, <2>2, Numbers
  <2>4. closed => n = 0
    BY <1>0, <2>1, Numbers
  <2>5. ClosedIsWhole'
    <3>1. pending' = pending - n /\ made' = made /\ sent' = sent + n /\ made = pending + sent
      BY <1>0, <2>2
    <3>2. CASE closed
      BY <1>0, <2>4, <3>1, <3>2, Numbers
    <3>3. CASE pending = n
      BY <3>1, <3>3, Numbers
    <3> QED BY <2>2, <3>2, <3>3
  <2>6. ShutIsWhole' /\ DrainedIsWhole'
    <3>1. closed => sent' = sent
      BY <2>2, <2>4, Numbers
    <3> QED BY <1>0, <2>2, <3>1
  <2> QED BY <2>3, <2>5, <2>6
<1>4. CASE ApplyReady
  <2>1. reports # << >>
    BY <1>4 DEF ApplyReady, Heard
  <2>2. Head(reports).credit \in Nat
    BY <2>1, FirstReport, ReportsAreRecords
  <2>3. credit' + (sent - acked) <= MaxCredit
    <3>1. Granted(Head(reports).credit, acked) + (sent - acked) <= MaxCredit
      BY <2>2, Numbers, GrantIsCovered
    <3> QED BY <1>0, <1>4, <3>1 DEF ApplyReady, TypeOK
  <2> QED BY <1>0, <1>4, <2>3 DEF ApplyReady, TypeOK
<1>5. CASE ApplyAck
  <2>1. reports # << >> /\ Head(reports).kind = "ack"
    BY <1>5 DEF ApplyAck, Heard
  <2>2. /\ Head(reports).credit \in Nat
        /\ Head(reports).played \in Nat
        /\ Head(reports).played <= played
    BY <2>1, FirstReport, ReportsAreRecords DEF Truthful
  <2>3. acked' \in Nat /\ acked' <= played /\ credit' + (sent - acked') <= MaxCredit
    <3>1. CASE Head(reports).played \in acked + 1 .. sent
      <4>1. Granted(Head(reports).credit, Head(reports).played)
              + (sent - Head(reports).played) <= MaxCredit
        <5> DEFINE n == Head(reports).played
        <5>1. n \in Nat /\ n <= sent /\ sent - n <= MaxCredit
          BY <2>2, <3>1, Numbers
        <5> HIDE DEF n
        <5> QED BY <2>2, <5>1, Numbers, GrantIsCovered DEF n
      <4> QED BY <1>5, <2>2, <3>1, <4>1 DEF ApplyAck
    <3>2. CASE Head(reports).played \notin acked + 1 .. sent
      BY <1>0, <1>5, <3>2 DEF ApplyAck, TypeOK
    <3> QED BY <3>1, <3>2
  <2>4. /\ UNCHANGED <<made, pending, sent, closed, drained, received, played, shut>>
        /\ held' => held
    BY <1>5 DEF ApplyAck, Heard
  <2> QED BY <1>0, <2>3, <2>4 DEF TypeOK
<1>6. CASE PlaybackDrained
  <2>1. reports # << >> /\ Head(reports).kind = "drained" /\ held
    BY <1>6 DEF PlaybackDrained, Heard
  <2>2. shut /\ played = received
    BY <2>1, FirstReport DEF Truthful
  <2> QED BY <1>0, <1>6, <2>1, <2>2 DEF PlaybackDrained, TypeOK
<1>7. CASE LeaseEnds
  BY <1>0, <1>7 DEF LeaseEnds, TypeOK
<1>8. CASE OpenPlayback
  BY <1>0, <1>8 DEF OpenPlayback, TypeOK
<1>9. CASE ReceiveFrame
  BY <1>0, <1>9 DEF ReceiveFrame, TypeOK
<1>10. CASE ClosePlayback
  BY <1>0, <1>10 DEF ClosePlayback, TypeOK
<1>11. CASE PlayFrame
  BY <1>0, <1>11 DEF PlayFrame, TypeOK
<1>12. CASE FinishPlayback
  BY <1>0, <1>12 DEF FinishPlayback, TypeOK
<1>13. CASE ReportProgress
  BY <1>0, <1>13 DEF ReportProgress, TypeOK
<1>14. CASE SendAck
  BY <1>0, <1>14 DEF SendAck, TypeOK
<1> QED BY <1>1, <1>2, <1>3, <1>4, <1>5, <1>6, <1>7, <1>8, <1>9, <1>10, <1>11, <1>12, <1>13, <1>14 DEF Next, Daemon, Body

\* What the device has done is not undone: its reports stay true.
DeviceGoesOn ==
    /\ played' >= played
    /\ shut /\ played = received => shut' /\ played' = received'

\* The reports on their way stay true ...
LEMMA KeptReports ==
    ASSUME IInv, TypeOK', DeviceGoesOn, reports' = reports
    PROVE  ReportsAreTrue'
<1>1. reports \in Seq(Report) /\ \A i \in 1 .. Len(reports) : Truthful(reports[i])
  BY DEF IInv, TypeOK, ReportsAreTrue
<1>2. ASSUME NEW i \in 1 .. Len(reports) PROVE Truthful(reports[i])'
  <2> DEFINE r == reports[i]
  <2>1. r \in Report /\ Truthful(r) /\ r' = r
    BY <1>1
  <2>2. reports'[i] = r
    OBVIOUS
  <2> HIDE DEF r
  <2>3. /\ r.kind = "ack" => r.played <= played'
        /\ r.kind = "drained" => shut' /\ played' = received'
    <3>1. r.played \in Nat /\ played \in Nat /\ played' \in Nat
      BY <2>1, ReportsAreRecords, Numbers DEF TypeOK
    <3> QED BY <2>1, <3>1 DEF Truthful, DeviceGoesOn
  <2> QED BY <2>2, <2>3 DEF Truthful
<1> QED BY <1>2 DEF ReportsAreTrue

\* ... when the first of them is read ...
LEMMA ReadReports ==
    ASSUME IInv, reports # << >>, reports' = Tail(reports), UNCHANGED <<received, played, shut>>
    PROVE  ReportsAreTrue'
<1>1. \A i \in 1 .. Len(Tail(reports)) : Truthful(Tail(reports)[i])
  BY FirstReport
<1> QED BY <1>1 DEF ReportsAreTrue, Truthful

\* ... and when one more is sent that is true.
LEMMA SentReports ==
    ASSUME IInv, NEW r \in Report, Truthful(r), UNCHANGED <<received, played, shut>>,
           reports' = Append(reports, r)
    PROVE  ReportsAreTrue'
<1>1. reports \in Seq(Report) /\ \A i \in 1 .. Len(reports) : Truthful(reports[i])
  BY DEF IInv, TypeOK, ReportsAreTrue
<1>2. ASSUME NEW i \in 1 .. Len(Append(reports, r)) PROVE Truthful(Append(reports, r)[i])
  <2>1. CASE i \in 1 .. Len(reports)
    <3>1. Append(reports, r)[i] = reports[i]
      BY <1>1, <2>1
    <3> QED BY <1>1, <2>1, <3>1
  <2>2. CASE i \notin 1 .. Len(reports)
    <3>1. Append(reports, r)[i] = r
      BY <1>1, <2>2
    <3> QED BY <3>1
  <2> QED BY <2>1, <2>2
<1> QED BY <1>2 DEF ReportsAreTrue, Truthful

LEMMA StepReports == IInv /\ Next => ReportsAreTrue' /\ MailboxIsTrue'
<1> SUFFICES ASSUME IInv, Next PROVE ReportsAreTrue' /\ MailboxIsTrue'
  OBVIOUS
<1> USE DEF daemon, device
<1>0. TypeOK /\ TypeOK' /\ MailboxIsTrue /\ ShutIsWhole
  BY StepTypeOK DEF IInv
<1>1. CASE \/ QueueBodyPcm \/ MarkTtsEnd \/ FlushPlayback \/ LeaseEnds
  <2>1. UNCHANGED <<reports, mailbox, received, played, shut>>
    BY <1>1 DEF QueueBodyPcm, MarkTtsEnd, FlushPlayback, LeaseEnds
  <2>2. DeviceGoesOn
    BY <2>1, Numbers DEF DeviceGoesOn
  <2> QED BY <1>0, <2>1, <2>2, KeptReports DEF MailboxIsTrue
<1>2. CASE ApplyReady \/ ApplyAck \/ PlaybackDrained
  <2>1. /\ reports # << >> /\ reports' = Tail(reports)
        /\ UNCHANGED <<mailbox, received, played, shut>>
    BY <1>2 DEF ApplyReady, ApplyAck, PlaybackDrained, Heard
  <2> QED BY <1>0, <2>1, ReadReports DEF MailboxIsTrue
<1>3. CASE OpenPlayback
  <2>1. Ready(Buffer) \in Report /\ Truthful(Ready(Buffer))
    BY ReportsAreRecords DEF Truthful
  <2>2. /\ reports' = Append(reports, Ready(Buffer))
        /\ UNCHANGED <<mailbox, received, played, shut>>
    BY <1>3 DEF OpenPlayback
  <2> QED BY <1>0, <2>1, <2>2, SentReports DEF MailboxIsTrue
<1>4. CASE ReceiveFrame
  <2>1. /\ received < sent
        /\ UNCHANGED <<reports, mailbox, played, shut>>
    BY <1>4 DEF ReceiveFrame
  <2>2. ~shut
    BY <1>0, <2>1, Numbers DEF ShutIsWhole
  <2>3. DeviceGoesOn
    BY <2>1, <2>2, Numbers DEF DeviceGoesOn
  <2> QED BY <1>0, <2>1, <2>3, KeptReports DEF MailboxIsTrue
<1>5. CASE ClosePlayback
  <2>1. shut' /\ UNCHANGED <<reports, mailbox, received, played>>
    BY <1>5 DEF ClosePlayback
  <2>2. DeviceGoesOn
    BY <2>1, Numbers DEF DeviceGoesOn
  <2> QED BY <1>0, <2>1, <2>2, KeptReports DEF MailboxIsTrue
<1>6. CASE PlayFrame
  <2>1. /\ played < received /\ played' = played + 1
        /\ UNCHANGED <<reports, mailbox, received, shut>>
    BY <1>6 DEF PlayFrame
  <2>2. DeviceGoesOn
    BY <2>1, Numbers DEF DeviceGoesOn
  <2>3. MailboxIsTrue'
    <3>1. mailbox # Nothing => mailbox.kind = "ack" /\ mailbox.played \in Nat /\ mailbox.played <= played
      BY <1>0, ReportsAreRecords DEF MailboxIsTrue, TypeOK
    <3> QED BY <2>1, <3>1, Numbers DEF MailboxIsTrue
  <2> QED BY <1>0, <2>1, <2>2, <2>3, KeptReports
<1>7. CASE FinishPlayback
  <2>1. Drained \in Report /\ Truthful(Drained)
    BY <1>7, ReportsAreRecords DEF FinishPlayback, Truthful
  <2>2. /\ reports' = Append(reports, Drained) /\ mailbox' = Nothing
        /\ UNCHANGED <<received, played, shut>>
    BY <1>7 DEF FinishPlayback
  <2> QED BY <2>1, <2>2, SentReports DEF MailboxIsTrue
<1>8. CASE ReportProgress
  <2>1. /\ mailbox' = Ack(played, Buffer - (received - played))
        /\ UNCHANGED <<reports, received, played, shut>>
    BY <1>8 DEF ReportProgress
  <2>2. mailbox'.kind = "ack" /\ mailbox'.played = played
    BY <2>1 DEF Ack
  <2>3. DeviceGoesOn
    BY <2>1, Numbers DEF DeviceGoesOn
  <2>4. ReportsAreTrue'
    BY <1>0, <2>1, <2>3, KeptReports
  <2>5. MailboxIsTrue'
    BY <2>1, <2>2, Numbers DEF MailboxIsTrue
  <2> QED BY <2>4, <2>5
<1>9. CASE SendAck
  <2>1. mailbox \in Report /\ Truthful(mailbox)
    BY <1>0, <1>9 DEF SendAck, TypeOK, MailboxIsTrue, Truthful
  <2>2. /\ reports' = Append(reports, mailbox) /\ mailbox' = Nothing
        /\ UNCHANGED <<received, played, shut>>
    BY <1>9 DEF SendAck
  <2> QED BY <2>1, <2>2, SentReports DEF MailboxIsTrue
<1> QED BY <1>1, <1>2, <1>3, <1>4, <1>5, <1>6, <1>7, <1>8, <1>9 DEF Next, Daemon, Body

\* Whatever happens or does not, the invariant holds on.
LEMMA StepIInv == IInv /\ [Next]_vars => IInv'
<1>1. ASSUME IInv, Next PROVE IInv'
  <2>1. TypeOK' /\ Counts' /\ ReportsAreTrue' /\ MailboxIsTrue'
    BY <1>1, StepTypeOK, StepCounts, StepReports
  <2> QED BY <2>1 DEF IInv, Counts
<1>2. ASSUME IInv, UNCHANGED vars PROVE IInv'
  BY <1>2 DEF IInv, vars, daemon, device, TypeOK, InOrder, RingFits, CreditIsCovered,
              BacklogIsCounted, ClosedIsWhole, ShutIsWhole, ReportsAreTrue, Truthful,
              MailboxIsTrue, DrainedIsWhole
<1> QED BY <1>1, <1>2

LEMMA Invariance == Spec => []IInv
BY InitIInv, StepIInv, PTL DEF Spec

-----------------------------------------------------------------------------
(***************************************************************************)
(* The theorems.                                                           *)
(***************************************************************************)

\* The counters of PlaybackState and of the device stay what they are declared to be.
THEOREM TypeCorrect == Spec => []TypeOK
<1>1. IInv => TypeOK
  BY DEF IInv
<1> QED BY <1>1, Invariance, PTL

\* apply_playback_credit: credit and unplayed frames are within the window, however
\* the reports of the device are delayed or overwritten.
THEOREM WindowIsCovered == Spec => []CreditIsCovered
<1>1. IInv => CreditIsCovered
  BY DEF IInv
<1> QED BY <1>1, Invariance, PTL

\* flush_playback and playback_drained: a drained stream was played in full, whatever
\* the order of speech, end of speech, credit and close.
THEOREM WholeAnswer == Spec => []WholeAnswerIsPlayed
<1>1. IInv => WholeAnswerIsPlayed
  BY Numbers DEF IInv, DrainedIsWhole, ClosedIsWhole, WholeAnswerIsPlayed
<1> QED BY <1>1, Invariance, PTL

\* A device whose ring is as long as the daemon's window has room for all it is sent.
THEOREM RoomForWindow ==
    ASSUME Buffer = MaxCredit
    PROVE  Spec => []BodyHasRoom
<1>1. ASSUME IInv PROVE BodyHasRoom
  <2>1. InOrder /\ CreditIsCovered
    BY <1>1 DEF IInv
  <2> QED BY <1>1, <2>1, Numbers DEF InOrder, CreditIsCovered, BodyHasRoom
<1> QED BY <1>1, Invariance, PTL

\* The stream of a lease is a stream that keeps its window: the refinement of
\* PlaybackWindow by the daemon, the wire and the device together.
THEOREM KeepsTheWindow == Spec => KeepsWindow
<1>1. Init => Window!Init
  BY DEF Init, Window!Init
<1>2. ASSUME IInv, Next PROVE [Window!Next]_<<sent, played, drained>>
  <2> USE DEF daemon, device
  <2>1. CASE FlushPlayback
    <3> DEFINE n == Least({credit, pending})
    <3>1. n \in Nat /\ n <= credit /\ n <= pending
      BY <1>2, FlushTakes DEF IInv
    <3>2. /\ sent' = sent + n
          /\ UNCHANGED <<played, drained>>
      BY <2>1 DEF FlushPlayback
    <3> HIDE DEF n
    <3>3. CASE n = 0
      BY <1>2, <3>2, <3>3, Numbers
    <3>4. CASE n # 0
      <4>1. n \in 1 .. MaxCredit - (sent - played)
        BY <1>2, <3>1, <3>4, Numbers DEF IInv, CreditIsCovered, InOrder
      <4>2. ~drained
        BY <1>2, <3>1, <3>4, Numbers DEF IInv, DrainedIsWhole, ClosedIsWhole
      <4> QED BY <3>2, <4>1, <4>2 DEF Window!Next, Window!Send
    <3> QED BY <3>3, <3>4
  <2>2. CASE PlayFrame
    <3>1. played < sent
      BY <1>2, <2>2, Numbers DEF PlayFrame, IInv, InOrder
    <3> QED BY <2>2, <3>1 DEF PlayFrame, Window!Next, Window!Play
  <2>3. CASE PlaybackDrained
    <3>1. reports # << >> /\ Head(reports).kind = "drained"
      BY <2>3 DEF PlaybackDrained, Heard
    <3>2. played = sent
      BY <1>2, <3>1, FirstReport DEF Truthful, IInv, ShutIsWhole
    <3>3. UNCHANGED <<sent, played, closed>> /\ drained' = closed
      BY <2>3 DEF PlaybackDrained
    <3>4. CASE closed
      BY <3>2, <3>3, <3>4 DEF Window!Next, Window!Drain
    <3>5. CASE ~closed
      BY <1>2, <3>3, <3>5 DEF IInv, DrainedIsWhole, TypeOK
    <3> QED BY <3>4, <3>5
  <2>4. CASE \/ QueueBodyPcm \/ MarkTtsEnd \/ ApplyReady \/ ApplyAck \/ LeaseEnds
    BY <2>4 DEF QueueBodyPcm, MarkTtsEnd, ApplyReady, ApplyAck, LeaseEnds
  <2>5. CASE \/ OpenPlayback \/ ReceiveFrame \/ ClosePlayback \/ FinishPlayback
             \/ ReportProgress \/ SendAck
    BY <2>5 DEF OpenPlayback, ReceiveFrame, ClosePlayback, FinishPlayback, ReportProgress, SendAck
  <2> QED BY <1>2, <2>1, <2>2, <2>3, <2>4, <2>5 DEF Next, Daemon, Body
<1>3. IInv /\ [Next]_vars => [Window!Next]_<<sent, played, drained>>
  <2>1. UNCHANGED vars => UNCHANGED <<sent, played, drained>>
    BY DEF vars, daemon, device
  <2> QED BY <1>2, <2>1
<1> QED BY <1>1, <1>3, Invariance, PTL DEF Spec, KeepsWindow, Window!Spec
=============================================================================
