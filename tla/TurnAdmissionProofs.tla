------------------------- MODULE TurnAdmissionProofs -------------------------
(***************************************************************************)
(* Proofs about TurnAdmission for every set of channels and turns, every   *)
(* capacity and every limit on waiting messages.                           *)
(***************************************************************************)
EXTENDS TurnAdmission, SequenceTheorems, FiniteSetTheorems, TLAPS

-----------------------------------------------------------------------------
(* What the operators build.                                               *)

\* Taking one ticket out of a line leaves a line of tickets.
LEMMA RemoveAtType ==
  ASSUME NEW S, NEW s \in Seq(S), NEW i \in 1..Len(s)
  PROVE  RemoveAt(s, i) \in Seq(S)
<1>1. SubSeq(s, 1, i - 1) \in Seq(S)
  BY SubSeqProperties
<1>2. SubSeq(s, i + 1, Len(s)) \in Seq(S)
  BY SubSeqProperties
<1> QED BY <1>1, <1>2, ConcatProperties DEF RemoveAt

LEMMA PurgedType == TypeOK => Purged \in [Channels -> Slot]
BY DEF TypeOK, Purged, NoSlot, Slot

\* Cancelling a token changes nothing but that token.
LEMMA StoppedEffect ==
  ASSUME NEW table \in [Channels -> Slot], NEW chosen
  PROVE  /\ Stopped(table, chosen) \in [Channels -> Slot]
         /\ \A d \in Channels :
              /\ Stopped(table, chosen)[d].state = table[d].state
              /\ Stopped(table, chosen)[d].source = table[d].source
              /\ Stopped(table, chosen)[d].cancelled =>
                   d \in chosen \/ table[d].cancelled
              /\ d \notin chosen => Stopped(table, chosen)[d] = table[d]
BY DEF Stopped, Slot

\* The outcome of try_channel for a slot, by the three ways it can end.
LEMMA TriedEffect ==
  ASSUME TypeOK, NEW source \in {"user", "automation"}, NEW c \in Channels,
         NEW ticket
  PROVE  /\ TriedSlots(source, c, ticket) \in [Channels -> Slot]
         /\ \A d \in Channels \ {c} : TriedSlots(source, c, ticket)[d] = slots[d]
         /\ Admits(source, c, ticket) =>
              LET slot == TriedSlots(source, c, ticket)[c] IN
                slot.state = "busy" /\ slot.source = source /\ ~slot.cancelled
         /\ ~Admits(source, c, ticket) =>
              LET slot == TriedSlots(source, c, ticket)[c] IN
                /\ slot.state = slots[c].state
                /\ slot.source = slots[c].source
                /\ slot.cancelled => \/ slots[c].cancelled
                                     \/ c \in Live /\ slot.source = "automation"
<1>1. slots \in [Channels -> Slot]
  BY DEF TypeOK
<1>2. [state |-> "busy", source |-> source, cancelled |-> FALSE] \in Slot
  BY DEF Slot
<1>3. CASE Admits(source, c, ticket)
  <2>1. TriedSlots(source, c, ticket) =
          [slots EXCEPT ![c] = [state |-> "busy", source |-> source,
                                 cancelled |-> FALSE]]
    BY <1>3 DEF TriedSlots
  <2> QED BY <1>1, <1>2, <1>3, <2>1
<1>4. CASE ~Admits(source, c, ticket) /\ Eligible(source, c, ticket)
           /\ source = "user" /\ slots[c].source = "automation"
  <2>1. TriedSlots(source, c, ticket) = Stopped(slots, {c})
    BY <1>4 DEF TriedSlots
  <2>2. c \in Live
    BY <1>4 DEF Admits
  <2> QED BY <1>1, <1>4, <2>1, <2>2, StoppedEffect
<1>5. CASE ~Admits(source, c, ticket) /\ ~(Eligible(source, c, ticket)
           /\ source = "user" /\ slots[c].source = "automation")
  BY <1>1, <1>5 DEF TriedSlots
<1> QED BY <1>3, <1>4, <1>5

\* queue_user changes the tokens of automated slots and nothing else.
LEMMA QueueEffect ==
  ASSUME TypeOK, NEW m \in Messages, NEW c \in Channels, QueueUser(m, c)
  PROVE  /\ slots' \in [Channels -> Slot]
         /\ \A d \in Channels : /\ slots'[d].state = slots[d].state
                                /\ slots'[d].source = slots[d].source
                                /\ slots'[d].cancelled =>
                                     \/ slots[d].cancelled
                                     \/ slots[d].source = "automation"
<1> DEFINE own == Stopped(slots, {c} \cap Stoppable(slots))
<1>1. slots \in [Channels -> Slot]
  BY DEF TypeOK
<1>2. /\ own \in [Channels -> Slot]
      /\ \A d \in Channels : /\ own[d].state = slots[d].state
                             /\ own[d].source = slots[d].source
                             /\ own[d].cancelled =>
                                  d \in Stoppable(slots) \/ slots[d].cancelled
  BY <1>1, StoppedEffect
<1>3. \A d \in Stoppable(slots) : slots[d].source = "automation"
  BY DEF Stoppable
<1>4. \A d \in Stoppable(own) : own[d].source = "automation" /\ d \in Channels
  BY DEF Stoppable
<1>5. slots' = own \/ \E d \in Stoppable(own) : slots' = Stopped(own, {d})
  BY DEF QueueUser
<1> HIDE DEF own
<1>6. CASE slots' = own
  BY <1>2, <1>3, <1>6
<1>7. ASSUME NEW d \in Stoppable(own), slots' = Stopped(own, {d})
      PROVE  /\ slots' \in [Channels -> Slot]
             /\ \A e \in Channels : /\ slots'[e].state = slots[e].state
                                    /\ slots'[e].source = slots[e].source
                                    /\ slots'[e].cancelled =>
                                         \/ slots[e].cancelled
                                         \/ slots[e].source = "automation"
  <2>1. /\ slots' \in [Channels -> Slot]
        /\ \A e \in Channels : /\ slots'[e].state = own[e].state
                               /\ slots'[e].source = own[e].source
                               /\ slots'[e].cancelled => e = d \/ own[e].cancelled
    BY <1>2, <1>7, StoppedEffect
  <2> QED BY <1>2, <1>3, <1>4, <2>1
<1> QED BY <1>5, <1>6, <1>7

-----------------------------------------------------------------------------
(* Type correctness.                                                       *)

\* Taking a ticket out of its line leaves lines of tickets.
LEMMA RemoveTicketType ==
  ASSUME TypeOK, NEW m \in Messages, RemoveTicket(m)
  PROVE  waiting' \in [Channels -> Seq(Messages)]
<1>1. PICK i \in 1..Len(waiting[at[m]]) :
        waiting' = [waiting EXCEPT ![at[m]] = RemoveAt(@, i)]
  BY DEF RemoveTicket
<1>2. CASE at[m] \in Channels
  <2>1. waiting[at[m]] \in Seq(Messages)
    BY <1>2 DEF TypeOK
  <2>2. RemoveAt(waiting[at[m]], i) \in Seq(Messages)
    BY <2>1, RemoveAtType
  <2> QED BY <1>1, <2>2 DEF TypeOK
<1>3. CASE at[m] \notin Channels
  BY <1>1, <1>3 DEF TypeOK
<1> QED BY <1>2, <1>3

LEMMA InitType == Init => TypeOK
<1> SUFFICES ASSUME Init PROVE TypeOK
  OBVIOUS
<1>1. slots \in [Channels -> Slot]
  BY DEF Init, NoSlot, Slot
<1>2. trying \in BOOLEAN
  BY DEF Init
<1>3. /\ waiting \in [Channels -> Seq(Messages)]
      /\ stage \in [Turns -> Stages]
      /\ at \in [Turns -> Channels \cup {Nobody}]
      /\ woken \subseteq Messages
  BY EmptySeq DEF Init, Stages
<1> QED BY <1>1, <1>2, <1>3 DEF TypeOK

LEMMA NextType == TypeOK /\ [Next]_vars => TypeOK'
<1> SUFFICES ASSUME TypeOK, [Next]_vars PROVE TypeOK'
  OBVIOUS
<1> USE DEF Turns
<1>1. ASSUME NEW m \in Messages,
             Arm(m) \/ Park(m) \/ Wake(m)
      PROVE  TypeOK'
  BY <1>1 DEF TypeOK, Arm, Park, Wake, Stages
<1>2. ASSUME NEW m \in Messages, TryTicket(m) PROVE TypeOK'
  <2>1. CASE at[m] \in Channels
    <3>1. slots' \in [Channels -> Slot]
      BY <1>2, <2>1, TriedEffect DEF TryTicket
    <3> QED BY <1>2, <3>1 DEF TypeOK, TryTicket, Decide, Stages
  <2>2. CASE at[m] \notin Channels
    <3>1. TriedSlots("user", at[m], m) \in [Channels -> Slot]
      BY <2>2, StoppedEffect DEF TriedSlots, TypeOK
    <3> QED BY <1>2, <3>1 DEF TypeOK, TryTicket, Decide, Stages
  <2> QED BY <2>1, <2>2
<1>3. ASSUME NEW m \in Messages, DropTicket(m) \/ Leave(m) PROVE TypeOK'
  <2>1. waiting' \in [Channels -> Seq(Messages)]
    BY <1>3, RemoveTicketType DEF DropTicket, Leave
  <2> QED BY <1>3, <2>1 DEF TypeOK, DropTicket, Leave, Stages
<1>4. ASSUME NEW m \in Messages, NEW c \in Channels, QueueUser(m, c)
      PROVE  TypeOK'
  <2>1. slots' \in [Channels -> Slot]
    BY <1>4, QueueEffect
  <2>2. Append(waiting[c], m) \in Seq(Messages)
    BY AppendProperties DEF TypeOK
  <2> QED BY <1>4, <2>1, <2>2 DEF TypeOK, QueueUser, Stages
<1>5. ASSUME NEW m \in Messages, NEW c \in Channels, TryUser(m, c)
      PROVE  TypeOK'
  <2>1. slots' \in [Channels -> Slot]
    BY <1>5, TriedEffect DEF TryUser
  <2> QED BY <1>5, <2>1 DEF TypeOK, TryUser, Decide, Stages
<1>6. ASSUME NEW a \in Automations, NEW c \in Channels, TryAutomation(a, c)
      PROVE  TypeOK'
  <2>1. slots' \in [Channels -> Slot]
    BY <1>6, TriedEffect DEF TryAutomation
  <2> QED BY <1>6, <2>1 DEF TypeOK, TryAutomation, Decide, Stages
<1>7. ASSUME NEW p \in Maintainers, TryMaintenance(p) PROVE TypeOK'
  BY <1>7 DEF TypeOK, TryMaintenance, Decide, Stages
<1>8. ASSUME NEW t \in Turns, EndTurn(t) PROVE TypeOK'
  <2>1. slots' \in [Channels -> Slot]
    BY <1>8 DEF TypeOK, EndTurn, Slot
  <2> QED BY <1>8, <2>1 DEF TypeOK, EndTurn, Stages
<1>9. ASSUME NEW t \in Turns, Notify(t) PROVE TypeOK'
  <2>1. NextStage(t) \in Stages
    BY DEF NextStage, Stages
  <2>2. stage' \in [Turns -> Stages]
    BY <1>9, <2>1 DEF TypeOK, Notify
  <2>3. at' \in [Turns -> Channels \cup {Nobody}]
    BY <1>9 DEF TypeOK, Notify
  <2> QED BY <1>9, <2>2, <2>3 DEF TypeOK, Notify
<1>10. CASE Enter
  BY <1>10, PurgedType DEF TypeOK, Enter
<1>11. CASE UNCHANGED vars
  BY <1>11 DEF TypeOK, vars
<1> QED
  BY <1>1, <1>2, <1>3, <1>4, <1>5, <1>6, <1>7, <1>8, <1>9, <1>10, <1>11 DEF Next

\* Every value stays of its kind, in the slots, the lines and the tasks.
THEOREM TypeCorrect == Spec => []TypeOK
BY InitType, NextType, PTL DEF Spec

-----------------------------------------------------------------------------
(* Slots and their holders.  SlotHasOneHolder is proved from the same fact *)
(* about single turns, together with where the tasks of the turns can be.  *)

Parties == Messages \cup Automations
KindOf(t) == IF t \in Messages THEN "user" ELSE "automation"
Waiting == {"queued", "armed", "refused", "parked"}

Placed ==
  /\ \A m \in Messages : stage[m] \in Waiting => at[m] \in Channels
  /\ \A t \in Automations \cup Maintainers :
       stage[t] \in {"new", "running", "freed"}

Held ==
  /\ \A t \in Parties : stage[t] \in Holding =>
       at[t] \in Live /\ slots[at[t]].source = KindOf(t)
  /\ \A t, u \in Parties :
       stage[t] \in Holding /\ stage[u] \in Holding /\ at[t] = at[u] => t = u
  /\ \A c \in Live : \E t \in Parties : stage[t] \in Holding /\ at[t] = c

HeldInv == TypeOK /\ Placed /\ Held

\* A step that neither gives nor takes a permit keeps every slot held.
LEMMA HeldFrame ==
  ASSUME Held,
         \A t \in Parties : /\ stage'[t] \in Holding <=> stage[t] \in Holding
                            /\ stage[t] \in Holding => at'[t] = at[t],
         \A c \in Channels :
           /\ slots'[c].state = "busy" <=> slots[c].state = "busy"
           /\ slots[c].state = "busy" => slots'[c].source = slots[c].source
  PROVE  Held'
BY DEF Held, Live

\* A permit for a slot that was free makes its turn the slot's one holder.
LEMMA HeldAdmit ==
  ASSUME Held, NEW t \in Parties, NEW c \in Channels,
         stage[t] \notin Holding, stage'[t] \in Holding, at'[t] = c,
         c \notin Live, slots'[c].state = "busy", slots'[c].source = KindOf(t),
         \A u \in Parties \ {t} : stage'[u] = stage[u] /\ at'[u] = at[u],
         \A d \in Channels \ {c} :
           /\ slots'[d].state = "busy" <=> slots[d].state = "busy"
           /\ slots[d].state = "busy" => slots'[d].source = slots[d].source
  PROVE  Held'
BY DEF Held, Live

\* A turn that drops its permit leaves a slot that nobody else holds.
LEMMA HeldEnd ==
  ASSUME Held, NEW t \in Parties,
         stage[t] \in Holding, stage'[t] \notin Holding,
         slots'[at[t]].state # "busy", at' = at,
         \A u \in Parties \ {t} : stage'[u] = stage[u],
         \A d \in Channels \ {at[t]} : slots'[d] = slots[d]
  PROVE  Held'
BY DEF Held, Live

LEMMA PurgedKeepsLive ==
  \A c \in Channels : /\ Purged[c].state = "busy" <=> slots[c].state = "busy"
                      /\ slots[c].state = "busy" => Purged[c] = slots[c]
BY DEF Purged, Live, NoSlot

\* The three callers of try_channel, admitted or not.
LEMMA HeldTry ==
  ASSUME TypeOK, Held, NEW t \in Parties, NEW c \in Channels, NEW ticket,
         stage[t] \notin Holding,
         slots' = TriedSlots(KindOf(t), c, ticket),
         Admits(KindOf(t), c, ticket) => stage'[t] \in Holding /\ at'[t] = c,
         ~Admits(KindOf(t), c, ticket) => stage'[t] \notin Holding,
         \A u \in Parties \ {t} : stage'[u] = stage[u] /\ at'[u] = at[u]
  PROVE  Held'
<1>1. KindOf(t) \in {"user", "automation"}
  BY DEF KindOf
<1>2. \A d \in Channels \ {c} : slots'[d] = slots[d]
  BY <1>1, TriedEffect
<1>3. CASE Admits(KindOf(t), c, ticket)
  <2>1. slots'[c].state = "busy" /\ slots'[c].source = KindOf(t)
    BY <1>1, <1>3, TriedEffect
  <2>2. c \notin Live
    BY <1>3 DEF Admits
  <2> QED BY <1>2, <1>3, <2>1, <2>2, HeldAdmit
<1>4. CASE ~Admits(KindOf(t), c, ticket)
  <2>1. slots'[c].state = slots[c].state /\ slots'[c].source = slots[c].source
    BY <1>1, <1>4, TriedEffect
  <2> QED BY <1>2, <1>4, <2>1, HeldFrame
<1> QED BY <1>3, <1>4

LEMMA InitHeld == Init => Placed /\ Held
BY AdmissionAssumption
DEF Init, Placed, Held, Waiting, Holding, Live, NoSlot, Parties, Turns

LEMMA NextPlaced == TypeOK /\ Placed /\ [Next]_vars => Placed'
<1> SUFFICES ASSUME TypeOK, Placed, [Next]_vars PROVE Placed'
  OBVIOUS
<1> USE AdmissionAssumption DEF Turns, Waiting
<1>1. ASSUME NEW m \in Messages,
             \/ Arm(m) \/ TryTicket(m) \/ Park(m) \/ Wake(m)
             \/ DropTicket(m) \/ Leave(m)
      PROVE  Placed'
  BY <1>1
  DEF TypeOK, Placed, Arm, TryTicket, Park, Wake, DropTicket, Leave
<1>2. ASSUME NEW m \in Messages, NEW c \in Channels, QueueUser(m, c)
      PROVE  Placed'
  BY <1>2 DEF TypeOK, Placed, QueueUser
<1>3. ASSUME NEW m \in Messages, NEW c \in Channels, TryUser(m, c)
      PROVE  Placed'
  BY <1>3 DEF TypeOK, Placed, TryUser
<1>4. ASSUME NEW a \in Automations, NEW c \in Channels, TryAutomation(a, c)
      PROVE  Placed'
  BY <1>4 DEF TypeOK, Placed, TryAutomation
<1>5. ASSUME NEW p \in Maintainers, TryMaintenance(p) PROVE Placed'
  BY <1>5 DEF TypeOK, Placed, TryMaintenance
<1>6. ASSUME NEW t \in Turns, EndTurn(t) PROVE Placed'
  BY <1>6 DEF TypeOK, Placed, EndTurn
<1>7. ASSUME NEW t \in Turns, Notify(t) PROVE Placed'
  BY <1>7 DEF TypeOK, Placed, Notify, NextStage
<1>8. CASE Enter \/ UNCHANGED vars
  BY <1>8 DEF Placed, Enter, vars
<1> QED BY <1>1, <1>2, <1>3, <1>4, <1>5, <1>6, <1>7, <1>8 DEF Next

LEMMA NextHeld == HeldInv /\ [Next]_vars => Held'
<1> SUFFICES ASSUME TypeOK, Placed, Held, [Next]_vars PROVE Held'
  BY DEF HeldInv
<1> USE AdmissionAssumption DEF Turns
<1>1. ASSUME NEW m \in Messages,
             Arm(m) \/ Park(m) \/ Wake(m) \/ DropTicket(m) \/ Leave(m)
      PROVE  Held'
  <2>1. \A t \in Parties : /\ stage'[t] \in Holding <=> stage[t] \in Holding
                           /\ stage[t] \in Holding => at'[t] = at[t]
    BY <1>1 DEF TypeOK, Arm, Park, Wake, DropTicket, Leave, Holding, Parties
  <2>2. slots' = slots
    BY <1>1 DEF Arm, Park, Wake, DropTicket, Leave
  <2> QED BY <2>1, <2>2, HeldFrame
<1>2. ASSUME NEW m \in Messages, TryTicket(m) PROVE Held'
  <2>1. at[m] \in Channels /\ stage[m] \notin Holding
    BY <1>2 DEF TryTicket, Placed, Waiting, Holding
  <2>2. KindOf(m) = "user" /\ m \in Parties
    BY DEF KindOf, Parties
  <2> QED BY <1>2, <2>1, <2>2, HeldTry DEF TryTicket, TypeOK, Holding, Parties
<1>3. ASSUME NEW m \in Messages, NEW c \in Channels, QueueUser(m, c)
      PROVE  Held'
  <2>1. \A t \in Parties : /\ stage'[t] \in Holding <=> stage[t] \in Holding
                           /\ stage[t] \in Holding => at'[t] = at[t]
    BY <1>3 DEF TypeOK, QueueUser, Holding, Parties
  <2> QED BY <1>3, <2>1, QueueEffect, HeldFrame
<1>4. ASSUME NEW m \in Messages, NEW c \in Channels, TryUser(m, c)
      PROVE  Held'
  <2>1. KindOf(m) = "user" /\ m \in Parties
    BY DEF KindOf, Parties
  <2> QED BY <1>4, <2>1, HeldTry DEF TryUser, TypeOK, Holding, Parties
<1>5. ASSUME NEW a \in Automations, NEW c \in Channels, TryAutomation(a, c)
      PROVE  Held'
  <2>1. KindOf(a) = "automation" /\ a \in Parties
    BY DEF KindOf, Parties
  <2> QED BY <1>5, <2>1, HeldTry DEF TryAutomation, TypeOK, Holding, Parties
<1>6. ASSUME NEW p \in Maintainers, TryMaintenance(p) PROVE Held'
  <2>1. \A t \in Parties : stage'[t] = stage[t] /\ at'[t] = at[t]
    BY <1>6 DEF TypeOK, TryMaintenance, Parties
  <2> QED BY <1>6, <2>1, HeldFrame DEF TryMaintenance
<1>7. ASSUME NEW t \in Turns, EndTurn(t) PROVE Held'
  <2>1. CASE t \in Maintainers
    <3>1. \A u \in Parties : stage'[u] = stage[u] /\ at'[u] = at[u]
      BY <1>7, <2>1 DEF TypeOK, EndTurn, Parties
    <3> QED BY <1>7, <2>1, <3>1, HeldFrame DEF EndTurn
  <2>2. CASE t \in Parties
    <3>1. at[t] \in Channels
      BY <1>7, <2>2 DEF EndTurn, Held, Holding, Live
    <3>2. t \notin Maintainers
      BY <2>2 DEF Parties
    <3>3. slots' = [slots EXCEPT ![at[t]].state = "stale"]
      BY <1>7, <3>2 DEF EndTurn
    <3>4. slots'[at[t]].state # "busy"
      BY <3>1, <3>3 DEF TypeOK, Slot
    <3>5. \A d \in Channels \ {at[t]} : slots'[d] = slots[d]
      BY <3>3 DEF TypeOK
    <3>6. /\ stage[t] \in Holding /\ stage'[t] \notin Holding
          /\ \A u \in Parties \ {t} : stage'[u] = stage[u]
      BY <1>7 DEF EndTurn, TypeOK, Holding, Parties
    <3> QED BY <1>7, <2>2, <3>4, <3>5, <3>6, HeldEnd DEF EndTurn
  <2> QED BY <2>1, <2>2 DEF Parties
<1>8. ASSUME NEW t \in Turns, Notify(t) PROVE Held'
  <2>1. \A u \in Parties : /\ stage'[u] \in Holding <=> stage[u] \in Holding
                           /\ stage[u] \in Holding => at'[u] = at[u]
    BY <1>8 DEF TypeOK, Notify, NextStage, Holding, Parties, Placed
  <2> QED BY <1>8, <2>1, HeldFrame DEF Notify
<1>9. CASE Enter
  BY <1>9, PurgedKeepsLive, HeldFrame DEF Enter
<1>10. CASE UNCHANGED vars
  BY <1>10, HeldFrame DEF vars
<1> QED BY <1>1, <1>2, <1>3, <1>4, <1>5, <1>6, <1>7, <1>8, <1>9, <1>10 DEF Next

LEMMA HeldAlways == Spec => []HeldInv
<1>1. Init => HeldInv
  BY InitType, InitHeld DEF HeldInv
<1>2. HeldInv /\ [Next]_vars => HeldInv'
  BY NextType, NextPlaced, NextHeld DEF HeldInv
<1> QED BY <1>1, <1>2, PTL DEF Spec

LEMMA HeldIsOneHolder == HeldInv => SlotHasOneHolder
<1> SUFFICES ASSUME TypeOK, Held, NEW c \in Channels
             PROVE  IF c \in Live
                    THEN \E t \in Turns :
                      IF slots[c].source = "user"
                      THEN Users(c) = {t} /\ Automated(c) = {}
                      ELSE Automated(c) = {t} /\ Users(c) = {}
                    ELSE Users(c) = {} /\ Automated(c) = {}
  BY DEF HeldInv, SlotHasOneHolder
<1>1. CASE c \notin Live
  BY <1>1 DEF Held, Users, Automated, Parties
<1>2. CASE c \in Live
  <2>1. PICK t \in Parties : stage[t] \in Holding /\ at[t] = c
    BY <1>2 DEF Held
  <2>2. \A u \in Parties : stage[u] \in Holding /\ at[u] = c => u = t
    BY <2>1 DEF Held
  <2>3. slots[c].source = KindOf(t) /\ t \in Turns
    BY <2>1 DEF Held, Parties, Turns
  <2>4. CASE t \in Messages
    <3>1. Users(c) = {t} /\ Automated(c) = {}
      BY <2>1, <2>2, <2>4, AdmissionAssumption DEF Users, Automated, Parties
    <3> QED BY <1>2, <2>3, <2>4, <3>1 DEF KindOf
  <2>5. CASE t \notin Messages
    <3>1. Automated(c) = {t} /\ Users(c) = {}
      BY <2>1, <2>2, <2>5, AdmissionAssumption DEF Users, Automated, Parties
    <3> QED BY <1>2, <2>3, <2>5, <3>1 DEF KindOf
  <2> QED BY <2>4, <2>5
<1> QED BY <1>1, <1>2

\* "Each channel runs one turn at a time": a busy slot has exactly one holder,
\* of the kind it names, and a slot that is not busy has none.
THEOREM OneTurnPerChannel == Spec => []SlotHasOneHolder
BY HeldAlways, HeldIsOneHolder, PTL

-----------------------------------------------------------------------------
(* Maintenance.                                                            *)

LEMMA RemoveTicketNeedsLine ==
  ASSUME NEW m \in Messages, at[m] \in Channels, RemoveTicket(m), TypeOK
  PROVE  SomeoneWaits
<1>1. PICK i \in 1..Len(waiting[at[m]]) : waiting[at[m]][i] = m
  BY DEF RemoveTicket
<1>2. waiting[at[m]] \in Seq(Messages)
  BY DEF TypeOK
<1>3. Len(waiting[at[m]]) # 0
  BY <1>1, <1>2
<1>4. waiting[at[m]] # <<>>
  BY <1>2, <1>3, EmptySeq
<1> QED BY <1>4 DEF SomeoneWaits

\* Once maintenance runs, no step starts a turn or puts a message in line.
LEMMA MaintenanceStays ==
  ASSUME HeldInv, MaintenanceAlone, [Next]_vars,
         NEW p \in Maintainers, stage[p] = "running", stage'[p] = "running"
  PROVE  (\A t \in Turns \ {p} : stage'[t] \notin Holding) /\ ~SomeoneWaits'
<1>1. (\A t \in Turns \ {p} : stage[t] \notin Holding) /\ ~SomeoneWaits
  BY DEF MaintenanceAlone
<1>2. Maintained
  BY DEF Maintained
<1>3. TypeOK /\ Placed
  BY DEF HeldInv
<1> USE AdmissionAssumption DEF Turns, Holding
<1>4. ASSUME NEW m \in Messages, Arm(m) \/ Park(m) \/ Wake(m)
      PROVE  (\A t \in Turns \ {p} : stage'[t] \notin Holding) /\ ~SomeoneWaits'
  BY <1>1, <1>3, <1>4 DEF TypeOK, SomeoneWaits, Arm, Park, Wake
<1>5. ASSUME NEW m \in Messages, TryTicket(m)
      PROVE  (\A t \in Turns \ {p} : stage'[t] \notin Holding) /\ ~SomeoneWaits'
  <2>1. ~Admits("user", at[m], m)
    BY <1>2 DEF Admits, Eligible
  <2> QED BY <1>1, <1>3, <1>5, <2>1 DEF TypeOK, SomeoneWaits, TryTicket
<1>6. ASSUME NEW m \in Messages, DropTicket(m) \/ Leave(m)
      PROVE  FALSE
  <2>1. stage[m] # "admitted"
    BY <1>1
  <2>2. Leave(m)
    BY <1>6, <2>1 DEF DropTicket
  <2>3. at[m] \in Channels
    BY <1>3, <2>2 DEF Leave, Placed, Waiting
  <2> QED BY <1>1, <1>3, <2>2, <2>3, RemoveTicketNeedsLine DEF Leave
<1>7. ASSUME NEW m \in Messages, NEW c \in Channels, QueueUser(m, c)
      PROVE  FALSE
  BY <1>2, <1>7 DEF QueueUser
<1>8. ASSUME NEW m \in Messages, NEW c \in Channels, TryUser(m, c)
      PROVE  (\A t \in Turns \ {p} : stage'[t] \notin Holding) /\ ~SomeoneWaits'
  <2>1. ~Admits("user", c, Nobody)
    BY <1>2 DEF Admits, Eligible
  <2> QED BY <1>1, <1>8, <2>1 DEF SomeoneWaits, TryUser
<1>9. ASSUME NEW a \in Automations, NEW c \in Channels, TryAutomation(a, c)
      PROVE  (\A t \in Turns \ {p} : stage'[t] \notin Holding) /\ ~SomeoneWaits'
  <2>1. ~Admits("automation", c, Nobody)
    BY <1>2 DEF Admits, Eligible
  <2> QED BY <1>1, <1>9, <2>1 DEF SomeoneWaits, TryAutomation
<1>10. ASSUME NEW r \in Maintainers, TryMaintenance(r)
       PROVE  (\A t \in Turns \ {p} : stage'[t] \notin Holding) /\ ~SomeoneWaits'
  BY <1>1, <1>2, <1>10 DEF SomeoneWaits, TryMaintenance
<1>11. ASSUME NEW t \in Turns, EndTurn(t)
       PROVE  (\A u \in Turns \ {p} : stage'[u] \notin Holding) /\ ~SomeoneWaits'
  BY <1>1, <1>3, <1>11 DEF TypeOK, SomeoneWaits, EndTurn
<1>12. ASSUME NEW t \in Turns, Notify(t)
       PROVE  (\A u \in Turns \ {p} : stage'[u] \notin Holding) /\ ~SomeoneWaits'
  <2>1. t # p /\ stage[t] # "dropped"
    BY <1>1, <1>12 DEF Notify
  <2>2. NextStage(t) \notin Holding
    BY <2>1 DEF NextStage
  <2> QED BY <1>1, <1>3, <1>12, <2>1, <2>2 DEF TypeOK, SomeoneWaits, Notify
<1>13. CASE Enter \/ UNCHANGED vars
  BY <1>1, <1>13 DEF SomeoneWaits, Enter, vars
<1> QED
  BY <1>4, <1>5, <1>6, <1>7, <1>8, <1>9, <1>10, <1>11, <1>12, <1>13 DEF Next

\* Maintenance begins only when every slot is free and every line is empty.
LEMMA MaintenanceBegins ==
  ASSUME HeldInv, [Next]_vars,
         NEW p \in Maintainers, stage[p] # "running", stage'[p] = "running"
  PROVE  (\A t \in Turns \ {p} : stage'[t] \notin Holding) /\ ~SomeoneWaits'
<1> USE AdmissionAssumption DEF Turns, Holding
<1>1. TypeOK /\ Placed /\ Held
  BY DEF HeldInv
<1>2. TryMaintenance(p)
  <2>1. ASSUME NEW m \in Messages,
               \/ Arm(m) \/ TryTicket(m) \/ Park(m) \/ Wake(m)
               \/ DropTicket(m) \/ Leave(m)
        PROVE  FALSE
    BY <1>1, <2>1
    DEF TypeOK, Arm, TryTicket, Park, Wake, DropTicket, Leave
  <2>2. ASSUME NEW m \in Messages, NEW c \in Channels,
               QueueUser(m, c) \/ TryUser(m, c)
        PROVE  FALSE
    BY <1>1, <2>2 DEF TypeOK, QueueUser, TryUser
  <2>3. ASSUME NEW a \in Automations, NEW c \in Channels, TryAutomation(a, c)
        PROVE  FALSE
    BY <1>1, <2>3 DEF TypeOK, TryAutomation
  <2>4. ASSUME NEW r \in Maintainers, TryMaintenance(r)
        PROVE  TryMaintenance(p)
    BY <1>1, <2>4 DEF TypeOK, TryMaintenance
  <2>5. ASSUME NEW t \in Turns, EndTurn(t) PROVE FALSE
    BY <1>1, <2>5 DEF TypeOK, EndTurn
  <2>6. ASSUME NEW t \in Turns, Notify(t) PROVE FALSE
    BY <1>1, <2>6 DEF TypeOK, Placed, Notify, NextStage
  <2>7. CASE Enter \/ UNCHANGED vars
    BY <2>7 DEF Enter, vars
  <2> QED BY <2>1, <2>2, <2>3, <2>4, <2>5, <2>6, <2>7 DEF Next
<1>3. ~Maintained /\ Live = {} /\ ~SomeoneWaits
  BY <1>2 DEF TryMaintenance
<1>4. \A t \in Parties : stage[t] \notin Holding
  BY <1>1, <1>3 DEF Held
<1>5. \A r \in Maintainers : stage[r] \notin Holding
  BY <1>1, <1>3 DEF Placed, Maintained
<1>6. ~SomeoneWaits'
  BY <1>2, <1>3 DEF TryMaintenance, SomeoneWaits
<1> QED BY <1>1, <1>2, <1>4, <1>5, <1>6 DEF TypeOK, TryMaintenance, Parties

\* While personal data is purged, exported or restored nothing else runs and
\* nobody is in line: the guard of every other entry sees the maintenance flag.
THEOREM MaintenanceIsAlone == Spec => []MaintenanceAlone
<1>1. Init => MaintenanceAlone
  BY DEF Init, MaintenanceAlone, Turns
<1>2. HeldInv /\ MaintenanceAlone /\ [Next]_vars => MaintenanceAlone'
  BY MaintenanceStays, MaintenanceBegins DEF MaintenanceAlone
<1> QED BY <1>1, <1>2, HeldAlways, PTL DEF Spec

-----------------------------------------------------------------------------
(* Preemption and the limit.                                               *)

LEMMA TriedSpares ==
  ASSUME TypeOK, UserTurnsAreNotCancelled,
         NEW source \in {"user", "automation"}, NEW c \in Channels, NEW ticket,
         slots' = TriedSlots(source, c, ticket)
  PROVE  UserTurnsAreNotCancelled'
<1>1. \A d \in Channels \ {c} : slots'[d] = slots[d]
  BY TriedEffect
<1>2. Admits(source, c, ticket) => ~slots'[c].cancelled
  BY TriedEffect
<1>3. ~Admits(source, c, ticket) =>
        /\ slots'[c].state = slots[c].state
        /\ slots'[c].source = slots[c].source
        /\ slots'[c].cancelled => \/ slots[c].cancelled
                                  \/ c \in Live /\ slots'[c].source = "automation"
  BY TriedEffect
<1> QED BY <1>1, <1>2, <1>3 DEF UserTurnsAreNotCancelled, Live

\* No queue, retry or purge cancels the token of a user's turn.
THEOREM UsersAreNotPreempted == Spec => []UserTurnsAreNotCancelled
<1>1. Init => UserTurnsAreNotCancelled
  BY DEF Init, UserTurnsAreNotCancelled, Live, NoSlot
<1>2. HeldInv /\ UserTurnsAreNotCancelled /\ [Next]_vars =>
        UserTurnsAreNotCancelled'
  <2> SUFFICES ASSUME HeldInv, UserTurnsAreNotCancelled, [Next]_vars
               PROVE  UserTurnsAreNotCancelled'
    OBVIOUS
  <2>1. TypeOK /\ Placed
    BY DEF HeldInv
  <2>2. ASSUME NEW m \in Messages, TryTicket(m)
        PROVE  UserTurnsAreNotCancelled'
    <3>1. at[m] \in Channels
      BY <2>1, <2>2 DEF TryTicket, Placed, Waiting
    <3> QED BY <2>1, <2>2, <3>1, TriedSpares DEF TryTicket
  <2>3. ASSUME NEW m \in Messages, NEW c \in Channels, QueueUser(m, c)
        PROVE  UserTurnsAreNotCancelled'
    BY <2>1, <2>3, QueueEffect DEF UserTurnsAreNotCancelled, Live
  <2>4. ASSUME NEW m \in Messages, NEW c \in Channels, TryUser(m, c)
        PROVE  UserTurnsAreNotCancelled'
    BY <2>1, <2>4, TriedSpares DEF TryUser
  <2>5. ASSUME NEW a \in Automations, NEW c \in Channels, TryAutomation(a, c)
        PROVE  UserTurnsAreNotCancelled'
    BY <2>1, <2>5, TriedSpares DEF TryAutomation
  <2>6. ASSUME Enter PROVE UserTurnsAreNotCancelled'
    BY <2>6, PurgedKeepsLive DEF Enter, UserTurnsAreNotCancelled, Live
  <2>7. ASSUME NEW t \in Turns, EndTurn(t) PROVE UserTurnsAreNotCancelled'
    <3>1. CASE slots' = slots
      BY <3>1 DEF UserTurnsAreNotCancelled, Live
    <3>2. CASE slots' = [slots EXCEPT ![at[t]].state = "stale"]
      BY <2>1, <3>2 DEF TypeOK, Slot, UserTurnsAreNotCancelled, Live
    <3> QED BY <2>7, <3>1, <3>2 DEF EndTurn
  <2>8. ASSUME slots' = slots PROVE UserTurnsAreNotCancelled'
    BY <2>8 DEF UserTurnsAreNotCancelled, Live
  <2> QED BY <2>2, <2>3, <2>4, <2>5, <2>6, <2>7, <2>8
          DEF Next, Arm, Park, Wake, DropTicket, Leave, TryMaintenance, Notify, vars
<1> QED BY <1>1, <1>2, HeldAlways, PTL DEF Spec

Table == {c \in Channels : Present(c)}

LEMMA TableIsFinite ==
  /\ IsFiniteSet(Table) /\ Cardinality(Table) \in Nat
  /\ IsFiniteSet(Live) /\ Cardinality(Live) \in Nat
BY FS_Subset, FS_CardinalityType, AdmissionAssumption DEF Table, Live

\* Between the two steps of try_channel the table is within Capacity: the purge
\* left live slots, and nobody adds one before the decision.
LiveWithin == Cardinality(Live) <= Capacity
TableInv == LiveWithin /\ TableBounded
            /\ (trying => Cardinality(Table) <= Capacity)

LEMMA TableShrinks ==
  ASSUME TableInv, Table' \subseteq Table, Live' \subseteq Live,
         trying' => trying
  PROVE  TableInv'
<1>1. /\ IsFiniteSet(Table') /\ Cardinality(Table') <= Cardinality(Table)
      /\ IsFiniteSet(Live') /\ Cardinality(Live') <= Cardinality(Live)
  BY TableIsFinite, FS_Subset
<1>2. Cardinality(Table') \in Nat /\ Cardinality(Live') \in Nat
  BY <1>1, FS_CardinalityType
<1> QED BY <1>1, <1>2, TableIsFinite, AdmissionAssumption
        DEF TableInv, TableBounded, LiveWithin, Table

LEMMA TableEnter ==
  ASSUME TypeOK, TableInv, Enter
  PROVE  TableInv'
<1>1. Table' = Live /\ Live' = Live
  BY DEF Enter, Purged, NoSlot, Table, Present, Live
<1>2. Cardinality(Table') = Cardinality(Live) /\ Cardinality(Live') = Cardinality(Live)
  BY <1>1
<1> QED BY <1>2, TableIsFinite, AdmissionAssumption
        DEF TableInv, TableBounded, LiveWithin, Table

LEMMA TableTry ==
  ASSUME TypeOK, TableInv, Decide,
         NEW source \in {"user", "automation"}, NEW c \in Channels, NEW ticket,
         slots' = TriedSlots(source, c, ticket)
  PROVE  TableInv'
<1>1. \A d \in Channels \ {c} : slots'[d] = slots[d]
  BY TriedEffect
<1>2. trying /\ ~trying'
  BY DEF Decide
<1>3. CASE Admits(source, c, ticket)
  <2>1. Table' \subseteq Table \cup {c} /\ Live' \subseteq Live \cup {c}
    BY <1>1 DEF Table, Present, Live
  <2>2. /\ IsFiniteSet(Table \cup {c})
        /\ Cardinality(Table \cup {c}) <= Cardinality(Table) + 1
        /\ IsFiniteSet(Live \cup {c})
        /\ Cardinality(Live \cup {c}) <= Cardinality(Live) + 1
    <3>1. \A S : IsFiniteSet(S) /\ Cardinality(S) \in Nat =>
            /\ IsFiniteSet(S \cup {c})
            /\ Cardinality(S \cup {c}) <= Cardinality(S) + 1
      <4>1. SUFFICES ASSUME NEW S, IsFiniteSet(S), Cardinality(S) \in Nat
                     PROVE  /\ IsFiniteSet(S \cup {c})
                            /\ Cardinality(S \cup {c}) <= Cardinality(S) + 1
        OBVIOUS
      <4>2. /\ IsFiniteSet(S \cup {c})
            /\ Cardinality(S \cup {c}) =
                 IF c \in S THEN Cardinality(S) ELSE Cardinality(S) + 1
        BY <4>1, FS_AddElement
      <4> QED BY <4>1, <4>2
    <3> QED BY <3>1, TableIsFinite
  <2>3. /\ IsFiniteSet(Table') /\ IsFiniteSet(Live')
        /\ Cardinality(Table') <= Cardinality(Table \cup {c})
        /\ Cardinality(Live') <= Cardinality(Live \cup {c})
    BY <2>1, <2>2, FS_Subset
  <2>4. /\ Cardinality(Table') \in Nat /\ Cardinality(Live') \in Nat
        /\ Cardinality(Table \cup {c}) \in Nat /\ Cardinality(Live \cup {c}) \in Nat
    BY <2>2, <2>3, FS_CardinalityType
  <2>5. Cardinality(Live) < Capacity /\ Cardinality(Table) <= Capacity
    BY <1>2, <1>3 DEF Admits, Eligible, TableInv
  <2>6. Cardinality(Table') <= Capacity + 1 /\ Cardinality(Live') <= Capacity
    BY <2>2, <2>3, <2>4, <2>5, TableIsFinite, AdmissionAssumption
  <2> QED BY <1>2, <2>6 DEF TableInv, TableBounded, LiveWithin, Table
<1>4. CASE ~Admits(source, c, ticket)
  <2>1. slots'[c].state = slots[c].state
    BY <1>4, TriedEffect
  <2>2. Table' = Table /\ Live' = Live
    BY <1>1, <2>1 DEF Table, Present, Live
  <2> QED BY <1>2, <2>2, TableShrinks
<1> QED BY <1>3, <1>4

LEMMA TableAlways == Spec => []TableInv
<1>1. Init => TableInv
  <2> SUFFICES ASSUME Init PROVE TableInv
    OBVIOUS
  <2>1. Table = {} /\ Live = {}
    BY DEF Init, Table, Present, Live, NoSlot
  <2> QED BY <2>1, FS_EmptySet, AdmissionAssumption
          DEF TableInv, TableBounded, LiveWithin, Table
<1>2. HeldInv /\ TableInv /\ [Next]_vars => TableInv'
  <2> SUFFICES ASSUME HeldInv, TableInv, [Next]_vars PROVE TableInv'
    OBVIOUS
  <2>1. TypeOK /\ Placed
    BY DEF HeldInv
  <2>2. ASSUME NEW m \in Messages, TryTicket(m) PROVE TableInv'
    <3>1. at[m] \in Channels
      BY <2>1, <2>2 DEF TryTicket, Placed, Waiting
    <3> QED BY <2>1, <2>2, <3>1, TableTry DEF TryTicket
  <2>3. ASSUME NEW m \in Messages, NEW c \in Channels, QueueUser(m, c)
        PROVE  TableInv'
    <3>1. Table' = Table /\ Live' = Live
      BY <2>1, <2>3, QueueEffect DEF Table, Present, Live
    <3> QED BY <2>3, <3>1, TableShrinks DEF QueueUser
  <2>4. ASSUME NEW m \in Messages, NEW c \in Channels, TryUser(m, c)
        PROVE  TableInv'
    BY <2>1, <2>4, TableTry DEF TryUser
  <2>5. ASSUME NEW a \in Automations, NEW c \in Channels, TryAutomation(a, c)
        PROVE  TableInv'
    BY <2>1, <2>5, TableTry DEF TryAutomation
  <2>6. ASSUME NEW t \in Turns, EndTurn(t) PROVE TableInv'
    <3>1. CASE slots' = slots
      BY <2>6, <3>1, TableShrinks DEF EndTurn, Table, Present, Live
    <3>2. CASE t \notin Maintainers
      <4>1. t \in Parties /\ stage[t] \in Holding
        BY <2>6, <3>2 DEF Parties, Turns, EndTurn, Holding
      <4>2. slots[at[t]].state = "busy"
        BY <4>1 DEF HeldInv, Held, Live
      <4>3. slots' = [slots EXCEPT ![at[t]].state = "stale"]
        BY <2>6, <3>2 DEF EndTurn
      <4>4. Table' \subseteq Table /\ Live' \subseteq Live
        BY <2>1, <4>2, <4>3 DEF TypeOK, Slot, Table, Present, Live
      <4> QED BY <2>6, <4>4, TableShrinks DEF EndTurn
    <3> QED BY <2>6, <3>1, <3>2 DEF EndTurn
  <2>7. ASSUME slots' = slots, trying' => trying PROVE TableInv'
    BY <2>7, TableShrinks DEF Table, Present, Live
  <2> QED BY <2>1, <2>2, <2>3, <2>4, <2>5, <2>6, <2>7, TableEnter
          DEF Next, Arm, Park, Wake, DropTicket, Leave, TryMaintenance, Decide,
              Notify, vars
<1> QED BY <1>1, <1>2, HeldAlways, PTL DEF Spec

\* However flags are released while a thread tries, the table outgrows the
\* limit by one slot at most, and that slot is dead.
THEOREM TableStaysBounded == Spec => []TableBounded
<1>1. TableInv => TableBounded
  BY DEF TableInv
<1> QED BY <1>1, TableAlways, PTL

LEMMA StoppedStops ==
  ASSUME NEW table \in [Channels -> Slot], NEW chosen, NEW d \in Channels,
         table[d].cancelled \/ d \in chosen
  PROVE  Stopped(table, chosen)[d].cancelled
BY DEF Stopped, Slot

\* When every place is taken at most one slot is dead.
LEMMA FullTable ==
  ASSUME TableInv, Cardinality(Live) >= Capacity,
         NEW c \in Table \ Live, NEW d \in Table \ Live
  PROVE  c = d
<1> SUFFICES ASSUME c # d PROVE FALSE
  OBVIOUS
<1>1. /\ IsFiniteSet(Live \cup {c})
      /\ Cardinality(Live \cup {c}) = Cardinality(Live) + 1
  BY TableIsFinite, FS_AddElement
<1>2. /\ IsFiniteSet((Live \cup {c}) \cup {d})
      /\ Cardinality((Live \cup {c}) \cup {d}) = Cardinality(Live) + 1 + 1
  BY <1>1, FS_AddElement
<1>3. (Live \cup {c}) \cup {d} \subseteq Table
  BY DEF Live, Table, Present
<1>4. Cardinality((Live \cup {c}) \cup {d}) <= Cardinality(Table)
  BY <1>2, <1>3, TableIsFinite, FS_Subset
<1>5. Cardinality(Table) <= Capacity + 1
  BY DEF TableInv, TableBounded, Table
<1> QED BY <1>2, <1>4, <1>5, TableIsFinite, AdmissionAssumption

LEMMA QueuePreempts ==
  ASSUME TypeOK, TableInv, Cardinality(Live) >= Capacity,
         Live \cap Stoppable(slots) # {}, NEW m \in Messages, NEW c \in Channels,
         QueueUser(m, c)
  PROVE  \/ \E d \in Live \cap Stoppable(slots) : slots'[d].cancelled
         \/ Stoppable(slots') \subseteq Live
<1> DEFINE own == Stopped(slots, {c} \cap Stoppable(slots))
<1>1. slots \in [Channels -> Slot]
  BY DEF TypeOK
<1>2. /\ own \in [Channels -> Slot]
      /\ \A d \in Channels : /\ own[d].state = slots[d].state
                             /\ own[d].source = slots[d].source
                             /\ d # c => own[d] = slots[d]
  BY <1>1, StoppedEffect
<1>3. slots[c].cancelled \/ c \in Stoppable(slots) => own[c].cancelled
  BY <1>1, StoppedStops
<1>4. IF Stoppable(own) # {}
      THEN \E d \in Stoppable(own) : slots' = Stopped(own, {d})
      ELSE slots' = own
  BY DEF QueueUser
<1> HIDE DEF own
<1>5. Stoppable(own) \subseteq Stoppable(slots) /\ c \notin Stoppable(own)
  BY <1>2, <1>3 DEF Stoppable
<1>6. CASE Stoppable(own) = {}
  <2>1. \A d \in Stoppable(slots) : d = c
    BY <1>2, <1>6 DEF Stoppable
  <2> QED BY <1>3, <1>4, <1>6, <2>1
<1>7. CASE Stoppable(own) # {}
  <2>1. PICK d \in Stoppable(own) : slots' = Stopped(own, {d})
    BY <1>4, <1>7
  <2>2. d \in Channels
    BY DEF Stoppable
  <2>3. slots'[d].cancelled
    BY <1>2, <2>1, <2>2, StoppedStops
  <2>4. CASE d \in Live
    BY <1>5, <2>3, <2>4
  <2>5. CASE d \notin Live
    <3>1. ASSUME NEW e \in Stoppable(slots') PROVE e \in Live
      <4>1. e \in Channels /\ e # d
        BY <2>3 DEF Stoppable
      <4>2. slots'[e] = own[e]
        BY <1>2, <2>1, <4>1, StoppedEffect
      <4>3. e \in Stoppable(own)
        BY <4>1, <4>2 DEF Stoppable
      <4>4. e \in Table /\ d \in Table
        BY <1>2, <4>3 DEF Stoppable, Table, Present
      <4> QED BY <2>5, <4>1, <4>4, FullTable
    <3> QED BY <3>1
  <2> QED BY <2>4, <2>5
<1> QED BY <1>6, <1>7

\* A message that joins the line of a full daemon stops a turn that is really
\* running; only the one slot that may have died unseen can take its place, and
\* then none is left that could take the next one.
THEOREM PreemptionReachesATurn == Spec => PreemptionReachesTurn
<1> DEFINE Reaches ==
      \A m \in Messages :
        /\ stage[m] = "new" /\ stage'[m] = "queued"
        /\ Cardinality(Live) >= Capacity
        /\ Live \cap Stoppable(slots) # {}
        => \/ \E c \in Live \cap Stoppable(slots) : slots'[c].cancelled
           \/ Stoppable(slots') \subseteq Live
<1>1. HeldInv /\ TableInv /\ [Next]_vars => [Reaches]_vars
  <2> SUFFICES ASSUME HeldInv, TableInv, Next,
                      NEW m \in Messages, stage[m] = "new", stage'[m] = "queued",
                      Cardinality(Live) >= Capacity,
                      Live \cap Stoppable(slots) # {}
               PROVE  \/ \E c \in Live \cap Stoppable(slots) : slots'[c].cancelled
                      \/ Stoppable(slots') \subseteq Live
    OBVIOUS
  <2>1. TypeOK
    BY DEF HeldInv
  <2> USE <2>1, AdmissionAssumption DEF Turns
  <2>2. \E c \in Channels : QueueUser(m, c)
    <3>1. ASSUME NEW n \in Messages,
                 \/ Arm(n) \/ TryTicket(n) \/ Park(n) \/ Wake(n)
                 \/ DropTicket(n) \/ Leave(n)
          PROVE  FALSE
      BY <3>1 DEF TypeOK, Arm, TryTicket, Park, Wake, DropTicket, Leave
    <3>2. ASSUME NEW n \in Messages, NEW c \in Channels, QueueUser(n, c)
          PROVE  n = m
      BY <3>2 DEF TypeOK, QueueUser
    <3>3. ASSUME NEW n \in Messages, NEW c \in Channels, TryUser(n, c)
          PROVE  FALSE
      BY <3>3 DEF TypeOK, TryUser
    <3>4. ASSUME NEW a \in Automations, NEW c \in Channels, TryAutomation(a, c)
          PROVE  FALSE
      BY <3>4 DEF TypeOK, TryAutomation
    <3>5. ASSUME NEW p \in Maintainers, TryMaintenance(p) PROVE FALSE
      BY <3>5 DEF TypeOK, TryMaintenance
    <3>6. ASSUME NEW t \in Turns, EndTurn(t) \/ Notify(t) PROVE FALSE
      BY <3>6 DEF TypeOK, EndTurn, Notify, NextStage
    <3>7. ASSUME Enter PROVE FALSE
      BY <3>7 DEF Enter
    <3> QED BY <3>1, <3>2, <3>3, <3>4, <3>5, <3>6, <3>7 DEF Next
  <2> QED BY <2>2, QueuePreempts
<1> QED BY <1>1, HeldAlways, TableAlways, PTL DEF Spec, PreemptionReachesTurn

-----------------------------------------------------------------------------
(* Lines: whose tickets they hold, in which order they are taken.          *)

LEMMA RemoveAtFacts ==
  ASSUME NEW S, NEW s \in Seq(S), NEW i \in 1 .. Len(s)
  PROVE  /\ RemoveAt(s, i) \in Seq(S)
         /\ Len(RemoveAt(s, i)) = Len(s) - 1
         /\ \A j \in 1 .. Len(s) - 1 : RemoveAt(s, i)[j] = IF j < i THEN s[j] ELSE s[j + 1]
<1>1. Len(s) \in Nat /\ i \in Nat /\ 1 <= i /\ i <= Len(s)
      /\ \A j \in 1 .. Len(s) : s[j] \in S
  BY LenProperties, ElementOfSeq
<1> DEFINE a == SubSeq(s, 1, i - 1)
<1> DEFINE b == SubSeq(s, i + 1, Len(s))
<1>2. /\ a \in Seq(S) /\ Len(a) = i - 1
      /\ \A j \in 1 .. i - 1 : a[j] = s[j]
  <2>1. 1 \in Int /\ i - 1 \in Int /\ \A j \in 1 .. i - 1 : s[j] \in S
    BY <1>1
  <2>2. /\ a \in Seq(S) /\ Len(a) = IF 1 <= i - 1 THEN i - 1 - 1 + 1 ELSE 0
        /\ \A j \in 1 .. i - 1 - 1 + 1 : a[j] = s[1 + j - 1]
    BY <2>1, SubSeqProperties
  <2> HIDE DEF a
  <2> QED BY <1>1, <2>2
<1>3. /\ b \in Seq(S) /\ Len(b) = Len(s) - i
      /\ \A j \in 1 .. Len(s) - i : b[j] = s[i + j]
  <2>1. i + 1 \in Int /\ Len(s) \in Int /\ \A j \in i + 1 .. Len(s) : s[j] \in S
    BY <1>1
  <2>2. /\ b \in Seq(S)
        /\ Len(b) = IF i + 1 <= Len(s) THEN Len(s) - (i + 1) + 1 ELSE 0
        /\ \A j \in 1 .. Len(s) - (i + 1) + 1 : b[j] = s[(i + 1) + j - 1]
    BY <2>1, SubSeqProperties
  <2> HIDE DEF b
  <2>3. \A j \in 1 .. Len(s) - i : j \in 1 .. Len(s) - (i + 1) + 1 /\ (i + 1) + j - 1 = i + j
    BY <1>1
  <2> QED BY <1>1, <2>2, <2>3
<1>4. /\ a \o b \in Seq(S) /\ Len(a \o b) = Len(a) + Len(b)
      /\ \A j \in 1 .. Len(a) + Len(b) :
            (a \o b)[j] = IF j <= Len(a) THEN a[j] ELSE b[j - Len(a)]
  BY <1>2, <1>3, ConcatProperties
<1>5. RemoveAt(s, i) = a \o b
  BY DEF RemoveAt
<1> HIDE DEF a, b
<1>6. ASSUME NEW j \in 1 .. Len(s) - 1
      PROVE  (a \o b)[j] = IF j < i THEN s[j] ELSE s[j + 1]
  <2>1. CASE j < i
    BY <1>1, <1>2, <1>3, <1>4, <2>1
  <2>2. CASE ~(j < i)
    <3>1. j \in 1 .. Len(a) + Len(b) /\ ~(j <= Len(a)) /\ j - Len(a) \in 1 .. Len(s) - i
          /\ i + (j - Len(a)) = j + 1
      BY <1>1, <1>2, <1>3, <2>2
    <3> QED BY <1>3, <1>4, <2>2, <3>1
  <2> QED BY <2>1, <2>2
<1>7. Len(a) + Len(b) = Len(s) - 1
  BY <1>1, <1>2, <1>3
<1>8. Len(a \o b) = Len(s) - 1 /\ a \o b \in Seq(S)
  BY <1>4, <1>7
<1> QED BY <1>5, <1>6, <1>8

\* What is first in a line that lost a ticket, and what comes after the first.
LEMMA RemoveFirstTicket ==
  ASSUME NEW S, NEW s \in Seq(S), s # <<>>
  PROVE  RemoveAt(s, 1) = Tail(s)
<1>1. Len(s) \in Nat \ {0}
  BY EmptySeq
<1>2. /\ RemoveAt(s, 1) \in Seq(S) /\ Len(RemoveAt(s, 1)) = Len(s) - 1
      /\ \A j \in 1 .. Len(s) - 1 : RemoveAt(s, 1)[j] = s[j + 1]
  BY <1>1, RemoveAtFacts
<1>3. /\ Tail(s) \in Seq(S) /\ Len(Tail(s)) = Len(s) - 1
      /\ \A j \in 1 .. Len(s) - 1 : Tail(s)[j] = s[j + 1]
  BY HeadTailProperties
<1> QED BY <1>2, <1>3, SeqEqual

LEMMA RemoveLaterTicket ==
  ASSUME NEW S, NEW s \in Seq(S), NEW i \in 2 .. Len(s)
  PROVE  /\ s # <<>> /\ RemoveAt(s, i) # <<>>
         /\ Head(RemoveAt(s, i)) = Head(s)
         /\ Tail(RemoveAt(s, i)) = RemoveAt(Tail(s), i - 1)
<1>1. Len(s) \in Nat /\ i \in Nat /\ 2 <= i /\ i <= Len(s) /\ i \in 1 .. Len(s)
  BY LenProperties
<1>2. /\ RemoveAt(s, i) \in Seq(S) /\ Len(RemoveAt(s, i)) = Len(s) - 1
      /\ \A j \in 1 .. Len(s) - 1 : RemoveAt(s, i)[j] = IF j < i THEN s[j] ELSE s[j + 1]
  BY <1>1, RemoveAtFacts
<1>3. s # <<>> /\ RemoveAt(s, i) # <<>>
  BY <1>1, <1>2, EmptySeq
<1>4. Head(RemoveAt(s, i)) = Head(s)
  <2>1. RemoveAt(s, i)[1] = s[1]
    BY <1>1, <1>2
  <2> QED BY <1>2, <1>3, <2>1
<1>5. /\ Tail(s) \in Seq(S) /\ Len(Tail(s)) = Len(s) - 1
      /\ \A j \in 1 .. Len(s) - 1 : Tail(s)[j] = s[j + 1]
  BY <1>3, HeadTailProperties
<1>6. i - 1 \in 1 .. Len(Tail(s))
  BY <1>1, <1>5
<1>7. /\ RemoveAt(Tail(s), i - 1) \in Seq(S)
      /\ Len(RemoveAt(Tail(s), i - 1)) = Len(s) - 2
      /\ \A j \in 1 .. Len(s) - 2 :
            RemoveAt(Tail(s), i - 1)[j] = IF j < i - 1 THEN Tail(s)[j] ELSE Tail(s)[j + 1]
  <2>1. /\ RemoveAt(Tail(s), i - 1) \in Seq(S)
        /\ Len(RemoveAt(Tail(s), i - 1)) = Len(Tail(s)) - 1
        /\ \A j \in 1 .. Len(Tail(s)) - 1 :
            RemoveAt(Tail(s), i - 1)[j] = IF j < i - 1 THEN Tail(s)[j] ELSE Tail(s)[j + 1]
    BY <1>5, <1>6, RemoveAtFacts
  <2>2. Len(Tail(s)) - 1 = Len(s) - 2
    BY <1>1, <1>5
  <2> QED BY <2>1, <2>2
<1>8. /\ Tail(RemoveAt(s, i)) \in Seq(S)
      /\ Len(Tail(RemoveAt(s, i))) = Len(s) - 2
      /\ \A j \in 1 .. Len(s) - 2 : Tail(RemoveAt(s, i))[j] = RemoveAt(s, i)[j + 1]
  <2>1. /\ Tail(RemoveAt(s, i)) \in Seq(S)
        /\ Len(Tail(RemoveAt(s, i))) = Len(RemoveAt(s, i)) - 1
        /\ \A j \in 1 .. Len(Tail(RemoveAt(s, i))) :
              Tail(RemoveAt(s, i))[j] = RemoveAt(s, i)[j + 1]
    BY <1>2, <1>3, HeadTailProperties
  <2>2. Len(RemoveAt(s, i)) - 1 = Len(s) - 2
    BY <1>1, <1>2
  <2> QED BY <2>1, <2>2
<1>9. ASSUME NEW j \in 1 .. Len(s) - 2
      PROVE  Tail(RemoveAt(s, i))[j] = RemoveAt(Tail(s), i - 1)[j]
  <2>1. j \in Nat /\ j \in 1 .. Len(s) - 1 /\ j + 1 \in 1 .. Len(s) - 1
    BY <1>1
  <2>2. Tail(RemoveAt(s, i))[j] = IF j + 1 < i THEN s[j + 1] ELSE s[j + 1 + 1]
    BY <1>2, <1>8, <2>1
  <2>3. RemoveAt(Tail(s), i - 1)[j] = IF j < i - 1 THEN s[j + 1] ELSE s[j + 1 + 1]
    BY <1>5, <1>7, <2>1
  <2>4. j + 1 < i <=> j < i - 1
    BY <1>1, <2>1
  <2>5. CASE j < i - 1
    BY <2>2, <2>3, <2>4, <2>5
  <2>6. CASE ~(j < i - 1)
    BY <2>2, <2>3, <2>4, <2>6
  <2> QED BY <2>5, <2>6
<1>10. Tail(RemoveAt(s, i)) = RemoveAt(Tail(s), i - 1)
  BY <1>7, <1>8, <1>9, SeqEqual
<1> QED BY <1>3, <1>4, <1>10

\* The tickets of a channel are of messages that wait for it, each once, and the one
\* that was admitted is the first.
OneLine(c, s) ==
  \A i \in 1 .. Len(s) :
    /\ at[s[i]] = c
    /\ stage[s[i]] \in Waiting \cup {"admitted"}
    /\ stage[s[i]] = "admitted" => i = 1
    /\ \A j \in 1 .. Len(s) : s[j] = s[i] => j = i

Lines == \A c \in Channels : OneLine(c, waiting[c])

LineInv == HeldInv /\ Lines

LEMMA LineFacts ==
  ASSUME TypeOK, NEW c \in Channels
  PROVE  /\ waiting[c] \in Seq(Messages)
         /\ Len(waiting[c]) \in Nat
         /\ \A i \in 1 .. Len(waiting[c]) : waiting[c][i] \in Messages
         /\ waiting[c] # <<>> => 1 \in 1 .. Len(waiting[c]) /\ Head(waiting[c]) = waiting[c][1]
<1>1. waiting[c] \in Seq(Messages)
  BY DEF TypeOK
<1>2. Len(waiting[c]) \in Nat /\ \A i \in 1 .. Len(waiting[c]) : waiting[c][i] \in Messages
  BY <1>1, LenProperties, ElementOfSeq
<1>3. waiting[c] # <<>> => Len(waiting[c]) \in Nat \ {0}
  BY <1>1, EmptySeq
<1> QED BY <1>1, <1>2, <1>3

LEMMA LinesFrame ==
  ASSUME TypeOK, Lines, waiting' = waiting,
         \A m \in Messages : stage[m] \in Waiting \cup {"admitted"} =>
           /\ stage'[m] \in Waiting \cup {"admitted"}
           /\ stage'[m] = "admitted" => stage[m] = "admitted"
           /\ at'[m] = at[m]
  PROVE  Lines'
BY LineFacts DEF Lines, OneLine

\* A ticket that leaves its line.
LEMMA LinesShrink ==
  ASSUME TypeOK, Lines, NEW m \in Messages, at[m] \in Channels, RemoveTicket(m),
         at' = at, \A n \in Messages \ {m} : stage'[n] = stage[n]
  PROVE  Lines'
<1> SUFFICES ASSUME NEW c \in Channels PROVE OneLine(c, waiting[c])'
  BY DEF Lines
<1>1. PICK i \in 1 .. Len(waiting[at[m]]) :
        waiting[at[m]][i] = m /\ waiting' = [waiting EXCEPT ![at[m]] = RemoveAt(@, i)]
  BY DEF RemoveTicket
<1>2. OneLine(c, waiting[c])
  BY DEF Lines
<1>3. CASE c # at[m]
  <2>1. waiting'[c] = waiting[c]
    BY <1>1, <1>3 DEF TypeOK
  <2>2. \A j \in 1 .. Len(waiting[c]) : waiting[c][j] # m /\ waiting[c][j] \in Messages
    BY <1>2, <1>3, LineFacts DEF OneLine
  <2> QED BY <1>2, <2>1, <2>2 DEF OneLine
<1>4. CASE c = at[m]
  <2>1. waiting'[c] = RemoveAt(waiting[c], i)
    BY <1>1, <1>4 DEF TypeOK
  <2>2. /\ Len(waiting[c]) \in Nat /\ i \in Nat /\ 1 <= i /\ i <= Len(waiting[c])
        /\ \A j \in 1 .. Len(waiting[c]) : waiting[c][j] \in Messages
    BY <1>1, <1>4, LineFacts
  <2>3. /\ Len(waiting'[c]) = Len(waiting[c]) - 1
        /\ \A j \in 1 .. Len(waiting[c]) - 1 :
              waiting'[c][j] = IF j < i THEN waiting[c][j] ELSE waiting[c][j + 1]
    <3>1. waiting[c] \in Seq(Messages) /\ i \in 1 .. Len(waiting[c])
      BY <1>1, <1>4, LineFacts
    <3> QED BY <2>1, <3>1, RemoveAtFacts
  <2> DEFINE Old(j) == IF j < i THEN j ELSE j + 1
  <2>4. \A j \in 1 .. Len(waiting[c]) - 1 :
          /\ Old(j) \in 1 .. Len(waiting[c]) /\ Old(j) # i /\ waiting'[c][j] = waiting[c][Old(j)]
          /\ Old(j) = 1 => j = 1
    BY <2>2, <2>3
  <2>5. \A j, k \in 1 .. Len(waiting[c]) - 1 : Old(j) = Old(k) => j = k
    BY <2>2
  <2> HIDE DEF Old
  <2>6. \A j \in 1 .. Len(waiting[c]) : j # i => waiting[c][j] # m
    BY <1>1, <1>2, <1>4 DEF OneLine
  <2>7. ASSUME NEW j \in 1 .. Len(waiting'[c])
        PROVE  /\ at'[waiting'[c][j]] = c
               /\ stage'[waiting'[c][j]] \in Waiting \cup {"admitted"}
               /\ stage'[waiting'[c][j]] = "admitted" => j = 1
               /\ \A k \in 1 .. Len(waiting'[c]) : waiting'[c][k] = waiting'[c][j] => k = j
    <3>1. j \in 1 .. Len(waiting[c]) - 1
      BY <2>3
    <3>2. PICK o \in 1 .. Len(waiting[c]) :
            o = Old(j) /\ o # i /\ waiting'[c][j] = waiting[c][o] /\ (o = 1 => j = 1)
      BY <2>4, <3>1
    <3>3. stage'[waiting[c][o]] = stage[waiting[c][o]]
      BY <2>2, <2>6, <3>2
    <3>4. ASSUME NEW k \in 1 .. Len(waiting'[c]), waiting'[c][k] = waiting'[c][j] PROVE k = j
      <4>1. k \in 1 .. Len(waiting[c]) - 1
        BY <2>3
      <4>2. Old(k) \in 1 .. Len(waiting[c]) /\ waiting[c][Old(k)] = waiting[c][o]
        BY <2>4, <3>2, <3>4, <4>1
      <4>3. Old(k) = o
        BY <1>2, <4>2 DEF OneLine
      <4> QED BY <2>5, <3>1, <3>2, <4>1, <4>3
    <3> QED BY <1>2, <3>2, <3>3, <3>4 DEF OneLine
  <2> QED BY <2>7 DEF OneLine
<1> QED BY <1>3, <1>4

\* A ticket that joins the end of a line.
LEMMA LinesGrow ==
  ASSUME TypeOK, Lines, NEW m \in Messages, NEW c \in Channels, QueueUser(m, c)
  PROVE  Lines'
<1> SUFFICES ASSUME NEW d \in Channels PROVE OneLine(d, waiting[d])'
  BY DEF Lines
<1>1. OneLine(d, waiting[d])
  BY DEF Lines
<1>2. \A j \in 1 .. Len(waiting[d]) : waiting[d][j] # m /\ waiting[d][j] \in Messages
  BY <1>1, LineFacts DEF OneLine, QueueUser, Waiting
<1>3. /\ stage'[m] = "queued" /\ at'[m] = c
      /\ \A n \in Messages \ {m} : stage'[n] = stage[n] /\ at'[n] = at[n]
  BY DEF QueueUser, TypeOK, Turns
<1>4. CASE d # c
  <2>1. waiting'[d] = waiting[d]
    BY <1>4 DEF QueueUser, TypeOK
  <2> QED BY <1>1, <1>2, <1>3, <2>1 DEF OneLine
<1>5. CASE d = c
  <2>1. waiting'[d] = Append(waiting[d], m)
    BY <1>5 DEF QueueUser, TypeOK
  <2>2. /\ Len(waiting[d]) \in Nat /\ Len(waiting'[d]) = Len(waiting[d]) + 1
        /\ \A i \in 1 .. Len(waiting[d]) : waiting'[d][i] = waiting[d][i]
        /\ waiting'[d][Len(waiting[d]) + 1] = m
    BY <2>1, LineFacts, AppendProperties
  <2>3. ASSUME NEW i \in 1 .. Len(waiting'[d])
        PROVE  /\ at'[waiting'[d][i]] = d
               /\ stage'[waiting'[d][i]] \in Waiting \cup {"admitted"}
               /\ stage'[waiting'[d][i]] = "admitted" => i = 1
               /\ \A j \in 1 .. Len(waiting'[d]) : waiting'[d][j] = waiting'[d][i] => j = i
    <3>1. CASE i \in 1 .. Len(waiting[d])
      <4>1. \A j \in 1 .. Len(waiting'[d]) :
              j \in 1 .. Len(waiting[d]) \/ waiting'[d][j] = m
        BY <2>2
      <4> QED BY <1>1, <1>2, <1>3, <2>2, <3>1, <4>1 DEF OneLine
    <3>2. CASE i = Len(waiting[d]) + 1
      <4>1. \A j \in 1 .. Len(waiting'[d]) : j \in 1 .. Len(waiting[d]) \/ j = i
        BY <2>2, <3>2
      <4> QED BY <1>2, <1>3, <1>5, <2>2, <3>2, <4>1 DEF OneLine, Waiting
    <3> QED BY <2>2, <3>1, <3>2
  <2> QED BY <2>3 DEF OneLine
<1> QED BY <1>4, <1>5

LEMMA LinesStep ==
  ASSUME HeldInv, Lines, [Next]_vars
  PROVE  Lines'
<1>0. TypeOK /\ Placed
  BY DEF HeldInv
<1> USE AdmissionAssumption DEF Turns, Waiting
<1>1. ASSUME NEW m \in Messages, Arm(m) \/ Park(m) \/ Wake(m) PROVE Lines'
  BY <1>0, <1>1, LinesFrame DEF TypeOK, Arm, Park, Wake
<1>2. ASSUME NEW m \in Messages, TryTicket(m) PROVE Lines'
  <2>1. CASE ~Admits("user", at[m], m)
    BY <1>0, <1>2, <2>1, LinesFrame DEF TypeOK, TryTicket
  <2>2. CASE Admits("user", at[m], m)
    <3>1. at[m] \in Channels /\ (waiting[at[m]] = <<>> \/ m = Head(waiting[at[m]]))
      BY <1>0, <1>2, <2>2 DEF TryTicket, Placed, Admits, Eligible
    <3>2. /\ waiting' = waiting /\ at' = at /\ stage'[m] = "admitted"
          /\ \A n \in Messages \ {m} : stage'[n] = stage[n]
      BY <1>0, <1>2, <2>2 DEF TryTicket, TypeOK
    <3>3. ASSUME NEW c \in Channels, NEW i \in 1 .. Len(waiting[c]), waiting[c][i] = m
          PROVE  i = 1
      <4>1. c = at[m] /\ \A j \in 1 .. Len(waiting[c]) : waiting[c][j] = m => j = i
        BY <3>3 DEF Lines, OneLine
      <4>2. waiting[c] # <<>>
        BY <1>0, <3>3, LineFacts, EmptySeq
      <4> QED BY <1>0, <3>1, <4>1, <4>2, LineFacts
    <3> QED BY <1>0, <3>2, <3>3, LineFacts DEF Lines, OneLine
  <2> QED BY <2>1, <2>2
<1>3. ASSUME NEW m \in Messages, Leave(m) PROVE Lines'
  BY <1>0, <1>3, LinesShrink DEF Leave, TypeOK, Placed
<1>4. ASSUME NEW m \in Messages, DropTicket(m) PROVE Lines'
  <2>1. at[m] \in Channels
    BY <1>4 DEF DropTicket, HeldInv, Held, Holding, Parties, Live
  <2> QED BY <1>0, <1>4, <2>1, LinesShrink DEF DropTicket, TypeOK
<1>5. ASSUME NEW m \in Messages, NEW c \in Channels, QueueUser(m, c) PROVE Lines'
  BY <1>0, <1>5, LinesGrow
<1>6. ASSUME NEW m \in Messages, NEW c \in Channels, TryUser(m, c) PROVE Lines'
  BY <1>0, <1>6, LinesFrame DEF TryUser, TypeOK
<1>7. ASSUME NEW a \in Automations, NEW c \in Channels, TryAutomation(a, c) PROVE Lines'
  BY <1>0, <1>7, LinesFrame DEF TryAutomation, TypeOK
<1>8. ASSUME NEW p \in Maintainers, TryMaintenance(p) PROVE Lines'
  BY <1>0, <1>8, LinesFrame DEF TryMaintenance, TypeOK
<1>9. ASSUME NEW t \in Turns, EndTurn(t) PROVE Lines'
  BY <1>0, <1>9, LinesFrame DEF EndTurn, TypeOK
<1>10. ASSUME NEW t \in Turns, Notify(t) PROVE Lines'
  BY <1>0, <1>10, LinesFrame DEF Notify, TypeOK
<1>11. CASE Enter \/ UNCHANGED vars
  BY <1>0, <1>11, LinesFrame DEF Enter, vars
<1> QED BY <1>1, <1>2, <1>3, <1>4, <1>5, <1>6, <1>7, <1>8, <1>9, <1>10, <1>11 DEF Next

\* A line holds each waiting message once, and the admitted ticket only in front.
LEMMA LinesAlways == Spec => []LineInv
<1>1. Init => Lines
  BY EmptySeq DEF Init, Lines, OneLine
<1>2. LineInv /\ [Next]_vars => Lines'
  BY LinesStep DEF LineInv
<1> QED BY <1>1, <1>2, HeldAlways, PTL DEF LineInv, Spec

-----------------------------------------------------------------------------
(* Wakeups.                                                                *)

\* A message that waits for its turn and was not signalled.
Unsignalled(m) == stage[m] \in {"refused", "parked"} /\ m \notin woken

\* A step that announces, or leaves something to announce, loses no wakeup.
LEMMA WakeupDue ==
  ASSUME Announcements' # {}
  PROVE  NoLostWakeup'
BY DEF NoLostWakeup

\* Nor does one after which nobody can be admitted who could not be before.
LEMMA WakeupFrame ==
  ASSUME NoLostWakeup, Announcements \subseteq Announcements',
         Live \subseteq Live', Maintained => Maintained',
         NEW c \in Channels, \A d \in Channels \ {c} : waiting'[d] = waiting[d],
         \A m \in Messages : m = Head(waiting'[c]) \/ waiting'[c] = <<>> =>
           m = Head(waiting[c]) \/ waiting[c] = <<>>,
         \A m \in Messages : Unsignalled(m)' =>
           /\ at'[m] = at[m] /\ at[m] \in Channels
           /\ Unsignalled(m) \/ ~Admits("user", at[m], m)
  PROVE  NoLostWakeup'
<1>1. IsFiniteSet(Live') /\ IsFiniteSet(Live)
  BY FS_Subset, AdmissionAssumption DEF Live
<1>2. /\ Cardinality(Live) <= Cardinality(Live')
      /\ Cardinality(Live) \in Nat /\ Cardinality(Live') \in Nat
  BY <1>1, FS_Subset, FS_CardinalityType
<1>3. ASSUME NEW m \in Messages, Unsignalled(m)', Admits("user", at[m], m)'
      PROVE  Unsignalled(m) /\ Admits("user", at[m], m)
  <2>1. at'[m] = at[m] /\ at[m] \in Channels
    BY <1>3
  <2>2. /\ ~Maintained' /\ Cardinality(Live') < Capacity /\ at[m] \notin Live'
        /\ waiting'[at[m]] = <<>> \/ m = Head(waiting'[at[m]])
    BY <1>3, <2>1 DEF Admits, Eligible
  <2>3. ~Maintained /\ Cardinality(Live) < Capacity /\ at[m] \notin Live
    BY <1>2, <2>2, AdmissionAssumption
  <2>4. waiting[at[m]] = <<>> \/ m = Head(waiting[at[m]])
    BY <2>1, <2>2
  <2>5. Admits("user", at[m], m)
    BY <2>3, <2>4 DEF Admits, Eligible
  <2> QED BY <1>3, <2>5
<1> QED BY <1>3 DEF NoLostWakeup, Unsignalled

\* Only the end of a turn frees a slot.
LEMMA TriedAdds ==
  ASSUME TypeOK, NEW source \in {"user", "automation"}, NEW c \in Channels,
         NEW ticket, slots' = TriedSlots(source, c, ticket)
  PROVE  /\ Live \subseteq Live'
         /\ ~Admits(source, c, ticket) => Live' = Live
<1>1. \A d \in Channels \ {c} : slots'[d] = slots[d]
  BY TriedEffect
<1>2. \/ slots'[c].state = "busy" /\ Admits(source, c, ticket)
      \/ slots'[c].state = slots[c].state
  BY TriedEffect
<1> QED BY <1>1, <1>2 DEF Live

LEMMA WakeupStep ==
  ASSUME HeldInv, NoLostWakeup, [Next]_vars
  PROVE  NoLostWakeup'
<1>0. TypeOK /\ Placed
  BY DEF HeldInv
<1>1. \A m \in Messages : stage[m] \in {"refused", "parked"} => at[m] \in Channels
  BY <1>0 DEF Placed, Waiting
<1> USE AdmissionAssumption DEF Turns, Unsignalled
<1>2. ASSUME NEW m \in Messages, Arm(m) \/ Park(m) \/ Wake(m)
      PROVE  NoLostWakeup'
  <2>1. Announcements' = Announcements /\ (Maintained' <=> Maintained)
    BY <1>0, <1>2 DEF TypeOK, Arm, Park, Wake, Announcements, Maintained
  <2>2. Live' = Live /\ waiting' = waiting /\ at' = at
    BY <1>2 DEF Arm, Park, Wake, Live
  <2>3. \A n \in Messages : Unsignalled(n)' => Unsignalled(n)
    BY <1>0, <1>2 DEF TypeOK, Arm, Park, Wake
  <2>4. CASE Channels = {}
    BY <1>1, <2>2, <2>3, <2>4 DEF NoLostWakeup
  <2> QED BY <1>1, <2>1, <2>2, <2>3, <2>4, WakeupFrame
<1>3. ASSUME NEW m \in Messages, TryTicket(m) PROVE NoLostWakeup'
  <2>1. at[m] \in Channels
    BY <1>0, <1>3 DEF TryTicket, Placed, Waiting
  <2>2. Live \subseteq Live' /\ waiting' = waiting /\ at' = at
    BY <1>0, <1>3, <2>1, TriedAdds DEF TryTicket
  <2>3. Announcements' = Announcements /\ (Maintained' <=> Maintained)
    BY <1>0, <1>3 DEF TypeOK, TryTicket, Announcements, Maintained
  <2>4. \A n \in Messages : Unsignalled(n)' =>
          Unsignalled(n) \/ (n = m /\ ~Admits("user", at[m], m))
    BY <1>0, <1>3 DEF TypeOK, TryTicket
  <2> QED BY <1>1, <2>1, <2>2, <2>3, <2>4, WakeupFrame
<1>4. ASSUME NEW m \in Messages, DropTicket(m) \/ Leave(m) PROVE NoLostWakeup'
  <2>1. m \in Announcements'
    BY <1>0, <1>4 DEF TypeOK, DropTicket, Leave, Announcements
  <2> QED BY <2>1, WakeupDue
<1>5. ASSUME NEW m \in Messages, NEW c \in Channels, QueueUser(m, c)
      PROVE  NoLostWakeup'
  <2>1. Live' = Live
    BY <1>0, <1>5, QueueEffect DEF Live
  <2>2. Announcements' = Announcements /\ (Maintained' <=> Maintained)
    BY <1>0, <1>5 DEF TypeOK, QueueUser, Announcements, Maintained
  <2>3. \A n \in Messages : Unsignalled(n)' => Unsignalled(n) /\ at'[n] = at[n]
    BY <1>0, <1>5 DEF TypeOK, QueueUser
  <2>4. /\ waiting'[c] = Append(waiting[c], m) /\ waiting[c] \in Seq(Messages)
        /\ \A d \in Channels \ {c} : waiting'[d] = waiting[d]
    BY <1>0, <1>5 DEF TypeOK, QueueUser
  <2>5. /\ waiting'[c] # <<>>
        /\ waiting[c] # <<>> => Head(waiting'[c]) = Head(waiting[c])
    BY <2>4, AppendProperties, HeadTailAppend
  <2> QED BY <1>1, <2>1, <2>2, <2>3, <2>4, <2>5, WakeupFrame
<1>6. ASSUME NEW m \in Messages, NEW c \in Channels, TryUser(m, c)
      PROVE  NoLostWakeup'
  <2>1. Live \subseteq Live' /\ waiting' = waiting
    BY <1>0, <1>6, TriedAdds DEF TryUser
  <2>2. Announcements' = Announcements /\ (Maintained' <=> Maintained)
    BY <1>0, <1>6 DEF TypeOK, TryUser, Announcements, Maintained
  <2>3. \A n \in Messages : Unsignalled(n)' => Unsignalled(n) /\ at'[n] = at[n]
    BY <1>0, <1>6 DEF TypeOK, TryUser
  <2> QED BY <1>1, <2>1, <2>2, <2>3, WakeupFrame
<1>7. ASSUME NEW a \in Automations, NEW c \in Channels, TryAutomation(a, c)
      PROVE  NoLostWakeup'
  <2>1. Live \subseteq Live' /\ waiting' = waiting
    BY <1>0, <1>7, TriedAdds DEF TryAutomation
  <2>2. Announcements' = Announcements /\ (Maintained' <=> Maintained)
    BY <1>0, <1>7 DEF TypeOK, TryAutomation, Announcements, Maintained
  <2>3. \A n \in Messages : Unsignalled(n)' => Unsignalled(n) /\ at'[n] = at[n]
    BY <1>0, <1>7 DEF TypeOK, TryAutomation
  <2> QED BY <1>1, <2>1, <2>2, <2>3, WakeupFrame
<1>8. ASSUME NEW p \in Maintainers, TryMaintenance(p) PROVE NoLostWakeup'
  <2>1. Live' = Live /\ waiting' = waiting /\ at' = at
    BY <1>8 DEF TryMaintenance, Live
  <2>2. Announcements' = Announcements /\ (Maintained => Maintained')
    BY <1>0, <1>8 DEF TypeOK, TryMaintenance, Announcements, Maintained
  <2>3. \A n \in Messages : Unsignalled(n)' => Unsignalled(n)
    BY <1>0, <1>8 DEF TypeOK, TryMaintenance
  <2>4. CASE Channels = {}
    BY <1>1, <2>1, <2>3, <2>4 DEF NoLostWakeup
  <2> QED BY <1>1, <2>1, <2>2, <2>3, <2>4, WakeupFrame
<1>9. ASSUME NEW t \in Turns, EndTurn(t) PROVE NoLostWakeup'
  <2>1. t \in Announcements'
    BY <1>0, <1>9 DEF TypeOK, EndTurn, Announcements
  <2> QED BY <2>1, WakeupDue
<1>10. ASSUME NEW t \in Turns, Notify(t) PROVE NoLostWakeup'
  <2>1. \A n \in Messages : ~Unsignalled(n)'
    BY <1>0, <1>10 DEF TypeOK, Notify, NextStage, HasFuture
  <2> QED BY <2>1 DEF NoLostWakeup
<1>11. CASE Enter \/ UNCHANGED vars
  <2>1. Live' = Live /\ waiting' = waiting /\ at' = at
    BY <1>11, PurgedKeepsLive DEF Enter, Live, vars
  <2>2. /\ Announcements' = Announcements /\ (Maintained' <=> Maintained)
        /\ stage' = stage /\ woken' = woken
    BY <1>11 DEF Enter, vars, Announcements, Maintained
  <2>3. CASE Channels = {}
    BY <1>1, <2>1, <2>2, <2>3 DEF NoLostWakeup
  <2> QED BY <1>1, <2>1, <2>2, <2>3, WakeupFrame
<1> QED
  BY <1>2, <1>3, <1>4, <1>5, <1>6, <1>7, <1>8, <1>9, <1>10, <1>11 DEF Next

\* Between a refused try and the wait, and while it waits, a message hears of
\* every change that lets it in: permits that end, tickets that go and
\* maintenance that stops are announced after they took effect.
THEOREM WakeupsArrive == Spec => []NoLostWakeup
<1>1. Init => NoLostWakeup
  BY DEF Init, NoLostWakeup, Turns
<1>2. HeldInv /\ NoLostWakeup /\ [Next]_vars => NoLostWakeup'
  BY WakeupStep
<1> QED BY <1>1, <1>2, HeldAlways, PTL DEF Spec

-----------------------------------------------------------------------------
(* The refinement of ChannelService.                                       *)

\* The turn that a channel serves is the holder of its slot.
ServesHolder ==
  \A c \in Channels :
    /\ c \in Live => Served(c) \in Parties
    /\ c \notin Live => Served(c) = Nobody
    /\ \A t \in Parties : stage[t] \in Holding /\ at[t] = c => Served(c) = t

LEMMA HolderIsServed == HeldInv => ServesHolder
<1> SUFFICES ASSUME HeldInv, NEW c \in Channels
             PROVE  /\ c \in Live => Served(c) \in Parties
                    /\ c \notin Live => Served(c) = Nobody
                    /\ \A t \in Parties : stage[t] \in Holding /\ at[t] = c => Served(c) = t
  BY DEF ServesHolder
<1>1. Users(c) \cup Automated(c) = {t \in Parties : stage[t] \in Holding /\ at[t] = c}
  BY DEF Users, Automated, Parties
<1>2. ASSUME NEW t \in Parties, stage[t] \in Holding, at[t] = c
      PROVE  Served(c) = t /\ c \in Live
  <2>1. Users(c) \cup Automated(c) = {t}
    BY <1>1, <1>2 DEF HeldInv, Held
  <2> QED BY <1>2, <2>1 DEF Served, HeldInv, Held
<1>3. CASE c \in Live
  BY <1>2, <1>3 DEF HeldInv, Held
<1>4. CASE c \notin Live
  <2>1. Users(c) \cup Automated(c) = {}
    BY <1>1, <1>2, <1>4
  <2> QED BY <1>2, <1>4, <2>1 DEF Served
<1> QED BY <1>3, <1>4, <1>2

LEMMA HolderIsServedNext == HeldInv' => ServesHolder'
BY HolderIsServed, PTL

\* Who holds no permit before and after a step serves no channel.
LEMMA ServedStays ==
  ASSUME NEW c \in Channels,
         \A t \in Parties : /\ stage'[t] \in Holding /\ at'[t] = c
                               <=> stage[t] \in Holding /\ at[t] = c
  PROVE  Served(c)' = Served(c)
<1>1. Users(c)' = Users(c) /\ Automated(c)' = Automated(c)
  BY DEF Users, Automated, Parties
<1> QED BY <1>1 DEF Served

LEMMA InLineStays ==
  ASSUME NEW c \in Channels, waiting'[c] = waiting[c],
         waiting[c] # <<>> =>
           (stage'[Head(waiting[c])] = "admitted" <=> stage[Head(waiting[c])] = "admitted")
  PROVE  InLine(c)' = InLine(c)
BY DEF InLine

\* The moves of ChannelService, in terms of the lines and the holders.
LEMMA ServiceStays ==
  ASSUME \A c \in Channels : InLine(c)' = InLine(c) /\ Served(c)' = Served(c),
         Maintained' <=> Maintained
  PROVE  UNCHANGED Service!service
<1>1. [c \in Channels |-> InLine(c)]' = [c \in Channels |-> InLine(c)]
  OBVIOUS
<1>2. [c \in Channels |-> Served(c)]' = [c \in Channels |-> Served(c)]
  OBVIOUS
<1>3. Maintained' = Maintained
  BY DEF Maintained
<1> QED BY <1>1, <1>2, <1>3 DEF Service!service

LEMMA BusyIsLive == ServesHolder => Service!Busy = Live
BY AdmissionAssumption DEF ServesHolder, Service!Busy, Parties, Turns, Live

LEMMA SameCardinality == \A S : Service!Cardinality(S) = Cardinality(S)
BY DEF Service!Cardinality, Cardinality

LEMMA ServiceJoins ==
  ASSUME NEW c \in Channels, NEW t \in Turns, ~Maintained, Maintained' <=> Maintained,
         InLine(c)' = Append(InLine(c), t), \A d \in Channels \ {c} : InLine(d)' = InLine(d),
         \A d \in Channels : Served(d)' = Served(d)
  PROVE  Service!Next
<1>1. [d \in Channels |-> InLine(d)]' =
        [[d \in Channels |-> InLine(d)] EXCEPT ![c] = Append(@, t)]
  OBVIOUS
<1>2. [d \in Channels |-> Served(d)]' = [d \in Channels |-> Served(d)]
  OBVIOUS
<1>3. Maintained' = Maintained
  BY DEF Maintained
<1>4. Service!Join(c)
  BY <1>1, <1>2, <1>3 DEF Service!Join
<1> QED BY <1>4 DEF Service!Next

LEMMA ServiceBegins ==
  ASSUME ServesHolder, NEW c \in Channels, NEW t \in Turns,
         ~Maintained, Maintained' <=> Maintained, c \notin Live, Cardinality(Live) < Capacity,
         Served(c)' = t, \A d \in Channels \ {c} : Served(d)' = Served(d),
         \A d \in Channels \ {c} : InLine(d)' = InLine(d),
         IF InLine(c) = <<>> THEN InLine(c)' = InLine(c)
                             ELSE t = Head(InLine(c)) /\ InLine(c)' = Tail(InLine(c))
  PROVE  Service!Next
<1>1. [d \in Channels |-> Served(d)]' = [[d \in Channels |-> Served(d)] EXCEPT ![c] = t]
  OBVIOUS
<1>2. IF [d \in Channels |-> InLine(d)][c] = <<>>
      THEN [d \in Channels |-> InLine(d)]' = [d \in Channels |-> InLine(d)]
      ELSE /\ t = Head([d \in Channels |-> InLine(d)][c])
           /\ [d \in Channels |-> InLine(d)]' =
                [[d \in Channels |-> InLine(d)] EXCEPT ![c] = Tail(@)]
  <2>1. [d \in Channels |-> InLine(d)][c] = InLine(c)
    OBVIOUS
  <2>2. CASE InLine(c) = <<>>
    BY <2>1, <2>2
  <2>3. CASE InLine(c) # <<>>
    BY <2>1, <2>3
  <2> QED BY <2>2, <2>3
<1>3. Maintained' = Maintained
  BY DEF Maintained
<1>4. Service!Begin(c)
  BY <1>1, <1>2, <1>3, BusyIsLive, SameCardinality DEF Service!Begin
<1> QED BY <1>4 DEF Service!Next

LEMMA ServiceEnds ==
  ASSUME ServesHolder, NEW c \in Live, Maintained' <=> Maintained,
         Served(c)' = Nobody, \A d \in Channels \ {c} : Served(d)' = Served(d),
         \A d \in Channels : InLine(d)' = InLine(d)
  PROVE  Service!Next
<1>0. c \in Channels
  BY DEF Live
<1>1. [d \in Channels |-> Served(d)]' = [[d \in Channels |-> Served(d)] EXCEPT ![c] = Nobody]
  BY <1>0
<1>2. [d \in Channels |-> InLine(d)]' = [d \in Channels |-> InLine(d)]
  OBVIOUS
<1>3. Maintained' = Maintained
  BY DEF Maintained
<1>4. Service!End(c)
  BY <1>1, <1>2, <1>3, BusyIsLive DEF Service!End
<1> QED BY <1>0, <1>4 DEF Service!Next

LEMMA ServiceLeaves ==
  ASSUME NEW c \in Channels, NEW i \in 1 .. Len(InLine(c)), Maintained' <=> Maintained,
         InLine(c)' = RemoveAt(InLine(c), i),
         \A d \in Channels \ {c} : InLine(d)' = InLine(d),
         \A d \in Channels : Served(d)' = Served(d)
  PROVE  Service!Next
<1>1. [d \in Channels |-> InLine(d)]' =
        [[d \in Channels |-> InLine(d)] EXCEPT
            ![c] = SubSeq(@, 1, i - 1) \o SubSeq(@, i + 1, Len(@))]
  BY DEF RemoveAt
<1>2. [d \in Channels |-> Served(d)]' = [d \in Channels |-> Served(d)]
  OBVIOUS
<1>3. Maintained' = Maintained
  BY DEF Maintained
<1>4. i \in 1 .. Len([d \in Channels |-> InLine(d)][c])
  OBVIOUS
<1>5. Service!Leave(c)
  BY <1>1, <1>2, <1>3, <1>4 DEF Service!Leave
<1> QED BY <1>5 DEF Service!Next

\* No permit changes hands, no line changes and no maintenance begins or ends.
LEMMA QuietStep ==
  ASSUME LineInv, waiting' = waiting,
         \A t \in Parties : /\ stage'[t] \in Holding <=> stage[t] \in Holding
                            /\ stage[t] \in Holding => at'[t] = at[t],
         \A m \in Messages : stage'[m] = "admitted" <=> stage[m] = "admitted",
         Maintained' <=> Maintained
  PROVE  UNCHANGED Service!service
<1>1. \A c \in Channels : Served(c)' = Served(c)
  BY ServedStays
<1>2. \A c \in Channels : InLine(c)' = InLine(c)
  BY InLineStays, LineFacts DEF LineInv, HeldInv
<1> QED BY <1>1, <1>2, ServiceStays

LEMMA MaintenanceFrame ==
  ASSUME \A p \in Maintainers : stage'[p] = "running" <=> stage[p] = "running"
  PROVE  Maintained' <=> Maintained
BY DEF Maintained

\* A turn that is admitted is the next one its channel serves.
LEMMA AdmissionServes ==
  ASSUME LineInv, HeldInv', NEW t \in Parties, NEW c \in Channels, NEW source, NEW ticket,
         Admits(source, c, ticket),
         waiting' = waiting, stage[t] \notin Holding, stage'[t] \in Holding, at'[t] = c,
         \A u \in Turns \ {t} : stage'[u] = stage[u] /\ at'[u] = at[u],
         IF waiting[c] = <<>>
         THEN \A d \in Channels : waiting[d] # <<>> => Head(waiting[d]) # t
         ELSE t = Head(waiting[c]) /\ stage'[t] = "admitted"
  PROVE  Service!Next
<1> USE AdmissionAssumption DEF Turns, Parties
<1>1. ~Maintained /\ c \notin Live /\ Cardinality(Live) < Capacity
  BY DEF Admits, Eligible
<1>2. Maintained' <=> Maintained
  BY MaintenanceFrame
<1>3. ServesHolder /\ Served(c)' = t
  BY HolderIsServed, HolderIsServedNext DEF LineInv, ServesHolder
<1>4. ASSUME NEW d \in Channels \ {c} PROVE Served(d)' = Served(d) /\ InLine(d)' = InLine(d)
  <2>1. Served(d)' = Served(d)
    BY ServedStays
  <2>2. waiting[d] # <<>> => Head(waiting[d]) # t /\ Head(waiting[d]) \in Messages
    <3>1. SUFFICES ASSUME waiting[d] # <<>>, waiting[c] # <<>>
                   PROVE  Head(waiting[d]) # Head(waiting[c])
      BY LineFacts DEF LineInv, HeldInv
    <3>2. at[Head(waiting[d])] = d /\ at[Head(waiting[c])] = c
      BY <3>1, LineFacts DEF LineInv, HeldInv, Lines, OneLine
    <3> QED BY <3>2
  <2>3. InLine(d)' = InLine(d)
    BY <2>2, InLineStays
  <2> QED BY <2>1, <2>3
<1>5. IF InLine(c) = <<>> THEN InLine(c)' = InLine(c)
                          ELSE t = Head(InLine(c)) /\ InLine(c)' = Tail(InLine(c))
  <2>1. CASE waiting[c] = <<>>
    BY <2>1 DEF InLine
  <2>2. CASE waiting[c] # <<>>
    <3>1. InLine(c) = waiting[c] /\ InLine(c)' = Tail(waiting[c])
      BY <2>2 DEF InLine, Holding
    <3> QED BY <2>2, <3>1
  <2> QED BY <2>1, <2>2
<1> QED BY <1>1, <1>2, <1>3, <1>4, <1>5, ServiceBegins

LEMMA ServeTicket ==
  ASSUME LineInv, HeldInv', NEW m \in Messages, TryTicket(m)
  PROVE  [Service!Next]_(Service!service)
<1> USE AdmissionAssumption DEF Turns
<1>0. TypeOK /\ Placed
  BY DEF LineInv, HeldInv
<1>1. at[m] \in Channels
  BY <1>0 DEF TryTicket, Placed, Waiting
<1>2. CASE Admits("user", at[m], m)
  <2>1. waiting[at[m]] = <<>> \/ m = Head(waiting[at[m]])
    BY <1>2 DEF Admits, Eligible
  <2>2. \A d \in Channels : waiting[d] # <<>> => at[Head(waiting[d])] = d
    BY <1>0, LineFacts DEF LineInv, Lines, OneLine
  <2>3. /\ stage[m] = "armed" /\ stage'[m] = "admitted" /\ at' = at /\ waiting' = waiting
        /\ \A u \in Turns \ {m} : stage'[u] = stage[u]
    BY <1>0, <1>2 DEF TryTicket, TypeOK
  <2>4. Service!Next
    BY <1>1, <1>2, <2>1, <2>2, <2>3, AdmissionServes DEF Holding, Parties
  <2> QED BY <2>4
<1>3. CASE ~Admits("user", at[m], m)
  <2>1. /\ stage[m] = "armed" /\ stage'[m] = "refused" /\ at' = at /\ waiting' = waiting
        /\ \A u \in Turns \ {m} : stage'[u] = stage[u]
    BY <1>0, <1>3 DEF TryTicket, TypeOK
  <2>2. Maintained' <=> Maintained
    BY <2>1, MaintenanceFrame
  <2> QED BY <2>1, <2>2, QuietStep DEF Holding, Parties
<1> QED BY <1>2, <1>3

\* Turns that do not wait are admitted only where nobody does.
LEMMA ServeAtOnce ==
  ASSUME LineInv, HeldInv', NEW t \in Parties, NEW c \in Channels,
         NEW source \in {"user", "automation"}, stage[t] = "new", waiting' = waiting,
         IF Admits(source, c, Nobody)
         THEN /\ stage' = [stage EXCEPT ![t] = "running"]
              /\ at' = [at EXCEPT ![t] = c]
         ELSE UNCHANGED <<stage, at>>
  PROVE  [Service!Next]_(Service!service)
<1> USE AdmissionAssumption DEF Turns, Parties
<1>0. TypeOK /\ Placed
  BY DEF LineInv, HeldInv
<1>1. CASE Admits(source, c, Nobody)
  <2>1. \A d \in Channels : waiting[d] # <<>> =>
          /\ Head(waiting[d]) \in Messages
          /\ stage[Head(waiting[d])] \in Waiting \cup {"admitted"}
    BY <1>0, LineFacts DEF LineInv, Lines, OneLine
  <2>2. waiting[c] = <<>>
    BY <1>1, <2>1 DEF Admits, Eligible
  <2>3. \A d \in Channels : waiting[d] # <<>> => Head(waiting[d]) # t
    BY <2>1 DEF Waiting
  <2>4. /\ stage'[t] = "running" /\ at'[t] = c
        /\ \A u \in Turns \ {t} : stage'[u] = stage[u] /\ at'[u] = at[u]
    BY <1>0, <1>1 DEF TypeOK
  <2>5. Service!Next
    BY <1>1, <2>2, <2>3, <2>4, AdmissionServes DEF Holding
  <2> QED BY <2>5
<1>2. CASE ~Admits(source, c, Nobody)
  <2>1. Maintained' <=> Maintained
    BY <1>2, MaintenanceFrame
  <2> QED BY <1>2, <2>1, QuietStep
<1> QED BY <1>1, <1>2

LEMMA ServeQueue ==
  ASSUME LineInv, NEW m \in Messages, NEW c \in Channels, QueueUser(m, c)
  PROVE  Service!Next
<1> USE AdmissionAssumption DEF Turns
<1>0. TypeOK
  BY DEF LineInv, HeldInv
<1>1. /\ stage[m] = "new" /\ stage'[m] = "queued" /\ ~Maintained
      /\ \A u \in Turns \ {m} : stage'[u] = stage[u] /\ at'[u] = at[u]
      /\ waiting'[c] = Append(waiting[c], m)
      /\ \A d \in Channels \ {c} : waiting'[d] = waiting[d]
  BY <1>0 DEF QueueUser, TypeOK
<1>2. \A d \in Channels : waiting[d] # <<>> =>
        Head(waiting[d]) \in Messages /\ Head(waiting[d]) # m
  BY <1>0, <1>1, LineFacts DEF LineInv, Lines, OneLine, Waiting
<1>3. Maintained' <=> Maintained
  BY <1>1, MaintenanceFrame
<1>4. \A d \in Channels : Served(d)' = Served(d)
  BY <1>1, ServedStays DEF Parties, Holding
<1>5. \A d \in Channels \ {c} : InLine(d)' = InLine(d)
  BY <1>1, <1>2, InLineStays
<1>6. InLine(c)' = Append(InLine(c), m)
  <2>1. waiting[c] \in Seq(Messages)
    BY <1>0 DEF TypeOK
  <2>2. /\ waiting'[c] # <<>>
        /\ Head(waiting'[c]) = IF waiting[c] = <<>> THEN m ELSE Head(waiting[c])
        /\ Tail(waiting'[c]) = IF waiting[c] = <<>> THEN <<>> ELSE Append(Tail(waiting[c]), m)
    BY <1>1, <2>1, HeadTailAppend, AppendProperties
  <2>3. CASE waiting[c] = <<>>
    BY <1>1, <2>2, <2>3 DEF InLine
  <2>4. CASE waiting[c] # <<>> /\ stage[Head(waiting[c])] = "admitted"
    BY <1>1, <1>2, <2>2, <2>4 DEF InLine
  <2>5. CASE waiting[c] # <<>> /\ stage[Head(waiting[c])] # "admitted"
    BY <1>1, <1>2, <2>2, <2>5 DEF InLine
  <2> QED BY <2>3, <2>4, <2>5
<1> QED BY <1>1, <1>3, <1>4, <1>5, <1>6, ServiceJoins

\* Who is first after a ticket was taken out was first or second.
LEMMA NewHead ==
  ASSUME NEW S, NEW s \in Seq(S), NEW i \in 1 .. Len(s), RemoveAt(s, i) # <<>>
  PROVE  /\ 1 \in 1 .. Len(s) /\ 2 \in 1 .. Len(s)
         /\ Head(RemoveAt(s, i)) = IF i = 1 THEN s[2] ELSE s[1]
<1>1. Len(s) \in Nat /\ i \in Nat /\ 1 <= i /\ i <= Len(s)
  BY LenProperties
<1>2. /\ RemoveAt(s, i) \in Seq(S) /\ Len(RemoveAt(s, i)) = Len(s) - 1
      /\ \A j \in 1 .. Len(s) - 1 : RemoveAt(s, i)[j] = IF j < i THEN s[j] ELSE s[j + 1]
  BY RemoveAtFacts
<1>3. Len(RemoveAt(s, i)) # 0
  BY <1>2, EmptySeq
<1>4. Len(s) >= 2
  BY <1>1, <1>2, <1>3
<1>5. RemoveAt(s, i)[1] = IF 1 < i THEN s[1] ELSE s[2]
  BY <1>1, <1>2, <1>4
<1>6. Head(RemoveAt(s, i)) = RemoveAt(s, i)[1]
  BY <1>2
<1>7. 1 < i <=> i # 1
  BY <1>1
<1> QED BY <1>1, <1>4, <1>5, <1>6, <1>7

\* A ticket that is given up leaves the line of those that wait.
LEMMA ServeLeave ==
  ASSUME LineInv, Lines', NEW m \in Messages, Leave(m)
  PROVE  Service!Next
<1> USE AdmissionAssumption DEF Turns
<1>0. TypeOK /\ Placed /\ Lines
  BY DEF LineInv, HeldInv
<1>1. /\ stage[m] \in {"queued", "parked"} /\ stage'[m] = "left" /\ at' = at
      /\ \A u \in Turns \ {m} : stage'[u] = stage[u]
  BY <1>0 DEF Leave, TypeOK
<1>2. PICK c \in Channels : at[m] = c
  BY <1>0, <1>1 DEF Placed, Waiting
<1>3. PICK i \in 1 .. Len(waiting[c]) :
        waiting[c][i] = m /\ waiting' = [waiting EXCEPT ![c] = RemoveAt(@, i)]
  BY <1>2 DEF Leave, RemoveTicket
<1>4. waiting'[c] = RemoveAt(waiting[c], i) /\ \A d \in Channels \ {c} : waiting'[d] = waiting[d]
  BY <1>0, <1>2, <1>3 DEF TypeOK
<1>5. Maintained' <=> Maintained
  BY <1>1, MaintenanceFrame
<1>6. \A d \in Channels : Served(d)' = Served(d)
  BY <1>1, ServedStays DEF Parties, Holding
<1>7. \A d \in Channels \ {c} : InLine(d)' = InLine(d)
  <2>1. ASSUME NEW d \in Channels \ {c}, waiting[d] # <<>>
        PROVE  Head(waiting[d]) \in Messages /\ Head(waiting[d]) # m
    BY <1>0, <1>2, <2>1, LineFacts DEF Lines, OneLine
  <2> QED BY <1>1, <1>4, <2>1, InLineStays
<1>8. /\ waiting[c] \in Seq(Messages) /\ Len(waiting[c]) \in Nat /\ i \in Nat
      /\ waiting[c] # <<>> /\ Head(waiting[c]) = waiting[c][1] /\ waiting[c][1] \in Messages
  BY <1>0, <1>2, <1>3, LineFacts, EmptySeq
<1>9. CASE stage[Head(waiting[c])] = "admitted"
  <2>1. i \in 2 .. Len(waiting[c]) /\ Head(waiting[c]) # m
    BY <1>1, <1>3, <1>8, <1>9
  <2>2. /\ waiting'[c] # <<>> /\ Head(waiting'[c]) = Head(waiting[c])
        /\ Tail(waiting'[c]) = RemoveAt(Tail(waiting[c]), i - 1)
    BY <1>4, <1>8, <2>1, RemoveLaterTicket
  <2>3. InLine(c) = Tail(waiting[c]) /\ InLine(c)' = RemoveAt(Tail(waiting[c]), i - 1)
    BY <1>1, <1>8, <1>9, <2>1, <2>2 DEF InLine
  <2>4. Len(Tail(waiting[c])) = Len(waiting[c]) - 1
    BY <1>8, HeadTailProperties
  <2>5. i - 1 \in 1 .. Len(InLine(c))
    BY <1>8, <2>1, <2>3, <2>4
  <2> QED BY <1>2, <1>5, <1>6, <1>7, <2>3, <2>5, ServiceLeaves
<1>10. CASE stage[Head(waiting[c])] # "admitted"
  <2>1. \A k \in 1 .. Len(waiting[c]) : stage[waiting[c][k]] # "admitted"
    BY <1>0, <1>2, <1>8, <1>10 DEF Lines, OneLine
  <2>2. waiting'[c] # <<>> => stage'[Head(waiting'[c])] # "admitted"
    <3>1. SUFFICES ASSUME waiting'[c] # <<>>
                   PROVE  \E k \in 1 .. Len(waiting[c]) : Head(waiting'[c]) = waiting[c][k]
      BY <1>0, <1>1, <1>2, <1>8, <2>1, LineFacts
    <3>2. waiting[c] \in Seq(Messages) /\ RemoveAt(waiting[c], i) # <<>>
      BY <1>4, <1>8, <3>1
    <3>3. /\ 1 \in 1 .. Len(waiting[c]) /\ 2 \in 1 .. Len(waiting[c])
          /\ Head(RemoveAt(waiting[c], i)) = IF i = 1 THEN waiting[c][2] ELSE waiting[c][1]
      BY <3>2, NewHead
    <3> QED BY <1>4, <3>3
  <2>3. InLine(c) = waiting[c] /\ InLine(c)' = waiting'[c]
    BY <1>10, <2>2 DEF InLine
  <2> QED BY <1>2, <1>3, <1>4, <1>5, <1>6, <1>7, <2>3, ServiceLeaves
<1> QED BY <1>9, <1>10

\* An admitted message waits no longer, so nothing changes when its ticket goes.
LEMMA ServeDrop ==
  ASSUME LineInv, NEW m \in Messages, DropTicket(m)
  PROVE  UNCHANGED Service!service
<1> USE AdmissionAssumption DEF Turns
<1>0. TypeOK /\ Placed /\ Lines
  BY DEF LineInv, HeldInv
<1>1. /\ stage[m] = "admitted" /\ stage'[m] = "dropped" /\ at' = at
      /\ \A u \in Turns \ {m} : stage'[u] = stage[u]
  BY <1>0 DEF DropTicket, TypeOK
<1>2. PICK c \in Channels : at[m] = c
  BY <1>1 DEF LineInv, HeldInv, Held, Holding, Parties, Live
<1>3. PICK i \in 1 .. Len(waiting[c]) :
        waiting[c][i] = m /\ waiting' = [waiting EXCEPT ![c] = RemoveAt(@, i)]
  BY <1>2 DEF DropTicket, RemoveTicket
<1>4. waiting'[c] = RemoveAt(waiting[c], i) /\ \A d \in Channels \ {c} : waiting'[d] = waiting[d]
  BY <1>0, <1>2, <1>3 DEF TypeOK
<1>5. Maintained' <=> Maintained
  BY <1>1, MaintenanceFrame
<1>6. \A d \in Channels : Served(d)' = Served(d)
  BY <1>1, ServedStays DEF Parties, Holding
<1>7. \A d \in Channels \ {c} : InLine(d)' = InLine(d)
  <2>1. ASSUME NEW d \in Channels \ {c}, waiting[d] # <<>>
        PROVE  Head(waiting[d]) \in Messages /\ Head(waiting[d]) # m
    BY <1>0, <1>2, <2>1, LineFacts DEF Lines, OneLine
  <2> QED BY <1>1, <1>4, <2>1, InLineStays
<1>8. /\ waiting[c] \in Seq(Messages) /\ Len(waiting[c]) \in Nat /\ i \in Nat
      /\ waiting[c] # <<>> /\ Head(waiting[c]) = waiting[c][1] /\ waiting[c][1] \in Messages
  BY <1>0, <1>2, <1>3, LineFacts, EmptySeq
<1>9. i = 1
  BY <1>0, <1>1, <1>2, <1>3 DEF Lines, OneLine
<1>10. InLine(c) = Tail(waiting[c]) /\ waiting'[c] = Tail(waiting[c])
  BY <1>1, <1>3, <1>4, <1>8, <1>9, RemoveFirstTicket DEF InLine
<1>11. waiting'[c] # <<>> => stage'[Head(waiting'[c])] # "admitted"
  <2>1. SUFFICES ASSUME waiting'[c] # <<>>
                 PROVE  Head(waiting'[c]) # m /\ Head(waiting'[c]) \in Messages
                        /\ stage[Head(waiting'[c])] # "admitted"
    BY <1>1
  <2>2. waiting[c] \in Seq(Messages) /\ RemoveAt(waiting[c], i) # <<>>
    BY <1>4, <1>8, <2>1
  <2>3. 2 \in 1 .. Len(waiting[c]) /\ Head(RemoveAt(waiting[c], i)) = waiting[c][2]
    BY <1>9, <2>2, NewHead
  <2>4. Head(waiting'[c]) = waiting[c][2] /\ 2 \in 1 .. Len(waiting[c])
    BY <1>4, <2>3
  <2>5. /\ waiting[c][2] \in Messages /\ waiting[c][2] # waiting[c][1]
        /\ stage[waiting[c][2]] # "admitted"
    BY <1>0, <1>2, <1>8, <2>4, LineFacts DEF Lines, OneLine
  <2> QED BY <1>3, <1>9, <2>4, <2>5
<1>12. InLine(c)' = InLine(c)
  BY <1>10, <1>11 DEF InLine
<1> QED BY <1>5, <1>6, <1>7, <1>12, ServiceStays

LEMMA ServeMaintenance ==
  ASSUME LineInv, NEW p \in Maintainers, TryMaintenance(p)
  PROVE  [Service!Next]_(Service!service)
<1> USE AdmissionAssumption DEF Turns
<1>0. TypeOK /\ Placed /\ Lines
  BY DEF LineInv, HeldInv
<1>1. /\ stage[p] = "new" /\ waiting' = waiting /\ at' = at
      /\ \A u \in Turns \ {p} : stage'[u] = stage[u]
  BY <1>0 DEF TryMaintenance, TypeOK
<1>2. \A c \in Channels : Served(c)' = Served(c)
  BY <1>1, ServedStays DEF Parties
<1>3. \A c \in Channels : InLine(c)' = InLine(c)
  BY <1>0, <1>1, InLineStays, LineFacts
<1>4. CASE ~Maintained /\ Live = {} /\ ~SomeoneWaits
  <2>1. Maintained'
    BY <1>0, <1>4 DEF TryMaintenance, TypeOK, Maintained
  <2>2. Service!Busy = {}
    BY <1>4, HolderIsServed, BusyIsLive DEF LineInv
  <2>3. \A c \in Channels : [d \in Channels |-> InLine(d)][c] = <<>>
    BY <1>4 DEF SomeoneWaits, InLine
  <2>4. /\ [d \in Channels |-> InLine(d)]' = [d \in Channels |-> InLine(d)]
        /\ [d \in Channels |-> Served(d)]' = [d \in Channels |-> Served(d)]
    BY <1>2, <1>3
  <2>5. Maintained' = TRUE
    BY <2>1 DEF Maintained
  <2>6. Service!Close
    BY <1>4, <2>2, <2>3, <2>4, <2>5 DEF Service!Close
  <2> QED BY <2>6 DEF Service!Next
<1>5. CASE ~(~Maintained /\ Live = {} /\ ~SomeoneWaits)
  <2>1. Maintained' <=> Maintained
    BY <1>5 DEF TryMaintenance, Maintained
  <2> QED BY <1>2, <1>3, <2>1, ServiceStays
<1> QED BY <1>4, <1>5

LEMMA ServeEnd ==
  ASSUME LineInv, HeldInv', MaintenanceAlone, NEW t \in Turns, EndTurn(t)
  PROVE  Service!Next
<1> USE AdmissionAssumption DEF Turns
<1>0. TypeOK /\ Placed /\ Lines /\ Held
  BY DEF LineInv, HeldInv
<1>1. /\ stage[t] = "running" /\ stage'[t] = "freed" /\ waiting' = waiting /\ at' = at
      /\ \A u \in Turns \ {t} : stage'[u] = stage[u]
  BY <1>0 DEF EndTurn, TypeOK
<1>2. \A c \in Channels : InLine(c)' = InLine(c)
  BY <1>0, <1>1, InLineStays, LineFacts
<1>3. CASE t \in Maintainers
  <2>1. Maintained /\ ~Maintained'
    BY <1>1, <1>3 DEF Maintained, MaintenanceAlone, Holding
  <2>2. \A c \in Channels : Served(c)' = Served(c)
    BY <1>1, <1>3, ServedStays DEF Parties
  <2>3. /\ [d \in Channels |-> InLine(d)]' = [d \in Channels |-> InLine(d)]
        /\ [d \in Channels |-> Served(d)]' = [d \in Channels |-> Served(d)]
    BY <1>2, <2>2
  <2>4. Maintained' = FALSE
    BY <2>1
  <2>5. Service!Reopen
    BY <2>1, <2>3, <2>4 DEF Service!Reopen
  <2> QED BY <2>5 DEF Service!Next
<1>4. CASE t \notin Maintainers
  <2>1. t \in Parties
    BY <1>4 DEF Parties
  <2>2. PICK c \in Live : at[t] = c
    BY <1>0, <1>1, <2>1 DEF Held, Holding
  <2>3. c \in Channels /\ c \notin Live'
    BY <1>0, <1>4, <2>2 DEF EndTurn, TypeOK, Slot, Live
  <2>4. ServesHolder /\ Served(c)' = Nobody
    BY <2>3, HolderIsServed, HolderIsServedNext DEF LineInv, ServesHolder
  <2>5. \A d \in Channels \ {c} : Served(d)' = Served(d)
    BY <1>1, <2>2, ServedStays DEF Parties
  <2>6. Maintained' <=> Maintained
    BY <1>1, <1>4, MaintenanceFrame
  <2> QED BY <1>2, <2>4, <2>5, <2>6, ServiceEnds
<1> QED BY <1>3, <1>4

\* Every step is one of the service, or none.
LEMMA ServeStep ==
  ASSUME LineInv, HeldInv', Lines', MaintenanceAlone, [Next]_vars
  PROVE  [Service!Next]_(Service!service)
<1> USE AdmissionAssumption DEF Turns
<1>0. TypeOK /\ Placed
  BY DEF LineInv, HeldInv
<1>1. ASSUME NEW m \in Messages, Arm(m) \/ Park(m) \/ Wake(m)
      PROVE  UNCHANGED Service!service
  <2>1. /\ waiting' = waiting /\ at' = at
        /\ stage[m] \in {"queued", "refused", "parked"}
        /\ stage'[m] \in {"armed", "parked", "queued"}
        /\ \A u \in Turns \ {m} : stage'[u] = stage[u]
    BY <1>0, <1>1 DEF TypeOK, Arm, Park, Wake
  <2>2. Maintained' <=> Maintained
    BY <2>1, MaintenanceFrame
  <2> QED BY <2>1, <2>2, QuietStep DEF Parties, Holding
<1>2. ASSUME NEW m \in Messages, NEW c \in Channels, TryUser(m, c)
      PROVE  [Service!Next]_(Service!service)
  BY <1>2, ServeAtOnce DEF TryUser, Parties
<1>3. ASSUME NEW a \in Automations, NEW c \in Channels, TryAutomation(a, c)
      PROVE  [Service!Next]_(Service!service)
  BY <1>3, ServeAtOnce DEF TryAutomation, Parties
<1>4. ASSUME NEW t \in Turns, Notify(t) PROVE UNCHANGED Service!service
  <2>1. /\ waiting' = waiting
        /\ \A u \in Turns \ {t} : stage'[u] = stage[u] /\ at'[u] = at[u]
        /\ stage'[t] = "running" => at'[t] = at[t]
        /\ \/ stage[t] = "dropped" /\ stage'[t] = "running"
           \/ stage[t] \in {"freed", "left"} /\ stage'[t] \in {"new", "done"}
    BY <1>0, <1>4 DEF TypeOK, Notify, NextStage
  <2>2. \A p \in Maintainers : stage'[p] = "running" <=> stage[p] = "running"
    BY <1>0, <2>1 DEF Placed
  <2>3. Maintained' <=> Maintained
    BY <2>2, MaintenanceFrame
  <2> QED BY <2>1, <2>3, QuietStep DEF Parties, Holding
<1>5. CASE Enter \/ UNCHANGED vars
  <2>1. Maintained' <=> Maintained
    BY <1>5, MaintenanceFrame DEF Enter, vars
  <2> QED BY <1>5, <2>1, QuietStep DEF Enter, vars
<1> QED BY <1>1, <1>2, <1>3, <1>4, <1>5, ServeTicket, ServeQueue, ServeLeave, ServeDrop,
           ServeMaintenance, ServeEnd DEF Next

\* Flags, tickets and notifications in any order of the threads: on every channel turns
\* are served one at a time and in the order of its line, within the capacity, and
\* maintenance closes the daemon only when all is quiet.
THEOREM ServiceIsKept == Spec => KeepsService
<1>1. Init => Service!Init
  <2>1. Init => \A c \in Channels : Users(c) \cup Automated(c) = {}
    BY DEF Init, Users, Automated, Holding, Turns
  <2>2. Init => \A c \in Channels : InLine(c) = <<>> /\ Served(c) = Nobody
    BY <2>1 DEF Init, InLine, Served
  <2>3. Init => Maintained = FALSE
    BY DEF Init, Maintained, Turns
  <2> QED BY <2>2, <2>3 DEF Service!Init
<1>2. LineInv /\ LineInv' /\ MaintenanceAlone /\ [Next]_vars =>
        [Service!Next]_(Service!service)
  BY ServeStep DEF LineInv
<1> QED BY <1>1, <1>2, LinesAlways, MaintenanceIsAlone, PTL DEF Spec, KeepsService, Service!Spec
=============================================================================
