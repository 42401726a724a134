---------------------------- MODULE TurnAdmission ----------------------------
(***************************************************************************)
(* Admission of turns (BoBeService/src/runtime/turn_admission.rs): who may *)
(* take a turn on a channel, in what order, and how a waiting message      *)
(* learns that it may try again.                                           *)
(*                                                                         *)
(* A step is what one thread does under the mutex, one atomic store of a   *)
(* busy flag, or one notify_waiters.  Between them other threads run, so a *)
(* permit that was dropped has not been announced yet.  try_channel is two *)
(* steps, because a flag is released without the mutex: it purges the      *)
(* table by the flags as they are and counts them again afterwards.        *)
(***************************************************************************)
EXTENDS Naturals, FiniteSets, SequencesExt

CONSTANTS
  Channels,     \* conversation channels
  Messages,     \* user turns, each of which lives once; its id is its ticket
  Automations,  \* capture, check-in and background turns, which recur
  Maintainers,  \* purges, exports and restores, which recur
  Capacity,     \* live_channels
  MaxWaiting,   \* messages that may wait at one time (64)
  Nobody

Turns == Messages \cup Automations \cup Maintainers

ASSUME AdmissionAssumption ==
  /\ Capacity \in Nat \ {0} /\ MaxWaiting \in Nat
  /\ IsFiniteSet(Channels) /\ Nobody \notin Turns \cup Channels
  /\ Messages \cap Automations = {}
  /\ Maintainers \cap (Messages \cup Automations) = {}

VARIABLES
  slots,    \* State.channels: channel -> its slot
  waiting,  \* State.waiting: channel -> the tickets in line
  trying,   \* a thread has the mutex between the two steps of try_channel
  stage,    \* how far each turn has come
  at,       \* the channel of each turn, or Nobody
  woken     \* messages whose Notified future has been signalled

vars == <<slots, waiting, trying, stage, at, woken>>

\* The task of a message stands at `admit`'s loop ("queued"), holds a Notified
\* future ("armed"), was refused with it ("refused"), awaits it ("parked"), got
\* its permit but still holds its ticket ("admitted"), or dropped the ticket
\* ("dropped").  A turn that dropped
\* its permit is "freed", a message that gave up is "left", until each has been
\* announced.
Stages == {"new", "queued", "armed", "refused", "parked", "admitted", "dropped",
           "running", "freed", "left", "done"}
Holding == {"admitted", "dropped", "running"}

\* A slot whose flag was released is stale until try_channel purges it.
Slot == [state: {"none", "busy", "stale"}, source: {"user", "automation"},
         cancelled: BOOLEAN]
NoSlot == [state |-> "none", source |-> "user", cancelled |-> FALSE]

TypeOK ==
  /\ slots \in [Channels -> Slot]
  /\ waiting \in [Channels -> Seq(Messages)]
  /\ trying \in BOOLEAN
  /\ stage \in [Turns -> Stages]
  /\ at \in [Turns -> Channels \cup {Nobody}]
  /\ woken \subseteq Messages

Init ==
  /\ slots = [c \in Channels |-> NoSlot]
  /\ waiting = [c \in Channels |-> <<>>]
  /\ trying = FALSE
  /\ stage = [t \in Turns |-> "new"]
  /\ at = [t \in Turns |-> Nobody]
  /\ woken = {}

-----------------------------------------------------------------------------
(* try_channel.                                                            *)

Live == {c \in Channels : slots[c].state = "busy"}
\* Mutant: the table keeps the slots that were released.
Unpurged == slots
Purged == [c \in Channels |-> IF c \in Live THEN slots[c] ELSE NoSlot]
Maintained == \E p \in Maintainers : stage[p] = "running"
SomeoneWaits == \E c \in Channels : waiting[c] # <<>>
Waiters == MapThenSumSet(LAMBDA c : Len(waiting[c]), Channels)

\* Mutants: maintenance does not keep turns out, or a ticket is not compared.
EligibleInMaintenance(source, c, ticket) ==
  /\ source = "user" \/ ~SomeoneWaits
  /\ Cardinality(Live) < Capacity
  /\ waiting[c] = <<>> \/ (source = "user" /\ ticket = Head(waiting[c]))
EligibleAnyTicket(source, c, ticket) ==
  /\ ~Maintained
  /\ source = "user" \/ ~SomeoneWaits
  /\ Cardinality(Live) < Capacity
  /\ waiting[c] = <<>> \/ source = "user"

\* Nothing but the channel's own slot is in the way.
Eligible(source, c, ticket) ==
  /\ ~Maintained
  /\ source = "user" \/ ~SomeoneWaits
  /\ Cardinality(Live) < Capacity
  /\ waiting[c] = <<>> \/ (source = "user" /\ ticket = Head(waiting[c]))

\* Mutant: the slot's flag is not read.
AdmitsBusy(source, c, ticket) == Eligible(source, c, ticket)
Admits(source, c, ticket) == Eligible(source, c, ticket) /\ c \notin Live

\* The cancellation tokens of some channels are cancelled.
Stopped(table, chosen) ==
  [d \in Channels |-> IF d \in chosen THEN [table[d] EXCEPT !.cancelled = TRUE]
                                      ELSE table[d]]

\* A thread that wants a turn takes the mutex and purges the slots that are
\* released; which turn it wants makes no difference yet.
Wants(t) == stage[t] \in {"new", "armed"}
Enter ==
  /\ ~trying
  /\ \E t \in Turns : Wants(t)
  /\ trying' = TRUE
  /\ slots' = Purged
  /\ UNCHANGED <<waiting, stage, at, woken>>

\* The second step decides on the flags as they are by then.  A user who finds
\* automation on the channel tells it to stop.  What the code reads in turn is
\* one step here: a flag that is released between the count and the look at the
\* channel's own slot only adds what an earlier or a later release would give.
Decide == trying /\ trying' = FALSE

TriedSlots(source, c, ticket) ==
  IF Admits(source, c, ticket)
  THEN [slots EXCEPT ![c] = [state |-> "busy", source |-> source,
                              cancelled |-> FALSE]]
  ELSE IF Eligible(source, c, ticket) /\ source = "user"
          /\ slots[c].source = "automation"
       THEN Stopped(slots, {c})
       ELSE slots

-----------------------------------------------------------------------------
(* Messages.                                                               *)

Present(c) == slots[c].state # "none"
Stoppable(table) == {c \in Channels : /\ table[c].state # "none"
                                      /\ table[c].source = "automation"
                                      /\ ~table[c].cancelled}

\* queue_user: the message takes its place, stops the automation of its own
\* channel and, while every place is taken, one more automated turn.
QueueUser(m, c) ==
  LET own == Stopped(slots, {c} \cap Stoppable(slots))
  IN /\ stage[m] = "new" /\ ~trying
     /\ ~Maintained
     /\ Waiters < MaxWaiting
     /\ waiting' = [waiting EXCEPT ![c] = Append(@, m)]
     /\ stage' = [stage EXCEPT ![m] = "queued"]
     /\ at' = [at EXCEPT ![m] = c]
     /\ IF Cardinality(Live) >= Capacity /\ Stoppable(own) # {}
        THEN \E d \in Stoppable(own) :
               slots' = Stopped(own, {d})
        ELSE slots' = own
     /\ UNCHANGED <<trying, woken>>

\* admit creates its Notified future before it tries.
Arm(m) ==
  /\ stage[m] = "queued"
  /\ stage' = [stage EXCEPT ![m] = "armed"]
  /\ woken' = woken \ {m}
  /\ UNCHANGED <<slots, waiting, trying, at>>

TryTicket(m) ==
  /\ stage[m] = "armed" /\ Decide
  /\ stage' = [stage EXCEPT ![m] = IF Admits("user", at[m], m) THEN "admitted"
                                                             ELSE "refused"]
  /\ slots' = TriedSlots("user", at[m], m)
  /\ UNCHANGED <<waiting, at, woken>>

Park(m) ==
  /\ stage[m] = "refused"
  /\ stage' = [stage EXCEPT ![m] = "parked"]
  /\ UNCHANGED <<slots, waiting, trying, at, woken>>

Wake(m) ==
  /\ stage[m] = "parked"
  /\ m \in woken
  /\ stage' = [stage EXCEPT ![m] = "queued"]
  /\ UNCHANGED <<slots, waiting, trying, at, woken>>

\* Drop of QueuedTurn, after the admission or when its task is cancelled.
RemoveTicket(m) == \E i \in 1..Len(waiting[at[m]]) :
  /\ waiting[at[m]][i] = m
  /\ waiting' = [waiting EXCEPT ![at[m]] = RemoveAt(@, i)]

DropTicket(m) ==
  /\ stage[m] = "admitted" /\ ~trying
  /\ RemoveTicket(m)
  /\ stage' = [stage EXCEPT ![m] = "dropped"]
  /\ UNCHANGED <<slots, trying, at, woken>>

Leave(m) ==
  /\ stage[m] \in {"queued", "parked"} /\ ~trying
  /\ RemoveTicket(m)
  /\ stage' = [stage EXCEPT ![m] = "left"]
  /\ UNCHANGED <<slots, trying, at, woken>>

-----------------------------------------------------------------------------
(* Turns that do not wait.                                                 *)

\* try_admit_channel(User): a voice turn begins at once or not at all.
TryUser(m, c) ==
  /\ stage[m] = "new" /\ Decide
  /\ slots' = TriedSlots("user", c, Nobody)
  /\ IF Admits("user", c, Nobody)
     THEN /\ stage' = [stage EXCEPT ![m] = "running"]
          /\ at' = [at EXCEPT ![m] = c]
     ELSE UNCHANGED <<stage, at>>
  /\ UNCHANGED <<waiting, woken>>

TryAutomation(a, c) ==
  /\ stage[a] = "new" /\ Decide
  /\ slots' = TriedSlots("automation", c, Nobody)
  /\ IF Admits("automation", c, Nobody)
     THEN /\ stage' = [stage EXCEPT ![a] = "running"]
          /\ at' = [at EXCEPT ![a] = c]
     ELSE UNCHANGED <<stage, at>>
  /\ UNCHANGED <<waiting, woken>>

TryMaintenance(p) ==
  /\ stage[p] = "new" /\ Decide
  /\ stage' = IF ~Maintained /\ Live = {} /\ ~SomeoneWaits
              THEN [stage EXCEPT ![p] = "running"] ELSE stage
  /\ UNCHANGED <<slots, waiting, at, woken>>

-----------------------------------------------------------------------------
(* Drop of TurnPermit: the flag is released first, then all are notified.  *)

EndTurn(t) ==
  /\ stage[t] = "running"
  /\ stage' = [stage EXCEPT ![t] = "freed"]
  /\ slots' = IF t \in Maintainers THEN slots
              ELSE [slots EXCEPT ![at[t]].state = "stale"]
  /\ UNCHANGED <<waiting, trying, at, woken>>

NextStage(t) ==
  CASE stage[t] = "dropped" -> "running"
    [] stage[t] = "freed" /\ t \notin Messages -> "new"
    [] OTHER -> "done"

\* Mutant: only futures that are awaited are signalled.
AwaitedOnly == {"parked"}
\* notify_waiters reaches every Notified future there is, awaited or not.
HasFuture == {"armed", "refused", "parked"}

Notify(t) ==
  /\ stage[t] \in {"dropped", "freed", "left"}
  /\ stage' = [stage EXCEPT ![t] = NextStage(t)]
  /\ at' = IF NextStage(t) = "running" THEN at ELSE [at EXCEPT ![t] = Nobody]
  /\ woken' = woken \cup {m \in Messages : stage[m] \in HasFuture}
  /\ UNCHANGED <<slots, waiting, trying>>

-----------------------------------------------------------------------------
Next ==
  \/ Enter
  \/ \E m \in Messages : \/ Arm(m) \/ TryTicket(m) \/ Park(m) \/ Wake(m)
                         \/ DropTicket(m) \/ Leave(m)
                         \/ \E c \in Channels : QueueUser(m, c) \/ TryUser(m, c)
  \/ \E a \in Automations, c \in Channels : TryAutomation(a, c)
  \/ \E p \in Maintainers : TryMaintenance(p)
  \/ \E t \in Turns : EndTurn(t) \/ Notify(t)

Spec == Init /\ [][Next]_vars

-----------------------------------------------------------------------------
(* Safety.                                                                 *)

Users(c) == {m \in Messages : stage[m] \in Holding /\ at[m] = c}
Automated(c) == {a \in Automations : stage[a] \in Holding /\ at[a] = c}

\* "Each channel runs one turn at a time": a channel's slot is busy exactly as
\* long as one turn holds a permit for it, and it names that turn's kind, from
\* which preemption tells whom it may stop.
SlotHasOneHolder ==
  \A c \in Channels :
    IF c \in Live
    THEN \E t \in Turns :
           IF slots[c].source = "user" THEN Users(c) = {t} /\ Automated(c) = {}
                                       ELSE Automated(c) = {t} /\ Users(c) = {}
    ELSE Users(c) = {} /\ Automated(c) = {}

\* The table outgrows Capacity by one slot at most: a flag that is released
\* between the purge and the count leaves its slot behind, and the next thread
\* that tries purges it.
TableBounded == Cardinality({c \in Channels : Present(c)}) <= Capacity + 1

\* While personal data is purged, exported or restored no turn runs, nobody is
\* in line, and no second maintenance runs.
MaintenanceAlone ==
  \A p \in Maintainers : stage[p] = "running" =>
    /\ \A t \in Turns \ {p} : stage[t] \notin Holding
    /\ ~SomeoneWaits

\* No wakeup is lost between the test and the wait: when a message that was
\* refused could be admitted, it has been signalled or an announcement is due.
Announcements == {t \in Turns : stage[t] \in {"dropped", "freed", "left"}}
NoLostWakeup ==
  \A m \in Messages :
    stage[m] \in {"refused", "parked"} /\ Admits("user", at[m], m) =>
      m \in woken \/ Announcements # {}

\* Preemption stops automation only: nothing here cancels a user's turn.
UserTurnsAreNotCancelled ==
  \A c \in Live : slots[c].source = "user" => ~slots[c].cancelled

-----------------------------------------------------------------------------
(* What a step may never do.                                               *)

\* A message that joins while every place is taken stops an automated turn that
\* is really running and was not told before, or it was spent on a dead slot, of
\* which there is one at most: the next message that joins reaches a turn.
PreemptionReachesTurn ==
  [][\A m \in Messages :
       /\ stage[m] = "new" /\ stage'[m] = "queued"
       /\ Cardinality(Live) >= Capacity
       /\ Live \cap Stoppable(slots) # {}
       => \/ \E c \in Live \cap Stoppable(slots) : slots'[c].cancelled
          \/ Stoppable(slots') \subseteq Live]_vars

\* The tickets that still wait: the one that was admitted is the first in line until
\* its task drops it.
InLine(c) == IF waiting[c] # <<>> /\ stage[Head(waiting[c])] = "admitted"
             THEN Tail(waiting[c]) ELSE waiting[c]
Served(c) == LET holders == Users(c) \cup Automated(c)
             IN IF holders = {} THEN Nobody ELSE CHOOSE t \in holders : TRUE

\* Nobody is overtaken on a channel, and the rest of the promise.
Service == INSTANCE ChannelService WITH
  line <- [c \in Channels |-> InLine(c)],
  serving <- [c \in Channels |-> Served(c)],
  closed <- Maintained

\* Admission with its flags, tickets and notifications serves every channel in
\* the order of its line, within Capacity, and closes only when all is quiet.
KeepsService == Service!Spec
=============================================================================
