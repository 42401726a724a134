--------------------------- MODULE ScheduleContract ---------------------------
(***************************************************************************)
(* What a schedule promises.  While it is on, it fires when its time has   *)
(* come and never earlier; a recurring one then waits for an occurrence of *)
(* its cadence and leaves none out that is still to come; one that does    *)
(* not recur is off.  Occurrences that passed meanwhile are not made up    *)
(* for; one is left out only if the work of an earlier one is unfinished.  *)
(* Whatever else changes a plan is a new edition of it.  A schedule that   *)
(* is gone never comes back.                                               *)
(***************************************************************************)
EXTENDS Naturals

CONSTANTS Sources

VARIABLES
    now,    \* the clock
    plans,  \* source -> what is planned; its state is "none", "kept" or "gone"
    busy,   \* sources with unfinished work
    fired   \* occurrences that became work

Init == (\A s \in Sources : plans[s].state = "none") /\ fired = 0

\* The cadence after the occurrence d: the first point of it that is later than
\* some time already reached.
Follows(next, d, every) ==
    /\ next > d
    /\ (next - d) % every = 0
    /\ next - every <= now

Fire(s) ==
    /\ fired' = fired + 1
    /\ plans[s].on
    /\ plans[s].due <= now
    /\ IF plans[s].every = 0
       THEN plans'[s] = [plans[s] EXCEPT !.on = FALSE]
       ELSE /\ plans'[s] = [plans[s] EXCEPT !.due = plans'[s].due]
            /\ Follows(plans'[s].due, plans[s].due, plans[s].every)

Skip(s) ==
    /\ fired' = fired
    /\ s \in busy
    /\ plans[s].on
    /\ plans[s].due <= now
    /\ plans[s].every # 0
    /\ plans'[s] = [plans[s] EXCEPT !.due = plans'[s].due]
    /\ Follows(plans'[s].due, plans[s].due, plans[s].every)

\* It is made, removed for good, switched or given another time; that is no work.
Change(s) ==
    /\ fired' = fired
    /\ \/ plans[s].state = "none" /\ plans'[s].on
       \/ plans'[s].state = "gone"
       \/ plans'[s] = [plans[s] EXCEPT !.on = ~@, !.edition = @ + 1]
       \/ plans'[s] = [plans[s] EXCEPT !.due = plans'[s].due, !.edition = @ + 1]

Next ==
    /\ now' >= now
    /\ \/ UNCHANGED plans /\ fired' = fired
       \/ \E s \in Sources :
             /\ plans[s].state # "gone"
             /\ plans' = [plans EXCEPT ![s] = plans'[s]]
             /\ Fire(s) \/ Skip(s) \/ Change(s)

Spec == Init /\ [][Next]_<<now, plans, fired>>
=============================================================================
