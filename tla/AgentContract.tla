----------------------------- MODULE AgentContract -----------------------------
(***************************************************************************)
(* What the daemon promises about the agent that works for it: there is    *)
(* one worker at a time and none after a shutdown, and a run acts on the   *)
(* owner's behalf (through a tool or a process) only from its request to   *)
(* its end, and begins nothing once it was told to stop.                   *)
(***************************************************************************)
CONSTANTS Call, Worker

VARIABLES
    live,    \* the workers that are there, with what they started
    phase,   \* call -> where its request stands
    acting,  \* the runs whose tool or process is at work
    shut     \* the daemon has shut the agent down

vars == <<live, phase, acting, shut>>

Init ==
    /\ live = {}
    /\ phase = [c \in Call |-> "idle"]
    /\ acting = {}
    /\ shut = FALSE

\* Any of the open requests may be told to stop by what else happens.
Withdraw ==
    \E stopped \in SUBSET {c \in Call : phase[c] = "open"} :
        phase' = [c \in Call |-> IF c \in stopped THEN "stopped" ELSE phase[c]]

Start ==
    /\ live = {} /\ ~shut
    /\ \E w \in Worker : live' = {w}
    /\ UNCHANGED <<phase, acting, shut>>

\* Nothing that a worker started is left when it is gone.
Stop ==
    /\ live' = {}
    /\ acting' = {}
    /\ Withdraw
    /\ UNCHANGED shut

Begin(c) ==
    /\ live # {}
    /\ phase[c] = "idle"
    /\ phase' = [phase EXCEPT ![c] = "open"]
    /\ UNCHANGED <<live, acting, shut>>

Act(c) ==
    /\ phase[c] = "open"
    /\ acting' = acting \cup {c}
    /\ UNCHANGED <<live, phase, shut>>

Rest ==
    /\ acting' \subseteq acting
    /\ Withdraw
    /\ UNCHANGED <<live, shut>>

End(c) ==
    /\ c \notin acting
    /\ phase' = [phase EXCEPT ![c] = "over"]
    /\ UNCHANGED <<live, acting, shut>>

Shut ==
    /\ live = {}
    /\ shut' = TRUE
    /\ UNCHANGED <<live, phase, acting>>

Next == Start \/ Stop \/ Rest \/ Shut \/ \E c \in Call : Begin(c) \/ Act(c) \/ End(c)

Spec == Init /\ [][Next]_vars
=============================================================================
