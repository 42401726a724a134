-------------------------- MODULE VoiceTurnContract --------------------------
(***************************************************************************)
(* What a body is promised about a lease it was granted, as the messages   *)
(* it is sent: the speaker stream is opened once, then closed once, and    *)
(* "idle" is the end: nothing about the stream follows it.                 *)
(***************************************************************************)
CONSTANT LeaseId

VARIABLE told   \* lease -> what its body has heard last

Init == told = [l \in LeaseId |-> "granted"]

Open(l) ==
    /\ told[l] = "granted"
    /\ told' = [told EXCEPT ![l] = "open"]

Close(l) ==
    /\ told[l] = "open"
    /\ told' = [told EXCEPT ![l] = "closed"]

Idle(l) ==
    /\ told[l] # "idle"
    /\ told' = [told EXCEPT ![l] = "idle"]

Next == \E l \in LeaseId : Open(l) \/ Close(l) \/ Idle(l)

Spec == Init /\ [][Next]_told
=============================================================================
