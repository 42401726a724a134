--------------------------- MODULE PlaybackWindow ---------------------------
(***************************************************************************)
(* What the speech stream of one lease promises: frames are played in the  *)
(* order they were sent, never more than a window of them is sent ahead of *)
(* what has been played, and a stream that has drained has played all that *)
(* was sent and is sent no more.                                           *)
(***************************************************************************)
EXTENDS Naturals

CONSTANT Window

VARIABLES sent, played, done

Init == sent = 0 /\ played = 0 /\ done = FALSE

Send ==
    /\ ~done
    /\ \E n \in 1 .. Window - (sent - played) : sent' = sent + n
    /\ UNCHANGED <<played, done>>

Play ==
    /\ played < sent
    /\ played' = played + 1
    /\ UNCHANGED <<sent, done>>

Drain ==
    /\ played = sent
    /\ done' = TRUE
    /\ UNCHANGED <<sent, played>>

Next == Send \/ Play \/ Drain

Spec == Init /\ [][Next]_<<sent, played, done>>
=============================================================================
