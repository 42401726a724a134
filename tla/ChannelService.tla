---------------------------- MODULE ChannelService ----------------------------
(***************************************************************************)
(* What turn admission promises: every channel is a queue with one server, *)
(* no more than Capacity channels are served at one time, a message is     *)
(* served in the order in which it joined, and while the service is closed *)
(* for maintenance nobody is served and nobody waits.                      *)
(***************************************************************************)
EXTENDS Naturals, Sequences, FiniteSets

CONSTANTS Channels, Turns, Nobody, Capacity

VARIABLES
  line,     \* channel -> the turns that wait for it, in their order
  serving,  \* channel -> the turn it serves, or Nobody
  closed    \* maintenance is under way

service == <<line, serving, closed>>

Init == /\ line = [c \in Channels |-> <<>>]
        /\ serving = [c \in Channels |-> Nobody]
        /\ closed = FALSE

Busy == {c \in Channels : serving[c] # Nobody}

Join(c) == /\ ~closed
           /\ UNCHANGED <<serving, closed>>
           /\ \E t \in Turns : line' = [line EXCEPT ![c] = Append(@, t)]

\* Whoever is served next was first in line, or came when nobody waited.
Begin(c) ==
  /\ ~closed
  /\ c \notin Busy
  /\ Cardinality(Busy) < Capacity
  /\ UNCHANGED closed
  /\ \E t \in Turns :
       /\ serving' = [serving EXCEPT ![c] = t]
       /\ IF line[c] = <<>>
          THEN UNCHANGED line
          ELSE t = Head(line[c]) /\ line' = [line EXCEPT ![c] = Tail(@)]

End(c) == /\ c \in Busy
          /\ serving' = [serving EXCEPT ![c] = Nobody]
          /\ UNCHANGED <<line, closed>>

Leave(c) == /\ \E i \in 1..Len(line[c]) :
                 line' = [line EXCEPT ![c] = SubSeq(@, 1, i - 1) \o
                                             SubSeq(@, i + 1, Len(@))]
            /\ UNCHANGED <<serving, closed>>

Close == /\ ~closed
         /\ Busy = {}
         /\ \A c \in Channels : line[c] = <<>>
         /\ closed' = TRUE
         /\ UNCHANGED <<line, serving>>

Reopen == closed /\ closed' = FALSE /\ UNCHANGED <<line, serving>>

Next == \/ \E c \in Channels : End(c) \/ Leave(c) \/ Join(c) \/ Begin(c)
        \/ Close \/ Reopen

Spec == Init /\ [][Next]_service
=============================================================================
