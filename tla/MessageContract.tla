--------------------------- MODULE MessageContract ---------------------------
(***************************************************************************)
(* What the daemon promises a client about a message it accepted: the      *)
(* message is handed to the agent at most once, whatever is repeated,      *)
(* cancelled, shut down or lost in between, one message at a time, and its *)
(* identity is never free again.                                           *)
(***************************************************************************)
EXTENDS Naturals, FiniteSets

CONSTANT Requests

VARIABLES
  phase,  \* where each message stands
  reply   \* what the conversation holds of its reply

promise == <<phase, reply>>

\* A message that is "stopped" has ended without its result being recorded.
Phases == {"none", "accepted", "executing", "stopped", "completed", "failed",
           "forgotten"}

Init == /\ phase = [r \in Requests |-> "none"]
        /\ reply = [r \in Requests |-> "none"]

Moves == {<<"none", "accepted">>,
          <<"accepted", "executing">>, <<"accepted", "stopped">>,
          <<"accepted", "failed">>, <<"accepted", "forgotten">>,
          <<"executing", "stopped">>,
          <<"stopped", "completed">>, <<"stopped", "failed">>,
          <<"completed", "forgotten">>, <<"failed", "forgotten">>}

Executing == {r \in Requests : phase[r] = "executing"}

\* A reply is written while its message is executed or wound up, and a complete
\* one is final until it is forgotten.
Replies(r) ==
  \/ reply'[r] = reply[r]
  \/ /\ reply[r] = "none"
     /\ reply'[r] \in {"partial", "complete"}
     /\ phase[r] \in {"executing", "stopped"}
  \/ reply'[r] = "none" /\ phase'[r] \in {"none", "forgotten"}

Next ==
  /\ phase' \in [Requests -> Phases]
  /\ reply' \in [Requests -> {"none", "partial", "complete"}]
  /\ \A r \in Requests : /\ \/ phase'[r] = phase[r]
                            \/ <<phase[r], phase'[r]>> \in Moves
                         /\ Replies(r)
  /\ Cardinality(Executing') <= 1

Spec == Init /\ [][Next]_promise
=============================================================================
