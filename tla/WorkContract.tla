---------------------------- MODULE WorkContract ----------------------------
(***************************************************************************)
(* What background work promises its owner, without tables, loops or       *)
(* crashes.  A job is a promise of work: it is executed again only because *)
(* the owner asked for it, or because one answer of the owner was spent on *)
(* it, and work that was withdrawn never runs again.                       *)
(*                                                                         *)
(* Several jobs may move at once: a restart or a sweep settles many.       *)
(***************************************************************************)
EXTENDS Naturals

CONSTANTS Jobs, Answers

VARIABLES
  phase,   \* where each promise stands
  rounds,  \* how often each job has been made ready
  spent    \* answer -> the job it was spent on, or NoJob

contract == <<phase, rounds, spent>>

NoJob == 0
Phases == {"none", "ready", "working", "stopping", "waiting", "done", "broken",
           "withdrawn"}

Init == /\ phase = [j \in Jobs |-> "none"]
        /\ rounds = [j \in Jobs |-> 0]
        /\ spent = [a \in Answers |-> NoJob]

SpentOn(j) == {a \in Answers : spent[a] = NoJob /\ spent'[a] = j}

\* A job is made ready by a request, by an explicit retry of broken work, or
\* by one answer: the answer it waits for, or the answer it continues.
MadeReady(j) ==
  /\ phase'[j] = "ready"
  /\ rounds'[j] = rounds[j] + 1
  /\ \/ phase[j] \in {"none", "broken"} /\ SpentOn(j) = {}
     \/ /\ phase[j] \in {"none", "waiting"}
        /\ \E a \in Answers : SpentOn(j) = {a}

Moves == {<<"ready", "working">>, <<"working", "done">>, <<"working", "broken">>,
          <<"working", "waiting">>, <<"working", "stopping">>,
          <<"ready", "withdrawn">>, <<"waiting", "withdrawn">>,
          <<"working", "withdrawn">>, <<"stopping", "withdrawn">>}

Stays(j) == /\ rounds'[j] = rounds[j]
            /\ SpentOn(j) = {}
            /\ phase'[j] = phase[j] \/ <<phase[j], phase'[j]>> \in Moves

Next ==
  /\ phase' \in [Jobs -> Phases]
  /\ rounds' \in [Jobs -> Nat]
  /\ spent' \in [Answers -> Jobs \cup {NoJob}]
  /\ \A a \in Answers : spent[a] # NoJob => spent'[a] = spent[a]
  /\ \A j \in Jobs : MadeReady(j) \/ Stays(j)

Spec == Init /\ [][Next]_contract
=============================================================================
