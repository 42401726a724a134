---------------------------- MODULE DataContract ----------------------------
(***************************************************************************)
(* What becomes of BoBe's data: the service that runs changes it, and a    *)
(* restore replaces all of it by a backup at once, in a new epoch of the   *)
(* authority.  Nothing else does.                                          *)
(***************************************************************************)
EXTENDS Naturals

VARIABLES
    data,     \* part -> content; part 1 holds the epoch
    backups,  \* the backups there are
    serving   \* the service runs

Init == backups = {}

\* Parts that are there have the same stamp, later than any before.
Write ==
    /\ serving
    /\ data'[1].epoch = data[1].epoch
    /\ \A p \in DOMAIN data :
          data'[p].stamp = 0 \/ (data'[p].stamp = data'[1].stamp /\ data'[p].stamp > data[p].stamp)

Restore ==
    \E b \in backups :
        /\ data' = [b EXCEPT ![1].epoch = data'[1].epoch]
        /\ data'[1].epoch > b[1].epoch
        /\ data'[1].epoch > data[1].epoch

\* A backup is the data as it is when it is made.
Keep == data' = data /\ (backups' = backups \/ backups' = backups \cup {data})

Next == Keep \/ ((Write \/ Restore) /\ backups' = backups)

Spec == Init /\ [][Next]_<<data, backups>>
=============================================================================
