-------------------------- MODULE ExclusiveChecks --------------------------
(***************************************************************************)
(* What the lease table does promise, with no row, clock or semaphore in   *)
(* it: a user is taken by one bot instance at a time, until its check ends *)
(* or has lasted longer than the lease.  Only such a late check may run    *)
(* beside that of another instance.                                        *)
(***************************************************************************)

CONSTANTS
  Instances,   \* bot processes
  Users,       \* rows of bot_users
  Nobody       \* the checker of a user whom no instance has taken

VARIABLES
  checker,   \* user -> who has taken it and is running check_user_issues
  late       \* instance, user: the checks that have lasted longer than the lease

vars == <<checker, late>>

TypeOK ==
  /\ checker \in [Users -> Instances \cup {Nobody}]
  /\ late \subseteq Instances \X Users

Init ==
  /\ checker = [u \in Users |-> Nobody]
  /\ late = {}

\* The lease may be over already when the check begins, if its task had to wait.
Begin(i, u) ==
  /\ checker[u] = Nobody
  /\ <<i, u>> \notin late
  /\ \/ checker' = [checker EXCEPT ![u] = i] /\ UNCHANGED late
     \/ late' = late \cup {<<i, u>>} /\ UNCHANGED checker

Without(S) == [u \in Users |-> IF u \in S THEN Nobody ELSE checker[u]]

\* Checks end one by one, or all together when their instance stops.
End(i) ==
  \E S \in SUBSET Users :
    /\ checker' = Without({u \in S : checker[u] = i})
    /\ late' = late \ ({i} \X S)

\* The leases of some users run out while they are being checked.
RunOut ==
  \E S \in SUBSET {u \in Users : checker[u] # Nobody} :
    /\ checker' = Without(S)
    /\ late' = late \cup {<<checker[u], u>> : u \in S}

Next ==
  \/ \E i \in Instances : End(i) \/ \E u \in Users : Begin(i, u)
  \/ RunOut

Spec == Init /\ [][Next]_vars
=============================================================================
