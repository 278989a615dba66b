---------------------------- MODULE MCUserLease ----------------------------
(* Small instances of UserLease: two processes, one of them a tick fast or slow. *)
EXTENDS UserLease, TLC
CONSTANTS a, b
SlowA == (a :> -1) @@ (b :> 1)
OnlyA == {a}
=============================================================================
