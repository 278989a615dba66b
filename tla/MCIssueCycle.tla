---------------------------- MODULE MCIssueCycle ----------------------------
(* Small instances of IssueCycle. *)
EXTENDS IssueCycle
NeverDue == [i \in Issues |-> Never]
DueYesterday == [i \in Issues |-> -1]
=============================================================================
