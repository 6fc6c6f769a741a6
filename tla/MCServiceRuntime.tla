-------------------------- MODULE MCServiceRuntime --------------------------
(***************************************************************************)
(* Instances of ServiceRuntime for TLC.                                    *)
(***************************************************************************)
EXTENDS ServiceRuntime, TLC

CONSTANTS u1, u2, s1, s2, w1, w2

(* Policies that lock, that recommend, and that take the sources away.     *)
MCPolicies ==
    {[url |-> u2, urlLocked |-> TRUE, paths |-> "absent", pathsLocked |-> FALSE],
     [url |-> u1, urlLocked |-> FALSE, paths |-> "some", pathsLocked |-> FALSE],
     [url |-> Absent, urlLocked |-> FALSE, paths |-> "none", pathsLocked |-> TRUE]}

WorkerSymmetry == Permutations(Workers)

=============================================================================
