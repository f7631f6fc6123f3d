------------------------------ MODULE MCBroker ------------------------------
(***************************************************************************)
(* Small instances of Broker, with the processes of MCRegistry.            *)
(***************************************************************************)
EXTENDS Broker, TLC

CONSTANTS p1, p2, local, remote, dir, dir2, secret, secret2, s1, s2

MCProcs1 == {p1}
MCProcs2 == {p1, p2}
MCHosts == {local, remote}
MCCwds == {dir, dir2}
MCHostOf == [p \in Procs |-> local]

\* Each of the two works in a directory of its own.
MCTwoDirs == [p \in Procs |-> IF p = p1 THEN dir ELSE dir2]
MCPidOf == [p \in Procs |-> CASE p = p1 -> 11 [] p = p2 -> 12 [] OTHER -> 13]

MCBothGroups == {<<Default, NoHash>>, <<secret, s1>>}

\* Two groups that can be exchanged.
MCTwoSecrets == {<<secret, s1>>, <<secret2, s1>>}
MCSymmetry == Permutations({secret, secret2})

MCIds == {"deck", "a", "a-2", "a-stamp"}
MCCandidateId(h, c, n) == CASE n = 1 -> "a" [] n = 2 -> "a-2" [] OTHER -> "a-stamp"

=============================================================================
