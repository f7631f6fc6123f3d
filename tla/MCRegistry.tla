----------------------------- MODULE MCRegistry -----------------------------
(***************************************************************************)
(* Small instances of Registry.  Processes p1 and p2 start in the same     *)
(* directory on the broker's host, p3 on another host.                     *)
(***************************************************************************)
EXTENDS Registry

CONSTANTS p1, p2, p3, local, remote, dir, secret, s1, s2

MCProcs2 == {p1, p2}
MCProcs3 == {p1, p2, p3}
MCHosts == {local, remote}
MCCwds == {dir}
MCHostOf == [p \in Procs |-> IF p = p3 THEN remote ELSE local]
MCCwdOf == [p \in Procs |-> dir]

\* Every process has its own pid, or p2 only starts under p1's old one.
MCPidOf == [p \in Procs |-> CASE p = p1 -> 11 [] p = p2 -> 12 [] OTHER -> 13]
MCPidReused == [p \in Procs |-> IF p = p3 THEN 13 ELSE 11]

MCCredentials == {<<Default, NoHash>>, <<secret, s1>>, <<secret, s2>>}
MCSecretOnly == {<<secret, s1>>, <<secret, s2>>}

\* Both hosts derive the same names; with MaxSuffix = 2 and one time stamp the
\* third is the last resort.
MCIds == {"deck", "a", "a-2", "a-stamp", "b"}
MCCandidateId(h, c, n) == CASE n = 1 -> "a" [] n = 2 -> "a-2" [] OTHER -> "a-stamp"

=============================================================================
