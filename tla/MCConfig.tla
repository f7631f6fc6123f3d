------------------------------- MODULE MCConfig -------------------------------
(* One project three directories deep, two groups of which one may lack its secret, and  *)
(* two brokers besides the one on this host.                                              *)
EXTENDS Config, TLC

CONSTANTS work, other, s1, s2, near, far

MCUserConfigs ==
  {[groups |-> [n \in {work, other} |-> IF n = work THEN s1 ELSE Null], default_group |-> Null,
    broker |-> [port |-> 7900, broker_url |-> Null, broker_token |-> Null]],
   [groups |-> [n \in {work, other} |-> IF n = work THEN s1 ELSE s2], default_group |-> other,
    broker |-> [port |-> Null, broker_url |-> near, broker_token |-> s1]]}
MCGitRoots == {Null, 0, 1}
MCEnvGroups == {Null, work}
MCSymmetry == Permutations(Decks) \cup Permutations(Terminals)
=============================================================================
