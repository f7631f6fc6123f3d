------------------------------ MODULE Identity ------------------------------
(***************************************************************************)
(* Who acts under which token.  Registry with a history variable: the      *)
(* tokens whose row has been dormant while a process went on acting under  *)
(* them.  That happens when the heartbeat sweep takes a process for lost   *)
(* that is not (a suspended laptop), and when switch_group has disconnected *)
(* the old row and the new registration is refused.  Nothing the process   *)
(* does afterwards makes such a row active again.                          *)
(***************************************************************************)
EXTENDS Registry

VARIABLE exposed

identityVars == <<registryVars, exposed>>

\* A process that means to stay under its token.
Acting(p) == phase[p] \in {"running", "stranded"}

Orphaned ==
  {t \in Rows : /\ peers[t].status = "dormant"
                /\ \E p \in Procs : Acting(p) /\ held[p] = t}

InitH == Init /\ exposed = {}
NextH == Next /\ exposed' = exposed \cup Orphaned'
SpecH == InitH /\ [][NextH]_identityVars

-----------------------------------------------------------------------------

\* Two running processes never act under one token unless it was exposed: no
\* order of starts, deaths, resumptions, collisions, switches, purges and reused
\* pids hands a token out twice.
OneHolderUnlessExposed ==
  \A p, q \in Procs :
    /\ phase[p] = "running" /\ phase[q] = "running"
    /\ held[p] = held[q] /\ held[p] \notin exposed
    => p = q

=============================================================================
