------------------------------ MODULE Registry ------------------------------
(***************************************************************************)
(* The peer directory of the broker daemon (src/broker.ts): the tables     *)
(* groups, peers and peer_sessions, the handlers that write them, and the  *)
(* two timers that age them.  Bun runs every handler and every timer       *)
(* callback to completion on one thread, so each is one action.            *)
(*                                                                         *)
(* The processes that call the broker are the MCP servers (src/server.ts). *)
(* Only what decides which calls they make is kept: where they are in      *)
(* their life, the token they hold and the secret hash they showed.        *)
(*                                                                         *)
(* Clock times are kept as ages (time since the event), cut off at MaxAge, *)
(* together with the time of day, because the broker compares some dates   *)
(* as text.  The unit of time is the resolution of Date.now(): handlers    *)
(* between two ticks run in the same instant.                              *)
(*                                                                         *)
(* Columns nothing here depends on (git_root, tty, summary, project_key,   *)
(* client_pid, claude_cli_pid, registered_at, last_activity_at) are left   *)
(* out.  A refused call that changes nothing is a stuttering step.         *)
(***************************************************************************)
EXTENDS Integers

CONSTANTS
  Procs,         \* MCP server processes
  Hosts,         \* host names
  Cwds,          \* working directories
  HostOf,        \* [Procs -> Hosts]
  CwdOf,         \* [Procs -> Cwds]
  PidOf,         \* [Procs -> Nat], a pid may be reused after a death
  BrokerHost,    \* the host the broker runs on
  Groups,        \* group ids
  Default,       \* the "default" group, open to everybody
  Hashes,        \* group_secret_hash values
  NoHash,        \* null
  Credentials,   \* the <<group_id, group_secret_hash>> pairs processes send
  PeerIds,       \* peer names
  DeckId,        \* the name "deck"
  ReservedIds,   \* RESERVED_PEER_IDS
  ValidIds,      \* the names that match PEER_ID_REGEX
  CandidateId(_, _, _), \* the n-th name derived for a host and a directory
  MaxSuffix,     \* MAX_SUFFIX: numbered names tried before a time stamp
  Stamps,        \* distinct time stamps the last resort may yield
  MaxToken,      \* bound: tokens the broker mints
  ActiveStale,   \* ACTIVE_STALE_SEC
  DormantTTL,    \* DORMANT_TTL_HOURS
  Day,           \* ticks in a calendar day
  MaxAge         \* bound: ages are cut off here

DeckToken == 0   \* DECK_INSTANCE_TOKEN
NoToken == -1    \* null
Tokens == DeckToken .. MaxToken
NoHost == ""     \* the host and cwd of the Deck's row
NoCwd == ""

\* Processes run somewhere and have a process id.
ASSUME ProcAssumption ==
  /\ HostOf \in [Procs -> Hosts]
  /\ CwdOf \in [Procs -> Cwds]
  /\ PidOf \in [Procs -> Nat \ {0}]
  /\ BrokerHost \in Hosts
  /\ NoHost \notin Hosts

ASSUME GroupAssumption ==
  /\ Default \in Groups
  /\ NoHash \in Hashes
  /\ Credentials \subseteq Groups \X Hashes

ASSUME NameAssumption ==
  /\ MaxSuffix \in Nat \ {0}
  /\ Stamps \in Nat \ {0}
  /\ DeckId \in PeerIds \cap ReservedIds
  /\ \A h \in Hosts, c \in Cwds, n \in 1 .. MaxSuffix + Stamps :
       CandidateId(h, c, n) \in PeerIds

\* The cut-off leaves every comparison of an age with a threshold decided.
ASSUME TimeAssumption ==
  /\ Day \in Nat \ {0}
  /\ ActiveStale \in Nat
  /\ DormantTTL \in Nat
  /\ MaxAge \in Nat
  /\ MaxAge > ActiveStale
  /\ MaxAge >= DormantTTL + Day
  /\ MaxToken \in Nat

VARIABLES
  groups,    \* group_id -> secret_hash
  peers,     \* instance_token -> row of peers
  sessions,  \* session_key -> instance_token
  minted,    \* the last token randomUUID returned
  phase,     \* where each process is in its life
  held,      \* the myInstanceToken of each process
  shown,     \* the secret hash each process last registered with, or null
  tod        \* time of day

tables == <<groups, peers, sessions, minted>>
procs == <<phase, held, shown>>
registryVars == <<tables, procs, tod>>

Rows == DOMAIN peers
Status == {"active", "dormant"}
Phase == {"down", "starting", "running", "leaving", "stranded"}
SessionKeys == Hosts \X Cwds \X Groups
Ages == 0 .. MaxAge

Row == [peer_id : PeerIds, group : Groups,
        host : Hosts \cup {NoHost}, cwd : Cwds \cup {NoCwd}, pid : Nat,
        seen : Ages, status : Status]

-----------------------------------------------------------------------------
(* Time *)

Older(age) == IF age < MaxAge THEN age + 1 ELSE age

\* The number of midnights in the last `age` ticks.
DaysAgo(age) == (age + Day - 1 - tod) \div Day

\* Mutant: rows exactly at the limit go too.
TextBeforeOrAt(age, limit) == DaysAgo(age) >= DaysAgo(limit)

\* column < datetime('now', '-limit'): the column holds an ISO string, and
\* 'T' sorts after ' ', so within one calendar day the test is false.
TextBefore(age, limit) == DaysAgo(age) > DaysAgo(limit)

-----------------------------------------------------------------------------
(* Helpers *)

Alive(p) == phase[p] # "down"

\* process.kill(pid, 0) does not throw on the broker's host.
PidAlive(pid) ==
  \E p \in Procs : HostOf[p] = BrokerHost /\ PidOf[p] = pid /\ Alive(p)

\* A row the broker may probe, and whose process it finds dead.
PidDead(row) == row.host = BrokerHost /\ ~PidAlive(row.pid)

\* Mutant: dormant rows do not count.
TakenByActive(g) ==
  {peers[t].peer_id : t \in {u \in Rows : peers[u].group = g
                                         /\ peers[u].status = "active"}}

\* The names in use in a group, dormant rows included: UNIQUE (peer_id, group_id).
Taken(g) == {peers[t].peer_id : t \in {u \in Rows : peers[u].group = g}}

\* deriveDefaultId: the first free numbered name, or else one with a time
\* stamp that nobody checks.
DerivedIds(h, c, g) ==
  LET free(n) == CandidateId(h, c, n) \notin Taken(g)
  IN  {CandidateId(h, c, n) : n \in
         {m \in 1 .. MaxSuffix + Stamps :
            /\ \A l \in 1 .. MaxSuffix : l < m => ~free(l)
            /\ m <= MaxSuffix => free(m)}}

Key(p, g) == <<HostOf[p], CwdOf[p], g>>

Insert(f, k, v) == [x \in DOMAIN f \cup {k} |-> IF x = k THEN v ELSE f[x]]
Without(f, S) == [x \in DOMAIN f \ S |-> f[x]]

\* Mutant: the sessions of a deleted row stay.
DeleteRowsOnly(table, S) ==
  /\ peers' = Without(table, S)
  /\ UNCHANGED sessions

\* DELETE FROM peer_sessions WHERE instance_token = ?, then FROM peers.
DeleteRows(table, S) ==
  /\ peers' = Without(table, S)
  /\ sessions' = Without(sessions, {k \in DOMAIN sessions : sessions[k] \in S})

-----------------------------------------------------------------------------
(* /register *)

\* Mutant: nobody compares the secrets.
AdmitAll(g, hash) == TRUE

\* TOFU: the first process to register in a group plants its secret.
Admitted(g, hash) == g \in DOMAIN groups \ {Default} => groups[g] = hash

Planted(g, hash) ==
  IF g \in DOMAIN groups THEN groups ELSE Insert(groups, g, hash)

\* Mutant: an active row is taken over as well.
ResumableAlways(k) == k \in DOMAIN sessions /\ sessions[k] \in Rows

\* The row a session key leads to can be taken over: it is dormant, or its
\* process is found dead.
Resumable(k) ==
  /\ k \in DOMAIN sessions
  /\ sessions[k] \in Rows
  /\ LET row == peers[sessions[k]]
     IN  row.status = "dormant" \/ PidDead(row)

\* The response of /register reaches the process.
Granted(p, hash, t) ==
  /\ phase' = [phase EXCEPT ![p] = "running"]
  /\ held' = [held EXCEPT ![p] = t]
  /\ shown' = [shown EXCEPT ![p] = hash]

\* The process is told of an error: main() exits, switch_group carries on
\* with the token it has just disconnected and is stranded.
Refused(p) ==
  /\ phase' = [phase EXCEPT ![p] = IF @ = "starting" THEN "down" ELSE "stranded"]
  /\ UNCHANGED <<held, shown>>

Registering(p) == phase[p] \in {"starting", "leaving"}

\* 401: the group has another secret.
RegisterDenied(p, g, hash) ==
  /\ Registering(p)
  /\ ~Admitted(g, hash)
  /\ Refused(p)
  /\ UNCHANGED <<tables, tod>>

\* updateActiveOnRegister: the row is active again, under the same name.
Revived(p, t) ==
  [peers[t] EXCEPT !.status = "active", !.pid = PidOf[p], !.host = HostOf[p],
                   !.cwd = CwdOf[p], !.seen = 0]

\* The dormant branch.
Resurrect(p, g, hash) ==
  LET t == sessions[Key(p, g)]
  IN  /\ Registering(p)
      /\ Admitted(g, hash)
      /\ Resumable(Key(p, g))
      /\ groups' = Planted(g, hash)
      /\ peers' = [peers EXCEPT ![t] = Revived(p, t)]
      /\ sessions' = Insert(sessions, Key(p, g), t)
      /\ Granted(p, hash, t)
      /\ UNCHANGED <<minted, tod>>

NewRow(p, g, id) ==
  [peer_id |-> id, group |-> g, host |-> HostOf[p], cwd |-> CwdOf[p],
   pid |-> PidOf[p], seen |-> 0, status |-> "active"]

\* The branches that insert a row.  An active row keeps the session to
\* itself; a token whose row is gone is used again; otherwise the token is
\* new.  When the time-stamped name is taken too the INSERT throws, after
\* the group has been planted.
RegisterNew(p, g, hash, id) ==
  LET k == Key(p, g)
      remembered == k \in DOMAIN sessions
      collision == remembered /\ sessions[k] \in Rows
      reused == remembered /\ ~collision
      t == IF reused THEN sessions[k] ELSE minted + 1
  IN  /\ Registering(p)
      /\ Admitted(g, hash)
      /\ ~Resumable(k)
      /\ minted < MaxToken
      /\ id \in DerivedIds(HostOf[p], CwdOf[p], g)
      /\ groups' = Planted(g, hash)
      /\ minted' = IF reused THEN minted ELSE minted + 1
      /\ IF id \in Taken(g)
         THEN Refused(p) /\ UNCHANGED <<peers, sessions>>
         ELSE /\ peers' = Insert(peers, t, NewRow(p, g, id))
              /\ sessions' = IF collision THEN sessions ELSE Insert(sessions, k, t)
              /\ Granted(p, hash, t)
      /\ UNCHANGED tod

-----------------------------------------------------------------------------
(* The other handlers, called with the token the process holds *)

\* The process has a token, and its timers and tools are at work.
Serving(p) == phase[p] \in {"running", "leaving", "stranded"}
Holds(p, t) == Serving(p) /\ held[p] = t

\* /heartbeat: the row's status is left as it is.
Heartbeat(p) ==
  /\ Serving(p)
  /\ held[p] \in Rows
  /\ peers' = [peers EXCEPT ![held[p]].seen = 0]
  /\ UNCHANGED <<groups, sessions, minted, procs, tod>>

\* Mutant: the activity_status of the API is stored as the status.
ParkedClosed(t) == [peers[t] EXCEPT !.status = "closed", !.seen = 0]

Parked(t) == [peers[t] EXCEPT !.status = "dormant", !.seen = 0]

\* /disconnect, sent by switch_group before it registers again and by
\* cleanup() before the process exits.
Disconnect(p) ==
  /\ phase[p] \in {"running", "stranded"}
  /\ peers' = [t \in Rows |-> IF t = held[p] THEN Parked(t) ELSE peers[t]]
  /\ phase' = [phase EXCEPT ![p] = "leaving"]
  /\ UNCHANGED <<groups, sessions, minted, held, shown, tod>>

\* /set-id: a malformed name, a reserved one, and one that a row of the group
\* has, active or dormant, are refused.
SetId(p, id) ==
  /\ Serving(p)
  /\ held[p] \in Rows
  /\ id \in ValidIds \ ReservedIds
  /\ id \notin Taken(peers[held[p]].group)
  /\ peers' = [peers EXCEPT ![held[p]].peer_id = id]
  /\ UNCHANGED <<groups, sessions, minted, procs, tod>>

\* /unregister: the row and its sessions are deleted.
Unregister(p) ==
  /\ phase[p] = "running"
  /\ held[p] \in Rows
  /\ DeleteRows(peers, {held[p]})
  /\ UNCHANGED <<groups, minted, procs, tod>>

-----------------------------------------------------------------------------
(* Queries *)

\* Mutant: the group is not looked at.
AddressedAnywhere(g, name) ==
  {t \in Rows : peers[t].peer_id = name /\ peers[t].status = "active"}

\* The row that a name of group g leads handleSendMessage to.
Addressed(g, name) ==
  {t \in Rows : /\ peers[t].group = g /\ peers[t].peer_id = name
                /\ peers[t].status = "active"}

\* Mutant: rows whose process has gone are shown as well, for resuming.
ListPeersParked(p, cwds) ==
  LET me == held[p]
  IN IF me \notin Rows THEN {}
     ELSE {t \in Rows \ {me} : peers[t].group = peers[me].group /\ peers[t].cwd \in cwds}

\* /list-peers, where cwds are all directories (scope "machine") or that of the caller
\* ("directory"; "repo" looks at columns left out here).
ListPeers(p, cwds) ==
  LET me == held[p]
  IN IF me \notin Rows THEN {}
     ELSE {t \in Rows \ {me} : /\ peers[t].group = peers[me].group
                               /\ peers[t].status = "active" /\ peers[t].cwd \in cwds}

-----------------------------------------------------------------------------
(* Timers *)

\* A row the timer has probed.
Probed(t) ==
  IF peers[t].status = "active" /\ PidDead(peers[t])
  THEN [peers[t] EXCEPT !.status = "dormant"] ELSE peers[t]

\* Mutant: only rows of the broker's own host are purged.
ExpiredLocal(t) ==
  /\ Probed(t).status = "dormant"
  /\ TextBefore(peers[t].seen, DormantTTL)
  /\ t # DeckToken
  /\ peers[t].host = BrokerHost

Expired(t) ==
  /\ Probed(t).status = "dormant"
  /\ TextBefore(peers[t].seen, DormantTTL)
  /\ t # DeckToken

\* cleanStalePeers: rows whose local process is dead become dormant, and then
\* rows dormant for longer than the limit are purged.
CleanStalePeers ==
  /\ DeleteRows([t \in Rows |-> Probed(t)], {t \in Rows : Expired(t)})
  /\ UNCHANGED <<groups, minted, procs, tod>>

\* Mutant: local rows are left to the pid probe.
StaleRemote(t) ==
  /\ peers[t].status = "active" /\ peers[t].seen > ActiveStale
  /\ peers[t].host # BrokerHost

Stale(t) == peers[t].status = "active" /\ peers[t].seen > ActiveStale

\* sweepInactivePeers: active rows without a recent heartbeat become dormant.
SweepInactivePeers ==
  /\ peers' = [t \in Rows |-> IF Stale(t) THEN [peers[t] EXCEPT !.status = "dormant"]
                              ELSE peers[t]]
  /\ UNCHANGED <<groups, sessions, minted, procs, tod>>

-----------------------------------------------------------------------------
(* The environment *)

\* A process starts under a process id that is free on its host.
Start(p) ==
  /\ phase[p] = "down"
  /\ \A q \in Procs : HostOf[q] = HostOf[p] /\ PidOf[q] = PidOf[p] => ~Alive(q)
  /\ phase' = [phase EXCEPT ![p] = "starting"]
  /\ UNCHANGED <<tables, held, shown, tod>>

\* A process exits, or is killed, without a further call.
Exit(p) ==
  /\ Alive(p)
  /\ phase' = [phase EXCEPT ![p] = "down"]
  /\ held' = [held EXCEPT ![p] = NoToken]
  /\ shown' = [shown EXCEPT ![p] = NoHash]
  /\ UNCHANGED <<tables, tod>>

\* Time passes.
Tick ==
  /\ tod' = (tod + 1) % Day
  /\ peers' = [t \in Rows |-> [peers[t] EXCEPT !.seen = Older(@)]]
  /\ UNCHANGED <<groups, sessions, minted, procs>>

-----------------------------------------------------------------------------

Init ==
  /\ groups = [g \in {Default} |-> NoHash]
  /\ peers = [t \in {DeckToken} |->
                [peer_id |-> DeckId, group |-> Default, host |-> NoHost,
                 cwd |-> NoCwd, pid |-> 0, seen |-> 0, status |-> "dormant"]]
  /\ sessions = [k \in {} |-> NoToken]
  /\ minted = DeckToken
  /\ phase = [p \in Procs |-> "down"]
  /\ held = [p \in Procs |-> NoToken]
  /\ shown = [p \in Procs |-> NoHash]
  /\ tod \in 0 .. Day - 1

Call(p) ==
  \/ \E c \in Credentials :
       \/ RegisterDenied(p, c[1], c[2])
       \/ Resurrect(p, c[1], c[2])
       \/ \E id \in PeerIds : RegisterNew(p, c[1], c[2], id)
  \/ Heartbeat(p)
  \/ Disconnect(p)
  \/ \E id \in PeerIds : SetId(p, id)
  \/ Unregister(p)

Next ==
  \/ \E p \in Procs : Call(p) \/ Start(p) \/ Exit(p)
  \/ CleanStalePeers
  \/ SweepInactivePeers
  \/ Tick

\* setInterval runs both timers again and again, and time goes on.
Fairness ==
  /\ WF_registryVars(CleanStalePeers)
  /\ WF_registryVars(SweepInactivePeers)
  /\ WF_registryVars(Tick)

Spec == Init /\ [][Next]_registryVars
FairSpec == Spec /\ Fairness

-----------------------------------------------------------------------------
(* Invariants *)

TypeOK ==
  /\ Rows \subseteq Tokens /\ peers \in [Rows -> Row]
  /\ DOMAIN groups \subseteq Groups /\ groups \in [DOMAIN groups -> Hashes]
  /\ DOMAIN sessions \subseteq SessionKeys /\ sessions \in [DOMAIN sessions -> Tokens]
  /\ minted \in Tokens
  /\ phase \in [Procs -> Phase]
  /\ held \in [Procs -> Tokens \cup {NoToken}]
  /\ shown \in [Procs -> Hashes]
  /\ tod \in 0 .. Day - 1

\* A remembered session leads to an existing row with the same host, directory
\* and group, so the foreign keys never fail and the branch of /register for a
\* purged row (broker.ts:499) is dead.
SessionsLeadToRows ==
  \A k \in DOMAIN sessions :
    /\ sessions[k] \in Rows \ {DeckToken}
    /\ LET row == peers[sessions[k]] IN k = <<row.host, row.cwd, row.group>>

\* send_message and set_id find at most one row under a name, because no two
\* rows of a group, active or dormant, ever share one.
NamesUnique ==
  \A t, u \in Rows :
    peers[t].group = peers[u].group /\ peers[t].peer_id = peers[u].peer_id => t = u

\* A process that acts in a secret group showed the secret planted there.
MembersShowedSecret ==
  \A p \in Procs :
    Alive(p) /\ held[p] \in Rows /\ peers[held[p]].group # Default =>
      shown[p] = groups[peers[held[p]].group]

\* The Deck's row is there for good and dormant, and no process acts under it.
DeckRowReserved ==
  /\ DeckToken \in Rows /\ peers[DeckToken].status = "dormant"
  /\ peers[DeckToken].peer_id = DeckId
  /\ \A p \in Procs : held[p] # DeckToken

\* Whatever list_peers shows in any scope, send_message finds under the name shown, and
\* nothing else; and every process that has a row of its own in the group and is being
\* heard of is shown to all others there (broker.ts:606-660, 662-690).
ListedReachable ==
  \A p \in Procs : Serving(p) =>
    /\ \A t \in ListPeers(p, Cwds \cup {NoCwd}) :
         Addressed(peers[held[p]].group, peers[t].peer_id) = {t}
    /\ \A q \in Procs :
         /\ Serving(q) /\ {held[p], held[q]} \subseteq Rows /\ held[p] # held[q]
         /\ peers[held[q]].status = "active" /\ peers[held[q]].group = peers[held[p]].group
         => held[q] \in ListPeers(p, {peers[held[q]].cwd})

-----------------------------------------------------------------------------
(* Action properties *)

\* While a process runs under an active row that carries its host and pid, no
\* other process is given that row's token, whatever host it calls from.
LiveTokenNotTaken ==
  [][\A p, q \in Procs :
       /\ Alive(p) /\ held[p] \in Rows
       /\ peers[held[p]].status = "active"
       /\ peers[held[p]].host = HostOf[p] /\ peers[held[p]].pid = PidOf[p]
       /\ held'[q] = held[p]
       => p = q \/ held[q] = held[p]]_registryVars

\* A row keeps its name across parking, resuming and sweeping: only set_id, by a
\* process that holds the token, changes it.
NamesKept ==
  [][\A t \in Rows :
       t \in DOMAIN peers' /\ peers'[t].peer_id # peers[t].peer_id =>
         \E p \in Procs : Holds(p, t) /\ SetId(p, peers'[t].peer_id)]_peers

\* The timer only purges rows that nobody has been heard of for the whole limit
\* and that have no living local process.
PurgedOnlyWhenExpired ==
  [][CleanStalePeers =>
       \A t \in Rows \ DOMAIN peers' :
         /\ peers[t].seen > DormantTTL
         /\ peers[t].status = "dormant" \/ PidDead(peers[t])]_peers

-----------------------------------------------------------------------------
(* Liveness *)

Active(t) == t \in Rows /\ peers[t].status = "active"
Tended(t) == \E p \in Procs : Holds(p, t)

\* A row whose process is gone, wherever it ran and whoever got its pid, does
\* not stay active.
LostRowsBecomeDormant ==
  \A t \in 1 .. MaxToken : Active(t) /\ ~Tended(t) ~> ~Active(t) \/ Tended(t)

\* A row nobody holds is purged in the end, unless someone resumes it.
LostRowsArePurged ==
  \A t \in 1 .. MaxToken : t \in Rows /\ ~Tended(t) ~> t \notin Rows \/ Tended(t)

=============================================================================
