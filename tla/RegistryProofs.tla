--------------------------- MODULE RegistryProofs ---------------------------
(***************************************************************************)
(* Theorems about Registry, for every set of processes, hosts, groups and  *)
(* credentials and every bound.                                            *)
(***************************************************************************)
EXTENDS Registry, TLAPS

USE DEF DeckToken, NoToken, NoHost, NoCwd

-----------------------------------------------------------------------------
(* Tables *)

LEMMA InsertFacts ==
  ASSUME NEW f, NEW k, NEW v, NEW R, f \in [DOMAIN f -> R], v \in R
  PROVE  /\ DOMAIN Insert(f, k, v) = DOMAIN f \cup {k}
         /\ Insert(f, k, v) \in [DOMAIN f \cup {k} -> R]
         /\ Insert(f, k, v)[k] = v
         /\ \A x \in DOMAIN f : x # k => Insert(f, k, v)[x] = f[x]
  BY DEF Insert

LEMMA WithoutFacts ==
  ASSUME NEW f, NEW S, NEW R, f \in [DOMAIN f -> R]
  PROVE  /\ DOMAIN Without(f, S) = DOMAIN f \ S
         /\ Without(f, S) \in [DOMAIN f \ S -> R]
         /\ \A x \in DOMAIN f \ S : Without(f, S)[x] = f[x]
  BY DEF Without

LEMMA OlderType ==
  ASSUME NEW age \in Ages PROVE Older(age) \in Ages
  BY TimeAssumption DEF Ages, Older

LEMMA DerivedType ==
  ASSUME NEW p \in Procs, NEW g, NEW id \in DerivedIds(HostOf[p], CwdOf[p], g)
  PROVE  id \in PeerIds
  <1>1. HostOf[p] \in Hosts /\ CwdOf[p] \in Cwds
    BY ProcAssumption
  <1>2. PICK n \in 1 .. MaxSuffix + Stamps : id = CandidateId(HostOf[p], CwdOf[p], n)
    BY DEF DerivedIds
  <1> QED BY <1>1, <1>2, NameAssumption

LEMMA ProcTypes ==
  ASSUME NEW p \in Procs
  PROVE  PidOf[p] \in Nat /\ HostOf[p] \in Hosts /\ CwdOf[p] \in Cwds
  BY ProcAssumption

LEMMA ZeroAge == 0 \in Ages
  BY TimeAssumption DEF Ages

LEMMA NewRowType ==
  ASSUME NEW p \in Procs, NEW g \in Groups, NEW id \in PeerIds
  PROVE  NewRow(p, g, id) \in Row
  BY ProcTypes, ZeroAge DEF NewRow, Row, Status

LEMMA RevivedType ==
  ASSUME NEW p \in Procs, NEW t, peers[t] \in Row
  PROVE  Revived(p, t) \in Row
  BY ProcTypes, ZeroAge DEF Revived, Row, Status

LEMMA ParkedType ==
  ASSUME NEW t, peers[t] \in Row PROVE Parked(t) \in Row
  BY ZeroAge DEF Parked, Row, Status

LEMMA ProbedType ==
  ASSUME NEW t, peers[t] \in Row PROVE Probed(t) \in Row
  BY DEF Probed, Row, Status

LEMMA KeyType ==
  ASSUME NEW p \in Procs, NEW g \in Groups PROVE Key(p, g) \in SessionKeys
  BY ProcTypes DEF Key, SessionKeys

-----------------------------------------------------------------------------
(* Type correctness *)

\* The part of the state that /register changes whatever its outcome.
LEMMA PlantedType ==
  ASSUME TypeOK, NEW g \in Groups, NEW hash \in Hashes
  PROVE  /\ DOMAIN Planted(g, hash) \subseteq Groups
         /\ Planted(g, hash) \in [DOMAIN Planted(g, hash) -> Hashes]
  <1>1. CASE g \in DOMAIN groups
    BY <1>1 DEF TypeOK, Planted
  <1>2. CASE g \notin DOMAIN groups
    <2>1. /\ DOMAIN Insert(groups, g, hash) = DOMAIN groups \cup {g}
          /\ Insert(groups, g, hash) \in [DOMAIN groups \cup {g} -> Hashes]
      BY InsertFacts DEF TypeOK
    <2> QED BY <1>2, <2>1 DEF TypeOK, Planted
  <1> QED BY <1>1, <1>2

LEMMA RefusedType ==
  ASSUME TypeOK, NEW p \in Procs, Refused(p)
  PROVE  /\ phase' \in [Procs -> Phase]
         /\ held' \in [Procs -> Tokens \cup {NoToken}]
         /\ shown' \in [Procs -> Hashes]
  BY DEF TypeOK, Refused, Phase

LEMMA GrantedType ==
  ASSUME TypeOK, NEW p \in Procs, NEW hash \in Hashes, NEW t \in Tokens,
         Granted(p, hash, t)
  PROVE  /\ phase' \in [Procs -> Phase]
         /\ held' \in [Procs -> Tokens \cup {NoToken}]
         /\ shown' \in [Procs -> Hashes]
  BY DEF TypeOK, Granted, Phase

LEMMA DeleteRowsType ==
  ASSUME TypeOK, NEW table \in [Rows -> Row], NEW S, DeleteRows(table, S)
  PROVE  /\ DOMAIN peers' = Rows \ S
         /\ peers' \in [Rows \ S -> Row]
         /\ DOMAIN sessions' = {k \in DOMAIN sessions : sessions[k] \notin S}
         /\ sessions' \in [DOMAIN sessions' -> Tokens]
         /\ \A t \in Rows \ S : peers'[t] = table[t]
         /\ \A k \in DOMAIN sessions' : sessions'[k] = sessions[k]
  <1>1. table \in [DOMAIN table -> Row] /\ DOMAIN table = Rows
    OBVIOUS
  <1>2. /\ DOMAIN peers' = Rows \ S
        /\ peers' \in [Rows \ S -> Row]
        /\ \A t \in Rows \ S : peers'[t] = table[t]
    <2>1. /\ DOMAIN Without(table, S) = DOMAIN table \ S
          /\ Without(table, S) \in [DOMAIN table \ S -> Row]
          /\ \A t \in DOMAIN table \ S : Without(table, S)[t] = table[t]
      BY <1>1, WithoutFacts
    <2> QED BY <1>1, <2>1 DEF DeleteRows
  <1> DEFINE D == {k \in DOMAIN sessions : sessions[k] \in S}
  <1>3. sessions \in [DOMAIN sessions -> Tokens] /\ sessions' = Without(sessions, D)
    BY DEF TypeOK, DeleteRows
  <1>4. DOMAIN sessions \ D = {k \in DOMAIN sessions : sessions[k] \notin S}
    OBVIOUS
  <1> HIDE DEF D
  <1>5. /\ DOMAIN sessions' = DOMAIN sessions \ D
        /\ sessions' \in [DOMAIN sessions \ D -> Tokens]
        /\ \A k \in DOMAIN sessions \ D : sessions'[k] = sessions[k]
    BY <1>3, WithoutFacts
  <1> QED BY <1>2, <1>4, <1>5

LEMMA TypeInit == Init => TypeOK
  <1> SUFFICES ASSUME Init PROVE TypeOK
    OBVIOUS
  <1> DEFINE deck == [peer_id |-> DeckId, group |-> Default, host |-> NoHost,
                      cwd |-> NoCwd, pid |-> 0, seen |-> 0, status |-> "dormant"]
  <1>1. deck \in Row
    BY GroupAssumption, NameAssumption, ZeroAge DEF Row, Status
  <1>2. DeckToken \in Tokens
    BY TimeAssumption DEF Tokens
  <1>3. peers = [t \in {DeckToken} |-> deck]
    BY DEF Init
  <1> HIDE DEF deck
  <1>4. Rows \subseteq Tokens /\ peers \in [Rows -> Row]
    BY <1>1, <1>2, <1>3 DEF Rows
  <1>5. DOMAIN groups \subseteq Groups /\ groups \in [DOMAIN groups -> Hashes]
    BY GroupAssumption DEF Init
  <1>6. DOMAIN sessions \subseteq SessionKeys /\ sessions \in [DOMAIN sessions -> Tokens]
    BY DEF Init
  <1>7. shown \in [Procs -> Hashes]
    BY GroupAssumption DEF Init
  <1> QED BY <1>2, <1>4, <1>5, <1>6, <1>7 DEF Init, TypeOK, Phase

LEMMA TypeDenied ==
  ASSUME TypeOK, NEW p \in Procs, NEW g, NEW hash, RegisterDenied(p, g, hash)
  PROVE  TypeOK'
  BY RefusedType DEF RegisterDenied, TypeOK, tables, Rows

LEMMA TypeResurrect ==
  ASSUME TypeOK, NEW p \in Procs, NEW g \in Groups, NEW hash \in Hashes,
         Resurrect(p, g, hash)
  PROVE  TypeOK'
  <1> DEFINE k == Key(p, g)
             t == sessions[k]
  <1>1. k \in DOMAIN sessions /\ t \in Rows /\ t \in Tokens /\ k \in SessionKeys
    BY KeyType DEF Resurrect, Resumable, TypeOK
  <1>2. Rows' = Rows /\ peers' \in [Rows -> Row]
    BY <1>1, RevivedType DEF Resurrect, TypeOK, Rows
  <1>3. /\ DOMAIN sessions' \subseteq SessionKeys
        /\ sessions' \in [DOMAIN sessions' -> Tokens]
    <2>1. /\ DOMAIN Insert(sessions, k, t) = DOMAIN sessions \cup {k}
          /\ Insert(sessions, k, t) \in [DOMAIN sessions \cup {k} -> Tokens]
      BY <1>1, InsertFacts DEF TypeOK
    <2> QED BY <1>1, <2>1 DEF Resurrect, TypeOK
  <1>4. DOMAIN groups' \subseteq Groups /\ groups' \in [DOMAIN groups' -> Hashes]
    BY PlantedType DEF Resurrect
  <1>5. /\ phase' \in [Procs -> Phase]
        /\ held' \in [Procs -> Tokens \cup {NoToken}]
        /\ shown' \in [Procs -> Hashes]
    <2>1. Granted(p, hash, t)
      BY DEF Resurrect
    <2> HIDE DEF t
    <2> QED BY <1>1, <2>1, GrantedType
  <1>6. UNCHANGED <<minted, tod>>
    BY DEF Resurrect
  <1> QED BY <1>2, <1>3, <1>4, <1>5, <1>6 DEF TypeOK

\* The token of a new row: a remembered one whose row is gone, or the next one.
LEMMA TypeRegisterNew ==
  ASSUME TypeOK, NEW p \in Procs, NEW g \in Groups, NEW hash \in Hashes,
         NEW id \in PeerIds, RegisterNew(p, g, hash, id)
  PROVE  TypeOK'
  <1> DEFINE k == Key(p, g)
             collision == k \in DOMAIN sessions /\ sessions[k] \in Rows
             reused == k \in DOMAIN sessions /\ ~collision
             t == IF reused THEN sessions[k] ELSE minted + 1
             row == NewRow(p, g, id)
  <1>1. minted' \in Tokens /\ tod' = tod
    BY TimeAssumption DEF RegisterNew, TypeOK, Tokens
  <1>2. t \in Tokens
    BY TimeAssumption DEF RegisterNew, TypeOK, Tokens
  <1>3. k \in SessionKeys /\ row \in Row
    BY KeyType, NewRowType
  <1>4. DOMAIN groups' \subseteq Groups /\ groups' \in [DOMAIN groups' -> Hashes]
    BY PlantedType DEF RegisterNew
  <1>5. CASE id \in Taken(g)
    <2>1. Refused(p) /\ UNCHANGED <<peers, sessions>>
      BY <1>5 DEF RegisterNew
    <2> QED BY <1>1, <1>4, <2>1, RefusedType DEF TypeOK, Rows
  <1>6. CASE id \notin Taken(g)
    <2>1. /\ peers' = Insert(peers, t, row)
          /\ sessions' = IF collision THEN sessions ELSE Insert(sessions, k, t)
          /\ Granted(p, hash, t)
      BY <1>6 DEF RegisterNew
    <2> HIDE DEF t, k, row, collision
    <2>2. Rows' \subseteq Tokens /\ peers' \in [Rows' -> Row]
      <3>1. /\ DOMAIN Insert(peers, t, row) = Rows \cup {t}
            /\ Insert(peers, t, row) \in [Rows \cup {t} -> Row]
        BY <1>3, InsertFacts DEF TypeOK, Rows
      <3> QED BY <1>2, <2>1, <3>1 DEF TypeOK, Rows
    <2>3. /\ DOMAIN sessions' \subseteq SessionKeys
          /\ sessions' \in [DOMAIN sessions' -> Tokens]
      <3>1. /\ DOMAIN Insert(sessions, k, t) = DOMAIN sessions \cup {k}
            /\ Insert(sessions, k, t) \in [DOMAIN sessions \cup {k} -> Tokens]
        BY <1>2, InsertFacts DEF TypeOK
      <3> QED BY <1>3, <2>1, <3>1 DEF TypeOK
    <2>4. /\ phase' \in [Procs -> Phase]
          /\ held' \in [Procs -> Tokens \cup {NoToken}]
          /\ shown' \in [Procs -> Hashes]
      BY <1>2, <2>1, GrantedType
    <2> QED BY <1>1, <1>4, <2>2, <2>3, <2>4 DEF TypeOK
  <1> QED BY <1>5, <1>6

LEMMA TypeCalls ==
  ASSUME TypeOK, NEW p \in Procs
  PROVE  /\ Heartbeat(p) => TypeOK'
         /\ Disconnect(p) => TypeOK'
         /\ \A id \in PeerIds : SetId(p, id) => TypeOK'
         /\ Unregister(p) => TypeOK'
  <1>1. ASSUME Heartbeat(p) PROVE TypeOK'
    <2>1. Rows' = Rows /\ peers' \in [Rows -> Row]
      BY <1>1, ZeroAge, ZenonT(60) DEF Heartbeat, TypeOK, Rows, Row
    <2> QED BY <1>1, <2>1 DEF Heartbeat, TypeOK, procs
  <1>2. ASSUME Disconnect(p) PROVE TypeOK'
    <2>1. Rows' = Rows /\ peers' \in [Rows -> Row]
      BY <1>2, ParkedType DEF Disconnect, TypeOK, Rows
    <2>2. phase' \in [Procs -> Phase]
      BY <1>2 DEF Disconnect, TypeOK, Phase
    <2> QED BY <1>2, <2>1, <2>2 DEF Disconnect, TypeOK
  <1>3. ASSUME NEW id \in PeerIds, SetId(p, id) PROVE TypeOK'
    <2> DEFINE row == [peers[held[p]] EXCEPT !.peer_id = id]
    <2>1. held[p] \in Rows /\ peers' = [peers EXCEPT ![held[p]] = row]
      BY <1>3 DEF SetId
    <2>2. peers[held[p]] \in Row
      BY <2>1 DEF TypeOK
    <2>3. row \in Row
      BY <2>2 DEF Row
    <2> HIDE DEF row
    <2>4. Rows' = Rows /\ peers' \in [Rows -> Row]
      BY <2>1, <2>3 DEF TypeOK, Rows
    <2> QED BY <1>3, <2>4 DEF SetId, TypeOK, procs
  <1>4. ASSUME Unregister(p) PROVE TypeOK'
    <2>1. DeleteRows(peers, {held[p]})
      BY <1>4 DEF Unregister
    <2>2. /\ Rows' \subseteq Tokens /\ peers' \in [Rows' -> Row]
          /\ DOMAIN sessions' \subseteq SessionKeys
          /\ sessions' \in [DOMAIN sessions' -> Tokens]
      BY <2>1, DeleteRowsType DEF TypeOK, Rows
    <2> QED BY <1>4, <2>2 DEF Unregister, TypeOK, procs
  <1> QED BY <1>1, <1>2, <1>3, <1>4

LEMMA TypeTimers ==
  ASSUME TypeOK
  PROVE  /\ CleanStalePeers => TypeOK'
         /\ SweepInactivePeers => TypeOK'
         /\ Tick => TypeOK'
  <1>1. ASSUME CleanStalePeers PROVE TypeOK'
    <2> DEFINE table == [t \in Rows |-> Probed(t)]
               S == {t \in Rows : Expired(t)}
    <2>1. table \in [Rows -> Row]
      BY ProbedType DEF TypeOK
    <2>2. DeleteRows(table, S)
      BY <1>1 DEF CleanStalePeers
    <2> HIDE DEF table, S
    <2>3. /\ DOMAIN peers' = Rows \ S
          /\ peers' \in [Rows \ S -> Row]
          /\ DOMAIN sessions' = {k \in DOMAIN sessions : sessions[k] \notin S}
          /\ sessions' \in [DOMAIN sessions' -> Tokens]
      BY <2>1, <2>2, DeleteRowsType
    <2>4. /\ Rows' \subseteq Tokens /\ peers' \in [Rows' -> Row]
          /\ DOMAIN sessions' \subseteq SessionKeys
      BY <2>3 DEF TypeOK, Rows
    <2> QED BY <1>1, <2>3, <2>4 DEF CleanStalePeers, TypeOK, procs
  <1>2. ASSUME SweepInactivePeers PROVE TypeOK'
    <2>1. Rows' = Rows /\ peers' \in [Rows -> Row]
      BY <1>2, ZenonT(60) DEF SweepInactivePeers, TypeOK, Rows, Row, Status
    <2> QED BY <1>2, <2>1 DEF SweepInactivePeers, TypeOK, procs
  <1>3. ASSUME Tick PROVE TypeOK'
    <2>1. Rows' = Rows /\ peers' \in [Rows -> Row]
      BY <1>3, OlderType, ZenonT(60) DEF Tick, TypeOK, Rows, Row
    <2>2. tod' \in 0 .. Day - 1
      BY <1>3, TimeAssumption DEF Tick, TypeOK
    <2> QED BY <1>3, <2>1, <2>2 DEF Tick, TypeOK, procs
  <1> QED BY <1>1, <1>2, <1>3

LEMMA TypeProcs ==
  ASSUME TypeOK, NEW p \in Procs
  PROVE  (Start(p) => TypeOK') /\ (Exit(p) => TypeOK')
  BY GroupAssumption DEF Start, Exit, TypeOK, Phase, tables, Rows

\* Every step of the directory keeps its types.
LEMMA TypeStep == TypeOK /\ [Next]_registryVars => TypeOK'
  <1> SUFFICES ASSUME TypeOK, [Next]_registryVars PROVE TypeOK'
    OBVIOUS
  <1>1. ASSUME NEW p \in Procs, Call(p) PROVE TypeOK'
    <2>1. ASSUME NEW c \in Credentials, RegisterDenied(p, c[1], c[2]) PROVE TypeOK'
      BY <2>1, TypeDenied
    <2>2. ASSUME NEW c \in Credentials, Resurrect(p, c[1], c[2]) PROVE TypeOK'
      <3>1. c[1] \in Groups /\ c[2] \in Hashes
        BY GroupAssumption
      <3> QED BY <2>2, <3>1, TypeResurrect
    <2>3. ASSUME NEW c \in Credentials, NEW id \in PeerIds,
                 RegisterNew(p, c[1], c[2], id)
          PROVE TypeOK'
      <3>1. c[1] \in Groups /\ c[2] \in Hashes
        BY GroupAssumption
      <3> QED BY <2>3, <3>1, TypeRegisterNew
    <2> QED BY <1>1, <2>1, <2>2, <2>3, TypeCalls DEF Call
  <1>2. CASE UNCHANGED registryVars
    BY <1>2 DEF registryVars, tables, procs, TypeOK, Rows
  <1> QED BY <1>1, <1>2, TypeProcs, TypeTimers DEF Next

\* Every variable of the registry keeps its type, for every number of processes,
\* tokens and groups.
THEOREM TypeCorrect == Spec => []TypeOK
  BY TypeInit, TypeStep, PTL DEF Spec

-----------------------------------------------------------------------------
(* The inductive invariant of the directory *)

\* Tokens that were never minted are nowhere in use.
MintedBound ==
  /\ \A t \in Rows : t <= minted
  /\ \A p \in Procs : held[p] <= minted

\* Only a process that has registered has a token.
HoldersServe == \A p \in Procs : Serving(p) \/ held[p] = NoToken

\* Every group with a row has its secret planted, and the holders of rows in
\* secret groups showed it.
GroupsPlanted == \A t \in Rows : peers[t].group \in DOMAIN groups

\* What the registrations rely on.  SessionsLeadToRows rules the branch for a
\* purged row out, so that every inserted row has a new token; MintedBound makes
\* that token one nobody holds; GroupsPlanted and HoldersServe carry
\* MembersShowedSecret through the first registration in a group and through
\* exits.
Directory ==
  /\ TypeOK
  /\ MintedBound
  /\ HoldersServe
  /\ GroupsPlanted
  /\ SessionsLeadToRows
  /\ DeckRowReserved
  /\ NamesUnique
  /\ MembersShowedSecret

\* What a session leads to, in terms of a key.
LEMMA SessionRow ==
  ASSUME Directory, NEW k \in DOMAIN sessions
  PROVE  /\ sessions[k] \in Rows /\ sessions[k] # DeckToken
         /\ k = <<peers[sessions[k]].host, peers[sessions[k]].cwd,
                  peers[sessions[k]].group>>
  BY DEF Directory, SessionsLeadToRows

\* The directory starts with the Deck's row only.
LEMMA DirectoryInit == Init => Directory
  <1> SUFFICES ASSUME Init PROVE Directory
    OBVIOUS
  <1>1. TypeOK
    BY TypeInit
  <1>2. Rows = {DeckToken} /\ DOMAIN sessions = {} /\ DOMAIN groups = {Default}
    BY DEF Init, Rows
  <1>3. /\ peers[DeckToken].peer_id = DeckId /\ peers[DeckToken].group = Default
        /\ peers[DeckToken].status = "dormant"
    BY DEF Init
  <1>4. \A p \in Procs : phase[p] = "down" /\ held[p] = NoToken
    BY DEF Init
  <1>5. MintedBound
    <2>1. minted = 0
      BY DEF Init
    <2> QED BY <1>2, <1>4, <2>1 DEF MintedBound
  <1>8. HoldersServe /\ GroupsPlanted
    BY <1>2, <1>3, <1>4 DEF HoldersServe, GroupsPlanted
  <1>6. SessionsLeadToRows /\ DeckRowReserved /\ NamesUnique
    BY <1>2, <1>3, <1>4 DEF SessionsLeadToRows, DeckRowReserved, NamesUnique
  <1>7. MembersShowedSecret
    BY <1>4 DEF MembersShowedSecret, Alive
  <1> QED BY <1>1, <1>5, <1>6, <1>7, <1>8 DEF Directory

\* A step that only deletes rows with their sessions, leaves names, groups and
\* places of the others alone and gives nobody a token.
LEMMA DirectoryKept ==
  ASSUME Directory, TypeOK',
         Rows' \subseteq Rows, DeckToken \in Rows',
         peers'[DeckToken].status = "dormant",
         \A t \in Rows' : /\ peers'[t].peer_id = peers[t].peer_id
                          /\ peers'[t].group = peers[t].group
                          /\ peers'[t].host = peers[t].host
                          /\ peers'[t].cwd = peers[t].cwd,
         DOMAIN sessions' \subseteq DOMAIN sessions,
         \A k \in DOMAIN sessions' : /\ sessions'[k] = sessions[k]
                                     /\ sessions[k] \in Rows',
         UNCHANGED <<groups, minted>>,
         \A p \in Procs : /\ held'[p] \in {held[p], NoToken}
                          /\ shown'[p] = shown[p] \/ held'[p] = NoToken
                          /\ Serving(p)' \/ held'[p] = NoToken
  PROVE  Directory'
  <1> USE DEF Directory
  <1>1. MintedBound'
    <2>1. minted' = minted /\ minted \in Nat
      BY DEF TypeOK, Tokens
    <2> QED BY <2>1 DEF MintedBound
  <1>7. HoldersServe'
    BY DEF HoldersServe
  <1>2. GroupsPlanted'
    BY DEF GroupsPlanted
  <1>3. SessionsLeadToRows'
    BY DEF SessionsLeadToRows
  <1>4. DeckRowReserved'
    BY DEF DeckRowReserved
  <1>5. NamesUnique'
    BY DEF NamesUnique
  <1>6. MembersShowedSecret'
    <2> SUFFICES ASSUME NEW p \in Procs, held'[p] \in Rows', peers'[held'[p]].group # Default
                 PROVE  shown'[p] = groups'[peers'[held'[p]].group]
      BY DEF MembersShowedSecret
    <2>1. held'[p] = held[p] /\ held[p] # NoToken
      BY DEF TypeOK, Tokens
    <2>2. Alive(p)
      BY <2>1 DEF HoldersServe, Serving, Alive
    <2> QED BY <2>1, <2>2 DEF MembersShowedSecret
  <1> QED BY <1>1, <1>2, <1>3, <1>4, <1>5, <1>6, <1>7

\* What processes call keeps the directory consistent.
LEMMA DirectoryCalls ==
  ASSUME Directory, TypeOK', NEW p \in Procs
  PROVE  /\ Heartbeat(p) => Directory'
         /\ Disconnect(p) => Directory'
         /\ Unregister(p) => Directory'
  <1> USE DEF Directory
  <1>1. ASSUME Heartbeat(p) PROVE Directory'
    <2>1. Rows' = Rows
      BY <1>1 DEF Heartbeat, Rows, TypeOK
    <2>2. \A t \in Rows : /\ peers'[t].peer_id = peers[t].peer_id
                          /\ peers'[t].group = peers[t].group
                          /\ peers'[t].host = peers[t].host
                          /\ peers'[t].cwd = peers[t].cwd
                          /\ peers'[t].status = peers[t].status
      BY <1>1 DEF Heartbeat, TypeOK, Row
    <2>3. \A q \in Procs : held'[q] = held[q] /\ (Serving(q)' <=> Serving(q))
      BY <1>1 DEF Heartbeat, procs, Serving
    <2>4. UNCHANGED <<groups, sessions, minted, shown>>
      BY <1>1 DEF Heartbeat, procs
    <2> QED BY <2>1, <2>2, <2>3, <2>4, SessionRow, DirectoryKept
            DEF DeckRowReserved, HoldersServe
  <1>2. ASSUME Disconnect(p) PROVE Directory'
    <2>1. Rows' = Rows
      BY <1>2 DEF Disconnect, Rows
    <2>2. \A t \in Rows : /\ peers'[t].peer_id = peers[t].peer_id
                          /\ peers'[t].group = peers[t].group
                          /\ peers'[t].host = peers[t].host
                          /\ peers'[t].cwd = peers[t].cwd
                          /\ peers[t].status = "dormant" => peers'[t].status = "dormant"
      BY <1>2, ZenonT(60) DEF Disconnect, Parked, TypeOK, Row
    <2>3. \A q \in Procs : held'[q] = held[q] /\ (Serving(q) => Serving(q)')
      BY <1>2 DEF Disconnect, Serving, TypeOK
    <2>4. UNCHANGED <<groups, sessions, minted, shown>>
      BY <1>2 DEF Disconnect
    <2> QED BY <2>1, <2>2, <2>3, <2>4, SessionRow, DirectoryKept
            DEF DeckRowReserved, HoldersServe
  <1>3. ASSUME Unregister(p) PROVE Directory'
    <2>1. DeleteRows(peers, {held[p]}) /\ peers \in [Rows -> Row] /\ held[p] # DeckToken
      BY <1>3 DEF Unregister, TypeOK, DeckRowReserved
    <2>2. /\ DOMAIN peers' = Rows \ {held[p]}
          /\ DOMAIN sessions' = {k \in DOMAIN sessions : sessions[k] \notin {held[p]}}
          /\ \A t \in Rows \ {held[p]} : peers'[t] = peers[t]
          /\ \A k \in DOMAIN sessions' : sessions'[k] = sessions[k]
      BY <2>1, DeleteRowsType
    <2>3. \A q \in Procs : held'[q] = held[q] /\ (Serving(q)' <=> Serving(q))
      BY <1>3 DEF Unregister, procs, Serving
    <2>4. UNCHANGED <<groups, minted, shown>>
      BY <1>3 DEF Unregister, procs
    <2>5. Rows' = Rows \ {held[p]}
      BY <2>2 DEF Rows
    <2> QED BY <2>1, <2>2, <2>3, <2>4, <2>5, SessionRow, DirectoryKept
            DEF DeckRowReserved, HoldersServe
  <1> QED BY <1>1, <1>2, <1>3

\* So do the timers and the clock,
LEMMA DirectoryTimers ==
  ASSUME Directory, TypeOK'
  PROVE  /\ CleanStalePeers => Directory'
         /\ SweepInactivePeers => Directory'
         /\ Tick => Directory'
  <1> USE DEF Directory
  <1>1. ASSUME CleanStalePeers PROVE Directory'
    <2> DEFINE table == [t \in Rows |-> Probed(t)]
               S == {t \in Rows : Expired(t)}
    <2>1. table \in [Rows -> Row]
      BY ProbedType DEF TypeOK
    <2>2. DeleteRows(table, S)
      BY <1>1 DEF CleanStalePeers
    <2>3. DeckToken \notin S
      BY DEF Expired
    <2>4. \A t \in Rows : /\ table[t].peer_id = peers[t].peer_id
                          /\ table[t].group = peers[t].group
                          /\ table[t].host = peers[t].host
                          /\ table[t].cwd = peers[t].cwd
                          /\ peers[t].status = "dormant" => table[t].status = "dormant"
      BY ZenonT(60) DEF Probed, TypeOK, Row
    <2> HIDE DEF table, S
    <2>5. /\ DOMAIN peers' = Rows \ S
          /\ DOMAIN sessions' = {k \in DOMAIN sessions : sessions[k] \notin S}
          /\ \A t \in Rows \ S : peers'[t] = table[t]
          /\ \A k \in DOMAIN sessions' : sessions'[k] = sessions[k]
      BY <2>1, <2>2, DeleteRowsType
    <2>6. Rows' = Rows \ S
      BY <2>5 DEF Rows
    <2>7. \A q \in Procs : held'[q] = held[q] /\ (Serving(q)' <=> Serving(q))
      BY <1>1 DEF CleanStalePeers, procs, Serving
    <2>8. UNCHANGED <<groups, minted, shown>>
      BY <1>1 DEF CleanStalePeers, procs
    <2> QED BY <2>3, <2>4, <2>5, <2>6, <2>7, <2>8, SessionRow, DirectoryKept
            DEF DeckRowReserved, HoldersServe
  <1>2. ASSUME SweepInactivePeers PROVE Directory'
    <2>1. Rows' = Rows
      BY <1>2 DEF SweepInactivePeers, Rows
    <2>2. \A t \in Rows : /\ peers'[t].peer_id = peers[t].peer_id
                          /\ peers'[t].group = peers[t].group
                          /\ peers'[t].host = peers[t].host
                          /\ peers'[t].cwd = peers[t].cwd
                          /\ peers[t].status = "dormant" => peers'[t].status = "dormant"
      <3>1. \A t \in Rows : peers[t] \in Row
        BY DEF TypeOK
      <3>2. \A t \in Rows : peers'[t] = IF Stale(t) THEN [peers[t] EXCEPT !.status = "dormant"] ELSE peers[t]
        BY <1>2 DEF SweepInactivePeers
      <3> HIDE DEF Directory
      <3> QED BY <3>1, <3>2 DEF Row
    <2>3. \A q \in Procs : held'[q] = held[q] /\ (Serving(q)' <=> Serving(q))
      BY <1>2 DEF SweepInactivePeers, procs, Serving
    <2>4. UNCHANGED <<groups, sessions, minted, shown>>
      BY <1>2 DEF SweepInactivePeers, procs
    <2> QED BY <2>1, <2>2, <2>3, <2>4, SessionRow, DirectoryKept
            DEF DeckRowReserved, HoldersServe
  <1>3. ASSUME Tick PROVE Directory'
    <2>1. Rows' = Rows
      BY <1>3 DEF Tick, Rows
    <2>2. \A t \in Rows : /\ peers'[t].peer_id = peers[t].peer_id
                          /\ peers'[t].group = peers[t].group
                          /\ peers'[t].host = peers[t].host
                          /\ peers'[t].cwd = peers[t].cwd
                          /\ peers'[t].status = peers[t].status
      <3>1. \A t \in Rows : peers[t] \in Row
        BY DEF TypeOK
      <3>2. \A t \in Rows : peers'[t] = [peers[t] EXCEPT !.seen = Older(@)]
        BY <1>3 DEF Tick
      <3> HIDE DEF Directory
      <3> QED BY <3>1, <3>2 DEF Row
    <2>3. \A q \in Procs : held'[q] = held[q] /\ (Serving(q)' <=> Serving(q))
      BY <1>3 DEF Tick, procs, Serving
    <2>4. UNCHANGED <<groups, sessions, minted, shown>>
      BY <1>3 DEF Tick, procs
    <2> QED BY <2>1, <2>2, <2>3, <2>4, SessionRow, DirectoryKept
            DEF DeckRowReserved, HoldersServe
  <1> QED BY <1>1, <1>2, <1>3

\* and so do starts, exits and refused registrations.
LEMMA DirectoryProcs ==
  ASSUME Directory, TypeOK', NEW p \in Procs
  PROVE  /\ Start(p) => Directory'
         /\ Exit(p) => Directory'
         /\ \A g, hash : RegisterDenied(p, g, hash) => Directory'
  <1> USE DEF Directory
  <1>1. ASSUME UNCHANGED tables,
               \A q \in Procs : /\ held'[q] \in {held[q], NoToken}
                                /\ shown'[q] = shown[q] \/ held'[q] = NoToken
                                /\ Serving(q)' \/ held'[q] = NoToken
        PROVE  Directory'
    <2>1. Rows' = Rows /\ UNCHANGED <<peers, sessions, groups, minted>>
      BY <1>1 DEF tables, Rows
    <2> QED BY <1>1, <2>1, SessionRow, DirectoryKept DEF DeckRowReserved
  <1>2. ASSUME Start(p) PROVE Directory'
    BY <1>2, <1>1 DEF Start, HoldersServe, Serving, TypeOK
  <1>3. ASSUME Exit(p) PROVE Directory'
    BY <1>3, <1>1 DEF Exit, HoldersServe, Serving, TypeOK
  <1>4. ASSUME NEW g, NEW hash, RegisterDenied(p, g, hash) PROVE Directory'
    BY <1>4, <1>1 DEF RegisterDenied, Refused, Registering, HoldersServe, Serving, TypeOK
  <1> QED BY <1>2, <1>3, <1>4

\* set_id renames one row to a name that is free in its group.
LEMMA DirectorySetId ==
  ASSUME Directory, TypeOK', NEW p \in Procs, NEW id \in PeerIds, SetId(p, id)
  PROVE  Directory'
  <1> USE DEF Directory
  <1> DEFINE u == held[p]
  <1>1. /\ u \in Rows /\ Rows' = Rows /\ u # DeckToken
        /\ id \notin Taken(peers[u].group)
        /\ UNCHANGED <<groups, sessions, minted, phase, held, shown>>
    BY DEF SetId, Rows, procs, DeckRowReserved
  <1>2. \A t \in Rows : /\ peers'[t].peer_id = (IF t = u THEN id ELSE peers[t].peer_id)
                        /\ peers'[t].group = peers[t].group
                        /\ peers'[t].host = peers[t].host
                        /\ peers'[t].cwd = peers[t].cwd
                        /\ peers'[t].status = peers[t].status
    BY DEF SetId, TypeOK, Row
  <1> HIDE DEF u
  <1>3. MintedBound' /\ HoldersServe' /\ GroupsPlanted'
    BY <1>1, <1>2 DEF MintedBound, HoldersServe, GroupsPlanted, Serving
  <1>4. SessionsLeadToRows'
    BY <1>1, <1>2 DEF SessionsLeadToRows
  <1>5. DeckRowReserved'
    BY <1>1, <1>2 DEF DeckRowReserved
  <1>6. NamesUnique'
    <2> SUFFICES ASSUME NEW t \in Rows, NEW v \in Rows, t # v,
                        peers[t].group = peers[v].group,
                        peers'[t].peer_id = peers'[v].peer_id
                 PROVE  FALSE
      BY <1>1, <1>2 DEF NamesUnique
    <2>1. t = u \/ v = u
      BY <1>2 DEF NamesUnique
    <2>2. id \in Taken(peers[u].group)
      BY <1>1, <1>2, <2>1 DEF Taken
    <2> QED BY <1>1, <2>2
  <1>7. MembersShowedSecret'
    BY <1>1, <1>2 DEF MembersShowedSecret, Alive
  <1> QED BY <1>3, <1>4, <1>5, <1>6, <1>7

\* The secret planted for the group is the one the process showed, and no
\* secret that was planted before changes.
LEMMA PlantedFacts ==
  ASSUME TypeOK, NEW g \in Groups, NEW hash \in Hashes, Admitted(g, hash)
  PROVE  /\ g \in DOMAIN Planted(g, hash)
         /\ g # Default => Planted(g, hash)[g] = hash
         /\ \A h \in DOMAIN groups : /\ h \in DOMAIN Planted(g, hash)
                                     /\ Planted(g, hash)[h] = groups[h]
  <1>1. CASE g \in DOMAIN groups
    BY <1>1 DEF Planted, Admitted
  <1>2. CASE g \notin DOMAIN groups
    BY <1>2 DEF Planted, Insert
  <1> QED BY <1>1, <1>2

\* A dormant row is taken over by a process from the same place.
LEMMA DirectoryResurrect ==
  ASSUME Directory, TypeOK', NEW p \in Procs, NEW g \in Groups, NEW hash \in Hashes,
         Resurrect(p, g, hash)
  PROVE  Directory'
  <1> USE DEF Directory
  <1> DEFINE k == Key(p, g)
             u == sessions[k]
  <1>1. /\ k \in DOMAIN sessions /\ u \in Rows /\ u # DeckToken
        /\ peers[u].host = HostOf[p] /\ peers[u].cwd = CwdOf[p] /\ peers[u].group = g
    <2>1. k \in DOMAIN sessions
      BY DEF Resurrect, Resumable
    <2> QED BY <2>1, SessionRow DEF Key
  <1>2. /\ Rows' = Rows
        /\ \A t \in Rows : /\ peers'[t].peer_id = peers[t].peer_id
                           /\ peers'[t].group = peers[t].group
                           /\ peers'[t].host = peers[t].host
                           /\ peers'[t].cwd = peers[t].cwd
                           /\ t # u => peers'[t].status = peers[t].status
    <2> DEFINE row == Revived(p, u)
    <2>1. peers' = [peers EXCEPT ![u] = row]
      BY DEF Resurrect
    <2>2. peers[u] \in Row
      BY <1>1 DEF TypeOK
    <2>3. /\ row.peer_id = peers[u].peer_id /\ row.group = peers[u].group
          /\ row.host = HostOf[p] /\ row.cwd = CwdOf[p]
      BY <2>2 DEF Revived, Row
    <2> HIDE DEF u, row
    <2> QED BY <1>1, <2>1, <2>3 DEF Rows
  <1>3. sessions' = sessions
    BY <1>1 DEF Resurrect, Insert, TypeOK
  <1>4. /\ held' = [held EXCEPT ![p] = u]
        /\ phase' = [phase EXCEPT ![p] = "running"]
        /\ shown' = [shown EXCEPT ![p] = hash]
        /\ minted' = minted
    BY DEF Resurrect, Granted
  <1>5. /\ g \in DOMAIN groups'
        /\ g # Default => groups'[g] = hash
        /\ \A h \in DOMAIN groups : h \in DOMAIN groups' /\ groups'[h] = groups[h]
    BY PlantedFacts DEF Resurrect
  <1> HIDE DEF k, u
  <1>6. MintedBound'
    <2>1. u <= minted
      BY <1>1 DEF MintedBound
    <2>2. \A q \in Procs : held'[q] \in {held[q], u}
      BY <1>4 DEF TypeOK
    <2> QED BY <2>1, <2>2, <1>2, <1>4 DEF MintedBound
  <1>12. HoldersServe'
    BY <1>4 DEF HoldersServe, Serving, TypeOK
  <1>7. GroupsPlanted'
    BY <1>1, <1>2, <1>5 DEF GroupsPlanted
  <1>8. SessionsLeadToRows'
    BY <1>2, <1>3 DEF SessionsLeadToRows
  <1>9. DeckRowReserved'
    BY <1>1, <1>2, <1>4 DEF DeckRowReserved, TypeOK
  <1>10. NamesUnique'
    BY <1>2 DEF NamesUnique
  <1>11. MembersShowedSecret'
    <2> SUFFICES ASSUME NEW q \in Procs, Alive(q)', held'[q] \in Rows',
                        peers'[held'[q]].group # Default
                 PROVE  shown'[q] = groups'[peers'[held'[q]].group]
      BY DEF MembersShowedSecret
    <2>1. CASE q = p
      BY <2>1, <1>1, <1>2, <1>4, <1>5 DEF TypeOK
    <2>2. CASE q # p
      <3>1. held'[q] = held[q] /\ shown'[q] = shown[q] /\ Alive(q)
        BY <2>2, <1>4 DEF TypeOK, Alive
      <3> QED BY <3>1, <1>2, <1>5 DEF MembersShowedSecret, GroupsPlanted
    <2> QED BY <2>1, <2>2
  <1> QED BY <1>6, <1>7, <1>8, <1>9, <1>10, <1>11, <1>12

\* A registration that inserts a row, or fails after planting the group.
LEMMA DirectoryRegisterNew ==
  ASSUME Directory, TypeOK', NEW p \in Procs, NEW g \in Groups, NEW hash \in Hashes,
         NEW id \in PeerIds, RegisterNew(p, g, hash, id)
  PROVE  Directory'
  <1> USE DEF Directory
  <1> DEFINE k == Key(p, g)
             u == minted + 1
  <1>1. ~(k \in DOMAIN sessions /\ sessions[k] \notin Rows)
    BY SessionRow
  <1>2. /\ g \in DOMAIN groups'
        /\ g # Default => groups'[g] = hash
        /\ \A h \in DOMAIN groups : h \in DOMAIN groups' /\ groups'[h] = groups[h]
    BY PlantedFacts DEF RegisterNew
  <1>3. minted' = u /\ u \in Nat /\ minted \in Nat
    <2>1. minted \in Nat
      BY DEF TypeOK, Tokens
    <2>2. minted' = u
      BY <1>1 DEF RegisterNew
    <2> QED BY <2>1, <2>2
  <1>4. u \notin Rows /\ \A q \in Procs : held[q] # u
    BY <1>3 DEF MintedBound, TypeOK, Tokens
  <1>5. CASE id \in Taken(g)
    <2>1. /\ UNCHANGED <<peers, sessions, held, shown>> /\ Rows' = Rows
          /\ phase' = [phase EXCEPT ![p] = IF @ = "starting" THEN "down" ELSE "stranded"]
      BY <1>5 DEF RegisterNew, Refused, Rows
    <2>2. MintedBound'
      BY <2>1, <1>3 DEF MintedBound, TypeOK, Tokens
    <2>3. HoldersServe' /\ \A q \in Procs : Alive(q)' => Alive(q)
      BY <2>1 DEF HoldersServe, Serving, Alive, RegisterNew, Registering, TypeOK
    <2>4. GroupsPlanted' /\ MembersShowedSecret'
      BY <2>1, <2>3, <1>2 DEF GroupsPlanted, MembersShowedSecret
    <2>5. SessionsLeadToRows' /\ DeckRowReserved' /\ NamesUnique'
      BY <2>1 DEF SessionsLeadToRows, DeckRowReserved, NamesUnique
    <2> QED BY <2>2, <2>3, <2>4, <2>5
  <1>6. CASE id \notin Taken(g)
    <2>1. /\ peers' = Insert(peers, u, NewRow(p, g, id))
          /\ sessions' = IF k \in DOMAIN sessions THEN sessions ELSE Insert(sessions, k, u)
          /\ held' = [held EXCEPT ![p] = u]
          /\ phase' = [phase EXCEPT ![p] = "running"]
          /\ shown' = [shown EXCEPT ![p] = hash]
      BY <1>1, <1>6 DEF RegisterNew, Granted
    <2>2. /\ Rows' = Rows \cup {u}
          /\ \A t \in Rows : peers'[t] = peers[t]
          /\ peers'[u].peer_id = id /\ peers'[u].group = g
          /\ peers'[u].host = HostOf[p] /\ peers'[u].cwd = CwdOf[p]
      BY <2>1, <1>4 DEF Insert, NewRow, Rows
    <2> HIDE DEF u
    <2>3. MintedBound'
      BY <2>1, <2>2, <1>3 DEF MintedBound, TypeOK, Tokens, u
    <2>4. HoldersServe'
      BY <2>1 DEF HoldersServe, Serving, TypeOK
    <2>5. GroupsPlanted'
      BY <2>2, <1>2 DEF GroupsPlanted
    <2>6. SessionsLeadToRows'
      <3>1. u # DeckToken
        BY <1>3 DEF u
      <3>2. k = <<HostOf[p], CwdOf[p], g>>
        BY DEF Key
      <3>3. \A j \in DOMAIN sessions' :
              \/ j \in DOMAIN sessions /\ sessions'[j] = sessions[j]
              \/ j = k /\ sessions'[j] = u
        BY <2>1 DEF Insert
      <3> QED BY <2>2, <3>1, <3>2, <3>3 DEF SessionsLeadToRows
    <2>7. DeckRowReserved'
      BY <2>1, <2>2, <1>4, <1>3 DEF DeckRowReserved, TypeOK, u
    <2>8. NamesUnique'
      <3> SUFFICES ASSUME NEW t \in Rows', NEW v \in Rows', t # v,
                          peers'[t].group = peers'[v].group,
                          peers'[t].peer_id = peers'[v].peer_id
                   PROVE  FALSE
        BY DEF NamesUnique
      <3>1. t = u \/ v = u
        BY <2>2 DEF NamesUnique
      <3>2. id \in Taken(g)
        BY <2>2, <3>1 DEF Taken
      <3> QED BY <3>2, <1>6
    <2>9. MembersShowedSecret'
      <3> SUFFICES ASSUME NEW q \in Procs, Alive(q)', held'[q] \in Rows',
                          peers'[held'[q]].group # Default
                   PROVE  shown'[q] = groups'[peers'[held'[q]].group]
        BY DEF MembersShowedSecret
      <3>1. CASE q = p
        BY <3>1, <2>1, <2>2, <1>2 DEF TypeOK
      <3>2. CASE q # p
        <4>1. held'[q] = held[q] /\ shown'[q] = shown[q] /\ Alive(q)
          BY <3>2, <2>1 DEF TypeOK, Alive
        <4>2. held[q] \in Rows
          BY <4>1, <2>2, <1>4 DEF u
        <4> QED BY <4>1, <4>2, <2>2, <1>2 DEF MembersShowedSecret, GroupsPlanted
      <3> QED BY <3>1, <3>2
    <2> QED BY <2>3, <2>4, <2>5, <2>6, <2>7, <2>8, <2>9
  <1> QED BY <1>5, <1>6

\* Together: the strengthened invariant is inductive.
LEMMA DirectoryStep == Directory /\ [Next]_registryVars => Directory'
  <1> SUFFICES ASSUME Directory, [Next]_registryVars PROVE Directory'
    OBVIOUS
  <1>1. TypeOK'
    BY TypeStep DEF Directory
  <1>2. ASSUME NEW p \in Procs, Call(p) PROVE Directory'
    <2>1. ASSUME NEW c \in Credentials, RegisterDenied(p, c[1], c[2]) PROVE Directory'
      BY <2>1, <1>1, DirectoryProcs
    <2>2. ASSUME NEW c \in Credentials PROVE c[1] \in Groups /\ c[2] \in Hashes
      BY GroupAssumption
    <2>3. ASSUME NEW c \in Credentials, Resurrect(p, c[1], c[2]) PROVE Directory'
      BY <2>2, <2>3, <1>1, DirectoryResurrect
    <2>4. ASSUME NEW c \in Credentials, NEW id \in PeerIds,
                 RegisterNew(p, c[1], c[2], id)
          PROVE Directory'
      BY <2>2, <2>4, <1>1, DirectoryRegisterNew
    <2> QED BY <1>1, <1>2, <2>1, <2>3, <2>4, DirectoryCalls, DirectorySetId DEF Call
  <1>3. CASE UNCHANGED registryVars
    <2>1. /\ Rows' = Rows
          /\ UNCHANGED <<groups, peers, sessions, minted, phase, held, shown>>
      BY <1>3 DEF registryVars, tables, procs, Rows
    <2>2. \A q \in Procs : Serving(q)' <=> Serving(q)
      BY <2>1 DEF Serving
    <2> QED BY <1>1, <2>1, <2>2, SessionRow, DirectoryKept
            DEF Directory, DeckRowReserved, HoldersServe
  <1> QED BY <1>1, <1>2, <1>3, DirectoryProcs, DirectoryTimers DEF Next

\* It holds in every behaviour.
LEMMA DirectoryAlways == Spec => []Directory
  BY DirectoryInit, DirectoryStep, PTL DEF Spec

\* Every remembered session leads to an existing row of the same host, directory
\* and group, so the branch of /register for a purged row is never taken and the
\* foreign key of peer_sessions never fails.
THEOREM SessionsCorrect == Spec => []SessionsLeadToRows
  BY DirectoryAlways, PTL DEF Directory

\* No two rows of a group ever share a name.
THEOREM NamesCorrect == Spec => []NamesUnique
  BY DirectoryAlways, PTL DEF Directory

\* Whoever acts in a secret group has shown the secret planted there.
THEOREM SecretsCorrect == Spec => []MembersShowedSecret
  BY DirectoryAlways, PTL DEF Directory

\* What a listing shows can be written to, and nobody who is there is left out.
THEOREM ListedCorrect == Spec => []ListedReachable
  <1>1. Directory => ListedReachable
    <2>1. SUFFICES ASSUME Directory, NEW p \in Procs, Serving(p)
                   PROVE  /\ \A t \in ListPeers(p, Cwds \cup {NoCwd}) :
                               Addressed(peers[held[p]].group, peers[t].peer_id) = {t}
                          /\ \A q \in Procs :
                               /\ Serving(q) /\ {held[p], held[q]} \subseteq Rows
                               /\ held[p] # held[q] /\ peers[held[q]].status = "active"
                               /\ peers[held[q]].group = peers[held[p]].group
                               => held[q] \in ListPeers(p, {peers[held[q]].cwd})
      BY DEF ListedReachable
    <2>2. ASSUME NEW t \in ListPeers(p, Cwds \cup {NoCwd})
          PROVE  Addressed(peers[held[p]].group, peers[t].peer_id) = {t}
      <3>1. t \in Rows /\ peers[t].group = peers[held[p]].group /\ peers[t].status = "active"
        BY <2>2 DEF ListPeers
      <3>2. \A u \in Rows : peers[u].group = peers[t].group
                            /\ peers[u].peer_id = peers[t].peer_id => u = t
        BY <2>1, <3>1 DEF Directory, NamesUnique
      <3> QED BY <3>1, <3>2 DEF Addressed
    <2>3. ASSUME NEW q \in Procs, {held[p], held[q]} \subseteq Rows, held[p] # held[q],
                 peers[held[q]].status = "active", peers[held[q]].group = peers[held[p]].group
          PROVE  held[q] \in ListPeers(p, {peers[held[q]].cwd})
      BY <2>3 DEF ListPeers
    <2> QED BY <2>2, <2>3
  <1> QED BY <1>1, DirectoryAlways, PTL

\* The Deck's row stays, dormant and under its name, and nobody acts under it.
THEOREM DeckCorrect == Spec => []DeckRowReserved
  BY DirectoryAlways, PTL DEF Directory

-----------------------------------------------------------------------------
(* Steps *)

\* While a process runs under an active row that carries its host and pid, no
\* registration anywhere is given its token.
THEOREM LiveTokenSafe == Spec => LiveTokenNotTaken
  <1> DEFINE Kept ==
        \A p, q \in Procs :
          /\ Alive(p) /\ held[p] \in Rows
          /\ peers[held[p]].status = "active"
          /\ peers[held[p]].host = HostOf[p] /\ peers[held[p]].pid = PidOf[p]
          /\ held'[q] = held[p]
          => p = q \/ held[q] = held[p]
  <1>1. Directory /\ [Next]_registryVars => [Kept]_registryVars
    <2> SUFFICES ASSUME Directory, Next,
                        NEW p \in Procs, NEW q \in Procs,
                        Alive(p), held[p] \in Rows, peers[held[p]].status = "active",
                        peers[held[p]].host = HostOf[p], peers[held[p]].pid = PidOf[p],
                        held'[q] = held[p], held[q] # held[p]
                 PROVE  FALSE
      OBVIOUS
    <2>1. held[p] # NoToken
      BY DEF Directory, TypeOK, Tokens
    <2>2. PICK r \in Procs, c \in Credentials :
            \/ Resurrect(r, c[1], c[2])
            \/ \E id \in PeerIds : RegisterNew(r, c[1], c[2], id)
      BY <2>1 DEF Next, Call, RegisterDenied, Refused, Heartbeat, Disconnect, SetId,
                  Unregister, Start, Exit, CleanStalePeers, SweepInactivePeers, Tick,
                  procs, Directory, TypeOK
    <2> DEFINE k == Key(r, c[1])
    <2>3. CASE Resurrect(r, c[1], c[2])
      <3>1. held' = [held EXCEPT ![r] = sessions[k]] /\ Resumable(k)
        BY <2>3 DEF Resurrect, Granted
      <3>2. sessions[k] = held[p]
        BY <3>1 DEF Directory, TypeOK
      <3>3. PidDead(peers[held[p]])
        BY <3>1, <3>2 DEF Resumable
      <3> QED BY <3>3 DEF PidDead, PidAlive
    <2>4. CASE \E id \in PeerIds : RegisterNew(r, c[1], c[2], id)
      <3>1. ~(k \in DOMAIN sessions /\ sessions[k] \notin Rows)
        BY SessionRow
      <3>2. held' = held \/ held' = [held EXCEPT ![r] = minted + 1]
        BY <2>4, <3>1 DEF RegisterNew, Granted, Refused
      <3>3. held[p] <= minted /\ minted \in Nat /\ held[p] \in Int
        BY DEF Directory, MintedBound, TypeOK, Tokens
      <3> QED BY <3>2, <3>3 DEF Directory, TypeOK
    <2> QED BY <2>2, <2>3, <2>4
  <1>2. Spec => [][Kept]_registryVars
    BY <1>1, DirectoryAlways, PTL DEF Spec
  <1> QED BY <1>2 DEF LiveTokenNotTaken

\* A row keeps its name but for set_id, called by a process that holds its token.
THEOREM NamesStay == Spec => NamesKept
  <1> DEFINE Kept ==
        \A t \in Rows :
          t \in DOMAIN peers' /\ peers'[t].peer_id # peers[t].peer_id =>
            \E p \in Procs : Holds(p, t) /\ SetId(p, peers'[t].peer_id)
  <1>1. Directory /\ [Next]_registryVars => [Kept]_peers
    <2> SUFFICES ASSUME Directory, Next, NEW t \in Rows, t \in DOMAIN peers',
                        peers'[t].peer_id # peers[t].peer_id
                 PROVE  \E p \in Procs : Holds(p, t) /\ SetId(p, peers'[t].peer_id)
      BY DEF registryVars, tables
    <2>1. peers \in [Rows -> Row] /\ peers[t] \in Row
      BY DEF Directory, TypeOK
    <2>7. ~CleanStalePeers
      <3> SUFFICES ASSUME CleanStalePeers PROVE FALSE
        OBVIOUS
      <3>1. peers'[t] = Probed(t)
        BY <2>1 DEF CleanStalePeers, DeleteRows, Without, Rows
      <3> QED BY <3>1, <2>1 DEF Probed, Row
    <2>8. ~SweepInactivePeers /\ ~Tick
      BY <2>1, ZenonT(60) DEF SweepInactivePeers, Tick, Row
    <2>2. PICK p \in Procs :
            \/ \E c \in Credentials : Resurrect(p, c[1], c[2])
            \/ \E c \in Credentials, id \in PeerIds : RegisterNew(p, c[1], c[2], id)
            \/ Disconnect(p)
            \/ Heartbeat(p)
            \/ \E id \in PeerIds : SetId(p, id)
            \/ Unregister(p)
      BY <2>7, <2>8 DEF Next, Call, RegisterDenied, Start, Exit, tables
    <2>3. ASSUME NEW c \in Credentials, Resurrect(p, c[1], c[2]) PROVE FALSE
      <3>1. peers' = [peers EXCEPT ![sessions[Key(p, c[1])]] = Revived(p, sessions[Key(p, c[1])])]
        BY <2>3 DEF Resurrect
      <3>2. sessions[Key(p, c[1])] = t
        BY <3>1, <2>1
      <3>3. peers'[t] = Revived(p, t)
        BY <3>1, <3>2, <2>1
      <3> QED BY <3>3, <2>1 DEF Revived, Row
    <2>4. ASSUME NEW c \in Credentials, NEW id \in PeerIds, RegisterNew(p, c[1], c[2], id)
          PROVE FALSE
      <3>1. ~(Key(p, c[1]) \in DOMAIN sessions /\ sessions[Key(p, c[1])] \notin Rows)
        BY SessionRow
      <3>2. peers' = peers \/ peers' = Insert(peers, minted + 1, NewRow(p, c[1], id))
        BY <2>4, <3>1 DEF RegisterNew
      <3>3. t # minted + 1
        BY DEF Directory, MintedBound, TypeOK, Tokens
      <3> QED BY <3>2, <3>3 DEF Insert, Rows
    <2>5. ~Disconnect(p)
      <3>1. Parked(t).peer_id = peers[t].peer_id
        BY <2>1 DEF Parked, Row
      <3>2. Disconnect(p) => peers'[t] \in {Parked(t), peers[t]}
        BY DEF Disconnect
      <3> QED BY <3>1, <3>2
    <2>10. ~Heartbeat(p)
      <3>1. [peers[t] EXCEPT !.seen = 0].peer_id = peers[t].peer_id
        BY <2>1 DEF Row
      <3>2. Heartbeat(p) => peers'[t] \in {[peers[t] EXCEPT !.seen = 0], peers[t]}
        BY <2>1 DEF Heartbeat
      <3> QED BY <3>1, <3>2
    <2>6. ~Unregister(p)
      <3> SUFFICES ASSUME Unregister(p) PROVE FALSE
        OBVIOUS
      <3>1. peers'[t] = peers[t]
        BY <2>1, DeleteRowsType DEF Unregister, Directory, DeleteRows, Without, Rows
      <3> QED BY <3>1
    <2>9. ASSUME NEW id \in PeerIds, SetId(p, id)
          PROVE Holds(p, t) /\ SetId(p, peers'[t].peer_id)
      <3> DEFINE row == [peers[held[p]] EXCEPT !.peer_id = id]
      <3>1. held[p] \in Rows /\ Serving(p) /\ peers' = [peers EXCEPT ![held[p]] = row]
        BY <2>9 DEF SetId
      <3> HIDE DEF row
      <3>2. held[p] = t /\ peers'[t] = row
        BY <3>1, <2>1
      <3>3. row.peer_id = id
        BY <2>1, <3>2 DEF row, Row
      <3> QED BY <2>9, <3>1, <3>2, <3>3 DEF Holds
    <2> QED BY <2>2, <2>3, <2>4, <2>5, <2>6, <2>9, <2>10
  <1>2. Spec => [][Kept]_peers
    BY <1>1, DirectoryAlways, PTL DEF Spec
  <1> QED BY <1>2 DEF NamesKept

\* More midnights in a longer time.
LEMMA DaysMonotone ==
  ASSUME NEW age \in Ages, NEW limit \in Nat, tod \in 0 .. Day - 1,
         DaysAgo(age) > DaysAgo(limit)
  PROVE  age > limit
  BY TimeAssumption DEF DaysAgo, Ages

\* The timer only purges rows silent for longer than the limit, although it
\* compares an ISO date with a SQLite one as text.
THEOREM PurgesJustified == Spec => PurgedOnlyWhenExpired
  <1> DEFINE Kept ==
        CleanStalePeers =>
          \A t \in Rows \ DOMAIN peers' :
            /\ peers[t].seen > DormantTTL
            /\ peers[t].status = "dormant" \/ PidDead(peers[t])
  <1>1. TypeOK => Kept
    <2> SUFFICES ASSUME TypeOK, CleanStalePeers, NEW t \in Rows, t \notin DOMAIN peers'
                 PROVE  /\ peers[t].seen > DormantTTL
                        /\ peers[t].status = "dormant" \/ PidDead(peers[t])
      OBVIOUS
    <2>1. Expired(t)
      BY DEF CleanStalePeers, DeleteRows, Without, Rows
    <2>2. peers[t] \in Row
      BY DEF TypeOK
    <2>3. peers[t].seen \in Ages
      BY <2>2 DEF Row
    <2>4. DormantTTL \in Nat /\ tod \in 0 .. Day - 1
      BY TimeAssumption DEF TypeOK
    <2>5. peers[t].seen > DormantTTL
      BY <2>1, <2>3, <2>4, DaysMonotone DEF Expired, TextBefore
    <2>6. peers[t].status = "dormant" \/ PidDead(peers[t])
      BY <2>1 DEF Expired, Probed
    <2> QED BY <2>5, <2>6
  <1>2. Spec => [][Kept]_peers
    BY <1>1, TypeCorrect, PTL
  <1> QED BY <1>2 DEF PurgedOnlyWhenExpired

=============================================================================
