--------------------------- MODULE IdentityProofs ---------------------------
(***************************************************************************)
(* No token is handed out twice: the theorem behind Identity.  The facts   *)
(* about single steps come first: what a registration gives out, and which *)
(* steps change who a row belongs to.                                      *)
(***************************************************************************)
EXTENDS Identity, RegistryProofs

-----------------------------------------------------------------------------
(* Steps of the directory *)

\* Whoever begins to run is given a row that carries its host and pid, and a
\* token that is new or whose row it was allowed to take over.
LEMMA Registered ==
  ASSUME Directory, Directory', Next, NEW q \in Procs,
         phase[q] # "running", phase'[q] = "running"
  PROVE  /\ held'[q] \in Rows'
         /\ peers'[held'[q]].host = HostOf[q] /\ peers'[held'[q]].pid = PidOf[q]
         /\ peers'[held'[q]].status = "active"
         /\ \A p \in Procs \ {q} : phase'[p] = phase[p] /\ held'[p] = held[p]
         /\ \/ held'[q] \notin Rows /\ \A p \in Procs : held[p] # held'[q]
            \/ /\ held'[q] \in Rows
               /\ \/ peers[held'[q]].status = "dormant"
                  \/ PidDead(peers[held'[q]])
  <1> USE DEF Directory
  <1>1. PICK c \in Credentials :
          \/ Resurrect(q, c[1], c[2])
          \/ \E id \in PeerIds : RegisterNew(q, c[1], c[2], id)
    <2>1. PICK r \in Procs, c \in Credentials :
            \/ Resurrect(r, c[1], c[2])
            \/ \E id \in PeerIds : RegisterNew(r, c[1], c[2], id)
      BY DEF Next, Call, RegisterDenied, Refused, Heartbeat, Disconnect, SetId,
             Unregister, Start, Exit, CleanStalePeers, SweepInactivePeers, Tick,
             procs, TypeOK
    <2>2. r = q
      BY <2>1 DEF Resurrect, RegisterNew, Granted, Refused, TypeOK
    <2> QED BY <2>1, <2>2
  <1> DEFINE k == Key(q, c[1])
             hash == c[2]
  <1>2. ASSUME Resurrect(q, c[1], hash) PROVE
           /\ Granted(q, hash, sessions[k])
           /\ Resumable(k)
           /\ peers' = [peers EXCEPT ![sessions[k]] = Revived(q, sessions[k])]
    BY <1>2 DEF Resurrect
  <1>3. CASE Resurrect(q, c[1], hash)
    <2> DEFINE t == sessions[k]
    <2>1. t \in Rows /\ (peers[t].status = "dormant" \/ PidDead(peers[t]))
      BY <1>2, <1>3 DEF Resumable
    <2>2. peers[t] \in Row
      BY <2>1 DEF TypeOK
    <2>3. /\ Revived(q, t).host = HostOf[q] /\ Revived(q, t).pid = PidOf[q]
          /\ Revived(q, t).status = "active"
      BY <2>2 DEF Revived, Row
    <2>4. Rows' = Rows /\ peers'[t] = Revived(q, t)
      BY <1>2, <1>3, <2>1 DEF Rows
    <2>5. held'[q] = t /\ \A p \in Procs \ {q} : phase'[p] = phase[p] /\ held'[p] = held[p]
      BY <1>2, <1>3 DEF Granted, TypeOK
    <2> QED BY <2>1, <2>3, <2>4, <2>5
  <1>4. ASSUME NEW id \in PeerIds, RegisterNew(q, c[1], hash, id)
        PROVE  /\ Granted(q, hash, minted + 1)
               /\ peers' = Insert(peers, minted + 1, NewRow(q, c[1], id))
    <2>1. ~(k \in DOMAIN sessions /\ sessions[k] \notin Rows)
      BY SessionRow
    <2>2. ~Refused(q)
      BY DEF Refused, TypeOK
    <2> QED BY <1>4, <2>1, <2>2 DEF RegisterNew
  <1>5. CASE \E id \in PeerIds : RegisterNew(q, c[1], hash, id)
    <2>1. PICK id \in PeerIds : RegisterNew(q, c[1], hash, id)
      BY <1>5
    <2> DEFINE t == minted + 1
    <2>2. t \notin Rows /\ \A p \in Procs : held[p] # t
      BY DEF MintedBound, TypeOK, Tokens
    <2>3. Rows' = Rows \cup {t} /\ peers'[t] = NewRow(q, c[1], id)
      BY <1>4, <2>1 DEF Insert, Rows
    <2>4. held'[q] = t /\ \A p \in Procs \ {q} : phase'[p] = phase[p] /\ held'[p] = held[p]
      BY <1>4, <2>1 DEF Granted, TypeOK
    <2> QED BY <2>2, <2>3, <2>4 DEF NewRow
  <1> QED BY <1>1, <1>3, <1>5

\* A process that goes on running keeps its token.
LEMMA TokenKept ==
  ASSUME Directory, Next, NEW p \in Procs, phase[p] = "running", phase'[p] = "running"
  PROVE  held'[p] = held[p]
  <1> USE DEF Directory, TypeOK
  <1>1. ASSUME NEW r \in Procs, NEW c \in Credentials,
               \/ Resurrect(r, c[1], c[2])
               \/ \E id \in PeerIds : RegisterNew(r, c[1], c[2], id)
        PROVE  held'[p] = held[p]
    <2>1. r # p
      BY <1>1 DEF Resurrect, RegisterNew, Registering
    <2>2. \/ held' = held
          \/ \E t : held' = [held EXCEPT ![r] = t]
      BY <1>1 DEF Resurrect, RegisterNew, Granted, Refused
    <2> QED BY <2>1, <2>2
  <1>2. ASSUME NEW r \in Procs, Exit(r) PROVE held'[p] = held[p]
    <2>1. r # p
      BY <1>2 DEF Exit
    <2> QED BY <1>2, <2>1 DEF Exit
  <1>3. ASSUME NEW r \in Procs,
               \/ \E c \in Credentials : RegisterDenied(r, c[1], c[2])
               \/ Heartbeat(r) \/ Disconnect(r) \/ Unregister(r) \/ Start(r)
               \/ \E id \in PeerIds : SetId(r, id)
        PROVE  held'[p] = held[p]
    BY <1>3 DEF RegisterDenied, Refused, Heartbeat, Disconnect, Unregister, Start, SetId, procs
  <1>4. ASSUME CleanStalePeers \/ SweepInactivePeers \/ Tick PROVE held'[p] = held[p]
    BY <1>4 DEF CleanStalePeers, SweepInactivePeers, Tick, procs
  <1> QED BY <1>1, <1>2, <1>3, <1>4 DEF Next, Call

\* Only taking a row over changes the process it names.
LEMMA OwnerKept ==
  ASSUME Directory, Next, NEW t \in Rows, t \in Rows'
  PROVE  \/ peers'[t].host = peers[t].host /\ peers'[t].pid = peers[t].pid
         \/ peers[t].status = "dormant" \/ PidDead(peers[t])
  <1> USE DEF Directory
  <1>1. peers \in [Rows -> Row] /\ peers[t] \in Row
    BY DEF TypeOK
  <1> DEFINE Same == peers'[t].host = peers[t].host /\ peers'[t].pid = peers[t].pid
  <1>2. ASSUME NEW p \in Procs, NEW c \in Credentials, Resurrect(p, c[1], c[2])
        PROVE  Same \/ peers[t].status = "dormant" \/ PidDead(peers[t])
    <2> DEFINE u == sessions[Key(p, c[1])]
    <2>1. /\ Resumable(Key(p, c[1]))
          /\ peers' = [peers EXCEPT ![u] = Revived(p, u)]
      BY <1>2 DEF Resurrect
    <2>2. CASE t = u
      BY <2>1, <2>2 DEF Resumable
    <2>3. CASE t # u
      BY <2>1, <2>3, <1>1
    <2> QED BY <2>2, <2>3
  <1>3. ASSUME NEW p \in Procs, NEW c \in Credentials, NEW id \in PeerIds,
               RegisterNew(p, c[1], c[2], id)
        PROVE  Same
    <2>1. ~(Key(p, c[1]) \in DOMAIN sessions /\ sessions[Key(p, c[1])] \notin Rows)
      BY SessionRow
    <2>2. peers' = peers \/ peers' = Insert(peers, minted + 1, NewRow(p, c[1], id))
      BY <1>3, <2>1 DEF RegisterNew
    <2>3. t # minted + 1
      BY DEF MintedBound, TypeOK, Tokens
    <2> QED BY <2>2, <2>3 DEF Insert, Rows
  <1>4. ASSUME NEW p \in Procs, Disconnect(p) PROVE Same
    <2>1. Parked(t).host = peers[t].host /\ Parked(t).pid = peers[t].pid
      BY <1>1 DEF Parked, Row
    <2>2. peers'[t] \in {Parked(t), peers[t]}
      BY <1>4 DEF Disconnect
    <2> QED BY <2>1, <2>2
  <1>5. ASSUME NEW p \in Procs, Heartbeat(p) PROVE Same
    <2> DEFINE row == [peers[t] EXCEPT !.seen = 0]
    <2>1. row.host = peers[t].host /\ row.pid = peers[t].pid
      BY <1>1 DEF Row
    <2>2. peers'[t] \in {row, peers[t]}
      BY <1>5, <1>1 DEF Heartbeat
    <2> QED BY <2>1, <2>2
  <1>6. ASSUME NEW p \in Procs, NEW id \in PeerIds, SetId(p, id) PROVE Same
    <2> DEFINE row == [peers[t] EXCEPT !.peer_id = id]
    <2>1. row.host = peers[t].host /\ row.pid = peers[t].pid
      BY <1>1 DEF Row
    <2>2. peers'[t] \in {row, peers[t]}
      BY <1>6, <1>1 DEF SetId
    <2> QED BY <2>1, <2>2
  <1>7. ASSUME NEW p \in Procs, Unregister(p) PROVE Same
    BY <1>7 DEF Unregister, DeleteRows, Without, Rows
  <1>8. ASSUME CleanStalePeers PROVE Same
    <2>1. peers'[t] = Probed(t)
      BY <1>8 DEF CleanStalePeers, DeleteRows, Without, Rows
    <2> QED BY <2>1, <1>1 DEF Probed, Row
  <1>9. (SweepInactivePeers => Same) /\ (Tick => Same)
    BY <1>1 DEF SweepInactivePeers, Tick, Row
  <1> QED BY <1>2, <1>3, <1>4, <1>5, <1>6, <1>7, <1>8, <1>9
          DEF Next, Call, RegisterDenied, Start, Exit, tables

\* The only token that can join the table is the next one.
LEMMA RowsGrow ==
  ASSUME Directory, Next PROVE Rows' \subseteq Rows \cup {minted + 1}
  <1>1. ASSUME NEW p \in Procs, NEW c \in Credentials, NEW id \in PeerIds,
               RegisterNew(p, c[1], c[2], id)
        PROVE  Rows' \subseteq Rows \cup {minted + 1}
    <2>1. ~(Key(p, c[1]) \in DOMAIN sessions /\ sessions[Key(p, c[1])] \notin Rows)
      BY SessionRow
    <2> QED BY <1>1, <2>1 DEF RegisterNew, Insert, Rows
  <1>2. ASSUME NEW p \in Procs, Unregister(p) PROVE Rows' \subseteq Rows
    BY <1>2 DEF Unregister, DeleteRows, Without, Rows
  <1>3. ASSUME CleanStalePeers PROVE Rows' \subseteq Rows
    BY <1>3 DEF CleanStalePeers, DeleteRows, Without, Rows
  <1>4. ASSUME NEW p \in Procs,
               \/ \E c \in Credentials : \/ RegisterDenied(p, c[1], c[2])
                                         \/ Resurrect(p, c[1], c[2])
               \/ Heartbeat(p) \/ Disconnect(p) \/ Start(p) \/ Exit(p)
               \/ \E id \in PeerIds : SetId(p, id)
        PROVE  Rows' = Rows
    BY <1>4 DEF RegisterDenied, Resurrect, Heartbeat, Disconnect, SetId, Start, Exit,
                tables, Rows
  <1>5. ASSUME SweepInactivePeers \/ Tick PROVE Rows' = Rows
    BY <1>5 DEF SweepInactivePeers, Tick, Rows
  <1> QED BY <1>1, <1>2, <1>3, <1>4, <1>5 DEF Next, Call

-----------------------------------------------------------------------------
(* No token is handed out twice *)

\* A running process is the one its row names, as long as its token was not
\* exposed.  This is what keeps others away: nobody takes over an active row
\* whose process is alive.
OwnsRow ==
  \A p \in Procs :
    phase[p] = "running" /\ held[p] \in Rows /\ held[p] \notin exposed =>
      /\ peers[held[p]].status = "active"
      /\ peers[held[p]].host = HostOf[p] /\ peers[held[p]].pid = PidOf[p]

Ownership == Directory /\ OwnsRow /\ OneHolderUnlessExposed

\* Nobody holds a token at the start.
LEMMA OwnershipInit == InitH => Ownership
  <1> SUFFICES ASSUME InitH PROVE Ownership
    OBVIOUS
  <1>1. Directory
    BY DirectoryInit DEF InitH
  <1>2. \A p \in Procs : phase[p] = "down"
    BY DEF InitH, Init
  <1> QED BY <1>1, <1>2 DEF Ownership, OwnsRow, OneHolderUnlessExposed

\* A running process whose token is not exposed is not dead and its row not
\* dormant: nobody may take the row over.
LEMMA OwnedNotFree ==
  ASSUME Ownership, NEW p \in Procs, phase[p] = "running",
         held[p] \in Rows, held[p] \notin exposed
  PROVE  peers[held[p]].status # "dormant" /\ ~PidDead(peers[held[p]])
  BY DEF Ownership, OwnsRow, PidDead, PidAlive, Alive

\* Ownership is kept by every step of the directory.
LEMMA OwnershipStep == Ownership /\ [NextH]_identityVars => Ownership'
  <1> SUFFICES ASSUME Ownership, [NextH]_identityVars PROVE Ownership'
    OBVIOUS
  <1>1. [Next]_registryVars
    BY DEF NextH, identityVars
  <1>2. Directory /\ Directory'
    BY <1>1, DirectoryStep DEF Ownership
  <1>3. CASE UNCHANGED identityVars
    BY <1>3, <1>2 DEF identityVars, registryVars, tables, procs, Ownership, OwnsRow,
                      OneHolderUnlessExposed, Rows
  <1>4. CASE NextH
    <2>1. Next /\ exposed \subseteq exposed' /\ Orphaned' \subseteq exposed'
      BY <1>4 DEF NextH
    <2>2. OwnsRow'
      <3> SUFFICES ASSUME NEW p \in Procs, phase'[p] = "running", held'[p] \in Rows',
                          held'[p] \notin exposed'
                   PROVE  /\ peers'[held'[p]].status = "active"
                          /\ peers'[held'[p]].host = HostOf[p]
                          /\ peers'[held'[p]].pid = PidOf[p]
        BY DEF OwnsRow
      <3>1. CASE phase[p] # "running"
        BY <3>1, <2>1, <1>2, Registered
      <3>2. CASE phase[p] = "running"
        <4>1. held'[p] = held[p]
          BY <3>2, <2>1, <1>2, TokenKept
        <4>2. held[p] \in Rows
          <5> SUFFICES ASSUME held[p] \notin Rows PROVE FALSE
            OBVIOUS
          <5>1. Rows' \subseteq Rows \cup {minted + 1}
            BY <2>1, <1>2, RowsGrow
          <5>2. held[p] # minted + 1
            BY <1>2 DEF Directory, MintedBound, TypeOK, Tokens
          <5> QED BY <4>1, <5>1, <5>2
        <4>3. held[p] \notin exposed
          BY <4>1, <2>1
        <4>4. peers'[held[p]].status = "active"
          <5>1. peers'[held[p]] \in Row
            BY <4>1, <1>2 DEF Directory, TypeOK
          <5>2. peers'[held[p]].status # "dormant"
            BY <4>1, <2>1 DEF Orphaned, Acting
          <5> QED BY <5>1, <5>2 DEF Row, Status
        <4>5. /\ peers'[held[p]].host = peers[held[p]].host
              /\ peers'[held[p]].pid = peers[held[p]].pid
          BY <4>1, <4>2, <4>3, <3>2, <2>1, <1>2, OwnedNotFree, OwnerKept
        <4> QED BY <4>1, <4>2, <4>3, <4>4, <4>5, <3>2 DEF Ownership, OwnsRow
      <3> QED BY <3>1, <3>2
    <2>3. OneHolderUnlessExposed'
      <3> SUFFICES ASSUME NEW p \in Procs, NEW q \in Procs, p # q,
                          phase'[p] = "running", phase'[q] = "running",
                          held'[p] = held'[q], held'[p] \notin exposed'
                   PROVE  FALSE
        BY DEF OneHolderUnlessExposed
      <3>1. ASSUME NEW r \in Procs, NEW s \in Procs, r # s, phase[r] # "running",
                   phase'[r] = "running", phase'[s] = "running", held'[r] = held'[s],
                   held'[r] \notin exposed'
            PROVE  FALSE
        <4>1. /\ phase[s] = "running" /\ held[s] = held'[r]
              /\ \/ held'[r] \notin Rows /\ \A o \in Procs : held[o] # held'[r]
                 \/ /\ held'[r] \in Rows
                    /\ \/ peers[held'[r]].status = "dormant"
                       \/ PidDead(peers[held'[r]])
          BY <3>1, <2>1, <1>2, Registered
        <4>2. held[s] \notin exposed
          BY <4>1, <3>1, <2>1
        <4> QED BY <4>1, <4>2, OwnedNotFree
      <3>2. CASE phase[p] # "running"
        BY <3>1, <3>2
      <3>3. CASE phase[q] # "running"
        BY <3>1, <3>3
      <3>4. CASE phase[p] = "running" /\ phase[q] = "running"
        <4>1. held'[p] = held[p] /\ held'[q] = held[q]
          BY <3>4, <2>1, <1>2, TokenKept
        <4>2. held[p] \notin exposed
          BY <4>1, <2>1
        <4> QED BY <3>4, <4>1, <4>2 DEF Ownership, OneHolderUnlessExposed
      <3> QED BY <3>2, <3>3, <3>4
    <2> QED BY <1>2, <2>2, <2>3 DEF Ownership
  <1> QED BY <1>3, <1>4

\* In no order of starts, deaths, resumptions, collisions, switches, sweeps,
\* purges and reused pids do two running processes act under one token that was
\* not exposed.
THEOREM OneHolderCorrect == SpecH => []OneHolderUnlessExposed
  BY OwnershipInit, OwnershipStep, PTL DEF SpecH, Ownership

=============================================================================
