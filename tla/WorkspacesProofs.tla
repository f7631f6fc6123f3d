--------------------------- MODULE WorkspacesProofs ---------------------------
(***************************************************************************)
(* No two Decks drive one workspace, and no change loses its way to the    *)
(* file: the theorems behind Workspaces, for any number of Decks, hosts,   *)
(* workspaces and runs.  What a Deck may have left to do comes first, then *)
(* the invariant that connects it with the lock.                           *)
(***************************************************************************)
EXTENDS Workspaces, TLAPS

-----------------------------------------------------------------------------
(* The inductive invariant *)

\* What is left of a restore, from the release of the lock that is given up.
Moves(left, id) ==
  \/ \E x \in Ids \ {id} :
       left = <<Do("release", x), Do("peek", id), Do("claim", id), Do("save", id)>>
  \/ left = Own(id)
  \/ left = <<Do("claim", id), Do("save", id)>>
Moving(d, id) == Moves(job[d], id)

\* What is left of a removal.
Removing(d, id) ==
  job[d] \in {<<Do("probe", id), Do("prune", id), Do("rmLock", id)>>,
              <<Do("prune", id), Do("rmLock", id)>>,
              <<Do("rmFile", id), Do("rmLock", id)>>, <<Do("rmLock", id)>>}

\* A Deck has read a lock that is of a run there has been and, unless the workspace is
\* contested, its own.
ReadOwn(d, id) ==
  /\ reg[d] \in Lock /\ reg[d].run <= run[reg[d].deck]
  /\ id \notin contested => reg[d].deck = d /\ reg[d].run = run[d]

\* Whatever a Deck has left to do belongs to a handler that has begun, and is about its
\* current workspace or, for removals, another one.
JobSound(d) ==
  LET id == currentId[d] IN
  \/ job[d] = <<>>
  \/ /\ phase[d] = "up"
     /\ \/ reg[d] \in File /\ \E x \in minted : job[d] = <<Do("check", x)>>
        \/ id # NoId /\ Moving(d, id)
        \/ id # NoId /\ job[d] \in {<<Do("save", id)>>, <<Do("detach", id)>>, <<Do("close", id)>>}
        \/ \E x \in Ids \ {id} : Removing(d, x)
        \/ id # NoId /\ job[d] = <<Do("beat", id)>> /\ ReadOwn(d, id)
  \/ phase[d] \in {"up", "closing"} /\ id # NoId /\ job[d] = <<Do("quit", id)>>

\* Workspaces in use are minted, and locks are of runs there have been.
IdsSound ==
  /\ \A d \in Decks : currentId[d] \in minted \cup {NoId}
  /\ \A id \in Ids : ws[id] # NoFile => id \in minted
  /\ \A id \in Ids : lock[id] # NoLock => lock[id].run <= run[lock[id].deck]

\* The lock's owner is alive, as far as d can see without trusting a pid that is in use.
OwnerSeen(l, d) ==
  l # NoLock /\ IF HostOf[l.deck] = HostOf[d] THEN OwnerAlive(l) ELSE l.fresh

Owns(d, id) == lock[id] # NoLock /\ lock[id].deck = d /\ lock[id].run = run[d]

\* Whoever drives a workspace that is not contested owns its lock, or is about to take it
\* and will find it free.
Guarded ==
  \A d \in Decks, id \in Ids \ contested :
    Drives(d, id) => IF Moving(d, id) THEN ~OwnerSeen(lock[id], d) ELSE Owns(d, id)

Inv ==
  /\ TypeOK /\ IdsSound /\ \A d \in Decks : JobSound(d)
  /\ OneDriverUnlessContested /\ Guarded /\ UnsavedWillBeSaved
-----------------------------------------------------------------------------
(* What is left to do *)

LEMMA DoFields == \A op, id, op2, id2 : Do(op, id) = Do(op2, id2) <=> op = op2 /\ id = id2
  BY DEF Do

Step == [op : Ops, id : Ids]

LEMMA DoType ==
  ASSUME NEW op \in Ops, NEW id \in Ids
  PROVE  Do(op, id) \in Step
  BY DEF Do, Step

\* A short list of steps is a job.
LEMMA Short ==
  ASSUME NEW a \in Step, NEW b \in Step, NEW c \in Step, NEW e \in Step
  PROVE  /\ <<>> \in Seq(Step) /\ <<a>> \in Seq(Step) /\ <<a, b>> \in Seq(Step)
         /\ <<a, b, c>> \in Seq(Step) /\ <<a, b, c, e>> \in Seq(Step)
  OBVIOUS

\* Whoever has yet to take over a lock has looked at it.
LEMMA MovingHas ==
  ASSUME NEW d \in Decks, NEW id \in Ids, Moving(d, id)
  PROVE  Has(d, "claim", id)
  <1>1. ASSUME NEW x \in Ids,
               job[d] = <<Do("release", x), Do("peek", id), Do("claim", id), Do("save", id)>>
        PROVE  Has(d, "claim", id)
    <2>1. 3 \in 1 .. Len(job[d]) /\ job[d][3] = Do("claim", id)
      BY <1>1
    <2> QED BY <2>1 DEF Has
  <1>2. ASSUME job[d] = <<Do("peek", id), Do("claim", id), Do("save", id)>>
        PROVE  Has(d, "claim", id)
    <2>1. 2 \in 1 .. Len(job[d]) /\ job[d][2] = Do("claim", id)
      BY <1>2
    <2> QED BY <2>1 DEF Has
  <1>3. ASSUME job[d] = <<Do("claim", id), Do("save", id)>>
        PROVE  Has(d, "claim", id)
    <2>1. 1 \in 1 .. Len(job[d]) /\ job[d][1] = Do("claim", id)
      BY <1>3
    <2> QED BY <2>1 DEF Has
  <1> QED BY <1>1, <1>2, <1>3 DEF Moving, Moves, Own

\* How the remains of a restore begin.
LEMMA MovesHead ==
  ASSUME NEW left, NEW id \in Ids, Moves(left, id)
  PROVE  left # <<>> /\ Head(left).op \in {"release", "peek", "claim"}
  BY DEF Moves, Own, Do

\* What a Deck that is at some operation is in the middle of.
LEMMA Pending ==
  ASSUME NEW d \in Decks, JobSound(d), NEW op \in Ops, NEW id \in Ids, At(d, op, id)
  PROVE  LET cur == currentId[d] rest == Tail(job[d]) IN
         /\ phase[d] = "up" \/ (op = "quit" /\ phase[d] = "closing")
         /\ op = "check" => reg[d] \in File /\ id \in minted
         /\ op = "release" => cur # NoId /\ id # cur /\ Moves(job[d], cur) /\ rest = Own(cur)
         /\ op = "peek" => id = cur /\ rest = <<Do("claim", id), Do("save", id)>>
         /\ op = "claim" => id = cur /\ rest = <<Do("save", id)>>
         /\ op \in {"save", "detach", "close", "quit"} => id = cur /\ rest = <<>>
         /\ op = "probe" => id # cur /\ rest = <<Do("prune", id), Do("rmLock", id)>>
         /\ op \in {"prune", "rmFile"} => id # cur /\ rest = <<Do("rmLock", id)>>
         /\ op = "rmLock" => id # cur /\ rest = <<>>
         /\ op = "beat" => id = cur /\ ReadOwn(d, id) /\ rest = <<>>
         /\ op \in {"peek", "claim"} => Moves(job[d], id)
  <1> DEFINE cur == currentId[d]
             j == job[d]
  <1> USE DoFields
  <1>1. j # <<>> /\ Head(j) = Do(op, id)
    BY DEF At
  <1>2. ASSUME phase[d] = "up", reg[d] \in File, NEW x \in minted, j = <<Do("check", x)>>
        PROVE  op = "check" /\ id = x
    BY <1>1, <1>2
  <1>3. ASSUME NEW x \in Ids \ {cur}, cur # NoId,
               j = <<Do("release", x), Do("peek", cur), Do("claim", cur), Do("save", cur)>>
        PROVE  op = "release" /\ id = x /\ Tail(j) = Own(cur) /\ Moves(j, cur)
    BY <1>1, <1>3 DEF Own, Moves
  <1>4. ASSUME j = Own(cur)
        PROVE  op = "peek" /\ id = cur /\ Tail(j) = <<Do("claim", id), Do("save", id)>>
               /\ Moves(j, id)
    BY <1>1, <1>4 DEF Own, Moves
  <1>5. ASSUME j = <<Do("claim", cur), Do("save", cur)>>
        PROVE  op = "claim" /\ id = cur /\ Tail(j) = <<Do("save", id)>> /\ Moves(j, id)
    BY <1>1, <1>5 DEF Moves
  <1>6. ASSUME NEW o, j = <<Do(o, cur)>>
        PROVE  op = o /\ id = cur /\ Tail(j) = <<>>
    BY <1>1, <1>6
  <1>7. ASSUME NEW x \in Ids \ {cur}, j = <<Do("probe", x), Do("prune", x), Do("rmLock", x)>>
        PROVE  op = "probe" /\ id = x /\ Tail(j) = <<Do("prune", id), Do("rmLock", id)>>
    BY <1>1, <1>7
  <1>8. ASSUME NEW x \in Ids \ {cur}, NEW o, j = <<Do(o, x), Do("rmLock", x)>>
        PROVE  op = o /\ id = x /\ Tail(j) = <<Do("rmLock", id)>>
    BY <1>1, <1>8
  <1>9. ASSUME NEW x \in Ids \ {cur}, j = <<Do("rmLock", x)>>
        PROVE  op = "rmLock" /\ id = x /\ Tail(j) = <<>>
    BY <1>1, <1>9
  <1> HIDE DEF j
  <1>10. CASE phase[d] = "up" /\ reg[d] \in File /\ \E x \in minted : j = <<Do("check", x)>>
    BY <1>2, <1>10 DEF j
  <1>11. CASE phase[d] = "up" /\ cur # NoId /\ Moves(j, cur)
    BY <1>3, <1>4, <1>5, <1>11 DEF Moves, j
  <1>12. CASE /\ phase[d] = "up" /\ cur # NoId
              /\ j \in {<<Do("save", cur)>>, <<Do("detach", cur)>>, <<Do("close", cur)>>}
    BY <1>6, <1>12 DEF j
  <1>13. CASE phase[d] = "up" /\ \E x \in Ids \ {cur} : Removing(d, x)
    BY <1>7, <1>8, <1>9, <1>13 DEF Removing, j
  <1>14. CASE phase[d] = "up" /\ cur # NoId /\ j = <<Do("beat", cur)>> /\ ReadOwn(d, cur)
    BY <1>6, <1>14 DEF j
  <1>15. CASE phase[d] \in {"up", "closing"} /\ cur # NoId /\ j = <<Do("quit", cur)>>
    BY <1>6, <1>15 DEF j
  <1> QED BY <1>1, <1>10, <1>11, <1>12, <1>13, <1>14, <1>15 DEF JobSound, j, Moving

-----------------------------------------------------------------------------
(* What the lock gives *)

\* isLockLive never takes a live owner for dead.
LEMMA SeenIsLive ==
  \A id \in Ids, d \in Decks : OwnerSeen(lock[id], d) => LockLive(lock[id], d)
  BY DEF OwnerSeen, LockLive, PidAlive

\* What another Deck would find of a workspace that a Deck drives: its lock, with its owner
\* alive, or a Deck between the look at it and its use.
LEMMA DriverShows ==
  ASSUME Inv, NEW d \in Decks, NEW e \in Decks \ {d}, NEW id \in Ids \ contested, Drives(e, id)
  PROVE  /\ InBetween(d, id) \/ Foreign(d, id)
         /\ ~LockLive(lock[id], d) => InBetween(d, id) \/ Late(d, id)
  <1>1. CASE Moving(e, id)
    <2>1. Has(e, "claim", id)
      BY <1>1, MovingHas
    <2> QED BY <2>1 DEF InBetween
  <1>2. CASE ~Moving(e, id)
    <2>1. lock[id] # NoLock /\ lock[id].deck = e /\ lock[id].run = run[e]
      BY <1>2 DEF Inv, Guarded, Owns
    <2>2. OwnerAlive(lock[id])
      BY <2>1 DEF OwnerAlive, Running, Drives
    <2> QED BY <2>1, <2>2 DEF Foreign, Late, LockLive, PidAlive
  <1> QED BY <1>1, <1>2

\* A step of d leaves the other Decks as they are,
Others(d) ==
  \A e \in Decks \ {d} :
    /\ phase'[e] = phase[e] /\ run'[e] = run[e] /\ currentId'[e] = currentId[e]
    /\ tiles'[e] = tiles[e] /\ autoSaveTimer'[e] = autoSaveTimer[e]
    /\ job'[e] = job[e] /\ reg'[e] = reg[e]
    /\ e \in swallowed' <=> e \in swallowed

\* removes or takes over a lock only where that does not hurt another Deck, or counts,
LocksFair(d) ==
  \A id \in Ids \ contested' :
    \/ lock'[id] = lock[id]
    \/ lock'[id] = NoLock /\ ~Foreign(d, id)
    \/ \A e \in Decks \ {d} : ~Drives(e, id)

\* and writes or removes a file only on the same terms.
FilesFair(d) ==
  \A id \in Ids \ contested' : ws'[id] = ws[id] \/ \A e \in Decks \ {d} : ~Drives(e, id)

\* No lock comes to life again.
NobodyRises == \A l \in Lock : l.run <= run[l.deck] /\ OwnerAlive(l)' => OwnerAlive(l)

\* What has to be shown of a step of one Deck.
LEMMA DeckKeepsInv ==
  ASSUME Inv, NEW d \in Decks, TypeOK', IdsSound',
         Others(d), LocksFair(d), FilesFair(d), NobodyRises,
         minted \subseteq minted', contested \subseteq contested',
         run[d] <= run'[d], JobSound(d)',
         \A id \in Ids \ contested' : Drives(d, id)' =>
           /\ \A e \in Decks \ {d} : ~Drives(e, id)
           /\ IF Moving(d, id)' THEN ~OwnerSeen(lock[id], d)' ELSE Owns(d, id)',
         Unsaved(d)' => autoSaveTimer'[d] \/ d \in swallowed'
  PROVE  Inv'
  <1> USE DEF Inv, history
  <1>1. \A e \in Decks \ {d}, id \in Ids : Drives(e, id)' <=> Drives(e, id)
    BY DEF Others, Drives
  <1>2. \A e \in Decks \ {d}, id \in Ids : Moving(e, id)' <=> Moving(e, id)
    BY DEF Others, Moving, Moves
  <1>3. ASSUME NEW e \in Decks \ {d} PROVE JobSound(e)'
    <2>1. \A id : Removing(e, id)' <=> Removing(e, id)
      BY DEF Others, Removing
    <2>2. \A id \in Ids : ReadOwn(e, id) => ReadOwn(e, id)'
      <3>1. \A f \in Decks : run[f] <= run'[f]
        <4>1. run \in [Decks -> Nat] /\ MaxRuns \in Nat
          BY WorkspacesAssumption DEF TypeOK
        <4> QED BY <4>1 DEF Others
      <3> QED BY <3>1 DEF Others, ReadOwn, TypeOK, Lock
    <2>3. currentId[e] \in Ids \cup {NoId} /\ currentId'[e] = currentId[e] /\ phase'[e] = phase[e]
          /\ job'[e] = job[e] /\ reg'[e] = reg[e]
      BY DEF Others, TypeOK
    <2>4. JobSound(e)
      OBVIOUS
    <2> QED BY <1>2, <2>1, <2>2, <2>3, <2>4 DEF JobSound
  <1>4. OneDriverUnlessContested'
    BY <1>1 DEF OneDriverUnlessContested
  <1>5. Guarded'
    <2> SUFFICES ASSUME NEW e \in Decks \ {d}, NEW id \in Ids \ contested', Drives(e, id)
                 PROVE  IF Moving(e, id) THEN ~OwnerSeen(lock[id], e)' ELSE Owns(e, id)'
      BY <1>1, <1>2 DEF Guarded
    <2>1. IF Moving(e, id) THEN ~OwnerSeen(lock[id], e) ELSE Owns(e, id)
      BY DEF Guarded
    <2>2. lock'[id] = lock[id] \/ (lock'[id] = NoLock /\ ~Foreign(d, id))
      BY DEF LocksFair
    <2>3. lock[id] \in Lock \cup {NoLock} /\ (lock[id] # NoLock => lock[id].run <= run[lock[id].deck])
      BY DEF TypeOK, IdsSound
    <2>4. CASE Moving(e, id)
      <3>1. CASE lock'[id] = lock[id]
        BY <2>1, <2>3, <2>4, <3>1 DEF OwnerSeen, NobodyRises
      <3>2. CASE lock'[id] = NoLock
        BY <2>4, <3>2 DEF OwnerSeen
      <3> QED BY <2>2, <3>1, <3>2
    <2>5. CASE ~Moving(e, id)
      <3>1. lock[id] # NoLock /\ lock[id].deck = e /\ lock[id].run = run[e]
        BY <2>1, <2>5 DEF Owns
      <3>2. Foreign(d, id)
        BY <3>1 DEF Foreign, OwnerAlive, Running, Drives
      <3> QED BY <2>2, <2>5, <3>1, <3>2 DEF Owns, Others
    <2> QED BY <2>4, <2>5
  <1>6. UnsavedWillBeSaved'
    <2> SUFFICES ASSUME NEW e \in Decks \ {d}, Unsaved(e)'
                 PROVE  autoSaveTimer[e] \/ e \in swallowed
      BY DEF UnsavedWillBeSaved, Others
    <2>1. phase'[e] = phase[e] /\ tiles'[e] = tiles[e] /\ currentId'[e] = currentId[e]
          /\ currentId[e] \in Ids \cup {NoId}
      BY DEF Others, TypeOK
    <2>2. currentId[e] # NoId => ws'[currentId[e]] = ws[currentId[e]]
      BY <2>1 DEF Unsaved, FilesFair, Drives
    <2>3. Unsaved(e)
      BY <2>1, <2>2 DEF Unsaved
    <2> QED BY <2>3 DEF UnsavedWillBeSaved
  <1> QED BY <1>3, <1>4, <1>5, <1>6

-----------------------------------------------------------------------------
(* Helpers of the handlers *)

LEMMA Nulls == NoId \notin Ids /\ NoFile \notin File /\ NoLock \notin Lock
  BY WorkspacesAssumption, NullAssumption

\* A workspace counts as contested from the moment it is, and for ever.
LEMMA Contesting ==
  ASSUME Inv, NEW id \in Ids, NEW cond, Contest(id, cond)
  PROVE  /\ contested \subseteq contested' /\ contested' \subseteq Ids
         /\ cond => id \in contested'
  BY DEF Contest, Inv, TypeOK

\* A file is written under the eyes of whoever else drives the workspace.
LEMMA Saving ==
  ASSUME Inv, NEW d \in Decks, NEW id \in Ids, NEW named \in BOOLEAN, SaveFile(d, id, named)
  PROVE  /\ contested \subseteq contested' /\ contested' \subseteq Ids
         /\ ws' \in [Ids -> File \cup {NoFile}] /\ FilesFair(d)
         /\ ws'[id] # NoFile /\ ws'[id].tiles = tiles[d]
         /\ \A x \in Ids \ {id} : ws'[x] = ws[x]
         /\ swallowed' = swallowed \ {d}
  <1> DEFINE file == [tiles |-> tiles[d], pinned |-> named \/ (ws[id] # NoFile /\ ws[id].pinned),
                      old |-> FALSE]
  <1>1. ws' = [ws EXCEPT ![id] = file] /\ Contest(id, InBetween(d, id) \/ Foreign(d, id))
        /\ swallowed' = swallowed \ {d}
    BY DEF SaveFile
  <1>2. ws \in [Ids -> File \cup {NoFile}] /\ tiles[d] \in SUBSET Tiles
    BY DEF Inv, TypeOK
  <1>3. (named \/ (ws[id] # NoFile /\ ws[id].pinned)) \in BOOLEAN
    OBVIOUS
  <1>4. file \in File /\ file.tiles = tiles[d]
    BY <1>2, <1>3 DEF File
  <1> HIDE DEF file
  <1>5. ws' \in [Ids -> File \cup {NoFile}] /\ ws'[id] = file
        /\ \A x \in Ids \ {id} : ws'[x] = ws[x]
    BY <1>1, <1>2, <1>4
  <1>6. /\ contested \subseteq contested' /\ contested' \subseteq Ids
        /\ InBetween(d, id) \/ Foreign(d, id) => id \in contested'
    BY <1>1, Contesting
  <1>7. FilesFair(d)
    <2>1. id \in contested' \/ \A e \in Decks \ {d} : ~Drives(e, id)
      BY <1>6, DriverShows
    <2> QED BY <1>5, <2>1 DEF FilesFair
  <1> QED BY <1>1, <1>4, <1>5, <1>6, <1>7, Nulls

\* A lock is removed under the eyes of whoever else owns it.
LEMMA Releasing ==
  ASSUME Inv, NEW d \in Decks, NEW id \in Ids, Released(d, id)
  PROVE  /\ contested \subseteq contested' /\ contested' \subseteq Ids
         /\ lock' \in [Ids -> Lock \cup {NoLock}] /\ LocksFair(d)
         /\ job' = [job EXCEPT ![d] = Tail(job[d])]
         /\ \A x \in Ids : lock'[x] = IF x = id THEN NoLock ELSE lock[x]
  <1>1. /\ lock' = [lock EXCEPT ![id] = NoLock] /\ Contest(id, Foreign(d, id))
        /\ job' = [job EXCEPT ![d] = Tail(job[d])]
    BY DEF Released, Continue
  <1>2. lock \in [Ids -> Lock \cup {NoLock}]
    BY DEF Inv, TypeOK
  <1>3. /\ contested \subseteq contested' /\ contested' \subseteq Ids
        /\ Foreign(d, id) => id \in contested'
    BY <1>1, Contesting
  <1>4. \A x \in Ids : lock'[x] = IF x = id THEN NoLock ELSE lock[x]
    BY <1>1, <1>2
  <1>5. LocksFair(d)
    BY <1>3, <1>4 DEF LocksFair
  <1> QED BY <1>1, <1>2, <1>3, <1>4, <1>5

\* A Deck that stays with its workspace keeps what it has of it.
LEMMA StillGuarded ==
  ASSUME Inv, NEW d \in Decks, phase' = phase, run' = run, currentId'[d] = currentId[d],
         contested \subseteq contested',
         \A id \in Ids \ contested' : Drives(d, id) =>
           lock'[id] = lock[id] /\ (Moving(d, id)' <=> Moving(d, id))
  PROVE  \A id \in Ids \ contested' : Drives(d, id)' =>
           /\ \A e \in Decks \ {d} : ~Drives(e, id)
           /\ IF Moving(d, id)' THEN ~OwnerSeen(lock[id], d)' ELSE Owns(d, id)'
  <1> SUFFICES ASSUME NEW id \in Ids \ contested', Drives(d, id)'
               PROVE  /\ \A e \in Decks \ {d} : ~Drives(e, id)
                      /\ IF Moving(d, id)' THEN ~OwnerSeen(lock[id], d)' ELSE Owns(d, id)'
    OBVIOUS
  <1>1. Drives(d, id)
    BY DEF Drives
  <1>2. \A e \in Decks \ {d} : ~Drives(e, id)
    BY <1>1 DEF Inv, OneDriverUnlessContested
  <1>3. IF Moving(d, id) THEN ~OwnerSeen(lock[id], d) ELSE Owns(d, id)
    BY <1>1 DEF Inv, Guarded
  <1>4. lock'[id] = lock[id] /\ (Moving(d, id)' <=> Moving(d, id))
    BY <1>1
  <1> QED BY <1>2, <1>3, <1>4 DEF OwnerSeen, Owns, OwnerAlive, Running

LEMMA NobodyRisesAlone ==
  ASSUME run' = run, \A e \in Decks : phase'[e] # "down" => phase[e] # "down"
  PROVE  NobodyRises
  BY DEF NobodyRises, OwnerAlive, Running, Lock

\* A Deck with nothing left to do is not moving, and one that begins anything but the rest
\* of a restore is not, either.
LEMMA Resting ==
  ASSUME Inv, NEW d \in Decks, NEW id \in Ids
  PROVE  /\ job[d] = <<>> => ~Moving(d, id)
         /\ job'[d] = <<>> \/ (job'[d] # <<>> /\ Head(job'[d]).op \notin {"release", "peek", "claim"})
              => ~Moving(d, id)'
  BY MovesHead DEF Moving

-----------------------------------------------------------------------------
(* Handlers *)

LEMMA ChangeKeepsInv ==
  ASSUME Inv, NEW d \in Decks, NEW set \in SUBSET Tiles, ChangeTiles(d, set)
  PROVE  Inv'
  <1> USE DEF Inv, history
  <1>1. /\ tiles' = [tiles EXCEPT ![d] = set]
        /\ autoSaveTimer' = [autoSaveTimer EXCEPT ![d] = autoSaveTimer[d] \/ set # {}]
        /\ swallowed' = IF set = {} THEN swallowed ELSE swallowed \ {d}
        /\ UNCHANGED <<ws, lock, minted, phase, run, currentId, job, reg, reused, troubles,
                       contested>>
    BY DEF ChangeTiles, Changed, files
  <1>2. TypeOK'
    <2>1. tiles' \in [Decks -> SUBSET Tiles] /\ autoSaveTimer' \in [Decks -> BOOLEAN]
      BY <1>1 DEF TypeOK
    <2> QED BY <1>1, <2>1 DEF TypeOK
  <1>3. IdsSound'
    BY <1>1 DEF IdsSound
  <1>4. Others(d) /\ LocksFair(d) /\ FilesFair(d)
    BY <1>1 DEF Others, LocksFair, FilesFair, TypeOK
  <1>5. NobodyRises /\ run[d] <= run'[d]
    BY <1>1, NobodyRisesAlone DEF TypeOK
  <1>6. JobSound(d)'
    BY <1>1 DEF JobSound, Moving, Removing, ReadOwn
  <1>7. \A id \in Ids \ contested' : Drives(d, id)' =>
           /\ \A e \in Decks \ {d} : ~Drives(e, id)
           /\ IF Moving(d, id)' THEN ~OwnerSeen(lock[id], d)' ELSE Owns(d, id)'
    BY <1>1, StillGuarded DEF Moving
  <1>8. Unsaved(d)' => autoSaveTimer'[d] \/ d \in swallowed'
    BY <1>1 DEF Unsaved, TypeOK
  <1> QED BY <1>1, <1>2, <1>3, <1>4, <1>5, <1>6, <1>7, <1>8, DeckKeepsInv

\* Save, Save As and the timer: in the current workspace, or in a new one that nobody
\* else can know.
LEMMA PersistKeepsInv ==
  ASSUME Inv, NEW d \in Decks, AutoSave(d) \/ UserSave(d, FALSE) \/ UserSave(d, TRUE)
  PROVE  Inv'
  <1> USE DEF Inv, history
  <1>1. PICK named \in BOOLEAN : Persist(d, named)
    BY DEF AutoSave, UserSave
  <1>2. /\ job[d] = <<>> /\ UNCHANGED <<phase, run, tiles, job, reg, reused, troubles>>
        /\ autoSaveTimer' \in [Decks -> BOOLEAN]
        /\ \A e \in Decks \ {d} : autoSaveTimer'[e] = autoSaveTimer[e]
    BY DEF AutoSave, TimerFires, UserSave, Idle, Ready, TypeOK
  <1>3. NobodyRises /\ run[d] <= run'[d]
    BY <1>2, NobodyRisesAlone DEF TypeOK
  <1>4. JobSound(d)'
    BY <1>2 DEF JobSound
  <1>5. CASE currentId[d] # NoId
    <2> DEFINE id == currentId[d]
    <2>1. id \in Ids /\ SaveFile(d, id, named) /\ UNCHANGED <<lock, minted, currentId>>
      BY <1>1, <1>5 DEF Persist, TypeOK
    <2>2. /\ contested \subseteq contested' /\ contested' \subseteq Ids
          /\ ws' \in [Ids -> File \cup {NoFile}] /\ FilesFair(d)
          /\ ws'[id] # NoFile /\ ws'[id].tiles = tiles[d]
          /\ \A x \in Ids \ {id} : ws'[x] = ws[x]
          /\ swallowed' = swallowed \ {d}
      BY <2>1, Saving
    <2>3. TypeOK'
      BY <1>2, <2>1, <2>2 DEF TypeOK
    <2>4. IdsSound'
      BY <1>2, <2>1, <2>2, Nulls DEF IdsSound
    <2>5. Others(d) /\ LocksFair(d)
      BY <1>2, <2>1, <2>2 DEF Others, LocksFair
    <2>6. \A x \in Ids \ contested' : Drives(d, x)' =>
             /\ \A e \in Decks \ {d} : ~Drives(e, x)
             /\ IF Moving(d, x)' THEN ~OwnerSeen(lock[x], d)' ELSE Owns(d, x)'
      BY <1>2, <2>1, <2>2, StillGuarded DEF Moving
    <2>7. Unsaved(d)' => autoSaveTimer'[d] \/ d \in swallowed'
      BY <1>2, <1>5, <2>1, <2>2 DEF Unsaved
    <2> QED BY <1>3, <1>4, <2>1, <2>2, <2>3, <2>4, <2>5, <2>6, <2>7, DeckKeepsInv
  <1>6. CASE currentId[d] = NoId
    <2>1. PICK id \in Ids \ minted :
            /\ minted' = minted \cup {id} /\ currentId' = [currentId EXCEPT ![d] = id]
            /\ lock' = [lock EXCEPT ![id] = Mine(d)] /\ SaveFile(d, id, named)
      BY <1>1, <1>6 DEF Persist
    <2>2. /\ contested \subseteq contested' /\ contested' \subseteq Ids
          /\ ws' \in [Ids -> File \cup {NoFile}] /\ FilesFair(d)
          /\ ws'[id] # NoFile /\ ws'[id].tiles = tiles[d]
          /\ \A x \in Ids \ {id} : ws'[x] = ws[x]
          /\ swallowed' = swallowed \ {d}
      BY <2>1, Saving
    <2>3. Mine(d) \in Lock /\ Mine(d).deck = d /\ Mine(d).run = run[d]
      BY DEF Mine, Lock, TypeOK
    <2>4. /\ currentId' \in [Decks -> Ids \cup {NoId}] /\ currentId'[d] = id
          /\ \A e \in Decks \ {d} : currentId'[e] = currentId[e]
          /\ lock' \in [Ids -> Lock \cup {NoLock}] /\ lock'[id] = Mine(d)
          /\ \A x \in Ids \ {id} : lock'[x] = lock[x]
      BY <2>1, <2>3 DEF TypeOK
    <2>5. minted' \subseteq Ids /\ minted \subseteq minted' /\ id \in minted'
      BY <2>1 DEF TypeOK
    <2>6. TypeOK'
      BY <1>2, <2>2, <2>4, <2>5 DEF TypeOK
    <2>7. IdsSound'
      <3>1. \A e \in Decks : currentId'[e] \in minted' \cup {NoId}
        BY <2>4, <2>5 DEF IdsSound
      <3>2. \A x \in Ids : ws'[x] # NoFile => x \in minted'
        BY <2>2, <2>5 DEF IdsSound
      <3>3. \A x \in Ids : lock'[x] # NoLock => lock'[x].run <= run'[lock'[x].deck]
        <4> SUFFICES ASSUME NEW x \in Ids, lock'[x] # NoLock
                     PROVE  lock'[x].run <= run[lock'[x].deck]
          BY <1>2
        <4>1. CASE x = id
          BY <2>3, <2>4, <4>1 DEF TypeOK
        <4>2. CASE x # id
          BY <2>4, <4>2 DEF IdsSound
        <4> QED BY <4>1, <4>2
      <3> QED BY <3>1, <3>2, <3>3 DEF IdsSound
    <2>8. \A e \in Decks : currentId[e] # id
      BY <2>1, Nulls DEF IdsSound
    <2>9. Others(d) /\ LocksFair(d)
      <3>1. \A e \in Decks : ~Drives(e, id)
        BY <2>8 DEF Drives
      <3> QED BY <1>2, <2>2, <2>4, <3>1 DEF Others, LocksFair
    <2>10. \A x \in Ids \ contested' : Drives(d, x)' =>
             /\ \A e \in Decks \ {d} : ~Drives(e, x)
             /\ IF Moving(d, x)' THEN ~OwnerSeen(lock[x], d)' ELSE Owns(d, x)'
      <3> SUFFICES ASSUME NEW x \in Ids \ contested', Drives(d, x)'
                   PROVE  /\ \A e \in Decks \ {d} : ~Drives(e, x)
                          /\ ~Moving(d, x)' /\ Owns(d, x)'
        OBVIOUS
      <3>1. x = id
        BY <2>4 DEF Drives
      <3>2. ~Moving(d, x)'
        BY <1>2, Resting
      <3>3. Mine(d) # NoLock
        BY <2>3, Nulls
      <3> QED BY <1>2, <2>3, <2>4, <2>8, <3>1, <3>2, <3>3 DEF Drives, Owns
    <2>11. Unsaved(d)' => autoSaveTimer'[d] \/ d \in swallowed'
      BY <1>2, <2>2, <2>4, Nulls DEF Unsaved
    <2> QED BY <1>3, <1>4, <2>2, <2>5, <2>6, <2>7, <2>9, <2>10, <2>11, DeckKeepsInv
  <1> QED BY <1>5, <1>6

\* A save that fails can leave the Deck with a new workspace, and that without its lock.
LEMMA FailingKeepsInv ==
  ASSUME Inv, NEW d \in Decks, AutoSaveFails(d) \/ UserSaveFails(d)
  PROVE  Inv'
  <1> USE DEF Inv, history
  <1>1. /\ PersistFails(d) /\ job[d] = <<>>
        /\ UNCHANGED <<ws, phase, run, tiles, job, reg, reused>>
        /\ troubles' \in 0 .. MaxTroubles
        /\ autoSaveTimer' \in [Decks -> BOOLEAN] /\ swallowed' \subseteq Decks
        /\ \A e \in Decks \ {d} : /\ autoSaveTimer'[e] = autoSaveTimer[e]
                                  /\ e \in swallowed' <=> e \in swallowed
        /\ autoSaveTimer[d] \/ d \in swallowed => autoSaveTimer'[d] \/ d \in swallowed'
    <2>1. MaxTroubles \in Nat
      BY WorkspacesAssumption
    <2>2. /\ PersistFails(d) /\ UNCHANGED <<ws, phase, run, tiles, job, reg, reused>>
          /\ troubles' \in 0 .. MaxTroubles
      BY <2>1 DEF AutoSaveFails, UserSaveFails, PersistFails, Trouble, TypeOK
    <2>3. CASE AutoSaveFails(d)
      <3>1. /\ job[d] = <<>> /\ autoSaveTimer' = [autoSaveTimer EXCEPT ![d] = FALSE]
            /\ swallowed' = swallowed \cup {d}
        BY <2>3 DEF AutoSaveFails, TimerFires
      <3>2. /\ autoSaveTimer' \in [Decks -> BOOLEAN] /\ swallowed' \subseteq Decks
            /\ d \in swallowed'
            /\ \A e \in Decks \ {d} : autoSaveTimer'[e] = autoSaveTimer[e]
            /\ \A e \in Decks \ {d} : e \in swallowed' <=> e \in swallowed
        BY <3>1 DEF TypeOK
      <3> QED BY <2>2, <3>1, <3>2
    <2>4. CASE UserSaveFails(d)
      BY <2>2, <2>4 DEF UserSaveFails, Idle, Ready, TypeOK
    <2> QED BY <2>3, <2>4
  <1>2. NobodyRises /\ run[d] <= run'[d]
    BY <1>1, NobodyRisesAlone DEF TypeOK
  <1>3. JobSound(d)'
    BY <1>1 DEF JobSound
  <1>4. CASE UNCHANGED <<lock, minted, currentId, contested>>
    <2>1. TypeOK'
      BY <1>1, <1>4 DEF TypeOK
    <2>2. IdsSound'
      BY <1>1, <1>4 DEF IdsSound
    <2>3. Others(d) /\ LocksFair(d) /\ FilesFair(d)
      BY <1>1, <1>4 DEF Others, LocksFair, FilesFair
    <2>4. \A x \in Ids \ contested' : Drives(d, x)' =>
             /\ \A e \in Decks \ {d} : ~Drives(e, x)
             /\ IF Moving(d, x)' THEN ~OwnerSeen(lock[x], d)' ELSE Owns(d, x)'
      BY <1>1, <1>4, StillGuarded DEF Moving
    <2>5. Unsaved(d)' => autoSaveTimer'[d] \/ d \in swallowed'
      BY <1>1, <1>4 DEF Unsaved, UnsavedWillBeSaved
    <2> QED BY <1>2, <1>3, <1>4, <2>1, <2>2, <2>3, <2>4, <2>5, DeckKeepsInv
  <1>5. ASSUME currentId[d] = NoId, NEW id \in Ids \ minted,
               minted' = minted \cup {id}, currentId' = [currentId EXCEPT ![d] = id],
               \/ lock' = [lock EXCEPT ![id] = Mine(d)] /\ contested' = contested
               \/ lock' = lock /\ contested' = contested \cup {id}
        PROVE  Inv'
    <2>1. Mine(d) \in Lock /\ Mine(d).deck = d /\ Mine(d).run = run[d] /\ Mine(d) # NoLock
      <3>1. Mine(d) \in Lock /\ Mine(d).deck = d /\ Mine(d).run = run[d]
        BY DEF Mine, Lock, TypeOK
      <3> QED BY <3>1, Nulls
    <2>2. /\ currentId' \in [Decks -> Ids \cup {NoId}] /\ currentId'[d] = id
          /\ \A e \in Decks \ {d} : currentId'[e] = currentId[e]
          /\ lock' \in [Ids -> Lock \cup {NoLock}]
          /\ lock'[id] = Mine(d) \/ (lock'[id] = lock[id] /\ id \in contested')
          /\ \A x \in Ids \ {id} : lock'[x] = lock[x]
      BY <1>5, <2>1 DEF TypeOK
    <2>3. /\ minted' \subseteq Ids /\ minted \subseteq minted' /\ id \in minted'
          /\ contested' \subseteq Ids /\ contested \subseteq contested'
      BY <1>5 DEF TypeOK
    <2>4. TypeOK'
      BY <1>1, <2>2, <2>3 DEF TypeOK
    <2>5. IdsSound'
      <3>1. \A e \in Decks : currentId'[e] \in minted' \cup {NoId}
        BY <2>2, <2>3 DEF IdsSound
      <3>2. \A x \in Ids : ws'[x] # NoFile => x \in minted'
        BY <1>1, <2>3 DEF IdsSound
      <3>3. ASSUME NEW x \in Ids, lock'[x] # NoLock
            PROVE  lock'[x].run <= run'[lock'[x].deck]
        <4>1. CASE lock'[x] = Mine(d)
          BY <1>1, <2>1, <4>1 DEF TypeOK
        <4>2. CASE lock'[x] = lock[x]
          BY <1>1, <3>3, <4>2 DEF IdsSound
        <4> QED BY <2>2, <4>1, <4>2
      <3> QED BY <3>1, <3>2, <3>3 DEF IdsSound
    <2>6. \A e \in Decks : currentId[e] # id
      BY <1>5, Nulls DEF IdsSound
    <2>7. Others(d) /\ LocksFair(d) /\ FilesFair(d)
      <3>1. \A e \in Decks : ~Drives(e, id)
        BY <2>6 DEF Drives
      <3> QED BY <1>1, <2>2, <3>1 DEF Others, LocksFair, FilesFair
    <2>8. \A x \in Ids \ contested' : Drives(d, x)' =>
             /\ \A e \in Decks \ {d} : ~Drives(e, x)
             /\ IF Moving(d, x)' THEN ~OwnerSeen(lock[x], d)' ELSE Owns(d, x)'
      <3> SUFFICES ASSUME NEW x \in Ids \ contested', Drives(d, x)'
                   PROVE  /\ \A e \in Decks \ {d} : ~Drives(e, x)
                          /\ ~Moving(d, x)' /\ Owns(d, x)'
        OBVIOUS
      <3>1. x = id
        BY <2>2 DEF Drives
      <3>2. ~Moving(d, x)'
        BY <1>1, Resting
      <3> QED BY <1>1, <2>1, <2>2, <2>6, <3>1, <3>2 DEF Drives, Owns
    <2>9. Unsaved(d)' => autoSaveTimer'[d] \/ d \in swallowed'
      <3>1. NoId \notin contested
        BY Nulls DEF TypeOK
      <3>2. Unsaved(d)' => Unsaved(d)
        BY <1>1, <1>5, <3>1 DEF Unsaved
      <3> QED BY <1>1, <3>2 DEF UnsavedWillBeSaved
    <2> QED BY <1>2, <1>3, <2>3, <2>4, <2>5, <2>7, <2>8, <2>9, DeckKeepsInv
  <1> QED BY <1>1, <1>4, <1>5 DEF PersistFails

\* What has to be shown of the beginning of a handler that saves first.
LEMMA SavedFirst ==
  ASSUME Inv, NEW d \in Decks, currentId[d] # NoId, SaveFile(d, currentId[d], FALSE),
         job[d] = <<>>, NEW op \in {"detach", "close", "quit"},
         job' = [job EXCEPT ![d] = <<Do(op, currentId[d])>>],
         phase[d] = "up" \/ (op = "quit" /\ phase[d] = "closing"),
         UNCHANGED <<lock, minted, phase, run, currentId, tiles, autoSaveTimer, reg, reused,
                     troubles>>
  PROVE  Inv'
  <1> USE DEF Inv, history
  <1> DEFINE id == currentId[d]
  <1>1. id \in Ids
    BY DEF TypeOK
  <1>2. /\ contested \subseteq contested' /\ contested' \subseteq Ids
        /\ ws' \in [Ids -> File \cup {NoFile}] /\ FilesFair(d)
        /\ ws'[id] # NoFile /\ ws'[id].tiles = tiles[d]
        /\ \A x \in Ids \ {id} : ws'[x] = ws[x]
        /\ swallowed' = swallowed \ {d}
    BY <1>1, Saving
  <1>3. op \in Ops /\ Do(op, id) \in Step
    BY <1>1, DoType DEF Ops
  <1>4. job' \in [Decks -> Seq(Step)] /\ job'[d] = <<Do(op, id)>>
        /\ \A e \in Decks \ {d} : job'[e] = job[e]
    BY <1>3, Short DEF TypeOK, Step
  <1>5. TypeOK'
    BY <1>2, <1>4 DEF TypeOK, Step
  <1>6. IdsSound'
    BY <1>1, <1>2 DEF IdsSound
  <1>7. Others(d) /\ LocksFair(d)
    BY <1>2, <1>4 DEF Others, LocksFair
  <1>8. NobodyRises /\ run[d] <= run'[d]
    BY NobodyRisesAlone DEF TypeOK
  <1>9. JobSound(d)'
    BY <1>4 DEF JobSound
  <1>10. \A x \in Ids \ contested' : Drives(d, x)' =>
           /\ \A e \in Decks \ {d} : ~Drives(e, x)
           /\ IF Moving(d, x)' THEN ~OwnerSeen(lock[x], d)' ELSE Owns(d, x)'
    <2>1. job'[d] # <<>> /\ Head(job'[d]).op \notin {"release", "peek", "claim"}
      BY <1>4 DEF Do
    <2>2. \A x \in Ids : ~Moving(d, x) /\ ~Moving(d, x)'
      BY <2>1, Resting
    <2> QED BY <1>2, <2>2, StillGuarded
  <1>11. Unsaved(d)' => autoSaveTimer'[d] \/ d \in swallowed'
    BY <1>2 DEF Unsaved
  <1> QED BY <1>2, <1>5, <1>6, <1>7, <1>8, <1>9, <1>10, <1>11, DeckKeepsInv

\* What has to be shown of a step that only moves a Deck on.
LEMMA QuietKeepsInv ==
  ASSUME Inv, NEW d \in Decks,
         UNCHANGED <<files, phase, run, currentId, tiles, autoSaveTimer, reused, swallowed>>,
         troubles' \in 0 .. MaxTroubles,
         contested \subseteq contested', contested' \subseteq Ids,
         NEW left \in Seq(Step), job' = [job EXCEPT ![d] = left],
         NEW x \in File \cup Lock \cup {NoFile}, reg' = [reg EXCEPT ![d] = x],
         job'[d] = left /\ reg'[d] = x => JobSound(d)',
         \A id \in Ids \ contested' : Drives(d, id) => (Moves(left, id) <=> Moving(d, id))
  PROVE  Inv'
  <1> USE DEF Inv, files, history
  <1>1. /\ job' \in [Decks -> Seq(Step)] /\ job'[d] = left
        /\ reg' \in [Decks -> File \cup Lock \cup {NoFile}] /\ reg'[d] = x
        /\ \A e \in Decks \ {d} : job'[e] = job[e] /\ reg'[e] = reg[e]
    BY DEF TypeOK, Step
  <1>2. TypeOK'
    BY <1>1 DEF TypeOK, Step
  <1>3. IdsSound'
    BY DEF IdsSound
  <1>4. Others(d) /\ LocksFair(d) /\ FilesFair(d)
    BY <1>1 DEF Others, LocksFair, FilesFair
  <1>5. NobodyRises /\ run[d] <= run'[d]
    BY NobodyRisesAlone DEF TypeOK
  <1>6. JobSound(d)'
    BY <1>1
  <1>7. \A id \in Ids \ contested' : Drives(d, id)' =>
           /\ \A e \in Decks \ {d} : ~Drives(e, id)
           /\ IF Moving(d, id)' THEN ~OwnerSeen(lock[id], d)' ELSE Owns(d, id)'
    <2>1. \A id \in Ids \ contested' : Drives(d, id) => (Moving(d, id)' <=> Moving(d, id))
      BY <1>1 DEF Moving
    <2> QED BY <2>1, StillGuarded
  <1>8. Unsaved(d)' => autoSaveTimer'[d] \/ d \in swallowed'
    BY DEF Unsaved, UnsavedWillBeSaved
  <1> QED BY <1>2, <1>3, <1>4, <1>5, <1>6, <1>7, <1>8, DeckKeepsInv

\* The first step of a handler that reads, up to the second.
LEMMA BeginKeepsInv ==
  ASSUME Inv, NEW d \in Decks, NEW id \in Ids, Restore(d, id) \/ Delete(d, id) \/ Prune(d, id)
  PROVE  Inv'
  <1> USE DEF Inv, history
  <1>1. /\ job[d] = <<>> /\ phase[d] = "up" /\ ws[id] # NoFile
        /\ UNCHANGED <<files, phase, run, currentId, tiles, autoSaveTimer, reused, troubles,
                       history>>
        /\ troubles' \in 0 .. MaxTroubles
    BY DEF Restore, Delete, Prune, Idle, Ready, TypeOK
  <1>2. contested \subseteq contested' /\ contested' \subseteq Ids
    BY <1>1 DEF TypeOK
  <1>3. id \in minted /\ ws[id] \in File /\ reg[d] \in File \cup Lock \cup {NoFile}
    BY <1>1 DEF IdsSound, TypeOK
  <1>4. \A op \in Ops : Do(op, id) \in Step
    BY DoType
  <1> DEFINE begins(left) == left # <<>> /\ Head(left).op \notin {"release", "peek", "claim"}
  <1>5. \A left : begins(left) => \A y \in Ids : Moves(left, y) <=> Moving(d, y)
    BY <1>1, MovesHead, Resting
  <1>6. CASE Restore(d, id)
    <2> DEFINE left == <<Do("check", id)>>
    <2>1. job' = [job EXCEPT ![d] = left] /\ reg' = [reg EXCEPT ![d] = ws[id]]
      BY <1>6 DEF Restore, Start, Remember
    <2>2. left \in Seq(Step) /\ begins(left)
      BY <1>4 DEF Ops, Do
    <2>3. job'[d] = left /\ reg'[d] = ws[id] => JobSound(d)'
      BY <1>1, <1>3 DEF JobSound, files
    <2> HIDE DEF left, begins
    <2> QED BY <1>1, <1>2, <1>3, <1>5, <2>1, <2>2, <2>3, QuietKeepsInv
  <1>7. CASE Delete(d, id)
    <2> DEFINE left == <<Do("rmFile", id), Do("rmLock", id)>>
    <2>1. job' = [job EXCEPT ![d] = left] /\ reg' = [reg EXCEPT ![d] = reg[d]] /\ id # currentId[d]
      BY <1>7 DEF Delete, Start, TypeOK
    <2>2. left \in Seq(Step) /\ begins(left)
      BY <1>4 DEF Ops, Do
    <2>3. job'[d] = left /\ reg'[d] = reg[d] => JobSound(d)'
      BY <1>1, <2>1 DEF JobSound, Removing
    <2> HIDE DEF left, begins
    <2> QED BY <1>1, <1>2, <1>3, <1>5, <2>1, <2>2, <2>3, QuietKeepsInv
  <1>8. CASE Prune(d, id)
    <2> DEFINE left == <<Do("probe", id), Do("prune", id), Do("rmLock", id)>>
    <2>1. job' = [job EXCEPT ![d] = left] /\ reg' = [reg EXCEPT ![d] = reg[d]] /\ id # currentId[d]
      BY <1>8 DEF Prune, Start, TypeOK
    <2>2. left \in Seq(Step) /\ begins(left)
      BY <1>4 DEF Ops, Do
    <2>3. job'[d] = left /\ reg'[d] = reg[d] => JobSound(d)'
      BY <1>1, <2>1 DEF JobSound, Removing
    <2> HIDE DEF left, begins
    <2> QED BY <1>1, <1>2, <1>3, <1>5, <2>1, <2>2, <2>3, QuietKeepsInv
  <1> QED BY <1>6, <1>7, <1>8

LEMMA HeartbeatKeepsInv ==
  ASSUME Inv, NEW d \in Decks, Heartbeat(d)
  PROVE  Inv'
  <1> USE DEF Inv, history
  <1> DEFINE id == currentId[d]
             left == <<Do("beat", id)>>
  <1>1. /\ job[d] = <<>> /\ phase[d] = "up" /\ id # NoId /\ lock[id] # NoLock
        /\ job' = [job EXCEPT ![d] = left] /\ reg' = [reg EXCEPT ![d] = lock[id]]
        /\ UNCHANGED <<files, phase, run, currentId, tiles, autoSaveTimer, reused, troubles,
                       history>>
        /\ troubles' \in 0 .. MaxTroubles
    BY DEF Heartbeat, Idle, Ready, Start, Remember, TypeOK
  <1>2. id \in Ids /\ lock[id] \in Lock /\ contested \subseteq contested' /\ contested' \subseteq Ids
    BY <1>1 DEF TypeOK
  <1>3. left \in Seq(Step) /\ left # <<>> /\ Head(left).op = "beat"
    BY <1>2, DoType DEF Ops, Do
  <1>4. \A y \in Ids : Moves(left, y) <=> Moving(d, y)
    BY <1>1, <1>3, MovesHead, Resting
  <1>5. lock[id].run <= run[lock[id].deck]
    BY <1>1, <1>2 DEF IdsSound
  <1>6. id \notin contested => lock[id].deck = d /\ lock[id].run = run[d]
    <2>1. ~Moving(d, id) /\ Drives(d, id)
      BY <1>1, <1>2, Resting DEF Drives
    <2> QED BY <1>2, <2>1 DEF Guarded, Owns
  <1>7. job'[d] = left /\ reg'[d] = lock[id] => JobSound(d)'
    <2>1. reg'[d] = lock[id] => ReadOwn(d, id)'
      BY <1>1, <1>2, <1>5, <1>6 DEF ReadOwn
    <2> QED BY <1>1, <2>1 DEF JobSound
  <1> HIDE DEF left
  <1> QED BY <1>1, <1>2, <1>3, <1>4, <1>7, QuietKeepsInv

\* New, closing the window and quitting save first, if there is a workspace.
LEMMA FarewellKeepsInv ==
  ASSUME Inv, NEW d \in Decks, NewClear(d) \/ CloseWindow(d) \/ BeforeQuit(d)
  PROVE  Inv'
  <1> USE DEF Inv, history
  <1>1. CASE currentId[d] # NoId
    <2>1. PICK op \in {"detach", "close", "quit"} :
            /\ SaveFile(d, currentId[d], FALSE) /\ job[d] = <<>>
            /\ job' = [job EXCEPT ![d] = <<Do(op, currentId[d])>>]
            /\ phase[d] = "up" \/ (op = "quit" /\ phase[d] = "closing")
            /\ UNCHANGED <<lock, minted, phase, run, currentId, tiles, autoSaveTimer, reg, reused,
                       troubles>>
      <3>1. CASE NewClear(d)
        BY <1>1, <3>1 DEF NewClear, Idle, Ready, Start
      <3>2. CASE CloseWindow(d)
        BY <1>1, <3>2 DEF CloseWindow, Leave, Ready, Start
      <3>3. CASE BeforeQuit(d)
        BY <1>1, <3>3 DEF BeforeQuit, Leave, Ready, Start
      <3> QED BY <3>1, <3>2, <3>3
    <2> QED BY <1>1, <2>1, SavedFirst
  <1>2. CASE currentId[d] = NoId
    <2>1. /\ job[d] = <<>>
          /\ UNCHANGED <<ws, lock, minted, run, currentId, autoSaveTimer, job, reg, reused,
                         troubles, history>>
          /\ \A e \in Decks \ {d} : phase'[e] = phase[e] /\ tiles'[e] = tiles[e]
          /\ phase' \in [Decks -> {"down", "up", "closing", "ending"}]
          /\ tiles' \in [Decks -> SUBSET Tiles]
          /\ tiles'[d] = {} \/ phase'[d] # "up"
          /\ phase'[d] # "down" => phase[d] # "down"
      <3>1. CASE NewClear(d)
        BY <1>2, <3>1 DEF NewClear, Idle, Ready, TypeOK
      <3>2. CASE CloseWindow(d)
        BY <1>2, <3>2 DEF CloseWindow, Leave, Ready, TypeOK
      <3>3. CASE BeforeQuit(d)
        BY <1>2, <3>3 DEF BeforeQuit, Leave, Ready, TypeOK
      <3> QED BY <3>1, <3>2, <3>3
    <2>2. TypeOK'
      BY <2>1 DEF TypeOK
    <2>3. IdsSound'
      BY <2>1 DEF IdsSound
    <2>4. Others(d) /\ LocksFair(d) /\ FilesFair(d)
      BY <2>1 DEF Others, LocksFair, FilesFair
    <2>5. NobodyRises /\ run[d] <= run'[d]
      <3>1. \A e \in Decks : phase'[e] # "down" => phase[e] # "down"
        BY <2>1
      <3> QED BY <2>1, <3>1, NobodyRisesAlone DEF TypeOK
    <2>6. JobSound(d)'
      BY <2>1 DEF JobSound
    <2>7. \A id \in Ids : ~Drives(d, id)'
      BY <1>2, <2>1, Nulls DEF Drives
    <2>8. ~Unsaved(d)'
      BY <2>1 DEF Unsaved
    <2>9. minted \subseteq minted' /\ contested \subseteq contested'
      BY <2>1
    <2> QED BY <2>2, <2>3, <2>4, <2>5, <2>6, <2>7, <2>8, <2>9, DeckKeepsInv
  <1> QED BY <1>1, <1>2

-----------------------------------------------------------------------------
(* File operations *)

\* Operations that only look: at the lock to be taken, and at that of a file to be pruned.
LEMMA LookKeepsInv ==
  ASSUME Inv, NEW d \in Decks, NEW id \in Ids, Peek(d, id) \/ Probe(d, id)
  PROVE  Inv'
  <1> USE DEF Inv, history
  <1> DEFINE rest == Tail(job[d])
  <1>1. /\ UNCHANGED <<files, phase, run, currentId, tiles, autoSaveTimer, reg, reused,
                       troubles, swallowed>>
        /\ troubles' \in 0 .. MaxTroubles
        /\ reg' = [reg EXCEPT ![d] = reg[d]] /\ reg[d] \in File \cup Lock \cup {NoFile}
    BY DEF Peek, Probe, TypeOK
  <1>2. \A op \in Ops : Do(op, id) \in Step
    BY DoType
  <1>3. CASE Peek(d, id)
    <2>1. At(d, "peek", id) /\ "peek" \in Ops
      BY <1>3 DEF Peek, Ops
    <2>2. /\ phase[d] = "up" /\ id = currentId[d] /\ rest = <<Do("claim", id), Do("save", id)>>
          /\ Moving(d, id)
      BY <2>1, Pending DEF Moving
    <2>3. CASE LockLive(lock[id], d)
      <3> DEFINE left == <<Do("save", id)>>
      <3>1. job' = [job EXCEPT ![d] = left] /\ Contest(id, Haunted(d, id))
        BY <1>3, <2>3 DEF Peek, Start
      <3>2. /\ contested \subseteq contested' /\ contested' \subseteq Ids
            /\ Haunted(d, id) => id \in contested'
        BY <3>1, Contesting
      <3>7. id \in contested'
        <4>1. id \notin contested => ~OwnerSeen(lock[id], d)
          BY <2>2 DEF Guarded, Drives
        <4>2. ~OwnerSeen(lock[id], d) => Haunted(d, id)
          BY <2>3 DEF OwnerSeen, LockLive, Haunted
        <4> QED BY <3>2, <4>1, <4>2
      <3>3. left \in Seq(Step)
        BY <1>2 DEF Ops
      <3>4. job'[d] = left /\ reg'[d] = reg[d] => JobSound(d)'
        BY <1>1, <2>2, Nulls DEF JobSound
      <3>5. \A y \in Ids \ contested' : ~Drives(d, y)
        BY <2>2, <3>7 DEF Drives
      <3> HIDE DEF left
      <3> QED BY <1>1, <3>1, <3>2, <3>3, <3>4, <3>5, QuietKeepsInv
    <2>4. CASE ~LockLive(lock[id], d)
      <3> DEFINE left == <<Do("claim", id), Do("save", id)>>
      <3>1. job' = [job EXCEPT ![d] = left] /\ Contest(id, Late(d, id))
        BY <1>3, <2>2, <2>4 DEF Peek, Continue
      <3>2. contested \subseteq contested' /\ contested' \subseteq Ids
        BY <3>1, Contesting
      <3>3. left \in Seq(Step)
        BY <1>2 DEF Ops
      <3>4. Moves(left, id)
        BY DEF Moves
      <3>5. job'[d] = left /\ reg'[d] = reg[d] => JobSound(d)'
        <4>1. job'[d] = left => Moving(d, id)'
          BY <3>4 DEF Moving
        <4> QED BY <1>1, <2>2, <4>1, Nulls DEF JobSound
      <3>6. \A y \in Ids \ contested' : Drives(d, y) => (Moves(left, y) <=> Moving(d, y))
        BY <2>2, <3>4 DEF Drives
      <3> HIDE DEF left
      <3> QED BY <1>1, <3>1, <3>2, <3>3, <3>5, <3>6, QuietKeepsInv
    <2> QED BY <2>3, <2>4
  <1>4. CASE Probe(d, id)
    <2>1. At(d, "probe", id) /\ "probe" \in Ops
      BY <1>4 DEF Probe, Ops
    <2>2. phase[d] = "up" /\ id # currentId[d] /\ rest = <<Do("prune", id), Do("rmLock", id)>>
      BY <2>1, Pending
    <2>3. \A y \in Ids : ~Moving(d, y)
      BY <2>1, MovesHead DEF Moving, At, Do
    <2> DEFINE left == IF LockLive(lock[id], d) THEN <<>> ELSE rest
    <2>4. job' = [job EXCEPT ![d] = left]
      BY <1>4 DEF Probe, GiveUp, Continue
    <2>5. contested \subseteq contested' /\ contested' \subseteq Ids
      BY <1>4, Contesting DEF Probe, TypeOK
    <2>6. left \in Seq(Step)
      <3>1. <<Do("prune", id), Do("rmLock", id)>> \in Seq(Step) /\ <<>> \in Seq(Step)
        BY <1>2 DEF Ops
      <3> QED BY <2>2, <3>1
    <2>7. \A y \in Ids : ~Moves(left, y)
      BY <2>2, MovesHead DEF Do
    <2>8. job'[d] = left /\ reg'[d] = reg[d] => JobSound(d)'
      BY <1>1, <2>2 DEF JobSound, Removing
    <2> HIDE DEF left
    <2> QED BY <1>1, <2>3, <2>4, <2>5, <2>6, <2>7, <2>8, QuietKeepsInv
  <1> QED BY <1>3, <1>4

\* Whoever finds a workspace free makes it his own, unless another Deck drives it and that
\* is noticed; its lock stays free for him until he takes it.
LEMMA CheckKeepsInv ==
  ASSUME Inv, NEW d \in Decks, NEW id \in Ids, Check(d, id)
  PROVE  Inv'
  <1> USE DEF Inv, history
  <1> DEFINE cur == currentId[d]
  <1>1. At(d, "check", id) /\ "check" \in Ops
    BY DEF Check, Ops
  <1>2. phase[d] = "up" /\ reg[d] \in File /\ id \in minted
    BY <1>1, Pending
  <1>3. /\ UNCHANGED <<files, phase, run, reused, troubles>> /\ troubles' \in 0 .. MaxTroubles
        /\ reg' = [reg EXCEPT ![d] = NoFile]
    BY DEF Check, Remember, TypeOK
  <1>4. \A y \in Ids : ~Moving(d, y)
    BY <1>1, MovesHead DEF Moving, At, Do
  <1>5. CASE LockLive(lock[id], d)
    <2>1. job' = [job EXCEPT ![d] = <<>>] /\ UNCHANGED <<currentId, tiles, autoSaveTimer, history>>
      BY <1>5 DEF Check, GiveUp
    <2>2. \A y \in Ids : ~Moves(<<>>, y)
      BY MovesHead
    <2>3. job'[d] = <<>> => JobSound(d)'
      BY DEF JobSound
    <2>4. <<>> \in Seq(Step) /\ contested \subseteq contested' /\ contested' \subseteq Ids
      BY <2>1 DEF TypeOK
    <2> QED BY <1>3, <1>4, <2>1, <2>2, <2>3, <2>4, QuietKeepsInv
  <1>6. CASE ~LockLive(lock[id], d)
    <2> DEFINE left == Move(cur, id)
               set == reg[d].tiles
    <2>1. /\ job' = [job EXCEPT ![d] = left] /\ currentId' = [currentId EXCEPT ![d] = id]
          /\ tiles' = [tiles EXCEPT ![d] = set]
          /\ autoSaveTimer' = [autoSaveTimer EXCEPT ![d] = autoSaveTimer[d] \/ set # {}]
          /\ swallowed' = IF set = {} THEN swallowed ELSE swallowed \ {d}
          /\ Contest(id, InBetween(d, id) \/ Late(d, id))
      BY <1>6 DEF Check, Start, Changed
    <2>2. /\ contested \subseteq contested' /\ contested' \subseteq Ids
          /\ InBetween(d, id) \/ Late(d, id) => id \in contested'
      BY <2>1, Contesting
    <2>3. cur \in Ids \cup {NoId} /\ cur \in minted \cup {NoId}
      BY DEF TypeOK, IdsSound
    <2>4. Moves(left, id)
      BY <2>3 DEF Move, Moves
    <2>5. left \in Seq(Step)
      <3>1. /\ Do("peek", id) \in Step /\ Do("claim", id) \in Step /\ Do("save", id) \in Step
            /\ cur \in Ids => Do("release", cur) \in Step
        BY DoType DEF Ops
      <3> QED BY <2>3, <3>1 DEF Move, Own
    <2>6. set \in SUBSET Tiles
      BY <1>2 DEF File
    <2> HIDE DEF left, set
    <2>7. /\ job' \in [Decks -> Seq(Step)] /\ job'[d] = left
          /\ currentId' \in [Decks -> Ids \cup {NoId}] /\ currentId'[d] = id
          /\ tiles' \in [Decks -> SUBSET Tiles] /\ tiles'[d] = set
          /\ autoSaveTimer' \in [Decks -> BOOLEAN] /\ autoSaveTimer'[d] = (autoSaveTimer[d] \/ set # {})
          /\ reg' \in [Decks -> File \cup Lock \cup {NoFile}]
          /\ swallowed' \subseteq Decks
      BY <1>3, <2>1, <2>5, <2>6 DEF TypeOK, Step
    <2>8. TypeOK'
      BY <1>3, <2>2, <2>7 DEF TypeOK, Step, files
    <2>9. IdsSound'
      BY <1>2, <1>3, <2>1 DEF IdsSound, files, TypeOK
    <2>10. Others(d) /\ LocksFair(d) /\ FilesFair(d)
      BY <1>3, <2>1 DEF Others, LocksFair, FilesFair, TypeOK, files
    <2>11. NobodyRises /\ run[d] <= run'[d]
      BY <1>3, NobodyRisesAlone DEF TypeOK
    <2>12. JobSound(d)'
      BY <1>2, <1>3, <2>4, <2>7, Nulls DEF JobSound, Moving
    <2>13. \A y \in Ids \ contested' : Drives(d, y)' =>
             /\ \A e \in Decks \ {d} : ~Drives(e, y)
             /\ IF Moving(d, y)' THEN ~OwnerSeen(lock[y], d)' ELSE Owns(d, y)'
      <3> SUFFICES ASSUME NEW y \in Ids \ contested', Drives(d, y)'
                   PROVE  /\ \A e \in Decks \ {d} : ~Drives(e, y)
                          /\ Moving(d, y)' /\ ~OwnerSeen(lock[y], d)'
        OBVIOUS
      <3>1. y = id
        BY <2>7 DEF Drives
      <3>2. \A e \in Decks \ {d} : ~Drives(e, id)
        BY <1>6, <2>2, <3>1, DriverShows
      <3>3. ~OwnerSeen(lock[id], d)'
        BY <1>3, <1>6, SeenIsLive DEF OwnerSeen, OwnerAlive, Running, files
      <3> QED BY <2>4, <2>7, <3>1, <3>2, <3>3 DEF Moving
    <2>14. Unsaved(d)' => autoSaveTimer'[d] \/ d \in swallowed'
      BY <2>7 DEF Unsaved
    <2>15. minted \subseteq minted'
      BY <1>3 DEF files
    <2> QED BY <2>2, <2>8, <2>9, <2>10, <2>11, <2>12, <2>13, <2>14, <2>15, DeckKeepsInv
  <1> QED BY <1>5, <1>6

LEMMA ClaimKeepsInv ==
  ASSUME Inv, NEW d \in Decks, NEW id \in Ids, Claim(d, id)
  PROVE  Inv'
  <1> USE DEF Inv, history
  <1> DEFINE left == <<Do("save", id)>>
  <1>1. At(d, "claim", id) /\ "claim" \in Ops
    BY DEF Claim, Ops
  <1>2. phase[d] = "up" /\ id = currentId[d] /\ Tail(job[d]) = left
    BY <1>1, Pending
  <1>3. /\ lock' = [lock EXCEPT ![id] = Mine(d)] /\ job' = [job EXCEPT ![d] = left]
        /\ UNCHANGED <<ws, minted, phase, run, currentId, tiles, autoSaveTimer, reg,
                       reused, troubles, history>>
    BY <1>2 DEF Claim, Continue
  <1>4. Mine(d) \in Lock /\ Mine(d).deck = d /\ Mine(d).run = run[d]
    BY DEF Mine, Lock, TypeOK
  <1>5. left \in Seq(Step) /\ \A y \in Ids : ~Moves(left, y)
    BY DoType, MovesHead DEF Ops, Do
  <1>6. /\ lock' \in [Ids -> Lock \cup {NoLock}] /\ lock'[id] = Mine(d)
        /\ \A y \in Ids \ {id} : lock'[y] = lock[y]
    BY <1>3, <1>4 DEF TypeOK
  <1>7. job' \in [Decks -> Seq(Step)] /\ job'[d] = left /\ \A e \in Decks \ {d} : job'[e] = job[e]
    BY <1>3, <1>5 DEF TypeOK, Step
  <1>8. TypeOK'
    BY <1>3, <1>6, <1>7 DEF TypeOK, Step
  <1>9. IdsSound'
    <2>1. \A y \in Ids : lock'[y] # NoLock => lock'[y].run <= run[lock'[y].deck]
      <3> SUFFICES ASSUME NEW y \in Ids, lock'[y] # NoLock
                   PROVE  lock'[y].run <= run[lock'[y].deck]
        OBVIOUS
      <3>1. CASE y = id
        BY <1>4, <1>6, <3>1 DEF TypeOK
      <3>2. CASE y # id
        BY <1>6, <3>2 DEF IdsSound
      <3> QED BY <3>1, <3>2
    <2> QED BY <1>3, <2>1 DEF IdsSound
  <1>10. id \in contested' \/ \A e \in Decks \ {d} : ~Drives(e, id)
    BY <1>2, <1>3 DEF OneDriverUnlessContested, Drives
  <1>11. Others(d) /\ LocksFair(d) /\ FilesFair(d)
    BY <1>3, <1>6, <1>7, <1>10 DEF Others, LocksFair, FilesFair
  <1>12. NobodyRises /\ run[d] <= run'[d]
    BY <1>3, NobodyRisesAlone DEF TypeOK
  <1>13. JobSound(d)'
    BY <1>2, <1>3, <1>7, Nulls DEF JobSound
  <1>14. \A y \in Ids \ contested' : Drives(d, y)' =>
           /\ \A e \in Decks \ {d} : ~Drives(e, y)
           /\ IF Moving(d, y)' THEN ~OwnerSeen(lock[y], d)' ELSE Owns(d, y)'
    <2> SUFFICES ASSUME NEW y \in Ids \ contested', Drives(d, y)'
                 PROVE  /\ \A e \in Decks \ {d} : ~Drives(e, y)
                        /\ ~Moving(d, y)' /\ Owns(d, y)'
      OBVIOUS
    <2>1. y = id
      BY <1>2, <1>3 DEF Drives
    <2> QED BY <1>3, <1>4, <1>5, <1>6, <1>7, <1>10, <2>1, Nulls DEF Moving, Owns
  <1>15. Unsaved(d)' => autoSaveTimer'[d] \/ d \in swallowed'
    BY <1>3 DEF Unsaved, UnsavedWillBeSaved
  <1>16. minted \subseteq minted' /\ contested \subseteq contested'
    BY <1>3
  <1> QED BY <1>8, <1>9, <1>11, <1>12, <1>13, <1>14, <1>15, <1>16, DeckKeepsInv

LEMMA WriteKeepsInv ==
  ASSUME Inv, NEW d \in Decks, NEW id \in Ids, Write(d, id)
  PROVE  Inv'
  <1> USE DEF Inv, history
  <1>1. At(d, "save", id) /\ "save" \in Ops
    BY DEF Write, Ops
  <1>2. phase[d] = "up" /\ id = currentId[d] /\ Tail(job[d]) = <<>>
    BY <1>1, Pending
  <1>3. /\ SaveFile(d, id, FALSE) /\ job' = [job EXCEPT ![d] = <<>>]
        /\ UNCHANGED <<lock, minted, phase, run, currentId, tiles, autoSaveTimer, reg, reused,
                       troubles>>
    BY <1>2 DEF Write, Continue
  <1>4. /\ contested \subseteq contested' /\ contested' \subseteq Ids
        /\ ws' \in [Ids -> File \cup {NoFile}] /\ FilesFair(d)
        /\ ws'[id] # NoFile /\ ws'[id].tiles = tiles[d]
        /\ \A x \in Ids \ {id} : ws'[x] = ws[x]
        /\ swallowed' = swallowed \ {d}
    BY <1>3, Saving
  <1>5. \A y \in Ids : ~Moving(d, y) /\ ~Moves(<<>>, y)
    BY <1>1, MovesHead DEF Moving, At, Do
  <1>6. job' \in [Decks -> Seq(Step)] /\ job'[d] = <<>> /\ \A e \in Decks \ {d} : job'[e] = job[e]
    <2>1. <<>> \in Seq(Step)
      OBVIOUS
    <2> QED BY <1>3, <2>1 DEF TypeOK, Step
  <1>7. TypeOK'
    BY <1>3, <1>4, <1>6 DEF TypeOK, Step
  <1>8. IdsSound'
    BY <1>2, <1>3, <1>4, Nulls DEF IdsSound
  <1>9. Others(d) /\ LocksFair(d)
    BY <1>3, <1>4, <1>6 DEF Others, LocksFair
  <1>10. NobodyRises /\ run[d] <= run'[d]
    BY <1>3, NobodyRisesAlone DEF TypeOK
  <1>11. JobSound(d)'
    BY <1>6 DEF JobSound
  <1>12. \A y \in Ids \ contested' : Drives(d, y)' =>
           /\ \A e \in Decks \ {d} : ~Drives(e, y)
           /\ IF Moving(d, y)' THEN ~OwnerSeen(lock[y], d)' ELSE Owns(d, y)'
    <2>1. \A y \in Ids : Moving(d, y)' <=> Moving(d, y)
      BY <1>5, <1>6 DEF Moving
    <2> QED BY <1>3, <1>4, <2>1, StillGuarded
  <1>13. Unsaved(d)' => autoSaveTimer'[d] \/ d \in swallowed'
    <2>1. currentId'[d] = id /\ tiles'[d] = tiles[d] /\ id # NoId
      BY <1>2, <1>3, Nulls
    <2> QED BY <1>4, <2>1 DEF Unsaved
  <1> QED BY <1>3, <1>4, <1>7, <1>8, <1>9, <1>10, <1>11, <1>12, <1>13, DeckKeepsInv

\* The release of the lock of a workspace a Deck does not drive: that it has left for
\* another one, or that it has removed.
LEMMA UnlockKeepsInv ==
  ASSUME Inv, NEW d \in Decks, NEW id \in Ids, Release(d, id) \/ RmLock(d, id)
  PROVE  Inv'
  <1> USE DEF Inv, history
  <1> DEFINE cur == currentId[d]
             left == Tail(job[d])
  <1>1. /\ Released(d, id)
        /\ UNCHANGED <<ws, minted, phase, run, currentId, tiles, autoSaveTimer, reg, reused,
                       troubles, swallowed>>
    BY DEF Release, RmLock
  <1>2. /\ contested \subseteq contested' /\ contested' \subseteq Ids
        /\ lock' \in [Ids -> Lock \cup {NoLock}] /\ LocksFair(d)
        /\ job' = [job EXCEPT ![d] = left]
        /\ \A x \in Ids : lock'[x] = IF x = id THEN NoLock ELSE lock[x]
    BY <1>1, Releasing
  <1>3. /\ phase[d] = "up" /\ id # cur
        /\ \/ cur # NoId /\ Moves(left, cur) /\ Moving(d, cur) /\ left = Own(cur)
           \/ left = <<>> /\ \A y \in Ids : ~Moves(left, y) /\ ~Moving(d, y)
    <2>1. CASE Release(d, id)
      <3>1. At(d, "release", id) /\ "release" \in Ops
        BY <2>1 DEF Release, Ops
      <3> QED BY <3>1, Pending DEF Moving, Moves
    <2>2. CASE RmLock(d, id)
      <3>1. At(d, "rmLock", id) /\ "rmLock" \in Ops
        BY <2>2 DEF RmLock, Ops
      <3>2. \A y \in Ids : ~Moving(d, y)
        BY <3>1, MovesHead DEF Moving, At, Do
      <3>3. \A y \in Ids : ~Moves(<<>>, y)
        BY MovesHead
      <3> QED BY <3>1, <3>2, <3>3, Pending
    <2> QED BY <2>1, <2>2
  <1>4. left \in Seq(Step)
    <2>1. ASSUME cur \in Ids PROVE Own(cur) \in Seq(Step)
      <3>1. Do("peek", cur) \in Step /\ Do("claim", cur) \in Step /\ Do("save", cur) \in Step
        BY <2>1, DoType DEF Ops
      <3> QED BY <3>1 DEF Own
    <2>2. cur \in Ids \cup {NoId}
      BY DEF TypeOK
    <2>3. <<>> \in Seq(Step)
      OBVIOUS
    <2> QED BY <1>3, <2>1, <2>2, <2>3
  <1> HIDE DEF left
  <1>5. job' \in [Decks -> Seq(Step)] /\ job'[d] = left /\ \A e \in Decks \ {d} : job'[e] = job[e]
    BY <1>2, <1>4 DEF TypeOK, Step
  <1>6. TypeOK'
    BY <1>1, <1>2, <1>5 DEF TypeOK, Step
  <1>7. IdsSound'
    BY <1>1, <1>2 DEF IdsSound
  <1>8. Others(d) /\ FilesFair(d)
    BY <1>1, <1>5 DEF Others, FilesFair
  <1>9. NobodyRises /\ run[d] <= run'[d]
    BY <1>1, NobodyRisesAlone DEF TypeOK
  <1>10. JobSound(d)'
    BY <1>1, <1>3, <1>5 DEF JobSound, Moving
  <1>11. \A y \in Ids \ contested' : Drives(d, y)' =>
           /\ \A e \in Decks \ {d} : ~Drives(e, y)
           /\ IF Moving(d, y)' THEN ~OwnerSeen(lock[y], d)' ELSE Owns(d, y)'
    <2>1. \A y \in Ids : Drives(d, y) => lock'[y] = lock[y] /\ (Moving(d, y)' <=> Moving(d, y))
      BY <1>2, <1>3, <1>5 DEF Drives, Moving
    <2> QED BY <1>1, <1>2, <2>1, StillGuarded
  <1>12. Unsaved(d)' => autoSaveTimer'[d] \/ d \in swallowed'
    BY <1>1, <1>2 DEF Unsaved, UnsavedWillBeSaved
  <1> QED BY <1>1, <1>2, <1>6, <1>7, <1>8, <1>9, <1>10, <1>11, <1>12, DeckKeepsInv

\* The release of the lock of the workspace that a Deck lets go.
LEMMA LetGoKeepsInv ==
  ASSUME Inv, NEW d \in Decks, NEW id \in Ids,
         Detach(d, id) \/ LetGo(d, "close", id) \/ LetGo(d, "quit", id)
  PROVE  Inv'
  <1> USE DEF Inv, history
  <1>1. /\ Released(d, id)
        /\ UNCHANGED <<ws, minted, run, autoSaveTimer, reg, reused, troubles, swallowed>>
    BY DEF Detach, LetGo
  <1>2. /\ contested \subseteq contested' /\ contested' \subseteq Ids
        /\ lock' \in [Ids -> Lock \cup {NoLock}] /\ LocksFair(d)
        /\ job' = [job EXCEPT ![d] = Tail(job[d])]
        /\ \A x \in Ids : lock'[x] = IF x = id THEN NoLock ELSE lock[x]
    BY <1>1, Releasing
  <1>3. /\ Tail(job[d]) = <<>> /\ phase[d] # "down"
        /\ phase' \in [Decks -> {"down", "up", "closing", "ending"}]
        /\ currentId' \in [Decks -> Ids \cup {NoId}]
        /\ tiles' \in [Decks -> SUBSET Tiles]
        /\ currentId'[d] \in {currentId[d], NoId}
        /\ \A e \in Decks \ {d} : /\ phase'[e] = phase[e] /\ currentId'[e] = currentId[e]
                                  /\ tiles'[e] = tiles[e]
        /\ phase'[d] # "up" \/ (currentId'[d] = NoId /\ tiles'[d] = {})
    <2>1. CASE Detach(d, id)
      <3>1. At(d, "detach", id) /\ "detach" \in Ops
        BY <2>1 DEF Detach, Ops
      <3>2. Tail(job[d]) = <<>> /\ phase[d] = "up"
        BY <3>1, Pending
      <3> QED BY <2>1, <3>2 DEF Detach, TypeOK
    <2>2. ASSUME NEW op \in {"close", "quit"}, LetGo(d, op, id)
          PROVE  /\ Tail(job[d]) = <<>> /\ phase[d] \in {"up", "closing"}
                 /\ UNCHANGED <<currentId, tiles>>
                 /\ phase' = [phase EXCEPT ![d] = IF op = "close" THEN "closing" ELSE "ending"]
      <3>1. At(d, op, id) /\ op \in Ops
        BY <2>2 DEF LetGo, Ops
      <3> QED BY <2>2, <3>1, Pending DEF LetGo
    <2>3. CASE LetGo(d, "close", id) \/ LetGo(d, "quit", id)
      BY <2>2, <2>3 DEF TypeOK
    <2> QED BY <2>1, <2>3
  <1>4. job' \in [Decks -> Seq(Step)] /\ job'[d] = <<>> /\ \A e \in Decks \ {d} : job'[e] = job[e]
    <2>1. <<>> \in Seq(Step)
      OBVIOUS
    <2> QED BY <1>2, <1>3, <2>1 DEF TypeOK, Step
  <1>5. TypeOK'
    BY <1>1, <1>2, <1>3, <1>4 DEF TypeOK, Step
  <1>6. IdsSound'
    BY <1>1, <1>2, <1>3 DEF IdsSound
  <1>7. Others(d) /\ FilesFair(d)
    BY <1>1, <1>3, <1>4 DEF Others, FilesFair
  <1>8. NobodyRises /\ run[d] <= run'[d]
    <2>1. \A e \in Decks : phase'[e] # "down" => phase[e] # "down"
      BY <1>3
    <2> QED BY <1>1, <2>1, NobodyRisesAlone DEF TypeOK
  <1>9. JobSound(d)'
    BY <1>4 DEF JobSound
  <1>10. \A y \in Ids : ~Drives(d, y)'
    BY <1>3, Nulls DEF Drives
  <1>11. ~Unsaved(d)'
    BY <1>3 DEF Unsaved
  <1> QED BY <1>1, <1>2, <1>5, <1>6, <1>7, <1>8, <1>9, <1>10, <1>11, DeckKeepsInv

LEMMA RmFileKeepsInv ==
  ASSUME Inv, NEW d \in Decks, NEW id \in Ids, RmFile(d, "rmFile", id) \/ RmFile(d, "prune", id)
  PROVE  Inv'
  <1> USE DEF Inv, history
  <1> DEFINE left == <<Do("rmLock", id)>>
  <1>1. PICK op \in {"rmFile", "prune"} : RmFile(d, op, id)
    OBVIOUS
  <1>2. At(d, op, id) /\ op \in Ops
    BY <1>1 DEF RmFile, Ops
  <1>3. phase[d] = "up" /\ id # currentId[d] /\ Tail(job[d]) = left
    BY <1>2, Pending
  <1>4. /\ ws' = [ws EXCEPT ![id] = NoFile] /\ job' = [job EXCEPT ![d] = left]
        /\ Contest(id, InBetween(d, id) \/ Foreign(d, id))
        /\ UNCHANGED <<lock, minted, phase, run, currentId, tiles, autoSaveTimer, reg, reused,
                       troubles, swallowed>>
    BY <1>1, <1>3 DEF RmFile, Continue
  <1>5. /\ contested \subseteq contested' /\ contested' \subseteq Ids
        /\ InBetween(d, id) \/ Foreign(d, id) => id \in contested'
    BY <1>4, Contesting
  <1>6. ws' \in [Ids -> File \cup {NoFile}] /\ \A x \in Ids : ws'[x] = IF x = id THEN NoFile ELSE ws[x]
    BY <1>4 DEF TypeOK
  <1>7. FilesFair(d)
    <2>1. id \in contested' \/ \A e \in Decks \ {d} : ~Drives(e, id)
      BY <1>5, DriverShows
    <2> QED BY <1>6, <2>1 DEF FilesFair
  <1>8. left \in Seq(Step) /\ left # <<>> /\ Head(left).op = "rmLock"
    BY DoType DEF Ops, Do
  <1>9. job' \in [Decks -> Seq(Step)] /\ job'[d] = left /\ \A e \in Decks \ {d} : job'[e] = job[e]
    BY <1>4, <1>8 DEF TypeOK, Step
  <1>10. TypeOK'
    BY <1>4, <1>5, <1>6, <1>9 DEF TypeOK, Step
  <1>11. IdsSound'
    BY <1>4, <1>6 DEF IdsSound
  <1>12. Others(d) /\ LocksFair(d)
    BY <1>4, <1>9 DEF Others, LocksFair
  <1>13. NobodyRises /\ run[d] <= run'[d]
    BY <1>4, NobodyRisesAlone DEF TypeOK
  <1>14. JobSound(d)'
    BY <1>3, <1>4, <1>9 DEF JobSound, Removing
  <1>15. \A y \in Ids \ contested' : Drives(d, y)' =>
           /\ \A e \in Decks \ {d} : ~Drives(e, y)
           /\ IF Moving(d, y)' THEN ~OwnerSeen(lock[y], d)' ELSE Owns(d, y)'
    <2>1. \A y \in Ids : ~Moving(d, y) /\ ~Moves(left, y)
      <3>1. \A y \in Ids : ~Moving(d, y)
        BY <1>2, MovesHead DEF Moving, At, Do
      <3>2. \A y \in Ids : ~Moves(left, y)
        <4> HIDE DEF left
        <4> QED BY <1>8, MovesHead
      <3> QED BY <3>1, <3>2
    <2>2. \A y \in Ids : Moving(d, y)' <=> Moving(d, y)
      BY <1>9, <2>1 DEF Moving
    <2> QED BY <1>4, <1>5, <2>2, StillGuarded
  <1>16. Unsaved(d)' => autoSaveTimer'[d] \/ d \in swallowed'
    <2>1. currentId[d] \in Ids \cup {NoId} /\ (currentId[d] # NoId => ws'[currentId[d]] = ws[currentId[d]])
      BY <1>3, <1>6 DEF TypeOK
    <2>2. Unsaved(d)' => Unsaved(d)
      BY <1>4, <1>5, <2>1 DEF Unsaved
    <2> QED BY <1>4, <2>2 DEF UnsavedWillBeSaved
  <1> QED BY <1>4, <1>5, <1>7, <1>10, <1>11, <1>12, <1>13, <1>14, <1>15, <1>16, DeckKeepsInv

\* A heartbeat writes back the lock it has read, which is the Deck's own unless the
\* workspace is contested.
LEMMA BeatKeepsInv ==
  ASSUME Inv, NEW d \in Decks, NEW id \in Ids, Beat(d, id)
  PROVE  Inv'
  <1> USE DEF Inv, history
  <1> DEFINE old == reg[d]
             new == [old EXCEPT !.fresh = TRUE]
  <1>1. At(d, "beat", id) /\ "beat" \in Ops
    BY DEF Beat, Ops
  <1>2. phase[d] = "up" /\ id = currentId[d] /\ ReadOwn(d, id) /\ Tail(job[d]) = <<>>
    BY <1>1, Pending
  <1>3. /\ lock' = [lock EXCEPT ![id] = new] /\ job' = [job EXCEPT ![d] = <<>>]
        /\ reg' = [reg EXCEPT ![d] = NoFile]
        /\ UNCHANGED <<ws, minted, phase, run, currentId, tiles, autoSaveTimer, reused, troubles,
                       history>>
    BY <1>2 DEF Beat, Continue, Remember
  <1>4. old \in Lock /\ old.run <= run[old.deck] /\ (id \notin contested => old.deck = d /\ old.run = run[d])
    BY <1>2 DEF ReadOwn
  <1>5. new \in Lock /\ new.deck = old.deck /\ new.run = old.run
    <2> HIDE DEF old
    <2> QED BY <1>4 DEF Lock
  <1> HIDE DEF new, old
  <1>6. /\ lock' \in [Ids -> Lock \cup {NoLock}] /\ lock'[id] = new
        /\ \A y \in Ids \ {id} : lock'[y] = lock[y]
    BY <1>3, <1>5 DEF TypeOK
  <1>7. job' \in [Decks -> Seq(Step)] /\ job'[d] = <<>> /\ reg' \in [Decks -> File \cup Lock \cup {NoFile}]
        /\ \A e \in Decks \ {d} : job'[e] = job[e] /\ reg'[e] = reg[e]
    <2>1. <<>> \in Seq(Step)
      OBVIOUS
    <2> QED BY <1>3, <2>1 DEF TypeOK, Step
  <1>8. TypeOK'
    BY <1>3, <1>6, <1>7 DEF TypeOK, Step
  <1>9. IdsSound'
    <2>1. \A y \in Ids : lock'[y] # NoLock => lock'[y].run <= run[lock'[y].deck]
      <3> SUFFICES ASSUME NEW y \in Ids, lock'[y] # NoLock
                   PROVE  lock'[y].run <= run[lock'[y].deck]
        OBVIOUS
      <3>1. CASE y = id
        BY <1>4, <1>5, <1>6, <3>1
      <3>2. CASE y # id
        BY <1>6, <3>2 DEF IdsSound
      <3> QED BY <3>1, <3>2
    <2> QED BY <1>3, <2>1 DEF IdsSound
  <1>10. id \in contested' \/ \A e \in Decks \ {d} : ~Drives(e, id)
    BY <1>2, <1>3 DEF OneDriverUnlessContested, Drives
  <1>11. Others(d) /\ LocksFair(d) /\ FilesFair(d)
    BY <1>3, <1>6, <1>7, <1>10 DEF Others, LocksFair, FilesFair
  <1>12. NobodyRises /\ run[d] <= run'[d]
    BY <1>3, NobodyRisesAlone DEF TypeOK
  <1>13. JobSound(d)'
    BY <1>7 DEF JobSound
  <1>14. \A y \in Ids \ contested' : Drives(d, y)' =>
           /\ \A e \in Decks \ {d} : ~Drives(e, y)
           /\ IF Moving(d, y)' THEN ~OwnerSeen(lock[y], d)' ELSE Owns(d, y)'
    <2> SUFFICES ASSUME NEW y \in Ids \ contested', Drives(d, y)'
                 PROVE  /\ \A e \in Decks \ {d} : ~Drives(e, y)
                        /\ ~Moving(d, y)' /\ Owns(d, y)'
      OBVIOUS
    <2>1. y = id
      BY <1>2, <1>3 DEF Drives
    <2>2. ~Moving(d, y)'
      BY <1>7, Resting
    <2> QED BY <1>3, <1>4, <1>5, <1>6, <1>10, <2>1, <2>2, Nulls DEF Owns
  <1>15. Unsaved(d)' => autoSaveTimer'[d] \/ d \in swallowed'
    BY <1>3 DEF Unsaved, UnsavedWillBeSaved
  <1>16. minted \subseteq minted' /\ contested \subseteq contested'
    BY <1>3
  <1> QED BY <1>8, <1>9, <1>11, <1>12, <1>13, <1>14, <1>15, <1>16, DeckKeepsInv

\* A restore that fails leaves its workspace with the lock it has taken, or contested.
LEMMA WriteFailsKeepsInv ==
  ASSUME Inv, NEW d \in Decks, NEW id \in Ids, WriteFails(d, id)
  PROVE  Inv'
  <1> USE DEF Inv, history
  <1>1. /\ UNCHANGED <<files, phase, run, currentId, tiles, autoSaveTimer, reg, reused, swallowed>>
        /\ troubles' \in 0 .. MaxTroubles
        /\ reg' = [reg EXCEPT ![d] = reg[d]] /\ reg[d] \in File \cup Lock \cup {NoFile}
        /\ job' = [job EXCEPT ![d] = <<>>] /\ Contest(id, At(d, "claim", id))
    <2>1. MaxTroubles \in Nat
      BY WorkspacesAssumption
    <2> QED BY <2>1 DEF WriteFails, Trouble, GiveUp, TypeOK
  <1>2. /\ contested \subseteq contested' /\ contested' \subseteq Ids
        /\ At(d, "claim", id) => id \in contested'
    BY <1>1, Contesting
  <1>3. <<>> \in Seq(Step) /\ \A y \in Ids : ~Moves(<<>>, y)
    BY MovesHead
  <1>4. \A y \in Ids \ contested' : Drives(d, y) => ~Moving(d, y)
    <2>1. CASE At(d, "claim", id)
      <3>1. id = currentId[d]
        BY <2>1, Pending DEF Ops
      <3> QED BY <1>2, <2>1, <3>1 DEF Drives
    <2>2. CASE At(d, "save", id)
      BY <2>2, MovesHead DEF Moving, At, Do
    <2> QED BY <2>1, <2>2 DEF WriteFails
  <1>5. job'[d] = <<>> => JobSound(d)'
    BY DEF JobSound
  <1> QED BY <1>1, <1>2, <1>3, <1>4, <1>5, QuietKeepsInv

-----------------------------------------------------------------------------
(* The environment *)

\* What other processes do with the pids of dead owners concerns nobody who owns a lock.
LEMMA PidsKeepInv ==
  ASSUME Inv, \/ \E id \in Ids : PidReused(id)
              \/ \E owner \in Decks \X (0 .. MaxRuns) : PidFreed(owner)
  PROVE  Inv'
  <1> USE DEF Inv, history, files, deck
  <1>1. UNCHANGED <<files, deck, history>>
    BY DEF PidReused, PidFreed
  <1>2. troubles' \in 0 .. MaxTroubles /\ reused' \subseteq Decks \X (0 .. MaxRuns)
    <2>1. MaxTroubles \in Nat
      BY WorkspacesAssumption
    <2>2. ASSUME NEW id \in Ids, PidReused(id)
          PROVE  troubles' \in 0 .. MaxTroubles /\ reused' \subseteq Decks \X (0 .. MaxRuns)
      <3>1. lock[id] \in Lock
        BY <2>2 DEF PidReused, TypeOK
      <3> QED BY <2>1, <2>2, <3>1 DEF PidReused, Trouble, TypeOK, Lock
    <2>3. ASSUME NEW owner, PidFreed(owner)
          PROVE  troubles' \in 0 .. MaxTroubles /\ reused' \subseteq Decks \X (0 .. MaxRuns)
      BY <2>3 DEF PidFreed, TypeOK
    <2> QED BY <2>2, <2>3
  <1>3. TypeOK'
    BY <1>1, <1>2 DEF TypeOK
  <1>4. IdsSound'
    BY <1>1 DEF IdsSound
  <1>5. \A d \in Decks : JobSound(d)'
    BY <1>1 DEF JobSound, Moving, Removing, ReadOwn
  <1>6. OneDriverUnlessContested' /\ UnsavedWillBeSaved'
    BY <1>1 DEF OneDriverUnlessContested, UnsavedWillBeSaved, Unsaved, Drives
  <1>7. Guarded'
    BY <1>1 DEF Guarded, Drives, Moving, Owns, OwnerSeen, OwnerAlive, Running
  <1> QED BY <1>3, <1>4, <1>5, <1>6, <1>7

\* What a Deck is when it has just been started or has just ended.
LEMMA FreshDeck ==
  ASSUME Inv, NEW d \in Decks, NEW ph \in {"down", "up"}, Fresh(d, ph)
  PROVE  /\ phase' \in [Decks -> {"down", "up", "closing", "ending"}] /\ phase'[d] = ph
         /\ currentId' \in [Decks -> Ids \cup {NoId}] /\ currentId'[d] = NoId
         /\ tiles' \in [Decks -> SUBSET Tiles] /\ tiles'[d] = {}
         /\ autoSaveTimer' \in [Decks -> BOOLEAN]
         /\ job' \in [Decks -> Seq(Step)] /\ job'[d] = <<>>
         /\ reg' \in [Decks -> File \cup Lock \cup {NoFile}]
         /\ swallowed' = swallowed \ {d}
         /\ \A e \in Decks \ {d} :
              /\ phase'[e] = phase[e] /\ currentId'[e] = currentId[e] /\ tiles'[e] = tiles[e]
              /\ autoSaveTimer'[e] = autoSaveTimer[e] /\ job'[e] = job[e] /\ reg'[e] = reg[e]
  <1>1. <<>> \in Seq(Step)
    OBVIOUS
  <1> QED BY <1>1 DEF Fresh, Inv, TypeOK, Step

LEMMA LifeKeepsInv ==
  ASSUME Inv, NEW d \in Decks, Launch(d) \/ Exit(d) \/ Crash(d)
  PROVE  Inv'
  <1> USE DEF Inv, history
  <1>1. /\ UNCHANGED <<ws, lock, minted, reused, contested>>
        /\ troubles' \in 0 .. MaxTroubles
        /\ run' \in [Decks -> 0 .. MaxRuns] /\ run[d] <= run'[d]
        /\ \A e \in Decks \ {d} : run'[e] = run[e]
    <2>1. MaxRuns \in Nat /\ MaxTroubles \in Nat
      BY WorkspacesAssumption
    <2>2. run \in [Decks -> 0 .. MaxRuns] /\ troubles \in 0 .. MaxTroubles /\ run[d] \in Nat
      BY <2>1 DEF TypeOK
    <2>3. CASE Launch(d)
      <3>1. run' = [run EXCEPT ![d] = run[d] + 1] /\ run[d] + 1 \in 0 .. MaxRuns
        BY <2>1, <2>2, <2>3 DEF Launch
      <3>2. /\ run' \in [Decks -> 0 .. MaxRuns] /\ run'[d] = run[d] + 1
            /\ \A e \in Decks \ {d} : run'[e] = run[e]
        BY <2>2, <3>1
      <3> QED BY <2>2, <2>3, <3>2 DEF Launch, files
    <2>4. CASE Exit(d)
      BY <2>2, <2>4 DEF Exit, files
    <2>5. CASE Crash(d)
      BY <2>1, <2>2, <2>5 DEF Crash, Trouble, files
    <2> QED BY <2>3, <2>4, <2>5
  <1>2. PICK ph \in {"down", "up"} : Fresh(d, ph) /\ (ph = "up" => run'[d] = run[d] + 1)
                                     /\ (ph = "down" => run' = run)
    BY DEF Launch, Exit, Crash, TypeOK
  <1>3. /\ phase' \in [Decks -> {"down", "up", "closing", "ending"}] /\ phase'[d] = ph
        /\ currentId' \in [Decks -> Ids \cup {NoId}] /\ currentId'[d] = NoId
        /\ tiles' \in [Decks -> SUBSET Tiles] /\ tiles'[d] = {}
        /\ autoSaveTimer' \in [Decks -> BOOLEAN]
        /\ job' \in [Decks -> Seq(Step)] /\ job'[d] = <<>>
        /\ reg' \in [Decks -> File \cup Lock \cup {NoFile}]
        /\ swallowed' = swallowed \ {d}
        /\ \A e \in Decks \ {d} :
             /\ phase'[e] = phase[e] /\ currentId'[e] = currentId[e] /\ tiles'[e] = tiles[e]
             /\ autoSaveTimer'[e] = autoSaveTimer[e] /\ job'[e] = job[e] /\ reg'[e] = reg[e]
    BY <1>2, FreshDeck
  <1>4. TypeOK'
    BY <1>1, <1>3 DEF TypeOK, Step
  <1>5. \A e \in Decks : run[e] \in Nat /\ run'[e] \in Nat /\ run[e] <= run'[e]
    <2>1. MaxRuns \in Nat
      BY WorkspacesAssumption
    <2>2. \A e \in Decks : run[e] \in Nat /\ run'[e] \in Nat
      BY <1>1, <2>1 DEF TypeOK
    <2> QED BY <1>1, <2>2
  <1>6. IdsSound'
    <2>1. \A id \in Ids : lock[id] # NoLock => lock[id].run <= run'[lock[id].deck]
      <3> SUFFICES ASSUME NEW id \in Ids, lock[id] # NoLock
                   PROVE  lock[id].run <= run'[lock[id].deck]
        OBVIOUS
      <3>1. lock[id].run <= run[lock[id].deck] /\ lock[id] \in Lock
        BY DEF IdsSound, TypeOK
      <3>2. lock[id].run \in Nat /\ lock[id].deck \in Decks
        BY <3>1, WorkspacesAssumption DEF Lock
      <3> QED BY <1>5, <3>1, <3>2
    <2>2. \A e \in Decks : currentId'[e] \in minted \cup {NoId}
      BY <1>3 DEF IdsSound
    <2> QED BY <1>1, <2>1, <2>2 DEF IdsSound
  <1>7. Others(d) /\ LocksFair(d) /\ FilesFair(d)
    BY <1>1, <1>3 DEF Others, LocksFair, FilesFair
  <1>8. NobodyRises
    <2> SUFFICES ASSUME NEW l \in Lock, l.run <= run[l.deck], OwnerAlive(l)'
                 PROVE  OwnerAlive(l)
      BY DEF NobodyRises
    <2>1. l.deck \in Decks /\ l.run \in Nat
      BY WorkspacesAssumption DEF Lock
    <2>2. CASE l.deck # d
      BY <1>1, <1>3, <2>1, <2>2 DEF OwnerAlive, Running
    <2>3. CASE l.deck = d
      BY <1>2, <1>3, <1>5, <2>1, <2>3 DEF OwnerAlive, Running
    <2> QED BY <2>2, <2>3
  <1>9. JobSound(d)'
    BY <1>3 DEF JobSound
  <1>10. \A id \in Ids : ~Drives(d, id)'
    BY <1>3, Nulls DEF Drives
  <1>11. ~Unsaved(d)'
    BY <1>3 DEF Unsaved
  <1> QED BY <1>1, <1>4, <1>6, <1>7, <1>8, <1>9, <1>10, <1>11, DeckKeepsInv

\* A lock that grows old keeps its owner, and can only be taken for dead.
LEMMA LockAgesKeepsInv ==
  ASSUME Inv, NEW id \in Ids, LockAges(id)
  PROVE  Inv'
  <1> USE DEF Inv, history
  <1> DEFINE old == lock[id]
             new == [old EXCEPT !.fresh = FALSE]
  <1>1. /\ old # NoLock /\ lock' = [lock EXCEPT ![id] = new]
        /\ UNCHANGED <<ws, minted, deck, reused, history>>
        /\ troubles' \in 0 .. MaxTroubles
    <2>1. MaxTroubles \in Nat
      BY WorkspacesAssumption
    <2> QED BY <2>1 DEF LockAges, Trouble, TypeOK
  <1>2. old \in Lock
    BY <1>1 DEF TypeOK
  <1>3. new \in Lock /\ new.deck = old.deck /\ new.run = old.run /\ ~new.fresh
    <2> HIDE DEF old
    <2> QED BY <1>2 DEF Lock
  <1>4. new # NoLock
    BY <1>3, Nulls
  <1> HIDE DEF new
  <1>5. /\ lock' \in [Ids -> Lock \cup {NoLock}] /\ lock'[id] = new
        /\ \A y \in Ids \ {id} : lock'[y] = lock[y]
    BY <1>1, <1>3 DEF TypeOK
  <1>6. TypeOK'
    BY <1>1, <1>5 DEF TypeOK, deck
  <1>7. IdsSound'
    <2>1. \A y \in Ids : lock'[y] # NoLock => lock'[y].run <= run[lock'[y].deck]
      <3> SUFFICES ASSUME NEW y \in Ids, lock'[y] # NoLock
                   PROVE  lock'[y].run <= run[lock'[y].deck]
        OBVIOUS
      <3>1. CASE y = id
        BY <1>1, <1>3, <1>5, <3>1 DEF IdsSound
      <3>2. CASE y # id
        BY <1>5, <3>2 DEF IdsSound
      <3> QED BY <3>1, <3>2
    <2> QED BY <1>1, <2>1 DEF IdsSound, deck
  <1>8. \A d \in Decks : JobSound(d)'
    BY <1>1 DEF JobSound, Moving, Removing, ReadOwn, deck
  <1>9. OneDriverUnlessContested'
    BY <1>1 DEF OneDriverUnlessContested, Drives, deck
  <1>10. Guarded'
    <2> SUFFICES ASSUME NEW d \in Decks, NEW y \in Ids \ contested, Drives(d, y)
                 PROVE  IF Moving(d, y) THEN ~OwnerSeen(lock[y], d)' ELSE Owns(d, y)'
      BY <1>1 DEF Guarded, Drives, Moving, deck
    <2>1. IF Moving(d, y) THEN ~OwnerSeen(lock[y], d) ELSE Owns(d, y)
      BY DEF Guarded
    <2>2. UNCHANGED <<phase, run>>
      BY <1>1 DEF deck
    <2>3. CASE y = id
      <3>1. lock'[y] = new /\ lock[y] = old
        BY <1>5, <2>3
      <3>2. OwnerSeen(lock[y], d)' => OwnerSeen(lock[y], d)
        BY <1>1, <1>3, <2>2, <3>1 DEF OwnerSeen, OwnerAlive, Running
      <3>3. Owns(d, y) => Owns(d, y)'
        BY <1>3, <1>4, <2>2, <3>1 DEF Owns
      <3> QED BY <2>1, <3>2, <3>3
    <2>4. CASE y # id
      BY <1>5, <2>1, <2>2, <2>4 DEF OwnerSeen, Owns, OwnerAlive, Running
    <2> QED BY <2>3, <2>4
  <1>11. UnsavedWillBeSaved'
    BY <1>1 DEF UnsavedWillBeSaved, Unsaved, deck
  <1> QED BY <1>6, <1>7, <1>8, <1>9, <1>10, <1>11

\* A file that grows old keeps its tiles.
LEMMA FileAgesKeepsInv ==
  ASSUME Inv, NEW id \in Ids, FileAges(id)
  PROVE  Inv'
  <1> USE DEF Inv, history
  <1> DEFINE old == ws[id]
             new == [old EXCEPT !.old = TRUE]
  <1>1. /\ old # NoFile /\ ws' = [ws EXCEPT ![id] = new]
        /\ UNCHANGED <<lock, minted, deck, reused, history>>
        /\ troubles' \in 0 .. MaxTroubles
    <2>1. MaxTroubles \in Nat
      BY WorkspacesAssumption
    <2> QED BY <2>1 DEF FileAges, Trouble, TypeOK
  <1>2. old \in File
    BY <1>1 DEF TypeOK
  <1>3. new \in File /\ new.tiles = old.tiles
    <2> HIDE DEF old
    <2> QED BY <1>2 DEF File
  <1>4. new # NoFile
    BY <1>3, Nulls
  <1> HIDE DEF new
  <1>5. /\ ws' \in [Ids -> File \cup {NoFile}] /\ ws'[id] = new
        /\ \A y \in Ids \ {id} : ws'[y] = ws[y]
    BY <1>1, <1>3 DEF TypeOK
  <1>6. TypeOK'
    BY <1>1, <1>5 DEF TypeOK, deck
  <1>7. IdsSound'
    BY <1>1, <1>5 DEF IdsSound, deck
  <1>8. \A d \in Decks : JobSound(d)'
    BY <1>1 DEF JobSound, Moving, Removing, ReadOwn, deck
  <1>9. OneDriverUnlessContested'
    BY <1>1 DEF OneDriverUnlessContested, Drives, deck
  <1>10. Guarded'
    BY <1>1 DEF Guarded, Drives, Moving, OwnerSeen, Owns, OwnerAlive, Running, deck
  <1>11. UnsavedWillBeSaved'
    <2> SUFFICES ASSUME NEW d \in Decks, Unsaved(d)'
                 PROVE  autoSaveTimer[d] \/ d \in swallowed
      BY <1>1 DEF UnsavedWillBeSaved, deck
    <2>1. Unsaved(d)
      <3>1. currentId[d] \in Ids \cup {NoId} /\ UNCHANGED <<phase, tiles, currentId>>
        BY <1>1 DEF deck, TypeOK
      <3> QED BY <1>1, <1>3, <1>4, <1>5, <3>1 DEF Unsaved
    <2> QED BY <2>1 DEF UnsavedWillBeSaved
  <1> QED BY <1>6, <1>7, <1>8, <1>9, <1>10, <1>11

-----------------------------------------------------------------------------
(* The theorems *)

LEMMA InitInv == Init => Inv
  <1> SUFFICES ASSUME Init PROVE Inv
    OBVIOUS
  <1>1. \A d \in Decks : /\ phase[d] = "down" /\ run[d] = 0 /\ currentId[d] = NoId
                         /\ job[d] = <<>> /\ tiles[d] = {}
    BY DEF Init
  <1>2. \A id \in Ids : lock[id] # NoLock =>
          /\ lock[id] \in [deck : Decks, run : {0}, fresh : {TRUE}]
          /\ lock[id].run <= run[lock[id].deck]
    <2> SUFFICES ASSUME NEW id \in Ids, lock[id] # NoLock
                 PROVE  /\ lock[id] \in [deck : Decks, run : {0}, fresh : {TRUE}]
                        /\ lock[id].run <= run[lock[id].deck]
      OBVIOUS
    <2>1. lock[id] \in [deck : Decks, run : {0}, fresh : {TRUE}]
      BY DEF Init
    <2>2. lock[id].deck \in Decks /\ lock[id].run = 0
      BY <2>1
    <2>3. run[lock[id].deck] = 0
      BY <1>1, <2>2
    <2>4. lock[id].run <= run[lock[id].deck]
      <3>1. 0 <= 0
        OBVIOUS
      <3> QED BY <2>2, <2>3, <3>1
    <2> QED BY <2>1, <2>4
  <1>3. TypeOK
    <2>1. lock \in [Ids -> Lock \cup {NoLock}]
      <3>1. [deck : Decks, run : {0}, fresh : {TRUE}] \subseteq Lock
        <4>1. 0 \in 0 .. MaxRuns
          BY WorkspacesAssumption
        <4> QED BY <4>1 DEF Lock
      <3> QED BY <3>1 DEF Init
    <2>2. ws \in [Ids -> File \cup {NoFile}] /\ minted \subseteq Ids
      BY NullAssumption DEF Init
    <2>3. job \in [Decks -> Seq([op : Ops, id : Ids])]
      <3>1. <<>> \in Seq([op : Ops, id : Ids])
        OBVIOUS
      <3> QED BY <3>1 DEF Init
    <2>4. run \in [Decks -> 0 .. MaxRuns] /\ troubles \in 0 .. MaxTroubles
      BY WorkspacesAssumption DEF Init
    <2> QED BY <2>1, <2>2, <2>3, <2>4 DEF Init, TypeOK
  <1>4. IdsSound
    <2>1. \A id \in Ids : ws[id] # NoFile => id \in minted
      BY DEF Init
    <2> QED BY <1>1, <1>2, <2>1 DEF IdsSound
  <1>5. \A d \in Decks : JobSound(d)
    BY <1>1 DEF JobSound
  <1>6. OneDriverUnlessContested /\ Guarded /\ UnsavedWillBeSaved
    BY <1>1 DEF OneDriverUnlessContested, Guarded, UnsavedWillBeSaved, Drives, Unsaved
  <1> QED BY <1>3, <1>4, <1>5, <1>6 DEF Inv

LEMMA NextInv == Inv /\ [Next]_vars => Inv'
  <1> SUFFICES ASSUME Inv, [Next]_vars PROVE Inv'
    OBVIOUS
  <1>1. ASSUME NEW d \in Decks, Handler(d) PROVE Inv'
    BY <1>1, ChangeKeepsInv, PersistKeepsInv, FailingKeepsInv, FarewellKeepsInv, BeginKeepsInv, HeartbeatKeepsInv
       DEF Handler
  <1>2. ASSUME NEW d \in Decks, FileOp(d) PROVE Inv'
    BY <1>2, LookKeepsInv, CheckKeepsInv, ClaimKeepsInv, WriteKeepsInv, UnlockKeepsInv,
       LetGoKeepsInv, RmFileKeepsInv, BeatKeepsInv DEF FileOp
  <1>3. ASSUME NEW d \in Decks, Launch(d) \/ Exit(d) \/ Crash(d) PROVE Inv'
    BY <1>3, LifeKeepsInv
  <1>4. ASSUME NEW id \in Ids, LockAges(id) \/ FileAges(id) PROVE Inv'
    BY <1>4, LockAgesKeepsInv, FileAgesKeepsInv
  <1>6. ASSUME NEW d \in Decks, NEW id \in Ids, WriteFails(d, id) PROVE Inv'
    BY <1>6, WriteFailsKeepsInv
  <1>7. ASSUME (\E id \in Ids : PidReused(id))
               \/ (\E owner \in Decks \X (0 .. MaxRuns) : PidFreed(owner))
        PROVE  Inv'
    BY <1>7, PidsKeepInv
  <1>5. CASE UNCHANGED vars
    <2> USE <1>5 DEF Inv, vars, files, deck, history
    <2>1. TypeOK' /\ IdsSound'
      BY DEF TypeOK, IdsSound
    <2>2. \A d \in Decks : JobSound(d)'
      BY DEF JobSound, Moving, Removing, ReadOwn
    <2>3. OneDriverUnlessContested' /\ UnsavedWillBeSaved'
      BY DEF OneDriverUnlessContested, UnsavedWillBeSaved, Unsaved, Drives
    <2>4. Guarded'
      BY DEF Guarded, Drives, Moving, Owns, OwnerSeen, OwnerAlive, Running
    <2> QED BY <2>1, <2>2, <2>3, <2>4
  <1> QED BY <1>1, <1>2, <1>3, <1>4, <1>5, <1>6, <1>7 DEF Next

\* The inductive invariant: every driver of an uncontested workspace owns its lock or is on
\* its way to take a free one, through any interleaving of the Decks' file operations.
THEOREM Invariant == Spec => []Inv
  <1> QED BY InitInv, NextInv, PTL DEF Spec

\* Files, locks and Decks are always what the code takes them for: no handler writes a file
\* without its pin, or is left with an operation that is none.
THEOREM TypeCorrect == Spec => []TypeOK
  <1>1. Inv => TypeOK
    BY DEF Inv
  <1> QED BY <1>1, Invariant, PTL

\* Two Decks never drive the same workspace unless its lock was bypassed in one of the ways
\* that contested records (restore, acquireLock and isLockLive).
THEOREM OneDriver == Spec => []OneDriverUnlessContested
  <1>1. Inv => OneDriverUnlessContested
    BY DEF Inv
  <1> QED BY <1>1, Invariant, PTL

\* Tiles that the current workspace's file does not have are waited for by the auto-save
\* timer, whatever the handlers of this Deck and the other Decks do in between, unless the
\* timer's own save has failed and there has been no change or save since.
THEOREM ChangesAreWaitedFor == Spec => []UnsavedWillBeSaved
  <1>1. Inv => UnsavedWillBeSaved
    BY DEF Inv
  <1> QED BY <1>1, Invariant, PTL

=============================================================================
