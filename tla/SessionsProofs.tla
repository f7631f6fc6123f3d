---------------------------- MODULE SessionsProofs ----------------------------
(***************************************************************************)
(* Theorems about Sessions: its type, whose Claude a tile knows, which ids *)
(* are open, and what an exit may close.                                   *)
(***************************************************************************)
EXTENDS Sessions, FiniteSetTheorems, TLAPS

-----------------------------------------------------------------------------
(* The inductive invariant *)

\* Tiles are given out once, terminals belong to tiles that are there, and only terminals
\* that were spawned are searched for.
TilesSound ==
  /\ defs \subseteq 1 .. nextTile - 1
  /\ \A t \in defs : sessionId[t] # NoId
  /\ \A t \in Tiles : Alive(t) => t \in defs /\ pty[t] < nextSpawn /\ procs[pty[t]].tile = t
  /\ \A n \in DOMAIN procs : procs[n].tile < nextTile
  /\ \A n \in Spawns : search[n] # NoSearch => n \in DOMAIN procs

\* As long as the fallback has not mixed ids up:
\* every id of a tile or a file was minted for a terminal that was spawned,
IdsKnown == \A t \in defs : sessionId[t][2] < nextSpawn
FilesKnown ==
  \A w \in Workspaces : files[w] # NoFile =>
    \A t \in DOMAIN files[w].ids : files[w].ids[t][2] < nextSpawn

\* a terminal that lives is the one of its tile, unless that tile is gone,
OneTerminal ==
  \A n \in DOMAIN procs :
    ~procs[n].gone /\ procs[n].tile \in defs => pty[procs[n].tile] = n

\* and the id of a tile with a terminal, which no other tile has, and what its back-channel
\* file says, are those of the terminal's Claude.
OwnIds ==
  \A t \in defs : Alive(t) =>
    /\ sessionId[t][2] = pty[t] /\ sessionId[t] \in registry
    /\ back[t] # NoId => back[t][2] = pty[t]
    /\ \A u \in defs \ {t} : sessionId[u][2] # pty[t]

Unmixed == IdsKnown /\ FilesKnown /\ OneTerminal /\ OwnIds

Inv == TypeOK /\ TilesSound /\ (~mixed => Unmixed)

-----------------------------------------------------------------------------
(* Numbering *)

\* The tiles of a finite set are numbered from 0 without gaps.
LEMMA Places ==
  ASSUME NEW T \in SUBSET Nat, IsFiniteSet(T)
  PROVE  /\ Cardinality(T) \in Nat
         /\ \A t \in T : Place(t, T) \in 0 .. Cardinality(T) - 1
         /\ \A t, u \in T : Place(t, T) = Place(u, T) => t = u
         /\ \A k \in 0 .. Cardinality(T) - 1 : \E t \in T : Place(t, T) = k
  <1> DEFINE Before(t) == {u \in T : u < t}
             C == Cardinality(T)
             place == [t \in T |-> Place(t, T)]
  <1>1. C \in Nat
    BY FS_CardinalityType
  <1>2. ASSUME NEW t \in T
        PROVE  Place(t, T) \in 0 .. C - 1
    <2>1. IsFiniteSet(T \ {t}) /\ Cardinality(T \ {t}) = C - 1
      BY FS_RemoveElement
    <2>2. Before(t) \subseteq T \ {t}
      OBVIOUS
    <2>3. IsFiniteSet(Before(t)) /\ Cardinality(Before(t)) <= C - 1
      BY <2>1, <2>2, FS_Subset
    <2>4. Cardinality(Before(t)) \in Nat
      BY <2>3, FS_CardinalityType
    <2>5. Place(t, T) = Cardinality(Before(t))
      BY DEF Place
    <2> HIDE DEF Before, C
    <2> QED BY <1>1, <2>3, <2>4, <2>5
  <1>3. ASSUME NEW t \in T, NEW u \in T, t < u
        PROVE  Place(t, T) < Place(u, T)
    <2>1. IsFiniteSet(Before(u)) /\ Cardinality(Before(u)) \in Nat
      <3>1. Before(u) \in SUBSET T
        OBVIOUS
      <3> QED BY <3>1, FS_Subset, FS_CardinalityType
    <2>2. t \in Before(u)
      BY <1>3
    <2>3. IsFiniteSet(Before(u) \ {t}) /\ Cardinality(Before(u) \ {t}) = Cardinality(Before(u)) - 1
      BY <2>1, <2>2, FS_RemoveElement
    <2>4. Before(t) \subseteq Before(u) \ {t}
      <3>1. \A v \in T : v < t => v < u /\ v # t
        BY <1>3
      <3> QED BY <3>1
    <2>5. Cardinality(Before(t)) <= Cardinality(Before(u) \ {t})
      BY <2>3, <2>4, FS_Subset
    <2>6. Cardinality(Before(t)) \in Nat
      <3>1. Before(t) \in SUBSET T
        OBVIOUS
      <3> QED BY <3>1, FS_Subset, FS_CardinalityType
    <2> HIDE DEF Before
    <2>7. Cardinality(Before(t)) < Cardinality(Before(u))
      BY <2>1, <2>3, <2>5, <2>6
    <2> QED BY <2>7 DEF Place, Before
  <1>4. ASSUME NEW t \in T, NEW u \in T, Place(t, T) = Place(u, T)
        PROVE  t = u
    <2>1. Place(t, T) \in Nat /\ ~(t < u) /\ ~(u < t)
      BY <1>1, <1>2, <1>3, <1>4
    <2> QED BY <2>1
  <1>5. \A k \in 0 .. C - 1 : \E t \in T : Place(t, T) = k
    <2>1. place \in Injection(T, 0 .. C - 1)
      BY <1>2, <1>4 DEF Injection, IsInjective
    <2>2. IsFiniteSet(0 .. C - 1) /\ Cardinality(0 .. C - 1) = C
      <3> HIDE DEF C
      <3>1. 0 \in Int /\ C - 1 \in Int
        BY <1>1
      <3>2. IsFiniteSet(0 .. C - 1) /\ Cardinality(0 .. C - 1) = IF 0 > C - 1 THEN 0 ELSE (C - 1) - 0 + 1
        BY <3>1, FS_Interval
      <3> QED BY <1>1, <3>2
    <2>3. place \in Surjection(T, 0 .. C - 1)
      BY <2>1, <2>2, FS_Injection
    <2> QED BY <2>3 DEF Surjection
  <1> QED BY <1>1, <1>2, <1>4, <1>5

\* New numbers are none of the old ones.
LEMMA Numbers ==
  ASSUME NEW a \in Nat \ {0}, NEW b \in Nat, NEW m \in Nat, b <= m + 1
  PROVE  \A n \in a .. b - 1 : n \in 1 .. m /\ n \notin 1 .. a - 1 /\ n \in Nat
  OBVIOUS

LEMMA MoreNumbers ==
  ASSUME NEW a \in Nat, NEW b \in Nat, a <= b
  PROVE  1 .. a - 1 \subseteq 1 .. b - 1
  OBVIOUS

LEMMA Below ==
  ASSUME NEW a \in Nat, NEW b \in Nat, NEW n \in 1 .. b, n < a
  PROVE  n \in 1 .. a - 1
  OBVIOUS

\* The ids of a terminal's Claude.
LEMMA IdsOfTerminal ==
  ASSUME NEW n \in Spawns
  PROVE  /\ {Placeholder(n), Real(n), Cleared(n), CurrentId(n)} \subseteq SessionIds
         /\ Placeholder(n)[2] = n /\ Real(n)[2] = n /\ Cleared(n)[2] = n
  <1>1. /\ {Placeholder(n), Real(n), Cleared(n)} \subseteq SessionIds
        /\ Placeholder(n)[2] = n /\ Real(n)[2] = n /\ Cleared(n)[2] = n
    BY DEF Placeholder, Real, Cleared, SessionIds
  <1> QED BY <1>1 DEF CurrentId

-----------------------------------------------------------------------------
(* Launching terminals *)

\* What terminals are launched with: the ids to resume, the ids that are open, the scope,
\* and the tiles that are left as they are, all or none.
Given(T, ids, reg, sc, keep) ==
  /\ \A t \in T : ids[t] \in SessionIds \cup {NoId}
  /\ reg \subseteq SessionIds /\ sc \in Scopes /\ keep \in {{}, Tiles}

\* Tiles whose id is open get no terminal.
ToLaunch(T, ids, reg) == {t \in T : ids[t] \notin reg}

\* What becomes of it: the terminals of New are added, each with a number of its own.
Launched(New, reg) ==
  /\ nextSpawn' \in nextSpawn .. MaxSpawns + 1
  /\ registry' \subseteq SessionIds /\ reg \subseteq registry'
  /\ DOMAIN procs' = 1 .. nextSpawn' - 1 /\ \A n \in DOMAIN procs' : procs'[n] \in Proc
  /\ \A n \in DOMAIN procs : procs'[n] = procs[n]
  /\ \A n \in DOMAIN procs' \ DOMAIN procs :
       procs'[n].tile \in New /\ pty'[procs'[n].tile] = n
  /\ \A t \in New : /\ pty'[t] \in nextSpawn .. nextSpawn' - 1 /\ procs'[pty'[t]].tile = t
                    /\ sessionId'[t] = Placeholder(pty'[t]) /\ sessionId'[t] \in registry'
                    /\ back'[t] = NoId
  /\ search' \in [Spawns -> (SUBSET SessionIds) \cup {NoSearch}]
  /\ \A n \in Spawns : search'[n] # NoSearch => n \in DOMAIN procs'

\* The tiles that get no terminal.
Left(New, T, ids, keep) ==
  /\ \A t \in T \ New : sessionId'[t] = ids[t]
  /\ \A t \in Tiles \ T : sessionId'[t] = IF t \in keep THEN sessionId[t] ELSE NoId
  /\ \A t \in Tiles \ New : pty'[t] = IF t \in keep THEN pty[t] ELSE 0
  /\ \A t \in Tiles \ New : back'[t] = IF t \in keep THEN back[t] ELSE NoId

LEMMA Spawning ==
  ASSUME Inv, NEW T \in SUBSET Tiles, NEW ids, NEW reg, NEW sc, NEW keep,
         Given(T, ids, reg, sc, keep), SpawnAll(T, ids, reg, sc, keep)
  PROVE  /\ sessionId' \in [Tiles -> SessionIds \cup {NoId}]
         /\ pty' \in [Tiles -> 0 .. MaxSpawns]
         /\ back' \in [Tiles -> SessionIds \cup {NoId}]
         /\ Launched(ToLaunch(T, ids, reg), reg)
         /\ Left(ToLaunch(T, ids, reg), T, ids, keep)
  <1> USE DEF Inv
  <1> DEFINE New == {t \in T : ids[t] \notin reg}
             C == Cardinality(New)
             N(t) == nextSpawn + Place(t, New)
             TileOf(n) == CHOOSE t \in New : N(t) = n
             Ns == {N(t) : t \in New}
             proc(n) == [tile |-> TileOf(n), scope |-> sc, cleared |-> FALSE, gone |-> FALSE,
                         from |-> IF Resumable(ids[TileOf(n)]) THEN ids[TileOf(n)] ELSE NoId]
  <1>1. /\ nextSpawn + C <= MaxSpawns + 1 /\ nextSpawn' = nextSpawn + C
        /\ sessionId' = [t \in Tiles |-> IF t \in New THEN Placeholder(N(t))
                                         ELSE IF t \in T THEN ids[t]
                                         ELSE IF t \in keep THEN sessionId[t] ELSE NoId]
        /\ registry' = reg \cup {Placeholder(n) : n \in Ns}
        /\ back' = [t \in Tiles |-> IF t \in keep \ New THEN back[t] ELSE NoId]
        /\ pty' = [t \in Tiles |-> IF t \in New THEN N(t) ELSE IF t \in keep THEN pty[t] ELSE 0]
        /\ search' = [n \in Spawns |-> IF n \in Ns THEN transcripts
                                       ELSE IF keep = {} THEN NoSearch ELSE search[n]]
        /\ procs' = [n \in DOMAIN procs \cup Ns |-> IF n \in Ns THEN proc(n) ELSE procs[n]]
    BY DEF SpawnAll, BackAtLaunch
  <1>2. /\ nextSpawn \in Nat \ {0} /\ MaxSpawns \in Nat /\ MaxTiles \in Nat
        /\ DOMAIN procs = 1 .. nextSpawn - 1 /\ \A n \in DOMAIN procs : procs[n] \in Proc
        /\ sessionId \in [Tiles -> SessionIds \cup {NoId}]
        /\ back \in [Tiles -> SessionIds \cup {NoId}] /\ pty \in [Tiles -> 0 .. MaxSpawns]
        /\ search \in [Spawns -> (SUBSET SessionIds) \cup {NoSearch}]
        /\ transcripts \subseteq SessionIds
        /\ \A n \in Spawns : search[n] # NoSearch => n \in DOMAIN procs
    BY SessionsAssumption DEF TypeOK, TilesSound
  <1>3. /\ \A t \in T : ids[t] \in SessionIds \cup {NoId}
        /\ reg \subseteq SessionIds /\ sc \in Scopes /\ keep \in {{}, Tiles}
    BY DEF Given
  <1>4. /\ C \in Nat /\ \A t \in New : Place(t, New) \in 0 .. C - 1
        /\ \A t, u \in New : Place(t, New) = Place(u, New) => t = u
        /\ \A k \in 0 .. C - 1 : \E t \in New : Place(t, New) = k
    <2>1. New \subseteq Tiles /\ New \subseteq Nat
      <3>1. Tiles \subseteq Nat
        BY <1>2 DEF Tiles
      <3> QED BY <3>1
    <2>2. IsFiniteSet(Tiles)
      BY <1>2, FS_Interval DEF Tiles
    <2>3. IsFiniteSet(New)
      BY <2>1, <2>2, FS_Subset
    <2> HIDE DEF New
    <2> QED BY <2>1, <2>3, Places
  <1>5. New \subseteq T /\ New \subseteq Tiles
    OBVIOUS
  <1>6. \A t \in T \ New : ids[t] \in SessionIds
    BY <1>3
  <1> HIDE DEF New, C
  <1>7. \A t \in New : N(t) \in nextSpawn .. nextSpawn' - 1
    BY <1>1, <1>2, <1>4
  <1>8. \A t, u \in New : N(t) = N(u) => t = u
    <2> SUFFICES ASSUME NEW t \in New, NEW u \in New, N(t) = N(u) PROVE t = u
      OBVIOUS
    <2>1. Place(t, New) \in Nat /\ Place(u, New) \in Nat
      BY <1>4
    <2>2. Place(t, New) = Place(u, New)
      BY <1>2, <2>1
    <2> QED BY <1>4, <2>2
  <1>9. Ns = nextSpawn .. nextSpawn' - 1
    <2>1. ASSUME NEW n \in nextSpawn .. nextSpawn' - 1 PROVE n \in Ns
      <3>1. n - nextSpawn \in 0 .. C - 1
        BY <1>1, <1>2, <1>4
      <3>2. PICK t \in New : Place(t, New) = n - nextSpawn
        BY <1>4, <3>1
      <3>3. N(t) = n
        BY <1>2, <3>2
      <3> QED BY <3>3
    <2> QED BY <1>7, <2>1
  <1>10. \A n \in Ns : TileOf(n) \in New /\ N(TileOf(n)) = n
    OBVIOUS
  <1>11. \A t \in New : TileOf(N(t)) = t
    <2> SUFFICES ASSUME NEW t \in New PROVE TileOf(N(t)) = t
      OBVIOUS
    <2>1. N(t) \in Ns
      OBVIOUS
    <2>2. TileOf(N(t)) \in New /\ N(TileOf(N(t))) = N(t)
      BY <1>10, <2>1
    <2> HIDE DEF N, TileOf
    <2> QED BY <1>8, <2>2
  <1> HIDE DEF N, TileOf
  <1>12. \A n \in Ns : proc(n) \in Proc /\ proc(n).tile = TileOf(n)
    BY <1>3, <1>5, <1>10 DEF Proc
  <1> HIDE DEF proc
  <1>13. Ns \subseteq Spawns /\ \A n \in Ns : n \notin DOMAIN procs /\ n \in Nat
    <2>1. nextSpawn \in Nat \ {0} /\ MaxSpawns \in Nat
          /\ nextSpawn' \in Nat /\ nextSpawn' <= MaxSpawns + 1
      BY <1>1, <1>2, <1>4
    <2>2. \A n \in nextSpawn .. nextSpawn' - 1 : n \in 1 .. MaxSpawns
      BY <2>1, Numbers
    <2>3. \A n \in nextSpawn .. nextSpawn' - 1 : n \notin 1 .. nextSpawn - 1 /\ n \in Nat
      BY <2>1, Numbers
    <2> QED BY <1>2, <1>9, <2>2, <2>3 DEF Spawns
  <1>14. \A t \in New : N(t) \in Ns
    BY DEF Ns
  <1> HIDE DEF Ns
  <1>15. /\ DOMAIN procs' = 1 .. nextSpawn' - 1 /\ \A n \in DOMAIN procs' : procs'[n] \in Proc
         /\ \A n \in DOMAIN procs : procs'[n] = procs[n]
         /\ \A n \in Ns : procs'[n] = proc(n)
         /\ \A n \in DOMAIN procs' \ DOMAIN procs : n \in Ns
    <2>1. DOMAIN procs \cup Ns = 1 .. nextSpawn' - 1
      BY <1>1, <1>2, <1>4, <1>9
    <2> QED BY <1>1, <1>2, <1>12, <1>13, <2>1
  <1>16. \A n \in Ns : Placeholder(n) \in SessionIds
    BY <1>13, IdsOfTerminal
  <1>17. sessionId' \in [Tiles -> SessionIds \cup {NoId}]
    BY <1>1, <1>2, <1>6, <1>14, <1>16
  <1>18. pty' \in [Tiles -> 0 .. MaxSpawns]
    <2>1. \A t \in New : N(t) \in 0 .. MaxSpawns
      <3>1. Spawns \subseteq 0 .. MaxSpawns
        BY <1>2 DEF Spawns
      <3> QED BY <1>13, <1>14, <3>1
    <2>2. \A t \in Tiles : pty[t] \in 0 .. MaxSpawns
      BY <1>2
    <2>3. 0 \in 0 .. MaxSpawns
      BY <1>2
    <2> QED BY <1>1, <2>1, <2>2, <2>3
  <1>19. back' \in [Tiles -> SessionIds \cup {NoId}]
    BY <1>1, <1>2
  <1>20. /\ search' \in [Spawns -> (SUBSET SessionIds) \cup {NoSearch}]
         /\ \A n \in Spawns : search'[n] # NoSearch => n \in DOMAIN procs'
    BY <1>1, <1>2, <1>15
  <1>21. registry' \subseteq SessionIds /\ reg \subseteq registry'
    BY <1>1, <1>3, <1>16
  <1>22. \A t \in New : pty'[t] = N(t) /\ sessionId'[t] = Placeholder(N(t)) /\ back'[t] = NoId
    BY <1>1, <1>5
  <1>23. \A t \in New : procs'[N(t)].tile = t
    BY <1>11, <1>12, <1>14, <1>15
  <1>24. \A n \in DOMAIN procs' \ DOMAIN procs :
           procs'[n].tile \in New /\ pty'[procs'[n].tile] = n
    BY <1>10, <1>12, <1>15, <1>22
  <1>25. Launched(New, reg)
    <2>1. nextSpawn' \in nextSpawn .. MaxSpawns + 1
      BY <1>1, <1>2, <1>4
    <2>2. \A t \in New : Placeholder(N(t)) \in registry'
      BY <1>1, <1>14
    <2> QED BY <1>7, <1>15, <1>20, <1>21, <1>22, <1>23, <1>24, <2>1, <2>2 DEF Launched
  <1>26. Left(New, T, ids, keep)
    BY <1>1, <1>3, <1>5 DEF Left
  <1>27. New = ToLaunch(T, ids, reg)
    BY DEF New, ToLaunch
  <1> QED BY <1>17, <1>18, <1>19, <1>25, <1>26, <1>27

-----------------------------------------------------------------------------
(* Tiles that go, and ids that are saved *)

\* Tiles go with all that is known of them; what is left stays sound if the ids of the tiles
\* that stay are still open.
LEMMA Forgetting ==
  ASSUME Inv, NEW T \in SUBSET defs, Forget(T, sessionId),
         DOMAIN procs' = DOMAIN procs,
         \A n \in DOMAIN procs :
           procs'[n].tile = procs[n].tile /\ (procs[n].gone => procs'[n].gone),
         UNCHANGED <<nextTile, nextSpawn, mixed>>, ~mixed => FilesKnown',
         ~mixed => \A t \in T : Alive(t) => sessionId[t] \in registry'
  PROVE  /\ defs' \subseteq Tiles /\ pty' \in [Tiles -> 0 .. MaxSpawns]
         /\ sessionId' \in [Tiles -> SessionIds \cup {NoId}]
         /\ back' \in [Tiles -> SessionIds \cup {NoId}]
         /\ search' \in [Spawns -> (SUBSET SessionIds) \cup {NoSearch}]
         /\ TilesSound' /\ (~mixed' => Unmixed')
  <1> USE DEF Inv
  <1>1. /\ defs' = T
        /\ sessionId' = [t \in Tiles |-> IF t \in T THEN sessionId[t] ELSE NoId]
        /\ pty' = [t \in Tiles |-> IF t \in T THEN pty[t] ELSE 0]
        /\ back' = [t \in Tiles |-> IF t \in T THEN back[t] ELSE NoId]
        /\ search' = [n \in Spawns |-> IF search[n] # NoSearch /\ procs[n].tile \notin T
                                       THEN NoSearch ELSE search[n]]
    BY DEF Forget
  <1>2. /\ defs \subseteq Tiles /\ pty \in [Tiles -> 0 .. MaxSpawns] /\ 0 \in 0 .. MaxSpawns
        /\ sessionId \in [Tiles -> SessionIds \cup {NoId}]
        /\ back \in [Tiles -> SessionIds \cup {NoId}]
        /\ search \in [Spawns -> (SUBSET SessionIds) \cup {NoSearch}]
    BY SessionsAssumption DEF TypeOK
  <1>3. \A t \in T : t \in Tiles /\ sessionId'[t] = sessionId[t] /\ pty'[t] = pty[t]
                     /\ back'[t] = back[t]
    BY <1>1, <1>2
  <1>4. \A t \in Tiles : Alive(t)' => t \in T /\ Alive(t)
    BY <1>1, <1>3 DEF Alive
  <1>5. TilesSound'
    <2>1. T \subseteq 1 .. nextTile - 1 /\ \A t \in T : sessionId'[t] # NoId
      BY <1>3 DEF TilesSound
    <2>2. \A t \in Tiles : Alive(t)' => pty[t] \in DOMAIN procs
      BY <1>2, <1>4 DEF TilesSound, TypeOK, Alive
    <2>3. \A t \in Tiles : Alive(t)' => pty'[t] < nextSpawn /\ procs'[pty'[t]].tile = t
      <3> SUFFICES ASSUME NEW t \in Tiles, Alive(t)'
                   PROVE  pty'[t] < nextSpawn /\ procs'[pty'[t]].tile = t
        OBVIOUS
      <3>1. t \in T /\ pty'[t] = pty[t] /\ pty[t] \in DOMAIN procs
        BY <1>3, <1>4, <2>2
      <3>2. pty[t] < nextSpawn /\ procs[pty[t]].tile = t
        BY <1>4 DEF TilesSound
      <3> QED BY <3>1, <3>2
    <2>4. \A n \in Spawns : search'[n] # NoSearch => n \in DOMAIN procs
      BY <1>1 DEF TilesSound
    <2> QED BY <1>1, <1>4, <2>1, <2>3, <2>4 DEF TilesSound
  <1>6. ASSUME ~mixed PROVE Unmixed'
    <2>1. IdsKnown'
      BY <1>1, <1>3, <1>6 DEF Unmixed, IdsKnown
    <2>2. OneTerminal'
      BY <1>1, <1>3, <1>6 DEF Unmixed, OneTerminal
    <2>3. OwnIds'
      BY <1>1, <1>3, <1>4, <1>6 DEF Unmixed, OwnIds
    <2> QED BY <1>6, <2>1, <2>2, <2>3 DEF Unmixed
  <1>7. /\ sessionId' \in [Tiles -> SessionIds \cup {NoId}]
        /\ back' \in [Tiles -> SessionIds \cup {NoId}]
    BY <1>1, <1>2
  <1>8. search' \in [Spawns -> (SUBSET SessionIds) \cup {NoSearch}]
    BY <1>1, <1>2
  <1>9. pty' \in [Tiles -> 0 .. MaxSpawns] /\ defs' \subseteq Tiles
    BY <1>1, <1>2
  <1> QED BY <1>5, <1>6, <1>7, <1>8, <1>9

\* A file is written.
LEMMA Saving ==
  ASSUME Inv, NEW w \in Workspaces, NEW f, IsFile(f), files' = [files EXCEPT ![w] = f]
  PROVE  /\ DOMAIN files' = Workspaces /\ files'[w] = f
         /\ \A v \in Workspaces : files'[v] = NoFile \/ IsFile(files'[v])
         /\ \A v \in Workspaces \ {w} : files'[v] = files[v]
  BY DEF Inv, TypeOK

\* refreshLiveSessionIds gives a tile another id of its own Claude, which is open.
LEMMA Refreshing ==
  ASSUME Inv
  PROVE  /\ RefreshedIds \in [Tiles -> SessionIds \cup {NoId}]
         /\ \A t \in defs : RefreshedIds[t] \in SessionIds
         /\ RefreshedRegistry \subseteq SessionIds
         /\ ~mixed => \A t \in defs :
              /\ RefreshedIds[t][2] < nextSpawn
              /\ Alive(t) => /\ RefreshedIds[t][2] = pty[t] /\ RefreshedIds[t] \in RefreshedRegistry
                             /\ \A u \in defs \ {t} : RefreshedIds[u][2] # pty[t]
  <1> USE DEF Inv
  <1>1. /\ defs \subseteq Tiles /\ registry \subseteq SessionIds
        /\ sessionId \in [Tiles -> SessionIds \cup {NoId}]
        /\ back \in [Tiles -> SessionIds \cup {NoId}] /\ pty \in [Tiles -> 0 .. MaxSpawns]
        /\ \A t \in defs : sessionId[t] # NoId
        /\ \A t \in Tiles : Alive(t) => pty[t] < nextSpawn /\ procs[pty[t]].tile = t
    BY DEF TypeOK, TilesSound
  <1>2. \A t \in Rotated : t \in defs /\ Alive(t) /\ back[t] # sessionId[t] /\ back[t] # NoId
    BY DEF Rotated, Resumable
  <1>3. /\ RefreshedIds \in [Tiles -> SessionIds \cup {NoId}]
        /\ \A t \in defs : RefreshedIds[t] \in SessionIds
        /\ \A t \in Rotated : RefreshedIds[t] = back[t]
        /\ \A t \in defs \ Rotated : RefreshedIds[t] = sessionId[t]
    <2>1. RefreshedIds = [t \in Tiles |-> IF t \in Rotated THEN back[t] ELSE sessionId[t]]
      BY DEF RefreshedIds
    <2> QED BY <1>1, <1>2, <2>1
  <1>4. RefreshedRegistry \subseteq SessionIds
    <2>1. \A t \in Rotated : back[t] \in SessionIds
      BY <1>1, <1>2
    <2> QED BY <1>1, <2>1 DEF RefreshedRegistry
  <1>5. ASSUME ~mixed, NEW t \in defs
        PROVE  /\ RefreshedIds[t][2] < nextSpawn
               /\ Alive(t) => RefreshedIds[t][2] = pty[t]
               /\ \A u \in defs \ {t} : Alive(u) => RefreshedIds[t][2] # pty[u]
    <2>1. CASE t \in Rotated
      <3>1. back[t][2] = pty[t] /\ RefreshedIds[t] = back[t] /\ Alive(t)
        BY <1>2, <1>3, <1>5, <2>1 DEF Unmixed, OwnIds
      <3>2. \A u \in defs \ {t} : Alive(u) => pty[u] # pty[t]
        BY <1>1, <3>1
      <3> QED BY <1>1, <3>1, <3>2
    <2>2. CASE t \notin Rotated
      BY <1>3, <1>5, <2>2 DEF Unmixed, OwnIds, IdsKnown
    <2> QED BY <2>1, <2>2
  <1>6. ASSUME ~mixed, NEW t \in defs, Alive(t)
        PROVE  RefreshedIds[t] \in RefreshedRegistry
    <2>1. RefreshedIds[t] \in registry \cup {back[u] : u \in Rotated}
      BY <1>3, <1>6 DEF Unmixed, OwnIds
    <2>2. ASSUME NEW r \in Rotated PROVE sessionId[r] # RefreshedIds[t]
      <3>1. CASE r = t
        BY <1>2, <1>3, <2>2, <3>1
      <3>2. CASE r # t
        <4>1. sessionId[r][2] # pty[t]
          BY <1>2, <1>6, <3>2 DEF Unmixed, OwnIds
        <4> QED BY <1>5, <1>6, <4>1
      <3> QED BY <3>1, <3>2
    <2>3. {r \in Rotated : sessionId[r] = RefreshedIds[t]} = {}
      BY <2>2
    <2> QED BY <2>1, <2>3 DEF RefreshedRegistry
  <1> QED BY <1>3, <1>4, <1>5, <1>6

-----------------------------------------------------------------------------
(* Steps *)

\* A tile gets a terminal: a new tile, or one whose id is not open.
LEMMA Opening ==
  ASSUME Inv, NEW t \in Tiles, NEW ids, ids[t] \in SessionIds \cup {NoId}, ids[t] \notin registry,
         SpawnAll({t}, ids, registry, scope, Tiles), defs' = defs \cup {t},
         nextTile' \in 1 .. MaxTiles + 1, nextTile <= nextTile', t < nextTile',
         ~mixed => ~Alive(t) /\ (t \notin defs => \A n \in DOMAIN procs : procs[n].tile # t),
         UNCHANGED <<current, scope, launches, transcripts, files, remembered, mixed>>
  PROVE  Inv'
  <1> USE DEF Inv
  <1> DEFINE New == ToLaunch({t}, ids, registry)
             m == pty'[t]
  <1>1. Given({t}, ids, registry, scope, Tiles)
    BY DEF Given, TypeOK
  <1>2. /\ sessionId' \in [Tiles -> SessionIds \cup {NoId}]
        /\ pty' \in [Tiles -> 0 .. MaxSpawns]
        /\ back' \in [Tiles -> SessionIds \cup {NoId}]
        /\ Launched(New, registry) /\ Left(New, {t}, ids, Tiles)
    <2>1. {t} \in SUBSET Tiles
      OBVIOUS
    <2> QED BY <1>1, <2>1, Spawning
  <1>3. New = {t}
    BY DEF ToLaunch
  <1> HIDE DEF New
  <1>4. /\ nextSpawn' \in nextSpawn .. MaxSpawns + 1
        /\ registry' \subseteq SessionIds /\ registry \subseteq registry'
        /\ DOMAIN procs' = 1 .. nextSpawn' - 1 /\ \A n \in DOMAIN procs' : procs'[n] \in Proc
        /\ \A n \in DOMAIN procs : procs'[n] = procs[n]
        /\ \A n \in DOMAIN procs' \ DOMAIN procs : procs'[n].tile = t /\ n = m
        /\ m \in nextSpawn .. nextSpawn' - 1 /\ procs'[m].tile = t
        /\ sessionId'[t] = Placeholder(m) /\ sessionId'[t] \in registry' /\ back'[t] = NoId
        /\ search' \in [Spawns -> (SUBSET SessionIds) \cup {NoSearch}]
        /\ \A n \in Spawns : search'[n] # NoSearch => n \in DOMAIN procs'
    <2>1. /\ \A n \in DOMAIN procs' \ DOMAIN procs :
               procs'[n].tile \in New /\ pty'[procs'[n].tile] = n
          /\ t \in New
      BY <1>2, <1>3 DEF Launched
    <2>2. \A n \in DOMAIN procs' \ DOMAIN procs : procs'[n].tile = t /\ n = m
      BY <1>3, <2>1
    <2> QED BY <1>2, <2>1, <2>2 DEF Launched
  <1>5. \A u \in Tiles \ {t} : /\ sessionId'[u] = sessionId[u] /\ pty'[u] = pty[u]
                             /\ back'[u] = back[u] /\ (Alive(u)' <=> Alive(u))
    BY <1>2, <1>3 DEF Left, Alive
  <1>6. /\ nextSpawn \in Nat \ {0} /\ nextSpawn' \in Nat \ {0} /\ nextSpawn <= nextSpawn'
        /\ nextSpawn' \in 1 .. MaxSpawns + 1 /\ MaxSpawns \in Nat /\ MaxTiles \in Nat
        /\ m \in Spawns /\ m \in Nat /\ nextSpawn <= m /\ m < nextSpawn'
        /\ DOMAIN procs = 1 .. nextSpawn - 1
    <2>1. nextSpawn \in Nat \ {0} /\ MaxSpawns \in Nat /\ MaxTiles \in Nat
          /\ DOMAIN procs = 1 .. nextSpawn - 1
      BY SessionsAssumption DEF TypeOK
    <2> HIDE DEF m
    <2>2. nextSpawn' \in Nat \ {0} /\ nextSpawn <= nextSpawn' /\ nextSpawn' \in 1 .. MaxSpawns + 1
      BY <1>4, <2>1
    <2>3. m \in Spawns /\ m \in Nat /\ nextSpawn <= m /\ m < nextSpawn'
      BY <1>4, <2>1, <2>2 DEF Spawns
    <2> QED BY <2>1, <2>2, <2>3
  <1>7. sessionId'[t][2] = m /\ sessionId'[t] \in SessionIds
    BY <1>4, <1>6, IdsOfTerminal
  <1> HIDE DEF m
  <1>8. TypeOK'
    <2>1. /\ defs' \subseteq Tiles /\ current' \in Workspaces \cup {NoWorkspace}
          /\ scope' \in Scopes /\ remembered' \subseteq Custom /\ launches' \in 1 .. Len(LaunchArgs)
          /\ transcripts' \subseteq SessionIds /\ mixed' \in BOOLEAN
          /\ DOMAIN files' = Workspaces
          /\ \A w \in Workspaces : files'[w] = NoFile \/ IsFile(files'[w])
      BY DEF TypeOK
    <2> QED BY <1>2, <1>4, <1>6, <2>1 DEF TypeOK
  <1>9. TilesSound'
    <2>1. defs' \subseteq 1 .. nextTile' - 1
      <3>1. /\ defs \subseteq 1 .. nextTile - 1 /\ t \in 1 .. MaxTiles
            /\ nextTile \in Nat /\ nextTile' \in Nat /\ MaxTiles \in Nat
        BY <1>6 DEF TypeOK, TilesSound, Tiles
      <3>2. 1 .. nextTile - 1 \subseteq 1 .. nextTile' - 1
        BY <3>1, MoreNumbers
      <3>3. t \in 1 .. nextTile' - 1
        BY <3>1, Below
      <3> QED BY <3>1, <3>2, <3>3
    <2>2. \A u \in defs' : sessionId'[u] # NoId
      BY <1>5, <1>7, SessionsAssumption DEF TypeOK, TilesSound
    <2>3. \A u \in Tiles : Alive(u)' =>
            u \in defs' /\ pty'[u] < nextSpawn' /\ procs'[pty'[u]].tile = u
      <3> SUFFICES ASSUME NEW u \in Tiles, Alive(u)'
                   PROVE  u \in defs' /\ pty'[u] < nextSpawn' /\ procs'[pty'[u]].tile = u
        OBVIOUS
      <3>1. CASE u = t
        BY <1>4, <1>6, <3>1 DEF m
      <3>2. CASE u # t
        <4>1. u \in defs /\ pty'[u] = pty[u] /\ pty[u] < nextSpawn /\ procs[pty[u]].tile = u
          BY <1>5, <3>2 DEF TilesSound
        <4>2. pty[u] \in Nat /\ pty[u] # 0
          BY <1>5, <1>6, <3>2 DEF TypeOK, Alive
        <4>3. pty[u] \in DOMAIN procs
          BY <1>6, <4>1, <4>2
        <4> QED BY <1>4, <1>6, <4>1, <4>2, <4>3
      <3> QED BY <3>1, <3>2
    <2>4. \A n \in DOMAIN procs' : procs'[n].tile < nextTile'
      <3> SUFFICES ASSUME NEW n \in DOMAIN procs' PROVE procs'[n].tile < nextTile'
        OBVIOUS
      <3>1. CASE n \in DOMAIN procs
        <4>1. procs[n].tile < nextTile /\ procs[n].tile \in Nat
          BY <1>6, <3>1 DEF TypeOK, TilesSound, Proc, Tiles
        <4>2. nextTile \in Nat /\ nextTile' \in Nat
          BY <1>6 DEF TypeOK
        <4> QED BY <1>4, <3>1, <4>1, <4>2
      <3>2. CASE n \notin DOMAIN procs
        BY <1>4, <3>2
      <3> QED BY <3>1, <3>2
    <2> QED BY <1>4, <2>1, <2>2, <2>3, <2>4 DEF TilesSound
  <1>10. ASSUME ~mixed PROVE Unmixed'
    <2> USE <1>10 DEF Unmixed
    <2>1. IdsKnown'
      <3> SUFFICES ASSUME NEW u \in defs' PROVE sessionId'[u][2] < nextSpawn'
        BY DEF IdsKnown
      <3>1. CASE u = t
        BY <1>6, <1>7, <3>1
      <3>2. CASE u # t
        <4>1. u \in defs /\ u \in Tiles /\ sessionId[u][2] < nextSpawn /\ sessionId[u] \in SessionIds
          BY <3>2 DEF IdsKnown, TypeOK, TilesSound
        <4>2. sessionId[u][2] \in Nat
          BY <1>6, <4>1 DEF SessionIds, Spawns
        <4> QED BY <1>5, <1>6, <3>2, <4>1, <4>2
      <3> QED BY <3>1, <3>2
    <2>2. FilesKnown'
      <3> SUFFICES ASSUME NEW w \in Workspaces, files[w] # NoFile, NEW u \in DOMAIN files[w].ids
                   PROVE  files[w].ids[u][2] < nextSpawn'
        BY DEF FilesKnown
      <3>1. files[w].ids[u] \in SessionIds /\ files[w].ids[u][2] < nextSpawn
        BY DEF FilesKnown, TypeOK, IsFile
      <3>2. files[w].ids[u][2] \in Nat
        BY <1>6, <3>1 DEF SessionIds, Spawns
      <3> QED BY <1>6, <3>1, <3>2
    <2>3. OneTerminal'
      <3> SUFFICES ASSUME NEW n \in DOMAIN procs', ~procs'[n].gone, procs'[n].tile \in defs'
                   PROVE  pty'[procs'[n].tile] = n
        BY DEF OneTerminal
      <3>1. CASE n \in DOMAIN procs
        <4>1. n # 0 /\ procs'[n] = procs[n] /\ procs[n].tile \in Tiles
          BY <1>4, <1>6, <3>1 DEF TypeOK, Proc
        <4>2. procs[n].tile # t
          BY <3>1, <4>1 DEF OneTerminal, Alive
        <4> QED BY <1>5, <3>1, <4>1, <4>2 DEF OneTerminal
      <3>2. CASE n \notin DOMAIN procs
        BY <1>4, <3>2 DEF m
      <3> QED BY <3>1, <3>2
    <2>4. OwnIds'
      <3> SUFFICES ASSUME NEW u \in defs', Alive(u)'
                   PROVE  /\ sessionId'[u][2] = pty'[u] /\ sessionId'[u] \in registry'
                          /\ back'[u] # NoId => back'[u][2] = pty'[u]
                          /\ \A v \in defs' \ {u} : sessionId'[v][2] # pty'[u]
        BY DEF OwnIds
      <3>1. CASE u = t
        <4>1. ASSUME NEW v \in defs' \ {t} PROVE sessionId'[v][2] # m
          <5>1. v \in defs /\ v \in Tiles \ {t} /\ sessionId[v][2] < nextSpawn
                /\ sessionId[v] \in SessionIds
            BY <4>1 DEF IdsKnown, TypeOK, TilesSound
          <5>2. sessionId[v][2] \in Nat
            BY <1>6, <5>1 DEF SessionIds, Spawns
          <5> QED BY <1>5, <1>6, <5>1, <5>2
        <4> QED BY <1>4, <1>7, <3>1, <4>1 DEF m
      <3>2. CASE u # t
        <4>1. u \in defs /\ u \in Tiles \ {t} /\ Alive(u) /\ pty[u] < nextSpawn
              /\ pty[u] \in Nat
          BY <1>5, <1>6, <3>2 DEF TypeOK, TilesSound
        <4>2. /\ sessionId[u][2] = pty[u] /\ sessionId[u] \in registry
              /\ back[u] # NoId => back[u][2] = pty[u]
              /\ \A v \in defs \ {u} : sessionId[v][2] # pty[u]
          BY <4>1 DEF OwnIds
        <4>3. ASSUME NEW v \in defs' \ {u} PROVE sessionId'[v][2] # pty[u]
          <5>1. CASE v = t
            BY <1>6, <1>7, <4>1, <5>1
          <5>2. CASE v # t
            <6>1. v \in defs \ {u} /\ v \in Tiles \ {t}
              BY <4>3, <5>2 DEF TypeOK
            <6> QED BY <1>5, <4>2, <6>1
          <5> QED BY <5>1, <5>2
        <4> QED BY <1>4, <1>5, <4>1, <4>2, <4>3
      <3> QED BY <3>1, <3>2
    <2> QED BY <2>1, <2>2, <2>3, <2>4
  <1> QED BY <1>8, <1>9, <1>10

LEMMA CreateKeepsInv == Inv /\ Create => Inv'
  <1> SUFFICES ASSUME Inv, Create PROVE Inv'
    OBVIOUS
  <1> DEFINE new == nextTile
             ids == [t \in {new} |-> NoId]
  <1>1. /\ ~mixed /\ new \in Tiles /\ nextTile' = new + 1 /\ defs' = defs \cup {new}
        /\ SpawnAll({new}, ids, registry, scope, Tiles)
        /\ UNCHANGED <<current, scope, launches, transcripts, files, remembered, mixed>>
    BY SessionsAssumption DEF Inv, Create, Calm, TypeOK, Tiles
  <1>2. ids[new] = NoId /\ NoId \notin registry
    BY SessionsAssumption DEF Inv, TypeOK
  <1> HIDE DEF ids
  <1>3. /\ nextTile' \in 1 .. MaxTiles + 1 /\ nextTile <= nextTile' /\ new < nextTile'
        /\ new \notin defs /\ \A n \in DOMAIN procs : procs[n].tile # new
    <2>1. nextTile \in Nat /\ MaxTiles \in Nat /\ \A n \in DOMAIN procs : procs[n].tile \in Nat
      BY SessionsAssumption DEF Inv, TypeOK, Proc, Tiles
    <2> QED BY <1>1, <2>1 DEF Inv, TilesSound, Tiles
  <1>4. ~Alive(new)
    BY <1>1, <1>3 DEF Inv, TilesSound
  <1> HIDE DEF new
  <1> QED BY <1>1, <1>2, <1>3, <1>4, Opening

LEMMA RestartKeepsInv ==
  ASSUME Inv, NEW t \in Tiles, Restart(t)
  PROVE  Inv'
  <1>1. /\ t \in defs /\ sessionId[t] \notin registry /\ defs' = defs \cup {t}
        /\ SpawnAll({t}, sessionId, registry, scope, Tiles)
        /\ UNCHANGED <<nextTile, current, scope, launches, transcripts, files, remembered, mixed>>
    BY DEF Restart
  <1>2. sessionId[t] \in SessionIds \cup {NoId}
    BY DEF Inv, TypeOK
  <1>3. nextTile \in 1 .. MaxTiles + 1 /\ nextTile <= nextTile /\ t < nextTile
    BY <1>1, SessionsAssumption DEF Inv, TypeOK, TilesSound
  <1>4. ~mixed => ~Alive(t)
    BY <1>1 DEF Inv, Unmixed, OwnIds
  <1> QED BY <1>1, <1>2, <1>3, <1>4, Opening

\* An id has the number of a terminal.
LEMMA IdNumber == \A id \in SessionIds : id[2] \in Spawns /\ id[2] \in Nat
  BY SessionsAssumption DEF SessionIds, Spawns

LEMMA ScopeAdopted ==
  ASSUME Inv, NEW ws, IsFile(ws)
  PROVE  AdoptedScope(ws) \in Scopes
  <1>1. scope \in Scopes /\ remembered \subseteq Custom /\ nextSpawn \in 1 .. MaxSpawns + 1
    BY DEF Inv, TypeOK
  <1> QED BY <1>1 DEF AdoptedScope, Scopes

LEMMA RestoreKeepsInv ==
  ASSUME Inv, NEW w \in Workspaces, Restore(w)
  PROVE  Inv'
  <1> USE DEF Inv
  <1> DEFINE ws == files[w]
             Old == DOMAIN ws.ids
             C == Cardinality(Old)
             TileFor(t) == nextTile + Place(t, Old)
             T == {TileFor(t) : t \in Old}
             ids == [u \in T |-> ws.ids[CHOOSE t \in Old : TileFor(t) = u]]
             reg == ReleaseAll(registry, sessionId, defs)
             New == ToLaunch(T, ids, reg)
  <1>1. /\ ~mixed /\ ws # NoFile /\ nextTile + C <= MaxTiles + 1
        /\ nextTile' = nextTile + C /\ scope' = AdoptedScope(ws) /\ defs' = T
        /\ SpawnAll(T, ids, reg, AdoptedScope(ws), {}) /\ current' = w
        /\ files' = [files EXCEPT ![w] = Capture(sessionId', T, scope')]
        /\ UNCHANGED <<launches, transcripts, remembered, mixed>>
    BY DEF Restore, Calm, RestoredScope
  <1>2. /\ IsFile(ws) /\ Old \subseteq Tiles /\ \A t \in Old : ws.ids[t] \in SessionIds
        /\ \A t \in Old : ws.ids[t][2] < nextSpawn
    <2>1. IsFile(ws)
      BY <1>1 DEF TypeOK
    <2> QED BY <1>1, <2>1 DEF IsFile, Unmixed, FilesKnown
  <1>3. nextTile \in Nat \ {0} /\ MaxTiles \in Nat /\ nextSpawn \in Nat \ {0} /\ MaxSpawns \in Nat
    BY SessionsAssumption DEF TypeOK
  <1>4. C \in Nat /\ \A t \in Old : Place(t, Old) \in 0 .. C - 1
    <2>1. IsFiniteSet(Tiles) /\ Tiles \subseteq Nat
      BY <1>3, FS_Interval DEF Tiles
    <2>2. IsFiniteSet(Old) /\ Old \subseteq Nat
      BY <1>2, <2>1, FS_Subset
    <2> HIDE DEF Old
    <2> QED BY <2>2, Places
  <1>5. \A u \in T : ids[u] \in SessionIds /\ ids[u][2] < nextSpawn
    BY <1>2
  <1> HIDE DEF ids
  <1>6. \A u \in T : u \in Nat /\ nextTile <= u /\ u < nextTile' /\ u \in Tiles
    <2>1. ASSUME NEW t \in Old
          PROVE  /\ TileFor(t) \in Nat /\ nextTile <= TileFor(t) /\ TileFor(t) < nextTile'
                 /\ TileFor(t) \in 1 .. MaxTiles
      <3> DEFINE k == Place(t, Old)
      <3>1. k \in 0 .. C - 1 /\ TileFor(t) = nextTile + k
        BY <1>4
      <3> HIDE DEF k, TileFor, C
      <3> QED BY <1>1, <1>3, <1>4, <3>1
    <2> QED BY <2>1 DEF Tiles
  <1> HIDE DEF T, Old, C
  <1>7. nextTile' \in 1 .. MaxTiles + 1 /\ nextTile <= nextTile'
    BY <1>1, <1>3, <1>4
  <1>8. Given(T, ids, reg, AdoptedScope(ws), {})
    <2>1. reg \subseteq SessionIds
      BY DEF ReleaseAll, TypeOK
    <2> QED BY <1>2, <1>5, <2>1, ScopeAdopted DEF Given
  <1>9. AdoptedScope(ws) \in Scopes
    BY <1>2, ScopeAdopted
  <1> HIDE DEF reg
  <1>10. /\ sessionId' \in [Tiles -> SessionIds \cup {NoId}]
         /\ pty' \in [Tiles -> 0 .. MaxSpawns]
         /\ back' \in [Tiles -> SessionIds \cup {NoId}]
         /\ Launched(New, reg) /\ Left(New, T, ids, {})
    <2>1. T \in SUBSET Tiles
      BY <1>6
    <2> HIDE DEF ws
    <2> QED BY <1>1, <1>8, <2>1, Spawning
  <1>11. New \subseteq T /\ \A t \in T \ New : ids[t] \in reg
    BY DEF ToLaunch
  <1> HIDE DEF New, ws
  <1>12. /\ nextSpawn' \in nextSpawn .. MaxSpawns + 1 /\ registry' \subseteq SessionIds
         /\ DOMAIN procs' = 1 .. nextSpawn' - 1 /\ \A n \in DOMAIN procs' : procs'[n] \in Proc
         /\ \A n \in DOMAIN procs : procs'[n] = procs[n]
         /\ \A n \in DOMAIN procs' \ DOMAIN procs :
              procs'[n].tile \in New /\ pty'[procs'[n].tile] = n
         /\ \A t \in New : /\ pty'[t] \in nextSpawn .. nextSpawn' - 1 /\ procs'[pty'[t]].tile = t
                           /\ sessionId'[t] = Placeholder(pty'[t]) /\ sessionId'[t] \in registry'
                           /\ back'[t] = NoId
         /\ search' \in [Spawns -> (SUBSET SessionIds) \cup {NoSearch}]
         /\ \A n \in Spawns : search'[n] # NoSearch => n \in DOMAIN procs'
    BY <1>10 DEF Launched
  <1>13. /\ \A t \in T \ New : sessionId'[t] = ids[t]
         /\ \A t \in Tiles \ New : pty'[t] = 0
    BY <1>10 DEF Left
  <1>14. nextSpawn' \in Nat \ {0} /\ nextSpawn <= nextSpawn' /\ nextSpawn' \in 1 .. MaxSpawns + 1
    BY <1>3, <1>12
  <1>15. \A t \in New : /\ pty'[t] \in Spawns /\ pty'[t] \in Nat
                        /\ nextSpawn <= pty'[t] /\ pty'[t] < nextSpawn'
                        /\ sessionId'[t][2] = pty'[t] /\ sessionId'[t] \in SessionIds
    <2> SUFFICES ASSUME NEW t \in New
                 PROVE  /\ pty'[t] \in Spawns /\ pty'[t] \in Nat
                        /\ nextSpawn <= pty'[t] /\ pty'[t] < nextSpawn'
                        /\ sessionId'[t][2] = pty'[t] /\ sessionId'[t] \in SessionIds
      OBVIOUS
    <2>1. pty'[t] \in nextSpawn .. nextSpawn' - 1 /\ sessionId'[t] = Placeholder(pty'[t])
      BY <1>12
    <2>2. pty'[t] \in 1 .. MaxSpawns /\ pty'[t] \in Nat
      BY <1>3, <1>14, <2>1, Numbers
    <2>3. pty'[t] \in Spawns
      BY <2>2 DEF Spawns
    <2> QED BY <1>3, <1>14, <2>1, <2>2, <2>3, IdsOfTerminal
  <1>16. \A t \in T : /\ sessionId'[t] \in SessionIds /\ sessionId'[t][2] < nextSpawn'
                      /\ t \notin New => sessionId'[t][2] < nextSpawn
    <2> SUFFICES ASSUME NEW t \in T, t \notin New
                 PROVE  /\ sessionId'[t] \in SessionIds /\ sessionId'[t][2] < nextSpawn'
                        /\ sessionId'[t][2] < nextSpawn
      BY <1>15
    <2>1. sessionId'[t] \in SessionIds /\ sessionId'[t][2] < nextSpawn
      BY <1>5, <1>13
    <2> QED BY <1>3, <1>14, <2>1, IdNumber
  <1>17. /\ DOMAIN files' = Workspaces
         /\ \A v \in Workspaces : files'[v] = NoFile \/ IsFile(files'[v])
         /\ \A v \in Workspaces \ {w} : files'[v] = files[v]
         /\ DOMAIN files'[w].ids = T /\ \A t \in T : files'[w].ids[t] = sessionId'[t]
    <2>1. T \in SUBSET Tiles /\ \A t \in T : sessionId'[t] \in SessionIds
      BY <1>6, <1>16
    <2> DEFINE f == Capture(sessionId', T, scope')
    <2>2. IsFile(f) /\ DOMAIN f.ids = T /\ \A t \in T : f.ids[t] = sessionId'[t]
      BY <2>1 DEF Capture, IsFile
    <2>3. files' = [files EXCEPT ![w] = f]
      BY <1>1
    <2> HIDE DEF f
    <2> QED BY <2>2, <2>3, Saving
  <1>18. TypeOK'
    <2>1. /\ defs' \subseteq Tiles /\ current' \in Workspaces \cup {NoWorkspace}
          /\ scope' \in Scopes /\ remembered' \subseteq Custom /\ launches' \in 1 .. Len(LaunchArgs)
          /\ transcripts' \subseteq SessionIds /\ mixed' \in BOOLEAN
      BY <1>1, <1>6, <1>9 DEF TypeOK
    <2> QED BY <1>7, <1>10, <1>12, <1>14, <1>17, <2>1 DEF TypeOK
  <1>19. TilesSound'
    <2>1. \A t \in T : t \in 1 .. nextTile' - 1 /\ sessionId'[t] # NoId
      BY <1>3, <1>6, <1>7, <1>16, SessionsAssumption
    <2>2. \A t \in Tiles : Alive(t)' => t \in New
      BY <1>13 DEF Alive
    <2>3. ASSUME NEW n \in DOMAIN procs' PROVE procs'[n].tile < nextTile'
      <3>1. CASE n \in DOMAIN procs
        <4>1. procs[n].tile < nextTile /\ procs[n].tile \in Nat
          BY <1>3, <3>1 DEF TypeOK, TilesSound, Proc, Tiles
        <4> QED BY <1>3, <1>7, <1>12, <3>1, <4>1
      <3>2. CASE n \notin DOMAIN procs
        BY <1>6, <1>11, <1>12, <3>2
      <3> QED BY <3>1, <3>2
    <2> QED BY <1>1, <1>11, <1>12, <1>15, <2>1, <2>2, <2>3 DEF TilesSound
  <1>20. IdsKnown'
    BY <1>1, <1>16 DEF IdsKnown
  <1>21. FilesKnown'
    <2> SUFFICES ASSUME NEW v \in Workspaces, files'[v] # NoFile, NEW t \in DOMAIN files'[v].ids
                 PROVE  files'[v].ids[t][2] < nextSpawn'
      BY DEF FilesKnown
    <2>1. CASE v = w
      BY <1>16, <1>17, <2>1
    <2>2. CASE v # w
      <3>1. files[v].ids[t] \in SessionIds /\ files[v].ids[t][2] < nextSpawn /\ files'[v] = files[v]
        BY <1>1, <1>17, <2>2 DEF Unmixed, FilesKnown, TypeOK, IsFile
      <3> QED BY <1>3, <1>14, <3>1, IdNumber
    <2> QED BY <2>1, <2>2
  <1>22. OneTerminal'
    <2> SUFFICES ASSUME NEW n \in DOMAIN procs', procs'[n].tile \in T
                 PROVE  pty'[procs'[n].tile] = n
      BY <1>1 DEF OneTerminal
    <2>1. CASE n \in DOMAIN procs
      <3>1. procs[n].tile < nextTile /\ procs[n].tile \in Nat /\ procs'[n] = procs[n]
        BY <1>3, <1>12, <2>1 DEF TypeOK, TilesSound, Proc, Tiles
      <3>2. nextTile <= procs[n].tile
        BY <1>6, <3>1
      <3> QED BY <1>3, <3>1, <3>2
    <2>2. CASE n \notin DOMAIN procs
      BY <1>12, <2>2
    <2> QED BY <2>1, <2>2
  <1>23. OwnIds'
    <2> SUFFICES ASSUME NEW t \in T, Alive(t)'
                 PROVE  /\ sessionId'[t][2] = pty'[t] /\ sessionId'[t] \in registry'
                        /\ back'[t] # NoId => back'[t][2] = pty'[t]
                        /\ \A u \in T \ {t} : sessionId'[u][2] # pty'[t]
      BY <1>1 DEF OwnIds
    <2>1. t \in New
      BY <1>6, <1>13 DEF Alive
    <2>2. ASSUME NEW u \in T \ {t} PROVE sessionId'[u][2] # pty'[t]
      <3>1. CASE u \in New
        BY <1>12, <1>15, <2>1, <2>2, <3>1
      <3>2. CASE u \notin New
        <4>1. sessionId'[u][2] < nextSpawn /\ sessionId'[u][2] \in Nat
          BY <1>16, <3>2, IdNumber
        <4>2. nextSpawn <= pty'[t] /\ pty'[t] \in Nat
          BY <1>15, <2>1
        <4> QED BY <1>3, <4>1, <4>2
      <3> QED BY <3>1, <3>2
    <2> QED BY <1>12, <1>15, <2>1, <2>2
  <1> QED BY <1>18, <1>19, <1>20, <1>21, <1>22, <1>23 DEF Unmixed

LEMMA PollKeepsInv ==
  ASSUME Inv, NEW n \in Spawns, Poll(n)
  PROVE  Inv'
  <1> USE DEF Inv
  <1> DEFINE t == procs[n].tile
  <1>1. /\ search[n] # NoSearch
        /\ UNCHANGED <<defs, pty, current, scope, launches, nextTile, nextSpawn, procs,
                       transcripts, back, files, remembered>>
    BY DEF Poll, counters, disk
  <1>2. n \in DOMAIN procs /\ t \in Tiles
    BY <1>1 DEF TilesSound, TypeOK, Proc
  <1>3. CASE ~Alive(t)
    <2>1. search' = [search EXCEPT ![n] = NoSearch] /\ UNCHANGED <<sessionId, registry, mixed>>
      BY <1>3 DEF Poll
    <2>2. TypeOK' /\ TilesSound'
      BY <1>1, <2>1 DEF TypeOK, TilesSound, Alive
    <2>3. ~mixed => Unmixed'
      BY <1>1, <2>1 DEF Unmixed, IdsKnown, FilesKnown, OneTerminal, OwnIds, Alive
    <2> QED BY <2>1, <2>2, <2>3
  <1>4. CASE Alive(t)
    <2>1. PICK id \in SessionIds :
            /\ Adopt(n, t, id)
            /\ \/ mixed' = mixed /\ id = back[t] /\ back[t] # NoId
               \/ mixed' = (mixed \/ id[2] # pty[t])
      <3>1. CASE back[t] \notin {NoId, sessionId[t]}
        <4>1. back[t] \in SessionIds
          BY <1>2, <3>1 DEF TypeOK
        <4> QED BY <1>4, <3>1, <4>1 DEF Poll
      <3>2. CASE back[t] \in {NoId, sessionId[t]}
        <4>1. \E id \in Candidates(n) \ {sessionId[t]} :
                Adopt(n, t, id) /\ mixed' = (mixed \/ id[2] # pty[t])
          BY <1>4, <3>2 DEF Poll
        <4> QED BY <4>1 DEF Candidates, TypeOK
      <3> QED BY <3>1, <3>2
    <2>2. /\ registry' = (registry \ {Placeholder(n)}) \cup {id}
          /\ sessionId' = [sessionId EXCEPT ![t] = id]
          /\ search' = [search EXCEPT ![n] = NoSearch]
      BY <2>1 DEF Adopt, Adopted
    <2>3. t \in defs /\ pty[t] < nextSpawn /\ procs[pty[t]].tile = t
      BY <1>2, <1>4 DEF TilesSound
    <2>4. /\ sessionId' \in [Tiles -> SessionIds \cup {NoId}] /\ sessionId'[t] = id
          /\ \A u \in Tiles \ {t} : sessionId'[u] = sessionId[u]
      BY <1>2, <2>2 DEF TypeOK
    <2>5. TypeOK'
      <3>1. registry' \subseteq SessionIds /\ mixed' \in BOOLEAN
        BY <2>1, <2>2 DEF TypeOK
      <3>2. search' \in [Spawns -> (SUBSET SessionIds) \cup {NoSearch}]
        BY <2>2 DEF TypeOK
      <3> QED BY <1>1, <2>4, <3>1, <3>2 DEF TypeOK
    <2>6. TilesSound'
      <3>1. \A u \in defs : sessionId'[u] # NoId
        BY <2>4, SessionsAssumption DEF TilesSound, TypeOK
      <3>2. \A k \in Spawns : search'[k] # NoSearch => k \in DOMAIN procs
        BY <2>2 DEF TilesSound, TypeOK
      <3> QED BY <1>1, <3>1, <3>2 DEF TilesSound, Alive
    <2>7. ASSUME ~mixed' PROVE Unmixed'
      <3>1. ~mixed /\ id[2] = pty[t]
        <4>1. ~mixed
          BY <2>1, <2>7
        <4>2. back[t] # NoId => back[t][2] = pty[t]
          BY <1>4, <2>3, <4>1 DEF Unmixed, OwnIds
        <4> QED BY <2>1, <2>7, <4>1, <4>2
      <3>2. IdsKnown' /\ FilesKnown' /\ OneTerminal'
        BY <1>1, <2>3, <2>4, <3>1 DEF Unmixed, IdsKnown, FilesKnown, OneTerminal, TypeOK
      <3>3. OwnIds'
        <4> SUFFICES ASSUME NEW u \in defs, Alive(u)
                     PROVE  /\ sessionId'[u][2] = pty[u] /\ sessionId'[u] \in registry'
                            /\ back[u] # NoId => back[u][2] = pty[u]
                            /\ \A v \in defs \ {u} : sessionId'[v][2] # pty[u]
          BY <1>1 DEF OwnIds, Alive
        <4>1. /\ sessionId[u][2] = pty[u] /\ sessionId[u] \in registry /\ u \in Tiles
              /\ back[u] # NoId => back[u][2] = pty[u]
              /\ \A v \in defs \ {u} : sessionId[v][2] # pty[u]
              /\ procs[pty[u]].tile = u
          BY <3>1 DEF Unmixed, OwnIds, TilesSound, TypeOK
        <4>2. CASE u = t
          <5>1. \A v \in defs \ {t} : sessionId'[v] = sessionId[v]
            BY <2>4 DEF TypeOK
          <5> QED BY <2>2, <2>4, <3>1, <4>1, <4>2, <5>1
        <4>3. CASE u # t
          <5>1. sessionId[u] # Placeholder(n)
            BY <4>1, <4>3, IdsOfTerminal
          <5>2. \A v \in defs \ {u} : sessionId'[v][2] # pty[u]
            BY <2>3, <2>4, <3>1, <4>1, <4>3 DEF TypeOK
          <5> QED BY <2>2, <2>4, <4>1, <4>3, <5>1, <5>2
        <4> QED BY <4>2, <4>3
      <3> QED BY <3>2, <3>3 DEF Unmixed
    <2> QED BY <2>5, <2>6, <2>7
  <1> QED BY <1>3, <1>4

\* A workspace is saved with the ids of the tiles that are there.
LEMMA SavedTo ==
  ASSUME Inv, NEW w \in Workspaces, SaveTo(w), nextSpawn' = nextSpawn
  PROVE  /\ DOMAIN files' = Workspaces
         /\ \A v \in Workspaces : files'[v] = NoFile \/ IsFile(files'[v])
         /\ ~mixed => FilesKnown'
  <1> DEFINE f == Capture(RefreshedIds, defs, scope)
  <1>1. /\ \A t \in defs : RefreshedIds[t] \in SessionIds
        /\ ~mixed => \A t \in defs : RefreshedIds[t][2] < nextSpawn
    BY Refreshing
  <1>2. defs \subseteq Tiles
    BY DEF Inv, TypeOK
  <1>3. IsFile(f) /\ DOMAIN f.ids = defs /\ \A t \in defs : f.ids[t] = RefreshedIds[t]
    BY <1>1, <1>2 DEF Capture, IsFile
  <1>4. files' = [files EXCEPT ![w] = f]
    BY DEF SaveTo
  <1> HIDE DEF f
  <1>5. /\ DOMAIN files' = Workspaces /\ files'[w] = f
        /\ \A v \in Workspaces : files'[v] = NoFile \/ IsFile(files'[v])
        /\ \A v \in Workspaces \ {w} : files'[v] = files[v]
    BY <1>3, <1>4, Saving
  <1>6. ASSUME ~mixed PROVE FilesKnown'
    <2> SUFFICES ASSUME NEW v \in Workspaces, files'[v] # NoFile, NEW t \in DOMAIN files'[v].ids
                 PROVE  files'[v].ids[t][2] < nextSpawn
      BY DEF FilesKnown
    <2>1. CASE v = w
      BY <1>1, <1>3, <1>5, <1>6, <2>1
    <2>2. CASE v # w
      BY <1>5, <1>6, <2>2 DEF Inv, Unmixed, FilesKnown
    <2> QED BY <2>1, <2>2
  <1> QED BY <1>5, <1>6

LEMMA SaveKeepsInv == Inv /\ Save => Inv'
  <1> SUFFICES ASSUME Inv, Save PROVE Inv'
    OBVIOUS
  <1> USE DEF Inv
  <1>1. /\ sessionId' = RefreshedIds /\ registry' = RefreshedRegistry
        /\ UNCHANGED <<defs, pty, search, scope, launches, nextTile, nextSpawn, procs,
                       transcripts, back, remembered, mixed>>
    BY DEF Save, counters
  <1>2. PICK w \in Workspaces : SaveTo(w) /\ current' = w
    BY DEF Save, TypeOK
  <1>3. /\ DOMAIN files' = Workspaces
        /\ \A v \in Workspaces : files'[v] = NoFile \/ IsFile(files'[v])
        /\ ~mixed => FilesKnown'
    BY <1>1, <1>2, SavedTo
  <1>4. /\ RefreshedIds \in [Tiles -> SessionIds \cup {NoId}]
        /\ \A t \in defs : RefreshedIds[t] \in SessionIds
        /\ RefreshedRegistry \subseteq SessionIds
        /\ ~mixed => \A t \in defs :
              /\ RefreshedIds[t][2] < nextSpawn
              /\ Alive(t) => /\ RefreshedIds[t][2] = pty[t] /\ RefreshedIds[t] \in RefreshedRegistry
                             /\ \A u \in defs \ {t} : RefreshedIds[u][2] # pty[t]
    BY Refreshing
  <1>5. TypeOK'
    BY <1>1, <1>2, <1>3, <1>4 DEF TypeOK
  <1>6. TilesSound'
    BY <1>1, <1>4, SessionsAssumption DEF TilesSound, Alive
  <1>7. ASSUME ~mixed PROVE Unmixed'
    <2>1. IdsKnown' /\ OneTerminal'
      BY <1>1, <1>4, <1>7 DEF Unmixed, IdsKnown, OneTerminal
    <2>2. OwnIds'
      BY <1>1, <1>4, <1>7 DEF Unmixed, OwnIds, Alive
    <2> QED BY <1>3, <1>7, <2>1, <2>2 DEF Unmixed
  <1> QED BY <1>1, <1>5, <1>6, <1>7

LEMMA NewClearKeepsInv == Inv /\ NewClear => Inv'
  <1> SUFFICES ASSUME Inv, NewClear PROVE Inv'
    OBVIOUS
  <1> USE DEF Inv
  <1>1. /\ ~mixed /\ current' = NoWorkspace /\ Forget({}, sessionId)
        /\ UNCHANGED <<scope, launches, nextTile, nextSpawn, procs, transcripts, remembered, mixed>>
    BY DEF NewClear, Calm, counters
  <1>2. /\ DOMAIN files' = Workspaces
        /\ \A v \in Workspaces : files'[v] = NoFile \/ IsFile(files'[v])
        /\ FilesKnown'
    <2>1. CASE current # NoWorkspace
      <3>1. current \in Workspaces /\ SaveTo(current)
        BY <2>1 DEF NewClear, TypeOK
      <3> QED BY <1>1, <3>1, SavedTo
    <2>2. CASE current = NoWorkspace
      <3>1. files' = files
        BY <2>2 DEF NewClear
      <3> QED BY <1>1, <3>1 DEF TypeOK, Unmixed, FilesKnown
    <2> QED BY <2>1, <2>2
  <1>3. registry' \subseteq SessionIds
    <2>1. RefreshedRegistry \subseteq SessionIds
      BY Refreshing
    <2> QED BY <2>1 DEF NewClear, ReleaseAll, TypeOK
  <1>4. /\ defs' \subseteq Tiles /\ pty' \in [Tiles -> 0 .. MaxSpawns]
        /\ sessionId' \in [Tiles -> SessionIds \cup {NoId}]
        /\ back' \in [Tiles -> SessionIds \cup {NoId}]
        /\ search' \in [Spawns -> (SUBSET SessionIds) \cup {NoSearch}]
        /\ TilesSound' /\ (~mixed' => Unmixed')
    <2>1. {} \in SUBSET defs
      OBVIOUS
    <2> QED BY <1>1, <1>2, <2>1, Forgetting
  <1>5. TypeOK'
    BY <1>1, <1>2, <1>3, <1>4 DEF TypeOK
  <1> QED BY <1>4, <1>5

LEMMA RemoveKeepsInv ==
  ASSUME Inv, NEW t \in Tiles, Remove(t)
  PROVE  Inv'
  <1> USE DEF Inv
  <1>1. /\ ~mixed /\ t \in defs /\ Forget(defs \ {t}, sessionId)
        /\ registry' = registry \ {sessionId[t]}
        /\ UNCHANGED <<current, scope, launches, nextTile, nextSpawn, procs, transcripts, files,
                       remembered, mixed>>
    BY DEF Remove, Calm, counters
  <1>2. \A u \in defs \ {t} : Alive(u) => sessionId[u] \in registry'
    BY <1>1 DEF Unmixed, OwnIds
  <1>3. FilesKnown'
    BY <1>1 DEF Unmixed, FilesKnown
  <1>4. /\ defs' \subseteq Tiles /\ pty' \in [Tiles -> 0 .. MaxSpawns]
        /\ sessionId' \in [Tiles -> SessionIds \cup {NoId}]
        /\ back' \in [Tiles -> SessionIds \cup {NoId}]
        /\ search' \in [Spawns -> (SUBSET SessionIds) \cup {NoSearch}]
        /\ TilesSound' /\ (~mixed' => Unmixed')
    <2>1. defs \ {t} \in SUBSET defs
      OBVIOUS
    <2> QED BY <1>1, <1>2, <1>3, <2>1, Forgetting
  <1>5. TypeOK'
    BY <1>1, <1>4 DEF TypeOK
  <1> QED BY <1>4, <1>5

-----------------------------------------------------------------------------
(* Claude and its MCP server *)

LEMMA UpIsSpawned ==
  ASSUME Inv, NEW n \in Spawns, Up(n)
  PROVE  n \in DOMAIN procs /\ ~procs[n].gone /\ procs[n] \in Proc
  <1>1. nextSpawn \in Nat /\ DOMAIN procs = 1 .. nextSpawn - 1
        /\ \A k \in DOMAIN procs : procs[k] \in Proc
    BY SessionsAssumption DEF Inv, TypeOK
  <1>2. n \in 1 .. MaxSpawns /\ MaxSpawns \in Nat /\ n < nextSpawn /\ ~procs[n].gone
    BY SessionsAssumption DEF Up, Spawns
  <1>3. n \in DOMAIN procs
    BY <1>1, <1>2
  <1> QED BY <1>1, <1>2, <1>3

\* The Claude of a terminal that lives writes an id of its own in the file of its tile.
LEMMA Writing ==
  ASSUME Inv, NEW n \in Spawns, Up(n), NEW id \in SessionIds, id[2] = n, WriteBack(n, id),
         DOMAIN procs' = DOMAIN procs,
         \A k \in DOMAIN procs :
           /\ procs'[k] \in Proc
           /\ procs'[k].tile = procs[k].tile /\ procs'[k].gone = procs[k].gone,
         UNCHANGED <<app, counters, transcripts, files, remembered, mixed>>
  PROVE  Inv'
  <1> USE DEF Inv
  <1> DEFINE t == procs[n].tile
  <1>1. n \in DOMAIN procs /\ ~procs[n].gone /\ t \in Tiles
    BY UpIsSpawned DEF Proc
  <1>2. UNCHANGED <<defs, sessionId, registry, pty, search, current, scope, launches, nextTile,
                    nextSpawn, transcripts, files, remembered, mixed>>
    BY DEF app, counters
  <1>3. /\ back' \in [Tiles -> SessionIds \cup {NoId}] /\ back'[t] \in {id, NoId}
        /\ \A u \in Tiles \ {t} : back'[u] = back[u]
    BY <1>1 DEF WriteBack, TypeOK
  <1>4. TypeOK'
    BY <1>2, <1>3 DEF TypeOK
  <1>5. \A u \in Tiles : Alive(u) => pty[u] \in DOMAIN procs
    BY SessionsAssumption DEF TypeOK, TilesSound, Alive
  <1>6. TilesSound'
    BY <1>2, <1>5 DEF TilesSound, Alive
  <1>7. ASSUME ~mixed PROVE Unmixed'
    <2>1. IdsKnown' /\ FilesKnown' /\ OneTerminal'
      BY <1>2, <1>7 DEF Unmixed, IdsKnown, FilesKnown, OneTerminal
    <2>2. ASSUME NEW u \in defs, Alive(u), back'[u] # NoId
          PROVE  back'[u][2] = pty[u]
      <3>1. CASE u = t
        <4>1. pty[t] = n
          BY <1>1, <1>7, <2>2, <3>1 DEF Unmixed, OneTerminal
        <4> QED BY <1>3, <2>2, <3>1, <4>1
      <3>2. CASE u # t
        <4>1. back'[u] = back[u]
          BY <1>3, <2>2, <3>2 DEF TypeOK
        <4> QED BY <1>7, <2>2, <4>1 DEF Unmixed, OwnIds
      <3> QED BY <3>1, <3>2
    <2>3. OwnIds'
      BY <1>2, <1>7, <2>2 DEF Unmixed, OwnIds, Alive
    <2> QED BY <2>1, <2>3 DEF Unmixed
  <1> QED BY <1>2, <1>4, <1>6, <1>7

LEMMA RegisterKeepsInv ==
  ASSUME Inv, NEW n \in Spawns, Register(n)
  PROVE  Inv'
  <1>1. /\ Up(n) /\ WriteBack(n, Real(n)) /\ procs' = procs
        /\ UNCHANGED <<app, counters, transcripts, files, remembered, mixed>>
    BY DEF Register
  <1>2. Real(n) \in SessionIds /\ Real(n)[2] = n
    BY IdsOfTerminal
  <1>3. \A k \in DOMAIN procs : procs'[k] \in Proc
    BY <1>1 DEF Inv, TypeOK
  <1> QED BY <1>1, <1>2, <1>3, Writing

LEMMA ClearKeepsInv ==
  ASSUME Inv, NEW n \in Spawns, Clear(n)
  PROVE  Inv'
  <1>1. /\ Up(n) /\ WriteBack(n, Cleared(n))
        /\ procs' = [procs EXCEPT ![n].cleared = TRUE]
        /\ UNCHANGED <<app, counters, transcripts, files, remembered, mixed>>
    BY DEF Clear
  <1>2. Cleared(n) \in SessionIds /\ Cleared(n)[2] = n
    BY IdsOfTerminal
  <1>3. DOMAIN procs' = DOMAIN procs
        /\ \A k \in DOMAIN procs :
              /\ procs'[k] \in Proc
              /\ procs'[k].tile = procs[k].tile /\ procs'[k].gone = procs[k].gone
    <2>1. \A k \in DOMAIN procs : procs[k] \in Proc
      BY DEF Inv, TypeOK
    <2> QED BY <1>1, <2>1 DEF Proc
  <1> QED BY <1>1, <1>2, <1>3, Writing

LEMMA TalkKeepsInv ==
  ASSUME Inv, NEW n \in Spawns, Talk(n)
  PROVE  Inv'
  <1> USE DEF Inv
  <1>1. /\ transcripts' = transcripts \cup {CurrentId(n)}
        /\ UNCHANGED <<defs, sessionId, registry, pty, search, current, scope, launches,
                       nextTile, nextSpawn, procs, back, files, remembered, mixed>>
    BY DEF Talk, app, counters
  <1>2. transcripts' \subseteq SessionIds
    BY <1>1, IdsOfTerminal DEF TypeOK
  <1>3. TypeOK'
    BY <1>1, <1>2 DEF TypeOK
  <1>4. TilesSound'
    BY <1>1 DEF TilesSound, Alive
  <1>5. Unmixed => Unmixed'
    BY <1>1 DEF Unmixed, IdsKnown, FilesKnown, OneTerminal, OwnIds, Alive
  <1> QED BY <1>1, <1>3, <1>4, <1>5

LEMMA ExitKeepsInv ==
  ASSUME Inv, NEW n \in Spawns, NEW clean \in BOOLEAN, Exit(n, clean)
  PROVE  Inv'
  <1> USE DEF Inv
  <1> DEFINE t == procs[n].tile
  <1>1. n \in DOMAIN procs /\ ~procs[n].gone /\ t \in Tiles
    BY UpIsSpawned DEF Exit, Proc
  <1>2. /\ procs' = [procs EXCEPT ![n].gone = TRUE]
        /\ UNCHANGED <<current, scope, launches, nextTile, nextSpawn, transcripts, files,
                       remembered, mixed>>
    BY DEF Exit, counters
  <1>3. /\ DOMAIN procs' = DOMAIN procs /\ procs'[n].gone
        /\ \A k \in DOMAIN procs :
              /\ procs'[k] \in Proc /\ procs'[k].tile = procs[k].tile
              /\ procs[k].gone => procs'[k].gone
    <2>1. \A k \in DOMAIN procs : procs[k] \in Proc
      BY DEF TypeOK
    <2> QED BY <1>1, <1>2, <2>1 DEF Proc
  <1>4. \A u \in Tiles : Alive(u) => pty[u] \in DOMAIN procs
    BY SessionsAssumption DEF TypeOK, TilesSound, Alive
  <1>5. ~mixed => FilesKnown'
    BY <1>2 DEF Unmixed, FilesKnown
  <1>6. CASE Outlived(n, t)
    <2>1. UNCHANGED <<defs, sessionId, registry, pty, back, search>>
      BY <1>6 DEF Exit
    <2>2. TypeOK'
      BY <1>2, <1>3, <2>1 DEF TypeOK
    <2>3. TilesSound'
      BY <1>2, <1>3, <1>4, <2>1 DEF TilesSound, Alive
    <2>4. ~mixed => Unmixed'
      BY <1>2, <1>3, <1>5, <2>1 DEF Unmixed, IdsKnown, OneTerminal, OwnIds, Alive
    <2> QED BY <1>2, <2>2, <2>3, <2>4
  <1>7. CASE ~Outlived(n, t)
    <2>1. pty[t] = n /\ n # 0 /\ registry' = registry \ {sessionId[t]}
      BY <1>7, SessionsAssumption DEF Exit, Outlived, Spawns
    <2>2. t \in defs /\ Alive(t)
      BY <1>1, <2>1 DEF TilesSound, Alive
    <2>3. ~mixed => \A u \in defs \ {t} : Alive(u) => sessionId[u] \in registry'
      BY <2>1, <2>2 DEF Unmixed, OwnIds
    <2>4. registry' \subseteq SessionIds
      BY <2>1 DEF TypeOK
    <2>5. CASE clean
      <3>1. Forget(defs \ {t}, sessionId)
        BY <1>7, <2>5 DEF Exit
      <3>2. /\ defs' \subseteq Tiles /\ pty' \in [Tiles -> 0 .. MaxSpawns]
            /\ sessionId' \in [Tiles -> SessionIds \cup {NoId}]
            /\ back' \in [Tiles -> SessionIds \cup {NoId}]
            /\ search' \in [Spawns -> (SUBSET SessionIds) \cup {NoSearch}]
            /\ TilesSound' /\ (~mixed' => Unmixed')
        <4>1. defs \ {t} \in SUBSET defs
          OBVIOUS
        <4> QED BY <1>2, <1>3, <1>5, <2>3, <3>1, <4>1, Forgetting
      <3>3. TypeOK'
        BY <1>2, <1>3, <2>4, <3>2 DEF TypeOK
      <3> QED BY <3>2, <3>3
    <2>6. CASE ~clean
      <3>1. pty' = [pty EXCEPT ![t] = 0] /\ UNCHANGED <<defs, sessionId, back, search>>
        BY <1>7, <2>6 DEF Exit
      <3>2. /\ pty' \in [Tiles -> 0 .. MaxSpawns] /\ pty'[t] = 0
            /\ \A u \in Tiles \ {t} : pty'[u] = pty[u]
        BY <1>1, <3>1, SessionsAssumption DEF TypeOK
      <3>3. TypeOK'
        BY <1>2, <1>3, <2>4, <3>1, <3>2 DEF TypeOK
      <3>4. TilesSound'
        BY <1>2, <1>3, <1>4, <3>1, <3>2 DEF TilesSound, Alive
      <3>5. ASSUME ~mixed PROVE Unmixed'
        <4>1. IdsKnown'
          BY <1>2, <3>1, <3>5 DEF Unmixed, IdsKnown
        <4>2. OneTerminal'
          <5> SUFFICES ASSUME NEW k \in DOMAIN procs, ~procs'[k].gone, procs[k].tile \in defs
                       PROVE  pty'[procs[k].tile] = k
            BY <1>3, <3>1 DEF OneTerminal
          <5>1. ~procs[k].gone /\ pty[procs[k].tile] = k /\ k # n
            BY <1>3, <3>5 DEF Unmixed, OneTerminal
          <5>2. procs[k].tile \in Tiles /\ procs[k].tile # t
            BY <2>1, <5>1 DEF TypeOK
          <5> QED BY <3>2, <5>1, <5>2
        <4>3. OwnIds'
          <5> SUFFICES ASSUME NEW u \in defs, pty'[u] # 0
                       PROVE  /\ sessionId[u][2] = pty'[u] /\ sessionId[u] \in registry'
                              /\ back[u] # NoId => back[u][2] = pty'[u]
                              /\ \A v \in defs \ {u} : sessionId[v][2] # pty'[u]
            BY <3>1 DEF OwnIds, Alive
          <5>1. u # t /\ u \in Tiles
            BY <3>2 DEF TypeOK
          <5>2. pty'[u] = pty[u] /\ Alive(u)
            BY <3>2, <5>1 DEF Alive
          <5> QED BY <2>3, <3>5, <5>1, <5>2 DEF Unmixed, OwnIds
        <4> QED BY <1>5, <3>5, <4>1, <4>2, <4>3 DEF Unmixed
      <3> QED BY <1>2, <3>3, <3>4, <3>5
    <2> QED BY <2>5, <2>6
  <1> QED BY <1>6, <1>7

-----------------------------------------------------------------------------
(* The Deck starts *)

LEMMA RelaunchKeepsInv ==
  ASSUME Inv, NEW quit \in BOOLEAN, Relaunch(quit)
  PROVE  Inv'
  <1> USE DEF Inv
  <1>1. /\ ~mixed /\ launches < Len(LaunchArgs) /\ launches' = launches + 1
        /\ scope' = LaunchScope(LaunchArgs[launches'])
        /\ remembered' = remembered \cup Remembering(scope')
        /\ Forget({}, sessionId) /\ registry' = {} /\ current' = NoWorkspace
        /\ UNCHANGED <<nextTile, nextSpawn, procs, transcripts, mixed>>
    BY DEF Relaunch, Calm
  <1>2. launches' \in 1 .. Len(LaunchArgs)
    <2>1. Len(LaunchArgs) \in Nat
      BY SessionsAssumption
    <2> QED BY <1>1, <2>1 DEF TypeOK
  <1>3. scope' \in Scopes
    BY <1>1, <1>2 DEF TypeOK, LaunchScope, Scopes
  <1>4. remembered' \subseteq Custom
    BY <1>1 DEF TypeOK, Remembering
  <1>5. /\ DOMAIN files' = Workspaces
        /\ \A v \in Workspaces : files'[v] = NoFile \/ IsFile(files'[v])
        /\ FilesKnown'
    <2>1. CASE quit /\ current # NoWorkspace
      <3>1. current \in Workspaces /\ SaveTo(current)
        BY <2>1 DEF Relaunch, TypeOK
      <3> QED BY <1>1, <3>1, SavedTo
    <2>2. CASE ~(quit /\ current # NoWorkspace)
      <3>1. files' = files
        BY <2>2 DEF Relaunch
      <3> QED BY <1>1, <3>1 DEF TypeOK, Unmixed, FilesKnown
    <2> QED BY <2>1, <2>2
  <1>6. /\ defs' \subseteq Tiles /\ pty' \in [Tiles -> 0 .. MaxSpawns]
        /\ sessionId' \in [Tiles -> SessionIds \cup {NoId}]
        /\ back' \in [Tiles -> SessionIds \cup {NoId}]
        /\ search' \in [Spawns -> (SUBSET SessionIds) \cup {NoSearch}]
        /\ TilesSound' /\ (~mixed' => Unmixed')
    <2>1. {} \in SUBSET defs
      OBVIOUS
    <2> QED BY <1>1, <1>5, <2>1, Forgetting
  <1>7. TypeOK'
    BY <1>1, <1>2, <1>3, <1>4, <1>5, <1>6 DEF TypeOK
  <1> QED BY <1>6, <1>7

LEMMA InitInv == Init => Inv
  <1> SUFFICES ASSUME Init PROVE Inv
    OBVIOUS
  <1>1. /\ MaxTiles \in Nat /\ MaxSpawns \in Nat /\ Len(LaunchArgs) \in Nat
        /\ 1 \in 1 .. Len(LaunchArgs)
    <2>1. LaunchArgs \in Seq(Custom \cup {Ephemeral}) /\ LaunchArgs # <<>>
      BY SessionsAssumption
    <2>2. Len(LaunchArgs) \in Nat /\ Len(LaunchArgs) # 0
      BY <2>1
    <2> QED BY <2>2, SessionsAssumption
  <1>2. 1 \in 1 .. MaxTiles + 1 /\ 1 \in 1 .. MaxSpawns + 1
    BY <1>1
  <1>3. scope \in Scopes /\ remembered \subseteq Custom
    <2>1. scope = LaunchScope(LaunchArgs[1]) /\ remembered = Remembering(scope) /\ nextSpawn = 1
      BY DEF Init
    <2>2. scope \in Scopes
      BY <1>1, <1>2, <2>1 DEF LaunchScope, Scopes
    <2> QED BY <2>1, <2>2 DEF Remembering
  <1>4. DOMAIN procs = {} /\ 1 .. nextSpawn - 1 = {}
    BY DEF Init
  <1>5. TypeOK
    <2>1. /\ defs \subseteq Tiles /\ registry \subseteq SessionIds /\ transcripts \subseteq SessionIds
          /\ current \in Workspaces \cup {NoWorkspace} /\ mixed \in BOOLEAN
          /\ DOMAIN files = Workspaces /\ \A w \in Workspaces : files[w] = NoFile
      BY DEF Init
    <2>2. /\ sessionId \in [Tiles -> SessionIds \cup {NoId}]
          /\ back \in [Tiles -> SessionIds \cup {NoId}]
          /\ search \in [Spawns -> (SUBSET SessionIds) \cup {NoSearch}]
      BY DEF Init
    <2>3. pty \in [Tiles -> 0 .. MaxSpawns]
      BY <1>1 DEF Init
    <2>4. /\ launches \in 1 .. Len(LaunchArgs)
          /\ nextTile \in 1 .. MaxTiles + 1 /\ nextSpawn \in 1 .. MaxSpawns + 1
      BY <1>1, <1>2 DEF Init
    <2> QED BY <1>3, <1>4, <2>1, <2>2, <2>3, <2>4 DEF TypeOK
  <1>6. TilesSound
    BY <1>4 DEF Init, TilesSound, Alive
  <1>7. Unmixed
    BY <1>4 DEF Init, Unmixed, IdsKnown, FilesKnown, OneTerminal, OwnIds
  <1> QED BY <1>5, <1>6, <1>7 DEF Inv

LEMMA NextKeepsInv == Inv /\ [Next]_vars => Inv'
  <1> SUFFICES ASSUME Inv, [Next]_vars PROVE Inv'
    OBVIOUS
  <1>1. CASE Create
    BY <1>1, CreateKeepsInv
  <1>2. CASE Save
    BY <1>2, SaveKeepsInv
  <1>3. CASE NewClear
    BY <1>3, NewClearKeepsInv
  <1>4. ASSUME NEW t \in Tiles, Restart(t) PROVE Inv'
    BY <1>4, RestartKeepsInv
  <1>5. ASSUME NEW t \in Tiles, Remove(t) PROVE Inv'
    BY <1>5, RemoveKeepsInv
  <1>6. ASSUME NEW w \in Workspaces, Restore(w) PROVE Inv'
    BY <1>6, RestoreKeepsInv
  <1>7. ASSUME NEW n \in Spawns, Poll(n) PROVE Inv'
    BY <1>7, PollKeepsInv
  <1>8. ASSUME NEW n \in Spawns, Register(n) PROVE Inv'
    BY <1>8, RegisterKeepsInv
  <1>9. ASSUME NEW n \in Spawns, Talk(n) PROVE Inv'
    BY <1>9, TalkKeepsInv
  <1>10. ASSUME NEW n \in Spawns, Clear(n) PROVE Inv'
    BY <1>10, ClearKeepsInv
  <1>11. ASSUME NEW n \in Spawns, NEW clean \in BOOLEAN, Exit(n, clean) PROVE Inv'
    BY <1>11, ExitKeepsInv
  <1>12. ASSUME NEW quit \in BOOLEAN, Relaunch(quit) PROVE Inv'
    BY <1>12, RelaunchKeepsInv
  <1>13. CASE UNCHANGED vars
    <2>1. UNCHANGED <<defs, sessionId, registry, pty, search, current, scope, launches, nextTile,
                      nextSpawn, procs, transcripts, back, files, remembered, mixed>>
      BY <1>13 DEF vars, app, counters, disk
    <2>2. TypeOK' = TypeOK
      BY <2>1 DEF TypeOK
    <2>3. TilesSound' = TilesSound
      BY <2>1 DEF TilesSound, Alive
    <2>4. Unmixed' = Unmixed
      BY <2>1 DEF Unmixed, IdsKnown, FilesKnown, OneTerminal, OwnIds, Alive
    <2> QED BY <2>1, <2>2, <2>3, <2>4 DEF Inv
  <1> QED BY <1>1, <1>2, <1>3, <1>4, <1>5, <1>6, <1>7, <1>8, <1>9, <1>10, <1>11, <1>12, <1>13
          DEF Next

LEMMA InvHolds == Spec => []Inv
  BY InitInv, NextKeepsInv, PTL DEF Spec

-----------------------------------------------------------------------------
(* What holds of every behaviour *)

\* Every tile, terminal, search, back-channel file and workspace file has its type.
THEOREM TypeCorrect == Spec => []TypeOK
  <1>1. Inv => TypeOK
    BY DEF Inv
  <1> QED BY <1>1, InvHolds, PTL

\* However creations, restarts, restores, saves, late exits and rewritten back-channel files
\* interleave, a tile with a terminal has the id of that terminal's Claude, unless the
\* fallback of discoverRealId has taken a transcript of another.
THEOREM TilesKnowTheirOwn == Spec => []OwnIdsUnlessMixed
  <1>1. Inv => OwnIdsUnlessMixed
    BY DEF Inv, Unmixed, OwnIds, OwnIdsUnlessMixed
  <1> QED BY <1>1, InvHolds, PTL

\* And that id is open in the registry and the id of no other tile, so that spawnSession
\* opens no session a second time.
THEOREM OpenIdsAreGuarded == Spec => []OpenIdsGuarded
  <1>1. Inv => OpenIdsGuarded
    <2> SUFFICES ASSUME Inv, ~mixed, NEW t \in defs, Alive(t)
                 PROVE  /\ sessionId[t] \in registry
                        /\ \A u \in defs \ {t} : sessionId[u] # sessionId[t]
      BY DEF OpenIdsGuarded
    <2>1. /\ sessionId[t][2] = pty[t] /\ sessionId[t] \in registry
          /\ \A u \in defs \ {t} : sessionId[u][2] # pty[t]
      BY DEF Inv, Unmixed, OwnIds
    <2> QED BY <2>1
  <1> QED BY <1>1, InvHolds, PTL

\* What launches terminals ends none.
LEMMA LaunchesEndNone ==
  ASSUME NEW T, NEW ids, NEW reg, NEW sc, NEW keep, SpawnAll(T, ids, reg, sc, keep)
  PROVE  \A n \in DOMAIN procs : procs'[n].gone => procs[n].gone
  <1> DEFINE New == {t \in T : ids[t] \notin reg}
             N(t) == nextSpawn + Place(t, New)
             TileOf(n) == CHOOSE t \in New : N(t) = n
             Ns == {N(t) : t \in New}
             proc(n) == [tile |-> TileOf(n), scope |-> sc, cleared |-> FALSE, gone |-> FALSE,
                         from |-> IF Resumable(ids[TileOf(n)]) THEN ids[TileOf(n)] ELSE NoId]
  <1>1. procs' = [n \in DOMAIN procs \cup Ns |-> IF n \in Ns THEN proc(n) ELSE procs[n]]
    BY DEF SpawnAll
  <1>2. \A n : proc(n).gone = FALSE
    OBVIOUS
  <1> HIDE DEF proc, Ns
  <1> QED BY <1>1, <1>2

\* The exit event of a terminal that was replaced or killed comes late and finds the entry of
\* its tile another's (pty-manager.ts:63): an exit, clean or not, takes away the terminal and
\* the tile of no other.
THEOREM ExitsCloseTheirOwn == Spec => ExitClosesItsOwn
  <1> DEFINE Ends(n) == ~procs[n].gone /\ procs'[n].gone
             OthersStay(n) == \A t \in defs : Alive(t) /\ pty[t] # n => t \in defs' /\ pty'[t] = pty[t]
             Own == \A n \in DOMAIN procs : Ends(n) => OthersStay(n)
  <1>1. Inv /\ [Next]_vars => [Own]_vars
    <2> SUFFICES ASSUME Inv, Next, NEW k \in DOMAIN procs, Ends(k)
                 PROVE  OthersStay(k)
      OBVIOUS
    <2>1. ASSUME NEW n \in Spawns, NEW clean \in BOOLEAN, Exit(n, clean) PROVE OthersStay(k)
      <3> DEFINE u == procs[n].tile
      <3>1. procs' = [procs EXCEPT ![n].gone = TRUE] /\ defs \subseteq Tiles
            /\ pty \in [Tiles -> 0 .. MaxSpawns]
        BY <2>1 DEF Exit, Inv, TypeOK
      <3>2. k = n
        BY <3>1
      <3>3. CASE Outlived(n, u)
        BY <2>1, <3>3 DEF Exit
      <3>4. CASE ~Outlived(n, u)
        <4> SUFFICES ASSUME NEW t \in defs, pty[t] # n PROVE t \in defs' /\ pty'[t] = pty[t]
          BY <3>2
        <4>1. t # u /\ t \in Tiles
          BY <3>1, <3>4 DEF Outlived
        <4>2. CASE clean
          <5>1. Forget(defs \ {u}, sessionId)
            BY <2>1, <3>4, <4>2 DEF Exit
          <5> QED BY <4>1, <5>1 DEF Forget
        <4>3. CASE ~clean
          <5>1. pty' = [pty EXCEPT ![u] = 0] /\ defs' = defs
            BY <2>1, <3>4, <4>3 DEF Exit
          <5> QED BY <3>1, <4>1, <5>1
        <4> QED BY <4>2, <4>3
      <3> QED BY <3>3, <3>4
    <2>2. CASE Create
      BY <2>2, LaunchesEndNone DEF Create
    <2>3. ASSUME NEW t \in Tiles, Restart(t) PROVE FALSE
      BY <2>3, LaunchesEndNone DEF Restart
    <2>4. ASSUME NEW w \in Workspaces, Restore(w) PROVE FALSE
      BY <2>4, LaunchesEndNone DEF Restore
    <2>5. ASSUME NEW n \in Spawns, Clear(n) PROVE FALSE
      BY <2>5 DEF Clear, Inv, TypeOK, Proc
    <2>6. ASSUME procs' = procs PROVE FALSE
      BY <2>6
    <2>7. ASSUME NEW t \in Tiles, Remove(t) PROVE procs' = procs
      BY <2>7 DEF Remove
    <2>8. ASSUME NEW n \in Spawns, Poll(n) \/ Register(n) \/ Talk(n) PROVE procs' = procs
      BY <2>8 DEF Poll, Register, Talk
    <2>9. ASSUME NEW quit \in BOOLEAN, Relaunch(quit) PROVE procs' = procs
      BY <2>9 DEF Relaunch
    <2>10. Save \/ NewClear => procs' = procs
      BY DEF Save, NewClear
    <2> HIDE DEF Ends, OthersStay
    <2> QED BY <2>1, <2>2, <2>3, <2>4, <2>5, <2>6, <2>7, <2>8, <2>9, <2>10 DEF Next
  <1> QED BY <1>1, InvHolds, PTL DEF Spec, ExitClosesItsOwn

=============================================================================
