----------------------------- MODULE BadgesProofs -----------------------------
(***************************************************************************)
(* Badges and announcements are of the right peers: the theorems behind    *)
(* Badges, for any number of tiles, terminals and names, and any files     *)
(* that earlier runs have left in the directory.                           *)
(***************************************************************************)
EXTENDS Badges, TLAPS

-----------------------------------------------------------------------------
(* The inductive invariant *)

\* Ids of tiles are given out once, and a terminal is the tile's as long as the tile is
\* on the screen.
TilesSound ==
  /\ defs \subseteq 1 .. nextTile - 1 /\ Len(procs) <= MaxSpawns
  /\ \A t \in Tiles : pty[t] <= Len(procs) /\ (Alive(t) => t \in defs)

\* A tile that has yet to be announced has not been, and one that does not exist yet cannot
\* have been.
IntentsSound ==
  \A t \in Tiles : /\ joins[t] <= 1
                   /\ runtime[t].announce \/ t >= nextTile => joins[t] = 0

\* The name is the one that a terminal's peer has registered under, or the peer has been
\* renamed since.
NameOf(ps, n, name) == n \in DOMAIN ps /\ (ps[n].renamed \/ ps[n].name = name)

\* So are the names in the files of the terminals of this Deck,
FilesSound ==
  \A k \in DOMAIN cache : cache[k].id <= MaxSpawns => NameOf(procs, cache[k].id, cache[k].name)

\* and the names in announcements, unless they were guessed.
PostSound(ps, post) ==
  post.newcomer \in DOMAIN ps /\ (post.guessed \/ NameOf(ps, post.newcomer, post.about))
Excused(ps, post) == post.newcomer \in DOMAIN ps /\ (post.guessed \/ ps[post.newcomer].renamed)
PostsSound ==
  /\ \A post \in posts : PostSound(procs, post)
  /\ \A post \in toldSelf : Excused(procs, post)

Inv ==
  TypeOK /\ TilesSound /\ ThinkingEnds /\ IntentsSound /\ FilesSound /\ PostsSound
-----------------------------------------------------------------------------
(* Steps *)

\* Terminals are only added, and a name that was given is kept until it is changed.
Grown ==
  \A n \in DOMAIN procs :
    /\ n \in DOMAIN procs' /\ (procs[n].renamed => procs'[n].renamed)
    /\ procs[n].name = NoName \/ procs'[n].name = procs[n].name \/ procs'[n].renamed

LEMMA StillNamed ==
  ASSUME Grown, NEW n, NEW name \in Names, NameOf(procs, n, name)
  PROVE  NameOf(procs', n, name)
  BY BadgesAssumption DEF Grown, NameOf

\* What has to be shown of a step about names: the files and announcements that are new.
LEMMA NamesKeepSound ==
  ASSUME Inv, Grown,
         \A k \in DOMAIN cache' :
           \/ k \in DOMAIN cache /\ cache'[k] = cache[k]
           \/ NameOf(procs', cache'[k].id, cache'[k].name),
         \A post \in posts' : post \in posts \/ PostSound(procs', post),
         \A post \in toldSelf' : post \in toldSelf \/ Excused(procs', post)
  PROVE  FilesSound' /\ PostsSound'
  <1> USE DEF Inv
  <1>1. FilesSound'
    <2> SUFFICES ASSUME NEW k \in DOMAIN cache', cache'[k].id <= MaxSpawns
                 PROVE  NameOf(procs', cache'[k].id, cache'[k].name)
      BY DEF FilesSound
    <2>1. CASE k \in DOMAIN cache /\ cache'[k] = cache[k]
      <3>1. cache[k].name \in Names
        <4>1. cache[k] \in CacheFile
          BY <2>1 DEF TypeOK
        <4> QED BY <4>1 DEF CacheFile
      <3>2. NameOf(procs, cache[k].id, cache[k].name)
        BY <2>1 DEF FilesSound
      <3>3. NameOf(procs', cache[k].id, cache[k].name)
        BY <3>1, <3>2, StillNamed
      <3> QED BY <2>1, <3>3
    <2> QED BY <2>1
  <1>2. \A post \in posts' : PostSound(procs', post)
    <2> SUFFICES ASSUME NEW post \in posts PROVE PostSound(procs', post)
      OBVIOUS
    <2>1. PostSound(procs, post) /\ post.about \in Names
      BY DEF PostsSound, TypeOK, Post
    <2>2. NameOf(procs, post.newcomer, post.about) => NameOf(procs', post.newcomer, post.about)
      BY <2>1, StillNamed
    <2> QED BY <2>1, <2>2 DEF PostSound, Grown
  <1>3. \A post \in toldSelf' : Excused(procs', post)
    BY DEF PostsSound, Excused, Grown
  <1> QED BY <1>1, <1>2, <1>3 DEF PostsSound

\* Most steps leave files and announcements alone.
LEMMA NamesUntouched ==
  ASSUME Inv, Grown, UNCHANGED <<cache, posts, toldSelf>>
  PROVE  FilesSound' /\ PostsSound'
  BY NamesKeepSound

LEMMA Appended ==
  ASSUME NEW S, NEW a \in Seq(S), NEW b \in Seq(S)
  PROVE  /\ a \o b \in Seq(S) /\ Len(a \o b) = Len(a) + Len(b)
         /\ \A k \in 1 .. Len(a) : (a \o b)[k] = a[k]
  OBVIOUS

\* What the tiles that get no terminal may have.
Others(terminals, ids) ==
  /\ terminals \in [Tiles -> 0 .. MaxSpawns] /\ \A t \in Tiles : terminals[t] <= Len(procs)
  /\ ids \in [Tiles -> SessionIds]

\* Terminals for a list of tiles come after the ones there are.
LEMMA Spawning ==
  ASSUME Inv, NEW order \in Seq(Tiles), NEW before, NEW ids,
         Others(before, ids), Spawned(order, before, ids)
  PROVE  /\ pty' \in [Tiles -> 0 .. MaxSpawns]
         /\ sessionId' \in [Tiles -> SessionIds] /\ deskFile' \in [Tiles -> SessionIds]
         /\ procs' \in Seq(Proc) /\ Len(procs') <= MaxSpawns /\ Grown
         /\ \A t \in Tiles : /\ pty'[t] <= Len(procs')
                             /\ pty'[t] = before[t] \/ \E k \in DOMAIN order : order[k] = t
  <1> USE DEF Inv
  <1> DEFINE T == {order[k] : k \in DOMAIN order}
             Turn(t) == CHOOSE k \in DOMAIN order : order[k] = t
             new == [k \in DOMAIN order |-> [tile |-> order[k], name |-> NoName,
                                             renamed |-> FALSE, gone |-> FALSE]]
  <1>1. /\ Len(procs) + Len(order) <= MaxSpawns
        /\ pty' = [t \in Tiles |-> IF t \in T THEN Len(procs) + Turn(t) ELSE before[t]]
        /\ sessionId' = [t \in Tiles |-> IF t \in T THEN Placeholder ELSE ids[t]]
        /\ deskFile' = [t \in Tiles |-> IF t \in T THEN Placeholder ELSE deskFile[t]]
        /\ procs' = procs \o new
    BY DEF Spawned
  <1>2. procs \in Seq(Proc) /\ MaxSpawns \in Nat /\ Len(procs) \in Nat /\ Len(order) \in Nat
    BY BadgesAssumption DEF TypeOK
  <1>3. new \in Seq(Proc) /\ Len(new) = Len(order)
    <2>1. \A k \in DOMAIN order : [tile |-> order[k], name |-> NoName,
                                   renamed |-> FALSE, gone |-> FALSE] \in Proc
      BY DEF Proc
    <2>2. DOMAIN order = 1 .. Len(order)
      OBVIOUS
    <2>3. new \in [1 .. Len(order) -> Proc]
      BY <2>1, <2>2
    <2> HIDE DEF new
    <2> QED BY <1>2, <2>3
  <1> HIDE DEF new
  <1>4. /\ procs' \in Seq(Proc) /\ Len(procs') = Len(procs) + Len(order)
        /\ \A n \in DOMAIN procs : n \in DOMAIN procs' /\ procs'[n] = procs[n]
    <2>1. /\ procs \o new \in Seq(Proc) /\ Len(procs \o new) = Len(procs) + Len(new)
          /\ \A n \in 1 .. Len(procs) : (procs \o new)[n] = procs[n]
      BY <1>2, <1>3, Appended
    <2>2. DOMAIN procs = 1 .. Len(procs) /\ DOMAIN procs' = 1 .. Len(procs')
      BY <1>1, <1>2, <2>1
    <2> QED BY <1>1, <1>2, <1>3, <2>1, <2>2
  <1>5. \A t \in T : Turn(t) \in 1 .. Len(order)
    <2>1. DOMAIN order = 1 .. Len(order)
      OBVIOUS
    <2> QED BY <2>1
  <1> HIDE DEF Turn
  <1>6. /\ pty' \in [Tiles -> 0 .. MaxSpawns]
        /\ \A t \in Tiles : pty'[t] <= Len(procs') /\ (pty'[t] = before[t] \/ t \in T)
    <2> SUFFICES ASSUME NEW t \in Tiles
                 PROVE  LET n == IF t \in T THEN Len(procs) + Turn(t) ELSE before[t] IN
                        n \in 0 .. MaxSpawns /\ n <= Len(procs')
      BY <1>1
    <2>1. before[t] \in 0 .. MaxSpawns /\ before[t] <= Len(procs)
      BY DEF Others
    <2> HIDE DEF T
    <2> QED BY <1>1, <1>2, <1>4, <1>5, <2>1
  <1>7. sessionId' \in [Tiles -> SessionIds] /\ deskFile' \in [Tiles -> SessionIds]
    <2>1. Placeholder \in SessionIds
      BY <1>2 DEF Placeholder, SessionIds
    <2>2. ids \in [Tiles -> SessionIds] /\ deskFile \in [Tiles -> SessionIds]
      BY DEF TypeOK, Others
    <2> HIDE DEF T
    <2> QED BY <1>1, <2>1, <2>2
  <1>8. Len(procs') <= MaxSpawns /\ Grown
    BY <1>1, <1>4 DEF Grown
  <1> QED BY <1>4, <1>6, <1>7, <1>8

LEMMA NoneGrown == procs' = procs => Grown
  BY DEF Grown

\* What a tile may be made to look like.
LEMMA States ==
  /\ \A b \in BOOLEAN : Blank(b) \in RuntimeState /\ ~Blank(b).thinking /\ Blank(b).announce = b
  /\ \A r \in RuntimeState :
       /\ Crashed(r) \in RuntimeState
       /\ ~Crashed(r).thinking /\ Crashed(r).announce = r.announce
  <1>1. \A b \in BOOLEAN : Blank(b) \in RuntimeState /\ ~Blank(b).thinking /\ Blank(b).announce = b
    BY DEF Blank, RuntimeState
  <1>2. ASSUME NEW r \in RuntimeState
        PROVE  /\ Crashed(r) \in RuntimeState
               /\ ~Crashed(r).thinking /\ Crashed(r).announce = r.announce
    BY DEF Crashed, RuntimeState
  <1> QED BY <1>1, <1>2

-----------------------------------------------------------------------------
(* Tiles and terminals *)

LEMMA CreateKeepsInv == Inv /\ Create => Inv'
  <1> SUFFICES ASSUME Inv, Create PROVE Inv'
    OBVIOUS
  <1> USE DEF Inv
  <1> DEFINE new == nextTile
             order == <<nextTile>>
             fresh == Blank(TRUE)
  <1>1. /\ new \in Tiles /\ nextTile' = nextTile + 1 /\ defs' = defs \cup {new}
        /\ runtime' = [runtime EXCEPT ![new] = fresh]
        /\ Spawned(order, pty, sessionId)
        /\ UNCHANGED <<timers, cache, posts, troubles, joins, toldSelf>>
    BY BadgesAssumption DEF Create, history, Tiles, TypeOK
  <1>11. fresh \in RuntimeState /\ ~fresh.thinking
    BY States
  <1> HIDE DEF fresh
  <1>2. order \in Seq(Tiles) /\ \A t \in Tiles : (\E k \in DOMAIN order : order[k] = t) => t = new
    BY <1>1
  <1> HIDE DEF order
  <1>3. Others(pty, sessionId)
    BY DEF TypeOK, TilesSound, Others
  <1>4. /\ pty' \in [Tiles -> 0 .. MaxSpawns]
        /\ sessionId' \in [Tiles -> SessionIds] /\ deskFile' \in [Tiles -> SessionIds]
        /\ procs' \in Seq(Proc) /\ Len(procs') <= MaxSpawns /\ Grown
        /\ \A t \in Tiles : pty'[t] <= Len(procs') /\ (pty'[t] = pty[t] \/ t = new)
    BY <1>1, <1>2, <1>3, Spawning
  <1>5. /\ runtime' \in [Tiles -> RuntimeState] /\ ~runtime'[new].thinking
        /\ \A t \in Tiles \ {new} : runtime'[t] = runtime[t]
    BY <1>1, <1>11 DEF TypeOK
  <1>6. nextTile \in Nat /\ nextTile' \in 1 .. MaxTiles + 1 /\ defs' \subseteq 1 .. nextTile' - 1
        /\ new \notin timers
    BY <1>1, BadgesAssumption DEF TypeOK, TilesSound, Tiles
  <1>7. TypeOK'
    BY <1>1, <1>4, <1>5, <1>6 DEF TypeOK
  <1>8. TilesSound'
    BY <1>1, <1>4, <1>6 DEF TilesSound, Alive
  <1>9. ThinkingEnds'
    BY <1>1, <1>5, <1>6 DEF ThinkingEnds
  <1>10. IntentsSound'
    <2> SUFFICES ASSUME NEW t \in Tiles
                 PROVE  /\ joins[t] <= 1
                        /\ runtime'[t].announce \/ t >= nextTile + 1 => joins[t] = 0
      BY <1>1 DEF IntentsSound
    <2>1. joins[t] <= 1 /\ (runtime[t].announce \/ t >= nextTile => joins[t] = 0)
      BY DEF IntentsSound
    <2>2. t \in Nat
      BY DEF Tiles
    <2>3. CASE t = new
      BY <1>6, <2>1, <2>3
    <2>4. CASE t # new
      BY <1>5, <1>6, <2>1, <2>2, <2>4
    <2> QED BY <2>3, <2>4
  <1> QED BY <1>1, <1>4, <1>7, <1>8, <1>9, <1>10, NamesUntouched

LEMMA RestoreKeepsInv ==
  ASSUME Inv, NEW next \in nextTile .. MaxTiles + 1, Restore(next)
  PROVE  Inv'
  <1> USE DEF Inv
  <1> DEFINE T == nextTile .. next - 1
             order == [k \in 1 .. next - nextTile |-> nextTile + k - 1]
             none == [t \in Tiles |-> 0]
             blank == [t \in Tiles |-> Placeholder]
  <1>1. /\ nextTile' = next /\ defs' = T
        /\ runtime' = [t \in Tiles |-> Blank(FALSE)] /\ timers' = {}
        /\ Spawned(order, none, blank)
        /\ UNCHANGED <<cache, posts, troubles, joins, toldSelf>>
    BY DEF Restore, history
  <1>2. nextTile \in Nat \ {0} /\ next \in 1 .. MaxTiles + 1 /\ next \in Nat /\ nextTile <= next
        /\ MaxTiles \in Nat
    BY BadgesAssumption DEF TypeOK
  <1>3. /\ T \subseteq Tiles /\ T \subseteq 1 .. next - 1
        /\ order \in Seq(Tiles) /\ \A k \in DOMAIN order : order[k] \in T
    <2>1. \A k \in 1 .. next - nextTile : nextTile + k - 1 \in T
      BY <1>2
    <2>2. T \subseteq Tiles /\ T \subseteq 1 .. next - 1
      BY <1>2 DEF Tiles
    <2>3. order \in [1 .. next - nextTile -> Tiles] /\ next - nextTile \in Nat
      BY <1>2, <2>1, <2>2
    <2> QED BY <2>1, <2>2, <2>3
  <1>4. Others(none, blank) /\ \A t \in Tiles : none[t] = 0
    <2>1. 0 <= Len(procs) /\ 0 \in 0 .. MaxSpawns /\ Placeholder \in SessionIds
      BY BadgesAssumption DEF TypeOK, Placeholder, SessionIds
    <2> QED BY <2>1 DEF Others
  <1> HIDE DEF none, blank, order
  <1>5. /\ pty' \in [Tiles -> 0 .. MaxSpawns]
        /\ sessionId' \in [Tiles -> SessionIds] /\ deskFile' \in [Tiles -> SessionIds]
        /\ procs' \in Seq(Proc) /\ Len(procs') <= MaxSpawns /\ Grown
        /\ \A t \in Tiles : pty'[t] <= Len(procs') /\ (pty'[t] = 0 \/ t \in T)
    <2>1. /\ pty' \in [Tiles -> 0 .. MaxSpawns]
          /\ sessionId' \in [Tiles -> SessionIds] /\ deskFile' \in [Tiles -> SessionIds]
          /\ procs' \in Seq(Proc) /\ Len(procs') <= MaxSpawns /\ Grown
          /\ \A t \in Tiles : /\ pty'[t] <= Len(procs')
                              /\ pty'[t] = none[t] \/ \E k \in DOMAIN order : order[k] = t
      BY <1>1, <1>3, <1>4, Spawning
    <2> QED BY <1>3, <1>4, <2>1
  <1> HIDE DEF T
  <1>6. /\ runtime' \in [Tiles -> RuntimeState]
        /\ \A t \in Tiles : ~runtime'[t].thinking /\ ~runtime'[t].announce
    BY <1>1, States
  <1>7. TypeOK'
    BY <1>1, <1>2, <1>3, <1>5, <1>6 DEF TypeOK
  <1>8. TilesSound'
    BY <1>1, <1>3, <1>5 DEF TilesSound, Alive
  <1>9. ThinkingEnds'
    BY <1>1, <1>6 DEF ThinkingEnds
  <1>10. IntentsSound'
    <2> SUFFICES ASSUME NEW t \in Tiles
                 PROVE  /\ joins[t] <= 1
                        /\ runtime'[t].announce \/ t >= next => joins[t] = 0
      BY <1>1 DEF IntentsSound
    <2>1. t \in Nat
      BY DEF Tiles
    <2> QED BY <1>2, <1>6, <2>1 DEF IntentsSound
  <1> QED BY <1>1, <1>5, <1>7, <1>8, <1>9, <1>10, NamesUntouched

LEMMA RestartKeepsInv ==
  ASSUME Inv, NEW t \in Tiles, Restart(t)
  PROVE  Inv'
  <1> USE DEF Inv
  <1> DEFINE order == <<t>>
  <1>1. /\ t \in defs /\ Spawned(order, pty, sessionId)
        /\ UNCHANGED <<defs, runtime, timers, nextTile, cache, posts, troubles, joins, toldSelf>>
    BY DEF Restart, history
  <1>2. order \in Seq(Tiles) /\ \A u \in Tiles : (\E k \in DOMAIN order : order[k] = u) => u = t
    OBVIOUS
  <1> HIDE DEF order
  <1>3. Others(pty, sessionId)
    BY DEF TypeOK, TilesSound, Others
  <1>4. /\ pty' \in [Tiles -> 0 .. MaxSpawns]
        /\ sessionId' \in [Tiles -> SessionIds] /\ deskFile' \in [Tiles -> SessionIds]
        /\ procs' \in Seq(Proc) /\ Len(procs') <= MaxSpawns /\ Grown
        /\ \A u \in Tiles : pty'[u] <= Len(procs') /\ (pty'[u] = pty[u] \/ u = t)
    BY <1>1, <1>2, <1>3, Spawning
  <1>5. TypeOK'
    BY <1>1, <1>4 DEF TypeOK
  <1>6. TilesSound'
    BY <1>1, <1>4 DEF TilesSound, Alive
  <1>7. ThinkingEnds' /\ IntentsSound'
    BY <1>1 DEF ThinkingEnds, IntentsSound
  <1> QED BY <1>1, <1>4, <1>5, <1>6, <1>7, NamesUntouched

\* Tiles that go take their terminals, their state and their timers with them.
LEMMA Closing ==
  ASSUME Inv, NEW T \in SUBSET Tiles, Close(T),
         Len(procs') = Len(procs), UNCHANGED <<nextTile, joins>>
  PROVE  /\ defs' \subseteq Tiles /\ timers' \subseteq defs'
         /\ pty' \in [Tiles -> 0 .. MaxSpawns] /\ sessionId' \in [Tiles -> SessionIds]
         /\ runtime' \in [Tiles -> RuntimeState]
         /\ TilesSound' /\ ThinkingEnds' /\ IntentsSound'
  <1> USE DEF Inv
  <1>1. /\ defs' = defs \ T /\ timers' = timers \ T
        /\ pty' = [t \in Tiles |-> IF t \in T THEN 0 ELSE pty[t]]
        /\ sessionId' = [t \in Tiles |-> IF t \in T THEN Placeholder ELSE sessionId[t]]
        /\ runtime' = [t \in Tiles |-> IF t \in T THEN Blank(FALSE) ELSE runtime[t]]
    BY DEF Close, Silenced
  <1>2. pty' \in [Tiles -> 0 .. MaxSpawns] /\ sessionId' \in [Tiles -> SessionIds]
    <2>1. 0 \in 0 .. MaxSpawns /\ Placeholder \in SessionIds
      BY BadgesAssumption DEF Placeholder, SessionIds
    <2> QED BY <1>1, <2>1 DEF TypeOK
  <1>3. /\ runtime' \in [Tiles -> RuntimeState]
        /\ \A t \in Tiles : IF t \in T THEN ~runtime'[t].thinking /\ ~runtime'[t].announce
                            ELSE runtime'[t] = runtime[t]
    <2>1. Blank(FALSE) \in RuntimeState /\ ~Blank(FALSE).thinking /\ ~Blank(FALSE).announce
      BY States
    <2> QED BY <1>1, <2>1 DEF TypeOK
  <1>4. TilesSound'
    <2>1. 0 <= Len(procs)
      BY DEF TypeOK
    <2>2. \A t \in Tiles : pty'[t] = IF t \in T THEN 0 ELSE pty[t]
      BY <1>1
    <2> QED BY <1>1, <2>1, <2>2 DEF TilesSound, Alive
  <1>5. ThinkingEnds' /\ IntentsSound'
    BY <1>1, <1>3 DEF ThinkingEnds, IntentsSound
  <1> QED BY <1>1, <1>2, <1>3, <1>4, <1>5 DEF TypeOK

LEMMA CloseKeepsInv ==
  ASSUME Inv, CloseAll \/ \E t \in Tiles : Remove(t)
  PROVE  Inv'
  <1> USE DEF Inv
  <1>1. PICK T \in SUBSET Tiles : Close(T)
    BY DEF CloseAll, Remove, TypeOK
  <1>2. UNCHANGED <<deskFile, nextTile, procs, cache, posts, troubles, joins, toldSelf>>
    BY DEF CloseAll, Remove, history
  <1>3. /\ defs' \subseteq Tiles /\ timers' \subseteq defs'
        /\ pty' \in [Tiles -> 0 .. MaxSpawns] /\ sessionId' \in [Tiles -> SessionIds]
        /\ runtime' \in [Tiles -> RuntimeState]
        /\ TilesSound' /\ ThinkingEnds' /\ IntentsSound'
    BY <1>1, <1>2, Closing
  <1>4. TypeOK'
    BY <1>2, <1>3 DEF TypeOK
  <1> QED BY <1>2, <1>3, <1>4, NoneGrown, NamesUntouched

LEMMA ExitKeepsInv ==
  ASSUME Inv, NEW n \in DOMAIN procs, NEW clean \in BOOLEAN, Exit(n, clean)
  PROVE  Inv'
  <1> USE DEF Inv
  <1> DEFINE t == procs[n].tile
  <1>1. /\ procs' = [procs EXCEPT ![n].gone = TRUE]
        /\ UNCHANGED <<deskFile, nextTile, cache, posts, joins, toldSelf>>
    BY DEF Exit, history
  <1>2. procs[n] \in Proc /\ t \in Tiles
    <2>1. procs[n] \in Proc
      BY DEF TypeOK
    <2> QED BY <2>1 DEF Proc
  <1>3. /\ procs' \in Seq(Proc) /\ Len(procs') = Len(procs) /\ Grown
    <2>1. [procs[n] EXCEPT !.gone = TRUE] \in Proc
      BY <1>2 DEF Proc
    <2>2. procs' \in Seq(Proc) /\ Len(procs') = Len(procs) /\ DOMAIN procs' = DOMAIN procs
      BY <1>1, <2>1 DEF TypeOK
    <2>3. \A m \in DOMAIN procs : procs'[m].name = procs[m].name /\ procs'[m].renamed = procs[m].renamed
      BY <1>1, <1>2 DEF TypeOK, Proc
    <2> QED BY <2>2, <2>3 DEF Grown
  <1>4. troubles' \in 0 .. MaxTroubles
    BY BadgesAssumption DEF Exit, Trouble, TypeOK
  <1>5. /\ defs' \subseteq Tiles /\ timers' \subseteq defs'
        /\ pty' \in [Tiles -> 0 .. MaxSpawns] /\ sessionId' \in [Tiles -> SessionIds]
        /\ runtime' \in [Tiles -> RuntimeState]
        /\ TilesSound' /\ ThinkingEnds' /\ IntentsSound'
    <2>1. CASE UNCHANGED <<defs, pty, sessionId, runtime, timers>>
      BY <1>1, <1>3, <2>1 DEF TypeOK, TilesSound, Alive, ThinkingEnds, IntentsSound
    <2>2. CASE Close({t})
      BY <1>1, <1>2, <1>3, <2>2, Closing
    <2>3. CASE /\ pty[t] = n /\ pty' = [pty EXCEPT ![t] = 0]
               /\ runtime' = [runtime EXCEPT ![t] = Crashed(runtime[t])]
               /\ timers' = timers \ {t} /\ UNCHANGED <<defs, sessionId>>
      <3>1. 0 \in 0 .. MaxSpawns /\ Len(procs) \in Nat
        BY BadgesAssumption DEF TypeOK
      <3>2. pty' \in [Tiles -> 0 .. MaxSpawns] /\ timers' \subseteq defs'
        BY <2>3, <3>1 DEF TypeOK
      <3>3. TilesSound'
        BY <1>1, <1>2, <1>3, <2>3, <3>1 DEF TilesSound, Alive, TypeOK
      <3>4. /\ runtime' \in [Tiles -> RuntimeState]
            /\ ~runtime'[t].thinking /\ runtime'[t].announce = runtime[t].announce
            /\ \A u \in Tiles \ {t} : runtime'[u] = runtime[u]
        BY <1>2, <2>3, States DEF TypeOK
      <3> HIDE DEF t
      <3>5. ThinkingEnds' /\ IntentsSound'
        BY <1>1, <2>3, <3>4 DEF ThinkingEnds, IntentsSound
      <3> QED BY <2>3, <3>2, <3>3, <3>4, <3>5 DEF TypeOK
    <2> QED BY <2>1, <2>2, <2>3 DEF Exit, Silenced
  <1>6. TypeOK'
    BY <1>1, <1>3, <1>4, <1>5 DEF TypeOK
  <1> QED BY <1>1, <1>3, <1>5, <1>6, NamesUntouched

-----------------------------------------------------------------------------
(* The servers *)

\* Of the tiles only their sessions and back-channel files are touched.
LEMMA TilesUntouched ==
  ASSUME Inv, UNCHANGED <<defs, pty, runtime, timers, nextTile, joins>>,
         Len(procs') = Len(procs)
  PROVE  TilesSound' /\ ThinkingEnds' /\ IntentsSound'
  BY DEF Inv, TilesSound, Alive, ThinkingEnds, IntentsSound

LEMMA RegisterKeepsInv ==
  ASSUME Inv, NEW n \in DOMAIN procs, Register(n)
  PROVE  Inv'
  <1> USE DEF Inv
  <1>1. PICK name \in Names : /\ procs' = [procs EXCEPT ![n].name = name]
                              /\ cache' = Append(cache, [id |-> n, name |-> name])
    BY DEF Register, FreeNames, WritePeerIdCache
  <1>2. /\ procs[n].name = NoName /\ deskFile' = [deskFile EXCEPT ![procs[n].tile] = n]
        /\ UNCHANGED <<defs, pty, sessionId, runtime, timers, nextTile, posts, troubles,
                       joins, toldSelf>>
    BY DEF Register, Registered, history
  <1>3. /\ procs[n] \in Proc /\ n \in 1 .. Len(procs) /\ Len(procs) <= MaxSpawns
        /\ n \in Nat /\ n \in SessionIds
    BY BadgesAssumption DEF TypeOK, TilesSound, SessionIds
  <1>4. /\ procs' \in Seq(Proc) /\ Len(procs') = Len(procs) /\ DOMAIN procs' = DOMAIN procs
        /\ procs'[n].name = name
        /\ \A m \in DOMAIN procs : /\ procs'[m].renamed = procs[m].renamed
                                   /\ m # n => procs'[m].name = procs[m].name
    <2>1. [procs[n] EXCEPT !.name = name] \in Proc
      BY <1>3 DEF Proc
    <2>2. procs' \in Seq(Proc) /\ Len(procs') = Len(procs) /\ DOMAIN procs' = DOMAIN procs
      BY <1>1, <2>1 DEF TypeOK
    <2>3. procs'[n] = [procs[n] EXCEPT !.name = name] /\ \A m \in DOMAIN procs \ {n} : procs'[m] = procs[m]
      BY <1>1 DEF TypeOK
    <2> QED BY <1>3, <2>2, <2>3 DEF Proc
  <1>5. Grown
    BY <1>2, <1>4 DEF Grown
  <1>6. deskFile' \in [Tiles -> SessionIds]
    BY <1>2, <1>3 DEF TypeOK
  <1>7. /\ cache' \in Seq(CacheFile)
        /\ \A k \in DOMAIN cache' : \/ k \in DOMAIN cache /\ cache'[k] = cache[k]
                                    \/ cache'[k].id = n /\ cache'[k].name = name
    <2> DEFINE f == [id |-> n, name |-> name]
    <2>1. f \in CacheFile /\ f.id = n /\ f.name = name
      BY <1>3 DEF CacheFile
    <2> HIDE DEF f
    <2>2. cache' = Append(cache, f) /\ cache \in Seq(CacheFile)
      BY <1>1 DEF TypeOK, f
    <2> QED BY <2>1, <2>2
  <1>8. TypeOK'
    BY <1>2, <1>4, <1>6, <1>7 DEF TypeOK
  <1>9. \A k \in DOMAIN cache' : \/ k \in DOMAIN cache /\ cache'[k] = cache[k]
                                 \/ NameOf(procs', cache'[k].id, cache'[k].name)
    BY <1>4, <1>7 DEF NameOf
  <1>10. FilesSound' /\ PostsSound'
    BY <1>2, <1>5, <1>9, NamesKeepSound
  <1> QED BY <1>2, <1>4, <1>8, <1>10, TilesUntouched

LEMMA SetIdKeepsInv ==
  ASSUME Inv, NEW n \in DOMAIN procs, SetId(n)
  PROVE  Inv'
  <1> USE DEF Inv
  <1>1. PICK name \in Names : procs' = [procs EXCEPT ![n].name = name, ![n].renamed = TRUE]
    BY DEF SetId, FreeNames
  <1>2. /\ troubles' \in 0 .. MaxTroubles
        /\ UNCHANGED <<defs, pty, sessionId, deskFile, runtime, timers, nextTile, cache, posts,
                       joins, toldSelf>>
    BY BadgesAssumption DEF SetId, Trouble, history, tiles, TypeOK
  <1>3. procs[n] \in Proc
    BY DEF TypeOK
  <1>4. /\ procs' \in Seq(Proc) /\ Len(procs') = Len(procs) /\ Grown
    <2> DEFINE q == [[procs[n] EXCEPT !.name = name] EXCEPT !.renamed = TRUE]
    <2>1. q \in Proc /\ q.renamed
      BY <1>3 DEF Proc
    <2>2. procs \in Seq(Proc) /\ procs' = [procs EXCEPT ![n] = q]
      BY <1>1 DEF TypeOK
    <2> HIDE DEF q
    <2>3. /\ procs' \in Seq(Proc) /\ Len(procs') = Len(procs) /\ DOMAIN procs' = DOMAIN procs
          /\ procs'[n] = q /\ \A m \in DOMAIN procs \ {n} : procs'[m] = procs[m]
      BY <2>1, <2>2
    <2> QED BY <2>1, <2>3 DEF Grown
  <1>5. TypeOK'
    BY <1>2, <1>4 DEF TypeOK
  <1> QED BY <1>2, <1>4, <1>5, TilesUntouched, NamesUntouched

\* Sessions are started, cleared and discovered.
LEMMA SessionKeepsInv ==
  ASSUME Inv, \/ \E n \in DOMAIN procs : SessionStart(n)
              \/ \E t \in Tiles : Clear(t) \/ Discover(t)
  PROVE  Inv'
  <1> USE DEF Inv
  <1>1. UNCHANGED <<defs, pty, runtime, timers, nextTile, procs, cache, posts, joins, toldSelf>>
    BY DEF SessionStart, Clear, Discover, history
  <1>2. MaxSpawns \in Nat /\ \A n \in DOMAIN procs : n \in SessionIds
    BY BadgesAssumption DEF TypeOK, TilesSound, SessionIds
  <1>3. deskFile' \in [Tiles -> SessionIds] /\ sessionId' \in [Tiles -> SessionIds]
    <2>1. ASSUME NEW n \in DOMAIN procs, SessionStart(n)
          PROVE  deskFile' \in [Tiles -> SessionIds] /\ sessionId' = sessionId
      BY <1>2, <2>1 DEF SessionStart, TypeOK
    <2>2. ASSUME NEW t \in Tiles, Clear(t)
          PROVE  deskFile' \in [Tiles -> SessionIds] /\ sessionId' = sessionId
      <3>1. Cleared \in SessionIds
        BY <1>2 DEF Cleared, SessionIds
      <3> QED BY <2>2, <3>1 DEF Clear, TypeOK
    <2>3. ASSUME NEW t \in Tiles, Discover(t)
          PROVE  sessionId' \in [Tiles -> SessionIds] /\ deskFile' = deskFile
      <3>1. PICK id \in SessionIds : sessionId' = [sessionId EXCEPT ![t] = id]
        <4>1. deskFile[t] \in SessionIds
          BY DEF TypeOK
        <4> QED BY <1>2, <2>3, <4>1 DEF Discover
      <3>2. sessionId \in [Tiles -> SessionIds] /\ deskFile' = deskFile
        BY <2>3 DEF Discover, TypeOK
      <3> QED BY <3>1, <3>2
    <2> QED BY <2>1, <2>2, <2>3 DEF TypeOK
  <1>4. troubles' \in 0 .. MaxTroubles
    BY BadgesAssumption DEF SessionStart, Clear, Discover, Trouble, TypeOK
  <1>5. TypeOK'
    BY <1>1, <1>3, <1>4 DEF TypeOK
  <1> QED BY <1>1, <1>5, TilesUntouched, NoneGrown, NamesUntouched

-----------------------------------------------------------------------------
(* Names and announcements *)

\* What a poll finds is a name of some file, and that of the terminal's own peer where the
\* tile is known to have its session.
LEMMA PolledSound ==
  ASSUME Inv, NEW t \in Tiles
  PROVE  /\ Polled(t) \in Names \cup {NoName}
         /\ Polled(t) # NoName => pty[t] \in DOMAIN procs /\ pty[t] \in Spawns
         /\ Polled(t) # NoName /\ Identified(t) => NameOf(procs, pty[t], Polled(t))
  <1> USE DEF Inv
  <1>1. ResolvePeerId(t) \in Names \cup {NoName}
    <2>1. \A k \in DOMAIN cache : cache[k].name \in Names
      <3> SUFFICES ASSUME NEW k \in DOMAIN cache PROVE cache[k].name \in Names
        OBVIOUS
      <3>1. cache[k] \in CacheFile
        BY DEF TypeOK
      <3> QED BY <3>1 DEF CacheFile
    <2>2. CASE OwnFile(t) # {}
      <3>1. (CHOOSE k \in OwnFile(t) : TRUE) \in OwnFile(t)
        BY <2>2
      <3> QED BY <2>1, <2>2, <3>1 DEF ResolvePeerId, OwnFile
    <2>3. CASE OwnFile(t) = {}
      <3>1. cache # <<>> => Len(cache) \in DOMAIN cache
        BY DEF TypeOK
      <3> QED BY <2>1, <2>3, <3>1 DEF ResolvePeerId, Newest
    <2> QED BY <2>2, <2>3
  <1>2. Alive(t) => pty[t] \in DOMAIN procs /\ pty[t] \in Spawns
    <2>1. pty[t] \in 0 .. MaxSpawns /\ pty[t] <= Len(procs) /\ procs \in Seq(Proc)
      BY DEF TypeOK, TilesSound
    <2> QED BY <2>1, BadgesAssumption DEF Alive, Spawns
  <1>3. ASSUME Identified(t) PROVE NameOf(procs, pty[t], Polled(t))
    <2> DEFINE own == CHOOSE k \in OwnFile(t) : TRUE
    <2>1. Alive(t) /\ sessionId[t] = pty[t] /\ OwnFile(t) # {}
      BY <1>3 DEF Identified, OwnFile
    <2>2. own \in OwnFile(t)
      BY <2>1
    <2>3. own \in DOMAIN cache /\ cache[own].id = pty[t] /\ Polled(t) = cache[own].name
      BY <2>1, <2>2 DEF Polled, ResolvePeerId, OwnFile
    <2>4. pty[t] <= MaxSpawns
      BY BadgesAssumption DEF TypeOK
    <2> HIDE DEF own
    <2> QED BY <2>3, <2>4 DEF FilesSound
  <1> QED BY <1>1, <1>2, <1>3 DEF Polled

LEMMA PollKeepsInv == Inv /\ PollPeerIds => Inv'
  <1> SUFFICES ASSUME Inv, PollPeerIds PROVE Inv'
    OBVIOUS
  <1> USE DEF Inv
  <1> DEFINE new == {t \in defs : Joining(t)}
  <1>1. /\ runtime' = [t \in Tiles |-> IF t \in defs THEN Noted(runtime[t], Polled(t)) ELSE runtime[t]]
        /\ posts' = posts \cup {Announced(t) : t \in new}
        /\ joins' = [t \in Tiles |-> joins[t] + (IF t \in new THEN 1 ELSE 0)]
        /\ UNCHANGED <<defs, pty, sessionId, deskFile, timers, nextTile, procs, cache, troubles,
                       toldSelf>>
    BY DEF PollPeerIds
  <1>2. defs \subseteq Tiles
    BY DEF TypeOK
  <1>3. \A t \in Tiles :
          /\ runtime'[t] \in RuntimeState /\ runtime'[t].thinking = runtime[t].thinking
          /\ runtime'[t].announce => runtime[t].announce /\ t \notin new
    <2> SUFFICES ASSUME NEW t \in Tiles
                 PROVE  /\ runtime'[t] \in RuntimeState
                        /\ runtime'[t].thinking = runtime[t].thinking
                        /\ runtime'[t].announce => runtime[t].announce /\ t \notin new
      OBVIOUS
    <2>1. runtime[t] \in RuntimeState /\ Polled(t) \in Names \cup {NoName}
      BY PolledSound DEF TypeOK
    <2>2. CASE t \notin defs
      BY <1>1, <2>1, <2>2
    <2>3. CASE t \in defs
      <3> DEFINE r == runtime[t]
                 name == Polled(t)
      <3>1. runtime'[t] = [r EXCEPT !.announce = IF name # NoName /\ r.peerId = NoName
                                                 THEN FALSE ELSE r.announce,
                                    !.peerId = name]
        BY <1>1, <2>3 DEF Noted
      <3>2. t \in new => name # NoName /\ r.peerId = NoName
        BY DEF Joining
      <3> HIDE DEF r, name, new
      <3>3. r \in RuntimeState /\ name \in Names \cup {NoName}
        BY <2>1 DEF r, name
      <3>4. /\ runtime'[t] \in RuntimeState /\ runtime'[t].thinking = r.thinking
            /\ runtime'[t].announce => r.announce /\ t \notin new
        BY <3>1, <3>2, <3>3 DEF RuntimeState
      <3> QED BY <3>4 DEF r
    <2> QED BY <2>2, <2>3
  <1>4. \A post \in posts' : post \in posts \/ (PostSound(procs, post) /\ post \in Post)
    <2> SUFFICES ASSUME NEW t \in new
                 PROVE  PostSound(procs, Announced(t)) /\ Announced(t) \in Post
      BY <1>1
    <2>1. t \in Tiles /\ Polled(t) # NoName
      BY <1>2 DEF Joining
    <2>2. /\ Polled(t) \in Names /\ pty[t] \in DOMAIN procs /\ pty[t] \in Spawns
          /\ Identified(t) => NameOf(procs, pty[t], Polled(t))
      BY <2>1, PolledSound
    <2>3. Identified(t) \in BOOLEAN
      BY DEF Identified
    <2> QED BY <2>2, <2>3 DEF Announced, Post, PostSound
  <1>5. runtime' \in [Tiles -> RuntimeState]
    BY <1>1, <1>3
  <1>6. joins' \in [Tiles -> Nat]
    <2>1. joins \in [Tiles -> Nat]
      BY DEF TypeOK
    <2> HIDE DEF new
    <2> QED BY <1>1, <2>1
  <1>7. TypeOK'
    BY <1>1, <1>4, <1>5, <1>6 DEF TypeOK
  <1>8. TilesSound' /\ ThinkingEnds'
    BY <1>1, <1>3 DEF TilesSound, Alive, ThinkingEnds
  <1>9. IntentsSound'
    <2> SUFFICES ASSUME NEW t \in Tiles
                 PROVE  /\ joins'[t] <= 1
                        /\ runtime'[t].announce \/ t >= nextTile => joins'[t] = 0
      BY <1>1 DEF IntentsSound
    <2>1. joins[t] \in Nat /\ joins[t] <= 1 /\ (runtime[t].announce \/ t >= nextTile => joins[t] = 0)
      BY DEF TypeOK, IntentsSound
    <2>2. CASE t \in new
      <3>1. runtime[t].announce /\ ~(t >= nextTile)
        BY <2>2 DEF Joining, TypeOK, TilesSound
      <3> QED BY <1>1, <1>3, <2>1, <2>2, <3>1
    <2>3. CASE t \notin new
      BY <1>1, <1>3, <2>1, <2>3
    <2> QED BY <2>2, <2>3
  <1>10. FilesSound' /\ PostsSound'
    <2> HIDE DEF new
    <2>1. Grown
      BY <1>1, NoneGrown
    <2> QED BY <1>1, <1>4, <2>1, NamesKeepSound
  <1> QED BY <1>7, <1>8, <1>9, <1>10

\* An announcement reaches the newcomer only under a name that is not, or no longer, its own.
LEMMA DeliverKeepsInv ==
  ASSUME Inv, NEW post \in posts, Deliver(post) \/ Fail(post)
  PROVE  Inv'
  <1> USE DEF Inv
  <1>1. /\ posts' = posts \ {post}
        /\ UNCHANGED <<defs, pty, sessionId, deskFile, runtime, timers, nextTile, procs, cache, joins>>
        /\ troubles' \in 0 .. MaxTroubles
    BY BadgesAssumption DEF Deliver, Fail, Trouble, tiles, history, TypeOK
  <1>2. \A p \in toldSelf' : p \in toldSelf \/ (p = post /\ post.newcomer \in Recipients(post))
    BY DEF Deliver, Fail, history
  <1>3. post.newcomer \in Recipients(post) => Excused(procs, post)
    BY DEF PostsSound, PostSound, NameOf, Recipients, Excused
  <1>4. TypeOK'
    BY <1>1, <1>2 DEF TypeOK
  <1>5. FilesSound' /\ PostsSound'
    <2>1. Grown
      BY <1>1, NoneGrown
    <2> QED BY <1>1, <1>2, <1>3, <2>1, NamesKeepSound
  <1> QED BY <1>1, <1>4, <1>5, TilesUntouched

-----------------------------------------------------------------------------
(* Thinking *)

\* A tile begins or ends to think with its timer.
LEMMA ThinkKeepsInv ==
  ASSUME Inv, (\E n \in DOMAIN procs : Output(n)) \/ \E t \in Tiles : Idle(t)
  PROVE  Inv'
  <1> USE DEF Inv
  <1>1. PICK t \in Tiles, busy \in BOOLEAN :
          /\ t \in defs /\ Thinks(t, busy)
          /\ timers' = IF busy THEN timers \cup {t} ELSE timers \ {t}
    <2>1. ASSUME NEW n \in DOMAIN procs, Output(n)
          PROVE  /\ procs[n].tile \in Tiles /\ procs[n].tile \in defs /\ Thinks(procs[n].tile, TRUE)
                 /\ timers' = timers \cup {procs[n].tile}
      <3>1. procs[n] \in Proc
        BY DEF TypeOK
      <3>2. procs[n].tile \in Tiles
        BY <3>1 DEF Proc
      <3> QED BY <2>1, <3>2 DEF Output, Feed, TilesSound
    <2>2. ASSUME NEW t \in Tiles, Idle(t)
          PROVE  t \in defs /\ Thinks(t, FALSE) /\ timers' = timers \ {t}
      BY <2>2 DEF Idle, TypeOK
    <2> QED BY <2>1, <2>2
  <1>2. UNCHANGED <<defs, pty, sessionId, deskFile, nextTile, procs, cache, posts, troubles,
                    joins, toldSelf>>
    BY DEF Output, Idle, history
  <1>3. /\ runtime' \in [Tiles -> RuntimeState] /\ runtime'[t].thinking = busy
        /\ runtime'[t].announce = runtime[t].announce
        /\ \A u \in Tiles \ {t} : runtime'[u] = runtime[u]
    <2>1. runtime[t] \in RuntimeState /\ runtime' = [runtime EXCEPT ![t] = [runtime[t] EXCEPT !.thinking = busy]]
      BY <1>1 DEF Thinks, TypeOK
    <2>2. [runtime[t] EXCEPT !.thinking = busy] \in RuntimeState
      BY <2>1 DEF RuntimeState
    <2> QED BY <2>1, <2>2 DEF TypeOK, RuntimeState
  <1>4. TypeOK'
    BY <1>1, <1>2, <1>3 DEF TypeOK
  <1>5. TilesSound' /\ IntentsSound'
    BY <1>2, <1>3 DEF TilesSound, Alive, IntentsSound
  <1>6. ThinkingEnds'
    BY <1>1, <1>3 DEF ThinkingEnds
  <1> QED BY <1>2, <1>4, <1>5, <1>6, NoneGrown, NamesUntouched

-----------------------------------------------------------------------------
(* The theorems *)

LEMMA InitInv == Init => Inv
  <1> SUFFICES ASSUME Init PROVE Inv
    OBVIOUS
  <1> USE BadgesAssumption DEF Init
  <1>1. TypeOK
    <2>1. Blank(FALSE) \in RuntimeState
      BY States
    <2>2. 0 \in 0 .. MaxSpawns /\ Placeholder \in SessionIds /\ 1 \in 1 .. MaxTiles + 1
      BY DEF Placeholder, SessionIds
    <2>3. procs \in Seq(Proc) /\ cache \in Seq(CacheFile)
      OBVIOUS
    <2>4. /\ pty \in [Tiles -> 0 .. MaxSpawns] /\ runtime \in [Tiles -> RuntimeState]
          /\ sessionId \in [Tiles -> SessionIds] /\ deskFile \in [Tiles -> SessionIds]
      BY <2>1, <2>2
    <2>5. nextTile \in 1 .. MaxTiles + 1 /\ troubles \in 0 .. MaxTroubles /\ joins \in [Tiles -> Nat]
      BY <2>2
    <2> QED BY <2>3, <2>4, <2>5 DEF TypeOK
  <1>2. TilesSound
    BY DEF TilesSound, Alive
  <1>3. ThinkingEnds /\ IntentsSound
    <2>1. ~Blank(FALSE).thinking
      BY States
    <2>2. \A t \in Tiles : runtime[t] = Blank(FALSE) /\ joins[t] = 0
      OBVIOUS
    <2>3. ThinkingEnds
      BY <2>1, <2>2 DEF ThinkingEnds
    <2>4. IntentsSound
      <3>1. 0 <= 1
        OBVIOUS
      <3> QED BY <2>2, <3>1 DEF IntentsSound
    <2> QED BY <2>3, <2>4
  <1>4. FilesSound
    <2> SUFFICES ASSUME NEW k \in DOMAIN cache PROVE ~(cache[k].id <= MaxSpawns)
      BY DEF FilesSound
    <2>1. cache[k] \in CacheFile /\ cache[k].id > MaxSpawns + 1
      OBVIOUS
    <2>2. cache[k].id \in Nat
      BY <2>1 DEF CacheFile
    <2> QED BY <2>1, <2>2
  <1>5. PostsSound
    BY DEF PostsSound
  <1> QED BY <1>1, <1>2, <1>3, <1>4, <1>5 DEF Inv

LEMMA NextInv == Inv /\ [Next]_vars => Inv'
  <1> SUFFICES ASSUME Inv, [Next]_vars PROVE Inv'
    OBVIOUS
  <1>1. CASE UNCHANGED vars
    BY <1>1 DEF Inv, TypeOK, TilesSound, Alive, ThinkingEnds, IntentsSound, FilesSound, PostsSound,
       vars, tiles, history
  <1>2. CASE Create \/ CloseAll \/ PollPeerIds
    BY <1>2, CreateKeepsInv, CloseKeepsInv, PollKeepsInv
  <1>3. CASE \E next \in nextTile .. MaxTiles + 1 : Restore(next)
    BY <1>3, RestoreKeepsInv
  <1>4. CASE \E t \in Tiles : Restart(t) \/ Remove(t) \/ Discover(t) \/ Clear(t) \/ Idle(t)
    BY <1>4, RestartKeepsInv, CloseKeepsInv, SessionKeepsInv, ThinkKeepsInv
  <1>5. CASE \E n \in DOMAIN procs : SessionStart(n) \/ Register(n) \/ SetId(n) \/ Output(n)
    BY <1>5, SessionKeepsInv, RegisterKeepsInv, SetIdKeepsInv, ThinkKeepsInv
  <1>6. CASE \E n \in DOMAIN procs, clean \in BOOLEAN : Exit(n, clean)
    BY <1>6, ExitKeepsInv
  <1>7. CASE \E post \in posts : Deliver(post) \/ Fail(post)
    BY <1>7, DeliverKeepsInv
  <1> QED BY <1>1, <1>2, <1>3, <1>4, <1>5, <1>6, <1>7 DEF Next

\* The inductive invariant: terminals belong to tiles on the screen, cache files name their
\* own peers, and announcements name the newcomer unless the name was guessed.
THEOREM Invariant == Spec => []Inv
  <1> QED BY InitInv, NextInv, PTL DEF Spec

\* No timer is armed for a tile that is gone, and no terminal gets a number out of bounds.
THEOREM TypeCorrect == Spec => []TypeOK
  <1>1. Inv => TypeOK
    BY DEF Inv
  <1> QED BY <1>1, Invariant, PTL

\* A tile thinks exactly as long as a timer will end it, whatever crashes, restarts and late
\* output of replaced terminals come in between (session-service.ts, thinking.ts).
THEOREM NoTileThinksForEver == Spec => []ThinkingEnds
  <1>1. Inv => ThinkingEnds
    BY DEF Inv
  <1> QED BY <1>1, Invariant, PTL

\* The arrival of a tile is announced at most once (the one-shot intent of session-service.ts).
THEOREM ArrivalsAreAnnouncedOnce == Spec => []JoinsOnce
  <1>1. Inv => JoinsOnce
    BY DEF Inv, IntentsSound, JoinsOnce
  <1> QED BY <1>1, Invariant, PTL

\* A newcomer hears of its own arrival only if its name was guessed from another session's
\* file or has changed since (index.ts, broker-client.ts, handleAnnounce).
THEOREM NewcomersAreNotTold == Spec => []JoinerNotTold
  <1>1. Inv => JoinerNotTold
    BY DEF Inv, PostsSound, Excused, JoinerNotTold
  <1> QED BY <1>1, Invariant, PTL

=============================================================================
