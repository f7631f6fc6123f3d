------------------------------- MODULE Sessions -------------------------------
(***************************************************************************)
(* The sessions of a Deck (session-service.ts, pty-manager.ts,             *)
(* open-id-registry.ts, session-transcript.ts, desk-session.ts, scope.ts): *)
(* tiles, their terminals, and how the Deck learns and saves the id under  *)
(* which the Claude of a tile can be resumed.                              *)
(*                                                                         *)
(* Claude mints its own id, whatever id it is launched with.  The Deck     *)
(* launches it with a placeholder and discovers the real id afterwards: in *)
(* a back-channel file that server.ts and a hook write for the tile, or,   *)
(* failing that, as a new transcript of the directory that nobody claims.  *)
(* All tiles are in one directory, as they are by default.                 *)
(*                                                                         *)
(* Handlers of the Deck run to their end; discovery is a loop with a pause *)
(* in it, and exits of terminals are events that come late.                *)
(***************************************************************************)
EXTENDS Naturals, Sequences, FiniteSets

CONSTANTS
  Workspaces,  \* ids of workspace files
  Custom,      \* secrets a Deck can be launched with
  LaunchArgs,  \* what it is launched with, one start after the other
  Remember,    \* rememberScopeSecrets is set and the OS can encrypt
  Ephemeral,   \* the scopeKind of a scope that nobody can enter again
  NoId, NoFile, NoSearch, NoWorkspace, \* null
  MaxTiles, MaxSpawns, \* bounds: tiles, terminals
  MaxTroubles  \* bound: /clear, exits and restarts of the Deck, in all

Tiles == 1 .. MaxTiles
Spawns == 1 .. MaxSpawns

\* Ids are unique, so they are told apart by the terminal they were minted for: the
\* placeholder of its launch, Claude's own id, and the id after a /clear.
Placeholder(n) == <<"launch", n>>
Real(n) == <<"real", n>>
Cleared(n) == <<"clear", n>>
SessionIds == {"launch", "real", "clear"} \X Spawns

ASSUME SessionsAssumption ==
  /\ MaxTiles \in Nat /\ MaxSpawns \in Nat
  /\ MaxTroubles \in Nat
  /\ LaunchArgs \in Seq(Custom \cup {Ephemeral}) /\ LaunchArgs # <<>>
  /\ Remember \in BOOLEAN /\ Ephemeral \notin Custom /\ NoWorkspace \notin Workspaces
  /\ NoId \notin SessionIds

\* An ephemeral scope is told apart by the terminal that will be its first.
Scopes == Custom \cup (1 .. MaxSpawns + 1)

VARIABLES
  defs,        \* the tiles
  sessionId,   \* of each tile
  registry,    \* OpenIdRegistry
  pty,         \* PtyManager: the terminal of each tile, 0 if there is none
  search,      \* discoverRealId, for each terminal: the transcripts before the launch
  current,     \* the workspace the Deck has open
  scope, remembered, \* activeScope; scopes whose secret is stored
  launches, nextTile, nextSpawn, \* counters
  procs,       \* Claude with its MCP server in each terminal that was spawned
  transcripts, \* ids that have a transcript
  back,        \* back-channel file of each tile that the Deck has
  files,       \* workspace files: the session id of each tile, and the scope
  mixed        \* history: a tile has taken another terminal's transcript for its own

app == <<defs, sessionId, registry, pty, search, current, scope>>
counters == <<launches, nextTile, nextSpawn>>
disk == <<transcripts, back, files, remembered>>
vars == <<app, counters, procs, disk, mixed>>

Proc == [tile : Tiles, scope : Scopes, from : SessionIds \cup {NoId},
         cleared : BOOLEAN, gone : BOOLEAN]
IsFile(f) == /\ DOMAIN f.ids \subseteq Tiles
             /\ \A t \in DOMAIN f.ids : f.ids[t] \in SessionIds
             /\ f.scope \in Custom \cup {Ephemeral}

Alive(t) == pty[t] # 0
HasLiveSessions == \E t \in defs : Alive(t)
\* Bound: once ids have been mixed up, only saves, restarts, exits, and what goes on by
\* itself are looked at.
Calm == ~mixed

Troubles == Cardinality({n \in DOMAIN procs : procs[n].cleared})
            + Cardinality({n \in DOMAIN procs : procs[n].gone}) + (launches - 1)
MoreTroubles == Troubles < MaxTroubles

CurrentId(n) == IF procs[n].cleared THEN Cleared(n) ELSE Real(n)

\* How many of the tiles of T come before t.
Place(t, T) == Cardinality({u \in T : u < t})

\* What is known of tiles when only those of T are left.  Their terminals are killed;
\* a discovery ends when it finds no terminal, and nobody reads their files again.
Forget(T, ids) ==
  /\ defs' = T
  /\ sessionId' = [t \in Tiles |-> IF t \in T THEN ids[t] ELSE NoId]
  /\ pty' = [t \in Tiles |-> IF t \in T THEN pty[t] ELSE 0]
  /\ back' = [t \in Tiles |-> IF t \in T THEN back[t] ELSE NoId]
  /\ search' = [n \in Spawns |-> IF search[n] # NoSearch /\ procs[n].tile \notin T
                                 THEN NoSearch ELSE search[n]]

-----------------------------------------------------------------------------
(* Launching terminals *)

\* transcriptExists
Resumable(id) == id # NoId /\ id \in transcripts

\* Mutant: the file of the tile's last terminal is left.
BackAtLaunchKept(New, keep) == [t \in Tiles |-> IF t \in keep THEN back[t] ELSE NoId]

\* deleteDeskSessionFile, before a terminal is launched
BackAtLaunch(New, keep) == [t \in Tiles |-> IF t \in keep \ New THEN back[t] ELSE NoId]

\* spawnSession and startPty for the tiles of T in their order, where ids is what they
\* are to resume, except for those whose id is open already; other tiles keep their
\* terminals if they are in keep.
SpawnAll(T, ids, reg, sc, keep) ==
  LET New == {t \in T : ids[t] \notin reg}
      N(t) == nextSpawn + Place(t, New)
      TileOf(n) == CHOOSE t \in New : N(t) = n
      Ns == {N(t) : t \in New}
  IN /\ nextSpawn + Cardinality(New) <= MaxSpawns + 1
     /\ nextSpawn' = nextSpawn + Cardinality(New)
     /\ sessionId' = [t \in Tiles |-> IF t \in New THEN Placeholder(N(t))
                                      ELSE IF t \in T THEN ids[t]
                                      ELSE IF t \in keep THEN sessionId[t] ELSE NoId]
     /\ registry' = reg \cup {Placeholder(n) : n \in Ns}
     /\ back' = BackAtLaunch(New, keep)
     /\ pty' = [t \in Tiles |-> IF t \in New THEN N(t) ELSE IF t \in keep THEN pty[t] ELSE 0]
     /\ search' = [n \in Spawns |-> IF n \in Ns THEN transcripts
                                    ELSE IF keep = {} THEN NoSearch ELSE search[n]]
     /\ procs' = [n \in DOMAIN procs \cup Ns |->
                    IF n \in Ns
                    THEN [tile |-> TileOf(n), scope |-> sc, cleared |-> FALSE, gone |-> FALSE,
                          from |-> IF Resumable(ids[TileOf(n)]) THEN ids[TileOf(n)] ELSE NoId]
                    ELSE procs[n]]

Create ==
  /\ Calm /\ nextTile <= MaxTiles
  /\ defs' = defs \cup {nextTile} /\ nextTile' = nextTile + 1
  /\ SpawnAll({nextTile}, [t \in {nextTile} |-> NoId], registry, scope, Tiles)
  /\ UNCHANGED <<current, scope, launches, transcripts, files, remembered, mixed>>

\* restart; a tile whose id is open is left alone, so a dead one is what it is for
Restart(t) ==
  /\ t \in defs /\ sessionId[t] \notin registry
  /\ SpawnAll({t}, sessionId, registry, scope, Tiles)
  /\ UNCHANGED <<defs, current, scope, launches, nextTile, transcripts, files, remembered,
                 mixed>>

-----------------------------------------------------------------------------
(* Learning the id *)

\* Mutant: the real id is not added.
AdoptedUnguarded(reg, old, new) == reg \ {old}

\* adoptRealId: what it makes of the registry
Adopted(reg, old, new) == (reg \ {old}) \cup {new}

Adopt(n, t, id) ==
  /\ registry' = Adopted(registry, Placeholder(n), id)
  /\ sessionId' = [sessionId EXCEPT ![t] = id]
  /\ search' = [search EXCEPT ![n] = NoSearch]

\* pickDiscoveredId: any transcript of the directory may be the newest
Candidates(n) == transcripts \ (search[n] \cup (registry \ {Placeholder(n)}))

\* one round of the loop of discoverRealId, which may also run no further (the deadline)
Poll(n) ==
  LET t == procs[n].tile IN
  /\ search[n] # NoSearch
  /\ IF ~Alive(t)
     THEN search' = [search EXCEPT ![n] = NoSearch] /\ UNCHANGED <<sessionId, registry, mixed>>
     ELSE IF back[t] \notin {NoId, sessionId[t]}
     THEN Adopt(n, t, back[t]) /\ mixed' = mixed
     ELSE \E id \in Candidates(n) \ {sessionId[t]} :
            Adopt(n, t, id) /\ mixed' = (mixed \/ id[2] # pty[t])
  /\ UNCHANGED <<defs, pty, current, scope, counters, procs, disk>>

-----------------------------------------------------------------------------
(* Saving and restoring *)

\* refreshLiveSessionIds
Rotated == {t \in defs : Alive(t) /\ back[t] # sessionId[t] /\ Resumable(back[t])}
RefreshedIds == [t \in Tiles |-> IF t \in Rotated THEN back[t] ELSE sessionId[t]]
RefreshedRegistry ==
  {id \in registry \cup {back[t] : t \in Rotated} :
     LET released == {t \in Rotated : sessionId[t] = id} IN
     released # {} => \E t \in Rotated : back[t] = id /\ \A r \in released : r < t}

Capture(ids, T, sc) ==
  [ids |-> [t \in T |-> ids[t]], scope |-> IF sc \in Custom THEN sc ELSE Ephemeral]

\* persist of the workspace service
SaveTo(w) == files' = [files EXCEPT ![w] = Capture(RefreshedIds, defs, scope)]

Save ==
  /\ IF current # NoWorkspace
     THEN SaveTo(current) /\ current' = current
     ELSE \E w \in Workspaces : files[w] = NoFile /\ SaveTo(w) /\ current' = w
  /\ sessionId' = RefreshedIds /\ registry' = RefreshedRegistry
  /\ UNCHANGED <<defs, pty, search, scope, counters, procs, transcripts, back, remembered,
                 mixed>>

ReleaseAll(reg, ids, T) == reg \ {ids[t] : t \in T}

\* startNew and closeAll
NewClear ==
  /\ Calm
  /\ defs # {} \/ current # NoWorkspace
  /\ IF current # NoWorkspace
     THEN SaveTo(current) /\ registry' = ReleaseAll(RefreshedRegistry, RefreshedIds, defs)
     ELSE registry' = ReleaseAll(registry, sessionId, defs) /\ files' = files
  /\ current' = NoWorkspace
  /\ Forget({}, sessionId)
  /\ UNCHANGED <<scope, counters, procs, transcripts, remembered, mixed>>

\* adoptScope, resolveAdoptedScope and the secrets that were remembered
AdoptedScope(ws) ==
  IF HasLiveSessions \/ scope = ws.scope THEN scope
  ELSE IF ws.scope \in remembered THEN ws.scope
  ELSE nextSpawn

\* the scope that the terminals of a restored workspace get
RestoredScope(w) == AdoptedScope(files[w])

\* restore: fresh tiles in the order of the old ones; the save comes before anything
\* can be known of the new terminals
Restore(w) ==
  LET ws == files[w]
      Old == DOMAIN ws.ids
      TileFor(t) == nextTile + Place(t, Old)
      T == {TileFor(t) : t \in Old}
      ids == [u \in T |-> ws.ids[CHOOSE t \in Old : TileFor(t) = u]]
  IN /\ Calm /\ w # current /\ ws # NoFile
     /\ nextTile + Cardinality(Old) <= MaxTiles + 1
     /\ nextTile' = nextTile + Cardinality(Old)
     /\ scope' = AdoptedScope(ws)
     /\ defs' = T
     /\ SpawnAll(T, ids, ReleaseAll(registry, sessionId, defs), RestoredScope(w), {})
     /\ current' = w
     /\ files' = [files EXCEPT ![w] = Capture(sessionId', T, scope')]
     /\ UNCHANGED <<launches, transcripts, remembered, mixed>>

\* remove
Remove(t) ==
  /\ Calm /\ t \in defs
  /\ Forget(defs \ {t}, sessionId)
  /\ registry' = registry \ {sessionId[t]}
  /\ UNCHANGED <<current, scope, counters, procs, transcripts, files, remembered, mixed>>

-----------------------------------------------------------------------------
(* Claude and its MCP server in a terminal, killed or not *)

Up(n) == n < nextSpawn /\ ~procs[n].gone

\* writeDeskSessionFile
WriteBack(n, id) ==
  back' = [back EXCEPT ![procs[n].tile] = IF procs[n].tile \in defs THEN id ELSE NoId]

\* server.ts writes the id it was started with, at its start and at every switch_group;
\* the hook writes the same at startup
Register(n) ==
  /\ Up(n) /\ procs[n].tile \in defs
  /\ WriteBack(n, Real(n))
  /\ UNCHANGED <<app, counters, procs, transcripts, files, remembered, mixed>>

\* a transcript is written when there is something to write
Talk(n) ==
  /\ Calm /\ Up(n) /\ CurrentId(n) \notin transcripts
  /\ transcripts' = transcripts \cup {CurrentId(n)}
  /\ UNCHANGED <<app, counters, procs, back, files, remembered, mixed>>

\* /clear: the hook writes the new id
Clear(n) ==
  /\ Calm /\ Up(n) /\ ~procs[n].cleared
  /\ MoreTroubles
  /\ procs' = [procs EXCEPT ![n].cleared = TRUE]
  /\ WriteBack(n, Cleared(n))
  /\ UNCHANGED <<app, counters, transcripts, files, remembered, mixed>>

\* Mutant: the exit of a terminal that was replaced counts.
OutlivedNever(n, t) == pty[t] = 0

\* The entry of the tile is another terminal's.
Outlived(n, t) == pty[t] # n

\* onExit, and the exit handler of the service for a terminal that is still the one of
\* its tile: a clean exit closes the tile
Exit(n, clean) ==
  LET t == procs[n].tile IN
  /\ Up(n)
  /\ MoreTroubles
  /\ procs' = [procs EXCEPT ![n].gone = TRUE]
  /\ IF Outlived(n, t)
     THEN UNCHANGED <<defs, sessionId, registry, pty, back, search>>
     ELSE /\ registry' = registry \ {sessionId[t]}
          /\ IF clean
             THEN Forget(defs \ {t}, sessionId)
             ELSE /\ pty' = [pty EXCEPT ![t] = 0]
                  /\ UNCHANGED <<defs, sessionId, back, search>>
  /\ UNCHANGED <<current, scope, counters, transcripts, files, remembered, mixed>>

-----------------------------------------------------------------------------
(* The Deck quits or crashes, and is started again *)

\* computeScope, and rememberScopeSecret
LaunchScope(arg) == IF arg \in Custom THEN arg ELSE nextSpawn
\* Mutant: any secret is stored.
RememberingAny(sc) == IF Remember THEN {sc} ELSE {}

Remembering(sc) == IF Remember THEN {sc} \cap Custom ELSE {}

Relaunch(quit) ==
  /\ Calm /\ MoreTroubles /\ launches < Len(LaunchArgs) /\ launches' = launches + 1
  /\ IF quit /\ current # NoWorkspace THEN SaveTo(current) ELSE files' = files
  /\ scope' = LaunchScope(LaunchArgs[launches'])
  /\ remembered' = remembered \cup Remembering(scope')
  /\ Forget({}, sessionId) /\ registry' = {} /\ current' = NoWorkspace
  /\ UNCHANGED <<nextTile, nextSpawn, procs, transcripts, mixed>>

-----------------------------------------------------------------------------
Init ==
  /\ defs = {} /\ sessionId = [t \in Tiles |-> NoId] /\ registry = {}
  /\ pty = [t \in Tiles |-> 0]
  /\ search = [n \in Spawns |-> NoSearch]
  /\ current = NoWorkspace
  /\ launches = 1 /\ nextTile = 1 /\ nextSpawn = 1
  /\ scope = LaunchScope(LaunchArgs[1])
  /\ remembered = Remembering(scope)
  /\ procs = <<>>
  /\ transcripts = {} /\ back = [t \in Tiles |-> NoId]
  /\ files = [w \in Workspaces |-> NoFile]
  /\ mixed = FALSE

Next ==
  \/ Create \/ Save \/ NewClear
  \/ \E t \in Tiles : Restart(t) \/ Remove(t)
  \/ \E w \in Workspaces : Restore(w)
  \/ \E n \in Spawns : Poll(n) \/ Register(n) \/ Talk(n) \/ Clear(n)
  \/ \E n \in Spawns, clean \in BOOLEAN : Exit(n, clean)
  \/ \E quit \in BOOLEAN : Relaunch(quit)

Spec == Init /\ [][Next]_vars

-----------------------------------------------------------------------------
(* Invariants *)

TypeOK ==
  /\ defs \subseteq Tiles
  /\ sessionId \in [Tiles -> SessionIds \cup {NoId}]
  /\ registry \subseteq SessionIds
  /\ pty \in [Tiles -> 0 .. MaxSpawns]
  /\ search \in [Spawns -> (SUBSET SessionIds) \cup {NoSearch}]
  /\ current \in Workspaces \cup {NoWorkspace}
  /\ scope \in Scopes /\ remembered \subseteq Custom
  /\ launches \in 1 .. Len(LaunchArgs)
  /\ nextTile \in 1 .. MaxTiles + 1 /\ nextSpawn \in 1 .. MaxSpawns + 1
  /\ DOMAIN procs = 1 .. nextSpawn - 1 /\ \A n \in DOMAIN procs : procs[n] \in Proc
  /\ transcripts \subseteq SessionIds
  /\ back \in [Tiles -> SessionIds \cup {NoId}]
  /\ DOMAIN files = Workspaces
  /\ \A w \in Workspaces : files[w] = NoFile \/ IsFile(files[w])
  /\ mixed \in BOOLEAN

\* A tile never gets the id of another terminal's Claude, current or earlier: not from a
\* back-channel file that was left or is written late, nor from a save, a restore or a
\* restart.  Only the fallback, which takes a transcript that nobody claims, has done
\* that when mixed is set.
OwnIdsUnlessMixed ==
  ~mixed => \A t \in defs : Alive(t) => sessionId[t][2] = pty[t]

\* The id of a live session is registered, so that it is not opened a second time, and
\* no two sessions have one id, unless the fallback has mixed them up.
OpenIdsGuarded ==
  ~mixed => \A t \in defs : Alive(t) =>
    sessionId[t] \in registry /\ \A u \in defs \ {t} : sessionId[u] # sessionId[t]

-----------------------------------------------------------------------------
(* Action properties *)

\* "The dying proc's late, asynchronous onExit must NOT emit" (pty-manager.ts:63): an exit
\* takes away no terminal and no tile but its own.
ExitClosesItsOwn ==
  [][\A n \in DOMAIN procs :  ~procs[n].gone /\ procs'[n].gone =>
       \A t \in defs : Alive(t) /\ pty[t] # n => t \in defs' /\ pty'[t] = pty[t]]_vars

\* "A session that had real activity is resumed with its Claude context"
\* (desktop/README.md:119): what was resumed once can be resumed again.
ContextSurvives ==
  [][\A w \in Workspaces : Restore(w) =>
       \A t \in DOMAIN files[w].ids :
         (\E n \in DOMAIN procs : procs[n].tile = t /\ procs[n].from # NoId) =>
           Resumable(files[w].ids[t])]_vars

=============================================================================
