-------------------------------- MODULE Badges --------------------------------
(***************************************************************************)
(* What a Deck shows of the peers behind its tiles, and what it tells the  *)
(* others: the peer_id of each tile (session-service.ts, peer-state.ts,    *)
(* read from the cache files that server.ts writes through                 *)
(* shared/peer-cache.ts), the join announcement of a new tile (index.ts,   *)
(* broker-client.ts), and whether a tile is thinking (thinking.ts).        *)
(*                                                                         *)
(* All tiles are in one directory, as they are by default.  Everything     *)
(* here is asynchronous: the server of a terminal registers when it is up, *)
(* the id of its session is discovered later, names are polled, the        *)
(* announcement travels to the broker, and terminals that were replaced go *)
(* on writing until they are gone.                                         *)
(***************************************************************************)
EXTENDS Naturals, Sequences, FiniteSets

CONSTANTS
  Names,      \* peer ids that the broker may give
  Earlier,    \* cache files of the directory from earlier runs, oldest first
  NoName,     \* null
  MaxTiles, MaxSpawns, \* bounds: tiles, terminals
  MaxTroubles \* bound: renames, /clear, exits and failed requests, in all

Tiles == 1 .. MaxTiles
Spawns == 1 .. MaxSpawns

\* A cache file: the session id it is named after (that of a terminal's Claude, by the
\* number of the terminal) and its content.
CacheFile == [id : Nat, name : Names]

ASSUME BadgesAssumption ==
  /\ MaxTiles \in Nat /\ MaxSpawns \in Nat /\ MaxTroubles \in Nat
  /\ Earlier \in Seq(CacheFile) /\ \A k \in DOMAIN Earlier : Earlier[k].id > MaxSpawns + 1
  /\ NoName \notin Names

VARIABLES
  defs, pty,   \* the tiles, and the terminal of each, 0 if it has none
  sessionId,   \* of each tile: the terminal whose Claude minted it, or one of those below
  deskFile,    \* the back-channel file of each tile: a session id, or Placeholder if none
  runtime,     \* RuntimeState of each tile
  timers,      \* ThinkingDetector: tiles that are busy, with the timer that ends it
  procs,       \* the terminals that were spawned, with the MCP server in each
  cache,       \* the cache files of the directory in the order of their last write
  posts,       \* /announce requests that have not reached the broker
  nextTile, troubles, \* counters
  joins,       \* history: announcements made for each tile
  toldSelf     \* history: announcements that were delivered to the newcomer they are about

tiles == <<defs, pty, sessionId, deskFile, runtime, timers, nextTile>>
history == <<joins, toldSelf>>
vars == <<tiles, procs, cache, posts, troubles, history>>

\* The Deck's own id, which no file has; the id that Claude mints at a /clear.
Placeholder == 0
Cleared == MaxSpawns + 1
SessionIds == 0 .. MaxSpawns + 1

RuntimeState == [peerId : Names \cup {NoName}, thinking : BOOLEAN, announce : BOOLEAN]
Blank(announce) == [peerId |-> NoName, thinking |-> FALSE, announce |-> announce]

Proc == [tile : Tiles, name : Names \cup {NoName}, renamed : BOOLEAN, gone : BOOLEAN]
Post == [about : Names, newcomer : Spawns, guessed : BOOLEAN]

Alive(t) == pty[t] # 0
Running(n) == n \in DOMAIN procs /\ ~procs[n].gone
Registered(n) == Running(n) /\ procs[n].name # NoName
Trouble == troubles < MaxTroubles /\ troubles' = troubles + 1

-----------------------------------------------------------------------------
(* Tiles and terminals *)

\* startPty for the tiles of a list, which get new placeholders; the others have the terminals
\* and ids that are given.
Spawned(order, terminals, ids) ==
  LET T == {order[k] : k \in DOMAIN order}
      Turn(t) == CHOOSE k \in DOMAIN order : order[k] = t
  IN /\ Len(procs) + Len(order) <= MaxSpawns
     /\ pty' = [t \in Tiles |-> IF t \in T THEN Len(procs) + Turn(t) ELSE terminals[t]]
     /\ sessionId' = [t \in Tiles |-> IF t \in T THEN Placeholder ELSE ids[t]]
     /\ deskFile' = [t \in Tiles |-> IF t \in T THEN Placeholder ELSE deskFile[t]]
     /\ procs' = procs \o [k \in DOMAIN order |->
          [tile |-> order[k], name |-> NoName, renamed |-> FALSE, gone |-> FALSE]]

\* A new tile is announced as soon as its name is known.
Create ==
  /\ nextTile <= MaxTiles
  /\ nextTile' = nextTile + 1
  /\ defs' = defs \cup {nextTile}
  /\ runtime' = [runtime EXCEPT ![nextTile] = Blank(TRUE)]
  /\ Spawned(<<nextTile>>, pty, sessionId)
  /\ UNCHANGED <<timers, cache, posts, troubles, history>>

\* restoreFrom: the sessions of a workspace, in their order, as new tiles in place of the
\* present ones; they are not announced.
Restore(next) ==
  /\ nextTile' = next
  /\ defs' = nextTile .. next - 1
  /\ runtime' = [t \in Tiles |-> Blank(FALSE)]
  /\ timers' = {}
  /\ Spawned([k \in 1 .. next - nextTile |-> nextTile + k - 1],
             [t \in Tiles |-> 0], [t \in Tiles |-> Placeholder])
  /\ UNCHANGED <<cache, posts, troubles, history>>

\* The tile has taken the id of another terminal's Claude, whose exit may have released it.
Mistaken(t) == sessionId[t] \in Spawns \ {pty[t]}

\* restart of a tile whose id is not open: its terminal has crashed, or is killed now; the
\* state of the tile is kept
Restart(t) ==
  /\ t \in defs /\ (~Alive(t) \/ Mistaken(t))
  /\ Spawned(<<t>>, pty, sessionId)
  /\ UNCHANGED <<defs, runtime, timers, nextTile, cache, posts, troubles, history>>

\* Mutant: the timers go on.
SilencedNot(T) == timers

\* ThinkingDetector.clear for the tiles of T
Silenced(T) == timers \ T

\* Tiles go with their terminals, which are killed and may yet live for a while.
Close(T) ==
  /\ defs' = defs \ T
  /\ pty' = [t \in Tiles |-> IF t \in T THEN 0 ELSE pty[t]]
  /\ sessionId' = [t \in Tiles |-> IF t \in T THEN Placeholder ELSE sessionId[t]]
  /\ runtime' = [t \in Tiles |-> IF t \in T THEN Blank(FALSE) ELSE runtime[t]]
  /\ timers' = Silenced(T)

\* remove
Remove(t) ==
  /\ t \in defs
  /\ Close({t})
  /\ UNCHANGED <<deskFile, nextTile, procs, cache, posts, troubles, history>>

\* closeAll
CloseAll ==
  /\ defs # {}
  /\ Close(defs)
  /\ UNCHANGED <<deskFile, nextTile, procs, cache, posts, troubles, history>>

\* Mutant: the detector forgets the tile, the tile stays as it was.
CrashedThinking(r) == r

\* What the exit handler makes of the state of a tile that stays on the screen.
Crashed(r) == [r EXCEPT !.thinking = FALSE]

\* onExit and the exit handler; the process is gone, whether killed or by itself
Exit(n, clean) ==
  LET t == procs[n].tile IN
  /\ Running(n)
  /\ procs' = [procs EXCEPT ![n].gone = TRUE]
  /\ IF pty[t] # n
     THEN UNCHANGED <<defs, pty, sessionId, runtime, timers, troubles>>
     ELSE /\ Trouble
          /\ IF clean
             THEN Close({t})
             ELSE /\ pty' = [pty EXCEPT ![t] = 0]
                  /\ runtime' = [runtime EXCEPT ![t] = Crashed(@)]
                  /\ timers' = Silenced({t})
                  /\ UNCHANGED <<defs, sessionId>>
  /\ UNCHANGED <<deskFile, nextTile, cache, posts, history>>

-----------------------------------------------------------------------------
(* The MCP server of a terminal (server.ts, peer-cache.ts) *)

\* The broker: no two peers of the group have one name (Registry!NamesUnique).
FreeNames == Names \ {procs[n].name : n \in {m \in DOMAIN procs : Running(m)}}

\* writePeerIdCache, under the session id that the server was started with; the file is new
WritePeerIdCache(n, name) == cache' = Append(cache, [id |-> n, name |-> name])

\* main: /register, the cache file, and the back-channel file of the tile, even if the tile
\* has another terminal by now.  Without the peer id in the cache the tile has no badge.
Register(n) ==
  /\ Running(n) /\ ~Registered(n)
  /\ \E name \in FreeNames :
       /\ procs' = [procs EXCEPT ![n].name = name]
       /\ WritePeerIdCache(n, name)
  /\ deskFile' = [deskFile EXCEPT ![procs[n].tile] = n]
  /\ UNCHANGED <<defs, pty, sessionId, runtime, timers, nextTile, posts, troubles, history>>

\* set_id: the cache file keeps the old name
SetId(n) ==
  /\ Registered(n) /\ Trouble
  /\ \E name \in FreeNames :
       procs' = [procs EXCEPT ![n].name = name, ![n].renamed = TRUE]
  /\ UNCHANGED <<tiles, cache, posts, history>>

\* the SessionStart hook when the terminal's Claude has started
SessionStart(n) ==
  /\ Running(n) /\ ~Registered(n)
  /\ deskFile' = [deskFile EXCEPT ![procs[n].tile] = n]
  /\ UNCHANGED <<defs, pty, sessionId, runtime, timers, nextTile, procs, cache, posts,
                 troubles, history>>

\* /clear: the same hook
Clear(t) ==
  /\ Alive(t) /\ Trouble
  /\ deskFile' = [deskFile EXCEPT ![t] = Cleared]
  /\ UNCHANGED <<defs, pty, sessionId, runtime, timers, nextTile, procs, cache, posts, history>>

\* discoverRealId by the file for the first id, refreshLiveSessionIds at a save for a later
\* one; without a file discoverRealId takes any terminal's id that no tile has.
Discover(t) ==
  /\ t \in defs /\ Alive(t)
  /\ \/ /\ deskFile[t] \notin {Placeholder, sessionId[t]}
        /\ sessionId' = [sessionId EXCEPT ![t] = deskFile[t]]
     \/ /\ deskFile[t] = Placeholder /\ sessionId[t] = Placeholder
        /\ \E n \in DOMAIN procs \ {sessionId[u] : u \in Tiles} :
             sessionId' = [sessionId EXCEPT ![t] = n]
  /\ UNCHANGED <<defs, pty, deskFile, runtime, timers, nextTile, procs, cache, posts,
                 troubles, history>>

-----------------------------------------------------------------------------
(* Names and announcements *)

\* The tile is known to have the session of its own terminal, whose peer has a cache file.
Identified(t) ==
  t \in defs /\ Alive(t) /\ sessionId[t] = pty[t] /\ \E k \in DOMAIN cache : cache[k].id = pty[t]

Newest == IF cache = <<>> THEN NoName ELSE cache[Len(cache)].name
OwnFile(t) == {k \in DOMAIN cache : cache[k].id = sessionId[t]}

\* Mutant: the newest file is asked first.
ResolvePeerIdNewest(t) == Newest

\* The file of the tile's session if there is one, else the newest of the directory.
ResolvePeerId(t) ==
  IF OwnFile(t) # {} THEN cache[CHOOSE k \in OwnFile(t) : TRUE].name ELSE Newest

\* what pollPeerIds finds for a tile
Polled(t) == IF Alive(t) THEN ResolvePeerId(t) ELSE NoName

\* A name for the first time, of a tile that is to be announced.
Joining(t) == Polled(t) # NoName /\ runtime[t].peerId = NoName /\ runtime[t].announce

\* Mutant: the intent is not consumed.
NotedForEver(r, name) == [r EXCEPT !.peerId = name]

\* what pollPeerIds makes of the state of a tile
Noted(r, name) ==
  [r EXCEPT !.announce = IF name # NoName /\ r.peerId = NoName THEN FALSE ELSE @,
            !.peerId = name]

\* the 'peer-resolved' handler: who is announced, and who is taken for the newcomer
Announced(t) == [about |-> Polled(t), newcomer |-> pty[t], guessed |-> ~Identified(t)]

\* pollPeerIds
PollPeerIds ==
  LET new == {t \in defs : Joining(t)} IN
  /\ \E t \in defs : Polled(t) # runtime[t].peerId
  /\ runtime' = [t \in Tiles |-> IF t \in defs THEN Noted(runtime[t], Polled(t))
                                 ELSE runtime[t]]
  /\ posts' = posts \cup {Announced(t) : t \in new}
  /\ joins' = [t \in Tiles |-> joins[t] + (IF t \in new THEN 1 ELSE 0)]
  /\ UNCHANGED <<defs, pty, sessionId, deskFile, timers, nextTile, procs, cache, troubles,
                 toldSelf>>

\* Mutant: nobody is excluded.
RecipientsAll(post) == {n \in DOMAIN procs : Registered(n)}

\* exclude_peer_id is compared with the names the peers have by then (Broker!Recipients).
Recipients(post) == {n \in DOMAIN procs : Registered(n) /\ procs[n].name # post.about}

\* sendAnnounce reaches the broker
Deliver(post) ==
  /\ posts' = posts \ {post}
  /\ toldSelf' = IF post.newcomer \in Recipients(post) THEN toldSelf \cup {post} ELSE toldSelf
  /\ UNCHANGED <<tiles, procs, cache, troubles, joins>>

\* sendAnnounce throws, and the announcement is given up
Fail(post) ==
  /\ Trouble
  /\ posts' = posts \ {post}
  /\ UNCHANGED <<tiles, procs, cache, history>>

-----------------------------------------------------------------------------
(* Thinking *)

\* the 'thinking' handler
Thinks(t, busy) == runtime' = [runtime EXCEPT ![t].thinking = busy]

\* feed
Feed(t) == timers' = timers \cup {t} /\ Thinks(t, TRUE)

\* handleData: output of a terminal with a sign of work in it.  A terminal that was killed
\* and replaced passes for the one that replaced it.
Output(n) ==
  LET t == procs[n].tile IN
  /\ Running(n) /\ Alive(t)
  /\ Feed(t)
  /\ UNCHANGED <<defs, pty, sessionId, deskFile, nextTile, procs, cache, posts, troubles, history>>

\* the timer of armIdle
Idle(t) ==
  /\ t \in timers
  /\ timers' = timers \ {t} /\ Thinks(t, FALSE)
  /\ UNCHANGED <<defs, pty, sessionId, deskFile, nextTile, procs, cache, posts, troubles, history>>

-----------------------------------------------------------------------------
Init ==
  /\ defs = {} /\ pty = [t \in Tiles |-> 0]
  /\ sessionId = [t \in Tiles |-> Placeholder]
  /\ deskFile = [t \in Tiles |-> Placeholder]
  /\ runtime = [t \in Tiles |-> Blank(FALSE)]
  /\ timers = {}
  /\ procs = <<>>
  /\ cache = Earlier
  /\ posts = {}
  /\ nextTile = 1 /\ troubles = 0
  /\ joins = [t \in Tiles |-> 0] /\ toldSelf = {}

Next ==
  \/ Create \/ CloseAll \/ PollPeerIds
  \/ \E next \in nextTile .. MaxTiles + 1 : Restore(next)
  \/ \E t \in Tiles : Restart(t) \/ Remove(t) \/ Discover(t) \/ Clear(t) \/ Idle(t)
  \/ \E n \in DOMAIN procs : SessionStart(n) \/ Register(n) \/ SetId(n) \/ Output(n)
  \/ \E n \in DOMAIN procs, clean \in BOOLEAN : Exit(n, clean)
  \/ \E post \in posts : Deliver(post) \/ Fail(post)

Spec == Init /\ [][Next]_vars

\* The poll is an interval, and a timer that is set fires once its terminal has been
\* silent.  Servers need not come up and discovery may give up.
Fairness == WF_vars(PollPeerIds)

FairSpec == Spec /\ Fairness

-----------------------------------------------------------------------------
(* Properties *)

\* Tiles, terminals, files and requests are what the code can make of them.
TypeOK ==
  /\ defs \subseteq Tiles /\ timers \subseteq defs
  /\ pty \in [Tiles -> 0 .. MaxSpawns]
  /\ sessionId \in [Tiles -> SessionIds] /\ deskFile \in [Tiles -> SessionIds]
  /\ runtime \in [Tiles -> RuntimeState]
  /\ procs \in Seq(Proc) /\ cache \in Seq(CacheFile)
  /\ posts \subseteq Post /\ toldSelf \subseteq Post
  /\ nextTile \in 1 .. MaxTiles + 1 /\ troubles \in 0 .. MaxTroubles
  /\ joins \in [Tiles -> Nat]

\* A tile shows that it is thinking exactly as long as a timer is armed that will end it,
\* across crashes, restarts and the late output of terminals that were replaced: no tile
\* thinks for ever (session-service.ts:98, 117, 124-129).
ThinkingEnds ==
  \A t \in Tiles : runtime[t].thinking <=> t \in timers

\* "A one-shot join-announce intent" (session-service.ts:32-36): however often a tile
\* loses its name and gets it back, by a crash, a restart, a rename or a /clear, its
\* arrival is announced at most once.
JoinsOnce ==
  \A t \in Tiles : joins[t] <= 1

\* A newcomer is not told of its own arrival (index.ts:115), unless its name was taken
\* from another session's file, or it has changed its name before the broker compared.
JoinerNotTold ==
  \A post \in toldSelf : post.guessed \/ procs[post.newcomer].renamed

\* A tile comes to show the name its own peer registered under once its session is known
\* and has a file, whichever file is the newest of the directory,
\* and a tile whose terminal has died comes to show none, whatever it showed before
\* (session-service.ts:502).
OwnName(t) ==
  \E k \in DOMAIN cache : cache[k].id = pty[t] /\ cache[k].name = runtime[t].peerId
Dead(t) == t \in defs /\ ~Alive(t)
BadgesComeRight ==
  \A t \in Tiles :
    /\ Identified(t) ~> ~Identified(t) \/ OwnName(t)
    /\ Dead(t) ~> ~Dead(t) \/ runtime[t].peerId = NoName

\* Not so: "when a fresh session's peer_id first resolves, tell the other peers a newcomer
\* joined (excluding the joiner itself)" (index.ts:114-115).  Until the session of a tile is
\* known, its peer_id resolves to the newest file of the directory, another peer's.
JoinNamesTheNewcomer ==
  \A post \in posts :
    procs[post.newcomer].name = post.about \/ procs[post.newcomer].renamed
===============================================================================
