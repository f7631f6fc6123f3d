------------------------------ MODULE Workspaces ------------------------------
(***************************************************************************)
(* Several Decks on one project directory: its workspace files and their   *)
(* sidecar locks (workspace-service.ts, workspace-store.ts,                *)
(* workspace-lock.ts), and what index.ts and ipc.ts do with them: the      *)
(* auto-save timer, New (clear), restore, delete, pruning and quitting.    *)
(*                                                                         *)
(* A handler runs to its end on the one thread of its Deck, but Decks are  *)
(* processes that share nothing but the files.  So a handler does its      *)
(* first file operation when it starts, leaves the others as the Deck's    *)
(* job, and a step of a Deck is the next of them with the code up to the   *)
(* one after.                                                              *)
(*                                                                         *)
(* Sessions are left to the module of that name: here a Deck has a set of  *)
(* tiles, and a workspace file is the set it was saved with.               *)
(***************************************************************************)
EXTENDS Naturals, Sequences, FiniteSets

CONSTANTS
  Decks,      \* places a Deck can be started at, each with a host
  HostOf,     \* the host of each
  Ids,        \* workspace ids
  Tiles,      \* sessions a Deck may have
  Leftovers,  \* what files earlier runs may have left behind: functions on ids
  NoId, NoFile, NoLock, \* null
  MaxRuns,    \* bound: runs of one Deck
  MaxTroubles, \* bound: crashes, heartbeats that come too late, months without a save,
               \* writes that fail, pids that are used again
  MaxContested \* bound: workspaces contested before the users of the Decks stop

ASSUME WorkspacesAssumption ==
  /\ NoId \notin Ids
  /\ MaxRuns \in Nat \ {0} /\ MaxTroubles \in Nat /\ MaxContested \in Nat

File == [tiles : SUBSET Tiles, pinned : BOOLEAN,
         old : BOOLEAN]    \* saved more than PRUNE_MAX_AGE_MS ago
Lock == [deck : Decks, run : 0 .. MaxRuns,   \* host and pid; 0 was an earlier run
         fresh : BOOLEAN]  \* the heartbeat is younger than LOCK_STALE_MS

ASSUME NullAssumption ==
  /\ NoFile \notin File /\ NoLock \notin Lock
  /\ \A left \in Leftovers : /\ DOMAIN left \subseteq Ids
                             /\ \A id \in DOMAIN left : left[id] \in File

VARIABLES
  ws, lock,      \* the files <id>.json and <id>.lock
  minted,        \* ids that have been in use
  phase,         \* down, up, closing (its window is closed), ending
  run,           \* which run of the Deck this is
  currentId, tiles,
  autoSaveTimer, \* it is set
  job,           \* file operations that the running handler has left to do
  reg,           \* the file or lock it has read last
  reused,        \* runs that have ended, and whose pid another process has
  troubles,      \* counter of the bound
  contested,     \* history: ids on which the lock protocol was bypassed
  swallowed      \* history: Decks whose auto-save has failed, and that have neither
                 \* saved nor armed the timer since

files == <<ws, lock, minted>>
deck == <<phase, run, currentId, tiles, autoSaveTimer, job, reg>>
history == <<contested, swallowed>>
vars == <<files, deck, reused, troubles, history>>

Ops == {"check", "release", "peek", "claim", "save", "detach", "close", "quit",
        "probe", "prune", "rmFile", "rmLock", "beat"}
Do(op, id) == [op |-> op, id |-> id]

\* what is left of a restore once its workspace is found free
Own(id) == <<Do("peek", id), Do("claim", id), Do("save", id)>>
Move(from, id) ==
  IF from \in {NoId, id} THEN Own(id)
  ELSE <<Do("release", from), Do("peek", id), Do("claim", id), Do("save", id)>>

Running(d) == phase[d] # "down"
Ready(d) == job[d] = <<>> /\ Cardinality(contested) <= MaxContested
Idle(d) == phase[d] = "up" /\ Ready(d)
Mine(d) == [deck |-> d, run |-> run[d], fresh |-> TRUE]

\* The run that wrote the lock goes on.
OwnerAlive(l) == Running(l.deck) /\ run[l.deck] = l.run

\* pidAlive: what its host answers of the lock's pid
PidAlive(l) == OwnerAlive(l) \/ <<l.deck, l.run>> \in reused

\* Mutant: heartbeats are not looked at.
LockLiveHere(l, d) ==
  l # NoLock /\ HostOf[l.deck] = HostOf[d] /\ PidAlive(l)
\* Mutant: heartbeats never grow old.
LockLiveForEver(l, d) ==
  l # NoLock /\ (HostOf[l.deck] = HostOf[d] => PidAlive(l))

\* isLockLive, as Deck d sees it
LockLive(l, d) ==
  l # NoLock /\ IF HostOf[l.deck] = HostOf[d] THEN PidAlive(l) ELSE l.fresh

-----------------------------------------------------------------------------
(* What bypasses the lock *)

Has(e, op, id) == \E i \in 1 .. Len(job[e]) : job[e][i] = Do(op, id)

\* Another Deck has looked at the lock of id and has not acted upon it yet.
InBetween(d, id) ==
  \E e \in Decks \ {d} : \E op \in {"claim", "rmFile", "prune", "rmLock"} : Has(e, op, id)

\* Another Deck owns the lock, and only its heartbeat makes it look stale.
Late(d, id) ==
  /\ lock[id] # NoLock /\ OwnerAlive(lock[id]) /\ lock[id].deck # d
  /\ HostOf[lock[id].deck] # HostOf[d] /\ ~lock[id].fresh

\* The lock's owner is dead, and another process on this host has his pid.
Haunted(d, id) ==
  /\ lock[id] # NoLock /\ ~OwnerAlive(lock[id])
  /\ HostOf[lock[id].deck] = HostOf[d] /\ PidAlive(lock[id])

\* releaseLock and deleteWorkspace do not look whose lock they remove.
Foreign(d, id) == lock[id] # NoLock /\ OwnerAlive(lock[id]) /\ lock[id].deck # d

Contest(id, cond) == contested' = IF cond THEN contested \cup {id} ELSE contested

-----------------------------------------------------------------------------
(* Handlers, up to the operation after the first *)

Start(d, steps) == job' = [job EXCEPT ![d] = steps]
Remember(d, x) == reg' = [reg EXCEPT ![d] = x]
Trouble == troubles < MaxTroubles /\ troubles' = troubles + 1

\* Mutant: the timer is armed only as long as there is no workspace.
ChangedOnlyMints(d, set) ==
  /\ tiles' = [tiles EXCEPT ![d] = set]
  /\ autoSaveTimer' = [autoSaveTimer EXCEPT ![d] = @ \/ (set # {} /\ currentId[d] = NoId)]
  /\ swallowed' = IF set = {} THEN swallowed ELSE swallowed \ {d}

\* service.on('changed'): only a list that is not empty arms the timer
Changed(d, set) ==
  /\ tiles' = [tiles EXCEPT ![d] = set]
  /\ autoSaveTimer' = [autoSaveTimer EXCEPT ![d] = @ \/ set # {}]
  /\ swallowed' = IF set = {} THEN swallowed ELSE swallowed \ {d}

\* sessions are created, removed, or exit
ChangeTiles(d, set) ==
  /\ Idle(d) /\ set # tiles[d]
  /\ Changed(d, set)
  /\ UNCHANGED <<files, phase, run, currentId, job, reg, reused, troubles, contested>>

\* Mutant: the pin of a first save is left undefined.
SaveFileUndefined(d, id, named) ==
  /\ ws' = [ws EXCEPT ![id] =
              [tiles |-> tiles[d],
               pinned |-> IF named THEN TRUE ELSE IF ws[id] # NoFile THEN ws[id].pinned ELSE NoFile,
               old |-> FALSE]]
  /\ swallowed' = swallowed \ {d}
  /\ Contest(id, InBetween(d, id) \/ Foreign(d, id))
\* persist for an id: loadWorkspace, saveWorkspace.  Only a Deck that drives the
\* workspace as well could write the file in between.
SaveFile(d, id, named) ==
  /\ ws' = [ws EXCEPT ![id] =
              [tiles |-> tiles[d],
               pinned |-> named \/ (ws[id] # NoFile /\ ws[id].pinned),
               old |-> FALSE]]
  /\ swallowed' = swallowed \ {d}
  /\ Contest(id, InBetween(d, id) \/ Foreign(d, id))

\* persist, with ensureCurrent first: nobody else knows a new id, so its lock and
\* its file are written in one step
Persist(d, named) ==
  IF currentId[d] # NoId
  THEN SaveFile(d, currentId[d], named) /\ UNCHANGED <<lock, minted, currentId>>
  ELSE \E id \in Ids \ minted :
         /\ minted' = minted \cup {id}
         /\ currentId' = [currentId EXCEPT ![d] = id]
         /\ lock' = [lock EXCEPT ![id] = Mine(d)]
         /\ SaveFile(d, id, named)

\* persist, when a write throws: the file is as it was (saveWorkspace renames), but
\* ensureCurrent may have taken a new id, and that with or without its lock
PersistFails(d) ==
  /\ Trouble
  /\ \/ UNCHANGED <<lock, minted, currentId, contested>>
     \/ /\ currentId[d] = NoId
        /\ \E id \in Ids \ minted :
             /\ minted' = minted \cup {id}
             /\ currentId' = [currentId EXCEPT ![d] = id]
             /\ \/ lock' = [lock EXCEPT ![id] = Mine(d)] /\ contested' = contested
                \/ lock' = lock /\ contested' = contested \cup {id}
  /\ UNCHANGED <<ws, phase, run, tiles, job, reg, reused>>

TimerFires(d) ==
  /\ Running(d) /\ job[d] = <<>> /\ autoSaveTimer[d]
  /\ autoSaveTimer' = [autoSaveTimer EXCEPT ![d] = FALSE]

AutoSave(d) ==
  /\ TimerFires(d)
  /\ Persist(d, FALSE)
  /\ UNCHANGED <<phase, run, tiles, job, reg, reused, troubles>>

\* The error is logged, and the timer is not set again.
AutoSaveFails(d) ==
  /\ TimerFires(d)
  /\ PersistFails(d)
  /\ swallowed' = swallowed \cup {d}

\* Save and Save As
UserSave(d, named) ==
  /\ Idle(d)
  /\ Persist(d, named)
  /\ UNCHANGED <<phase, run, tiles, autoSaveTimer, job, reg, reused, troubles>>

\* The user is told.
UserSaveFails(d) ==
  /\ Idle(d)
  /\ PersistFails(d)
  /\ UNCHANGED <<autoSaveTimer, swallowed>>

\* startNew and closeAll; a template that replaces the tiles creates new ones next
NewClear(d) ==
  /\ Idle(d)
  /\ IF currentId[d] = NoId
     THEN /\ tiles' = [tiles EXCEPT ![d] = {}]
          /\ UNCHANGED <<ws, job, history>>
     ELSE /\ SaveFile(d, currentId[d], FALSE)
          /\ Start(d, <<Do("detach", currentId[d])>>)
          /\ tiles' = tiles
  /\ UNCHANGED <<lock, minted, phase, run, currentId, autoSaveTimer, reg, reused, troubles>>

\* restore, up to the look at the lock
Restore(d, id) ==
  /\ Idle(d) /\ ws[id] # NoFile
  /\ Remember(d, ws[id])
  /\ Start(d, <<Do("check", id)>>)
  /\ UNCHANGED <<files, phase, run, currentId, tiles, autoSaveTimer, reused, troubles,
                 history>>

\* deleteWs: the dialog offers what was neither current nor locked when it listed the
\* files (listForCwd); the user confirms some time later
Delete(d, id) ==
  /\ Idle(d) /\ ws[id] # NoFile /\ id # currentId[d] /\ ~LockLive(lock[id], d)
  /\ Start(d, <<Do("rmFile", id), Do("rmLock", id)>>)
  /\ UNCHANGED <<files, phase, run, currentId, tiles, autoSaveTimer, reg, reused, troubles,
                 history>>

\* pruneStale: every file is listed, probed and removed on its own
Prune(d, id) ==
  /\ Idle(d)
  /\ ws[id] # NoFile /\ ~ws[id].pinned /\ ws[id].old /\ id # currentId[d]
  /\ Start(d, <<Do("probe", id), Do("prune", id), Do("rmLock", id)>>)
  /\ UNCHANGED <<files, phase, run, currentId, tiles, autoSaveTimer, reg, reused, troubles,
                 history>>

\* refreshLock keeps whatever owner it finds
Heartbeat(d) ==
  LET id == currentId[d] IN
  /\ Idle(d) /\ id # NoId /\ lock[id] # NoLock
  /\ Remember(d, lock[id])
  /\ Start(d, <<Do("beat", id)>>)
  /\ UNCHANGED <<files, phase, run, currentId, tiles, autoSaveTimer, reused, troubles,
                 history>>

\* releaseOnQuit, for window-all-closed (closing) or before-quit (ending); the
\* timer is not cancelled, and currentId is kept
Leave(d, op, next) ==
  /\ Ready(d)
  /\ IF currentId[d] = NoId
     THEN /\ phase' = [phase EXCEPT ![d] = next]
          /\ UNCHANGED <<ws, job, history>>
     ELSE /\ SaveFile(d, currentId[d], FALSE)
          /\ Start(d, <<Do(op, currentId[d])>>)
          /\ phase' = phase
  /\ UNCHANGED <<lock, minted, run, currentId, tiles, autoSaveTimer, reg, reused, troubles>>

CloseWindow(d) == phase[d] = "up" /\ Leave(d, "close", "closing")
BeforeQuit(d) == phase[d] \in {"up", "closing"} /\ Leave(d, "quit", "ending")

-----------------------------------------------------------------------------
(* The file operations *)

At(d, op, id) == job[d] # <<>> /\ Head(job[d]) = Do(op, id)
Continue(d) == job' = [job EXCEPT ![d] = Tail(@)]
GiveUp(d) == job' = [job EXCEPT ![d] = <<>>]
\* restore from the look at the lock on: restoreFrom swaps the tiles
Check(d, id) ==
  /\ At(d, "check", id)
  /\ Remember(d, NoFile)
  /\ IF LockLive(lock[id], d)
     THEN /\ GiveUp(d)
          /\ UNCHANGED <<currentId, tiles, autoSaveTimer, history>>
     ELSE /\ Start(d, Move(currentId[d], id))
          /\ currentId' = [currentId EXCEPT ![d] = id]
          /\ Changed(d, reg[d].tiles)
          /\ Contest(id, InBetween(d, id) \/ Late(d, id))
  /\ UNCHANGED <<files, phase, run, reused, troubles>>

\* acquireLock, which refuses a live lock; its answer is ignored
Peek(d, id) ==
  /\ At(d, "peek", id)
  /\ IF LockLive(lock[id], d)
     THEN Start(d, <<Do("save", id)>>) /\ Contest(id, Haunted(d, id))
     ELSE Continue(d) /\ Contest(id, Late(d, id))
  /\ UNCHANGED <<files, phase, run, currentId, tiles, autoSaveTimer, reg, reused, troubles,
                 swallowed>>

Claim(d, id) ==
  /\ At(d, "claim", id)
  /\ lock' = [lock EXCEPT ![id] = Mine(d)]
  /\ Continue(d)
  /\ UNCHANGED <<ws, minted, phase, run, currentId, tiles, autoSaveTimer, reg,
                 reused, troubles, history>>

Write(d, id) ==
  /\ At(d, "save", id)
  /\ SaveFile(d, id, FALSE)
  /\ Continue(d)
  /\ UNCHANGED <<lock, minted, phase, run, currentId, tiles, autoSaveTimer, reg, reused,
                 troubles>>

\* releaseLock, by own, startNew and releaseOnQuit
Released(d, id) ==
  /\ lock' = [lock EXCEPT ![id] = NoLock]
  /\ Continue(d)
  /\ Contest(id, Foreign(d, id))

Release(d, id) ==
  /\ At(d, "release", id)
  /\ Released(d, id)
  /\ UNCHANGED <<ws, minted, phase, run, currentId, tiles, autoSaveTimer, reg, reused,
                 troubles, swallowed>>

Detach(d, id) ==
  /\ At(d, "detach", id)
  /\ Released(d, id)
  /\ currentId' = [currentId EXCEPT ![d] = NoId]
  /\ tiles' = [tiles EXCEPT ![d] = {}]
  /\ UNCHANGED <<ws, minted, phase, run, autoSaveTimer, reg, reused, troubles, swallowed>>

LetGo(d, op, id) ==
  /\ At(d, op, id) /\ op \in {"close", "quit"}
  /\ Released(d, id)
  /\ phase' = [phase EXCEPT ![d] = IF op = "close" THEN "closing" ELSE "ending"]
  /\ UNCHANGED <<ws, minted, run, currentId, tiles, autoSaveTimer, reg, reused, troubles,
                 swallowed>>

Probe(d, id) ==
  /\ At(d, "probe", id)
  /\ IF LockLive(lock[id], d)
     THEN GiveUp(d) /\ contested' = contested
     ELSE Continue(d) /\ Contest(id, InBetween(d, id) \/ Late(d, id))
  /\ UNCHANGED <<files, phase, run, currentId, tiles, autoSaveTimer, reg, reused, troubles,
                 swallowed>>

\* deleteWorkspace, for the user or for the prune
RmFile(d, op, id) ==
  /\ At(d, op, id) /\ op \in {"rmFile", "prune"}
  /\ ws' = [ws EXCEPT ![id] = NoFile]
  /\ Continue(d)
  /\ Contest(id, InBetween(d, id) \/ Foreign(d, id))
  /\ UNCHANGED <<lock, minted, phase, run, currentId, tiles, autoSaveTimer, reg, reused,
                 troubles, swallowed>>

RmLock(d, id) ==
  /\ At(d, "rmLock", id)
  /\ Released(d, id)
  /\ UNCHANGED <<ws, minted, phase, run, currentId, tiles, autoSaveTimer, reg, reused,
                 troubles, swallowed>>

Beat(d, id) ==
  /\ At(d, "beat", id)
  /\ lock' = [lock EXCEPT ![id] = [reg[d] EXCEPT !.fresh = TRUE]]
  /\ Continue(d) /\ Remember(d, NoFile)
  /\ UNCHANGED <<ws, minted, phase, run, currentId, tiles, autoSaveTimer, reused, troubles,
                 history>>

\* restore fails: without its lock, or with the timer set by restoreFrom
WriteFails(d, id) ==
  /\ At(d, "claim", id) \/ At(d, "save", id)
  /\ Trouble
  /\ GiveUp(d)
  /\ Contest(id, At(d, "claim", id))
  /\ UNCHANGED <<files, phase, run, currentId, tiles, autoSaveTimer, reg, reused,
                 swallowed>>

FileOp(d) ==
  \E id \in Ids :
    \/ Check(d, id) \/ Peek(d, id) \/ Claim(d, id) \/ Write(d, id)
    \/ Release(d, id) \/ Detach(d, id) \/ LetGo(d, "close", id) \/ LetGo(d, "quit", id)
    \/ Probe(d, id) \/ RmFile(d, "rmFile", id) \/ RmFile(d, "prune", id) \/ RmLock(d, id)
    \/ Beat(d, id)

-----------------------------------------------------------------------------
(* The environment *)

Fresh(d, ph) ==
  /\ phase' = [phase EXCEPT ![d] = ph]
  /\ currentId' = [currentId EXCEPT ![d] = NoId]
  /\ tiles' = [tiles EXCEPT ![d] = {}]
  /\ autoSaveTimer' = [autoSaveTimer EXCEPT ![d] = FALSE]
  /\ job' = [job EXCEPT ![d] = <<>>]
  /\ reg' = [reg EXCEPT ![d] = NoFile]
  /\ swallowed' = swallowed \ {d}

Launch(d) ==
  /\ phase[d] = "down" /\ run[d] < MaxRuns
  /\ run' = [run EXCEPT ![d] = @ + 1]
  /\ Fresh(d, "up")
  /\ UNCHANGED <<files, reused, troubles, contested>>

Exit(d) ==
  /\ phase[d] = "ending" /\ job[d] = <<>>
  /\ Fresh(d, "down")
  /\ UNCHANGED <<files, run, reused, troubles, contested>>

Crash(d) ==
  /\ Running(d)
  /\ Trouble
  /\ Fresh(d, "down")
  /\ UNCHANGED <<files, run, reused, contested>>

\* Another process is started under the pid of a run that has ended.
PidReused(id) ==
  /\ lock[id] # NoLock /\ ~PidAlive(lock[id])
  /\ Trouble
  /\ reused' = reused \cup {<<lock[id].deck, lock[id].run>>}
  /\ UNCHANGED <<files, deck, history>>

\* That process ends as well.
PidFreed(owner) ==
  /\ owner \in reused
  /\ reused' = reused \ {owner}
  /\ UNCHANGED <<files, deck, troubles, history>>

\* LOCK_STALE_MS pass without a heartbeat; its owner is dead, or suspended
LockAges(id) ==
  /\ lock[id] # NoLock /\ lock[id].fresh
  /\ IF OwnerAlive(lock[id]) THEN Trouble ELSE troubles' = troubles
  /\ lock' = [lock EXCEPT ![id].fresh = FALSE]
  /\ UNCHANGED <<ws, minted, deck, reused, history>>

\* PRUNE_MAX_AGE_MS pass without a save
FileAges(id) ==
  /\ ws[id] # NoFile /\ ~ws[id].old
  /\ Trouble
  /\ ws' = [ws EXCEPT ![id].old = TRUE]
  /\ UNCHANGED <<lock, minted, deck, reused, history>>

-----------------------------------------------------------------------------
Init ==
  /\ \E left \in Leftovers :
       /\ ws = [id \in Ids |-> IF id \in DOMAIN left THEN left[id] ELSE NoFile]
       \* a run that crashed has left its lock
       /\ lock \in {l \in [Ids -> {NoLock} \cup [deck : Decks, run : {0}, fresh : {TRUE}]] :
                     \A id \in Ids \ DOMAIN left : l[id] = NoLock}
       /\ minted = DOMAIN left
  /\ phase = [d \in Decks |-> "down"]
  /\ run = [d \in Decks |-> 0]
  /\ currentId = [d \in Decks |-> NoId]
  /\ tiles = [d \in Decks |-> {}]
  /\ autoSaveTimer = [d \in Decks |-> FALSE]
  /\ job = [d \in Decks |-> <<>>]
  /\ reg = [d \in Decks |-> NoFile]
  /\ reused = {} /\ troubles = 0
  /\ contested = {} /\ swallowed = {}

Handler(d) ==
  \/ \E set \in SUBSET Tiles : ChangeTiles(d, set)
  \/ AutoSave(d) \/ AutoSaveFails(d)
  \/ UserSave(d, FALSE) \/ UserSave(d, TRUE) \/ UserSaveFails(d)
  \/ NewClear(d)
  \/ \E id \in Ids : Restore(d, id) \/ Delete(d, id) \/ Prune(d, id)
  \/ Heartbeat(d)
  \/ CloseWindow(d) \/ BeforeQuit(d)

Next ==
  \/ \E d \in Decks : Handler(d) \/ FileOp(d) \/ Launch(d) \/ Exit(d) \/ Crash(d)
  \/ \E d \in Decks, id \in Ids : WriteFails(d, id)
  \/ \E id \in Ids : PidReused(id) \/ LockAges(id) \/ FileAges(id)
  \/ \E owner \in Decks \X (0 .. MaxRuns) : PidFreed(owner)

Spec == Init /\ [][Next]_vars

\* A handler that has begun goes on, a timer that is set fires between other handlers
\* (a change restarts it, and ChangesGetSaved is about Decks that have no more changes),
\* an app that is quitting ends, and clocks advance.  Nobody has to use a Deck, no write
\* has to fail, and a process that has taken a pid over may run for ever.
Fairness ==
  /\ \A d \in Decks : WF_vars(FileOp(d)) /\ SF_vars(AutoSave(d)) /\ WF_vars(Exit(d))
  /\ \A id \in Ids : WF_vars(LockAges(id))

FairSpec == Spec /\ Fairness
-----------------------------------------------------------------------------
(* Invariants *)

TypeOK ==
  /\ ws \in [Ids -> File \cup {NoFile}]
  /\ lock \in [Ids -> Lock \cup {NoLock}]
  /\ minted \subseteq Ids
  /\ phase \in [Decks -> {"down", "up", "closing", "ending"}]
  /\ run \in [Decks -> 0 .. MaxRuns]
  /\ currentId \in [Decks -> Ids \cup {NoId}]
  /\ tiles \in [Decks -> SUBSET Tiles]
  /\ autoSaveTimer \in [Decks -> BOOLEAN]
  /\ job \in [Decks -> Seq([op : Ops, id : Ids])]
  /\ reg \in [Decks -> File \cup Lock \cup {NoFile}]
  /\ reused \subseteq Decks \X (0 .. MaxRuns)
  /\ troubles \in 0 .. MaxTroubles
  /\ contested \subseteq Ids /\ swallowed \subseteq Decks

Drives(d, id) == phase[d] = "up" /\ currentId[d] = id

\* "Two windows must not drive the same Claude sessions" (workspace-service.ts:194), and
\* they do not, unless the lock of the workspace was bypassed in one of the ways that
\* contested records: two Decks between the look at a lock and the use of what they
\* saw, a heartbeat of another host that came too late, a lock removed by a Deck that
\* does not own it, a lock that could not be written, or was not because a stranger had
\* got the pid of its dead owner since the look.  Otherwise the answer of acquireLock,
\* which nobody looks at, does not matter.
OneDriverUnlessContested ==
  \A id \in Ids \ contested, d, e \in Decks : Drives(d, id) /\ Drives(e, id) => d = e

Unsaved(d) ==
  /\ phase[d] = "up" /\ tiles[d] # {} /\ currentId[d] \notin contested
  /\ currentId[d] # NoId => ws[currentId[d]] = NoFile \/ ws[currentId[d]].tiles # tiles[d]

\* The timer is set as long as there are tiles that the file of the current workspace does
\* not have: no way through the handlers, and nothing another Deck does, loses it; only
\* when the timer's own save has failed, the next change has to set it again.
UnsavedWillBeSaved ==
  \A d \in Decks : Unsaved(d) => autoSaveTimer[d] \/ d \in swallowed

-----------------------------------------------------------------------------
(* Liveness *)

\* The model has run out of ids for new workspaces.
NoIdLeft(d) == currentId[d] = NoId /\ minted = Ids

\* When the sessions of a Deck have stopped changing, its workspace gets saved, unless
\* that save fails.
ChangesGetSaved ==
  \A d \in Decks :
    <>[][tiles'[d] = tiles[d]]_tiles => []<>(~Unsaved(d) \/ NoIdLeft(d) \/ d \in swallowed)

Orphaned(id) ==
  /\ lock[id] # NoLock /\ ~OwnerAlive(lock[id])
  /\ \A d \in Decks : currentId[d] # id

\* The lock of a Deck that died does not keep a workspace closed for ever, unless another
\* process of its host has its pid: there, no heartbeat is asked for.
DeadLocksLapse ==
  \A id \in Ids :
    Orphaned(id) ~> \/ ~Orphaned(id) \/ <<lock[id].deck, lock[id].run>> \in reused
                    \/ \A d \in Decks : ~LockLive(lock[id], d)

=============================================================================
