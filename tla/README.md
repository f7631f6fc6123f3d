# Claude Peers: a formal model

TLA+ modules for the claude-peers broker, the MCP servers that use it and the
desktop application that runs them; TLC configurations that check the modules on
small instances; and TLAPS proofs that hold for every instance. Line numbers
below are those of the files under `src/`.

## 1. The system

Several Claude Code sessions on one or more machines talk to each other through
one broker daemon per user. Each session starts an MCP server process that
registers with the broker over HTTP, keeps a WebSocket open for pushed messages
and offers tools to the model. A desktop application, the Deck, lays sessions
out as terminal tiles, keeps them in a group of their own, saves them as
workspaces and announces things to a whole group.

| Component | State it keeps | Operations | Modelled by |
|---|---|---|---|
| Broker: peer directory (`broker.ts`) | SQLite tables `groups`, `peers`, `peer_sessions` | `/register`, `/heartbeat`, `/disconnect`, `/set-id`, `/unregister`; timers `cleanStalePeers`, `sweepInactivePeers` | Registry, Identity |
| Broker: messages and push (`broker.ts`) | table `messages`, `wsPool`, sockets | `/send-message`, `/announce`, `/poll-messages`, `/peek-messages`, socket auth, close and backlog flush, `purgeOldMessages`, restart | Broker, Mailbox |
| Broker: read-only queries, HTTP front | none | `/list-peers`, `/group-stats`, `/health`, token check | `/list-peers` in Registry |
| Peer MCP server (`server.ts`) | `myInstanceToken`, `wsSocket`, `wsConnected`, reconnect timer, `notifiedMessageIds` | `connectWs`, `pollFallback`, `check_messages`, `switch_group`, `main`, `cleanup` | PeerServer; its calls in Registry and Broker, its group and broker in Config, its files in Badges |
| Group and user configuration (`shared/config.ts`) | files, read only | `resolveGroup`, `findUpwards`, `resolveForcedGroupSecret`, `buildGroupsMap`, `loadConfig`, `brokerUrl` | Config |
| Desktop: scope and launch context (`scope.ts`, `scope-secrets.ts`, `cli-context.ts`, `launch.js`, `index.ts`) | `activeScope`, the secret file, remembered secrets | launch, adopt a scope, clean up | Config, Sessions |
| Desktop: sessions and terminals (`session-service.ts`, `pty-manager.ts`, ...) | tiles, terminals, open ids, what tiles show | create, restart, remove, restore, discovery of ids, exit, poll of names, thinking | Sessions, Badges |
| Desktop: workspaces, locks, auto-save (`workspace-*.ts`, `index.ts`) | workspace files, lock files, a timer | save, restore, New, delete, prune, heartbeat, close, quit | Workspaces, Sessions |
| Peer-id cache, desk back-channel (`peer-cache.ts`, hook) | last-writer-wins files | write, read | Badges; the back-channel in Sessions, too |
| Desktop: broker client and announcements (`broker-client.ts`, `announce.ts`, `index.ts`) | none | `/announce`, join announcements, the broker's address | Badges, Config; the broker's side in Broker |
| Summaries; admin CLI; templates and settings; command lines, menu, IPC, translations; renderer | JSON files, interface state | | no |

**How they interact.** Every call to the broker is an HTTP request that Bun
answers by running a handler to completion on one thread: between two handlers
of one daemon there is no interleaving, inside a client there is one at every
`await`. A socket authenticates with the instance token of a row and enters
`wsPool`; a sender's handler pushes to the recipient's entry. What a client does
with a pushed frame, with the result of a fallback poll and with the result of a
tool meets in `notifiedMessageIds`. A Deck gives its terminals a secret through
their environment or through a file that the environment names; the MCP servers
in them read it once, when they start. Back, a Deck learns which Claude runs in
a tile from a file that the MCP server and a hook write, and under which name
from a cache file that the MCP server writes when it registers; with the latter
it greets the group on behalf of a new tile. Several Decks on one
project directory share nothing but the workspace files and their locks.

**What is hard.** A row outlives its process: it becomes dormant on `/disconnect`, when
the sweep has not heard of it, or never if nobody notices; and a new process in the same
directory resumes it. Processes die without notice, pids are reused, hosts differ. Time
is compared as text. Sockets are replaced, and the old one's close event comes later.
Messages are acknowledged by a heuristic. On the client, a switch of groups, a poll and
two sockets can all be half done at the same time. On the desktop, a lock is read and
written in two steps and its liveness is a pid on one host and a heartbeat on another;
session ids are guessed by polling, and names from files that earlier sessions left;
exits and output arrive after the tile has been reused; environments are inherited from
whatever launched the Deck.

**What makes each part correct.**

* Directory: a token leads to one row, a session to the row of its place, a name
  to one row of a group; what is listed can be written to; a token is not given
  to two processes; who acts in a secret group knows its secret; lost rows are
  parked and purged, live ones not.
* Mail: it refers to rows that exist, stays in its group, stays until it was
  read or lapsed, and only its recipient marks it.
* Push: the pool leads to authenticated sockets and to the newest one, frames
  come in order and once.
* The client does not get stuck without a socket, acts in one group, and shows
  what waits for it.
* Configuration: the nearest file of the first source decides; the sessions of a
  Deck are in the Deck's scope and use the Deck's broker; secrets do not stay on
  disk.
* Workspaces: one Deck drives one workspace; what was changed is in the file
  before the workspace is let go; dead locks lapse.
* Sessions: a tile knows its own Claude, by the id that can be resumed; an open
  id is not opened twice; a late exit harms nobody; a tile comes to show its own
  peer, is announced once, and does not think for ever.

## 2. The modules

**Registry** is the peer directory. Each handler and timer callback is one
action (`RegisterDenied`, `Resurrect` and `RegisterNew` are the ways through
`handleRegister`; `Heartbeat`, `Disconnect`, `SetId`, `Unregister`;
`CleanStalePeers`, `SweepInactivePeers`). The tables are functions from keys to
rows: `peers` from tokens, `sessions` from (host, directory, group), `groups` to
secret hashes. Tokens are minted in ascending numbers, 0 is the Deck's.
An MCP server is only as much as decides which calls it makes: `phase`
(down, starting, running, leaving a group for another one, or stranded in a
group it has left because the next one refused it), the token it holds and the
secret it showed. `Start` and `Exit` are external, and `Exit` may happen with
or without the disconnect.

Clock times are ages cut off at `MaxAge`, plus `tod`, the time of day. The
broker stores ISO dates (`...T...Z`) and compares them as text with the result
of SQLite's `datetime('now', ...)`, which has a blank where ISO has a `T`: the
comparison only looks at days until they differ. `TextBefore` and
`TextBeforeOrAt` are that comparison, so the limits are modelled with their
real, coarser effect. `sweepInactivePeers` computes its cut-off in JavaScript and
compares exactly. `ListPeers` and `Addressed` are not actions but what the
read-only `/list-peers` and the look-up of `/send-message` answer in a state.

**Identity** adds one history variable, `exposed`: tokens whose row was dormant
while some process acted under it. It states what the broker does promise about
two processes under one token.

**Broker** extends Registry with messages and sockets. Each Registry action
returns conjoined with what its handler does to mail and sockets
(`UnregisterB`, `CleanStalePeersB`, ...), and `SendMessage`, `Announce`,
`PollMessages`, `WsAuth`, `BrokerClose`, `PurgeOldMessages` and `Restart` are
added (`/peek-messages` changes nothing). `OpenWs`, `ClientClose` and `Receive`
are the client's end of the wire. `wire` is the sequence of frames in flight on
each connection; a half-open socket accepts frames and delivers none.

**Mailbox** is the abstract specification of all this: members come and go, send
each other mail and fetch what waits for them; mail is read once, by its
recipient, and is kept until it is read, overdue, or its sender or recipient is
gone. It has no tokens, sockets, pools, time of day or restarts. Broker
instantiates it with a refinement mapping: members are rows, a letter is a
message row whose age is reduced to now, earlier or overdue (`AgeClass`), and
`MailboxKept` says that the daemon implements it. The heuristic acknowledgement
is the one concession in `Mailbox!Send`: who sends is taken to have read what
waited *before this very moment*, and only that.

**PeerServer** is one MCP server in detail, on the other side of that wire. Each
action runs from one `await` to the next: `ConnectWs`, `WsOpen`, `WsMessage`,
`WsClose`, `Reconnect`; `PollAsk`, `PollFetch`, `PollNotify`, `PollFail`;
`CheckFetch`, `CheckShow`, `CheckFail`; `SwitchStart`, `SwitchLeave`,
`SwitchJoin`, `SwitchConnect` and the failing ways out; `Main`, `Cleanup`,
`Exit`. `WsMessageFails` and `PollNotifyFails` are notifications that throw: a frame
is then used up, a polled message is left for later. `SendMessage` is a send by this
process, of which only the acknowledgement matters here. Of the broker the module keeps
what this process notices: the status of its row in each group, the mail that waits
there, and the pool entry. `Backlog` is what a socket that authenticates is sent: the
newest `FLUSH_MAX_COUNT` of those pending messages that are not older than
`FLUSH_MAX_AGE_HOURS` (`overdue`, which `GrowOld` advances). As a process comes
back to its old row through its session, tokens are named after groups. `Drop`,
`BrokerDown`, `BrokerUp`, `Sweep` and `Send` are the environment. One poll, one
check and one switch are in progress at most, delays are left out, and a call
that is answered is one step; a call that fails may have been carried out or not.
Both ends of a socket hear of its end; half-open ones are in Broker.

**Config** is how a session comes to its group. `resolveGroup` and its parts are
operators over the project files in each directory, the user's configuration, the login
environment, what git answers, and the environment of the process. Directories are
numbered from the root of the file system; `FindUpwards` walks towards the root and
stops at the three bounds of the code. Decks are launched (`LaunchDeck`, by somebody's
shell or in another Deck's session, whose environment they inherit), adopt the scope of
a workspace (`AdoptScope`, with `resolveAdoptedScope` and the secrets remembered by the
operating system), quit and crash; the secret goes to tiles by a file or by a variable
(`SetScope`, `ChildEnv`), and `StartServer` reads it. `GroupsMap` is the map of names a
session keeps, with the forced name over a configured one of the same spelling, and
`groupNameForId` the possible answers of the reverse lookup (which of several names of
one group is found depends on their order). `SessionEndpoint` and
`resolveBrokerEndpoint` are the two ways to the broker's address and token: the
sessions' from `loadConfig`, and the Deck's copy of it, which reads the file anew for
each announcement. Edits of all files, and the operating system's cleaning of temporary
files, happen at any time that the bounds allow.

**Workspaces** is several Decks on one directory of workspace files. A handler
runs to its end on its Deck's thread, but other Decks run in between its file
operations: so a handler does the first and leaves the others in `job`, and
`FileOp` does the next one together with the code up to the one after (`Check`,
`Peek`, `Claim`, `Write`, `Release`, `Detach`, `LetGo`, `Probe`, `RmFile`,
`RmLock`, `Beat`). A restore that moves from one workspace to another releases the
old lock, looks at the new one, claims it and saves, one step each (`Move`). A Deck
that crashes loses its job. Locks name a Deck and its
run: on the same host `isLockLive` asks whether a process has that pid (`PidAlive`),
elsewhere it looks at the heartbeat. The pid of a run that has ended may be given to a
process that has nothing to do with it (`PidReused`, `PidFreed`). A save may fail
(`PersistFails`): that of the timer (`AutoSaveFails`), which nobody hears of and which
is not tried again, that of the user, and either write at the end of a restore
(`WriteFails`). Two history variables name what the code accepts. `contested` are the
workspaces on which the lock protocol was bypassed: another Deck was between its look
at the lock and its use of what it saw, a heartbeat of another host came too late,
somebody removed a lock that is not his, the lock could not be written, or it was not
because a stranger got the pid of its dead owner since the look. `swallowed` are the
Decks whose auto-save has failed and that have neither saved nor set the timer since.
Everything else must hold up.

**Sessions** is the tiles of one Deck, their terminals, and the Claude with its
MCP server in each. Ids are told apart by the terminal they were minted for: the
placeholder of its launch, Claude's own, the one after a `/clear`. `SpawnAll` is
`spawnSession` with `startPty`, `Poll` is one round of `discoverRealId`, `Save`
runs `refreshLiveSessionIds` before it captures, `Restore` gives fresh tiles to
old ids and launches them in the order of the file (`Place`), `Exit` is the exit event
of a terminal, however late. `mixed` is a history variable: the fallback of discovery,
which takes the newest transcript nobody claims, has given a tile another terminal's
id. The other ways to an id, the back-channel above all, do not set it, whatever they
find.

**Badges** is what a Deck shows and says of the peers in its tiles. `Register`
writes the cache file of the session and the back-channel of the tile, both keyed
by what the server was started with: a server whose tile has another terminal by
now writes all the same, and `SetId` writes nothing. `Discover` is Sessions' `Poll`
and refresh reduced to their outcome. `PollPeerIds` is one round over all tiles
with `resolvePeerId`, whose fallback takes the newest file of the directory; a
name found for the first time makes an announcement, which reaches the broker
later (`Deliver`) or not (`Fail`). `Output` is keyed by tile, not by terminal, and
`Idle` is the timer it arms. `Restore` closes all tiles and makes new ones;
`Restart` replaces the terminal of a tile whose id is not open, be it that its
terminal has crashed or that the tile has taken the id of another terminal
(`Mistaken`). Names are given by the broker as Registry gives them:
free in the group. History variables count announcements and remember who was
told of himself.

**MCRegistry**, **MCIdentity**, **MCBroker**, **MCWorkspaces**, **MCSessions**,
**MCConfig** and **MCBadges** give the constants of the small instances. PeerServer's
constants are plain sets in its .cfg file.

**RegistryProofs**, **IdentityProofs**, **BrokerProofs** (with the refinement of
Mailbox), **PeerServerProofs**, **ConfigProofs**, **WorkspacesProofs**,
**SessionsProofs** and **BadgesProofs** hold the theorems.

Operators marked "Mutant" in the modules are plausible wrong versions of the
operator below them; no specification uses them. Putting one in the place of
the operator it precedes makes the property it was written for fail, which is
how each property was tried.

## 3. The runs

All were checked with two workers; none takes longer than four minutes.

| Run | Question | Instance | States |
|---|---|---|---|
| Registry_directory | Do tables and processes stay consistent under all calls and timers? | 2 processes in one directory, default group and a secret group with two different secrets, 2 tokens, 3 derivable names and one chosen one | 628 000 |
| Registry_time | Is nothing purged early, everything lost purged in the end? | 3 processes, one remote, two sharing a pid; two ticks to a day, `MaxAge` 3 | 104 000 |
| Broker_mail | Do foreign keys hold, does mail stay in its group, does the daemon implement the mailbox? | 2 local processes, 2 secret groups either may join, 2 rows, 2 messages, no sockets, limits of 0 so that everything expires at once | 394 000 |
| Broker_push | Do pool, replay and frames follow the sockets that authenticate? | 1 process with one row, 2 connections, 2 messages, replay capped at 1 | 257 000 |
| PeerServer_run | Does the client recover, act in one group, and show its mail? | 2 groups, 2 sockets, replay capped at 1, any 3 of: messages (at most 2), troubles | 231 000 |
| Workspaces_run | Does one Deck drive one workspace, and is nothing let go unsaved? | 2 Decks on 2 hosts, one file of an earlier run (with or without its lock) and one new id, 1 tile, 1 run of each Deck, 1 trouble | 2 181 000 |
| Workspaces_live | Is everything saved in the end, do dead locks lapse? | the same with 1 id, in use by an earlier run or new | 141 000 |
| Sessions_run | Does a tile know its own Claude, is an id open once, do late exits harm nobody? | 2 tiles, 3 terminals, 1 workspace, launched with a secret and then without, 2 of `/clear`, exit, restart | 1 134 000 |
| Config_run | Does every layout resolve as documented, is every session in its Deck's scope, does the Deck find its broker? | 3 directories, 2 groups, 3 edits, 2 Decks, 2 terminals, 3 scopes; 2 configurations, all 36 environments of broker settings | 626 000 |
| Badges_run | Does a tile come to show its own peer, is it announced once, does its thinking end? | 2 tiles, 2 terminals, 2 names, a cache file of an earlier session, 1 trouble | 214 000 |
| Sessions_context, Badges_join | Does the code do what these lines say? | those of the passing runs | violated |

**Why these bounds.** Two processes in one place are the smallest case of every
question about identity (collision, resume, take-over), and the third process in
Registry_time adds a host that cannot be probed. Two tokens are enough for one
row to be purged while the other takes its name. Two groups let a process leave
and come back. Two ticks to a day separate "older than the limit" from "on an
earlier day", which is what the text comparison confuses; `Day = 1` elsewhere
makes the comparison exact to the day and keeps the state space small. Two
connections are an old one and its replacement. Two messages can be out of
order, and with a replay cap of 1 one of them is cut off; equal ages (the
same millisecond) are included. Limits of 0 or 1 ticks only say that limits can
be reached. In Broker_mail both processes can be
in either of two groups, so that a send could cross over; the default group, open to all, holds
only the Deck's row there (Registry_directory and Broker_push let processes into
it). In PeerServer_run two messages are
one more than the replay lets through, and three events allow a switch during which the
broker fails while a message waits, or two messages that wait while the connection
breaks. A trouble is a crash of the broker, a broken connection, a sweep, a day of
waiting, a notification that throws, a switch or an exit.

In the workspace runs two Decks contest one file, and a second id lets a Deck change
from one workspace to another. Two hosts make the heartbeat matter; the lock of an
earlier run of the same place is the case of one host, where the pid is probed.
`MaxContested = 0` lets users go on until the first workspace is contested; what has
begun then still ends. A trouble is a crash, a late heartbeat, months without a save, a
write that fails or a pid that is used again. In Sessions two tiles suffice for one to
be given the other's id; three terminals allow a tile to be reopened while the old
terminal's exit is still to come. Once ids have been mixed up, no new tiles are opened.
In Config three directories hold a repository's root between the file system's root and
the working directory; sessions of plain shells, one at a time, and edits of project
files come before the first Deck, as neither has a part in what Decks do; three scopes
let one Deck replace its scope while another one runs. In Badges two terminals are the
one that was replaced and its successor in a tile, or the peers of two tiles; the file
of the earlier session bears a name that a new peer may get, or not. A trouble is a
rename, a `/clear`, an exit by itself or a failed request; closing, restoring and late
exits are not counted. A third terminal makes more than five million states: that a tile
which has taken another's id is restarted while it lives, and what its replaced terminal
still prints, is left to the proofs in BadgesProofs, which hold for any number of
terminals. That two restored tiles have one id is looked at in Sessions. In Config_run
the Deck's scope has the name of a group that one of the two configurations has, so that
the forced name wins over it.

**Symmetry** is used for the two groups in Broker_mail, where invariants and a
refinement of the safety kind are checked, for the two Decks in Workspaces_run (which
host they are on only matters as same or different) and for Decks and terminals in
Config_run, where only invariants and an action property are checked. Elsewhere processes
differ by host or pid, or liveness is checked.

**Deadlock** is checked in the Registry, Broker and Config runs. It is not in
PeerServer, where the process may have exited for good, and not in Workspaces,
Sessions and Badges, which stop when their bounds on runs, terminals and troubles
are used up.

**Fairness.** In Registry, weak fairness of the two timers and of the clock:
they are `setInterval` callbacks of a daemon that runs. Nobody is assumed to
call anything. `LostRowsBecomeDormant` therefore speaks of rows nobody holds;
heartbeats of a live process keep its row active. In PeerServer, weak fairness
of events that are due (a frame that arrives is passed on or its notification throws),
of answers to calls that were made (or their failure),
of the reconnect timer, and of somebody restarting the broker (every session's
`ensureBroker` does); strong fairness of the poll, because its interval comes
round however often the socket is up for a moment in between. Tools, sends and
exits need never happen. In Workspaces, weak fairness of a handler that has
begun, of the end of an app that is quitting and of heartbeats that grow old;
strong fairness of the auto-save timer, which is set and fires between other
handlers. A change restarts that timer, so `ChangesGetSaved` speaks of a Deck
whose sessions have stopped changing. Nobody has to use a Deck, no write has to fail,
and a process that has taken over a pid may run for ever. In Badges, weak
fairness of the poll, which is a `setInterval` of the Deck
(session-service.ts:134). No server has to come up and no id has to be
discovered: `BadgesComeRight` speaks of tiles whose session is known.

## 4. What the code does not do as written

* **Sessions_context / ContextSurvives.** desktop/README.md:119 says that a
  session with a transcript is resumed with its context. A resume stores a
  placeholder in the place of the id it resumed (session-service.ts:438); saved
  before the fork's own id is known and has a transcript, the workspace has lost
  the way to the context, and the next restore starts afresh.
* **Badges_join / JoinNamesTheNewcomer.** index.ts:114 says that the other peers
  are told when a fresh session's peer_id first resolves, excluding the joiner.
  Before its server has registered, `resolvePeerId` (peer-state.ts:63) resolves it to
  the newest cache file of the directory, which an earlier session left; the
  one-shot announcement names and excludes that one. `JoinerNotTold` is the promise
  that does hold.

Seen while modelling, without a run of their own:

* README.md:439 says that of two processes in one directory the second gets a
  fresh id. `handleHeartbeat` (broker.ts:546) only updates `last_seen`: a process
  that was suspended past `ACTIVE_STALE_SEC` serves on under a dormant row, and the
  next process in its directory is given its token. `OneHolderUnlessExposed` says
  what does hold, and is proved.
* desktop/README.md:56 says that a launch without an argument gives a private
  group. launch.js:37 passes on the scope id it inherited, so in a session of a
  named Deck it gives that Deck's group.
* An empty broker URL is no URL for the sessions (config.ts:188), and an empty URL
  for the Deck (broker-client.ts:64), which then cannot announce.
* A derived name is not checked against the reserved ones (broker.ts:210 and 574).
* Sending acknowledges messages that a process without a socket was never shown
  (broker.ts:697).
* The replay limit takes effect only at a change of day (broker.ts:341,
  README.md:368).
* Pending mail beyond the cap or the age of the replay (broker.ts:803, README.md:367) is
  not pushed, and as long as the socket is up it is not polled for either
  (server.ts:313): it waits for `check_messages`, or for the socket to go down.
  `PendingIsShown` leaves it out.
* A pushed frame whose notification throws is dropped until the next replay or poll
  (server.ts:287).
* A failed auto-save is logged, and its timer is not set again (index.ts:169-175): the
  tiles stay out of the file until the next change or save.
* On its own host a lock is live as long as any process has its pid, whatever its
  heartbeat (workspace-lock.ts:64): a workspace whose Deck crashed stays closed there
  while another process has that pid.
* Where the forced name is that of a configured group, that group has no name for a
  session of the Deck that switches to it: "<unknown>" (config.ts:417, server.ts:205).
* A session of a Deck that has switched away cannot switch back: `switch_group` looks
  names up in the configuration (server.ts:760), where the Deck's group is not, and by
  a name both have it comes to the configured one.
* A poll may notify again what a socket pushed while it awaited (server.ts:195
  and 318).
* A renamed peer keeps its old name in its cache file, and so on its tile: only
  `/register` writes the file.
* An auto-save timer that is pending when New (clear) runs mints an empty workspace
  (workspace-service.ts:96).
* With a repository at the root of the file system, or a git root spelled
  differently from the working directory, `findUpwards` has other bounds than
  README.md:211 says (`ResolvesAsDocumented` is about roots below "/").

## 5. What is proved

The proofs assume only the named ASSUMEs of the modules. They hold for any
number of processes, hosts, groups, names, tokens, ages, messages, sockets, Decks,
directories, workspaces, tiles and terminals, for any credentials and for any way
names are derived. Every invariant and action property of a passing run is a
theorem.

**RegistryProofs.** `TypeCorrect` comes first, action by action. The other
invariants are not inductive one by one, so they are proved together as
`Directory`: to the properties it adds `MintedBound` (a token above the counter
is in no row and no hand, so a new row overwrites nothing and nobody already
holds its token), `HoldersServe` (only a process that has registered has a token)
and `GroupsPlanted` (every group that has a row has its hash planted). The
resume branch of `/register`, which does not look at the secret of the old row,
keeps `MembersShowedSecret` only because the session leads to a row of the same
group and the group's hash has been planted and never changes. From it:
`SessionsCorrect`, `NamesCorrect`, `SecretsCorrect`, and `DeckCorrect` (the Deck's
row survives every purge and is never resumed; only this theorem states it) and
`ListedCorrect`: that what is listed under a name is what the name leads to is
`NamesUnique` of two rows in one group, the caller's own. The action
properties `LiveTokenSafe`, `NamesStay` and `PurgesJustified` follow from the
type and directory invariants and, for the last one, from `DaysMonotone`: the
text comparison is late but never early.

**IdentityProofs.** `OneHolderCorrect`. The inductive invariant `Ownership` says
in addition (`OwnsRow`) that the row of a running process is active and carries
that process's host and pid, as long as the token was never exposed: nobody takes
over an active row whose process is alive.

**BrokerProofs.** `BrokerImplementsRegistry`: every step of Broker is a step of
Registry or leaves its variables alone, so all theorems of the directory hold
for the daemon with mail and sockets. `MailInv` (mail refers to rows, both ends
are in the group of the message, ids are below the counter) gives
`MessagesCorrect` and `GroupsSeparate`; `NetInv` gives `TypeCorrectB` and
`PoolCorrect`.

`FramesCorrect` needs two things that `FramesInOrder` does not say (`Frames`):
every id on the wire is at most the counter, so that a message that is pushed as
it is inserted is the newest, and nothing is in flight on a connection that is not
open and authenticated, so that the backlog flushed at authentication comes first.
`BacklogCorrect` is about the one step that authenticates. A message that is
pending and recent is among those the flush selects, because the textual limit is
late and never early (`DaysMonotone` again). If no more messages are recent than the
cap allows, as many different ones are sent, and so all of them (`AllListed`, by the
pigeonhole principle); otherwise the cap is used up, by messages none of which is
older than those left out (`LeftOut`).

`MailboxImplemented`: every behaviour of the daemon is, through the refinement
mapping, a behaviour of Mailbox. Under `MailInv`, a registration that inserts a row
is `Join` and every other call of the directory stutters; `/send-message` is `Send`
with one letter and `/announce` is `Send` by the operator with one letter to each
recipient; `/poll-messages` is `Fetch`; `/unregister`, the purges and a restart are
`Clear`; the clock is `TimePasses`. That a purge only takes overdue letters again
needs the text comparison never to be early.

**PeerServerProofs.** `TypeCorrect` and `OneGroupAtATime`. `ActiveInOneGroup` only
speaks of moments when no switch is in progress; the invariant (`OneRow`) also says
that between its two calls `switch_group` has no active row at all, and
`CallsSound` that a poll or a switch that was begun is about a group and that
nothing runs before `main` has registered. Groups that a failed call may have
joined (`torn`) are left out of both.

**ConfigProofs.** `TypeCorrect`, `DecksKeepTheirSessions`, `SecretsAreCleanedUp`
and `GroupsHaveNames` come from one invariant. `DecksSound` says that the secret
file a Deck hands down has a number that was already given out, so that a new
file overwrites nobody's, and holds the Deck's secret unless the system has
cleaned it away; `TilesSound`, that a session has the environment its Deck would
give it today: a Deck never changes its scope under a living session. A session's map
names the forced group whatever else is configured (`ForcedIsNameable`), and every
configured group but the one whose name was taken (`ConfiguredIsNameable`).
`ResolutionIsAsDocumented` rests on a lemma that the upward search finds the
nearest file below the bound; it is about each state and needs only the type.
`OneBroker` compares the two ways to the broker's address case by case.

**WorkspacesProofs.** `OneDriverUnlessContested` is not inductive. The invariant
relates each Deck's pending `job` to the lock files: `JobSound` lists what may be
left of each handler and for which workspace, `IdsSound` says that no lock names a
run still to come, and `Guarded` that whoever drives an uncontested workspace owns
its lock, or is about to claim it and will find it free. A Deck that takes a lock
therefore meets a driver only where another one was between its look and its use,
and that is what `contested` records. An owner that lives is seen, whoever else has
got a pid (`SeenIsLive`). `UnsavedWillBeSaved` needs
`OneDriverUnlessContested`: no other Deck writes or removes the file of an uncontested
workspace, so what is to be saved only changes on the Deck's own thread
(`DeckKeepsInv`, with which each action is shown to keep the invariant). A failed write
leaves the file as it was; only that of the timer leaves no timer behind.

**SessionsProofs.** `TypeCorrect`, `TilesKnowTheirOwn`, `OpenIdsAreGuarded` and
`ExitsCloseTheirOwn`. `TilesSound` holds always: tiles are numbered in the order they
were made, terminals belong to tiles that are there, and only what was spawned is
searched for. The rest (`Unmixed`) holds as long as the fallback has not mixed ids up:
`IdsKnown` and `FilesKnown`, that every id of a tile or a file was minted for a terminal
already spawned, so that a new placeholder is nobody's; `OneTerminal`, that a terminal
which lives is the one of its tile unless that tile is gone, so that what a Claude
writes into the back-channel is about the tile's own terminal; and `OwnIds`, that the id
of a tile with a terminal and the content of its back-channel file are those of this
terminal's Claude, that the id is open, and that no other tile has any id of it. The
last is stronger than that ids differ, and is needed because a refresh changes from one
id of a Claude to another: releasing the old one must not close somebody else's. A
restore launches any number of tiles in one step; `Places` (by a pigeonhole argument)
gives each a terminal of its own.

**BadgesProofs.** `TypeCorrect`, `NoTileThinksForEver`, `ArrivalsAreAnnouncedOnce`
and `NewcomersAreNotTold`. `IntentsSound`: a tile that is still to be announced, or
does not exist yet, has not been announced. `FilesSound` and `PostsSound` say of
cache files and of announcements on their way that the name in them is the one the
terminal's peer registered under, unless it was renamed since or, for the latter,
the name was guessed from another session's file. `TilesSound` keeps the timer of a
tile from outliving it.

**Only model-checked.** The liveness properties `LostRowsBecomeDormant`,
`LostRowsArePurged`, `GetsConnected`, `PendingIsShown`, `ChangesGetSaved`,
`DeadLocksLapse` and `BadgesComeRight`, as fairness and ENABLED are outside what the
prover treats.

## 6. What is left out, and what is next

Not modelled, and why: columns nothing depends on, text of messages, wording, logging,
the token check of the HTTP front, `/set-summary`, and lengths of delays; the read-only
queries apart from `/list-peers`, which count rows and change nothing, and of that its
scope `repo` and its activity label; summaries, which are one request to a language
model; the admin CLI, templates, settings, translations, menus and the renderer, which
have no state beyond files read and written whole by one process or a copy of what
others keep; `forgetScopeSecret`, which is never called; renaming, colouring and
reordering tiles, on which nothing depends. In Badges all tiles are in one directory, no
session in them switches groups, and a name belongs to one broker. In Config the
environment of a session has the broker settings of its Deck, as nothing on the way
changes them. In Workspaces a write may fail in a save of the timer or the user and in a
restore; that the final save of New, of closing or of quitting fails (it throws before
anything else is done), or a heartbeat's or a removal's, is left out, as is a removal of
the secret file that fails (scope.ts:137, swallowed). In PeerServer a socket ends at
both ends at once. For the broker the probe `process.kill(pid, 0)` is taken to be exact
on its host, the broker's handlers to be single steps, and the broker process to be the
only writer of the database.

Next:

1. **Torn handlers.** A variant of Broker in which the daemon may die between two
   statements of `/register`, `/unregister` and the purge.
2. **Probes that err.** `process.kill(pid, 0)` also fails for a living process of
   another user; the same variant, with `OneHolderUnlessExposed` restated for it.
3. **MCP server and broker together.** PeerServer keeps of the broker what one process
   notices; a refinement from the two composed would replace that by Broker itself.
