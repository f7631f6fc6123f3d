------------------------------ MODULE PeerServer ------------------------------
(***************************************************************************)
(* One MCP server process (src/server.ts) as a client of the broker: the   *)
(* WebSocket with its reconnect timer, the fallback poll, the tools        *)
(* check_messages and switch_group, and the shutdown.  They are            *)
(* asynchronous functions on one thread: a step runs from one await to the *)
(* next, and between two steps any event may come in.                      *)
(*                                                                         *)
(* Of the broker only what this process notices is kept: the row it has in *)
(* each group, the pending mail of that row and the socket the pool leads  *)
(* to.  A session brings a process back to its row, so the token it gets   *)
(* in a group is named after the group.  Broker has the rest.              *)
(*                                                                         *)
(* A call answered by the broker is one step: what the process does with   *)
(* the answer depends on nothing that changed while the answer travelled.  *)
(* Delays are left out: a timer that is set may fire at any time.          *)
(***************************************************************************)
EXTENDS Naturals, FiniteSets

CONSTANTS
  Groups,     \* the groups the user is a member of
  Home,       \* the group main() resolves
  Conns,      \* bound: WebSockets that may exist at a time
  NoConn,     \* null
  NoGroup,    \* null
  FlushMaxCount, \* CLAUDE_PEERS_FLUSH_MAX_COUNT
  MaxMsg,     \* bound: messages sent to this process
  MaxEvents   \* bound: those, and crashes, broken connections, sweeps, long waits,
              \* failed notifications, switches and exits

ASSUME PeerServerAssumption ==
  /\ Home \in Groups /\ NoGroup \notin Groups /\ NoConn \notin Conns
  /\ FlushMaxCount \in Nat \ {0} /\ MaxMsg \in Nat /\ MaxEvents \in Nat

VARIABLES
  phase,               \* starting, running, leaving (in cleanup) or gone
  myInstanceToken,     \* the group whose row the process acts under
  conn,                \* the process's WebSockets
  wsSocket, wsConnected, wsReconnectTimer,
  notifiedMessageIds,
  poll,                \* pollFallback in progress
  check,               \* check_messages in progress: what it has to show
  switch,              \* switch_group in progress
  up,                  \* the broker is running
  row,                 \* status of the process's row in each group
  pending,             \* its mail that is not marked delivered
  overdue,             \* messages up to this one are older than FLUSH_MAX_AGE_HOURS
  pool,                \* wsPool
  sent, troubles,      \* counters of the bounds
  spent,               \* history: mail that check_messages returned, or that was used
                       \* up without being shown
  torn                 \* history: groups joined by a /register that failed

client == <<phase, myInstanceToken, notifiedMessageIds>>
sockets == <<conn, wsSocket, wsConnected, wsReconnectTimer>>
calls == <<poll, check, switch>>
broker == <<up, row, pending, overdue, pool, sent, troubles>>
history == <<spent, torn>>
vars == <<client, sockets, calls, broker, history>>

MsgIds == 1 .. MaxMsg
Socket == [state : {"unused", "connecting", "open", "closing"},
           alive : BOOLEAN,                 \* the broker's end
           claim : Groups \cup {NoGroup},   \* the token in the auth frame
           authed : BOOLEAN,
           frames : SUBSET MsgIds]
Unused == [state |-> "unused", alive |-> FALSE, claim |-> NoGroup,
           authed |-> FALSE, frames |-> {}]
NoPoll == [stage |-> "idle", token |-> NoGroup, fresh |-> {}]
NoSwitch == [stage |-> "idle", target |-> NoGroup]

\* Something out of the ordinary happens, within the bound.
Trouble == sent + troubles < MaxEvents /\ troubles' = troubles + 1

Working == phase \in {"running", "leaving"}

-----------------------------------------------------------------------------
(* WebSocket *)

\* ws.close() on the current socket, whatever its state: no more frames are delivered.
Closing(cn) ==
  IF wsSocket = NoConn THEN cn
  ELSE [cn EXCEPT ![wsSocket].state = "closing", ![wsSocket].frames = {}]

\* A connection to use; unused ones are all alike.
Spare ==
  LET unused == {c \in Conns : conn[c].state = "unused"}
  IN  IF unused = {} THEN {} ELSE {CHOOSE c \in unused : TRUE}

\* connectWs: closes what it takes for the old socket and opens a new one.
ConnectWs ==
  \E c \in Spare :
    /\ conn' = [Closing(conn) EXCEPT ![c] = [Unused EXCEPT !.state = "connecting",
                                                           !.alive = up]]
    /\ wsSocket' = c

\* Mutant: the token main() was given.
ClaimHome == Home

\* The token of this moment.
Claim == myInstanceToken

\* The "open" event, and the auth frame.
WsOpen(c) ==
  /\ Working
  /\ conn[c].state = "connecting" /\ conn[c].alive
  /\ conn' = [conn EXCEPT ![c].state = "open", ![c].claim = Claim]
  /\ wsConnected' = TRUE
  /\ wsReconnectTimer' = FALSE
  /\ UNCHANGED <<client, wsSocket, calls, broker, history>>

\* The "close" event of any socket, also of one that was replaced.
CloseNoted(c) ==
  /\ wsConnected' = FALSE
  /\ wsSocket' = NoConn
  /\ wsReconnectTimer' = TRUE

\* The broker's end closes as well, and only takes its own entry along.
OutOfPool(c) == [g \in Groups |-> IF pool[g] = c THEN NoConn ELSE pool[g]]

WsClose(c) ==
  /\ Working
  /\ \/ conn[c].state = "closing"
     \/ conn[c].state \in {"connecting", "open"} /\ ~conn[c].alive
  /\ conn' = [conn EXCEPT ![c] = Unused]
  /\ CloseNoted(c)
  /\ pool' = OutOfPool(c)
  /\ UNCHANGED <<client, calls, up, row, pending, overdue, sent, troubles, history>>

\* scheduleWsReconnect's timer fires.
Reconnect ==
  /\ Working
  /\ wsReconnectTimer
  /\ wsReconnectTimer' = FALSE
  /\ ConnectWs
  /\ UNCHANGED <<client, wsConnected, calls, broker, history>>

FrameArrives(c, m) ==
  /\ Working
  /\ conn[c].state = "open" /\ m \in conn[c].frames
  /\ conn' = [conn EXCEPT ![c].frames = @ \ {m}]
  /\ UNCHANGED <<phase, myInstanceToken, wsSocket, wsConnected, wsReconnectTimer, calls,
                 up, row, pending, overdue, pool, sent, torn>>

\* A pushed frame is passed on, whether it was notified before or not.
WsMessage(c, m) ==
  /\ FrameArrives(c, m)
  /\ notifiedMessageIds' = notifiedMessageIds \cup {m}
  /\ UNCHANGED <<troubles, spent>>

\* The notification throws: the frame is used up.
WsMessageFails(c, m) ==
  /\ FrameArrives(c, m)
  /\ Trouble
  /\ spent' = spent \cup {m}
  /\ UNCHANGED notifiedMessageIds

-----------------------------------------------------------------------------
(* pollFallback.  Two polls do not overlap here: setInterval could start a   *)
(* second one while the first waits for a slow broker.                       *)

\* The timer fires while the socket is taken to be down.
PollAsk ==
  /\ phase = "running"
  /\ poll = NoPoll
  /\ ~wsConnected
  /\ poll' = [stage |-> "asked", token |-> myInstanceToken, fresh |-> {}]
  /\ UNCHANGED <<client, sockets, check, switch, broker, history>>

Fresh(ms) == ms \ notifiedMessageIds

\* /peek-messages, and the filter; /list-peers follows.
PollFetch ==
  LET fresh == Fresh(pending[poll.token])
  IN  /\ Working
      /\ poll.stage = "asked"
      /\ up
      /\ poll' = IF fresh = {} THEN NoPoll
                 ELSE [poll EXCEPT !.stage = "fetched", !.fresh = fresh]
      /\ UNCHANGED <<client, sockets, check, switch, broker, history>>

PollFail ==
  /\ Working
  /\ poll.stage = "asked" /\ ~up
  /\ poll' = NoPoll
  /\ UNCHANGED <<client, sockets, check, switch, broker, history>>

\* One round of the loop; an error of /list-peers was swallowed.
PollNotify(m) ==
  /\ Working
  /\ poll.stage = "fetched" /\ m \in poll.fresh
  /\ notifiedMessageIds' = notifiedMessageIds \cup {m}
  /\ poll' = IF poll.fresh = {m} THEN NoPoll ELSE [poll EXCEPT !.fresh = @ \ {m}]
  /\ UNCHANGED <<phase, myInstanceToken, sockets, check, switch, broker, history>>

\* The notification throws: the message is left to the next poll or replay.
PollNotifyFails(m) ==
  /\ Working
  /\ poll.stage = "fetched" /\ m \in poll.fresh
  /\ Trouble
  /\ poll' = IF poll.fresh = {m} THEN NoPoll ELSE [poll EXCEPT !.fresh = @ \ {m}]
  /\ UNCHANGED <<client, sockets, check, switch, up, row, pending, overdue, pool, sent,
                 history>>

-----------------------------------------------------------------------------
(* check_messages, one call at a time *)

\* /poll-messages marks everything delivered.
CheckFetch ==
  /\ phase = "running"
  /\ up
  /\ check = {}
  /\ pending[myInstanceToken] # {}
  /\ check' = pending[myInstanceToken]
  /\ pending' = [pending EXCEPT ![myInstanceToken] = {}]
  /\ UNCHANGED <<client, sockets, poll, switch, up, row, overdue, pool, sent, troubles,
                 history>>

\* /list-peers answers, and the messages are returned.
CheckShow ==
  /\ Working
  /\ up
  /\ check # {}
  /\ spent' = spent \cup check
  /\ check' = {}
  /\ UNCHANGED <<client, sockets, poll, switch, broker, torn>>

\* Either answer does not arrive: the tool returns an error instead.
CheckFail ==
  /\ Working
  /\ ~up
  /\ check # {}
  /\ spent' = spent \cup check
  /\ check' = {}
  /\ UNCHANGED <<client, sockets, poll, switch, broker, torn>>

\* send_message: the broker takes what waited for the sender as read; a message of the
\* same instant, which it leaves pending, is left to Broker.
SendMessage ==
  /\ phase = "running"
  /\ up
  /\ pending[myInstanceToken] # {}
  /\ spent' = spent \cup (pending[myInstanceToken] \ notifiedMessageIds)
  /\ pending' = [pending EXCEPT ![myInstanceToken] = {}]
  /\ UNCHANGED <<client, sockets, calls, up, row, overdue, pool, sent, troubles, torn>>

-----------------------------------------------------------------------------
(* switch_group, one call at a time *)

SwitchStart(g) ==
  /\ phase = "running"
  /\ switch = NoSwitch
  /\ switch' = [stage |-> "leaving", target |-> g]
  /\ Trouble
  /\ UNCHANGED <<client, sockets, poll, check, up, row, pending, overdue, pool, sent,
                 history>>

\* Mutant: another status than the two of the schema.
ParkedClosed == [row EXCEPT ![myInstanceToken] = "closed"]

\* Mutant: the row that is left is not parked.
LeftAlone == row

ParkedRow == [row EXCEPT ![myInstanceToken] = "dormant"]

\* /disconnect answers; the timer is cleared and the socket closed.
SwitchLeave ==
  /\ Working
  /\ switch.stage = "leaving"
  /\ up
  /\ row' = ParkedRow
  /\ wsReconnectTimer' = FALSE
  /\ conn' = Closing(conn)
  /\ switch' = [switch EXCEPT !.stage = "joining"]
  /\ UNCHANGED <<client, wsSocket, wsConnected, poll, check, up, pending, overdue,
                 pool, sent, troubles, history>>

\* /register answers, and the process takes the new token.
SwitchJoin ==
  /\ Working
  /\ switch.stage = "joining"
  /\ up
  /\ row' = [row EXCEPT ![switch.target] = "active"]
  /\ myInstanceToken' = switch.target
  /\ switch' = [switch EXCEPT !.stage = "joined"]
  /\ torn' = torn \ {switch.target}
  /\ UNCHANGED <<phase, notifiedMessageIds, sockets, poll, check, up, pending,
                 overdue, pool, sent, troubles, spent>>

\* After the two cache files are written.
SwitchConnect ==
  /\ Working
  /\ switch.stage = "joined"
  /\ ConnectWs
  /\ switch' = NoSwitch
  /\ UNCHANGED <<client, wsConnected, wsReconnectTimer, poll, check, broker, history>>

\* A call fails, before or after the broker has carried it out.
SwitchFail ==
  /\ Working
  /\ ~up
  /\ switch.stage \in {"leaving", "joining"}
  /\ LET joined == [row EXCEPT ![switch.target] = "active"]
     IN  IF switch.stage = "leaving"
         THEN row' \in {row, ParkedRow} /\ UNCHANGED torn
         ELSE \/ UNCHANGED <<row, torn>>
              \/ row' = joined /\ torn' = torn \cup {switch.target}
  /\ switch' = NoSwitch
  /\ UNCHANGED <<client, sockets, poll, check, up, pending, overdue, pool, sent, troubles, spent>>

\* The broker refuses the secret.
SwitchRefused ==
  /\ Working
  /\ up
  /\ switch.stage = "joining"
  /\ switch' = NoSwitch
  /\ UNCHANGED <<client, sockets, poll, check, broker, history>>

-----------------------------------------------------------------------------
(* Start and end *)

\* main: ensureBroker has found or started the broker; /register, connectWs.
Main ==
  /\ phase = "starting"
  /\ up
  /\ phase' = "running"
  /\ myInstanceToken' = Home
  /\ row' = [row EXCEPT ![Home] = "active"]
  /\ ConnectWs
  /\ UNCHANGED <<notifiedMessageIds, wsConnected, wsReconnectTimer, calls, up, pending,
                 overdue, pool, sent, troubles, history>>

\* cleanup: no more heartbeats and polls, and the socket is closed.
Cleanup ==
  /\ phase = "running"
  /\ phase' = "leaving"
  /\ wsReconnectTimer' = FALSE
  /\ conn' = Closing(conn)
  /\ Trouble
  /\ UNCHANGED <<myInstanceToken, notifiedMessageIds, wsSocket, wsConnected, calls,
                 up, row, pending, overdue, pool, sent, history>>

\* /disconnect has been answered or has failed: process.exit.  A /register that
\* is on its way may still be carried out.
Exit ==
  LET parked == IF up THEN ParkedRow ELSE row
  IN  /\ phase = "leaving"
      /\ phase' = "gone"
      /\ \/ row' = parked /\ UNCHANGED torn
         \/ /\ up /\ switch.stage = "joining"
            /\ row' = [parked EXCEPT ![switch.target] = "active"]
            /\ torn' = torn \cup {switch.target}
      /\ conn' = [c \in Conns |-> Unused]
      /\ pool' = [g \in Groups |-> NoConn]
      /\ poll' = NoPoll /\ check' = {} /\ switch' = NoSwitch
      /\ spent' = spent \cup check
      /\ UNCHANGED <<myInstanceToken, notifiedMessageIds, wsSocket, wsConnected,
                     wsReconnectTimer, up, pending, overdue, sent, troubles>>

-----------------------------------------------------------------------------
(* The broker *)

\* Somebody sends a message to one of the rows, and it is pushed.
Send(g) ==
  LET m == sent + 1
  IN  /\ up
      /\ row[g] = "active"
      /\ sent < MaxMsg /\ sent + troubles < MaxEvents
      /\ sent' = m
      /\ pending' = [pending EXCEPT ![g] = @ \cup {m}]
      /\ conn' = [c \in Conns |-> IF pool[g] = c /\ conn[c].state = "open"
                                  THEN [conn[c] EXCEPT !.frames = @ \cup {m}]
                                  ELSE conn[c]]
      /\ UNCHANGED <<client, wsSocket, wsConnected, wsReconnectTimer, calls, up, row,
                     overdue, pool, troubles, history>>

Recent(g) == pending[g] \ 1 .. overdue

\* Mutant: the cap takes the oldest messages.
OldestBacklog(g) ==
  {m \in Recent(g) : Cardinality({n \in Recent(g) : n < m}) < FlushMaxCount}

\* flushPendingForToken: the newest messages that are not too old.  Messages of the
\* same instant and the limit's textual comparison are left to Broker.
Backlog(g) ==
  {m \in Recent(g) : Cardinality({n \in Recent(g) : n > m}) < FlushMaxCount}

\* The auth frame: the backlog is replayed, or the socket is closed.
WsAuth(c) ==
  LET g == conn[c].claim
  IN  /\ up
      /\ conn[c].alive /\ ~conn[c].authed
      /\ g # NoGroup
      /\ IF row[g] = "active"
         THEN /\ conn' = [conn EXCEPT ![c].authed = TRUE,
                                      ![c].frames = IF conn[c].state = "open"
                                                    THEN Backlog(g) ELSE {}]
              /\ pool' = [pool EXCEPT ![g] = c]
         ELSE /\ conn' = [conn EXCEPT ![c].alive = FALSE]
              /\ UNCHANGED pool
      /\ UNCHANGED <<client, wsSocket, wsConnected, wsReconnectTimer, calls, up, row,
                     pending, overdue, sent, troubles, history>>

\* A day goes by, and the messages up to m are not replayed any more.
GrowOld(m) ==
  /\ overdue < m /\ m <= sent
  /\ overdue' = m
  /\ Trouble
  /\ UNCHANGED <<client, sockets, calls, up, row, pending, pool, sent, history>>

\* sweepInactivePeers, after the machine slept for too long.
Sweep(g) ==
  /\ up
  /\ row[g] = "active"
  /\ row' = [row EXCEPT ![g] = "dormant"]
  /\ Trouble
  /\ UNCHANGED <<client, sockets, calls, up, pending, overdue, pool, sent, history>>

\* A connection breaks, and both ends hear of it.
Drop(c) ==
  /\ conn[c].state \in {"connecting", "open"} /\ conn[c].alive
  /\ Trouble
  /\ conn' = [conn EXCEPT ![c].alive = FALSE]
  /\ pool' = OutOfPool(c)
  /\ UNCHANGED <<client, wsSocket, wsConnected, wsReconnectTimer, calls, up, row,
                 pending, overdue, sent, history>>

BrokerDown ==
  /\ up
  /\ Trouble
  /\ up' = FALSE
  /\ conn' = [c \in Conns |-> [conn[c] EXCEPT !.alive = FALSE]]
  /\ pool' = [g \in Groups |-> NoConn]
  /\ UNCHANGED <<client, wsSocket, wsConnected, wsReconnectTimer, calls, row, pending,
                 overdue, sent, history>>

\* Somebody starts the broker again.
BrokerUp ==
  /\ ~up
  /\ up' = TRUE
  /\ UNCHANGED <<client, sockets, calls, row, pending, overdue, pool, sent,
                 troubles, history>>

-----------------------------------------------------------------------------

Init ==
  /\ phase = "starting"
  /\ myInstanceToken = NoGroup
  /\ conn = [c \in Conns |-> Unused]
  /\ wsSocket = NoConn
  /\ wsConnected = FALSE
  /\ wsReconnectTimer = FALSE
  /\ notifiedMessageIds = {}
  /\ poll = NoPoll /\ check = {} /\ switch = NoSwitch
  /\ up = TRUE
  /\ row = [g \in Groups |-> "none"]
  /\ pending = [g \in Groups |-> {}]
  /\ pool = [g \in Groups |-> NoConn]
  /\ overdue = 0 /\ sent = 0 /\ troubles = 0
  /\ spent = {} /\ torn = {}

SocketEvent ==
  \E c \in Conns : \/ WsOpen(c) \/ WsClose(c)
                   \/ \E m \in MsgIds : WsMessage(c, m) \/ WsMessageFails(c, m)
PollStep ==
  PollFetch \/ PollFail \/ \E m \in MsgIds : PollNotify(m) \/ PollNotifyFails(m)
CheckStep == CheckShow \/ CheckFail
SwitchStep == SwitchLeave \/ SwitchJoin \/ SwitchConnect \/ SwitchFail \/ SwitchRefused
Authenticate == \E c \in Conns : WsAuth(c)

Next ==
  \/ SocketEvent \/ Reconnect
  \/ PollAsk \/ PollStep
  \/ CheckFetch \/ CheckStep \/ SendMessage
  \/ \E g \in Groups : SwitchStart(g)
  \/ SwitchStep
  \/ Main \/ Cleanup \/ Exit
  \/ \E g \in Groups : Send(g) \/ Sweep(g)
  \/ Authenticate \/ \E m \in MsgIds : GrowOld(m)
  \/ \E c \in Conns : Drop(c)
  \/ BrokerDown \/ BrokerUp

Spec == Init /\ [][Next]_vars

\* Events that are due are delivered and calls that were made are answered; the
\* interval of the poll comes round again and again, also when the socket is up
\* for moments in between; somebody restarts the broker.  Nobody has to call a
\* tool, to send a message or to quit.
Fairness ==
  /\ \A c \in Conns : WF_vars(WsOpen(c)) /\ WF_vars(WsClose(c)) /\ WF_vars(WsAuth(c))
  /\ \A c \in Conns, m \in MsgIds : WF_vars(WsMessage(c, m))
  /\ WF_vars(Reconnect)
  /\ SF_vars(PollAsk)
  /\ WF_vars(PollStep) /\ WF_vars(CheckStep) /\ WF_vars(SwitchStep)
  /\ WF_vars(BrokerUp)

FairSpec == Spec /\ Fairness

-----------------------------------------------------------------------------
(* Invariants *)

TypeOK ==
  /\ phase \in {"starting", "running", "leaving", "gone"}
  /\ myInstanceToken \in Groups \cup {NoGroup}
  /\ conn \in [Conns -> Socket]
  /\ wsSocket \in Conns \cup {NoConn}
  /\ wsConnected \in BOOLEAN /\ wsReconnectTimer \in BOOLEAN
  /\ notifiedMessageIds \subseteq MsgIds
  /\ poll \in [stage : {"idle", "asked", "fetched"}, token : Groups \cup {NoGroup},
               fresh : SUBSET MsgIds]
  /\ check \subseteq MsgIds
  /\ switch \in [stage : {"idle", "leaving", "joining", "joined"},
                 target : Groups \cup {NoGroup}]
  /\ up \in BOOLEAN
  /\ row \in [Groups -> {"none", "active", "dormant"}]
  /\ pending \in [Groups -> SUBSET MsgIds]
  /\ pool \in [Groups -> Conns \cup {NoConn}]
  /\ overdue \in 0 .. MaxMsg /\ sent \in 0 .. MaxMsg /\ troubles \in 0 .. MaxEvents
  /\ spent \subseteq MsgIds /\ torn \subseteq Groups

Settled ==
  /\ phase = "running" /\ switch = NoSwitch
  /\ row[myInstanceToken] = "active" /\ myInstanceToken \notin torn

\* Apart from groups joined by a call whose answer did not arrive, a process that is not
\* in the middle of switch_group has at most the row it acts under active.
ActiveInOneGroup ==
  switch = NoSwitch =>
    \A g \in Groups \ torn : row[g] = "active" => g = myInstanceToken

-----------------------------------------------------------------------------
(* Liveness *)

Connected == \E c \in Conns : /\ pool[myInstanceToken] = c
                              /\ conn[c].state = "open" /\ conn[c].alive

\* A process settled in a group gets a socket that the pool leads to, however its
\* reconnects cross.
GetsConnected == Settled ~> ~Settled \/ Connected

\* The limits of README.md:367-368: the message has waited for too long, or together
\* with too many that were sent after it.
NotReplayed(m) ==
  \/ m <= overdue
  \/ Cardinality({n \in pending[myInstanceToken] : n > m}) >= FlushMaxCount

\* Mail that waits for a process is shown to it, by the socket, the poll or the
\* tool; unless it grows too old or too much to be replayed while it waits, the
\* process switches away or quits, or the mail was used up unseen: by a check or a
\* notification that failed, or by a message that the process sent.
PendingIsShown ==
  \A m \in MsgIds :
    phase = "running" /\ switch = NoSwitch /\ m \in pending[myInstanceToken] ~>
      \/ phase # "running" \/ switch # NoSwitch
      \/ m \in notifiedMessageIds \cup spent
      \/ NotReplayed(m)

=============================================================================
