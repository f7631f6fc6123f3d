------------------------------- MODULE Broker -------------------------------
(***************************************************************************)
(* The whole broker daemon (src/broker.ts): the peer directory of Registry *)
(* together with the messages table, the WebSocket pool and the frames on  *)
(* their way to the MCP servers.  Every action of Registry comes back here *)
(* with what the handler does to messages and sockets; the handlers that   *)
(* only concern messages are added.                                        *)
(*                                                                         *)
(* A message is its row; text is left out.  The rows live in SQLite and    *)
(* survive a restart of the daemon, the pool and the sockets do not.       *)
(***************************************************************************)
EXTENDS Registry, FiniteSets, Sequences, FiniteSetsExt, Functions

CONSTANTS
  Conns,          \* WebSocket connections that may be open at a time
  MaxMsg,         \* bound: messages ever sent
  FlushMaxCount,  \* FLUSH_MAX_COUNT
  FlushMaxAge,    \* FLUSH_MAX_AGE_HOURS
  MessageTTL      \* MESSAGE_TTL_DAYS

ASSUME MailAssumption ==
  /\ MaxMsg \in Nat
  /\ FlushMaxCount \in Nat \ {0}
  /\ FlushMaxAge \in Nat /\ MaxAge >= FlushMaxAge + Day
  /\ MessageTTL \in Nat /\ MaxAge >= MessageTTL + Day

VARIABLES
  messages,  \* id -> row of messages
  lastId,    \* AUTOINCREMENT
  sock,      \* the broker's end of each connection
  pool,      \* wsPool: instance_token -> connection
  wire       \* frames sent on a connection and not yet received

mail == <<messages, lastId>>
net == <<sock, pool, wire>>
brokerVars == <<registryVars, mail, net>>

MsgIds == 1 .. MaxMsg
MsgRow == [from : Tokens, to : Tokens, group : Groups, age : Ages,
           delivered : BOOLEAN]

\* A socket is open, half open (the client's end is gone and the broker has not
\* noticed) or closed; claim is the token in its auth frame, token is ws.data.
SockState == {"open", "half", "closed"}
NoProc == "none"
Sock == [state : SockState, proc : Procs \cup {NoProc},
         claim : Tokens \cup {NoToken}, token : Tokens \cup {NoToken}]

Sent == DOMAIN messages
Pending(t) == {i \in Sent : messages[i].to = t /\ ~messages[i].delivered}

-----------------------------------------------------------------------------
(* Sending *)

\* wsPool.get(token) with readyState 1.
Reachable(t) == t \in DOMAIN pool /\ sock[pool[t]].state # "closed"

\* Mutant: the push overtakes a backlog that is still being flushed.
PushFirst(w, t, i) ==
  IF Reachable(t) /\ sock[pool[t]].state = "open"
  THEN [w EXCEPT ![pool[t]] = <<i>> \o @] ELSE w

\* ws.send: a frame to a vanished client goes nowhere.
Push(w, t, i) ==
  IF Reachable(t) /\ sock[pool[t]].state = "open"
  THEN [w EXCEPT ![pool[t]] = Append(@, i)] ELSE w

NewMessage(from, to, g) ==
  [from |-> from, to |-> to, group |-> g, age |-> 0, delivered |-> FALSE]

\* Mutant: messages of the same instant are acknowledged as well.
AckedSameInstant(t, g, m) == m.to = t /\ m.group = g

\* ackPriorMessagesForSender: sent to t in the group, strictly before now.
Acked(t, g, m) == m.to = t /\ m.group = g /\ m.age > 0

\* /send-message
SendMessage(p, name) ==
  LET me == held[p]
      g == peers[me].group
      i == lastId + 1
  IN  /\ Serving(p)
      /\ me \in Rows
      /\ lastId < MaxMsg
      /\ \E to \in Addressed(g, name) :
           /\ messages' = [j \in Sent \cup {i} |->
                IF j = i THEN NewMessage(me, to, g)
                ELSE IF Acked(me, g, messages[j])
                     THEN [messages[j] EXCEPT !.delivered = TRUE] ELSE messages[j]]
           /\ wire' = Push(wire, to, i)
      /\ lastId' = i
      /\ UNCHANGED <<registryVars, sock, pool>>

\* /announce by the Deck, in whatever order the table yields the recipients.
NoName == "null"

Recipients(g, exclude) ==
  {t \in Rows \ {DeckToken} : /\ peers[t].group = g /\ peers[t].status = "active"
                              /\ peers[t].peer_id # exclude}

Orders(S) ==
  {s \in UNION {[1 .. n -> S] : n \in 0 .. MaxToken} :
     /\ \A t \in S : \E k \in DOMAIN s : s[k] = t
     /\ \A j, k \in DOMAIN s : s[j] = s[k] => j = k}

Announce(g, hash, exclude) ==
  /\ Admitted(g, hash)
  /\ Recipients(g, exclude) # {}
  /\ \E order \in Orders(Recipients(g, exclude)) :
       LET n == Len(order)
           id(k) == lastId + k
           pushed(c) == {k \in 1 .. n : Reachable(order[k]) /\ pool[order[k]] = c
                                        /\ sock[c].state = "open"}
       IN  /\ lastId + n <= MaxMsg
           /\ messages' = [j \in Sent \cup (lastId + 1 .. lastId + n) |->
                IF j > lastId THEN NewMessage(DeckToken, order[j - lastId], g)
                ELSE messages[j]]
           /\ lastId' = lastId + n
           /\ wire' = [c \in Conns |->
                IF pushed(c) = {} THEN wire[c]
                ELSE Append(wire[c], id(CHOOSE k \in pushed(c) : TRUE))]
  /\ UNCHANGED <<registryVars, sock, pool>>

-----------------------------------------------------------------------------
(* Fetching *)

\* /poll-messages, called by the check_messages tool.  (/peek-messages, called by the
\* fallback poll, marks nothing.)
PollMessages(p) ==
  /\ Serving(p)
  /\ Pending(held[p]) # {}
  /\ messages' = [i \in Sent |-> IF i \in Pending(held[p])
                                 THEN [messages[i] EXCEPT !.delivered = TRUE]
                                 ELSE messages[i]]
  /\ UNCHANGED <<registryVars, lastId, net>>

-----------------------------------------------------------------------------
(* WebSocket *)

ClosedSock == [state |-> "closed", proc |-> NoProc, claim |-> NoToken, token |-> NoToken]

\* connectWs: the socket is open and the client sends its auth frame.
OpenWs(p, c) ==
  /\ Serving(p)
  /\ sock[c].state = "closed"
  /\ sock' = [sock EXCEPT ![c] = [state |-> "open", proc |-> p, claim |-> held[p],
                                  token |-> NoToken]]
  /\ UNCHANGED <<registryVars, mail, pool, wire>>

\* sent_at > datetime('now', ..) is decided by the calendar day.
Recent(t) == {i \in Pending(t) : ~TextBefore(messages[i].age, FlushMaxAge)}

Age(i) == messages[i].age
Distinct(s) == \A j, k \in DOMAIN s : s[j] = s[k] => j = k
Chosen(t) == [1 .. Min({FlushMaxCount, Cardinality(Recent(t))}) -> Recent(t)]

\* Mutant: the oldest part of the backlog is replayed.
ReplaysOldest(t) ==
  {s \in Chosen(t) :
     /\ Distinct(s)
     /\ \A j, k \in DOMAIN s : j < k => Age(s[j]) >= Age(s[k])
     /\ \A i \in Recent(t) \ Range(s), k \in DOMAIN s : Age(i) <= Age(s[k])}

\* selectUndeliveredCapped: the newest pending messages, oldest first.  SQL
\* leaves the order of rows with one sent_at open.
Replays(t) ==
  {s \in Chosen(t) :
     /\ Distinct(s)
     /\ \A j, k \in DOMAIN s : j < k => Age(s[j]) >= Age(s[k])
     /\ \A i \in Recent(t) \ Range(s), k \in DOMAIN s : Age(i) >= Age(s[k])}

\* The auth frame arrives.  A live token takes over the pool entry and gets its
\* backlog (flushPendingForToken); otherwise the socket is closed.
WsAuth(c) ==
  LET t == sock[c].claim
  IN  /\ sock[c].state # "closed"
      /\ sock[c].token = NoToken
      /\ IF t \in Rows /\ peers[t].status = "active"
         THEN /\ sock' = [sock EXCEPT ![c].token = t]
              /\ pool' = Insert(pool, t, c)
              /\ \E s \in Replays(t) :
                   wire' = IF sock[c].state = "open" THEN [wire EXCEPT ![c] = s] ELSE wire
         ELSE /\ sock' = [sock EXCEPT ![c] = ClosedSock]
              /\ UNCHANGED <<pool, wire>>
      /\ UNCHANGED <<registryVars, mail>>

\* The client's end goes away; what is still on the wire is lost.
ClientClose(c) ==
  /\ sock[c].state = "open"
  /\ sock' = [sock EXCEPT ![c].state = "half"]
  /\ wire' = [wire EXCEPT ![c] = <<>>]
  /\ UNCHANGED <<registryVars, mail, pool>>

\* Mutant: the pool does not hear of it.
EvictNone(c) == pool

\* A closed socket only takes its own entry out of the pool.
Evict(c) == Without(pool, {t \in DOMAIN pool : t = sock[c].token /\ pool[t] = c})

\* The broker sees the socket close, or closes it when it is idle.
BrokerClose(c) ==
  /\ sock[c].state # "closed"
  /\ sock' = [sock EXCEPT ![c] = ClosedSock]
  /\ pool' = Evict(c)
  /\ wire' = [wire EXCEPT ![c] = <<>>]
  /\ UNCHANGED <<registryVars, mail>>

\* A frame reaches the client.
Receive(c) ==
  /\ wire[c] # <<>>
  /\ wire' = [wire EXCEPT ![c] = Tail(@)]
  /\ UNCHANGED <<registryVars, messages, lastId, sock, pool>>

-----------------------------------------------------------------------------
(* The registry's actions with their effect on messages and sockets *)

\* Mutant: only what the token sent is deleted.
MailFrom(S) == {i \in Sent : messages[i].from \in S}

\* DELETE FROM messages WHERE from_token = ? OR to_token = ?
MailOf(S) == {i \in Sent : messages[i].from \in S \/ messages[i].to \in S}

\* purgeOldUndeliveredStmt
Lapsed == {i \in Sent : /\ ~messages[i].delivered
                        /\ TextBefore(messages[i].age, MessageTTL)}

RegisterOrRename(p) ==
  /\ \/ \E c \in Credentials :
          \/ RegisterDenied(p, c[1], c[2])
          \/ Resurrect(p, c[1], c[2])
          \/ \E id \in PeerIds : RegisterNew(p, c[1], c[2], id)
     \/ Heartbeat(p)
     \/ Disconnect(p)
     \/ \E id \in PeerIds : SetId(p, id)
     \/ Start(p)
  /\ UNCHANGED <<mail, net>>

UnregisterB(p) ==
  /\ Unregister(p)
  /\ messages' = Without(messages, MailOf({held[p]}))
  /\ UNCHANGED <<lastId, net>>

\* A process dies, and with it the client's end of its sockets.
ExitB(p) ==
  /\ Exit(p)
  /\ sock' = [c \in Conns |-> IF sock[c].proc = p /\ sock[c].state = "open"
                              THEN [sock[c] EXCEPT !.state = "half"] ELSE sock[c]]
  /\ wire' = [c \in Conns |-> IF sock[c].proc = p THEN <<>> ELSE wire[c]]
  /\ UNCHANGED <<mail, pool>>

CleanStalePeersB ==
  /\ CleanStalePeers
  /\ messages' = Without(messages, MailOf({t \in Rows : Expired(t)}))
  /\ UNCHANGED <<lastId, net>>

SweepInactivePeersB ==
  /\ SweepInactivePeers
  /\ UNCHANGED <<mail, net>>

\* The timer, or GET /admin/purge-messages.
PurgeOldMessages ==
  /\ messages' = Without(messages, Lapsed)
  /\ UNCHANGED <<registryVars, lastId, net>>

\* The daemon dies and is started again by the next client: the tables are as
\* they were, both clean-ups run before it listens, and every socket is gone.
Restart ==
  /\ CleanStalePeers
  /\ messages' = Without(messages, MailOf({t \in Rows : Expired(t)}) \cup Lapsed)
  /\ sock' = [c \in Conns |-> ClosedSock]
  /\ pool' = [t \in {} |-> NoProc]
  /\ wire' = [c \in Conns |-> <<>>]
  /\ UNCHANGED lastId

TickB ==
  /\ Tick
  /\ messages' = [i \in Sent |-> [messages[i] EXCEPT !.age = Older(@)]]
  /\ UNCHANGED <<lastId, net>>

-----------------------------------------------------------------------------

InitB ==
  /\ Init
  /\ messages = [i \in {} |-> 0]
  /\ lastId = 0
  /\ sock = [c \in Conns |-> ClosedSock]
  /\ pool = [t \in {} |-> NoProc]
  /\ wire = [c \in Conns |-> <<>>]

NextB ==
  \/ \E p \in Procs :
       \/ RegisterOrRename(p)
       \/ UnregisterB(p)
       \/ ExitB(p)
       \/ \E name \in PeerIds : SendMessage(p, name)
       \/ PollMessages(p)
       \/ \E c \in Conns : OpenWs(p, c)
  \/ \E cr \in Credentials, exclude \in PeerIds \cup {NoName} :
       Announce(cr[1], cr[2], exclude)
  \/ \E c \in Conns : WsAuth(c) \/ ClientClose(c) \/ BrokerClose(c) \/ Receive(c)
  \/ CleanStalePeersB
  \/ SweepInactivePeersB
  \/ PurgeOldMessages
  \/ Restart
  \/ TickB

SpecB == InitB /\ [][NextB]_brokerVars

-----------------------------------------------------------------------------
(* Invariants *)

TypeOKB ==
  /\ TypeOK
  /\ Sent \subseteq MsgIds /\ messages \in [Sent -> MsgRow]
  /\ lastId \in 0 .. MaxMsg
  /\ sock \in [Conns -> Sock]
  /\ DOMAIN pool \subseteq Tokens /\ pool \in [DOMAIN pool -> Conns]
  /\ wire \in [Conns -> Seq(MsgIds)]

\* Every message row refers to existing peer rows, through registrations, purges,
\* unregistrations and restarts, so no DELETE ever trips over a foreign key (the
\* crash loop of v0.3.2); the Deck's row is never a recipient; ids are below
\* the AUTOINCREMENT counter.
MessagesHaveRows ==
  \A i \in Sent :
    /\ messages[i].from \in Rows /\ messages[i].to \in Rows \ {DeckToken}
    /\ i <= lastId

\* Mail stays in its group: the recipient's row, and the sender's unless it is
\* the Deck, belong to the message's group for as long as the message exists.
MailStaysInGroup ==
  \A i \in Sent :
    /\ peers[messages[i].to].group = messages[i].group
    /\ messages[i].from # DeckToken => peers[messages[i].from].group = messages[i].group

\* The pool only leads to sockets that authenticated for that very token.
PoolAuthenticated ==
  \A t \in DOMAIN pool : sock[pool[t]].state # "closed" /\ sock[pool[t]].token = t

\* Frames only travel to a process that authenticated for the recipient, oldest
\* first, and none twice on one connection: a replayed backlog and the pushes
\* that follow it do not overlap.
FramesInOrder ==
  \A c \in Conns :
    /\ \A k \in 1 .. Len(wire[c]) :
         wire[c][k] \in Sent => messages[wire[c][k]].to = sock[c].token
    /\ Distinct(wire[c])
    /\ \A j, k \in 1 .. Len(wire[c]) :
         j < k /\ {wire[c][j], wire[c][k]} \subseteq Sent =>
           Age(wire[c][j]) >= Age(wire[c][k])

-----------------------------------------------------------------------------
(* Action properties *)

\* Reconnecting replays everything recent, up to the cap, and always the newest.
BacklogReplayed ==
  [][\A c \in Conns :
       WsAuth(c) /\ sock'[c].token # NoToken /\ sock[c].state = "open" =>
         \A i \in Pending(sock'[c].token) :
           \/ \E k \in DOMAIN wire'[c] : wire'[c][k] = i
           \/ messages[i].age > FlushMaxAge
           \/ /\ Len(wire'[c]) = FlushMaxCount
              /\ \A k \in DOMAIN wire'[c] : Age(wire'[c][k]) <= Age(i)]_brokerVars

-----------------------------------------------------------------------------
(* Refinement *)

\* Sent at this very instant, later, or longer ago than MESSAGE_TTL_DAYS.
AgeClass(age) ==
  CASE age = 0 -> "now" [] age > MessageTTL -> "overdue" [] OTHER -> "earlier"

RowGroups == [t \in Rows |-> peers[t].group]
Letters ==
  [i \in Sent |-> [from |-> messages[i].from, to |-> messages[i].to,
                   read |-> messages[i].delivered, age |-> AgeClass(messages[i].age)]]

Mailboxes == INSTANCE Mailbox WITH
  Members <- Tokens, Operator <- DeckToken, group <- RowGroups, box <- Letters, last <- lastId

\* The daemon keeps what Mailbox promises, through all handlers, timers and restarts: a
\* pending message only goes when it has been pending for the whole limit or with the row
\* of its sender or recipient; only the recipient's fetch, or a message the recipient sends
\* at a later instant, marks it; no id comes back; nobody is sent mail of another group.
MailboxKept == Mailboxes!Spec

=============================================================================
