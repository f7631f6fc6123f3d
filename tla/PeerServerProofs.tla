--------------------------- MODULE PeerServerProofs ---------------------------
(***************************************************************************)
(* A process is a peer of one group at a time: the theorems behind         *)
(* PeerServer, for any number of groups, connections and messages, and     *)
(* for every way in which its calls and the broker's failures cross.       *)
(***************************************************************************)
EXTENDS PeerServer, TLAPS

-----------------------------------------------------------------------------
(* The inductive invariant *)

\* What a call in progress is about is a group; before main() has registered there is no
\* call and no row.
CallsSound ==
  /\ phase # "starting" => myInstanceToken \in Groups
  /\ phase = "starting" => switch = NoSwitch /\ \A g \in Groups : row[g] # "active"
  /\ poll.stage = "asked" => poll.token \in Groups
  /\ switch.stage # "idle" => switch.target \in Groups

\* Groups joined by a call that failed apart, the process is active where its token is from,
\* and nowhere between the two calls of switch_group.
OneRow ==
  \A g \in Groups \ torn : row[g] = "active" => g = myInstanceToken /\ switch.stage # "joining"

Inv == TypeOK /\ CallsSound /\ OneRow
-----------------------------------------------------------------------------
(* Steps *)

\* A step that leaves rows, tokens and switches alone only has to keep the types.
LEMMA ElsewhereKeepsInv ==
  ASSUME Inv, TypeOK', UNCHANGED <<phase, myInstanceToken, row, torn, switch>>,
         poll' = poll \/ (poll'.stage = "asked" => poll'.token \in Groups)
  PROVE  Inv'
  BY DEF Inv, CallsSound, OneRow

\* Sockets
LEMMA SocketTypes ==
  /\ Unused \in Socket
  /\ \A s \in Socket :
       /\ [s EXCEPT !.state = "closing", !.frames = {}] \in Socket
       /\ \A b \in BOOLEAN : [s EXCEPT !.alive = b] \in Socket
       /\ \A fs \in SUBSET MsgIds : [s EXCEPT !.frames = fs] \in Socket
       /\ \A g \in Groups \cup {NoGroup} : [s EXCEPT !.state = "open", !.claim = g] \in Socket
       /\ \A fs \in SUBSET MsgIds : [s EXCEPT !.authed = TRUE, !.frames = fs] \in Socket
  <1>1. Unused \in Socket
    BY DEF Unused, Socket
  <1>2. ASSUME NEW s \in Socket
        PROVE  /\ [s EXCEPT !.state = "closing", !.frames = {}] \in Socket
               /\ \A b \in BOOLEAN : [s EXCEPT !.alive = b] \in Socket
               /\ \A fs \in SUBSET MsgIds : [s EXCEPT !.frames = fs] \in Socket
               /\ \A g \in Groups \cup {NoGroup} : [s EXCEPT !.state = "open", !.claim = g] \in Socket
               /\ \A fs \in SUBSET MsgIds : [s EXCEPT !.authed = TRUE, !.frames = fs] \in Socket
    BY DEF Socket
  <1> QED BY <1>1, <1>2

LEMMA ClosingType ==
  ASSUME TypeOK
  PROVE  Closing(conn) \in [Conns -> Socket]
  <1>1. conn \in [Conns -> Socket] /\ wsSocket \in Conns \cup {NoConn}
    BY DEF TypeOK
  <1>2. CASE wsSocket = NoConn
    BY <1>1, <1>2 DEF Closing
  <1>3. CASE wsSocket # NoConn
    <2>1. Closing(conn) = [conn EXCEPT ![wsSocket] = [conn[wsSocket] EXCEPT !.state = "closing",
                                                                            !.frames = {}]]
      BY <1>3 DEF Closing
    <2>2. [conn[wsSocket] EXCEPT !.state = "closing", !.frames = {}] \in Socket
      BY <1>1, <1>3, SocketTypes
    <2> QED BY <1>1, <2>1, <2>2
  <1> QED BY <1>2, <1>3

LEMMA ConnectType ==
  ASSUME TypeOK, ConnectWs
  PROVE  conn' \in [Conns -> Socket] /\ wsSocket' \in Conns
  <1>1. PICK c \in Spare :
          /\ conn' = [Closing(conn) EXCEPT ![c] = [Unused EXCEPT !.state = "connecting", !.alive = up]]
          /\ wsSocket' = c
    BY DEF ConnectWs
  <1>2. c \in Conns
    BY DEF Spare
  <1>3. [Unused EXCEPT !.state = "connecting", !.alive = up] \in Socket
    BY DEF Unused, Socket, TypeOK
  <1> QED BY <1>1, <1>2, <1>3, ClosingType

LEMMA PoolType ==
  ASSUME TypeOK, NEW c
  PROVE  OutOfPool(c) \in [Groups -> Conns \cup {NoConn}]
  BY DEF OutOfPool, TypeOK

\* The events of sockets
LEMMA SocketKeepsInv ==
  ASSUME Inv, SocketEvent \/ Reconnect \/ Authenticate \/ \E c \in Conns : Drop(c)
  PROVE  Inv'
  <1> USE DEF Inv
  <1>1. UNCHANGED <<phase, myInstanceToken, row, torn, switch, poll>>
    BY DEF SocketEvent, WsOpen, WsClose, FrameArrives, WsMessage, WsMessageFails, Reconnect,
       Authenticate, WsAuth, Drop, client, calls, broker, history
  <1>2. ASSUME NEW c \in Conns PROVE conn[c] \in Socket
    BY DEF TypeOK
  <1>3. CASE \E c \in Conns : WsOpen(c)
    <2>1. PICK c \in Conns : WsOpen(c)
      BY <1>3
    <2>2. conn' = [conn EXCEPT ![c] = [conn[c] EXCEPT !.state = "open", !.claim = myInstanceToken]]
      BY <2>1 DEF WsOpen, Claim
    <2>3. [conn[c] EXCEPT !.state = "open", !.claim = myInstanceToken] \in Socket
      BY <1>2, SocketTypes DEF TypeOK
    <2>4. conn' \in [Conns -> Socket]
      BY <2>2, <2>3 DEF TypeOK
    <2>5. TypeOK'
      BY <2>1, <2>4, ZenonT(60) DEF WsOpen, TypeOK, client, calls, broker, history
    <2> QED BY <1>1, <2>5, ElsewhereKeepsInv
  <1>4. CASE \E c \in Conns : WsClose(c)
    <2>1. PICK c \in Conns : WsClose(c)
      BY <1>4
    <2>2. conn' \in [Conns -> Socket]
      BY <2>1, SocketTypes DEF WsClose, TypeOK
    <2>3. pool' \in [Groups -> Conns \cup {NoConn}]
      BY <2>1, PoolType DEF WsClose
    <2>4. TypeOK'
      BY <2>1, <2>2, <2>3 DEF WsClose, CloseNoted, TypeOK, client, calls, history
    <2> QED BY <1>1, <2>4, ElsewhereKeepsInv
  <1>5. CASE \E c \in Conns, m \in MsgIds : WsMessage(c, m) \/ WsMessageFails(c, m)
    <2>1. PICK c \in Conns, m \in MsgIds : WsMessage(c, m) \/ WsMessageFails(c, m)
      BY <1>5
    <2>2. FrameArrives(c, m)
      BY <2>1 DEF WsMessage, WsMessageFails
    <2>3. conn' = [conn EXCEPT ![c] = [conn[c] EXCEPT !.frames = conn[c].frames \ {m}]]
      BY <2>2 DEF FrameArrives
    <2>4. [conn[c] EXCEPT !.frames = conn[c].frames \ {m}] \in Socket
      <3>1. conn[c].frames \ {m} \in SUBSET MsgIds
        BY <1>2 DEF Socket
      <3> QED BY <1>2, <3>1, SocketTypes
    <2>5. conn' \in [Conns -> Socket]
      BY <2>3, <2>4 DEF TypeOK
    <2>6. /\ notifiedMessageIds' \subseteq MsgIds /\ spent' \subseteq MsgIds
          /\ troubles' \in 0 .. MaxEvents
      <3>1. CASE WsMessage(c, m)
        BY <3>1 DEF WsMessage, TypeOK
      <3>2. CASE WsMessageFails(c, m)
        BY <3>2, PeerServerAssumption DEF WsMessageFails, Trouble, TypeOK
      <3> QED BY <2>1, <3>1, <3>2
    <2>7. TypeOK'
      BY <2>2, <2>5, <2>6 DEF FrameArrives, TypeOK, calls
    <2> QED BY <1>1, <2>7, ElsewhereKeepsInv
  <1>6. CASE Reconnect
    <2>1. conn' \in [Conns -> Socket] /\ wsSocket' \in Conns
      BY <1>6, ConnectType DEF Reconnect
    <2>2. TypeOK'
      BY <1>6, <2>1, ZenonT(60) DEF Reconnect, TypeOK, client, calls, broker, history
    <2> QED BY <1>1, <2>2, ElsewhereKeepsInv
  <1>7. CASE \E c \in Conns : WsAuth(c)
    <2>1. PICK c \in Conns : WsAuth(c)
      BY <1>7
    <2> DEFINE g == conn[c].claim
               fs == IF conn[c].state = "open" THEN Backlog(g) ELSE {}
    <2>2. g \in Groups
      BY <1>2, <2>1 DEF WsAuth, Socket
    <2>3. conn' \in [Conns -> Socket] /\ pool' \in [Groups -> Conns \cup {NoConn}]
      <3>1. CASE row[g] = "active"
        <4>1. /\ conn' = [conn EXCEPT ![c] = [conn[c] EXCEPT !.authed = TRUE, !.frames = fs]]
              /\ pool' = [pool EXCEPT ![g] = c]
          BY <2>1, <3>1 DEF WsAuth
        <4>2. fs \in SUBSET MsgIds
          BY <2>2 DEF Backlog, Recent, TypeOK
        <4> HIDE DEF fs
        <4>3. [conn[c] EXCEPT !.authed = TRUE, !.frames = fs] \in Socket
          BY <1>2, <4>2, SocketTypes
        <4> HIDE DEF g
        <4> QED BY <2>2, <4>1, <4>3 DEF TypeOK
      <3>2. CASE row[g] # "active"
        <4>1. conn' = [conn EXCEPT ![c] = [conn[c] EXCEPT !.alive = FALSE]] /\ pool' = pool
          BY <2>1, <3>2 DEF WsAuth
        <4>2. [conn[c] EXCEPT !.alive = FALSE] \in Socket
          BY <1>2, SocketTypes
        <4> QED BY <4>1, <4>2 DEF TypeOK
      <3> QED BY <3>1, <3>2
    <2>4. TypeOK'
      BY <2>1, <2>3 DEF WsAuth, TypeOK, client, calls, history
    <2> QED BY <1>1, <2>4, ElsewhereKeepsInv
  <1>8. CASE \E c \in Conns : Drop(c)
    <2>1. PICK c \in Conns : Drop(c)
      BY <1>8
    <2>2. conn' = [conn EXCEPT ![c] = [conn[c] EXCEPT !.alive = FALSE]]
      BY <2>1 DEF Drop
    <2>3. [conn[c] EXCEPT !.alive = FALSE] \in Socket
      BY <1>2, SocketTypes
    <2>4. conn' \in [Conns -> Socket] /\ pool' \in [Groups -> Conns \cup {NoConn}]
      BY <2>1, <2>2, <2>3, PoolType DEF Drop, TypeOK
    <2>5. troubles' \in 0 .. MaxEvents
      BY <2>1, PeerServerAssumption DEF Drop, Trouble, TypeOK
    <2>6. TypeOK'
      BY <2>1, <2>4, <2>5 DEF Drop, TypeOK, client, calls, history
    <2> QED BY <1>1, <2>6, ElsewhereKeepsInv
  <1> QED BY <1>3, <1>4, <1>5, <1>6, <1>7, <1>8 DEF SocketEvent, Authenticate

-----------------------------------------------------------------------------
(* Polls and checks *)

LEMMA PollKeepsInv ==
  ASSUME Inv, PollAsk \/ PollStep
  PROVE  Inv'
  <1> USE DEF Inv
  <1> DEFINE Polls == [stage : {"idle", "asked", "fetched"}, token : Groups \cup {NoGroup},
                       fresh : SUBSET MsgIds]
  <1>1. UNCHANGED <<phase, myInstanceToken, conn, wsSocket, wsConnected, wsReconnectTimer, check,
                    switch, up, row, pending, overdue, pool, sent, spent, torn>>
    BY DEF PollAsk, PollStep, PollFetch, PollFail, PollNotify, PollNotifyFails, client, sockets,
       broker, history
  <1>2. /\ poll \in Polls /\ NoPoll \in Polls /\ NoPoll.stage = "idle"
        /\ myInstanceToken \in Groups \cup {NoGroup}
    BY DEF TypeOK, NoPoll
  <1>3. /\ poll' \in Polls /\ notifiedMessageIds' \subseteq MsgIds
        /\ poll'.stage = "asked" => poll'.token \in Groups
    <2>1. CASE PollAsk
      <3>1. /\ poll' = [stage |-> "asked", token |-> myInstanceToken, fresh |-> {}]
            /\ phase = "running" /\ notifiedMessageIds' = notifiedMessageIds
        BY <2>1 DEF PollAsk, client
      <3> QED BY <1>2, <3>1 DEF CallsSound, TypeOK
    <2>2. CASE PollFetch
      <3>1. /\ poll' \in {NoPoll, [poll EXCEPT !.stage = "fetched",
                                               !.fresh = Fresh(pending[poll.token])]}
            /\ poll.stage = "asked" /\ notifiedMessageIds' = notifiedMessageIds
        BY <2>2 DEF PollFetch, client
      <3>2. Fresh(pending[poll.token]) \in SUBSET MsgIds
        BY <3>1 DEF CallsSound, TypeOK, Fresh
      <3>3. [poll EXCEPT !.stage = "fetched", !.fresh = Fresh(pending[poll.token])] \in Polls
        BY <1>2, <3>2
      <3> QED BY <1>2, <3>1, <3>3 DEF TypeOK
    <2>3. CASE PollFail
      BY <1>2, <2>3 DEF PollFail, client, TypeOK
    <2>4. CASE \E m \in MsgIds : PollNotify(m) \/ PollNotifyFails(m)
      <3>1. PICK m \in MsgIds : PollNotify(m) \/ PollNotifyFails(m)
        BY <2>4
      <3>2. /\ poll.stage = "fetched" /\ poll' \in {NoPoll, [poll EXCEPT !.fresh = poll.fresh \ {m}]}
            /\ notifiedMessageIds' \in {notifiedMessageIds, notifiedMessageIds \cup {m}}
        BY <3>1 DEF PollNotify, PollNotifyFails, client
      <3>3. [poll EXCEPT !.fresh = poll.fresh \ {m}] \in Polls
            /\ [poll EXCEPT !.fresh = poll.fresh \ {m}].stage = "fetched"
        BY <1>2, <3>2
      <3> QED BY <1>2, <3>2, <3>3 DEF TypeOK
    <2> QED BY <2>1, <2>2, <2>3, <2>4 DEF PollStep
  <1>4. troubles' \in 0 .. MaxEvents
    BY PeerServerAssumption DEF PollAsk, PollStep, PollFetch, PollFail, PollNotify, PollNotifyFails,
       Trouble, broker, TypeOK
  <1>5. TypeOK'
    BY <1>1, <1>3, <1>4 DEF TypeOK
  <1> QED BY <1>1, <1>3, <1>5, ElsewhereKeepsInv

LEMMA CheckKeepsInv ==
  ASSUME Inv, CheckFetch \/ CheckStep \/ SendMessage
  PROVE  Inv'
  <1> USE DEF Inv
  <1>1. UNCHANGED <<phase, myInstanceToken, notifiedMessageIds, conn, wsSocket, wsConnected,
                    wsReconnectTimer, poll, switch, up, row, overdue, pool, sent, troubles, torn>>
    BY DEF CheckFetch, CheckStep, CheckShow, CheckFail, SendMessage, calls, client, sockets, broker, history
  <1>2. check' \subseteq MsgIds /\ spent' \subseteq MsgIds
        /\ pending' \in [Groups -> SUBSET MsgIds]
    <2>1. CASE CheckFetch
      <3>1. myInstanceToken \in Groups
        BY <2>1 DEF CheckFetch, CallsSound
      <3> QED BY <2>1, <3>1 DEF CheckFetch, history, TypeOK
    <2>2. CASE CheckShow
      BY <2>2 DEF CheckShow, broker, TypeOK
    <2>3. CASE CheckFail
      BY <2>3 DEF CheckFail, broker, TypeOK
    <2>4. CASE SendMessage
      <3>1. myInstanceToken \in Groups
        BY <2>4 DEF SendMessage, CallsSound
      <3> QED BY <2>4, <3>1 DEF SendMessage, calls, TypeOK
    <2> QED BY <2>1, <2>2, <2>3, <2>4 DEF CheckStep
  <1>3. TypeOK'
    BY <1>1, <1>2 DEF TypeOK
  <1> QED BY <1>1, <1>3, ElsewhereKeepsInv

-----------------------------------------------------------------------------
(* switch_group *)

\* The row of the token can only be parked.
LEMMA Parking ==
  ASSUME TypeOK
  PROVE  /\ ParkedRow \in [Groups -> {"none", "active", "dormant"}]
         /\ ParkedRow[myInstanceToken] # "active" \/ myInstanceToken \notin Groups
         /\ \A g \in Groups : ParkedRow[g] = "active" => row[g] = "active" /\ g # myInstanceToken
  BY DEF TypeOK, ParkedRow

Switches == [stage : {"idle", "leaving", "joining", "joined"}, target : Groups \cup {NoGroup}]

LEMMA SwitchTypes ==
  /\ NoSwitch \in Switches /\ NoSwitch.stage = "idle"
  /\ \A s \in Switches, st \in {"joining", "joined"} :
       LET n == [s EXCEPT !.stage = st] IN n \in Switches /\ n.stage = st /\ n.target = s.target
  BY DEF NoSwitch, Switches

LEMMA StartKeepsInv ==
  ASSUME Inv, NEW g \in Groups, SwitchStart(g)
  PROVE  Inv'
  <1> USE DEF Inv
  <1>1. /\ UNCHANGED <<phase, myInstanceToken, notifiedMessageIds, conn, wsSocket, wsConnected,
                       wsReconnectTimer, poll, check, up, row, pending, overdue, pool, sent, spent, torn>>
        /\ phase = "running" /\ switch' = [stage |-> "leaving", target |-> g]
        /\ troubles' \in 0 .. MaxEvents
    BY PeerServerAssumption DEF SwitchStart, Trouble, client, sockets, history, TypeOK
  <1>2. TypeOK'
    BY <1>1 DEF TypeOK
  <1>3. CallsSound' /\ OneRow'
    BY <1>1 DEF CallsSound, OneRow
  <1> QED BY <1>2, <1>3

LEMMA LeaveKeepsInv == Inv /\ SwitchLeave => Inv'
  <1> SUFFICES ASSUME Inv, SwitchLeave PROVE Inv'
    OBVIOUS
  <1> USE DEF Inv
  <1>1. /\ UNCHANGED <<phase, myInstanceToken, notifiedMessageIds, wsSocket, wsConnected, poll,
                       check, up, pending, overdue, pool, sent, troubles, spent, torn>>
        /\ phase # "starting" /\ switch.stage = "leaving" /\ row' = ParkedRow
        /\ wsReconnectTimer' = FALSE /\ conn' = Closing(conn)
        /\ switch' = [switch EXCEPT !.stage = "joining"]
    BY DEF SwitchLeave, Working, client, history
  <1>2. switch \in Switches
    BY DEF TypeOK, Switches
  <1>3. switch' \in Switches /\ switch'.stage = "joining" /\ switch'.target = switch.target
    BY <1>1, <1>2, SwitchTypes
  <1>4. TypeOK'
    BY <1>1, <1>3, ClosingType, Parking DEF TypeOK, Switches
  <1>5. CallsSound'
    BY <1>1, <1>3 DEF CallsSound
  <1>6. OneRow'
    BY <1>1, Parking DEF OneRow
  <1> QED BY <1>4, <1>5, <1>6

LEMMA JoinKeepsInv == Inv /\ SwitchJoin => Inv'
  <1> SUFFICES ASSUME Inv, SwitchJoin PROVE Inv'
    OBVIOUS
  <1> USE DEF Inv
  <1> DEFINE g == switch.target
  <1>1. /\ UNCHANGED <<phase, notifiedMessageIds, conn, wsSocket, wsConnected, wsReconnectTimer,
                       poll, check, up, pending, overdue, pool, sent, troubles, spent>>
        /\ phase # "starting" /\ switch.stage = "joining" /\ row' = [row EXCEPT ![g] = "active"]
        /\ myInstanceToken' = g /\ torn' = torn \ {g}
        /\ switch' = [switch EXCEPT !.stage = "joined"]
    BY DEF SwitchJoin, Working, sockets
  <1>2. switch \in Switches /\ g \in Groups
    BY <1>1 DEF TypeOK, Switches, CallsSound
  <1>3. switch' \in Switches /\ switch'.stage = "joined" /\ switch'.target = g
    BY <1>1, <1>2, SwitchTypes
  <1>4. TypeOK'
    BY <1>1, <1>2, <1>3 DEF TypeOK, Switches
  <1>5. CallsSound'
    BY <1>1, <1>2, <1>3 DEF CallsSound
  <1>6. OneRow'
    BY <1>1, <1>2, <1>3 DEF OneRow, TypeOK
  <1> QED BY <1>4, <1>5, <1>6

LEMMA SwitchEndKeepsInv ==
  ASSUME Inv, SwitchConnect \/ SwitchFail \/ SwitchRefused
  PROVE  Inv'
  <1> USE DEF Inv
  <1>1. /\ UNCHANGED <<phase, myInstanceToken, notifiedMessageIds, wsConnected, wsReconnectTimer,
                       poll, check, up, pending, overdue, pool, sent, troubles, spent>>
        /\ phase # "starting" /\ switch' = NoSwitch
    BY DEF SwitchConnect, SwitchFail, SwitchRefused, Working, client, sockets, broker, history
  <1>2. conn' \in [Conns -> Socket] /\ wsSocket' \in Conns \cup {NoConn}
    <2>1. CASE SwitchConnect
      BY <2>1, ConnectType DEF SwitchConnect
    <2>2. CASE SwitchFail \/ SwitchRefused
      BY <2>2 DEF SwitchFail, SwitchRefused, sockets, TypeOK
    <2> QED BY <2>1, <2>2
  <1>3. /\ row' \in [Groups -> {"none", "active", "dormant"}] /\ torn' \subseteq Groups
        /\ \A g \in Groups \ torn' : row'[g] = "active" => g = myInstanceToken
    <2>1. CASE SwitchConnect \/ SwitchRefused
      BY <2>1 DEF SwitchConnect, SwitchRefused, broker, history, TypeOK, OneRow
    <2>2. CASE SwitchFail
      <3>1. CASE switch.stage = "leaving"
        BY <2>2, <3>1, Parking DEF SwitchFail, TypeOK, OneRow
      <3>2. CASE switch.stage = "joining"
        <4>1. switch.target \in Groups
          BY <3>2 DEF CallsSound
        <4>2. \/ UNCHANGED <<row, torn>>
              \/ row' = [row EXCEPT ![switch.target] = "active"] /\ torn' = torn \cup {switch.target}
          BY <2>2, <3>2 DEF SwitchFail
        <4> QED BY <4>1, <4>2 DEF TypeOK, OneRow
      <3> QED BY <2>2, <3>1, <3>2 DEF SwitchFail
    <2> QED BY <2>1, <2>2
  <1>4. TypeOK'
    BY <1>1, <1>2, <1>3, SwitchTypes DEF TypeOK, Switches
  <1>5. CallsSound' /\ OneRow'
    BY <1>1, <1>3, SwitchTypes DEF CallsSound, OneRow
  <1> QED BY <1>4, <1>5

-----------------------------------------------------------------------------
(* Start and end *)

LEMMA MainKeepsInv == Inv /\ Main => Inv'
  <1> SUFFICES ASSUME Inv, Main PROVE Inv'
    OBVIOUS
  <1> USE DEF Inv
  <1>1. /\ UNCHANGED <<notifiedMessageIds, wsConnected, wsReconnectTimer, poll, check, switch, up,
                       pending, overdue, pool, sent, troubles, spent, torn>>
        /\ phase = "starting" /\ phase' = "running" /\ myInstanceToken' = Home
        /\ row' = [row EXCEPT ![Home] = "active"]
    BY DEF Main, calls, history
  <1>2. conn' \in [Conns -> Socket] /\ wsSocket' \in Conns
    BY ConnectType DEF Main
  <1>3. Home \in Groups
    BY PeerServerAssumption
  <1>4. TypeOK'
    BY <1>1, <1>2, <1>3 DEF TypeOK
  <1>5. CallsSound' /\ OneRow'
    BY <1>1, <1>3, SwitchTypes DEF CallsSound, OneRow, TypeOK
  <1> QED BY <1>4, <1>5

LEMMA CleanupKeepsInv == Inv /\ Cleanup => Inv'
  <1> SUFFICES ASSUME Inv, Cleanup PROVE Inv'
    OBVIOUS
  <1> USE DEF Inv
  <1>1. /\ UNCHANGED <<myInstanceToken, notifiedMessageIds, wsSocket, wsConnected, poll, check,
                       switch, up, row, pending, overdue, pool, sent, spent, torn>>
        /\ phase = "running" /\ phase' = "leaving" /\ wsReconnectTimer' = FALSE
        /\ conn' = Closing(conn) /\ troubles' \in 0 .. MaxEvents
    BY PeerServerAssumption DEF Cleanup, Trouble, calls, history, TypeOK
  <1>2. TypeOK'
    BY <1>1, ClosingType, ZenonT(60) DEF TypeOK
  <1>3. CallsSound' /\ OneRow'
    BY <1>1 DEF CallsSound, OneRow
  <1> QED BY <1>2, <1>3

LEMMA ExitKeepsInv == Inv /\ Exit => Inv'
  <1> SUFFICES ASSUME Inv, Exit PROVE Inv'
    OBVIOUS
  <1> USE DEF Inv
  <1> DEFINE parked == IF up THEN ParkedRow ELSE row
  <1>1. /\ UNCHANGED <<myInstanceToken, notifiedMessageIds, wsSocket, wsConnected,
                       wsReconnectTimer, up, pending, overdue, sent, troubles>>
        /\ phase = "leaving" /\ phase' = "gone"
        /\ \/ row' = parked /\ torn' = torn
           \/ /\ switch.stage = "joining" /\ row' = [parked EXCEPT ![switch.target] = "active"]
              /\ torn' = torn \cup {switch.target}
        /\ conn' = [c \in Conns |-> Unused] /\ pool' = [h \in Groups |-> NoConn]
        /\ poll' = NoPoll /\ check' = {} /\ switch' = NoSwitch
        /\ spent' = spent \cup check
    BY DEF Exit
  <1>2. /\ parked \in [Groups -> {"none", "active", "dormant"}]
        /\ \A g \in Groups : parked[g] = "active" => row[g] = "active"
    BY Parking DEF TypeOK
  <1> HIDE DEF parked
  <1>3. /\ row' \in [Groups -> {"none", "active", "dormant"}] /\ torn' \subseteq Groups
        /\ \A g \in Groups \ torn' : row'[g] = "active" => g = myInstanceToken
    <2>1. CASE row' = parked /\ torn' = torn
      BY <1>2, <2>1 DEF OneRow, TypeOK
    <2>2. CASE /\ switch.stage = "joining" /\ row' = [parked EXCEPT ![switch.target] = "active"]
               /\ torn' = torn \cup {switch.target}
      <3>1. switch.target \in Groups
        BY <2>2 DEF CallsSound
      <3> QED BY <1>2, <2>2, <3>1 DEF OneRow, TypeOK
    <2> QED BY <1>1, <2>1, <2>2
  <1>4. TypeOK'
    <2>1. conn' \in [Conns -> Socket] /\ pool' \in [Groups -> Conns \cup {NoConn}]
      BY <1>1, SocketTypes
    <2>2. /\ poll' \in [stage : {"idle", "asked", "fetched"}, token : Groups \cup {NoGroup},
                        fresh : SUBSET MsgIds]
          /\ switch' \in [stage : {"idle", "leaving", "joining", "joined"},
                          target : Groups \cup {NoGroup}]
      BY <1>1 DEF NoPoll, NoSwitch
    <2> QED BY <1>1, <1>3, <2>1, <2>2 DEF TypeOK
  <1>5. CallsSound' /\ OneRow'
    <2>1. poll'.stage = "idle" /\ switch'.stage = "idle"
      BY <1>1 DEF NoPoll, NoSwitch
    <2> QED BY <1>1, <1>3, <2>1 DEF CallsSound, OneRow
  <1> QED BY <1>4, <1>5

-----------------------------------------------------------------------------
(* The broker *)

LEMMA SendKeepsInv ==
  ASSUME Inv, NEW g \in Groups, Send(g)
  PROVE  Inv'
  <1> USE DEF Inv
  <1> DEFINE m == sent + 1
  <1>1. /\ UNCHANGED <<phase, myInstanceToken, notifiedMessageIds, wsSocket, wsConnected,
                       wsReconnectTimer, poll, check, switch, up, row, overdue, pool, troubles,
                       spent, torn>>
        /\ sent' = m /\ pending' = [pending EXCEPT ![g] = pending[g] \cup {m}]
        /\ conn' = [c \in Conns |-> IF pool[g] = c /\ conn[c].state = "open"
                                    THEN [conn[c] EXCEPT !.frames = conn[c].frames \cup {m}]
                                    ELSE conn[c]]
    BY DEF Send, client, calls, history
  <1>2. m \in MsgIds /\ m \in 0 .. MaxMsg
    BY PeerServerAssumption DEF Send, MsgIds, TypeOK
  <1> HIDE DEF m
  <1>3. conn' \in [Conns -> Socket]
    <2> SUFFICES ASSUME NEW c \in Conns
                 PROVE  /\ conn[c] \in Socket
                        /\ [conn[c] EXCEPT !.frames = conn[c].frames \cup {m}] \in Socket
      BY <1>1
    <2>1. conn[c] \in Socket
      BY DEF TypeOK
    <2>2. conn[c].frames \cup {m} \in SUBSET MsgIds
      BY <1>2, <2>1 DEF Socket
    <2> QED BY <2>1, <2>2, SocketTypes
  <1>4. pending' \in [Groups -> SUBSET MsgIds]
    BY <1>1, <1>2 DEF TypeOK
  <1>5. TypeOK'
    BY <1>1, <1>2, <1>3, <1>4 DEF TypeOK
  <1> QED BY <1>1, <1>5, ElsewhereKeepsInv

LEMMA GrowOldKeepsInv ==
  ASSUME Inv, NEW m \in MsgIds, GrowOld(m)
  PROVE  Inv'
  <1> USE DEF Inv
  <1>1. /\ UNCHANGED <<phase, myInstanceToken, notifiedMessageIds, conn, wsSocket, wsConnected,
                       wsReconnectTimer, poll, check, switch, up, row, pending, pool, sent,
                       spent, torn>>
        /\ overdue' \in 0 .. MaxMsg /\ troubles' \in 0 .. MaxEvents
    BY PeerServerAssumption DEF GrowOld, Trouble, MsgIds, client, sockets, calls, history, TypeOK
  <1>2. TypeOK'
    BY <1>1 DEF TypeOK
  <1> QED BY <1>1, <1>2, ElsewhereKeepsInv

LEMMA SweepKeepsInv ==
  ASSUME Inv, NEW g \in Groups, Sweep(g)
  PROVE  Inv'
  <1> USE DEF Inv
  <1>1. /\ UNCHANGED <<phase, myInstanceToken, notifiedMessageIds, conn, wsSocket, wsConnected,
                       wsReconnectTimer, poll, check, switch, up, pending, overdue, pool, sent,
                       spent, torn>>
        /\ row' = [row EXCEPT ![g] = "dormant"] /\ troubles' \in 0 .. MaxEvents
    BY PeerServerAssumption DEF Sweep, Trouble, client, sockets, calls, history, TypeOK
  <1>2. TypeOK'
    BY <1>1 DEF TypeOK
  <1>3. CallsSound' /\ OneRow'
    BY <1>1 DEF CallsSound, OneRow, TypeOK
  <1> QED BY <1>2, <1>3

LEMMA BrokerKeepsInv ==
  ASSUME Inv, BrokerDown \/ BrokerUp
  PROVE  Inv'
  <1> USE DEF Inv
  <1>1. /\ UNCHANGED <<phase, myInstanceToken, notifiedMessageIds, wsSocket, wsConnected,
                       wsReconnectTimer, poll, check, switch, row, pending, overdue, sent, spent, torn>>
        /\ up' \in BOOLEAN /\ troubles' \in 0 .. MaxEvents
    <2>1. CASE BrokerDown
      <3>1. troubles' \in 0 .. MaxEvents /\ up' = FALSE
        BY <2>1, PeerServerAssumption DEF BrokerDown, Trouble, TypeOK
      <3> QED BY <2>1, <3>1 DEF BrokerDown, client, calls, history
    <2>2. CASE BrokerUp
      BY <2>2 DEF BrokerUp, client, sockets, calls, history, TypeOK
    <2> QED BY <2>1, <2>2
  <1>2. conn' \in [Conns -> Socket] /\ pool' \in [Groups -> Conns \cup {NoConn}]
    <2>1. CASE BrokerDown
      <3>1. \A c \in Conns : [conn[c] EXCEPT !.alive = FALSE] \in Socket
        BY SocketTypes DEF TypeOK
      <3> QED BY <2>1, <3>1 DEF BrokerDown
    <2>2. CASE BrokerUp
      BY <2>2 DEF BrokerUp, sockets, TypeOK
    <2> QED BY <2>1, <2>2
  <1>3. TypeOK'
    BY <1>1, <1>2 DEF TypeOK
  <1> QED BY <1>1, <1>3, ElsewhereKeepsInv

-----------------------------------------------------------------------------
(* The theorems *)

LEMMA InitInv == Init => Inv
  <1> SUFFICES ASSUME Init PROVE Inv
    OBVIOUS
  <1>1. NoPoll \in [stage : {"idle", "asked", "fetched"}, token : Groups \cup {NoGroup},
                    fresh : SUBSET MsgIds] /\ NoPoll.stage = "idle"
    BY DEF NoPoll
  <1>2. TypeOK
    <2>1. conn \in [Conns -> Socket]
      BY SocketTypes DEF Init
    <2>2. poll \in [stage : {"idle", "asked", "fetched"}, token : Groups \cup {NoGroup},
                    fresh : SUBSET MsgIds]
      BY <1>1 DEF Init
    <2>3. switch \in Switches
      BY SwitchTypes DEF Init
    <2>4. overdue \in 0 .. MaxMsg /\ sent \in 0 .. MaxMsg /\ troubles \in 0 .. MaxEvents
      BY PeerServerAssumption DEF Init
    <2>5. /\ row \in [Groups -> {"none", "active", "dormant"}]
          /\ pending \in [Groups -> SUBSET MsgIds]
          /\ pool \in [Groups -> Conns \cup {NoConn}]
      BY DEF Init
    <2> QED BY <2>1, <2>2, <2>3, <2>4, <2>5 DEF Init, TypeOK, Switches
  <1>3. CallsSound /\ OneRow
    BY <1>1, SwitchTypes DEF Init, CallsSound, OneRow
  <1> QED BY <1>2, <1>3 DEF Inv

LEMMA NextInv == Inv /\ [Next]_vars => Inv'
  <1> SUFFICES ASSUME Inv, [Next]_vars PROVE Inv'
    OBVIOUS
  <1>1. CASE UNCHANGED vars
    BY <1>1 DEF Inv, TypeOK, CallsSound, OneRow, vars, client, sockets, calls, broker, history
  <1>2. CASE SocketEvent \/ Reconnect \/ Authenticate \/ \E c \in Conns : Drop(c)
    BY <1>2, SocketKeepsInv
  <1>3. CASE PollAsk \/ PollStep \/ CheckFetch \/ CheckStep \/ SendMessage
    BY <1>3, PollKeepsInv, CheckKeepsInv
  <1>4. CASE (\E g \in Groups : SwitchStart(g)) \/ SwitchStep
    BY <1>4, StartKeepsInv, LeaveKeepsInv, JoinKeepsInv, SwitchEndKeepsInv DEF SwitchStep
  <1>5. CASE Main \/ Cleanup \/ Exit
    BY <1>5, MainKeepsInv, CleanupKeepsInv, ExitKeepsInv
  <1>6. CASE (\E g \in Groups : Send(g) \/ Sweep(g)) \/ (\E m \in MsgIds : GrowOld(m))
           \/ BrokerDown \/ BrokerUp
    BY <1>6, SendKeepsInv, SweepKeepsInv, GrowOldKeepsInv, BrokerKeepsInv
  <1> QED BY <1>1, <1>2, <1>3, <1>4, <1>5, <1>6 DEF Next

\* The inductive invariant: between the two calls of switch_group a process is active nowhere,
\* and otherwise only where its token is from.
THEOREM Invariant == Spec => []Inv
  <1> QED BY InitInv, NextInv, PTL DEF Spec

\* Sockets, calls and rows are of the shapes that server.ts and the schema of broker.ts know.
THEOREM TypeCorrect == Spec => []TypeOK
  <1>1. Inv => TypeOK
    BY DEF Inv
  <1> QED BY <1>1, Invariant, PTL

\* However switch_group crosses with sweeps, crashes of the broker and the exit, a process is
\* active in at most the group it acts in; /register calls that failed apart.
THEOREM OneGroupAtATime == Spec => []ActiveInOneGroup
  <1>1. Inv => ActiveInOneGroup
    BY DEF Inv, OneRow, ActiveInOneGroup
  <1> QED BY <1>1, Invariant, PTL

=============================================================================
