---------------------------- MODULE BrokerProofs ----------------------------
(***************************************************************************)
(* Theorems about Broker: its type, the foreign keys of the messages       *)
(* table, the separation of groups, the WebSocket pool, the order of       *)
(* frames and the replay of the backlog; and that it implements Mailbox.   *)
(***************************************************************************)
EXTENDS Broker, RegistryProofs, FiniteSetTheorems

-----------------------------------------------------------------------------
(* The directory under the broker's steps *)

\* A row never moves to another group.
LEMMA GroupKept ==
  ASSUME Directory, Next, NEW t \in Rows, t \in Rows'
  PROVE  peers'[t].group = peers[t].group
  <1> USE DEF Directory
  <1>1. peers \in [Rows -> Row] /\ peers[t] \in Row
    BY DEF TypeOK
  <1> DEFINE Same == peers'[t].group = peers[t].group
  <1>2. ASSUME NEW p \in Procs, NEW c \in Credentials, Resurrect(p, c[1], c[2])
        PROVE  Same
    <2> DEFINE u == sessions[Key(p, c[1])]
    <2>1. peers' = [peers EXCEPT ![u] = Revived(p, u)]
      BY <1>2 DEF Resurrect
    <2>2. Revived(p, t).group = peers[t].group
      BY <1>1 DEF Revived, Row
    <2>3. peers'[t] \in {Revived(p, t), peers[t]}
      BY <2>1, <1>1
    <2> QED BY <2>2, <2>3
  <1>3. ASSUME NEW p \in Procs, NEW c \in Credentials, NEW id \in PeerIds,
               RegisterNew(p, c[1], c[2], id)
        PROVE  Same
    <2>1. ~(Key(p, c[1]) \in DOMAIN sessions /\ sessions[Key(p, c[1])] \notin Rows)
      BY SessionRow
    <2>2. peers' = peers \/ peers' = Insert(peers, minted + 1, NewRow(p, c[1], id))
      BY <1>3, <2>1 DEF RegisterNew
    <2>3. t # minted + 1
      BY DEF MintedBound, TypeOK, Tokens
    <2> QED BY <2>2, <2>3 DEF Insert, Rows
  <1>4. ASSUME NEW p \in Procs, Disconnect(p) PROVE Same
    <2>1. Parked(t).group = peers[t].group
      BY <1>1 DEF Parked, Row
    <2>2. peers'[t] \in {Parked(t), peers[t]}
      BY <1>4 DEF Disconnect
    <2> QED BY <2>1, <2>2
  <1>5. ASSUME NEW p \in Procs, Heartbeat(p) PROVE Same
    <2> DEFINE row == [peers[t] EXCEPT !.seen = 0]
    <2>1. row.group = peers[t].group
      BY <1>1 DEF Row
    <2>2. peers'[t] \in {row, peers[t]}
      BY <1>5, <1>1 DEF Heartbeat
    <2> QED BY <2>1, <2>2
  <1>6. ASSUME NEW p \in Procs, NEW id \in PeerIds, SetId(p, id) PROVE Same
    <2> DEFINE row == [peers[t] EXCEPT !.peer_id = id]
    <2>1. row.group = peers[t].group
      BY <1>1 DEF Row
    <2>2. peers'[t] \in {row, peers[t]}
      BY <1>6, <1>1 DEF SetId
    <2> QED BY <2>1, <2>2
  <1>7. ASSUME NEW p \in Procs, Unregister(p) PROVE Same
    BY <1>7 DEF Unregister, DeleteRows, Without, Rows
  <1>8. ASSUME CleanStalePeers PROVE Same
    <2>1. peers'[t] = Probed(t)
      BY <1>8 DEF CleanStalePeers, DeleteRows, Without, Rows
    <2> QED BY <2>1, <1>1 DEF Probed, Row
  <1>9. (SweepInactivePeers => Same) /\ (Tick => Same)
    BY <1>1 DEF SweepInactivePeers, Tick, Row
  <1> QED BY <1>2, <1>3, <1>4, <1>5, <1>6, <1>7, <1>8, <1>9
          DEF Next, Call, RegisterDenied, Start, Exit, tables

\* Registering, renaming, parking and starting delete no row.
LEMMA RowsKept ==
  ASSUME NEW p \in Procs, RegisterOrRename(p)
  PROVE  Next /\ Rows \subseteq Rows'
  <1>1. Next
    BY DEF RegisterOrRename, Next, Call
  <1>2. ASSUME NEW c \in Credentials, NEW id \in PeerIds, RegisterNew(p, c[1], c[2], id)
        PROVE  Rows \subseteq Rows'
    BY <1>2 DEF RegisterNew, Insert, Rows
  <1>3. ASSUME \/ \E c \in Credentials : \/ RegisterDenied(p, c[1], c[2])
                                         \/ Resurrect(p, c[1], c[2])
               \/ Heartbeat(p) \/ Disconnect(p) \/ Start(p)
               \/ \E id \in PeerIds : SetId(p, id)
        PROVE  Rows = Rows'
    BY <1>3 DEF RegisterDenied, Resurrect, Heartbeat, Disconnect, SetId, Start, tables, Rows
  <1> QED BY <1>1, <1>2, <1>3 DEF RegisterOrRename

\* Every step of the broker is a step of the directory, or leaves it alone.
LEMMA BrokerRefinesRegistry == [NextB]_brokerVars => [Next]_registryVars
  <1> SUFFICES ASSUME [NextB]_brokerVars PROVE [Next]_registryVars
    OBVIOUS
  <1>1. CASE UNCHANGED brokerVars
    BY <1>1 DEF brokerVars
  <1>2. ASSUME NEW p \in Procs,
               \/ UnregisterB(p) \/ ExitB(p)
               \/ RegisterOrRename(p)
        PROVE  Next
    BY <1>2, RowsKept DEF UnregisterB, ExitB, Next, Call
  <1>3. ASSUME NEW p \in Procs,
               \/ \E name \in PeerIds : SendMessage(p, name)
               \/ PollMessages(p)
               \/ \E c \in Conns : OpenWs(p, c)
        PROVE  UNCHANGED registryVars
    BY <1>3 DEF SendMessage, Addressed, PollMessages, OpenWs
  <1>4. ASSUME NEW g, NEW hash, NEW exclude, Announce(g, hash, exclude)
        PROVE  UNCHANGED registryVars
    BY <1>4 DEF Announce
  <1>5. ASSUME NEW c \in Conns, WsAuth(c) \/ ClientClose(c) \/ BrokerClose(c) \/ Receive(c)
        PROVE  UNCHANGED registryVars
    BY <1>5 DEF WsAuth, ClientClose, BrokerClose, Receive
  <1>6. CleanStalePeersB \/ SweepInactivePeersB \/ Restart \/ TickB => Next
    BY DEF CleanStalePeersB, SweepInactivePeersB, Restart, TickB, Next
  <1>7. PurgeOldMessages => UNCHANGED registryVars
    BY DEF PurgeOldMessages
  <1> QED BY <1>1, <1>2, <1>3, <1>4, <1>5, <1>6, <1>7 DEF NextB

\* All that is proved of the directory alone holds inside the broker.
THEOREM BrokerImplementsRegistry == SpecB => Spec
  <1>1. InitB => Init
    BY DEF InitB
  <1> QED BY <1>1, BrokerRefinesRegistry, PTL DEF SpecB, Spec

-----------------------------------------------------------------------------
(* Messages *)

MailType ==
  /\ Sent \subseteq MsgIds /\ messages \in [Sent -> MsgRow]
  /\ lastId \in 0 .. MaxMsg

MailInv == Directory /\ MailType /\ MessagesHaveRows /\ MailStaysInGroup

\* A step is harmless when the messages it keeps do not change hands, both ends
\* of every message still have their rows, and new messages have proper ends.
LEMMA MailKept ==
  ASSUME MailInv, Directory', MailType',
         \A t \in Rows : t \in Rows' => peers'[t].group = peers[t].group,
         \A i \in Sent' :
           /\ i <= lastId'
           /\ messages'[i].from \in Rows' /\ messages'[i].to \in Rows' \ {DeckToken}
           /\ \/ /\ i \in Sent
                 /\ messages'[i].from = messages[i].from
                 /\ messages'[i].to = messages[i].to
                 /\ messages'[i].group = messages[i].group
              \/ /\ peers'[messages'[i].to].group = messages'[i].group
                 /\ messages'[i].from # DeckToken =>
                      peers'[messages'[i].from].group = messages'[i].group
  PROVE  MailInv'
  BY DEF MailInv, MessagesHaveRows, MailStaysInGroup

\* A message to be inserted is a row of the messages table.
LEMMA NewMessageType ==
  ASSUME NEW from \in Tokens, NEW to \in Tokens, NEW g \in Groups
  PROVE  NewMessage(from, to, g) \in MsgRow
  BY ZeroAge DEF NewMessage, MsgRow

\* The mail that a deletion leaves has both its ends.
LEMMA MailOfFacts ==
  ASSUME MailType, NEW S, messages' = Without(messages, MailOf(S))
  PROVE  /\ Sent' = Sent \ MailOf(S) /\ messages' \in [Sent' -> MsgRow]
         /\ \A i \in Sent' : /\ messages'[i] = messages[i]
                             /\ messages[i].from \notin S /\ messages[i].to \notin S
  BY DEF MailType, MailOf, Without, Sent

\* send_message: both ends of the new message are rows of the sender's group.
LEMMA MailSend ==
  ASSUME MailInv, NEW p \in Procs, NEW name \in PeerIds, SendMessage(p, name)
  PROVE  MailInv'
  <1> USE DEF MailInv
  <1> DEFINE me == held[p]
             g == peers[me].group
             i == lastId + 1
  <1>1. PICK to \in Rows :
          /\ peers[to].group = g /\ peers[to].status = "active"
          /\ messages' = [j \in Sent \cup {i} |->
               IF j = i THEN NewMessage(me, to, g)
               ELSE IF Acked(me, g, messages[j])
                    THEN [messages[j] EXCEPT !.delivered = TRUE] ELSE messages[j]]
    BY DEF SendMessage, Addressed
  <1>2. /\ me \in Rows /\ me # DeckToken /\ to # DeckToken
        /\ lastId' = i /\ lastId < MaxMsg /\ lastId \in Nat
        /\ UNCHANGED registryVars
    BY <1>1 DEF SendMessage, Addressed, Directory, DeckRowReserved, MailType
  <1>3. i \in MsgIds /\ i \notin Sent /\ Sent' = Sent \cup {i}
    BY <1>1, <1>2, MailAssumption DEF MsgIds, MessagesHaveRows, Sent, MailType
  <1>4. me \in Tokens /\ to \in Tokens /\ g \in Groups
    BY <1>2 DEF Directory, TypeOK, Row
  <1>5. NewMessage(me, to, g) \in MsgRow
    BY <1>4, NewMessageType
  <1>6. \A j \in Sent : /\ messages'[j] \in MsgRow
                        /\ messages'[j].from = messages[j].from
                        /\ messages'[j].to = messages[j].to
                        /\ messages'[j].group = messages[j].group
    BY <1>1, <1>3 DEF MailType, MsgRow
  <1>7. messages'[i] = NewMessage(me, to, g)
    BY <1>1
  <1>8. MailType'
    <2>1. messages' \in [Sent' -> MsgRow]
      BY <1>1, <1>3, <1>5, <1>6, <1>7
    <2>2. lastId' \in 0 .. MaxMsg
      BY <1>2, MailAssumption DEF MailType
    <2> QED BY <2>1, <2>2, <1>2, <1>3 DEF MailType
  <1>9. Directory' /\ Rows' = Rows /\ peers' = peers
    BY <1>2, DirectoryStep DEF registryVars, tables, Rows
  <1> HIDE DEF me, g, i
  <1>10. \A j \in Sent' : j <= lastId'
    <2>1. \A j \in Sent : j <= lastId /\ j \in Nat
      BY DEF MessagesHaveRows, MailType, MsgIds
    <2> QED BY <2>1, <1>2, <1>3 DEF i
  <1>11. \A j \in Sent :
           /\ messages'[j].from \in Rows' /\ messages'[j].to \in Rows' \ {DeckToken}
    BY <1>6, <1>9 DEF MessagesHaveRows
  <1>12. /\ messages'[i].from = me /\ messages'[i].to = to /\ messages'[i].group = g
         /\ peers[me].group = g
    BY <1>7 DEF NewMessage, g
  <1> QED BY <1>1, <1>2, <1>3, <1>6, <1>8, <1>9, <1>10, <1>11, <1>12, MailKept

\* announce: one message per recipient, from the Deck's row.
LEMMA MailAnnounce ==
  ASSUME MailInv, NEW g \in Groups, NEW hash, NEW exclude, Announce(g, hash, exclude)
  PROVE  MailInv'
  <1> USE DEF MailInv
  <1>1. PICK order \in Orders(Recipients(g, exclude)) :
          LET n == Len(order)
          IN  /\ lastId + n <= MaxMsg
              /\ messages' = [j \in Sent \cup (lastId + 1 .. lastId + n) |->
                   IF j > lastId THEN NewMessage(DeckToken, order[j - lastId], g)
                   ELSE messages[j]]
              /\ lastId' = lastId + n
    BY DEF Announce
  <1> DEFINE n == Len(order)
             new == lastId + 1 .. lastId + n
  <1>2. PICK m \in 0 .. MaxToken : order \in [1 .. m -> Recipients(g, exclude)]
    BY DEF Orders
  <1>3. n = m /\ n \in Nat /\ m = n
    BY <1>2, TimeAssumption
  <1>4. lastId \in Nat /\ UNCHANGED registryVars
    BY DEF Announce, MailType
  <1>5. \A j \in new : j - lastId \in 1 .. m
    BY <1>3, <1>4
  <1>6. \A j \in new : order[j - lastId] \in Recipients(g, exclude)
    BY <1>2, <1>5
  <1>7. \A j \in Sent : j <= lastId /\ j \in Nat /\ j \in MsgIds
    BY DEF MessagesHaveRows, MailType, MsgIds
  <1>8. /\ Sent' = Sent \cup new
        /\ \A j \in Sent : messages'[j] = messages[j]
        /\ \A j \in new : messages'[j] = NewMessage(DeckToken, order[j - lastId], g)
    BY <1>1, <1>3, <1>4, <1>7 DEF Sent
  <1>9. new \subseteq MsgIds /\ lastId' \in 0 .. MaxMsg /\ \A j \in new : j <= lastId'
    BY <1>1, <1>3, <1>4, MailAssumption DEF MsgIds
  <1>10. Directory' /\ Rows' = Rows /\ peers' = peers
    BY <1>4, DirectoryStep DEF registryVars, tables, Rows
  <1>11. \A j \in new : /\ order[j - lastId] \in Rows \ {DeckToken}
                        /\ order[j - lastId] \in Tokens
                        /\ peers[order[j - lastId]].group = g
    BY <1>6 DEF Recipients, Directory, TypeOK
  <1>12. \A j \in new : NewMessage(DeckToken, order[j - lastId], g) \in MsgRow
    <2>1. DeckToken \in Tokens
      BY DEF Directory, DeckRowReserved, TypeOK
    <2> QED BY <2>1, <1>11, NewMessageType
  <1>13. \A j \in new : /\ messages'[j].from = DeckToken /\ messages'[j].group = g
                        /\ messages'[j].to = order[j - lastId]
    <2>1. ASSUME NEW to
          PROVE  /\ NewMessage(DeckToken, to, g).from = DeckToken
                 /\ NewMessage(DeckToken, to, g).group = g
                 /\ NewMessage(DeckToken, to, g).to = to
      BY DEF NewMessage
    <2>2. ASSUME NEW j \in new
          PROVE  messages'[j] = NewMessage(DeckToken, order[j - lastId], g)
      BY <1>8
    <2> HIDE DEF new
    <2> QED BY <2>1, <2>2
  <1>14. messages' \in [Sent' -> MsgRow]
    <2>1. messages' = [j \in Sent' |-> messages'[j]]
      BY <1>1, <1>3, <1>8
    <2>2. \A j \in Sent' : messages'[j] \in MsgRow
      BY <1>8, <1>12 DEF MailType
    <2> QED BY <2>1, <2>2
  <1> HIDE DEF n, new
  <1>15. MailType'
    BY <1>14, <1>9, <1>8, <1>7, <1>4 DEF MailType
  <1>16. \A j \in Sent' : j <= lastId'
    BY <1>1, <1>3, <1>4, <1>7, <1>8, <1>9 DEF n
  <1>17. DeckToken \in Rows
    BY DEF Directory, DeckRowReserved
  <1>18. \A j \in Sent : /\ messages[j].from \in Rows
                         /\ messages[j].to \in Rows \ {DeckToken}
    BY DEF MessagesHaveRows
  <1> QED BY <1>8, <1>10, <1>11, <1>13, <1>15, <1>16, <1>17, <1>18, MailKept

\* poll_messages only sets the delivered column.
LEMMA MailPoll ==
  ASSUME MailInv, NEW p \in Procs, PollMessages(p)
  PROVE  MailInv'
  <1> USE DEF MailInv
  <1>1. UNCHANGED registryVars /\ lastId' = lastId
    BY DEF PollMessages
  <1>2. /\ Sent' = Sent
        /\ \A j \in Sent : /\ messages'[j] \in MsgRow
                           /\ messages'[j].from = messages[j].from
                           /\ messages'[j].to = messages[j].to
                           /\ messages'[j].group = messages[j].group
        /\ messages' \in [Sent' -> MsgRow]
    <2>1. messages' = [i \in Sent |-> IF i \in Pending(held[p])
                                      THEN [messages[i] EXCEPT !.delivered = TRUE]
                                      ELSE messages[i]]
      BY DEF PollMessages
    <2>2. Sent' = Sent
      BY <2>1 DEF Sent
    <2>3. \A j \in Sent : /\ messages'[j] \in MsgRow
                          /\ messages'[j].from = messages[j].from
                          /\ messages'[j].to = messages[j].to
                          /\ messages'[j].group = messages[j].group
      BY <2>1 DEF MailType, MsgRow
    <2> QED BY <2>1, <2>2, <2>3
  <1>4. MailType'
    BY <1>1, <1>2 DEF MailType
  <1>5. Directory' /\ Rows' = Rows /\ peers' = peers
    BY <1>1, DirectoryStep DEF registryVars, tables, Rows
  <1> QED BY <1>1, <1>2, <1>4, <1>5, MailKept DEF MessagesHaveRows

\* What every deletion of rows does: the mail of the deleted rows goes too.
LEMMA MailDeleted ==
  ASSUME MailInv, Next, NEW S, Rows' = Rows \ S,
         NEW extra, messages' = Without(messages, MailOf(S) \cup extra),
         lastId' = lastId
  PROVE  MailInv'
  <1> USE DEF MailInv
  <1>1. /\ Sent' = Sent \ (MailOf(S) \cup extra)
        /\ \A i \in Sent' : /\ i \in Sent /\ messages'[i] = messages[i]
                            /\ messages[i].from \notin S /\ messages[i].to \notin S
    BY DEF Without, MailOf, Sent
  <1>2. MailType'
    BY <1>1 DEF MailType, Without, Sent
  <1>3. Directory'
    BY DirectoryStep
  <1>4. \A t \in Rows : t \in Rows' => peers'[t].group = peers[t].group
    BY GroupKept
  <1>5. \A i \in Sent' : /\ messages'[i].from \in Rows'
                         /\ messages'[i].to \in Rows' \ {DeckToken}
                         /\ i <= lastId'
    BY <1>1 DEF MessagesHaveRows
  <1> QED BY <1>1, <1>2, <1>3, <1>4, <1>5, MailKept

\* The timers, a restart and the clock keep the mail invariant.
LEMMA MailTimers ==
  ASSUME MailInv
  PROVE  /\ CleanStalePeersB => MailInv'
         /\ Restart => MailInv'
         /\ SweepInactivePeersB => MailInv'
         /\ PurgeOldMessages => MailInv'
         /\ TickB => MailInv'
  <1> USE DEF MailInv
  <1> DEFINE S == {t \in Rows : Expired(t)}
  <1>1. CleanStalePeers => Rows' = Rows \ S /\ Next
    BY DEF CleanStalePeers, DeleteRows, Without, Rows, Next
  <1> HIDE DEF S
  <1>2. ASSUME CleanStalePeersB PROVE MailInv'
    <2>1. /\ messages' = Without(messages, MailOf(S) \cup {})
          /\ lastId' = lastId /\ CleanStalePeers
      BY <1>2 DEF CleanStalePeersB, S
    <2> QED BY <1>1, <2>1, MailDeleted
  <1>3. ASSUME Restart PROVE MailInv'
    <2>1. /\ messages' = Without(messages, MailOf(S) \cup Lapsed)
          /\ lastId' = lastId /\ CleanStalePeers
      BY <1>3 DEF Restart, S
    <2> QED BY <1>1, <2>1, MailDeleted
  <1>4. ASSUME SweepInactivePeersB PROVE MailInv'
    <2>1. /\ Rows' = Rows /\ Next /\ Directory'
          /\ UNCHANGED <<messages, lastId>> /\ Sent' = Sent
      BY <1>4, DirectoryStep
         DEF SweepInactivePeersB, SweepInactivePeers, Rows, Next, mail, Sent
    <2>2. MailType'
      BY <2>1 DEF MailType
    <2> QED BY <2>1, <2>2, GroupKept, MailKept DEF MessagesHaveRows
  <1>5. ASSUME PurgeOldMessages PROVE MailInv'
    <2>1. /\ Sent' = Sent \ Lapsed /\ \A i \in Sent' : messages'[i] = messages[i]
          /\ UNCHANGED <<registryVars, lastId>>
          /\ messages' \in [Sent' -> MsgRow]
      BY <1>5 DEF PurgeOldMessages, Without, Sent, MailType
    <2>2. MailType'
      BY <2>1 DEF MailType
    <2>3. Directory' /\ Rows' = Rows /\ peers' = peers
      BY <2>1, DirectoryStep DEF registryVars, tables, Rows
    <2> QED BY <2>1, <2>2, <2>3, MailKept DEF MessagesHaveRows
  <1>6. ASSUME TickB PROVE MailInv'
    <2>1. /\ Rows' = Rows /\ Next /\ Directory' /\ lastId' = lastId
          /\ messages' = [i \in Sent |-> [messages[i] EXCEPT !.age = Older(@)]]
      BY <1>6, DirectoryStep DEF TickB, Tick, Rows, Next
    <2>2. /\ Sent' = Sent
          /\ \A i \in Sent : /\ messages'[i] \in MsgRow
                             /\ messages'[i].from = messages[i].from
                             /\ messages'[i].to = messages[i].to
                             /\ messages'[i].group = messages[i].group
      BY <2>1, OlderType DEF Sent, MailType, MsgRow
    <2>3. MailType'
      BY <2>1, <2>2 DEF MailType
    <2> QED BY <2>1, <2>2, <2>3, GroupKept, MailKept DEF MessagesHaveRows
  <1> QED BY <1>2, <1>3, <1>4, <1>5, <1>6

\* Steps that leave messages and rows alone, but for the fields of a row.
LEMMA MailUntouched ==
  ASSUME MailInv, [Next]_registryVars, Rows \subseteq Rows',
         UNCHANGED <<messages, lastId>>
  PROVE  MailInv'
  <1> USE DEF MailInv
  <1>1. Directory' /\ Sent' = Sent
    BY DirectoryStep DEF Sent
  <1>2. MailType'
    BY <1>1 DEF MailType
  <1>3. \A t \in Rows : t \in Rows' => peers'[t].group = peers[t].group
    BY GroupKept DEF registryVars, tables
  <1> QED BY <1>1, <1>2, <1>3, MailKept DEF MessagesHaveRows

\* At the start there is no mail.
LEMMA MailInit == InitB => MailInv
  <1> SUFFICES ASSUME InitB PROVE MailInv
    OBVIOUS
  <1>1. Directory
    BY DirectoryInit DEF InitB
  <1>2. Sent = {} /\ lastId = 0
    BY DEF InitB, Sent
  <1>3. MailType
    BY <1>2, MailAssumption DEF MailType, InitB
  <1> QED BY <1>1, <1>2, <1>3 DEF MailInv, MessagesHaveRows, MailStaysInGroup

\* The mail invariant is kept by every handler, timer, restart and stutter.
LEMMA MailStep ==
  ASSUME MailInv, [NextB]_brokerVars
  PROVE  MailInv'
  <1>1. [Next]_registryVars
    BY BrokerRefinesRegistry
  <1>2. UNCHANGED registryVars => Rows' = Rows
    BY DEF registryVars, tables, Rows
  <1>3. CASE UNCHANGED brokerVars
    BY <1>1, <1>2, <1>3, MailUntouched DEF brokerVars, mail, MailInv, MailType
  <1>4. ASSUME NEW p \in Procs, RegisterOrRename(p) PROVE MailInv'
    <2>1. Rows \subseteq Rows' /\ UNCHANGED <<messages, lastId>>
      BY <1>4, RowsKept DEF RegisterOrRename, mail
    <2> QED BY <1>1, <2>1, MailUntouched DEF MailInv, MailType
  <1>5. ASSUME NEW p \in Procs, UnregisterB(p) PROVE MailInv'
    <2> DEFINE S == {held[p]}
    <2>1. Rows' = Rows \ S /\ Next
      BY <1>5 DEF UnregisterB, Unregister, DeleteRows, Without, Rows, Next, Call
    <2>2. messages' = Without(messages, MailOf(S) \cup {}) /\ lastId' = lastId
      BY <1>5 DEF UnregisterB
    <2> HIDE DEF S
    <2> QED BY <2>1, <2>2, MailDeleted
  <1>6. ASSUME NEW p \in Procs, ExitB(p) PROVE MailInv'
    <2>1. Rows' = Rows /\ UNCHANGED <<messages, lastId>>
      BY <1>6 DEF ExitB, Exit, tables, Rows, mail
    <2> QED BY <1>1, <2>1, MailUntouched DEF MailInv, MailType
  <1>7. ASSUME NEW p \in Procs, NEW c \in Conns, OpenWs(p, c) PROVE MailInv'
    BY <1>1, <1>2, <1>7, MailUntouched DEF OpenWs, mail, MailInv, MailType
  <1>8. ASSUME NEW c \in Conns, WsAuth(c) \/ ClientClose(c) \/ BrokerClose(c)
        PROVE MailInv'
    BY <1>1, <1>2, <1>8, MailUntouched
       DEF WsAuth, ClientClose, BrokerClose, mail, MailInv, MailType
  <1>9. ASSUME NEW c \in Conns, Receive(c) PROVE MailInv'
    BY <1>1, <1>2, <1>9, MailUntouched DEF Receive, MailInv, MailType
  <1>10. ASSUME NEW cr \in Credentials, NEW exclude, Announce(cr[1], cr[2], exclude)
         PROVE  MailInv'
    <2>1. cr[1] \in Groups
      BY GroupAssumption
    <2> QED BY <1>10, <2>1, MailAnnounce
  <1> QED BY <1>3, <1>4, <1>5, <1>6, <1>7, <1>8, <1>9, <1>10,
             MailSend, MailPoll, MailTimers DEF NextB

-----------------------------------------------------------------------------
(* Sockets *)

NetType ==
  /\ sock \in [Conns -> Sock]
  /\ DOMAIN pool \subseteq Tokens /\ pool \in [DOMAIN pool -> Conns]
  /\ wire \in [Conns -> Seq(MsgIds)]

NetInv == MailInv /\ NetType /\ PoolAuthenticated

\* What becomes of a socket is well typed.
LEMMA SockTypes ==
  /\ ClosedSock \in Sock
  /\ \A p \in Procs, t \in Tokens \cup {NoToken} :
       [state |-> "open", proc |-> p, claim |-> t, token |-> NoToken] \in Sock
  /\ \A s \in Sock, t \in Tokens \cup {NoToken} : [s EXCEPT !.token = t] \in Sock
  /\ \A s \in Sock : [s EXCEPT !.state = "half"] \in Sock
  BY DEF ClosedSock, Sock, SockState

\* A push leaves a sequence of message ids on every wire.
LEMMA PushType ==
  ASSUME NetType, NEW t, NEW i \in MsgIds
  PROVE  Push(wire, t, i) \in [Conns -> Seq(MsgIds)]
  <1>1. CASE t \in DOMAIN pool
    <2> DEFINE c == pool[t]
    <2>1. c \in Conns /\ wire[c] \in Seq(MsgIds)
      BY <1>1 DEF NetType
    <2>2. Append(wire[c], i) \in Seq(MsgIds)
      BY <2>1
    <2>3. [wire EXCEPT ![c] = Append(wire[c], i)] \in [Conns -> Seq(MsgIds)]
      BY <2>1, <2>2 DEF NetType
    <2> QED BY <2>3 DEF Push, NetType
  <1>2. CASE t \notin DOMAIN pool
    BY <1>2 DEF Push, Reachable, NetType
  <1> QED BY <1>1, <1>2

\* The replayed backlog is a sequence of messages.
LEMMA ReplayType ==
  ASSUME MailType, NEW t, NEW s \in Replays(t)
  PROVE  s \in Seq(MsgIds)
  <1> DEFINE R == Recent(t)
             n == Min({FlushMaxCount, Cardinality(R)})
  <1>1. R \subseteq MsgIds
    BY DEF Recent, Pending, MailType
  <1>2. IsFiniteSet(R)
    <2>1. IsFiniteSet(MsgIds)
      BY FS_Interval, MailAssumption DEF MsgIds
    <2> QED BY <1>1, <2>1, FS_Subset
  <1>3. Cardinality(R) \in Nat
    BY <1>2, FS_CardinalityType
  <1> HIDE DEF R
  <1>4. n \in Nat
    <2> DEFINE C == Cardinality(R)
    <2> HIDE DEF C
    <2>1. C \in Nat /\ FlushMaxCount \in Nat
      BY <1>3, MailAssumption DEF C
    <2>2. \E x \in {FlushMaxCount, C} : \A y \in {FlushMaxCount, C} : x <= y
      BY <2>1
    <2>3. Min({FlushMaxCount, C}) \in {FlushMaxCount, C}
      BY <2>2 DEF Min
    <2> QED BY <2>1, <2>3 DEF C
  <1>5. s \in [1 .. n -> R]
    BY DEF Replays, Chosen, R
  <1> HIDE DEF n
  <1> QED BY <1>1, <1>4, <1>5

\* Announcements and pushes put messages on the wire.
LEMMA WireTypes ==
  ASSUME MailInv, MailInv', NetType
  PROVE  /\ \A p \in Procs, name \in PeerIds :
              SendMessage(p, name) => wire' \in [Conns -> Seq(MsgIds)]
         /\ \A g, hash, exclude :
              Announce(g, hash, exclude) => wire' \in [Conns -> Seq(MsgIds)]
  <1>1. ASSUME NEW p \in Procs, NEW name \in PeerIds, SendMessage(p, name)
        PROVE  wire' \in [Conns -> Seq(MsgIds)]
    <2>1. lastId + 1 \in MsgIds
      BY <1>1, MailAssumption DEF SendMessage, Addressed, MailInv, MailType, MsgIds
    <2>2. \E to : wire' = Push(wire, to, lastId + 1)
      BY <1>1 DEF SendMessage, Addressed
    <2> QED BY <2>1, <2>2, PushType
  <1>2. ASSUME NEW g, NEW hash, NEW exclude, Announce(g, hash, exclude)
        PROVE  wire' \in [Conns -> Seq(MsgIds)]
    <2>1. PICK order \in Orders(Recipients(g, exclude)) :
            LET n == Len(order)
                id(k) == lastId + k
                pushed(c) == {k \in 1 .. n : Reachable(order[k]) /\ pool[order[k]] = c
                                             /\ sock[c].state = "open"}
            IN  /\ lastId + n <= MaxMsg
                /\ wire' = [c \in Conns |->
                     IF pushed(c) = {} THEN wire[c]
                     ELSE Append(wire[c], id(CHOOSE k \in pushed(c) : TRUE))]
      BY <1>2 DEF Announce
    <2> DEFINE n == Len(order)
               pushed(c) == {k \in 1 .. n : Reachable(order[k]) /\ pool[order[k]] = c
                                            /\ sock[c].state = "open"}
    <2>2. PICK m \in 0 .. MaxToken : order \in [1 .. m -> Recipients(g, exclude)]
      BY DEF Orders
    <2>3. n \in Nat
      BY <2>2, TimeAssumption
    <2>4. \A k \in 1 .. n : lastId + k \in MsgIds
      BY <2>1, <2>3, MailAssumption DEF MailInv, MailType, MsgIds
    <2>5. ASSUME NEW c \in Conns PROVE wire'[c] \in Seq(MsgIds)
      <3>1. wire[c] \in Seq(MsgIds)
        BY DEF NetType
      <3>2. CASE pushed(c) = {}
        BY <2>1, <3>1, <3>2
      <3>3. CASE pushed(c) # {}
        <4> DEFINE k == CHOOSE k \in pushed(c) : TRUE
        <4>1. k \in 1 .. n
          BY <3>3
        <4>2. wire'[c] = Append(wire[c], lastId + k)
          BY <2>1, <3>3
        <4> HIDE DEF k, pushed
        <4>3. lastId + k \in MsgIds
          BY <4>1, <2>4
        <4> QED BY <4>2, <4>3, <3>1
      <3> QED BY <3>2, <3>3
    <2>6. wire' = [c \in Conns |-> wire'[c]]
      BY <2>1
    <2> QED BY <2>5, <2>6
  <1> QED BY <1>1, <1>2

\* The steps that touch sockets or the pool.
LEMMA NetSockets ==
  ASSUME NetInv, NEW c \in Conns
  PROVE  /\ \A p \in Procs : OpenWs(p, c) => NetType' /\ PoolAuthenticated'
         /\ WsAuth(c) => NetType' /\ PoolAuthenticated'
         /\ ClientClose(c) => NetType' /\ PoolAuthenticated'
         /\ BrokerClose(c) => NetType' /\ PoolAuthenticated'
         /\ Receive(c) => NetType' /\ PoolAuthenticated'
  <1> USE DEF NetInv, NetType
  <1>1. sock[c] \in Sock /\ wire[c] \in Seq(MsgIds) /\ <<>> \in Seq(MsgIds)
    OBVIOUS
  <1>2. ASSUME NEW p \in Procs, OpenWs(p, c) PROVE NetType' /\ PoolAuthenticated'
    <2>1. held[p] \in Tokens \cup {NoToken}
      BY DEF MailInv, Directory, TypeOK
    <2> DEFINE s == [state |-> "open", proc |-> p, claim |-> held[p], token |-> NoToken]
    <2>2. s \in Sock
      BY <2>1, SockTypes
    <2>3. sock' = [sock EXCEPT ![c] = s] /\ pool' = pool /\ wire' = wire
      BY <1>2 DEF OpenWs
    <2>4. sock[c].state = "closed"
      BY <1>2 DEF OpenWs
    <2> HIDE DEF s
    <2>5. NetType'
      BY <2>2, <2>3
    <2>6. \A t \in DOMAIN pool : pool[t] # c
      BY <2>4 DEF PoolAuthenticated
    <2> QED BY <2>3, <2>5, <2>6 DEF PoolAuthenticated
  <1>3. ASSUME WsAuth(c) PROVE NetType' /\ PoolAuthenticated'
    <2> DEFINE t == sock[c].claim
               s == [sock[c] EXCEPT !.token = t]
    <2>1. sock[c].state # "closed" /\ sock[c].token = NoToken
      BY <1>3 DEF WsAuth
    <2>2. \A u \in DOMAIN pool : pool[u] # c
      <3> SUFFICES ASSUME NEW u \in DOMAIN pool, pool[u] = c PROVE FALSE
        OBVIOUS
      <3>1. u = NoToken /\ u \in Tokens
        BY <2>1 DEF PoolAuthenticated
      <3> HIDE DEF NetInv, NetType
      <3> QED BY <3>1, TimeAssumption DEF Tokens, NoToken, DeckToken
    <2>3. CASE t \in Rows /\ peers[t].status = "active"
      <3>1. PICK r \in Replays(t) :
              wire' = IF sock[c].state = "open" THEN [wire EXCEPT ![c] = r] ELSE wire
        BY <1>3, <2>3 DEF WsAuth
      <3>2. r \in Seq(MsgIds)
        BY ReplayType DEF MailInv
      <3>3. sock' = [sock EXCEPT ![c] = s] /\ pool' = Insert(pool, t, c)
        BY <1>3, <2>3 DEF WsAuth
      <3>4. t \in Tokens
        BY <2>3 DEF MailInv, Directory, TypeOK
      <3>5. s \in Sock /\ s.token = t /\ s.state = sock[c].state
        BY <1>1, <3>4 DEF Sock
      <3> HIDE DEF t, s
      <3>6. wire' \in [Conns -> Seq(MsgIds)]
        BY <3>1, <3>2
      <3>7. /\ DOMAIN pool' = DOMAIN pool \cup {t} /\ pool' \in [DOMAIN pool' -> Conns]
            /\ pool'[t] = c /\ \A u \in DOMAIN pool : u # t => pool'[u] = pool[u]
        <4>1. pool \in [DOMAIN pool -> Conns]
          OBVIOUS
        <4> HIDE DEF NetInv, NetType
        <4> QED BY <3>3, <4>1 DEF Insert
      <3>8. NetType'
        BY <3>3, <3>4, <3>5, <3>6, <3>7
      <3>9. PoolAuthenticated'
        BY <2>1, <2>2, <3>3, <3>5, <3>7 DEF PoolAuthenticated
      <3> QED BY <3>8, <3>9
    <2>4. CASE ~(t \in Rows /\ peers[t].status = "active")
      <3>1. sock' = [sock EXCEPT ![c] = ClosedSock] /\ pool' = pool /\ wire' = wire
        BY <1>3, <2>4 DEF WsAuth
      <3> QED BY <2>2, <3>1, SockTypes DEF PoolAuthenticated
    <2> QED BY <2>3, <2>4
  <1>4. ASSUME ClientClose(c) PROVE NetType' /\ PoolAuthenticated'
    <2> DEFINE s == [sock[c] EXCEPT !.state = "half"]
    <2>1. s \in Sock /\ s.token = sock[c].token /\ s.state = "half"
      BY <1>1 DEF Sock, SockState
    <2>2. sock' = [sock EXCEPT ![c] = s] /\ pool' = pool /\ wire' = [wire EXCEPT ![c] = <<>>]
      BY <1>4 DEF ClientClose
    <2> HIDE DEF s
    <2> QED BY <1>1, <2>1, <2>2 DEF PoolAuthenticated
  <1>5. ASSUME BrokerClose(c) PROVE NetType' /\ PoolAuthenticated'
    <2>1. /\ sock' = [sock EXCEPT ![c] = ClosedSock] /\ pool' = Evict(c)
          /\ wire' = [wire EXCEPT ![c] = <<>>]
      BY <1>5 DEF BrokerClose
    <2>2. /\ DOMAIN pool' \subseteq DOMAIN pool /\ pool' \in [DOMAIN pool' -> Conns]
          /\ \A t \in DOMAIN pool' : pool'[t] = pool[t] /\ ~(t = sock[c].token /\ pool[t] = c)
      BY <2>1 DEF Evict, Without
    <2>3. \A t \in DOMAIN pool' : pool[t] # c
      BY <2>2 DEF PoolAuthenticated
    <2>4. NetType'
      BY <1>1, <2>1, <2>2, SockTypes
    <2> QED BY <2>1, <2>2, <2>3, <2>4 DEF PoolAuthenticated
  <1>6. ASSUME Receive(c) PROVE NetType' /\ PoolAuthenticated'
    <2>1. wire' = [wire EXCEPT ![c] = Tail(wire[c])] /\ sock' = sock /\ pool' = pool
          /\ wire[c] # <<>>
      BY <1>6 DEF Receive
    <2>2. Tail(wire[c]) \in Seq(MsgIds)
      BY <1>1, <2>1
    <2> QED BY <2>1, <2>2 DEF PoolAuthenticated
  <1> QED BY <1>2, <1>3, <1>4, <1>5, <1>6

\* At the start there are no sockets.
LEMMA NetInit == InitB => NetInv
  <1> SUFFICES ASSUME InitB PROVE NetInv
    OBVIOUS
  <1>1. MailInv
    BY MailInit
  <1>2. /\ sock = [c \in Conns |-> ClosedSock] /\ DOMAIN pool = {} /\ pool = [t \in {} |-> NoProc]
        /\ wire = [c \in Conns |-> <<>>]
    BY DEF InitB
  <1>3. NetType
    BY <1>2, SockTypes DEF NetType
  <1> QED BY <1>1, <1>2, <1>3 DEF NetInv, PoolAuthenticated

\* Sockets, pool and frames stay consistent through every step.
LEMMA NetStep == NetInv /\ [NextB]_brokerVars => NetInv'
  <1> SUFFICES ASSUME NetInv, [NextB]_brokerVars PROVE NetInv'
    OBVIOUS
  <1>1. MailInv /\ MailInv'
    BY MailStep DEF NetInv, NetType
  <1>2. ASSUME sock' = sock, pool' = pool, wire' \in [Conns -> Seq(MsgIds)]
        PROVE  NetInv'
    BY <1>1, <1>2 DEF NetInv, NetType, PoolAuthenticated
  <1>3. CASE UNCHANGED brokerVars
    BY <1>2, <1>3 DEF brokerVars, net, NetInv, NetType
  <1>4. ASSUME NEW p \in Procs,
               RegisterOrRename(p) \/ UnregisterB(p) \/ PollMessages(p)
        PROVE  NetInv'
    BY <1>2, <1>4
       DEF RegisterOrRename, UnregisterB, PollMessages, net, NetInv, NetType
  <1>5. ASSUME NEW p \in Procs, ExitB(p) PROVE NetInv'
    <2>1. /\ sock' = [c \in Conns |-> IF sock[c].proc = p /\ sock[c].state = "open"
                                     THEN [sock[c] EXCEPT !.state = "half"] ELSE sock[c]]
          /\ wire' = [c \in Conns |-> IF sock[c].proc = p THEN <<>> ELSE wire[c]]
          /\ pool' = pool
      BY <1>5 DEF ExitB
    <2>2. \A c \in Conns : /\ sock'[c] \in Sock /\ sock'[c].token = sock[c].token
                           /\ sock[c].state # "closed" => sock'[c].state # "closed"
      BY <2>1 DEF NetInv, NetType, Sock, SockState
    <2>3. sock' \in [Conns -> Sock] /\ wire' \in [Conns -> Seq(MsgIds)]
      BY <2>1, <2>2 DEF NetInv, NetType
    <2> QED BY <1>1, <2>1, <2>2, <2>3 DEF NetInv, NetType, PoolAuthenticated
  <1>6. ASSUME NEW p \in Procs, NEW name \in PeerIds, SendMessage(p, name) PROVE NetInv'
    BY <1>1, <1>2, <1>6, WireTypes DEF SendMessage, Addressed, NetInv
  <1>7. ASSUME NEW cr \in Credentials, NEW exclude, Announce(cr[1], cr[2], exclude)
        PROVE  NetInv'
    BY <1>1, <1>2, <1>7, WireTypes DEF Announce, NetInv
  <1>8. ASSUME CleanStalePeersB \/ SweepInactivePeersB \/ PurgeOldMessages \/ TickB
        PROVE  NetInv'
    BY <1>2, <1>8
       DEF CleanStalePeersB, SweepInactivePeersB, PurgeOldMessages, TickB, net, NetInv, NetType
  <1>9. ASSUME Restart PROVE NetInv'
    <2>1. /\ sock' = [c \in Conns |-> ClosedSock] /\ pool' = [t \in {} |-> NoProc]
          /\ wire' = [c \in Conns |-> <<>>]
      BY <1>9 DEF Restart
    <2>2. NetType' /\ PoolAuthenticated'
      BY <2>1, SockTypes DEF NetType, PoolAuthenticated
    <2> QED BY <1>1, <2>2 DEF NetInv
  <1> QED BY <1>1, <1>3, <1>4, <1>5, <1>6, <1>7, <1>8, <1>9, NetSockets DEF NextB, NetInv

\* The invariant of sockets and pool holds in every behaviour.
LEMMA NetAlways == SpecB => []NetInv
  BY NetInit, NetStep, PTL DEF SpecB

-----------------------------------------------------------------------------
(* Frames *)

\* The frames w in flight on the socket s, when m are the messages and last their counter:
\* none twice, none of the future, those that still exist are for s and oldest first; and
\* a socket that is not open, or has not authenticated, carries none.
Flow(w, s, m, last) ==
  /\ Distinct(w)
  /\ \A k \in 1 .. Len(w) : w[k] <= last /\ (w[k] \in DOMAIN m => m[w[k]].to = s.token)
  /\ \A j, k \in 1 .. Len(w) :
       j < k /\ w[j] \in DOMAIN m /\ w[k] \in DOMAIN m => m[w[j]].age >= m[w[k]].age
  /\ s.state # "open" \/ s.token = NoToken => w = <<>>

Frames == \A c \in Conns : Flow(wire[c], sock[c], messages, lastId)
FramesInv == NetInv /\ Frames

\* What a step does to the messages: new ones get new ids, the others keep their recipient
\* and their order in time.
Keeps(m, n, last) ==
  /\ \A i \in DOMAIN n : i \in DOMAIN m \/ i > last
  /\ \A i \in DOMAIN n \cap DOMAIN m : n[i].to = m[i].to
  /\ \A i, j \in DOMAIN n \cap DOMAIN m : m[i].age >= m[j].age => n[i].age >= n[j].age

\* An empty wire is in order.
LEMMA FlowEmpty ==
  ASSUME NEW s, NEW m, NEW last
  PROVE  Flow(<<>>, s, m, last)
  BY DEF Flow, Distinct

\* A wire stays in order when messages come and go, and time passes.
LEMMA FlowKept ==
  ASSUME NEW w \in Seq(MsgIds), NEW s, NEW r, NEW m, NEW n, NEW last \in Nat, NEW next \in Nat,
         Flow(w, s, m, last), Keeps(m, n, last), last <= next,
         r.token = s.token, r.state = s.state
  PROVE  Flow(w, r, n, next)
  <1>1. \A k \in 1 .. Len(w) : w[k] \in Nat /\ w[k] <= last
    BY MailAssumption DEF Flow, MsgIds
  <1>2. \A k \in 1 .. Len(w) : w[k] <= next
    BY <1>1
  <1>3. \A k \in 1 .. Len(w) : w[k] \in DOMAIN n => w[k] \in DOMAIN m
    <2> SUFFICES ASSUME NEW k \in 1 .. Len(w), w[k] \in DOMAIN n, w[k] > last PROVE FALSE
      BY DEF Keeps
    <2> QED BY <1>1
  <1>4. \A k \in 1 .. Len(w) : w[k] \in DOMAIN n => n[w[k]].to = r.token
    BY <1>3 DEF Flow, Keeps
  <1>5. \A j, k \in 1 .. Len(w) :
          j < k /\ w[j] \in DOMAIN n /\ w[k] \in DOMAIN n => n[w[j]].age >= n[w[k]].age
    BY <1>3 DEF Flow, Keeps
  <1> QED BY <1>2, <1>4, <1>5 DEF Flow

\* A frame of a message that is being sent goes behind all others.
LEMMA FlowAppend ==
  ASSUME NEW w \in Seq(MsgIds), NEW s, NEW m, NEW n, NEW last \in Nat, NEW next \in Nat,
         NEW i \in MsgIds, last < i, i <= next,
         Flow(w, s, m, last), Keeps(m, n, last), i \in DOMAIN n,
         \A j \in DOMAIN n : n[j].age \in Nat,
         n[i].to = s.token, n[i].age = 0, s.state = "open", s.token # NoToken
  PROVE  Flow(Append(w, i), s, n, next)
  <1> DEFINE v == Append(w, i)
  <1>1. Len(v) = Len(w) + 1 /\ v[Len(v)] = i /\ \A k \in 1 .. Len(w) : v[k] = w[k]
    OBVIOUS
  <1>2. Len(w) \in Nat /\ DOMAIN v = 1 .. Len(v) /\ DOMAIN w = 1 .. Len(w) /\ i \in Nat
    BY MailAssumption DEF MsgIds
  <1>3. Flow(w, s, n, next)
    <2>1. last <= next
      BY <1>2
    <2> QED BY <2>1, FlowKept
  <1>4. \A k \in 1 .. Len(w) : w[k] \in Nat /\ w[k] < i
    BY <1>2, MailAssumption DEF Flow, MsgIds
  <1> HIDE DEF v
  <1>5. \A k \in 1 .. Len(v) : k \in 1 .. Len(w) \/ k = Len(v)
    BY <1>1, <1>2
  <1>6. Distinct(v)
    <2> SUFFICES ASSUME NEW j \in 1 .. Len(v), NEW k \in 1 .. Len(v), v[j] = v[k]
                 PROVE  j = k
      BY <1>2 DEF Distinct
    <2>1. CASE j \in 1 .. Len(w) /\ k \in 1 .. Len(w)
      BY <1>1, <1>2, <2>1 DEF Flow, Distinct
    <2>2. CASE j = Len(v) /\ k \in 1 .. Len(w)
      BY <1>1, <1>2, <1>4, <2>2
    <2>3. CASE k = Len(v) /\ j \in 1 .. Len(w)
      BY <1>1, <1>2, <1>4, <2>3
    <2> QED BY <1>5, <2>1, <2>2, <2>3
  <1>7. \A k \in 1 .. Len(v) : v[k] <= next /\ (v[k] \in DOMAIN n => n[v[k]].to = s.token)
    BY <1>1, <1>3, <1>5 DEF Flow
  <1>8. ASSUME NEW j \in 1 .. Len(v), NEW k \in 1 .. Len(v), j < k,
               v[j] \in DOMAIN n, v[k] \in DOMAIN n
        PROVE  n[v[j]].age >= n[v[k]].age
    <2>1. j \in 1 .. Len(w)
      BY <1>1, <1>2, <1>8
    <2>2. CASE k \in 1 .. Len(w)
      BY <1>1, <1>3, <1>8, <2>1, <2>2 DEF Flow
    <2>3. CASE k = Len(v)
      BY <1>1, <1>8, <2>3
    <2> QED BY <1>5, <2>2, <2>3
  <1> QED BY <1>6, <1>7, <1>8 DEF Flow, v

\* What is left of a wire when a frame has arrived is in order.
LEMMA FlowTail ==
  ASSUME NEW w \in Seq(MsgIds), w # <<>>, NEW s, NEW m, NEW last, Flow(w, s, m, last)
  PROVE  Flow(Tail(w), s, m, last)
  <1> DEFINE v == Tail(w)
  <1>1. Len(w) \in Nat \ {0} /\ Len(v) = Len(w) - 1 /\ \A k \in 1 .. Len(v) : v[k] = w[k + 1]
    OBVIOUS
  <1>2. DOMAIN v = 1 .. Len(v) /\ DOMAIN w = 1 .. Len(w)
    OBVIOUS
  <1> HIDE DEF v
  <1>3. \A k \in 1 .. Len(v) : k + 1 \in 1 .. Len(w)
    BY <1>1
  <1>4. Distinct(v)
    <2> SUFFICES ASSUME NEW j \in 1 .. Len(v), NEW k \in 1 .. Len(v), v[j] = v[k]
                 PROVE  j = k
      BY <1>2 DEF Distinct
    <2>1. w[j + 1] = w[k + 1] /\ j + 1 \in DOMAIN w /\ k + 1 \in DOMAIN w
      BY <1>1, <1>2, <1>3
    <2>2. j + 1 = k + 1
      BY <2>1 DEF Flow, Distinct
    <2> QED BY <1>1, <2>2
  <1>5. \A k \in 1 .. Len(v) : v[k] <= last /\ (v[k] \in DOMAIN m => m[v[k]].to = s.token)
    BY <1>1, <1>3 DEF Flow
  <1>6. ASSUME NEW j \in 1 .. Len(v), NEW k \in 1 .. Len(v), j < k,
               v[j] \in DOMAIN m, v[k] \in DOMAIN m
        PROVE  m[v[j]].age >= m[v[k]].age
    <2>1. j + 1 < k + 1
      BY <1>1, <1>6
    <2> QED BY <1>1, <1>3, <1>6, <2>1 DEF Flow
  <1>7. s.state # "open" \/ s.token = NoToken => FALSE
    BY DEF Flow
  <1> QED BY <1>4, <1>5, <1>6, <1>7 DEF Flow, v

\* A replayed backlog is in order on a socket that is open for its recipient.
LEMMA FlowReplay ==
  ASSUME MailInv, NEW t, NEW w \in Replays(t), NEW s, s.state = "open", s.token = t, t # NoToken
  PROVE  Flow(w, s, messages, lastId)
  <1>1. w \in Seq(MsgIds) /\ DOMAIN w = 1 .. Len(w)
    BY ReplayType DEF MailInv
  <1>2. Distinct(w) /\ \A j, k \in DOMAIN w : j < k => Age(w[j]) >= Age(w[k])
    BY DEF Replays
  <1>3. \A k \in DOMAIN w : w[k] \in Recent(t)
    BY DEF Replays, Chosen
  <1>4. \A k \in DOMAIN w : w[k] \in Sent /\ messages[w[k]].to = t
    BY <1>3 DEF Recent, Pending
  <1>5. \A k \in DOMAIN w : w[k] <= lastId
    BY <1>4 DEF MailInv, MessagesHaveRows
  <1> QED BY <1>1, <1>2, <1>4, <1>5 DEF Flow, Sent, Age

\* Only these parts of a step matter to the frames: messages keep their order, wires are
\* left alone or emptied, and a socket keeps its token unless its wire is empty.
LEMMA FramesKept ==
  ASSUME FramesInv, NetInv', Keeps(messages, messages', lastId), lastId <= lastId',
         \A c \in Conns : \/ wire'[c] = <<>>
                          \/ /\ wire'[c] = wire[c]
                             /\ sock'[c].token = sock[c].token
                             /\ sock'[c].state = sock[c].state
  PROVE  Frames'
  <1> SUFFICES ASSUME NEW c \in Conns PROVE Flow(wire'[c], sock'[c], messages', lastId')
    BY DEF Frames
  <1>1. CASE wire'[c] = <<>>
    BY <1>1, FlowEmpty
  <1>2. CASE wire'[c] = wire[c] /\ sock'[c].token = sock[c].token /\ sock'[c].state = sock[c].state
    <2>1. wire[c] \in Seq(MsgIds) /\ lastId \in Nat /\ lastId' \in Nat
      BY MailAssumption DEF FramesInv, NetInv, NetType, MailInv, MailType
    <2>2. Flow(wire[c], sock[c], messages, lastId)
      BY DEF FramesInv, Frames
    <2> QED BY <1>2, <2>1, <2>2, FlowKept
  <1> QED BY <1>1, <1>2

\* Messages that are deleted, marked or left alone keep their order.
LEMMA KeepsSame ==
  ASSUME MailInv, DOMAIN messages' \subseteq Sent,
         \A i \in DOMAIN messages' : /\ messages'[i].to = messages[i].to
                                     /\ messages'[i].age = messages[i].age
  PROVE  Keeps(messages, messages', lastId)
  BY DEF Keeps, Sent

\* A message that is sent is the youngest; the sender's own mail is only marked.
LEMMA FramesSend ==
  ASSUME FramesInv, NetInv', NEW p \in Procs, NEW name \in PeerIds, SendMessage(p, name)
  PROVE  Frames'
  <1> DEFINE me == held[p]
             g == peers[me].group
             i == lastId + 1
  <1>1. PICK to \in Addressed(g, name) :
          /\ messages' = [j \in Sent \cup {i} |->
               IF j = i THEN NewMessage(me, to, g)
               ELSE IF Acked(me, g, messages[j])
                    THEN [messages[j] EXCEPT !.delivered = TRUE] ELSE messages[j]]
          /\ wire' = Push(wire, to, i)
    BY DEF SendMessage
  <1>2. lastId' = i /\ sock' = sock /\ lastId < MaxMsg
    BY DEF SendMessage
  <1>3. lastId \in Nat /\ i \in MsgIds /\ i \in Nat
    BY <1>2, MailAssumption DEF FramesInv, NetInv, MailInv, MailType, MsgIds
  <1>4. \A j \in Sent : messages[j] \in MsgRow /\ j # i
    BY <1>3, MailAssumption DEF FramesInv, NetInv, MailInv, MailType, MessagesHaveRows, MsgIds
  <1>5. \A j \in Sent : messages'[j].to = messages[j].to /\ messages'[j].age = messages[j].age
    BY <1>1, <1>4 DEF MsgRow
  <1>6. DOMAIN messages' = Sent \cup {i} /\ messages'[i] = NewMessage(me, to, g)
    BY <1>1
  <1> HIDE DEF i
  <1>7. Keeps(messages, messages', lastId)
    BY <1>2, <1>3, <1>5, <1>6 DEF Keeps, Sent, i
  <1>8. \A j \in DOMAIN messages' : messages'[j].age \in Nat
    BY TimeAssumption DEF NetInv, MailInv, MailType, Sent, MsgRow, Ages
  <1> DEFINE hit == Reachable(to) /\ sock[pool[to]].state = "open"
  <1>9. CASE ~hit
    <2>1. wire' = wire
      BY <1>1, <1>9 DEF Push
    <2> QED BY <1>2, <1>3, <1>7, <2>1, FramesKept DEF i
  <1>10. CASE hit
    <2> DEFINE c == pool[to]
    <2>1. to \in DOMAIN pool /\ c \in Conns /\ sock[c].token = to /\ sock[c].state = "open"
      BY <1>10 DEF Reachable, FramesInv, NetInv, NetType, PoolAuthenticated
    <2>2. to # NoToken
      BY <2>1, TimeAssumption DEF FramesInv, NetInv, NetType, Tokens, NoToken, DeckToken
    <2>3. wire' = [wire EXCEPT ![c] = Append(wire[c], i)]
      BY <1>1, <1>10 DEF Push
    <2> HIDE DEF c
    <2>4. \A d \in Conns : wire[d] \in Seq(MsgIds) /\ Flow(wire[d], sock[d], messages, lastId)
      BY DEF FramesInv, NetInv, NetType, Frames
    <2>5. wire'[c] = Append(wire[c], i) /\ \A d \in Conns \ {c} : wire'[d] = wire[d]
      BY <2>1, <2>3 DEF FramesInv, NetInv, NetType
    <2>6. messages'[i].to = to /\ messages'[i].age = 0
      BY <1>6 DEF NewMessage
    <2>7. Flow(wire'[c], sock'[c], messages', lastId')
      <3>1. lastId < i /\ i <= lastId' /\ lastId' \in Nat
        BY <1>2, <1>3 DEF i
      <3>2. sock'[c] = sock[c] /\ i \in DOMAIN messages'
        BY <1>2, <1>6
      <3>3. Flow(wire[c], sock[c], messages, lastId) /\ wire[c] \in Seq(MsgIds)
        BY <2>1, <2>4
      <3> QED BY <1>3, <1>7, <1>8, <2>1, <2>2, <2>5, <2>6, <3>1, <3>2, <3>3, FlowAppend
    <2>8. \A d \in Conns \ {c} : Flow(wire'[d], sock'[d], messages', lastId')
      <3>1. lastId <= lastId' /\ lastId' \in Nat
        BY <1>2, <1>3 DEF i
      <3> QED BY <1>2, <1>3, <1>7, <2>4, <2>5, <3>1, FlowKept
    <2> QED BY <2>7, <2>8 DEF Frames
  <1> QED BY <1>9, <1>10

\* An announcement puts at most one frame on each wire, of a message to whom it leads.
LEMMA FramesAnnounce ==
  ASSUME FramesInv, NetInv', NEW g, NEW hash, NEW exclude, Announce(g, hash, exclude)
  PROVE  Frames'
  <1>1. PICK order \in Orders(Recipients(g, exclude)) :
          LET n == Len(order)
              id(k) == lastId + k
              pushed(c) == {k \in 1 .. n : Reachable(order[k]) /\ pool[order[k]] = c
                                           /\ sock[c].state = "open"}
          IN  /\ lastId + n <= MaxMsg
              /\ messages' = [j \in Sent \cup (lastId + 1 .. lastId + n) |->
                   IF j > lastId THEN NewMessage(DeckToken, order[j - lastId], g)
                   ELSE messages[j]]
              /\ lastId' = lastId + n
              /\ wire' = [c \in Conns |->
                   IF pushed(c) = {} THEN wire[c]
                   ELSE Append(wire[c], id(CHOOSE k \in pushed(c) : TRUE))]
    BY DEF Announce
  <1> DEFINE n == Len(order)
             pushed(c) == {k \in 1 .. n : Reachable(order[k]) /\ pool[order[k]] = c
                                          /\ sock[c].state = "open"}
  <1>2. PICK m \in 0 .. MaxToken : order \in [1 .. m -> Recipients(g, exclude)]
    BY DEF Orders
  <1>3. n \in Nat /\ lastId \in Nat /\ lastId + n <= MaxMsg /\ lastId' = lastId + n
    BY <1>1, <1>2, TimeAssumption, MailAssumption DEF FramesInv, NetInv, MailInv, MailType
  <1>4. sock' = sock
    BY DEF Announce
  <1>5. messages' = [j \in Sent \cup (lastId + 1 .. lastId + n) |->
          IF j > lastId THEN NewMessage(DeckToken, order[j - lastId], g) ELSE messages[j]]
    BY <1>1
  <1>6. \A c \in Conns :
          wire'[c] = IF pushed(c) = {} THEN wire[c]
                     ELSE Append(wire[c], lastId + (CHOOSE k \in pushed(c) : TRUE))
    BY <1>1
  <1> HIDE DEF n, pushed
  <1>7. \A j \in Sent : j \in Nat /\ j <= lastId
    BY MailAssumption DEF FramesInv, NetInv, MailInv, MailType, MessagesHaveRows, MsgIds
  <1>8. /\ DOMAIN messages' = Sent \cup (lastId + 1 .. lastId + n)
        /\ \A j \in Sent : messages'[j] = messages[j]
    BY <1>3, <1>5, <1>7
  <1>9. Keeps(messages, messages', lastId)
    BY <1>3, <1>7, <1>8 DEF Keeps, Sent
  <1>10. \A k \in 1 .. n : /\ lastId + k \in DOMAIN messages' /\ lastId + k \in MsgIds
                           /\ messages'[lastId + k].to = order[k]
                           /\ messages'[lastId + k].age = 0
    <2> SUFFICES ASSUME NEW k \in 1 .. n
                 PROVE  /\ lastId + k \in DOMAIN messages' /\ lastId + k \in MsgIds
                        /\ messages'[lastId + k].to = order[k]
                        /\ messages'[lastId + k].age = 0
      OBVIOUS
    <2> DEFINE i == lastId + k
    <2>1. i \in lastId + 1 .. lastId + n /\ i > lastId /\ i - lastId = k /\ i \in MsgIds
      BY <1>3, MailAssumption DEF MsgIds
    <2> HIDE DEF i
    <2>2. messages'[i] = NewMessage(DeckToken, order[k], g)
      BY <1>5, <2>1
    <2> QED BY <1>8, <2>1, <2>2 DEF NewMessage, i
  <1>11. \A j \in DOMAIN messages' : messages'[j].age \in Nat
    BY TimeAssumption DEF NetInv, MailInv, MailType, Sent, MsgRow, Ages
  <1>12. \A c \in Conns : wire[c] \in Seq(MsgIds) /\ Flow(wire[c], sock[c], messages, lastId)
    BY DEF FramesInv, NetInv, NetType, Frames
  <1>13. ASSUME NEW c \in Conns PROVE Flow(wire'[c], sock'[c], messages', lastId')
    <2>1. CASE pushed(c) = {}
      <3>1. wire'[c] = wire[c] /\ sock'[c] = sock[c] /\ lastId' \in Nat /\ lastId <= lastId'
        BY <1>3, <1>4, <1>6, <2>1
      <3> QED BY <1>3, <1>9, <1>12, <3>1, FlowKept
    <2>2. CASE pushed(c) # {}
      <3> DEFINE k == CHOOSE k \in pushed(c) : TRUE
                 i == lastId + k
      <3>1. wire'[c] = Append(wire[c], i)
        BY <1>6, <2>2
      <3>2. k \in pushed(c)
        BY <2>2
      <3> HIDE DEF k
      <3>3. k \in 1 .. n /\ order[k] \in DOMAIN pool /\ pool[order[k]] = c
            /\ sock[c].state = "open"
        BY <3>2 DEF pushed, Reachable
      <3>4. order[k] = sock[c].token /\ sock[c].token # NoToken
        BY <3>3, TimeAssumption
           DEF FramesInv, NetInv, NetType, PoolAuthenticated, Tokens, NoToken, DeckToken
      <3>5. i \in MsgIds /\ i \in DOMAIN messages' /\ messages'[i].to = sock[c].token
            /\ messages'[i].age = 0
        BY <1>10, <3>3, <3>4
      <3>6. lastId < i /\ i <= lastId' /\ lastId' \in Nat
        BY <1>3, <3>3
      <3> HIDE DEF i
      <3> QED BY <1>3, <1>4, <1>9, <1>11, <1>12, <3>1, <3>3, <3>4, <3>5, <3>6, FlowAppend
    <2> QED BY <2>1, <2>2
  <1> QED BY <1>13 DEF Frames

\* What happens to one socket leaves its wire in order.
LEMMA FramesSockets ==
  ASSUME FramesInv, NetInv', NEW c \in Conns
  PROVE  /\ \A p \in Procs : OpenWs(p, c) => Frames'
         /\ WsAuth(c) => Frames'
         /\ ClientClose(c) => Frames'
         /\ BrokerClose(c) => Frames'
         /\ Receive(c) => Frames'
  <1> DEFINE Others == \A d \in Conns \ {c} : wire'[d] = wire[d] /\ sock'[d] = sock[d]
             Same == UNCHANGED <<messages, lastId>>
  <1>1. /\ sock \in [Conns -> Sock] /\ wire \in [Conns -> Seq(MsgIds)] /\ lastId \in Nat
        /\ \A d \in Conns : Flow(wire[d], sock[d], messages, lastId)
    BY MailAssumption DEF FramesInv, NetInv, NetType, MailInv, MailType, Frames
  <1>2. ASSUME Same, Others, Flow(wire'[c], sock'[c], messages, lastId) PROVE Frames'
    BY <1>1, <1>2 DEF Frames
  <1>3. ASSUME NEW p \in Procs, OpenWs(p, c) PROVE Frames'
    <2>1. Same /\ Others /\ wire' = wire /\ sock[c].state = "closed"
      BY <1>1, <1>3 DEF OpenWs, mail
    <2>2. wire'[c] = <<>>
      BY <1>1, <2>1 DEF Flow
    <2> QED BY <1>2, <2>1, <2>2, FlowEmpty
  <1>4. ASSUME WsAuth(c) PROVE Frames'
    <2> DEFINE t == sock[c].claim
    <2>1. Same /\ sock[c].token = NoToken
      BY <1>4 DEF WsAuth, mail
    <2>2. wire[c] = <<>>
      BY <1>1, <2>1 DEF Flow
    <2>3. CASE t \in Rows /\ peers[t].status = "active"
      <3>1. PICK w \in Replays(t) :
              wire' = IF sock[c].state = "open" THEN [wire EXCEPT ![c] = w] ELSE wire
        BY <1>4, <2>3 DEF WsAuth
      <3>2. sock' = [sock EXCEPT ![c].token = t]
        BY <1>4, <2>3 DEF WsAuth
      <3>3. sock'[c].token = t /\ sock'[c].state = sock[c].state
        BY <1>1, <3>2 DEF Sock
      <3>4. t # NoToken
        BY <2>3, TimeAssumption
           DEF FramesInv, NetInv, MailInv, Directory, TypeOK, Tokens, NoToken, DeckToken
      <3>5. Others
        BY <1>1, <3>1, <3>2
      <3>6. CASE sock[c].state = "open"
        <4>1. wire'[c] = w
          BY <1>1, <3>1, <3>6
        <4>2. MailInv
          BY DEF FramesInv, NetInv
        <4>3. Flow(w, sock'[c], messages, lastId)
          BY <3>3, <3>4, <3>6, <4>2, FlowReplay
        <4> QED BY <1>2, <2>1, <3>5, <4>1, <4>3
      <3>7. CASE sock[c].state # "open"
        <4>1. wire'[c] = <<>>
          BY <2>2, <3>1, <3>7
        <4> QED BY <1>2, <2>1, <3>5, <4>1, FlowEmpty
      <3> QED BY <3>6, <3>7
    <2>4. CASE ~(t \in Rows /\ peers[t].status = "active")
      <3>1. sock' = [sock EXCEPT ![c] = ClosedSock] /\ wire' = wire
        BY <1>4, <2>4 DEF WsAuth
      <3>2. Others /\ wire'[c] = <<>>
        BY <1>1, <2>2, <3>1
      <3> QED BY <1>2, <2>1, <3>2, FlowEmpty
    <2> QED BY <2>3, <2>4
  <1>5. ASSUME ClientClose(c) \/ BrokerClose(c) PROVE Frames'
    <2>1. Same /\ Others /\ wire'[c] = <<>>
      BY <1>1, <1>5 DEF ClientClose, BrokerClose, mail
    <2> QED BY <1>2, <2>1, FlowEmpty
  <1>6. ASSUME Receive(c) PROVE Frames'
    <2>1. Same /\ Others /\ wire[c] # <<>> /\ wire'[c] = Tail(wire[c]) /\ sock' = sock
      BY <1>1, <1>6 DEF Receive
    <2>2. Flow(Tail(wire[c]), sock[c], messages, lastId)
      BY <1>1, <2>1, FlowTail
    <2> QED BY <1>2, <2>1, <2>2
  <1> QED BY <1>3, <1>4, <1>5, <1>6

\* At the start nothing is in flight.
LEMMA FramesInit == InitB => FramesInv
  <1> SUFFICES ASSUME InitB PROVE FramesInv
    OBVIOUS
  <1>1. \A c \in Conns : wire[c] = <<>>
    BY DEF InitB
  <1>2. Frames
    BY <1>1, FlowEmpty DEF Frames
  <1> QED BY <1>2, NetInit DEF FramesInv

\* Frames stay in order through every step.
LEMMA FramesStep == FramesInv /\ [NextB]_brokerVars => FramesInv'
  <1> SUFFICES ASSUME FramesInv, [NextB]_brokerVars PROVE Frames'
    BY NetStep DEF FramesInv
  <1>1. NetInv /\ NetInv' /\ MailInv
    BY NetStep DEF FramesInv, NetInv
  <1>2. /\ sock \in [Conns -> Sock] /\ wire \in [Conns -> Seq(MsgIds)] /\ lastId \in Nat
        /\ messages \in [Sent -> MsgRow]
    BY <1>1, MailAssumption DEF NetInv, NetType, MailInv, MailType
  <1>3. ASSUME UNCHANGED net, lastId' = lastId, Keeps(messages, messages', lastId)
        PROVE  Frames'
    BY <1>1, <1>2, <1>3, FramesKept DEF net
  <1>4. ASSUME UNCHANGED net, UNCHANGED mail PROVE Frames'
    <2>1. Keeps(messages, messages', lastId)
      BY <1>1, <1>4, KeepsSame DEF mail, Sent
    <2> QED BY <1>3, <1>4, <2>1 DEF mail
  <1>5. ASSUME NEW S, messages' = Without(messages, S)
        PROVE  Keeps(messages, messages', lastId)
    <2>1. DOMAIN messages' \subseteq Sent /\ \A i \in DOMAIN messages' : messages'[i] = messages[i]
      BY <1>5 DEF Without, Sent
    <2> QED BY <1>1, <2>1, KeepsSame
  <1>6. CASE UNCHANGED brokerVars
    BY <1>4, <1>6 DEF brokerVars
  <1>7. ASSUME NEW p \in Procs, RegisterOrRename(p) PROVE Frames'
    BY <1>4, <1>7 DEF RegisterOrRename
  <1>8. ASSUME NEW p \in Procs, UnregisterB(p) PROVE Frames'
    BY <1>3, <1>5, <1>8 DEF UnregisterB
  <1>9. ASSUME NEW p \in Procs, PollMessages(p) PROVE Frames'
    <2>1. messages' = [i \in Sent |-> IF i \in Pending(held[p])
                                     THEN [messages[i] EXCEPT !.delivered = TRUE]
                                     ELSE messages[i]]
      BY <1>9 DEF PollMessages
    <2>2. \A i \in Sent : messages[i] \in MsgRow
      BY <1>2
    <2>3. \A i \in Sent : messages'[i].to = messages[i].to /\ messages'[i].age = messages[i].age
      BY <2>1, <2>2 DEF MsgRow
    <2>4. Keeps(messages, messages', lastId)
      BY <1>1, <2>1, <2>3, KeepsSame
    <2> QED BY <1>3, <1>9, <2>4 DEF PollMessages
  <1>10. ASSUME NEW p \in Procs, ExitB(p) PROVE Frames'
    <2>1. /\ sock' = [c \in Conns |-> IF sock[c].proc = p /\ sock[c].state = "open"
                                     THEN [sock[c] EXCEPT !.state = "half"] ELSE sock[c]]
          /\ wire' = [c \in Conns |-> IF sock[c].proc = p THEN <<>> ELSE wire[c]]
          /\ UNCHANGED mail
      BY <1>10 DEF ExitB
    <2>2. \A c \in Conns : wire'[c] = <<>> \/ (wire'[c] = wire[c] /\ sock'[c] = sock[c])
      BY <2>1
    <2>3. Keeps(messages, messages', lastId) /\ lastId' = lastId
      BY <1>1, <2>1, KeepsSame DEF mail, Sent
    <2> QED BY <1>1, <1>2, <2>2, <2>3, FramesKept
  <1>11. ASSUME CleanStalePeersB \/ PurgeOldMessages PROVE Frames'
    BY <1>3, <1>5, <1>11 DEF CleanStalePeersB, PurgeOldMessages
  <1>12. ASSUME SweepInactivePeersB PROVE Frames'
    BY <1>4, <1>12 DEF SweepInactivePeersB
  <1>13. ASSUME Restart PROVE Frames'
    <2>1. wire' = [c \in Conns |-> <<>>]
      BY <1>13 DEF Restart
    <2> QED BY <2>1, FlowEmpty DEF Frames
  <1>14. ASSUME TickB PROVE Frames'
    <2>1. messages' = [i \in Sent |-> [messages[i] EXCEPT !.age = Older(@)]]
      BY <1>14 DEF TickB
    <2>2. \A i \in Sent : messages[i] \in MsgRow
      BY <1>2
    <2>3. \A i \in Sent : messages'[i].to = messages[i].to /\ messages'[i].age = Older(messages[i].age)
      BY <2>1, <2>2 DEF MsgRow
    <2>4. \A a, b \in Ages : a >= b => Older(a) >= Older(b)
      BY TimeAssumption DEF Ages, Older
    <2>5. \A i \in Sent : messages[i].age \in Ages
      BY <2>2 DEF MsgRow
    <2>6. DOMAIN messages' = Sent
      BY <2>1
    <2> HIDE DEF MsgRow
    <2>7. Keeps(messages, messages', lastId)
      BY <2>3, <2>4, <2>5, <2>6 DEF Keeps, Sent
    <2> QED BY <1>3, <1>14, <2>7 DEF TickB
  <1>15. ASSUME NEW p \in Procs, NEW name \in PeerIds, SendMessage(p, name) PROVE Frames'
    BY <1>1, <1>15, FramesSend
  <1>16. ASSUME NEW cr \in Credentials, NEW exclude, Announce(cr[1], cr[2], exclude)
         PROVE  Frames'
    BY <1>1, <1>16, FramesAnnounce
  <1> QED BY <1>1, <1>6, <1>7, <1>8, <1>9, <1>10, <1>11, <1>12, <1>13, <1>14, <1>15, <1>16,
             FramesSockets DEF NextB

-----------------------------------------------------------------------------
(* The replayed backlog *)

\* A list of n different members of a set with n of them has them all.
LEMMA AllListed ==
  ASSUME NEW R, IsFiniteSet(R), NEW n \in Nat, n = Cardinality(R),
         NEW s \in [1 .. n -> R], Distinct(s), NEW i \in R
  PROVE  \E k \in DOMAIN s : s[k] = i
  <1> SUFFICES ASSUME \A k \in DOMAIN s : s[k] # i PROVE FALSE
    OBVIOUS
  <1>1. s \in [1 .. n -> R \ {i}]
    OBVIOUS
  <1>2. IsFiniteSet(R \ {i}) /\ Cardinality(R \ {i}) = n - 1
    BY FS_RemoveElement
  <1>3. IsFiniteSet(1 .. n) /\ Cardinality(1 .. n) = n
    BY FS_Interval
  <1>4. Cardinality(R \ {i}) < Cardinality(1 .. n)
    BY <1>2, <1>3
  <1>5. \E j, k \in 1 .. n : j # k /\ s[j] = s[k]
    BY <1>1, <1>2, <1>3, <1>4, FS_PigeonHole
  <1> QED BY <1>5 DEF Distinct

\* What a replay leaves out is too old, or older than a full replay.
LEMMA LeftOut ==
  ASSUME MailInv, NEW t, NEW s \in Replays(t), NEW i \in Pending(t),
         \A k \in DOMAIN s : s[k] # i
  PROVE  \/ messages[i].age > FlushMaxAge
         \/ Len(s) = FlushMaxCount /\ \A k \in DOMAIN s : Age(s[k]) <= Age(i)
  <1> DEFINE R == Recent(t)
             C == Cardinality(R)
             n == Min({FlushMaxCount, C})
  <1>1. i \in Sent /\ messages[i] \in MsgRow /\ messages[i].age \in Ages
    BY DEF MailInv, MailType, Pending, Sent, MsgRow
  <1>2. CASE i \notin R
    <2>1. TextBefore(messages[i].age, FlushMaxAge)
      BY <1>2 DEF Recent
    <2>2. tod \in 0 .. Day - 1
      BY DEF MailInv, Directory, TypeOK
    <2> QED BY <1>1, <2>1, <2>2, DaysMonotone, MailAssumption DEF TextBefore
  <1>3. CASE i \in R
    <2>1. IsFiniteSet(R) /\ C \in Nat
      <3>1. R \subseteq MsgIds
        BY DEF Recent, Pending, MailInv, MailType
      <3>2. IsFiniteSet(MsgIds)
        BY FS_Interval, MailAssumption DEF MsgIds
      <3>3. IsFiniteSet(R)
        BY <3>1, <3>2, FS_Subset
      <3> QED BY <3>3, FS_CardinalityType
    <2>2. s \in [1 .. n -> R] /\ Distinct(s)
      BY DEF Replays, Chosen
    <2>3. \A k \in DOMAIN s : Age(i) >= Age(s[k])
      BY <1>3 DEF Replays, Range
    <2> HIDE DEF R
    <2>4. n = FlushMaxCount \/ n = C
      <3> HIDE DEF C
      <3>1. \E x \in {FlushMaxCount, C} : \A y \in {FlushMaxCount, C} : x <= y
        BY <2>1, MailAssumption
      <3> QED BY <3>1 DEF Min
    <2>5. n # C
      <3> SUFFICES ASSUME n = C PROVE FALSE
        OBVIOUS
      <3>1. s \in [1 .. C -> R]
        BY <2>2
      <3> QED BY <1>3, <2>1, <2>2, <3>1, AllListed
    <2>6. n = FlushMaxCount
      BY <2>4, <2>5
    <2>7. s \in [1 .. FlushMaxCount -> R]
      BY <2>2, <2>6
    <2>8. Len(s) = FlushMaxCount
      BY <2>7, MailAssumption
    <2>9. \A k \in DOMAIN s : Age(s[k]) <= Age(i)
      <3> SUFFICES ASSUME NEW k \in DOMAIN s PROVE Age(s[k]) <= Age(i)
        OBVIOUS
      <3>1. s[k] \in R
        BY <2>7
      <3>2. Age(s[k]) \in Nat
        BY <3>1 DEF R, Recent, Pending, MailInv, MailType, Sent, MsgRow, Ages, Age
      <3> QED BY <1>1, <2>3, <3>2 DEF Age, Ages
    <2> QED BY <2>8, <2>9
  <1> QED BY <1>2, <1>3

\* What WsAuth puts on the wire of an open socket that it accepts.
LEMMA ReplayOnAuth ==
  ASSUME NetInv, NEW c \in Conns, WsAuth(c), sock'[c].token # NoToken, sock[c].state = "open"
  PROVE  wire'[c] \in Replays(sock'[c].token)
  <1> DEFINE t == sock[c].claim
  <1>1. sock \in [Conns -> Sock] /\ wire \in [Conns -> Seq(MsgIds)]
    BY DEF NetInv, NetType
  <1>2. CASE t \in Rows /\ peers[t].status = "active"
    <2>1. sock' = [sock EXCEPT ![c].token = t]
      BY <1>2 DEF WsAuth
    <2>2. PICK s \in Replays(t) : wire' = [wire EXCEPT ![c] = s]
      BY <1>2 DEF WsAuth
    <2>3. sock'[c].token = t
      BY <1>1, <2>1 DEF Sock
    <2> QED BY <1>1, <2>2, <2>3
  <1>3. CASE ~(t \in Rows /\ peers[t].status = "active")
    <2>1. sock' = [sock EXCEPT ![c] = ClosedSock]
      BY <1>3 DEF WsAuth
    <2> QED BY <1>1, <2>1 DEF ClosedSock
  <1> QED BY <1>2, <1>3

-----------------------------------------------------------------------------
(* Theorems *)

\* Every variable of the broker keeps its type, frames on the wire included.
THEOREM TypeCorrectB == SpecB => []TypeOKB
  <1>1. NetInv => TypeOKB
    BY DEF NetInv, MailInv, Directory, MailType, NetType, TypeOKB
  <1> QED BY <1>1, NetAlways, PTL

\* The foreign keys of the messages table always hold.
THEOREM MessagesCorrect == SpecB => []MessagesHaveRows
  BY NetAlways, PTL DEF NetInv, MailInv

\* No message ever connects two groups.
THEOREM GroupsSeparate == SpecB => []MailStaysInGroup
  BY NetAlways, PTL DEF NetInv, MailInv

\* The pool only leads to open sockets that authenticated for the token.
THEOREM PoolCorrect == SpecB => []PoolAuthenticated
  BY NetAlways, PTL DEF NetInv

\* On every connection the frames in flight are those of the peer that authenticated for it,
\* oldest first, none twice, whatever is replayed, pushed and purged meanwhile.
THEOREM FramesCorrect == SpecB => []FramesInOrder
  <1>1. FramesInv => FramesInOrder
    <2> SUFFICES ASSUME FramesInv, NEW c \in Conns
                 PROVE  /\ \A k \in 1 .. Len(wire[c]) :
                             wire[c][k] \in Sent => messages[wire[c][k]].to = sock[c].token
                        /\ Distinct(wire[c])
                        /\ \A j, k \in 1 .. Len(wire[c]) :
                             j < k /\ {wire[c][j], wire[c][k]} \subseteq Sent =>
                               Age(wire[c][j]) >= Age(wire[c][k])
      BY DEF FramesInOrder
    <2> QED BY DEF FramesInv, Frames, Flow, Sent, Age
  <1> QED BY <1>1, FramesInit, FramesStep, PTL DEF SpecB

\* A peer whose socket authenticates is sent all that waits for it and is not too old, or the
\* newest part of it up to the cap.
THEOREM BacklogCorrect == SpecB => BacklogReplayed
  <1> DEFINE Sound ==
        \A c \in Conns :
          WsAuth(c) /\ sock'[c].token # NoToken /\ sock[c].state = "open" =>
            \A i \in Pending(sock'[c].token) :
              \/ \E k \in DOMAIN wire'[c] : wire'[c][k] = i
              \/ messages[i].age > FlushMaxAge
              \/ /\ Len(wire'[c]) = FlushMaxCount
                 /\ \A k \in DOMAIN wire'[c] : Age(wire'[c][k]) <= Age(i)
  <1>1. NetInv => Sound
    <2> SUFFICES ASSUME NetInv, NEW c \in Conns, WsAuth(c), sock'[c].token # NoToken,
                        sock[c].state = "open",
                        NEW i \in Pending(sock'[c].token),
                        \A k \in DOMAIN wire'[c] : wire'[c][k] # i
                 PROVE  \/ messages[i].age > FlushMaxAge
                        \/ /\ Len(wire'[c]) = FlushMaxCount
                           /\ \A k \in DOMAIN wire'[c] : Age(wire'[c][k]) <= Age(i)
      OBVIOUS
    <2>1. wire'[c] \in Replays(sock'[c].token)
      BY ReplayOnAuth
    <2> QED BY <2>1, LeftOut DEF NetInv
  <1>2. SpecB => [][Sound]_brokerVars
    BY <1>1, NetAlways, PTL
  <1> QED BY <1>2 DEF BacklogReplayed

-----------------------------------------------------------------------------
(* Broker implements Mailbox *)

\* The abstract mailbox, entry by entry, before and after a step.
LEMMA View ==
  /\ DOMAIN RowGroups = Rows /\ \A t \in Rows : RowGroups[t] = peers[t].group
  /\ DOMAIN RowGroups' = Rows' /\ \A t \in Rows' : RowGroups'[t] = peers'[t].group
  /\ DOMAIN Letters = Sent /\ DOMAIN Letters' = Sent'
  /\ \A i \in Sent : Letters[i] =
       [from |-> messages[i].from, to |-> messages[i].to,
        read |-> messages[i].delivered, age |-> AgeClass(messages[i].age)]
  /\ \A i \in Sent' : Letters'[i] =
       [from |-> messages'[i].from, to |-> messages'[i].to,
        read |-> messages'[i].delivered, age |-> AgeClass(messages'[i].age)]
  BY DEF RowGroups, Letters, AgeClass

\* What does not change what can be seen of the mailbox is a stuttering step of it.
LEMMA Unseen ==
  ASSUME Rows' = Rows, \A t \in Rows : peers'[t].group = peers[t].group,
         UNCHANGED <<messages, lastId>>
  PROVE  UNCHANGED Mailboxes!vars
  <1>1. RowGroups' = RowGroups
    BY DEF RowGroups
  <1>2. Letters' = Letters
    BY DEF Letters, Sent, AgeClass
  <1> QED BY <1>1, <1>2 DEF Mailboxes!vars

\* /register: a new row is a new member.
LEMMA RegisteringJoins ==
  ASSUME MailInv, NEW p \in Procs, RegisterOrRename(p)
  PROVE  [Mailboxes!Next]_(Mailboxes!vars)
  <1> USE DEF MailInv
  <1>1. Next /\ Rows \subseteq Rows' /\ UNCHANGED <<messages, lastId>>
    BY RowsKept DEF RegisterOrRename, mail
  <1>2. \A t \in Rows : peers'[t].group = peers[t].group
    BY <1>1, GroupKept
  <1>3. CASE Rows' = Rows
    BY <1>1, <1>2, <1>3, Unseen
  <1>4. CASE Rows' # Rows
    <2>1. PICK c \in Credentials, id \in PeerIds : RegisterNew(p, c[1], c[2], id)
      BY <1>4 DEF RegisterOrRename, RegisterDenied, Resurrect, Heartbeat, Disconnect, SetId,
                  Start, tables, Rows
    <2>2. ~(Key(p, c[1]) \in DOMAIN sessions /\ sessions[Key(p, c[1])] \notin Rows)
      BY SessionRow
    <2>3. /\ peers' = Insert(peers, minted + 1, NewRow(p, c[1], id))
          /\ minted < MaxToken
      BY <1>4, <2>1, <2>2 DEF RegisterNew, Rows
    <2> DEFINE m == minted + 1
    <2>4. /\ Rows' = Rows \cup {m} /\ m \notin Rows
          /\ peers'[m].group = c[1]
      BY <1>4, <2>3 DEF Insert, Rows, NewRow
    <2>5. m \in Tokens /\ c[1] \in Groups
      <3>1. minted \in Nat
        BY DEF Directory, TypeOK, Tokens, DeckToken
      <3>2. m \in Tokens
        BY <2>3, <3>1, TimeAssumption DEF Tokens, DeckToken
      <3> QED BY <3>2, GroupAssumption
    <2> HIDE DEF m
    <2>6. RowGroups' = [x \in DOMAIN RowGroups \cup {m} |->
                          IF x = m THEN c[1] ELSE RowGroups[x]]
      BY <1>2, <2>4 DEF RowGroups
    <2>7. Letters' = Letters
      BY <1>1 DEF Letters, Sent, AgeClass
    <2>8. m \notin DOMAIN RowGroups
      BY <2>4, View
    <2>9. Mailboxes!Join
      BY <1>1, <2>5, <2>6, <2>7, <2>8 DEF Mailboxes!Join
    <2> QED BY <2>9 DEF Mailboxes!Next
  <1> QED BY <1>3, <1>4

\* Deletions: rows go with their mail, and
\* what goes without has been pending for the whole limit.
LEMMA DeletionsClear ==
  ASSUME MailInv, [Next]_registryVars, NEW S, Rows' = Rows \ S, DeckToken \notin S,
         NEW extra \in {{}, Lapsed},
         messages' = Without(messages, MailOf(S) \cup extra), lastId' = lastId
  PROVE  Mailboxes!Clear
  <1> USE DEF MailInv
  <1> DEFINE left == {i \in DOMAIN Letters :
                        {Letters[i].from, Letters[i].to} \subseteq DOMAIN RowGroups'}
  <1>1. /\ Sent' = Sent \ (MailOf(S) \cup extra)
        /\ \A i \in Sent' : messages'[i] = messages[i]
    BY DEF Without, MailOf, Sent
  <1>2. DeckToken \in Rows'
    BY DEF Directory, DeckRowReserved
  <1>3. \A t \in Rows' : RowGroups'[t] = RowGroups[t]
    <2>1. CASE Next
      BY <2>1, View, GroupKept
    <2>2. CASE UNCHANGED registryVars
      <3>1. peers' = peers
        BY <2>2 DEF registryVars, tables
      <3> QED BY <3>1, View
    <2> QED BY <2>1, <2>2
  <1>4. \A i \in Sent : Letters[i].from = messages[i].from /\ Letters[i].to = messages[i].to
    BY View
  <1>5. left = Sent \ MailOf(S)
    BY <1>4, View DEF MailOf, MessagesHaveRows
  <1>6. ASSUME NEW i \in Sent' PROVE Letters'[i] = Letters[i]
    <2>1. i \in Sent /\ messages'[i] = messages[i]
      BY <1>1
    <2> QED BY <2>1, View
  <1>7. ASSUME NEW i \in left \ Sent'
        PROVE  ~Letters[i].read /\ Letters[i].age = "overdue"
    <2>1. i \in Sent /\ i \in Lapsed
      BY <1>1, <1>5
    <2>2. ~messages[i].delivered /\ TextBefore(messages[i].age, MessageTTL)
      BY <2>1 DEF Lapsed
    <2>3. messages[i].age \in Ages
      BY <2>1 DEF MailType, MsgRow
    <2>4. messages[i].age > MessageTTL
      BY <2>2, <2>3, DaysMonotone, MailAssumption DEF TextBefore, Directory, TypeOK
    <2>5. AgeClass(messages[i].age) = "overdue"
      BY <2>3, <2>4, MailAssumption DEF AgeClass, Ages
    <2> QED BY <2>1, <2>2, <2>5, View
  <1> HIDE DEF left
  <1>8. Sent' \subseteq left
    BY <1>1, <1>5
  <1> QED BY <1>2, <1>3, <1>6, <1>7, <1>8, View DEF Mailboxes!Clear, left

\* The timers and the start of the daemon, the purge of old mail alone, and /unregister.
LEMMA TimersClear ==
  ASSUME MailInv, CleanStalePeersB \/ Restart
  PROVE  Mailboxes!Clear
  <1> DEFINE S == {t \in Rows : Expired(t)}
  <1>1. Rows' = Rows \ S /\ Next /\ DeckToken \notin S
    BY DEF CleanStalePeersB, Restart, CleanStalePeers, DeleteRows, Without, Rows, Next, Expired
  <1>2. PICK extra \in {{}, Lapsed} : messages' = Without(messages, MailOf(S) \cup extra)
    BY DEF CleanStalePeersB, Restart
  <1>3. lastId' = lastId
    BY DEF CleanStalePeersB, Restart
  <1> HIDE DEF S
  <1> QED BY <1>1, <1>2, <1>3, DeletionsClear

\* The classes of the ages that a message can have.
LEMMA ClassOfAge ==
  ASSUME NEW age \in Ages
  PROVE  AgeClass(age) \in Mailboxes!Ages
  BY DEF AgeClass, Mailboxes!Ages

\* Letters as records of the mailbox: just sent, and marked as read.
LEMMA LetterFields ==
  ASSUME NEW m, NEW to, NEW letter,
         letter = [from |-> m, to |-> to, read |-> FALSE, age |-> "now"]
  PROVE  /\ letter.from = m /\ letter.to = to
         /\ ~letter.read /\ letter.age = "now"
  OBVIOUS

\* A message that is marked is a letter that has been read.
LEMMA ReadLetter ==
  ASSUME NEW from \in Tokens, NEW to \in Tokens, NEW read \in BOOLEAN,
         NEW age \in Mailboxes!Ages, NEW letter, NEW readLetter,
         letter = [from |-> from, to |-> to, read |-> read, age |-> age],
         readLetter = [from |-> from, to |-> to, read |-> TRUE, age |-> age]
  PROVE  readLetter = Mailboxes!Read(letter)
  <1>1. letter \in Mailboxes!Letter /\ readLetter \in Mailboxes!Letter
    BY DEF Mailboxes!Letter
  <1>2. /\ letter.from = readLetter.from /\ letter.to = readLetter.to
        /\ letter.age = readLetter.age /\ readLetter.read = TRUE
    OBVIOUS
  <1> QED BY <1>1, <1>2 DEF Mailboxes!Letter, Mailboxes!Read

\* Setting the delivered column reads the letter.
LEMMA ReadIs ==
  ASSUME NEW i \in Sent, i \in Sent', messages[i] \in MsgRow,
         messages'[i] = [messages[i] EXCEPT !.delivered = TRUE]
  PROVE  Letters'[i] = Mailboxes!Read(Letters[i])
  <1>1. /\ messages'[i].from = messages[i].from /\ messages'[i].to = messages[i].to
        /\ messages'[i].delivered = TRUE /\ messages'[i].age = messages[i].age
    BY DEF MsgRow
  <1>2. /\ Letters[i] = [from |-> messages[i].from, to |-> messages[i].to,
                         read |-> messages[i].delivered, age |-> AgeClass(messages[i].age)]
        /\ Letters'[i] = [from |-> messages'[i].from, to |-> messages'[i].to,
                          read |-> messages'[i].delivered,
                          age |-> AgeClass(messages'[i].age)]
    BY View
  <1>3. Letters'[i] = [from |-> messages[i].from, to |-> messages[i].to,
                       read |-> TRUE, age |-> AgeClass(messages[i].age)]
    BY <1>1, <1>2, Zenon
  <1>4. /\ messages[i].from \in Tokens /\ messages[i].to \in Tokens
        /\ messages[i].delivered \in BOOLEAN /\ messages[i].age \in Ages
    BY DEF MsgRow
  <1>5. AgeClass(messages[i].age) \in Mailboxes!Ages
    BY <1>4, ClassOfAge
  <1> QED BY <1>2, <1>3, <1>4, <1>5, ReadLetter

\* What a sender's step must do to messages to be a Send of the mailbox.
LEMMA Sends ==
  ASSUME MailInv, UNCHANGED registryVars,
         NEW m \in Rows, NEW g \in Groups, m = DeckToken \/ peers[m].group = g,
         lastId' \in Nat, lastId' > lastId, Sent' = Sent \cup (lastId + 1 .. lastId'),
         \A i \in lastId + 1 .. lastId' :
           /\ messages'[i] \in MsgRow /\ messages'[i].from = m
           /\ ~messages'[i].delivered /\ messages'[i].age = 0
           /\ messages'[i].to \in Rows \ {DeckToken} /\ peers[messages'[i].to].group = g,
         \A i, j \in lastId + 1 .. lastId' : messages'[i].to = messages'[j].to => i = j,
         \A i \in Sent :
           \/ messages'[i] = messages[i]
           \/ /\ messages[i].to = m /\ ~messages[i].delivered /\ messages[i].age > 0
              /\ messages'[i] = [messages[i] EXCEPT !.delivered = TRUE]
  PROVE  Mailboxes!Send(m)
  <1> USE DEF MailInv
  <1> DEFINE new == lastId + 1 .. lastId'
  <1>1. RowGroups' = RowGroups
    BY DEF RowGroups, registryVars, tables, Rows
  <1>2. AgeClass(0) = "now" /\ \A a \in Ages : a > 0 => AgeClass(a) # "now"
    BY MailAssumption DEF AgeClass, Ages
  <1>3. new \subseteq Sent'
    OBVIOUS
  <1> HIDE DEF new
  <1>4. \A i \in new :
          Letters'[i] = [from |-> m, to |-> messages'[i].to, read |-> FALSE, age |-> "now"]
    <2> SUFFICES ASSUME NEW i \in new
                 PROVE  Letters'[i] = [from |-> m, to |-> messages'[i].to, read |-> FALSE,
                                       age |-> "now"]
      OBVIOUS
    <2>1. messages'[i].delivered = FALSE
      BY DEF new, MsgRow
    <2>2. messages'[i].from = m /\ AgeClass(messages'[i].age) = "now"
      BY <1>2 DEF new
    <2>3. Letters'[i] = [from |-> messages'[i].from, to |-> messages'[i].to,
                         read |-> messages'[i].delivered, age |-> AgeClass(messages'[i].age)]
      BY <1>3, View
    <2> QED BY <2>1, <2>2, <2>3, Zenon
  <1>5. \A i \in new : Letters'[i] \in Mailboxes!Letter
    <2>1. \A i \in new : messages'[i].to \in Tokens /\ m \in Tokens
      BY DEF new, Directory, TypeOK
    <2>2. ASSUME NEW to \in Tokens, m \in Tokens
          PROVE  [from |-> m, to |-> to, read |-> FALSE, age |-> "now"] \in Mailboxes!Letter
      BY <2>2 DEF Mailboxes!Letter, Mailboxes!Ages
    <2> QED BY <1>4, <2>1, <2>2, Zenon
  <1>6. \A i \in new : /\ messages'[i].to \in DOMAIN RowGroups \ {DeckToken}
                       /\ RowGroups[messages'[i].to] = g
    BY View DEF new
  <1>7. \A i \in Sent :
          \/ Letters'[i] = Letters[i]
          \/ /\ i \in Mailboxes!Waiting(m) /\ Letters[i].age # "now"
             /\ Letters'[i] = Mailboxes!Read(Letters[i])
    <2> SUFFICES ASSUME NEW i \in Sent
                 PROVE  \/ Letters'[i] = Letters[i]
                        \/ /\ i \in Mailboxes!Waiting(m) /\ Letters[i].age # "now"
                           /\ Letters'[i] = Mailboxes!Read(Letters[i])
      OBVIOUS
    <2>1. i \in Sent' /\ messages[i] \in MsgRow
      BY DEF MailType
    <2>2. CASE messages'[i] = messages[i]
      BY <2>1, <2>2, View
    <2>3. CASE /\ messages[i].to = m /\ ~messages[i].delivered /\ messages[i].age > 0
               /\ messages'[i] = [messages[i] EXCEPT !.delivered = TRUE]
      <3>1. messages[i].age \in Ages
        BY <2>1 DEF MsgRow
      <3>2. Letters[i].age # "now"
        BY <2>3, <3>1, <1>2, View
      <3>3. i \in Mailboxes!Waiting(m)
        BY <2>3, View DEF Mailboxes!Waiting
      <3> QED BY <2>1, <2>3, <3>2, <3>3, ReadIs
    <2> QED BY <2>2, <2>3
  <1>8. m = DeckToken \/ RowGroups[m] = g
    BY View
  <1>9. \A i \in new : /\ Letters'[i].from = m /\ Letters'[i].to = messages'[i].to
                       /\ ~Letters'[i].read /\ Letters'[i].age = "now"
    <2> SUFFICES ASSUME NEW i \in new
                 PROVE  /\ Letters'[i].from = m /\ Letters'[i].to = messages'[i].to
                        /\ ~Letters'[i].read /\ Letters'[i].age = "now"
      OBVIOUS
    <2> DEFINE letter == Letters'[i]
               to == messages'[i].to
    <2>1. letter = [from |-> m, to |-> to, read |-> FALSE, age |-> "now"]
      BY <1>4
    <2> HIDE DEF letter, to
    <2>2. /\ letter.from = m /\ letter.to = to
          /\ ~letter.read /\ letter.age = "now"
      BY <2>1, LetterFields
    <2> QED BY <2>2 DEF letter, to
  <1>10. m \in DOMAIN RowGroups /\ DOMAIN Letters' = DOMAIN Letters \cup new
    BY View DEF new
  <1>11. \E h \in IF m = DeckToken THEN Groups ELSE {RowGroups[m]} :
           \A i \in new : /\ Letters'[i].to \in DOMAIN RowGroups \ {DeckToken}
                          /\ RowGroups[Letters'[i].to] = h
    BY <1>6, <1>8, <1>9
  <1>12. \A i, j \in new : Letters'[i].to = Letters'[j].to => i = j
    BY <1>9 DEF new
  <1> QED BY <1>1, <1>5, <1>7, <1>9, <1>10, <1>11, <1>12, View DEF Mailboxes!Send, new

\* send_message: what the sender had waiting since an earlier instant counts as read.
LEMMA SendMessageSends ==
  ASSUME MailInv, NEW p \in Procs, NEW name \in PeerIds, SendMessage(p, name)
  PROVE  Mailboxes!Send(held[p])
  <1> USE DEF MailInv
  <1> DEFINE me == held[p]
             g == peers[me].group
             i == lastId + 1
  <1>1. PICK to \in Rows :
          /\ peers[to].group = g /\ peers[to].status = "active"
          /\ messages' = [j \in Sent \cup {i} |->
               IF j = i THEN NewMessage(me, to, g)
               ELSE IF Acked(me, g, messages[j])
                    THEN [messages[j] EXCEPT !.delivered = TRUE] ELSE messages[j]]
    BY DEF SendMessage, Addressed
  <1>2. /\ me \in Rows /\ to # DeckToken
        /\ lastId' = i /\ lastId \in Nat /\ UNCHANGED registryVars
    BY <1>1 DEF SendMessage, Addressed, Directory, DeckRowReserved, MailType
  <1>3. lastId' \in Nat /\ lastId' > lastId /\ lastId + 1 .. lastId' = {i}
    BY <1>2
  <1>4. i \notin Sent /\ Sent' = Sent \cup {i}
    BY <1>1, <1>2 DEF MessagesHaveRows, Sent
  <1>5. me \in Tokens /\ to \in Tokens /\ g \in Groups
    BY <1>2 DEF Directory, TypeOK, Row
  <1>6. NewMessage(me, to, g) \in MsgRow
    BY <1>5, NewMessageType
  <1>7. messages'[i] = NewMessage(me, to, g)
    BY <1>1
  <1>8. /\ NewMessage(me, to, g).from = me /\ NewMessage(me, to, g).to = to
        /\ ~NewMessage(me, to, g).delivered /\ NewMessage(me, to, g).age = 0
    BY DEF NewMessage
  <1>9. ASSUME NEW j \in Sent
        PROVE  \/ messages'[j] = messages[j]
               \/ /\ messages[j].to = me /\ ~messages[j].delivered /\ messages[j].age > 0
                  /\ messages'[j] = [messages[j] EXCEPT !.delivered = TRUE]
    <2>1. messages[j] \in MsgRow
      BY DEF MailType
    <2>2. messages'[j] = IF Acked(me, g, messages[j])
                         THEN [messages[j] EXCEPT !.delivered = TRUE] ELSE messages[j]
      BY <1>1, <1>4
    <2>3. messages[j].delivered => [messages[j] EXCEPT !.delivered = TRUE] = messages[j]
      BY <2>1 DEF MsgRow
    <2> QED BY <2>2, <2>3 DEF Acked
  <1> HIDE DEF me, g, i
  <1>10. peers[me].group = g
    BY DEF g
  <1>11. Mailboxes!Send(me)
    BY <1>1, <1>2, <1>3, <1>4, <1>5, <1>6, <1>7, <1>8, <1>9, <1>10, Sends
  <1> QED BY <1>11 DEF me

\* announce: the Deck's row sends to members of one group.
LEMMA AnnounceSends ==
  ASSUME MailInv, NEW g \in Groups, NEW hash, NEW exclude, Announce(g, hash, exclude)
  PROVE  Mailboxes!Send(DeckToken)
  <1> USE DEF MailInv
  <1>1. PICK order \in Orders(Recipients(g, exclude)) :
          LET n == Len(order)
          IN  /\ lastId + n <= MaxMsg
              /\ messages' = [j \in Sent \cup (lastId + 1 .. lastId + n) |->
                   IF j > lastId THEN NewMessage(DeckToken, order[j - lastId], g)
                   ELSE messages[j]]
              /\ lastId' = lastId + n
    BY DEF Announce
  <1> DEFINE new == lastId + 1 .. lastId'
  <1>2. PICK n \in 0 .. MaxToken :
          /\ order \in [1 .. n -> Recipients(g, exclude)]
          /\ \A t \in Recipients(g, exclude) : \E k \in DOMAIN order : order[k] = t
          /\ \A j, k \in DOMAIN order : order[j] = order[k] => j = k
    BY DEF Orders
  <1>3. Len(order) = n /\ n \in Nat /\ DOMAIN order = 1 .. n
    BY <1>2, TimeAssumption
  <1>4. n > 0
    <2>1. Recipients(g, exclude) # {}
      BY DEF Announce
    <2> QED BY <2>1, <1>2, <1>3
  <1>5. lastId \in Nat /\ UNCHANGED registryVars
    BY DEF Announce, MailType
  <1>6. lastId' \in Nat /\ lastId' > lastId /\ lastId' = lastId + n
    BY <1>1, <1>3, <1>4, <1>5
  <1>7. \A j \in new : j - lastId \in 1 .. n
    BY <1>5, <1>6
  <1>8. \A j \in new : order[j - lastId] \in Recipients(g, exclude)
    BY <1>2, <1>7
  <1>9. \A j \in Sent : ~(j > lastId) /\ j \in Nat
    BY <1>5 DEF MessagesHaveRows, MailType, MsgIds
  <1>10. /\ Sent' = Sent \cup new
         /\ \A j \in Sent : messages'[j] = messages[j]
         /\ \A j \in new : messages'[j] = NewMessage(DeckToken, order[j - lastId], g)
    BY <1>1, <1>3, <1>5, <1>6, <1>9 DEF Sent
  <1>11. DeckToken \in Rows /\ DeckToken \in Tokens
    BY DEF Directory, DeckRowReserved, TypeOK
  <1>12. \A j \in new : /\ order[j - lastId] \in Rows \ {DeckToken}
                        /\ order[j - lastId] \in Tokens
                        /\ peers[order[j - lastId]].group = g
    BY <1>8 DEF Recipients, Directory, TypeOK
  <1>13. \A i, j \in new : order[i - lastId] = order[j - lastId] => i = j
    BY <1>2, <1>3, <1>5, <1>6, <1>7
  <1> HIDE DEF new
  <1>14. ASSUME NEW j \in new
         PROVE  /\ messages'[j] \in MsgRow /\ messages'[j].from = DeckToken
                /\ ~messages'[j].delivered /\ messages'[j].age = 0
                /\ messages'[j].to = order[j - lastId]
    <2>1. messages'[j] = NewMessage(DeckToken, order[j - lastId], g)
      BY <1>10
    <2>2. NewMessage(DeckToken, order[j - lastId], g) \in MsgRow
      BY <1>11, <1>12, NewMessageType
    <2> QED BY <2>1, <2>2 DEF NewMessage
  <1>15. \A i, j \in new : messages'[i].to = messages'[j].to => i = j
    BY <1>13, <1>14
  <1> QED BY <1>5, <1>6, <1>10, <1>11, <1>12, <1>14, <1>15, Sends DEF new

\* The purge of old mail throws overdue letters away.
LEMMA PurgeClears ==
  ASSUME MailInv, PurgeOldMessages
  PROVE  Mailboxes!Clear
  <1>1. UNCHANGED registryVars /\ lastId' = lastId /\ messages' = Without(messages, Lapsed)
    BY DEF PurgeOldMessages
  <1>2. MailOf({}) \cup Lapsed = Lapsed /\ Rows' = Rows \ {}
    BY <1>1 DEF MailOf, registryVars, tables, Rows
  <1> QED BY <1>1, <1>2, DeletionsClear

\* /unregister: a member leaves with its mail.
LEMMA UnregisterClears ==
  ASSUME MailInv, NEW p \in Procs, UnregisterB(p)
  PROVE  Mailboxes!Clear
  <1> DEFINE S == {held[p]}
  <1>1. Rows' = Rows \ S /\ Next
    BY DEF UnregisterB, Unregister, DeleteRows, Without, Rows, Next, Call
  <1>2. DeckToken \notin S
    BY DEF MailInv, Directory, DeckRowReserved
  <1>3. messages' = Without(messages, MailOf(S) \cup {}) /\ lastId' = lastId
    BY DEF UnregisterB
  <1> HIDE DEF S
  <1> QED BY <1>1, <1>2, <1>3, DeletionsClear

\* /poll-messages: the caller reads what waits for it.
LEMMA PollFetches ==
  ASSUME MailInv, NEW p \in Procs, PollMessages(p)
  PROVE  held[p] \in Tokens /\ Mailboxes!Fetch(held[p])
  <1> USE DEF MailInv
  <1> DEFINE me == held[p]
  <1>1. /\ UNCHANGED registryVars /\ lastId' = lastId /\ Pending(me) # {}
        /\ messages' = [i \in Sent |-> IF i \in Pending(me)
                                       THEN [messages[i] EXCEPT !.delivered = TRUE]
                                       ELSE messages[i]]
    BY DEF PollMessages
  <1> HIDE DEF me
  <1>2. \A i \in Sent : messages[i] \in MsgRow
    BY DEF MailType
  <1>3. me \in Tokens
    BY <1>1, <1>2 DEF Pending, MsgRow
  <1>4. RowGroups' = RowGroups /\ Sent' = Sent
    BY <1>1 DEF RowGroups, registryVars, tables, Rows, Sent
  <1>5. \A i \in Sent : i \in Mailboxes!Waiting(me) <=> i \in Pending(me)
    BY View DEF Mailboxes!Waiting, Pending
  <1>6. ASSUME NEW i \in Sent
        PROVE  Letters'[i] = IF i \in Mailboxes!Waiting(me)
                             THEN Mailboxes!Read(Letters[i]) ELSE Letters[i]
    <2>1. CASE i \in Pending(me)
      <3>1. messages'[i] = [messages[i] EXCEPT !.delivered = TRUE]
        BY <1>1, <2>1
      <3>2. Letters'[i] = Mailboxes!Read(Letters[i])
        BY <1>2, <1>4, <3>1, ReadIs
      <3> QED BY <1>5, <2>1, <3>2
    <2>2. CASE i \notin Pending(me)
      <3>1. messages'[i] = messages[i]
        BY <1>1, <2>2
      <3> QED BY <1>4, <1>5, <2>2, <3>1, View
    <2> QED BY <2>1, <2>2
  <1>7. Letters' = [i \in DOMAIN Letters |->
                      IF i \in Mailboxes!Waiting(me)
                      THEN Mailboxes!Read(Letters[i]) ELSE Letters[i]]
    <2>1. Letters' = [i \in Sent |-> Letters'[i]]
      BY <1>4 DEF Letters
    <2> QED BY <1>6, <2>1, View
  <1>8. Mailboxes!Fetch(me)
    BY <1>1, <1>4, <1>7 DEF Mailboxes!Fetch
  <1> QED BY <1>3, <1>8 DEF me

\* Time only makes mail older.
LEMMA TickAges ==
  ASSUME MailInv, TickB
  PROVE  Mailboxes!TimePasses
  <1> USE DEF MailInv
  <1>1. /\ Rows' = Rows /\ Next /\ lastId' = lastId
        /\ messages' = [i \in Sent |-> [messages[i] EXCEPT !.age = Older(@)]]
    BY DEF TickB, Tick, Rows, Next
  <1>2. Sent' = Sent /\ \A i \in Sent : messages[i] \in MsgRow
    BY <1>1 DEF Sent, MailType
  <1>3. RowGroups' = RowGroups
    BY <1>1, GroupKept DEF RowGroups
  <1>4. ASSUME NEW i \in Sent
        PROVE  /\ Letters'[i] = [Letters[i] EXCEPT !.age = Letters'[i].age]
               /\ Mailboxes!Rank(Letters[i].age) <= Mailboxes!Rank(Letters'[i].age)
    <2> DEFINE a == messages[i].age
               b == Older(a)
               row == messages[i]
               letter == Letters[i]
               aged == Letters'[i]
    <2>1. /\ row.from \in Tokens /\ row.to \in Tokens /\ row.delivered \in BOOLEAN
          /\ a \in Ages
      BY <1>2 DEF MsgRow
    <2>2. b \in Ages /\ a <= b
      BY <2>1, OlderType, TimeAssumption DEF Older, Ages
    <2>3. /\ messages'[i].from = row.from /\ messages'[i].to = row.to
          /\ messages'[i].delivered = row.delivered /\ messages'[i].age = b
      BY <1>1, <1>2 DEF MsgRow
    <2>4. /\ letter = [from |-> row.from, to |-> row.to, read |-> row.delivered,
                       age |-> AgeClass(a)]
          /\ aged = [from |-> messages'[i].from, to |-> messages'[i].to,
                     read |-> messages'[i].delivered, age |-> AgeClass(messages'[i].age)]
      BY <1>2, View
    <2>5. aged = [from |-> row.from, to |-> row.to, read |-> row.delivered,
                  age |-> AgeClass(b)]
      BY <2>3, <2>4, Zenon
    <2>6. AgeClass(a) \in Mailboxes!Ages /\ AgeClass(b) \in Mailboxes!Ages
      BY <2>1, <2>2, ClassOfAge
    <2>7. Mailboxes!Rank(AgeClass(a)) <= Mailboxes!Rank(AgeClass(b))
      BY <2>1, <2>2, MailAssumption DEF Mailboxes!Rank, AgeClass, Ages
    <2> HIDE DEF a, b, row, letter, aged
    <2>8. letter \in Mailboxes!Letter /\ aged \in Mailboxes!Letter
      BY <2>1, <2>4, <2>5, <2>6 DEF Mailboxes!Letter, a, row
    <2>9. /\ aged.from = letter.from /\ aged.to = letter.to /\ aged.read = letter.read
          /\ letter.age = AgeClass(a) /\ aged.age = AgeClass(b)
      BY <2>4, <2>5 DEF a, row
    <2>10. aged = [letter EXCEPT !.age = aged.age]
      BY <2>8, <2>9 DEF Mailboxes!Letter
    <2> QED BY <2>7, <2>9, <2>10 DEF letter, aged
  <1> QED BY <1>1, <1>2, <1>3, <1>4, View DEF Mailboxes!TimePasses

-----------------------------------------------------------------------------

\* The broker starts as an empty mailbox.
LEMMA MailboxInit == InitB => Mailboxes!Init
  <1> SUFFICES ASSUME InitB PROVE Mailboxes!Init
    OBVIOUS
  <1>1. Rows = {DeckToken} /\ peers[DeckToken].group = Default /\ Sent = {} /\ lastId = 0
    BY DEF InitB, Init, Rows, Sent
  <1> QED BY <1>1, View, GroupAssumption DEF Mailboxes!Init

\* Every step of the daemon is a step of the mailbox or a stutter.
LEMMA MailboxStep ==
  ASSUME MailInv, [NextB]_brokerVars
  PROVE  [Mailboxes!Next]_(Mailboxes!vars)
  <1> USE DEF MailInv
  <1> DEFINE Abstract == [Mailboxes!Next]_(Mailboxes!vars)
  <1>1. UNCHANGED registryVars => Rows' = Rows /\ peers' = peers
    BY DEF registryVars, tables, Rows
  <1>2. CASE UNCHANGED brokerVars
    BY <1>1, <1>2, Unseen DEF brokerVars, mail
  <1>3. ASSUME NEW p \in Procs, RegisterOrRename(p) PROVE Abstract
    BY <1>3, RegisteringJoins
  <1>4. ASSUME NEW p \in Procs, UnregisterB(p) PROVE Abstract
    BY <1>4, UnregisterClears DEF Mailboxes!Next
  <1>5. ASSUME NEW p \in Procs, ExitB(p) PROVE Abstract
    <2>1. Rows' = Rows /\ peers' = peers /\ UNCHANGED <<messages, lastId>>
      BY <1>5 DEF ExitB, Exit, tables, Rows, mail
    <2> QED BY <2>1, Unseen
  <1>6. ASSUME NEW p \in Procs, NEW name \in PeerIds, SendMessage(p, name)
        PROVE  Abstract
    <2>1. held[p] \in Tokens
      BY <1>6 DEF SendMessage, Addressed, Directory, TypeOK
    <2> QED BY <1>6, <2>1, SendMessageSends DEF Mailboxes!Next
  <1>7. ASSUME NEW p \in Procs, PollMessages(p) PROVE Abstract
    BY <1>7, PollFetches DEF Mailboxes!Next
  <1>8. ASSUME NEW p \in Procs, NEW c \in Conns, OpenWs(p, c) PROVE Abstract
    BY <1>1, <1>8, Unseen DEF OpenWs, mail
  <1>9. ASSUME NEW cr \in Credentials, NEW exclude, Announce(cr[1], cr[2], exclude)
        PROVE  Abstract
    <2>1. cr[1] \in Groups /\ DeckToken \in Tokens
      BY GroupAssumption DEF Directory, DeckRowReserved, TypeOK
    <2> QED BY <1>9, <2>1, AnnounceSends DEF Mailboxes!Next
  <1>10. ASSUME NEW c \in Conns,
                WsAuth(c) \/ ClientClose(c) \/ BrokerClose(c) \/ Receive(c)
         PROVE  Abstract
    BY <1>1, <1>10, Unseen DEF WsAuth, ClientClose, BrokerClose, Receive, mail
  <1>11. ASSUME CleanStalePeersB \/ Restart PROVE Abstract
    BY <1>11, TimersClear DEF Mailboxes!Next
  <1>12. ASSUME SweepInactivePeersB PROVE Abstract
    <2>1. Rows' = Rows /\ Next /\ UNCHANGED <<messages, lastId>>
      BY <1>12 DEF SweepInactivePeersB, SweepInactivePeers, Rows, Next, mail
    <2> QED BY <2>1, GroupKept, Unseen
  <1>13. ASSUME PurgeOldMessages PROVE Abstract
    BY <1>13, PurgeClears DEF Mailboxes!Next
  <1>14. ASSUME TickB PROVE Abstract
    BY <1>14, TickAges DEF Mailboxes!Next
  <1> QED BY <1>2, <1>3, <1>4, <1>5, <1>6, <1>7, <1>8, <1>9, <1>10, <1>11, <1>12, <1>13,
             <1>14 DEF NextB

\* Whatever the processes, the sockets, the timers and the restarts do, the messages table
\* keeps what Mailbox promises about mail.
THEOREM MailboxImplemented == SpecB => MailboxKept
  <1>1. InitB => Mailboxes!Init
    BY MailboxInit
  <1>2. NetInv /\ [NextB]_brokerVars => [Mailboxes!Next]_(Mailboxes!vars)
    BY MailboxStep DEF NetInv
  <1> QED BY <1>1, <1>2, NetAlways, PTL DEF SpecB, MailboxKept, Mailboxes!Spec

=============================================================================
