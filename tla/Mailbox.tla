------------------------------- MODULE Mailbox -------------------------------
(***************************************************************************)
(* What the broker promises about messages, without its tables, tokens,    *)
(* sockets and timers: members of groups come and go, send each other mail *)
(* and read what waits for them.  Mail stays as it was sent; it is read    *)
(* once, by its recipient; and it is kept until it has been read, until it *)
(* is overdue, or until its sender or its recipient is gone for good.      *)
(***************************************************************************)
EXTENDS Naturals

CONSTANTS
  Members, Groups,
  Operator     \* a member that sends to every group and receives nothing

VARIABLES
  group,       \* the members there are, and the group of each
  box,         \* the mail there is
  last         \* the last number given to a message: none is given again

vars == <<group, box, last>>

Ages == {"now", "earlier", "overdue"}
Letter == [from : Members, to : Members, read : BOOLEAN, age : Ages]

Waiting(m) == {i \in DOMAIN box : box[i].to = m /\ ~box[i].read}
Read(letter) == [letter EXCEPT !.read = TRUE]

Init ==
  /\ DOMAIN group = {Operator} /\ group[Operator] \in Groups
  /\ DOMAIN box = {} /\ last = 0

\* Somebody becomes a member.
Join ==
  /\ \E m \in Members \ DOMAIN group, g \in Groups :
       group' = [x \in DOMAIN group \cup {m} |-> IF x = m THEN g ELSE group[x]]
  /\ UNCHANGED <<box, last>>

\* m sends to members of one group, its own if it has one.  What waited for m before this
\* very moment may count as read: who writes is taken to have looked.
Send(m) ==
  LET new == last + 1 .. last' IN
  /\ m \in DOMAIN group /\ last' \in Nat /\ last' > last
  /\ DOMAIN box' = DOMAIN box \cup new
  /\ \A i \in new : /\ box'[i] \in Letter /\ box'[i].from = m
                    /\ ~box'[i].read /\ box'[i].age = "now"
  /\ \E g \in IF m = Operator THEN Groups ELSE {group[m]} :
       \A i \in new : box'[i].to \in DOMAIN group \ {Operator} /\ group[box'[i].to] = g
  /\ \A i, j \in new : box'[i].to = box'[j].to => i = j
  /\ \A i \in DOMAIN box :
       \/ box'[i] = box[i]
       \/ i \in Waiting(m) /\ box[i].age # "now" /\ box'[i] = Read(box[i])
  /\ UNCHANGED group

\* m reads everything that waits for it.
Fetch(m) ==
  /\ box' = [i \in DOMAIN box |-> IF i \in Waiting(m) THEN Read(box[i]) ELSE box[i]]
  /\ UNCHANGED <<group, last>>

\* Members leave with all mail from them and to them, and overdue mail is thrown away.
Clear ==
  LET left == {i \in DOMAIN box : {box[i].from, box[i].to} \subseteq DOMAIN group'} IN
  /\ Operator \in DOMAIN group' /\ DOMAIN group' \subseteq DOMAIN group
  /\ \A m \in DOMAIN group' : group'[m] = group[m]
  /\ DOMAIN box' \subseteq left
  /\ \A i \in DOMAIN box' : box'[i] = box[i]
  /\ \A i \in left \ DOMAIN box' : ~box[i].read /\ box[i].age = "overdue"
  /\ UNCHANGED last

Rank(age) == CASE age = "now" -> 0 [] age = "earlier" -> 1 [] age = "overdue" -> 2

TimePasses ==
  /\ DOMAIN box' = DOMAIN box
  /\ \A i \in DOMAIN box : /\ box'[i] = [box[i] EXCEPT !.age = box'[i].age]
                           /\ Rank(box[i].age) <= Rank(box'[i].age)
  /\ UNCHANGED <<group, last>>

Next ==
  \/ Join \/ Clear \/ TimePasses
  \/ \E m \in Members : Send(m) \/ Fetch(m)

Spec == Init /\ [][Next]_vars
=============================================================================
