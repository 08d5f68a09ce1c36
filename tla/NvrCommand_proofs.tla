------------------------- MODULE NvrCommand_proofs -------------------------
(***************************************************************************)
(* What NvrCommand promises, proved for any number of NVRs, any sockets    *)
(* and any bounds.                                                         *)
(***************************************************************************)
EXTENDS NvrCommand, FiniteSetTheorems, TLAPS

\* Write and Cut change the last parts on one connection.
LEMMA WriteIs ==
    ASSUME WireType, NEW c \in Conns, NEW x \in Parts, Write(c, x), owner' = owner
    PROVE  /\ WireType'
           /\ wire'[c] = [prev |-> wire[c].last, last |-> x]
           /\ \A d \in Conns \ {c} : wire'[d] = wire[d]
<1>1. wire[c] \in Pairs
  BY DEF WireType, Conns
<1>2. [prev |-> wire[c].last, last |-> x] \in Pairs
  BY <1>1 DEF Pairs
<1>. QED
  BY <1>2 DEF WireType, Write, Conns

LEMMA CutIs ==
    ASSUME WireType, NEW c \in Conns, NEW x \in Parts, Cut(c, x), owner' = owner
    PROVE  /\ WireType'
           /\ wire'[c].prev = wire[c].prev
           /\ wire'[c].last = IF wire[c].last = x THEN [x EXCEPT !.part = 0] ELSE wire[c].last
           /\ \A d \in Conns \ {c} : wire'[d] = wire[d]
<1>1. wire[c] \in Pairs
  BY DEF WireType, Conns
<1>2. [wire[c] EXCEPT !.last = IF wire[c].last = x THEN [x EXCEPT !.part = 0] ELSE wire[c].last] \in Pairs
  BY <1>1 DEF Pairs, Parts
<1>. QED
  BY <1>1, <1>2 DEF WireType, Cut, Conns, Pairs

\* The fields of a part, and the parts of a frame.
LEMMA PartIs ==
    ASSUME NEW n, NEW id, NEW k, NEW p
    PROVE  /\ Part(n, id, k, p).nvr = n /\ Part(n, id, k, p).chk = k /\ Part(n, id, k, p).part = p
           /\ \A q : [Part(n, id, k, p) EXCEPT !.part = q] = Part(n, id, k, q)
BY DEF Part

\* What the steps that write do to the connections.
LEMMA BeatBeginIs ==
    ASSUME Inv, NEW n \in Nvr, BeatBegin(n)
    PROVE  /\ conn[n] \in Conns /\ WireType'
           /\ wire'[conn[n]] = [prev |-> wire[conn[n]].last, last |-> Part(n, 0, conn[n], 1)]
           /\ \A d \in Conns \ {conn[n]} : wire'[d] = wire[d]
<1>1. conn[n] \in Conns /\ Part(n, 0, conn[n], 1) \in Parts
  BY DEF Inv, TypeOK, ThreadType, NetType, SenderType, Sockets, Begun, Up, Conns, Nvr, Part, Parts, Packets, BeatBegin, Target
<1>2. Write(conn[n], Part(n, 0, conn[n], 1)) /\ owner' = owner
  BY DEF Inv, TypeOK, ThreadType, NetType, SenderType, Sockets, Up, Conns, BeatBegin, Target
<1>. QED
  BY <1>1, <1>2, WriteIs DEF Inv, TypeOK

LEMMA BeatDoneIs ==
    ASSUME Inv, NEW n \in Nvr, BeatDone(n)
    PROVE  /\ conn[n] \in Conns /\ WireType'
           /\ wire'[conn[n]] = [prev |-> wire[conn[n]].last, last |-> Part(n, 0, conn[n], 2)]
           /\ \A d \in Conns \ {conn[n]} : wire'[d] = wire[d]
<1>1. conn[n] \in Conns /\ Part(n, 0, conn[n], 2) \in Parts
  BY DEF Inv, TypeOK, ThreadType, NetType, SenderType, Sockets, Begun, Up, Conns, Nvr, Part, Parts, Packets, BeatDone
<1>2. Write(conn[n], Part(n, 0, conn[n], 2)) /\ owner' = owner
  BY DEF Inv, TypeOK, ThreadType, NetType, SenderType, Sockets, Up, Conns, BeatDone
<1>. QED
  BY <1>1, <1>2, WriteIs DEF Inv, TypeOK

LEMMA BeatFailIs ==
    ASSUME Inv, NEW n \in Nvr, BeatFail(n)
    PROVE  /\ conn[n] \in Conns /\ WireType'
           /\ wire'[conn[n]].prev = wire[conn[n]].prev
           /\ wire'[conn[n]].last = IF wire[conn[n]].last = Part(n, 0, conn[n], 1) THEN Part(n, 0, conn[n], 0) ELSE wire[conn[n]].last
           /\ \A d \in Conns \ {conn[n]} : wire'[d] = wire[d]
<1>1. conn[n] \in Conns /\ Part(n, 0, conn[n], 1) \in Parts
  BY DEF Inv, TypeOK, ThreadType, NetType, SenderType, Sockets, Begun, Up, Conns, Nvr, Part, Parts, Packets, BeatFail
<1>2. Cut(conn[n], Part(n, 0, conn[n], 1)) /\ owner' = owner
  BY DEF Inv, TypeOK, ThreadType, NetType, SenderType, Sockets, Up, Conns, BeatFail
<1>3. [Part(n, 0, conn[n], 1) EXCEPT !.part = 0] = Part(n, 0, conn[n], 0)
  BY PartIs
<1>. QED
  BY <1>1, <1>2, CutIs, <1>3 DEF Inv, TypeOK

LEMMA SendBeginIs ==
    ASSUME Inv, SendBegin
    PROVE  /\ Target(s.n) \in Conns /\ WireType'
           /\ wire'[Target(s.n)] = [prev |-> wire[Target(s.n)].last, last |-> Part(s.n, s.pkt.id, s.chk, 1)]
           /\ \A d \in Conns \ {Target(s.n)} : wire'[d] = wire[d]
<1>1. Target(s.n) \in Conns /\ Part(s.n, s.pkt.id, s.chk, 1) \in Parts
  BY DEF Inv, TypeOK, ThreadType, NetType, SenderType, Sockets, Begun, Up, Conns, Nvr, Part, Parts, Packets, SendBegin, Target
<1>2. Write(Target(s.n), Part(s.n, s.pkt.id, s.chk, 1)) /\ owner' = owner
  BY DEF Inv, TypeOK, ThreadType, NetType, SenderType, Sockets, Up, Conns, SendBegin, Target
<1>. QED
  BY <1>1, <1>2, WriteIs DEF Inv, TypeOK

LEMMA SendDoneIs ==
    ASSUME Inv, SendDone
    PROVE  /\ s.to \in Conns /\ WireType'
           /\ wire'[s.to] = [prev |-> wire[s.to].last, last |-> Part(s.n, s.pkt.id, s.chk, 2)]
           /\ \A d \in Conns \ {s.to} : wire'[d] = wire[d]
<1>1. s.to \in Conns /\ Part(s.n, s.pkt.id, s.chk, 2) \in Parts
  BY DEF Inv, TypeOK, ThreadType, NetType, SenderType, Sockets, Begun, Up, Conns, Nvr, Part, Parts, Packets, SendDone, Live
<1>2. Write(s.to, Part(s.n, s.pkt.id, s.chk, 2)) /\ owner' = owner
  BY DEF Inv, TypeOK, ThreadType, NetType, SenderType, Sockets, Up, Conns, SendDone, Live
<1>. QED
  BY <1>1, <1>2, WriteIs DEF Inv, TypeOK

LEMMA SendFailIs ==
    ASSUME Inv, SendFail
    PROVE  /\ s.to \in Conns /\ WireType'
           /\ wire'[s.to].prev = wire[s.to].prev
           /\ wire'[s.to].last = IF wire[s.to].last = Part(s.n, s.pkt.id, s.chk, 1) THEN Part(s.n, s.pkt.id, s.chk, 0) ELSE wire[s.to].last
           /\ \A d \in Conns \ {s.to} : wire'[d] = wire[d]
<1>1. s.to \in Conns /\ Part(s.n, s.pkt.id, s.chk, 1) \in Parts
  BY DEF Inv, TypeOK, ThreadType, NetType, SenderType, Sockets, Begun, Up, Conns, Nvr, Part, Parts, Packets, SendFail
<1>2. Cut(s.to, Part(s.n, s.pkt.id, s.chk, 1)) /\ owner' = owner
  BY DEF Inv, TypeOK, ThreadType, NetType, SenderType, Sockets, Up, Conns, SendFail
<1>3. [Part(s.n, s.pkt.id, s.chk, 1) EXCEPT !.part = 0] = Part(s.n, s.pkt.id, s.chk, 0)
  BY PartIs
<1>. QED
  BY <1>1, <1>2, CutIs, <1>3 DEF Inv, TypeOK

LEMMA OpenIs ==
    ASSUME Inv, NEW n \in Nvr, NEW h \in Socket, Open(n, h)
    PROVE  LET k == Len(owner) + 1 IN
           /\ Len(owner') = k /\ k \in Nat /\ Conns' = Conns \cup {k} /\ k \notin Conns
           /\ owner' \in Seq(Nvr) /\ owner'[k] = n
           /\ \A c \in Conns : owner'[c] = owner[c]
           /\ WireType' /\ wire'[k] = [prev |-> NoPart, last |-> NoPart]
           /\ \A c \in Conns : wire'[c] = wire[c]
<1>. DEFINE none == [prev |-> NoPart, last |-> NoPart]
<1>1. none \in Pairs
  BY DEF NoPart, Part, Parts, Pairs
<1>. HIDE DEF none
<1>2. owner \in Seq(Nvr) /\ wire \in Seq(Pairs) /\ Len(wire) = Len(owner)
  BY DEF Inv, TypeOK, NetType, WireType
<1>3. owner' = Append(owner, n) /\ wire' = Append(wire, none)
  BY DEF Open, none
<1>4. Len(owner') = Len(owner) + 1 /\ owner' \in Seq(Nvr) /\ owner'[Len(owner) + 1] = n
      /\ \A c \in 1..Len(owner) : owner'[c] = owner[c]
  BY <1>2, <1>3
<1>5. wire' \in Seq(Pairs) /\ Len(wire') = Len(owner) + 1 /\ wire'[Len(owner) + 1] = none
      /\ \A c \in 1..Len(owner) : wire'[c] = wire[c]
  BY <1>1, <1>2, <1>3
<1>6. Len(owner) \in Nat
  BY <1>2
<1>. QED
  BY <1>4, <1>5, <1>6 DEF Conns, WireType, none

\* Every step keeps the types: the threads.
LEMMA ThreadTyped ==
    ASSUME Inv, Next
    PROVE  ThreadType'
<1>. USE CommandAssumption DEF Nvr, Conns, ThreadType, SenderType, Labels
<1>0. ThreadType /\ SenderType
  BY DEF Inv, TypeOK
<1>1. CASE Create
  BY <1>0, <1>1 DEF Create, Goto, thread, net, commands
<1>2. CASE Store
  BY <1>0, <1>2 DEF Store, thread, net, commands
<1>3. CASE SendBegin
  BY <1>0, <1>3 DEF SendBegin, Target, thread, net, commands
<1>4. CASE SendDone
  BY <1>0, <1>4 DEF SendDone, Again, thread, net, commands
<1>5. CASE SendFail
  BY <1>0, <1>5 DEF SendFail, Again, thread, net, commands
<1>6. ASSUME NEW n \in Nvr, SetConnect(n) PROVE ThreadType'
  BY <1>0, <1>6 DEF SetConnect, Goto, thread, net, commands
<1>7. ASSUME NEW n \in Nvr, OnlineAsk(n) PROVE ThreadType'
  BY <1>0, <1>7 DEF OnlineAsk, Put, Goto, Accepts, Stored, thread, net, commands
<1>8. ASSUME NEW n \in Nvr, OnlineRefused(n) PROVE ThreadType'
  BY <1>0, <1>8 DEF OnlineRefused, Goto, Accepts, Stored, thread, net, commands
<1>9. ASSUME NEW n \in Nvr, BeatBegin(n) PROVE ThreadType'
  BY <1>0, <1>9 DEF BeatBegin, Goto, Target, thread, net, commands
<1>10. ASSUME NEW n \in Nvr, BeatDone(n) PROVE ThreadType'
  BY <1>0, <1>10 DEF BeatDone, Goto, thread, net, commands
<1>11. ASSUME NEW n \in Nvr, BeatFail(n) PROVE ThreadType'
  BY <1>0, <1>11 DEF BeatFail, Goto, thread, net, commands
<1>12. ASSUME NEW n \in Nvr, ClearSockfd(n) PROVE ThreadType'
  BY <1>0, <1>12 DEF ClearSockfd, Goto, thread, net, commands
<1>13. ASSUME NEW n \in Nvr, Unconnect(n) PROVE ThreadType'
  BY <1>0, <1>13 DEF Unconnect, Goto, thread, net, commands
<1>14. ASSUME NEW n \in Nvr, BeatDue(n) PROVE ThreadType'
  BY <1>0, <1>14 DEF BeatDue, Goto, thread, net, commands
<1>15. ASSUME NEW n \in Nvr, Close(n) PROVE ThreadType'
  BY <1>0, <1>15 DEF Close, Goto, thread, net, commands
<1>16. ASSUME NEW n \in Nvr, NEW h \in Socket, Open(n, h) PROVE ThreadType'
  BY <1>0, <1>16 DEF Open, Goto, thread, net, commands
<1>17. CASE UNCHANGED <<boot, t, iSocket, iSockfd, iConnectStatus, hPmsgMutex>>
  BY <1>0, <1>17
<1>. QED
  BY <1>1, <1>2, <1>3, <1>4, <1>5, <1>6, <1>7, <1>8, <1>9, <1>10, <1>11, <1>12, <1>13, <1>14, <1>15, <1>16, <1>17 DEF Next, Sender, Connection, thread, net, commands, UiPut, Turn, Get, Refuse, Check, NoSocket, UiCheck

\* Every step keeps the types: the connections.
LEMMA NetTyped ==
    ASSUME Inv, Next
    PROVE  NetType'
<1>. USE CommandAssumption DEF Nvr, Conns, Labels
<1>0. NetType
  BY DEF Inv, TypeOK
<1>1. ASSUME NEW n \in Nvr, Close(n) PROVE NetType'
  BY <1>0, <1>1 DEF Close, NetType, Conns
<1>2. ASSUME NEW n \in Nvr, NEW h \in Socket, Open(n, h) PROVE NetType'
  <2>1. PICK k : k = Len(owner) + 1 /\ Conns' = Conns \cup {k} /\ owner' \in Seq(Nvr)
    BY <1>2, OpenIs
  <2>2. conn' = [conn EXCEPT ![n] = k] /\ at' = [at EXCEPT ![h] = k] /\ known' \subseteq known \cup {k}
    BY <1>2, <2>1 DEF Open
  <2>3. conn \in [Nvr -> Conns \cup {0}] /\ at \in [Socket -> Conns \cup {0}] /\ known \subseteq Conns
    BY DEF Inv, TypeOK, NetType
  <2>. QED
    BY <2>1, <2>2, <2>3 DEF NetType
<1>3. CASE UNCHANGED <<owner, conn, at, known>>
  BY <1>0, <1>3 DEF NetType, Conns
<1>. QED
  BY <1>1, <1>2, <1>3 DEF Next, Sender, Connection, thread, net, commands, Create, Store, UiPut, Turn, Get, Refuse, Check, SendBegin, NoSocket, SendDone, SendFail, SetConnect, OnlineAsk, OnlineRefused, BeatBegin, BeatDone, BeatFail, ClearSockfd, Unconnect, BeatDue, UiCheck

\* Every step keeps the types: what is written.
LEMMA WireTyped ==
    ASSUME Inv, Next
    PROVE  WireType'
<1>. USE CommandAssumption DEF Nvr, Conns, WireType
<1>0. WireType
  BY DEF Inv, TypeOK
<1>1. CASE SendBegin
  BY <1>1, SendBeginIs DEF WireType
<1>2. CASE SendDone
  BY <1>2, SendDoneIs DEF WireType
<1>3. CASE SendFail
  BY <1>3, SendFailIs DEF WireType
<1>4. ASSUME NEW n \in Nvr, BeatBegin(n) PROVE WireType'
  BY <1>4, BeatBeginIs DEF WireType
<1>5. ASSUME NEW n \in Nvr, BeatDone(n) PROVE WireType'
  BY <1>5, BeatDoneIs DEF WireType
<1>6. ASSUME NEW n \in Nvr, BeatFail(n) PROVE WireType'
  BY <1>6, BeatFailIs DEF WireType
<1>7. ASSUME NEW n \in Nvr, NEW h \in Socket, Open(n, h) PROVE WireType'
  BY <1>7, OpenIs DEF WireType
<1>8. CASE UNCHANGED <<wire, owner>>
  BY <1>0, <1>8
<1>. QED
  BY <1>1, <1>2, <1>3, <1>4, <1>5, <1>6, <1>7, <1>8 DEF Next, Sender, Connection, thread, net, commands, Create, Store, UiPut, Turn, Get, Refuse, Check, NoSocket, SetConnect, OnlineAsk, OnlineRefused, ClearSockfd, Unconnect, BeatDue, Close, UiCheck

\* The NVR the sender is at.
LEMMA SenderAt ==
    ASSUME SenderType
    PROVE  s.n \in Nvr /\ s.pkt \in Packets
BY DEF SenderType

\* What Put and Get do to the queues.
LEMMA PutIs ==
    ASSUME CommandType, NEW n \in Nvr, NEW c \in Nat, Put(n, c)
    PROVE  /\ count' \in Nat /\ queue' \in [Nvr -> Seq(Packets)]
           /\ \A m \in Nvr : \A i \in 1..Len(queue'[m]) :
                \/ i \in 1..Len(queue[m]) /\ queue'[m][i] = queue[m][i]
                \/ m = n /\ queue'[m][i].conn = c
<1>. DEFINE p == [id |-> count + 1, conn |-> c]
<1>1. p \in Packets /\ count' \in Nat
  BY DEF CommandType, Packets, Put
<1>2. p.conn = c
  OBVIOUS
<1>. HIDE DEF p
<1>3. queue \in [Nvr -> Seq(Packets)] /\ queue' = [queue EXCEPT ![n] = Append(@, p)]
  BY DEF CommandType, Put, p
<1>4. Append(queue[n], p) \in Seq(Packets) /\ queue'[n] = Append(queue[n], p)
  BY <1>1, <1>3
<1>5. \A i \in 1..Len(queue'[n]) : (i \in 1..Len(queue[n]) /\ queue'[n][i] = queue[n][i]) \/ queue'[n][i] = p
  BY <1>1, <1>3, <1>4
<1>. QED
  BY <1>1, <1>2, <1>3, <1>4, <1>5

LEMMA GetIs ==
    ASSUME CommandType, SenderType, Get
    PROVE  /\ s.n \in Nvr /\ queue[s.n][1] \in Packets /\ queue' \in [Nvr -> Seq(Packets)]
           /\ 1 \in 1..Len(queue[s.n])
           /\ s' = [s EXCEPT !.pc = "check", !.pkt = queue[s.n][1]]
           /\ \A m \in Nvr : \A i \in 1..Len(queue'[m]) :
                \E j \in 1..Len(queue[m]) : queue'[m][i] = queue[m][j]
<1>. DEFINE q == queue[s.n]
<1>1. s.n \in Nvr
  BY DEF SenderType
<1>2. q \in Seq(Packets) /\ q # <<>>
  BY <1>1 DEF CommandType, Get
<1>3. queue \in [Nvr -> Seq(Packets)] /\ queue' = [queue EXCEPT ![s.n] = Tail(q)]
  BY DEF CommandType, Get
<1>4. s' = [s EXCEPT !.pc = "check", !.pkt = Head(q)]
  BY DEF Get
<1>. HIDE DEF q
<1>5. Tail(q) \in Seq(Packets) /\ q[1] \in Packets /\ Head(q) = q[1] /\ Len(q) \in Nat \ {0}
      /\ \A i \in 1..Len(Tail(q)) : i + 1 \in 1..Len(q) /\ Tail(q)[i] = q[i + 1]
  BY <1>2
<1>6. queue' \in [Nvr -> Seq(Packets)] /\ queue'[s.n] = Tail(q)
      /\ \A m \in Nvr \ {s.n} : queue'[m] = queue[m]
  BY <1>1, <1>3, <1>5
<1>7. \A i \in 1..Len(queue'[s.n]) : \E k \in 1..Len(q) : queue'[s.n][i] = q[k]
  BY <1>5, <1>6
<1>8. \A m \in Nvr \ {s.n} : \A i \in 1..Len(queue'[m]) : \E k \in 1..Len(queue[m]) : queue'[m][i] = queue[m][k]
  BY <1>6
<1>9. queue[s.n][1] \in Packets /\ 1 \in 1..Len(queue[s.n]) /\ s' = [s EXCEPT !.pc = "check", !.pkt = queue[s.n][1]]
  BY <1>4, <1>5 DEF q
<1>10. \A m \in Nvr : \A i \in 1..Len(queue'[m]) : \E k \in 1..Len(queue[m]) : queue'[m][i] = queue[m][k]
  BY <1>7, <1>8 DEF q
<1>. QED
  BY <1>1, <1>6, <1>9, <1>10

\* Every step keeps the types: the commands.
LEMMA CommandTyped ==
    ASSUME Inv, Next
    PROVE  CommandType'
<1>0. CommandType /\ SenderType /\ ThreadType /\ Sockets
      /\ owner \in Seq(Nvr) /\ Len(owner) \in Nat /\ conn \in [Nvr -> Conns \cup {0}]
  BY DEF Inv, TypeOK, NetType
<1>1. CASE UiPut
  <2>1. ui.n \in Nvr /\ ui.conn \in Nat /\ Put(ui.n, ui.conn)
    BY <1>0, <1>1 DEF CommandType, UiPut
  <2>2. count' \in Nat /\ queue' \in [Nvr -> Seq(Packets)]
    BY <1>0, <2>1, PutIs
  <2>. QED
    BY <1>0, <1>1, <2>2 DEF CommandType, UiPut, Nvr, thread, net, Conns
<1>2. ASSUME NEW n \in Nvr, UiCheck(n) PROVE CommandType'
  <2>1. conn[n] \in Nat
    BY <1>0 DEF Conns
  <2>. QED
    BY <1>0, <1>2, <2>1 DEF CommandType, UiCheck, thread, net, Conns, Nvr
<1>3. ASSUME NEW n \in Nvr, OnlineAsk(n) PROVE CommandType'
  <2>1. conn[n] \in Conns /\ conn[n] \in Nat
    BY <1>0, <1>3 DEF Conns, OnlineAsk, Sockets, Up
  <2>2. count' \in Nat /\ queue' \in [Nvr -> Seq(Packets)]
    BY <1>0, <1>3, <2>1, PutIs DEF OnlineAsk
  <2>3. asked' \subseteq Conns'
    BY <1>0, <1>3, <2>1 DEF CommandType, OnlineAsk, net, Conns
  <2>. QED
    BY <1>0, <1>3, <2>2, <2>3 DEF CommandType, OnlineAsk
<1>4. CASE Get
  BY <1>0, <1>4, GetIs DEF CommandType, Get, net, Conns
<1>5. CASE Refuse
  <2>1. s.pkt \in Packets
    BY <1>0 DEF SenderType
  <2>. QED
    BY <1>0, <1>5, <2>1 DEF CommandType, Refuse, commands, net, Conns
<1>6. ASSUME NEW n \in Nvr, BeatDue(n) PROVE CommandType'
  <2>1. beats' \in Nat
    BY <1>0, <1>6 DEF CommandType, BeatDue
  <2>. QED
    BY <1>0, <1>6, <2>1 DEF CommandType, BeatDue, commands, net, Conns
<1>7. ASSUME NEW n \in Nvr, NEW h \in Socket, Open(n, h) PROVE CommandType'
  <2>1. Conns \subseteq Conns'
    BY <1>7, OpenIs
  <2>. QED
    BY <1>0, <1>7, <2>1 DEF CommandType, Open, commands
<1>8. CASE UNCHANGED <<queue, ui, count, asked, beats, dropped, owner>>
  BY <1>0, <1>8 DEF CommandType, Conns
<1>. QED
  BY <1>1, <1>2, <1>3, <1>4, <1>5, <1>6, <1>7, <1>8
     DEF Next, Sender, Connection, net, commands, Create, Store, Turn, Check, SendBegin, NoSocket, SendDone,
         SendFail, SetConnect, OnlineRefused, BeatBegin, BeatDone, BeatFail, ClearSockfd, Unconnect, Close

\* Every step keeps the types: the sender.
LEMMA SenderTyped ==
    ASSUME Inv, Next
    PROVE  SenderType'
<1>. USE CommandAssumption DEF Nvr, Conns, CommandType, NetType, Packets, NoPacket, SenderType, ThreadType
<1>0. CommandType /\ NetType /\ SenderType /\ ThreadType
  BY DEF Inv, TypeOK
<1>1. CASE Turn
  <2>0. s.n \in Nvr
    BY SenderAt DEF Inv, TypeOK
  <2>1. (IF s.n = NvrNum THEN 1 ELSE s.n + 1) \in Nvr
    BY <2>0
  <2>. QED
    BY <1>0, <1>1, <2>1 DEF Turn, net
<1>2. CASE Get
  BY <1>0, <1>2, GetIs DEF Get, net
<1>3. CASE Refuse
  BY <1>0, <1>3 DEF Refuse, Again, thread, net, commands
<1>4. CASE Check
  <2>0. s.n \in Nvr
    BY SenderAt DEF Inv, TypeOK
  <2>1. conn[s.n] \in Conns \cup {0} /\ Len(owner) \in Nat
    BY <2>0 DEF Inv, TypeOK, NetType
  <2>2. conn[s.n] \in Nat
    BY <2>1
  <2>. QED
    BY <1>0, <1>4, <2>2 DEF Check, net
<1>5. CASE SendBegin
  BY <1>0, <1>5 DEF SendBegin, Target, thread, net, commands
<1>6. CASE NoSocket
  BY <1>0, <1>6 DEF NoSocket, Again, Target, thread, net, commands
<1>7. CASE SendDone
  BY <1>0, <1>7 DEF SendDone, Again, thread, net, commands
<1>8. CASE SendFail
  BY <1>0, <1>8 DEF SendFail, Again, thread, net, commands
<1>9. ASSUME NEW n \in Nvr, NEW h \in Socket, Open(n, h) PROVE SenderType'
  <2>1. Conns \subseteq Conns'
    BY <1>9, OpenIs
  <2>. QED
    BY <1>0, <1>9, <2>1 DEF Open
<1>10. CASE UNCHANGED <<s, owner>>
  BY <1>0, <1>10
<1>. QED
  BY <1>1, <1>2, <1>3, <1>4, <1>5, <1>6, <1>7, <1>8, <1>9, <1>10 DEF Next, Sender, Connection, thread, net, commands, Create, Store, UiPut, SetConnect, OnlineAsk, OnlineRefused, BeatBegin, BeatDone, BeatFail, ClearSockfd, Unconnect, BeatDue, Close, UiCheck

\* Every step keeps the sockets in order.
LEMMA SocketsKept ==
    ASSUME Inv, Next
    PROVE  Sockets'
<1>. USE CommandAssumption DEF Nvr, Conns, ThreadType, NetType, Sockets, LiveIsOpen, Up, Labels
<1>0. ThreadType /\ NetType /\ Sockets /\ LiveIsOpen
  BY DEF Inv, TypeOK
<1>1. CASE Create
  BY <1>0, <1>1 DEF Create, Goto, thread, net, commands
<1>2. ASSUME NEW n \in Nvr, SetConnect(n) PROVE Sockets'
  BY <1>0, <1>2 DEF SetConnect, Goto, thread, net, commands
<1>3. ASSUME NEW n \in Nvr, OnlineAsk(n) PROVE Sockets'
  BY <1>0, <1>3 DEF OnlineAsk, Put, Goto, Accepts, Stored, thread, net, commands
<1>4. ASSUME NEW n \in Nvr, OnlineRefused(n) PROVE Sockets'
  BY <1>0, <1>4 DEF OnlineRefused, Goto, Accepts, Stored, thread, net, commands
<1>5. ASSUME NEW n \in Nvr, BeatBegin(n) PROVE Sockets'
  BY <1>0, <1>5 DEF BeatBegin, Goto, Target, thread, net, commands
<1>6. ASSUME NEW n \in Nvr, BeatDone(n) PROVE Sockets'
  BY <1>0, <1>6 DEF BeatDone, Goto, thread, net, commands
<1>7. ASSUME NEW n \in Nvr, BeatFail(n) PROVE Sockets'
  BY <1>0, <1>7 DEF BeatFail, Goto, thread, net, commands
<1>8. ASSUME NEW n \in Nvr, ClearSockfd(n) PROVE Sockets'
  BY <1>0, <1>8 DEF ClearSockfd, Goto, thread, net, commands
<1>9. ASSUME NEW n \in Nvr, Unconnect(n) PROVE Sockets'
  BY <1>0, <1>9 DEF Unconnect, Goto, thread, net, commands
<1>10. ASSUME NEW n \in Nvr, BeatDue(n) PROVE Sockets'
  BY <1>0, <1>10 DEF BeatDue, Goto, thread, net, commands
<1>11. ASSUME NEW n \in Nvr, Close(n) PROVE Sockets'
  BY <1>0, <1>11 DEF Close, Goto, thread, net, commands
<1>12. ASSUME NEW n \in Nvr, NEW h \in Socket, Open(n, h) PROVE Sockets'
  <2>. DEFINE k == Len(owner) + 1
  <2>1. /\ conn' = [conn EXCEPT ![n] = k] /\ at' = [at EXCEPT ![h] = k] /\ at[h] = 0 /\ k # 0
        /\ iSocket' = [iSocket EXCEPT ![n] = h] /\ iSockfd' = [iSockfd EXCEPT ![n] = h]
        /\ t' = [t EXCEPT ![n] = "opened"] /\ t[n] = "top" /\ iConnectStatus' = iConnectStatus
        /\ owner'[k] = n /\ \A c \in Conns : owner'[c] = owner[c]
    BY <1>0, <1>12, OpenIs DEF Open, Goto
  <2>. HIDE DEF k
  <2>2. ASSUME NEW m \in Nvr \ {n} PROVE
          /\ conn'[m] = conn[m] /\ t'[m] = t[m] /\ iSocket'[m] = iSocket[m] /\ iSockfd'[m] = iSockfd[m]
          /\ conn[m] # 0 => owner'[conn[m]] = owner[conn[m]]
          /\ t[m] \in Up => at'[iSocket[m]] = at[iSocket[m]]
    BY <1>0, <2>1, <2>2
  <2>3. conn \in [Nvr -> Conns \cup {0}] /\ t \in [Nvr -> Labels] /\ iSocket \in [Nvr -> Socket \cup {0}]
        /\ iSockfd \in [Nvr -> Socket \cup {0}] /\ at \in [Socket -> Conns \cup {0}]
    BY DEF Inv, TypeOK, ThreadType, NetType
  <2>4. conn'[n] = k /\ t'[n] = "opened" /\ iSocket'[n] = h /\ iSockfd'[n] = h /\ at'[h] = k
    BY <2>1, <2>3
  <2>5. h # 0
    OBVIOUS
  <2>6. iConnectStatus[n] # "CONNECT"
    BY ZenonT(40), <1>0, <2>1
  <2>. QED
    BY <1>0, <2>1, <2>2, <2>4, <2>5, <2>6
<1>13. CASE UNCHANGED <<t, iSocket, iSockfd, iConnectStatus, owner, conn, at>>
  BY <1>0, <1>13
<1>. QED
  BY <1>1, <1>2, <1>3, <1>4, <1>5, <1>6, <1>7, <1>8, <1>9, <1>10, <1>11, <1>12, <1>13 DEF Next, Sender, Connection, thread, net, commands, Store, UiPut, Turn, Get, Refuse, Check, SendBegin, NoSocket, SendDone, SendFail, UiCheck

\* Every live connection is open in its thread.
LEMMA LiveKept ==
    ASSUME Inv, Next
    PROVE  LiveIsOpen'
<1>. USE CommandAssumption DEF Nvr, Conns, ThreadType, NetType, Sockets, LiveIsOpen, Up, Labels
<1>0. ThreadType /\ NetType /\ Sockets /\ LiveIsOpen
  BY DEF Inv, TypeOK
<1>1. CASE Create
  BY <1>0, <1>1 DEF Create, Goto, thread, net, commands
<1>2. ASSUME NEW n \in Nvr, SetConnect(n) PROVE LiveIsOpen'
  BY <1>0, <1>2 DEF SetConnect, Goto, thread, net, commands
<1>3. ASSUME NEW n \in Nvr, OnlineAsk(n) PROVE LiveIsOpen'
  BY <1>0, <1>3 DEF OnlineAsk, Put, Goto, Accepts, Stored, thread, net, commands
<1>4. ASSUME NEW n \in Nvr, OnlineRefused(n) PROVE LiveIsOpen'
  BY <1>0, <1>4 DEF OnlineRefused, Goto, Accepts, Stored, thread, net, commands
<1>5. ASSUME NEW n \in Nvr, BeatBegin(n) PROVE LiveIsOpen'
  BY <1>0, <1>5 DEF BeatBegin, Goto, Target, thread, net, commands
<1>6. ASSUME NEW n \in Nvr, BeatDone(n) PROVE LiveIsOpen'
  BY <1>0, <1>6 DEF BeatDone, Goto, thread, net, commands
<1>7. ASSUME NEW n \in Nvr, BeatFail(n) PROVE LiveIsOpen'
  BY <1>0, <1>7 DEF BeatFail, Goto, thread, net, commands
<1>8. ASSUME NEW n \in Nvr, ClearSockfd(n) PROVE LiveIsOpen'
  BY <1>0, <1>8 DEF ClearSockfd, Goto, thread, net, commands
<1>9. ASSUME NEW n \in Nvr, Unconnect(n) PROVE LiveIsOpen'
  BY <1>0, <1>9 DEF Unconnect, Goto, thread, net, commands
<1>10. ASSUME NEW n \in Nvr, BeatDue(n) PROVE LiveIsOpen'
  BY <1>0, <1>10 DEF BeatDue, Goto, thread, net, commands
<1>11. ASSUME NEW n \in Nvr, Close(n) PROVE LiveIsOpen'
  BY <1>0, <1>11 DEF Close, Goto, thread, net, commands
<1>12. ASSUME NEW n \in Nvr, NEW h \in Socket, Open(n, h) PROVE LiveIsOpen'
  BY SMTT(30), <1>0, <1>12, OpenIs DEF Open, Goto
<1>13. CASE UNCHANGED <<t, iSocket, owner, conn, at>>
  BY <1>0, <1>13
<1>. QED
  BY <1>1, <1>2, <1>3, <1>4, <1>5, <1>6, <1>7, <1>8, <1>9, <1>10, <1>11, <1>12, <1>13 DEF Next, Sender, Connection, thread, net, commands, Store, UiPut, Turn, Get, Refuse, Check, SendBegin, NoSocket, SendDone, SendFail, UiCheck

\* A command stays acceptable.
LEMMA AcceptedKept ==
    ASSUME Inv, Next, NEW m \in Nvr, NEW c, Accepted(m, c)
    PROVE  Accepted(m, c)'
<1>. USE CommandAssumption DEF Nvr, Conns, ThreadType, NetType, Sockets, Accepted, Up, Labels
<1>0. ThreadType /\ NetType /\ Sockets
  BY DEF Inv, TypeOK
<1>1. CASE Create
  BY <1>0, <1>1 DEF Create, Goto, thread, net, commands
<1>2. ASSUME NEW n \in Nvr, SetConnect(n) PROVE Accepted(m, c)'
  BY <1>0, <1>2 DEF SetConnect, Goto, thread, net, commands
<1>3. ASSUME NEW n \in Nvr, OnlineAsk(n) PROVE Accepted(m, c)'
  BY <1>0, <1>3 DEF OnlineAsk, Put, Goto, Accepts, Stored, thread, net, commands
<1>4. ASSUME NEW n \in Nvr, OnlineRefused(n) PROVE Accepted(m, c)'
  BY <1>0, <1>4 DEF OnlineRefused, Goto, Accepts, Stored, thread, net, commands
<1>5. ASSUME NEW n \in Nvr, BeatBegin(n) PROVE Accepted(m, c)'
  BY <1>0, <1>5 DEF BeatBegin, Goto, Target, thread, net, commands
<1>6. ASSUME NEW n \in Nvr, BeatDone(n) PROVE Accepted(m, c)'
  BY <1>0, <1>6 DEF BeatDone, Goto, thread, net, commands
<1>7. ASSUME NEW n \in Nvr, BeatFail(n) PROVE Accepted(m, c)'
  BY <1>0, <1>7 DEF BeatFail, Goto, thread, net, commands
<1>8. ASSUME NEW n \in Nvr, ClearSockfd(n) PROVE Accepted(m, c)'
  BY <1>0, <1>8 DEF ClearSockfd, Goto, thread, net, commands
<1>9. ASSUME NEW n \in Nvr, Unconnect(n) PROVE Accepted(m, c)'
  BY <1>0, <1>9 DEF Unconnect, Goto, thread, net, commands
<1>10. ASSUME NEW n \in Nvr, BeatDue(n) PROVE Accepted(m, c)'
  BY <1>0, <1>10 DEF BeatDue, Goto, thread, net, commands
<1>11. ASSUME NEW n \in Nvr, Close(n) PROVE Accepted(m, c)'
  BY <1>0, <1>11 DEF Close, Goto, thread, net, commands
<1>12. ASSUME NEW n \in Nvr, NEW h \in Socket, Open(n, h) PROVE Accepted(m, c)'
  BY <1>0, <1>12, OpenIs DEF Open, Goto
<1>13. CASE UNCHANGED <<t, conn, owner>>
  BY <1>0, <1>13
<1>. QED
  BY <1>1, <1>2, <1>3, <1>4, <1>5, <1>6, <1>7, <1>8, <1>9, <1>10, <1>11, <1>12, <1>13 DEF Next, Sender, Connection, thread, net, commands, Store, UiPut, Turn, Get, Refuse, Check, SendBegin, NoSocket, SendDone, SendFail, UiCheck

\* A connection that is gone never comes back.
LEMMA ClosedKept ==
    ASSUME Inv, Next, NEW c \in Conns, ~Live(c)
    PROVE  (~Live(c))'
<1>. USE CommandAssumption DEF Nvr, Conns, NetType, Live
<1>0. NetType
  BY DEF Inv, TypeOK
<1>1. ASSUME NEW n \in Nvr, Close(n) PROVE (~Live(c))'
  BY <1>0, <1>1 DEF Close, Goto, thread, net, commands
<1>2. ASSUME NEW n \in Nvr, NEW h \in Socket, Open(n, h) PROVE (~Live(c))'
  BY <1>0, <1>2, OpenIs DEF Open
<1>3. CASE UNCHANGED <<at>>
  BY <1>0, <1>3
<1>. QED
  BY <1>1, <1>2, <1>3 DEF Next, Sender, Connection, thread, net, commands, Create, Store, UiPut, Turn, Get, Refuse, Check, SendBegin, NoSocket, SendDone, SendFail, SetConnect, OnlineAsk, OnlineRefused, BeatBegin, BeatDone, BeatFail, ClearSockfd, Unconnect, BeatDue, UiCheck

\* The commands in the queues were accepted.
LEMMA QueueKept ==
    ASSUME Inv, Next
    PROVE  Queued'
<1>. USE DEF Given, Queued, Hands, Checks, Aim
<1>0. Given /\ CommandType /\ SenderType /\ ThreadType /\ Sockets /\ NetType
  BY DEF Inv, TypeOK
<1>1. CASE UiPut
  <2>1. PICK n \in Nvr, c \in Nat : Put(n, c) /\ Accepted(n, c)
    BY <1>0, <1>1 DEF CommandType, UiPut
  <2>2. Accepted(n, c)'
    BY <2>1, AcceptedKept
  <2>. QED
    BY SMTT(30), <1>0, <2>1, <2>2, PutIs, AcceptedKept
<1>2. CASE Get
  BY <1>0, <1>2, GetIs, AcceptedKept
<1>3. ASSUME NEW n \in Nvr, OnlineAsk(n) PROVE Queued'
  <2>0. conn[n] \in Conns /\ owner[conn[n]] = n /\ conn[n] \in Nat
    BY <1>0, <1>3 DEF OnlineAsk, Sockets, Up, NetType, Conns
  <2>1. PICK c \in Nat : c = conn[n] /\ c \in Conns /\ owner[c] = n /\ Put(n, c)
    BY <2>0, <1>3 DEF OnlineAsk
  <2>2. owner' = owner /\ t'[n] = "up"
    BY <1>0, <1>3 DEF OnlineAsk, net, Goto, ThreadType
  <2>3. Accepted(n, c)'
    BY <2>1, <2>2 DEF Accepted, Conns
  <2>. QED
    BY SMTT(30), <1>0, <2>1, <2>3, PutIs, AcceptedKept
<1>4. CASE UNCHANGED <<queue>>
  BY <1>0, <1>4, AcceptedKept
<1>. QED
  BY <1>1, <1>2, <1>3, <1>4 DEF Next, Sender, Connection, thread, net, commands, Create, Store, Turn, Refuse, Check, SendBegin, NoSocket, SendDone, SendFail, SetConnect, OnlineRefused, BeatBegin, BeatDone, BeatFail, ClearSockfd, Unconnect, BeatDue, Close, UiCheck, Open

\* What the user interface and the sender hold was accepted.
LEMMA HandsKept ==
    ASSUME Inv, Next
    PROVE  Hands'
<1>. USE DEF Given, Queued, Hands, Checks, Aim
<1>0. Given /\ CommandType /\ SenderType /\ ThreadType /\ Sockets
  BY DEF Inv, TypeOK
<1>1. CASE UiPut
  BY <1>0, <1>1, AcceptedKept DEF UiPut, SenderType, CommandType, Again, commands, thread, net
<1>2. CASE Turn
  BY <1>0, <1>2, AcceptedKept DEF Turn, SenderType, CommandType, Again, commands, thread, net
<1>3. CASE Get
  <2>1. Accepted(s.n, queue[s.n][1].conn)
    BY <1>0, <1>3, GetIs
  <2>2. s.n' = s.n /\ s.pkt' = queue[s.n][1] /\ ui' = ui /\ s.n \in Nvr
    BY <1>0, <1>3, GetIs DEF Get, SenderType
  <2>. QED
    BY <1>0, <2>1, <2>2, AcceptedKept DEF CommandType
<1>4. CASE Refuse
  BY <1>0, <1>4, AcceptedKept DEF Refuse, SenderType, CommandType, Again, commands, thread, net
<1>5. CASE Check
  BY <1>0, <1>5, AcceptedKept DEF Check, SenderType, CommandType, Again, commands, thread, net
<1>6. CASE SendBegin
  BY <1>0, <1>6, AcceptedKept DEF SendBegin, SenderType, CommandType, Again, commands, thread, net
<1>7. CASE NoSocket
  BY <1>0, <1>7, AcceptedKept DEF NoSocket, SenderType, CommandType, Again, commands, thread, net
<1>8. CASE SendDone
  BY <1>0, <1>8, AcceptedKept DEF SendDone, SenderType, CommandType, Again, commands, thread, net
<1>9. CASE SendFail
  BY <1>0, <1>9, AcceptedKept DEF SendFail, SenderType, CommandType, Again, commands, thread, net
<1>10. ASSUME NEW n \in Nvr, UiCheck(n) PROVE Hands'
  <2>1. Accepted(n, conn[n])
    BY <1>0, <1>10 DEF UiCheck, Accepts, Accepted, Sockets, Up, Inv, TypeOK, NetType
  <2>2. Accepted(n, conn[n])' /\ ui' = [n |-> n, conn |-> conn[n]] /\ s' = s /\ conn' = conn
    BY <2>1, <1>10, AcceptedKept DEF UiCheck, thread, net
  <2>. QED
    BY <1>0, <2>2, AcceptedKept DEF SenderType
<1>11. CASE UNCHANGED <<ui, s>>
  BY <1>0, <1>11, AcceptedKept DEF CommandType, SenderType, Nvr
<1>. QED
  BY <1>1, <1>2, <1>3, <1>4, <1>5, <1>6, <1>7, <1>8, <1>9, <1>10, <1>11 DEF Next, Sender, Connection, thread, net, commands, Create, Store, SetConnect, OnlineAsk, OnlineRefused, BeatBegin, BeatDone, BeatFail, ClearSockfd, Unconnect, BeatDue, Close, Open

\* What the sender checked, what it refused, and what is known, are connections.
LEMMA ChecksKept ==
    ASSUME Inv, Next
    PROVE  Checks'
<1>. USE CommandAssumption DEF Nvr, Conns, Labels
<1>0. Given /\ NetType /\ SenderType /\ ThreadType /\ Sockets
  BY DEF Inv, TypeOK
<1>1. CASE Store
  BY <1>0, <1>1 DEF Store, thread, net, commands, Given, Checks, SenderType
<1>2. CASE Turn
  BY <1>0, <1>2 DEF Turn, Running, thread, net, commands, Given, Checks, SenderType
<1>3. CASE Get
  BY <1>0, <1>3, GetIs DEF Get, net, Given, Checks, Hands
<1>4. CASE Refuse
  BY <1>0, <1>4 DEF Refuse, net, Given, Checks, Hands, Accepted, Again
<1>5. CASE Check
  BY <1>0, <1>5 DEF Check, net, Given, Checks, SenderType, Sockets, NetType
<1>6. CASE SendBegin
  BY <1>0, <1>6 DEF SendBegin, Write, Target, thread, net, commands, Given, Checks, SenderType
<1>7. CASE NoSocket
  BY <1>0, <1>7 DEF NoSocket, Again, Target, thread, net, commands, Given, Checks, SenderType
<1>8. CASE SendDone
  BY <1>0, <1>8 DEF SendDone, Again, Write, thread, net, commands, Given, Checks, SenderType
<1>9. CASE SendFail
  BY <1>0, <1>9 DEF SendFail, Again, Cut, thread, net, commands, Given, Checks, SenderType
<1>10. ASSUME NEW n \in Nvr, NEW h \in Socket, Open(n, h) PROVE Checks'
  <2>0. PICK k : k = Len(owner) + 1 /\ k \notin Conns /\ k # 0 /\ Conns' = Conns \cup {k}
    BY <1>10, OpenIs
  <2>1. /\ conn' = [conn EXCEPT ![n] = k] /\ (known' = known \/ (n < boot /\ known' = known \cup {k}))
        /\ boot' = boot /\ dropped' = dropped /\ s' = s
        /\ \A c \in Conns : owner'[c] = owner[c]
    BY <1>10, <2>0, OpenIs DEF Open
  <2>2. conn \in [Nvr -> Conns \cup {0}] /\ known \subseteq Conns /\ Checks
    BY DEF Inv, TypeOK, NetType, Given
  <2>3. \A m \in Nvr : conn'[m] \in known' => m < boot'
    BY <2>0, <2>1, <2>2 DEF Checks
  <2>4. /\ s.pc \in {"lock", "sending"} => s.chk \in Conns' /\ owner'[s.chk] = s.n
        /\ dropped # NoPacket => dropped.conn \in Conns'
    BY <2>0, <2>1, <2>2 DEF Checks
  <2>. QED
    BY <2>1, <2>3, <2>4 DEF Checks
<1>11. CASE UNCHANGED <<boot, owner, conn, known, dropped, s>>
  BY <1>0, <1>11 DEF Given, Checks
<1>. QED
  BY <1>1, <1>2, <1>3, <1>4, <1>5, <1>6, <1>7, <1>8, <1>9, <1>10, <1>11 DEF Next, Sender, Connection, thread, net, commands, Create, UiPut, SetConnect, OnlineAsk, OnlineRefused, BeatBegin, BeatDone, BeatFail, ClearSockfd, Unconnect, BeatDue, Close, UiCheck

\* The mutex is held by who writes.
LEMMA MutexKept ==
    ASSUME Inv, Next
    PROVE  Mutex'
<1>. USE CommandAssumption DEF Nvr, Conns, ThreadType, SenderType, Mutex, Labels
<1>0. ThreadType /\ SenderType /\ Mutex
  BY DEF Inv, TypeOK
<1>1. CASE Create
  BY <1>0, <1>1 DEF Create, Goto, thread, net, commands
<1>2. CASE Turn
  BY <1>0, <1>2 DEF Turn, Running, thread, net, commands
<1>3. CASE Get
  BY <1>0, <1>3 DEF Get, Running, thread, net, commands
<1>4. CASE Refuse
  BY <1>0, <1>4 DEF Refuse, Again, thread, net, commands
<1>5. CASE Check
  BY <1>0, <1>5 DEF Check, thread, net, commands
<1>6. CASE SendBegin
  BY <1>0, <1>6 DEF SendBegin, Target, thread, net, commands
<1>7. CASE NoSocket
  BY <1>0, <1>7 DEF NoSocket, Again, Target, thread, net, commands
<1>8. CASE SendDone
  BY <1>0, <1>8 DEF SendDone, Again, thread, net, commands
<1>9. CASE SendFail
  BY <1>0, <1>9 DEF SendFail, Again, thread, net, commands
<1>10. ASSUME NEW n \in Nvr, SetConnect(n) PROVE Mutex'
  BY <1>0, <1>10 DEF SetConnect, Goto, thread, net, commands
<1>11. ASSUME NEW n \in Nvr, OnlineAsk(n) PROVE Mutex'
  BY <1>0, <1>11 DEF OnlineAsk, Put, Goto, Accepts, Stored, thread, net, commands
<1>12. ASSUME NEW n \in Nvr, OnlineRefused(n) PROVE Mutex'
  BY <1>0, <1>12 DEF OnlineRefused, Goto, Accepts, Stored, thread, net, commands
<1>13. ASSUME NEW n \in Nvr, BeatBegin(n) PROVE Mutex'
  BY <1>0, <1>13 DEF BeatBegin, Goto, Target, thread, net, commands
<1>14. ASSUME NEW n \in Nvr, BeatDone(n) PROVE Mutex'
  BY <1>0, <1>14 DEF BeatDone, Goto, thread, net, commands
<1>15. ASSUME NEW n \in Nvr, BeatFail(n) PROVE Mutex'
  BY <1>0, <1>15 DEF BeatFail, Goto, thread, net, commands
<1>16. ASSUME NEW n \in Nvr, ClearSockfd(n) PROVE Mutex'
  BY <1>0, <1>16 DEF ClearSockfd, Goto, thread, net, commands
<1>17. ASSUME NEW n \in Nvr, Unconnect(n) PROVE Mutex'
  BY <1>0, <1>17 DEF Unconnect, Goto, thread, net, commands
<1>18. ASSUME NEW n \in Nvr, BeatDue(n) PROVE Mutex'
  BY <1>0, <1>18 DEF BeatDue, Goto, thread, net, commands
<1>19. ASSUME NEW n \in Nvr, Close(n) PROVE Mutex'
  BY <1>0, <1>19 DEF Close, Goto, thread, net, commands
<1>20. ASSUME NEW n \in Nvr, NEW h \in Socket, Open(n, h) PROVE Mutex'
  BY <1>0, <1>20 DEF Open, Goto, thread, net, commands
<1>21. CASE UNCHANGED <<hPmsgMutex, t, s>>
  BY <1>0, <1>21
<1>. QED
  BY <1>1, <1>2, <1>3, <1>4, <1>5, <1>6, <1>7, <1>8, <1>9, <1>10, <1>11, <1>12, <1>13, <1>14, <1>15, <1>16, <1>17, <1>18, <1>19, <1>20, <1>21 DEF Next, Sender, Connection, thread, net, commands, Store, UiPut, UiCheck

\* What holds on a connection, said of what the state says of it.
LEMMA TypesOf ==
    ASSUME NetType, WireType
    PROVE  /\ \A c \in Conns : owner[c] \in Nvr /\ wire[c].last \in Parts /\ wire[c].prev \in Parts
           /\ 0 \notin Conns /\ 0 \notin Nvr
<1>1. \A c \in Conns : owner[c] \in Nvr /\ wire[c] \in Pairs
  BY DEF NetType, WireType, Conns
<1>. QED
  BY <1>1 DEF Pairs, Conns, Nvr

\* A step that neither begins nor ends a frame.
LEMMA BegunFrame ==
    ASSUME Begun, UNCHANGED <<wire, owner, conn>>, ThreadType, NetType, WireType,
           \A n \in Nvr : t'[n] = "beating" <=> t[n] = "beating",
           s' = s \/ (s.pc # "sending" /\ s'.pc # "sending")
    PROVE  Begun'
<1>1. \A c \in Conns : owner[c] \in Nvr
  BY TypesOf
<1>2. ASSUME NEW c \in Conns PROVE BegunOn(c)'
  <2>1. BegunOn(c) /\ owner[c] \in Nvr /\ Conns' = Conns
    BY <1>1, <1>2 DEF Begun, Conns
  <2>. QED
    BY <2>1 DEF BegunOn
<1>. QED
  BY <1>2 DEF Begun, Conns

LEMMA BeatBeginAt ==
    ASSUME Inv, NEW n \in Nvr, BeatBegin(n)
    PROVE  /\ conn[n] \in Conns /\ owner[conn[n]] = n
           /\ owner' = owner /\ conn' = conn /\ at' = at /\ Conns' = Conns
           /\ t'[n] = "beating" /\ (\A m \in Nvr \ {n} : t'[m] = t[m]) /\ t[n] = "beat" /\ ~(s.pc = "sending" /\ s.n = n) /\ s' = s
<1>1. t \in [Nvr -> Labels] /\ hPmsgMutex[n] \in {"free", "cmd", "beat"}
  BY DEF Inv, TypeOK, ThreadType
<1>2. conn[n] \in Conns /\ owner[conn[n]] = n
  BY DEF Inv, TypeOK, NetType, Sockets, Up, BeatBegin
<1>. QED
  BY <1>1, <1>2 DEF Inv, Mutex, BeatBegin, Goto, Conns

LEMMA BeatDoneAt ==
    ASSUME Inv, NEW n \in Nvr, BeatDone(n)
    PROVE  /\ conn[n] \in Conns /\ owner[conn[n]] = n
           /\ owner' = owner /\ conn' = conn /\ at' = at /\ Conns' = Conns
           /\ t'[n] = "up" /\ (\A m \in Nvr \ {n} : t'[m] = t[m]) /\ t[n] = "beating" /\ ~(s.pc = "sending" /\ s.n = n) /\ s' = s
<1>1. t \in [Nvr -> Labels] /\ hPmsgMutex[n] \in {"free", "cmd", "beat"}
  BY DEF Inv, TypeOK, ThreadType
<1>2. conn[n] \in Conns /\ owner[conn[n]] = n
  BY DEF Inv, TypeOK, NetType, Sockets, Up, BeatDone
<1>. QED
  BY <1>1, <1>2 DEF Inv, Mutex, BeatDone, Goto, Conns

LEMMA BeatFailAt ==
    ASSUME Inv, NEW n \in Nvr, BeatFail(n)
    PROVE  /\ conn[n] \in Conns /\ owner[conn[n]] = n
           /\ owner' = owner /\ conn' = conn /\ at' = at /\ Conns' = Conns
           /\ t'[n] = "lost" /\ (\A m \in Nvr \ {n} : t'[m] = t[m]) /\ t[n] = "beating" /\ ~(s.pc = "sending" /\ s.n = n) /\ s' = s
<1>1. t \in [Nvr -> Labels] /\ hPmsgMutex[n] \in {"free", "cmd", "beat"}
  BY DEF Inv, TypeOK, ThreadType
<1>2. conn[n] \in Conns /\ owner[conn[n]] = n
  BY DEF Inv, TypeOK, NetType, Sockets, Up, BeatFail
<1>. QED
  BY <1>1, <1>2 DEF Inv, Mutex, BeatFail, Goto, Conns

LEMMA SendBeginAt ==
    ASSUME Inv, SendBegin
    PROVE  /\ s.n \in Nvr
           /\ owner' = owner /\ conn' = conn /\ at' = at /\ Conns' = Conns
           /\ t[s.n] # "beating" /\ s.pc = "lock" /\ t' = t /\ s' = [s EXCEPT !.pc = "sending", !.to = Target(s.n)]
<1>1. s.n \in Nvr
  BY SenderAt DEF Inv, TypeOK
<1>2. t[s.n] # "beating" /\ s.pc = "lock"
  BY <1>1 DEF Inv, Mutex, SendBegin
<1>3. s' = [s EXCEPT !.pc = "sending", !.to = Target(s.n)]
  BY DEF SendBegin
<1>. QED
  BY <1>1, <1>2, <1>3 DEF SendBegin, Conns, thread

LEMMA SendDoneAt ==
    ASSUME Inv, SendDone
    PROVE  /\ s.n \in Nvr
           /\ owner' = owner /\ conn' = conn /\ at' = at /\ Conns' = Conns
           /\ t[s.n] # "beating" /\ s.pc = "sending" /\ t' = t /\ s'.pc = "get" 
<1>1. s.n \in Nvr
  BY SenderAt DEF Inv, TypeOK
<1>2. t[s.n] # "beating" /\ s.pc = "sending"
  BY <1>1 DEF Inv, Mutex, SendDone
<1>3. s'.pc = "get"
  BY DEF Inv, TypeOK, SenderType, Again, SendDone
<1>. QED
  BY <1>1, <1>2, <1>3 DEF SendDone, Conns, thread

LEMMA SendFailAt ==
    ASSUME Inv, SendFail
    PROVE  /\ s.n \in Nvr
           /\ owner' = owner /\ conn' = conn /\ at' = at /\ Conns' = Conns
           /\ t[s.n] # "beating" /\ s.pc = "sending" /\ t' = t /\ s'.pc = "get" 
<1>1. s.n \in Nvr
  BY SenderAt DEF Inv, TypeOK
<1>2. t[s.n] # "beating" /\ s.pc = "sending"
  BY <1>1 DEF Inv, Mutex, SendFail
<1>3. s'.pc = "get"
  BY DEF Inv, TypeOK, SenderType, Again, SendFail
<1>. QED
  BY <1>1, <1>2, <1>3 DEF SendFail, Conns, thread

\* The steps that begin or end a frame.
LEMMA BeatBeginBegun ==
    ASSUME Inv, NEW n \in Nvr, BeatBegin(n), NEW c \in Conns
    PROVE  BegunOn(c)'
<1>1. WireType /\ NetType /\ SenderType /\ BegunOn(c)
  BY DEF Inv, TypeOK, Begun
<1>2. owner[c] \in Nvr /\ wire[c].last \in Parts /\ 0 \notin Conns /\ 0 \notin Nvr
  BY <1>1, TypesOf
<1>3. /\ wire'[conn[n]] = [prev |-> wire[conn[n]].last, last |-> Part(n, 0, conn[n], 1)]
      /\ \A d \in Conns \ {conn[n]} : wire'[d] = wire[d]
  BY BeatBeginIs
<1>4. /\ conn[n] \in Conns /\ owner[conn[n]] = n /\ owner' = owner /\ conn' = conn /\ Conns' = Conns
      /\ t'[n] = "beating" /\ (\A m \in Nvr \ {n} : t'[m] = t[m]) /\ t[n] = "beat" /\ ~(s.pc = "sending" /\ s.n = n) /\ s' = s
  BY BeatBeginAt
<1>5. CASE c = conn[n]
  BY <1>1, <1>2, <1>3, <1>4, <1>5, PartIs DEF BegunOn, SenderType
<1>6. CASE c # conn[n]
  BY <1>1, <1>2, <1>3, <1>4, <1>6 DEF BegunOn, SenderType
<1>. QED
  BY <1>5, <1>6

LEMMA BeatDoneBegun ==
    ASSUME Inv, NEW n \in Nvr, BeatDone(n), NEW c \in Conns
    PROVE  BegunOn(c)'
<1>1. WireType /\ NetType /\ SenderType /\ BegunOn(c)
  BY DEF Inv, TypeOK, Begun
<1>2. owner[c] \in Nvr /\ wire[c].last \in Parts /\ 0 \notin Conns /\ 0 \notin Nvr
  BY <1>1, TypesOf
<1>3. /\ wire'[conn[n]] = [prev |-> wire[conn[n]].last, last |-> Part(n, 0, conn[n], 2)]
      /\ \A d \in Conns \ {conn[n]} : wire'[d] = wire[d]
  BY BeatDoneIs
<1>4. /\ conn[n] \in Conns /\ owner[conn[n]] = n /\ owner' = owner /\ conn' = conn /\ Conns' = Conns
      /\ t'[n] = "up" /\ (\A m \in Nvr \ {n} : t'[m] = t[m]) /\ t[n] = "beating" /\ ~(s.pc = "sending" /\ s.n = n) /\ s' = s
  BY BeatDoneAt
<1>5. CASE c = conn[n]
  BY <1>1, <1>2, <1>3, <1>4, <1>5, PartIs DEF BegunOn, SenderType
<1>6. CASE c # conn[n]
  BY <1>1, <1>2, <1>3, <1>4, <1>6 DEF BegunOn, SenderType
<1>. QED
  BY <1>5, <1>6

LEMMA BeatFailBegun ==
    ASSUME Inv, NEW n \in Nvr, BeatFail(n), NEW c \in Conns
    PROVE  BegunOn(c)'
<1>1. WireType /\ NetType /\ SenderType /\ BegunOn(c)
  BY DEF Inv, TypeOK, Begun
<1>2. owner[c] \in Nvr /\ wire[c].last \in Parts /\ 0 \notin Conns /\ 0 \notin Nvr
  BY <1>1, TypesOf
<1>3. /\ wire'[conn[n]].prev = wire[conn[n]].prev
      /\ wire'[conn[n]].last = IF wire[conn[n]].last = Part(n, 0, conn[n], 1) THEN Part(n, 0, conn[n], 0) ELSE wire[conn[n]].last
      /\ \A d \in Conns \ {conn[n]} : wire'[d] = wire[d]
  BY BeatFailIs
<1>4. /\ conn[n] \in Conns /\ owner[conn[n]] = n /\ owner' = owner /\ conn' = conn /\ Conns' = Conns
      /\ t'[n] = "lost" /\ (\A m \in Nvr \ {n} : t'[m] = t[m]) /\ t[n] = "beating" /\ ~(s.pc = "sending" /\ s.n = n) /\ s' = s
  BY BeatFailAt
<1>5. CASE c = conn[n]
  BY <1>1, <1>2, <1>3, <1>4, <1>5, PartIs DEF BegunOn, SenderType
<1>6. CASE c # conn[n]
  BY <1>1, <1>2, <1>3, <1>4, <1>6 DEF BegunOn, SenderType
<1>. QED
  BY <1>5, <1>6

LEMMA SendBeginBegun ==
    ASSUME Inv, SendBegin, NEW c \in Conns
    PROVE  BegunOn(c)'
<1>1. WireType /\ NetType /\ SenderType /\ BegunOn(c)
  BY DEF Inv, TypeOK, Begun
<1>2. owner[c] \in Nvr /\ wire[c].last \in Parts /\ 0 \notin Conns /\ 0 \notin Nvr
  BY <1>1, TypesOf
<1>3. /\ wire'[Target(s.n)] = [prev |-> wire[Target(s.n)].last, last |-> Part(s.n, s.pkt.id, s.chk, 1)]
      /\ \A d \in Conns \ {Target(s.n)} : wire'[d] = wire[d]
  BY SendBeginIs
<1>4. /\ s.n \in Nvr /\ owner' = owner /\ conn' = conn /\ Conns' = Conns
      /\ t[s.n] # "beating" /\ s.pc = "lock" /\ t' = t /\ s' = [s EXCEPT !.pc = "sending", !.to = Target(s.n)]
  BY SendBeginAt
<1>5. CASE c = Target(s.n)
  BY <1>1, <1>2, <1>3, <1>4, <1>5, PartIs DEF BegunOn, SenderType, Inv, Given, Queued, Hands, Checks, Aim
<1>6. CASE c # Target(s.n)
  BY <1>1, <1>2, <1>3, <1>4, <1>6 DEF BegunOn, SenderType
<1>. QED
  BY <1>5, <1>6

LEMMA SendDoneBegun ==
    ASSUME Inv, SendDone, NEW c \in Conns
    PROVE  BegunOn(c)'
<1>1. WireType /\ NetType /\ SenderType /\ BegunOn(c)
  BY DEF Inv, TypeOK, Begun
<1>2. owner[c] \in Nvr /\ wire[c].last \in Parts /\ 0 \notin Conns /\ 0 \notin Nvr
  BY <1>1, TypesOf
<1>3. /\ wire'[s.to] = [prev |-> wire[s.to].last, last |-> Part(s.n, s.pkt.id, s.chk, 2)]
      /\ \A d \in Conns \ {s.to} : wire'[d] = wire[d]
  BY SendDoneIs
<1>4. /\ s.n \in Nvr /\ owner' = owner /\ conn' = conn /\ Conns' = Conns
      /\ t[s.n] # "beating" /\ s.pc = "sending" /\ t' = t /\ s'.pc = "get" 
  BY SendDoneAt
<1>5. CASE c = s.to
  BY <1>1, <1>2, <1>3, <1>4, <1>5, PartIs DEF BegunOn, Inv, Given, Queued, Hands, Checks, Aim
<1>6. CASE c # s.to
  BY <1>1, <1>2, <1>3, <1>4, <1>6 DEF BegunOn, SenderType
<1>. QED
  BY <1>5, <1>6

LEMMA SendFailBegun ==
    ASSUME Inv, SendFail, NEW c \in Conns
    PROVE  BegunOn(c)'
<1>1. WireType /\ NetType /\ SenderType /\ BegunOn(c)
  BY DEF Inv, TypeOK, Begun
<1>2. owner[c] \in Nvr /\ wire[c].last \in Parts /\ 0 \notin Conns /\ 0 \notin Nvr
  BY <1>1, TypesOf
<1>3. /\ wire'[s.to].prev = wire[s.to].prev
      /\ wire'[s.to].last = IF wire[s.to].last = Part(s.n, s.pkt.id, s.chk, 1) THEN Part(s.n, s.pkt.id, s.chk, 0) ELSE wire[s.to].last
      /\ \A d \in Conns \ {s.to} : wire'[d] = wire[d]
  BY SendFailIs
<1>4. /\ s.n \in Nvr /\ owner' = owner /\ conn' = conn /\ Conns' = Conns
      /\ t[s.n] # "beating" /\ s.pc = "sending" /\ t' = t /\ s'.pc = "get" 
  BY SendFailAt
<1>5. CASE c = s.to
  BY <1>1, <1>2, <1>3, <1>4, <1>5, PartIs DEF BegunOn, Inv, Given, Queued, Hands, Checks, Aim
<1>6. CASE c # s.to
  BY <1>1, <1>2, <1>3, <1>4, <1>6 DEF BegunOn, SenderType
<1>. QED
  BY <1>5, <1>6

LEMMA BeatBeginWhole ==
    ASSUME Inv, NEW n \in Nvr, BeatBegin(n), NEW c \in Conns
    PROVE  WholeOn(c)'
<1>1. WireType /\ NetType /\ SenderType /\ BegunOn(c) /\ WholeOn(c)
  BY DEF Inv, TypeOK, Begun, FramesWhole
<1>2. owner[c] \in Nvr /\ wire[c].last \in Parts /\ 0 \notin Conns /\ 0 \notin Nvr
  BY <1>1, TypesOf
<1>3. /\ wire'[conn[n]] = [prev |-> wire[conn[n]].last, last |-> Part(n, 0, conn[n], 1)]
      /\ \A d \in Conns \ {conn[n]} : wire'[d] = wire[d]
  BY BeatBeginIs
<1>4. /\ conn[n] \in Conns /\ owner[conn[n]] = n /\ owner' = owner /\ conn' = conn /\ Conns' = Conns
      /\ t'[n] = "beating" /\ (\A m \in Nvr \ {n} : t'[m] = t[m]) /\ t[n] = "beat" /\ ~(s.pc = "sending" /\ s.n = n) /\ s' = s
  BY BeatBeginAt
<1>5. CASE c = conn[n]
  BY <1>1, <1>2, <1>3, <1>4, <1>5, PartIs DEF BegunOn, WholeOn
<1>6. CASE c # conn[n]
  BY <1>1, <1>2, <1>3, <1>4, <1>6 DEF WholeOn
<1>. QED
  BY <1>5, <1>6

LEMMA BeatDoneWhole ==
    ASSUME Inv, NEW n \in Nvr, BeatDone(n), NEW c \in Conns
    PROVE  WholeOn(c)'
<1>1. WireType /\ NetType /\ SenderType /\ BegunOn(c) /\ WholeOn(c)
  BY DEF Inv, TypeOK, Begun, FramesWhole
<1>2. owner[c] \in Nvr /\ wire[c].last \in Parts /\ 0 \notin Conns /\ 0 \notin Nvr
  BY <1>1, TypesOf
<1>3. /\ wire'[conn[n]] = [prev |-> wire[conn[n]].last, last |-> Part(n, 0, conn[n], 2)]
      /\ \A d \in Conns \ {conn[n]} : wire'[d] = wire[d]
  BY BeatDoneIs
<1>4. /\ conn[n] \in Conns /\ owner[conn[n]] = n /\ owner' = owner /\ conn' = conn /\ Conns' = Conns
      /\ t'[n] = "up" /\ (\A m \in Nvr \ {n} : t'[m] = t[m]) /\ t[n] = "beating" /\ ~(s.pc = "sending" /\ s.n = n) /\ s' = s
  BY BeatDoneAt
<1>5. CASE c = conn[n]
  BY <1>1, <1>2, <1>3, <1>4, <1>5, PartIs DEF BegunOn, WholeOn
<1>6. CASE c # conn[n]
  BY <1>1, <1>2, <1>3, <1>4, <1>6 DEF WholeOn
<1>. QED
  BY <1>5, <1>6

LEMMA BeatFailWhole ==
    ASSUME Inv, NEW n \in Nvr, BeatFail(n), NEW c \in Conns
    PROVE  WholeOn(c)'
<1>1. WireType /\ NetType /\ SenderType /\ BegunOn(c) /\ WholeOn(c)
  BY DEF Inv, TypeOK, Begun, FramesWhole
<1>2. owner[c] \in Nvr /\ wire[c].last \in Parts /\ 0 \notin Conns /\ 0 \notin Nvr
  BY <1>1, TypesOf
<1>3. /\ wire'[conn[n]].prev = wire[conn[n]].prev
      /\ wire'[conn[n]].last = IF wire[conn[n]].last = Part(n, 0, conn[n], 1) THEN Part(n, 0, conn[n], 0) ELSE wire[conn[n]].last
      /\ \A d \in Conns \ {conn[n]} : wire'[d] = wire[d]
  BY BeatFailIs
<1>4. /\ conn[n] \in Conns /\ owner[conn[n]] = n /\ owner' = owner /\ conn' = conn /\ Conns' = Conns
      /\ t'[n] = "lost" /\ (\A m \in Nvr \ {n} : t'[m] = t[m]) /\ t[n] = "beating" /\ ~(s.pc = "sending" /\ s.n = n) /\ s' = s
  BY BeatFailAt
<1>5. CASE c = conn[n]
  BY <1>1, <1>2, <1>3, <1>4, <1>5, PartIs DEF BegunOn, WholeOn
<1>6. CASE c # conn[n]
  BY <1>1, <1>2, <1>3, <1>4, <1>6 DEF WholeOn
<1>. QED
  BY <1>5, <1>6

LEMMA SendBeginWhole ==
    ASSUME Inv, SendBegin, NEW c \in Conns
    PROVE  WholeOn(c)'
<1>1. WireType /\ NetType /\ SenderType /\ BegunOn(c) /\ WholeOn(c)
  BY DEF Inv, TypeOK, Begun, FramesWhole
<1>2. owner[c] \in Nvr /\ wire[c].last \in Parts /\ 0 \notin Conns /\ 0 \notin Nvr
  BY <1>1, TypesOf
<1>3. /\ wire'[Target(s.n)] = [prev |-> wire[Target(s.n)].last, last |-> Part(s.n, s.pkt.id, s.chk, 1)]
      /\ \A d \in Conns \ {Target(s.n)} : wire'[d] = wire[d]
  BY SendBeginIs
<1>4. /\ s.n \in Nvr /\ owner' = owner /\ conn' = conn /\ Conns' = Conns
      /\ t[s.n] # "beating" /\ s.pc = "lock" /\ t' = t /\ s' = [s EXCEPT !.pc = "sending", !.to = Target(s.n)]
  BY SendBeginAt
<1>5. CASE c = Target(s.n)
  BY <1>1, <1>2, <1>3, <1>4, <1>5, PartIs DEF BegunOn, WholeOn
<1>6. CASE c # Target(s.n)
  BY <1>1, <1>2, <1>3, <1>4, <1>6 DEF WholeOn
<1>. QED
  BY <1>5, <1>6

LEMMA SendDoneWhole ==
    ASSUME Inv, SendDone, NEW c \in Conns
    PROVE  WholeOn(c)'
<1>1. WireType /\ NetType /\ SenderType /\ BegunOn(c) /\ WholeOn(c)
  BY DEF Inv, TypeOK, Begun, FramesWhole
<1>2. owner[c] \in Nvr /\ wire[c].last \in Parts /\ 0 \notin Conns /\ 0 \notin Nvr
  BY <1>1, TypesOf
<1>3. /\ wire'[s.to] = [prev |-> wire[s.to].last, last |-> Part(s.n, s.pkt.id, s.chk, 2)]
      /\ \A d \in Conns \ {s.to} : wire'[d] = wire[d]
  BY SendDoneIs
<1>4. /\ s.n \in Nvr /\ owner' = owner /\ conn' = conn /\ Conns' = Conns
      /\ t[s.n] # "beating" /\ s.pc = "sending" /\ t' = t /\ s'.pc = "get" 
  BY SendDoneAt
<1>5. CASE c = s.to
  BY <1>1, <1>2, <1>3, <1>4, <1>5, PartIs DEF BegunOn, WholeOn
<1>6. CASE c # s.to
  BY <1>1, <1>2, <1>3, <1>4, <1>6 DEF WholeOn
<1>. QED
  BY <1>5, <1>6

LEMMA SendFailWhole ==
    ASSUME Inv, SendFail, NEW c \in Conns
    PROVE  WholeOn(c)'
<1>1. WireType /\ NetType /\ SenderType /\ BegunOn(c) /\ WholeOn(c)
  BY DEF Inv, TypeOK, Begun, FramesWhole
<1>2. owner[c] \in Nvr /\ wire[c].last \in Parts /\ 0 \notin Conns /\ 0 \notin Nvr
  BY <1>1, TypesOf
<1>3. /\ wire'[s.to].prev = wire[s.to].prev
      /\ wire'[s.to].last = IF wire[s.to].last = Part(s.n, s.pkt.id, s.chk, 1) THEN Part(s.n, s.pkt.id, s.chk, 0) ELSE wire[s.to].last
      /\ \A d \in Conns \ {s.to} : wire'[d] = wire[d]
  BY SendFailIs
<1>4. /\ s.n \in Nvr /\ owner' = owner /\ conn' = conn /\ Conns' = Conns
      /\ t[s.n] # "beating" /\ s.pc = "sending" /\ t' = t /\ s'.pc = "get" 
  BY SendFailAt
<1>5. CASE c = s.to
  BY <1>1, <1>2, <1>3, <1>4, <1>5, PartIs DEF BegunOn, WholeOn
<1>6. CASE c # s.to
  BY <1>1, <1>2, <1>3, <1>4, <1>6 DEF WholeOn
<1>. QED
  BY <1>5, <1>6

\* A frame that is being written goes to the connection that was checked, or that one is gone.
LEMMA AimKept ==
    ASSUME Inv, Next
    PROVE  Aim'
<1>. USE DEF Aim
<1>1. CASE SendBegin
  <2>1. s' = [s EXCEPT !.pc = "sending", !.to = Target(s.n)] /\ at' = at /\ s.pc = "lock"
    BY <1>1, SendBeginAt
  <2>2. s.chk \in Conns /\ owner[s.chk] = s.n
    BY <2>1 DEF Inv, Given, Queued, Hands, Checks, Aim
  <2>3. s.chk' = s.chk /\ s.to' = Target(s.n)
    BY <2>1 DEF Inv, TypeOK, SenderType
  <2>4. Live(s.chk) => s.chk = Target(s.n)
    <3>1. SUFFICES ASSUME NEW h \in Socket, at[h] = s.chk PROVE s.chk = Target(s.n)
      BY DEF Live
    <3>2. at[h] # 0 /\ iSocket[s.n] = h /\ t[s.n] \in Up
      BY <2>2, <3>1 DEF Inv, LiveIsOpen, Conns
    <3>3. iSockfd[s.n] = h /\ h # 0
      BY <3>2, SenderAt DEF Inv, TypeOK, Sockets
    <3>. QED
      BY <3>1, <3>3 DEF Target
  <2>. QED
    BY <2>1, <2>2, <2>3, <2>4 DEF Live
<1>2. ASSUME s'.pc # "sending" \/ UNCHANGED s PROVE Aim'
  <2>1. CASE s'.pc # "sending"
    BY <2>1
  <2>2. CASE s' = s
    <3>1. s.pc = "sending" => s.chk \in Conns /\ (s.chk = s.to \/ ~Live(s.chk))
      BY DEF Inv, Given, Queued, Hands, Checks, Aim
    <3>2. ASSUME NEW c \in Conns, ~Live(c) PROVE ~Live(c)'
      BY <3>2, ClosedKept
    <3>. QED
      BY <2>2, <3>1, <3>2 DEF Live
  <2>. QED
    BY <1>2, <2>1, <2>2
<1>3. ~SendBegin => s'.pc # "sending" \/ UNCHANGED s
  <2>1. SenderType
    BY DEF Inv, TypeOK
  <2>. QED
    BY <2>1 DEF SenderType, Next, Sender, Connection, commands, Again, Create, Store, UiPut, UiCheck, Turn, Get, Refuse,
       Check, NoSocket, SendDone, SendFail, SetConnect, OnlineAsk, OnlineRefused, BeatBegin, BeatDone, BeatFail,
       ClearSockfd, Unconnect, BeatDue, Close, Open
<1>. QED
  BY <1>1, <1>2, <1>3

\* Opening a connection keeps what holds on the others.
LEMMA OpenBegun ==
    ASSUME Inv, NEW n \in Nvr, NEW h \in Socket, Open(n, h)
    PROVE  Begun' /\ FramesWhole'
<1>1. PICK k \in Nat \ {0} :
         /\ Conns' = Conns \cup {k} /\ k \notin Conns /\ owner'[k] = n /\ s' = s
         /\ wire'[k] = [prev |-> NoPart, last |-> NoPart]
         /\ \A c \in Conns : owner'[c] = owner[c] /\ wire'[c] = wire[c]
         /\ conn' = [conn EXCEPT ![n] = k] /\ t' = [t EXCEPT ![n] = "opened"] /\ t[n] = "top"
  <2>1. Len(owner) + 1 \in Nat \ {0}
    BY DEF Inv, TypeOK, NetType
  <2>. QED
    BY <2>1, OpenIs DEF Open, Goto
<1>2. NoPart.nvr = 0 /\ NoPart.part = 0 /\ 0 \notin Nvr
  BY PartIs DEF NoPart, Nvr
<1>3. t \in [Nvr -> Labels] /\ conn \in [Nvr -> Conns \cup {0}] /\ (\A c \in Conns : owner[c] \in Nvr) /\ s.n \in Nvr
      /\ s.to \in Conns \cup {0}
  BY TypesOf DEF Inv, TypeOK, ThreadType, NetType, SenderType
<1>4. ASSUME NEW c \in Conns PROVE BegunOn(c)' /\ WholeOn(c)'
  <2>1. BegunOn(c) /\ WholeOn(c)
    BY DEF Inv, Begun, FramesWhole
  <2>2. t'[owner[c]] = "beating" /\ conn'[owner[c]] = c <=> t[owner[c]] = "beating" /\ conn[owner[c]] = c
    BY <1>1, <1>3
  <2>3. owner'[c] = owner[c] /\ wire'[c] = wire[c] /\ Conns \subseteq Conns'
    BY <1>1
  <2>4. BegunOn(c)'
    BY <1>1, <2>1, <2>2, <2>3 DEF BegunOn
  <2>. QED
    BY <2>1, <2>3, <2>4 DEF WholeOn
<1>5. BegunOn(k)' /\ WholeOn(k)'
  <2>1. wire'[k].last.nvr = 0 /\ owner'[k] # 0
    BY <1>1, <1>2
  <2>2. k # s.to /\ t'[owner'[k]] # "beating"
    BY <1>1, <1>3
  <2>. QED
    BY <1>1, <2>1, <2>2 DEF BegunOn, WholeOn
<1>6. s.pc = "sending" => s.to # 0
  BY DEF Inv, Begun
<1>7. \A c \in Conns' : BegunOn(c)' /\ WholeOn(c)'
  BY <1>1, <1>4, <1>5
<1>8. s'.pc = "sending" => s'.to # 0
  BY <1>1, <1>6
<1>. QED
  BY <1>7, <1>8 DEF Begun, FramesWhole

\* Every step keeps frames apart.
LEMMA BegunKept ==
    ASSUME Inv, Next
    PROVE  Begun' /\ FramesWhole'
<1>0. Begun /\ FramesWhole /\ ThreadType /\ NetType /\ WireType /\ SenderType
  BY DEF Inv, TypeOK
<1>1. ASSUME NEW n \in Nvr, BeatBegin(n) PROVE Begun' /\ FramesWhole'
  <2>1. Conns' = Conns /\ \A c \in Conns : BegunOn(c)' /\ WholeOn(c)'
    BY <1>1, BeatBeginAt, BeatBeginBegun, BeatBeginWhole
  <2>2. (s.pc = "sending" => s.to # 0)'
    BY <1>0, <1>1, BeatBeginAt DEF Begun
  <2>. QED
    BY <2>1, <2>2 DEF Begun, FramesWhole
<1>2. ASSUME NEW n \in Nvr, BeatDone(n) PROVE Begun' /\ FramesWhole'
  <2>1. Conns' = Conns /\ \A c \in Conns : BegunOn(c)' /\ WholeOn(c)'
    BY <1>2, BeatDoneAt, BeatDoneBegun, BeatDoneWhole
  <2>2. (s.pc = "sending" => s.to # 0)'
    BY <1>0, <1>2, BeatDoneAt DEF Begun
  <2>. QED
    BY <2>1, <2>2 DEF Begun, FramesWhole
<1>3. ASSUME NEW n \in Nvr, BeatFail(n) PROVE Begun' /\ FramesWhole'
  <2>1. Conns' = Conns /\ \A c \in Conns : BegunOn(c)' /\ WholeOn(c)'
    BY <1>3, BeatFailAt, BeatFailBegun, BeatFailWhole
  <2>2. (s.pc = "sending" => s.to # 0)'
    BY <1>0, <1>3, BeatFailAt DEF Begun
  <2>. QED
    BY <2>1, <2>2 DEF Begun, FramesWhole
<1>4. CASE SendBegin
  <2>1. Conns' = Conns /\ \A c \in Conns : BegunOn(c)' /\ WholeOn(c)'
    BY <1>4, SendBeginAt, SendBeginBegun, SendBeginWhole
  <2>2. (s.pc = "sending" => s.to # 0)'
    <3>1. s' = [s EXCEPT !.pc = "sending", !.to = Target(s.n)]
      BY <1>4, SendBeginAt
    <3>2. Target(s.n) # 0 /\ s'.to = Target(s.n)
      BY <1>0, <1>4, <3>1 DEF SendBegin, SenderType
    <3>. QED
      BY <3>2
  <2>. QED
    BY <2>1, <2>2 DEF Begun, FramesWhole
<1>5. CASE SendDone
  <2>1. Conns' = Conns /\ \A c \in Conns : BegunOn(c)' /\ WholeOn(c)'
    BY <1>5, SendDoneAt, SendDoneBegun, SendDoneWhole
  <2>2. (s.pc = "sending" => s.to # 0)'
    BY <1>0, <1>5, SendDoneAt DEF Begun
  <2>. QED
    BY <2>1, <2>2 DEF Begun, FramesWhole
<1>6. CASE SendFail
  <2>1. Conns' = Conns /\ \A c \in Conns : BegunOn(c)' /\ WholeOn(c)'
    BY <1>6, SendFailAt, SendFailBegun, SendFailWhole
  <2>2. (s.pc = "sending" => s.to # 0)'
    BY <1>0, <1>6, SendFailAt DEF Begun
  <2>. QED
    BY <2>1, <2>2 DEF Begun, FramesWhole
<1>7. ASSUME NEW n \in Nvr, NEW h \in Socket, Open(n, h) PROVE Begun' /\ FramesWhole'
  BY <1>7, OpenBegun
<1>8. CASE Create
  <2>1. wire' = wire /\ owner' = owner /\ conn' = conn
    BY <1>8 DEF Create, net
  <2>2. \A m \in Nvr : t'[m] = "beating" <=> t[m] = "beating"
    BY <1>0, <1>8 DEF Create, Goto, thread, ThreadType
  <2>3. s' = s \/ (s.pc # "sending" /\ s'.pc # "sending")
    BY <1>0, <1>8 DEF Create, SenderType
  <2>. QED
    BY <1>0, <2>1, <2>2, <2>3, BegunFrame DEF FramesWhole, WholeOn, Conns
<1>9. CASE Store
  <2>1. wire' = wire /\ owner' = owner /\ conn' = conn
    BY <1>9 DEF Store, net
  <2>2. \A m \in Nvr : t'[m] = "beating" <=> t[m] = "beating"
    BY <1>0, <1>9 DEF Store, thread, ThreadType
  <2>3. s' = s \/ (s.pc # "sending" /\ s'.pc # "sending")
    BY <1>0, <1>9 DEF Store, SenderType
  <2>. QED
    BY <1>0, <2>1, <2>2, <2>3, BegunFrame DEF FramesWhole, WholeOn, Conns
<1>10. CASE UiPut
  <2>1. wire' = wire /\ owner' = owner /\ conn' = conn
    BY <1>10 DEF UiPut, net
  <2>2. \A m \in Nvr : t'[m] = "beating" <=> t[m] = "beating"
    BY <1>0, <1>10 DEF UiPut, thread, ThreadType
  <2>3. s' = s \/ (s.pc # "sending" /\ s'.pc # "sending")
    BY <1>0, <1>10 DEF UiPut, SenderType
  <2>. QED
    BY <1>0, <2>1, <2>2, <2>3, BegunFrame DEF FramesWhole, WholeOn, Conns
<1>11. CASE Turn
  <2>1. wire' = wire /\ owner' = owner /\ conn' = conn
    BY <1>11 DEF Turn, net
  <2>2. \A m \in Nvr : t'[m] = "beating" <=> t[m] = "beating"
    BY <1>0, <1>11 DEF Turn, thread, ThreadType
  <2>3. s' = s \/ (s.pc # "sending" /\ s'.pc # "sending")
    BY <1>0, <1>11 DEF Turn, SenderType
  <2>. QED
    BY <1>0, <2>1, <2>2, <2>3, BegunFrame DEF FramesWhole, WholeOn, Conns
<1>12. CASE Get
  <2>1. wire' = wire /\ owner' = owner /\ conn' = conn
    BY <1>12 DEF Get, net
  <2>2. \A m \in Nvr : t'[m] = "beating" <=> t[m] = "beating"
    BY <1>0, <1>12 DEF Get, thread, ThreadType
  <2>3. s' = s \/ (s.pc # "sending" /\ s'.pc # "sending")
    BY <1>0, <1>12 DEF Get, SenderType
  <2>. QED
    BY <1>0, <2>1, <2>2, <2>3, BegunFrame DEF FramesWhole, WholeOn, Conns
<1>13. CASE Refuse
  <2>1. wire' = wire /\ owner' = owner /\ conn' = conn
    BY <1>13 DEF Refuse, net
  <2>2. \A m \in Nvr : t'[m] = "beating" <=> t[m] = "beating"
    BY <1>0, <1>13 DEF Refuse, thread, ThreadType
  <2>3. s' = s \/ (s.pc # "sending" /\ s'.pc # "sending")
    BY <1>0, <1>13 DEF Refuse, Again, SenderType
  <2>. QED
    BY <1>0, <2>1, <2>2, <2>3, BegunFrame DEF FramesWhole, WholeOn, Conns
<1>14. CASE Check
  <2>1. wire' = wire /\ owner' = owner /\ conn' = conn
    BY <1>14 DEF Check, net
  <2>2. \A m \in Nvr : t'[m] = "beating" <=> t[m] = "beating"
    BY <1>0, <1>14 DEF Check, thread, ThreadType
  <2>3. s' = s \/ (s.pc # "sending" /\ s'.pc # "sending")
    BY <1>0, <1>14 DEF Check, SenderType
  <2>. QED
    BY <1>0, <2>1, <2>2, <2>3, BegunFrame DEF FramesWhole, WholeOn, Conns
<1>15. CASE NoSocket
  <2>1. wire' = wire /\ owner' = owner /\ conn' = conn
    BY <1>15 DEF NoSocket, net
  <2>2. \A m \in Nvr : t'[m] = "beating" <=> t[m] = "beating"
    BY <1>0, <1>15 DEF NoSocket, thread, ThreadType
  <2>3. s' = s \/ (s.pc # "sending" /\ s'.pc # "sending")
    BY <1>0, <1>15 DEF NoSocket, Again, SenderType
  <2>. QED
    BY <1>0, <2>1, <2>2, <2>3, BegunFrame DEF FramesWhole, WholeOn, Conns
<1>16. ASSUME NEW n \in Nvr, SetConnect(n) PROVE Begun' /\ FramesWhole'
  <2>1. wire' = wire /\ owner' = owner /\ conn' = conn
    BY <1>16 DEF SetConnect, net
  <2>2. \A m \in Nvr : t'[m] = "beating" <=> t[m] = "beating"
    BY <1>0, <1>16 DEF SetConnect, Goto, thread, ThreadType
  <2>3. s' = s \/ (s.pc # "sending" /\ s'.pc # "sending")
    BY <1>0, <1>16 DEF SetConnect, SenderType
  <2>. QED
    BY <1>0, <2>1, <2>2, <2>3, BegunFrame DEF FramesWhole, WholeOn, Conns
<1>17. ASSUME NEW n \in Nvr, OnlineAsk(n) PROVE Begun' /\ FramesWhole'
  <2>1. wire' = wire /\ owner' = owner /\ conn' = conn
    BY <1>17 DEF OnlineAsk, net
  <2>2. \A m \in Nvr : t'[m] = "beating" <=> t[m] = "beating"
    BY <1>0, <1>17 DEF OnlineAsk, Goto, thread, ThreadType
  <2>3. s' = s \/ (s.pc # "sending" /\ s'.pc # "sending")
    BY <1>0, <1>17 DEF OnlineAsk, SenderType
  <2>. QED
    BY <1>0, <2>1, <2>2, <2>3, BegunFrame DEF FramesWhole, WholeOn, Conns
<1>18. ASSUME NEW n \in Nvr, OnlineRefused(n) PROVE Begun' /\ FramesWhole'
  <2>1. wire' = wire /\ owner' = owner /\ conn' = conn
    BY <1>18 DEF OnlineRefused, net
  <2>2. \A m \in Nvr : t'[m] = "beating" <=> t[m] = "beating"
    BY <1>0, <1>18 DEF OnlineRefused, Goto, thread, ThreadType
  <2>3. s' = s \/ (s.pc # "sending" /\ s'.pc # "sending")
    BY <1>0, <1>18 DEF OnlineRefused, SenderType
  <2>. QED
    BY <1>0, <2>1, <2>2, <2>3, BegunFrame DEF FramesWhole, WholeOn, Conns
<1>19. ASSUME NEW n \in Nvr, ClearSockfd(n) PROVE Begun' /\ FramesWhole'
  <2>1. wire' = wire /\ owner' = owner /\ conn' = conn
    BY <1>19 DEF ClearSockfd, net
  <2>2. \A m \in Nvr : t'[m] = "beating" <=> t[m] = "beating"
    BY <1>0, <1>19 DEF ClearSockfd, Goto, thread, ThreadType
  <2>3. s' = s \/ (s.pc # "sending" /\ s'.pc # "sending")
    BY <1>0, <1>19 DEF ClearSockfd, SenderType
  <2>. QED
    BY <1>0, <2>1, <2>2, <2>3, BegunFrame DEF FramesWhole, WholeOn, Conns
<1>20. ASSUME NEW n \in Nvr, Unconnect(n) PROVE Begun' /\ FramesWhole'
  <2>1. wire' = wire /\ owner' = owner /\ conn' = conn
    BY <1>20 DEF Unconnect, net
  <2>2. \A m \in Nvr : t'[m] = "beating" <=> t[m] = "beating"
    BY <1>0, <1>20 DEF Unconnect, Goto, thread, ThreadType
  <2>3. s' = s \/ (s.pc # "sending" /\ s'.pc # "sending")
    BY <1>0, <1>20 DEF Unconnect, SenderType
  <2>. QED
    BY <1>0, <2>1, <2>2, <2>3, BegunFrame DEF FramesWhole, WholeOn, Conns
<1>21. ASSUME NEW n \in Nvr, BeatDue(n) PROVE Begun' /\ FramesWhole'
  <2>1. wire' = wire /\ owner' = owner /\ conn' = conn
    BY <1>21 DEF BeatDue, net
  <2>2. \A m \in Nvr : t'[m] = "beating" <=> t[m] = "beating"
    BY <1>0, <1>21 DEF BeatDue, Goto, thread, ThreadType
  <2>3. s' = s \/ (s.pc # "sending" /\ s'.pc # "sending")
    BY <1>0, <1>21 DEF BeatDue, SenderType
  <2>. QED
    BY <1>0, <2>1, <2>2, <2>3, BegunFrame DEF FramesWhole, WholeOn, Conns
<1>22. ASSUME NEW n \in Nvr, Close(n) PROVE Begun' /\ FramesWhole'
  <2>1. wire' = wire /\ owner' = owner /\ conn' = conn
    BY <1>22 DEF Close, net
  <2>2. \A m \in Nvr : t'[m] = "beating" <=> t[m] = "beating"
    BY <1>0, <1>22 DEF Close, Goto, thread, ThreadType
  <2>3. s' = s \/ (s.pc # "sending" /\ s'.pc # "sending")
    BY <1>0, <1>22 DEF Close, SenderType
  <2>. QED
    BY <1>0, <2>1, <2>2, <2>3, BegunFrame DEF FramesWhole, WholeOn, Conns
<1>23. ASSUME NEW n \in Nvr, UiCheck(n) PROVE Begun' /\ FramesWhole'
  <2>1. wire' = wire /\ owner' = owner /\ conn' = conn
    BY <1>23 DEF UiCheck, net
  <2>2. \A m \in Nvr : t'[m] = "beating" <=> t[m] = "beating"
    BY <1>0, <1>23 DEF UiCheck, Goto, thread, ThreadType
  <2>3. s' = s \/ (s.pc # "sending" /\ s'.pc # "sending")
    BY <1>0, <1>23 DEF UiCheck, SenderType
  <2>. QED
    BY <1>0, <2>1, <2>2, <2>3, BegunFrame DEF FramesWhole, WholeOn, Conns
<1>. QED
  BY <1>1, <1>2, <1>3, <1>4, <1>5, <1>6, <1>7, <1>8, <1>9, <1>10, <1>11, <1>12, <1>13, <1>14, <1>15, <1>16, <1>17, <1>18, <1>19, <1>20, <1>21, <1>22, <1>23 DEF Next, Sender, Connection

\* Only a closed connection lets a frame go astray.
LEMMA StrayKept ==
    ASSUME Inv, Next
    PROVE  StrayNeedsClose'
<1>. DEFINE Straight(c) == wire[c].last.nvr # 0 => wire[c].last.chk = c \/ ~Live(wire[c].last.chk)
<1>0. Begun /\ NetType /\ WireType /\ \A c \in Conns : Straight(c)
  BY DEF Inv, TypeOK, StrayNeedsClose
<1>1. ASSUME NEW c \in Conns, wire'[c] = wire[c] PROVE Straight(c)'
  <2>1. wire[c].last.nvr # 0 => wire[c].last.chk \in Conns
    BY <1>0 DEF Begun, BegunOn
  <2>2. ASSUME NEW d \in Conns, ~Live(d) PROVE ~Live(d)'
    BY <2>2, ClosedKept
  <2>. QED
    BY <1>0, <1>1, <2>1, <2>2 DEF Live
<1>2. ASSUME NEW n \in Nvr, BeatBegin(n) PROVE StrayNeedsClose'
  <2>0. Conns' = Conns /\ conn[n] \in Conns /\ (\A d \in Conns \ {conn[n]} : wire'[d] = wire[d])
        /\ wire'[conn[n]] = [prev |-> wire[conn[n]].last, last |-> Part(n, 0, conn[n], 1)]
    BY <1>2, BeatBeginAt, BeatBeginIs
  <2>1. Conns' = Conns /\ conn[n] \in Conns /\ (\A d \in Conns \ {conn[n]} : wire'[d] = wire[d])
        /\ wire'[conn[n]].last = Part(n, 0, conn[n], 1)
    BY <2>0
  <2>2. PICK c \in Conns : c = conn[n]
    BY <2>1
  <2>3. Straight(c)'
    BY <2>1, <2>2, PartIs
  <2>. QED
    BY <1>1, <2>1, <2>2, <2>3 DEF StrayNeedsClose
<1>3. ASSUME NEW n \in Nvr, BeatDone(n) PROVE StrayNeedsClose'
  <2>0. Conns' = Conns /\ conn[n] \in Conns /\ (\A d \in Conns \ {conn[n]} : wire'[d] = wire[d])
        /\ wire'[conn[n]] = [prev |-> wire[conn[n]].last, last |-> Part(n, 0, conn[n], 2)]
    BY <1>3, BeatDoneAt, BeatDoneIs
  <2>1. Conns' = Conns /\ conn[n] \in Conns /\ (\A d \in Conns \ {conn[n]} : wire'[d] = wire[d])
        /\ wire'[conn[n]].last = Part(n, 0, conn[n], 2)
    BY <2>0
  <2>2. PICK c \in Conns : c = conn[n]
    BY <2>1
  <2>3. Straight(c)'
    BY <2>1, <2>2, PartIs
  <2>. QED
    BY <1>1, <2>1, <2>2, <2>3 DEF StrayNeedsClose
<1>4. ASSUME NEW n \in Nvr, BeatFail(n) PROVE StrayNeedsClose'
  <2>1. Conns' = Conns /\ conn[n] \in Conns /\ (\A d \in Conns \ {conn[n]} : wire'[d] = wire[d])
        /\ wire'[conn[n]].last = IF wire[conn[n]].last = Part(n, 0, conn[n], 1) THEN Part(n, 0, conn[n], 0) ELSE wire[conn[n]].last
    BY <1>4, BeatFailAt, BeatFailIs
  <2>2. wire'[conn[n]].last.nvr = wire[conn[n]].last.nvr /\ wire'[conn[n]].last.chk = wire[conn[n]].last.chk
    BY <2>1, PartIs
  <2>3. wire[conn[n]].last.nvr # 0 => wire[conn[n]].last.chk \in Conns
    BY <1>0, <2>1 DEF Begun, BegunOn
  <2>4. PICK c \in Conns : c = conn[n]
    BY <2>1
  <2>5. Straight(c)'
    <3>1. ASSUME NEW d \in Conns, ~Live(d) PROVE ~Live(d)'
      BY <3>1, ClosedKept
    <3>. QED
      BY <1>0, <2>2, <2>3, <2>4, <3>1 DEF Live
  <2>. QED
    BY <1>1, <2>1, <2>4, <2>5 DEF StrayNeedsClose
<1>5. CASE SendBegin
  <2>0. Conns' = Conns /\ Target(s.n) \in Conns /\ (\A d \in Conns \ {Target(s.n)} : wire'[d] = wire[d])
        /\ wire'[Target(s.n)] = [prev |-> wire[Target(s.n)].last, last |-> Part(s.n, s.pkt.id, s.chk, 1)]
    BY <1>5, SendBeginAt, SendBeginIs
  <2>1. Conns' = Conns /\ Target(s.n) \in Conns /\ (\A d \in Conns \ {Target(s.n)} : wire'[d] = wire[d])
        /\ wire'[Target(s.n)].last = Part(s.n, s.pkt.id, s.chk, 1)
    BY <2>0
  <2>2. PICK c \in Conns : c = Target(s.n)
    BY <2>1
  <2>3. s'.pc = "sending" /\ s'.chk = s.chk /\ s'.to = c /\ s.chk \in Conns
    BY <1>5, <2>2, SendBeginAt DEF Inv, TypeOK, SenderType, Given, Queued, Hands, Checks, Aim
  <2>4. s.chk = c \/ ~Live(s.chk)'
    BY <2>3, AimKept DEF Live, Aim
  <2>5. Straight(c)'
    BY <2>1, <2>2, <2>3, <2>4, PartIs DEF Live
  <2>. QED
    BY <1>1, <2>1, <2>2, <2>5 DEF StrayNeedsClose
<1>6. CASE SendDone
  <2>0. Conns' = Conns /\ s.to \in Conns /\ (\A d \in Conns \ {s.to} : wire'[d] = wire[d])
        /\ wire'[s.to] = [prev |-> wire[s.to].last, last |-> Part(s.n, s.pkt.id, s.chk, 2)]
    BY <1>6, SendDoneAt, SendDoneIs
  <2>1. Conns' = Conns /\ s.to \in Conns /\ (\A d \in Conns \ {s.to} : wire'[d] = wire[d])
        /\ wire'[s.to].last = Part(s.n, s.pkt.id, s.chk, 2)
    BY <2>0
  <2>2. PICK c \in Conns : c = s.to
    BY <2>1
  <2>3. s.pc = "sending" /\ s.chk \in Conns
    BY <1>6, SendDoneAt DEF Inv, Given, Queued, Hands, Checks, Aim
  <2>4. s.chk = c \/ ~Live(s.chk)
    BY <2>2, <2>3 DEF Inv, Given, Queued, Hands, Checks, Aim
  <2>5. Straight(c)'
    BY <1>6, <2>1, <2>2, <2>4, PartIs, SendDoneAt DEF Live
  <2>. QED
    BY <1>1, <2>1, <2>2, <2>5 DEF StrayNeedsClose
<1>7. CASE SendFail
  <2>1. Conns' = Conns /\ s.to \in Conns /\ (\A d \in Conns \ {s.to} : wire'[d] = wire[d])
        /\ wire'[s.to].last = IF wire[s.to].last = Part(s.n, s.pkt.id, s.chk, 1) THEN Part(s.n, s.pkt.id, s.chk, 0) ELSE wire[s.to].last
    BY <1>7, SendFailAt, SendFailIs
  <2>2. wire'[s.to].last.nvr = wire[s.to].last.nvr /\ wire'[s.to].last.chk = wire[s.to].last.chk
    BY <2>1, PartIs
  <2>3. wire[s.to].last.nvr # 0 => wire[s.to].last.chk \in Conns
    BY <1>0, <2>1 DEF Begun, BegunOn
  <2>4. PICK c \in Conns : c = s.to
    BY <2>1
  <2>5. Straight(c)'
    <3>1. ASSUME NEW d \in Conns, ~Live(d) PROVE ~Live(d)'
      BY <3>1, ClosedKept
    <3>. QED
      BY <1>0, <2>2, <2>3, <2>4, <3>1 DEF Live
  <2>. QED
    BY <1>1, <2>1, <2>4, <2>5 DEF StrayNeedsClose
<1>8. ASSUME NEW n \in Nvr, NEW h \in Socket, Open(n, h) PROVE StrayNeedsClose'
  <2>1. Conns' = Conns \cup {Len(owner) + 1} /\ (\A d \in Conns : wire'[d] = wire[d])
        /\ wire'[Len(owner) + 1].last = NoPart /\ NoPart.nvr = 0
    BY <1>8, OpenIs, PartIs DEF NoPart
  <2>. QED
    BY <1>1, <2>1 DEF StrayNeedsClose
<1>9. CASE UNCHANGED <<wire, owner>>
  BY <1>1, <1>9 DEF StrayNeedsClose, Conns
<1>. QED
  BY <1>2, <1>3, <1>4, <1>5, <1>6, <1>7, <1>8, <1>9 DEF Next, Sender, Connection, net, Create, Store, UiPut, Turn, Get, Refuse, Check, NoSocket, SetConnect, OnlineAsk, OnlineRefused, ClearSockfd, Unconnect, BeatDue, Close, UiCheck

\* What was refused was given on a connection that is gone.
LEMMA DroppedKept ==
    ASSUME Inv, Next
    PROVE  DroppedNeedsClose'
<1>. USE DEF DroppedNeedsClose
<1>0. ThreadType /\ SenderType /\ Sockets /\ LiveIsOpen /\ Given /\ DroppedNeedsClose
  BY DEF Inv, TypeOK
<1>1. CASE Refuse
  <2>1. ~Live(s.pkt.conn)
    BY <1>0, <1>1, SenderAt DEF Refuse, Given, Queued, Hands, Checks, Aim, Accepted, Live, LiveIsOpen, Sockets, Up, Conns, NetType, Inv, TypeOK
  <2>2. s.pkt.conn \in Conns /\ dropped' = s.pkt
    BY <1>0, <1>1 DEF Refuse, Given, Queued, Hands, Checks, Aim, Accepted
  <2>. QED
    BY <2>1, <2>2, ClosedKept
<1>2. CASE UNCHANGED <<dropped>>
  BY <1>0, <1>2, ClosedKept DEF Given, Queued, Hands, Checks, Aim
<1>. QED
  BY <1>1, <1>2 DEF Next, Sender, Connection, thread, net, commands, Create, Store, UiPut, Turn, Get, Check, SendBegin, NoSocket, SendDone, SendFail, SetConnect, OnlineAsk, OnlineRefused, BeatBegin, BeatDone, BeatFail, ClearSockfd, Unconnect, BeatDue, Close, UiCheck, Open

\* Every session asks.
LEMMA AskedKept ==
    ASSUME Inv, Next
    PROVE  SessionAsked'
<1>. USE CommandAssumption DEF Nvr, Conns, Labels
<1>0. ThreadType /\ NetType /\ CommandType /\ Sockets /\ Given /\ SessionAsked
  BY DEF Inv, TypeOK
<1>1. CASE Create
  BY <1>0, <1>1 DEF Create, Goto, thread, net, commands, ThreadType, SessionAsked
<1>2. ASSUME NEW n \in Nvr, SetConnect(n) PROVE SessionAsked'
  BY <1>0, <1>2 DEF SetConnect, Goto, thread, net, commands, ThreadType, SessionAsked
<1>3. ASSUME NEW n \in Nvr, OnlineAsk(n) PROVE SessionAsked'
  BY <1>0, <1>3 DEF OnlineAsk, Put, Goto, Accepts, Stored, thread, net, commands, ThreadType, SessionAsked
<1>4. ASSUME NEW n \in Nvr, OnlineRefused(n) PROVE SessionAsked'
  BY <1>0, <1>4 DEF OnlineRefused, Goto, Accepts, Stored, thread, net, commands, SessionAsked, ThreadType, Sockets, Up, Given, Queued, Hands, Checks, Aim
<1>5. ASSUME NEW n \in Nvr, BeatBegin(n) PROVE SessionAsked'
  BY <1>0, <1>5 DEF BeatBegin, Goto, Write, Target, thread, net, commands, ThreadType, SessionAsked
<1>6. ASSUME NEW n \in Nvr, BeatDone(n) PROVE SessionAsked'
  BY <1>0, <1>6 DEF BeatDone, Goto, Write, thread, net, commands, ThreadType, SessionAsked
<1>7. ASSUME NEW n \in Nvr, BeatFail(n) PROVE SessionAsked'
  BY <1>0, <1>7 DEF BeatFail, Goto, Cut, thread, net, commands, ThreadType, SessionAsked
<1>8. ASSUME NEW n \in Nvr, ClearSockfd(n) PROVE SessionAsked'
  BY <1>0, <1>8 DEF ClearSockfd, Goto, thread, net, commands, ThreadType, SessionAsked
<1>9. ASSUME NEW n \in Nvr, Unconnect(n) PROVE SessionAsked'
  BY <1>0, <1>9 DEF Unconnect, Goto, thread, net, commands, ThreadType, SessionAsked
<1>10. ASSUME NEW n \in Nvr, BeatDue(n) PROVE SessionAsked'
  BY <1>0, <1>10 DEF BeatDue, Goto, thread, net, commands, ThreadType, SessionAsked
<1>11. ASSUME NEW n \in Nvr, Close(n) PROVE SessionAsked'
  BY <1>0, <1>11 DEF Close, Goto, thread, net, commands, ThreadType, SessionAsked
<1>12. ASSUME NEW n \in Nvr, NEW h \in Socket, Open(n, h) PROVE SessionAsked'
  <2>0. PICK k : k = Len(owner) + 1 /\ k \notin Conns /\ k # 0
    BY <1>12, OpenIs
  <2>1. conn' = [conn EXCEPT ![n] = k] /\ t' = [t EXCEPT ![n] = "opened"] /\ asked' = asked
        /\ known' \subseteq known \cup {k}
    BY <1>12, <2>0 DEF Open, Goto, commands
  <2>2. t \in [Nvr -> Labels] /\ conn \in [Nvr -> Conns \cup {0}] /\ SessionAsked
    BY DEF Inv, TypeOK, ThreadType, NetType
  <2>3. t'[n] = "opened" /\ \A m \in Nvr \ {n} :
          t'[m] = t[m] /\ conn'[m] = conn[m] /\ (conn'[m] \in known' => conn[m] \in known)
    BY <2>0, <2>1, <2>2
  <2>. QED
    BY <2>1, <2>2, <2>3 DEF SessionAsked
<1>13. CASE UNCHANGED <<t, conn, asked, known>>
  BY <1>0, <1>13 DEF SessionAsked
<1>. QED
  BY <1>1, <1>2, <1>3, <1>4, <1>5, <1>6, <1>7, <1>8, <1>9, <1>10, <1>11, <1>12, <1>13 DEF Next, Sender, Connection, thread, net, commands, Store, UiPut, Turn, Get, Refuse, Check, SendBegin, NoSocket, SendDone, SendFail, UiCheck

\* The invariant holds at the start.
LEMMA InitInv == Init => Inv
<1>. SUFFICES ASSUME Init PROVE Inv
  OBVIOUS
<1>. USE CommandAssumption DEF Init, Nvr
<1>1. owner = <<>> /\ Len(owner) = 0 /\ Conns = {} /\ owner \in Seq(Nvr) /\ wire \in Seq(Pairs) /\ Len(wire) = Len(owner)
  BY DEF Conns
<1>2. ThreadType
  BY DEF ThreadType, Labels
<1>3. NetType /\ WireType
  BY <1>1 DEF NetType, WireType
<1>4. NoPacket \in Packets /\ NoPacket.conn = 0
  BY DEF NoPacket, Packets
<1>5. CommandType
  <2>1. <<>> \in Seq(Packets)
    OBVIOUS
  <2>2. queue \in [Nvr -> Seq(Packets)]
    BY <2>1
  <2>. QED
    BY <1>1, <1>4, <2>2 DEF CommandType
<1>6. SenderType
  BY <1>1, <1>4 DEF SenderType
<1>7. Sockets /\ LiveIsOpen /\ Mutex
  BY DEF Sockets, LiveIsOpen, Mutex, Up
<1>8. Given /\ Begun
  BY <1>1 DEF Given, Queued, Hands, Checks, Aim, Begun
<1>9. StrayNeedsClose /\ DroppedNeedsClose /\ FramesWhole /\ SessionAsked
  BY <1>1 DEF StrayNeedsClose, DroppedNeedsClose, FramesWhole, SessionAsked
<1>. QED
  BY <1>2, <1>3, <1>5, <1>6, <1>7, <1>8, <1>9 DEF Inv, TypeOK

\* Every step keeps the invariant.
LEMMA StepInv == Inv /\ [Next]_vars => Inv'
<1>1. CASE Inv /\ Next
  <2>1. Given'
    BY <1>1, QueueKept, HandsKept, ChecksKept, AimKept DEF Given
  <2>2. TypeOK'
    BY <1>1, ThreadTyped, NetTyped, WireTyped, CommandTyped, SenderTyped DEF TypeOK
  <2>. QED
    BY <1>1, <2>1, <2>2, SocketsKept, LiveKept, MutexKept, BegunKept, StrayKept, DroppedKept, AskedKept DEF Inv
<1>2. CASE Inv /\ UNCHANGED vars
  <2>1. TypeOK'
    BY <1>2 DEF vars, thread, net, commands, Inv, TypeOK, ThreadType, NetType, WireType, CommandType, SenderType, Conns
  <2>2. Sockets' /\ LiveIsOpen' /\ Mutex' /\ Begun'
    BY <1>2 DEF vars, thread, net, commands, Inv, Sockets, LiveIsOpen, Mutex, Begun, BegunOn, Conns
  <2>3. Given'
    BY <1>2 DEF vars, thread, net, commands, Inv, Given, Queued, Hands, Checks, Aim, Accepted, Live, Conns
  <2>4. StrayNeedsClose' /\ DroppedNeedsClose' /\ FramesWhole' /\ SessionAsked'
    BY <1>2 DEF vars, thread, net, commands, Inv, StrayNeedsClose, DroppedNeedsClose, FramesWhole, WholeOn, SessionAsked, Live, Conns
  <2>. QED
    BY <2>1, <2>2, <2>3, <2>4 DEF Inv
<1>. QED
  BY <1>1, <1>2

\* In every reachable state threads, sockets, queues and what is on the wire fit together.
THEOREM Invariance == Spec => []Inv
BY InitInv, StepInv, PTL DEF Spec

\* A command reaches another connection than the one its sender found up only after that one
\* was closed: PMSG_SendPmsgData checks the status outside the mutex.
THEOREM Stray == Spec => []StrayNeedsClose
<1>1. Inv => StrayNeedsClose
  BY DEF Inv
<1>. QED
  BY <1>1, Invariance, PTL

\* CmdProcessThread refuses a command only if the connection it was given on is gone.
THEOREM Dropped == Spec => []DroppedNeedsClose
<1>1. Inv => DroppedNeedsClose
  BY DEF Inv
<1>. QED
  BY <1>1, Invariance, PTL

\* hPmsgMutex keeps the frames of an NVR whole.
THEOREM Frames == Spec => []FramesWhole
<1>1. Inv => FramesWhole
  BY DEF Inv
<1>. QED
  BY <1>1, Invariance, PTL

\* Every session on a handle that is stored asks for the status of the cameras.
THEOREM Asked == Spec => []SessionAsked
<1>1. Inv => SessionAsked
  BY DEF Inv
<1>. QED
  BY <1>1, Invariance, PTL
-----------------------------------------------------------------------------
(* Why the commands are served *)

\* The commands that wait in a queue, by their numbers.
InQueue(n, k) == \E i \in 1..Len(queue[n]) : queue[n][i].id = k
Waiting == {k \in 1..count : \E n \in Nvr : InQueue(n, k)}

\* A number stands for one place in one queue.
Numbered ==
    /\ \A n \in Nvr : \A i \in 1..Len(queue[n]) : queue[n][i].id \in 1..count
    /\ \A n, m \in Nvr : \A i \in 1..Len(queue[n]) : \A j \in 1..Len(queue[m]) :
         queue[n][i].id = queue[m][j].id => n = m /\ i = j

\* So many commands are given: the extra ones, and a status request for every connection.
AtPut == IF ui.n # 0 THEN 1 ELSE 0
Bounded ==
    /\ Len(owner) <= MaxConn
    /\ \A n \in Nvr : t[n] \in {"opened", "online"} => conn[n] \notin asked
    /\ beats + count + AtPut <= MaxExtra + Cardinality(asked)

Counted == Numbered /\ Bounded

\* The sender's way with a packet, and its way round to an NVR.
Stage == CASE s.pc = "get" -> 0 [] s.pc = "check" -> 3 [] s.pc = "lock" -> 2 [] s.pc = "sending" -> 1
Distance(n) == IF s.n <= n THEN n - s.n ELSE n + NvrNum - s.n

\* The steps the sender has yet to take, at most, before it finds the queue of n empty.
Load == 5 * (MaxExtra + MaxConn - count) + 4 * Cardinality(Waiting)
Rest(n) == Load + Stage + Distance(n)

\* The numbers involved are numbers.
LEMMA AskedFinite ==
    ASSUME NetType, CommandType
    PROVE  /\ IsFiniteSet(asked) /\ Cardinality(asked) \in Nat /\ Cardinality(asked) <= Len(owner)
           /\ IsFiniteSet(Waiting) /\ Cardinality(Waiting) \in Nat
           /\ Len(owner) \in Nat /\ count \in Nat
<1>1. Len(owner) \in Nat /\ count \in Nat /\ asked \subseteq 1..Len(owner)
  BY DEF NetType, CommandType, Conns
<1>2. IsFiniteSet(1..Len(owner)) /\ Cardinality(1..Len(owner)) = Len(owner)
  BY <1>1, FS_Interval
<1>3. IsFiniteSet(1..count)
  BY <1>1, FS_Interval
<1>4. IsFiniteSet(asked) /\ Cardinality(asked) <= Len(owner)
  BY <1>1, <1>2, FS_Subset
<1>5. IsFiniteSet(Waiting)
  BY <1>3, FS_Subset DEF Waiting
<1>. QED
  BY <1>1, <1>4, <1>5, FS_CardinalityType

\* A command that is put is a new one at the end of a queue.
LEMMA PutCounts ==
    ASSUME CommandType, Numbered, NEW n \in Nvr, NEW c \in Nat, Put(n, c)
    PROVE  /\ Numbered' /\ count' = count + 1
           /\ Waiting' = Waiting \cup {count + 1} /\ count + 1 \notin Waiting
           /\ \A m \in Nvr, k \in 1..count : InQueue(m, k)' <=> InQueue(m, k)
<1>. DEFINE p == [id |-> count + 1, conn |-> c]
<1>0. count \in Nat /\ count' = count + 1 /\ p \in Packets /\ p.id = count + 1
  BY DEF CommandType, Packets, Put
<1>. HIDE DEF p
<1>1. queue \in [Nvr -> Seq(Packets)] /\ queue' = [queue EXCEPT ![n] = Append(@, p)]
  BY DEF CommandType, Put, p
<1>. DEFINE q == queue[n]
<1>2. q \in Seq(Packets) /\ Len(q) \in Nat /\ queue'[n] = Append(q, p)
      /\ \A m \in Nvr \ {n} : queue'[m] = queue[m]
  BY <1>1
<1>3. Len(queue'[n]) = Len(q) + 1 /\ queue'[n][Len(q) + 1] = p
      /\ \A i \in 1..Len(q) : queue'[n][i] = q[i]
  BY <1>0, <1>2
<1>4. \A m \in Nvr : \A i \in 1..Len(queue[m]) : i \in 1..Len(queue'[m]) /\ queue'[m][i] = queue[m][i]
  BY <1>2, <1>3
<1>5. \A m \in Nvr : \A i \in 1..Len(queue'[m]) :
        \/ i \in 1..Len(queue[m]) /\ queue'[m][i] = queue[m][i]
        \/ m = n /\ i = Len(q) + 1 /\ queue'[m][i] = p
  BY <1>2, <1>3
<1>. HIDE DEF q
<1>6. \A m \in Nvr : \A i \in 1..Len(queue[m]) : queue[m][i].id \in 1..count
  BY DEF Numbered
<1>7. \A m \in Nvr : \A i \in 1..Len(queue'[m]) : queue'[m][i].id \in 1..count'
  <2>1. \A k \in 1..count : k \in 1..count'
    BY <1>0
  <2>2. p.id \in 1..count'
    BY <1>0
  <2>. QED
    BY <1>5, <1>6, <2>1, <2>2
<1>8. \A m, l \in Nvr : \A i \in 1..Len(queue'[m]) : \A j \in 1..Len(queue'[l]) :
        queue'[m][i].id = queue'[l][j].id => m = l /\ i = j
  <2>. TAKE m, l \in Nvr
  <2>. TAKE i \in 1..Len(queue'[m])
  <2>. TAKE j \in 1..Len(queue'[l])
  <2>. HAVE queue'[m][i].id = queue'[l][j].id
  <2>1. CASE i \in 1..Len(queue[m]) /\ queue'[m][i] = queue[m][i] /\ j \in 1..Len(queue[l]) /\ queue'[l][j] = queue[l][j]
    BY <2>1 DEF Numbered
  <2>2. CASE i \in 1..Len(queue[m]) /\ queue'[m][i] = queue[m][i] /\ queue'[l][j] = p
    BY <1>0, <1>6, <2>2
  <2>3. CASE queue'[m][i] = p /\ j \in 1..Len(queue[l]) /\ queue'[l][j] = queue[l][j]
    BY <1>0, <1>6, <2>3
  <2>4. CASE m = n /\ i = Len(q) + 1 /\ l = n /\ j = Len(q) + 1
    BY <2>4
  <2>. QED
    BY <1>5, <2>1, <2>2, <2>3, <2>4
<1>9. \A m \in Nvr, k \in 1..count : InQueue(m, k)' <=> InQueue(m, k)
  <2>. TAKE m \in Nvr, k \in 1..count
  <2>1. k # count + 1
    BY <1>0
  <2>2. ASSUME InQueue(m, k)' PROVE InQueue(m, k)
    BY <1>0, <1>5, <2>1, <2>2 DEF InQueue
  <2>3. ASSUME InQueue(m, k) PROVE InQueue(m, k)'
    BY <1>4, <2>3 DEF InQueue
  <2>. QED
    BY <2>2, <2>3
<1>10. \A k : k = count + 1 => InQueue(n, k)'
  <2>1. Len(q) + 1 \in 1..Len(queue'[n]) /\ queue'[n][Len(q) + 1].id = count + 1
    BY <1>0, <1>2, <1>3
  <2>. QED
    BY <2>1 DEF InQueue
<1>11. Waiting' = Waiting \cup {count + 1} /\ count + 1 \notin Waiting
  <2>1. 1..count' = 1..count \cup {count + 1} /\ count + 1 \notin 1..count
    BY <1>0
  <2>2. Waiting' = {k \in 1..count' : \E m \in Nvr : InQueue(m, k)'}
    BY DEF Waiting
  <2>3. Waiting = {k \in 1..count : \E m \in Nvr : InQueue(m, k)}
    BY DEF Waiting
  <2>4. ASSUME NEW k PROVE k \in Waiting' <=> k \in Waiting \cup {count + 1}
    <3>1. CASE k = count + 1
      BY <1>10, <2>1, <2>2, <3>1
    <3>2. CASE k # count + 1
      BY <1>9, <2>1, <2>2, <2>3, <3>2
    <3>. QED
      BY <3>1, <3>2
  <2>. QED
    BY <2>1, <2>3, <2>4
<1>. QED
  BY <1>0, <1>7, <1>8, <1>9, <1>11 DEF Numbered

\* A command that is taken is gone from the queues.
LEMMA GetCounts ==
    ASSUME CommandType, SenderType, Numbered, Get
    PROVE  /\ Numbered' /\ count' = count
           /\ s'.pkt.id \in Waiting /\ Waiting' = Waiting \ {s'.pkt.id}
           /\ \A m \in Nvr, k \in Nat : InQueue(m, k)' => InQueue(m, k)
           /\ \A m \in Nvr, k \in Nat : InQueue(m, k) => InQueue(m, k)' \/ k = s'.pkt.id
<1>. DEFINE q == queue[s.n]
            g == s.n
            x == Head(q)
<1>1. g \in Nvr
  BY DEF SenderType
<1>2. q \in Seq(Packets) /\ q # <<>>
  BY <1>1 DEF CommandType, Get
<1>3. queue \in [Nvr -> Seq(Packets)] /\ queue' = [queue EXCEPT ![g] = Tail(q)] /\ count' = count
  BY DEF CommandType, Get
<1>4. s' = [s EXCEPT !.pc = "check", !.pkt = Head(q)] /\ s'.pkt = x
  BY DEF Get, SenderType
<1>. HIDE DEF q, g
<1>5. x = q[1] /\ Len(q) \in Nat \ {0} /\ Len(Tail(q)) = Len(q) - 1
      /\ \A i \in 1..Len(Tail(q)) : i + 1 \in 1..Len(q) /\ Tail(q)[i] = q[i + 1]
  BY <1>2
<1>6. queue'[g] = Tail(q) /\ \A m \in Nvr \ {g} : queue'[m] = queue[m]
  BY <1>1, <1>3
<1>. HIDE DEF x
<1>7. queue[g] = q
  BY DEF q, g
<1>8. \A m \in Nvr : \A i \in 1..Len(queue'[m]) :
        \E j \in 1..Len(queue[m]) : queue'[m][i] = queue[m][j] /\ j = IF m = g THEN i + 1 ELSE i
  <2>. TAKE m \in Nvr
  <2>1. CASE m = g
    BY <1>5, <1>6, <1>7, <2>1
  <2>2. CASE m # g
    BY <1>6, <2>2
  <2>. QED
    BY <2>1, <2>2
<1>9. \A m \in Nvr : \A i \in 1..Len(queue'[m]) : queue'[m][i].id \in 1..count'
  <2>. TAKE m \in Nvr
  <2>. TAKE i \in 1..Len(queue'[m])
  <2>1. PICK j \in 1..Len(queue[m]) : queue'[m][i] = queue[m][j]
    BY <1>8
  <2>2. queue[m][j].id \in 1..count
    BY DEF Numbered
  <2>. QED
    BY <1>3, <2>1, <2>2
<1>10. \A m, l \in Nvr : \A i \in 1..Len(queue'[m]) : \A j \in 1..Len(queue'[l]) :
        queue'[m][i].id = queue'[l][j].id => m = l /\ i = j
  <2>. TAKE m, l \in Nvr
  <2>. TAKE i \in 1..Len(queue'[m])
  <2>. TAKE j \in 1..Len(queue'[l])
  <2>. HAVE queue'[m][i].id = queue'[l][j].id
  <2>1. PICK i1 \in 1..Len(queue[m]) : queue'[m][i] = queue[m][i1] /\ i1 = IF m = g THEN i + 1 ELSE i
    BY <1>8
  <2>2. PICK j1 \in 1..Len(queue[l]) : queue'[l][j] = queue[l][j1] /\ j1 = IF l = g THEN j + 1 ELSE j
    BY <1>8
  <2>3. m = l /\ i1 = j1
    BY <2>1, <2>2 DEF Numbered
  <2>. QED
    BY <2>1, <2>2, <2>3
<1>11. x.id \in 1..count /\ InQueue(g, x.id) /\ s'.pkt.id = x.id
  BY <1>1, <1>4, <1>5, <1>7 DEF Numbered, InQueue
<1>12. \A m \in Nvr, k \in Nat : InQueue(m, k)' => InQueue(m, k)
  BY <1>8 DEF InQueue
<1>13. \A k : k = x.id => \A m \in Nvr : ~InQueue(m, k)'
  <2>. SUFFICES ASSUME NEW m \in Nvr, NEW i \in 1..Len(queue'[m]), queue'[m][i].id = x.id PROVE FALSE
    BY DEF InQueue
  <2>1. PICK j \in 1..Len(queue[m]) : queue'[m][i] = queue[m][j] /\ j = IF m = g THEN i + 1 ELSE i
    BY <1>8
  <2>2. 1 \in 1..Len(queue[g]) /\ queue[g][1].id = queue[m][j].id
    BY <1>5, <1>7, <2>1
  <2>3. m = g /\ j = 1
    BY <1>1, <2>2 DEF Numbered
  <2>. QED
    BY <2>1, <2>3
<1>14. \A m \in Nvr, k \in Nat : InQueue(m, k) => InQueue(m, k)' \/ k = x.id
  <2>. SUFFICES ASSUME NEW m \in Nvr, NEW k \in Nat, NEW i \in 1..Len(queue[m]), queue[m][i].id = k
                PROVE  InQueue(m, k)' \/ k = x.id
    BY DEF InQueue
  <2>1. CASE m # g
    BY <1>6, <2>1 DEF InQueue
  <2>2. CASE m = g /\ i = 1
    BY <1>5, <1>7, <2>2
  <2>3. CASE m = g /\ i # 1
    <3>1. i - 1 \in 1..Len(Tail(q)) /\ Tail(q)[i - 1] = q[i]
      BY <1>5, <1>7, <2>3
    <3>. QED
      BY <1>6, <1>7, <2>3, <3>1 DEF InQueue
  <2>. QED
    BY <2>1, <2>2, <2>3
<1>15. Waiting' = Waiting \ {x.id}
  <2>1. Waiting' = {k \in 1..count : \E m \in Nvr : InQueue(m, k)'}
    BY <1>3 DEF Waiting
  <2>2. \A k \in 1..count : k \in Nat
    OBVIOUS
  <2>3. Waiting = {k \in 1..count : \E m \in Nvr : InQueue(m, k)}
    BY DEF Waiting
  <2>4. ASSUME NEW k PROVE k \in Waiting' <=> k \in Waiting \ {x.id}
    <3>1. CASE k = x.id
      BY <1>13, <2>1, <3>1
    <3>2. CASE k # x.id
      BY <1>12, <1>14, <2>1, <2>2, <2>3, <3>2
    <3>. QED
      BY <3>1, <3>2
  <2>. QED
    BY <2>4
<1>. QED
  BY <1>1, <1>3, <1>9, <1>10, <1>11, <1>12, <1>14, <1>15 DEF Numbered, Waiting

\* The other steps leave the queues alone.
LEMMA OtherSteps ==
    ASSUME Next
    PROVE  \/ UiPut \/ Get \/ (\E n \in Nvr : OnlineAsk(n))
           \/ Sender /\ ~Get /\ UNCHANGED <<queue, ui, count, asked, beats, owner, conn, t, boot>>
           \/ ~Sender /\ UNCHANGED <<queue, count, asked, s>>
<1>1. CASE Sender /\ ~Get
  BY <1>1 DEF Sender, Turn, Refuse, Check, SendBegin, NoSocket, SendDone, SendFail, thread, commands, net
<1>2. CASE ~Sender /\ ~UiPut /\ ~\E n \in Nvr : OnlineAsk(n)
  BY <1>2 DEF Next, Connection, commands, Create, Store, SetConnect, OnlineRefused, BeatBegin, BeatDone, BeatFail,
      ClearSockfd, Unconnect, BeatDue, Close, UiCheck, Open
<1>. QED
  BY <1>1, <1>2

\* A request for the status is one more command and one more connection that asked.
LEMMA AskCounts ==
    ASSUME Inv, Bounded, NEW n \in Nvr, OnlineAsk(n)
    PROVE  /\ conn[n] \in Conns /\ conn[n] \in Nat /\ Put(n, conn[n])
           /\ asked' = asked \cup {conn[n]} /\ Cardinality(asked') = Cardinality(asked) + 1
           /\ UNCHANGED <<s, owner, conn, ui, beats>>
<1>1. t[n] = "online" /\ Put(n, conn[n]) /\ asked' = asked \cup {conn[n]}
      /\ UNCHANGED <<s, owner, conn, ui, beats>>
  BY DEF OnlineAsk, net
<1>2. conn[n] \in Conns /\ conn[n] \in Nat
  BY <1>1 DEF Inv, TypeOK, NetType, Sockets, Up, Conns
<1>3. conn[n] \notin asked
  BY <1>1 DEF Bounded
<1>4. IsFiniteSet(asked)
  BY AskedFinite DEF Inv, TypeOK
<1>. QED
  BY <1>1, <1>2, <1>3, <1>4, FS_AddElement

\* Every step keeps the numbers.
LEMMA NumberedKept ==
    ASSUME Inv, Counted, Next
    PROVE  Numbered'
<1>0. CommandType /\ SenderType /\ Numbered /\ Bounded
  BY DEF Inv, TypeOK, Counted
<1>1. CASE UiPut
  <2>1. ui.n \in Nvr /\ ui.conn \in Nat /\ Put(ui.n, ui.conn)
    BY <1>0, <1>1 DEF CommandType, UiPut
  <2>. QED
    BY <1>0, <2>1, PutCounts
<1>2. ASSUME NEW n \in Nvr, OnlineAsk(n) PROVE Numbered'
  BY <1>0, <1>2, AskCounts, PutCounts
<1>3. CASE Get
  BY <1>0, <1>3, GetCounts
<1>4. CASE UNCHANGED <<queue, count>>
  BY <1>0, <1>4 DEF Numbered
<1>. QED
  BY <1>1, <1>2, <1>3, <1>4, OtherSteps

\* Every step keeps the bound.
LEMMA BoundedKept ==
    ASSUME Inv, Counted, Next
    PROVE  Bounded'
<1>. DEFINE New(n) == t[n] \in {"opened", "online"} => conn[n] \notin asked
<1>0. /\ NetType /\ CommandType /\ ThreadType /\ Sockets /\ CommandAssumption
      /\ Len(owner) \in Nat /\ count \in Nat /\ beats \in Nat /\ AtPut \in {0, 1}
      /\ Cardinality(asked) \in Nat /\ Len(owner) <= MaxConn
      /\ beats + count + AtPut <= MaxExtra + Cardinality(asked) /\ \A n \in Nvr : New(n)
  BY AskedFinite, CommandAssumption DEF Inv, TypeOK, Counted, Bounded, CommandType, AtPut
<1>1. CASE UiPut
  <2>1. count' = count + 1 /\ AtPut = 1 /\ AtPut' = 0 /\ UNCHANGED <<owner, t, conn, asked, beats>>
    BY <1>1 DEF UiPut, Put, AtPut, thread, net
  <2>. QED
    BY <1>0, <2>1 DEF Bounded
<1>2. ASSUME NEW n \in Nvr, OnlineAsk(n) PROVE Bounded'
  <2>1. asked' = asked \cup {conn[n]} /\ Cardinality(asked') = Cardinality(asked) + 1
        /\ UNCHANGED <<owner, conn, ui, beats>> /\ conn[n] \in Conns
    BY <1>2, AskCounts DEF Counted
  <2>2. count' = count + 1 /\ t' = [t EXCEPT ![n] = "up"] /\ AtPut' = AtPut
    BY <1>2, <2>1 DEF OnlineAsk, Put, Goto, AtPut
  <2>3. beats' + count' + AtPut' <= MaxExtra + Cardinality(asked')
    BY <1>0, <2>1, <2>2
  <2>4. ASSUME NEW m \in Nvr, t'[m] \in {"opened", "online"} PROVE conn'[m] \notin asked'
    <3>1. m # n /\ t[m] = t'[m]
      BY <1>0, <2>2, <2>4 DEF ThreadType
    <3>2. conn[m] # 0 /\ owner[conn[m]] = m /\ owner[conn[n]] = n /\ conn[m] \notin asked
      BY <1>0, <2>1, <2>4, <3>1 DEF Sockets, Up, Conns
    <3>. QED
      BY <2>1, <3>1, <3>2
  <2>. QED
    BY <1>0, <2>1, <2>3, <2>4 DEF Bounded
<1>3. ASSUME NEW n \in Nvr, NEW h \in Socket, Open(n, h) PROVE Bounded'
  <2>1. /\ Len(owner') = Len(owner) + 1 /\ conn' = [conn EXCEPT ![n] = Len(owner) + 1]
        /\ Len(owner) < MaxConn /\ t' = [t EXCEPT ![n] = "opened"] /\ UNCHANGED <<ui, asked, count, beats>>
    BY <1>3, OpenIs DEF Open, Goto, commands
  <2>2. \A m \in Nvr : New(m)'
    <3>1. Len(owner) + 1 \notin asked
      BY <1>0 DEF CommandType, Conns
    <3>. QED
      BY <1>0, <2>1, <3>1 DEF NetType, ThreadType
  <2>3. AtPut' = AtPut
    BY <2>1 DEF AtPut
  <2>. QED
    BY <1>0, <2>1, <2>2, <2>3 DEF Bounded
<1>4. ASSUME NEW n \in Nvr, UiCheck(n) PROVE Bounded'
  <2>1. AtPut = 0 /\ AtPut' \in {0, 1} /\ Extra < MaxExtra /\ UNCHANGED <<owner, t, conn, asked, beats, count>>
    BY <1>4 DEF UiCheck, AtPut, thread, net
  <2>2. beats + count < MaxExtra + Cardinality(asked)
    BY <1>0, <2>1 DEF Extra, AtPut
  <2>. QED
    BY <1>0, <2>1, <2>2 DEF Bounded
<1>5. ASSUME NEW n \in Nvr, BeatDue(n) PROVE Bounded'
  <2>1. AtPut' = AtPut /\ Extra < MaxExtra /\ t' = [t EXCEPT ![n] = "beat"] /\ beats' = beats + 1
        /\ UNCHANGED <<owner, conn, asked, count>>
    BY <1>5 DEF BeatDue, AtPut, Goto, net, commands
  <2>2. beats + count + AtPut < MaxExtra + Cardinality(asked)
    BY <1>0, <2>1 DEF Extra, AtPut
  <2>3. \A m \in Nvr : New(m)'
    BY <1>0, <2>1 DEF ThreadType
  <2>. QED
    BY <1>0, <2>1, <2>2, <2>3 DEF Bounded
<1>6. ASSUME UNCHANGED <<owner, conn, asked, count, beats, ui>>,
             \A n \in Nvr : t'[n] \in {"opened", "online"} => t[n] \in {"opened", "online"}
      PROVE  Bounded'
  BY <1>0, <1>6 DEF Bounded, AtPut
<1>7. CASE Sender
  BY <1>6, <1>7 DEF Sender, Turn, Get, Refuse, Check, SendBegin, NoSocket, SendDone, SendFail, thread, net, commands
<1>8. CASE Create \/ Store
  BY <1>0, <1>6, <1>8 DEF Create, Store, Goto, thread, net, commands, ThreadType
<1>9. ASSUME NEW n \in Nvr, Connection(n) \/ Close(n), ~OnlineAsk(n) PROVE Bounded'
  BY <1>0, <1>6, <1>9 DEF Connection, Close, SetConnect, OnlineRefused, BeatBegin, BeatDone, BeatFail, ClearSockfd,
     Unconnect, Goto, thread, net, commands, ThreadType
<1>. QED
  BY <1>1, <1>2, <1>3, <1>4, <1>5, <1>7, <1>8, <1>9 DEF Next

\* What is left to do is a number.
LEMMA RestNat ==
    ASSUME Inv, Counted, NEW n \in Nvr
    PROVE  /\ Rest(n) \in Nat /\ Stage \in 0..3 /\ Distance(n) \in Nat
           /\ count \in Nat /\ Cardinality(Waiting) \in Nat /\ Load \in Nat
<1>1. CommandType /\ NetType /\ SenderType /\ s.n \in Nvr
  BY SenderAt DEF Inv, TypeOK
<1>2. /\ count \in Nat /\ Cardinality(Waiting) \in Nat /\ Cardinality(asked) \in Nat
      /\ Cardinality(asked) <= Len(owner) /\ Len(owner) \in Nat
  BY <1>1, AskedFinite
<1>3. beats \in Nat /\ AtPut \in Nat
  BY <1>1 DEF CommandType, AtPut
<1>4. count <= MaxExtra + MaxConn
  BY <1>2, <1>3, CommandAssumption DEF Counted, Bounded
<1>5. Stage \in 0..3
  BY <1>1 DEF SenderType, Stage
<1>6. Distance(n) \in Nat
  BY <1>1, CommandAssumption DEF Distance, Nvr
<1>7. Load \in Nat
  BY <1>2, <1>4, CommandAssumption DEF Load
<1>. QED
  BY <1>2, <1>5, <1>6, <1>7 DEF Rest

\* A command that is put: one less to come, one more to serve.
LEMMA PutRest ==
    ASSUME Inv, Counted, NEW n \in Nvr, NEW m \in Nvr, NEW c \in Nat, Put(m, c), s' = s
    PROVE  Rest(n)' < Rest(n) /\ Rest(n)' <= Rest(n)
<1>1. CommandType /\ NetType /\ Numbered
  BY DEF Inv, TypeOK, Counted
<1>2. count' = count + 1 /\ Waiting' = Waiting \cup {count + 1} /\ count + 1 \notin Waiting
  BY <1>1, PutCounts
<1>3. IsFiniteSet(Waiting)
  BY <1>1, AskedFinite
<1>4. Cardinality(Waiting') = Cardinality(Waiting) + 1
  BY <1>2, <1>3, FS_AddElement
<1>5. Stage' = Stage /\ Distance(n)' = Distance(n)
  BY DEF Stage, Distance
<1>6. count \in Nat /\ Cardinality(Waiting) \in Nat /\ Stage \in Int /\ Distance(n) \in Int /\ Load \in Int
  BY RestNat
<1>7. Load' = Load - 1
  BY <1>2, <1>4, <1>6, CommandAssumption DEF Load
<1>8. Rest(n)' = Rest(n) - 1 /\ Rest(n) \in Int
  BY <1>5, <1>6, <1>7 DEF Rest
<1>. QED
  BY <1>8

\* A step of the sender, unless there is nothing to do at this NVR.
LEMMA SenderRest ==
    ASSUME Inv, Counted, NEW n \in Nvr, Sender, queue[n] # <<>> \/ s.pc # "get"
    PROVE  Rest(n)' < Rest(n) /\ Rest(n)' <= Rest(n)
<1>0. CommandType /\ NetType /\ SenderType /\ Numbered /\ s.n \in Nvr
  BY SenderAt DEF Inv, TypeOK, Counted
<1>9. count \in Nat /\ Cardinality(Waiting) \in Nat /\ Stage \in Int /\ Distance(n) \in Int /\ Load \in Int
  BY RestNat
<1>10. Rest(n) \in Int /\ Rest(n) = Load + Stage + Distance(n) /\ Rest(n)' = Load' + Stage' + Distance(n)'
  BY <1>9 DEF Rest
<1>1. CASE Get
  <2>1. s'.pc = "check" /\ s'.n = s.n /\ s.pc = "get" /\ count' = count
    BY <1>0, <1>1 DEF Get, SenderType
  <2>2. Stage = 0 /\ Stage' = 3 /\ Distance(n)' = Distance(n)
    BY <2>1 DEF Stage, Distance
  <2>3. Cardinality(Waiting') = Cardinality(Waiting) - 1
    <3>1. PICK k : k \in Waiting /\ Waiting' = Waiting \ {k}
      BY <1>0, <1>1, GetCounts
    <3>2. IsFiniteSet(Waiting)
      BY <1>0, AskedFinite
    <3>. QED
      BY <3>1, <3>2, FS_RemoveElement
  <2>4. Load' = Load - 4
    BY <1>9, <2>1, <2>3, CommandAssumption DEF Load
  <2>. QED
    BY <1>9, <1>10, <2>2, <2>4
<1>2. ASSUME ~Get PROVE Load' = Load
  <2>1. UNCHANGED <<queue, count>>
    BY <1>2 DEF Sender, Turn, Refuse, Check, SendBegin, NoSocket, SendDone, SendFail, commands
  <2>. QED
    BY <2>1 DEF Load, Waiting, InQueue
<1>3. CASE Turn
  <2>1. s'.pc = s.pc /\ s'.n = (IF s.n = NvrNum THEN 1 ELSE s.n + 1) /\ s.n # n
    BY <1>0, <1>3 DEF Turn, SenderType
  <2>2. Stage' = Stage /\ Distance(n)' = Distance(n) - 1
    BY <1>0, <2>1, CommandAssumption DEF Stage, Distance, Nvr
  <2>3. ~Get
    BY <1>3 DEF Turn, Get
  <2>4. Load' = Load
    BY <1>2, <2>3
  <2>. QED
    BY <1>9, <1>10, <2>2, <2>4
<1>4. ASSUME Sender, ~Get, ~Turn PROVE Rest(n)' < Rest(n) /\ Rest(n)' <= Rest(n)
  <2>1. s'.n = s.n
    BY <1>0, <1>4 DEF Sender, Refuse, Check, SendBegin, NoSocket, SendDone, SendFail, Again, SenderType
  <2>2. Stage' \in Int /\ Stage' < Stage
    <3>1. CASE Refuse
      BY <1>0, <3>1 DEF Refuse, Again, Stage, SenderType
    <3>2. CASE Check
      BY <1>0, <3>2 DEF Check, Stage, SenderType
    <3>3. CASE SendBegin
      BY <1>0, <3>3 DEF SendBegin, Stage, SenderType
    <3>4. CASE NoSocket
      BY <1>0, <3>4 DEF NoSocket, Again, Stage, SenderType
    <3>5. CASE SendDone
      BY <1>0, <3>5 DEF SendDone, Again, Stage, SenderType
    <3>6. CASE SendFail
      BY <1>0, <3>6 DEF SendFail, Again, Stage, SenderType
    <3>. QED
      BY <1>4, <3>1, <3>2, <3>3, <3>4, <3>5, <3>6 DEF Sender
  <2>3. Distance(n)' = Distance(n)
    BY <2>1 DEF Distance
  <2>4. Load' = Load
    BY <1>2, <1>4
  <2>. QED
    BY <1>9, <1>10, <2>2, <2>3, <2>4
<1>. QED
  BY <1>1, <1>3, <1>4

\* A command that has been served stays so: the queues and the sender get no old one.
LEMMA ServedStays ==
    ASSUME Inv, Counted, Next, NEW k \in 1..count, ~Waits(k)
    PROVE  ~Waits(k)'
<1>0. /\ CommandType /\ NetType /\ SenderType /\ Numbered /\ Bounded
      /\ k \in Nat /\ k # 0 /\ s.pkt.id # k /\ \A n \in Nvr : ~InQueue(n, k)
  BY DEF Inv, TypeOK, Counted, CommandType, Waits, InQueue
<1>1. CASE s' = s /\ \A n \in Nvr : InQueue(n, k)' <=> InQueue(n, k)
  BY <1>0, <1>1 DEF Waits, InQueue
<1>2. CASE UiPut
  <2>1. ui.n \in Nvr /\ ui.conn \in Nat /\ Put(ui.n, ui.conn) /\ s' = s
    BY <1>0, <1>2 DEF CommandType, UiPut
  <2>. QED
    BY <1>0, <1>1, <2>1, PutCounts
<1>3. ASSUME NEW n \in Nvr, OnlineAsk(n) PROVE ~Waits(k)'
  BY <1>0, <1>1, <1>3, AskCounts, PutCounts
<1>4. CASE Get
  <2>1. /\ s'.pkt.id \in Waiting
        /\ \A m \in Nvr : InQueue(m, k)' => InQueue(m, k)
    BY <1>0, <1>4, GetCounts
  <2>2. s'.pkt.id # k
    BY <1>0, <2>1 DEF Waiting
  <2>. QED
    BY <1>0, <2>1, <2>2 DEF Waits, InQueue
<1>5. CASE Sender /\ ~Get /\ queue' = queue
  <2>1. s'.pkt.id \in {s.pkt.id, 0}
    <3>1. CASE Turn
      BY <1>0, <3>1 DEF Turn, SenderType
    <3>2. CASE Refuse \/ NoSocket \/ SendDone \/ SendFail
      <4>1. s' = Again(s)
        BY <3>2 DEF Refuse, NoSocket, SendDone, SendFail
      <4>. QED
        BY <1>0, <4>1 DEF Again, SenderType, NoPacket
    <3>3. CASE Check
      BY <1>0, <3>3 DEF Check, SenderType
    <3>4. CASE SendBegin
      BY <1>0, <3>4 DEF SendBegin, SenderType
    <3>. QED
      BY <1>5, <3>1, <3>2, <3>3, <3>4 DEF Sender
  <2>. QED
    BY <1>0, <1>5, <2>1 DEF Waits, InQueue
<1>6. CASE UNCHANGED <<queue, s>>
  BY <1>0, <1>6 DEF Waits, InQueue
<1>. QED
  BY <1>2, <1>3, <1>4, <1>5, <1>6, OtherSteps

\* Every step leaves the sender no more to do, and its own leave it less.
LEMMA RestLess ==
    ASSUME Inv, Counted, Next, NEW n \in Nvr, queue[n] # <<>> \/ s.pc # "get"
    PROVE  Rest(n)' <= Rest(n) /\ (Sender => Rest(n)' < Rest(n))
<1>0. CommandType /\ Rest(n) \in Int
  BY RestNat DEF Inv, TypeOK
<1>1. CASE UiPut
  <2>1. ui.n \in Nvr /\ ui.conn \in Nat /\ Put(ui.n, ui.conn) /\ s' = s
    BY <1>0, <1>1 DEF CommandType, UiPut
  <2>. QED
    BY <2>1, PutRest
<1>2. ASSUME NEW m \in Nvr, OnlineAsk(m) PROVE Rest(n)' <= Rest(n) /\ (Sender => Rest(n)' < Rest(n))
  BY <1>2, AskCounts, PutRest DEF Counted
<1>3. CASE Sender
  BY <1>3, SenderRest
<1>4. CASE ~Sender /\ UNCHANGED <<queue, count, s>>
  <2>1. Rest(n)' = Rest(n)
    BY <1>4 DEF Rest, Load, Waiting, InQueue, Stage, Distance
  <2>. QED
    BY <1>0, <1>4, <2>1
<1>. QED
  BY <1>1, <1>2, <1>3, <1>4, OtherSteps DEF Sender

\* The invariant that counts.
LEMMA CountedInit == Init => Counted
<1>. SUFFICES ASSUME Init PROVE Counted
  OBVIOUS
<1>1. Numbered
  BY DEF Init, Numbered
<1>2. Cardinality(asked) = 0
  BY FS_EmptySet DEF Init
<1>. QED
  BY <1>1, <1>2, CommandAssumption DEF Init, Counted, Bounded, AtPut

LEMMA CountedStep == Inv /\ Counted /\ [Next]_vars => Counted'
<1>1. CASE Inv /\ Counted /\ Next
  BY <1>1, NumberedKept, BoundedKept DEF Counted
<1>2. CASE Counted /\ UNCHANGED vars
  BY <1>2 DEF vars, thread, net, commands, Counted, Numbered, Bounded, AtPut
<1>. QED
  BY <1>1, <1>2

\* What is waited for, and what is done in every step.
Serving ==
    /\ \A n \in Nvr : Rest(n) \in Nat
    /\ s.pc = "lock" /\ hPmsgMutex[s.n] # "free" => t[s.n] = "beating"
Onward ==
    /\ \A n \in Nvr : queue[n] # <<>> \/ s.pc # "get" =>
         Rest(n)' <= Rest(n) /\ (Sender => Rest(n)' < Rest(n))
    /\ \A k \in 1..count : ~Waits(k) => ~Waits(k)'

\* Every command is served (Served) because each step of CmdProcessThread leaves it less to do as
\* long as a command waits, what the others do leaves it no more, whoever keeps it from the mutex is a
\* heartbeat in the middle of its send, and a command that was served never waits again.
THEOREM ServedNears == Spec => [](Serving) /\ [][Onward]_vars
<1>1. Inv /\ Counted => Serving
  <2>. SUFFICES ASSUME Inv, Counted PROVE Serving
    OBVIOUS
  <2>1. s.n \in Nvr /\ hPmsgMutex[s.n] \in {"free", "cmd", "beat"}
    BY SenderAt DEF Inv, TypeOK, ThreadType
  <2>. QED
    BY <2>1, RestNat DEF Serving, Inv, Mutex
<1>2. Inv /\ Counted /\ [Next]_vars => [Onward]_vars
  BY RestLess, ServedStays DEF Onward
<1>. QED
  BY <1>1, <1>2, CountedInit, CountedStep, Invariance, PTL DEF Spec
=============================================================================
