----------------------------- MODULE NvrCommand -----------------------------
(***************************************************************************)
(* How commands reach the NVRs: NVR_init and NVR_Connect start a           *)
(* connection thread for every NVR and CmdProcessThread, the one thread    *)
(* that sends what NVR_SendCmdInfo has put into the queues                 *)
(* (NVRMsgProc.cxx).  The sender and the heartbeat of the connection       *)
(* thread meet in PMSG_SendPmsgData (pmsgcli.cpp): hPmsgMutex keeps their  *)
(* sends apart, but the connection thread opens and closes the socket and  *)
(* assigns iSockfd and iConnectStatus without it, and the system may give  *)
(* the number of a closed socket to the next connection of any NVR.        *)
(*                                                                         *)
(* The framing of what is received is in PmsgConn, the list behind a queue *)
(* in CmdQueue.  A send hands a frame to TCP in two parts: it may block    *)
(* between them, until SO_SNDTIMEO at the latest.                          *)
(***************************************************************************)
EXTENDS Naturals, Sequences, FiniteSets

CONSTANTS
    NvrNum,     \* s_iNvrTotalNum
    Socket,     \* the numbers the system gives to sockets
    MaxConn,    \* bound: connections made, by all NVRs
    MaxExtra    \* bound: commands of the user interface and heartbeats, together

ASSUME CommandAssumption ==
    /\ NvrNum \in Nat \ {0}
    /\ Socket \subseteq Nat \ {0}
    /\ MaxConn \in Nat /\ MaxExtra \in Nat

Nvr == 1..NvrNum

VARIABLES
    boot,       \* NVR_init: the NVR it is at; the handles of the ones before are stored
    t,          \* where the connection thread of an NVR is
    iSocket,    \* its local copy of the socket, 0 for none
    iSockfd, iConnectStatus,
    hPmsgMutex, \* who holds it: "free", "cmd" or "beat"
    owner,      \* owner[c]: the NVR connection c was made to
    conn,       \* the last connection made to an NVR, gone or not
    at,         \* at[h]: the connection that socket h is, 0 when h is closed
    wire,       \* wire[c]: the last two parts of frames that were written to connection c
    queue,      \* PtCmdQueue: commands [id, conn], conn the connection they were accepted on
    ui,         \* NVR_SendCmdInfo on the user interface's thread
    count,      \* commands put into a queue
    asked,      \* the connections whose ONLINE put a status request
    known,      \* the connections made after NVR_Connect had stored the handle
    s,          \* CmdProcessThread: where it is, its NVR, its packet, what it checked, writes to
    dropped,    \* the last command refused by the status check
    beats

thread == <<t, iSocket, iSockfd, iConnectStatus>>
net == <<owner, conn, at, wire, known>>
commands == <<queue, ui, count, asked>>
vars == <<boot, thread, hPmsgMutex, net, commands, s, dropped, beats>>

NoPacket == [id |-> 0, conn |-> 0]
Conns == 1..Len(owner)
Live(c) == \E h \in Socket : at[h] = c

\* What a send on iSockfd writes to, 0 for nothing.
Target(n) == IF iSockfd[n] = 0 THEN 0 ELSE at[iSockfd[n]]

\* A part of a frame; id 0 is a heartbeat, chk the connection the sender found up.  The first
\* part of a frame whose send fails then is known as part 0.
Part(n, id, chk, p) == [nvr |-> n, id |-> id, chk |-> chk, part |-> p]
NoPart == Part(0, 0, 0, 0)
Write(c, x) == wire' = [wire EXCEPT ![c] = [prev |-> @.last, last |-> x]]
Cut(c, x) == wire' = [wire EXCEPT ![c].last = IF @ = x THEN [x EXCEPT !.part = 0] ELSE @]

Init ==
    /\ boot = 1
    /\ t = [n \in Nvr |-> "none"]
    /\ iSocket = [n \in Nvr |-> 0]
    /\ iSockfd = [n \in Nvr |-> 0]
    /\ iConnectStatus = [n \in Nvr |-> "UNCONNECT"]
    /\ hPmsgMutex = [n \in Nvr |-> "free"]
    /\ owner = <<>>
    /\ conn = [n \in Nvr |-> 0]
    /\ at = [h \in Socket |-> 0]
    /\ wire = <<>>
    /\ queue = [n \in Nvr |-> <<>>]
    /\ ui = [n |-> 0, conn |-> 0]
    /\ count = 0
    /\ asked = {}
    /\ known = {}
    /\ s = [pc |-> "get", n |-> 1, pkt |-> NoPacket, chk |-> 0, to |-> 0]
    /\ dropped = NoPacket
    /\ beats = 0

\* What counts against the bound: heartbeats, and commands the user interface has given or gives.
Extra == beats + count - Cardinality(asked) + (IF ui.n # 0 THEN 1 ELSE 0)

Goto(n, label) == t' = [t EXCEPT ![n] = label]

-----------------------------------------------------------------------------
(* NVR_init *)

\* PMSG_CreateConnect: the thread runs before its handle is returned.
Create ==
    /\ boot \in Nvr /\ t[boot] = "none"
    /\ Goto(boot, "top")
    /\ UNCHANGED <<boot, iSocket, iSockfd, iConnectStatus, hPmsgMutex, net, commands, s, dropped, beats>>

Store ==
    /\ boot \in Nvr /\ t[boot] # "none"
    /\ boot' = boot + 1
    /\ UNCHANGED <<thread, hPmsgMutex, net, commands, s, dropped, beats>>

Stored(n) == n < boot

-----------------------------------------------------------------------------
(* The connection thread; a connection that cannot be made changes nothing *)

\* Mutant: iSockfd is not renewed.
Open_OldSockfd(n, h) ==
    /\ t[n] = "top"
    /\ at[h] = 0 /\ Len(owner) < MaxConn
    /\ at' = [at EXCEPT ![h] = Len(owner) + 1]
    /\ owner' = Append(owner, n)
    /\ conn' = [conn EXCEPT ![n] = Len(owner) + 1]
    /\ wire' = Append(wire, [prev |-> NoPart, last |-> NoPart])
    /\ known' = IF n < boot THEN known \cup {Len(owner) + 1} ELSE known
    /\ iSocket' = [iSocket EXCEPT ![n] = h]
    /\ iSockfd' = [iSockfd EXCEPT ![n] = IF @ = 0 THEN 1 ELSE @]
    /\ Goto(n, "opened")
    /\ UNCHANGED <<boot, iConnectStatus, hPmsgMutex, commands, s, dropped, beats>>

Open(n, h) ==
    /\ t[n] = "top"
    /\ at[h] = 0 /\ Len(owner) < MaxConn
    /\ at' = [at EXCEPT ![h] = Len(owner) + 1]
    /\ owner' = Append(owner, n)
    /\ conn' = [conn EXCEPT ![n] = Len(owner) + 1]
    /\ wire' = Append(wire, [prev |-> NoPart, last |-> NoPart])
    /\ known' = IF n < boot THEN known \cup {Len(owner) + 1} ELSE known
    /\ iSocket' = [iSocket EXCEPT ![n] = h]
    /\ iSockfd' = [iSockfd EXCEPT ![n] = h]
    /\ Goto(n, "opened")
    /\ UNCHANGED <<boot, iConnectStatus, hPmsgMutex, commands, s, dropped, beats>>

\* Mutant: ONLINE is called before the status is set.
SetConnect_Late(n) ==
    /\ t[n] = "opened"
    /\ Goto(n, "online")
    /\ UNCHANGED <<boot, iSocket, iSockfd, iConnectStatus, hPmsgMutex, net, commands, s, dropped, beats>>

SetConnect(n) ==
    /\ t[n] = "opened"
    /\ iConnectStatus' = [iConnectStatus EXCEPT ![n] = "CONNECT"]
    /\ Goto(n, "online")
    /\ UNCHANGED <<boot, iSocket, iSockfd, hPmsgMutex, net, commands, s, dropped, beats>>

Put(n, c) ==
    /\ count' = count + 1
    /\ queue' = [queue EXCEPT ![n] = Append(@, [id |-> count + 1, conn |-> c])]

\* Mutant: the status is not looked at.
Accepts_Any(n) == Stored(n) /\ conn[n] # 0

\* NVR_SendCmdInfo lets a command pass.
Accepts(n) == Stored(n) /\ iConnectStatus[n] = "CONNECT"

\* pMsgProcFunc(ONLINE) asks for the status of the cameras, if FindHandleNo finds the handle.
OnlineAsk(n) ==
    /\ t[n] = "online" /\ Accepts(n)
    /\ Put(n, conn[n])
    /\ asked' = asked \cup {conn[n]}
    /\ Goto(n, "up")
    /\ UNCHANGED <<boot, iSocket, iSockfd, iConnectStatus, hPmsgMutex, net, ui, s, dropped, beats>>

OnlineRefused(n) ==
    /\ t[n] = "online" /\ ~Accepts(n)
    /\ Goto(n, "up")
    /\ UNCHANGED <<boot, iSocket, iSockfd, iConnectStatus, hPmsgMutex, net, commands, s, dropped, beats>>

BeatDue(n) ==
    /\ t[n] = "up" /\ Extra < MaxExtra
    /\ beats' = beats + 1
    /\ Goto(n, "beat")
    /\ UNCHANGED <<boot, iSocket, iSockfd, iConnectStatus, hPmsgMutex, net, commands, s, dropped>>

BeatBegin(n) ==
    /\ t[n] = "beat"
    /\ hPmsgMutex[n] = "free"
    /\ hPmsgMutex' = [hPmsgMutex EXCEPT ![n] = "beat"]
    /\ Write(Target(n), Part(n, 0, conn[n], 1))
    /\ Goto(n, "beating")
    /\ UNCHANGED <<boot, iSocket, iSockfd, iConnectStatus, owner, conn, at, known, commands, s, dropped, beats>>

BeatDone(n) ==
    /\ t[n] = "beating"
    /\ hPmsgMutex' = [hPmsgMutex EXCEPT ![n] = "free"]
    /\ Write(conn[n], Part(n, 0, conn[n], 2))
    /\ Goto(n, "up")
    /\ UNCHANGED <<boot, iSocket, iSockfd, iConnectStatus, owner, conn, at, known, commands, s, dropped, beats>>

BeatFail(n) ==
    /\ t[n] = "beating"
    /\ hPmsgMutex' = [hPmsgMutex EXCEPT ![n] = "free"]
    /\ Cut(conn[n], Part(n, 0, conn[n], 1))
    /\ Goto(n, "lost")
    /\ UNCHANGED <<boot, iSocket, iSockfd, iConnectStatus, owner, conn, at, known, commands, s, dropped, beats>>

\* DestroyTcpSocket, after a failed heartbeat or when recv finds the connection gone.
Close(n) ==
    /\ t[n] \in {"up", "lost"}
    /\ at' = [at EXCEPT ![iSocket[n]] = 0]
    /\ iSocket' = [iSocket EXCEPT ![n] = 0]
    /\ Goto(n, "closed")
    /\ UNCHANGED <<boot, iSockfd, iConnectStatus, hPmsgMutex, owner, conn, wire, known, commands, s, dropped, beats>>

ClearSockfd(n) ==
    /\ t[n] = "closed"
    /\ iSockfd' = [iSockfd EXCEPT ![n] = 0]
    /\ Goto(n, "cleared")
    /\ UNCHANGED <<boot, iSocket, iConnectStatus, hPmsgMutex, net, commands, s, dropped, beats>>

Unconnect(n) ==
    /\ t[n] = "cleared"
    /\ iConnectStatus' = [iConnectStatus EXCEPT ![n] = "UNCONNECT"]
    /\ Goto(n, "top")
    /\ UNCHANGED <<boot, iSocket, iSockfd, hPmsgMutex, net, commands, s, dropped, beats>>

-----------------------------------------------------------------------------
(* The user interface gives a command *)

\* iConnectStatus is read: it speaks of the last connection, gone or not.
UiCheck(n) ==
    /\ boot > NvrNum /\ ui.n = 0 /\ Extra < MaxExtra
    /\ Accepts(n)
    /\ ui' = [n |-> n, conn |-> conn[n]]
    /\ UNCHANGED <<boot, thread, hPmsgMutex, net, queue, count, asked, s, dropped, beats>>

\* PutNodeToCmdQueue.
UiPut ==
    /\ ui.n # 0
    /\ Put(ui.n, ui.conn)
    /\ ui' = [n |-> 0, conn |-> 0]
    /\ UNCHANGED <<boot, thread, hPmsgMutex, net, asked, s, dropped, beats>>

-----------------------------------------------------------------------------
(* CmdProcessThread *)

Running == boot > NvrNum

\* The queue is empty: on to the next NVR.
Turn ==
    /\ Running /\ s.pc = "get" /\ queue[s.n] = <<>>
    /\ s' = [s EXCEPT !.n = IF @ = NvrNum THEN 1 ELSE @ + 1]
    /\ UNCHANGED <<boot, thread, hPmsgMutex, net, commands, dropped, beats>>

Get ==
    /\ Running /\ s.pc = "get" /\ queue[s.n] # <<>>
    /\ s' = [s EXCEPT !.pc = "check", !.pkt = Head(queue[s.n])]
    /\ queue' = [queue EXCEPT ![s.n] = Tail(@)]
    /\ UNCHANGED <<boot, thread, hPmsgMutex, net, ui, count, asked, dropped, beats>>

Again(x) == [x EXCEPT !.pc = "get", !.pkt = NoPacket, !.chk = 0, !.to = 0]

\* Nobody looks at the result of PMSG_SendPmsgData.
Refuse ==
    /\ s.pc = "check" /\ iConnectStatus[s.n] # "CONNECT"
    /\ dropped' = s.pkt
    /\ s' = Again(s)
    /\ UNCHANGED <<boot, thread, hPmsgMutex, net, commands, beats>>

Check ==
    /\ s.pc = "check" /\ iConnectStatus[s.n] = "CONNECT"
    /\ s' = [s EXCEPT !.pc = "lock", !.chk = conn[s.n]]
    /\ UNCHANGED <<boot, thread, hPmsgMutex, net, commands, dropped, beats>>

\* Mutant: the mutex is not waited for.
SendBegin_NoWait ==
    /\ s.pc = "lock" /\ Target(s.n) # 0
    /\ hPmsgMutex' = [hPmsgMutex EXCEPT ![s.n] = "cmd"]
    /\ s' = [s EXCEPT !.pc = "sending", !.to = Target(s.n)]
    /\ Write(Target(s.n), Part(s.n, s.pkt.id, s.chk, 1))
    /\ UNCHANGED <<boot, thread, owner, conn, at, known, commands, dropped, beats>>

\* iSockfd is read under the mutex; what it is the number of by now gets the frame.
SendBegin ==
    /\ s.pc = "lock" /\ hPmsgMutex[s.n] = "free"
    /\ Target(s.n) # 0
    /\ hPmsgMutex' = [hPmsgMutex EXCEPT ![s.n] = "cmd"]
    /\ s' = [s EXCEPT !.pc = "sending", !.to = Target(s.n)]
    /\ Write(Target(s.n), Part(s.n, s.pkt.id, s.chk, 1))
    /\ UNCHANGED <<boot, thread, owner, conn, at, known, commands, dropped, beats>>

NoSocket ==
    /\ s.pc = "lock" /\ hPmsgMutex[s.n] = "free"
    /\ Target(s.n) = 0
    /\ s' = Again(s)
    /\ UNCHANGED <<boot, thread, hPmsgMutex, net, commands, dropped, beats>>

SendDone ==
    /\ s.pc = "sending" /\ Live(s.to)
    /\ hPmsgMutex' = [hPmsgMutex EXCEPT ![s.n] = "free"]
    /\ Write(s.to, Part(s.n, s.pkt.id, s.chk, 2))
    /\ s' = Again(s)
    /\ UNCHANGED <<boot, thread, owner, conn, at, known, commands, dropped, beats>>

\* Mutant: the mutex is not released when the send fails.
SendFail_Hold ==
    /\ s.pc = "sending"
    /\ Cut(s.to, Part(s.n, s.pkt.id, s.chk, 1))
    /\ s' = Again(s)
    /\ UNCHANGED <<boot, thread, hPmsgMutex, owner, conn, at, known, commands, dropped, beats>>

\* The connection is broken, or SO_SNDTIMEO has passed.
SendFail ==
    /\ s.pc = "sending"
    /\ hPmsgMutex' = [hPmsgMutex EXCEPT ![s.n] = "free"]
    /\ Cut(s.to, Part(s.n, s.pkt.id, s.chk, 1))
    /\ s' = Again(s)
    /\ UNCHANGED <<boot, thread, owner, conn, at, known, commands, dropped, beats>>

-----------------------------------------------------------------------------

Connection(n) ==
    \/ SetConnect(n) \/ OnlineAsk(n) \/ OnlineRefused(n)
    \/ BeatBegin(n) \/ BeatDone(n) \/ BeatFail(n) \/ ClearSockfd(n) \/ Unconnect(n)

Sender == Turn \/ Get \/ Refuse \/ Check \/ SendBegin \/ NoSocket \/ SendDone \/ SendFail

Next ==
    \/ Create \/ Store \/ UiPut \/ Sender
    \/ \E n \in Nvr :
         \/ Connection(n) \/ BeatDue(n) \/ Close(n) \/ UiCheck(n)
         \/ \E h \in Socket : Open(n, h)

\* Threads run and a send ends, after SO_SNDTIMEO at the latest; heartbeats leave the
\* mutex free for seconds.
Fairness ==
    /\ WF_vars(Create \/ Store) /\ WF_vars(UiPut)
    /\ WF_vars(Turn \/ Get \/ Refuse \/ Check) /\ SF_vars(SendBegin \/ NoSocket)
    /\ WF_vars(SendDone \/ SendFail)
    /\ \A n \in Nvr : WF_vars(Connection(n))

Spec == Init /\ [][Next]_vars /\ Fairness

-----------------------------------------------------------------------------
(* Properties *)

Labels == {"none", "top", "opened", "online", "up", "beat", "beating", "lost", "closed", "cleared"}
Packets == [id : Nat, conn : Nat]
Parts == [nvr : Nvr \cup {0}, id : Nat, chk : Nat, part : {0, 1, 2}]

Pairs == [prev : Parts, last : Parts]

ThreadType ==
    /\ boot \in Nat
    /\ t \in [Nvr -> Labels]
    /\ iSocket \in [Nvr -> Socket \cup {0}] /\ iSockfd \in [Nvr -> Socket \cup {0}]
    /\ iConnectStatus \in [Nvr -> {"CONNECT", "UNCONNECT"}]
    /\ hPmsgMutex \in [Nvr -> {"free", "cmd", "beat"}]
NetType ==
    /\ owner \in Seq(Nvr) /\ conn \in [Nvr -> Conns \cup {0}]
    /\ at \in [Socket -> Conns \cup {0}]
    /\ known \subseteq Conns
WireType == wire \in Seq(Pairs) /\ Len(wire) = Len(owner)
CommandType ==
    /\ queue \in [Nvr -> Seq(Packets)]
    /\ ui \in [n : Nvr \cup {0}, conn : Nat]
    /\ count \in Nat /\ asked \subseteq Conns /\ beats \in Nat
    /\ dropped \in Packets
SenderType ==
    s \in [pc : {"get", "check", "lock", "sending"}, n : Nvr, pkt : Packets,
          chk : Nat, to : Conns \cup {0}]

\* The variables have their types.
TypeOK == ThreadType /\ NetType /\ WireType /\ CommandType /\ SenderType

\* A frame is written to the connection its sender found up (PMSG_SendPmsgData checks the
\* status before it waits for the mutex), or that connection was closed in between: only then
\* may a command reach a later connection, or another NVR.
StrayNeedsClose ==
    \A c \in Conns : wire[c].last.nvr # 0 => wire[c].last.chk = c \/ ~Live(wire[c].last.chk)

\* A command that CmdProcessThread loses because the NVR is not connected was given on a
\* connection that is gone.
DroppedNeedsClose == dropped # NoPacket => ~Live(dropped.conn)

\* The frames of the heartbeat and of the commands do not mix: as long as no frame of another
\* NVR strays onto a connection, what follows the first part of a frame is its second part,
\* unless the send of the frame failed.
WholeOn(c) ==
    LET p == wire[c].prev  l == wire[c].last IN
    p.nvr = owner[c] /\ l.nvr = owner[c] =>
        /\ p.part = 1 => l = [p EXCEPT !.part = 2]
        /\ l.part = 2 => p = [l EXCEPT !.part = 1]
FramesWhole == \A c \in Conns : WholeOn(c)

\* Every session begins with a request for the status of the cameras, but for a connection
\* that was made before NVR_Connect had stored the handle.
SessionAsked ==
    \A n \in Nvr :
        t[n] \in {"up", "beat", "beating", "lost"} /\ conn[n] \in known => conn[n] \in asked

\* A command that was put leaves the queue, and the sender is done with it, in the end: one NVR
\* that is down or slow does not keep the commands of the others.  Only so many are put, so that
\* in the end none of them waits.
Waits(k) == s.pkt.id = k \/ \E n \in Nvr : \E i \in 1..Len(queue[n]) : queue[n][i].id = k
Served == []<>(\A k \in 1..(MaxExtra + MaxConn) : ~Waits(k))

-----------------------------------------------------------------------------
(* The inductive invariant *)

Up == {"opened", "online", "up", "beat", "beating", "lost"}

\* The sockets: a live connection is the one its NVR's thread has open, under both numbers.
Sockets ==
    \A n \in Nvr :
        /\ conn[n] # 0 => owner[conn[n]] = n
        /\ t[n] \in Up =>
             /\ iSocket[n] # 0 /\ iSockfd[n] = iSocket[n]
             /\ conn[n] # 0 /\ at[iSocket[n]] = conn[n]
        /\ iConnectStatus[n] = "CONNECT" => conn[n] # 0 /\ t[n] \in (Up \ {"opened"}) \cup {"closed", "cleared"}
        /\ t[n] \in Up \ {"opened"} => iConnectStatus[n] = "CONNECT"
LiveIsOpen ==
    \A h \in Socket : at[h] # 0 =>
        /\ t[owner[at[h]]] \in Up
        /\ iSocket[owner[at[h]]] = h
        /\ conn[owner[at[h]]] = at[h]

\* A command knows the connection it was accepted on, one that was up.
Accepted(n, c) == c \in Conns /\ owner[c] = n /\ (t[n] = "opened" => c # conn[n])
Queued == \A n \in Nvr : \A i \in 1..Len(queue[n]) : Accepted(n, queue[n][i].conn)
Hands ==
    /\ ui.n # 0 => Accepted(ui.n, ui.conn)
    /\ s.pc # "get" => Accepted(s.n, s.pkt.conn)
Checks ==
    /\ s.pc \in {"lock", "sending"} => s.chk \in Conns /\ owner[s.chk] = s.n
    /\ dropped # NoPacket => dropped.conn \in Conns
    /\ \A n \in Nvr : conn[n] \in known => n < boot
\* What is being sent goes to the connection that was checked, or that one is gone.
Aim == s.pc = "sending" => s.chk = s.to \/ ~Live(s.chk)
Given == Queued /\ Hands /\ Checks /\ Aim

\* The mutex is held by who is between the two parts of a frame, and the frame is begun.
Mutex ==
    \A n \in Nvr :
        /\ hPmsgMutex[n] = "beat" <=> t[n] = "beating"
        /\ hPmsgMutex[n] = "cmd" <=> s.pc = "sending" /\ s.n = n
BegunOn(c) ==
    LET l == wire[c].last  n == owner[c] IN
    /\ l.nvr # 0 => l.chk \in Conns
    /\ t[n] = "beating" /\ conn[n] = c => l = Part(n, 0, c, 1) \/ l.nvr # n
    /\ s.pc = "sending" /\ s.to = c /\ s.n = n => l = Part(n, s.pkt.id, s.chk, 1) \/ l.nvr # n
    /\ l.nvr = n /\ l.part = 1 =>
         \/ t[n] = "beating" /\ conn[n] = c
         \/ s.pc = "sending" /\ s.to = c /\ s.n = n
Begun == (s.pc = "sending" => s.to # 0) /\ \A c \in Conns : BegunOn(c)

Inv ==
    /\ TypeOK /\ Sockets /\ LiveIsOpen /\ Given /\ Mutex /\ Begun
    /\ StrayNeedsClose /\ DroppedNeedsClose /\ FramesWhole /\ SessionAsked
=============================================================================
