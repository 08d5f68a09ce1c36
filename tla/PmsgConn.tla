------------------------------ MODULE PmsgConn ------------------------------
(***************************************************************************)
(* The connection thread CliProcessThreadRead of pmsgcli.cpp, one of which *)
(* runs for every NVR: it keeps a TCP connection to the NVR alive, cuts    *)
(* the byte stream into messages and hands each of them to a callback      *)
(* (PmsgProc), together with the pseudo messages ONLINE and OFFLINE.       *)
(*                                                                         *)
(* A message travels as a head of HdrLen bytes (0xFF, command, length) and *)
(* a body (the data and one check byte).  A byte is abstracted to the      *)
(* place it has in the stream: [k |-> frame number on this connection,     *)
(* o |-> offset in that frame], so that a read that starts at a wrong      *)
(* place is told from one that starts at a right one.                      *)
(***************************************************************************)
EXTENDS Integers, Sequences

CONSTANTS
    Msg,        \* the messages the NVR may send
    BodyLen,    \* length of the body of each: iDataLen + 1, check byte included
    JunkLen,    \* nDataLength values read from a head that is no head
    MaxConn,    \* bound: connections made
    MaxFrame    \* bound: messages the NVR sends on one connection

ASSUME ConnAssumption ==
    /\ BodyLen \in [Msg -> Nat \ {0}]
    /\ JunkLen \subseteq Nat \ {0}
    /\ MaxConn \in Nat
    /\ MaxFrame \in Nat

HdrLen == 4     \* sizeof(T_MSG_HEAD)

Byte == [k : Nat, o : Nat]

\* What cmdType was read from: frame k of connection conn; k = 0 is no frame.
Cmd == [conn : Nat, k : Nat]
NoCmd == [conn |-> 0, k |-> 0]

Total(m) == HdrLen + BodyLen[m]
FrameBytes(k, m) == [i \in 1..Total(m) |-> [k |-> k, o |-> i - 1]]
Body(k, m) == [i \in 1..BodyLen[m] |-> [k |-> k, o |-> HdrLen + i - 1]]

VARIABLES
    run,            \* iThreadRunFlag
    pc,             \* the thread: "top" of the loop, "beat" (the heartbeat part), "done"
    socket,         \* iSocket and iSockfd, assigned together: the open connection or 0
    iConnectStatus,
    nDataLength,    \* 0: a head is expected; else the length of the expected body
    nPreDataMove,   \* offset of the next recv in pcRecvBuf
    cmdType,
    conn,           \* number of the last connection made
    peerOpen,       \* the NVR's end of it is open
    frames,         \* the messages the NVR has sent on it
    wire,           \* the bytes of them that were not received yet
    cb,             \* the last call of pMsgProcFunc
    seen,           \* message callbacks since the last ONLINE
    torn            \* this connection began, or got, out of step (see ConnectOk, RecvBody)

parse == <<nDataLength, nPreDataMove, cmdType>>
net == <<conn, peerOpen, frames, wire>>
vars == <<run, pc, socket, iConnectStatus, parse, net, cb, seen, torn>>

Callback == [kind : {"NONE", "ONLINE", "OFFLINE", "MSG"}, conn : Nat, cmd : Cmd, data : Seq(Byte)]
Notice(kind, c) == [kind |-> kind, conn |-> c, cmd |-> NoCmd, data |-> <<>>]

Init ==
    /\ run = TRUE
    /\ pc = "top"
    /\ socket = 0
    /\ iConnectStatus = "UNCONNECT"
    /\ nDataLength = 0
    /\ nPreDataMove = 0
    /\ cmdType = NoCmd
    /\ conn = 0
    /\ peerOpen = FALSE
    /\ frames = <<>>
    /\ wire = <<>>
    /\ cb = Notice("NONE", 0)
    /\ seen = 0
    /\ torn = FALSE

-----------------------------------------------------------------------------
(* The thread *)

\* nDataLength and the rest of the parser's state are locals of the thread
\* that nothing resets here.
ConnectOk ==
    /\ pc = "top" /\ run /\ socket = 0
    /\ conn < MaxConn
    /\ conn' = conn + 1
    /\ socket' = conn'
    /\ iConnectStatus' = "CONNECT"
    /\ peerOpen' = TRUE
    /\ frames' = <<>>
    /\ wire' = <<>>
    /\ cb' = Notice("ONLINE", conn')
    /\ seen' = 0
    /\ torn' = (nDataLength > 0)
    /\ UNCHANGED <<run, pc, parse>>

ConnectFail ==
    /\ pc = "top" /\ run /\ socket = 0
    /\ iConnectStatus' = "UNCONNECT"
    /\ cb' = Notice("OFFLINE", conn)
    /\ UNCHANGED <<run, pc, socket, parse, net, seen, torn>>

\* Every branch that gives the connection up does this, and nothing else.
Disconnect ==
    /\ socket' = 0
    /\ iConnectStatus' = "UNCONNECT"
    /\ peerOpen' = FALSE
    /\ wire' = <<>>
    /\ cb' = Notice("OFFLINE", conn)
    /\ UNCHANGED <<run, parse, conn, frames, seen, torn>>

Polling == pc = "top" /\ run /\ socket > 0
\* Mutant: FD_SET only for the first socket.
Readable_FirstOnly == conn = 1 /\ (wire # <<>> \/ ~peerOpen)

Readable == wire # <<>> \/ ~peerOpen
Need == IF nDataLength > 0 THEN nDataLength ELSE HdrLen

SelectTimeout ==
    /\ Polling /\ ~Readable
    /\ pc' = "beat"
    /\ UNCHANGED <<run, socket, iConnectStatus, parse, net, cb, seen, torn>>

\* recv returned 0 (the NVR closed) or an error (reset, time-out).
RecvFail ==
    /\ Polling /\ Readable
    /\ pc' = "top"
    /\ Disconnect

\* recv returned n bytes: fewer than asked for when the NVR closed in the
\* middle of a message or the rest did not arrive within SO_RCVTIMEO.
Receive(n) ==
    /\ Polling
    /\ n \in 1..Need
    /\ n <= Len(wire)

RecvTooShort(n) ==
    /\ Receive(n)
    /\ n < HdrLen /\ n < Need
    /\ pc' = "top"
    /\ Disconnect

AtHead == wire[1].o = 0

\* A byte inside a message may be 0xFF too: only the first byte of a head surely is.
RecvBadMagic ==
    /\ Receive(HdrLen)
    /\ nDataLength = 0
    /\ ~AtHead
    /\ pc' = "top"
    /\ Disconnect

\* Mutant: the check byte is not counted (nDataLength = iDataLen).
RecvHead_NoCheckByte ==
    /\ Receive(HdrLen)
    /\ nDataLength = 0
    /\ AtHead
    /\ cmdType' = [conn |-> conn, k |-> wire[1].k]
    /\ nDataLength' = BodyLen[frames[wire[1].k]] - 1
    /\ nPreDataMove' = HdrLen
    /\ wire' = SubSeq(wire, HdrLen + 1, Len(wire))
    /\ pc' = "beat"
    /\ UNCHANGED <<run, socket, iConnectStatus, conn, peerOpen, frames, cb, seen, torn>>

RecvHead ==
    /\ Receive(HdrLen)
    /\ nDataLength = 0
    /\ IF AtHead
         THEN /\ cmdType' = [conn |-> conn, k |-> wire[1].k]
              /\ nDataLength' = BodyLen[frames[wire[1].k]]
         ELSE /\ cmdType' = [conn |-> conn, k |-> 0]
              /\ nDataLength' \in JunkLen
    /\ nPreDataMove' = HdrLen
    /\ wire' = SubSeq(wire, HdrLen + 1, Len(wire))
    /\ pc' = "beat"
    /\ UNCHANGED <<run, socket, iConnectStatus, conn, peerOpen, frames, cb, seen, torn>>

\* HdrLen or more bytes of a longer body pass for the whole of it.
RecvBody(n) ==
    /\ Receive(n)
    /\ nDataLength > 0
    /\ n >= HdrLen \/ n = Need
    /\ cb' = [kind |-> "MSG", conn |-> conn, cmd |-> cmdType, data |-> SubSeq(wire, 1, n)]
    /\ nDataLength' = 0
    /\ nPreDataMove' = 0
    /\ wire' = SubSeq(wire, n + 1, Len(wire))
    /\ seen' = seen + 1
    /\ torn' = (torn \/ n < Need)
    /\ pc' = "beat"
    /\ UNCHANGED <<run, socket, iConnectStatus, cmdType, conn, peerOpen, frames>>

\* The heartbeat is not due, or it was sent.
HeartPass ==
    /\ pc = "beat"
    /\ pc' = "top"
    /\ UNCHANGED <<run, socket, iConnectStatus, parse, net, cb, seen, torn>>

\* Mutants: the status is not taken back; OFFLINE is not reported.
HeartFail_KeepsStatus ==
    /\ pc = "beat"
    /\ pc' = "top"
    /\ socket' = 0
    /\ peerOpen' = FALSE
    /\ wire' = <<>>
    /\ cb' = Notice("OFFLINE", conn)
    /\ UNCHANGED <<run, iConnectStatus, parse, conn, frames, seen, torn>>

HeartFail_Silent ==
    /\ pc = "beat"
    /\ pc' = "top"
    /\ socket' = 0
    /\ iConnectStatus' = "UNCONNECT"
    /\ peerOpen' = FALSE
    /\ wire' = <<>>
    /\ UNCHANGED <<run, parse, conn, frames, cb, seen, torn>>

HeartFail ==
    /\ pc = "beat"
    /\ pc' = "top"
    /\ Disconnect

\* The way out leaves iConnectStatus as it is.
Exit ==
    /\ pc = "top" /\ ~run
    /\ pc' = "done"
    /\ socket' = 0
    /\ peerOpen' = FALSE
    /\ wire' = <<>>
    /\ cb' = IF socket > 0 THEN Notice("OFFLINE", conn) ELSE cb
    /\ UNCHANGED <<run, iConnectStatus, parse, conn, frames, seen, torn>>

-----------------------------------------------------------------------------
(* The NVR, the network and the owner of the connection *)

NvrSend(m) ==
    /\ peerOpen
    /\ Len(frames) < MaxFrame
    /\ frames' = Append(frames, m)
    /\ wire' = wire \o FrameBytes(Len(frames) + 1, m)
    /\ UNCHANGED <<run, pc, socket, iConnectStatus, parse, conn, peerOpen, cb, seen, torn>>

\* The NVR or the network ends the connection after n more bytes.
NvrClose(n) ==
    /\ peerOpen
    /\ peerOpen' = FALSE
    /\ wire' = SubSeq(wire, 1, n)
    /\ UNCHANGED <<run, pc, socket, iConnectStatus, parse, conn, frames, cb, seen, torn>>

\* PMSG_DestroyConnect clears the flag, then waits for the thread.
DestroyConnect ==
    /\ run
    /\ run' = FALSE
    /\ UNCHANGED <<pc, socket, iConnectStatus, parse, net, cb, seen, torn>>

Thread ==
    \/ ConnectOk \/ ConnectFail
    \/ SelectTimeout \/ RecvFail \/ RecvBadMagic \/ RecvHead
    \/ \E n \in 1..Len(wire) : RecvTooShort(n) \/ RecvBody(n)
    \/ HeartPass \/ HeartFail
    \/ Exit

Env ==
    \/ \E m \in Msg : NvrSend(m)
    \/ \E n \in 0..Len(wire) : NvrClose(n)
    \/ DestroyConnect

Next == Thread \/ Env

Spec == Init /\ [][Next]_vars

\* The operating system runs the thread.
FairSpec == Spec /\ WF_vars(Thread)

-----------------------------------------------------------------------------
(* Properties *)

\* The type of every variable of the connection thread and of the bytes on the wire.
TypeOK ==
    /\ run \in BOOLEAN
    /\ pc \in {"top", "beat", "done"}
    /\ socket \in Nat
    /\ iConnectStatus \in {"CONNECT", "UNCONNECT"}
    /\ nDataLength \in Nat
    /\ nPreDataMove \in Nat
    /\ cmdType \in Cmd
    /\ conn \in Nat
    /\ peerOpen \in BOOLEAN
    /\ frames \in Seq(Msg)
    /\ wire \in Seq(Byte)
    /\ cb \in Callback
    /\ seen \in Nat
    /\ torn \in BOOLEAN

\* On a connection that is in step, the n-th message callback hands over the
\* whole body of the n-th message the NVR sent, under that message's own
\* command: nothing is lost, cut, merged or mixed up (pmsgcli.cpp 239-331).
WholeInOrder ==
    cb.kind = "MSG" /\ ~torn =>
        /\ seen \in 1..Len(frames)
        /\ cb.cmd = [conn |-> conn, k |-> seen]
        /\ cb.data = Body(seen, frames[seen])

\* The status the user interface and the senders act on tells whether there is
\* a connection, for as long as the thread runs (211-212, 260-261).
StatusIsSocket ==
    pc # "done" => /\ iConnectStatus = "CONNECT" <=> socket > 0
                   /\ socket \in {0, conn}

\* ONLINE opens a session, message callbacks occur only inside one, and a new
\* session is never announced before the end of the last one was (204-230).
SessionOrder ==
    [][/\ cb'.kind = "ONLINE" /\ cb' # cb => cb.kind \in {"NONE", "OFFLINE"}
       /\ cb'.kind = "MSG" => cb.kind \in {"ONLINE", "MSG"} /\ cb'.conn = conn]_vars

\* The body of a message lands behind its head in pcRecvBuf, on the connection
\* that brought the head and on any later one (243-254, 319, 327).
BufferOffset == nPreDataMove = IF nDataLength > 0 THEN HdrLen ELSE 0

\* A connection the NVR has closed is reported OFFLINE in the end (255-267).
CloseNoticed ==
    \A c \in 1..MaxConn : conn = c /\ ~peerOpen ~> cb = Notice("OFFLINE", c)

\* iDataLen is "the length of one complete message" (165): what the callback
\* gets is a body of the length its own head announced.
CompleteMessage ==
    cb.kind = "MSG" /\ cb.cmd.k > 0 =>
        cb.cmd.conn = cb.conn /\ Len(cb.data) = BodyLen[frames[cb.cmd.k]]

\* The last callback as a session sees it: a message only if the callback got
\* all of it, under its own command.
Handed ==
    IF cb.kind # "MSG" THEN <<cb.kind>>
    ELSE IF /\ cb.cmd.conn = conn
            /\ cb.cmd.k \in 1..Len(frames)
            /\ cb.data = Body(cb.cmd.k, frames[cb.cmd.k])
         THEN <<"MSG", frames[cb.cmd.k]>>
         ELSE <<"JUNK">>

Session == INSTANCE MsgSession
             WITH online <- socket > 0, sent <- frames, got <- seen, last <- Handed

\* The thread keeps the promise of MsgSession: every step of the parser, of the network and of
\* the reconnection is a step of a session, or none (152-381), but on a connection that began
\* with the head of an older one in the buffer, or of which a body was read short.
ImplementsSession ==
    Session!Init /\ [][~torn' => Session!Next \/ UNCHANGED Session!vars]_vars

-----------------------------------------------------------------------------
(* The inductive invariant *)

\* w is a stretch of the bytes of the messages f, in order and without a gap.
\* NoGap speaks of any two places, since it is used for places far apart.
InFrames(w, f) ==
    \A i \in 1..Len(w) : /\ w[i].k \in 1..Len(f)
                         /\ w[i].o \in 0..(Total(f[w[i].k]) - 1)
NoGap(w, f) ==
    \A i, j \in 1..Len(w) : i <= j =>
        /\ w[i].o + (j - i) < Total(f[w[i].k]) =>
               w[j] = [k |-> w[i].k, o |-> w[i].o + (j - i)]
        /\ w[i].o + (j - i) = Total(f[w[i].k]) =>
               w[j] = [k |-> w[i].k + 1, o |-> 0]
Stream(w, f) == InFrames(w, f) /\ NoGap(w, f)

\* An open NVR end has sent whole messages only.
Flushed ==
    peerOpen /\ wire # <<>> =>
        wire[Len(wire)] = [k |-> Len(frames), o |-> Total(frames[Len(frames)]) - 1]

Connection ==
    /\ socket \in {0, conn}
    /\ pc = "beat" => socket > 0
    /\ pc = "done" => socket = 0 /\ ~run
    /\ pc # "done" => (iConnectStatus = "CONNECT" <=> socket > 0)
    /\ socket = 0 => wire = <<>> /\ ~peerOpen
    /\ socket > 0 => cb.kind \in {"ONLINE", "MSG"} /\ cb.conn = conn
    /\ socket = 0 => cb.kind \in {"NONE", "OFFLINE"}

\* The parser is where the stream is: before the head of the next message to
\* hand over, or before its body.
InStep ==
    ~torn /\ socket > 0 =>
        IF nDataLength = 0
        THEN /\ wire # <<>> => wire[1] = [k |-> seen + 1, o |-> 0]
             /\ wire = <<>> /\ peerOpen => seen = Len(frames)
             /\ seen <= Len(frames)
        ELSE /\ seen + 1 <= Len(frames)
             /\ cmdType = [conn |-> conn, k |-> seen + 1]
             /\ nDataLength = BodyLen[frames[seen + 1]]
             /\ wire # <<>> => wire[1] = [k |-> seen + 1, o |-> HdrLen]
             /\ wire = <<>> => ~peerOpen

Inv ==
    /\ TypeOK
    /\ Connection
    /\ Stream(wire, frames)
    /\ Flushed
    /\ InStep
    /\ BufferOffset
    /\ WholeInOrder
=============================================================================
