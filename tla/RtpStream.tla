----------------------------- MODULE RtpStream -----------------------------
(***************************************************************************)
(* The receive thread of an RTSP session over TCP (RtspRecvThread in       *)
(* rtsp.cpp, RtpParseH264Data in rtp.cpp).  One connection carries RTP     *)
(* and RTCP packets behind a '$' and the text of RTSP answers.  A read     *)
(* ends anywhere; what is left of a packet is joined to the next read,     *)
(* what is left of a text is not.  The video packets are put together to   *)
(* frames, which are handed over whole unless packets are missing.         *)
(*                                                                         *)
(* What the camera sends is chosen at the start.  A byte is one of "$",    *)
(* "ch" (below 4), "cr", "lf" and "x".  A step is one read or one round    *)
(* of the loop over what was read; positions count from the first byte of  *)
(* the connection.                                                         *)
(*                                                                         *)
(* The length of a packet is checked against nothing.  Fields of its       *)
(* header are swapped in place, which changes what lies behind a packet    *)
(* that is shorter; a video packet without its headers makes the length    *)
(* of a memcpy negative.  What comes of that, or of a swap behind          *)
(* acRecvBuf, is undefined, and the model ends there ("broken").           *)
(***************************************************************************)
EXTENDS Integers, Sequences

CONSTANTS
    Streams,      \* what a camera may send: [bytes, units], see StreamOK
    Fakes,        \* what the bytes behind a '$' inside a packet may look like
    BufLen,       \* sizeof(acRecvBuf) - 1
    MaxFrameLen,  \* 800000
    SeqSize,       \* 2^16
    RTP_HEADER_LEN, NALU_HEADER_SIZE, H264_FU_SIZE,
    RTP_TS_END,   \* where ts ends in the header of an RTP packet
    RTCP_SR_LEN   \* where ntp_frac ends in an RTCP packet

HeadLen == 4
Byte == {"$", "ch", "cr", "lf", "x"}

\* A packet: len is iRtpLen.  A video packet (payload type 96 or 98) has the number nr; its
\* NAL unit is whole, a fragment that starts one, another fragment, or of a type the parser
\* passes over.  It is the part-th of those of its frame that count, m marks the last.
Video == [kind : {"video"}, len : Nat, nr : Nat, seq : 0..(SeqSize - 1), m : BOOLEAN,
          nal : {"whole", "start", "more", "none"}, frame : Nat, part : Nat, of : Nat]
Other == [kind : {"rtcp", "other"}, len : Nat]   \* RTCP, or another payload type
Text == [kind : {"text"}, len : Nat]             \* an RTSP answer

\* A video packet is short if it has no payload.  What the code takes for its fields may then
\* be the bytes behind it.
HeaderLen(p) == RTP_HEADER_LEN + IF p.nal \in {"start", "more"} THEN H264_FU_SIZE ELSE 0
Short(p) == p.len <= HeaderLen(p)

\* The length of a packet has 16 bits and so is less than that of a frame may be.  The loop in
\* RtpParseH264Data does nothing with an empty packet.
PacketOK(p) ==
    /\ p \in Video \cup Other
    /\ p.kind = "video" =>
          /\ p.len <= MaxFrameLen
          /\ p.len = 0 => p.nal = "none" /\ ~p.m
          /\ ~Short(p) => (p.nal = "none" <=> p.part = 0)
          /\ ~Short(p) /\ p.m => p.part = p.of /\ p.of > 0

\* A frame begins behind the mark of another; the types that do not count come before it.
Counts(p) == IF p.nal = "none" THEN 0 ELSE 1
Numbered(ps) ==
    \A p, q \in {r \in ps : r.kind = "video" /\ ~Short(r)} :
        q.nr = p.nr + 1 =>
            IF p.m THEN q.part = Counts(q)
            ELSE q.frame = p.frame /\ q.of = p.of /\ q.part = p.part + Counts(q)

\* units[i] begins behind units[i].at bytes; every byte is in one unit.
UnitEnd(u) == u.at + u.what.len + IF u.what.kind = "text" THEN 0 ELSE HeadLen
UnitOK(s, u) ==
    \/ /\ PacketOK(u.what)
       /\ s.bytes[u.at + 1] = "$" /\ s.bytes[u.at + 2] = "ch"
    \/ /\ u.what \in Text /\ u.what.len > 1
       /\ s.bytes[u.at + 1] # "$"
       /\ s.bytes[UnitEnd(u) - 1] = "cr" /\ s.bytes[UnitEnd(u)] = "lf"
StreamOK(s) ==
    /\ s.bytes \in Seq(Byte)
    /\ \A i \in DOMAIN s.units :
          LET u == s.units[i]
          IN  /\ u.at \in Nat /\ UnitEnd(u) <= Len(s.bytes) /\ UnitOK(s, u)
              /\ \A j \in DOMAIN s.units \ {i} :
                    UnitEnd(u) <= s.units[j].at \/ UnitEnd(s.units[j]) <= u.at
    /\ \A b \in 1..Len(s.bytes) : \E i \in DOMAIN s.units :
          s.units[i].at < b /\ b <= UnitEnd(s.units[i])
    /\ Numbered(Fakes \cup {s.units[i].what : i \in DOMAIN s.units})

ASSUME RtpAssumption ==
    /\ BufLen \in Nat /\ BufLen > HeadLen
    /\ MaxFrameLen \in Nat /\ SeqSize \in Nat \ {0, 1}
    /\ RTP_HEADER_LEN \in Nat /\ NALU_HEADER_SIZE \in Nat /\ H264_FU_SIZE \in Nat
    /\ NALU_HEADER_SIZE < RTP_HEADER_LEN
    /\ RTP_TS_END \in Nat /\ RTP_TS_END <= RTP_HEADER_LEN /\ RTCP_SR_LEN \in Nat
    /\ \A p \in Fakes : PacketOK(p)
    /\ \A s \in Streams : StreamOK(s)

VARIABLES
    stream,          \* the one it is
    rd,              \* bytes read from the socket
    pos,             \* bytes done with: iLeaveLen, and iPreLeaveLen at a read, is rd - pos
    base,            \* the bytes before acRecvBuf: iOffset is pos - base
    swapped,         \* the bytes in acRecvBuf that are not what was read, by their places
    pc,
    iErrorFlag,
    u16OldSeq,
    frame,           \* pcVideoFrame: the packets it was put together from
    iVideoFrameLen,
    iFrameLostFlag,
    \* history
    handled,         \* the video packets that were handled; frames refer to them
    sizes,           \* how long the frame is before each of them if it holds all since the mark
    delivered,       \* the frames handed to pfRtpSetDataCB
    units,           \* the packets of the stream that were taken
    mishaps,         \* what has put the thread out of step with the stream
    runt             \* a packet broke the thread that is shorter than its headers

input == <<stream, rd, pos, base, swapped, pc>>
video == <<u16OldSeq, frame, iVideoFrameLen, iFrameLostFlag, handled, sizes, delivered>>
vars == <<input, iErrorFlag, video, units, mishaps, runt>>

Init ==
    /\ stream \in Streams /\ rd = 0 /\ pos = 0 /\ base = 0 /\ swapped = <<>>
    /\ pc = "recv" /\ iErrorFlag = FALSE
    /\ u16OldSeq = 0 /\ frame = <<>> /\ iVideoFrameLen = 0 /\ iFrameLostFlag = FALSE
    /\ handled = <<>> /\ sizes = <<>> /\ delivered = <<>> /\ units = {} /\ mishaps = {}
    /\ runt = FALSE

-----------------------------------------------------------------------------
(* Frames *)

\* What a packet adds to the frame: its headers are taken off, and a NAL unit
\* gets a start code (and, behind a fragment's header, its type again).
Grow(p) ==
    CASE p.nal = "whole" -> p.len - RTP_HEADER_LEN + NALU_HEADER_SIZE
      [] p.nal = "start" -> p.len - RTP_HEADER_LEN - H264_FU_SIZE + NALU_HEADER_SIZE + 1
      [] p.nal = "more"  -> p.len - RTP_HEADER_LEN - H264_FU_SIZE
      [] p.nal = "none"  -> 0

\* How long the frame is before the next packet if it holds all that came since the mark.
Size ==
    LET n == Len(handled)
    IN  IF n = 0 \/ handled[n].m THEN 0 ELSE sizes[n] + Grow(handled[n])

\* Mutant: only a step forward counts as a gap.
OutOfSeq_Forward(p) == p.seq > u16OldSeq + 1 /\ u16OldSeq # 0

\* A gap in the numbers is seen only behind a number other than 0, and the step from the last
\* number to 0 counts as one: u16OldSeq + 1 is an int.
OutOfSeq(p) == p.seq # u16OldSeq + 1 /\ u16OldSeq # 0

\* A packet is added to the frame, which is at its end at a packet with the mark: it is
\* handed over then, unless something was missing.
RtpParseH264Data(p, old, oldLen, lost) ==
    LET all == old \o IF p.nal = "none" THEN <<>> ELSE <<Len(handled) + 1>>
    IN  /\ frame' = IF p.m THEN <<>> ELSE all
        /\ iVideoFrameLen' = IF p.m THEN 0 ELSE oldLen + Grow(p)
        /\ delivered' = IF p.m /\ ~lost
                         THEN Append(delivered, [parts |-> all, end |-> Len(handled) + 1]) ELSE delivered
        /\ sizes' = Append(sizes, Size)

\* Mutant: the length of a frame is not checked.
VideoPacket_NoLimit(p) ==
    LET anew == OutOfSeq(p)
        lost == iFrameLostFlag \/ anew
    IN  /\ IF anew THEN RtpParseH264Data(p, <<>>, 0, lost)
                   ELSE RtpParseH264Data(p, frame, iVideoFrameLen, lost)
        /\ iFrameLostFlag' = (lost /\ iVideoFrameLen' # 0)
        /\ u16OldSeq' = p.seq
        /\ handled' = Append(handled, p)

\* Mutant: iFrameLostFlag is not cleared at the mark.
VideoPacket_StaysLost(p) ==
    LET anew == OutOfSeq(p) \/ iVideoFrameLen + p.len > MaxFrameLen
        lost == iFrameLostFlag \/ anew
    IN  /\ IF anew THEN RtpParseH264Data(p, <<>>, 0, lost)
                   ELSE RtpParseH264Data(p, frame, iVideoFrameLen, lost)
        /\ iFrameLostFlag' = (lost /\ (p.m \/ iVideoFrameLen' # 0))
        /\ u16OldSeq' = p.seq
        /\ handled' = Append(handled, p)

\* The frame begins anew if packets are missing or if it gets too long; iFrameLostFlag is
\* cleared when the frame is empty.
VideoPacket(p) ==
    LET anew == OutOfSeq(p) \/ iVideoFrameLen + p.len > MaxFrameLen
        lost == iFrameLostFlag \/ anew
    IN  /\ IF anew THEN RtpParseH264Data(p, <<>>, 0, lost)
                   ELSE RtpParseH264Data(p, frame, iVideoFrameLen, lost)
        /\ iFrameLostFlag' = (lost /\ iVideoFrameLen' # 0)
        /\ u16OldSeq' = p.seq
        /\ handled' = Append(handled, p)

-----------------------------------------------------------------------------
(* Bytes *)

Left == rd - pos
At(k) == IF k \in DOMAIN swapped THEN swapped[k] ELSE stream.bytes[k]
Goto(p) == pos' = p /\ pc' = (IF p = rd THEN "recv" ELSE "loop")

\* The buffer is given up when it is full; recv gets any number of bytes that fit.
Recv ==
    /\ pc = "recv"
    /\ pos' = (IF Left = BufLen THEN rd ELSE pos) /\ base' = pos'
    /\ mishaps' = IF Left = BufLen THEN mishaps \cup {"full"} ELSE mishaps
    /\ \E n \in 1..BufLen :
          rd' = rd + n /\ rd' - pos' <= BufLen /\ rd' <= Len(stream.bytes)
    /\ pc' = "loop"
    /\ UNCHANGED <<stream, swapped, iErrorFlag, video, units, runt>>

\* The connection is closed, or fails.
Closed ==
    /\ pc = "recv" /\ pc' = "done"
    /\ UNCHANGED <<stream, rd, pos, base, swapped, iErrorFlag, video, units, mishaps, runt>>

\* The unit that begins behind pos, if there is one and its bytes are what was read.
Here == {i \in DOMAIN stream.units : stream.units[i].at = pos /\ \A k \in DOMAIN swapped : k <= pos}
Packets == IF Here = {} THEN Fakes ELSE {stream.units[i].what : i \in Here}
AtPacket == pc = "loop" /\ Left >= HeadLen /\ At(pos + 1) = "$"

\* What is too short for a header or a packet waits for the next read.
Save ==
    /\ \/ pc = "loop" /\ Left < HeadLen
       \/ AtPacket /\ \E p \in Packets : Left < HeadLen + p.len
    /\ pc' = "recv"
    /\ mishaps' = IF AtPacket /\ Here = {} THEN mishaps \cup {"fake"} ELSE mishaps
    /\ UNCHANGED <<stream, rd, pos, base, swapped, iErrorFlag, video, units, runt>>

\* The last byte of a packet's header that is swapped in place, ntp_frac or ts; and what the
\* swap changes of the bytes behind the packet.
Reach(p) == IF p.kind = "rtcp" THEN RTCP_SR_LEN ELSE RTP_TS_END
Behind(p) == {k \in (pos + HeadLen + p.len + 1)..rd : k <= pos + HeadLen + Reach(p)}

\* A packet for which the length of the memcpy is negative, or the swap goes over the end of
\* acRecvBuf.
Breaks(p) ==
    \/ p.kind = "video" /\ p.nal # "none" /\ p.len < HeaderLen(p)
    \/ pos - base + HeadLen + Reach(p) > BufLen + 1
Break ==
    /\ AtPacket
    /\ \E p \in Packets :
          /\ Left >= HeadLen + p.len /\ Breaks(p)
          /\ runt' = (p.len < IF p.kind = "video" THEN HeaderLen(p) ELSE Reach(p))
    /\ pc' = "broken"
    /\ UNCHANGED <<stream, rd, pos, base, swapped, iErrorFlag, video, units, mishaps>>

\* A packet: video is handled, RTCP is answered, the rest is skipped.  The bytes behind a packet
\* that the swap changes may become any.
Packet ==
    /\ AtPacket
    /\ \E p \in Packets :
          /\ Left >= HeadLen + p.len /\ ~Breaks(p)
          /\ Goto(pos + HeadLen + p.len)
          /\ IF p.kind = "video" THEN VideoPacket(p) ELSE UNCHANGED video
          /\ \E new \in [Behind(p) -> Byte] :
                swapped' = [k \in DOMAIN swapped \cup Behind(p) |->
                              IF k \in Behind(p) THEN new[k] ELSE swapped[k]]
          /\ mishaps' = mishaps \cup (IF Here = {} THEN {"fake"} ELSE {})
                               \cup (IF Behind(p) # {} THEN {"swap"} ELSE {})
    /\ units' = units \cup Here
    /\ UNCHANGED <<stream, rd, base, iErrorFlag, runt>>

AtText == pc = "loop" /\ Left >= HeadLen /\ At(pos + 1) # "$"

\* Two bytes in a row end at k, in what was read, and nowhere before.
EndsOf(a, b) ==
    {k \in (pos + 2)..rd : At(k - 1) = a /\ At(k) = b}
First(k, S) == k \in S /\ \A j \in S : k <= j

\* A line is skipped with its end.  If the end was not read yet iErrorFlag is set, but
\* not behind a '\r', nor if the byte behind the last, which is an older one, is '\n'.
Line ==
    /\ AtText /\ ~iErrorFlag
    /\ LET ends == EndsOf("cr", "lf") IN
       IF ends # {}
       THEN (\E k \in ends : First(k, ends) /\ Goto(k)) /\ UNCHANGED <<iErrorFlag, mishaps>>
       ELSE /\ Goto(rd)
            /\ IF At(rd) = "cr"
               THEN mishaps' = mishaps \cup {"crlf"} /\ UNCHANGED iErrorFlag
               ELSE iErrorFlag' \in BOOLEAN /\ UNCHANGED mishaps
    /\ UNCHANGED <<stream, rd, base, swapped, video, units, runt>>

\* Mutant: one byte is given back, not two.
Scan_OneBack ==
    /\ AtText /\ iErrorFlag
    /\ LET ends == EndsOf("$", "ch") IN
       IF ends # {}
       THEN /\ \E k \in ends : First(k, ends) /\ Goto(k - 1)
            /\ iErrorFlag' = FALSE /\ UNCHANGED mishaps
       ELSE /\ Goto(rd) /\ UNCHANGED iErrorFlag
            /\ mishaps' = IF At(rd) = "$" THEN mishaps \cup {"split"} ELSE mishaps
    /\ UNCHANGED <<stream, rd, base, swapped, video, units, runt>>
\* Everything is skipped up to a '$' with a channel behind it, in one read.
Scan ==
    /\ AtText /\ iErrorFlag
    /\ LET ends == EndsOf("$", "ch") IN
       IF ends # {}
       THEN /\ \E k \in ends : First(k, ends) /\ Goto(k - 2)
            /\ iErrorFlag' = FALSE /\ UNCHANGED mishaps
       ELSE /\ Goto(rd) /\ UNCHANGED iErrorFlag
            /\ mishaps' = IF At(rd) = "$" THEN mishaps \cup {"split"} ELSE mishaps
    /\ UNCHANGED <<stream, rd, base, swapped, video, units, runt>>

Next == Recv \/ Closed \/ Save \/ Packet \/ Break \/ Line \/ Scan
Spec == Init /\ [][Next]_vars
-----------------------------------------------------------------------------
(* Properties *)

IsPacket(i) == stream.units[i].what.kind # "text"
EndOf(i) == UnitEnd(stream.units[i])

\* The variables have their types.
TypeOK ==
    /\ rd \in 0..Len(stream.bytes) /\ pos \in 0..rd /\ base \in 0..pos
    /\ DOMAIN swapped \subseteq 1..rd /\ swapped \in [DOMAIN swapped -> Byte]
    /\ pc \in {"recv", "loop", "done", "broken"} /\ iErrorFlag \in BOOLEAN /\ runt \in BOOLEAN
    /\ u16OldSeq \in 0..(SeqSize - 1) /\ handled \in Seq(Video) /\ sizes \in [DOMAIN handled -> Int]
    /\ frame \in Seq(1..Len(handled)) /\ iVideoFrameLen \in Nat /\ iFrameLostFlag \in BOOLEAN
    /\ delivered \in Seq([parts : Seq(1..Len(handled)), end : 1..Len(handled)])
    /\ units \subseteq DOMAIN stream.units /\ mishaps \subseteq {"crlf", "split", "fake", "full", "swap"}

\* Neither the receive buffer nor that of the frame is ever overrun, however the stream is cut
\* into reads and whatever packets it holds, but by a packet that is shorter than its headers:
\* neither the swap of their fields nor the memcpy of the payload looks at its length.
Fits ==
    /\ rd - base <= BufLen /\ iVideoFrameLen <= MaxFrameLen
    /\ pc = "broken" => runt

\* The variables have their types, and no buffer is overrun but by such a packet.
Inv == TypeOK /\ Fits

\* The thread takes exactly the packets the camera sent, each as soon as it is all there,
\* although it joins only packets and not texts over two reads.  It falls out of step
\* only if a read ends between the '\r' and the '\n' of an answer, or cuts an answer and
\* then another read ends between a '$' and its channel, or a packet does not fit into the
\* buffer, or the swap in the header of a packet shorter than that (RTCP without a sender report)
\* changes the packet behind it; and only then can it take other bytes for the head of one.
InStep ==
    mishaps = {} =>
        /\ units = {i \in DOMAIN stream.units : IsPacket(i) /\ stream.units[i].at < pos}
        /\ pc \notin {"loop", "broken"} => \A i \in DOMAIN stream.units : IsPacket(i) /\ EndOf(i) <= rd => i \in units

\* Packets are missing before the k-th handled one; and what the numbers tell of it.
Gap(k) ==
    IF k = 1 \/ Short(handled[k - 1]) THEN handled[k].part # Counts(handled[k])
    ELSE handled[k].nr # handled[k - 1].nr + 1
Seen(k) == k > 1 /\ handled[k - 1].seq # 0 /\ handled[k].seq # handled[k - 1].seq + 1

\* The packets from behind the last mark to the k-th.
Run(k) == {j \in 1..k : \A i \in j..(k - 1) : ~handled[i].m}

\* The parts are those of one frame, none missing and in order.
Whole(parts) ==
    parts # <<>> /\ \A i \in DOMAIN parts :
        LET p == handled[parts[i]]
        IN  p.frame = handled[parts[1]].frame /\ p.part = i /\ p.of = Len(parts)

\* A frame is handed over whole or not at all.  It may be torn only if a gap shows in no
\* number (the last one was 0, or nothing came before), or was seen at a packet of a type
\* the parser passes over, which clears iFrameLostFlag before the frame is at its end, or if one
\* of its packets has no payload.
WholeFrames ==
    \A n \in DOMAIN delivered :
        \/ Whole(delivered[n].parts)
        \/ \E j \in Run(delivered[n].end) :
               \/ Gap(j) /\ ~Seen(j)
               \/ Seen(j) /\ handled[j].nal = "none"
               \/ Short(handled[j])

\* The k-th packet fits behind the packets of its frame before it.
Fitting(k) == sizes[k] + handled[k].len <= MaxFrameLen

\* A frame is handed over unless its numbers show a gap, as the step to 0 does, or it is too
\* long: what was dropped before the last mark costs it nothing.
NoneMissing ==
    \A k \in DOMAIN handled :
        handled[k].m /\ (\A j \in Run(k) : ~Seen(j) /\ Fitting(j)) =>
            \E n \in DOMAIN delivered : delivered[n].end = k
=============================================================================
