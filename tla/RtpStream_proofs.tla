-------------------------- MODULE RtpStream_proofs --------------------------
(***************************************************************************)
(* Proofs about the receive thread of an RTSP session, for any streams,    *)
(* buffers and any size of the sequence numbers.                           *)
(***************************************************************************)
EXTENDS RtpStream, SequenceTheorems, TLAPS

\* What every reachable state of the types satisfies.
Typed == TypeOK /\ stream \in Streams

\* A sequence of elements of S is one of elements of a larger T; appending to it.
LEMMA SeqLarger ==
    ASSUME NEW S, NEW T, S \subseteq T, NEW s \in Seq(S)
    PROVE  /\ s \in Seq(T) /\ Len(s) \in Nat
           /\ \A e \in T : /\ Append(s, e) \in Seq(T) /\ Len(Append(s, e)) = Len(s) + 1
                           /\ s \o <<e>> = Append(s, e)
  <1>1. s \in [1..Len(s) -> S] /\ Len(s) \in Nat
    BY LenProperties
  <1>2. s \in Seq(T)
    BY <1>1, SeqDef
  <1> QED
    BY <1>1, <1>2

\* The numbers among the constants.
LEMMA Sizes ==
    /\ BufLen \in Nat /\ BufLen > HeadLen /\ HeadLen = 4 /\ MaxFrameLen \in Nat
    /\ SeqSize \in Nat /\ SeqSize > 1
    /\ RTP_TS_END \in Nat /\ RTCP_SR_LEN \in Nat /\ RTP_HEADER_LEN \in Nat /\ H264_FU_SIZE \in Nat
    /\ NALU_HEADER_SIZE \in Nat /\ RTP_TS_END <= RTP_HEADER_LEN
  BY RtpAssumption DEF HeadLen

\* The assumption on the stream of the state.
LEMMA StreamFacts ==
    ASSUME stream \in Streams
    PROVE  /\ StreamOK(stream) /\ stream.bytes \in Seq(Byte) /\ Len(stream.bytes) \in Nat
           /\ \A b \in 1..Len(stream.bytes) : stream.bytes[b] \in Byte
  <1>1. StreamOK(stream)
    BY RtpAssumption
  <1>2. stream.bytes \in Seq(Byte)
    BY <1>1 DEF StreamOK
  <1> QED
    BY <1>1, <1>2, LenProperties, ElementOfSeq

\* The length of the memcpy is negative for the packet.
Negative(p) == p.kind = "video" /\ p.nal # "none" /\ p.len < HeaderLen(p)

\* A packet adds at most its length to the frame if that of the memcpy is not negative, and one
\* with a payload adds nothing only if it is passed over.
LEMMA GrowFits ==
    ASSUME NEW p, PacketOK(p), p.kind = "video", ~Negative(p)
    PROVE  /\ p \in Video /\ p.len \in Nat /\ p.len <= MaxFrameLen
           /\ Grow(p) \in Nat /\ Grow(p) <= p.len
           /\ p.nal = "none" => Grow(p) = 0
           /\ ~Short(p) /\ p.nal # "none" => Grow(p) # 0
  <1>1. p \in Video
    BY DEF PacketOK, Video, Other
  <1>2. p.len \in Nat /\ p.len <= MaxFrameLen /\ (p.len = 0 => p.nal = "none")
    BY <1>1 DEF PacketOK, Video
  <1>3. p.nal \in {"whole", "start", "more", "none"}
    BY <1>1 DEF Video
  <1>4. HeaderLen(p) = RTP_HEADER_LEN + IF p.nal \in {"start", "more"} THEN H264_FU_SIZE ELSE 0
    BY DEF HeaderLen
  <1>5. NALU_HEADER_SIZE + 1 <= RTP_HEADER_LEN
    BY RtpAssumption
  <1>6. p.nal # "none" => p.len >= HeaderLen(p)
    BY <1>2, <1>4, Sizes DEF Negative
  <1>7. Short(p) <=> p.len <= HeaderLen(p)
    BY DEF Short
  <1> QED
    BY <1>1, <1>2, <1>3, <1>4, <1>5, <1>6, <1>7, Sizes DEF Grow

\* What stands at a '$' is a packet, of the stream or a fake one.
LEMMA PacketsOK ==
    ASSUME Typed, AtPacket, NEW p \in Packets
    PROVE  PacketOK(p)
  <1>1. CASE Here = {}
    BY <1>1, RtpAssumption DEF Packets
  <1>2. CASE Here # {}
    <2>1. PICK i \in Here : p = stream.units[i].what
      BY <1>2 DEF Packets
    <2>2. i \in DOMAIN stream.units /\ stream.units[i].at = pos /\ \A k \in DOMAIN swapped : k <= pos
      BY <2>1 DEF Here
    <2>3. UnitOK(stream, stream.units[i])
      BY <2>2, RtpAssumption DEF Typed, StreamOK
    <2>4. pos + 1 \notin DOMAIN swapped
      <3>1. pos \in Nat
        BY StreamFacts DEF Typed, TypeOK
      <3> QED
        BY <2>2, <3>1
    <2>5. stream.bytes[pos + 1] = "$"
      BY <2>4 DEF AtPacket, At
    <2> QED
      BY <2>1, <2>2, <2>3, <2>5 DEF UnitOK
  <1> QED
    BY <1>1, <1>2

\* What a packet adds is a number, whatever its length.
LEMMA GrowNumber == \A p \in Video : Grow(p) \in Int
  <1> SUFFICES ASSUME NEW p \in Video PROVE Grow(p) \in Int
    OBVIOUS
  <1>1. p.len \in Int /\ p.nal \in {"whole", "start", "more", "none"}
    BY DEF Video
  <1>2. RTP_HEADER_LEN \in Int /\ NALU_HEADER_SIZE \in Int /\ H264_FU_SIZE \in Int
    BY RtpAssumption
  <1> QED
    BY <1>1, <1>2 DEF Grow

\* One size more.
LEMMA SizesLonger ==
    ASSUME Typed, NEW p \in Video, handled' = Append(handled, p), sizes' = Append(sizes, Size),
           NEW n, n = Len(handled)
    PROVE  /\ Size \in Int /\ sizes' \in [DOMAIN handled' -> Int]
           /\ sizes'[n + 1] = Size /\ \A k \in 1..n : sizes'[k] = sizes[k]
  <1>1. handled \in Seq(Video) /\ n \in Nat /\ DOMAIN handled = 1..n /\ sizes \in [1..n -> Int]
    BY LenProperties DEF Typed, TypeOK
  <1>2. sizes \in Seq(Int) /\ Len(sizes) = n
    BY <1>1, SeqDef, LenProperties
  <1>3. Size \in Int
    <2>1. CASE n = 0 \/ handled[n].m
      BY <2>1 DEF Size
    <2>2. CASE ~(n = 0 \/ handled[n].m)
      <3>1. n \in 1..n
        BY <1>1, <2>2
      <3>2. sizes[n] \in Int /\ handled[n] \in Video
        BY <1>1, <3>1, ElementOfSeq
      <3>3. Size = sizes[n] + Grow(handled[n])
        BY <2>2 DEF Size
      <3> QED
        BY <3>2, <3>3, GrowNumber
    <2> QED
      BY <2>1, <2>2
  <1>4. DOMAIN handled' = 1..(n + 1)
    BY <1>1, AppendProperties
  <1>5. /\ sizes' \in Seq(Int) /\ Len(sizes') = n + 1 /\ sizes'[n + 1] = Size
        /\ \A k \in 1..n : sizes'[k] = sizes[k]
    BY <1>2, <1>3, AppendProperties
  <1> QED
    BY <1>3, <1>4, <1>5, LenProperties

\* A video packet keeps the types, and the frame in its buffer.
LEMMA VideoTyped ==
    ASSUME Typed, Fits, NEW p, PacketOK(p), p.kind = "video", ~Negative(p), VideoPacket(p)
    PROVE  /\ u16OldSeq' \in 0..(SeqSize - 1) /\ handled' \in Seq(Video)
           /\ frame' \in Seq(1..Len(handled')) /\ iVideoFrameLen' \in Nat
           /\ iFrameLostFlag' \in BOOLEAN
           /\ delivered' \in Seq([parts : Seq(1..Len(handled')), end : 1..Len(handled')])
           /\ iVideoFrameLen' <= MaxFrameLen /\ sizes' \in [DOMAIN handled' -> Int]
  <1> DEFINE anew == OutOfSeq(p) \/ iVideoFrameLen + p.len > MaxFrameLen
             lost == iFrameLostFlag \/ anew
             old == IF anew THEN <<>> ELSE frame
             oldLen == IF anew THEN 0 ELSE iVideoFrameLen
             all == old \o IF p.nal = "none" THEN <<>> ELSE <<Len(handled) + 1>>
  <1>1. RtpParseH264Data(p, old, oldLen, lost) /\ u16OldSeq' = p.seq
          /\ iFrameLostFlag' = (lost /\ iVideoFrameLen' # 0) /\ handled' = Append(handled, p)
    BY DEF VideoPacket
  <1>2. p \in Video /\ p.len \in Nat /\ p.len <= MaxFrameLen /\ Grow(p) \in Nat /\ Grow(p) <= p.len
    BY GrowFits
  <1>3. p.seq \in 0..(SeqSize - 1) /\ p.m \in BOOLEAN
    BY <1>2 DEF Video
  <1>4. handled \in Seq(Video) /\ iVideoFrameLen \in Nat
          /\ frame \in Seq(1..Len(handled))
          /\ delivered \in Seq([parts : Seq(1..Len(handled)), end : 1..Len(handled)])
    BY DEF Typed, TypeOK
  <1>5. handled' \in Seq(Video) /\ Len(handled') = Len(handled) + 1 /\ Len(handled) \in Nat
    BY <1>1, <1>2, <1>4, SeqLarger
  <1>6. 1..Len(handled) \subseteq 1..Len(handled')
    BY <1>5
  <1>7. frame \in Seq(1..Len(handled'))
    BY <1>4, <1>6, SeqLarger
  <1>8. delivered \in Seq([parts : Seq(1..Len(handled')), end : 1..Len(handled')])
    <2> DEFINE D(n) == [parts : Seq(1..n), end : 1..n]
    <2>1. Seq(1..Len(handled)) \subseteq Seq(1..Len(handled'))
      BY <1>6, SeqLarger
    <2>2. D(Len(handled)) \subseteq D(Len(handled'))
      BY <1>6, <2>1
    <2>3. delivered \in Seq(D(Len(handled)))
      BY <1>4
    <2> HIDE DEF D
    <2>4. delivered \in Seq(D(Len(handled')))
      BY <2>2, <2>3, SeqLarger
    <2> QED
      BY <2>4 DEF D
  <1>9. oldLen \in Nat /\ oldLen + Grow(p) <= MaxFrameLen
    BY <1>2, <1>4, RtpAssumption
  <1>10. old \in Seq(1..Len(handled'))
    BY <1>7, EmptySeq
  <1>11. all \in Seq(1..Len(handled'))
    <2>1. Len(handled) + 1 \in 1..Len(handled')
      BY <1>5
    <2>2. CASE p.nal = "none"
      <3>1. all = old \o <<>>
        BY <2>2
      <3> HIDE DEF all, old
      <3> QED
        BY <3>1, <1>10, EmptySeq
    <2>3. CASE p.nal # "none"
      <3>1. all = old \o <<Len(handled) + 1>>
        BY <2>3
      <3> HIDE DEF all, old
      <3> QED
        BY <3>1, <2>1, <1>10, SeqLarger
    <2> QED
      BY <2>2, <2>3
  <1>12. frame' = (IF p.m THEN <<>> ELSE all) /\ iVideoFrameLen' = (IF p.m THEN 0 ELSE oldLen + Grow(p))
           /\ delivered' = (IF p.m /\ ~lost
                            THEN Append(delivered, [parts |-> all, end |-> Len(handled) + 1])
                            ELSE delivered)
           /\ sizes' = Append(sizes, Size)
    BY <1>1 DEF RtpParseH264Data
  <1>13. frame' \in Seq(1..Len(handled')) /\ iVideoFrameLen' \in Nat /\ iVideoFrameLen' <= MaxFrameLen
    <2> HIDE DEF all, oldLen
    <2>1. <<>> \in Seq(1..Len(handled'))
      BY EmptySeq
    <2>2. frame' \in Seq(1..Len(handled'))
      BY <1>11, <1>12, <2>1
    <2>3. iVideoFrameLen' \in Nat /\ iVideoFrameLen' <= MaxFrameLen
      BY <1>2, <1>9, <1>12, RtpAssumption
    <2> QED
      BY <2>2, <2>3
  <1>14. delivered' \in Seq([parts : Seq(1..Len(handled')), end : 1..Len(handled')])
    <2>1. [parts |-> all, end |-> Len(handled) + 1]
            \in [parts : Seq(1..Len(handled')), end : 1..Len(handled')]
      BY <1>5, <1>11
    <2> DEFINE D == [parts : Seq(1..Len(handled')), end : 1..Len(handled')]
               d == [parts |-> all, end |-> Len(handled) + 1]
    <2>2. d \in D /\ delivered \in Seq(D) /\ (delivered' = delivered \/ delivered' = Append(delivered, d))
      BY <2>1, <1>8, <1>12
    <2> HIDE DEF D, d
    <2>3. delivered' \in Seq(D)
      BY <2>2, SeqLarger
    <2> QED
      BY <2>3 DEF D
  <1>15. sizes' \in [DOMAIN handled' -> Int]
    BY <1>1, <1>2, <1>12, SizesLonger
  <1> QED
    BY <1>1, <1>3, <1>5, <1>13, <1>14, <1>15

\* The swaps keep within what was read.
LEMMA SwapTyped ==
    ASSUME Typed, NEW p, p.len \in Nat, NEW new \in [Behind(p) -> Byte],
           swapped' = [k \in DOMAIN swapped \cup Behind(p) |->
                         IF k \in Behind(p) THEN new[k] ELSE swapped[k]]
    PROVE  /\ DOMAIN swapped' = DOMAIN swapped \cup Behind(p)
           /\ DOMAIN swapped' \subseteq 1..rd /\ swapped' \in [DOMAIN swapped' -> Byte]
  <1>1. DOMAIN swapped \subseteq 1..rd /\ swapped \in [DOMAIN swapped -> Byte] /\ pos \in Nat /\ rd \in Nat
    BY StreamFacts DEF Typed, TypeOK
  <1>2. Behind(p) \subseteq 1..rd
    <2> SUFFICES ASSUME NEW k \in Behind(p) PROVE k \in 1..rd
      OBVIOUS
    <2>1. k \in (pos + HeadLen + p.len + 1)..rd
      BY DEF Behind
    <2> QED
      BY <1>1, <2>1, Sizes
  <1>3. DOMAIN swapped' = DOMAIN swapped \cup Behind(p)
    OBVIOUS
  <1>4. \A k \in DOMAIN swapped' : swapped'[k] \in Byte
    BY <1>1, <1>3
  <1>5. swapped' = [k \in DOMAIN swapped' |-> swapped'[k]]
    BY <1>3
  <1> QED
    BY <1>1, <1>2, <1>3, <1>4, <1>5

\* A packet that breaks the thread, although it lies in the buffer, is shorter than its headers.
LEMMA BreakRunt ==
    ASSUME Typed, Fits, NEW p, PacketOK(p), Left >= HeadLen + p.len, Breaks(p)
    PROVE  p.len < IF p.kind = "video" THEN HeaderLen(p) ELSE Reach(p)
  <1>1. CASE Negative(p)
    BY <1>1 DEF Negative
  <1>2. CASE pos - base + HeadLen + Reach(p) > BufLen + 1
    <2>1. p.len \in Nat
      BY DEF PacketOK, Video, Other
    <2>2. pos \in Nat /\ rd \in Nat /\ base \in Nat /\ rd - base <= BufLen
      BY StreamFacts DEF Typed, TypeOK, Fits
    <2>3. Reach(p) \in Nat
      BY Sizes DEF Reach
    <2>4. rd - pos >= HeadLen + p.len
      BY DEF Left
    <2>5. p.len < Reach(p)
      <3> DEFINE l == p.len
                 h == Reach(p)
      <3>1. l \in Nat /\ h \in Nat /\ rd - pos >= HeadLen + l /\ pos - base + HeadLen + h > BufLen + 1
        BY <1>2, <2>1, <2>3, <2>4
      <3> HIDE DEF l, h
      <3>2. l < h
        BY <2>2, <3>1, Sizes
      <3> QED
        BY <3>2 DEF l, h
    <2>6. CASE p.kind = "video"
      <3>1. Reach(p) = RTP_TS_END
        BY <2>6 DEF Reach
      <3>2. HeaderLen(p) \in Nat /\ RTP_HEADER_LEN <= HeaderLen(p)
        BY Sizes DEF HeaderLen
      <3>3. p.len < HeaderLen(p)
        BY <2>1, <2>5, <3>1, <3>2, Sizes
      <3> QED
        BY <2>6, <3>3
    <2> QED
      BY <2>5, <2>6
  <1> QED
    BY <1>1, <1>2 DEF Breaks, Negative

\* Every step keeps the types and the bounds.
LEMMA TypedStep == Typed /\ Fits /\ [Next]_vars => Typed' /\ Fits'
  <1> SUFFICES ASSUME Typed, Fits, [Next]_vars PROVE Typed' /\ Fits'
    OBVIOUS
  <1> DEFINE Ways == {"crlf", "split", "fake", "full", "swap"}
  <1>0. /\ BufLen \in Nat /\ HeadLen = 4 /\ Len(stream.bytes) \in Nat
        /\ rd \in Nat /\ pos \in Nat /\ pos <= rd /\ rd <= Len(stream.bytes)
        /\ base \in Nat /\ base <= pos /\ rd - base <= BufLen /\ mishaps \subseteq Ways
        /\ DOMAIN swapped \subseteq 1..rd /\ swapped \in [DOMAIN swapped -> Byte]
    <2>1. Len(stream.bytes) \in Nat
      BY StreamFacts DEF Typed
    <2>2. rd \in 0..Len(stream.bytes) /\ pos \in 0..rd /\ base \in 0..pos /\ rd - base <= BufLen
            /\ mishaps \subseteq Ways
            /\ DOMAIN swapped \subseteq 1..rd /\ swapped \in [DOMAIN swapped -> Byte]
      BY DEF Typed, TypeOK, Fits
    <2> QED
      BY <2>1, <2>2, Sizes
  <1>1. CASE Recv
    <2>1. PICK n \in 1..BufLen :
            rd' = rd + n /\ rd' - pos' <= BufLen /\ rd' <= Len(stream.bytes)
      BY <1>1 DEF Recv
    <2>2. pos' \in {pos, rd} /\ base' = pos' /\ UNCHANGED <<stream, swapped, iErrorFlag, video, units, runt>>
            /\ pc' = "loop"
      BY <1>1 DEF Recv
    <2>3. mishaps' \subseteq Ways
      BY <1>0, <1>1 DEF Recv
    <2>4. pos' \in Nat /\ pos' <= rd
      BY <1>0, <2>2
    <2>5. rd' \in Nat /\ rd <= rd'
      BY <1>0, <2>1
    <2>6. rd' \in 0..Len(stream.bytes) /\ pos' \in 0..rd' /\ base' \in 0..pos' /\ rd' - base' <= BufLen
      <3>1. rd' <= Len(stream.bytes) /\ rd' - base' <= BufLen
        BY <2>1, <2>2
      <3>2. pos' <= rd'
        BY <1>0, <2>4, <2>5
      <3>3. rd' \in 0..Len(stream.bytes)
        BY <1>0, <2>5, <3>1
      <3> QED
        BY <2>2, <2>4, <2>5, <3>1, <3>2, <3>3
    <2>7. DOMAIN swapped' \subseteq 1..rd' /\ swapped' \in [DOMAIN swapped' -> Byte]
      BY <1>0, <2>2, <2>5
    <2> QED
      BY <2>2, <2>3, <2>6, <2>7 DEF video, Typed, TypeOK, Fits
  <1>2. CASE Closed
    BY <1>2 DEF Closed, video, Typed, TypeOK, Fits
  <1>3. CASE Save
    BY <1>3 DEF Save, video, Typed, TypeOK, Fits
  <1>4. CASE Packet
    <2>1. PICK p \in Packets : /\ Left >= HeadLen + p.len /\ ~Breaks(p) /\ Goto(pos + HeadLen + p.len)
                               /\ IF p.kind = "video" THEN VideoPacket(p) ELSE UNCHANGED video
                               /\ \E new \in [Behind(p) -> Byte] :
                                     swapped' = [k \in DOMAIN swapped \cup Behind(p) |->
                                                   IF k \in Behind(p) THEN new[k] ELSE swapped[k]]
                               /\ mishaps' = mishaps \cup (IF Here = {} THEN {"fake"} ELSE {})
                                                     \cup (IF Behind(p) # {} THEN {"swap"} ELSE {})
      BY <1>4 DEF Packet
    <2>2. PacketOK(p)
      BY <1>4, <2>1, PacketsOK DEF Packet
    <2>3. p.len \in Nat
      BY <2>2 DEF PacketOK, Video, Other
    <2>4. UNCHANGED <<stream, rd, base, iErrorFlag, runt>> /\ units' = units \cup Here /\ mishaps' \subseteq Ways
      BY <1>0, <1>4, <2>1 DEF Packet
    <2>5. pos' \in 0..rd' /\ base' \in 0..pos' /\ pc' \in {"recv", "loop"} /\ rd' - base' <= BufLen
      <3>1. pos' = pos + HeadLen + p.len /\ pc' \in {"recv", "loop"} /\ rd - pos >= HeadLen + p.len
        BY <2>1 DEF Goto, Left
      <3>2. rd' = rd /\ base' = base
        BY <2>4
      <3> QED
        BY <1>0, <2>3, <3>1, <3>2
    <2>6. units' \subseteq DOMAIN stream'.units
      BY <2>4 DEF Here, Typed, TypeOK
    <2>7. DOMAIN swapped' \subseteq 1..rd' /\ swapped' \in [DOMAIN swapped' -> Byte]
      BY <2>1, <2>3, <2>4, SwapTyped
    <2>8. CASE p.kind = "video"
      <3>1. VideoPacket(p) /\ ~Negative(p)
        BY <2>1, <2>8 DEF Breaks, Negative
      <3> QED
        BY <2>2, <2>4, <2>5, <2>6, <2>7, <2>8, <3>1, VideoTyped DEF Typed, TypeOK, Fits
    <2>9. CASE p.kind # "video"
      <3>1. UNCHANGED video
        BY <2>1, <2>9
      <3> QED
        BY <2>4, <2>5, <2>6, <2>7, <3>1 DEF video, Typed, TypeOK, Fits
    <2> QED
      BY <2>8, <2>9
  <1>5. CASE Break
    <2>1. PICK p \in Packets : /\ Left >= HeadLen + p.len /\ Breaks(p)
                               /\ runt' = (p.len < IF p.kind = "video" THEN HeaderLen(p) ELSE Reach(p))
      BY <1>5 DEF Break
    <2>2. runt' = TRUE
      BY <1>5, <2>1, PacketsOK, BreakRunt DEF Break
    <2> QED
      BY <1>5, <2>2 DEF Break, video, Typed, TypeOK, Fits
  <1>6. ASSUME Line \/ Scan
        PROVE  Typed' /\ Fits'
    <2>1. UNCHANGED <<stream, rd, base, swapped, video, units, runt>>
      BY <1>6 DEF Line, Scan
    <2>2. \E k \in pos..rd : Goto(k)
      <3>1. CASE Goto(rd)
        BY <1>0, <3>1
      <3>2. CASE ~Goto(rd)
        <4>1. (\E k \in (pos + 2)..rd : Goto(k)) \/ (\E k \in (pos + 2)..rd : Goto(k - 2))
          BY <1>6, <3>2 DEF Line, Scan, EndsOf, First
        <4> QED
          BY <1>0, <4>1
      <3> QED
        BY <3>1, <3>2
    <2>3. iErrorFlag' \in BOOLEAN /\ mishaps' \subseteq Ways
      <3>1. iErrorFlag \in BOOLEAN
        BY DEF Typed, TypeOK
      <3> QED
        BY <1>0, <1>6, <3>1 DEF Line, Scan
    <2>4. pos' \in 0..rd' /\ base' \in 0..pos' /\ pc' \in {"recv", "loop"} /\ rd' - base' <= BufLen
      BY <1>0, <2>1, <2>2 DEF Goto
    <2> QED
      BY <2>1, <2>3, <2>4 DEF video, Typed, TypeOK, Fits
  <1>7. CASE UNCHANGED vars
    BY <1>7 DEF vars, input, video, Typed, TypeOK, Fits
  <1> QED
    BY <1>1, <1>2, <1>3, <1>4, <1>5, <1>6, <1>7 DEF Next

LEMMA TypedInit == Init => Typed /\ Fits
  <1> SUFFICES ASSUME Init PROVE Typed /\ Fits
    OBVIOUS
  <1>1. stream \in Streams
    BY DEF Init
  <1>2. Len(stream.bytes) \in Nat
    BY <1>1, StreamFacts
  <1>3. \A S : <<>> \in Seq(S)
    BY EmptySeq
  <1>4. rd = 0 /\ pos = 0 /\ base = 0 /\ handled = <<>> /\ frame = <<>> /\ delivered = <<>>
          /\ u16OldSeq = 0 /\ iVideoFrameLen = 0
    BY DEF Init
  <1>5. rd \in 0..Len(stream.bytes) /\ pos \in 0..rd /\ base \in 0..pos /\ u16OldSeq \in 0..(SeqSize - 1)
          /\ rd - base <= BufLen /\ iVideoFrameLen <= MaxFrameLen
    BY <1>2, <1>4, Sizes
  <1>6. pc = "recv" /\ iErrorFlag \in BOOLEAN /\ iFrameLostFlag \in BOOLEAN /\ runt \in BOOLEAN
          /\ units \subseteq DOMAIN stream.units /\ mishaps = {}
    BY DEF Init
  <1>7. sizes \in [DOMAIN handled -> Int]
    <2>1. DOMAIN handled = {} /\ sizes = <<>>
      BY DEF Init
    <2>2. sizes = [k \in {} |-> 0]
      BY <2>1
    <2> QED
      BY <2>1, <2>2
  <1>8. DOMAIN swapped \subseteq 1..rd /\ swapped \in [DOMAIN swapped -> Byte]
    <2>1. DOMAIN swapped = {} /\ swapped = <<>>
      BY DEF Init
    <2>2. swapped = [k \in {} |-> "x"]
      BY <2>1
    <2> QED
      BY <2>1, <2>2
  <1> QED
    BY <1>1, <1>3, <1>4, <1>5, <1>6, <1>7, <1>8 DEF Typed, TypeOK, Fits

LEMMA TypedAlways == Spec => [](Typed /\ Fits)
  BY TypedInit, TypedStep, PTL DEF Spec

\* The variables keep their types, and neither the receive buffer nor that of the frame is
\* overrun (RtspRecvThread, RtpParseH264Data), whatever the camera sends and however it is cut
\* into reads, but by a packet that is shorter than its headers.
THEOREM Invariance == Spec => []Inv
  <1>1. Typed /\ Fits => Inv
    BY DEF Typed, Inv
  <1> QED
    BY <1>1, TypedAlways, PTL

-----------------------------------------------------------------------------
(* The thread stays in step with the stream. *)

Start(i) == stream.units[i].at
Is == DOMAIN stream.units

\* A unit ends behind its first two bytes, and a text with its line.
LEMMA UnitFacts ==
    ASSUME stream \in Streams, NEW i \in Is
    PROVE  /\ Start(i) \in Nat /\ EndOf(i) \in Nat /\ EndOf(i) <= Len(stream.bytes)
           /\ IsPacket(i) => /\ Start(i) + HeadLen <= EndOf(i)
                             /\ EndOf(i) = Start(i) + HeadLen + stream.units[i].what.len
                             /\ stream.bytes[Start(i) + 1] = "$" /\ stream.bytes[Start(i) + 2] = "ch"
           /\ ~IsPacket(i) => /\ Start(i) + 2 <= EndOf(i) /\ stream.bytes[Start(i) + 1] # "$"
                              /\ stream.bytes[EndOf(i) - 1] = "cr" /\ stream.bytes[EndOf(i)] = "lf"
  <1> DEFINE u == stream.units[i]
  <1>1. u.at \in Nat /\ UnitEnd(u) <= Len(stream.bytes) /\ UnitOK(stream, u)
    BY StreamFacts DEF StreamOK, Is
  <1>2. CASE PacketOK(u.what) /\ stream.bytes[u.at + 1] = "$" /\ stream.bytes[u.at + 2] = "ch"
    <2>1. u.what.kind # "text" /\ u.what.len \in Nat
      BY <1>2 DEF PacketOK, Video, Other
    <2>2. Start(i) = u.at /\ EndOf(i) = u.at + u.what.len + HeadLen /\ IsPacket(i)
      BY <2>1 DEF Start, EndOf, UnitEnd, IsPacket
    <2>3. EndOf(i) \in Nat /\ Start(i) + HeadLen <= EndOf(i) /\ EndOf(i) = Start(i) + HeadLen + u.what.len
      <3> DEFINE l == u.what.len
                 a == u.at
      <3>1. l \in Nat /\ a \in Nat /\ Start(i) = a /\ EndOf(i) = a + l + HeadLen
        BY <1>1, <2>1, <2>2
      <3> HIDE DEF l, a
      <3>2. EndOf(i) \in Nat /\ Start(i) + HeadLen <= EndOf(i) /\ EndOf(i) = Start(i) + HeadLen + l
        BY <3>1, Sizes
      <3> QED
        BY <3>2 DEF l
    <2>4. EndOf(i) <= Len(stream.bytes)
      BY <1>1 DEF EndOf
    <2> QED
      BY <1>1, <1>2, <2>2, <2>3, <2>4
  <1>3. CASE /\ u.what \in Text /\ u.what.len > 1 /\ stream.bytes[u.at + 1] # "$"
             /\ stream.bytes[UnitEnd(u) - 1] = "cr" /\ stream.bytes[UnitEnd(u)] = "lf"
    <2>1. u.what.kind = "text" /\ u.what.len \in Nat
      BY <1>3 DEF Text
    <2>2. Start(i) = u.at /\ EndOf(i) = u.at + u.what.len + 0 /\ ~IsPacket(i)
      BY <2>1 DEF Start, EndOf, UnitEnd, IsPacket
    <2>3. EndOf(i) \in Nat /\ Start(i) + 2 <= EndOf(i)
      <3> DEFINE l == u.what.len
                 a == u.at
      <3>1. l \in Nat /\ l > 1 /\ a \in Nat /\ Start(i) = a /\ EndOf(i) = a + l + 0
        BY <1>1, <1>3, <2>1, <2>2
      <3> HIDE DEF l, a
      <3> QED
        BY <3>1
    <2>4. EndOf(i) = UnitEnd(u)
      BY DEF EndOf
    <2> QED
      BY <1>1, <1>3, <2>2, <2>3, <2>4
  <1> QED
    BY <1>1, <1>2, <1>3 DEF UnitOK

\* Units do not overlap, and hold every byte.
LEMMA Apart ==
    ASSUME stream \in Streams
    PROVE  /\ \A i, j \in Is : i # j => EndOf(i) <= Start(j) \/ EndOf(j) <= Start(i)
           /\ \A b \in 1..Len(stream.bytes) : \E i \in Is : Start(i) < b /\ b <= EndOf(i)
  BY StreamFacts DEF StreamOK, Is, Start, EndOf

\* In step at p: the packets before p were taken whole, and without iErrorFlag p is not
\* within the end of a line.
Stand(us, p, e) ==
    /\ us = {i \in Is : IsPacket(i) /\ Start(i) < p}
    /\ \A i \in Is : IsPacket(i) /\ Start(i) < p => EndOf(i) <= p
    /\ ~e => \A i \in Is : ~IsPacket(i) => p # EndOf(i) - 1
Prompt(p, r) == \A i \in Is : IsPacket(i) /\ EndOf(i) <= r => Start(i) < p
Sync ==
    mishaps = {} =>
        /\ Stand(units, pos, iErrorFlag) /\ DOMAIN swapped = {}
        /\ pc \notin {"loop", "broken"} => Prompt(pos, rd)

\* Nothing in the buffer is changed.
LEMMA AsRead ==
    ASSUME DOMAIN swapped = {}
    PROVE  /\ \A k : At(k) = stream.bytes[k]
           /\ Here = {i \in Is : Start(i) = pos}
           /\ \A a, b : EndsOf(a, b) = {k \in (pos + 2)..rd : stream.bytes[k - 1] = a /\ stream.bytes[k] = b}
  <1>1. \A k : At(k) = stream.bytes[k]
    BY DEF At
  <1> QED
    BY <1>1 DEF Here, Is, Start, EndsOf

\* Where a step that changes pos to p leads to.
LEMMA Arrive ==
    ASSUME Typed, stream' = stream, UNCHANGED rd, Goto(pos'),
           mishaps' = {} => Stand(units', pos', iErrorFlag') /\ DOMAIN swapped' = {}
    PROVE  Sync'
  <1> SUFFICES ASSUME mishaps' = {} PROVE (pc' # "loop" => Prompt(pos', rd))
    BY DEF Sync, Stand, Prompt, Is, Start, EndOf, IsPacket
  <1> SUFFICES ASSUME pc' # "loop", NEW i \in Is, IsPacket(i), EndOf(i) <= rd PROVE Start(i) < pos'
    BY DEF Prompt
  <1>1. pos' = rd
    BY DEF Goto
  <1>2. Start(i) \in Nat /\ EndOf(i) \in Nat /\ Start(i) + HeadLen <= EndOf(i)
    BY UnitFacts DEF Typed
  <1>3. rd \in Nat
    BY StreamFacts DEF Typed, TypeOK
  <1> QED
    BY <1>1, <1>2, <1>3, Sizes

\* Within a text the step to p, not behind its end, keeps the thread in step.
LEMMA InText ==
    ASSUME Typed, Stand(units, pos, FALSE), NEW t \in Is, ~IsPacket(t), Start(t) <= pos,
           NEW p \in Nat, pos < p, p <= EndOf(t), NEW e \in BOOLEAN, e \/ p # EndOf(t) - 1
    PROVE  Stand(units, p, e)
  <1>1. pos \in Nat
    BY StreamFacts DEF Typed, TypeOK
  <1>2. \A i \in Is : /\ Start(i) \in Nat /\ EndOf(i) \in Nat /\ Start(i) + 2 <= EndOf(i)
                      /\ i # t => EndOf(i) <= Start(t) \/ EndOf(t) <= Start(i)
    BY UnitFacts, Apart, Sizes DEF Typed
  <1>3. \A i \in Is : IsPacket(i) => (Start(i) < p <=> Start(i) < pos) /\ (Start(i) < p => EndOf(i) <= p)
    BY <1>1, <1>2
  <1>4. \A i \in Is : ~IsPacket(i) => e \/ p # EndOf(i) - 1
    BY <1>1, <1>2
  <1> QED
    BY <1>3, <1>4 DEF Stand

\* The text in which a line begins ends behind the next byte.
LEMMA TextHere ==
    ASSUME Typed, Stand(units, pos, FALSE), AtText, DOMAIN swapped = {}
    PROVE  \E t \in Is : /\ ~IsPacket(t) /\ Start(t) <= pos /\ pos + 2 <= EndOf(t)
                         /\ EndOf(t) \in Nat /\ EndOf(t) <= Len(stream.bytes)
                         /\ stream.bytes[EndOf(t) - 1] = "cr" /\ stream.bytes[EndOf(t)] = "lf"
  <1>1. pos \in Nat /\ pos + 1 \in 1..Len(stream.bytes)
    <2>1. rd \in 0..Len(stream.bytes) /\ pos \in 0..rd /\ Len(stream.bytes) \in Nat
      BY StreamFacts DEF Typed, TypeOK
    <2> QED
      BY <2>1, Sizes DEF AtText, Left
  <1>2. PICK t \in Is : Start(t) < pos + 1 /\ pos + 1 <= EndOf(t)
    BY <1>1, Apart DEF Typed
  <1>3. Start(t) \in Nat /\ EndOf(t) \in Nat /\ EndOf(t) <= Len(stream.bytes)
    BY UnitFacts DEF Typed
  <1>4. Start(t) <= pos /\ pos < EndOf(t)
    BY <1>1, <1>2, <1>3
  <1>5. ~IsPacket(t)
    <2> SUFFICES ASSUME IsPacket(t) PROVE FALSE
      OBVIOUS
    <2>1. Start(t) = pos
      BY <1>1, <1>3, <1>4 DEF Stand
    <2> QED
      BY <2>1, UnitFacts, AsRead DEF AtText, Typed
  <1>6. pos # EndOf(t) - 1
    BY <1>5 DEF Stand
  <1>7. pos + 2 <= EndOf(t)
    BY <1>1, <1>3, <1>4, <1>6
  <1> QED
    BY <1>3, <1>4, <1>5, <1>7, UnitFacts DEF Typed

LEMMA SyncLine == ASSUME Typed, Sync, Line PROVE Sync'
  <1>0. UNCHANGED <<stream, rd, units, swapped>> /\ AtText /\ ~iErrorFlag
          /\ iErrorFlag' \in BOOLEAN
    BY DEF Line, Typed, TypeOK
  <1>1. rd \in Nat /\ pos \in Nat /\ pos + 4 <= rd /\ rd <= Len(stream.bytes)
    <2>1. rd \in 0..Len(stream.bytes) /\ pos \in 0..rd /\ Len(stream.bytes) \in Nat
      BY StreamFacts DEF Typed, TypeOK
    <2> QED
      BY <1>0, <2>1, Sizes DEF AtText, Left
  <1>2. Goto(pos')
    BY DEF Line, Goto
  <1>3. ASSUME mishaps' = {} PROVE Stand(units', pos', iErrorFlag') /\ DOMAIN swapped' = {}
    <2>1. Stand(units, pos, FALSE) /\ DOMAIN swapped = {}
      BY <1>0, <1>3 DEF Line, Sync, Stand
    <2>2. PICK t \in Is : /\ ~IsPacket(t) /\ Start(t) <= pos /\ pos + 2 <= EndOf(t)
                          /\ EndOf(t) \in Nat /\ EndOf(t) <= Len(stream.bytes)
                          /\ stream.bytes[EndOf(t) - 1] = "cr" /\ stream.bytes[EndOf(t)] = "lf"
      BY <1>0, <2>1, TextHere
    <2>3. EndOf(t) <= rd => EndOf(t) \in EndsOf("cr", "lf")
      BY <1>1, <2>1, <2>2, AsRead
    <2>4. /\ pos' \in Nat /\ pos < pos' /\ pos' <= EndOf(t)
          /\ iErrorFlag' \/ pos' # EndOf(t) - 1
      <3>1. CASE EndsOf("cr", "lf") # {}
        <4>1. PICK k \in EndsOf("cr", "lf") : First(k, EndsOf("cr", "lf")) /\ Goto(k)
          BY <3>1 DEF Line
        <4>2. k \in (pos + 2)..rd /\ stream.bytes[k] = "lf" /\ pos' = k
          BY <2>1, <4>1, AsRead DEF Goto
        <4>3. EndOf(t) <= rd => k <= EndOf(t)
          BY <2>3, <4>1 DEF First
        <4> QED
          BY <1>1, <2>2, <4>2, <4>3
      <3>2. CASE EndsOf("cr", "lf") = {}
        <4>1. pos' = rd /\ rd < EndOf(t)
          BY <1>1, <2>2, <2>3, <3>2 DEF Line, Goto
        <4>2. stream.bytes[rd] # "cr"
          BY <1>3, <2>1, <3>2, AsRead DEF Line
        <4> QED
          BY <1>1, <2>2, <4>1, <4>2
      <3> QED
        BY <3>1, <3>2
    <2> QED
      BY <1>0, <2>1, <2>2, <2>4, InText
  <1> QED
    BY <1>0, <1>2, <1>3, Arrive

LEMMA SyncScan == ASSUME Typed, Sync, Scan PROVE Sync'
  <1>0. UNCHANGED <<stream, rd, units, swapped>> /\ AtText /\ iErrorFlag
    BY DEF Scan
  <1>1. rd \in Nat /\ pos \in Nat /\ pos + 4 <= rd /\ rd <= Len(stream.bytes)
    <2>1. rd \in 0..Len(stream.bytes) /\ pos \in 0..rd /\ Len(stream.bytes) \in Nat
      BY StreamFacts DEF Typed, TypeOK
    <2> QED
      BY <1>0, <2>1, Sizes DEF AtText, Left
  <1>2. Goto(pos')
    BY DEF Scan, Goto
  <1>3. ASSUME mishaps' = {} PROVE Stand(units', pos', iErrorFlag') /\ DOMAIN swapped' = {}
    <2>1. Stand(units, pos, TRUE) /\ DOMAIN swapped = {}
      BY <1>0, <1>3 DEF Scan, Sync, Stand
    <2>2. \A i \in Is : /\ Start(i) \in Nat /\ EndOf(i) \in Nat
                        /\ IsPacket(i) => /\ stream.bytes[Start(i) + 1] = "$"
                                          /\ stream.bytes[Start(i) + 2] = "ch"
                        /\ ~IsPacket(i) => stream.bytes[EndOf(i)] = "lf"
      BY UnitFacts DEF Typed
    <2>3. \A i \in Is : IsPacket(i) /\ Start(i) >= pos /\ Start(i) + 2 <= rd
                          => Start(i) + 2 \in EndsOf("$", "ch")
      BY <1>1, <2>1, <2>2, AsRead
    <2>4. /\ pos' \in Nat /\ pos <= pos'
          /\ \A i \in Is : IsPacket(i) /\ Start(i) < pos' => Start(i) < pos
          /\ ~iErrorFlag' => \A i \in Is : ~IsPacket(i) => pos' # EndOf(i) - 1
      <3>1. CASE EndsOf("$", "ch") # {}
        <4>1. PICK k \in EndsOf("$", "ch") : First(k, EndsOf("$", "ch")) /\ Goto(k - 2)
          BY <3>1 DEF Scan
        <4>2. k \in (pos + 2)..rd /\ stream.bytes[k - 1] = "$" /\ pos' = k - 2
          BY <2>1, <4>1, AsRead DEF Goto
        <4>3. \A i \in Is : IsPacket(i) /\ Start(i) < k - 2 => Start(i) < pos
          <5> SUFFICES ASSUME NEW i \in Is, IsPacket(i), Start(i) < k - 2, Start(i) >= pos PROVE FALSE
            BY <1>1, <2>2
          <5>1. Start(i) + 2 \in EndsOf("$", "ch")
            BY <1>1, <2>2, <2>3, <4>2
          <5>2. k <= Start(i) + 2
            BY <4>1, <5>1 DEF First
          <5> QED
            BY <1>1, <2>2, <4>2, <5>2
        <4>4. \A i \in Is : ~IsPacket(i) => k - 2 # EndOf(i) - 1
          BY <1>1, <2>2, <4>2
        <4> QED
          BY <1>1, <4>2, <4>3, <4>4
      <3>2. CASE EndsOf("$", "ch") = {}
        <4>1. pos' = rd /\ iErrorFlag'
          BY <1>0, <3>2 DEF Scan, Goto
        <4>2. stream.bytes[rd] # "$"
          BY <1>3, <2>1, <3>2, AsRead DEF Scan
        <4>3. \A i \in Is : IsPacket(i) /\ Start(i) < rd => Start(i) < pos
          <5> SUFFICES ASSUME NEW i \in Is, IsPacket(i), Start(i) < rd, Start(i) >= pos PROVE FALSE
            BY <1>1, <2>2
          <5>1. Start(i) + 2 > rd
            BY <1>1, <2>2, <2>3, <3>2
          <5>2. Start(i) + 1 = rd
            BY <1>1, <2>2, <5>1
          <5> QED
            BY <2>2, <4>2, <5>2
        <4> QED
          BY <1>1, <4>1, <4>3
      <3> QED
        BY <3>1, <3>2
    <2>5. \A i \in Is : IsPacket(i) /\ Start(i) < pos' => EndOf(i) <= pos'
      BY <1>1, <2>1, <2>2, <2>4 DEF Stand
    <2>6. \A i \in Is : IsPacket(i) => (Start(i) < pos' <=> Start(i) < pos)
      BY <1>1, <2>2, <2>4
    <2> QED
      BY <1>0, <2>1, <2>4, <2>5, <2>6 DEF Stand
  <1> QED
    BY <1>0, <1>2, <1>3, Arrive

LEMMA SyncPacket == ASSUME Typed, Sync, Packet PROVE Sync'
  <1>1. PICK p \in Packets : /\ Left >= HeadLen + p.len /\ Goto(pos + HeadLen + p.len)
                             /\ \E new \in [Behind(p) -> Byte] :
                                   swapped' = [k \in DOMAIN swapped \cup Behind(p) |->
                                                 IF k \in Behind(p) THEN new[k] ELSE swapped[k]]
                             /\ mishaps' = mishaps \cup (IF Here = {} THEN {"fake"} ELSE {})
                                                   \cup (IF Behind(p) # {} THEN {"swap"} ELSE {})
    BY DEF Packet
  <1>2. stream' = stream /\ rd' = rd /\ iErrorFlag' = iErrorFlag /\ units' = units \cup Here
    BY DEF Packet
  <1>3. Goto(pos')
    BY <1>1 DEF Goto
  <1>4. ASSUME mishaps' = {} PROVE Stand(units', pos', iErrorFlag') /\ DOMAIN swapped' = {}
    <2>1. Here # {} /\ mishaps = {} /\ Behind(p) = {} /\ DOMAIN swapped = {}
      BY <1>1, <1>4 DEF Sync
    <2>12. DOMAIN swapped' = {}
      BY <1>1, <2>1
    <2>2. PICK h \in Here : p = stream.units[h].what
      BY <1>1, <2>1 DEF Packets
    <2>3. h \in Is /\ Start(h) = pos /\ Here = {i \in Is : Start(i) = pos}
      BY <2>1, <2>2, AsRead
    <2>4. PacketOK(p) /\ IsPacket(h)
      <3>1. PacketOK(p)
        BY PacketsOK DEF Packet
      <3> QED
        BY <2>2, <3>1 DEF PacketOK, Video, Other, IsPacket
    <2>5. pos' = EndOf(h) /\ pos \in Nat
      BY <1>1, <2>2, <2>3, <2>4, UnitFacts, StreamFacts DEF Typed, TypeOK, Goto
    <2>6. \A i \in Is : /\ Start(i) \in Nat /\ EndOf(i) \in Nat /\ Start(i) + 2 <= EndOf(i)
                        /\ i # h => EndOf(i) <= Start(h) \/ EndOf(h) <= Start(i)
      BY <2>3, UnitFacts, Apart, Sizes DEF Typed
    <2>7. \A i \in Is : IsPacket(i) =>
            /\ Start(i) < pos' <=> (Start(i) < pos \/ Start(i) = pos)
            /\ Start(i) < pos' => EndOf(i) <= pos'
      BY <2>3, <2>5, <2>6
    <2>8. \A i \in Is : ~IsPacket(i) => pos' # EndOf(i) - 1
      BY <2>3, <2>4, <2>5, <2>6
    <2>9. \A i \in Here : IsPacket(i)
      BY <2>3, <2>4, <2>6
    <2>10. units = {i \in Is : IsPacket(i) /\ Start(i) < pos}
      BY <2>1 DEF Sync, Stand
    <2>11. units' = {i \in Is : IsPacket(i) /\ Start(i) < pos'}
      BY <1>2, <2>3, <2>7, <2>9, <2>10
    <2> QED
      BY <2>7, <2>8, <2>11, <2>12 DEF Stand
  <1> QED
    BY <1>2, <1>3, <1>4, Arrive

LEMMA SyncSave == ASSUME Typed, Sync, Save PROVE Sync'
  <1>1. UNCHANGED <<stream, rd, pos, swapped, iErrorFlag, units>> /\ pc' = "recv"
    BY DEF Save
  <1> SUFFICES ASSUME mishaps' = {} PROVE Prompt(pos, rd)
    BY <1>1 DEF Save, Sync, Stand, Prompt, Is, Start, EndOf, IsPacket
  <1> SUFFICES ASSUME NEW i \in Is, IsPacket(i), EndOf(i) <= rd, Start(i) >= pos PROVE FALSE
    <2>1. \A i \in Is : Start(i) \in Nat
      BY UnitFacts DEF Typed
    <2>2. pos \in Nat
      BY StreamFacts DEF Typed, TypeOK
    <2> QED
      BY <2>1, <2>2 DEF Prompt
  <1>2. rd \in Nat /\ pos \in Nat
    BY StreamFacts DEF Typed, TypeOK
  <1>3. Start(i) \in Nat /\ EndOf(i) \in Nat /\ Start(i) + HeadLen <= EndOf(i)
    BY UnitFacts DEF Typed
  <1>4. CASE Left < HeadLen
    BY <1>2, <1>3, <1>4, Sizes DEF Left
  <1>5. CASE AtPacket /\ \E p \in Packets : Left < HeadLen + p.len
    <2>1. PICK p \in Packets : Left < HeadLen + p.len
      BY <1>5
    <2>2. Here # {}
      BY <1>5 DEF Save
    <2>3. PICK h \in Here : p = stream.units[h].what
      BY <2>1, <2>2 DEF Packets
    <2>4. h \in Is /\ Start(h) = pos
      BY <2>3 DEF Here, Is, Start
    <2>5. IsPacket(h)
      <3>1. PacketOK(p)
        BY <1>5, PacketsOK
      <3> QED
        BY <2>3, <3>1 DEF PacketOK, Video, Other, IsPacket
    <2>6. EndOf(h) = pos + HeadLen + p.len /\ EndOf(h) \in Nat /\ p.len \in Nat
      <3>1. PacketOK(p)
        BY <1>5, PacketsOK
      <3> QED
        BY <2>3, <2>4, <2>5, <3>1, UnitFacts DEF Typed, PacketOK, Video, Other
    <2>7. EndOf(h) > rd
      BY <1>2, <2>1, <2>6, Sizes DEF Left
    <2>8. i # h
      BY <1>2, <1>3, <2>7
    <2>9. EndOf(i) <= Start(h) \/ EndOf(h) <= Start(i)
      BY <2>4, <2>8, Apart DEF Typed
    <2> QED
      BY <1>2, <1>3, <2>4, <2>6, <2>7, <2>9, Sizes
  <1> QED
    BY <1>4, <1>5 DEF Save

LEMMA SyncStep == Typed /\ Sync /\ [Next]_vars => Sync'
  <1> SUFFICES ASSUME Typed, Sync, [Next]_vars PROVE Sync'
    OBVIOUS
  <1>1. CASE Recv
    <2>1. mishaps' = {} => mishaps = {} /\ pos' = pos
      BY <1>1 DEF Recv
    <2>2. UNCHANGED <<stream, swapped, iErrorFlag, units>> /\ pc' = "loop"
      BY <1>1 DEF Recv
    <2> QED
      BY <2>1, <2>2 DEF Sync, Stand, Prompt, Is, Start, EndOf, IsPacket
  <1>2. CASE Closed
    BY <1>2 DEF Closed, Sync, Stand, Prompt, Is, Start, EndOf, IsPacket
  <1>3. CASE UNCHANGED vars
    BY <1>3 DEF vars, input, Sync, Stand, Prompt, Is, Start, EndOf, IsPacket
  <1>4. CASE Break
    BY <1>4 DEF Break, Sync, Stand, Prompt, Is, Start, EndOf, IsPacket
  <1> QED
    BY <1>1, <1>2, <1>3, <1>4, SyncSave, SyncPacket, SyncLine, SyncScan DEF Next

LEMMA SyncInit == Init => Sync
  <1> SUFFICES ASSUME Init PROVE Sync
    OBVIOUS
  <1>1. stream \in Streams /\ units = {} /\ pos = 0 /\ rd = 0 /\ DOMAIN swapped = {}
    BY DEF Init
  <1>2. \A i \in Is : /\ Start(i) \in Nat /\ EndOf(i) \in Nat
                      /\ IsPacket(i) => EndOf(i) >= 4
                      /\ ~IsPacket(i) => EndOf(i) >= 2
    BY <1>1, UnitFacts, Sizes
  <1> QED
    BY <1>1, <1>2 DEF Sync, Stand, Prompt

\* Unless a mishap of those listed has happened (a line's end or a '$' and its channel cut, a
\* packet that does not fit, a swap that went behind its packet, or what comes of them), exactly
\* the packets that the camera sent are taken, each as soon as it is all there (RtspRecvThread).
THEOREM InStepAlways == Spec => []InStep
  <1>1. Typed /\ Sync => InStep
    BY DEF Sync, Stand, Prompt, InStep, Is, Start
  <1>2. Init => Typed /\ Fits /\ Sync
    BY TypedInit, SyncInit
  <1>3. Typed /\ Fits /\ Sync /\ [Next]_vars => Typed' /\ Fits' /\ Sync'
    BY TypedStep, SyncStep
  <1> QED
    BY <1>1, <1>2, <1>3, PTL DEF Spec

-----------------------------------------------------------------------------
(* A frame is handed over whole or not at all. *)

\* The packets there are.
Pool == Fakes \cup {stream.units[i].what : i \in DOMAIN stream.units}

\* The gap, or the packet without payload, that may tear the frame that ends at packet k.
Torn(k) == \E j \in Run(k) : \/ Gap(j) /\ ~Seen(j)
                             \/ Seen(j) /\ handled[j].nal = "none"
                             \/ Short(handled[j])

\* The parts are those up to packet k of its frame.
Exact(parts, k) ==
    /\ Len(parts) = handled[k].part
    /\ \A i \in DOMAIN parts : /\ handled[parts[i]].part = i
                               /\ handled[parts[i]].frame = handled[k].frame
                               /\ handled[parts[i]].of = handled[k].of

\* What frame holds behind packet n: the frame is torn, or will not be handed over, or is
\* whole so far.
Holds(parts, lost, n) ==
    \/ Torn(n)
    \/ lost /\ handled[n].nal # "none"
    \/ Exact(parts, n)

Fresh == frame = <<>> /\ iVideoFrameLen = 0 /\ ~iFrameLostFlag
Assembled ==
    /\ \A k \in DOMAIN handled : handled[k] \in Pool
    /\ handled = <<>> => Fresh /\ u16OldSeq = 0
    /\ handled # <<>> =>
          /\ u16OldSeq = handled[Len(handled)].seq
          /\ IF handled[Len(handled)].m THEN Fresh
             ELSE Holds(frame, iFrameLostFlag, Len(handled))
    /\ frame = <<>> => iVideoFrameLen = 0
    /\ iFrameLostFlag => iVideoFrameLen # 0
    /\ \A d \in DOMAIN delivered : Whole(delivered[d].parts) \/ Torn(delivered[d].end)

\* The video packets that are handled are those of the pool.
LEMMA PoolOK ==
    ASSUME Typed, AtPacket, NEW p \in Packets
    PROVE  p \in Pool
  <1>1. CASE Here = {}
    BY <1>1 DEF Packets, Pool
  <1>2. CASE Here # {}
    BY <1>2 DEF Packets, Pool, Here
  <1> QED
    BY <1>1, <1>2

\* What the types of the state say of the packets that were handled.
LEMMA HandledFacts ==
    ASSUME Typed
    PROVE  /\ Len(handled) \in Nat /\ DOMAIN handled = 1..Len(handled)
           /\ handled = <<>> <=> Len(handled) = 0
           /\ \A k \in 1..Len(handled) :
                 /\ handled[k] \in Video /\ handled[k].kind = "video"
                 /\ handled[k].part \in Nat /\ handled[k].of \in Nat
                 /\ handled[k].m \in BOOLEAN /\ handled[k].seq \in Nat /\ handled[k].nr \in Nat
  <1>1. handled \in Seq(Video)
    BY DEF Typed, TypeOK
  <1>2. Len(handled) \in Nat /\ DOMAIN handled = 1..Len(handled)
    BY <1>1, LenProperties
  <1>3. handled = <<>> <=> Len(handled) = 0
    BY <1>1, EmptySeq
  <1>4. SeqSize \in Nat
    BY Sizes
  <1>5. \A k \in 1..Len(handled) : handled[k] \in Video
    BY <1>1, ElementOfSeq
  <1>6. \A v \in Video : /\ v.kind = "video" /\ v.part \in Nat /\ v.of \in Nat
                         /\ v.m \in BOOLEAN /\ v.seq \in Nat /\ v.nr \in Nat
    BY <1>4 DEF Video
  <1> QED
    BY <1>2, <1>3, <1>5, <1>6

\* A packet that is handled changes nothing about those before it.
LEMMA Before ==
    ASSUME Typed, NEW p \in Video, handled' = Append(handled, p), NEW n, n = Len(handled)
    PROVE  /\ n \in Nat /\ Len(handled') = n + 1 /\ DOMAIN handled' = 1..(n + 1)
           /\ handled' # <<>>
           /\ handled'[n + 1] = p
           /\ \A k \in 1..n : handled'[k] = handled[k] /\ (Torn(k) => Torn(k)')
           /\ n > 0 /\ ~handled[n].m /\ Torn(n) => Torn(n + 1)'
           /\ \A k \in 1..n : Run(k)' = Run(k) /\ (Seen(k)' <=> Seen(k))
           /\ n > 0 /\ ~handled[n].m => Run(n) \subseteq Run(n + 1)'
  <1>1. n \in Nat /\ handled \in Seq(Video)
    BY HandledFacts DEF Typed, TypeOK
  <1>2. /\ Len(handled') = n + 1 /\ DOMAIN handled' = 1..(n + 1) /\ handled'[n + 1] = p
        /\ \A k \in 1..n : handled'[k] = handled[k]
    BY <1>1, AppendProperties
  <1>3. handled' # <<>>
    BY <1>1, <1>2
  <1>4. ASSUME NEW k \in 1..n
        PROVE  Run(k)' = Run(k) /\ (Torn(k) => Torn(k)') /\ (Seen(k)' <=> Seen(k))
    <2>1. Run(k)' = Run(k)
      BY <1>1, <1>2, <1>4 DEF Run
    <2>2. ASSUME NEW j \in 1..n
          PROVE  Gap(j)' = Gap(j) /\ Seen(j)' = Seen(j) /\ handled'[j] = handled[j]
      <3>1. CASE j = 1
        BY <1>2, <2>2, <3>1 DEF Gap, Seen, Counts
      <3>2. CASE j # 1
        <4>1. j > 1 /\ handled'[j] = handled[j] /\ handled'[j - 1] = handled[j - 1]
          BY <1>1, <1>2, <2>2, <3>2
        <4> QED
          BY <3>2, <4>1 DEF Gap, Seen, Counts, Short, HeaderLen
      <3> QED
        BY <3>1, <3>2
    <2>3. Run(k) \subseteq 1..n
      BY <1>1, <1>4 DEF Run
    <2> QED
      BY <2>1, <2>2, <2>3 DEF Torn, Short, HeaderLen
  <1>5. ASSUME n > 0, ~handled[n].m PROVE Run(n) \subseteq Run(n + 1)'
    <2> SUFFICES ASSUME NEW j \in Run(n) PROVE j \in Run(n + 1)'
      OBVIOUS
    <2>1. n \in 1..n
      BY <1>1, <1>5
    <2>2. j \in 1..n /\ \A i \in j..(n - 1) : ~handled'[i].m
      BY <1>4, <2>1 DEF Run
    <2>3. ASSUME NEW i \in j..((n + 1) - 1) PROVE ~handled'[i].m
      <3>1. CASE i = n
        BY <1>2, <1>5, <2>1, <3>1
      <3>2. CASE i # n
        <4>1. i \in j..(n - 1)
          BY <1>1, <2>2, <2>3, <3>2
        <4> QED
          BY <2>2, <4>1
      <3> QED
        BY <3>1, <3>2
    <2>4. j \in 1..(n + 1)
      BY <1>1, <2>2
    <2> QED
      BY <2>3, <2>4 DEF Run
  <1>6. ASSUME n > 0, ~handled[n].m, Torn(n) PROVE Torn(n + 1)'
    <2>1. n \in 1..n
      BY <1>1, <1>6
    <2>2. Torn(n)' /\ Run(n)' = Run(n)
      BY <1>4, <1>6, <2>1
    <2> QED
      BY <1>5, <1>6, <2>2 DEF Torn
  <1> QED
    BY <1>1, <1>2, <1>3, <1>4, <1>5, <1>6

\* The numbering of the packets from one to the next.
LEMMA Follows ==
    ASSUME Typed, NEW q \in Pool, NEW p \in Pool, q.kind = "video", p.kind = "video",
           ~Short(q), ~Short(p), p.nr = q.nr + 1
    PROVE  IF q.m THEN p.part = Counts(p)
           ELSE p.frame = q.frame /\ p.of = q.of /\ p.part = q.part + Counts(p)
  BY StreamFacts DEF Typed, StreamOK, Numbered, Pool

\* all is old, a sequence of numbers up to n, with n + 1 behind it unless x holds.
Longer(n, old, x, all) ==
    /\ Len(old) \in Nat /\ DOMAIN old = 1..Len(old) /\ \A i \in 1..Len(old) : old[i] \in 1..n
    /\ x => all = old
    /\ ~x => /\ Len(all) = Len(old) + 1 /\ DOMAIN all = 1..(Len(old) + 1)
             /\ all[Len(old) + 1] = n + 1 /\ \A i \in 1..Len(old) : all[i] = old[i]

LEMMA AppendLonger ==
    ASSUME NEW n \in Nat, NEW old \in Seq(1..n)
    PROVE  /\ Longer(n, old, TRUE, old) /\ Longer(n, old, FALSE, Append(old, n + 1))
           /\ old \o <<>> = old /\ old \o <<n + 1>> = Append(old, n + 1)
           /\ old = <<>> <=> Len(old) = 0
  <1>1. 1..n \subseteq 1..(n + 1) /\ n + 1 \in 1..(n + 1)
    OBVIOUS
  <1>2. /\ Len(old) \in Nat /\ DOMAIN old = 1..Len(old) /\ old \in Seq(1..(n + 1))
        /\ \A i \in 1..Len(old) : old[i] \in 1..n
    BY <1>1, LenProperties, ElementOfSeq, SeqLarger
  <1>3. /\ Append(old, n + 1) \in Seq(1..(n + 1)) /\ Len(Append(old, n + 1)) = Len(old) + 1
        /\ Append(old, n + 1)[Len(old) + 1] = n + 1
        /\ \A i \in 1..Len(old) : Append(old, n + 1)[i] = old[i]
    BY <1>1, <1>2, AppendProperties
  <1>4. DOMAIN Append(old, n + 1) = 1..(Len(old) + 1)
    BY <1>3, LenProperties
  <1>5. old \o <<>> = old /\ old \o <<n + 1>> = Append(old, n + 1)
    BY <1>1, <1>2, ConcatEmptySeq, AppendIsConcat
  <1>6. old = <<>> <=> Len(old) = 0
    BY EmptySeq
  <1> QED
    BY <1>2, <1>3, <1>4, <1>5, <1>6 DEF Longer

LEMMA Joined ==
    ASSUME NEW n \in Nat, NEW old \in Seq(1..n), NEW x \in BOOLEAN, NEW all,
           all = old \o IF x THEN <<>> ELSE <<n + 1>>
    PROVE  Longer(n, old, x, all)
  <1>1. CASE x
    <2>1. all = old \o <<>> /\ x = TRUE
      BY <1>1
    <2> QED
      BY <2>1, AppendLonger DEF Longer
  <1>2. CASE ~x
    <2>1. all = old \o <<n + 1>> /\ x = FALSE
      BY <1>2
    <2> QED
      BY <2>1, AppendLonger DEF Longer
  <1> QED
    BY <1>1, <1>2

\* A packet that continues the parts of a frame makes them one longer.
LEMMA Extended ==
    ASSUME NEW n \in Nat, NEW p \in Video, handled'[n + 1] = p,
           \A k \in 1..n : handled'[k] = handled[k],
           NEW old, NEW all, Longer(n, old, p.nal = "none", all), p.part = Len(old) + Counts(p),
           \A i \in DOMAIN old : /\ handled[old[i]].part = i
                                 /\ handled[old[i]].frame = p.frame
                                 /\ handled[old[i]].of = p.of
    PROVE  Exact(all, n + 1)'
  <1>1. CASE p.nal = "none"
    <2>1. all = old /\ p.part = Len(old) /\ Len(old) \in Nat
      BY <1>1 DEF Longer, Counts
    <2>2. \A i \in DOMAIN old : handled'[old[i]] = handled[old[i]]
      BY DEF Longer
    <2> QED
      BY <2>1, <2>2 DEF Exact
  <1>2. CASE p.nal # "none"
    <2>1. /\ Len(old) \in Nat /\ p.part = Len(old) + 1 /\ Len(all) = Len(old) + 1
          /\ DOMAIN all = 1..(Len(old) + 1) /\ all[Len(old) + 1] = n + 1
          /\ DOMAIN old = 1..Len(old)
          /\ \A i \in 1..Len(old) : all[i] = old[i] /\ old[i] \in 1..n
      BY <1>2 DEF Longer, Counts
    <2>2. ASSUME NEW i \in DOMAIN all
          PROVE  /\ handled'[all[i]].part = i /\ handled'[all[i]].frame = p.frame
                 /\ handled'[all[i]].of = p.of
      <3>1. CASE i \in 1..Len(old)
        BY <2>1, <3>1
      <3>2. CASE i = Len(old) + 1
        BY <2>1, <3>2
      <3> QED
        BY <2>1, <2>2, <3>1, <3>2
    <2> QED
      BY <2>1, <2>2 DEF Exact
  <1> QED
    BY <1>1, <1>2

\* What a packet makes of the frame before the mark is looked at.
LEMMA Adds ==
    ASSUME Typed, Fits, Assembled, NEW p, PacketOK(p), p.kind = "video", ~Negative(p), p \in Pool,
           handled' = Append(handled, p), NEW n, n = Len(handled),
           NEW anew, anew = (OutOfSeq(p) \/ iVideoFrameLen + p.len > MaxFrameLen),
           NEW lost, lost = (iFrameLostFlag \/ anew),
           NEW all, all = (IF anew THEN <<>> ELSE frame)
                             \o IF p.nal = "none" THEN <<>> ELSE <<n + 1>>
    PROVE  Holds(all, lost, n + 1)'
  <1>1. /\ p \in Video /\ p.len \in Nat /\ p.len <= MaxFrameLen
        /\ ~Short(p) => (p.nal = "none" <=> p.part = 0)
    BY GrowFits DEF PacketOK
  <1>2. /\ n \in Nat /\ Len(handled') = n + 1 /\ handled'[n + 1] = p
        /\ \A k \in 1..n : handled'[k] = handled[k] /\ (Torn(k) => Torn(k)')
        /\ n > 0 /\ ~handled[n].m /\ Torn(n) => Torn(n + 1)'
    BY <1>1, Before
  <1>3. Gap(n + 1)' /\ ~Seen(n + 1)' => Torn(n + 1)'
    <2>1. n + 1 \in Run(n + 1)'
      BY <1>2 DEF Run
    <2> QED
      BY <2>1 DEF Torn
  <1>4. Seen(n + 1)' /\ p.nal = "none" => Torn(n + 1)'
    <2>1. n + 1 \in Run(n + 1)'
      BY <1>2 DEF Run
    <2> QED
      BY <1>2, <2>1 DEF Torn
  <1>9. Short(p) => Torn(n + 1)'
    <2>1. n + 1 \in Run(n + 1)'
      BY <1>2 DEF Run
    <2> QED
      BY <1>2, <2>1 DEF Torn, Short, HeaderLen
  <1>5. \* what is seen is out of sequence, and nothing else
        Seen(n + 1)' <=> OutOfSeq(p)
    <2>1. CASE n = 0
      BY <1>2, <2>1, HandledFacts DEF Assembled, OutOfSeq, Seen
    <2>2. CASE n # 0
      <3>1. n \in 1..n /\ n + 1 > 1 /\ n + 1 - 1 = n
        BY <1>2, <2>2
      <3>2. u16OldSeq = handled[n].seq /\ handled'[n] = handled[n]
        BY <1>2, <2>2, <3>1, HandledFacts DEF Assembled
      <3> QED
        BY <1>2, <3>1, <3>2 DEF OutOfSeq, Seen
    <2> QED
      BY <2>1, <2>2
  <1>6. CASE lost /\ p.nal # "none"
    BY <1>2, <1>6 DEF Holds
  <1>7. CASE Torn(n + 1)'
    BY <1>7 DEF Holds
  <1>8. CASE ~(lost /\ p.nal # "none") /\ ~Torn(n + 1)'
    <2>1. ~Gap(n + 1)' /\ ~Seen(n + 1)' /\ ~OutOfSeq(p) /\ ~Short(p)
      BY <1>3, <1>4, <1>5, <1>8, <1>9
    <2>2. CASE n = 0 \/ handled[n].m
      <3>1. Fresh
        BY <2>2, HandledFacts DEF Assembled
      <3>2. ~anew
        <4>1. iVideoFrameLen + p.len = p.len
          BY <1>1, <3>1 DEF Fresh
        <4>2. ~(iVideoFrameLen + p.len > MaxFrameLen)
          BY <1>1, <4>1, Sizes
        <4> QED
          BY <2>1, <4>2
      <3>3. p.part = Counts(p)
        <4>1. CASE n = 0
          BY <1>2, <2>1, <4>1 DEF Gap, Counts
        <4>2. CASE n # 0
          <5>1. n \in 1..n /\ handled[n].m
            BY <1>2, <2>2, <4>2
          <5>2. handled[n] \in Pool /\ handled[n].kind = "video"
            BY <5>1, HandledFacts DEF Assembled
          <5>3. CASE ~Short(handled[n])
            <6>1. p.nr = handled[n].nr + 1
              BY <1>2, <2>1, <5>1, <5>3 DEF Gap, Counts, Short, HeaderLen
            <6> QED
              BY <2>1, <5>1, <5>2, <5>3, <6>1, Follows
          <5>4. CASE Short(handled[n])
            BY <1>2, <2>1, <5>1, <5>4 DEF Gap, Counts, Short, HeaderLen
          <5> QED
            BY <5>3, <5>4
        <4> QED
          BY <4>1, <4>2
      <3>4. frame = <<>> /\ frame \in Seq(1..n) /\ Len(frame) = 0
        BY <3>1, EmptySeq DEF Fresh, Typed, TypeOK
      <3>5. all = frame \o IF p.nal = "none" THEN <<>> ELSE <<n + 1>>
        BY <3>2
      <3>6. Exact(all, n + 1)'
        <4>1. Longer(n, frame, p.nal = "none", all)
          BY <1>2, <3>4, <3>5, Joined
        <4>2. p.part = Len(frame) + Counts(p) /\ DOMAIN frame = {}
          BY <3>3, <3>4 DEF Counts
        <4> QED
          BY <1>1, <1>2, <4>1, <4>2, Extended
      <3> QED
        BY <3>6 DEF Holds
    <2>3. CASE n # 0 /\ ~handled[n].m
      <3>1. n \in 1..n /\ n > 0
        BY <1>2, <2>3
      <3>2. handled[n] \in Pool /\ handled[n].kind = "video" /\ handled[n].part \in Nat
              /\ handled'[n] = handled[n]
        BY <1>2, <3>1, HandledFacts DEF Assembled
      <3>5. ~Torn(n) /\ ~Short(handled[n])
        <4>1. ~Torn(n)
          BY <1>2, <1>8, <2>3, <3>1
        <4>2. n \in Run(n)
          BY <1>2, <3>1 DEF Run
        <4> QED
          BY <4>1, <4>2 DEF Torn
      <3>3. p.nr = handled[n].nr + 1
        BY <1>2, <2>1, <3>1, <3>5 DEF Gap, Counts, Short, HeaderLen
      <3>4. p.frame = handled[n].frame /\ p.of = handled[n].of
              /\ p.part = handled[n].part + Counts(p)
        BY <1>1, <2>1, <2>3, <3>2, <3>3, <3>5, Follows
      <3>6. p.nal = "none" => handled[n].part = 0 /\ handled[n].nal = "none"
        <4>1. p.nal = "none" => handled[n].part = 0
          BY <1>1, <2>1, <3>2, <3>4 DEF Counts
        <4>2. PacketOK(handled[n])
          BY <3>2, RtpAssumption, StreamFacts DEF Pool, StreamOK, UnitOK, Typed, Text
        <4> QED
          BY <3>2, <3>5, <4>1, <4>2 DEF PacketOK
      <3>7. Holds(frame, iFrameLostFlag, n)
        BY <2>3, <3>1, HandledFacts DEF Assembled
      <3>8. Exact(frame, n) /\ ~anew
        <4>1. CASE p.nal = "none"
          <5>1. Exact(frame, n) /\ Len(frame) = 0
            BY <3>5, <3>6, <3>7, <4>1 DEF Holds, Exact
          <5>2. frame = <<>>
            BY <5>1, EmptySeq DEF Typed, TypeOK
          <5>3. iVideoFrameLen = 0
            BY <5>2 DEF Assembled
          <5>4. ~(iVideoFrameLen + p.len > MaxFrameLen)
            BY <1>1, <5>3, Sizes
          <5> QED
            BY <2>1, <5>1, <5>4
        <4>2. CASE p.nal # "none"
          BY <1>8, <3>5, <3>7, <4>2 DEF Holds
        <4> QED
          BY <4>1, <4>2
      <3>9. frame \in Seq(1..n)
        BY DEF Typed, TypeOK
      <3>10. Exact(all, n + 1)'
        <4>1. p.part = Len(frame) + Counts(p)
          BY <3>4, <3>8 DEF Exact
        <4>2. \A i \in DOMAIN frame : /\ handled[frame[i]].part = i
                                      /\ handled[frame[i]].frame = p.frame
                                      /\ handled[frame[i]].of = p.of
          BY <3>4, <3>8 DEF Exact
        <4>3. all = frame \o IF p.nal = "none" THEN <<>> ELSE <<n + 1>>
          BY <3>8
        <4>4. Longer(n, frame, p.nal = "none", all)
          BY <1>2, <3>9, <4>3, Joined
        <4>5. \A k \in 1..n : handled'[k] = handled[k]
          BY <1>2
        <4> QED
          BY <1>1, <1>2, <4>1, <4>2, <4>4, <4>5, Extended
      <3> QED
        BY <3>10 DEF Holds
    <2> QED
      BY <2>2, <2>3
  <1> QED
    BY <1>6, <1>7, <1>8

\* A video packet keeps what is handed over whole.
LEMMA VideoAssembled ==
    ASSUME Typed, Fits, Assembled, Typed', NEW p, PacketOK(p), p.kind = "video", ~Negative(p),
           p \in Pool, VideoPacket(p), stream' = stream
    PROVE  Assembled'
  <1>1. PICK n : n = Len(handled)
    OBVIOUS
  <1>2. PICK anew : anew = (OutOfSeq(p) \/ iVideoFrameLen + p.len > MaxFrameLen)
    OBVIOUS
  <1>3. PICK lost : lost = (iFrameLostFlag \/ anew)
    OBVIOUS
  <1>4. PICK old : old = IF anew THEN <<>> ELSE frame
    OBVIOUS
  <1>5. PICK oldLen : oldLen = IF anew THEN 0 ELSE iVideoFrameLen
    OBVIOUS
  <1>6. PICK all : all = old \o IF p.nal = "none" THEN <<>> ELSE <<n + 1>>
    OBVIOUS
  <1>7. /\ frame' = (IF p.m THEN <<>> ELSE all)
        /\ iVideoFrameLen' = (IF p.m THEN 0 ELSE oldLen + Grow(p))
        /\ delivered' = (IF p.m /\ ~lost
                         THEN Append(delivered, [parts |-> all, end |-> n + 1]) ELSE delivered)
        /\ iFrameLostFlag' = (lost /\ iVideoFrameLen' # 0)
        /\ u16OldSeq' = p.seq /\ handled' = Append(handled, p)
    <2>1. handled' = Append(handled, p) /\ u16OldSeq' = p.seq
            /\ iFrameLostFlag' = (lost /\ iVideoFrameLen' # 0)
      BY <1>2, <1>3 DEF VideoPacket
    <2>2. RtpParseH264Data(p, old, oldLen, lost)
      BY <1>2, <1>3, <1>4, <1>5 DEF VideoPacket
    <2> QED
      BY <1>1, <1>6, <2>1, <2>2 DEF RtpParseH264Data
  <1>8. Holds(all, lost, n + 1)'
    BY <1>1, <1>2, <1>3, <1>4, <1>6, <1>7, Adds
  <1>9. /\ p \in Video /\ p.len \in Nat /\ Grow(p) \in Nat
        /\ p.nal = "none" => Grow(p) = 0
        /\ ~Short(p) => /\ p.nal # "none" => Grow(p) # 0
                        /\ p.m => p.part = p.of /\ p.of > 0 /\ p.nal # "none"
        /\ p.part \in Nat
    <2>1. p \in Video
      BY GrowFits
    <2>2. p.part \in Nat
      BY <2>1 DEF Video
    <2> QED
      BY <2>1, <2>2, GrowFits DEF PacketOK
  <1>10. /\ n \in Nat /\ Len(handled') = n + 1 /\ DOMAIN handled' = 1..(n + 1)
         /\ handled' # <<>> /\ handled'[n + 1] = p
         /\ \A k \in 1..n : handled'[k] = handled[k] /\ (Torn(k) => Torn(k)')
    BY <1>1, <1>7, <1>9, Before
  <1>19. Short(p) => Torn(n + 1)'
    <2>1. n + 1 \in Run(n + 1)'
      BY <1>10 DEF Run
    <2> QED
      BY <1>10, <2>1 DEF Torn, Short, HeaderLen
  <1>11. \A k \in DOMAIN handled' : handled'[k] \in Pool'
    <2>1. Pool' = Pool
      BY DEF Pool
    <2>2. \A k \in 1..n : handled[k] \in Pool
      BY <1>1, HandledFacts DEF Assembled
    <2> QED
      BY <1>10, <2>1, <2>2
  <1>12. iVideoFrameLen \in Nat /\ oldLen \in Nat
    BY <1>5 DEF Typed, TypeOK
  <1>13. old \in Seq(1..n)
    BY <1>1, <1>4, EmptySeq DEF Typed, TypeOK
  <1>14. frame' = <<>> => iVideoFrameLen' = 0
    <2> SUFFICES ASSUME frame' = <<>>, ~p.m PROVE iVideoFrameLen' = 0
      BY <1>7
    <2>1. old \in Seq(1..n) /\ all = <<>>
      BY <1>1, <1>4, <1>7, EmptySeq DEF Typed, TypeOK
    <2>2. Longer(n, old, p.nal = "none", all)
      BY <1>6, <1>10, <2>1, Joined
    <2>3. p.nal = "none" /\ old = <<>>
      <3>1. Len(all) = 0
        BY <2>1, EmptySeq
      <3> QED
        BY <2>1, <2>2, <3>1 DEF Longer
    <2>4. oldLen = 0
      BY <1>4, <1>5, <2>3 DEF Assembled
    <2> QED
      BY <1>7, <1>9, <2>3, <2>4
  <1>15. IF p.m THEN Fresh' ELSE Holds(frame, iFrameLostFlag, n + 1)'
    <2>1. CASE p.m
      BY <1>7, <2>1 DEF Fresh
    <2>2. CASE ~p.m
      <3>1. frame' = all
        BY <1>7, <2>2
      <3>2. lost /\ p.nal # "none" /\ ~Short(p) => iFrameLostFlag'
        <4>1. iVideoFrameLen' = oldLen + Grow(p)
          BY <1>7, <2>2
        <4>2. p.nal # "none" /\ ~Short(p) => iVideoFrameLen' # 0
          <5> SUFFICES ASSUME p.nal # "none", ~Short(p) PROVE iVideoFrameLen' # 0
            OBVIOUS
          <5>1. Grow(p) \in Nat /\ Grow(p) # 0 /\ oldLen \in Nat
            BY <1>9, <1>12
          <5> QED
            BY <4>1, <5>1
        <4> QED
          BY <1>7, <4>2
      <3>3. Exact(all, n + 1)' <=> Exact(frame, n + 1)'
        BY <3>1 DEF Exact
      <3>4. lost /\ handled'[n + 1].nal # "none" /\ ~Short(p)
               => iFrameLostFlag' /\ handled'[n + 1].nal # "none"
        BY <1>10, <3>2
      <3> QED
        BY <1>8, <1>19, <2>2, <3>3, <3>4 DEF Holds
    <2> QED
      BY <2>1, <2>2
  <1>16. (\A d \in DOMAIN delivered : Whole(delivered[d].parts) \/ Torn(delivered[d].end))'
    <2>1. /\ delivered \in Seq([parts : Seq(1..n), end : 1..n]) /\ Len(delivered) \in Nat
          /\ DOMAIN delivered = 1..Len(delivered)
      <3>1. delivered \in Seq([parts : Seq(1..n), end : 1..n])
        BY <1>1 DEF Typed, TypeOK
      <3> QED
        BY <3>1, LenProperties
    <2>2. ASSUME NEW d \in 1..Len(delivered), NEW e, e = delivered[d]
          PROVE  Whole(e.parts)' \/ Torn(e.end)'
      <3>1. e \in [parts : Seq(1..n), end : 1..n]
        BY <2>1, <2>2, ElementOfSeq
      <3>2. Whole(e.parts) \/ Torn(e.end)
        BY <2>1, <2>2 DEF Assembled
      <3>3. e.end \in 1..n /\ e.parts \in Seq(1..n)
        BY <3>1
      <3>4. /\ Len(e.parts) \in Nat /\ DOMAIN e.parts = 1..Len(e.parts)
            /\ \A i \in 1..Len(e.parts) : e.parts[i] \in 1..n
        BY <3>3, LenProperties, ElementOfSeq
      <3>5. \A i \in DOMAIN e.parts : handled'[e.parts[i]] = handled[e.parts[i]]
        BY <1>10, <3>4
      <3>6. 1 \in DOMAIN e.parts \/ DOMAIN e.parts = {}
        BY <3>4
      <3>7. Whole(e.parts) => Whole(e.parts)'
        BY <3>5, <3>6 DEF Whole
      <3>8. Torn(e.end) => Torn(e.end)'
        BY <1>10, <3>3
      <3> QED
        BY <3>2, <3>7, <3>8
    <2>3. CASE delivered' = delivered
      BY <2>1, <2>2, <2>3
    <2>4. CASE ~lost /\ p.m
      <3>1. PICK e : e = [parts |-> all, end |-> n + 1]
        OBVIOUS
      <3>2. delivered' = Append(delivered, e)
        BY <1>7, <2>4, <3>1
      <3>3. Torn(n + 1)' \/ Exact(all, n + 1)'
        BY <1>8, <2>4 DEF Holds
      <3>4. Exact(all, n + 1)' /\ ~Short(p) => Whole(all)'
        <4> SUFFICES ASSUME Exact(all, n + 1)', ~Short(p) PROVE Whole(all)'
          OBVIOUS
        <4>1. /\ Len(all) = p.part
              /\ \A i \in DOMAIN all : /\ handled'[all[i]].part = i
                                       /\ handled'[all[i]].frame = p.frame
                                       /\ handled'[all[i]].of = p.of
          BY <1>10 DEF Exact
        <4>2. Len(all) = p.of /\ p.of > 0 /\ Len(all) \in Nat
          BY <1>9, <2>4, <4>1
        <4>3. all # <<>> /\ 1 \in DOMAIN all
          <5>1. Longer(n, old, p.nal = "none", all) /\ p.nal # "none"
            BY <1>6, <1>9, <1>10, <1>13, <2>4, Joined
          <5>2. DOMAIN all = 1..(Len(old) + 1) /\ Len(old) \in Nat
            BY <5>1 DEF Longer
          <5> QED
            BY <5>2
        <4> QED
          BY <4>1, <4>2, <4>3 DEF Whole
      <3>5. Whole(e.parts)' \/ Torn(e.end)'
        BY <1>19, <3>1, <3>3, <3>4
      <3>6. /\ DOMAIN delivered' = 1..(Len(delivered) + 1) /\ delivered'[Len(delivered) + 1] = e
            /\ \A d \in 1..Len(delivered) : delivered'[d] = delivered[d]
        <4> DEFINE S == [parts : Seq(1..n), end : 1..n]
                   T == S \cup {e}
        <4>1. delivered \in Seq(T) /\ e \in T
          BY <2>1, SeqLarger
        <4> HIDE DEF S, T
        <4>2. /\ Append(delivered, e) \in Seq(T) /\ Len(Append(delivered, e)) = Len(delivered) + 1
              /\ Append(delivered, e)[Len(delivered) + 1] = e
              /\ \A d \in 1..Len(delivered) : Append(delivered, e)[d] = delivered[d]
          BY <4>1, AppendProperties
        <4> QED
          BY <3>2, <4>2, LenProperties
      <3>7. \A d \in DOMAIN delivered' : d \in 1..Len(delivered) \/ d = Len(delivered) + 1
        BY <2>1, <3>6
      <3> QED
        BY <2>1, <2>2, <3>5, <3>6, <3>7
    <2> QED
      BY <1>7, <2>3, <2>4
  <1>17. iFrameLostFlag' => iVideoFrameLen' # 0
    BY <1>7
  <1>18. u16OldSeq' = handled'[Len(handled')].seq
    BY <1>7, <1>10
  <1> QED
    BY <1>7, <1>10, <1>11, <1>14, <1>15, <1>16, <1>17, <1>18 DEF Assembled

LEMMA AssembledStep == Typed /\ Fits /\ Assembled /\ Typed' /\ [Next]_vars => Assembled'
  <1> SUFFICES ASSUME Typed, Fits, Assembled, Typed', [Next]_vars PROVE Assembled'
    OBVIOUS
  <1>1. CASE stream' = stream /\ UNCHANGED video
    BY <1>1 DEF video, Assembled, Fresh, Holds, Torn, Exact, Run, Gap, Seen, Whole, Pool, Counts,
                Short, HeaderLen
  <1>2. CASE Packet
    <2>1. PICK p \in Packets : /\ IF p.kind = "video" THEN VideoPacket(p) ELSE UNCHANGED video
                               /\ ~Negative(p)
      BY <1>2 DEF Packet, Breaks, Negative
    <2>2. PacketOK(p) /\ p \in Pool /\ stream' = stream
      BY <1>2, PacketsOK, PoolOK DEF Packet
    <2> QED
      BY <1>1, <2>1, <2>2, VideoAssembled
  <1>3. CASE Recv \/ Closed \/ Save \/ Break \/ Line \/ Scan \/ UNCHANGED vars
    BY <1>1, <1>3 DEF Recv, Closed, Save, Break, Line, Scan, vars, input
  <1> QED
    BY <1>2, <1>3 DEF Next

LEMMA AssembledInit == Init => Assembled
  <1> SUFFICES ASSUME Init PROVE Assembled
    OBVIOUS
  <1>1. DOMAIN handled = {} /\ DOMAIN delivered = {} /\ handled = <<>>
    BY DEF Init
  <1> QED
    BY <1>1 DEF Init, Assembled, Fresh

\* A frame is handed over whole or not at all, but behind a gap that shows in no number or
\* was seen at a packet of a type that is passed over (RtpParseH264Data), or if one of its
\* packets has no payload, whatever else is lost and whatever is taken for a packet.
THEOREM WholeFramesAlways == Spec => []WholeFrames
  <1>1. Assembled => WholeFrames
    BY DEF Assembled, Torn, WholeFrames
  <1>2. Init => Typed /\ Fits /\ Assembled
    BY TypedInit, AssembledInit
  <1>3. Typed /\ Fits /\ Assembled /\ [Next]_vars => Typed' /\ Fits' /\ Assembled'
    BY TypedStep, AssembledStep
  <1> QED
    BY <1>1, <1>2, <1>3, PTL DEF Spec

-----------------------------------------------------------------------------
(* No frame is missing *)

\* Nothing tells against the frame up to packet k.
Clear(k) == \A j \in Run(k) : ~Seen(j) /\ Fitting(j)

\* Then the frame holds all since the mark.
Built ==
    LET n == Len(handled)
    IN  n > 0 /\ ~handled[n].m /\ Clear(n) =>
            ~iFrameLostFlag /\ iVideoFrameLen = sizes[n] + Grow(handled[n])

\* A video packet keeps the frame complete, and hands it over at the mark.
LEMMA VideoBuilt ==
    ASSUME Typed, Fits, Assembled, Built, NoneMissing, Typed',
           NEW p, PacketOK(p), p.kind = "video", ~Negative(p), VideoPacket(p)
    PROVE  Built' /\ NoneMissing'
  <1>1. PICK n : n = Len(handled)
    OBVIOUS
  <1>2. PICK anew : anew = (OutOfSeq(p) \/ iVideoFrameLen + p.len > MaxFrameLen)
    OBVIOUS
  <1>3. PICK lost : lost = (iFrameLostFlag \/ anew)
    OBVIOUS
  <1>4. PICK oldLen : oldLen = IF anew THEN 0 ELSE iVideoFrameLen
    OBVIOUS
  <1>5. PICK all : delivered' = IF p.m /\ ~lost
                                THEN Append(delivered, [parts |-> all, end |-> n + 1]) ELSE delivered
    BY <1>1, <1>2, <1>3 DEF VideoPacket, RtpParseH264Data
  <1>6. /\ iVideoFrameLen' = (IF p.m THEN 0 ELSE oldLen + Grow(p))
        /\ iFrameLostFlag' = (lost /\ iVideoFrameLen' # 0)
        /\ handled' = Append(handled, p) /\ sizes' = Append(sizes, Size)
    BY <1>2, <1>3, <1>4 DEF VideoPacket, RtpParseH264Data
  <1>7. p \in Video /\ p.len \in Nat /\ Grow(p) \in Nat /\ p.m \in BOOLEAN /\ p.seq \in Int
    BY GrowFits, Sizes DEF Video
  <1>8. /\ n \in Nat /\ Len(handled') = n + 1 /\ DOMAIN handled' = 1..(n + 1)
        /\ handled'[n + 1] = p
        /\ \A k \in 1..n : /\ handled'[k] = handled[k]
                           /\ Run(k)' = Run(k) /\ (Seen(k)' <=> Seen(k))
        /\ n > 0 /\ ~handled[n].m => Run(n) \subseteq Run(n + 1)'
    BY <1>1, <1>6, <1>7, Before
  <1>9. Size \in Int /\ sizes'[n + 1] = Size /\ \A k \in 1..n : sizes'[k] = sizes[k]
    BY <1>1, <1>6, <1>7, SizesLonger
  <1>10. ASSUME NEW k \in 1..n PROVE Run(k) \subseteq 1..n /\ (Clear(k)' <=> Clear(k))
    <2>1. Run(k) \subseteq 1..n
      BY <1>8 DEF Run
    <2>2. \A j \in 1..n : (Seen(j)' <=> Seen(j)) /\ (Fitting(j)' <=> Fitting(j))
      BY <1>8, <1>9 DEF Fitting
    <2> QED
      BY <1>8, <2>1, <2>2 DEF Clear
  <1>11. ASSUME Clear(n + 1)' PROVE ~lost /\ oldLen = Size
    <2>1. ~Seen(n + 1)' /\ Size + p.len <= MaxFrameLen
      <3>1. n + 1 \in Run(n + 1)'
        BY <1>8 DEF Run
      <3> QED
        BY <1>8, <1>9, <1>11, <3>1 DEF Clear, Fitting
    <2>2. ~iFrameLostFlag /\ iVideoFrameLen = Size
      <3>1. CASE n = 0 \/ handled[n].m
        <4>1. Fresh
          BY <1>1, <3>1, HandledFacts DEF Assembled
        <4> QED
          BY <1>1, <3>1, <4>1 DEF Fresh, Size
      <3>2. CASE ~(n = 0 \/ handled[n].m)
        <4>1. n > 0 /\ n \in 1..n
          BY <1>8, <3>2
        <4>2. Clear(n)
          <5>1. Run(n) \subseteq Run(n + 1)' /\ Run(n)' = Run(n)
            BY <1>8, <3>2, <4>1
          <5>2. Clear(n)'
            BY <1>11, <5>1 DEF Clear
          <5> QED
            BY <1>10, <4>1, <5>2
        <4> QED
          BY <1>1, <3>2, <4>1, <4>2 DEF Built, Size
      <3> QED
        BY <3>1, <3>2
    <2>3. ~OutOfSeq(p)
      <3>1. CASE n = 0
        <4>1. u16OldSeq = 0
          BY <1>1, <3>1, HandledFacts DEF Assembled
        <4> QED
          BY <4>1 DEF OutOfSeq
      <3>2. CASE n # 0
        <4>1. n + 1 > 1 /\ (n + 1) - 1 = n /\ n \in 1..n
          BY <1>8, <3>2
        <4>2. u16OldSeq = handled[n].seq
          BY <1>1, <3>2, HandledFacts DEF Assembled
        <4>3. handled'[n].seq = 0 \/ p.seq = handled'[n].seq + 1
          BY <1>8, <2>1, <4>1 DEF Seen
        <4> QED
          BY <1>8, <4>1, <4>2, <4>3 DEF OutOfSeq
      <3> QED
        BY <3>1, <3>2
    <2>4. ~(iVideoFrameLen + p.len > MaxFrameLen)
      BY <1>7, <1>9, <2>1, <2>2, Sizes
    <2> QED
      BY <1>2, <1>3, <1>4, <2>2, <2>3, <2>4
  <1>12. Built'
    <2> SUFFICES ASSUME ~p.m, Clear(n + 1)'
                 PROVE  ~iFrameLostFlag' /\ iVideoFrameLen' = sizes'[n + 1] + Grow(p)
      BY <1>8 DEF Built, Grow
    <2> QED
      BY <1>6, <1>9, <1>11
  <1>13. NoneMissing'
    <2>1. /\ Len(delivered) \in Nat /\ DOMAIN delivered = 1..Len(delivered)
          /\ delivered \in Seq([parts : Seq(1..n), end : 1..n])
      BY <1>1, LenProperties DEF Typed, TypeOK
    <2>2. /\ DOMAIN delivered \subseteq DOMAIN delivered'
          /\ \A d \in DOMAIN delivered : delivered'[d] = delivered[d]
          /\ p.m /\ ~lost => \E d \in DOMAIN delivered' : delivered'[d].end = n + 1
      <3>1. CASE p.m /\ ~lost
        <4>1. PICK e : e = [parts |-> all, end |-> n + 1]
          OBVIOUS
        <4> DEFINE S == [parts : Seq(1..n), end : 1..n]
                   T == S \cup {e}
        <4>2. delivered \in Seq(T) /\ e \in T /\ delivered' = Append(delivered, e)
          BY <1>5, <2>1, <3>1, <4>1, SeqLarger
        <4> HIDE DEF S, T
        <4>3. /\ delivered' \in Seq(T) /\ Len(delivered') = Len(delivered) + 1
              /\ delivered'[Len(delivered) + 1] = e
              /\ \A d \in 1..Len(delivered) : delivered'[d] = delivered[d]
          BY <4>2, AppendProperties
        <4>4. DOMAIN delivered' = 1..(Len(delivered) + 1)
          BY <4>3, LenProperties
        <4>5. Len(delivered) + 1 \in DOMAIN delivered' /\ e.end = n + 1
          BY <2>1, <4>1, <4>4
        <4> QED
          BY <2>1, <4>3, <4>4, <4>5
      <3>2. CASE ~(p.m /\ ~lost)
        BY <1>5, <3>2
      <3> QED
        BY <3>1, <3>2
    <2>3. ASSUME NEW k \in 1..(n + 1), handled'[k].m, Clear(k)'
          PROVE  \E d \in DOMAIN delivered' : delivered'[d].end = k
      <3>1. CASE k = n + 1
        BY <1>8, <1>11, <2>2, <2>3, <3>1
      <3>2. CASE k # n + 1
        <4>1. k \in 1..n
          BY <1>8, <3>2
        <4>2. handled[k].m /\ Clear(k) /\ k \in DOMAIN handled
          BY <1>1, <1>8, <1>10, <2>3, <4>1, HandledFacts
        <4>3. PICK d \in DOMAIN delivered : delivered[d].end = k
          BY <4>2 DEF NoneMissing, Clear
        <4> QED
          BY <2>2, <4>3
      <3> QED
        BY <3>1, <3>2
    <2> QED
      BY <1>8, <2>3 DEF NoneMissing, Clear
  <1> QED
    BY <1>12, <1>13

\* Every step keeps the frame complete and the complete frames handed over.
LEMMA BuiltStep ==
    Typed /\ Fits /\ Assembled /\ Built /\ NoneMissing /\ Typed' /\ [Next]_vars
        => Built' /\ NoneMissing'
  <1> SUFFICES ASSUME Typed, Fits, Assembled, Built, NoneMissing, Typed', [Next]_vars
               PROVE  Built' /\ NoneMissing'
    OBVIOUS
  <1>1. CASE UNCHANGED video
    BY <1>1 DEF video, Built, NoneMissing, Clear, Run, Seen, Fitting
  <1>2. CASE Packet
    <2>1. PICK p \in Packets : /\ IF p.kind = "video" THEN VideoPacket(p) ELSE UNCHANGED video
                               /\ ~Negative(p)
      BY <1>2 DEF Packet, Breaks, Negative
    <2>2. PacketOK(p)
      BY <1>2, PacketsOK DEF Packet
    <2> QED
      BY <1>1, <2>1, <2>2, VideoBuilt
  <1>3. CASE Recv \/ Closed \/ Save \/ Break \/ Line \/ Scan \/ UNCHANGED vars
    BY <1>1, <1>3 DEF Recv, Closed, Save, Break, Line, Scan, vars
  <1> QED
    BY <1>2, <1>3 DEF Next

\* A frame is handed over unless its numbers show a gap or it is too long (RtspRecvThread,
\* RtpParseH264Data), whatever was lost or dropped before it.
THEOREM NoneMissingAlways == Spec => []NoneMissing
  <1>1. Init => Typed /\ Fits /\ Assembled /\ Built /\ NoneMissing
    <2>1. Init => Built /\ NoneMissing
      BY DEF Init, Built, NoneMissing
    <2> QED
      BY <2>1, TypedInit, AssembledInit
  <1>2. Typed /\ Fits /\ Assembled /\ Built /\ NoneMissing /\ [Next]_vars
          => (Typed /\ Fits /\ Assembled /\ Built /\ NoneMissing)'
    BY TypedStep, AssembledStep, BuiltStep
  <1> QED
    BY <1>1, <1>2, PTL DEF Spec
=============================================================================
