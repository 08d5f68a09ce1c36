---------------------------- MODULE MCRtpStream ----------------------------
EXTENDS RtpStream, SequencesExt

CONSTANTS FakeLens

\* A stream of what follows one another on the connection.
BytesOf(what, pay) ==
    CASE what \in Text -> pay
      [] OTHER -> <<"$", "ch", "x", "x">> \o pay
Build(list) ==
    LET bytes == [i \in DOMAIN list |-> BytesOf(list[i].what, list[i].pay)]
    IN  [bytes |-> FlattenSeq(bytes),
         units |-> [i \in DOMAIN list |->
                      [at |-> Len(FlattenSeq(SubSeq(bytes, 1, i - 1))), what |-> list[i].what]]]

X(n) == [i \in 1..n |-> "x"]
CrLf == <<"cr", "lf">>
Text1(b) == [what |-> [kind |-> "text", len |-> Len(b)], pay |-> b]
Other1(k, n) == [what |-> [kind |-> k, len |-> n], pay |-> X(n)]

\* A video packet without payload; what it is lies behind it.
Bare(n, t, b) ==
    [what |-> [kind |-> "video", len |-> n, nr |-> 3, seq |-> 3, m |-> b, nal |-> t,
               frame |-> 0, part |-> 0, of |-> 0], pay |-> X(n)]

\* What may come between video packets: RTCP, two answers, a packet that does not fit into the
\* buffer, RTCP without a sender report, another packet that is shorter than its header, and
\* video packets that are empty, have no payload, or not all of their headers.
Between == <<Other1("rtcp", 2), Text1(X(5) \o CrLf \o CrLf), Text1(X(3) \o CrLf \o X(4) \o CrLf \o CrLf),
             Other1("rtcp", BufLen), Other1("rtcp", 0), Other1("other", 0), Bare(0, "none", FALSE),
             Bare(2, "whole", TRUE), Bare(1, "none", TRUE), Bare(2, "start", FALSE)>>

\* A packet of a frame: the nal of each of its packets in order, the last one marked.
Packs(frames, first) ==
    LET nals == FlattenSeq(frames)
        before(f) == Len(FlattenSeq(SubSeq(frames, 1, f - 1)))
        f(k) == CHOOSE f \in DOMAIN frames : before(f) < k /\ k <= before(f) + Len(frames[f])
        parts(g) == SelectSeq(frames[g], LAMBDA x : x # "none")
        part(g, k) == Len(SelectSeq(SubSeq(frames[g], 1, k - before(g)), LAMBDA x : x # "none"))
    IN  [k \in DOMAIN nals |->
           [kind |-> "video", len |-> 4, nr |-> first + k, seq |-> (first + k) % SeqSize,
            m |-> (k = before(f(k)) + Len(frames[f(k)])), nal |-> nals[k],
            frame |-> f(k), part |-> part(f(k), k), of |-> Len(parts(f(k)))]]

\* Three frames, with a type of packet that is passed over, and with a frame that is too long.
Fragments == <<"start", "more">>
Shapes == <<<<Fragments, <<"whole">>, Fragments>>,
            <<<<"whole", "whole">>, <<"none", "whole">>, Fragments>>,
            <<<<"whole">>, <<"whole", "whole">> \o Fragments>>>>

\* Bytes in a packet that look like the head of one.
Pays == <<X(4), <<"x", "$", "ch", "x">>>>

\* The packets of the k.shape-th train of frames but those that are lost, with something
\* else before the k.n-th that is left.
Sent(k) ==
    LET ps == Packs(Shapes[k.shape], k.first)
        left == SelectSeq(ps, LAMBDA p : p.nr - ps[1].nr \notin k.lost)
        all == [i \in DOMAIN left |-> [what |-> left[i], pay |-> Pays[k.pay]]]
    IN  Build(IF k.n \in DOMAIN all THEN InsertAt(all, k.n, Between[k.other]) ELSE all)

Cameras ==
    \* packets are lost, at every place of the round of the numbers
    [shape : 1..3, first : 1..SeqSize, lost : SUBSET (0..4), n : {2}, other : {1}, pay : {1}]
    \cup \* answers are cut
    [shape : 1..2, first : {1, SeqSize}, lost : {{}, {1}, {2}}, n : 1..4, other : 2..3, pay : 1..2]
    \cup
    [shape : {1}, first : {1}, lost : {{}}, n : {2}, other : {4}, pay : {1}]
    \cup \* a packet is shorter than its headers; behind it come others that are whole
    [shape : {1}, first : {1}, lost : {{}}, n : {2}, other : 8..10, pay : {1}]
    \cup
    [shape : {1}, first : {1}, lost : {{}}, n : {4, 5}, other : 5..7, pay : {1}]
MCStreams == {Sent(k) : k \in Cameras}

MCFakes == {[kind |-> "other", len |-> n] : n \in FakeLens} \cup
           {[kind |-> "video", len |-> 4, nr |-> 0, seq |-> q, m |-> b, nal |-> "more",
             frame |-> 0, part |-> 2, of |-> 2] : q \in {0, 2}, b \in BOOLEAN}
=============================================================================
