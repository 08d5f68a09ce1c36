--------------------------- MODULE PmsgConn_proofs ---------------------------
(***************************************************************************)
(* Proofs about the connection thread (module PmsgConn): its type          *)
(* invariant, the inductive invariant Inv, and the safety properties that  *)
(* follow, for any set of messages, any body lengths and any bounds.       *)
(***************************************************************************)
EXTENDS PmsgConn, TLAPS

-----------------------------------------------------------------------------
(* Facts about the stream of bytes *)

\* A message on the wire has a command, a length and its place in its body.
LEMMA FrameType ==
    ASSUME NEW k \in Nat, NEW m \in Msg
    PROVE  /\ Total(m) \in Nat /\ Total(m) > HdrLen
           /\ FrameBytes(k, m) \in Seq(Byte)
           /\ Len(FrameBytes(k, m)) = Total(m)
           /\ \A i \in 1..Total(m) : FrameBytes(k, m)[i] = [k |-> k, o |-> i - 1]
<1>1. BodyLen[m] \in Nat /\ BodyLen[m] > 0
  BY ConnAssumption
<1>2. Total(m) \in Nat /\ Total(m) > HdrLen
  BY <1>1 DEF Total, HdrLen
<1>3. \A i \in 1..Total(m) : [k |-> k, o |-> i - 1] \in Byte
  BY <1>2 DEF Byte
<1>4. FrameBytes(k, m) \in [1..Total(m) -> Byte]
  BY <1>2, <1>3 DEF FrameBytes
<1>5. FrameBytes(k, m) \in Seq(Byte) /\ Len(FrameBytes(k, m)) = Total(m)
  <2> DEFINE b == FrameBytes(k, m)
  <2>1. b \in [1..Total(m) -> Byte]
    BY <1>4
  <2> HIDE DEF b
  <2>2. b \in Seq(Byte) /\ Len(b) = Total(m)
    BY <1>2, <2>1
  <2> QED
    BY <2>2 DEF b
<1> QED
  BY <1>2, <1>5 DEF FrameBytes

\* What is left of a stream after a read is a stream.
LEMMA StreamRest ==
    ASSUME NEW w \in Seq(Byte), NEW f \in Seq(Msg), Stream(w, f), NEW n \in 0..Len(w)
    PROVE  /\ SubSeq(w, n + 1, Len(w)) \in Seq(Byte)
           /\ Len(SubSeq(w, n + 1, Len(w))) = Len(w) - n
           /\ \A i \in 1..(Len(w) - n) : SubSeq(w, n + 1, Len(w))[i] = w[n + i]
           /\ Stream(SubSeq(w, n + 1, Len(w)), f)
<1> DEFINE r == SubSeq(w, n + 1, Len(w))
<1>1. Len(r) = Len(w) - n /\ r \in Seq(Byte)
  OBVIOUS
<1>2. \A i \in 1..Len(r) : r[i] = w[n + i]
  OBVIOUS
<1>3. \A i \in 1..Len(r) : r[i].k \in 1..Len(f) /\ r[i].o \in 0..(Total(f[r[i].k]) - 1)
  <2> SUFFICES ASSUME NEW i \in 1..Len(r)
               PROVE  r[i].k \in 1..Len(f) /\ r[i].o \in 0..(Total(f[r[i].k]) - 1)
    OBVIOUS
  <2>1. n + i \in 1..Len(w)
    BY <1>1
  <2> QED
    BY <1>2, <2>1 DEF Stream, InFrames
<1>4. ASSUME NEW i \in 1..Len(r), NEW j \in 1..Len(r), i <= j
      PROVE  /\ r[i].o + (j - i) < Total(f[r[i].k]) =>
                    r[j] = [k |-> r[i].k, o |-> r[i].o + (j - i)]
             /\ r[i].o + (j - i) = Total(f[r[i].k]) =>
                    r[j] = [k |-> r[i].k + 1, o |-> 0]
  <2>1. n + i \in 1..Len(w) /\ n + j \in 1..Len(w) /\ n + i <= n + j
        /\ (n + j) - (n + i) = j - i
    BY <1>1, <1>4
  <2>2. r[i] = w[n + i] /\ r[j] = w[n + j]
    BY <1>2
  <2> HIDE DEF r
  <2> QED
    BY <2>1, <2>2 DEF Stream, NoGap
<1> HIDE DEF r
<1>5. Stream(r, f)
  BY <1>3, <1>4 DEF Stream, InFrames, NoGap
<1> QED
  BY <1>1, <1>2, <1>5 DEF r

\* So is what is left when the end of a stream is cut off.
LEMMA StreamCut ==
    ASSUME NEW w \in Seq(Byte), NEW f \in Seq(Msg), Stream(w, f), NEW n \in 0..Len(w)
    PROVE  /\ SubSeq(w, 1, n) \in Seq(Byte)
           /\ Len(SubSeq(w, 1, n)) = n
           /\ \A i \in 1..n : SubSeq(w, 1, n)[i] = w[i]
           /\ Stream(SubSeq(w, 1, n), f)
<1> DEFINE r == SubSeq(w, 1, n)
<1>1. Len(r) = n /\ r \in Seq(Byte) /\ \A i \in 1..n : r[i] = w[i] /\ i \in 1..Len(w)
  OBVIOUS
<1> HIDE DEF r
<1>2. InFrames(r, f)
  BY <1>1 DEF Stream, InFrames
<1>3. NoGap(r, f)
  <2> SUFFICES ASSUME NEW i \in 1..Len(r), NEW j \in 1..Len(r), i <= j
               PROVE  /\ r[i].o + (j - i) < Total(f[r[i].k]) =>
                             r[j] = [k |-> r[i].k, o |-> r[i].o + (j - i)]
                      /\ r[i].o + (j - i) = Total(f[r[i].k]) =>
                             r[j] = [k |-> r[i].k + 1, o |-> 0]
    BY DEF NoGap
  <2>1. i \in 1..Len(w) /\ j \in 1..Len(w) /\ r[i] = w[i] /\ r[j] = w[j]
    BY <1>1
  <2> QED
    BY <2>1 DEF Stream, NoGap
<1> QED
  BY <1>1, <1>2, <1>3 DEF r, Stream

\* Indexes of a concatenation.
LEMMA Concat ==
    ASSUME NEW S, NEW u \in Seq(S), NEW v \in Seq(S)
    PROVE  /\ u \o v \in Seq(S)
           /\ Len(u \o v) = Len(u) + Len(v)
           /\ \A i \in 1..Len(u) : (u \o v)[i] = u[i] /\ u[i] \in S
           /\ \A i \in 1..Len(v) : (u \o v)[Len(u) + i] = v[i]
OBVIOUS

\* A stream whose last byte ends message Len(f) goes on with message Len(f) + 1.
LEMMA StreamMore ==
    ASSUME NEW w \in Seq(Byte), NEW f \in Seq(Msg), NEW m \in Msg, Stream(w, f),
           w # <<>> => w[Len(w)] = [k |-> Len(f), o |-> Total(f[Len(f)]) - 1]
    PROVE  LET g == Append(f, m)
               x == w \o FrameBytes(Len(f) + 1, m)
           IN  /\ x \in Seq(Byte)
               /\ Stream(x, g)
               /\ x # <<>>
               /\ x[Len(x)] = [k |-> Len(g), o |-> Total(g[Len(g)]) - 1]
               /\ x[1] = IF w = <<>> THEN [k |-> Len(f) + 1, o |-> 0] ELSE w[1]
<1> DEFINE g == Append(f, m)
           b == FrameBytes(Len(f) + 1, m)
           x == w \o b
           L == Len(w)
           K == Len(f)
           T == Total(m)
           t == [k \in 1..(K + 1) |-> Total(g[k])]
<1>1. L \in Nat /\ K \in Nat /\ K + 1 \in Nat /\ (L = 0 <=> w = <<>>)
  OBVIOUS
<1>2. /\ g \in Seq(Msg) /\ Len(g) = K + 1 /\ g[K + 1] = m
      /\ \A k \in 1..K : g[k] = f[k] /\ f[k] \in Msg
  OBVIOUS
<1>3. T \in Nat /\ T > HdrLen
  BY <1>1, FrameType
<1>4. b \in Seq(Byte) /\ Len(b) = T /\ \A i \in 1..T : b[i] = [k |-> K + 1, o |-> i - 1]
  BY <1>1, FrameType
<1>5. T > 0
  BY <1>3 DEF HdrLen
<1> HIDE DEF g, b, T
<1>6. /\ x \in Seq(Byte) /\ Len(x) = L + T
      /\ \A i \in 1..L : x[i] = w[i] /\ w[i] \in Byte
      /\ \A i \in 1..T : x[L + i] = b[i]
  <2>1. /\ w \o b \in Seq(Byte)
        /\ Len(w \o b) = Len(w) + Len(b)
        /\ \A i \in 1..Len(w) : (w \o b)[i] = w[i] /\ w[i] \in Byte
        /\ \A i \in 1..Len(b) : (w \o b)[Len(w) + i] = b[i]
    <3>1. w \in Seq(Byte) /\ b \in Seq(Byte)
      BY <1>4
    <3> QED
      BY <3>1, Concat
  <2> QED
    BY <1>4, <2>1
<1>7. \A i \in 1..T : x[L + i] = [k |-> K + 1, o |-> i - 1]
  BY <1>4, <1>6
<1> HIDE DEF x
<1>8. /\ \A k \in 1..K : t[k] = Total(f[k]) /\ t[k] \in Nat
      /\ \A k \in 1..Len(g) : t[k] = Total(g[k])
      /\ t[K + 1] = T
  <2>1. \A k \in 1..(K + 1) : g[k] \in Msg
    BY <1>1, <1>2
  <2>2. \A n \in Msg : Total(n) \in Nat
    BY ConnAssumption DEF Total, HdrLen
  <2>3. K + 1 \in 1..(K + 1) /\ \A k \in 1..K : k \in 1..(K + 1)
    BY <1>1
  <2> HIDE DEF K, L
  <2> QED
    BY <1>2, <2>1, <2>2, <2>3 DEF T
<1> HIDE DEF t
<1>9. \A i \in 1..L : x[i] \in Byte /\ x[i].k \in 1..K /\ x[i].o < t[x[i].k]
  <2> SUFFICES ASSUME NEW i \in 1..L
               PROVE  x[i] \in Byte /\ x[i].k \in 1..K /\ x[i].o < t[x[i].k]
    OBVIOUS
  <2>1. w[i].k \in 1..K /\ w[i].o \in 0..(Total(f[w[i].k]) - 1)
    BY DEF Stream, InFrames
  <2>2. t[w[i].k] = Total(f[w[i].k]) /\ t[w[i].k] \in Nat
    BY <1>8, <2>1
  <2> QED
    BY <1>6, <2>1, <2>2
<1>10. L > 0 => x[L] = [k |-> K, o |-> t[K] - 1]
  <2> SUFFICES ASSUME L > 0
               PROVE  x[L] = [k |-> K, o |-> t[K] - 1]
    OBVIOUS
  <2>1. L \in 1..L /\ w # <<>>
    BY <1>1
  <2>2. x[L] = w[L]
    BY <1>6, <2>1
  <2>3. w[L] = [k |-> K, o |-> Total(f[K]) - 1]
    BY <2>1
  <2>4. K \in 1..K
    BY <1>1, <1>9, <2>1
  <2> QED
    BY <1>8, <2>2, <2>3, <2>4
<1>11. ASSUME NEW i \in 1..L, NEW j \in 1..L, i <= j
       PROVE  /\ x[i].o + (j - i) < t[x[i].k] => x[j] = [k |-> x[i].k, o |-> x[i].o + (j - i)]
              /\ x[i].o + (j - i) = t[x[i].k] => x[j] = [k |-> x[i].k + 1, o |-> 0]
  <2>1. x[i] = w[i] /\ x[j] = w[j] /\ t[w[i].k] = Total(f[w[i].k])
    BY <1>6, <1>8, <1>9
  <2> QED
    BY <1>11, <2>1 DEF Stream, NoGap
<1> HIDE DEF L, K
<1>12. ASSUME NEW i \in 1..(L + T), i > L
       PROVE  x[i] = [k |-> K + 1, o |-> i - L - 1] /\ i - L \in 1..T
  <2>1. i - L \in 1..T /\ L + (i - L) = i
    BY <1>1, <1>3, <1>12
  <2> QED
    BY <2>1, <1>7
<1>13. ASSUME NEW i \in 1..(L + T), NEW j \in 1..(L + T), i <= j
       PROVE  /\ x[i].o + (j - i) < t[x[i].k] => x[j] = [k |-> x[i].k, o |-> x[i].o + (j - i)]
              /\ x[i].o + (j - i) = t[x[i].k] => x[j] = [k |-> x[i].k + 1, o |-> 0]
  <2>0. i \in Nat /\ j \in Nat
    BY <1>1, <1>3
  <2>1. CASE j <= L
    <3>1. i \in 1..L /\ j \in 1..L
      BY <1>1, <1>13, <2>0, <2>1
    <3> QED
      BY <1>11, <1>13, <3>1
  <2>2. CASE i > L
    <3>0. j > L
      BY <1>1, <1>13, <2>0, <2>2
    <3>1. x[i] = [k |-> K + 1, o |-> i - L - 1] /\ x[j] = [k |-> K + 1, o |-> j - L - 1]
      <4>1. x[i] = [k |-> K + 1, o |-> i - L - 1]
        BY <1>12, <2>2
      <4>2. x[j] = [k |-> K + 1, o |-> j - L - 1]
        BY <1>12, <3>0
      <4> QED
        BY <4>1, <4>2
    <3>2. (i - L - 1) + (j - i) = j - L - 1 /\ j - L - 1 < T
      BY <1>1, <1>3, <2>0
    <3>3. x[i].k = K + 1 /\ x[i].o + (j - i) = j - L - 1 /\ t[x[i].k] = T
      BY <1>8, <3>1, <3>2
    <3> QED
      BY <1>1, <1>3, <2>0, <3>1, <3>2, <3>3
  <2>3. CASE i <= L /\ j > L
    <3> DEFINE u == t[x[i].k]
               o == x[i].o
    <3>1. i \in 1..L /\ L \in 1..L /\ L > 0 /\ i <= L
      BY <1>1, <2>0, <2>3
    <3>2. x[i].k \in 1..K /\ u \in Nat /\ o \in Nat /\ o < u
      BY <1>8, <1>9, <3>1 DEF Byte
    <3>3. x[L] = [k |-> K, o |-> t[K] - 1]
      BY <1>10, <3>1
    <3>4. o + (L - i) < u => x[L] = [k |-> x[i].k, o |-> o + (L - i)]
      BY <1>11, <3>1
    <3>5. o + (L - i) < u => x[i].k = K /\ o + (L - i) = u - 1
      BY <3>3, <3>4
    <3>6. x[j] = [k |-> K + 1, o |-> j - L - 1]
      BY <1>12, <2>3
    <3> HIDE DEF u, o
    <3>7. o + (j - i) <= u => x[i].k = K /\ o + (j - i) = u /\ j = L + 1
      BY <1>1, <2>0, <2>3, <3>1, <3>2, <3>5
    <3>8. /\ ~(o + (j - i) < u)
          /\ o + (j - i) = u => x[j] = [k |-> x[i].k + 1, o |-> 0]
      BY <1>1, <2>0, <3>2, <3>6, <3>7
    <3> QED
      BY <3>8 DEF u, o
  <2> QED
    BY <1>1, <2>0, <2>1, <2>2, <2>3
<1>14. \A i \in 1..Len(x) : x[i].k \in 1..Len(g) /\ x[i].o \in 0..(t[x[i].k] - 1)
  <2> SUFFICES ASSUME NEW i \in 1..(L + T)
               PROVE  x[i].k \in 1..(K + 1) /\ x[i].o \in 0..(t[x[i].k] - 1)
    BY <1>2, <1>6
  <2>1. CASE i <= L
    <3>1. i \in 1..L
      BY <1>1, <2>1
    <3>2. x[i] \in Byte /\ x[i].k \in 1..K /\ x[i].o < t[x[i].k] /\ t[x[i].k] \in Nat
      BY <1>8, <1>9, <3>1
    <3> QED
      BY <1>1, <3>2 DEF Byte
  <2>2. CASE i > L
    <3>1. x[i] = [k |-> K + 1, o |-> i - L - 1] /\ i - L \in 1..T
      BY <1>12, <2>2
    <3> QED
      BY <1>1, <1>3, <1>8, <3>1
  <2> QED
    BY <1>1, <2>1, <2>2
<1>15. Stream(x, g)
  <2>1. \A i \in 1..Len(x) : t[x[i].k] = Total(g[x[i].k])
    BY <1>8, <1>14
  <2>2. InFrames(x, g)
    BY <1>14, <2>1 DEF InFrames
  <2>3. NoGap(x, g)
    BY <1>6, <1>13, <2>1 DEF NoGap
  <2> QED
    BY <2>2, <2>3 DEF Stream
<1>16. 1 \in 1..T /\ T \in 1..T /\ Len(x) > 0
  BY <1>1, <1>3, <1>5, <1>6
<1>17. x[Len(x)] = [k |-> Len(g), o |-> Total(g[Len(g)]) - 1]
  <2>1. x[L + T] = [k |-> K + 1, o |-> T - 1]
    BY <1>7, <1>16
  <2>2. Total(g[Len(g)]) = T
    BY <1>2 DEF T
  <2> QED
    BY <1>2, <1>6, <2>1, <2>2
<1>18. x[1] = IF w = <<>> THEN [k |-> K + 1, o |-> 0] ELSE w[1]
  <2>1. CASE w = <<>>
    <3>1. L + 1 = 1
      BY <1>1, <2>1
    <3>2. x[L + 1] = [k |-> K + 1, o |-> 1 - 1]
      BY <1>7, <1>16
    <3> QED
      BY <2>1, <3>1, <3>2
  <2>2. CASE w # <<>>
    <3>1. 1 \in 1..L
      BY <1>1, <2>2
    <3> QED
      BY <1>6, <2>2, <3>1
  <2> QED
    BY <2>1, <2>2
<1>19. x # <<>>
  BY <1>6, <1>16
<1> QED
  BY <1>6, <1>15, <1>17, <1>18, <1>19 DEF x, g, b, K

\* With nothing sent and nothing on the wire the stream is in order.
LEMMA EmptyStream ==
    ASSUME NEW f \in Seq(Msg)
    PROVE  <<>> \in Seq(Byte) /\ Len(<<>>) = 0 /\ Stream(<<>>, f)
BY DEF Stream, InFrames, NoGap

-----------------------------------------------------------------------------
(* The inductive invariant: types first, then one lemma for each part of it *)

\* What is noted of a callback is a notice.
LEMMA NoticeType ==
    ASSUME NEW kind \in {"NONE", "ONLINE", "OFFLINE", "MSG"}, NEW c \in Nat
    PROVE  Notice(kind, c) \in Callback
<1>1. <<>> \in Seq(Byte) /\ NoCmd \in Cmd
  BY DEF NoCmd, Cmd
<1> QED
  BY <1>1 DEF Notice, Callback

\* The invariant holds at the start.
LEMMA InitInv == Init => Inv
<1> SUFFICES ASSUME Init PROVE Inv
  OBVIOUS
<1>1. <<>> \in Seq(Byte) /\ <<>> \in Seq(Msg) /\ Stream(<<>>, <<>>) /\ NoCmd \in Cmd
  <2>1. <<>> \in Seq(Byte) /\ <<>> \in Seq(Msg)
    OBVIOUS
  <2> QED
    BY <2>1, EmptyStream DEF NoCmd, Cmd
<1>2. Notice("NONE", 0) \in Callback /\ Notice("NONE", 0).kind = "NONE"
  BY NoticeType DEF Notice
<1>3. TypeOK
  BY <1>1, <1>2 DEF Init, TypeOK
<1>4. Connection
  BY <1>2 DEF Init, Connection
<1>5. Stream(wire, frames) /\ Flushed /\ InStep /\ BufferOffset /\ WholeInOrder
  BY <1>1, <1>2 DEF Init, Flushed, InStep, BufferOffset, WholeInOrder
<1> QED
  BY <1>3, <1>4, <1>5 DEF Inv

\* A step that gives the connection up, or leaves the thread.
Hangup ==
    /\ socket' = 0
    /\ peerOpen' = FALSE
    /\ wire' = <<>>
    /\ cb' = Notice("OFFLINE", conn) \/ (cb' = cb /\ socket = 0)
    /\ UNCHANGED <<parse, conn, frames, seen, torn>>

\* A step that moves no byte and calls back nothing.
Quiet == UNCHANGED <<socket, parse, net, cb, seen, torn>>

\* A step changes the connection, reads a head or a body, or is the NVR's.
LEMMA StepKinds ==
    ASSUME TypeOK, Next
    PROVE  \/ ConnectOk
           \/ ConnectFail
           \/ Hangup
           \/ Quiet
           \/ RecvHead
           \/ \E n \in 1..Len(wire) : RecvBody(n)
           \/ \E m \in Msg : NvrSend(m)
           \/ \E n \in 0..Len(wire) : NvrClose(n)
<1>1. CASE Thread
  <2>1. CASE SelectTimeout \/ HeartPass
    BY <2>1 DEF SelectTimeout, HeartPass, Quiet
  <2>2. Disconnect => Hangup
    BY DEF Disconnect, Hangup
  <2>3. CASE RecvFail \/ RecvBadMagic \/ HeartFail \/ \E n \in 1..Len(wire) : RecvTooShort(n)
    BY <2>2, <2>3 DEF RecvFail, RecvBadMagic, HeartFail, RecvTooShort
  <2>4. CASE Exit
    <3>1. socket > 0 => cb' = Notice("OFFLINE", conn)
      BY <2>4 DEF Exit
    <3> QED
      BY <2>4, <3>1 DEF Exit, Hangup, TypeOK
  <2> QED
    BY <1>1, <2>1, <2>3, <2>4 DEF Thread
<1>2. CASE DestroyConnect
  BY <1>2 DEF DestroyConnect, Quiet
<1> QED
  BY <1>1, <1>2 DEF Next, Env

\* Steps that read nothing leave parser and stream as they were, or empty the stream.
LEMMA ControlStep ==
    ASSUME Inv, Next
    PROVE  /\ run' \in BOOLEAN
           /\ pc' \in {"top", "beat", "done"}
           /\ iConnectStatus' \in {"CONNECT", "UNCONNECT"}
           /\ pc' = "beat" => socket' > 0
           /\ pc' = "done" => socket' = 0 /\ ~run'
           /\ pc' # "done" => (iConnectStatus' = "CONNECT" <=> socket' > 0)
<1> USE DEF Inv, TypeOK, Connection, parse, net
<1>1. CASE ConnectOk
  BY <1>1 DEF ConnectOk
<1>2. CASE ConnectFail
  BY <1>2 DEF ConnectFail
<1>3. CASE SelectTimeout
  BY <1>3 DEF SelectTimeout, Polling
<1>4. ASSUME Disconnect, pc' = "top"
      PROVE  /\ run' \in BOOLEAN /\ socket' = 0 /\ iConnectStatus' = "UNCONNECT"
  BY <1>4 DEF Disconnect
<1>5. CASE RecvFail \/ RecvBadMagic \/ HeartFail
  BY <1>4, <1>5 DEF RecvFail, RecvBadMagic, HeartFail
<1>6. CASE RecvHead
  BY <1>6 DEF RecvHead, Receive, Polling
<1>7. ASSUME NEW n \in 1..Len(wire), RecvTooShort(n) \/ RecvBody(n)
      PROVE  /\ run' \in BOOLEAN
             /\ pc' \in {"top", "beat", "done"}
             /\ iConnectStatus' \in {"CONNECT", "UNCONNECT"}
             /\ pc' = "beat" => socket' > 0
             /\ pc' = "done" => socket' = 0 /\ ~run'
             /\ pc' # "done" => (iConnectStatus' = "CONNECT" <=> socket' > 0)
  <2>1. CASE RecvTooShort(n)
    BY <1>4, <2>1 DEF RecvTooShort
  <2>2. CASE RecvBody(n)
    BY <2>2 DEF RecvBody, Receive, Polling
  <2> QED
    BY <1>7, <2>1, <2>2
<1>8. CASE HeartPass
  BY <1>8 DEF HeartPass
<1>9. CASE Exit
  BY <1>9 DEF Exit
<1>10. CASE \E m \in Msg : NvrSend(m)
  BY <1>10 DEF NvrSend
<1>11. CASE \E n \in 0..Len(wire) : NvrClose(n)
  BY <1>11 DEF NvrClose
<1>12. CASE DestroyConnect
  BY <1>12 DEF DestroyConnect
<1> QED
  BY <1>1, <1>2, <1>3, <1>5, <1>6, <1>7, <1>8, <1>9, <1>10, <1>11, <1>12 DEF Next, Thread, Env

\* What a read of a head finds, and what a read of n bytes of a body finds.
LEMMA HeadRead ==
    ASSUME Inv, RecvHead
    PROVE  /\ socket > 0 /\ nDataLength = 0
           /\ HdrLen \in 1..Len(wire) /\ 1 \in 1..Len(wire) /\ wire # <<>>
           /\ wire[1] \in Byte
           /\ AtHead => wire[1].k \in 1..Len(frames) /\ frames[wire[1].k] \in Msg
           /\ wire' = SubSeq(wire, HdrLen + 1, Len(wire))
           /\ nDataLength' \in Nat /\ nDataLength' > 0
           /\ cmdType' \in Cmd
<1>1. HdrLen \in 1..Len(wire) /\ 1 \in 1..Len(wire) /\ wire # <<>>
  BY DEF RecvHead, Receive, HdrLen, Inv, TypeOK
<1>2. socket > 0 /\ nDataLength = 0 /\ wire' = SubSeq(wire, HdrLen + 1, Len(wire))
  BY DEF RecvHead, Receive, Polling
<1>3. wire[1] \in Byte
  BY <1>1 DEF Inv, TypeOK
<1>4. wire[1].k \in 1..Len(frames)
  BY <1>1 DEF Inv, Stream, InFrames
<1>5. frames[wire[1].k] \in Msg
  BY <1>4 DEF Inv, TypeOK
<1>6. nDataLength' \in Nat /\ nDataLength' > 0
  <2>1. CASE AtHead
    BY <1>5, <2>1, ConnAssumption DEF RecvHead
  <2>2. CASE ~AtHead
    <3>1. nDataLength' \in JunkLen
      BY <2>2 DEF RecvHead
    <3> QED
      BY <3>1, ConnAssumption
  <2> QED
    BY <2>1, <2>2
<1>7. cmdType' \in Cmd
  BY <1>3 DEF RecvHead, Cmd, Byte, Inv, TypeOK
<1> QED
  BY <1>1, <1>2, <1>3, <1>4, <1>5, <1>6, <1>7

\* The same for the body of a message.
LEMMA BodyRead ==
    ASSUME Inv, NEW n \in 1..Len(wire), RecvBody(n)
    PROVE  /\ socket > 0 /\ nDataLength > 0 /\ n <= nDataLength
           /\ n \in 0..Len(wire) /\ 1 \in 1..Len(wire)
           /\ SubSeq(wire, 1, n) \in Seq(Byte)
           /\ wire' = SubSeq(wire, n + 1, Len(wire))
           /\ cb' \in Callback
           /\ ~torn' => ~torn /\ n = nDataLength
<1>1. socket > 0 /\ nDataLength > 0 /\ n <= nDataLength /\ n \in 0..Len(wire) /\ 1 \in 1..Len(wire)
  BY DEF RecvBody, Receive, Polling, Need, Inv, TypeOK
<1>2. SubSeq(wire, 1, n) \in Seq(Byte)
  BY <1>1 DEF Inv, TypeOK
<1>3. cb' \in Callback
  BY <1>2 DEF RecvBody, Callback, Inv, TypeOK
<1>4. ~torn' => ~torn /\ n = nDataLength
  <2>1. ~torn' => ~torn /\ ~(n < Need)
    BY Zenon DEF RecvBody
  <2> QED
    BY <1>1, <2>1 DEF Need, Inv, TypeOK
<1> QED
  BY <1>1, <1>2, <1>3, <1>4 DEF RecvBody

\* Each step keeps the types.
LEMMA TypeStep == Inv /\ [Next]_vars => TypeOK'
<1> SUFFICES ASSUME Inv, [Next]_vars PROVE TypeOK'
  OBVIOUS
<1>1. TypeOK /\ Stream(wire, frames)
  BY DEF Inv
<1>2. CASE UNCHANGED vars
  BY <1>1, <1>2 DEF vars, parse, net, TypeOK
<1>3. CASE Next
  <2> DEFINE Data == /\ socket' \in Nat /\ nDataLength' \in Nat /\ nPreDataMove' \in Nat
                     /\ cmdType' \in Cmd /\ conn' \in Nat /\ peerOpen' \in BOOLEAN
                     /\ frames' \in Seq(Msg) /\ wire' \in Seq(Byte) /\ cb' \in Callback
                     /\ seen' \in Nat /\ torn' \in BOOLEAN
  <2> SUFFICES Data
    BY <1>3, ControlStep DEF TypeOK
  <2>0. <<>> \in Seq(Byte) /\ <<>> \in Seq(Msg)
    OBVIOUS
  <2>1. CASE ConnectOk
    <3>1. conn' \in Nat /\ cb' = Notice("ONLINE", conn')
      BY <1>1, <2>1 DEF ConnectOk, TypeOK
    <3>2. cb' \in Callback
      BY <3>1, NoticeType
    <3>3. torn' \in BOOLEAN
      BY <2>1 DEF ConnectOk
    <3> QED
      BY <1>1, <2>0, <2>1, <3>1, <3>2, <3>3 DEF ConnectOk, TypeOK, parse
  <2>2. CASE ConnectFail
    <3>1. cb' \in Callback
      BY <1>1, <2>2, NoticeType DEF ConnectFail, TypeOK
    <3> QED
      BY <1>1, <2>2, <3>1 DEF ConnectFail, TypeOK, parse, net
  <2>3. CASE Hangup
    <3>1. cb' \in Callback
      BY <1>1, <2>3, NoticeType DEF Hangup, TypeOK
    <3> QED
      BY <1>1, <2>0, <2>3, <3>1 DEF Hangup, TypeOK, parse
  <2>4. CASE Quiet
    BY <1>1, <2>4 DEF Quiet, TypeOK, parse, net
  <2>5. CASE RecvHead
    <3>1. wire' \in Seq(Byte) /\ cmdType' \in Cmd /\ nDataLength' \in Nat
      <4>1. HdrLen \in 0..Len(wire)
        BY <2>5, HeadRead DEF HdrLen
      <4> QED
        BY <1>1, <2>5, <4>1, HeadRead, StreamRest DEF TypeOK
    <3> QED
      BY <1>1, <2>5, <3>1 DEF RecvHead, TypeOK, HdrLen
  <2>6. ASSUME NEW n \in 1..Len(wire), RecvBody(n) PROVE Data
    <3>1. wire' \in Seq(Byte) /\ cb' \in Callback
      BY <1>1, <2>6, BodyRead, StreamRest DEF TypeOK
    <3>2. torn' \in BOOLEAN
      BY <2>6 DEF RecvBody
    <3> QED
      BY <1>1, <2>6, <3>1, <3>2 DEF RecvBody, TypeOK
  <2>7. ASSUME NEW m \in Msg, NvrSend(m) PROVE Data
    <3>1. FrameBytes(Len(frames) + 1, m) \in Seq(Byte)
      <4>1. Len(frames) + 1 \in Nat
        BY <1>1 DEF TypeOK
      <4> QED
        BY <4>1, FrameType
    <3> QED
      BY <1>1, <2>7, <3>1 DEF NvrSend, TypeOK, parse
  <2>8. ASSUME NEW n \in 0..Len(wire), NvrClose(n) PROVE Data
    <3>1. SubSeq(wire, 1, n) \in Seq(Byte)
      BY <1>1, StreamCut DEF TypeOK
    <3> QED
      BY <1>1, <2>8, <3>1 DEF NvrClose, TypeOK, parse
  <2> HIDE DEF Data
  <2> QED
    BY <1>1, <1>3, <2>1, <2>2, <2>3, <2>4, <2>5, <2>6, <2>7, <2>8, StepKinds
<1> QED
  BY <1>2, <1>3

\* Each step keeps status, socket and place in the loop together.
LEMMA ConnectionStep == Inv /\ Next => Connection'
<1> SUFFICES ASSUME Inv, Next PROVE Connection'
  OBVIOUS
<1> DEFINE Rest == /\ socket' \in {0, conn'}
                   /\ socket' = 0 => wire' = <<>> /\ ~peerOpen'
                   /\ socket' > 0 => cb'.kind \in {"ONLINE", "MSG"} /\ cb'.conn = conn'
                   /\ socket' = 0 => cb'.kind \in {"NONE", "OFFLINE"}
<1> SUFFICES Rest
  BY ControlStep DEF Connection
<1>1. TypeOK /\ Connection
  BY DEF Inv
<1>2. CASE ConnectOk
  BY <1>1, <1>2 DEF ConnectOk, Notice, TypeOK
<1>3. CASE ConnectFail
  BY <1>1, <1>3 DEF ConnectFail, Notice, Connection, TypeOK, net
<1>4. CASE Hangup
  BY <1>1, <1>4 DEF Hangup, Notice, Connection, TypeOK
<1>5. CASE Quiet
  BY <1>1, <1>5 DEF Quiet, Connection, net
<1>6. CASE RecvHead
  <2>1. socket > 0 /\ socket' = socket /\ conn' = conn /\ cb' = cb
    BY <1>6, HeadRead DEF RecvHead
  <2> QED
    BY <1>1, <2>1 DEF Connection
<1>7. ASSUME NEW n \in 1..Len(wire), RecvBody(n) PROVE Rest
  <2>1. socket > 0 /\ socket' = socket /\ conn' = conn /\ cb'.kind = "MSG" /\ cb'.conn = conn
    BY <1>7, BodyRead DEF RecvBody
  <2> QED
    BY <1>1, <2>1 DEF Connection
<1>8. ASSUME NEW m \in Msg, NvrSend(m) PROVE Rest
  <2>1. peerOpen /\ socket' = socket /\ conn' = conn /\ cb' = cb
    BY <1>8 DEF NvrSend
  <2> QED
    BY <1>1, <2>1 DEF Connection
<1>9. ASSUME NEW n \in 0..Len(wire), NvrClose(n) PROVE Rest
  <2>1. peerOpen /\ socket' = socket /\ conn' = conn /\ cb' = cb
    BY <1>9 DEF NvrClose
  <2> QED
    BY <1>1, <2>1 DEF Connection
<1> HIDE DEF Rest
<1> QED
  BY <1>1, <1>2, <1>3, <1>4, <1>5, <1>6, <1>7, <1>8, <1>9, StepKinds

\* Each step keeps the wire a stream of whole messages up to its end.
LEMMA StreamStep == Inv /\ Next => (Stream(wire, frames) /\ Flushed)'
<1> SUFFICES ASSUME Inv, Next PROVE Stream(wire', frames') /\ Flushed'
  OBVIOUS
<1>1. TypeOK /\ Stream(wire, frames) /\ Flushed /\ wire \in Seq(Byte) /\ frames \in Seq(Msg)
  BY DEF Inv, TypeOK
<1>2. CASE ConnectOk
  <2>1. wire' = <<>> /\ frames' = <<>>
    BY <1>2 DEF ConnectOk
  <2>2. <<>> \in Seq(Msg)
    OBVIOUS
  <2> QED
    BY <2>1, <2>2, EmptyStream DEF Flushed
<1>3. CASE Hangup
  BY <1>1, <1>3, EmptyStream DEF Hangup, Flushed
<1>4. CASE ConnectFail \/ Quiet
  <2>1. wire' = wire /\ frames' = frames /\ peerOpen' = peerOpen
    BY <1>4 DEF ConnectFail, Quiet, net
  <2> QED
    BY <1>1, <2>1 DEF Flushed
\* A read takes n bytes away and leaves the last one, if it leaves any.
<1>5. ASSUME NEW n \in 0..Len(wire), wire' = SubSeq(wire, n + 1, Len(wire)),
             frames' = frames, peerOpen' = peerOpen
      PROVE  Stream(wire', frames') /\ Flushed'
  <2>1. /\ Stream(wire', frames') /\ Len(wire') = Len(wire) - n /\ wire' \in Seq(Byte)
        /\ \A i \in 1..(Len(wire) - n) : wire'[i] = wire[n + i]
    BY <1>1, <1>5, StreamRest
  <2>2. Len(wire) \in Nat
    BY <1>1
  <2>3. wire' # <<>> => /\ wire # <<>> /\ Len(wire) - n \in 1..(Len(wire) - n)
                        /\ n + (Len(wire) - n) = Len(wire)
    BY <1>1, <2>1, <2>2
  <2>4. wire' # <<>> => wire'[Len(wire')] = wire[Len(wire)]
    BY <2>1, <2>3
  <2>5. Flushed'
    BY <1>1, <1>5, <2>3, <2>4 DEF Flushed
  <2> QED
    BY <2>1, <2>5
<1>6. CASE RecvHead
  <2>1. HdrLen \in 0..Len(wire)
    BY <1>6, HeadRead DEF HdrLen
  <2> QED
    BY <1>5, <1>6, <2>1, HeadRead DEF RecvHead
<1>7. ASSUME NEW n \in 1..Len(wire), RecvBody(n) PROVE Stream(wire', frames') /\ Flushed'
  BY <1>5, <1>7, BodyRead DEF RecvBody
<1>8. ASSUME NEW m \in Msg, NvrSend(m) PROVE Stream(wire', frames') /\ Flushed'
  <2>1. /\ frames' = Append(frames, m)
        /\ wire' = wire \o FrameBytes(Len(frames) + 1, m)
        /\ peerOpen
    BY <1>8 DEF NvrSend
  <2>2. wire # <<>> => wire[Len(wire)] = [k |-> Len(frames), o |-> Total(frames[Len(frames)]) - 1]
    BY <1>1, <2>1 DEF Flushed
  <2>3. /\ Stream(wire', frames')
        /\ wire'[Len(wire')] = [k |-> Len(frames'), o |-> Total(frames'[Len(frames')]) - 1]
    BY <1>1, <2>1, <2>2, StreamMore
  <2> QED
    BY <2>3 DEF Flushed
<1>9. ASSUME NEW n \in 0..Len(wire), NvrClose(n) PROVE Stream(wire', frames') /\ Flushed'
  BY <1>1, <1>9, StreamCut DEF NvrClose, Flushed
<1> QED
  BY <1>1, <1>2, <1>3, <1>4, <1>6, <1>7, <1>8, <1>9, StepKinds

\* Each step keeps the read offset what cmdType and nDataLength make it.
LEMMA OffsetStep == Inv /\ Next => BufferOffset'
<1> SUFFICES ASSUME Inv, Next PROVE BufferOffset'
  OBVIOUS
<1>1. TypeOK /\ BufferOffset
  BY DEF Inv
<1>2. CASE ConnectOk \/ ConnectFail \/ Hangup \/ Quiet
  BY <1>1, <1>2 DEF ConnectOk, ConnectFail, Hangup, Quiet, parse, BufferOffset
<1>3. CASE RecvHead
  BY <1>3, HeadRead DEF RecvHead, BufferOffset
<1>4. ASSUME NEW n \in 1..Len(wire), RecvBody(n) PROVE BufferOffset'
  BY <1>4 DEF RecvBody, BufferOffset
<1>5. CASE (\E m \in Msg : NvrSend(m)) \/ (\E n \in 0..Len(wire) : NvrClose(n))
  BY <1>1, <1>5 DEF NvrSend, NvrClose, parse, BufferOffset
<1> QED
  BY <1>1, <1>2, <1>3, <1>4, <1>5, StepKinds

\* In a stream, the t - o bytes from place 1 on, o their first offset, end the
\* message, and the next one begins right behind them.
LEMMA RunLength ==
    ASSUME NEW w \in Seq(Byte), NEW f \in Seq(Msg), Stream(w, f), w # <<>>,
           NEW n \in 1..Len(w), w[1].o + n <= Total(f[w[1].k])
    PROVE  /\ \A i \in 1..n : w[i] = [k |-> w[1].k, o |-> w[1].o + (i - 1)]
           /\ n < Len(w) => w[n + 1] = IF w[1].o + n < Total(f[w[1].k])
                                       THEN [k |-> w[1].k, o |-> w[1].o + n]
                                       ELSE [k |-> w[1].k + 1, o |-> 0]
<1> DEFINE o == w[1].o
           t == Total(f[w[1].k])
<1>1. 1 \in 1..Len(w) /\ w[1] \in Byte /\ o \in Nat
  <2>1. 1 \in 1..Len(w)
    OBVIOUS
  <2>2. w[1] \in Byte
    BY <2>1
  <2> QED
    BY <2>1, <2>2 DEF Byte
<1>2. w[1].k \in 1..Len(f) /\ o \in 0..(t - 1)
  BY <1>1 DEF Stream, InFrames
<1>3. f[w[1].k] \in Msg
  BY <1>2
<1>4. t \in Nat
  BY <1>3, ConnAssumption DEF Total, HdrLen
<1>5. \A j \in 1..Len(w) :
        /\ o + (j - 1) < t => w[j] = [k |-> w[1].k, o |-> o + (j - 1)]
        /\ o + (j - 1) = t => w[j] = [k |-> w[1].k + 1, o |-> 0]
  BY <1>1 DEF Stream, NoGap
<1>6. o + n <= t
  OBVIOUS
<1> HIDE DEF o, t
<1>7. \A i \in 1..n : i \in 1..Len(w) /\ o + (i - 1) < t
  BY <1>1, <1>4, <1>6
<1>8. n < Len(w) => n + 1 \in 1..Len(w) /\ (n + 1) - 1 = n /\ (o + n < t \/ o + n = t)
  BY <1>1, <1>4, <1>6
<1>9. n < Len(w) => w[n + 1] = IF o + n < t THEN [k |-> w[1].k, o |-> o + n]
                                            ELSE [k |-> w[1].k + 1, o |-> 0]
  BY <1>5, <1>8, <1>1, <1>4
<1> QED
  BY <1>5, <1>7, <1>9 DEF o, t

\* Reading a head keeps the parser in step with the wire.
LEMMA HeadInStep == Inv /\ RecvHead => InStep'
<1> SUFFICES ASSUME Inv, RecvHead, ~torn', socket' > 0 PROVE InStep'
  BY DEF InStep
<1>1. TypeOK /\ Stream(wire, frames) /\ Flushed /\ InStep
  BY DEF Inv
<1>0. Len(wire) \in Nat /\ HdrLen \in Nat
  BY <1>1 DEF TypeOK, HdrLen
<1>2. /\ socket > 0 /\ nDataLength = 0 /\ ~torn
      /\ HdrLen \in 1..Len(wire) /\ wire # <<>> /\ 1 \in 1..Len(wire)
      /\ wire' = SubSeq(wire, HdrLen + 1, Len(wire))
  BY HeadRead DEF RecvHead
<1>3. wire[1] = [k |-> seen + 1, o |-> 0] /\ seen \in Nat
  BY <1>1, <1>2 DEF InStep, TypeOK
<1>4. seen + 1 \in 1..Len(frames) /\ frames[seen + 1] \in Msg
  <2>1. wire[1].k \in 1..Len(frames)
    BY <1>1, <1>2 DEF Stream, InFrames
  <2> QED
    BY <1>1, <1>3, <2>1 DEF TypeOK
<1>5. /\ frames' = frames /\ conn' = conn /\ peerOpen' = peerOpen /\ seen' = seen
      /\ cmdType' = [conn |-> conn, k |-> seen + 1]
      /\ nDataLength' = BodyLen[frames[seen + 1]] /\ nDataLength' # 0
  <2>1. AtHead
    BY <1>3 DEF AtHead
  <2>2. nDataLength' > 0 /\ nDataLength' \in Nat
    BY HeadRead
  <2> QED
    BY <1>3, <2>1, <2>2 DEF RecvHead
<1>6. Total(frames[seen + 1]) \in Nat /\ HdrLen < Total(frames[seen + 1])
  BY <1>4, ConnAssumption DEF Total, HdrLen
<1> DEFINE t == Total(frames[seen + 1])
<1>7. /\ \A i \in 1..HdrLen : wire[i] = [k |-> seen + 1, o |-> i - 1]
      /\ HdrLen < Len(wire) => wire[HdrLen + 1] = [k |-> seen + 1, o |-> HdrLen]
  <2>1. wire[1].k = seen + 1 /\ wire[1].o = 0 /\ HdrLen \in Nat
    BY <1>3 DEF HdrLen
  <2>2. wire[1].o + HdrLen <= Total(frames[wire[1].k]) /\ wire[1].o + HdrLen < Total(frames[wire[1].k])
    BY <1>6, <2>1
  <2>3. /\ \A i \in 1..HdrLen : wire[i] = [k |-> wire[1].k, o |-> wire[1].o + (i - 1)]
        /\ HdrLen < Len(wire) => wire[HdrLen + 1] = [k |-> wire[1].k, o |-> wire[1].o + HdrLen]
    BY <1>1, <1>2, <2>2, RunLength DEF TypeOK
  <2> QED
    BY <2>1, <2>3 DEF HdrLen
\* An open NVR end sends whole messages, so the body follows its head.
<1>8. peerOpen => HdrLen < Len(wire)
  <2> SUFFICES ASSUME peerOpen, HdrLen = Len(wire) PROVE FALSE
    BY <1>0, <1>2
  <2>1. wire[Len(wire)] = [k |-> Len(frames), o |-> Total(frames[Len(frames)]) - 1]
    BY <1>1, <1>2 DEF Flushed
  <2>2. wire[Len(wire)] = [k |-> seen + 1, o |-> HdrLen - 1]
    BY <1>2, <1>7
  <2>3. Len(frames) = seen + 1 /\ Total(frames[seen + 1]) - 1 = HdrLen - 1
    BY <2>1, <2>2
  <2> QED
    BY <1>6, <2>3 DEF HdrLen
<1>9. /\ Len(wire') = Len(wire) - HdrLen
      /\ \A i \in 1..(Len(wire) - HdrLen) : wire'[i] = wire[HdrLen + i]
  <2>1. HdrLen \in 0..Len(wire)
    BY <1>2 DEF HdrLen
  <2> QED
    BY <1>1, <1>2, <2>1, StreamRest DEF TypeOK
<1>10. wire' # <<>> => wire'[1] = [k |-> seen + 1, o |-> HdrLen]
  <2> SUFFICES ASSUME wire' # <<>> PROVE wire'[1] = [k |-> seen + 1, o |-> HdrLen]
    OBVIOUS
  <2>1. wire' \in Seq(Byte)
    BY TypeStep DEF TypeOK, Next, Thread
  <2>2. HdrLen < Len(wire) /\ 1 \in 1..(Len(wire) - HdrLen)
    BY <1>1, <1>2, <1>9, <2>1 DEF TypeOK, HdrLen
  <2> QED
    BY <1>7, <1>9, <2>2
<1>11. wire' = <<>> => ~peerOpen
  <2>1. wire' = <<>> => Len(wire') = 0
    OBVIOUS
  <2> QED
    BY <1>0, <1>8, <1>9, <2>1
<1> QED
  BY <1>4, <1>5, <1>10, <1>11 DEF InStep

\* Reading a body keeps the parser in step, and hands over the whole of it.
LEMMA BodyInStep ==
    ASSUME Inv, NEW n \in 1..Len(wire), RecvBody(n)
    PROVE  InStep' /\ WholeInOrder'
<1> SUFFICES ASSUME ~torn' PROVE InStep' /\ WholeInOrder'
  BY DEF InStep, WholeInOrder
<1>1. TypeOK /\ Stream(wire, frames) /\ Flushed /\ InStep
  BY DEF Inv
<1>2. /\ socket > 0 /\ nDataLength > 0 /\ ~torn /\ n = nDataLength
      /\ n \in 0..Len(wire) /\ 1 \in 1..Len(wire) /\ wire # <<>>
      /\ wire' = SubSeq(wire, n + 1, Len(wire))
  BY <1>1, BodyRead DEF TypeOK
<1>3. n \in Nat /\ Len(wire) \in Nat /\ HdrLen \in Nat /\ seen \in Nat
  BY <1>1 DEF TypeOK, HdrLen
<1>4. /\ seen + 1 <= Len(frames)
      /\ cmdType = [conn |-> conn, k |-> seen + 1]
      /\ n = BodyLen[frames[seen + 1]]
      /\ wire[1] = [k |-> seen + 1, o |-> HdrLen]
  BY <1>1, <1>2, <1>3 DEF InStep
<1>5. /\ frames' = frames /\ conn' = conn /\ peerOpen' = peerOpen /\ seen' = seen + 1
      /\ nDataLength' = 0
      /\ cb' = [kind |-> "MSG", conn |-> conn, cmd |-> cmdType, data |-> SubSeq(wire, 1, n)]
  BY DEF RecvBody
<1>6. seen + 1 \in 1..Len(frames)
  BY <1>1, <1>3, <1>4 DEF TypeOK
<1>7. Total(frames[seen + 1]) = HdrLen + n
  BY <1>4 DEF Total
<1>8. /\ \A i \in 1..n : wire[i] = [k |-> seen + 1, o |-> HdrLen + (i - 1)]
      /\ n < Len(wire) => wire[n + 1] = [k |-> seen + 2, o |-> 0]
  <2>1. wire[1].k = seen + 1 /\ wire[1].o = HdrLen
    BY <1>4
  <2>2. /\ wire[1].o + n <= Total(frames[wire[1].k])
        /\ ~(wire[1].o + n < Total(frames[wire[1].k]))
    BY <1>3, <1>7, <2>1
  <2>3. /\ \A i \in 1..n : wire[i] = [k |-> wire[1].k, o |-> wire[1].o + (i - 1)]
        /\ n < Len(wire) => wire[n + 1] = [k |-> wire[1].k + 1, o |-> 0]
    BY <1>1, <1>2, <2>2, RunLength DEF TypeOK
  <2> QED
    BY <1>3, <2>1, <2>3
<1>9. /\ Len(wire') = Len(wire) - n
      /\ \A i \in 1..(Len(wire) - n) : wire'[i] = wire[n + i]
      /\ wire' \in Seq(Byte)
  BY <1>1, <1>2, StreamRest DEF TypeOK
<1>10. wire' # <<>> => wire'[1] = [k |-> seen + 2, o |-> 0]
  <2> SUFFICES ASSUME wire' # <<>> PROVE wire'[1] = [k |-> seen + 2, o |-> 0]
    OBVIOUS
  <2>1. n < Len(wire) /\ 1 \in 1..(Len(wire) - n)
    BY <1>3, <1>9
  <2> QED
    BY <1>8, <1>9, <2>1
<1>11. wire' = <<>> /\ peerOpen => seen + 1 = Len(frames)
  <2> SUFFICES ASSUME wire' = <<>>, peerOpen PROVE seen + 1 = Len(frames)
    OBVIOUS
  <2>1. Len(wire) = n
    <3>1. Len(wire') = 0
      OBVIOUS
    <3> QED
      BY <1>3, <1>9, <3>1
  <2>2. wire[n] = [k |-> seen + 1, o |-> HdrLen + (n - 1)]
    BY <1>8
  <2>3. wire[n] = [k |-> Len(frames), o |-> Total(frames[Len(frames)]) - 1]
    BY <1>1, <1>2, <2>1 DEF Flushed
  <2> QED
    BY <2>2, <2>3
<1>12. InStep'
  <2>1. seen' + 1 = seen + 2
    BY <1>3, <1>5
  <2> QED
    BY <1>4, <1>5, <1>10, <1>11, <2>1 DEF InStep
<1>13. SubSeq(wire, 1, n) = Body(seen + 1, frames[seen + 1])
  <2>1. /\ Len(SubSeq(wire, 1, n)) = n /\ SubSeq(wire, 1, n) \in Seq(Byte)
        /\ \A i \in 1..n : SubSeq(wire, 1, n)[i] = wire[i]
    BY <1>1, <1>2, StreamCut DEF TypeOK
  <2>2. Body(seen + 1, frames[seen + 1]) = [i \in 1..n |-> [k |-> seen + 1, o |-> HdrLen + i - 1]]
    BY <1>4 DEF Body
  <2>3. \A i \in 1..n : SubSeq(wire, 1, n)[i] = [k |-> seen + 1, o |-> HdrLen + i - 1]
    BY <1>3, <1>8, <2>1
  <2>4. SubSeq(wire, 1, n) = [i \in 1..n |-> SubSeq(wire, 1, n)[i]]
    BY <2>1
  <2> QED
    BY <2>2, <2>3, <2>4
<1>14. WholeInOrder'
  BY <1>4, <1>5, <1>6, <1>13 DEF WholeInOrder
<1> QED
  BY <1>12, <1>14

\* So does every step.
LEMMA InStepStep == Inv /\ Next => InStep' /\ WholeInOrder'
<1> SUFFICES ASSUME Inv, Next PROVE InStep' /\ WholeInOrder'
  OBVIOUS
<1>1. TypeOK /\ Connection /\ Stream(wire, frames) /\ Flushed /\ InStep /\ WholeInOrder
  BY DEF Inv
<1>2. CASE ConnectOk
  <2>1. /\ wire' = <<>> /\ frames' = <<>> /\ seen' = 0 /\ nDataLength' = nDataLength
        /\ cb'.kind = "ONLINE"
    BY <1>2 DEF ConnectOk, Notice, parse
  <2>2. ~torn' => nDataLength = 0
    <3>1. ~torn' => ~(nDataLength > 0)
      BY <1>2, Zenon DEF ConnectOk
    <3> QED
      BY <1>1, <3>1 DEF TypeOK
  <2> QED
    BY <2>1, <2>2 DEF InStep, WholeInOrder
<1>3. CASE ConnectFail \/ Hangup
  <2>1. socket' = 0
    BY <1>3 DEF ConnectFail, Hangup
  <2>2. cb'.kind # "MSG"
    BY <1>1, <1>3 DEF ConnectFail, Hangup, Notice, Connection
  <2> QED
    BY <2>1, <2>2 DEF InStep, WholeInOrder
<1>4. CASE Quiet
  BY <1>1, <1>4 DEF Quiet, parse, net, InStep, WholeInOrder
<1>5. CASE RecvHead
  <2>1. InStep'
    BY <1>5, HeadInStep
  <2>2. WholeInOrder'
    BY <1>1, <1>5 DEF RecvHead, WholeInOrder
  <2> QED
    BY <2>1, <2>2
<1>6. ASSUME NEW n \in 1..Len(wire), RecvBody(n) PROVE InStep' /\ WholeInOrder'
  BY <1>6, BodyInStep
<1>7. ASSUME NEW m \in Msg, NvrSend(m) PROVE InStep' /\ WholeInOrder'
  <2>1. /\ frames' = Append(frames, m) /\ wire' = wire \o FrameBytes(Len(frames) + 1, m)
        /\ peerOpen /\ UNCHANGED <<socket, nDataLength, cmdType, conn, peerOpen, cb, seen, torn>>
    BY <1>7 DEF NvrSend, parse
  <2>2. /\ Len(frames') = Len(frames) + 1
        /\ \A k \in 1..Len(frames) : frames'[k] = frames[k]
        /\ frames \in Seq(Msg) /\ wire \in Seq(Byte) /\ Len(frames) \in Nat /\ seen \in Nat
    BY <1>1, <2>1 DEF TypeOK
  <2>3. /\ wire' # <<>>
        /\ wire'[1] = IF wire = <<>> THEN [k |-> Len(frames) + 1, o |-> 0] ELSE wire[1]
    BY <1>1, <2>1, <2>2, StreamMore DEF Flushed
  <2>4. WholeInOrder'
    BY <1>1, <2>1, <2>2 DEF WholeInOrder
  <2>5. InStep'
    <3> SUFFICES ASSUME ~torn, socket > 0
                 PROVE  IF nDataLength = 0
                        THEN wire'[1] = [k |-> seen + 1, o |-> 0] /\ seen <= Len(frames) + 1
                        ELSE /\ seen + 1 <= Len(frames) + 1
                             /\ cmdType = [conn |-> conn, k |-> seen + 1]
                             /\ nDataLength = BodyLen[frames'[seen + 1]]
                             /\ wire'[1] = [k |-> seen + 1, o |-> HdrLen]
      BY <2>1, <2>2, <2>3 DEF InStep
    <3>1. CASE nDataLength = 0
      BY <1>1, <2>1, <2>2, <2>3, <3>1 DEF InStep
    <3>2. CASE nDataLength # 0
      <4>1. /\ seen + 1 <= Len(frames) /\ wire # <<>>
            /\ cmdType = [conn |-> conn, k |-> seen + 1]
            /\ nDataLength = BodyLen[frames[seen + 1]]
            /\ wire[1] = [k |-> seen + 1, o |-> HdrLen]
        BY <1>1, <2>1, <3>2 DEF InStep
      <4>2. seen + 1 \in 1..Len(frames)
        BY <2>2, <4>1
      <4> QED
        BY <2>2, <2>3, <3>2, <4>1, <4>2
    <3> QED
      BY <3>1, <3>2
  <2> QED
    BY <2>4, <2>5
<1>8. ASSUME NEW n \in 0..Len(wire), NvrClose(n) PROVE InStep' /\ WholeInOrder'
  <2>1. /\ wire' = SubSeq(wire, 1, n) /\ ~peerOpen'
        /\ UNCHANGED <<socket, nDataLength, cmdType, conn, frames, cb, seen, torn>>
    BY <1>8 DEF NvrClose, parse
  <2>2. Len(wire') = n /\ \A i \in 1..n : wire'[i] = wire[i]
    BY <1>1, <2>1, StreamCut DEF TypeOK
  <2>3. wire' # <<>> => wire # <<>> /\ wire'[1] = wire[1]
    <3>1. wire \in Seq(Byte) /\ wire' \in Seq(Byte)
      BY <1>1, <2>1, StreamCut DEF TypeOK
    <3>2. wire' # <<>> => 1 \in 1..n /\ wire # <<>>
      BY <2>2, <3>1
    <3> QED
      BY <2>2, <3>2
  <2> QED
    BY <1>1, <2>1, <2>3 DEF InStep, WholeInOrder
<1> QED
  BY <1>2, <1>3, <1>4, <1>5, <1>6, <1>7, <1>8, <1>1, StepKinds

-----------------------------------------------------------------------------
(* The theorems *)

\* The parts together: the invariant is inductive.
LEMMA InvStep == Inv /\ [Next]_vars => Inv'
<1> SUFFICES ASSUME Inv, [Next]_vars PROVE Inv'
  OBVIOUS
<1>1. CASE Next
  BY <1>1, TypeStep, ConnectionStep, StreamStep, OffsetStep, InStepStep DEF Inv
<1>2. CASE UNCHANGED vars
  BY <1>2 DEF vars, parse, net, Inv, TypeOK, Connection, Stream, InFrames, NoGap, Flushed,
              InStep, BufferOffset, WholeInOrder
<1> QED
  BY <1>1, <1>2

\* Parser, wire, socket and callbacks fit together in every reachable state, for any
\* messages of any lengths and any number of lost connections.
THEOREM Invariance == Spec => []Inv
BY InitInv, InvStep, PTL DEF Spec

\* The variables keep their types.  TypeOK alone is not inductive: the length
\* taken from a head is a number only because the head is part of the stream.
THEOREM TypeCorrect == Spec => []TypeOK
<1>1. Inv => TypeOK
  BY DEF Inv
<1> QED
  BY <1>1, Invariance, PTL

\* On a connection in step the n-th callback gets the whole n-th message.
THEOREM Delivery == Spec => []WholeInOrder
<1>1. Inv => WholeInOrder
  BY DEF Inv
<1> QED
  BY <1>1, Invariance, PTL

\* The published status tells whether there is a connection.
THEOREM Status == Spec => []StatusIsSocket
<1>1. Inv => StatusIsSocket
  BY DEF Inv, Connection, StatusIsSocket
<1> QED
  BY <1>1, Invariance, PTL

\* The read offset fits the parser's state, across lost connections too.
THEOREM Offset == Spec => []BufferOffset
<1>1. Inv => BufferOffset
  BY DEF Inv
<1> QED
  BY <1>1, Invariance, PTL

\* Callbacks come in sessions: ONLINE, messages, OFFLINE.
THEOREM Sessions == Spec => SessionOrder
<1> DEFINE Order == /\ cb'.kind = "ONLINE" /\ cb' # cb => cb.kind \in {"NONE", "OFFLINE"}
                    /\ cb'.kind = "MSG" => cb.kind \in {"ONLINE", "MSG"} /\ cb'.conn = conn
<1>1. Inv /\ [Next]_vars => [Order]_vars
  <2> SUFFICES ASSUME Inv, Next PROVE Order
    OBVIOUS
  <2>1. TypeOK /\ Connection
    BY DEF Inv
  <2>2. CASE ConnectOk
    BY <2>1, <2>2 DEF ConnectOk, Notice, Connection
  <2>3. CASE ConnectFail \/ Hangup
    BY <2>1, <2>3 DEF ConnectFail, Hangup, Notice, Connection
  <2>4. ASSUME cb' = cb PROVE Order
    <3>1. cb.kind = "MSG" => socket > 0
      BY <2>1 DEF Connection, TypeOK
    <3> QED
      BY <2>1, <2>4, <3>1 DEF Connection
  <2>5. CASE RecvHead \/ Quiet \/ (\E m \in Msg : NvrSend(m)) \/ (\E n \in 0..Len(wire) : NvrClose(n))
    BY <2>4, <2>5 DEF RecvHead, Quiet, NvrSend, NvrClose
  <2>6. ASSUME NEW n \in 1..Len(wire), RecvBody(n) PROVE Order
    <3>1. socket > 0 /\ cb'.kind = "MSG" /\ cb'.conn = conn
      BY <2>6, BodyRead DEF RecvBody
    <3> QED
      BY <2>1, <3>1 DEF Connection
  <2> QED
    BY <2>1, <2>2, <2>3, <2>5, <2>6, StepKinds
<1> QED
  BY <1>1, Invariance, PTL DEF Spec, SessionOrder

\* On every connection on which the parser stays in step, the thread implements MsgSession.
THEOREM Refinement == Spec => ImplementsSession
<1>1. ASSUME Inv, ~torn, cb.kind = "MSG"
      PROVE  seen \in 1..Len(frames) /\ Handed = <<"MSG", frames[seen]>>
  BY <1>1 DEF Inv, WholeInOrder, Handed
<1>2. Init => Session!Init
  BY DEF Init, Session!Init, Handed, Notice
<1>3. ASSUME Inv, Next, ~torn' PROVE Session!Next \/ UNCHANGED Session!vars
  <2>1. TypeOK /\ Connection
    BY <1>3 DEF Inv
  <2> USE DEF Session!vars
  <2>2. CASE ConnectOk
    <3>1. socket = 0 /\ socket' > 0
      BY <2>1, <2>2 DEF ConnectOk, TypeOK
    <3>2. Handed' = <<"ONLINE">>
      BY <2>2 DEF ConnectOk, Handed, Notice
    <3>3. Session!Open
      BY <2>2, <3>1, <3>2 DEF ConnectOk, Session!Open
    <3> QED
      BY <3>3 DEF Session!Next
  <2>3. ASSUME socket' = 0, cb' = Notice("OFFLINE", conn), UNCHANGED <<frames, seen>>
        PROVE  Session!Close
    BY <2>3 DEF Session!Close, Handed, Notice
  <2>4. CASE ConnectFail
    BY <2>3, <2>4 DEF ConnectFail, net, Session!Next
  <2>5. ASSUME UNCHANGED <<frames, seen, cb, conn>>, (socket' > 0) <=> (socket > 0)
        PROVE  UNCHANGED Session!vars
    <3>1. (socket' > 0) = (socket > 0)
      BY <2>5
    <3> QED
      BY <2>5, <3>1 DEF Handed
  <2>6. CASE Hangup
    BY <2>3, <2>5, <2>6 DEF Hangup, Session!Next
  <2>7. CASE Quiet \/ RecvHead \/ \E n \in 0..Len(wire) : NvrClose(n)
    BY <2>5, <2>7 DEF Quiet, RecvHead, NvrClose, net
  <2>8. ASSUME NEW n \in 1..Len(wire), RecvBody(n) PROVE Session!Get
    <3>1. /\ socket > 0 /\ socket' = socket /\ frames' = frames /\ seen' = seen + 1
          /\ cb'.kind = "MSG" /\ seen \in Nat
      BY <1>3, <2>1, <2>8, BodyRead DEF RecvBody, TypeOK
    <3>2. Inv' /\ ~torn'
      BY <1>3, InvStep
    <3>3. seen + 1 \in 1..Len(frames) /\ Handed' = <<"MSG", frames[seen + 1]>>
      BY <3>1, <3>2 DEF Inv, WholeInOrder, Handed
    <3>4. seen < Len(frames)
      BY <3>1, <3>3
    <3> QED
      BY <3>1, <3>3, <3>4 DEF Session!Get
  <2>9. ASSUME NEW m \in Msg, NvrSend(m) PROVE Session!Send(m)
    <3>1. /\ socket > 0 /\ socket' = socket /\ frames' = Append(frames, m)
          /\ UNCHANGED <<seen, cb, conn>>
      BY <2>1, <2>9 DEF NvrSend, Connection, TypeOK
    <3>2. Handed' = Handed
      <4>1. CASE cb.kind = "MSG"
        <5>0. ~torn
          BY <1>3, <2>9 DEF NvrSend
        <5>1. seen \in 1..Len(frames) /\ Handed = <<"MSG", frames[seen]>>
          BY <1>1, <1>3, <4>1, <5>0
        <5>2. Inv' /\ ~torn'
          BY <1>3, InvStep
        <5>3. Handed' = <<"MSG", frames'[seen]>>
          BY <3>1, <4>1, <5>2 DEF Inv, WholeInOrder, Handed
        <5>4. frames'[seen] = frames[seen]
          BY <2>1, <3>1, <5>1 DEF TypeOK
        <5> QED
          BY <5>1, <5>3, <5>4
      <4>2. CASE cb.kind # "MSG"
        BY <3>1, <4>2 DEF Handed
      <4> QED
        BY <4>1, <4>2
    <3> QED
      BY <3>1, <3>2 DEF Session!Send
  <2> QED
    BY <1>3, <2>1, <2>2, <2>4, <2>6, <2>7, <2>8, <2>9, StepKinds DEF Session!Next
<1>4. UNCHANGED vars => UNCHANGED Session!vars
  BY DEF vars, net, Session!vars, Handed
<1>5. ASSUME Inv, [Next]_vars PROVE [~torn' => Session!Next \/ UNCHANGED Session!vars]_vars
  BY <1>3, <1>4, <1>5
<1> QED
  BY <1>2, <1>5, Invariance, PTL DEF Spec, ImplementsSession

-----------------------------------------------------------------------------
(* Why a closed connection is noticed *)

\* Without a connection the end of the last one has been reported.
LastTold == socket = 0 /\ conn > 0 => cb = Notice("OFFLINE", conn)

LEMMA LastToldStep ==
    ASSUME Inv, LastTold, [Next]_vars
    PROVE  LastTold'
<1>1. TypeOK /\ Connection
  BY DEF Inv
<1>2. CASE UNCHANGED vars
  BY <1>2 DEF vars, net, LastTold
<1>3. CASE ConnectOk
  BY <1>1, <1>3 DEF ConnectOk, LastTold, TypeOK
<1>4. CASE ConnectFail
  BY <1>4 DEF ConnectFail, LastTold, net
<1>5. CASE Hangup
  BY <1>5 DEF Hangup, LastTold
<1>6. ASSUME socket' = socket, conn' = conn, cb' = cb \/ socket > 0
      PROVE  LastTold'
  BY <1>1, <1>6 DEF LastTold, TypeOK
<1>7. CASE Quiet \/ RecvHead \/ (\E m \in Msg : NvrSend(m)) \/ (\E n \in 0..Len(wire) : NvrClose(n))
  BY <1>6, <1>7 DEF Quiet, net, RecvHead, NvrSend, NvrClose
<1>8. CASE \E n \in 1..Len(wire) : RecvBody(n)
  BY <1>6, <1>8 DEF RecvBody, Receive, Polling
<1> QED
  BY <1>1, <1>2, <1>3, <1>4, <1>5, <1>7, <1>8, StepKinds

\* The NVR has closed connection c, and its end is not reported yet.
Unnoticed(c) == conn = c /\ ~peerOpen /\ cb # Notice("OFFLINE", c)

\* How far the report is: the bytes that may still be received, the heartbeat, and
\* PMSG_DestroyConnect, which may come in between.
ToNotice == 2 * Len(wire) + (IF pc = "beat" THEN 1 ELSE 0) + (IF run THEN 1 ELSE 0)

\* The thread still has the connection, and is not kept waiting on it.
Noticing(c) == socket = c /\ (pc = "beat" \/ (pc = "top" /\ (run => Polling /\ Readable)))

LEMMA NoticeComing ==
    ASSUME Inv, LastTold, NEW c \in 1..MaxConn, Unnoticed(c)
    PROVE  ToNotice \in Nat /\ Noticing(c)
<1>1. TypeOK /\ Connection /\ c > 0
  BY ConnAssumption DEF Inv
<1>2. socket = c
  BY <1>1 DEF Connection, LastTold, Unnoticed
<1>3. pc \in {"top", "beat"}
  BY <1>1, <1>2 DEF TypeOK, Connection
<1>4. Len(wire) \in Nat
  BY <1>1 DEF TypeOK
<1>5. ToNotice \in Nat
  BY <1>4 DEF ToNotice
<1> QED
  BY <1>1, <1>2, <1>3, <1>5 DEF Noticing, Polling, Readable, Unnoticed

LEMMA NoticeNearer ==
    ASSUME Inv, LastTold, Next, NEW c \in 1..MaxConn, Unnoticed(c)
    PROVE  cb' = Notice("OFFLINE", c) \/ (Unnoticed(c)' /\ ToNotice' < ToNotice)
<1>1. /\ TypeOK /\ socket = c /\ c > 0 /\ conn = c /\ ~peerOpen /\ cb # Notice("OFFLINE", c)
      /\ Len(wire) \in Nat /\ wire \in Seq(Byte)
  BY NoticeComing, ConnAssumption DEF Inv, Noticing, Unnoticed, TypeOK
<1>2. ASSUME Disconnect PROVE cb' = Notice("OFFLINE", c)
  BY <1>1, <1>2 DEF Disconnect
<1>3. CASE RecvFail \/ RecvBadMagic \/ HeartFail \/ \E n \in 1..Len(wire) : RecvTooShort(n)
  BY <1>2, <1>3 DEF RecvFail, RecvBadMagic, HeartFail, RecvTooShort
<1>4. CASE Exit
  BY <1>1, <1>4 DEF Exit
<1>5. ASSUME ConnectOk \/ ConnectFail \/ SelectTimeout \/ (\E m \in Msg : NvrSend(m))
             \/ \E n \in 0..Len(wire) : NvrClose(n)
      PROVE  FALSE
  BY <1>1, <1>5 DEF ConnectOk, ConnectFail, SelectTimeout, Readable, NvrSend, NvrClose
<1>6. CASE HeartPass
  BY <1>1, <1>6 DEF HeartPass, net, Unnoticed, ToNotice
<1>7. CASE DestroyConnect
  BY <1>1, <1>7 DEF DestroyConnect, net, Unnoticed, ToNotice
<1>8. ASSUME NEW n \in 1..Len(wire), pc = "top", pc' = "beat", run' = run,
             wire' = SubSeq(wire, n + 1, Len(wire))
      PROVE  ToNotice' < ToNotice
  <2>1. Len(wire') = Len(wire) - n
    BY <1>1, <1>8
  <2> QED
    <3> DEFINE r == IF run THEN 1 ELSE 0
    <3>1. ToNotice = 2 * Len(wire) + r
      BY <1>1, <1>8 DEF ToNotice
    <3>2. ToNotice' = 2 * (Len(wire) - n) + 1 + r
      BY <1>1, <1>8, <2>1 DEF ToNotice
    <3>3. 2 * (Len(wire) - n) + 1 + r < 2 * Len(wire) + r
      BY <1>1
    <3> QED
      BY <3>1, <3>2, <3>3
<1>9. CASE RecvHead
  <2>1. HdrLen \in 1..Len(wire)
    BY <1>1, <1>9 DEF RecvHead, Receive, HdrLen
  <2>2. /\ pc = "top" /\ pc' = "beat" /\ run' = run /\ wire' = SubSeq(wire, HdrLen + 1, Len(wire))
        /\ conn' = conn /\ peerOpen' = peerOpen /\ cb' = cb
    BY <1>9 DEF RecvHead, Receive, Polling
  <2> QED
    BY <1>1, <1>8, <2>1, <2>2 DEF Unnoticed
<1>10. ASSUME NEW n \in 1..Len(wire), RecvBody(n)
       PROVE  Unnoticed(c)' /\ ToNotice' < ToNotice
  <2>1. /\ pc = "top" /\ pc' = "beat" /\ run' = run /\ wire' = SubSeq(wire, n + 1, Len(wire))
        /\ conn' = conn /\ peerOpen' = peerOpen /\ cb'.kind = "MSG"
    BY <1>10 DEF RecvBody, Receive, Polling
  <2>2. cb' # Notice("OFFLINE", c)
    BY <2>1 DEF Notice
  <2> QED
    BY <1>1, <1>8, <2>1, <2>2 DEF Unnoticed
<1> QED
  BY <1>3, <1>4, <1>5, <1>6, <1>7, <1>9, <1>10 DEF Next, Thread, Env

\* A connection that the NVR has closed is reported (CloseNoticed) because until then the thread
\* has a step to take and never one that waits, every step brings the report nearer, and the
\* distance is a natural number.
THEOREM NoticeNears ==
    Spec => /\ [](\A c \in 1..MaxConn : Unnoticed(c) => ToNotice \in Nat /\ Noticing(c))
            /\ [][\A c \in 1..MaxConn : Unnoticed(c) =>
                    cb' = Notice("OFFLINE", c) \/ (Unnoticed(c)' /\ ToNotice' < ToNotice)]_vars
<1>1. Init => LastTold
  BY DEF Init, LastTold
<1>2. Inv /\ LastTold /\ [Next]_vars => LastTold'
  BY LastToldStep
<1>3. Inv /\ LastTold => \A c \in 1..MaxConn : Unnoticed(c) => ToNotice \in Nat /\ Noticing(c)
  BY NoticeComing
<1>4. Inv /\ LastTold /\ [Next]_vars =>
        [\A c \in 1..MaxConn : Unnoticed(c) =>
            cb' = Notice("OFFLINE", c) \/ (Unnoticed(c)' /\ ToNotice' < ToNotice)]_vars
  BY NoticeNearer
<1> QED
  BY <1>1, <1>2, <1>3, <1>4, Invariance, PTL DEF Spec
=============================================================================
