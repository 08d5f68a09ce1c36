----------------------------- MODULE FileNames -----------------------------
(***************************************************************************)
(* How SearchFileTimerSlots and SearchFileOver (UserMonitor.cpp) take the  *)
(* names of the recorded files out of the answers to a search.  A name     *)
(* ends in ".MP4", one answer holds several and may be filled up with      *)
(* zeros.  acData is not cleared between two answers: what an earlier,     *)
(* longer one has left there lies behind the present one.  Nor is an       *)
(* answer measured against it: one as long as acData is copied, and read,  *)
(* over its end.  What comes of that is undefined and the model ends there *)
(* (Outside).                                                              *)
(*                                                                         *)
(* A letter stands for any part of a name but the end, MP4 for the four    *)
(* characters ".MP4", so that lengths count symbols.                       *)
(***************************************************************************)
EXTENDS Integers, Sequences, SequencesExt, FiniteSets

CONSTANTS
    Letter,     \* the parts of names
    MP4, Zero,
    BufLen,     \* sizeof(acData)
    Texts,      \* what the messages may hold, sequences of symbols
    MaxPackets  \* bound: answers in a search

Symbol == Letter \cup {MP4, Zero}

ASSUME NamesAssumption ==
    /\ MP4 \notin Letter /\ Zero \notin Letter /\ MP4 # Zero
    /\ BufLen \in Nat \ {0}
    /\ \A a \in Texts : a \in Seq(Symbol) /\ Len(a) > 0
    /\ MaxPackets \in Nat

VARIABLES
    packets,    \* all answers of the search
    next,       \* the next one to be taken from the queue
    acData, iDataLen, iLeaveDataLen,
    pBefore,    \* where the next name begins, counted from 1; 0 when no answer is at work
    files       \* the names listed

namesVars == <<packets, next, acData, iDataLen, iLeaveDataLen, pBefore, files>>

\* PmsgProc copies an answer out of its message: strncpy puts zeros behind the first one.
Strncpy(a) == [i \in 1..Len(a) |-> IF \E j \in 1..i : a[j] = Zero THEN Zero ELSE a[i]]
Copies == {Strncpy(a) : a \in Texts}

Buffer(s) == s \o [i \in 1..(BufLen - Len(s)) |-> Zero]
\* memcpy into acData; what goes over its end ends the model.
Overwrite(buf, at, s) ==
    [i \in 1..BufLen |-> IF i > at /\ i <= at + Len(s) THEN s[i - at] ELSE buf[i]]

\* Where strstr(p, ".MP4") finds its string: the first one behind p, none if a zero comes first.
Strstr(p) ==
    {e \in p..BufLen : acData[e] = MP4 /\ \A i \in p..(e - 1) : acData[i] \notin {Zero, MP4}}

NamesInit ==
    /\ packets \in BoundedSeq(Copies, MaxPackets)
    /\ next = 1
    /\ acData = Buffer(<<>>) /\ iDataLen = 0 /\ iLeaveDataLen = 0
    /\ pBefore = 0 /\ files = <<>>

\* Mutant: the length of the answer is added to that of the one before.
TakePacket_AddUp ==
    /\ pBefore = 0 /\ next <= Len(packets)
    /\ LET a == packets[next] IN
       /\ acData' = Overwrite(acData, IF Len(a) + iLeaveDataLen < BufLen THEN iLeaveDataLen ELSE 0, a)
       /\ iDataLen' = Len(a) + iDataLen
    /\ iLeaveDataLen' = iDataLen'
    /\ next' = next + 1 /\ pBefore' = 1
    /\ UNCHANGED <<packets, files>>

\* An answer is put behind what the one before has left, if there is room.
TakePacket ==
    /\ pBefore = 0 /\ next <= Len(packets)
    /\ LET a == packets[next] IN
       /\ acData' = Overwrite(acData, IF Len(a) + iLeaveDataLen < BufLen THEN iLeaveDataLen ELSE 0, a)
       /\ iDataLen' = Len(a) + iLeaveDataLen
    /\ iLeaveDataLen' = iDataLen'
    /\ next' = next + 1 /\ pBefore' = 1
    /\ UNCHANGED <<packets, files>>

More == iLeaveDataLen > 0 /\ acData[pBefore] # Zero

\* The answer at work was copied over the end of acData, *pAfter is behind it, strstr finds
\* neither its string nor a zero in it, or what is left lies behind it.
Outside ==
    /\ pBefore > 0
    /\ \/ Len(packets[next - 1]) > BufLen
       \/ pBefore > BufLen
       \/ More /\ Strstr(pBefore) = {} /\ \A e \in pBefore..BufLen : acData[e] # Zero
       \/ ~More /\ iLeaveDataLen > 0 /\ iDataLen > BufLen

\* Mutant: the length of the end is not counted.
Name_EndNotCounted ==
    /\ pBefore > 0 /\ ~Outside /\ More
    /\ \E e \in Strstr(pBefore) :
       /\ files' = Append(files, SubSeq(acData, pBefore, e))
       /\ iLeaveDataLen' = iLeaveDataLen - (e - pBefore)
       /\ pBefore' = e + 1
    /\ UNCHANGED <<packets, next, acData, iDataLen>>

Name ==
    /\ pBefore > 0 /\ ~Outside /\ More
    /\ \E e \in Strstr(pBefore) :
       /\ files' = Append(files, SubSeq(acData, pBefore, e))
       /\ iLeaveDataLen' = iLeaveDataLen - (e - pBefore + 1)
       /\ pBefore' = e + 1
    /\ UNCHANGED <<packets, next, acData, iDataLen>>

\* Mutant: the loop is not left.
GiveUp_Goes ==
    /\ pBefore > 0 /\ ~Outside /\ More /\ Strstr(pBefore) = {}
    /\ UNCHANGED namesVars

\* No further end of a name: the rest is given up.
GiveUp ==
    /\ pBefore > 0 /\ ~Outside /\ More /\ Strstr(pBefore) = {}
    /\ iLeaveDataLen' = 0 /\ pBefore' = 0
    /\ UNCHANGED <<packets, next, acData, iDataLen, files>>

\* What is left behind the zeros, as a length; none if there is nothing but zeros.
Left ==
    {k \in 1..iLeaveDataLen :
        /\ acData[iDataLen - k + 1] # Zero
        /\ \A j \in (k + 1)..iLeaveDataLen : acData[iDataLen - j + 1] = Zero}

\* The answer is through: what is left moves to the front.
Through ==
    /\ pBefore > 0 /\ ~Outside /\ ~More
    /\ iLeaveDataLen' = IF Left = {} THEN 0 ELSE CHOOSE k \in Left : TRUE
    /\ acData' = IF iLeaveDataLen' = 0 THEN acData
                 ELSE Buffer(SubSeq(acData, iDataLen - iLeaveDataLen' + 1, iDataLen))
    /\ pBefore' = 0
    /\ UNCHANGED <<packets, next, iDataLen, files>>

NamesNext == TakePacket \/ Name \/ GiveUp \/ Through

NamesSpec == NamesInit /\ [][NamesNext]_namesVars /\ WF_namesVars(NamesNext)
-----------------------------------------------------------------------------
(* Properties *)

\* The variables have their types.
NamesTypeOK ==
    /\ next \in 1..(Len(packets) + 1)
    /\ Len(acData) = BufLen /\ Range(acData) \subseteq Symbol
    /\ iDataLen \in Nat /\ iLeaveDataLen \in Int /\ pBefore \in Nat
    /\ files \in Seq(Seq(Symbol))

AllTaken == pBefore = 0 /\ next > Len(packets)

\* An answer of whole names, filled up with zeros.
OfWholeNames(a) ==
    \E n \in 1..Len(a) :
        /\ a[n] = MP4 /\ \A i \in 1..n : a[i] # Zero
        /\ \A i \in (n + 1)..Len(a) : a[i] = Zero

\* Where names end in the answers, as <<answer, place>>, and which of two comes first.
Spots == UNION {{i} \X (1..Len(packets[i])) : i \in 1..Len(packets)}
NameEnds == {p \in Spots : packets[p[1]][p[2]] = MP4}
Upto(p, q) == p[1] < q[1] \/ (p[1] = q[1] /\ p[2] <= q[2])

\* The name that ends at p: what stands between the end before, or the front of the answer, and p.
NameBegin(a, e) == CHOOSE b \in 1..e : (b = 1 \/ a[b - 1] = MP4) /\ \A i \in b..(e - 1) : a[i] # MP4
NameAt(p) == SubSeq(packets[p[1]], NameBegin(packets[p[1]], p[2]), p[2])

\* The names of all answers, in order.
EndNr(k) == CHOOSE p \in NameEnds : Cardinality({q \in NameEnds : Upto(q, p)}) = k
Reference == [k \in 1..Cardinality(NameEnds) |-> NameAt(EndNr(k))]

\* Of answers that hold whole names, every name is listed, in order and once, and nothing of an
\* earlier answer that is still in the buffer is.  The list is complete when all are taken, which
\* none that goes over the end of acData ever is.
AllNames ==
    (\A i \in 1..Len(packets) : OfWholeNames(packets[i])) =>
        IsPrefix(files, Reference) /\ (AllTaken => files = Reference)

\* The loops stay inside acData unless the answer at work is itself as long as acData, whatever
\* the messages hold, cut names and what the answers before have left there included: strncpy
\* lets no answer leave anything that would be added to the next.
Inside ==
    /\ NamesTypeOK
    /\ Outside => Len(packets[next - 1]) >= BufLen
    /\ pBefore = 0 => iLeaveDataLen = 0

\* The loops over the names of an answer end, or run out of acData.
LoopsEnd == <>(AllTaken \/ Outside)
=============================================================================
