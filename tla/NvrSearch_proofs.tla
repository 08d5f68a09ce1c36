-------------------------- MODULE NvrSearch_proofs --------------------------
(***************************************************************************)
(* Proofs about the search for recorded files, for any NVRs, cameras and   *)
(* answers, and any number of clicks and messages; at the end, about how   *)
(* the names of the files are taken out of the answers (FileNames).        *)
(***************************************************************************)
EXTENDS NvrSearch, FileNames, SequenceTheorems, FiniteSetTheorems, TLAPS

Labels == {"idle", "searching", "clean", "send", "started", "accept", "other", "end", "over",
           "look", "read", "unlink", "last", "take", "pop", "finish"}
Local == [left : Nat, node : Node, cnt : Int, cam : Nat]

\* The cameras that were asked for are cameras of the carriage.
Asked ==
    /\ left \in Seq(Range(Cams))
    /\ queries > 0 => cam \in Range(Cams)
    /\ queries = 0 => /\ ~timer /\ ~g_bSearchDataReturn /\ g_eFileSearch = "IDLE" /\ flight = <<>>
                      /\ \A f \in Threads : pc[f] \in {"idle", "other"}

\* What every reachable state of the types satisfies.
Placed == pc \in [Threads -> Labels] /\ loc \in [Threads -> Local]
Known == overlap \in BOOLEAN /\ cut \subseteq Nat /\ queries \in Nat
Typed == TypeOK /\ Placed /\ Known

\* The cameras of the carriage.
LEMMA Names ==
    /\ Cams \in Seq(Nat) /\ Len(Cams) \in Nat \ {0} /\ Range(Cams) \subseteq Nat
    /\ Cams[1] \in Range(Cams) /\ Tail(Cams) \in Seq(Range(Cams))
  <1>1. Cams \in Seq(Nat \ {0}) /\ Cams # <<>>
    BY SearchAssumption
  <1>2. Cams \in Seq(Nat)
    BY <1>1, SeqMonotonic
  <1>3. Len(Cams) \in Nat \ {0} /\ Tail(Cams) \in Seq(Nat) /\ \A i \in 1..Len(Cams) : Cams[i] \in Nat
    BY <1>1, <1>2, EmptySeq, HeadTailProperties, ElementOfSeq
  <1>4. Range(Cams) \subseteq Nat
    BY <1>2, <1>3, LenProperties DEF Range
  <1>5. DOMAIN Cams = 1..Len(Cams)
    BY <1>2, LenProperties
  <1>6. Cams[1] \in Range(Cams) /\ Cams \in [1..Len(Cams) -> Range(Cams)]
    BY <1>2, <1>3, <1>5, LenProperties DEF Range
  <1>7. Cams \in Seq(Range(Cams))
    BY <1>3, <1>6, SeqDef
  <1>8. Tail(Cams) \in Seq(Range(Cams))
    BY <1>1, <1>7, HeadTailProperties
  <1> QED
    BY <1>1, <1>2, <1>3, <1>4, <1>6, <1>8

\* The empty node and the cleared local variables.
LEMMA Empties == Nil \in Local /\ NoNode \in Node
  BY DEF Nil, NoNode, Local, Node

\* The threads.
LEMMA Ids ==
    /\ SearchNvr \in Nvr /\ SearchNvr \in Threads /\ Ui \in Threads /\ Ui \notin Nvr
    /\ Nvr \subseteq Threads /\ SearchNvr # Ui
  BY SearchAssumption DEF Threads, Ui

\* Facts about sequences.
LEMMA SeqFacts ==
    ASSUME NEW S, NEW s \in Seq(S)
    PROVE  /\ Len(s) \in Nat /\ (s = <<>> <=> Len(s) = 0) /\ <<>> \in Seq(S)
           /\ \A i \in 1..Len(s) : s[i] \in S
           /\ Reverse(s) \in Seq(S)
           /\ \A e \in S : /\ Append(s, e) \in Seq(S) /\ Len(Append(s, e)) = Len(s) + 1
                           /\ Append(s, e)[Len(s) + 1] = e
                           /\ \A i \in 1..Len(s) : Append(s, e)[i] = s[i]
           /\ s # <<>> => /\ Head(s) = s[1] /\ Head(s) \in S /\ Tail(s) \in Seq(S)
                          /\ Len(Tail(s)) = Len(s) - 1
                          /\ \A i \in 1..Len(Tail(s)) : Tail(s)[i] = s[i + 1]
                          /\ Last(s) \in S /\ Front(s) \in Seq(S)
  <1>1. Len(s) \in Nat /\ (s = <<>> <=> Len(s) = 0) /\ <<>> \in Seq(S)
          /\ \A i \in 1..Len(s) : s[i] \in S
    BY EmptySeq, ElementOfSeq, LenProperties
  <1>2. Reverse(s) \in Seq(S)
    <2>1. \A i \in 1..Len(s) : s[(Len(s) - i) + 1] \in S
      BY <1>1
    <2>2. Reverse(s) \in [1..Len(s) -> S]
      BY <2>1 DEF Reverse
    <2> QED
      BY <1>1, <2>2, SeqDef
  <1>3. \A e \in S : /\ Append(s, e) \in Seq(S) /\ Len(Append(s, e)) = Len(s) + 1
                     /\ Append(s, e)[Len(s) + 1] = e
                     /\ \A i \in 1..Len(s) : Append(s, e)[i] = s[i]
    BY AppendProperties
  <1>4. ASSUME s # <<>>
        PROVE  /\ Head(s) = s[1] /\ Head(s) \in S /\ Tail(s) \in Seq(S)
               /\ Len(Tail(s)) = Len(s) - 1
               /\ \A i \in 1..Len(Tail(s)) : Tail(s)[i] = s[i + 1]
               /\ Last(s) \in S /\ Front(s) \in Seq(S)
    <2>1. Head(s) = s[1] /\ Head(s) \in S /\ Tail(s) \in Seq(S) /\ Len(Tail(s)) = Len(s) - 1
            /\ \A i \in 1..Len(Tail(s)) : Tail(s)[i] = s[i + 1]
      BY <1>4, HeadTailProperties
    <2>2. Last(s) \in S
      BY <1>1, <1>4 DEF Last
    <2>3. Front(s) \in Seq(S)
      BY <1>1, <1>4, SubSeqProperties DEF Front
    <2> QED
      BY <2>1, <2>2, <2>3
  <1> QED
    BY <1>1, <1>2, <1>3, <1>4

\* What an NVR answers about a camera.
LEMMA ReplyFacts ==
    ASSUME NEW c \in Range(Cams), queries \in Nat
    PROVE  Reply(c) \in Seq(Node) /\ \A i \in 1..Len(Reply(c)) : Reply(c)[i].cam = c
  <1>1. Answers[c] \in Nat /\ c \in Nat
    BY Names, SearchAssumption
  <1>2. \A k \in Nat : [cam |-> c, query |-> queries, nr |-> k] \in Node
    BY <1>1 DEF Node
  <1>3. CASE Answers[c] = 0
    <2>1. Reply(c) = <<[cam |-> c, query |-> queries, nr |-> 0]>>
      BY <1>3 DEF Reply
    <2> QED
      BY <2>1, <1>2
  <1>4. CASE Answers[c] # 0
    <2>1. Reply(c) = [i \in 1..Answers[c] |-> [cam |-> c, query |-> queries, nr |-> i]]
      BY <1>4 DEF Reply
    <2>2. Reply(c) \in [1..Answers[c] -> Node]
      BY <1>1, <1>2, <2>1
    <2>3. Reply(c) \in Seq(Node)
      BY <1>1, <2>2, SeqDef
    <2>4. Len(Reply(c)) = Answers[c]
      BY <1>1, <2>1, <2>2, <2>3, LenProperties
    <2> QED
      BY <1>1, <2>1, <2>3, <2>4
  <1> QED
    BY <1>3, <1>4

\* The cameras an answer is due for have numbers.
LEMMA DueFacts ==
    ASSUME flight \in Seq(Node), loc \in [Threads -> Local]
    PROVE  Due \subseteq Nat
  <1>1. \A i \in 1..Len(flight) : flight[i] \in Node
    BY SeqFacts
  <1>2. \A n \in Nvr : loc[n].node.cam \in Nat
    BY Ids DEF Local, Node
  <1> QED
    BY <1>1, <1>2 DEF Due, Node

\* Every step keeps the threads' places and local variables typed.
LEMMA PlacedStep ==
    ASSUME TypeOK, Placed, [Next]_vars
    PROVE  Placed'
  <1> USE DEF At, Goto, Rest
  <1>1. /\ \A f \in Threads, l \in Labels : [pc EXCEPT ![f] = l] \in [Threads -> Labels]
        /\ \A f \in Threads, r \in Local : [loc EXCEPT ![f] = r] \in [Threads -> Local]
        /\ pc \in [Threads -> Labels] /\ loc \in [Threads -> Local]
    BY DEF Placed
  <1>2. \A f \in Threads :
          /\ \A k \in Nat : [loc EXCEPT ![f].left = k] \in [Threads -> Local]
          /\ \A k \in Nat, c \in Nat : [loc EXCEPT ![f].left = k, ![f].cam = c] \in [Threads -> Local]
          /\ \A n \in Node : [loc EXCEPT ![f].node = n] \in [Threads -> Local]
          /\ \A k \in Int : [loc EXCEPT ![f].cnt = k] \in [Threads -> Local]
          /\ [loc EXCEPT ![f].node = NoNode, ![f].cnt = 0] \in [Threads -> Local]
    <2> SUFFICES ASSUME NEW f \in Threads
                 PROVE  /\ \A k \in Nat : [loc EXCEPT ![f].left = k] \in [Threads -> Local]
                        /\ \A k \in Nat, c \in Nat : [loc EXCEPT ![f].left = k, ![f].cam = c] \in [Threads -> Local]
                        /\ \A n \in Node : [loc EXCEPT ![f].node = n] \in [Threads -> Local]
                        /\ \A k \in Int : [loc EXCEPT ![f].cnt = k] \in [Threads -> Local]
                        /\ [loc EXCEPT ![f].node = NoNode, ![f].cnt = 0] \in [Threads -> Local]
      OBVIOUS
    <2>1. loc \in [Threads -> Local] /\ loc[f] \in Local
      BY DEF Placed
    <2>2. \A k \in Nat : [loc EXCEPT ![f].left = k] \in [Threads -> Local]
      BY <2>1 DEF Local
    <2>3. \A k \in Nat, c \in Nat : [loc EXCEPT ![f].left = k, ![f].cam = c] \in [Threads -> Local]
      BY <2>1 DEF Local
    <2>4. \A n \in Node : [loc EXCEPT ![f].node = n] \in [Threads -> Local]
      BY <2>1 DEF Local
    <2>5. \A k \in Int : [loc EXCEPT ![f].cnt = k] \in [Threads -> Local]
      BY <2>1 DEF Local
    <2>6. [loc EXCEPT ![f].node = NoNode, ![f].cnt = 0] \in [Threads -> Local]
      <3>1. \A n \in Node, k \in Int : [loc EXCEPT ![f].node = n, ![f].cnt = k] \in [Threads -> Local]
        BY <2>1 DEF Local
      <3> QED
        BY <3>1, Empties
    <2> QED
      BY <2>2, <2>3, <2>4, <2>5, <2>6
  <1>3. {"idle", "searching", "clean", "send", "started", "accept", "other", "end", "over", "look",
         "read", "unlink", "last", "take", "pop", "finish"} \subseteq Labels
    BY DEF Labels
  <1>4. Len(left) \in Nat /\ cam \in Nat /\ iPktCount \in Int
          /\ (queue # <<>> => Head(queue) \in Node) /\ (flight # <<>> => Head(flight) \in Node)
    BY SeqFacts DEF TypeOK
  <1>5. CASE Query
    BY <1>1, <1>3, <1>5, Empties, Ids DEF Query, Placed
  <1>6. CASE Tick
    BY <1>1, <1>3, <1>6, Empties, Ids DEF Tick, Placed
  <1>7. CASE Offline
    BY <1>1, <1>3, <1>7, Empties, Ids DEF Offline, Placed
  <1>8. CASE Online
    BY <1>1, <1>3, <1>8, Empties, Ids DEF Online, Placed
  <1>9. CASE \E n \in Nvr : Other(n)
    BY <1>1, <1>3, <1>9, Empties, Ids DEF Other, Placed
  <1>10. ASSUME NEW f \in Threads, Step(f) PROVE Placed'
    <2>1. CASE Searching(f)
      BY <1>1, <1>2, <1>3, <1>4, <1>10, <2>1, Empties, Ids DEF Searching, Placed
    <2>2. CASE Clean(f)
      BY <1>1, <1>2, <1>3, <1>4, <1>10, <2>2, Empties, Ids DEF Clean, Placed
    <2>3. CASE Send(f)
      BY <1>1, <1>2, <1>3, <1>4, <1>10, <2>3, Empties, Ids DEF Send, Placed
    <2>4. CASE SendFails(f)
      BY <1>1, <1>2, <1>3, <1>4, <1>10, <2>4, Empties, Ids DEF SendFails, Placed
    <2>5. CASE Begin(f)
      BY <1>1, <1>2, <1>3, <1>4, <1>10, <2>5, Empties, Ids DEF Begin, Placed
    <2>6. CASE NegativeOver(f)
      BY <1>1, <1>2, <1>3, <1>4, <1>10, <2>6, Empties, Ids DEF NegativeOver, Placed
    <2>7. CASE Look(f)
      BY <1>1, <1>2, <1>3, <1>4, <1>10, <2>7, Empties, Ids DEF Look, Placed
    <2>8. CASE Read(f)
      <3>1. CASE queue = <<>>
        BY <1>1, <2>8, <3>1 DEF Read, Placed
      <3>2. CASE queue # <<>>
        <4>1. loc' = [loc EXCEPT ![f].node = Head(queue)] /\ pc' = [pc EXCEPT ![f] = "unlink"]
          BY <2>8, <3>2 DEF Read
        <4> QED
          BY <1>1, <1>2, <1>3, <1>4, <1>10, <3>2, <4>1 DEF Placed
      <3> QED
        BY <3>1, <3>2
    <2>9. CASE Unlink(f)
      <3>1. CASE queue = <<>>
        BY <1>1, <2>9, <3>1 DEF Unlink, Placed
      <3>2. CASE queue # <<>>
        <4>1. loc' = loc /\ pc' = [pc EXCEPT ![f] = "last"]
          BY <2>9, <3>2 DEF Unlink
        <4> QED
          BY <1>1, <1>3, <1>10, <4>1 DEF Placed
      <3> QED
        BY <3>1, <3>2
    <2>10. CASE LastNode(f)
      BY <1>1, <1>2, <1>3, <1>4, <1>10, <2>10, Empties, Ids DEF LastNode, Placed
    <2>11. CASE Take(f)
      BY <1>1, <1>2, <1>3, <1>4, <1>10, <2>11, Empties, Ids DEF Take, Placed
    <2>12. CASE Pop(f)
      <3>1. CASE left = <<>>
        BY <1>1, <2>12, <3>1 DEF Pop, Placed
      <3>2. CASE left # <<>>
        <4>1. loc' = loc /\ pc' = [pc EXCEPT ![f] = "searching"]
          BY <2>12, <3>2 DEF Pop
        <4> QED
          BY <1>1, <1>3, <1>10, <4>1 DEF Placed
      <3> QED
        BY <3>1, <3>2
    <2>13. CASE Finish(f)
      BY <1>1, <1>2, <1>3, <1>4, <1>10, <2>13, Empties, Ids DEF Finish, Placed
    <2>14. CASE Started
      BY <1>1, <1>2, <1>3, <1>4, <1>10, <2>14, Empties, Ids DEF Started, Placed
    <2>15. CASE NegativeTick
      <3>1. \/ loc' = loc /\ pc' = [pc EXCEPT ![Ui] = "idle"]
            \/ loc' = [loc EXCEPT ![Ui].left = Len(left)] /\ pc' = [pc EXCEPT ![Ui] = "pop"]
        BY <2>15 DEF NegativeTick
      <3>2. [loc EXCEPT ![Ui].left = Len(left)] \in [Threads -> Local]
        BY <1>2, <1>4, Ids
      <3>3. loc' \in [Threads -> Local]
        BY <1>1, <3>1, <3>2
      <3>4. pc' \in [Threads -> Labels]
        BY <1>1, <1>3, <3>1, Ids
      <3> QED
        BY <3>3, <3>4 DEF Placed
    <2>16. CASE Answer
      <3>1. \/ loc' = loc /\ pc' = pc
            \/ /\ flight # <<>> /\ loc' = [loc EXCEPT ![SearchNvr].node = Head(flight)]
               /\ pc' = [pc EXCEPT ![SearchNvr] = "accept"]
        BY <2>16 DEF Answer
      <3>2. flight # <<>> => [loc EXCEPT ![SearchNvr].node = Head(flight)] \in [Threads -> Local]
        BY <1>2, <1>4, Ids
      <3>3. loc' \in [Threads -> Local]
        BY <1>1, <3>1, <3>2
      <3>4. pc' \in [Threads -> Labels]
        BY <1>1, <1>3, <3>1, Ids
      <3> QED
        BY <3>3, <3>4 DEF Placed
    <2>17. CASE Accept
      BY <1>1, <1>2, <1>3, <1>4, <1>10, <2>17, Empties, Ids DEF Accept, Placed
    <2>18. CASE f \in Nvr /\ OtherMessage(f)
      BY <1>1, <1>2, <1>3, <1>4, <1>10, <2>18, Empties, Ids DEF OtherMessage, Placed
    <2>19. CASE f \in Nvr /\ End(f)
      BY <1>1, <1>2, <1>3, <1>4, <1>10, <2>19, Empties, Ids DEF End, Placed
    <2> QED
      BY <1>10, <2>1, <2>2, <2>3, <2>4, <2>5, <2>6, <2>7, <2>8, <2>9, <2>10, <2>11,
         <2>12, <2>13, <2>14, <2>15, <2>16, <2>17, <2>18, <2>19 DEF Step, SearchFile, Ending
  <1>11. CASE UNCHANGED vars
    BY <1>1, <1>11 DEF vars, Placed
  <1> QED
    BY <1>5, <1>6, <1>7, <1>8, <1>9, <1>10, <1>11 DEF Next

\* Every step keeps the types of the history.
LEMMA KnownStep ==
    ASSUME TypeOK, Placed, Known, [Next]_vars
    PROVE  Known'
  <1> USE DEF Known
  <1>1. Due \subseteq Nat /\ cam \in Nat
    BY DueFacts DEF TypeOK, Placed
  <1>2. \A f : Meets(f) => overlap' \in BOOLEAN
    BY DEF Meets
  <1>3. Cut => cut' \subseteq Nat
    BY <1>1 DEF Cut
  <1>4. CASE Query
    BY <1>2, <1>3, <1>4 DEF Query
  <1>5. CASE Tick
    BY <1>2, <1>5 DEF Tick, bounds
  <1>6. CASE Offline
    BY <1>3, <1>6 DEF Offline
  <1>7. CASE Online
    BY <1>7 DEF Online, ghosts, bounds
  <1>8. CASE \E n \in Nvr : Other(n)
    BY <1>8 DEF Other, ghosts
  <1>9. ASSUME NEW f \in Threads, Step(f) PROVE Known'
    <2>1. CASE Searching(f)
      BY <2>1 DEF Searching, ghosts, bounds
    <2>2. CASE Clean(f)
      BY <2>2 DEF Clean, ghosts, bounds
    <2>3. CASE Send(f)
      BY <2>3 DEF Send, ghosts, bounds
    <2>4. CASE SendFails(f)
      BY <1>1, <2>4 DEF SendFails, bounds
    <2>5. CASE Begin(f)
      BY <1>3, <2>5 DEF Begin, bounds
    <2>6. CASE NegativeOver(f)
      BY <1>3, <2>6 DEF NegativeOver, bounds
    <2>7. CASE Look(f)
      BY <2>7 DEF Look, ghosts, bounds
    <2>8. CASE Read(f)
      BY <2>8 DEF Read, ghosts, bounds
    <2>9. CASE Unlink(f)
      BY <2>9 DEF Unlink, ghosts, bounds
    <2>10. CASE LastNode(f)
      BY <2>10 DEF LastNode, ghosts, bounds
    <2>11. CASE Take(f)
      BY <2>11 DEF Take, ghosts, bounds
    <2>12. CASE Pop(f)
      BY <2>12 DEF Pop, ghosts, bounds
    <2>13. CASE Finish(f)
      BY <2>13 DEF Finish, ghosts, bounds
    <2>14. CASE Started
      BY <2>14 DEF Started, ghosts, bounds
    <2>15. CASE NegativeTick
      BY <1>3, <2>15 DEF NegativeTick, bounds
    <2>16. CASE Answer
      BY <2>16 DEF Answer, ghosts, bounds
    <2>17. CASE Accept
      BY <2>17 DEF Accept, ghosts, bounds
    <2>18. CASE f \in Nvr /\ OtherMessage(f)
      BY <2>18 DEF OtherMessage, ghosts, bounds
    <2>19. CASE f \in Nvr /\ End(f)
      BY <1>2, <1>3, <2>19 DEF End, bounds
    <2> QED
      BY <1>9, <2>1, <2>2, <2>3, <2>4, <2>5, <2>6, <2>7, <2>8, <2>9, <2>10, <2>11,
         <2>12, <2>13, <2>14, <2>15, <2>16, <2>17, <2>18, <2>19 DEF Step, SearchFile, Ending
  <1>10. CASE UNCHANGED vars
    BY <1>10 DEF vars, ghosts, bounds
  <1> QED
    BY <1>4, <1>5, <1>6, <1>7, <1>8, <1>9, <1>10 DEF Next

\* Every step keeps the cameras asked for among those of the carriage.
LEMMA AskedStep ==
    ASSUME Typed, Asked, [Next]_vars
    PROVE  Asked'
  <1>1. queries \in Nat /\ pc \in [Threads -> Labels] /\ left \in Seq(Range(Cams))
          /\ (queries > 0 => cam \in Range(Cams))
    BY DEF Typed, Known, Placed, Asked
  <1>2. ASSUME queries > 0, queries' = queries, left' = left, cam' = cam PROVE Asked'
    BY <1>1, <1>2 DEF Asked
  <1>3. queries = 0 => /\ ~timer /\ ~g_bSearchDataReturn /\ g_eFileSearch = "IDLE" /\ flight = <<>>
                       /\ \A f \in Threads : pc[f] \in {"idle", "other"}
    BY DEF Asked
  <1>4. CASE Query
    <2>1. queries' = queries + 1 /\ queries' # 0
      BY <1>1, <1>4 DEF Query
    <2>2. left' \in Seq(Range(Cams)) /\ cam' \in Range(Cams)
      <3>1. <<>> \in Seq(Range(Cams)) /\ Reverse(Tail(Cams)) \in Seq(Range(Cams))
        BY Names, SeqFacts
      <3> QED
        BY <1>4, <3>1, Names DEF Query
    <2> QED
      BY <2>1, <2>2 DEF Asked
  <1>5. CASE Tick
    BY <1>1, <1>2, <1>3, <1>5 DEF Tick, search, bounds
  <1>6. CASE Offline
    <2>1. queries' = queries /\ left' = left /\ cam' = cam /\ flight' = <<>> /\ timer' = timer
            /\ g_bSearchDataReturn' = g_bSearchDataReturn /\ g_eFileSearch' = g_eFileSearch
            /\ pc' = [pc EXCEPT ![SearchNvr] = "other"]
      BY <1>6 DEF Offline, search, shared, Goto
    <2> QED
      BY <1>1, <1>3, <2>1 DEF Asked
  <1>7. CASE Online
    <2>1. queries' = queries /\ left' = left /\ cam' = cam /\ flight' = flight /\ timer' = timer
            /\ g_bSearchDataReturn' = g_bSearchDataReturn /\ g_eFileSearch' = g_eFileSearch
            /\ pc' = [pc EXCEPT ![SearchNvr] = "other"]
      BY <1>7 DEF Online, search, shared, bounds, Goto
    <2> QED
      BY <1>1, <1>3, <2>1 DEF Asked
  <1>8. ASSUME NEW n \in Nvr, Other(n) PROVE Asked'
    <2>1. queries' = queries /\ left' = left /\ cam' = cam /\ flight' = flight /\ timer' = timer
            /\ g_bSearchDataReturn' = g_bSearchDataReturn /\ g_eFileSearch' = g_eFileSearch
            /\ pc' = [pc EXCEPT ![n] = "other"]
      BY <1>8 DEF Other, search, shared, Goto
    <2> QED
      BY <1>1, <1>3, <2>1 DEF Asked
  <1>9. ASSUME NEW f \in Threads, Step(f) PROVE Asked'
    <2>1. CASE f \in Nvr /\ OtherMessage(f)
      <3>1. queries' = queries /\ left' = left /\ cam' = cam /\ flight' = flight /\ timer' = timer
              /\ g_bSearchDataReturn' = g_bSearchDataReturn /\ g_eFileSearch' = g_eFileSearch
              /\ (pc' = [pc EXCEPT ![f] = "idle"]
                  \/ (g_bSearchDataReturn /\ pc' = [pc EXCEPT ![f] = "end"]))
        BY <2>1 DEF OtherMessage, search, shared, bounds, Goto
      <3> QED
        BY <1>1, <1>3, <3>1 DEF Asked
    <2>2. CASE Answer
      <3>1. flight # <<>> /\ queries' = queries /\ left' = left /\ cam' = cam
        BY <2>2 DEF Answer, search, bounds
      <3> QED
        BY <1>1, <1>2, <1>3, <3>1
    <2>3. CASE Pop(f)
      <3>1. pc[f] = "pop" /\ queries' = queries
        BY <2>3 DEF Pop, At, bounds
      <3>2. queries > 0
        BY <1>1, <1>3, <1>9, <3>1
      <3>3. left' \in Seq(Range(Cams)) /\ cam' \in Range(Cams)
        BY <1>1, <2>3, <3>2, SeqFacts DEF Pop
      <3> QED
        BY <3>1, <3>2, <3>3 DEF Asked
    <2>4. CASE Searching(f)
      BY <1>1, <1>2, <1>3, <1>9, <2>4, Ids DEF Searching, At, search, bounds
    <2>5. CASE Clean(f)
      BY <1>1, <1>2, <1>3, <1>9, <2>5, Ids DEF Clean, At, search, bounds
    <2>6. CASE Send(f)
      BY <1>1, <1>2, <1>3, <1>9, <2>6, Ids DEF Send, At, search, bounds
    <2>7. CASE SendFails(f)
      BY <1>1, <1>2, <1>3, <1>9, <2>7, Ids DEF SendFails, At, search, bounds
    <2>8. CASE Begin(f)
      BY <1>1, <1>2, <1>3, <1>9, <2>8, Ids DEF Begin, At, search, bounds
    <2>9. CASE NegativeOver(f)
      BY <1>1, <1>2, <1>3, <1>9, <2>9, Ids DEF NegativeOver, At, search, bounds
    <2>10. CASE Look(f)
      BY <1>1, <1>2, <1>3, <1>9, <2>10, Ids DEF Look, At, search, bounds
    <2>11. CASE Read(f)
      BY <1>1, <1>2, <1>3, <1>9, <2>11, Ids DEF Read, At, search, bounds
    <2>12. CASE Unlink(f)
      BY <1>1, <1>2, <1>3, <1>9, <2>12, Ids DEF Unlink, At, search, bounds
    <2>13. CASE LastNode(f)
      BY <1>1, <1>2, <1>3, <1>9, <2>13, Ids DEF LastNode, At, search, bounds
    <2>14. CASE Take(f)
      BY <1>1, <1>2, <1>3, <1>9, <2>14, Ids DEF Take, At, search, bounds
    <2>15. CASE Finish(f)
      BY <1>1, <1>2, <1>3, <1>9, <2>15, Ids DEF Finish, At, search, bounds
    <2>16. CASE Started
      BY <1>1, <1>2, <1>3, <1>9, <2>16, Ids DEF Started, At, search, bounds
    <2>17. CASE NegativeTick
      BY <1>1, <1>2, <1>3, <1>9, <2>17, Ids DEF NegativeTick, At, search, bounds
    <2>18. CASE Accept
      BY <1>1, <1>2, <1>3, <1>9, <2>18, Ids DEF Accept, At, search, bounds
    <2>19. CASE f \in Nvr /\ End(f)
      BY <1>1, <1>2, <1>3, <1>9, <2>19, Ids DEF End, At, search, bounds
    <2> QED
      BY <1>9, <2>1, <2>2, <2>3, <2>4, <2>5, <2>6, <2>7, <2>8, <2>9, <2>10, <2>11,
         <2>12, <2>13, <2>14, <2>15, <2>16, <2>17, <2>18, <2>19 DEF Step, SearchFile, Ending
  <1>10. CASE UNCHANGED vars
    BY <1>10 DEF vars, search, shared, bounds, Asked
  <1> QED
    BY <1>4, <1>5, <1>6, <1>7, <1>8, <1>9, <1>10 DEF Next

Row == [cam : Nat, file : Node]

\* The types of the queue, of the search, and of the rest.
QueueTyped == queue \in Seq(Node) /\ dangling \in BOOLEAN /\ iPktCount \in Int /\ freed \subseteq Node
SearchTyped == timer \in BOOLEAN /\ iWaitCnt \in {0, 1} /\ left \in Seq(Nat) /\ cam \in Nat
LinkTyped == up \in BOOLEAN /\ flight \in Seq(Node) /\ crash \in BOOLEAN
FlagsTyped == g_eFileSearch \in {"IDLE", "SEARCHING"} /\ g_bSearchDataReturn \in BOOLEAN
ListTyped == list \in Seq(Row) /\ shown \in Seq(Row)

\* They are the type invariant.
LEMMA Types == TypeOK <=> QueueTyped /\ SearchTyped /\ LinkTyped /\ FlagsTyped /\ ListTyped
  BY DEF TypeOK, QueueTyped, SearchTyped, LinkTyped, FlagsTyped, ListTyped, Row

\* Every step keeps the types of the search, ...
LEMMA SearchTypedStep ==
    ASSUME Typed, Asked, [Next]_vars
    PROVE  SearchTyped'
  <1>1. SearchTyped /\ Range(Cams) \subseteq Nat
    BY Types, Names DEF Typed
  <1>2. left' \in Seq(Range(Cams))
    BY AskedStep DEF Asked
  <1>3. left' \in Seq(Nat)
    BY <1>1, <1>2, SeqMonotonic
  <1>4. timer' \in BOOLEAN /\ iWaitCnt' \in {0, 1} /\ cam' \in Nat
    <2>0. left # <<>> => Last(left) \in Nat
      BY <1>1, SeqFacts DEF SearchTyped
    <2>1. CASE Query
      BY <1>1, <2>1, Names DEF Query, SearchTyped
    <2>2. CASE Tick \/ Offline \/ Online \/ \E n \in Nvr : Other(n)
      BY <1>1, <2>2 DEF Tick, Offline, Online, Other, SearchTyped, search
    <2>3. ASSUME NEW f \in Threads, Step(f) PROVE timer' \in BOOLEAN /\ iWaitCnt' \in {0, 1} /\ cam' \in Nat
      <3>1. CASE SearchFile(f)
        BY <1>1, <3>1 DEF SearchFile, Searching, Clean, Send, SendFails, SearchTyped, search
      <3>2. CASE Ending(f)
        <4>1. CASE Begin(f)
          BY <1>1, <4>1 DEF Begin, SearchTyped
        <4>2. CASE NegativeOver(f)
          BY <1>1, <4>2 DEF NegativeOver, SearchTyped
        <4>3. CASE Look(f) \/ Read(f) \/ Unlink(f) \/ LastNode(f) \/ Take(f)
          BY <1>1, <4>3 DEF Look, Read, Unlink, LastNode, Take, SearchTyped, search
        <4>4. CASE Pop(f)
          BY <1>1, <2>0, <4>4 DEF Pop, SearchTyped
        <4>5. CASE Finish(f)
          BY <1>1, <4>5 DEF Finish, SearchTyped
        <4> QED
          BY <3>2, <4>1, <4>2, <4>3, <4>4, <4>5 DEF Ending
      <3>3. CASE Started
        BY <1>1, <3>3 DEF Started, SearchTyped
      <3>4. CASE NegativeTick
        BY <1>1, <3>4 DEF NegativeTick, SearchTyped
      <3>5. CASE Answer \/ Accept \/ OtherMessage(f) \/ End(f)
        BY <1>1, <3>5 DEF Answer, Accept, OtherMessage, End, SearchTyped, search
      <3> QED
        BY <2>3, <3>1, <3>2, <3>3, <3>4, <3>5 DEF Step
    <2>4. CASE UNCHANGED vars
      BY <1>1, <2>4 DEF vars, search, SearchTyped
    <2> QED
      BY <2>1, <2>2, <2>3, <2>4 DEF Next
  <1> QED
    BY <1>3, <1>4 DEF SearchTyped

\* ... of the queue, ...
LEMMA QueueTypedStep ==
    ASSUME Typed, [Next]_vars
    PROVE  QueueTyped'
  <1>1. QueueTyped /\ loc \in [Threads -> Local]
    BY Types DEF Typed, Placed
  <1>2. \A f \in Threads : loc[f].node \in Node /\ loc[f].cnt \in Int
    BY <1>1 DEF Local
  <1>3. ASSUME NEW f \in Threads, Step(f) PROVE QueueTyped'
    <2>1. CASE Clean(f)
      <3>1. queue' \in Seq(Node) /\ dangling' \in BOOLEAN /\ iPktCount' \in Int
        <4>1. <<>> \in Seq(Node)
          BY <1>1, SeqFacts DEF QueueTyped
        <4>2. queue' = <<>>
          BY <2>1 DEF Clean
        <4>3. queue' \in Seq(Node)
          BY <4>1, <4>2, Zenon
        <4>4. dangling' = FALSE /\ iPktCount' = 0
          BY <2>1 DEF Clean
        <4>5. dangling' \in BOOLEAN
          BY <4>4
        <4>6. iPktCount' \in Int
          BY <4>4
        <4> QED
          BY <4>3, <4>5, <4>6
      <3>2. Held(f) \subseteq Node
        BY <1>2 DEF Held
      <3>3. freed' \subseteq Node
        BY <1>1, <2>1, <3>2 DEF Clean, QueueTyped
      <3> QED
        BY <3>1, <3>3 DEF QueueTyped
    <2>2. CASE Accept
      <3>1. loc[SearchNvr].node \in Node
        BY <1>2, Ids
      <3>2. Append(queue, loc[SearchNvr].node) \in Seq(Node)
        BY <1>1, <3>1, SeqFacts DEF QueueTyped
      <3>3. queue' \in Seq(Node)
        BY <1>1, <2>2, <3>2 DEF Accept, QueueTyped
      <3>4. dangling' = dangling /\ freed' = freed /\ iPktCount' \in {iPktCount, iPktCount + 1}
        BY <2>2 DEF Accept
      <3> QED
        BY <1>1, <3>3, <3>4 DEF QueueTyped
    <2>3. CASE Unlink(f)
      <3>1. queue # <<>> => Tail(queue) \in Seq(Node)
        BY <1>1, SeqFacts DEF QueueTyped
      <3> QED
        BY <1>1, <2>3, <3>1 DEF Unlink, QueueTyped
    <2>4. CASE LastNode(f)
      BY <1>1, <2>4 DEF LastNode, QueueTyped
    <2>5. CASE Take(f)
      <3>1. loc[f].node \in Node /\ loc[f].cnt \in Int
        BY <1>2, <1>3
      <3>2. freed' \subseteq Node
        BY <1>1, <2>5, <3>1 DEF Take, QueueTyped
      <3>3. queue' = queue /\ dangling' = dangling /\ iPktCount' = loc[f].cnt - 1
        BY <2>5 DEF Take
      <3> QED
        BY <1>1, <3>1, <3>2, <3>3 DEF QueueTyped
    <2>6. CASE Searching(f) \/ Send(f) \/ SendFails(f) \/ Begin(f) \/ NegativeOver(f) \/ Look(f)
      BY <1>1, <2>6 DEF Searching, Send, SendFails, Begin, NegativeOver, Look, fileQueue, QueueTyped
    <2>7. CASE Read(f) \/ Pop(f) \/ Finish(f) \/ Started \/ NegativeTick \/ Answer
      BY <1>1, <2>7 DEF Read, Pop, Finish, Started, NegativeTick, Answer, fileQueue, QueueTyped
    <2>8. CASE OtherMessage(f) \/ End(f)
      BY <1>1, <2>8 DEF OtherMessage, End, fileQueue, QueueTyped
    <2> QED
      BY <1>3, <2>1, <2>2, <2>3, <2>4, <2>5, <2>6, <2>7, <2>8 DEF Step, SearchFile, Ending
  <1>4. CASE Query \/ Tick \/ Offline \/ Online \/ \E n \in Nvr : Other(n)
    BY <1>1, <1>4 DEF Query, Tick, Offline, Online, Other, fileQueue, QueueTyped
  <1>5. CASE UNCHANGED vars
    BY <1>1, <1>5 DEF vars, fileQueue, QueueTyped
  <1> QED
    BY <1>3, <1>4, <1>5 DEF Next

\* ... of the connection, ...
LEMMA LinkTypedStep ==
    ASSUME Typed, Asked, [Next]_vars
    PROVE  LinkTyped'
  <1>1. LinkTyped /\ queries \in Nat
    BY Types DEF Typed, Known
  <1>2. ASSUME NEW f \in Threads, Step(f) PROVE LinkTyped'
    <2>1. CASE Send(f)
      <3>1. queries > 0
        BY <1>1, <1>2, <2>1 DEF Asked, Send, At
      <3>2. Reply(cam) \in Seq(Node)
        BY <1>1, <3>1, ReplyFacts DEF Asked
      <3>3. flight' \in Seq(Node) /\ up' = up /\ crash' = crash
        BY <1>1, <2>1, <3>2, ConcatProperties DEF Send, LinkTyped
      <3> QED
        BY <1>1, <3>3 DEF LinkTyped
    <2>2. CASE Answer
      <3>1. flight # <<>> /\ flight' = Tail(flight) /\ up' = up /\ crash' = crash
        BY <2>2 DEF Answer
      <3> QED
        BY <1>1, <3>1, SeqFacts DEF LinkTyped
    <2>3. CASE Searching(f) \/ Clean(f) \/ SendFails(f) \/ Begin(f) \/ NegativeOver(f) \/ Look(f)
      BY <1>1, <2>3 DEF Searching, Clean, SendFails, Begin, NegativeOver, Look, LinkTyped
    <2>4. CASE Read(f) \/ Unlink(f) \/ LastNode(f) \/ Take(f) \/ Pop(f) \/ Finish(f)
      BY <1>1, <2>4 DEF Read, Unlink, LastNode, Take, Pop, Finish, LinkTyped
    <2>5. CASE Started \/ NegativeTick \/ Accept \/ OtherMessage(f) \/ End(f)
      BY <1>1, <2>5 DEF Started, NegativeTick, Accept, OtherMessage, End, LinkTyped
    <2> QED
      BY <1>2, <2>1, <2>2, <2>3, <2>4, <2>5 DEF Step, SearchFile, Ending
  <1>3. CASE Query \/ Tick \/ Online \/ \E n \in Nvr : Other(n)
    BY <1>1, <1>3 DEF Query, Tick, Online, Other, LinkTyped
  <1>4. CASE Offline
    <2>1. <<>> \in Seq(Node)
      BY <1>1, SeqFacts DEF LinkTyped
    <2> QED
      BY <1>1, <1>4, <2>1 DEF Offline, LinkTyped
  <1>5. CASE UNCHANGED vars
    BY <1>1, <1>5 DEF vars, LinkTyped
  <1> QED
    BY <1>2, <1>3, <1>4, <1>5 DEF Next

\* ... of the two shared flags, ...
LEMMA FlagsTypedStep ==
    ASSUME Typed, [Next]_vars
    PROVE  FlagsTyped'
  <1>1. FlagsTyped
    BY Types DEF Typed
  <1>2. ASSUME NEW f \in Threads, Step(f) PROVE FlagsTyped'
    <2>1. CASE Searching(f) \/ Clean(f) \/ Send(f) \/ SendFails(f) \/ Begin(f) \/ NegativeOver(f) \/ Look(f)
      BY <1>1, <2>1 DEF Searching, Clean, Send, SendFails, Begin, NegativeOver, Look, FlagsTyped, shared
    <2>2. CASE Read(f) \/ Unlink(f) \/ LastNode(f) \/ Take(f) \/ Pop(f) \/ Finish(f)
      BY <1>1, <2>2 DEF Read, Unlink, LastNode, Take, Pop, Finish, FlagsTyped, shared
    <2>3. CASE Started \/ NegativeTick \/ Answer \/ Accept \/ OtherMessage(f) \/ End(f)
      BY <1>1, <2>3 DEF Started, NegativeTick, Answer, Accept, OtherMessage, End, FlagsTyped, shared
    <2> QED
      BY <1>2, <2>1, <2>2, <2>3 DEF Step, SearchFile, Ending
  <1>3. CASE Query \/ Tick \/ Offline \/ Online \/ \E n \in Nvr : Other(n)
    BY <1>1, <1>3 DEF Query, Tick, Offline, Online, Other, FlagsTyped, shared
  <1>4. CASE UNCHANGED vars
    BY <1>1, <1>4 DEF vars, shared, FlagsTyped
  <1> QED
    BY <1>2, <1>3, <1>4 DEF Next

\* ... and of the list and the table.
LEMMA ListTypedStep ==
    ASSUME Typed, [Next]_vars
    PROVE  ListTyped'
  <1>1. ListTyped /\ loc \in [Threads -> Local]
    BY Types DEF Typed, Placed
  <1>2. ASSUME NEW f \in Threads, Step(f) PROVE ListTyped'
    <2>1. CASE Started
      <3>1. <<>> \in Seq(Row)
        BY <1>1, SeqFacts DEF ListTyped
      <3> QED
        BY <2>1, <3>1 DEF Started, ListTyped
    <2>2. CASE Take(f)
      <3>1. [cam |-> loc[f].cam, file |-> loc[f].node] \in Row
        BY <1>1, <1>2 DEF Local, Row
      <3>2. Append(list, [cam |-> loc[f].cam, file |-> loc[f].node]) \in Seq(Row)
        BY <1>1, <3>1, SeqFacts DEF ListTyped
      <3> QED
        BY <1>1, <2>2, <3>2 DEF Take, ListTyped
    <2>3. CASE Searching(f) \/ Clean(f) \/ Send(f) \/ SendFails(f) \/ Begin(f) \/ NegativeOver(f) \/ Look(f)
      BY <1>1, <2>3 DEF Searching, Clean, Send, SendFails, Begin, NegativeOver, Look, ListTyped, result
    <2>4. CASE Read(f) \/ Unlink(f) \/ LastNode(f) \/ Pop(f) \/ Finish(f)
      BY <1>1, <2>4 DEF Read, Unlink, LastNode, Pop, Finish, ListTyped, result
    <2>5. CASE NegativeTick \/ Answer \/ Accept \/ OtherMessage(f) \/ End(f)
      BY <1>1, <2>5 DEF NegativeTick, Answer, Accept, OtherMessage, End, ListTyped, result
    <2> QED
      BY <1>2, <2>1, <2>2, <2>3, <2>4, <2>5 DEF Step, SearchFile, Ending
  <1>3. CASE Query \/ Tick \/ Offline \/ Online \/ \E n \in Nvr : Other(n)
    BY <1>1, <1>3 DEF Query, Tick, Offline, Online, Other, ListTyped, result
  <1>4. CASE UNCHANGED vars
    BY <1>1, <1>4 DEF vars, result, ListTyped
  <1> QED
    BY <1>2, <1>3, <1>4 DEF Next

\* Every step keeps the types.
LEMMA TypedStep == Typed /\ Asked /\ [Next]_vars => Typed' /\ Asked'
  <1> SUFFICES ASSUME Typed, Asked, [Next]_vars PROVE Typed' /\ Asked'
    OBVIOUS
  <1>1. TypeOK'
    BY Types, QueueTypedStep, SearchTypedStep, LinkTypedStep, FlagsTypedStep, ListTypedStep, PTL
  <1> QED
    BY <1>1, PlacedStep, KnownStep, AskedStep DEF Typed

-----------------------------------------------------------------------------
(* Nothing breaks without an overlap *)

\* At most one thread is at the end or the start of a search.
Alone == \A f, g \in Threads : Busy(f) /\ Busy(g) => f = g

\* What a thread has looked at still holds where it uses it.
Holds(f) ==
    /\ pc[f] \in {"read", "unlink"} => queue # <<>>
    /\ pc[f] \in {"look", "read", "unlink", "last", "take"} =>
         loc[f].left = Len(left) /\ loc[f].cam = cam
    /\ pc[f] = "pop" => left # <<>>

Sound == ~crash /\ freed = {} /\ Alone /\ \A f \in Threads : Holds(f)
Safe == ~overlap => Sound

\* A thread that is not busy needs nothing.
LEMMA Needless == \A f \in Threads : ~Busy(f) => Holds(f)
  BY DEF Busy, Holds

\* The same in the next state.
LEMMA NeedlessNext == \A f \in Threads : ~Busy(f)' => Holds(f)'
  BY DEF Busy, Holds

\* A busy thread moves: it stays the only one.
LEMMA BusyMove ==
    ASSUME Typed, Alone, NEW f \in Threads, NEW l, Busy(f), pc' = [pc EXCEPT ![f] = l]
    PROVE  /\ Alone' /\ pc'[f] = l
           /\ \A g \in Threads \ {f} : pc'[g] = pc[g] /\ ~Busy(g) /\ Holds(g)'
           /\ Held(f) = {}
  <1>1. pc'[f] = l /\ \A g \in Threads \ {f} : pc'[g] = pc[g]
    BY DEF Typed, Placed
  <1>2. \A g \in Threads \ {f} : ~Busy(g)
    BY DEF Alone
  <1>3. \A g \in Threads \ {f} : ~Busy(g)'
    BY <1>1, <1>2 DEF Busy
  <1>4. Alone'
    BY <1>3 DEF Alone
  <1>5. Held(f) = {}
    BY <1>2 DEF Held, Busy
  <1> QED
    BY <1>1, <1>2, <1>3, <1>4, <1>5, NeedlessNext

\* A thread that is not busy becomes busy, and no other is.
LEMMA FirstMove ==
    ASSUME Typed, NEW f \in Threads, NEW l, Meets(f), ~overlap', pc' = [pc EXCEPT ![f] = l]
    PROVE  /\ Alone' /\ pc'[f] = l
           /\ \A g \in Threads \ {f} : pc'[g] = pc[g] /\ ~Busy(g) /\ Holds(g)'
           /\ ~overlap
  <1>1. pc'[f] = l /\ \A g \in Threads \ {f} : pc'[g] = pc[g]
    BY DEF Typed, Placed
  <1>2. ~overlap /\ \A g \in Threads \ {f} : ~Busy(g)
    BY DEF Meets
  <1>3. \A g \in Threads \ {f} : ~Busy(g)'
    BY <1>1, <1>2 DEF Busy
  <1> QED
    BY <1>1, <1>2, <1>3, NeedlessNext DEF Alone

\* A connection's thread that is not busy moves without becoming busy; the queue may grow.
LEMMA OtherMove ==
    ASSUME Typed, Sound, NEW f \in Threads, NEW l \in {"idle", "accept", "other", "end"},
           pc' = [pc EXCEPT ![f] = l], ~Busy(f), queue # <<>> => queue' # <<>>,
           left' = left, cam' = cam, \A g \in Threads \ {f} : loc'[g] = loc[g]
    PROVE  Alone' /\ \A g \in Threads : Holds(g)'
  <1>1. pc'[f] = l /\ \A g \in Threads \ {f} : pc'[g] = pc[g]
    BY DEF Typed, Placed
  <1>2. ~Busy(f)'
    BY <1>1 DEF Busy
  <1>3. \A g \in Threads \ {f} : Busy(g)' <=> Busy(g)
    BY <1>1 DEF Busy
  <1>4. Alone'
    BY <1>2, <1>3 DEF Alone, Sound
  <1>5. ASSUME NEW g \in Threads \ {f} PROVE Holds(g)'
    BY <1>1, <1>5 DEF Holds, Sound
  <1> QED
    BY <1>2, <1>4, <1>5, NeedlessNext

\* The overlap is remembered.
LEMMA Remembered == Known /\ [Next]_vars => (overlap => overlap')
  <1> SUFFICES ASSUME [Next]_vars, overlap PROVE overlap'
    OBVIOUS
  <1>1. CASE Query \/ Tick \/ Offline \/ Online \/ \E n \in Nvr : Other(n)
    BY <1>1 DEF Query, Tick, Offline, Online, Other, Meets, ghosts
  <1>2. ASSUME NEW f \in Threads, Step(f) PROVE overlap'
    <2>1. CASE Searching(f) \/ Clean(f) \/ Send(f) \/ SendFails(f) \/ Begin(f) \/ NegativeOver(f) \/ Look(f)
      BY <2>1 DEF Searching, Clean, Send, SendFails, Begin, NegativeOver, Look, ghosts
    <2>2. CASE Read(f) \/ Unlink(f) \/ LastNode(f) \/ Take(f) \/ Pop(f) \/ Finish(f)
      BY <2>2 DEF Read, Unlink, LastNode, Take, Pop, Finish, ghosts
    <2>3. CASE Started \/ NegativeTick \/ Answer \/ Accept \/ OtherMessage(f) \/ End(f)
      BY <2>3 DEF Started, NegativeTick, Answer, Accept, OtherMessage, End, Meets, ghosts
    <2> QED
      BY <1>2, <2>1, <2>2, <2>3 DEF Step, SearchFile, Ending
  <1>3. CASE UNCHANGED vars
    BY <1>3 DEF vars, ghosts
  <1> QED
    BY <1>1, <1>2, <1>3 DEF Next

\* A step of a busy thread keeps what holds.
LEMMA BusySound ==
    ASSUME Typed, Sound, NEW f \in Threads,
           \/ SearchFile(f) \/ Ending(f)
           \/ f = Ui /\ (Started \/ NegativeTick)
    PROVE  Sound'
  <1>1. ~crash /\ freed = {} /\ Alone /\ Holds(f)
    BY DEF Sound
  <1>2. loc \in [Threads -> Local] /\ left \in Seq(Nat) /\ Len(left) \in Nat /\ (left = <<>> <=> Len(left) = 0)
    BY Types, SeqFacts DEF Typed, Placed, SearchTyped
  <1>3. ASSUME NEW l, pc[f] \notin {"idle", "accept", "other", "end"}, pc' = [pc EXCEPT ![f] = l],
               ~crash', freed' = {},
               l \in {"read", "unlink"} => queue' # <<>>,
               l \in {"look", "read", "unlink", "last", "take"} =>
                 loc'[f].left = Len(left') /\ loc'[f].cam = cam',
               l = "pop" => left' # <<>>
        PROVE  Sound'
    <2>1. Busy(f)
      BY <1>3 DEF Busy
    <2>2. Alone' /\ pc'[f] = l /\ \A g \in Threads \ {f} : Holds(g)'
      BY <1>1, <1>3, <2>1, BusyMove
    <2>3. Holds(f)'
      BY <1>3, <2>2 DEF Holds
    <2> QED
      BY <1>3, <2>2, <2>3 DEF Sound
  <1> USE DEF At, Goto
  <1>4. CASE Searching(f)
    BY <1>1, <1>3, <1>4 DEF Searching, fileQueue
  <1>5. CASE Clean(f)
    <2>1. Busy(f)
      BY <1>5 DEF Clean, Busy
    <2>2. Held(f) = {}
      BY <1>1, <1>5, <2>1, BusyMove DEF Clean
    <2>3. freed' = {}
      BY <1>1, <1>5, <2>2 DEF Clean
    <2> QED
      BY <1>1, <1>3, <1>5, <2>3 DEF Clean
  <1>6. CASE Send(f)
    BY <1>1, <1>3, <1>6 DEF Send, fileQueue
  <1>7. CASE SendFails(f)
    BY <1>1, <1>3, <1>7 DEF SendFails, fileQueue
  <1>8. CASE Begin(f)
    <2>1. loc'[f].left = Len(left) /\ loc'[f].cam = cam
      BY <1>2, <1>8 DEF Begin, Local
    <2>2. pc[f] = "over" /\ pc' = [pc EXCEPT ![f] = "look"] /\ crash' = crash /\ freed' = freed
            /\ left' = left /\ cam' = cam
      BY <1>8 DEF Begin, fileQueue
    <2> QED
      BY <1>1, <1>3, <2>1, <2>2
  <1>9. CASE NegativeOver(f)
    BY <1>1, <1>3, <1>9 DEF NegativeOver, fileQueue
  <1>10. CASE Look(f)
    <2>1. loc[f].left = Len(left) /\ loc[f].cam = cam
      BY <1>1, <1>10 DEF Look, Holds
    <2>2. crash' = crash /\ freed' = freed /\ queue' = queue /\ left' = left /\ cam' = cam /\ loc' = loc
      BY <1>10 DEF Look, fileQueue, search
    <2>3. pc[f] = "look"
      BY <1>10 DEF Look
    <2>4. CASE queue # <<>>
      <3>1. pc' = [pc EXCEPT ![f] = "read"]
        BY <1>10, <2>4 DEF Look
      <3> QED
        BY <1>1, <1>3, <2>1, <2>2, <2>3, <2>4, <3>1
    <2>5. CASE queue = <<>> /\ loc[f].left > 0
      <3>1. pc' = [pc EXCEPT ![f] = "pop"]
        BY <1>10, <2>5 DEF Look
      <3>2. left # <<>>
        BY <1>2, <2>1, <2>5
      <3> QED
        BY <1>1, <1>3, <2>2, <2>3, <3>1, <3>2
    <2>6. CASE queue = <<>> /\ ~(loc[f].left > 0)
      <3>1. pc' = [pc EXCEPT ![f] = "finish"]
        BY <1>10, <2>6 DEF Look
      <3> QED
        BY <1>1, <1>3, <2>2, <2>3, <3>1
    <2> QED
      BY <2>4, <2>5, <2>6
  <1>11. CASE Read(f)
    <2>1. queue # <<>> /\ loc[f].left = Len(left) /\ loc[f].cam = cam
      BY <1>1, <1>11 DEF Read, Holds
    <2>2. pc[f] = "read" /\ pc' = [pc EXCEPT ![f] = "unlink"] /\ crash' = crash /\ freed' = freed
            /\ queue' = queue /\ left' = left /\ cam' = cam
            /\ loc' = [loc EXCEPT ![f].node = Head(queue)]
      BY <1>11, <2>1 DEF Read, fileQueue, search
    <2>3. loc'[f].left = loc[f].left /\ loc'[f].cam = loc[f].cam
      BY <1>2, <2>2 DEF Local
    <2> QED
      BY <1>1, <1>3, <2>1, <2>2, <2>3
  <1>12. CASE Unlink(f)
    <2>1. queue # <<>> /\ loc[f].left = Len(left) /\ loc[f].cam = cam
      BY <1>1, <1>12 DEF Unlink, Holds
    <2>2. pc[f] = "unlink" /\ pc' = [pc EXCEPT ![f] = "last"] /\ crash' = crash /\ freed' = freed
            /\ left' = left /\ cam' = cam /\ loc' = loc
      BY <1>12, <2>1 DEF Unlink, search
    <2> QED
      BY <1>1, <1>3, <2>1, <2>2
  <1>13. CASE LastNode(f)
    <2>1. loc[f].left = Len(left) /\ loc[f].cam = cam
      BY <1>1, <1>13 DEF LastNode, Holds
    <2>2. pc[f] = "last" /\ pc' = [pc EXCEPT ![f] = "take"] /\ crash' = crash /\ freed' = freed
            /\ left' = left /\ cam' = cam /\ loc' = [loc EXCEPT ![f].cnt = iPktCount]
      BY <1>13 DEF LastNode, search
    <2>3. loc'[f].left = loc[f].left /\ loc'[f].cam = loc[f].cam
      BY <1>2, <2>2 DEF Local
    <2> QED
      BY <1>1, <1>3, <2>1, <2>2, <2>3
  <1>14. CASE Take(f)
    <2>1. loc[f].left = Len(left) /\ loc[f].cam = cam
      BY <1>1, <1>14 DEF Take, Holds
    <2>2. Busy(f) /\ pc[f] = "take" /\ pc' = [pc EXCEPT ![f] = "look"]
      BY <1>14 DEF Take, Busy
    <2>3. Held(f) = {}
      BY <1>1, <2>2, BusyMove
    <2>4. crash' = crash /\ freed' = {}
      BY <1>1, <1>14, <2>3 DEF Take
    <2>5. left' = left /\ cam' = cam /\ loc' = [loc EXCEPT ![f].node = NoNode, ![f].cnt = 0]
      BY <1>14 DEF Take, search
    <2>6. loc'[f].left = loc[f].left /\ loc'[f].cam = loc[f].cam
      BY <1>2, <2>5 DEF Local
    <2> QED
      BY <1>1, <1>3, <2>1, <2>2, <2>4, <2>5, <2>6
  <1>15. CASE Pop(f)
    <2>1. left # <<>>
      BY <1>1, <1>15 DEF Pop, Holds
    <2>2. pc[f] = "pop" /\ pc' = [pc EXCEPT ![f] = "searching"] /\ crash' = crash /\ freed' = freed
      BY <1>15, <2>1 DEF Pop, fileQueue
    <2> QED
      BY <1>1, <1>3, <2>2
  <1>16. CASE Finish(f)
    BY <1>1, <1>3, <1>16 DEF Finish, fileQueue
  <1>17. CASE f = Ui /\ Started
    BY <1>1, <1>3, <1>17 DEF Started, fileQueue
  <1>18. CASE f = Ui /\ NegativeTick
    <2>1. pc[f] = "over" /\ crash' = crash /\ freed' = freed /\ left' = left
      BY <1>18 DEF NegativeTick, fileQueue
    <2>2. pc' = [pc EXCEPT ![f] = "idle"] \/ (left # <<>> /\ pc' = [pc EXCEPT ![f] = "pop"])
      BY <1>18 DEF NegativeTick
    <2> QED
      BY <1>1, <1>3, <2>1, <2>2
  <1> QED
    BY <1>4, <1>5, <1>6, <1>7, <1>8, <1>9, <1>10, <1>11, <1>12, <1>13, <1>14, <1>15, <1>16, <1>17, <1>18
       DEF SearchFile, Ending

\* Every step keeps what holds as long as threads do not overlap.
LEMMA SafeStep ==
    ASSUME Typed, Safe, [Next]_vars
    PROVE  Safe'
  <1> SUFFICES ASSUME ~overlap' PROVE Sound'
    BY DEF Safe
  <1>1. Sound /\ ~crash /\ freed = {}
    BY Remembered DEF Typed, Safe, Sound
  <1>2. loc \in [Threads -> Local]
    BY DEF Typed, Placed
  <1> USE DEF At, Goto
  <1>3. ASSUME NEW f \in Threads, NEW l \in {"searching", "over"}, Meets(f), pc' = [pc EXCEPT ![f] = l],
               ~crash', freed' = freed
        PROVE  Sound'
    <2>1. Alone' /\ pc'[f] = l /\ \A g \in Threads \ {f} : Holds(g)'
      BY <1>3, FirstMove
    <2>2. Holds(f)'
      BY <2>1 DEF Holds
    <2> QED
      BY <1>1, <1>3, <2>1, <2>2 DEF Sound
  <1>4. ASSUME NEW f \in Threads, NEW l \in {"idle", "accept", "other", "end"},
               pc[f] \in {"idle", "accept", "other", "end"},
               pc' = [pc EXCEPT ![f] = l], queue # <<>> => queue' # <<>>,
               left' = left, cam' = cam, \A g \in Threads \ {f} : loc'[g] = loc[g],
               ~crash', freed' = freed
        PROVE  Sound'
    <2>1. ~Busy(f)
      BY <1>4 DEF Busy
    <2>2. Alone' /\ \A g \in Threads : Holds(g)'
      BY <1>1, <1>4, <2>1, OtherMove
    <2> QED
      BY <1>1, <1>4, <2>2 DEF Sound
  <1>5. CASE Query
    BY <1>1, <1>3, <1>5, Ids DEF Query, fileQueue
  <1>6. CASE Tick
    BY <1>1, <1>3, <1>6, Ids DEF Tick, fileQueue
  <1>7. CASE Offline
    <2>1. pc[SearchNvr] = "idle" /\ pc' = [pc EXCEPT ![SearchNvr] = "other"] /\ queue' = queue
            /\ left' = left /\ cam' = cam /\ loc' = loc /\ crash' = crash /\ freed' = freed
      BY <1>7 DEF Offline, fileQueue, search
    <2> QED
      BY <1>1, <1>4, <2>1, Ids
  <1>8. CASE Online
    <2>1. pc[SearchNvr] = "idle" /\ pc' = [pc EXCEPT ![SearchNvr] = "other"] /\ queue' = queue
            /\ left' = left /\ cam' = cam /\ loc' = loc /\ crash' = crash /\ freed' = freed
      BY <1>8 DEF Online, fileQueue, search
    <2> QED
      BY <1>1, <1>4, <2>1, Ids
  <1>9. ASSUME NEW n \in Nvr, Other(n) PROVE Sound'
    <2>1. pc[n] = "idle" /\ pc' = [pc EXCEPT ![n] = "other"] /\ queue' = queue
            /\ left' = left /\ cam' = cam /\ loc' = loc /\ crash' = crash /\ freed' = freed
      BY <1>9 DEF Other, fileQueue, search
    <2> QED
      BY <1>1, <1>4, <2>1, Ids
  <1>10. ASSUME NEW f \in Threads, Step(f) PROVE Sound'
    <2>1. CASE SearchFile(f) \/ Ending(f) \/ (f = Ui /\ (Started \/ NegativeTick))
      BY <1>1, <2>1, BusySound
    <2>2. CASE f = SearchNvr /\ Answer
      <3>1. pc[f] = "idle" /\ queue' = queue /\ left' = left /\ cam' = cam /\ crash' = crash /\ freed' = freed
        BY <2>2 DEF Answer, fileQueue, search
      <3>2. CASE g_eFileSearch = "SEARCHING"
        <4>1. pc' = [pc EXCEPT ![f] = "accept"] /\ loc' = [loc EXCEPT ![f].node = Head(flight)]
          BY <2>2, <3>2 DEF Answer
        <4>2. \A g \in Threads \ {f} : loc'[g] = loc[g]
          BY <1>2, <4>1
        <4> QED
          BY <1>1, <1>4, <3>1, <4>1, <4>2
      <3>3. CASE g_eFileSearch # "SEARCHING"
        <4>1. pc' = pc /\ loc' = loc
          BY <2>2, <3>3 DEF Answer
        <4>2. Alone' /\ \A g \in Threads : Holds(g)'
          BY <1>1, <3>1, <4>1 DEF Sound, Alone, Busy, Holds
        <4> QED
          BY <1>1, <3>1, <4>2 DEF Sound
      <3> QED
        BY <3>2, <3>3
    <2>3. CASE f = SearchNvr /\ Accept
      <3>1. pc[f] = "accept" /\ pc' = [pc EXCEPT ![f] = "idle"] /\ left' = left /\ cam' = cam
              /\ crash' = crash /\ freed' = freed /\ loc' = [loc EXCEPT ![f] = Nil]
              /\ queue' \in {queue, Append(queue, loc[SearchNvr].node)}
        BY <2>3 DEF Accept, search, Rest
      <3>2. queue # <<>> => queue' # <<>>
        <4>1. queue \in Seq(Node) /\ loc[SearchNvr].node \in Node
          BY <1>2, Types, Ids DEF Typed, QueueTyped, Local
        <4>2. Len(Append(queue, loc[SearchNvr].node)) = Len(queue) + 1 /\ Len(queue) \in Nat
                /\ Append(queue, loc[SearchNvr].node)[Len(queue) + 1] = loc[SearchNvr].node
          BY <4>1, SeqFacts
        <4>3. Append(queue, loc[SearchNvr].node) # <<>>
          BY <4>1, AppendProperties
        <4> QED
          BY <3>1, <4>3
      <3>3. \A g \in Threads \ {f} : loc'[g] = loc[g]
        BY <1>2, <3>1
      <3> QED
        BY <1>1, <1>4, <3>1, <3>2, <3>3
    <2>4. CASE f \in Nvr /\ OtherMessage(f)
      <3>1. pc[f] = "other" /\ queue' = queue /\ left' = left /\ cam' = cam /\ loc' = loc /\ crash' = crash
              /\ freed' = freed /\ \E l \in {"idle", "end"} : pc' = [pc EXCEPT ![f] = l]
        BY <2>4 DEF OtherMessage, fileQueue, search
      <3> QED
        BY <1>1, <1>4, <3>1
    <2>5. CASE f \in Nvr /\ End(f)
      BY <1>1, <1>3, <2>5 DEF End, fileQueue
    <2> QED
      BY <1>10, <2>1, <2>2, <2>3, <2>4, <2>5 DEF Step
  <1>11. CASE UNCHANGED vars
    BY <1>1, <1>11 DEF vars, fileQueue, search, Sound, Alone, Busy, Holds
  <1> QED
    BY <1>5, <1>6, <1>7, <1>8, <1>9, <1>10, <1>11 DEF Next

\* The first state.
LEMMA Start == Init => Typed /\ Asked /\ Safe
  <1> SUFFICES ASSUME Init PROVE Typed /\ Asked /\ Safe
    OBVIOUS
  <1> USE DEF Init
  <1>1. \A S : <<>> \in Seq(S)
    BY EmptySeq
  <1>2. Placed /\ Known
    BY Empties DEF Placed, Known, Labels
  <1>3. TypeOK
    <2>1. <<>> \in Seq(Node) /\ <<>> \in Seq(Nat) /\ <<>> \in Seq([cam : Nat, file : Node])
      BY <1>1
    <2>2. queue \in Seq(Node) /\ flight \in Seq(Node) /\ left \in Seq(Nat)
      BY <2>1, Zenon
    <2>3. list \in Seq([cam : Nat, file : Node]) /\ shown \in Seq([cam : Nat, file : Node])
      BY <2>1, Zenon
    <2>4. /\ up \in BOOLEAN /\ g_eFileSearch \in {"IDLE", "SEARCHING"} /\ g_bSearchDataReturn \in BOOLEAN
          /\ dangling \in BOOLEAN /\ freed \subseteq Node /\ timer \in BOOLEAN /\ crash \in BOOLEAN
      OBVIOUS
    <2>5. iPktCount \in Int /\ iWaitCnt \in {0, 1} /\ cam \in Nat
      OBVIOUS
    <2> QED
      BY <2>2, <2>3, <2>4, <2>5 DEF TypeOK
  <1>4. Asked
    BY <1>1 DEF Asked
  <1>5. \A f \in Threads : ~Busy(f)
    BY DEF Busy
  <1>6. Safe
    BY <1>5, Needless DEF Safe, Sound, Alone
  <1> QED
    BY <1>2, <1>3, <1>4, <1>6 DEF Typed

\* For any NVRs, cameras and answers: the variables have their types, and no thread uses a
\* freed or missing node or a camera that is not there unless two threads were at the end or
\* the start of a search at once.
THEOREM Invariance == Spec => []Inv
  <1>1. Init => Typed /\ Asked /\ Safe
    BY Start
  <1>2. Typed /\ Asked /\ Safe /\ [Next]_vars => (Typed /\ Asked /\ Safe)'
    BY TypedStep, SafeStep
  <1>3. Typed /\ Safe => Inv
    BY DEF Typed, Safe, Sound, Inv, CrashNeedsOverlap
  <1> QED
    BY <1>1, <1>2, <1>3, PTL DEF Spec

-----------------------------------------------------------------------------
(* A file is listed under its own camera *)

\* The cameras a file of the current search may be of.
Fit == cut \cup {cam}

Closing == {"look", "read", "unlink", "last", "take", "pop", "finish"}

\* Once an end has begun, whatever is still due was given up; what a thread has taken out of
\* the queue fits.
Given(f) ==
    /\ pc[f] \in Closing => Due \subseteq cut
    /\ pc[f] \in {"unlink", "last", "take"} => loc[f].node.cam \in Fit

\* Between the choice of the next camera and the cleaning the queue may hold anything.
QueueFits ==
    (\A f \in Threads : pc[f] \notin {"pop", "searching", "clean"}) =>
        \A i \in 1..Len(queue) : queue[i].cam \in Fit

Listed == \A i \in 1..Len(list) :
              list[i].cam # list[i].file.cam => list[i].file.cam \in cut

Fits == Due \subseteq Fit /\ QueueFits /\ Listed /\ \A f \in Threads : Given(f)
Sorted == ~overlap => Fits

\* A step that leaves the answers where they are.
LEMMA DueStays ==
    ASSUME Typed, NEW f \in Threads, NEW l, pc[f] # "accept", l # "accept",
           pc' = [pc EXCEPT ![f] = l], flight' = flight,
           \A g \in Threads \ {f} : loc'[g] = loc[g]
    PROVE  Due' = Due
  <1>1. pc'[f] = l /\ \A g \in Threads \ {f} : pc'[g] = pc[g]
    BY DEF Typed, Placed
  <1>2. {n \in Nvr : pc'[n] = "accept"} = {n \in Nvr : pc[n] = "accept"}
    BY <1>1, Ids
  <1>3. {loc'[n].node.cam : n \in {m \in Nvr : pc'[m] = "accept"}}
          = {loc[n].node.cam : n \in {m \in Nvr : pc[m] = "accept"}}
    BY <1>1, <1>2, Ids
  <1> QED
    BY <1>3 DEF Due

\* What is cut stays cut.
LEMMA CutGrows == [Next]_vars => cut \subseteq cut'
  <1> SUFFICES ASSUME [Next]_vars PROVE cut \subseteq cut'
    OBVIOUS
  <1>1. CASE Query \/ Tick \/ Offline \/ Online \/ \E n \in Nvr : Other(n)
    BY <1>1 DEF Query, Tick, Offline, Online, Other, Cut, ghosts
  <1>2. ASSUME NEW f \in Threads, Step(f) PROVE cut \subseteq cut'
    <2>1. CASE Searching(f) \/ Clean(f) \/ Send(f) \/ SendFails(f) \/ Begin(f) \/ NegativeOver(f) \/ Look(f)
      BY <2>1 DEF Searching, Clean, Send, SendFails, Begin, NegativeOver, Look, Cut, ghosts
    <2>2. CASE Read(f) \/ Unlink(f) \/ LastNode(f) \/ Take(f) \/ Pop(f) \/ Finish(f)
      BY <2>2 DEF Read, Unlink, LastNode, Take, Pop, Finish, ghosts
    <2>3. CASE Started \/ NegativeTick \/ Answer \/ Accept \/ OtherMessage(f) \/ End(f)
      BY <2>3 DEF Started, NegativeTick, Answer, Accept, OtherMessage, End, Cut, ghosts
    <2> QED
      BY <1>2, <2>1, <2>2, <2>3 DEF Step, SearchFile, Ending
  <1>3. CASE UNCHANGED vars
    BY <1>3 DEF vars, ghosts
  <1> QED
    BY <1>1, <1>2, <1>3 DEF Next

\* A busy thread's step: what is left to be shown when the other threads are at rest.
LEMMA BusyFits ==
    ASSUME Typed, Sound, Fits, NEW f \in Threads, NEW l, Busy(f), l # "accept",
           pc' = [pc EXCEPT ![f] = l], cut \subseteq cut', Due' \subseteq Fit',
           l \in Closing => Due' \subseteq cut',
           l \in {"unlink", "last", "take"} => loc'[f].node.cam \in Fit',
           Listed',
           l \in {"pop", "searching", "clean"} \/ \A i \in 1..Len(queue') : queue'[i].cam \in Fit'
    PROVE  Fits'
  <1>1. pc'[f] = l /\ \A g \in Threads \ {f} : pc'[g] = pc[g] /\ ~Busy(g)
    BY BusyMove DEF Sound
  <1>2. \A g \in Threads \ {f} : Given(g)'
    BY <1>1 DEF Given, Busy, Closing
  <1>3. Given(f)'
    BY <1>1 DEF Given
  <1>4. QueueFits'
    BY <1>1 DEF QueueFits
  <1> QED
    BY <1>2, <1>3, <1>4 DEF Fits

\* Rows stay right while the list stays.
LEMMA ListStays == ASSUME Listed, list' = list, cut \subseteq cut' PROVE Listed'
  BY DEF Listed

\* The cameras of answers are theirs.
LEMMA DueElements ==
    /\ \A i \in 1..Len(flight) : flight[i].cam \in Due
    /\ \A n \in Nvr : pc[n] = "accept" => loc[n].node.cam \in Due
  BY DEF Due

\* The step of a thread that is not at the end of a search, and does not choose a camera.
LEMMA OtherFits ==
    ASSUME Typed, Fits, NEW f \in Threads, NEW l \in {"idle", "accept", "other", "end", "over"},
           ~Busy(f), pc' = [pc EXCEPT ![f] = l], cut \subseteq cut', cam' = cam,
           Due' \subseteq Due, \A g \in Threads \ {f} : loc'[g] = loc[g], list' = list,
           (\A i \in 1..Len(queue) : queue[i].cam \in Fit)
             => (\A i \in 1..Len(queue') : queue'[i].cam \in Fit')
    PROVE  Fits'
  <1>1. pc'[f] = l /\ \A g \in Threads \ {f} : pc'[g] = pc[g]
    BY DEF Typed, Placed
  <1>2. Fit \subseteq Fit'
    BY DEF Fit
  <1>3. Due' \subseteq Fit'
    BY <1>2 DEF Fits
  <1>4. ASSUME NEW g \in Threads \ {f} PROVE Given(g)'
    BY <1>1, <1>2, <1>4 DEF Given, Fits
  <1>5. Given(f)'
    BY <1>1 DEF Given, Closing
  <1>6. QueueFits'
    <2>1. (\A g \in Threads : pc'[g] \notin {"pop", "searching", "clean"})
            => (\A g \in Threads : pc[g] \notin {"pop", "searching", "clean"})
      BY <1>1 DEF Busy
    <2> QED
      BY <2>1 DEF QueueFits, Fits
  <1>7. Listed'
    BY ListStays DEF Fits
  <1> QED
    BY <1>3, <1>4, <1>5, <1>6, <1>7 DEF Fits

\* The steps at the end and the start of a search.
LEMMA BusyFitsStep ==
    ASSUME Typed, Asked, Sound, Fits, cut \subseteq cut', NEW f \in Threads,
           \/ SearchFile(f) \/ Ending(f)
           \/ f = Ui /\ (Started \/ NegativeTick)
    PROVE  Fits'
  <1> USE DEF At, Goto
  <1>1. /\ loc \in [Threads -> Local] /\ queue \in Seq(Node) /\ flight \in Seq(Node)
        /\ list \in Seq(Row)
    BY Types DEF Typed, Placed, QueueTyped, LinkTyped, ListTyped
  <1>2. Due \subseteq Fit /\ Listed /\ Given(f) /\ Holds(f)
    BY DEF Fits, Sound
  <1>3. ASSUME Busy(f), pc[f] \notin {"pop", "searching", "clean"}
        PROVE  \A i \in 1..Len(queue) : queue[i].cam \in Fit
    <2>1. \A g \in Threads \ {f} : ~Busy(g)
      BY <1>3 DEF Sound, Alone
    <2>2. \A g \in Threads : pc[g] \notin {"pop", "searching", "clean"}
      BY <1>3, <2>1 DEF Busy
    <2> QED
      BY <2>2 DEF Fits, QueueFits
  <1>4. cam' = cam => Fit \subseteq Fit'
    BY DEF Fit
  <1>5. ASSUME NEW l \in Labels, Busy(f), l # "accept", pc' = [pc EXCEPT ![f] = l],
               flight' = flight, \A g \in Threads \ {f} : loc'[g] = loc[g],
               cam' = cam, queue' = queue, list' = list,
               pc[f] \notin {"pop", "searching", "clean"} \/ l \in {"pop", "searching", "clean"},
               l \in Closing => Due \subseteq cut',
               l \in {"unlink", "last", "take"} => loc'[f].node.cam \in Fit'
        PROVE  Fits'
    <2>1. Due' = Due
      BY <1>5, DueStays DEF Busy
    <2>2. Listed'
      BY <1>2, <1>5, ListStays
    <2>3. l \in {"pop", "searching", "clean"} \/ \A i \in 1..Len(queue') : queue'[i].cam \in Fit'
      BY <1>3, <1>4, <1>5
    <2> QED
      BY <1>2, <1>4, <1>5, <2>1, <2>2, <2>3, BusyFits
  <1>6. CASE Searching(f)
    <2>1. Busy(f) /\ pc' = [pc EXCEPT ![f] = "clean"] /\ flight' = flight /\ loc' = loc /\ cam' = cam
            /\ queue' = queue /\ list' = list
      BY <1>6 DEF Searching, Busy, fileQueue, search, result
    <2> QED
      BY <1>5, <2>1 DEF Labels, Closing
  <1>7. CASE Clean(f)
    <2>1. Busy(f) /\ pc' = [pc EXCEPT ![f] = "send"] /\ flight' = flight /\ loc' = loc /\ cam' = cam
            /\ queue' = <<>> /\ list' = list /\ pc[f] # "accept"
      BY <1>7 DEF Clean, Busy, search, result
    <2>2. Due' = Due
      BY <2>1, DueStays
    <2>3. \A i \in 1..Len(queue') : queue'[i].cam \in Fit'
      BY <2>1
    <2>4. Listed'
      BY <1>2, <2>1, ListStays
    <2> QED
      BY <1>2, <1>4, <2>1, <2>2, <2>3, <2>4, BusyFits DEF Closing
  <1>8. CASE Send(f)
    <2>1. pc[f] = "send" /\ Busy(f) /\ loc' = [loc EXCEPT ![f] = Nil] /\ cam' = cam
            /\ queue' = queue /\ list' = list /\ flight' = flight \o Reply(cam)
            /\ \E l \in {"started", "idle"} : pc' = [pc EXCEPT ![f] = l]
      BY <1>8 DEF Send, Busy, fileQueue, search, result, Rest
    <2>2. PICK l \in {"started", "idle"} : pc' = [pc EXCEPT ![f] = l]
      BY <2>1
    <2>3. queries > 0 /\ queries \in Nat
      BY <2>1 DEF Asked, Typed, Known
    <2>4. Reply(cam) \in Seq(Node) /\ \A i \in 1..Len(Reply(cam)) : Reply(cam)[i].cam = cam
      BY <2>3, ReplyFacts DEF Asked
    <2>5. \A i \in 1..Len(flight') : flight'[i].cam \in Fit
      <3>1. ASSUME NEW i \in 1..Len(flight') PROVE flight'[i].cam \in Fit
        <4>1. Len(flight') = Len(flight) + Len(Reply(cam)) /\ Len(flight) \in Nat /\ Len(Reply(cam)) \in Nat
                /\ \A j \in 1..Len(flight') :
                     flight'[j] = IF j <= Len(flight) THEN flight[j] ELSE Reply(cam)[j - Len(flight)]
          BY <1>1, <2>1, <2>4, ConcatProperties, LenProperties
        <4>2. CASE i <= Len(flight)
          <5>1. i \in 1..Len(flight) /\ flight'[i] = flight[i]
            BY <3>1, <4>1, <4>2
          <5> QED
            BY <1>2, <5>1, DueElements
        <4>3. CASE ~(i <= Len(flight))
          <5>1. i - Len(flight) \in 1..Len(Reply(cam)) /\ flight'[i] = Reply(cam)[i - Len(flight)]
            BY <3>1, <4>1, <4>3
          <5>2. flight'[i].cam = cam
            BY <2>4, <5>1
          <5> QED
            BY <5>2 DEF Fit
        <4> QED
          BY <4>2, <4>3
      <3> QED
        BY <3>1
    <2>6. \A n \in Nvr : pc'[n] = "accept" => loc'[n].node.cam \in Fit
      <3>1. ASSUME NEW n \in Nvr, pc'[n] = "accept" PROVE loc'[n].node.cam \in Fit
        <4>1. n # f /\ pc[n] = "accept"
          BY <2>2, <3>1, Ids DEF Typed, Placed
        <4>2. loc'[n] = loc[n]
          BY <1>1, <2>1, <4>1, Ids
        <4> QED
          BY <1>2, <3>1, <4>1, <4>2, DueElements
      <3> QED
        BY <3>1
    <2>7. Due' \subseteq Fit'
      <3>1. Due' \subseteq Fit
        BY <2>5, <2>6 DEF Due
      <3> QED
        BY <1>4, <2>1, <3>1
    <2>8. Listed' /\ \A i \in 1..Len(queue') : queue'[i].cam \in Fit'
      BY <1>2, <1>3, <1>4, <2>1, ListStays
    <2> QED
      BY <2>1, <2>2, <2>7, <2>8, BusyFits DEF Closing
  <1>9. CASE SendFails(f)
    <2>1. Busy(f) /\ pc' = [pc EXCEPT ![f] = "idle"] /\ flight' = flight /\ loc' = [loc EXCEPT ![f] = Nil]
            /\ cam' = cam /\ queue' = queue /\ list' = list /\ pc[f] = "send"
      BY <1>9 DEF SendFails, Busy, fileQueue, search, result, Rest
    <2>2. \A g \in Threads \ {f} : loc'[g] = loc[g]
      BY <1>1, <2>1
    <2> QED
      BY <1>5, <2>1, <2>2 DEF Labels, Closing
  <1>10. CASE Begin(f)
    <2>1. Busy(f) /\ pc' = [pc EXCEPT ![f] = "look"] /\ flight' = flight
            /\ loc' = [loc EXCEPT ![f].left = Len(left), ![f].cam = cam]
            /\ cam' = cam /\ queue' = queue /\ list' = list /\ pc[f] = "over" /\ Due \subseteq cut'
      BY <1>10 DEF Begin, Busy, fileQueue, result, Cut
    <2>2. \A g \in Threads \ {f} : loc'[g] = loc[g]
      BY <1>1, <2>1
    <2> QED
      BY <1>5, <2>1, <2>2 DEF Labels, Closing
  <1>11. CASE NegativeOver(f)
    <2>1. Busy(f) /\ pc' = [pc EXCEPT ![f] = "idle"] /\ flight' = flight /\ loc' = loc
            /\ cam' = cam /\ queue' = queue /\ list' = list /\ pc[f] = "over"
      BY <1>11 DEF NegativeOver, Busy, fileQueue, result
    <2> QED
      BY <1>5, <2>1 DEF Labels, Closing
  <1>12. CASE Look(f)
    <2>1. Busy(f) /\ flight' = flight /\ loc' = loc
            /\ cam' = cam /\ queue' = queue /\ list' = list /\ pc[f] = "look"
            /\ \E l \in {"read", "pop", "finish"} : pc' = [pc EXCEPT ![f] = l]
      BY <1>12 DEF Look, Busy, fileQueue, result, search
    <2>2. Due \subseteq cut'
      BY <1>2, <2>1 DEF Given, Closing
    <2> QED
      BY <1>5, <2>1, <2>2 DEF Labels
  <1>13. CASE Read(f)
    <2>1. pc[f] = "read" /\ Busy(f) /\ queue # <<>>
      BY <1>2, <1>13 DEF Read, Holds, Busy
    <2>2. pc' = [pc EXCEPT ![f] = "unlink"] /\ loc' = [loc EXCEPT ![f].node = Head(queue)]
            /\ flight' = flight /\ cam' = cam /\ queue' = queue /\ list' = list
      BY <1>13, <2>1 DEF Read, fileQueue, search, result
    <2>3. loc'[f].node = queue[1] /\ 1 \in 1..Len(queue) /\ \A g \in Threads \ {f} : loc'[g] = loc[g]
      BY <1>1, <2>1, <2>2, SeqFacts DEF Local
    <2>4. loc'[f].node.cam \in Fit'
      BY <1>3, <1>4, <2>1, <2>2, <2>3
    <2>5. Due \subseteq cut'
      BY <1>2, <2>1 DEF Given, Closing
    <2> QED
      BY <1>5, <2>1, <2>2, <2>3, <2>4, <2>5 DEF Labels
  <1>14. CASE Unlink(f)
    <2>1. pc[f] = "unlink" /\ Busy(f) /\ queue # <<>>
      BY <1>2, <1>14 DEF Unlink, Holds, Busy
    <2>2. pc' = [pc EXCEPT ![f] = "last"] /\ loc' = loc
            /\ flight' = flight /\ cam' = cam /\ queue' = Tail(queue) /\ list' = list
      BY <1>14, <2>1 DEF Unlink, search, result
    <2>3. \A i \in 1..Len(queue') : queue'[i].cam \in Fit'
      <3>1. ASSUME NEW i \in 1..Len(queue') PROVE queue'[i].cam \in Fit
        <4>1. Len(queue) \in Nat /\ Len(queue') = Len(queue) - 1 /\ queue'[i] = queue[i + 1]
          BY <1>1, <2>1, <2>2, <3>1, SeqFacts
        <4>2. i + 1 \in 1..Len(queue)
          BY <3>1, <4>1
        <4> QED
          BY <1>3, <2>1, <4>1, <4>2
      <3> QED
        BY <1>4, <2>2, <3>1
    <2>4. Due' = Due
      BY <2>1, <2>2, DueStays
    <2>5. Due \subseteq cut' /\ loc'[f].node.cam \in Fit' /\ Listed'
      BY <1>2, <1>4, <2>1, <2>2, ListStays DEF Given, Closing
    <2> QED
      BY <1>2, <1>4, <2>1, <2>2, <2>3, <2>4, <2>5, BusyFits
  <1>15. CASE LastNode(f)
    <2>1. pc[f] = "last" /\ Busy(f) /\ pc' = [pc EXCEPT ![f] = "take"]
            /\ loc' = [loc EXCEPT ![f].cnt = iPktCount]
            /\ flight' = flight /\ cam' = cam /\ queue' = queue /\ list' = list
      BY <1>15 DEF LastNode, Busy, search, result
    <2>2. loc'[f].node = loc[f].node /\ \A g \in Threads \ {f} : loc'[g] = loc[g]
      BY <1>1, <2>1 DEF Local
    <2>3. Due \subseteq cut' /\ loc'[f].node.cam \in Fit'
      BY <1>2, <1>4, <2>1, <2>2 DEF Given, Closing
    <2> QED
      BY <1>5, <2>1, <2>2, <2>3 DEF Labels
  <1>16. CASE Take(f)
    <2>1. pc[f] = "take" /\ Busy(f) /\ pc' = [pc EXCEPT ![f] = "look"]
            /\ loc' = [loc EXCEPT ![f].node = NoNode, ![f].cnt = 0]
            /\ flight' = flight /\ cam' = cam /\ queue' = queue
      BY <1>16 DEF Take, Busy, search
    <2>2. \A g \in Threads \ {f} : loc'[g] = loc[g]
      BY <1>1, <2>1
    <2>3. Due' = Due
      BY <2>1, <2>2, DueStays
    <2>4. Due \subseteq cut' /\ loc[f].node.cam \in Fit /\ loc[f].cam = cam
      BY <1>2, <2>1 DEF Given, Closing, Holds
    <2>5. list' = Append(list, [cam |-> loc[f].cam, file |-> loc[f].node])
      BY <1>16 DEF Take, Sound
    <2>6. Listed'
      <3> DEFINE row == [cam |-> loc[f].cam, file |-> loc[f].node]
      <3>1. row \in Row /\ row.cam = cam /\ row.file = loc[f].node
        BY <1>1, <2>4 DEF Local, Row
      <3>2. Len(list) \in Nat /\ Len(list') = Len(list) + 1 /\ list'[Len(list) + 1] = row
              /\ \A i \in 1..Len(list) : list'[i] = list[i]
        BY <1>1, <2>5, <3>1, SeqFacts
      <3>3. ASSUME NEW i \in 1..Len(list'), list'[i].cam # list'[i].file.cam
            PROVE  list'[i].file.cam \in cut'
        <4>1. CASE i = Len(list) + 1
          <5>1. list'[i].file.cam \in Fit /\ list'[i].file.cam # cam
            BY <2>4, <3>1, <3>2, <3>3, <4>1
          <5> QED
            BY <5>1 DEF Fit
        <4>2. CASE i # Len(list) + 1
          <5>1. i \in 1..Len(list) /\ list'[i] = list[i]
            BY <3>2, <3>3, <4>2
          <5> QED
            BY <1>2, <3>3, <5>1 DEF Listed
        <4> QED
          BY <4>1, <4>2
      <3> QED
        BY <3>3 DEF Listed
    <2>7. \A i \in 1..Len(queue') : queue'[i].cam \in Fit'
      BY <1>3, <1>4, <2>1
    <2> QED
      BY <1>2, <1>4, <2>1, <2>3, <2>4, <2>6, <2>7, BusyFits
  <1>17. CASE Pop(f)
    <2>1. pc[f] = "pop" /\ Busy(f) /\ left # <<>>
      BY <1>2, <1>17 DEF Pop, Holds, Busy
    <2>2. pc' = [pc EXCEPT ![f] = "searching"] /\ loc' = loc /\ flight' = flight /\ list' = list
      BY <1>17, <2>1 DEF Pop, result
    <2>3. Due' = Due
      BY <2>1, <2>2, DueStays
    <2>4. Due' \subseteq Fit' /\ Listed'
      BY <1>2, <2>1, <2>2, <2>3, ListStays DEF Given, Closing, Fit
    <2> QED
      BY <2>1, <2>2, <2>4, BusyFits DEF Closing
  <1>18. CASE Finish(f)
    <2>1. Busy(f) /\ pc' = [pc EXCEPT ![f] = "idle"] /\ flight' = flight /\ loc' = [loc EXCEPT ![f] = Nil]
            /\ cam' = cam /\ queue' = queue /\ list' = list /\ pc[f] = "finish"
      BY <1>18 DEF Finish, Busy, fileQueue, Rest
    <2>2. \A g \in Threads \ {f} : loc'[g] = loc[g]
      BY <1>1, <2>1
    <2> QED
      BY <1>5, <2>1, <2>2 DEF Labels, Closing
  <1>19. CASE f = Ui /\ Started
    <2>1. Busy(f) /\ pc' = [pc EXCEPT ![f] = "idle"] /\ flight' = flight /\ loc' = loc
            /\ cam' = cam /\ queue' = queue /\ list' = <<>> /\ pc[f] = "started"
      BY <1>19 DEF Started, Busy, fileQueue
    <2>2. Due' = Due
      BY <2>1, DueStays
    <2>3. Listed' /\ \A i \in 1..Len(queue') : queue'[i].cam \in Fit'
      BY <1>3, <1>4, <2>1 DEF Listed
    <2> QED
      BY <1>2, <1>4, <2>1, <2>2, <2>3, BusyFits DEF Closing
  <1>20. CASE f = Ui /\ NegativeTick
    <2>1. Busy(f) /\ flight' = flight /\ cam' = cam /\ queue' = queue /\ list' = list /\ pc[f] = "over"
      BY <1>20 DEF NegativeTick, Busy, fileQueue
    <2>2. \/ pc' = [pc EXCEPT ![f] = "idle"] /\ loc' = loc
          \/ pc' = [pc EXCEPT ![f] = "pop"] /\ loc' = [loc EXCEPT ![f].left = Len(left)] /\ Due \subseteq cut'
      BY <1>20 DEF NegativeTick, Cut
    <2>3. \A g \in Threads \ {f} : loc'[g] = loc[g]
      BY <1>1, <2>2
    <2> QED
      BY <1>5, <2>1, <2>2, <2>3 DEF Labels, Closing
  <1> QED
    BY <1>6, <1>7, <1>8, <1>9, <1>10, <1>11, <1>12, <1>13, <1>14, <1>15, <1>16, <1>17, <1>18, <1>19, <1>20
       DEF SearchFile, Ending

\* Every step keeps the files with their cameras as long as threads do not overlap.
LEMMA SortedStep ==
    ASSUME Typed, Asked, Safe, Sorted, [Next]_vars
    PROVE  Sorted'
  <1> SUFFICES ASSUME ~overlap' PROVE Fits'
    BY DEF Sorted
  <1>1. Sound /\ Fits /\ cut \subseteq cut'
    BY Remembered, CutGrows DEF Typed, Safe, Sorted
  <1>2. /\ loc \in [Threads -> Local] /\ queue \in Seq(Node) /\ flight \in Seq(Node)
        /\ pc \in [Threads -> Labels]
    BY Types DEF Typed, Placed, QueueTyped, LinkTyped
  <1>3. cam' = cam => Fit \subseteq Fit'
    BY <1>1 DEF Fit
  <1> USE DEF At, Goto
  <1>4. ASSUME NEW f \in Threads, NEW l \in {"idle", "accept", "other", "end", "over"},
               pc[f] \in {"idle", "other", "end"}, l # "accept", pc' = [pc EXCEPT ![f] = l],
               flight' = flight, loc' = loc, cam' = cam, queue' = queue, list' = list
        PROVE  Fits'
    <2>1. Due' = Due
      BY <1>4, DueStays
    <2>2. ~Busy(f)
      BY <1>4 DEF Busy
    <2> QED
      BY <1>1, <1>3, <1>4, <2>1, <2>2, OtherFits
  <1>5. CASE Query
    <2>1. pc[Ui] = "idle" /\ pc' = [pc EXCEPT ![Ui] = "searching"] /\ flight' = flight /\ loc' = loc
            /\ list' = list /\ Due \subseteq cut' /\ Meets(Ui)
      BY <1>5 DEF Query, result, Cut
    <2>2. Due' = Due
      BY <2>1, DueStays, Ids
    <2>3. pc'[Ui] = "searching" /\ \A g \in Threads \ {Ui} : pc'[g] = pc[g] /\ ~Busy(g)
      BY <2>1, FirstMove, Ids
    <2>4. \A g \in Threads : Given(g)'
      BY <2>3 DEF Given, Closing, Busy
    <2>5. QueueFits'
      BY <2>3, Ids DEF QueueFits
    <2>6. Due' \subseteq Fit' /\ Listed'
      BY <1>1, <2>1, <2>2, ListStays DEF Fit, Fits
    <2> QED
      BY <2>4, <2>5, <2>6 DEF Fits
  <1>6. CASE Tick
    <2>1. pc[Ui] = "idle" /\ pc' = [pc EXCEPT ![Ui] = "over"] /\ flight' = flight /\ loc' = loc
            /\ cam' = cam /\ queue' = queue /\ list' = list
      BY <1>6 DEF Tick, fileQueue, search, result
    <2> QED
      BY <1>4, <2>1, Ids
  <1>7. CASE Offline
    <2>1. pc[SearchNvr] = "idle" /\ pc' = [pc EXCEPT ![SearchNvr] = "other"] /\ flight' = <<>>
            /\ loc' = loc /\ cam' = cam /\ queue' = queue /\ list' = list
      BY <1>7 DEF Offline, fileQueue, search, result
    <2>2. Due' \subseteq Due
      <3>1. \A n \in Nvr : pc'[n] = "accept" => pc[n] = "accept"
        BY <1>2, <2>1, Ids
      <3>2. {loc'[n].node.cam : n \in {m \in Nvr : pc'[m] = "accept"}} \subseteq Due
        BY <2>1, <3>1, DueElements
      <3>3. {flight'[i].cam : i \in 1..Len(flight')} = {}
        BY <2>1
      <3> QED
        BY <3>2, <3>3 DEF Due
    <2>3. ~Busy(SearchNvr)
      BY <2>1 DEF Busy
    <2> QED
      BY <1>1, <1>3, <2>1, <2>2, <2>3, OtherFits, Ids
  <1>8. CASE Online
    <2>1. pc[SearchNvr] = "idle" /\ pc' = [pc EXCEPT ![SearchNvr] = "other"] /\ flight' = flight
            /\ loc' = loc /\ cam' = cam /\ queue' = queue /\ list' = list
      BY <1>8 DEF Online, fileQueue, search, result
    <2> QED
      BY <1>4, <2>1, Ids
  <1>9. ASSUME NEW n \in Nvr, Other(n) PROVE Fits'
    <2>1. pc[n] = "idle" /\ pc' = [pc EXCEPT ![n] = "other"] /\ flight' = flight
            /\ loc' = loc /\ cam' = cam /\ queue' = queue /\ list' = list
      BY <1>9 DEF Other, fileQueue, search, result
    <2> QED
      BY <1>4, <2>1, Ids
  <1>10. ASSUME NEW f \in Threads, Step(f) PROVE Fits'
    <2>1. CASE SearchFile(f) \/ Ending(f) \/ (f = Ui /\ (Started \/ NegativeTick))
      BY <1>1, <2>1, BusyFitsStep
    <2>2. CASE f = SearchNvr /\ Answer
      <3>1. pc[f] = "idle" /\ cam' = cam /\ queue' = queue /\ list' = list /\ flight # <<>>
              /\ flight' = Tail(flight)
        BY <2>2 DEF Answer, fileQueue, search, result
      <3>2. /\ Len(flight) \in Nat \ {0} /\ flight[1] = Head(flight) /\ Len(flight') = Len(flight) - 1
            /\ \A i \in 1..Len(flight') : flight'[i] = flight[i + 1]
        BY <1>2, <3>1, SeqFacts
      <3>3. \A i \in 1..Len(flight') : flight'[i].cam \in Due
        <4>1. ASSUME NEW i \in 1..Len(flight') PROVE flight'[i].cam \in Due
          <5>1. i + 1 \in 1..Len(flight) /\ flight'[i] = flight[i + 1]
            BY <3>2, <4>1
          <5> QED
            BY <5>1, DueElements
        <4> QED
          BY <4>1
      <3>4. Head(flight).cam \in Due
        BY <3>2, DueElements
      <3>5. CASE g_eFileSearch = "SEARCHING"
        <4>1. pc' = [pc EXCEPT ![f] = "accept"] /\ loc' = [loc EXCEPT ![f].node = Head(flight)]
          BY <2>2, <3>5 DEF Answer
        <4>2. loc'[f].node = Head(flight) /\ \A g \in Threads \ {f} : loc'[g] = loc[g] /\ pc'[g] = pc[g]
          BY <1>2, <4>1 DEF Local
        <4>3. \A n \in Nvr : pc'[n] = "accept" => loc'[n].node.cam \in Due
          BY <3>4, <4>2, DueElements, Ids
        <4>4. Due' \subseteq Due
          BY <3>3, <4>3 DEF Due
        <4>5. ~Busy(f)
          BY <3>1 DEF Busy
        <4> QED
          BY <1>1, <1>3, <3>1, <4>1, <4>2, <4>4, <4>5, OtherFits
      <3>6. CASE g_eFileSearch # "SEARCHING"
        <4>1. pc' = pc /\ loc' = loc
          BY <2>2, <3>6 DEF Answer
        <4>2. \A n \in Nvr : pc'[n] = "accept" => loc'[n].node.cam \in Due
          BY <4>1, DueElements
        <4>3. Due' \subseteq Due
          BY <3>3, <4>2 DEF Due
        <4>4. pc' = [pc EXCEPT ![f] = "idle"] /\ ~Busy(f)
          BY <1>2, <3>1, <4>1 DEF Busy
        <4> QED
          BY <1>1, <1>3, <3>1, <4>1, <4>3, <4>4, OtherFits
      <3> QED
        BY <3>5, <3>6
    <2>3. CASE f = SearchNvr /\ Accept
      <3>1. pc[f] = "accept" /\ pc' = [pc EXCEPT ![f] = "idle"] /\ cam' = cam /\ list' = list
              /\ flight' = flight /\ loc' = [loc EXCEPT ![f] = Nil]
              /\ queue' \in {queue, Append(queue, loc[f].node)}
        BY <2>3 DEF Accept, search, result, Rest
      <3>2. ~Busy(f)
        BY <3>1 DEF Busy
      <3>3. \A g \in Threads \ {f} : loc'[g] = loc[g] /\ pc'[g] = pc[g]
        BY <1>2, <3>1
      <3>4. \A n \in Nvr : pc'[n] = "accept" => pc[n] = "accept" /\ loc'[n] = loc[n]
        BY <1>2, <3>1, <3>3, Ids
      <3>5. Due' \subseteq Due
        BY <3>1, <3>4, DueElements DEF Due
      <3>6. loc[f].node \in Node /\ loc[f].node.cam \in Fit
        BY <1>1, <1>2, <2>3, <3>1, DueElements, Ids DEF Fits, Local
      <3>7. ASSUME \A i \in 1..Len(queue) : queue[i].cam \in Fit
            PROVE  \A i \in 1..Len(queue') : queue'[i].cam \in Fit
        <4>1. /\ Len(queue) \in Nat /\ Len(Append(queue, loc[f].node)) = Len(queue) + 1
              /\ Append(queue, loc[f].node)[Len(queue) + 1] = loc[f].node
              /\ \A i \in 1..Len(queue) : Append(queue, loc[f].node)[i] = queue[i]
          BY <1>2, <3>6, SeqFacts
        <4>2. \A i \in 1..Len(Append(queue, loc[f].node)) : Append(queue, loc[f].node)[i].cam \in Fit
          BY <3>6, <3>7, <4>1
        <4> QED
          BY <3>1, <3>7, <4>2
      <3> QED
        BY <1>1, <1>3, <3>1, <3>2, <3>3, <3>5, <3>7, OtherFits
    <2>4. CASE f \in Nvr /\ OtherMessage(f)
      <3>1. pc[f] = "other" /\ flight' = flight /\ loc' = loc /\ cam' = cam /\ queue' = queue
              /\ list' = list /\ \E l \in {"idle", "end"} : pc' = [pc EXCEPT ![f] = l]
        BY <2>4 DEF OtherMessage, fileQueue, search, result
      <3> QED
        BY <1>4, <3>1
    <2>5. CASE f \in Nvr /\ End(f)
      <3>1. pc[f] = "end" /\ pc' = [pc EXCEPT ![f] = "over"] /\ flight' = flight /\ loc' = loc
              /\ cam' = cam /\ queue' = queue /\ list' = list
        BY <2>5 DEF End, fileQueue, search, result
      <3> QED
        BY <1>4, <3>1
    <2> QED
      BY <1>10, <2>1, <2>2, <2>3, <2>4, <2>5 DEF Step
  <1>11. CASE UNCHANGED vars
    <2>1. pc' = pc /\ loc' = loc /\ flight' = flight /\ cam' = cam /\ cut' = cut /\ queue' = queue /\ list' = list
      BY <1>11 DEF vars, fileQueue, search, result, ghosts
    <2> QED
      BY <1>1, <2>1 DEF Fits, Fit, Due, QueueFits, Listed, Given
  <1> QED
    BY <1>5, <1>6, <1>7, <1>8, <1>9, <1>10, <1>11 DEF Next

\* For any NVRs, cameras and answers: a file in the list is under its own camera, unless
\* answers of that camera were still due when a search ended or the user clicked again, or
\* two threads were at the end or the start of a search at once.
THEOREM RightCameraAlways == Spec => []RightCamera
  <1>1. Init => Typed /\ Asked /\ Safe /\ Sorted
    <2>1. ASSUME Init PROVE Sorted
      <3>1. flight = <<>> /\ queue = <<>> /\ list = <<>> /\ \A f \in Threads : pc[f] = "idle"
        BY <2>1 DEF Init
      <3>2. \A n \in Nvr : pc[n] # "accept"
        BY <3>1, Ids
      <3>3. Due = {}
        BY <3>1, <3>2 DEF Due
      <3>4. QueueFits /\ Listed
        BY <3>1 DEF QueueFits, Listed
      <3>5. \A f \in Threads : Given(f)
        BY <3>1 DEF Given, Closing
      <3> QED
        BY <3>3, <3>4, <3>5 DEF Sorted, Fits
    <2> QED
      BY <2>1, Start
  <1>2. Typed /\ Asked /\ Safe /\ Sorted /\ [Next]_vars => (Typed /\ Asked /\ Safe /\ Sorted)'
    BY TypedStep, SafeStep, SortedStep
  <1>3. Sorted => RightCamera
    BY DEF Sorted, Fits, Listed, RightCamera
  <1> QED
    BY <1>1, <1>2, <1>3, PTL DEF Spec

-----------------------------------------------------------------------------
(* When a search is over, the table is complete *)

\* A thread is at one of the places S.
Stage(S) == \E f \in Threads : pc[f] \in S
AtWork == Labels \ {"idle", "accept", "other", "end", "over"}

\* The next camera is chosen and not asked yet.
Choice == {"searching", "clean", "send"}
Asking == Stage(Choice)
\* A node is out of the queue and not listed yet.
Holding == Stage({"last", "take"})
Accepting == pc[SearchNvr] = "accept"

\* A click's search has started, the list is still the last search's.
Fresh == pc[Ui] = "started" \/ (pc[Ui] \in Choice /\ loc[Ui].left = 0)

\* How many answers of the camera were handed over, queued, taken out of the queue and
\* listed (-1: it has no files, and the answer that says so is still due).
One(b) == IF b THEN 1 ELSE 0
Handed == Answers[cam] - Len(flight)
Queued == Handed - One(Accepting)
Taken == Queued - Len(queue)
Done == Taken - One(Holding)
Num == IF Asking THEN 0 ELSE Done

Nth(k) == [cam |-> cam, query |-> queries, nr |-> k]

\* The cameras that are left are different ones that were asked for.
Course ==
    /\ queries = 0 => want = {} /\ queue = <<>>
    /\ queries > 0 => cam \in want /\ want \subseteq Range(Cams)
    /\ \A i \in 1..Len(left) :
          /\ left[i] \in want /\ left[i] # cam
          /\ \A j \in 1..Len(left) : left[i] = left[j] => i = j

\* The count is that of the nodes that are not listed yet.
Counts ==
    /\ iPktCount = Len(queue) + One(Holding)
    /\ dangling => Stage({"last"})
    /\ \A f \in Threads : pc[f] = "take" => loc[f].cnt = iPktCount

\* An answer on its way will be accepted.
Mode == flight # <<>> \/ Stage({"clean", "send"}) => g_eFileSearch = "SEARCHING"

\* Nothing is due while an end is under way, and nothing queued when it goes on or is over.
Quiet ==
    /\ Stage(Closing \cup Choice) => flight = <<>> /\ ~Accepting
    /\ Stage(Choice \cup {"pop", "finish"}) => queue = <<>>
    /\ Stage({"finish"}) => left = <<>>

\* The answers of the camera come, are queued and are taken one after the other.
Coming ==
    /\ \A i \in 1..Len(flight) : flight[i] = Nth(Handed + i)
    /\ Accepting => loc[SearchNvr].node = Nth(Handed)
Lined ==
    /\ \A i \in 1..Len(queue) : queue[i] = Nth(Taken + i)
    /\ queue # <<>> \/ Holding => Done >= 0
InHand(f) ==
    /\ pc[f] = "unlink" => loc[f].node = Nth(Taken + 1)
    /\ pc[f] \in {"last", "take"} => loc[f].node = Nth(Taken)
Trip == queries > 0 => Coming /\ Lined /\ \A f \in Threads : InHand(f)

\* The files that should be listed, and those that are.
Listing == {r \in Expected : /\ \A i \in 1..Len(left) : r.cam # left[i]
                             /\ r.cam = cam => r.file.nr <= Num}
Once(s) == \A i, j \in 1..Len(s) : s[i] = s[j] => i = j
Tabled == IF Fresh THEN Listing = {} ELSE Range(list) = Listing /\ Once(list)

\* The last camera's search is over.
Settled == left = <<>> /\ flight = <<>> /\ queue = <<>> /\ ~Accepting /\ ~Holding /\ ~Asking
Shows ==
    /\ Fresh \/ shown = <<>> \/ (shown = list /\ Settled)
    /\ Fresh \/ timer \/ (shown = list /\ Settled) \/ (Stage(Closing) /\ left = <<>>)

\* What tells the click's own search from what follows.
Click ==
    /\ pc[Ui] \in {"idle", "over", "started"} => loc[Ui].left = 0
    /\ pc[Ui] = "pop" => loc[Ui].left > 0

Tally == Course /\ Counts /\ Mode /\ Quiet /\ Trip /\ Tabled /\ Shows /\ Click
Whole == ~overlap /\ cut = {} => Tally

\* When f is the only thread at work, what the threads are at is what f is at.
LEMMA View ==
    ASSUME NEW f \in Threads, \A g \in Threads \ {f} : ~Busy(g)
    PROVE  /\ Holding <=> pc[f] \in {"last", "take"}
           /\ Asking <=> pc[f] \in Choice
           /\ Stage({"last"}) <=> pc[f] = "last"
           /\ Stage({"clean", "send"}) <=> pc[f] \in {"clean", "send"}
           /\ Stage(Closing \cup Choice) <=> pc[f] \in Closing \cup Choice
           /\ Stage(Choice \cup {"pop", "finish"}) <=> pc[f] \in Choice \cup {"pop", "finish"}
           /\ Stage(Closing) <=> pc[f] \in Closing
           /\ Stage({"finish"}) <=> pc[f] = "finish"
  <1>1. ASSUME NEW S \in SUBSET AtWork PROVE Stage(S) <=> pc[f] \in S
    BY DEF Stage, Busy, AtWork
  <1> USE DEF AtWork, Labels, Choice, Closing
  <1>2. Holding <=> pc[f] \in {"last", "take"}
    BY <1>1 DEF Holding
  <1>3. Asking <=> pc[f] \in Choice
    BY <1>1 DEF Asking
  <1>4. Stage({"last"}) <=> pc[f] = "last"
    BY <1>1
  <1>5. Stage({"clean", "send"}) <=> pc[f] \in {"clean", "send"}
    BY <1>1
  <1>6. Stage(Closing \cup Choice) <=> pc[f] \in Closing \cup Choice
    BY <1>1
  <1>7. Stage(Choice \cup {"pop", "finish"}) <=> pc[f] \in Choice \cup {"pop", "finish"}
    BY <1>1
  <1>8. Stage(Closing) <=> pc[f] \in Closing
    BY <1>1
  <1>9. Stage({"finish"}) <=> pc[f] = "finish"
    BY <1>1
  <1> QED
    BY <1>2, <1>3, <1>4, <1>5, <1>6, <1>7, <1>8, <1>9

\* The same in the next state.
LEMMA ViewNext ==
    ASSUME NEW f \in Threads, (\A g \in Threads \ {f} : ~Busy(g))'
    PROVE  /\ Holding' <=> pc'[f] \in {"last", "take"}
           /\ Asking' <=> pc'[f] \in Choice
           /\ Stage({"last"})' <=> pc'[f] = "last"
           /\ Stage({"clean", "send"})' <=> pc'[f] \in {"clean", "send"}
           /\ Stage(Closing \cup Choice)' <=> pc'[f] \in Closing \cup Choice
           /\ Stage(Choice \cup {"pop", "finish"})' <=> pc'[f] \in Choice \cup {"pop", "finish"}
           /\ Stage(Closing)' <=> pc'[f] \in Closing
           /\ Stage({"finish"})' <=> pc'[f] = "finish"
  <1>1. ASSUME NEW S \in SUBSET AtWork PROVE Stage(S)' <=> pc'[f] \in S
    BY DEF Stage, Busy, AtWork
  <1> USE DEF AtWork, Labels, Choice, Closing
  <1>2. Holding' <=> pc'[f] \in {"last", "take"}
    BY <1>1 DEF Holding
  <1>3. Asking' <=> pc'[f] \in Choice
    BY <1>1 DEF Asking
  <1>4. Stage({"last"})' <=> pc'[f] = "last"
    BY <1>1
  <1>5. Stage({"clean", "send"})' <=> pc'[f] \in {"clean", "send"}
    BY <1>1
  <1>6. Stage(Closing \cup Choice)' <=> pc'[f] \in Closing \cup Choice
    BY <1>1
  <1>7. Stage(Choice \cup {"pop", "finish"})' <=> pc'[f] \in Choice \cup {"pop", "finish"}
    BY <1>1
  <1>8. Stage(Closing)' <=> pc'[f] \in Closing
    BY <1>1
  <1>9. Stage({"finish"})' <=> pc'[f] = "finish"
    BY <1>1
  <1> QED
    BY <1>2, <1>3, <1>4, <1>5, <1>6, <1>7, <1>8, <1>9

\* A thread that is not at work, before and after its step, changes none of it.
LEMMA Same ==
    ASSUME Typed, NEW f \in Threads, NEW l \in {"idle", "accept", "other", "end", "over"},
           pc' = [pc EXCEPT ![f] = l], pc[f] \in {"idle", "accept", "other", "end"}
    PROVE  /\ \A g \in Threads : pc[g] \in AtWork \/ pc'[g] \in AtWork => pc'[g] = pc[g]
           /\ Holding' <=> Holding
           /\ Asking' <=> Asking
           /\ Stage({"last"})' <=> Stage({"last"})
           /\ Stage({"clean", "send"})' <=> Stage({"clean", "send"})
           /\ Stage(Closing \cup Choice)' <=> Stage(Closing \cup Choice)
           /\ Stage(Choice \cup {"pop", "finish"})' <=> Stage(Choice \cup {"pop", "finish"})
           /\ Stage(Closing)' <=> Stage(Closing)
           /\ Stage({"finish"})' <=> Stage({"finish"})
  <1>1. \A g \in Threads : pc[g] \in AtWork \/ pc'[g] \in AtWork => pc'[g] = pc[g]
    BY DEF Typed, Placed, AtWork
  <1>2. ASSUME NEW S \in SUBSET AtWork PROVE Stage(S)' <=> Stage(S)
    BY <1>1 DEF Stage
  <1> USE DEF AtWork, Labels, Choice, Closing
  <1>3. Holding' <=> Holding
    BY <1>2 DEF Holding
  <1>4. Asking' <=> Asking
    BY <1>2 DEF Asking
  <1>5. Stage({"last"})' <=> Stage({"last"})
    BY <1>2
  <1>6. Stage({"clean", "send"})' <=> Stage({"clean", "send"})
    BY <1>2
  <1>7. Stage(Closing \cup Choice)' <=> Stage(Closing \cup Choice)
    BY <1>2
  <1>8. Stage(Choice \cup {"pop", "finish"})' <=> Stage(Choice \cup {"pop", "finish"})
    BY <1>2
  <1>9. Stage(Closing)' <=> Stage(Closing)
    BY <1>2
  <1>10. Stage({"finish"})' <=> Stage({"finish"})
    BY <1>2
  <1> QED
    BY <1>1, <1>3, <1>4, <1>5, <1>6, <1>7, <1>8, <1>9, <1>10

\* The figures are numbers.
LEMMA Figures ==
    ASSUME Typed, Asked, queries > 0
    PROVE  /\ cam \in Range(Cams) /\ Answers[cam] \in Nat
           /\ Handed \in Int /\ Queued \in Int /\ Taken \in Int /\ Done \in Int /\ Num \in Int
           /\ Len(flight) \in Nat /\ Len(queue) \in Nat
  <1>1. cam \in Range(Cams) /\ Answers[cam] \in Nat
    BY SearchAssumption DEF Asked
  <1>2. Len(flight) \in Nat /\ Len(queue) \in Nat
    BY Types, SeqFacts DEF Typed, QueueTyped, LinkTyped
  <1> QED
    BY <1>1, <1>2 DEF Handed, Queued, Taken, Done, Num, One

\* The list of what should be listed depends on the course of the search and on Num.
LEMMA SameListing ==
    ASSUME want' = want, queries' = queries, left' = left, cam' = cam, Num' = Num
    PROVE  Listing' = Listing
  BY DEF Listing, Expected

\* A step that changes none of the data: what is left to be shown.
LEMMA Steady ==
    ASSUME Tally, left' = left, cam' = cam, want' = want, queries' = queries, flight' = flight,
           queue' = queue, list' = list,
           Accepting' <=> Accepting, Holding' <=> Holding, Asking' <=> Asking, Fresh' <=> Fresh,
           Accepting => loc'[SearchNvr].node = loc[SearchNvr].node,
           queries > 0 => \A f \in Threads : InHand(f)',
           Counts', Mode', Quiet', Shows', Click'
    PROVE  Tally'
  <1>1. Handed' = Handed /\ Queued' = Queued /\ Taken' = Taken /\ Done' = Done /\ Num' = Num
    BY DEF Handed, Queued, Taken, Done, Num, One
  <1>2. Course'
    BY DEF Tally, Course
  <1>3. Tabled'
    BY <1>1, SameListing DEF Tally, Tabled, Once
  <1>4. \A k : Nth(k)' = Nth(k)
    BY DEF Nth
  <1>5. queries > 0 => Coming'
    BY <1>1, <1>4 DEF Tally, Trip, Coming
  <1>6. queries > 0 => Lined'
    BY <1>1, <1>4 DEF Tally, Trip, Lined
  <1>7. Trip'
    BY <1>5, <1>6 DEF Trip
  <1> QED
    BY <1>2, <1>3, <1>7 DEF Tally

\* Shows depends on little.
LEMMA SameShows ==
    ASSUME Shows, left' = left, flight' = flight, queue' = queue, list' = list, shown' = shown,
           timer' = timer,
           Accepting' <=> Accepting, Holding' <=> Holding, Asking' <=> Asking, Fresh' <=> Fresh,
           Stage(Closing) => Stage(Closing)'
    PROVE  Shows'
  <1>1. Settled' <=> Settled
    BY DEF Settled
  <1> QED
    BY <1>1 DEF Shows

\* A thread that is not at work goes on and changes nothing of the search.
LEMMA Resting ==
    ASSUME Typed, Tally, NEW f \in Threads, NEW l \in {"idle", "other", "end", "over"},
           pc[f] \in {"idle", "other", "end"}, f = Ui => pc[f] = "idle",
           pc' = [pc EXCEPT ![f] = l], loc' = loc,
           left' = left, cam' = cam, want' = want, queries' = queries, flight' = flight,
           queue' = queue, list' = list, shown' = shown, timer' = timer,
           iPktCount' = iPktCount, dangling' = dangling, Mode'
    PROVE  Tally'
  <1>1. /\ \A g \in Threads : pc[g] \in AtWork \/ pc'[g] \in AtWork => pc'[g] = pc[g]
        /\ Holding' <=> Holding
        /\ Asking' <=> Asking
        /\ Stage({"last"})' <=> Stage({"last"})
        /\ Stage(Closing \cup Choice)' <=> Stage(Closing \cup Choice)
        /\ Stage(Choice \cup {"pop", "finish"})' <=> Stage(Choice \cup {"pop", "finish"})
        /\ Stage(Closing)' <=> Stage(Closing)
        /\ Stage({"finish"})' <=> Stage({"finish"})
    BY Same
  <1>2. pc'[f] = l /\ \A g \in Threads \ {f} : pc'[g] = pc[g]
    BY DEF Typed, Placed
  <1>3. Accepting' <=> Accepting
    BY <1>2, Ids DEF Accepting
  <1>4. Fresh' <=> Fresh
    BY <1>2, Ids DEF Fresh, Choice
  <1>5. ASSUME NEW g \in Threads, queries > 0 PROVE InHand(g)'
    <2>1. Taken' = Taken /\ \A k : Nth(k)' = Nth(k)
      BY <1>3 DEF Taken, Queued, Handed, Nth, One
    <2>2. pc'[g] \in {"unlink", "last", "take"} => pc'[g] = pc[g]
      BY <1>1 DEF AtWork, Labels
    <2> QED
      BY <1>5, <2>1, <2>2 DEF Tally, Trip, InHand
  <1>6. Counts'
    <2>1. \A g \in Threads : pc'[g] = "take" => pc[g] = "take"
      BY <1>1 DEF AtWork, Labels
    <2> QED
      BY <1>1, <2>1 DEF Tally, Counts, One
  <1>7. Quiet'
    BY <1>1, <1>3 DEF Tally, Quiet
  <1>8. Shows'
    BY <1>1, <1>3, <1>4, SameShows DEF Tally
  <1>9. Click'
    BY <1>2 DEF Tally, Click
  <1> QED
    BY <1>1, <1>3, <1>4, <1>5, <1>6, <1>7, <1>8, <1>9, Steady

\* The only thread at work goes on and leaves the data alone: what is left to be shown.
LEMMA Working ==
    ASSUME Typed, Tally, Alone, NEW f \in Threads, NEW l, Busy(f), l # "accept",
           pc' = [pc EXCEPT ![f] = l], \A g \in Threads \ {f} : loc'[g] = loc[g],
           left' = left, cam' = cam, want' = want, queries' = queries, flight' = flight,
           queue' = queue, list' = list, iPktCount' = iPktCount,
           pc[f] \in {"last", "take"} <=> l \in {"last", "take"},
           pc[f] \in Choice <=> l \in Choice,
           pc[f] \in Choice => loc'[f].left = loc[f].left,
           pc[f] # "started", l # "started",
           dangling' => l = "last",
           l = "take" => loc'[f].cnt = iPktCount,
           flight # <<>> \/ l \in {"clean", "send"} => g_eFileSearch' = "SEARCHING",
           l \in Closing \cup Choice => flight = <<>> /\ ~Accepting,
           l \in Choice \cup {"pop", "finish"} => queue = <<>>,
           l = "finish" => left = <<>>,
           l = "unlink" => loc'[f].node = Nth(Taken + 1),
           l \in {"last", "take"} => loc'[f].node = Nth(Taken),
           f = Ui => /\ l \in {"idle", "over"} => loc'[Ui].left = 0
                     /\ l = "pop" => loc'[Ui].left > 0,
           Fresh \/ shown' = <<>> \/ (shown' = list /\ Settled),
           Fresh \/ timer' \/ (shown' = list /\ Settled) \/ (l \in Closing /\ left = <<>>)
    PROVE  Tally'
  <1>1. pc'[f] = l /\ \A g \in Threads \ {f} : pc'[g] = pc[g] /\ ~Busy(g)
    BY BusyMove
  <1>2. (\A g \in Threads \ {f} : ~Busy(g))'
    BY <1>1 DEF Busy
  <1>3. /\ Holding <=> pc[f] \in {"last", "take"}
        /\ Asking <=> pc[f] \in Choice
    BY <1>1, View
  <1>4. /\ Holding' <=> l \in {"last", "take"}
        /\ Asking' <=> l \in Choice
        /\ Stage({"last"})' <=> l = "last"
        /\ Stage({"clean", "send"})' <=> l \in {"clean", "send"}
        /\ Stage(Closing \cup Choice)' <=> l \in Closing \cup Choice
        /\ Stage(Choice \cup {"pop", "finish"})' <=> l \in Choice \cup {"pop", "finish"}
        /\ Stage({"finish"})' <=> l = "finish"
        /\ Stage(Closing)' <=> l \in Closing
    BY <1>1, <1>2, ViewNext
  <1>5. Accepting' <=> Accepting
    BY <1>1, Ids DEF Accepting, Busy
  <1>6. Accepting => SearchNvr # f
    BY <1>1, Ids DEF Accepting, Busy
  <1>7. Fresh' <=> Fresh
    <2>1. CASE f = Ui
      BY <1>1, <2>1 DEF Fresh
    <2>2. CASE f # Ui
      <3>1. pc[Ui] \notin Choice \cup {"started"} /\ pc'[Ui] = pc[Ui]
        BY <1>1, <2>2, Ids DEF Busy, Choice
      <3> QED
        BY <3>1 DEF Fresh
    <2> QED
      BY <2>1, <2>2
  <1>8. Taken' = Taken /\ \A k : Nth(k)' = Nth(k)
    BY <1>5 DEF Taken, Queued, Handed, Nth, One
  <1>9. ASSUME NEW g \in Threads PROVE InHand(g)'
    <2>1. CASE g = f
      BY <1>1, <1>8, <2>1 DEF InHand
    <2>2. CASE g # f
      BY <1>2, <2>2 DEF InHand, Busy
    <2> QED
      BY <2>1, <2>2
  <1>10. Counts'
    <2>1. \A g \in Threads \ {f} : pc'[g] # "take"
      BY <1>2 DEF Busy
    <2> QED
      BY <1>1, <1>3, <1>4, <2>1 DEF Tally, Counts, One
  <1>11. Mode'
    BY <1>4 DEF Mode
  <1>12. Quiet'
    BY <1>4, <1>5 DEF Quiet
  <1>13. Click'
    <2>1. CASE f = Ui
      BY <1>1, <2>1 DEF Click
    <2>2. CASE f # Ui
      BY <1>1, <2>2, Ids DEF Tally, Click
    <2> QED
      BY <2>1, <2>2
  <1>14. Shows'
    <2>1. Settled' <=> Settled
      BY <1>3, <1>4, <1>5 DEF Settled
    <2> QED
      BY <1>4, <1>7, <2>1 DEF Shows
  <1> QED
    BY <1>3, <1>4, <1>5, <1>6, <1>7, <1>9, <1>10, <1>11, <1>12, <1>13, <1>14, Ids, Steady

\* What holds where a thread is at work.
LEMMA AtPlace ==
    ASSUME Typed, Asked, Alone, Tally, NEW f \in Threads, Busy(f)
    PROVE  /\ queries > 0
           /\ Holding <=> pc[f] \in {"last", "take"}
           /\ Asking <=> pc[f] \in Choice
           /\ pc[f] \in Closing \cup Choice => flight = <<>> /\ ~Accepting
           /\ pc[f] \in Choice \cup {"pop", "finish"} => queue = <<>>
           /\ pc[f] = "finish" => left = <<>>
           /\ pc[f] \in {"clean", "send"} \/ flight # <<>> => g_eFileSearch = "SEARCHING"
           /\ dangling => pc[f] = "last"
           /\ Fresh <=> f = Ui /\ (pc[f] = "started" \/ (pc[f] \in Choice /\ loc[f].left = 0))
           /\ Fresh \/ shown = <<>> \/ (shown = list /\ Settled)
           /\ Fresh \/ timer \/ (shown = list /\ Settled) \/ (pc[f] \in Closing /\ left = <<>>)
           /\ InHand(f) /\ Coming /\ Lined
  <1>1. \A g \in Threads \ {f} : ~Busy(g)
    BY DEF Alone
  <1>2. queries > 0
    BY DEF Asked, Busy, Typed, Known
  <1>3. /\ Holding <=> pc[f] \in {"last", "take"}
        /\ Asking <=> pc[f] \in Choice
        /\ Stage({"last"}) <=> pc[f] = "last"
        /\ Stage({"clean", "send"}) <=> pc[f] \in {"clean", "send"}
        /\ Stage(Closing \cup Choice) <=> pc[f] \in Closing \cup Choice
        /\ Stage(Choice \cup {"pop", "finish"}) <=> pc[f] \in Choice \cup {"pop", "finish"}
        /\ Stage(Closing) <=> pc[f] \in Closing
        /\ Stage({"finish"}) <=> pc[f] = "finish"
    BY <1>1, View
  <1>4. Fresh <=> f = Ui /\ (pc[f] = "started" \/ (pc[f] \in Choice /\ loc[f].left = 0))
    <2>1. CASE f = Ui
      BY <2>1 DEF Fresh
    <2>2. CASE f # Ui
      <3>1. pc[Ui] \notin Choice \cup {"started"}
        BY <1>1, <2>2, Ids DEF Busy, Choice
      <3> QED
        BY <2>2, <3>1 DEF Fresh
    <2> QED
      BY <2>1, <2>2
  <1>5. /\ Fresh \/ shown = <<>> \/ (shown = list /\ Settled)
        /\ Fresh \/ timer \/ (shown = list /\ Settled) \/ (pc[f] \in Closing /\ left = <<>>)
    BY <1>3 DEF Tally, Shows
  <1>6. InHand(f) /\ Coming /\ Lined
    BY <1>2 DEF Tally, Trip
  <1>7. /\ pc[f] \in Closing \cup Choice => flight = <<>> /\ ~Accepting
        /\ pc[f] \in Choice \cup {"pop", "finish"} => queue = <<>>
        /\ pc[f] = "finish" => left = <<>>
        /\ pc[f] \in {"clean", "send"} \/ flight # <<>> => g_eFileSearch = "SEARCHING"
        /\ dangling => pc[f] = "last"
    BY <1>3 DEF Tally, Quiet, Mode, Counts
  <1> QED
    BY <1>2, <1>3, <1>4, <1>5, <1>6, <1>7

\* The steps at the end and the start of a search that leave the data alone.
LEMMA PassingStep ==
    ASSUME Typed, Asked, Sound, Tally, cut' = {}, NEW f \in Threads,
           \/ Searching(f) \/ Clean(f) \/ Begin(f) \/ Look(f) \/ Read(f) \/ LastNode(f) \/ Finish(f)
    PROVE  Tally'
  <1> USE DEF At, Goto
  <1>1. Alone /\ Holds(f)
    BY DEF Sound
  <1>2. /\ loc \in [Threads -> Local] /\ Len(left) \in Nat /\ (left = <<>> <=> Len(left) = 0)
        /\ loc[f] \in Local /\ Len(queue) \in Nat /\ (queue = <<>> <=> Len(queue) = 0)
        /\ (list = <<>> <=> Len(list) = 0)
    BY Types, SeqFacts DEF Typed, Placed, SearchTyped, QueueTyped, ListTyped
  <1>3. f = Ui => Click /\ (pc[f] = "pop" => loc[Ui].left > 0)
    BY DEF Tally, Click
  <1>4. CASE Searching(f)
    <2>1. /\ pc[f] = "searching" /\ pc' = [pc EXCEPT ![f] = "clean"] /\ Busy(f)
          /\ loc' = loc /\ left' = left /\ cam' = cam /\ want' = want /\ queries' = queries
          /\ flight' = flight /\ queue' = queue /\ list' = list /\ iPktCount' = iPktCount
          /\ dangling' = dangling /\ timer' = timer /\ shown' = shown /\ g_eFileSearch' = "SEARCHING"
      BY <1>4 DEF Searching, Busy, fileQueue, search, result, ghosts, bounds
    <2>2. flight = <<>> /\ ~Accepting /\ queue = <<>> /\ ~dangling
      BY <1>1, <2>1, AtPlace DEF Choice
    <2>3. /\ Fresh \/ shown = <<>> \/ (shown = list /\ Settled)
          /\ Fresh \/ timer \/ (shown = list /\ Settled)
      BY <1>1, <2>1, AtPlace DEF Closing
    <2> QED
      BY <1>1, <2>1, <2>2, <2>3, Working DEF Choice, Closing
  <1>5. CASE Clean(f)
    <2>1. /\ pc[f] = "clean" /\ pc' = [pc EXCEPT ![f] = "send"] /\ Busy(f)
          /\ loc' = loc /\ left' = left /\ cam' = cam /\ want' = want /\ queries' = queries
          /\ flight' = flight /\ queue' = <<>> /\ list' = list /\ iPktCount' = 0
          /\ dangling' = FALSE /\ timer' = timer /\ shown' = shown /\ g_eFileSearch' = g_eFileSearch
      BY <1>5 DEF Clean, Busy, shared, search, result, ghosts, bounds
    <2>2. flight = <<>> /\ ~Accepting /\ queue = <<>> /\ ~Holding /\ g_eFileSearch = "SEARCHING"
      BY <1>1, <2>1, AtPlace DEF Choice
    <2>3. iPktCount = 0
      BY <1>2, <2>2 DEF Tally, Counts, One
    <2>4. /\ Fresh \/ shown = <<>> \/ (shown = list /\ Settled)
          /\ Fresh \/ timer \/ (shown = list /\ Settled)
      BY <1>1, <2>1, AtPlace DEF Closing
    <2> QED
      BY <1>1, <2>1, <2>2, <2>3, <2>4, Working DEF Choice, Closing
  <1>6. CASE Begin(f)
    <2>1. /\ pc[f] = "over" /\ pc' = [pc EXCEPT ![f] = "look"] /\ Busy(f)
          /\ loc' = [loc EXCEPT ![f].left = Len(left), ![f].cam = cam]
          /\ left' = left /\ cam' = cam /\ want' = want /\ queries' = queries
          /\ flight' = flight /\ queue' = queue /\ list' = list /\ iPktCount' = iPktCount
          /\ dangling' = dangling /\ timer' = (timer /\ left # <<>>) /\ shown' = shown /\ Cut
      BY <1>6 DEF Begin, Busy, fileQueue, result, bounds
    <2>2. Due = {}
      BY <2>1 DEF Cut
    <2>3. flight = <<>> /\ ~Accepting
      <3>1. Len(flight) \in Nat /\ (flight = <<>> <=> Len(flight) = 0)
        BY Types, SeqFacts DEF Typed, LinkTyped
      <3>2. Len(flight) > 0 => 1 \in 1..Len(flight)
        BY <3>1
      <3>3. \A x : x \notin Due
        BY <2>2
      <3> QED
        BY <3>1, <3>2, <3>3, DueElements, Ids DEF Accepting
    <2>4. /\ shown = <<>> \/ (shown = list /\ Settled)
          /\ timer \/ (shown = list /\ Settled)
          /\ ~dangling
      BY <1>1, <2>1, AtPlace DEF Closing, Choice
    <2>5. left # <<>> => ~Settled
      BY DEF Settled
    <2>6. \A g \in Threads \ {f} : loc'[g] = loc[g]
      BY <1>2, <2>1
    <2> QED
      BY <1>1, <2>1, <2>3, <2>4, <2>5, <2>6, Working DEF Choice, Closing
  <1>7. CASE Look(f)
    <2>1. /\ pc[f] = "look" /\ Busy(f)
          /\ loc' = loc /\ left' = left /\ cam' = cam /\ want' = want /\ queries' = queries
          /\ flight' = flight /\ queue' = queue /\ list' = list /\ iPktCount' = iPktCount
          /\ dangling' = dangling /\ timer' = timer /\ shown' = shown /\ g_eFileSearch' = g_eFileSearch
      BY <1>7 DEF Look, Busy, shared, fileQueue, search, result, ghosts, bounds
    <2>2. flight = <<>> /\ ~Accepting /\ ~dangling
      BY <1>1, <2>1, AtPlace DEF Closing
    <2>3. /\ shown = <<>> \/ (shown = list /\ Settled)
          /\ timer \/ (shown = list /\ Settled) \/ left = <<>>
      BY <1>1, <2>1, AtPlace DEF Choice
    <2>4. PICK l \in {"read", "pop", "finish"} :
            /\ pc' = [pc EXCEPT ![f] = l]
            /\ l = "pop" => queue = <<>> /\ loc[f].left > 0
            /\ l = "finish" => queue = <<>> /\ ~(loc[f].left > 0)
      BY <1>7 DEF Look
    <2>5. l = "finish" => left = <<>>
      BY <1>1, <1>2, <2>1, <2>4 DEF Holds
    <2> QED
      BY <1>1, <2>1, <2>2, <2>3, <2>4, <2>5, Working DEF Choice, Closing
  <1>8. CASE Read(f)
    <2>1. queue # <<>>
      BY <1>1, <1>8 DEF Read, Holds
    <2>2. /\ pc[f] = "read" /\ pc' = [pc EXCEPT ![f] = "unlink"] /\ Busy(f)
          /\ loc' = [loc EXCEPT ![f].node = Head(queue)]
          /\ left' = left /\ cam' = cam /\ want' = want /\ queries' = queries
          /\ flight' = flight /\ queue' = queue /\ list' = list /\ iPktCount' = iPktCount
          /\ dangling' = dangling /\ timer' = timer /\ shown' = shown /\ g_eFileSearch' = g_eFileSearch
      BY <1>8, <2>1 DEF Read, Busy, shared, fileQueue, search, result, ghosts, bounds
    <2>3. flight = <<>> /\ ~Accepting /\ ~dangling /\ Lined
      BY <1>1, <2>2, AtPlace DEF Closing
    <2>4. /\ shown = <<>> \/ (shown = list /\ Settled)
          /\ timer \/ (shown = list /\ Settled) \/ left = <<>>
      BY <1>1, <2>2, AtPlace DEF Choice
    <2>5. Head(queue) = Nth(Taken + 1)
      <3>1. Head(queue) = queue[1] /\ 1 \in 1..Len(queue)
        BY <1>2, <2>1, Types, SeqFacts DEF Typed, QueueTyped
      <3> QED
        BY <2>3, <3>1 DEF Lined
    <2>6. loc'[f].node = Nth(Taken + 1) /\ \A g \in Threads \ {f} : loc'[g] = loc[g]
      BY <1>2, <2>2, <2>5 DEF Local
    <2> QED
      BY <1>1, <2>2, <2>3, <2>4, <2>6, Working DEF Choice, Closing
  <1>9. CASE LastNode(f)
    <2>1. /\ pc[f] = "last" /\ pc' = [pc EXCEPT ![f] = "take"] /\ Busy(f)
          /\ loc' = [loc EXCEPT ![f].cnt = iPktCount]
          /\ left' = left /\ cam' = cam /\ want' = want /\ queries' = queries
          /\ flight' = flight /\ queue' = queue /\ list' = list /\ iPktCount' = iPktCount
          /\ dangling' = FALSE /\ timer' = timer /\ shown' = shown /\ g_eFileSearch' = g_eFileSearch
      BY <1>9 DEF LastNode, Busy, shared, search, result, ghosts, bounds
    <2>2. flight = <<>> /\ ~Accepting /\ loc[f].node = Nth(Taken)
      BY <1>1, <2>1, AtPlace DEF Closing, InHand
    <2>3. /\ shown = <<>> \/ (shown = list /\ Settled)
          /\ timer \/ (shown = list /\ Settled) \/ left = <<>>
      BY <1>1, <2>1, AtPlace DEF Choice
    <2>4. /\ loc'[f].node = Nth(Taken) /\ loc'[f].cnt = iPktCount
          /\ \A g \in Threads \ {f} : loc'[g] = loc[g]
      BY <1>2, <2>1, <2>2 DEF Local
    <2> QED
      BY <1>1, <2>1, <2>2, <2>3, <2>4, Working DEF Choice, Closing
  <1>10. CASE Finish(f)
    <2>1. /\ pc[f] = "finish" /\ pc' = [pc EXCEPT ![f] = "idle"] /\ Busy(f)
          /\ loc' = [loc EXCEPT ![f] = Nil]
          /\ left' = left /\ cam' = cam /\ want' = want /\ queries' = queries
          /\ flight' = flight /\ queue' = queue /\ list' = list /\ iPktCount' = iPktCount
          /\ dangling' = dangling /\ timer' = FALSE /\ shown' = (IF list = <<>> THEN shown ELSE list)
      BY <1>10 DEF Finish, Rest, Busy, shared, fileQueue, result, ghosts, bounds
    <2>2. flight = <<>> /\ ~Accepting /\ ~dangling /\ queue = <<>> /\ left = <<>> /\ ~Holding /\ ~Asking
      BY <1>1, <2>1, AtPlace DEF Closing, Choice
    <2>3. shown = <<>> \/ shown = list
      BY <1>1, <2>1, AtPlace DEF Choice
    <2>4. Settled /\ shown' = list
      BY <2>1, <2>2, <2>3 DEF Settled
    <2>5. loc'[f].left = 0 /\ \A g \in Threads \ {f} : loc'[g] = loc[g]
      BY <1>2, <2>1 DEF Nil
    <2> QED
      BY <1>1, <2>1, <2>2, <2>4, <2>5, Working DEF Choice, Closing
  <1> QED
    BY <1>4, <1>5, <1>6, <1>7, <1>8, <1>9, <1>10

\* The only thread at work goes on.
LEMMA Moved ==
    ASSUME Typed, Alone, NEW f \in Threads, NEW l, Busy(f), l # "accept", pc' = [pc EXCEPT ![f] = l]
    PROVE  /\ pc'[f] = l /\ \A g \in Threads \ {f} : pc'[g] = pc[g] /\ ~Busy(g) /\ ~Busy(g)'
           /\ Accepting' <=> Accepting
           /\ Accepting => SearchNvr # f
           /\ Holding' <=> l \in {"last", "take"}
           /\ Asking' <=> l \in Choice
           /\ Stage({"last"})' <=> l = "last"
           /\ Stage({"clean", "send"})' <=> l \in {"clean", "send"}
           /\ Stage(Closing \cup Choice)' <=> l \in Closing \cup Choice
           /\ Stage(Choice \cup {"pop", "finish"})' <=> l \in Choice \cup {"pop", "finish"}
           /\ Stage(Closing)' <=> l \in Closing
           /\ Stage({"finish"})' <=> l = "finish"
           /\ Fresh' <=> f = Ui /\ (l = "started" \/ (l \in Choice /\ loc'[f].left = 0))
  <1>1. pc'[f] = l /\ \A g \in Threads \ {f} : pc'[g] = pc[g] /\ ~Busy(g)
    BY BusyMove
  <1>2. \A g \in Threads \ {f} : ~Busy(g)'
    BY <1>1 DEF Busy
  <1>3. (Accepting' <=> Accepting) /\ (Accepting => SearchNvr # f)
    BY <1>1, Ids DEF Accepting, Busy
  <1>4. Fresh' <=> f = Ui /\ (l = "started" \/ (l \in Choice /\ loc'[f].left = 0))
    <2>1. CASE f = Ui
      BY <1>1, <2>1 DEF Fresh
    <2>2. CASE f # Ui
      <3>1. pc'[Ui] \notin Choice \cup {"started"}
        BY <1>1, <2>2, Ids DEF Busy, Choice
      <3> QED
        BY <2>2, <3>1 DEF Fresh
    <2> QED
      BY <2>1, <2>2
  <1>5. (\A g \in Threads \ {f} : ~Busy(g))'
    BY <1>2
  <1> QED
    BY <1>1, <1>2, <1>3, <1>4, <1>5, ViewNext

\* What is said of every thread is said of the only one at work.
LEMMA OneHand ==
    ASSUME Typed, NEW f \in Threads, \A g \in Threads \ {f} : ~Busy(g)'
    PROVE  /\ InHand(f)' => \A g \in Threads : InHand(g)'
           /\ (pc'[f] = "take" => loc'[f].cnt = iPktCount') =>
                \A g \in Threads : pc'[g] = "take" => loc'[g].cnt = iPktCount'
  BY DEF InHand, Busy

\* GetNodeFromCmdQueue unlinks a node.
LEMMA UnlinkStep ==
    ASSUME Typed, Asked, Sound, Tally, NEW f \in Threads, Unlink(f)
    PROVE  Tally'
  <1> USE DEF At, Goto
  <1>1. Alone /\ queue # <<>>
    BY DEF Sound, Holds, Unlink
  <1>2. /\ pc[f] = "unlink" /\ pc' = [pc EXCEPT ![f] = "last"] /\ Busy(f)
        /\ loc' = loc /\ left' = left /\ cam' = cam /\ want' = want /\ queries' = queries
        /\ flight' = flight /\ queue' = Tail(queue) /\ list' = list /\ iPktCount' = iPktCount
        /\ dangling' = (Len(queue) = 1) /\ timer' = timer /\ shown' = shown
    BY <1>1 DEF Unlink, Busy, shared, search, result, ghosts, bounds
  <1>3. /\ queries > 0 /\ ~Holding /\ ~Asking /\ flight = <<>> /\ ~Accepting /\ ~Fresh
        /\ shown = <<>> \/ (shown = list /\ Settled)
        /\ timer \/ (shown = list /\ Settled) \/ left = <<>>
        /\ InHand(f) /\ Coming /\ Lined
    BY <1>1, <1>2, AtPlace DEF Choice, Closing
  <1>4. /\ pc'[f] = "last" /\ \A g \in Threads \ {f} : pc'[g] = pc[g] /\ ~Busy(g) /\ ~Busy(g)'
        /\ ~Accepting' /\ Holding' /\ ~Asking' /\ Stage({"last"})' /\ ~Stage({"clean", "send"})'
        /\ ~Stage(Choice \cup {"pop", "finish"})' /\ Stage(Closing)' /\ ~Stage({"finish"})' /\ ~Fresh'
    BY <1>1, <1>2, <1>3, Moved DEF Choice, Closing
  <1>5. /\ Len(queue) \in Nat /\ Len(queue') = Len(queue) - 1
        /\ \A i \in 1..Len(queue') : queue'[i] = queue[i + 1]
    BY <1>1, <1>2, Types, SeqFacts DEF Typed, QueueTyped
  <1>6. Handed \in Int /\ Queued \in Int /\ Taken \in Int /\ Done \in Int
    BY <1>3, Figures
  <1>7. Handed' = Handed /\ Queued' = Queued /\ Taken' = Taken + 1 /\ Done' = Done /\ Num' = Num
    <2>1. Handed' = Handed
      BY <1>2 DEF Handed
    <2>2. Queued' = Queued
      BY <1>3, <1>4, <2>1 DEF Queued, One
    <2>3. Taken' = Taken + 1
      BY <1>5, <1>6, <2>2 DEF Taken
    <2>4. Done' = Done
      BY <1>3, <1>4, <1>6, <2>3 DEF Done, One
    <2> QED
      BY <1>3, <1>4, <2>1, <2>2, <2>3, <2>4 DEF Num
  <1>8. \A k : Nth(k)' = Nth(k)
    BY <1>2 DEF Nth
  <1>9. Course'
    BY <1>2, <1>3 DEF Tally, Course
  <1>10. Counts'
    BY <1>2, <1>3, <1>4, <1>5, OneHand DEF Tally, Counts, One
  <1>11. Mode' /\ Quiet'
    BY <1>2, <1>3, <1>4 DEF Mode, Quiet
  <1>12. Coming'
    BY <1>2, <1>3, <1>4, <1>7, <1>8 DEF Coming
  <1>13. Lined'
    <2>1. ASSUME NEW i \in 1..Len(queue') PROVE queue'[i] = Nth(Taken' + i)
      <3>1. i + 1 \in 1..Len(queue) /\ Taken + (i + 1) = Taken' + i
        BY <1>5, <1>6, <1>7
      <3> QED
        BY <1>3, <1>5, <3>1 DEF Lined
    <2>2. Done' >= 0
      BY <1>1, <1>3, <1>7 DEF Lined
    <2> QED
      BY <1>2, <2>1, <2>2 DEF Lined, Nth
  <1>14. InHand(f)'
    BY <1>2, <1>3, <1>4, <1>7, <1>8 DEF InHand
  <1>15. Trip'
    BY <1>4, <1>12, <1>13, <1>14, OneHand DEF Trip
  <1>16. Tabled'
    BY <1>2, <1>3, <1>4, <1>7, SameListing DEF Tally, Tabled, Once
  <1>17. Shows'
    BY <1>1, <1>2, <1>3, <1>4 DEF Shows, Settled
  <1>18. Click'
    BY <1>2, <1>4, Ids DEF Tally, Click
  <1> QED
    BY <1>9, <1>10, <1>11, <1>15, <1>16, <1>17, <1>18 DEF Tally

\* The rows of a search, one by one.
LEMMA Rows ==
    ASSUME Typed, Asked, Course, NEW r \in Expected
    PROVE  \E i \in 1..Answers[r.cam] :
              /\ r.cam \in want /\ r.cam \in Range(Cams) /\ Answers[r.cam] \in Nat
              /\ r.file.nr = i /\ i >= 1 /\ i <= Answers[r.cam]
              /\ r = [cam |-> r.cam, file |-> [cam |-> r.cam, query |-> queries, nr |-> i]]
  <1>1. PICK c \in want : r \in {[cam |-> c, file |-> [cam |-> c, query |-> queries, nr |-> i]] : i \in 1..Answers[c]}
    BY DEF Expected
  <1>2. c \in Range(Cams) /\ Answers[c] \in Nat
    <2>1. queries > 0
      BY <1>1 DEF Course, Typed, Known
    <2> QED
      BY <1>1, <2>1, SearchAssumption DEF Course
  <1>3. PICK i \in 1..Answers[c] : r = [cam |-> c, file |-> [cam |-> c, query |-> queries, nr |-> i]]
    BY <1>1
  <1>4. r.cam = c /\ r.file.nr = i /\ i >= 1 /\ i <= Answers[c]
    BY <1>2, <1>3
  <1> QED
    BY <1>1, <1>2, <1>3, <1>4

\* A row more.
LEMMA Longer ==
    ASSUME NEW S, NEW s \in Seq(S), NEW e \in S, Once(s), e \notin Range(s)
    PROVE  Range(Append(s, e)) = Range(s) \cup {e} /\ Once(Append(s, e))
  <1>1. /\ Len(s) \in Nat /\ DOMAIN s = 1..Len(s) /\ Append(s, e) \in Seq(S)
        /\ Len(Append(s, e)) = Len(s) + 1 /\ DOMAIN Append(s, e) = 1..(Len(s) + 1)
        /\ Append(s, e)[Len(s) + 1] = e
        /\ \A i \in 1..Len(s) : Append(s, e)[i] = s[i]
    BY AppendProperties, LenProperties
  <1>2. Range(Append(s, e)) = Range(s) \cup {e}
    <2>1. 1..(Len(s) + 1) = 1..Len(s) \cup {Len(s) + 1}
      BY <1>1
    <2> QED
      BY <1>1, <2>1 DEF Range
  <1>3. \A i \in 1..Len(s) : s[i] # e
    BY <1>1 DEF Range
  <1>4. ASSUME NEW i \in 1..(Len(s) + 1), NEW j \in 1..(Len(s) + 1), Append(s, e)[i] = Append(s, e)[j]
        PROVE  i = j
    <2>1. i \in 1..Len(s) \/ i = Len(s) + 1
      BY <1>1
    <2>2. j \in 1..Len(s) \/ j = Len(s) + 1
      BY <1>1
    <2> QED
      BY <1>1, <1>3, <1>4, <2>1, <2>2 DEF Once
  <1> QED
    BY <1>1, <1>2, <1>4 DEF Once

\* A file is listed.
LEMMA TakeStep ==
    ASSUME Typed, Asked, Sound, Tally, NEW f \in Threads, Take(f)
    PROVE  Tally'
  <1> USE DEF At, Goto
  <1> DEFINE e == [cam |-> cam, file |-> Nth(Taken)]
  <1>1. Alone /\ freed = {} /\ loc[f].cam = cam
    BY DEF Sound, Holds, Take
  <1>2. /\ pc[f] = "take" /\ pc' = [pc EXCEPT ![f] = "look"] /\ Busy(f)
        /\ left' = left /\ cam' = cam /\ want' = want /\ queries' = queries
        /\ flight' = flight /\ queue' = queue /\ iPktCount' = loc[f].cnt - 1
        /\ list' = Append(list, [cam |-> loc[f].cam, file |-> loc[f].node])
        /\ dangling' = dangling /\ timer' = timer /\ shown' = shown
    BY <1>1 DEF Take, Busy, shared, search, ghosts, bounds
  <1>3. /\ queries > 0 /\ Holding /\ ~Asking /\ flight = <<>> /\ ~Accepting /\ ~Fresh /\ ~dangling
        /\ shown = <<>> \/ (shown = list /\ Settled)
        /\ timer \/ (shown = list /\ Settled) \/ left = <<>>
        /\ InHand(f) /\ Coming /\ Lined
    BY <1>1, <1>2, AtPlace DEF Choice, Closing
  <1>4. /\ pc'[f] = "look" /\ \A g \in Threads \ {f} : pc'[g] = pc[g] /\ ~Busy(g) /\ ~Busy(g)'
        /\ ~Accepting' /\ ~Holding' /\ ~Asking' /\ ~Stage({"clean", "send"})'
        /\ ~Stage(Choice \cup {"pop", "finish"})' /\ Stage(Closing)' /\ ~Stage({"finish"})' /\ ~Fresh'
    BY <1>1, <1>2, <1>3, Moved DEF Choice, Closing
  <1>5. /\ Handed \in Int /\ Queued \in Int /\ Taken \in Int /\ Done \in Int
        /\ Answers[cam] \in Nat /\ Len(queue) \in Nat
    BY <1>3, Figures
  <1>6. /\ Handed' = Handed /\ Queued' = Queued /\ Taken' = Taken /\ Done' = Done + 1 /\ Num' = Num + 1
        /\ Num = Done /\ Taken = Done + 1
    <2>1. Handed' = Handed
      BY <1>2 DEF Handed
    <2>2. Queued' = Queued
      BY <1>3, <1>4, <2>1 DEF Queued, One
    <2>3. Taken' = Taken
      BY <1>2, <2>2 DEF Taken
    <2>4. Done = Taken - 1 /\ Done' = Taken
      BY <1>3, <1>4, <1>5, <2>3 DEF Done, One
    <2>5. Num = Done /\ Num' = Done'
      BY <1>3, <1>4 DEF Num
    <2> QED
      BY <1>5, <2>1, <2>2, <2>3, <2>4, <2>5
  <1>7. Taken >= 1 /\ Taken <= Answers[cam]
    <2>1. Done >= 0
      BY <1>3 DEF Lined
    <2>2. Taken = Answers[cam] - Len(queue)
      <3>1. Len(flight) = 0
        BY <1>3
      <3> QED
        BY <1>3, <1>5, <3>1 DEF Taken, Queued, Handed, One
    <2> QED
      BY <1>5, <1>6, <2>1, <2>2
  <1>8. list' = Append(list, e)
    BY <1>1, <1>2, <1>3 DEF InHand
  <1>9. Course /\ Tabled /\ cam \in want
    BY <1>3 DEF Tally, Course
  <1>10. Range(list) = Listing /\ Once(list) /\ list \in Seq(Row)
    BY <1>3, <1>9, Types DEF Tabled, Typed, ListTyped
  <1>11. e \in Row /\ e \in Expected
    <2>1. e \in Expected
      BY <1>5, <1>7, <1>9 DEF Expected, Nth
    <2>2. cam \in Nat /\ queries \in Nat /\ Taken \in Nat
      BY <1>5, <1>7, Types DEF Typed, Known, SearchTyped
    <2> QED
      BY <2>1, <2>2 DEF Row, Node, Nth
  <1>12. e \notin Listing
    BY <1>5, <1>6 DEF Listing, Nth
  <1>13. Listing' = Listing \cup {e}
    <2>1. Expected' = Expected
      BY <1>2 DEF Expected
    <2>2. Listing' = {r \in Expected : /\ \A i \in 1..Len(left) : r.cam # left[i]
                                       /\ r.cam = cam => r.file.nr <= Num + 1}
      BY <1>2, <1>6, <2>1 DEF Listing
    <2>3. e.cam = cam /\ e.file.nr = Num + 1 /\ \A i \in 1..Len(left) : e.cam # left[i]
      BY <1>5, <1>6, <1>9 DEF Nth, Course
    <2>4. ASSUME NEW r \in Expected, r.cam = cam, r.file.nr <= Num + 1, ~(r.file.nr <= Num)
          PROVE  r = e
      <3>1. PICK i \in 1..Answers[r.cam] :
               /\ r.file.nr = i /\ Answers[r.cam] \in Nat
               /\ r = [cam |-> r.cam, file |-> [cam |-> r.cam, query |-> queries, nr |-> i]]
        BY <1>9, Rows
      <3>2. i = Taken
        BY <1>5, <1>6, <2>4, <3>1
      <3> QED
        BY <2>4, <3>1, <3>2 DEF Nth
    <2>5. ASSUME NEW r \in Expected, r.cam = cam, r.file.nr <= Num PROVE r.file.nr <= Num + 1
      <3>1. PICK i \in 1..Answers[r.cam] : r.file.nr = i /\ Answers[r.cam] \in Nat
        BY <1>9, Rows
      <3> QED
        BY <1>5, <1>6, <2>5, <3>1
    <2>6. Num + 1 <= Num + 1
      BY <1>5, <1>6
    <2> HIDE DEF e
    <2> QED
      BY <1>11, <2>2, <2>3, <2>4, <2>5, <2>6 DEF Listing
  <1>14. Tabled'
    <2>1. Range(list') = Range(list) \cup {e} /\ Once(list')
      BY <1>8, <1>10, <1>11, <1>12, Longer
    <2>2. Once(list)' <=> Once(list')
      BY DEF Once
    <2> QED
      BY <1>4, <1>10, <1>13, <2>1, <2>2 DEF Tabled
  <1>15. Course'
    BY <1>2, <1>3, <1>9 DEF Course
  <1>16. Counts'
    <2>1. loc[f].cnt = iPktCount /\ iPktCount = Len(queue) + 1
      BY <1>2, <1>3 DEF Tally, Counts, One
    <2>2. iPktCount' = Len(queue)
      BY <1>2, <1>5, <2>1
    <2> QED
      BY <1>2, <1>3, <1>4, <1>5, <2>2, OneHand DEF Counts, One
  <1>17. Mode' /\ Quiet'
    BY <1>2, <1>3, <1>4 DEF Mode, Quiet
  <1>18. Coming' /\ Lined'
    <2>1. Coming'
      BY <1>2, <1>3, <1>4 DEF Coming
    <2>2. Done' >= 0
      BY <1>3, <1>5, <1>6 DEF Lined
    <2>3. \A k : Nth(k)' = Nth(k)
      BY <1>2 DEF Nth
    <2> QED
      BY <1>2, <1>3, <1>6, <2>1, <2>2, <2>3 DEF Lined
  <1>19. Trip'
    <2>1. InHand(f)'
      BY <1>4 DEF InHand
    <2> QED
      BY <1>4, <1>18, <2>1, OneHand DEF Trip
  <1>20. Shows'
    BY <1>2, <1>3, <1>4 DEF Shows, Settled
  <1>21. Click'
    BY <1>1, <1>2, <1>4, Ids DEF Tally, Click, Typed, Placed, Take
  <1> QED
    BY <1>14, <1>15, <1>16, <1>17, <1>19, <1>20, <1>21 DEF Tally

\* The next camera is chosen.
LEMMA PopStep ==
    ASSUME Typed, Asked, Sound, Tally, NEW f \in Threads, Pop(f)
    PROVE  Tally'
  <1> USE DEF At, Goto
  <1>1. Alone /\ left # <<>>
    BY DEF Sound, Holds, Pop
  <1>2. /\ pc[f] = "pop" /\ pc' = [pc EXCEPT ![f] = "searching"] /\ Busy(f)
        /\ loc' = loc /\ cam' = Last(left) /\ left' = Front(left) /\ want' = want /\ queries' = queries
        /\ flight' = flight /\ queue' = queue /\ list' = list /\ iPktCount' = iPktCount
        /\ dangling' = dangling /\ timer' = timer /\ shown' = shown
    BY <1>1 DEF Pop, Busy, shared, fileQueue, result, ghosts, bounds
  <1>3. /\ queries > 0 /\ ~Holding /\ ~Asking /\ flight = <<>> /\ ~Accepting /\ ~Fresh /\ ~dangling
        /\ queue = <<>>
        /\ shown = <<>> \/ (shown = list /\ Settled)
        /\ timer \/ (shown = list /\ Settled)
        /\ f = Ui => loc[f].left > 0
    <2>1. f = Ui => loc[f].left > 0
      BY <1>2 DEF Tally, Click
    <2> QED
      BY <1>1, <1>2, <2>1, AtPlace DEF Choice, Closing
  <1>4. f = Ui => loc[f].left # 0
    BY <1>3, Ids DEF Typed, Placed, Local
  <1>5. /\ pc'[f] = "searching" /\ \A g \in Threads \ {f} : pc'[g] = pc[g] /\ ~Busy(g) /\ ~Busy(g)'
        /\ ~Accepting' /\ ~Holding' /\ Asking' /\ ~Stage({"clean", "send"})' /\ ~Stage({"finish"})' /\ ~Fresh'
    BY <1>1, <1>2, <1>3, <1>4, Moved DEF Choice
  <1>6. Answers[cam] \in Nat
    BY <1>3, Figures
  <1>7. Num = Answers[cam] /\ Num' = 0
    <2>1. Len(flight) = 0 /\ Len(queue) = 0
      BY <1>3
    <2> QED
      BY <1>3, <1>5, <1>6, <2>1 DEF Num, Done, Taken, Queued, Handed, One
  <1> DEFINE n == Len(left)
  <1>8. /\ n \in Nat /\ n >= 1 /\ cam' = left[n] /\ Len(left') = n - 1
        /\ \A i \in 1..(n - 1) : left'[i] = left[i]
    <2>1. left \in Seq(Nat) /\ n \in Nat /\ n # 0
      BY <1>1, Types, SeqFacts DEF Typed, SearchTyped
    <2>2. Front(left) = SubSeq(left, 1, n - 1)
      BY DEF Front
    <2>3. Len(Front(left)) = n - 1 /\ \A i \in 1..(n - 1) : Front(left)[i] = left[i]
      <3>1. \A i \in 1..(n - 1) : left[i] \in Nat
        BY <2>1
      <3>2. /\ Len(SubSeq(left, 1, n - 1)) = (IF 1 <= n - 1 THEN (n - 1) - 1 + 1 ELSE 0)
            /\ \A i \in 1..((n - 1) - 1 + 1) : SubSeq(left, 1, n - 1)[i] = left[1 + i - 1]
        <4> HIDE DEF n
        <4> QED
          BY <2>1, <3>1, SubSeqProperties
      <3> HIDE DEF n
      <3>3. /\ (n - 1) - 1 + 1 = n - 1 /\ ~(1 <= n - 1) => n - 1 = 0
            /\ \A i \in 1..(n - 1) : 1 + i - 1 = i
        BY <2>1
      <3>4. Len(SubSeq(left, 1, n - 1)) = n - 1
        <4>1. n - 1 \in Nat
          BY <2>1
        <4> QED
          BY <3>2, <3>3, <4>1
      <3>5. \A i \in 1..(n - 1) : SubSeq(left, 1, n - 1)[i] = left[i]
        <4> SUFFICES ASSUME NEW i \in 1..(n - 1) PROVE SubSeq(left, 1, n - 1)[i] = left[i]
          OBVIOUS
        <4>1. i \in 1..((n - 1) - 1 + 1) /\ 1 + i - 1 = i
          BY <2>1
        <4>2. SubSeq(left, 1, n - 1)[i] = left[1 + i - 1]
          BY <3>2, <4>1
        <4> QED
          BY <4>1, <4>2
      <3> QED
        BY <2>2, <3>4, <3>5
    <2> QED
      BY <1>2, <2>1, <2>3 DEF Last
  <1>9. Course /\ Tabled
    BY DEF Tally
  <1> HIDE DEF n
  <1>10. n \in 1..n /\ 1..(n - 1) \subseteq 1..n /\ \A i \in 1..(n - 1) : i # n
    BY <1>8
  <1>11. /\ left[n] \in want /\ left[n] # cam
         /\ \A i \in 1..n : left[i] = left[n] => i = n
    BY <1>9, <1>10 DEF Course, n
  <1>12. Course'
    <2>1. cam' \in want' /\ want' \subseteq Range(Cams)
      BY <1>2, <1>3, <1>8, <1>9, <1>11 DEF Course
    <2>2. ASSUME NEW i \in 1..(n - 1)
          PROVE  /\ left'[i] \in want' /\ left'[i] # cam'
                 /\ \A j \in 1..(n - 1) : left'[i] = left'[j] => i = j
      BY <1>2, <1>8, <1>9, <1>10, <1>11 DEF Course, n
    <2>3. ~(queries' = 0)
      BY <1>2, <1>3
    <2> QED
      BY <1>8, <2>1, <2>2, <2>3 DEF Course
  <1>13. Listing' = Listing
    <2>1. Expected' = Expected
      BY <1>2 DEF Expected
    <2>2. ASSUME NEW r \in Expected
          PROVE  /\ r.cam = cam => r.file.nr <= Answers[cam]
                 /\ ~(r.file.nr <= 0)
      <3>1. PICK i \in 1..Answers[r.cam] : r.file.nr = i /\ i >= 1 /\ i <= Answers[r.cam] /\ Answers[r.cam] \in Nat
        BY <1>9, Rows
      <3>2. i \in Nat
        BY <3>1
      <3> QED
        BY <3>1, <3>2
    <2>3. ASSUME NEW r \in Expected
          PROVE  (\A i \in 1..n : r.cam # left[i]) <=> (\A i \in 1..(n - 1) : r.cam # left'[i]) /\ r.cam # cam'
      <3>1. \A i \in 1..n : i \in 1..(n - 1) \/ i = n
        BY <1>8
      <3> QED
        BY <1>8, <1>10, <3>1
    <2>4. Listing = {r \in Expected : \A i \in 1..n : r.cam # left[i]}
      BY <1>7, <2>2 DEF Listing, n
    <2>5. Listing' = {r \in Expected : (\A i \in 1..(n - 1) : r.cam # left'[i]) /\ (r.cam = cam' => r.file.nr <= 0)}
      BY <1>7, <1>8, <2>1 DEF Listing
    <2> QED
      BY <2>2, <2>3, <2>4, <2>5
  <1>14. Tabled'
    BY <1>2, <1>3, <1>5, <1>9, <1>13 DEF Tabled, Once
  <1>15. Counts'
    BY <1>2, <1>3, <1>5, OneHand DEF Tally, Counts, One
  <1>16. Mode' /\ Quiet'
    BY <1>2, <1>3, <1>5 DEF Mode, Quiet
  <1>17. Coming' /\ Lined'
    BY <1>2, <1>3, <1>5 DEF Coming, Lined
  <1>18. Trip'
    <2>1. InHand(f)'
      BY <1>5 DEF InHand
    <2> QED
      BY <1>5, <1>17, <2>1, OneHand DEF Trip
  <1>19. Shows'
    BY <1>1, <1>2, <1>3 DEF Shows, Settled
  <1>20. Click'
    BY <1>2, <1>5, Ids DEF Tally, Click
  <1> QED
    BY <1>12, <1>14, <1>15, <1>16, <1>18, <1>19, <1>20 DEF Tally

\* The numbers of a camera's answers.
LEMMA Numbering ==
    ASSUME NEW c \in Range(Cams), queries \in Nat
    PROVE  /\ Len(Reply(c)) \in Nat /\ Len(Reply(c)) = IF Answers[c] = 0 THEN 1 ELSE Answers[c]
           /\ \A i \in 1..Len(Reply(c)) :
                 Reply(c)[i] = [cam |-> c, query |-> queries, nr |-> (Answers[c] - Len(Reply(c))) + i]
  <1>1. Answers[c] \in Nat /\ c \in Nat
    BY Names, SearchAssumption
  <1>2. CASE Answers[c] = 0
    <2>1. Reply(c) = <<[cam |-> c, query |-> queries, nr |-> 0]>>
      BY <1>2 DEF Reply
    <2>2. Len(Reply(c)) = 1 /\ (Answers[c] - 1) + 1 = 0
      BY <1>2, <2>1
    <2>3. 1..Len(Reply(c)) = {1} /\ Reply(c)[1] = [cam |-> c, query |-> queries, nr |-> 0]
      BY <2>1, <2>2
    <2> QED
      BY <1>2, <2>2, <2>3
  <1>3. CASE Answers[c] # 0
    <2>1. Reply(c) = [i \in 1..Answers[c] |-> [cam |-> c, query |-> queries, nr |-> i]]
      BY <1>3 DEF Reply
    <2>2. Reply(c) \in [1..Answers[c] -> Node]
      BY <1>1, <2>1 DEF Node
    <2>3. Len(Reply(c)) = Answers[c]
      BY <1>1, <2>1, <2>2, SeqDef, LenProperties
    <2>4. \A i \in 1..Answers[c] : (Answers[c] - Answers[c]) + i = i
      BY <1>1
    <2> QED
      BY <1>1, <1>3, <2>1, <2>3, <2>4
  <1> QED
    BY <1>2, <1>3

\* The request is sent.
LEMMA SendStep ==
    ASSUME Typed, Asked, Sound, Tally, NEW f \in Threads, Send(f)
    PROVE  Tally'
  <1> USE DEF At, Goto
  <1> DEFINE l == IF Clicked(f) THEN "started" ELSE "idle"
  <1>1. Alone /\ loc \in [Threads -> Local]
    BY DEF Sound, Typed, Placed
  <1>2. /\ pc[f] = "send" /\ pc' = [pc EXCEPT ![f] = l] /\ Busy(f) /\ l # "accept"
        /\ loc' = [loc EXCEPT ![f] = Nil] /\ left' = left /\ cam' = cam /\ want' = want
        /\ queries' = queries /\ flight' = flight \o Reply(cam) /\ queue' = queue /\ list' = list
        /\ iPktCount' = iPktCount /\ dangling' = dangling /\ timer' = timer /\ shown' = shown
        /\ g_eFileSearch' = g_eFileSearch
    BY DEF Send, Rest, Busy, shared, fileQueue, search, result, ghosts, bounds
  <1>3. /\ queries > 0 /\ ~Holding /\ Asking /\ flight = <<>> /\ ~Accepting /\ ~dangling
        /\ queue = <<>> /\ g_eFileSearch = "SEARCHING"
        /\ Fresh \/ shown = <<>> \/ (shown = list /\ Settled)
        /\ Fresh \/ timer \/ (shown = list /\ Settled)
        /\ Fresh <=> f = Ui /\ loc[f].left = 0
    BY <1>1, <1>2, AtPlace DEF Choice, Closing
  <1>4. l \in {"started", "idle"} /\ (l = "started" <=> Fresh)
    BY <1>3 DEF Clicked
  <1> HIDE DEF l
  <1>5. /\ pc'[f] = l /\ \A g \in Threads \ {f} : pc'[g] = pc[g] /\ ~Busy(g) /\ ~Busy(g)'
        /\ ~Accepting' /\ ~Holding' /\ ~Asking'
        /\ ~Stage({"clean", "send"})' /\ ~Stage(Closing \cup Choice)'
        /\ ~Stage(Choice \cup {"pop", "finish"})' /\ ~Stage({"finish"})'
        /\ Fresh' <=> Fresh
    BY <1>1, <1>2, <1>3, <1>4, Moved DEF Choice, Closing
  <1>6. Answers[cam] \in Nat /\ cam \in Range(Cams)
    BY <1>3, Figures
  <1>7. /\ flight' = Reply(cam) /\ Len(flight') \in {Answers[cam], Answers[cam] + 1}
        /\ \A i \in 1..Len(flight') : flight'[i] = Nth((Answers[cam] - Len(flight')) + i)
        /\ flight' # <<>>
    <2>1. queries \in Nat
      BY DEF Typed, Known
    <2>2. Reply(cam) \in Seq(Node)
      BY <1>6, <2>1, ReplyFacts
    <2>3. flight' = Reply(cam)
      BY <1>2, <1>3, <2>2, ConcatEmptySeq
    <2>4. /\ Len(Reply(cam)) = (IF Answers[cam] = 0 THEN 1 ELSE Answers[cam])
          /\ \A i \in 1..Len(Reply(cam)) : Reply(cam)[i] = Nth((Answers[cam] - Len(Reply(cam))) + i)
      BY <1>6, <2>1, Numbering DEF Nth
    <2>5. Len(flight') \in {Answers[cam], Answers[cam] + 1} /\ Len(flight') # 0
      BY <1>6, <2>3, <2>4
    <2> QED
      BY <2>3, <2>4, <2>5
  <1>8. Handed' = Answers[cam] - Len(flight') /\ Num = 0 /\ (Num' = 0 \/ Num' = -1)
    <2>1. Handed' = Answers[cam] - Len(flight')
      BY <1>2 DEF Handed
    <2>2. Queued' = Handed' - 0
      BY <1>5 DEF Queued, One
    <2>3. Taken' = Queued' - 0
      <3>1. Len(queue') = 0
        BY <1>2, <1>3
      <3> QED
        BY <3>1 DEF Taken
    <2>4. Num' = Taken' - 0
      BY <1>5 DEF Num, Done, One
    <2>5. Handed' = 0 \/ Handed' = -1
      BY <1>6, <1>7, <2>1
    <2> QED
      BY <1>3, <2>1, <2>2, <2>3, <2>4, <2>5 DEF Num
  <1>9. Course /\ Tabled
    BY DEF Tally
  <1>10. Listing' = Listing
    <2>1. Expected' = Expected
      BY <1>2 DEF Expected
    <2>2. ASSUME NEW r \in Expected PROVE ~(r.file.nr <= Num) /\ ~(r.file.nr <= Num')
      <3>1. PICK i \in 1..Answers[r.cam] : r.file.nr = i /\ i >= 1 /\ Answers[r.cam] \in Nat
        BY <1>9, Rows
      <3> QED
        BY <1>8, <3>1
    <2> QED
      BY <1>2, <2>1, <2>2 DEF Listing
  <1>11. Tabled'
    BY <1>2, <1>5, <1>9, <1>10 DEF Tabled, Once
  <1>12. Course'
    BY <1>2, <1>9 DEF Course
  <1>13. Counts'
    BY <1>2, <1>3, <1>4, <1>5, OneHand DEF Tally, Counts, One
  <1>14. Mode' /\ Quiet'
    BY <1>2, <1>3, <1>5 DEF Mode, Quiet
  <1>15. Coming' /\ Lined'
    BY <1>2, <1>3, <1>5, <1>7, <1>8 DEF Coming, Lined, Nth
  <1>16. Trip'
    <2>1. InHand(f)'
      BY <1>4, <1>5 DEF InHand
    <2> QED
      BY <1>5, <1>15, <2>1, OneHand DEF Trip
  <1>17. Shows'
    BY <1>2, <1>3, <1>5 DEF Shows, Settled
  <1>18. Click'
    <2>1. CASE f = Ui
      <3>1. loc'[Ui].left = 0
        BY <1>1, <1>2, <2>1 DEF Nil
      <3> QED
        BY <1>4, <1>5, <2>1, <3>1 DEF Click
    <2>2. CASE f # Ui
      <3>1. loc'[Ui] = loc[Ui] /\ pc'[Ui] = pc[Ui]
        BY <1>1, <1>2, <1>5, <2>2, Ids
      <3> QED
        BY <3>1 DEF Tally, Click
    <2> QED
      BY <2>1, <2>2
  <1> QED
    BY <1>11, <1>12, <1>13, <1>14, <1>16, <1>17, <1>18 DEF Tally

\* The click's first request is out: the list is emptied.
LEMMA StartedStep ==
    ASSUME Typed, Asked, Sound, Tally, Started
    PROVE  Tally'
  <1> USE DEF At, Goto
  <1>1. Alone /\ Ui \in Threads
    BY Ids DEF Sound
  <1>2. /\ pc[Ui] = "started" /\ pc' = [pc EXCEPT ![Ui] = "idle"] /\ Busy(Ui)
        /\ loc' = loc /\ left' = left /\ cam' = cam /\ want' = want /\ queries' = queries
        /\ flight' = flight /\ queue' = queue /\ list' = <<>> /\ iPktCount' = iPktCount
        /\ dangling' = dangling /\ timer' = TRUE /\ shown' = <<>> /\ g_eFileSearch' = g_eFileSearch
    BY DEF Started, Busy, shared, fileQueue, ghosts, bounds
  <1>3. /\ queries > 0 /\ ~Holding /\ ~Asking /\ Fresh /\ ~dangling /\ Coming /\ Lined
        /\ flight # <<>> => g_eFileSearch = "SEARCHING"
    BY <1>1, <1>2, AtPlace DEF Choice
  <1>4. /\ pc'[Ui] = "idle" /\ \A g \in Threads \ {Ui} : pc'[g] = pc[g] /\ ~Busy(g) /\ ~Busy(g)'
        /\ Accepting' <=> Accepting
        /\ ~Holding' /\ ~Asking' /\ ~Stage({"clean", "send"})' /\ ~Stage(Closing \cup Choice)'
        /\ ~Stage(Choice \cup {"pop", "finish"})' /\ ~Stage({"finish"})' /\ ~Fresh'
    BY <1>1, <1>2, Moved DEF Choice, Closing
  <1>5. /\ Handed' = Handed /\ Queued' = Queued /\ Taken' = Taken /\ Done' = Done /\ Num' = Num
        /\ \A k : Nth(k)' = Nth(k)
    BY <1>2, <1>3, <1>4 DEF Handed, Queued, Taken, Done, Num, One, Nth
  <1>6. Tabled'
    <2>1. Listing' = {}
      BY <1>2, <1>3, <1>5, SameListing DEF Tally, Tabled
    <2>2. Range(list') = {} /\ Once(list)'
      BY <1>2 DEF Range, Once
    <2> QED
      BY <1>4, <2>1, <2>2 DEF Tabled
  <1>7. Course'
    BY <1>2 DEF Tally, Course
  <1>8. Counts'
    BY <1>1, <1>2, <1>3, <1>4, OneHand DEF Tally, Counts, One
  <1>9. Mode' /\ Quiet'
    BY <1>2, <1>3, <1>4 DEF Mode, Quiet
  <1>10. Coming' /\ Lined'
    BY <1>2, <1>3, <1>4, <1>5 DEF Coming, Lined
  <1>11. Trip'
    <2>1. InHand(Ui)'
      BY <1>4 DEF InHand
    <2> QED
      BY <1>1, <1>4, <1>10, <2>1, OneHand DEF Trip
  <1>12. Shows'
    BY <1>2 DEF Shows
  <1>13. Click'
    BY <1>2, <1>4 DEF Tally, Click
  <1> QED
    BY <1>6, <1>7, <1>8, <1>9, <1>11, <1>12, <1>13 DEF Tally

\* The cameras of a click on all of them.
LEMMA AllCams ==
    LET r == Reverse(Tail(Cams)) IN
    /\ Len(r) \in Nat
    /\ \A i \in 1..Len(r) : /\ r[i] \in Range(Cams) /\ r[i] # Cams[1]
                            /\ \A j \in 1..Len(r) : r[i] = r[j] => i = j
    /\ \A c \in Range(Cams) : c # Cams[1] => \E i \in 1..Len(r) : c = r[i]
  <1> DEFINE r == Reverse(Tail(Cams))  n == Len(Cams) - 1
  <1>1. /\ Cams \in Seq(Nat) /\ Len(Cams) \in Nat \ {0} /\ Cams # <<>> /\ IsInjective(Cams)
        /\ DOMAIN Cams = 1..Len(Cams)
    BY Names, SearchAssumption, LenProperties
  <1>2. /\ n \in Nat /\ Len(Tail(Cams)) = n /\ \A i \in 1..n : Tail(Cams)[i] = Cams[i + 1]
    BY <1>1, SeqFacts
  <1>3. r = [i \in 1..n |-> Tail(Cams)[(n - i) + 1]]
    BY <1>2 DEF Reverse
  <1> HIDE DEF r, n
  <1>4. \A i \in 1..n : (n - i) + 1 \in 1..n /\ (n - i) + 1 + 1 = (n - i) + 2 /\ (n - i) + 2 \in 2..(n + 1)
    BY <1>2
  <1>5. \A i \in 1..n : r[i] = Cams[(n - i) + 2]
    BY <1>2, <1>3, <1>4
  <1>6. n + 1 = Len(Cams)
    BY <1>1 DEF n
  <1>7. \A i \in 1..n : r[i] \in Nat
    <2>1. \A i \in 1..n : (n - i) + 2 \in 1..Len(Cams)
      BY <1>2, <1>4, <1>6
    <2> QED
      BY <1>1, <1>5, <2>1, SeqFacts
  <1>8. r \in Seq(Nat) /\ Len(r) = n
    <2>1. r \in [1..n -> Nat]
      BY <1>3, <1>7
    <2> QED
      BY <1>2, <2>1, SeqDef, LenProperties
  <1>9. \A i, j \in 1..Len(Cams) : Cams[i] = Cams[j] => i = j
    BY <1>1 DEF IsInjective
  <1>10. ASSUME NEW i \in 1..n
         PROVE  /\ r[i] \in Range(Cams) /\ r[i] # Cams[1]
                /\ \A j \in 1..n : r[i] = r[j] => i = j
    <2>1. (n - i) + 2 \in 1..Len(Cams) /\ (n - i) + 2 # 1 /\ 1 \in 1..Len(Cams)
      BY <1>1, <1>2, <1>4, <1>6
    <2>2. r[i] \in Range(Cams) /\ r[i] # Cams[1]
      BY <1>1, <1>5, <1>9, <2>1 DEF Range
    <2>3. ASSUME NEW j \in 1..n, r[i] = r[j] PROVE i = j
      <3>1. (n - j) + 2 \in 1..Len(Cams)
        <4>1. (n - j) + 2 \in 2..(n + 1)
          BY <1>2, <2>3
        <4> QED
          BY <1>2, <1>6, <4>1
      <3>2. (n - i) + 2 = (n - j) + 2
        BY <1>5, <1>9, <2>1, <2>3, <3>1
      <3> QED
        BY <1>2, <3>2
    <2> QED
      BY <2>2, <2>3
  <1>11. ASSUME NEW c \in Range(Cams), c # Cams[1] PROVE \E i \in 1..n : c = r[i]
    <2>1. PICK k \in 1..Len(Cams) : c = Cams[k]
      BY <1>1 DEF Range
    <2>2. k # 1
      BY <1>11, <2>1
    <2> DEFINE i == (n + 2) - k
    <2>3. i \in 1..n /\ (n - i) + 2 = k
      BY <1>2, <1>6, <2>2
    <2> HIDE DEF i
    <2> QED
      BY <1>5, <2>1, <2>3
  <1> QED
    BY <1>2, <1>8, <1>10, <1>11 DEF r

\* A click.
LEMMA QueryStep ==
    ASSUME Typed, Asked, Tally, Query, ~overlap', cut' = {}
    PROVE  Tally'
  <1> USE DEF At, Goto
  <1>1. Ui \in Threads /\ loc \in [Threads -> Local]
    BY Ids DEF Typed, Placed
  <1>2. /\ pc[Ui] = "idle" /\ ~timer /\ pc' = [pc EXCEPT ![Ui] = "searching"] /\ Meets(Ui) /\ Cut
        /\ loc' = loc /\ queries' = queries + 1
        /\ flight' = flight /\ queue' = queue /\ list' = list /\ iPktCount' = iPktCount
        /\ dangling' = dangling
    BY DEF Query, fileQueue, result
  <1>3. /\ pc'[Ui] = "searching" /\ \A g \in Threads \ {Ui} : pc'[g] = pc[g] /\ ~Busy(g)
    BY <1>1, <1>2, FirstMove
  <1>4. \A g \in Threads \ {Ui} : ~Busy(g)'
    BY <1>3 DEF Busy
  <1>5. flight = <<>> /\ ~Accepting
    <2>1. Len(flight) \in Nat /\ (flight = <<>> <=> Len(flight) = 0)
      BY Types, SeqFacts DEF Typed, LinkTyped
    <2>2. Due = {}
      BY <1>2 DEF Cut
    <2> QED
      BY <2>1, <2>2, DueElements, Ids DEF Accepting
  <1>6. ~Accepting'
    BY <1>3, <1>5, Ids DEF Accepting
  <1>7. ~Holding /\ ~Asking /\ ~Stage(Closing) /\ ~Stage({"last"})
    BY <1>1, <1>2, <1>3, View DEF Choice, Closing
  <1>8. /\ ~Holding' /\ Asking' /\ ~Stage({"clean", "send"})' /\ ~Stage({"finish"})'
    <2>1. (\A g \in Threads \ {Ui} : ~Busy(g))'
      BY <1>4
    <2> QED
      BY <1>1, <1>3, <2>1, ViewNext DEF Choice
  <1>9. ~Fresh /\ Fresh'
    BY <1>2, <1>3 DEF Fresh, Choice, Tally, Click
  <1>10. left = <<>> /\ queue = <<>> /\ ~dangling
    BY <1>2, <1>7, <1>9 DEF Tally, Shows, Settled, Counts
  <1>11. queries \in Nat /\ queries' > 0
    BY <1>2 DEF Typed, Known
  <1>12. Cams[1] \in Range(Cams)
    BY Names
  <1>13. \/ \E c \in Range(Cams) : cam' = c /\ want' = {c} /\ left' = <<>>
         \/ cam' = Cams[1] /\ want' = Range(Cams) /\ left' = Reverse(Tail(Cams))
    BY DEF Query
  <1>14. /\ cam' \in want' /\ want' \subseteq Range(Cams)
         /\ \A i \in 1..Len(left') :
               /\ left'[i] \in want' /\ left'[i] # cam'
               /\ \A j \in 1..Len(left') : left'[i] = left'[j] => i = j
         /\ \A c \in want' : c # cam' => \E i \in 1..Len(left') : c = left'[i]
    <2>1. CASE \E c \in Range(Cams) : cam' = c /\ want' = {c} /\ left' = <<>>
      <3>1. 1..Len(left') = {}
        BY <2>1
      <3> QED
        BY <2>1, <3>1
    <2>2. CASE cam' = Cams[1] /\ want' = Range(Cams) /\ left' = Reverse(Tail(Cams))
      BY <1>12, <2>2, AllCams
    <2> QED
      BY <1>13, <2>1, <2>2
  <1>15. Course'
    BY <1>11, <1>14 DEF Course
  <1>16. Tabled'
    <2>1. ASSUME NEW r \in Listing' PROVE FALSE
      <3>1. /\ r \in Expected' /\ \A i \in 1..Len(left') : r.cam # left'[i]
            /\ r.cam = cam' => r.file.nr <= Num'
        BY DEF Listing
      <3>2. PICK c \in want' : \E i \in 1..Answers[c] : r.cam = c /\ r.file.nr = i
        BY <3>1 DEF Expected
      <3>5. PICK i \in 1..Answers[c] : r.cam = c /\ r.file.nr = i
        BY <3>2
      <3>3. c = cam'
        BY <1>14, <3>1, <3>5
      <3>4. Num' = 0 /\ Answers[c] \in Nat
        BY <1>8, <1>14, SearchAssumption DEF Num
      <3> QED
        BY <3>1, <3>3, <3>4, <3>5
    <2> QED
      BY <1>9, <2>1 DEF Tabled
  <1>17. Counts'
    BY <1>1, <1>2, <1>3, <1>4, <1>7, <1>8, <1>10, OneHand DEF Tally, Counts, One
  <1>18. Mode' /\ Quiet'
    BY <1>2, <1>5, <1>6, <1>8, <1>10 DEF Mode, Quiet
  <1>19. Coming' /\ Lined'
    BY <1>2, <1>5, <1>6, <1>8, <1>10 DEF Coming, Lined
  <1>20. Trip'
    <2>1. InHand(Ui)'
      BY <1>3 DEF InHand
    <2> QED
      BY <1>1, <1>4, <1>19, <2>1, OneHand DEF Trip
  <1>21. Shows'
    BY <1>9 DEF Shows
  <1>22. Click'
    BY <1>3 DEF Click
  <1> QED
    BY <1>15, <1>16, <1>17, <1>18, <1>20, <1>21, <1>22 DEF Tally

\* PmsgProc looks at the state of the search; the answer is accepted.
LEMMA AnswerStep ==
    ASSUME Typed, Asked, Sound, Tally, Answer
    PROVE  Tally'
  <1> USE DEF At, Goto
  <1> DEFINE f == SearchNvr
  <1>1. f \in Threads /\ f # Ui /\ loc \in [Threads -> Local]
    BY Ids DEF Typed, Placed
  <1>2. flight # <<>> /\ g_eFileSearch = "SEARCHING" /\ pc[f] = "idle"
    BY DEF Answer, Tally, Mode
  <1>3. /\ pc' = [pc EXCEPT ![f] = "accept"]
        /\ loc' = [loc EXCEPT ![f].node = Head(flight)]
        /\ left' = left /\ cam' = cam /\ want' = want /\ queries' = queries
        /\ flight' = Tail(flight) /\ queue' = queue /\ list' = list /\ iPktCount' = iPktCount
        /\ dangling' = dangling /\ timer' = timer /\ shown' = shown /\ g_eFileSearch' = g_eFileSearch
    BY <1>2 DEF Answer, shared, fileQueue, search, result, ghosts, bounds
  <1>4. /\ pc'[f] = "accept" /\ \A g \in Threads \ {f} : pc'[g] = pc[g] /\ loc'[g] = loc[g]
        /\ loc'[f].node = Head(flight)
    BY <1>1, <1>3 DEF Typed, Placed, Local
  <1>5. /\ \A g \in Threads : pc[g] \in AtWork \/ pc'[g] \in AtWork => pc'[g] = pc[g]
        /\ Holding' <=> Holding
        /\ Asking' <=> Asking
        /\ Stage({"last"})' <=> Stage({"last"})
        /\ Stage({"clean", "send"})' <=> Stage({"clean", "send"})
        /\ Stage(Closing \cup Choice)' <=> Stage(Closing \cup Choice)
        /\ Stage(Choice \cup {"pop", "finish"})' <=> Stage(Choice \cup {"pop", "finish"})
        /\ Stage(Closing)' <=> Stage(Closing)
        /\ Stage({"finish"})' <=> Stage({"finish"})
    BY <1>1, <1>2, <1>3, Same
  <1>6. ~Accepting /\ Accepting'
    BY <1>2, <1>4 DEF Accepting
  <1>7. ~Stage(Closing \cup Choice)
    BY <1>2 DEF Tally, Quiet
  <1>8. queries > 0
    BY <1>2 DEF Asked, Typed, Known
  <1>9. /\ Len(flight) \in Nat /\ Len(flight') = Len(flight) - 1 /\ Head(flight) = flight[1]
        /\ \A i \in 1..Len(flight') : flight'[i] = flight[i + 1]
        /\ 1 \in 1..Len(flight)
    BY <1>2, <1>3, Types, SeqFacts DEF Typed, LinkTyped
  <1>10. Handed \in Int /\ Queued \in Int /\ Taken \in Int /\ Done \in Int /\ Answers[cam] \in Nat
    BY <1>8, Figures
  <1>11. /\ Handed' = Handed + 1 /\ Queued' = Queued /\ Taken' = Taken /\ Done' = Done /\ Num' = Num
         /\ \A k : Nth(k)' = Nth(k)
    <2>1. Handed' = Handed + 1
      BY <1>3, <1>9, <1>10 DEF Handed
    <2>2. Queued' = Queued
      BY <1>6, <1>10, <2>1 DEF Queued, One
    <2>3. Taken' = Taken
      BY <1>3, <2>2 DEF Taken
    <2>4. Done' = Done /\ Num' = Num
      BY <1>5, <2>3 DEF Done, Num, One
    <2> QED
      BY <1>3, <2>1, <2>2, <2>3, <2>4 DEF Nth
  <1>12. Fresh' <=> Fresh
    BY <1>1, <1>4, Ids DEF Fresh
  <1>13. Course' /\ Tabled'
    BY <1>3, <1>11, <1>12, SameListing DEF Tally, Course, Tabled, Once
  <1>14. Counts'
    <2>1. \A g \in Threads : pc'[g] = "take" => pc[g] = "take" /\ g # f
      BY <1>4
    <2> QED
      BY <1>3, <1>4, <1>5, <2>1 DEF Tally, Counts, One
  <1>15. Mode'
    BY <1>2, <1>3 DEF Mode
  <1>16. Quiet'
    BY <1>3, <1>5, <1>7 DEF Tally, Quiet
  <1>17. Coming /\ Lined
    BY <1>8 DEF Tally, Trip
  <1>18. Coming'
    <2>1. ASSUME NEW i \in 1..Len(flight') PROVE flight'[i] = Nth(Handed' + i)
      <3>1. i + 1 \in 1..Len(flight) /\ Handed + (i + 1) = Handed' + i
        BY <1>9, <1>10, <1>11
      <3> QED
        BY <1>9, <1>17, <3>1 DEF Coming
    <2>2. loc'[f].node = Nth(Handed')
      BY <1>4, <1>9, <1>10, <1>11, <1>17 DEF Coming
    <2> QED
      BY <1>3, <2>1, <2>2 DEF Coming, Nth
  <1>19. Lined'
    BY <1>3, <1>5, <1>11, <1>17 DEF Lined
  <1>20. ASSUME NEW g \in Threads PROVE InHand(g)'
    <2>1. pc'[g] \in {"unlink", "last", "take"} => pc'[g] = pc[g] /\ g # f
      BY <1>4
    <2> QED
      BY <1>4, <1>8, <1>11, <2>1 DEF Tally, Trip, InHand
  <1>21. Trip'
    BY <1>18, <1>19, <1>20 DEF Trip
  <1>22. Shows'
    <2>1. ~Stage(Closing)
      BY <1>7 DEF Stage
    <2> QED
      BY <1>2, <1>3, <1>12, <2>1 DEF Tally, Shows, Settled
  <1>23. Click'
    BY <1>1, <1>4, Ids DEF Tally, Click
  <1> QED
    BY <1>13, <1>14, <1>15, <1>16, <1>21, <1>22, <1>23 DEF Tally

\* PutNodeToCmdQueue.
LEMMA AcceptStep ==
    ASSUME Typed, Asked, Sound, Tally, Accept
    PROVE  Tally'
  <1> USE DEF At, Goto
  <1> DEFINE f == SearchNvr
             node == loc[f].node
  <1>1. f \in Threads /\ f # Ui /\ loc \in [Threads -> Local]
    BY Ids DEF Typed, Placed
  <1>2. pc[f] = "accept" /\ Accepting
    BY DEF Accept, Accepting
  <1>3. ~Stage(Closing \cup Choice)
    BY <1>2 DEF Tally, Quiet
  <1>4. ~Stage(Closing) /\ ~Stage({"last"}) /\ ~Holding /\ ~Asking /\ ~dangling
    <2>1. ~Stage(Closing) /\ ~Stage({"last"}) /\ ~Stage({"last", "take"}) /\ ~Stage(Choice)
      BY <1>3 DEF Stage, Closing
    <2> QED
      BY <2>1 DEF Holding, Asking, Tally, Counts
  <1>5. /\ pc' = [pc EXCEPT ![f] = "idle"] /\ loc' = [loc EXCEPT ![f] = Nil]
        /\ left' = left /\ cam' = cam /\ want' = want /\ queries' = queries
        /\ flight' = flight /\ list' = list
        /\ queue' = (IF node.nr > 0 THEN Append(queue, node) ELSE queue)
        /\ iPktCount' = (IF node.nr > 0 THEN iPktCount + 1 ELSE iPktCount)
        /\ dangling' = dangling /\ timer' = timer /\ shown' = shown /\ g_eFileSearch' = g_eFileSearch
    BY <1>4 DEF Accept, Rest, search, result, ghosts, bounds
  <1>6. /\ pc'[f] = "idle" /\ \A g \in Threads \ {f} : pc'[g] = pc[g] /\ loc'[g] = loc[g]
    BY <1>1, <1>5 DEF Typed, Placed
  <1>7. /\ \A g \in Threads : pc[g] \in AtWork \/ pc'[g] \in AtWork => pc'[g] = pc[g]
        /\ ~Holding' /\ ~Asking' /\ ~Stage({"last"})'
        /\ Stage({"clean", "send"})' <=> Stage({"clean", "send"})
        /\ ~Stage(Closing \cup Choice)'
        /\ Stage(Choice \cup {"pop", "finish"})' <=> Stage(Choice \cup {"pop", "finish"})
        /\ ~Stage(Closing)'
        /\ Stage({"finish"})' <=> Stage({"finish"})
    BY <1>1, <1>2, <1>3, <1>4, <1>5, Same
  <1>8. ~Accepting' /\ (Fresh' <=> Fresh)
    BY <1>1, <1>6, Ids DEF Accepting, Fresh
  <1>9. queries > 0 /\ queries \in Nat
    BY <1>2, Ids DEF Asked, Typed, Known
  <1>10. /\ Handed \in Int /\ Queued \in Int /\ Taken \in Int /\ Done \in Int /\ Answers[cam] \in Nat
         /\ Len(queue) \in Nat /\ (queue = <<>> <=> Len(queue) = 0)
    BY <1>9, Figures, Types, SeqFacts DEF Typed, QueueTyped
  <1>11. Coming /\ Lined /\ node = Nth(Handed) /\ node.nr = Handed
    BY <1>2, <1>9 DEF Tally, Trip, Coming, Nth
  <1>12. Num = Done /\ Done = Taken /\ Taken = (Handed - 1) - Len(queue)
    BY <1>2, <1>4, <1>10 DEF Num, Done, Taken, Queued, One
  <1>13. /\ Handed' = Handed /\ Num' = Done' /\ Done' = Taken' /\ Taken' = Handed - Len(queue')
         /\ Len(queue') \in Nat
    <2>1. Handed' = Handed
      BY <1>5 DEF Handed
    <2>2. Queued' = Handed
      BY <1>8, <1>10, <2>1 DEF Queued, One
    <2>3. Taken' = Handed - Len(queue')
      BY <2>2 DEF Taken
    <2>4. Done' = Taken' - 0 /\ Num' = Done'
      BY <1>7 DEF Done, Num, One
    <2>5. Len(queue') \in Nat
      <3>1. queue \in Seq(Node) /\ node \in Node
        BY <1>1, Types DEF Typed, QueueTyped, Local
      <3> QED
        BY <1>5, <1>10, <3>1, AppendProperties
    <2> QED
      BY <1>10, <2>1, <2>3, <2>4, <2>5
  <1>14. \A k : Nth(k)' = Nth(k)
    BY <1>5 DEF Nth
  <1>15. Expected' = Expected /\ Course
    BY <1>5 DEF Expected, Tally
  <1> HIDE DEF node
  <1>16. /\ Listing' = Listing /\ Lined' /\ iPktCount' = Len(queue')
    <2>1. iPktCount = Len(queue)
      BY <1>4, <1>10 DEF Tally, Counts, One
    <2>2. CASE node.nr > 0
      <3>1. queue' = Append(queue, node) /\ iPktCount' = Len(queue) + 1
        BY <1>5, <2>1, <2>2
      <3>2. /\ Len(queue') = Len(queue) + 1 /\ queue'[Len(queue) + 1] = node
            /\ \A i \in 1..Len(queue) : queue'[i] = queue[i]
        <4>1. queue \in Seq(Node) /\ node \in Node
          BY <1>1, Types DEF Typed, QueueTyped, Local, node
        <4> QED
          BY <3>1, <4>1, AppendProperties
      <3>3. Taken' = Taken /\ Num' = Num /\ Done' = Done
        BY <1>10, <1>12, <1>13, <3>2
      <3>4. Done' >= 0
        <4>1. CASE queue = <<>>
          BY <1>10, <1>11, <1>12, <2>2, <3>3, <4>1
        <4>2. CASE queue # <<>>
          BY <1>11, <3>3, <4>2 DEF Lined
        <4> QED
          BY <4>1, <4>2
      <3>5. ASSUME NEW i \in 1..Len(queue') PROVE queue'[i] = Nth(Taken' + i)
        <4>1. CASE i \in 1..Len(queue)
          BY <1>11, <3>2, <3>3, <4>1 DEF Lined
        <4>2. CASE i = Len(queue) + 1
          <5>1. Taken' + i = Handed
            BY <1>10, <1>12, <3>3, <4>2
          <5> QED
            BY <1>11, <3>2, <4>2, <5>1
        <4> QED
          BY <1>10, <3>2, <3>5, <4>1, <4>2
      <3>6. Listing' = Listing
        BY <1>5, <3>3, SameListing
      <3> QED
        BY <1>14, <3>1, <3>2, <3>4, <3>5, <3>6 DEF Lined
    <2>3. CASE ~(node.nr > 0)
      <3>1. queue' = queue /\ iPktCount' = iPktCount
        BY <1>5, <2>3
      <3>2. queue = <<>>
        <4>1. SUFFICES ASSUME queue # <<>> PROVE FALSE
          OBVIOUS
        <4>2. Done >= 0
          BY <1>11, <4>1 DEF Lined
        <4> QED
          BY <1>10, <1>11, <1>12, <2>3, <4>2
      <3>3. Num \in Int /\ Num' \in Int /\ Num <= 0 /\ Num' <= 0
        BY <1>10, <1>11, <1>12, <1>13, <2>3, <3>1, <3>2
      <3>4. ASSUME NEW r \in Expected PROVE ~(r.file.nr <= Num) /\ ~(r.file.nr <= Num')
        <4>1. PICK i \in 1..Answers[r.cam] : r.file.nr = i /\ i >= 1 /\ Answers[r.cam] \in Nat
          BY <1>15, Rows
        <4> QED
          BY <3>3, <4>1
      <3>5. Listing' = Listing
        BY <1>5, <1>15, <3>4 DEF Listing
      <3>6. Lined'
        BY <1>7, <3>1, <3>2 DEF Lined
      <3> QED
        BY <2>1, <3>1, <3>5, <3>6
    <2> QED
      BY <2>2, <2>3
  <1>17. Course' /\ Tabled'
    <2>1. Course'
      BY <1>5, <1>9, <1>15 DEF Course
    <2>2. Tabled'
      BY <1>5, <1>8, <1>16 DEF Tally, Tabled, Once
    <2> QED
      BY <2>1, <2>2
  <1>18. Counts'
    <2>1. \A g \in Threads : pc'[g] # "take"
      BY <1>7 DEF Stage, Closing
    <2> QED
      BY <1>4, <1>5, <1>7, <1>13, <1>16, <2>1 DEF Counts, One
  <1>19. Mode' /\ Quiet'
    <2>1. ~Stage(Choice \cup {"pop", "finish"})' /\ ~Stage({"finish"})'
      BY <1>7 DEF Stage, Closing
    <2> QED
      BY <1>5, <1>7, <2>1 DEF Tally, Mode, Quiet
  <1>20. Coming'
    BY <1>5, <1>8, <1>11, <1>13, <1>14 DEF Coming
  <1>21. ASSUME NEW g \in Threads PROVE InHand(g)'
    BY <1>7 DEF InHand, Stage, Closing
  <1>22. Trip'
    BY <1>16, <1>20, <1>21 DEF Trip
  <1>23. Shows'
    BY <1>2, <1>4, <1>5, <1>8 DEF Tally, Shows, Settled
  <1>24. Click'
    BY <1>1, <1>6, Ids DEF Tally, Click
  <1> QED
    BY <1>17, <1>18, <1>19, <1>22, <1>23, <1>24 DEF Tally

\* No answer is due when an end cuts none off.
LEMMA NoneDue == ASSUME Typed, Cut, cut' = {} PROVE flight = <<>> /\ ~Accepting
  <1>1. Len(flight) \in Nat /\ (flight = <<>> <=> Len(flight) = 0)
    BY Types, SeqFacts DEF Typed, LinkTyped
  <1>2. Due = {}
    BY DEF Cut
  <1> QED
    BY <1>1, <1>2, DueElements, Ids DEF Accepting

\* The messages of other kinds, and the tick.
LEMMA OtherStep ==
    ASSUME Typed, Asked, Tally, ~overlap', cut' = {},
           \/ Tick \/ Offline \/ Online
           \/ \E n \in Nvr : Other(n) \/ OtherMessage(n) \/ End(n)
    PROVE  Tally'
  <1> USE DEF At, Goto
  <1>1. \A n \in Nvr : n \in Threads /\ n # Ui
    BY Ids
  <1>2. Mode
    BY DEF Tally
  <1>3. ASSUME NEW f \in Threads, NEW l \in {"idle", "other", "end", "over"},
               pc[f] \in {"idle", "other", "end"}, pc' = [pc EXCEPT ![f] = l],
               g_eFileSearch' = g_eFileSearch, flight' = flight
        PROVE  Mode'
    BY <1>2, <1>3, Same DEF Mode
  <1>4. CASE Tick
    <2>1. /\ pc[Ui] = "idle" /\ pc' = [pc EXCEPT ![Ui] = "over"] /\ loc' = loc
          /\ left' = left /\ cam' = cam /\ want' = want /\ queries' = queries /\ flight' = flight
          /\ queue' = queue /\ list' = list /\ shown' = shown /\ timer' = timer
          /\ iPktCount' = iPktCount /\ dangling' = dangling /\ g_eFileSearch' = g_eFileSearch
      BY <1>4 DEF Tick, shared, fileQueue, search, result, bounds
    <2> QED
      BY <1>3, <2>1, Ids, Resting
  <1>5. CASE Offline
    <2>1. flight = <<>>
      BY <1>5, NoneDue DEF Offline
    <2>2. /\ pc[SearchNvr] = "idle" /\ pc' = [pc EXCEPT ![SearchNvr] = "other"] /\ loc' = loc
          /\ left' = left /\ cam' = cam /\ want' = want /\ queries' = queries /\ flight' = flight
          /\ queue' = queue /\ list' = list /\ shown' = shown /\ timer' = timer
          /\ iPktCount' = iPktCount /\ dangling' = dangling /\ g_eFileSearch' = g_eFileSearch
      BY <1>5, <2>1 DEF Offline, shared, fileQueue, search, result
    <2> QED
      BY <1>3, <2>2, Ids, Resting
  <1>6. CASE Online
    <2>1. /\ pc[SearchNvr] = "idle" /\ pc' = [pc EXCEPT ![SearchNvr] = "other"] /\ loc' = loc
          /\ left' = left /\ cam' = cam /\ want' = want /\ queries' = queries /\ flight' = flight
          /\ queue' = queue /\ list' = list /\ shown' = shown /\ timer' = timer
          /\ iPktCount' = iPktCount /\ dangling' = dangling /\ g_eFileSearch' = g_eFileSearch
      BY <1>6 DEF Online, shared, fileQueue, search, result, ghosts, bounds
    <2> QED
      BY <1>3, <2>1, Ids, Resting
  <1>7. ASSUME NEW n \in Nvr, Other(n) PROVE Tally'
    <2>1. /\ pc[n] = "idle" /\ pc' = [pc EXCEPT ![n] = "other"] /\ loc' = loc
          /\ left' = left /\ cam' = cam /\ want' = want /\ queries' = queries /\ flight' = flight
          /\ queue' = queue /\ list' = list /\ shown' = shown /\ timer' = timer
          /\ iPktCount' = iPktCount /\ dangling' = dangling /\ g_eFileSearch' = g_eFileSearch
      BY <1>7 DEF Other, shared, fileQueue, search, result, ghosts
    <2> QED
      BY <1>1, <1>3, <2>1, Resting
  <1>8. ASSUME NEW n \in Nvr, OtherMessage(n) PROVE Tally'
    <2> DEFINE l == IF g_bSearchDataReturn THEN "end" ELSE "idle"
    <2>1. /\ pc[n] = "other" /\ pc' = [pc EXCEPT ![n] = l] /\ loc' = loc
          /\ left' = left /\ cam' = cam /\ want' = want /\ queries' = queries /\ flight' = flight
          /\ queue' = queue /\ list' = list /\ shown' = shown /\ timer' = timer
          /\ iPktCount' = iPktCount /\ dangling' = dangling /\ g_eFileSearch' = g_eFileSearch
      BY <1>8 DEF OtherMessage, shared, fileQueue, search, result, ghosts, bounds
    <2>2. l \in {"idle", "end"}
      OBVIOUS
    <2> HIDE DEF l
    <2> QED
      BY <1>1, <1>3, <2>1, <2>2, Resting
  <1>9. ASSUME NEW n \in Nvr, End(n) PROVE Tally'
    <2>1. flight = <<>>
      BY <1>9, NoneDue DEF End
    <2>2. /\ pc[n] = "end" /\ pc' = [pc EXCEPT ![n] = "over"] /\ loc' = loc
          /\ left' = left /\ cam' = cam /\ want' = want /\ queries' = queries /\ flight' = flight
          /\ queue' = queue /\ list' = list /\ shown' = shown /\ timer' = timer
          /\ iPktCount' = iPktCount /\ dangling' = dangling
      BY <1>9 DEF End, fileQueue, search, result, bounds
    <2>3. pc'[n] = "over" /\ \A g \in Threads \ {n} : pc'[g] = pc[g] /\ ~Busy(g)
      BY <1>1, <1>9, <2>2, FirstMove DEF End
    <2>4. ~Stage({"clean", "send"})'
      BY <2>3 DEF Stage, Busy
    <2>5. Mode'
      BY <2>1, <2>2, <2>4 DEF Mode
    <2> QED
      BY <1>1, <2>2, <2>5, Resting
  <1> QED
    BY <1>4, <1>5, <1>6, <1>7, <1>8, <1>9

\* Every step keeps the tally, as long as no search was cut and no two threads met.
LEMMA WholeStep == Typed /\ Asked /\ Safe /\ Whole /\ [Next]_vars => Whole'
  <1> SUFFICES ASSUME Typed, Asked, Safe, Whole, [Next]_vars, ~overlap', cut' = {}
               PROVE  Tally'
    BY DEF Whole
  <1>1. ~overlap /\ cut = {}
    BY Remembered, CutGrows DEF Typed
  <1>2. Sound /\ Tally
    BY <1>1 DEF Safe, Whole
  <1>3. iPktCount >= 0
    BY <1>2, Types, SeqFacts DEF Tally, Counts, One, Typed, QueueTyped
  <1>4. ASSUME NEW f \in Threads, Step(f) PROVE Tally'
    <2>1. CASE \/ Searching(f) \/ Clean(f) \/ Begin(f) \/ Look(f) \/ Read(f) \/ LastNode(f) \/ Finish(f)
      BY <1>2, <2>1, PassingStep
    <2>2. CASE Unlink(f) \/ Take(f) \/ Pop(f) \/ Send(f)
      BY <1>2, <2>2, UnlinkStep, TakeStep, PopStep, SendStep
    <2>3. CASE Started \/ Answer \/ Accept
      BY <1>2, <2>3, StartedStep, AnswerStep, AcceptStep
    <2>4. CASE f \in Nvr /\ (OtherMessage(f) \/ End(f))
      BY <1>2, <2>4, OtherStep
    <2>5. ~SendFails(f)
      BY DEF SendFails
    <2>6. ~NegativeOver(f) /\ ~NegativeTick
      <3>1. ~(iPktCount < 0)
        BY <1>3, Types DEF Typed, QueueTyped
      <3> QED
        BY <3>1 DEF NegativeOver, NegativeTick
    <2> QED
      BY <1>4, <2>1, <2>2, <2>3, <2>4, <2>5, <2>6 DEF Step, SearchFile, Ending
  <1>5. CASE Query
    BY <1>2, <1>5, QueryStep
  <1>6. CASE Tick \/ Offline \/ Online \/ \E n \in Nvr : Other(n)
    BY <1>2, <1>6, OtherStep
  <1>7. CASE UNCHANGED vars
    <2>1. /\ pc' = pc /\ loc' = loc /\ left' = left /\ cam' = cam /\ want' = want
          /\ queries' = queries /\ flight' = flight /\ queue' = queue /\ list' = list
          /\ shown' = shown /\ timer' = timer /\ iPktCount' = iPktCount /\ dangling' = dangling
          /\ g_eFileSearch' = g_eFileSearch
      BY <1>7 DEF vars, shared, fileQueue, search, result, ghosts, bounds
    <2>2. \A S : Stage(S)' <=> Stage(S)
      BY <2>1 DEF Stage
    <2>3. /\ Accepting' <=> Accepting
          /\ Holding' <=> Holding
          /\ Asking' <=> Asking
          /\ Fresh' <=> Fresh
      BY <2>1 DEF Accepting, Holding, Asking, Fresh, Stage
    <2>4. Counts' /\ Mode' /\ Quiet' /\ Click'
      BY <1>2, <2>1, <2>3 DEF Tally, Counts, Mode, Quiet, Click, Stage, One
    <2>5. Shows'
      BY <1>2, <2>1, <2>3, SameShows DEF Tally, Stage
    <2>6. ASSUME NEW f \in Threads, queries > 0 PROVE InHand(f)'
      <3>1. Taken' = Taken /\ \A k : Nth(k)' = Nth(k)
        BY <2>1, <2>3 DEF Taken, Queued, Handed, Nth, One
      <3> QED
        BY <1>2, <2>1, <2>6, <3>1 DEF Tally, Trip, InHand
    <2> QED
      BY <1>2, <2>1, <2>3, <2>4, <2>5, <2>6, Steady
  <1> QED
    BY <1>4, <1>5, <1>6, <1>7 DEF Next

\* At first nothing is asked for.
LEMMA WholeStart == Init => Whole
  <1> SUFFICES ASSUME Init PROVE Tally
    BY DEF Whole
  <1>1. /\ \A f \in Threads : pc[f] = "idle" /\ loc[f] = Nil
        /\ flight = <<>> /\ queue = <<>> /\ left = <<>> /\ list = <<>> /\ shown = <<>>
        /\ iPktCount = 0 /\ dangling = FALSE /\ want = {} /\ queries = 0
    BY DEF Init
  <1>2. ~Holding /\ ~Asking /\ ~Stage({"last"}) /\ ~Stage({"clean", "send"}) /\ ~Accepting
        /\ ~Stage(Closing \cup Choice) /\ ~Stage(Choice \cup {"pop", "finish"}) /\ ~Stage({"finish"})
    BY <1>1, Ids DEF Stage, Accepting, Holding, Asking, Closing, Choice
  <1>3. ~Fresh
    BY <1>1, Ids DEF Fresh, Choice
  <1>4. Course /\ Mode /\ Quiet
    <2>1. Len(left) = 0 /\ 1..Len(left) = {}
      BY <1>1
    <2> QED
      BY <1>1, <1>2, <2>1 DEF Course, Mode, Quiet
  <1>5. Counts /\ Trip
    BY <1>1, <1>2 DEF Counts, Trip, One
  <1>6. Tabled
    <2>1. Listing = {}
      BY <1>1 DEF Listing, Expected
    <2>2. Range(list) = {} /\ Once(list)
      BY <1>1 DEF Range, Once
    <2> QED
      BY <1>3, <2>1, <2>2 DEF Tabled
  <1>7. Shows /\ Click
    <2>1. Settled /\ loc[Ui].left = 0 /\ pc[Ui] = "idle"
      BY <1>1, <1>2, Ids DEF Settled, Nil
    <2> QED
      BY <1>1, <2>1 DEF Shows, Click
  <1> QED
    BY <1>4, <1>5, <1>6, <1>7 DEF Tally

\* A sequence without repetitions is as long as it has elements.
LEMMA OnceCounts ==
    ASSUME NEW S, NEW s \in Seq(S), Once(s)
    PROVE  Cardinality(Range(s)) = Len(s)
  <1>1. Len(s) \in Nat /\ DOMAIN s = 1..Len(s) /\ s \in [1..Len(s) -> Range(s)]
    BY LenProperties DEF Range
  <1>2. s \in Bijection(1..Len(s), Range(s))
    BY <1>1 DEF Once, Range, Bijection, Injection, Surjection, IsInjective
  <1>3. ExistsBijection(1..Len(s), Range(s))
    BY <1>2 DEF ExistsBijection
  <1> QED
    BY <1>1, <1>3, FS_CountingElements

\* When all is over, the tally says that the table is complete.
LEMMA TallyTells ==
    ASSUME Typed, Asked, Tally, Over
    PROVE  Range(shown) = Expected /\ Len(shown) = Cardinality(Expected)
  <1>1. queries > 0 /\ ~timer /\ \A f \in Threads : pc[f] = "idle"
    BY DEF Over
  <1>2. ~Fresh /\ ~Stage(Closing)
    BY <1>1, Ids DEF Fresh, Stage, Closing, Choice
  <1>3. shown = list /\ Settled
    BY <1>1, <1>2 DEF Tally, Shows
  <1>4. Course /\ Range(list) = Listing /\ Once(list) /\ list \in Seq(Row)
    BY <1>2, Types DEF Tally, Tabled, Typed, ListTyped
  <1>5. Num = Answers[cam]
    <2>1. Len(flight) = 0 /\ Len(queue) = 0 /\ Answers[cam] \in Nat
      BY <1>1, <1>3, Figures DEF Settled
    <2> QED
      BY <1>3, <2>1 DEF Settled, Num, Done, Taken, Queued, Handed, One
  <1>6. Listing = Expected
    <2>1. left = <<>> /\ 1..Len(left) = {}
      BY <1>3 DEF Settled
    <2>2. ASSUME NEW r \in Expected, r.cam = cam PROVE r.file.nr <= Num
      BY <1>4, <1>5, <2>2, Rows
    <2> QED
      BY <2>1, <2>2 DEF Listing
  <1> QED
    BY <1>3, <1>4, <1>6, OnceCounts

\* For any NVRs, cameras and answers, clicks and messages: when a search is over, the table
\* has every file of the cameras that were asked for, once, unless the search of a camera was
\* ended early or two threads were at the end or the start of a search at once.
THEOREM CompleteAlways == Spec => []Complete
  <1>1. Init => Typed /\ Asked /\ Safe /\ Whole
    BY Start, WholeStart
  <1>2. Typed /\ Asked /\ Safe /\ Whole /\ [Next]_vars => (Typed /\ Asked /\ Safe /\ Whole)'
    BY TypedStep, SafeStep, WholeStep
  <1>3. Typed /\ Asked /\ Whole => Complete
    BY TallyTells DEF Whole, Complete
  <1> QED
    BY <1>1, <1>2, <1>3, PTL DEF Spec

-----------------------------------------------------------------------------
(***************************************************************************)
(* FileNames: the text of the answers stays inside acData.                 *)
(***************************************************************************)

\* An answer has zeros only at its end.
Padded(a) == \A i, j \in 1..Len(a) : i <= j /\ a[i] = Zero => a[j] = Zero

\* The answers a search may have, and the variables.
TextTypes ==
    /\ packets \in Seq(Copies) /\ next \in 1..(Len(packets) + 1)
    /\ acData \in [1..BufLen -> Symbol]
    /\ iDataLen \in Nat /\ iLeaveDataLen \in Int /\ pBefore \in 0..(BufLen + 1)
    /\ files \in Seq(Seq(Symbol))

\* Between two answers nothing is left, and acData ends in a zero.
TextLeft == pBefore = 0 => iLeaveDataLen = 0 /\ acData[BufLen] = Zero

\* An answer at work: what was taken of it and what is left of it is all of it, and acData begins
\* with it.  Behind a shorter one the zero at the end of acData is still there.
TextWork == pBefore > 0 =>
    /\ next > 1 /\ iLeaveDataLen + pBefore - 1 = iDataLen
    /\ iDataLen = Len(packets[next - 1])
    /\ \A i \in 1..BufLen : i <= iDataLen => acData[i] = packets[next - 1][i]
    /\ iDataLen < BufLen => acData[BufLen] = Zero /\ pBefore <= BufLen

TextInv == TextTypes /\ TextLeft /\ TextWork

\* An answer is a text with its zeros at the end.
LEMMA Short ==
    ASSUME NEW a \in Copies
    PROVE  /\ a \in Seq(Symbol) /\ Len(a) \in Nat \ {0}
           /\ a \in [1..Len(a) -> Symbol]
           /\ Padded(a)
  <1>1. PICK t \in Texts : a = Strncpy(t)
    BY DEF Copies
  <1>2. t \in Seq(Symbol) /\ Len(t) \in Nat \ {0} /\ Zero \in Symbol
    BY NamesAssumption, LenProperties DEF Symbol
  <1>3. \A i \in 1..Len(t) : t[i] \in Symbol
    BY <1>2, ElementOfSeq
  <1>4. a \in [1..Len(t) -> Symbol]
    BY <1>1, <1>2, <1>3 DEF Strncpy
  <1>5. a \in Seq(Symbol) /\ Len(a) = Len(t)
    BY <1>2, <1>4, SeqDef, LenProperties
  <1>6. \A i, j \in 1..Len(t) : i <= j /\ a[i] = Zero => a[j] = Zero
    <2> SUFFICES ASSUME NEW i \in 1..Len(t), NEW j \in 1..Len(t), i <= j, a[i] = Zero
                 PROVE  a[j] = Zero
      OBVIOUS
    <2>1. \E k \in 1..i : t[k] = Zero
      BY <1>1, <1>2 DEF Strncpy
    <2>2. \E k \in 1..j : t[k] = Zero
      BY <1>2, <2>1
    <2> QED
      BY <1>1, <2>2 DEF Strncpy
  <1> QED
    BY <1>2, <1>4, <1>5, <1>6 DEF Padded

\* An answer is written to the front of acData.
LEMMA Written ==
    ASSUME NEW buf \in [1..BufLen -> Symbol], NEW a \in Copies
    PROVE  /\ Overwrite(buf, 0, a) \in [1..BufLen -> Symbol]
           /\ \A i \in 1..BufLen : Overwrite(buf, 0, a)[i] = IF i <= Len(a) THEN a[i] ELSE buf[i]
  <1>1. BufLen \in Nat \ {0}
    BY NamesAssumption
  <1>2. Len(a) \in Nat \ {0} /\ \A i \in 1..Len(a) : a[i] \in Symbol
    BY Short
  <1>3. \A i \in 1..BufLen : Overwrite(buf, 0, a)[i] = IF i <= Len(a) THEN a[i] ELSE buf[i]
    BY <1>1, <1>2 DEF Overwrite
  <1>4. \A i \in 1..BufLen : i > 0 /\ i <= 0 + Len(a) => a[i - 0] \in Symbol
    BY <1>1, <1>2
  <1>5. Overwrite(buf, 0, a) \in [1..BufLen -> Symbol]
    BY <1>1, <1>2, <1>4 DEF Overwrite
  <1> QED
    BY <1>3, <1>5

\* The empty buffer.
LEMMA Cleared == Buffer(<<>>) \in [1..BufLen -> Symbol] /\ Buffer(<<>>)[BufLen] = Zero
  <1>1. BufLen \in Nat \ {0} /\ Zero \in Symbol
    BY NamesAssumption DEF Symbol
  <1> DEFINE z == [i \in 1..BufLen |-> Zero]
  <1>2. z \in Seq(Symbol)
    BY <1>1, SeqDef
  <1>3. Buffer(<<>>) = <<>> \o z
    BY <1>1, EmptySeq DEF Buffer
  <1>4. <<>> \o z = z
    BY <1>2, ConcatEmptySeq
  <1> QED
    BY <1>1, <1>3, <1>4

LEMMA TextInit == NamesInit => TextInv
  <1> SUFFICES ASSUME NamesInit PROVE TextInv
    OBVIOUS
  <1>1. packets \in Seq(Copies)
    BY NamesAssumption, SeqDef DEF NamesInit, BoundedSeq, SeqOf
  <1>2. Len(packets) \in Nat
    BY <1>1, LenProperties
  <1>3. files \in Seq(Seq(Symbol))
    BY EmptySeq DEF NamesInit
  <1> QED
    BY <1>1, <1>2, <1>3, Cleared, NamesAssumption
       DEF NamesInit, TextInv, TextTypes, TextLeft, TextWork

\* The answer at work, while it is inside acData.
LEMMA TextAtWork ==
    ASSUME TextInv, pBefore > 0
    PROVE  /\ BufLen \in Nat \ {0} /\ Len(packets) \in Nat /\ next \in 2..(Len(packets) + 1)
           /\ packets[next - 1] \in Copies /\ Padded(packets[next - 1])
           /\ iDataLen = Len(packets[next - 1]) /\ iDataLen \in Nat \ {0}
           /\ iLeaveDataLen = iDataLen + 1 - pBefore
           /\ pBefore \in 1..(BufLen + 1)
           /\ ~Outside => iDataLen <= BufLen /\ pBefore <= BufLen
  <1> USE DEF TextInv, TextTypes
  <1>1. /\ BufLen \in Nat \ {0} /\ Len(packets) \in Nat /\ next \in 2..(Len(packets) + 1)
        /\ pBefore \in 1..(BufLen + 1)
    BY NamesAssumption, LenProperties DEF TextWork
  <1>2. packets[next - 1] \in Copies
    <2>1. next - 1 \in 1..Len(packets)
      BY <1>1
    <2> QED
      BY <2>1, ElementOfSeq
  <1>3. iDataLen = Len(packets[next - 1]) /\ iDataLen \in Nat \ {0} /\ Padded(packets[next - 1])
    BY <1>2, Short DEF TextWork
  <1>4. iLeaveDataLen = iDataLen + 1 - pBefore
    <2>1. iLeaveDataLen + pBefore - 1 = iDataLen
      BY DEF TextWork
    <2> QED
      BY <1>1, <1>3, <2>1
  <1>5. ~Outside => ~(Len(packets[next - 1]) > BufLen) /\ ~(pBefore > BufLen)
    BY DEF Outside
  <1>6. ~Outside => iDataLen <= BufLen /\ pBefore <= BufLen
    BY <1>1, <1>3, <1>5
  <1> QED
    BY <1>1, <1>2, <1>3, <1>4, <1>6

\* An answer is taken from the queue.
LEMMA TextTake ==
    ASSUME TextInv, TakePacket
    PROVE  TextInv'
  <1> USE DEF TextInv, TextTypes
  <1> DEFINE a == packets[next]
  <1>1. BufLen \in Nat \ {0} /\ Len(packets) \in Nat /\ next \in 1..Len(packets)
    BY NamesAssumption, LenProperties DEF TakePacket
  <1>2. a \in Copies
    BY <1>1, ElementOfSeq
  <1>3. Len(a) \in Nat \ {0}
    BY <1>2, Short
  <1>4. iLeaveDataLen = 0 /\ acData[BufLen] = Zero
    BY DEF TextLeft, TakePacket
  <1>5. /\ acData' = Overwrite(acData, 0, a) /\ iDataLen' = Len(a)
        /\ iLeaveDataLen' = Len(a) /\ next' = next + 1 /\ pBefore' = 1
        /\ packets' = packets /\ files' = files
    BY <1>3, <1>4 DEF TakePacket
  <1>6. /\ acData' \in [1..BufLen -> Symbol]
        /\ \A i \in 1..BufLen : acData'[i] = IF i <= Len(a) THEN a[i] ELSE acData[i]
    BY <1>2, <1>5, Written
  <1>7. packets'[next' - 1] = a
    BY <1>1, <1>5
  <1> HIDE DEF a
  <1>8. TextTypes'
    BY <1>1, <1>3, <1>5, <1>6
  <1>9. TextLeft'
    BY <1>5 DEF TextLeft
  <1>10. TextWork'
    BY <1>1, <1>3, <1>4, <1>5, <1>6, <1>7 DEF TextWork
  <1> QED
    BY <1>8, <1>9, <1>10

\* A name is listed.
LEMMA TextName ==
    ASSUME TextInv, Name
    PROVE  TextInv'
  <1>1. pBefore > 0 /\ ~Outside
    BY DEF Name
  <1>2. /\ BufLen \in Nat \ {0} /\ pBefore \in 1..BufLen /\ iDataLen \in Nat
        /\ iLeaveDataLen = iDataLen + 1 - pBefore
    BY <1>1, TextAtWork
  <1> USE DEF TextInv, TextTypes
  <1>3. PICK e \in Strstr(pBefore) :
          /\ files' = Append(files, SubSeq(acData, pBefore, e))
          /\ iLeaveDataLen' = iLeaveDataLen - (e - pBefore + 1)
          /\ pBefore' = e + 1
    BY DEF Name
  <1>4. packets' = packets /\ next' = next /\ acData' = acData /\ iDataLen' = iDataLen
    BY DEF Name
  <1>5. e \in pBefore..BufLen /\ (acData[BufLen] = Zero => e # BufLen)
    BY <1>2, <1>3, NamesAssumption DEF Strstr
  <1>6. SubSeq(acData, pBefore, e) \in Seq(Symbol)
    BY <1>2, <1>5, SeqDef, LenProperties, SubSeqProperties
  <1>7. files' \in Seq(Seq(Symbol))
    BY <1>3, <1>6, AppendProperties
  <1>8. TextLeft'
    BY <1>2, <1>3, <1>5 DEF TextLeft
  <1>9. TextWork'
    <2>1. /\ next > 1 /\ iDataLen = Len(packets[next - 1])
          /\ \A i \in 1..BufLen : i <= iDataLen => acData[i] = packets[next - 1][i]
          /\ iDataLen < BufLen => acData[BufLen] = Zero
      BY <1>2 DEF TextWork
    <2>2. \A b, l, d, k \in Int : l = d + 1 - b => l - (k - b + 1) + (k + 1) - 1 = d
      OBVIOUS
    <2>3. iLeaveDataLen' + pBefore' - 1 = iDataLen
      BY <1>2, <1>3, <1>5, <2>2
    <2>4. acData[BufLen] = Zero => pBefore' <= BufLen
      BY <1>2, <1>3, <1>5
    <2> QED
      BY <1>4, <2>1, <2>3, <2>4 DEF TextWork
  <1> QED
    BY <1>2, <1>3, <1>4, <1>5, <1>7, <1>8, <1>9

\* What is at work ends in a zero if one of its symbols that are not taken yet is one.
LEMMA ZeroAtEnd ==
    ASSUME TextInv, pBefore > 0, ~Outside, NEW e \in pBefore..BufLen, acData[e] = Zero
    PROVE  acData[BufLen] = Zero
  <1> DEFINE a == packets[next - 1]
  <1>1. /\ BufLen \in Nat \ {0} /\ Padded(a) /\ iDataLen = Len(a) /\ iDataLen \in Nat \ {0}
        /\ iDataLen <= BufLen /\ pBefore \in 1..BufLen
    BY TextAtWork
  <1>2. /\ iDataLen < BufLen => acData[BufLen] = Zero
        /\ \A i \in 1..BufLen : i <= iDataLen => acData[i] = a[i]
    BY DEF TextInv, TextWork
  <1> HIDE DEF a
  <1>3. ASSUME iDataLen = BufLen PROVE acData[BufLen] = Zero
    <2>1. e \in 1..Len(a) /\ BufLen \in 1..Len(a) /\ e <= BufLen
      BY <1>1, <1>3
    <2>2. a[e] = Zero
      BY <1>1, <1>2, <2>1
    <2>3. a[BufLen] = Zero
      BY <1>1, <2>1, <2>2 DEF Padded
    <2> QED
      BY <1>1, <1>2, <2>1, <2>3
  <1> QED
    BY <1>1, <1>2, <1>3

\* The rest of an answer is given up.
LEMMA TextGiveUp ==
    ASSUME TextInv, GiveUp
    PROVE  TextInv'
  <1>1. pBefore > 0 /\ ~Outside
    BY DEF GiveUp
  <1>2. PICK e \in pBefore..BufLen : acData[e] = Zero
    BY DEF GiveUp, Outside
  <1>3. acData[BufLen] = Zero
    BY <1>1, <1>2, ZeroAtEnd
  <1> QED
    BY <1>3, NamesAssumption DEF TextInv, TextTypes, TextLeft, TextWork, GiveUp

\* An answer is through: nothing is left of it.
LEMMA TextThrough ==
    ASSUME TextInv, Through
    PROVE  TextInv' /\ Left = {}
  <1> DEFINE a == packets[next - 1]
  <1>1. pBefore > 0 /\ ~Outside /\ ~More
    BY DEF Through
  <1>2. /\ BufLen \in Nat \ {0} /\ Padded(a) /\ iDataLen = Len(a) /\ iDataLen \in Nat \ {0}
        /\ iDataLen <= BufLen /\ pBefore \in 1..BufLen
        /\ iLeaveDataLen = iDataLen + 1 - pBefore
    BY <1>1, TextAtWork
  <1>3. /\ iDataLen < BufLen => acData[BufLen] = Zero
        /\ \A i \in 1..BufLen : i <= iDataLen => acData[i] = a[i]
    BY <1>1 DEF TextInv, TextWork
  <1> HIDE DEF a
  <1>4. ASSUME iLeaveDataLen > 0
        PROVE  /\ acData[BufLen] = Zero
               /\ \A k \in 1..iLeaveDataLen : acData[iDataLen - k + 1] = Zero
    <2>1. acData[pBefore] = Zero /\ pBefore \in 1..Len(a) /\ a[pBefore] = Zero
      BY <1>1, <1>2, <1>3, <1>4 DEF More
    <2>2. acData[BufLen] = Zero
      BY <1>1, <1>2, <2>1, ZeroAtEnd
    <2>3. ASSUME NEW k \in 1..iLeaveDataLen PROVE acData[iDataLen - k + 1] = Zero
      <3> DEFINE m == iDataLen - k + 1
      <3>1. m \in 1..Len(a) /\ pBefore <= m /\ m \in 1..BufLen /\ m <= iDataLen
        BY <1>2, <2>1
      <3> HIDE DEF m
      <3>2. a[m] = Zero
        BY <1>2, <2>1, <3>1 DEF Padded
      <3>3. acData[m] = Zero
        BY <1>3, <3>1, <3>2
      <3> QED
        BY <3>3 DEF m
    <2> QED
      BY <2>2, <2>3
  <1>5. acData[BufLen] = Zero
    <2>1. iDataLen < BufLen \/ iLeaveDataLen > 0
      BY <1>2
    <2> QED
      BY <1>3, <1>4, <2>1
  <1>6. Left = {}
    <2>1. ASSUME NEW k \in Left PROVE FALSE
      <3>1. k \in 1..iLeaveDataLen /\ acData[iDataLen - k + 1] # Zero
        BY <2>1 DEF Left
      <3>2. iLeaveDataLen > 0
        BY <1>2, <3>1
      <3> QED
        BY <1>4, <3>1, <3>2
    <2> QED
      BY <2>1
  <1>7. /\ iLeaveDataLen' = 0 /\ acData' = acData /\ pBefore' = 0
        /\ packets' = packets /\ next' = next /\ iDataLen' = iDataLen /\ files' = files
    BY <1>6 DEF Through
  <1> QED
    BY <1>5, <1>6, <1>7, NamesAssumption DEF TextInv, TextTypes, TextLeft, TextWork

LEMMA TextInside == TextInv => Inside
  <1> SUFFICES ASSUME TextInv PROVE Inside
    OBVIOUS
  <1> USE DEF TextInv, TextTypes
  <1>1. BufLen \in Nat \ {0} /\ Len(packets) \in Nat
    BY NamesAssumption, LenProperties
  <1>2. NamesTypeOK
    BY <1>1, SeqDef, LenProperties DEF NamesTypeOK, Range
  <1>3. pBefore = 0 => iLeaveDataLen = 0
    BY DEF TextLeft
  <1>4. ASSUME Outside PROVE Len(packets[next - 1]) >= BufLen
    <2>1. pBefore > 0
      BY <1>4 DEF Outside
    <2>2. /\ iDataLen = Len(packets[next - 1]) /\ iDataLen \in Nat \ {0}
          /\ pBefore \in 1..(BufLen + 1)
      BY <2>1, TextAtWork
    <2>3. iDataLen < BufLen => acData[BufLen] = Zero /\ pBefore <= BufLen
      BY <2>1 DEF TextWork
    <2>4. iDataLen < BufLen => BufLen \in pBefore..BufLen
      BY <1>1, <2>2, <2>3
    <2> QED
      BY <1>1, <1>4, <2>2, <2>3, <2>4 DEF Outside
  <1> QED
    BY <1>2, <1>3, <1>4 DEF Inside

LEMMA TextStep ==
    ASSUME TextInv, [NamesNext]_namesVars
    PROVE  TextInv'
  <1>1. CASE UNCHANGED namesVars
    BY <1>1 DEF namesVars, TextInv, TextTypes, TextLeft, TextWork
  <1> QED
    BY <1>1, TextTake, TextName, TextGiveUp, TextThrough DEF NamesNext

\* Whatever the messages of a search hold, of whatever length, the loops stay inside acData unless
\* the answer at work is as long as acData, and no answer leaves anything to the next.
THEOREM InsideAlways == NamesSpec => []Inside
  BY TextInit, TextStep, TextInside, PTL DEF NamesSpec

-----------------------------------------------------------------------------
(***************************************************************************)
(* FileNames: every name of whole answers is listed, in order and once.    *)
(***************************************************************************)

\* The ends of names that the loops have passed.
Passed ==
    {p \in NameEnds : p[1] < next - 1 \/ (p[1] = next - 1 /\ (pBefore = 0 \/ p[2] < pBefore))}

AllWhole == \A i \in 1..Len(packets) : OfWholeNames(packets[i])

\* One name is listed for every end passed, the next name begins behind one.
AllListed == AllWhole =>
    /\ pBefore > 1 => pBefore - 1 <= Len(packets[next - 1]) /\ packets[next - 1][pBefore - 1] = MP4
    /\ Len(files) = Cardinality(Passed)
    /\ \A k \in 1..Len(files) : files[k] = NameAt(EndNr(k))

\* A set of natural numbers that is not empty has a least element.
LEMMA Least ==
    ASSUME NEW S \in SUBSET Nat, S # {}
    PROVE  \E n \in S : \A i \in S : n <= i
  <1> DEFINE low(x) == {y \in S : y <= x}
             T == {low(x) : x \in S}
  <1>1. \A x \in S : IsFiniteSet(low(x))
    <2> SUFFICES ASSUME NEW x \in S PROVE IsFiniteSet(low(x))
      OBVIOUS
    <2>1. low(x) \in SUBSET Nat /\ x \in Nat /\ \A y \in low(x) : y <= x
      OBVIOUS
    <2> HIDE DEF low
    <2> QED
      BY <2>1, FS_BoundedSetOfNaturals
  <1>2. T \subseteq FiniteSubsetsOf(S) /\ T # {}
    BY <1>1 DEF FiniteSubsetsOf
  <1>3. PICK t \in T : \A u \in T : ~(<<u, t>> \in StrictSubsetOrdering(S))
    <2> HIDE DEF T
    <2>1. IsWellFoundedOn(StrictSubsetOrdering(S), FiniteSubsetsOf(S))
      BY FS_StrictSubsetOrderingWellFounded
    <2> QED
      BY <1>2, <2>1, WFMin
  <1>4. PICK n \in S : t = low(n)
    BY <1>3
  <1>5. ASSUME NEW i \in S, ~(n <= i) PROVE FALSE
    <2>1. low(i) \subseteq low(n) /\ n \in low(n) /\ n \notin low(i)
      <3>1. i \in Nat /\ n \in Nat /\ i < n
        BY <1>5
      <3>2. \A y \in S : y \in Nat /\ (y <= i => y <= n)
        BY <3>1
      <3>3. low(i) \subseteq low(n)
        BY <3>2
      <3>4. n \in low(n) /\ n \notin low(i)
        BY <3>1
      <3> QED
        BY <3>3, <3>4
    <2>2. <<low(i), t>> \in StrictSubsetOrdering(S)
      BY <1>4, <2>1 DEF StrictSubsetOrdering
    <2> QED
      BY <1>3, <2>2
  <1> QED
    BY <1>5

\* Where names end.
LEMMA EndIs ==
    /\ \A p \in NameEnds : /\ p = <<p[1], p[2]>> /\ p[1] \in 1..Len(packets)
                           /\ p[2] \in 1..Len(packets[p[1]]) /\ packets[p[1]][p[2]] = MP4
    /\ \A i \in 1..Len(packets) : \A e \in 1..Len(packets[i]) :
          packets[i][e] = MP4 => <<i, e>> \in NameEnds
  BY DEF NameEnds, Spots

\* There are finitely many ends of names; each has a place in their order of its own.
LEMMA EndsFinite == TextInv => /\ IsFiniteSet(NameEnds)
                               /\ Cardinality(NameEnds) \in Nat
                               /\ \A S \in SUBSET NameEnds : IsFiniteSet(S) /\ Cardinality(S) \in Nat
  <1> SUFFICES ASSUME TextInv
               PROVE  IsFiniteSet(NameEnds)
    BY FS_Subset, FS_CardinalityType
  <1>1. Len(packets) \in Nat /\ \A i \in 1..Len(packets) : Len(packets[i]) \in Nat
    BY LenProperties, ElementOfSeq, Short DEF TextInv, TextTypes
  <1> DEFINE row(i) == {i} \X (1..Len(packets[i]))
             rows == {row(i) : i \in 1..Len(packets)}
  <1>2. \A i \in 1..Len(packets) : IsFiniteSet(row(i))
    <2> SUFFICES ASSUME NEW i \in 1..Len(packets) PROVE IsFiniteSet(row(i))
      OBVIOUS
    <2>3. \A k \in Nat : IsFiniteSet(1..k)
      BY FS_Interval
    <2>4. Len(packets[i]) \in Nat
      BY <1>1
    <2> HIDE DEF row, rows
    <2>1. IsFiniteSet(1..Len(packets[i]))
      BY ONLY <2>3, <2>4
    <2>2. IsFiniteSet({i})
      BY FS_Singleton
    <2> QED
      BY <2>1, <2>2, FS_Product DEF row
  <1>3. IsFiniteSet(1..Len(packets))
    BY <1>1, FS_Interval
  <1>4. IsFiniteSet(rows)
    <2> DEFINE f == [i \in 1..Len(packets) |-> row(i)]
    <2>1. f \in Surjection(1..Len(packets), rows)
      <3> HIDE DEF row
      <3> QED
        BY DEF Surjection
    <2> HIDE DEF f, rows
    <2> QED
      BY <1>3, <2>1, FS_Surjection
  <1>5. IsFiniteSet(UNION rows)
    BY <1>2, <1>4, FS_UNION
  <1> QED
    BY <1>5, FS_Subset DEF NameEnds, Spots

LEMMA EndOf ==
    ASSUME TextInv, NEW p \in NameEnds
    PROVE  EndNr(Cardinality({q \in NameEnds : Upto(q, p)})) = p
  <1> DEFINE upto(r) == {q \in NameEnds : Upto(q, r)}
             k == Cardinality(upto(p))
  <1>1. \A q \in NameEnds : q = <<q[1], q[2]>> /\ q[1] \in Int /\ q[2] \in Int
    BY EndIs
  <1>2. \A r \in NameEnds : IsFiniteSet(upto(r)) /\ r \in upto(r)
    BY <1>1, EndsFinite DEF Upto
  <1>3. ASSUME NEW r \in NameEnds, NEW s \in NameEnds, Upto(r, s),
               Cardinality(upto(r)) = Cardinality(upto(s))
        PROVE  r = s
    <2>1. upto(r) \subseteq upto(s)
      BY <1>1, <1>3 DEF Upto
    <2>2. upto(r) = upto(s)
      <3> HIDE DEF upto
      <3> QED
        BY <1>2, <1>3, <2>1, FS_Subset
    <2>3. Upto(s, r)
      BY <1>2, <2>2
    <2> QED
      BY <1>1, <1>3, <2>3 DEF Upto
  <1>4. \A r \in NameEnds : Upto(r, p) \/ Upto(p, r)
    BY <1>1 DEF Upto
  <1>5. \A r \in NameEnds : Cardinality(upto(r)) = k => r = p
    BY <1>3, <1>4
  <1>6. EndNr(k) \in NameEnds /\ Cardinality(upto(EndNr(k))) = k
    BY DEF EndNr
  <1> QED
    BY <1>5, <1>6

\* A name begins behind the end before it, or at the front.
LEMMA BeginOf ==
    ASSUME NEW a \in Copies, NEW e \in 1..Len(a), NEW b \in 1..e,
           b = 1 \/ a[b - 1] = MP4, \A i \in b..(e - 1) : a[i] # MP4
    PROVE  NameBegin(a, e) = b
  <1>1. Len(a) \in Nat
    BY Short
  <1> DEFINE P(c) == (c = 1 \/ a[c - 1] = MP4) /\ \A i \in c..(e - 1) : a[i] # MP4
  <1>2. ASSUME NEW c \in 1..e, P(c) PROVE c = b
    <2>1. ~(c < b)
      <3> SUFFICES ASSUME c < b PROVE FALSE
        OBVIOUS
      <3>1. b - 1 \in c..(e - 1) /\ b # 1
        BY <1>1
      <3> QED
        BY <1>2, <3>1
    <2>2. ~(b < c)
      <3> SUFFICES ASSUME b < c PROVE FALSE
        OBVIOUS
      <3>1. c - 1 \in b..(e - 1) /\ c # 1
        BY <1>1
      <3> QED
        BY <1>2, <3>1
    <2> QED
      BY <1>1, <2>1, <2>2
  <1>3. P(b)
    OBVIOUS
  <1> QED
    BY <1>2, <1>3 DEF NameBegin

LEMMA ListedInit == NamesInit => AllListed
  <1> SUFFICES ASSUME NamesInit PROVE AllListed
    OBVIOUS
  <1>1. TextInv
    BY TextInit
  <1>2. Passed = {}
    BY EndIs DEF Passed, NamesInit
  <1> QED
    BY <1>2, FS_EmptySet, EmptySeq DEF AllListed, NamesInit

\* What holds of whole answers when one is at work: acData begins with it.
LEMMA WholeAtWork ==
    ASSUME TextInv, AllWhole, pBefore > 0, ~Outside
    PROVE  /\ next \in 2..(Len(packets) + 1) /\ packets[next - 1] \in Copies
           /\ packets[next - 1] \in [1..Len(packets[next - 1]) -> Symbol]
           /\ iDataLen = Len(packets[next - 1]) /\ iDataLen \in 1..BufLen
           /\ BufLen \in Nat /\ pBefore \in 1..BufLen
           /\ iLeaveDataLen = iDataLen + 1 - pBefore
           /\ \A i \in 1..iDataLen : acData[i] = packets[next - 1][i]
           /\ OfWholeNames(packets[next - 1])
  <1> DEFINE a == packets[next - 1]
  <1>1. /\ BufLen \in Nat \ {0} /\ Len(packets) \in Nat /\ next \in 2..(Len(packets) + 1)
        /\ a \in Copies /\ iDataLen = Len(a) /\ iDataLen \in Nat \ {0}
        /\ iLeaveDataLen = iDataLen + 1 - pBefore
        /\ pBefore \in 1..(BufLen + 1) /\ iDataLen <= BufLen /\ pBefore <= BufLen
    BY TextAtWork
  <1>2. OfWholeNames(a)
    BY <1>1 DEF AllWhole
  <1>3. a \in [1..Len(a) -> Symbol]
    BY <1>1, Short
  <1>4. \A i \in 1..BufLen : i <= iDataLen => acData[i] = a[i]
    BY DEF TextInv, TextWork
  <1> HIDE DEF a
  <1>5. \A i \in 1..iDataLen : acData[i] = a[i]
    BY <1>1, <1>4
  <1> QED
    BY <1>1, <1>2, <1>3, <1>5 DEF a

LEMMA ListedTake ==
    ASSUME TextInv, AllListed, TakePacket
    PROVE  AllListed'
  <1> SUFFICES ASSUME AllWhole PROVE AllListed'
    BY DEF TakePacket, AllListed, AllWhole
  <1>1. next \in Nat /\ pBefore = 0 /\ next' = next + 1 /\ pBefore' = 1 /\ packets' = packets /\ files' = files
    BY LenProperties DEF TakePacket, TextInv, TextTypes
  <1>2. NameEnds' = NameEnds
    BY <1>1 DEF NameEnds, Spots
  <1>3. Passed' = Passed
    BY <1>1, <1>2, EndIs DEF Passed
  <1>4. \A k : NameAt(EndNr(k))' = NameAt(EndNr(k))
    BY <1>1, <1>2 DEF NameAt, EndNr
  <1> QED
    BY <1>1, <1>3, <1>4 DEF AllListed

LEMMA ListedName ==
    ASSUME TextInv, AllListed, Name
    PROVE  AllListed'
  <1> SUFFICES ASSUME AllWhole PROVE AllListed'
    BY DEF Name, AllListed, AllWhole
  <1> DEFINE a == packets[next - 1]
  <1>1. pBefore > 0 /\ ~Outside /\ iLeaveDataLen > 0 /\ acData[pBefore] # Zero
    BY DEF Name, More
  <1>2. /\ next \in 2..(Len(packets) + 1) /\ a \in Copies /\ a \in [1..Len(a) -> Symbol]
        /\ iDataLen = Len(a) /\ iDataLen \in 1..BufLen
        /\ BufLen \in Nat /\ pBefore \in 1..BufLen
        /\ iLeaveDataLen = iDataLen + 1 - pBefore
        /\ \A i \in 1..iDataLen : acData[i] = a[i]
        /\ OfWholeNames(a)
    BY <1>1, WholeAtWork
  <1>3. PICK e \in Strstr(pBefore) :
          /\ files' = Append(files, SubSeq(acData, pBefore, e))
          /\ pBefore' = e + 1
    BY DEF Name
  <1>4. packets' = packets /\ next' = next
    BY DEF Name
  <1> HIDE DEF a
  <1>5. PICK n \in 1..Len(a) : /\ a[n] = MP4 /\ \A i \in 1..n : a[i] # Zero
                               /\ \A i \in (n + 1)..Len(a) : a[i] = Zero
    BY <1>2 DEF OfWholeNames
  <1>6. e \in pBefore..n
    <2>1. pBefore \in 1..Len(a) /\ a[pBefore] # Zero
      BY <1>1, <1>2
    <2>2. pBefore <= n
      BY <1>2, <1>5, <2>1
    <2>3. e \in pBefore..BufLen /\ \A i \in pBefore..(e - 1) : acData[i] # MP4
      BY <1>3 DEF Strstr
    <2>4. acData[n] = MP4 /\ n \in Nat
      BY <1>2, <1>5
    <2> QED
      BY <1>2, <2>2, <2>3, <2>4
  <1>7. a[e] = MP4 /\ (\A i \in pBefore..(e - 1) : a[i] # MP4) /\ e \in 1..Len(a) /\ e \in 1..BufLen
    <2>1. e \in 1..iDataLen /\ \A i \in pBefore..(e - 1) : i \in 1..iDataLen
      BY <1>2, <1>5, <1>6
    <2>2. acData[e] = MP4 /\ \A i \in pBefore..(e - 1) : acData[i] # MP4
      BY <1>3 DEF Strstr
    <2> QED
      BY <1>2, <2>1, <2>2
  <1> DEFINE p == <<next - 1, e>>
  <1>8. p \in NameEnds /\ p \notin Passed
    <2>1. next - 1 \in 1..Len(packets)
      BY <1>2
    <2>2. p \in NameEnds
      BY <1>7, <2>1, EndIs DEF a
    <2> QED
      BY <1>2, <1>6, <2>2 DEF Passed
  <1>9. NameEnds' = NameEnds
    BY <1>4 DEF NameEnds, Spots
  <1>10. \A q \in NameEnds : q = <<q[1], q[2]>> /\ q[1] \in Int /\ q[2] \in Nat \ {0}
    BY EndIs
  <1>11. \A q \in NameEnds : q[1] = next - 1 /\ q[2] \in pBefore..e => q = p
    <2> SUFFICES ASSUME NEW q \in NameEnds, q[1] = next - 1, q[2] \in pBefore..e
                 PROVE  q = p
      OBVIOUS
    <2>1. a[q[2]] = MP4
      BY EndIs DEF a
    <2>2. q[2] = e
      BY <1>2, <1>6, <1>7, <2>1
    <2> QED
      BY <1>10, <2>2
  <1>12. Passed' = Passed \cup {p}
    <2>1. Passed' = {q \in NameEnds : q[1] < next - 1 \/ (q[1] = next - 1 /\ q[2] <= e)}
      <3>1. pBefore' # 0 /\ \A q \in NameEnds : q[2] < pBefore' <=> q[2] <= e
        BY <1>2, <1>3, <1>6, <1>10
      <3> QED
        BY <1>4, <1>9, <3>1 DEF Passed
    <2>2. ASSUME NEW q \in Passed' PROVE q \in Passed \cup {p}
      BY <1>2, <1>6, <1>10, <1>11, <2>1, <2>2 DEF Passed
    <2>3. ASSUME NEW q \in Passed PROVE q \in Passed'
      BY <1>2, <1>6, <1>10, <2>1 DEF Passed
    <2>4. p \in Passed'
      BY <1>2, <1>6, <1>8, <2>1
    <2> QED
      BY <2>2, <2>3, <2>4
  <1>13. Passed' = {q \in NameEnds : Upto(q, p)}
    BY <1>2, <1>3, <1>4, <1>6, <1>9, <1>10 DEF Passed, Upto
  <1>14. Cardinality(Passed') = Cardinality(Passed) + 1
    <2>1. IsFiniteSet(Passed)
      BY EndsFinite DEF Passed
    <2> HIDE DEF p
    <2> QED
      BY <1>8, <1>12, <2>1, FS_AddElement
  <1>15. EndNr(Len(files) + 1) = p
    <2> HIDE DEF p
    <2>1. Cardinality({q \in NameEnds : Upto(q, p)}) = Len(files) + 1
      BY <1>13, <1>14 DEF AllListed
    <2> QED
      BY <1>8, <2>1, EndOf
  <1>16. NameAt(p) = SubSeq(acData, pBefore, e)
    <2>1. pBefore = 1 \/ a[pBefore - 1] = MP4
      BY <1>2 DEF AllListed, a
    <2>2. NameBegin(a, e) = pBefore
      <3>1. pBefore \in 1..e
        BY <1>2, <1>6
      <3> QED
        BY <1>2, <1>7, <2>1, <3>1, BeginOf
    <2>3. NameAt(p) = SubSeq(a, pBefore, e)
      BY <2>2 DEF NameAt, a
    <2>4. acData \in Seq(Symbol) /\ Len(acData) = BufLen /\ a \in Seq(Symbol)
      BY <1>2, SeqDef, LenProperties, Short DEF TextInv, TextTypes
    <2> DEFINE s == SubSeq(a, pBefore, e)
               t == SubSeq(acData, pBefore, e)
    <2>5. /\ s \in Seq(Symbol) /\ Len(s) = e - pBefore + 1
          /\ t \in Seq(Symbol) /\ Len(t) = e - pBefore + 1
          /\ \A i \in 1..(e - pBefore + 1) : s[i] = a[pBefore + i - 1] /\ t[i] = acData[pBefore + i - 1]
      <3>1. pBefore \in 1..BufLen /\ e \in 1..BufLen /\ pBefore <= e + 1
        BY <1>2, <1>6, <1>7
      <3>2. pBefore \in 1..(Len(a) + 1) /\ e \in 0..Len(a)
        BY <1>2, <1>6, <1>7
      <3>3. pBefore \in 1..(Len(acData) + 1) /\ e \in 0..Len(acData)
        BY <1>2, <2>4, <3>1
      <3>4. /\ s \in Seq(Symbol) /\ Len(s) = IF pBefore <= e THEN e - pBefore + 1 ELSE 0
            /\ \A i \in 1..(e - pBefore + 1) : s[i] = a[pBefore + i - 1]
        BY <2>4, <3>2, SubSeqProperties
      <3>5. /\ t \in Seq(Symbol) /\ Len(t) = IF pBefore <= e THEN e - pBefore + 1 ELSE 0
            /\ \A i \in 1..(e - pBefore + 1) : t[i] = acData[pBefore + i - 1]
        BY <2>4, <3>3, SubSeqProperties
      <3> QED
        BY <1>2, <1>6, <3>4, <3>5
    <2>6. \A i \in 1..(e - pBefore + 1) : pBefore + i - 1 \in 1..iDataLen
      BY <1>2, <1>6, <1>7
    <2> HIDE DEF s, t
    <2>7. \A i \in 1..(e - pBefore + 1) : s[i] = t[i]
      BY <1>2, <2>5, <2>6
    <2>8. s = t
      BY <2>5, <2>7, SeqEqual
    <2> QED
      BY <2>3, <2>8 DEF s, t
  <1>17. files \in Seq(Seq(Symbol)) /\ Len(files) \in Nat
    BY LenProperties DEF TextInv, TextTypes
  <1> DEFINE f == SubSeq(acData, pBefore, e)
  <1>18. f \in Seq(Symbol)
    BY <1>2, <1>6, <1>7, SeqDef, LenProperties, SubSeqProperties DEF TextInv, TextTypes
  <1>19. /\ Len(files') = Len(files) + 1 /\ files'[Len(files) + 1] = f
         /\ \A k \in 1..Len(files) : files'[k] = files[k]
    <2> HIDE DEF f
    <2>1. files' = Append(files, f)
      BY <1>3 DEF f
    <2> QED
      BY <1>17, <1>18, <2>1, AppendProperties
  <1>20. \A k : NameAt(EndNr(k))' = NameAt(EndNr(k))
    BY <1>4, <1>9 DEF NameAt, EndNr
  <1>21. \A k \in 1..Len(files') : files'[k] = NameAt(EndNr(k))
    <2> HIDE DEF p, f
    <2>1. files'[Len(files) + 1] = NameAt(EndNr(Len(files) + 1))
      BY <1>15, <1>16, <1>19 DEF f
    <2>2. \A k \in 1..Len(files) : files'[k] = NameAt(EndNr(k))
      BY <1>19 DEF AllListed
    <2>3. \A k \in 1..(Len(files) + 1) : k = Len(files) + 1 \/ k \in 1..Len(files)
      BY <1>17
    <2> QED
      BY <1>19, <2>1, <2>2, <2>3
  <1>22. pBefore' > 1 => /\ pBefore' - 1 <= Len(packets'[next' - 1])
                         /\ packets'[next' - 1][pBefore' - 1] = MP4
    <2>1. pBefore' - 1 = e
      BY <1>3, <1>7
    <2> QED
      BY <1>4, <1>7, <2>1 DEF a
  <1>23. Len(files') = Cardinality(Passed')
    BY <1>14, <1>19 DEF AllListed
  <1> QED
    BY <1>20, <1>21, <1>22, <1>23 DEF AllListed

\* The rest of whole names is never given up.
LEMMA ListedGiveUp ==
    ASSUME TextInv, AllListed, GiveUp
    PROVE  AllListed'
  <1> SUFFICES ASSUME AllWhole PROVE FALSE
    BY DEF GiveUp, AllListed, AllWhole
  <1> DEFINE a == packets[next - 1]
  <1>1. pBefore > 0 /\ ~Outside /\ iLeaveDataLen > 0 /\ acData[pBefore] # Zero /\ Strstr(pBefore) = {}
    BY DEF GiveUp, More
  <1>2. /\ a \in [1..Len(a) -> Symbol]
        /\ iDataLen = Len(a) /\ iDataLen \in 1..BufLen
        /\ BufLen \in Nat /\ pBefore \in 1..BufLen
        /\ iLeaveDataLen = iDataLen + 1 - pBefore
        /\ \A i \in 1..iDataLen : acData[i] = a[i]
        /\ OfWholeNames(a)
    BY <1>1, WholeAtWork
  <1> HIDE DEF a
  <1>3. PICK n \in 1..Len(a) : /\ a[n] = MP4 /\ \A i \in 1..n : a[i] # Zero
                               /\ \A i \in (n + 1)..Len(a) : a[i] = Zero
    BY <1>2 DEF OfWholeNames
  <1>4. pBefore <= n
    <2>1. pBefore \in 1..Len(a) /\ a[pBefore] # Zero
      BY <1>1, <1>2
    <2> QED
      BY <1>2, <1>3, <2>1
  <1> DEFINE E == {e \in pBefore..n : a[e] = MP4}
  <1>5. E \in SUBSET Nat /\ n \in E
    BY <1>2, <1>3, <1>4
  <1>6. PICK e \in E : \A i \in E : e <= i
    <2> HIDE DEF E
    <2> QED
      BY <1>5, Least
  <1>7. \A i \in pBefore..(e - 1) : i \in 1..n /\ i \in 1..iDataLen /\ i \notin E
    BY <1>2, <1>3, <1>6
  <1>8. \A i \in pBefore..(e - 1) : acData[i] \notin {Zero, MP4}
    <2> SUFFICES ASSUME NEW i \in pBefore..(e - 1) PROVE a[i] # Zero /\ a[i] # MP4
      BY <1>2, <1>7
    <2>1. i \in pBefore..n
      BY <1>2, <1>3, <1>6
    <2> QED
      BY <1>3, <1>7, <2>1
  <1>9. e \in 1..iDataLen /\ e \in pBefore..BufLen /\ a[e] = MP4
    BY <1>2, <1>3, <1>6
  <1>10. e \in Strstr(pBefore)
    BY <1>2, <1>8, <1>9 DEF Strstr
  <1> QED
    BY <1>1, <1>10

LEMMA ListedThrough ==
    ASSUME TextInv, AllListed, Through
    PROVE  AllListed'
  <1> SUFFICES ASSUME AllWhole PROVE AllListed'
    BY DEF Through, AllListed, AllWhole
  <1> DEFINE a == packets[next - 1]
  <1>1. pBefore > 0 /\ ~Outside /\ ~(iLeaveDataLen > 0 /\ acData[pBefore] # Zero)
    BY DEF Through, More
  <1>2. /\ next \in 2..(Len(packets) + 1) /\ a \in [1..Len(a) -> Symbol]
        /\ iDataLen = Len(a) /\ iDataLen \in 1..BufLen
        /\ BufLen \in Nat /\ pBefore \in 1..BufLen
        /\ iLeaveDataLen = iDataLen + 1 - pBefore
        /\ \A i \in 1..iDataLen : acData[i] = a[i]
        /\ OfWholeNames(a)
    BY <1>1, WholeAtWork
  <1>3. packets' = packets /\ next' = next /\ files' = files /\ pBefore' = 0
    BY DEF Through
  <1> HIDE DEF a
  <1>4. \A e \in 1..Len(a) : a[e] = MP4 => e < pBefore
    <2> SUFFICES ASSUME NEW e \in 1..Len(a), a[e] = MP4, pBefore <= e PROVE FALSE
      BY <1>2
    <2>1. pBefore \in 1..iDataLen /\ a[pBefore] = Zero
      BY <1>1, <1>2
    <2>2. Padded(a)
      BY <1>1, TextAtWork DEF a
    <2>3. a[e] = Zero
      BY <1>2, <2>1, <2>2 DEF Padded
    <2> QED
      BY <2>3, NamesAssumption
  <1>5. NameEnds' = NameEnds
    BY <1>3 DEF NameEnds, Spots
  <1>6. \A q \in NameEnds : q[1] = next - 1 => q[2] < pBefore
    <2> SUFFICES ASSUME NEW q \in NameEnds, q[1] = next - 1 PROVE q[2] < pBefore
      OBVIOUS
    <2>1. q[2] \in 1..Len(a) /\ a[q[2]] = MP4
      BY <1>2, EndIs DEF a
    <2> QED
      BY <1>4, <2>1
  <1>7. Passed' = Passed
    BY <1>3, <1>5, <1>6 DEF Passed
  <1>8. \A k : NameAt(EndNr(k))' = NameAt(EndNr(k))
    BY <1>3, <1>5 DEF NameAt, EndNr
  <1> QED
    BY <1>3, <1>7, <1>8 DEF AllListed

LEMMA ListedAll == TextInv /\ AllListed => AllNames
  <1> SUFFICES ASSUME TextInv, AllListed, AllWhole
               PROVE  IsPrefix(files, Reference) /\ (AllTaken => files = Reference)
    BY DEF AllNames, AllWhole
  <1> DEFINE n == Cardinality(NameEnds)
             v == {NameAt(EndNr(k)) : k \in 1..n}
  <1>1. /\ Len(files) = Cardinality(Passed)
        /\ \A k \in 1..Len(files) : files[k] = NameAt(EndNr(k))
    BY DEF AllListed
  <1>2. IsFiniteSet(NameEnds) /\ n \in Nat /\ Passed \in SUBSET NameEnds
    BY EndsFinite DEF Passed
  <1>3. Cardinality(Passed) <= n
    BY <1>2, FS_Subset
  <1>4. files \in Seq(Seq(Symbol)) /\ Len(files) \in Nat /\ Len(files) <= n
    <2>1. files \in Seq(Seq(Symbol))
      BY DEF TextInv, TextTypes
    <2> QED
      BY <1>1, <1>3, <2>1, LenProperties
  <1>5. Reference \in [1..n -> v] /\ \A k \in 1..n : Reference[k] = NameAt(EndNr(k))
    BY DEF Reference
  <1> HIDE DEF n, v
  <1>6. Reference \in Seq(v) /\ Len(Reference) = n
    BY <1>2, <1>5, SeqDef, LenProperties
  <1>7. \A k \in 1..Len(files) : files[k] = Reference[k] /\ k \in 1..n
    BY <1>1, <1>2, <1>4, <1>5
  <1> DEFINE s == SubSeq(files, 1, Len(files))
             t == SubSeq(Reference, 1, Len(files))
             w == v \cup Seq(Symbol)
  <1>8. /\ s \in Seq(w) /\ Len(s) = Len(files)
        /\ \A k \in 1..Len(files) : s[k] = files[k]
    <2>1. \A k \in 1..Len(files) : files[k] \in w
      BY <1>4, ElementOfSeq
    <2> HIDE DEF w
    <2> QED
      BY <1>4, <2>1, SubSeqProperties
  <1>9. /\ t \in Seq(w) /\ Len(t) = Len(files)
        /\ \A k \in 1..Len(files) : t[k] = Reference[k]
    <2>1. \A k \in 1..Len(files) : Reference[k] \in w
      BY <1>5, <1>7
    <2> HIDE DEF w
    <2> QED
      BY <1>4, <2>1, SubSeqProperties
  <1>10. s = t
    <2> HIDE DEF s, t, w
    <2> QED
      BY <1>7, <1>8, <1>9, SeqEqual
  <1>11. IsPrefix(files, Reference)
    BY <1>4, <1>6, <1>10 DEF IsPrefix
  <1>12. ASSUME AllTaken PROVE files = Reference
    <2>1. next = Len(packets) + 1 /\ pBefore = 0 /\ Len(packets) \in Nat
      BY <1>12, LenProperties DEF AllTaken, TextInv, TextTypes
    <2>2. Passed = NameEnds
      BY <2>1, EndIs DEF Passed
    <2>3. Len(files) = n
      BY <1>1, <2>2 DEF n
    <2>4. files \in Seq(w) /\ Reference \in Seq(w)
      <3>1. v \subseteq w /\ Seq(Symbol) \subseteq w
        OBVIOUS
      <3> HIDE DEF w
      <3> QED
        BY <1>4, <1>6, <3>1, SeqMonotonic
    <2> HIDE DEF w
    <2> QED
      BY <1>6, <1>7, <2>3, <2>4, SeqEqual
  <1> QED
    BY <1>11, <1>12

\* Of answers of whole names, however they lie in acData, every name is listed, in order and once,
\* and nothing that an earlier answer has left behind is, until one goes over the end of acData.
THEOREM AllNamesAlways == NamesSpec => []AllNames
  <1>1. NamesInit => TextInv /\ AllListed
    BY TextInit, ListedInit
  <1>2. ASSUME TextInv, AllListed, [NamesNext]_namesVars
        PROVE  AllListed'
    <2>1. CASE UNCHANGED namesVars
      <3>1. packets' = packets /\ next' = next /\ pBefore' = pBefore /\ files' = files
        BY <2>1 DEF namesVars
      <3>2. NameEnds' = NameEnds
        BY <3>1 DEF NameEnds, Spots
      <3>3. Passed' = Passed /\ \A k : NameAt(EndNr(k))' = NameAt(EndNr(k))
        BY <3>1, <3>2 DEF Passed, NameAt, EndNr
      <3> QED
        BY <1>2, <3>1, <3>3 DEF AllListed, AllWhole
    <2> QED
      BY <1>2, <2>1, ListedTake, ListedName, ListedGiveUp, ListedThrough DEF NamesNext
  <1> QED
    BY <1>1, <1>2, TextStep, ListedAll, PTL DEF NamesSpec

-----------------------------------------------------------------------------
(***************************************************************************)
(* FileNames: why the loops end.                                           *)
(***************************************************************************)

\* What is left to do: a turn for every answer not yet taken, and the rest of the one at work.
Turn == BufLen + 2
ToDo == (Len(packets) + 1 - next) * Turn + (IF pBefore = 0 THEN 0 ELSE BufLen + 1 - pBefore)

LEMMA ToDoNat == TextInv => ToDo \in Nat
  <1> SUFFICES ASSUME TextInv PROVE ToDo \in Nat
    OBVIOUS
  <1>1. /\ BufLen \in Nat /\ pBefore \in 0..(BufLen + 1)
        /\ Len(packets) \in Nat /\ next \in 1..(Len(packets) + 1)
    BY NamesAssumption, LenProperties DEF TextInv, TextTypes
  <1>2. Len(packets) + 1 - next \in Nat /\ Turn \in Nat
    BY <1>1 DEF Turn
  <1>3. (Len(packets) + 1 - next) * Turn \in Nat
    BY <1>2
  <1> QED
    BY <1>1, <1>3 DEF ToDo

\* Every step of the loops leaves less to do.
LEMMA ToDoLess ==
    ASSUME TextInv, NamesNext
    PROVE  ToDo' < ToDo
  <1> DEFINE n == Len(packets) + 1 - next
  <1>1. /\ BufLen \in Nat \ {0} /\ pBefore \in 0..(BufLen + 1)
        /\ Len(packets) \in Nat /\ next \in 1..(Len(packets) + 1)
    BY NamesAssumption, LenProperties DEF TextInv, TextTypes
  <1>2. n \in Nat /\ Turn \in Nat /\ n * Turn \in Nat
    <2>1. n \in Nat /\ Turn \in Nat
      BY <1>1 DEF Turn
    <2> HIDE DEF n
    <2> QED
      BY <2>1
  <1>3. Turn' = Turn
    BY DEF Turn
  <1>4. CASE TakePacket
    <2>1. next' = next + 1 /\ pBefore' = 1 /\ packets' = packets /\ pBefore = 0
      BY <1>4 DEF TakePacket
    <2>2. n' = n - 1
      BY <1>1, <2>1
    <2> HIDE DEF n
    <2>3. (n - 1) * Turn = n * Turn - Turn
      BY <1>2
    <2>4. ToDo' = (n - 1) * Turn + BufLen
      BY <1>1, <1>3, <2>1, <2>2 DEF ToDo, n
    <2>5. ToDo = n * Turn
      BY <1>2, <2>1 DEF ToDo, n
    <2> QED
      BY <1>1, <1>2, <2>3, <2>4, <2>5 DEF Turn
  <1>5. ASSUME next' = next, packets' = packets, pBefore > 0, pBefore <= BufLen,
               pBefore' = 0 \/ (pBefore' \in Nat /\ pBefore' > pBefore)
        PROVE  ToDo' < ToDo
    <2>1. n' = n
      BY <1>5
    <2>2. ToDo' = n * Turn + (IF pBefore' = 0 THEN 0 ELSE BufLen + 1 - pBefore')
      BY <1>3, <2>1 DEF ToDo
    <2>3. ToDo = n * Turn + (BufLen + 1 - pBefore)
      BY <1>1, <1>5 DEF ToDo
    <2> DEFINE m == n * Turn
    <2>4. m \in Nat
      BY <1>2
    <2>5. ToDo' = m + (IF pBefore' = 0 THEN 0 ELSE BufLen + 1 - pBefore')
      BY <2>2
    <2>6. ToDo = m + (BufLen + 1 - pBefore)
      BY <2>3
    <2> HIDE DEF m
    <2>7. \A k, l, p \in Int : p <= l => k + 0 < k + (l + 1 - p)
      OBVIOUS
    <2>8. \A k, l, p, q \in Int : q > p => k + (l + 1 - q) < k + (l + 1 - p)
      OBVIOUS
    <2> QED
      BY <1>1, <1>5, <2>4, <2>5, <2>6, <2>7, <2>8
  <1>6. CASE Name
    <2>1. PICK e \in Strstr(pBefore) : pBefore' = e + 1
      BY <1>6 DEF Name
    <2>2. e \in pBefore..BufLen /\ pBefore > 0 /\ pBefore <= BufLen
      BY <1>1, <1>6 DEF Strstr, Name
    <2>3. next' = next /\ packets' = packets /\ pBefore' \in Nat /\ pBefore' > pBefore
      BY <1>1, <1>6, <2>1, <2>2 DEF Name
    <2> QED
      BY <1>5, <2>2, <2>3
  <1>7. CASE GiveUp
    BY <1>1, <1>5, <1>7 DEF GiveUp, Outside
  <1>8. CASE Through
    BY <1>1, <1>5, <1>8 DEF Through, Outside
  <1> QED
    BY <1>4, <1>6, <1>7, <1>8 DEF NamesNext

\* Whatever the answers are, every step of the loops leaves less to do, and what there is to do is
\* a natural number: there are only so many steps, which is why the loops end (LoopsEnd).
THEOREM LoopsDescend ==
    NamesSpec => [](ToDo \in Nat) /\ [][ToDo' < ToDo]_namesVars
  <1>1. ASSUME TextInv, [NamesNext]_namesVars
        PROVE  [ToDo' < ToDo]_namesVars
    BY <1>1, ToDoLess
  <1> QED
    BY <1>1, TextInit, TextStep, ToDoNat, PTL DEF NamesSpec
-----------------------------------------------------------------------------
(***************************************************************************)
(* NvrSearch: why a search ends.  Every thread is on a way with an end,    *)
(* from which only a new node, a new answer, the next camera or another    *)
(* message leads back.                                                     *)
(***************************************************************************)

Sending == {"searching", "clean", "send"}

\* The steps from a place to the end of the way, and for the user interface to the next tick.
PathOf(l) ==
    CASE l \in {"finish", "pop", "send"} -> 1
      [] l \in {"unlink", "clean"} -> 2
      [] l \in {"read", "searching"} -> 3
      [] l = "look" -> 4
      [] l \in {"take", "over"} -> 5
      [] l \in {"last", "end", "accept"} -> 6
      [] l = "other" -> 7
      [] OTHER -> 0
Path(f, l) == IF f = Ui /\ l = "idle" THEN 6 ELSE PathOf(l)

\* A request that is about to be sent; a tick with the count below zero that waits for another
\* one is made up for when the user interface goes on to the next camera.
Turns(f, l) ==
    IF f = Ui THEN IF l = "pop" THEN 0 ELSE IF l \in Sending THEN 3 ELSE 2
    ELSE IF l \in Sending THEN 1 ELSE 0

\* The same for all threads together.
Places == {x \in Nvr \X (1..7) : x[2] <= PathOf(pc[x[1]])}
Sends == {n \in Nvr : pc[n] \in Sending}
AllPaths == Cardinality(Places) + Path(Ui, pc[Ui])
AllTurns == Cardinality(Sends) + Turns(Ui, pc[Ui])

\* What is left of the search: the cameras, the requests, the messages that may come; and on the
\* way to the next of them: the nodes, the answers, the steps of the threads.
Chances == (1 - iWaitCnt) + 2 * (MaxOther - others) + (IF up THEN 0 ELSE 1)
Rounds == 4 * Len(left) + AllTurns + Chances
Paces == 5 * Len(queue) + 7 * Len(flight) + AllPaths

Nearer == Rounds' < Rounds \/ (Rounds' = Rounds /\ Paces' < Paces)

Finite == IsFiniteSet(Places) /\ IsFiniteSet(Sends)

\* Where the user interface can be, and how it got there while the timer is active.
Ticking ==
    /\ others \in 0..MaxOther
    /\ pc[Ui] \notin {"other", "end", "accept"}
    /\ timer /\ pc[Ui] \in Sending \cup {"pop", "started"} => pc[Ui] # "started" /\ loc[Ui].left # 0

LEMMA PathIs ==
    /\ PathOf("idle") = 0 /\ PathOf("started") = 0 /\ PathOf("finish") = 1 /\ PathOf("pop") = 1
    /\ PathOf("send") = 1 /\ PathOf("unlink") = 2 /\ PathOf("clean") = 2 /\ PathOf("read") = 3
    /\ PathOf("searching") = 3 /\ PathOf("look") = 4 /\ PathOf("take") = 5 /\ PathOf("over") = 5
    /\ PathOf("last") = 6 /\ PathOf("end") = 6 /\ PathOf("accept") = 6 /\ PathOf("other") = 7
    /\ \A l \in Labels : PathOf(l) \in 0..7
  BY DEF PathOf, Labels

\* A thread of a connection takes its way with it.
LEMMA MoveNvr ==
    ASSUME Placed, Finite, NEW n \in Nvr, NEW l \in Labels, pc' = [pc EXCEPT ![n] = l]
    PROVE  /\ Finite' /\ pc'[Ui] = pc[Ui]
           /\ AllPaths \in Nat /\ AllPaths' = (AllPaths + PathOf(l)) - PathOf(pc[n])
           /\ AllTurns \in Nat
           /\ AllTurns' = (AllTurns + Turns(n, l)) - Turns(n, pc[n])
  <1> DEFINE rest == {x \in Places : x[1] # n}
             old == {n} \X (1..PathOf(pc[n]))
             new == {n} \X (1..PathOf(l))
             others1 == Sends \ {n}
  <1>1. /\ n \in Threads /\ n # Ui /\ Ui \in Threads /\ pc[n] \in Labels /\ pc[Ui] \in Labels /\ pc'[n] = l
        /\ \A g \in Threads \ {n} : pc'[g] = pc[g]
    BY Ids DEF Placed
  <1>2. PathOf(pc[n]) \in 0..7 /\ PathOf(l) \in 0..7 /\ PathOf(pc[Ui]) \in 0..7
    BY <1>1, PathIs
  <1>3. IsFiniteSet(rest)
    BY FS_Subset DEF Finite
  <1>4. \A k \in 0..7 : /\ IsFiniteSet({n} \X (1..k)) /\ Cardinality({n} \X (1..k)) = k
    <2> TAKE k \in 0..7
    <2>1. IsFiniteSet(1..k) /\ Cardinality(1..k) = k
      <3>1. k \in Int
        OBVIOUS
      <3>2. IsFiniteSet(1..k) /\ Cardinality(1..k) = (IF 1 > k THEN 0 ELSE k - 1 + 1)
        BY <3>1, FS_Interval
      <3> QED
        BY <3>2
    <2>2. IsFiniteSet({n}) /\ Cardinality({n}) = 1
      BY FS_Singleton
    <2>3. IsFiniteSet({n} \X (1..k)) /\ Cardinality({n} \X (1..k)) = Cardinality({n}) * Cardinality(1..k)
      BY <2>1, <2>2, FS_Product
    <2> QED
      BY <2>1, <2>2, <2>3
  <1>5. Places = rest \cup old /\ rest \cap old = {}
    <2>1. \A x \in Places : x[1] = n => x \in old
      BY <1>2 DEF Places
    <2>2. \A x \in old : x \in Places /\ x[1] = n
      BY <1>2 DEF Places
    <2> QED
      BY <2>1, <2>2
  <1>6. Places' = rest \cup new /\ rest \cap new = {}
    <2>1. \A x \in Places' : x[1] = n => x \in new
      BY <1>1, <1>2 DEF Places
    <2>2. \A x \in new : x \in Places' /\ x[1] = n
      BY <1>1, <1>2 DEF Places
    <2>3. \A x \in Nvr \X (1..7) : x[1] # n => (x \in Places' <=> x \in Places)
      BY <1>1, Ids DEF Places
    <2>4. Places \subseteq Nvr \X (1..7) /\ Places' \subseteq Nvr \X (1..7)
      BY DEF Places
    <2> QED
      BY <2>1, <2>2, <2>3, <2>4
  <1> HIDE DEF rest
  <1>7. IsFiniteSet(Places') /\ Cardinality(Places) \in Nat /\ Cardinality(rest) \in Nat
    BY <1>2, <1>3, <1>4, <1>6, FS_Union, FS_CardinalityType DEF Finite
  <1>8. Cardinality(Places) = Cardinality(rest) + PathOf(pc[n])
    <2>1. IsFiniteSet(old) /\ Cardinality(old) = PathOf(pc[n])
      BY <1>2, <1>4
    <2> HIDE DEF old
    <2>2. Cardinality(Places) = Cardinality(rest) + Cardinality(old) - Cardinality(rest \cap old)
      BY <1>3, <1>5, <2>1, FS_Union
    <2>3. rest \cap old = {} /\ Cardinality({}) = 0
      BY <1>5, FS_EmptySet
    <2>4. Cardinality(rest \cap old) = 0
      BY <2>3, Zenon
    <2> QED
      BY <1>2, <1>7, <2>1, <2>2, <2>4
  <1>9. Cardinality(Places') = Cardinality(rest) + PathOf(l)
    <2>1. IsFiniteSet(new) /\ Cardinality(new) = PathOf(l)
      BY <1>2, <1>4
    <2> HIDE DEF new
    <2>2. Cardinality(Places') = Cardinality(rest) + Cardinality(new) - Cardinality(rest \cap new)
      BY <1>3, <1>6, <2>1, FS_Union
    <2>3. rest \cap new = {} /\ Cardinality({}) = 0
      BY <1>6, FS_EmptySet
    <2>4. Cardinality(rest \cap new) = 0
      BY <2>3, Zenon
    <2> QED
      BY <1>2, <1>7, <2>1, <2>2, <2>4
  <1>10. Path(Ui, pc[Ui]) \in Nat /\ pc'[Ui] = pc[Ui]
    BY <1>1, <1>2 DEF Path
  <1>11. AllPaths \in Nat /\ AllPaths' = (AllPaths + PathOf(l)) - PathOf(pc[n])
    BY <1>2, <1>7, <1>8, <1>9, <1>10 DEF AllPaths
  <1>12. /\ Sends = IF pc[n] \in Sending THEN others1 \cup {n} ELSE others1
         /\ Sends' = IF l \in Sending THEN others1 \cup {n} ELSE others1
         /\ n \notin others1
    <2>1. \A m \in Nvr : m # n => (m \in Sends' <=> m \in Sends)
      BY <1>1, Ids DEF Sends
    <2>2. n \in Sends <=> pc[n] \in Sending
      BY DEF Sends
    <2>3. n \in Sends' <=> l \in Sending
      BY <1>1 DEF Sends
    <2>4. Sends \subseteq Nvr /\ Sends' \subseteq Nvr
      BY DEF Sends
    <2> QED
      BY <2>1, <2>2, <2>3, <2>4
  <1>13. IsFiniteSet(others1) /\ Cardinality(others1) \in Nat
    BY FS_RemoveElement, FS_CardinalityType DEF Finite
  <1> HIDE DEF others1
  <1>14. /\ IsFiniteSet(Sends')
         /\ Cardinality(Sends) = Cardinality(others1) + Turns(n, pc[n])
         /\ Cardinality(Sends') = Cardinality(others1) + Turns(n, l)
    <2>1. /\ IsFiniteSet(others1 \cup {n})
          /\ Cardinality(others1 \cup {n}) = Cardinality(others1) + 1
      BY <1>12, <1>13, FS_AddElement
    <2>2. \A k : Turns(n, k) = IF k \in Sending THEN 1 ELSE 0
      BY <1>1 DEF Turns
    <2>3. Cardinality(Sends) = Cardinality(others1) + Turns(n, pc[n])
      BY <1>12, <1>13, <2>1, <2>2
    <2>4. IsFiniteSet(Sends') /\ Cardinality(Sends') = Cardinality(others1) + Turns(n, l)
      BY <1>12, <1>13, <2>1, <2>2
    <2> QED
      BY <2>3, <2>4
  <1>15. Turns(Ui, pc[Ui]) \in Nat /\ Turns(n, l) \in Nat /\ Turns(n, pc[n]) \in Nat
    BY DEF Turns
  <1>16. AllTurns \in Nat /\ AllTurns' = (AllTurns + Turns(n, l)) - Turns(n, pc[n])
    BY <1>10, <1>13, <1>14, <1>15 DEF AllTurns
  <1> QED
    BY <1>7, <1>10, <1>11, <1>14, <1>16 DEF Finite

\* So does the user interface.
LEMMA MoveUi ==
    ASSUME Placed, Finite, NEW l \in Labels, pc' = [pc EXCEPT ![Ui] = l]
    PROVE  /\ Finite' /\ pc'[Ui] = l
           /\ AllPaths \in Nat /\ AllPaths' = (AllPaths + Path(Ui, l)) - Path(Ui, pc[Ui])
           /\ AllTurns \in Nat
           /\ AllTurns' = (AllTurns + Turns(Ui, l)) - Turns(Ui, pc[Ui])
  <1>1. Ui \in Threads /\ pc'[Ui] = l /\ pc[Ui] \in Labels /\ \A n \in Nvr : pc'[n] = pc[n]
    BY Ids DEF Placed
  <1>2. Places' = Places
    BY <1>1 DEF Places
  <1>3. Sends' = Sends
    BY <1>1 DEF Sends
  <1>4. Cardinality(Places) \in Nat /\ Cardinality(Sends) \in Nat
    BY FS_CardinalityType DEF Finite
  <1>5. \A k \in Labels : Path(Ui, k) \in Nat /\ Turns(Ui, k) \in Nat
    BY PathIs DEF Path, Turns
  <1> HIDE DEF Finite
  <1>6. AllPaths \in Nat /\ AllPaths' = (AllPaths + Path(Ui, l)) - Path(Ui, pc[Ui])
    BY <1>1, <1>2, <1>4, <1>5 DEF AllPaths
  <1>7. AllTurns \in Nat /\ AllTurns' = (AllTurns + Turns(Ui, l)) - Turns(Ui, pc[Ui])
    BY <1>1, <1>3, <1>4, <1>5 DEF AllTurns
  <1> QED
    BY <1>1, <1>2, <1>3, <1>6, <1>7 DEF Finite

\* The rest of what is counted.
LEMMA Figured ==
    ASSUME TypeOK, others \in 0..MaxOther
    PROVE  Len(left) \in Nat /\ Len(queue) \in Nat /\ Len(flight) \in Nat /\ Chances \in Nat
  <1>1. Len(left) \in Nat /\ Len(queue) \in Nat /\ Len(flight) \in Nat
    BY SeqFacts DEF TypeOK
  <1>2. MaxOther \in Nat /\ iWaitCnt \in {0, 1}
    BY SearchAssumption DEF TypeOK
  <1> QED
    BY <1>1, <1>2 DEF Chances

\* A thread that moves on: its way, or a smaller number of cameras, requests and messages.
LEMMA Nears ==
    ASSUME Typed, Finite, Ticking, TypeOK', others' \in 0..MaxOther,
           NEW f \in Threads, NEW l \in Labels, pc' = [pc EXCEPT ![f] = l],
           \/ 4 * Len(left') + Turns(f, l) + Chances' < 4 * Len(left) + Turns(f, pc[f]) + Chances
           \/ /\ UNCHANGED <<left, iWaitCnt, others, up>> /\ Turns(f, l) = Turns(f, pc[f])
              /\ 5 * Len(queue') + 7 * Len(flight') + Path(f, l)
                   < 5 * Len(queue) + 7 * Len(flight) + Path(f, pc[f])
    PROVE  Nearer /\ Finite'
  <1>1. /\ Len(left) \in Nat /\ Len(queue) \in Nat /\ Len(flight) \in Nat /\ Chances \in Nat
        /\ Len(left') \in Nat /\ Len(queue') \in Nat /\ Len(flight') \in Nat /\ Chances' \in Nat
    <2>1. others \in 0..MaxOther
      BY DEF Ticking
    <2>2. TypeOK
      BY DEF Typed
    <2>3. Len(left) \in Nat /\ Len(queue) \in Nat /\ Len(flight) \in Nat /\ Chances \in Nat
      BY <2>1, <2>2, Figured
    <2>4. Len(left') \in Nat /\ Len(queue') \in Nat /\ Len(flight') \in Nat
      BY SeqFacts DEF TypeOK
    <2>5. Chances' \in Nat
      <3>1. iWaitCnt' \in {0, 1}
        BY DEF TypeOK
      <3>2. MaxOther \in Nat
        BY SearchAssumption
      <3>3. (1 - iWaitCnt') \in Nat /\ 2 * (MaxOther - others') \in Nat
        <4>1. \A w \in {0, 1} : 1 - w \in Nat
          OBVIOUS
        <4>2. \A o \in 0..MaxOther : 2 * (MaxOther - o) \in Nat
          BY <3>2
        <4> QED
          BY <3>1, <4>1, <4>2
      <3> QED
        BY <3>3 DEF Chances
    <2> QED
      BY <2>3, <2>4, <2>5
  <1>2. Placed /\ Ui \in Threads /\ pc[f] \in Labels
    BY Ids DEF Typed, Placed
  <1>3. \A g \in Threads, k \in Labels : Turns(g, k) \in Nat /\ Path(g, k) \in Nat
    BY PathIs DEF Turns, Path
  <1>4. /\ Finite' /\ AllPaths \in Nat /\ AllPaths' = (AllPaths + Path(f, l)) - Path(f, pc[f])
        /\ AllTurns \in Nat /\ AllTurns' = (AllTurns + Turns(f, l)) - Turns(f, pc[f])
    <2>1. CASE f = Ui
      BY <1>2, <2>1, MoveUi
    <2>2. CASE f # Ui
      <3>1. f \in Nvr /\ Path(f, l) = PathOf(l) /\ Path(f, pc[f]) = PathOf(pc[f])
        BY <2>2 DEF Path, Threads
      <3> QED
        BY <1>2, <3>1, MoveNvr
    <2> QED
      BY <2>1, <2>2
  <1> DEFINE a == Turns(f, l)
             b == Turns(f, pc[f])
             c == Path(f, l)
             d == Path(f, pc[f])
  <1>5. a \in Nat /\ b \in Nat /\ c \in Nat /\ d \in Nat
    BY <1>2, <1>3
  <1>6. /\ Rounds = 4 * Len(left) + AllTurns + Chances
        /\ Rounds' = 4 * Len(left') + ((AllTurns + a) - b) + Chances'
        /\ Paces = 5 * Len(queue) + 7 * Len(flight) + AllPaths
        /\ Paces' = 5 * Len(queue') + 7 * Len(flight') + ((AllPaths + c) - d)
    BY <1>4 DEF Rounds, Paces
  <1>7. CASE 4 * Len(left') + a + Chances' < 4 * Len(left) + b + Chances
    <2> HIDE DEF a, b, c, d
    <2>1. \A p, q, x, y, z, i, j \in Nat :
            4 * p + i + q < 4 * x + j + y => 4 * p + ((z + i) - j) + q < 4 * x + z + y
      OBVIOUS
    <2>2. 4 * Len(left') + ((AllTurns + a) - b) + Chances' < 4 * Len(left) + AllTurns + Chances
      BY <1>1, <1>4, <1>5, <1>7, <2>1
    <2>3. Rounds' < Rounds
      BY <1>6, <2>2
    <2> QED
      BY <1>4, <2>3 DEF Nearer
  <1>8. CASE /\ UNCHANGED <<left, iWaitCnt, others, up>> /\ a = b
             /\ 5 * Len(queue') + 7 * Len(flight') + c < 5 * Len(queue) + 7 * Len(flight) + d
    <2>1. Chances' = Chances /\ Len(left') = Len(left)
      BY <1>8 DEF Chances
    <2> HIDE DEF a, b, c, d
    <2>2. Rounds' = Rounds
      BY <1>1, <1>4, <1>5, <1>6, <1>8, <2>1
    <2>3. Paces' < Paces
      BY <1>1, <1>4, <1>5, <1>6, <1>8
    <2> QED
      BY <1>4, <2>2, <2>3 DEF Nearer
  <1> QED
    BY <1>7, <1>8

\* On its way through a search a thread touches nothing else.
LEMMA NearsOnly ==
    ASSUME Typed, Finite, Ticking, TypeOK',
           NEW f \in Threads, NEW l \in Labels, pc' = [pc EXCEPT ![f] = l],
           UNCHANGED <<left, iWaitCnt, others, up, flight>>, Len(queue') <= Len(queue),
           \/ Turns(f, l) < Turns(f, pc[f])
           \/ Turns(f, l) = Turns(f, pc[f]) /\ Path(f, l) < Path(f, pc[f])
    PROVE  Nearer /\ Finite'
  <1>1. others' \in 0..MaxOther /\ others \in 0..MaxOther /\ TypeOK
    BY DEF Ticking, Typed
  <1>2. /\ Len(left) \in Nat /\ Len(queue) \in Nat /\ Len(flight) \in Nat /\ Chances \in Nat
        /\ Len(queue') \in Nat
    BY <1>1, Figured, SeqFacts DEF TypeOK
  <1>3. Chances' = Chances /\ Len(left') = Len(left) /\ Len(flight') = Len(flight)
    BY DEF Chances
  <1>4. \A k \in Labels : Turns(f, k) \in Nat /\ Path(f, k) \in Nat
    BY PathIs DEF Turns, Path
  <1>5. pc[f] \in Labels
    BY DEF Typed, Placed
  <1>6. CASE Turns(f, l) < Turns(f, pc[f])
    <2>1. 4 * Len(left') + Turns(f, l) + Chances' < 4 * Len(left) + Turns(f, pc[f]) + Chances
      BY <1>2, <1>3, <1>4, <1>5, <1>6
    <2> QED
      BY <1>1, <2>1, Nears
  <1>7. CASE Turns(f, l) = Turns(f, pc[f]) /\ Path(f, l) < Path(f, pc[f])
    <2>1. 5 * Len(queue') + 7 * Len(flight') + Path(f, l)
            < 5 * Len(queue) + 7 * Len(flight) + Path(f, pc[f])
      BY <1>2, <1>3, <1>4, <1>5, <1>7
    <2> QED
      BY <1>1, <1>7, <2>1, Nears
  <1> QED
    BY <1>6, <1>7

\* Every step brings the end of the search nearer: the steps that are not of one thread's way.
LEMMA NearsOther ==
    ASSUME Typed, Finite, Ticking, TypeOK', timer,
           \/ Query \/ Tick \/ Offline \/ Online \/ \E n \in Nvr : Other(n)
    PROVE  Nearer /\ Finite' /\ others' \in 0..MaxOther
  <1>1. /\ others \in 0..MaxOther /\ MaxOther \in Nat /\ TypeOK
        /\ Ui \in Threads /\ SearchNvr \in Threads /\ SearchNvr # Ui /\ Nvr \subseteq Threads /\ Ui \notin Nvr
    BY SearchAssumption, Ids DEF Ticking, Typed
  <1>2. Len(left) \in Nat /\ Len(queue) \in Nat /\ Len(flight) \in Nat /\ Chances \in Nat
    BY <1>1, Figured
  <1>3. {"over", "other"} \subseteq Labels
    BY DEF Labels
  <1>4. ~Query
    BY DEF Query
  <1>5. CASE Tick
    <2>1. /\ pc[Ui] = "idle" /\ pc' = [pc EXCEPT ![Ui] = "over"]
          /\ UNCHANGED <<left, iWaitCnt, others, up, flight, queue>>
      BY <1>5 DEF Tick, At, Goto, fileQueue, search, bounds
    <2>2. Turns(Ui, "over") = 2 /\ Turns(Ui, "idle") = 2 /\ Path(Ui, "over") = 5 /\ Path(Ui, "idle") = 6
      BY PathIs DEF Turns, Path, Sending
    <2>3. Len(queue') <= Len(queue)
      BY <1>2, <2>1
    <2>4. Turns(Ui, "over") = Turns(Ui, pc[Ui]) /\ Path(Ui, "over") < Path(Ui, pc[Ui])
      BY <2>1, <2>2
    <2> QED
      BY <1>1, <1>3, <2>1, <2>3, <2>4, NearsOnly
  <1>6. \A n \in Nvr : Turns(n, "other") = 0 /\ Turns(n, "idle") = 0
    BY <1>1 DEF Turns, Sending
  <1>7. CASE Offline
    <2>1. /\ pc[SearchNvr] = "idle" /\ pc' = [pc EXCEPT ![SearchNvr] = "other"] /\ up = TRUE /\ up' = FALSE
          /\ others < MaxOther /\ others' = others + 1 /\ UNCHANGED <<left, iWaitCnt>>
      BY <1>7 DEF Offline, At, Goto, search, Typed, TypeOK
    <2>2. Chances' = Chances - 1
      BY <1>1, <2>1 DEF Chances, TypeOK
    <2>3. others' \in 0..MaxOther
      BY <1>1, <2>1
    <2>4. 4 * Len(left') + Turns(SearchNvr, "other") + Chances' < 4 * Len(left) + Turns(SearchNvr, pc[SearchNvr]) + Chances
      BY <1>1, <1>2, <1>6, <2>1, <2>2, Ids
    <2> QED
      BY <1>1, <1>3, <2>1, <2>3, <2>4, Nears
  <1>8. CASE Online
    <2>1. /\ pc[SearchNvr] = "idle" /\ pc' = [pc EXCEPT ![SearchNvr] = "other"] /\ up = FALSE /\ up' = TRUE
          /\ others' = others /\ UNCHANGED <<left, iWaitCnt>>
      BY <1>8 DEF Online, At, Goto, search, bounds, Typed, TypeOK
    <2>2. Chances' = Chances - 1
      BY <1>1, <2>1 DEF Chances, TypeOK
    <2>3. others' \in 0..MaxOther
      BY <1>1, <2>1
    <2>4. 4 * Len(left') + Turns(SearchNvr, "other") + Chances' < 4 * Len(left) + Turns(SearchNvr, pc[SearchNvr]) + Chances
      BY <1>1, <1>2, <1>6, <2>1, <2>2, Ids
    <2> QED
      BY <1>1, <1>3, <2>1, <2>3, <2>4, Nears
  <1>9. ASSUME NEW n \in Nvr, Other(n) PROVE Nearer /\ Finite' /\ others' \in 0..MaxOther
    <2>1. /\ pc[n] = "idle" /\ pc' = [pc EXCEPT ![n] = "other"] /\ up' = up
          /\ others < MaxOther /\ others' = others + 1 /\ UNCHANGED <<left, iWaitCnt>>
      BY <1>9 DEF Other, At, Goto, search
    <2>2. Chances' = Chances - 2
      BY <1>1, <2>1 DEF Chances, TypeOK
    <2>3. others' \in 0..MaxOther
      BY <1>1, <2>1
    <2>4. 4 * Len(left') + Turns(n, "other") + Chances' < 4 * Len(left) + Turns(n, pc[n]) + Chances
      BY <1>1, <1>2, <1>6, <2>1, <2>2
    <2> QED
      BY <1>1, <1>3, <2>1, <2>3, <2>4, Nears
  <1> QED
    BY <1>1, <1>4, <1>5, <1>7, <1>8, <1>9 DEF Tick, bounds

\* The steps that take a thread on its way and nothing with it.
LEMMA NearsStep ==
    ASSUME Typed, Finite, Ticking, TypeOK', timer, timer', NEW f \in Threads,
           \/ Searching(f) \/ Clean(f) \/ Send(f) \/ SendFails(f)
           \/ Begin(f) \/ NegativeOver(f) \/ Look(f) \/ LastNode(f) \/ Take(f) \/ Finish(f)
           \/ f \in Nvr /\ (OtherMessage(f) \/ End(f))
    PROVE  Nearer /\ Finite'
  <1>1. TypeOK /\ Len(queue) \in Nat /\ pc[f] \in Labels /\ Labels = Labels'
    BY SeqFacts DEF Typed, TypeOK, Placed, Labels
  <1>2. \A k \in Labels : k \notin Sending => Turns(f, k) = (IF f = Ui THEN IF k = "pop" THEN 0 ELSE 2 ELSE 0)
    BY DEF Turns
  <1>3. \A k \in Sending : Turns(f, k) = IF f = Ui THEN 3 ELSE 1
    BY DEF Turns, Sending
  <1>4. \A k \in Labels \ {"idle"} : Path(f, k) = PathOf(k)
    BY DEF Path
  <1>5. CASE Searching(f)
    <2>1. pc[f] = "searching" /\ pc' = [pc EXCEPT ![f] = "clean"] /\ UNCHANGED <<left, iWaitCnt, others, up, flight, queue>>
      BY <1>5 DEF Searching, At, Goto, fileQueue, search, bounds
    <2>2. "clean" \in Labels /\ Turns(f, "clean") = Turns(f, pc[f]) /\ Path(f, "clean") = 2 /\ Path(f, pc[f]) = 3
      BY <1>1, <1>3, <1>4, <2>1, PathIs DEF Sending, Labels
    <2>9. Len(queue') <= Len(queue) /\ Path(f, "clean") < Path(f, pc[f])
      BY <1>1, <2>1, <2>2
    <2> QED
      BY <1>1, <2>1, <2>2, <2>9, NearsOnly
  <1>6. CASE Clean(f)
    <2>1. pc[f] = "clean" /\ pc' = [pc EXCEPT ![f] = "send"] /\ UNCHANGED <<left, iWaitCnt, others, up, flight>> /\ queue' = <<>>
      BY <1>6 DEF Clean, At, Goto, search, bounds
    <2>2. "send" \in Labels /\ Turns(f, "send") = Turns(f, pc[f]) /\ Path(f, "send") = 1 /\ Path(f, pc[f]) = 2
      BY <1>1, <1>3, <1>4, <2>1, PathIs DEF Sending, Labels
    <2>3. Len(queue') <= Len(queue) /\ Path(f, "send") < Path(f, pc[f])
      BY <1>1, <2>1, <2>2, EmptySeq
    <2> QED
      BY <1>1, <2>1, <2>2, <2>3, NearsOnly
  <1>7. CASE Send(f) \/ SendFails(f)
    <2>1. pc[f] = "send" /\ pc' = [pc EXCEPT ![f] = "idle"] /\ UNCHANGED <<left, iWaitCnt, others, up>>
      <3>1. ~Clicked(f) /\ pc[f] = "send"
        BY <1>7 DEF Send, SendFails, At, Clicked, Ticking, Sending
      <3> QED
        BY <1>7, <3>1 DEF Send, SendFails, Goto, search, bounds
    <2>2. "idle" \in Labels /\ Turns(f, "idle") < Turns(f, pc[f])
      BY <1>1, <1>2, <1>3, <2>1 DEF Sending, Labels
    <2>3. Turns(f, "idle") \in Nat /\ Turns(f, pc[f]) \in Nat /\ others' \in 0..MaxOther
      BY <2>1 DEF Turns, Ticking
    <2>4. Len(left) \in Nat /\ Chances \in Nat /\ Chances' = Chances /\ Len(left') = Len(left)
      BY <1>1, <2>1, Figured DEF Chances, Ticking
    <2>5. 4 * Len(left') + Turns(f, "idle") + Chances' < 4 * Len(left) + Turns(f, pc[f]) + Chances
      BY <2>2, <2>3, <2>4
    <2> QED
      BY <2>1, <2>2, <2>3, <2>5, Nears
  <1>8. CASE Begin(f)
    <2>1. pc[f] = "over" /\ pc' = [pc EXCEPT ![f] = "look"] /\ UNCHANGED <<left, iWaitCnt, others, up, flight, queue>>
      BY <1>8 DEF Begin, At, Goto, fileQueue, search, bounds
    <2>2. "look" \in Labels /\ Turns(f, "look") = Turns(f, pc[f]) /\ Path(f, "look") = 4 /\ Path(f, pc[f]) = 5
      BY <1>1, <1>2, <1>4, <2>1, PathIs DEF Sending, Labels
    <2>9. Len(queue') <= Len(queue) /\ Path(f, "look") < Path(f, pc[f])
      BY <1>1, <2>1, <2>2
    <2> QED
      BY <1>1, <2>1, <2>2, <2>9, NearsOnly
  <1>9. CASE NegativeOver(f)
    <2>1. f # Ui /\ pc[f] = "over" /\ pc' = [pc EXCEPT ![f] = "idle"] /\ UNCHANGED <<left, iWaitCnt, others, up, flight, queue>>
      BY <1>9 DEF NegativeOver, At, Goto, fileQueue, search, bounds
    <2>2. "idle" \in Labels /\ Turns(f, "idle") = Turns(f, pc[f]) /\ Path(f, "idle") = 0 /\ Path(f, pc[f]) = 5
      BY <1>1, <1>2, <1>4, <2>1, PathIs DEF Sending, Labels, Path
    <2>9. Len(queue') <= Len(queue) /\ Path(f, "idle") < Path(f, pc[f])
      BY <1>1, <2>1, <2>2
    <2> QED
      BY <1>1, <2>1, <2>2, <2>9, NearsOnly
  <1>10. ASSUME Look(f) PROVE Nearer /\ Finite'
    <2>1. PICK l \in {"read", "pop", "finish"} :
            pc[f] = "look" /\ pc' = [pc EXCEPT ![f] = l] /\ UNCHANGED <<left, iWaitCnt, others, up, flight, queue>>
      BY <1>10 DEF Look, At, Goto, fileQueue, search, bounds
    <2>2. l \in Labels /\ Turns(f, l) <= Turns(f, pc[f]) /\ Path(f, l) \in {1, 3} /\ Path(f, pc[f]) = 4
      BY <1>1, <1>2, <1>4, <2>1, PathIs DEF Sending, Labels
    <2>3. Turns(f, l) \in Nat /\ Turns(f, pc[f]) \in Nat
      BY DEF Turns
    <2>4. Turns(f, l) < Turns(f, pc[f]) \/ (Turns(f, l) = Turns(f, pc[f]) /\ Path(f, l) < Path(f, pc[f]))
      BY <2>2, <2>3
    <2>5. Len(queue') <= Len(queue)
      BY <1>1, <2>1
    <2> QED
      BY <1>1, <2>1, <2>2, <2>4, <2>5, NearsOnly
  <1>11. CASE LastNode(f)
    <2>1. pc[f] = "last" /\ pc' = [pc EXCEPT ![f] = "take"] /\ UNCHANGED <<left, iWaitCnt, others, up, flight, queue>>
      BY <1>11 DEF LastNode, At, Goto, fileQueue, search, bounds
    <2>2. "take" \in Labels /\ Turns(f, "take") = Turns(f, pc[f]) /\ Path(f, "take") = 5 /\ Path(f, pc[f]) = 6
      BY <1>1, <1>2, <1>4, <2>1, PathIs DEF Sending, Labels
    <2>9. Len(queue') <= Len(queue) /\ Path(f, "take") < Path(f, pc[f])
      BY <1>1, <2>1, <2>2
    <2> QED
      BY <1>1, <2>1, <2>2, <2>9, NearsOnly
  <1>12. CASE Take(f)
    <2>1. pc[f] = "take" /\ pc' = [pc EXCEPT ![f] = "look"] /\ UNCHANGED <<left, iWaitCnt, others, up, flight, queue>>
      BY <1>12 DEF Take, At, Goto, fileQueue, search, bounds
    <2>2. "look" \in Labels /\ Turns(f, "look") = Turns(f, pc[f]) /\ Path(f, "look") = 4 /\ Path(f, pc[f]) = 5
      BY <1>1, <1>2, <1>4, <2>1, PathIs DEF Sending, Labels
    <2>9. Len(queue') <= Len(queue) /\ Path(f, "look") < Path(f, pc[f])
      BY <1>1, <2>1, <2>2
    <2> QED
      BY <1>1, <2>1, <2>2, <2>9, NearsOnly
  <1>13. ~Finish(f)
    BY DEF Finish
  <1>14. ASSUME f \in Nvr, OtherMessage(f) \/ End(f) PROVE Nearer /\ Finite'
    <2>1. PICK l \in {"end", "idle", "over"} :
            /\ pc' = [pc EXCEPT ![f] = l] /\ UNCHANGED <<left, iWaitCnt, others, up, flight, queue>>
            /\ (pc[f] = "other" /\ l \in {"end", "idle"}) \/ (pc[f] = "end" /\ l = "over")
      BY <1>14 DEF OtherMessage, End, At, Goto, fileQueue, search, bounds
    <2>2. f # Ui
      BY <1>14, Ids
    <2>3. l \in Labels /\ Turns(f, l) = Turns(f, pc[f]) /\ Path(f, l) < Path(f, pc[f])
      BY <1>1, <1>2, <2>1, <2>2, PathIs DEF Sending, Labels, Path
    <2>4. Len(queue') <= Len(queue)
      BY <1>1, <2>1
    <2> QED
      BY <1>1, <2>1, <2>3, <2>4, NearsOnly
  <1> QED
    BY <1>5, <1>6, <1>7, <1>8, <1>9, <1>10, <1>11, <1>12, <1>13, <1>14

\* The steps that take a node, an answer or the next camera.
LEMMA NearsTaking ==
    ASSUME Typed, Finite, Ticking, TypeOK', timer, timer', ~crash', NEW f \in Threads,
           \/ Read(f) \/ Unlink(f) \/ Pop(f) \/ (f = Ui /\ (Started \/ NegativeTick))
           \/ (f = SearchNvr /\ (Answer \/ Accept))
    PROVE  Nearer /\ Finite'
  <1>1. /\ TypeOK /\ others \in 0..MaxOther /\ pc[f] \in Labels /\ SearchNvr # Ui /\ Ui \in Threads /\ SearchNvr \in Threads
        /\ Len(left) \in Nat /\ Len(queue) \in Nat /\ Len(flight) \in Nat /\ Chances \in Nat
    BY Figured, Ids DEF Typed, Placed, Ticking
  <1>2. \A k \in Labels : k \notin Sending => Turns(f, k) = (IF f = Ui THEN IF k = "pop" THEN 0 ELSE 2 ELSE 0)
    BY DEF Turns
  <1>3. \A k \in Sending : Turns(f, k) = IF f = Ui THEN 3 ELSE 1
    BY DEF Turns, Sending
  <1>4. \A k \in Labels \ {"idle"} : Path(f, k) = PathOf(k)
    BY DEF Path
  <1>5. CASE Read(f)
    <2>1. pc[f] = "read" /\ pc' = [pc EXCEPT ![f] = "unlink"] /\ UNCHANGED <<left, iWaitCnt, others, up, flight, queue>>
      BY <1>5 DEF Read, At, Goto, fileQueue, search, bounds
    <2>2. "unlink" \in Labels /\ Turns(f, "unlink") = Turns(f, pc[f]) /\ Path(f, "unlink") = 2 /\ Path(f, pc[f]) = 3
      BY <1>1, <1>2, <1>4, <2>1, PathIs DEF Sending, Labels
    <2>3. Len(queue') <= Len(queue) /\ Path(f, "unlink") < Path(f, pc[f])
      BY <1>1, <2>1, <2>2
    <2> QED
      BY <2>1, <2>2, <2>3, NearsOnly
  <1>6. CASE Unlink(f)
    <2>1. /\ pc[f] = "unlink" /\ pc' = [pc EXCEPT ![f] = "last"] /\ UNCHANGED <<left, iWaitCnt, others, up, flight>>
          /\ queue # <<>> /\ queue' = Tail(queue)
      BY <1>6 DEF Unlink, At, Goto, search, bounds
    <2>2. "last" \in Labels /\ Turns(f, "last") = Turns(f, pc[f]) /\ Path(f, "last") = 6 /\ Path(f, pc[f]) = 2
      BY <1>1, <1>2, <1>4, <2>1, PathIs DEF Sending, Labels
    <2>3. Len(queue') = Len(queue) - 1 /\ Len(flight') = Len(flight)
      BY <1>1, <2>1, SeqFacts DEF TypeOK
    <2>4. 5 * Len(queue') + 7 * Len(flight') + Path(f, "last")
            < 5 * Len(queue) + 7 * Len(flight) + Path(f, pc[f])
      BY <1>1, <2>2, <2>3
    <2>5. others' \in 0..MaxOther
      BY <1>1, <2>1
    <2> QED
      BY <2>1, <2>2, <2>4, <2>5, Nears
  <1>7. CASE Pop(f)
    <2>1. /\ pc[f] = "pop" /\ pc' = [pc EXCEPT ![f] = "searching"] /\ UNCHANGED <<iWaitCnt, others, up>>
          /\ left # <<>> /\ left' = Front(left)
      BY <1>7 DEF Pop, At, Goto, bounds
    <2>2. /\ "searching" \in Labels /\ Turns(f, "searching") \in {1, 3}
          /\ Turns(f, pc[f]) \in {0, 2} /\ (f = Ui => Turns(f, pc[f]) = 0) /\ Turns(f, pc[f]) \in Nat
      BY <1>1, <1>2, <1>3, <2>1 DEF Sending, Labels
    <2>3. Len(left') = Len(left) - 1
      <3>1. Len(left) # 0
        BY <1>1, <2>1, SeqFacts DEF TypeOK
      <3> QED
        <4>1. \A i \in 1..(Len(left) - 1) : left[i] \in Nat
          <5>1. left \in Seq(Nat)
            BY <1>1 DEF TypeOK
          <5>2. \A i \in 1..Len(left) : left[i] \in Nat
            BY <5>1, SeqFacts
          <5> QED
            BY <1>1, <5>2
        <4>2. Len(SubSeq(left, 1, Len(left) - 1)) = IF 1 <= Len(left) - 1 THEN (Len(left) - 1) - 1 + 1 ELSE 0
          BY <1>1, <4>1, SubSeqProperties
        <4>3. left' = SubSeq(left, 1, Len(left) - 1)
          BY <2>1 DEF Front
        <4>4. Len(left') = IF 1 <= Len(left) - 1 THEN (Len(left) - 1) - 1 + 1 ELSE 0
          BY <4>2, <4>3
        <4>5. \A k \in Nat : k # 0 => (IF 1 <= k - 1 THEN (k - 1) - 1 + 1 ELSE 0) = k - 1
          OBVIOUS
        <4> QED
          BY <1>1, <3>1, <4>4, <4>5
    <2>4. Chances' = Chances
      BY <2>1 DEF Chances
    <2>5. 4 * Len(left') + Turns(f, "searching") + Chances' < 4 * Len(left) + Turns(f, pc[f]) + Chances
      BY <1>1, <2>2, <2>3, <2>4
    <2>6. others' \in 0..MaxOther
      BY <1>1, <2>1
    <2> QED
      BY <2>1, <2>2, <2>5, <2>6, Nears
  <1>8. ~Started
    BY DEF Started, Ticking, At
  <1>9. CASE f = Ui /\ NegativeTick
    <2>1. /\ pc[Ui] = "over" /\ iWaitCnt' = (IF iWaitCnt = 0 THEN 1 ELSE 0) /\ UNCHANGED <<left, others, up>>
          /\ \/ iWaitCnt = 0 /\ pc' = [pc EXCEPT ![Ui] = "idle"]
             \/ iWaitCnt # 0 /\ pc' = [pc EXCEPT ![Ui] = "pop"]
      BY <1>9 DEF NegativeTick, At, Goto, bounds
    <2>2. /\ "idle" \in Labels /\ "pop" \in Labels /\ Turns(Ui, "idle") = 2 /\ Turns(Ui, "pop") = 0
          /\ Turns(Ui, pc[Ui]) = 2
      BY <2>1 DEF Sending, Labels, Turns
    <2>3. iWaitCnt \in {0, 1} /\ MaxOther \in Nat
      BY <1>1, SearchAssumption DEF TypeOK
    <2>4. Len(left') = Len(left) /\ others' \in 0..MaxOther
      BY <1>1, <2>1
    <2>5. CASE iWaitCnt = 0 /\ pc' = [pc EXCEPT ![Ui] = "idle"]
      <3>1. Chances' = Chances - 1
        BY <1>1, <2>1, <2>3, <2>5 DEF Chances
      <3>2. 4 * Len(left') + Turns(f, "idle") + Chances' < 4 * Len(left) + Turns(f, pc[f]) + Chances
        BY <1>1, <1>9, <2>2, <2>4, <3>1
      <3> QED
        BY <1>9, <2>2, <2>4, <2>5, <3>2, Nears
    <2>6. CASE iWaitCnt # 0 /\ pc' = [pc EXCEPT ![Ui] = "pop"]
      <3>1. Chances' = Chances + 1
        BY <1>1, <2>1, <2>3, <2>6 DEF Chances
      <3>2. 4 * Len(left') + Turns(f, "pop") + Chances' < 4 * Len(left) + Turns(f, pc[f]) + Chances
        BY <1>1, <1>9, <2>2, <2>4, <3>1
      <3> QED
        BY <1>9, <2>2, <2>4, <2>6, <3>2, Nears
    <2> QED
      BY <2>1, <2>5, <2>6
  <1>10. CASE f = SearchNvr /\ Answer
    <2>1. PICK l \in {"idle", "accept"} :
            /\ pc[f] = "idle" /\ pc' = [pc EXCEPT ![f] = l] /\ UNCHANGED <<left, iWaitCnt, others, up, queue>>
            /\ flight # <<>> /\ flight' = Tail(flight)
      <3>1. pc[f] = "idle" => pc = [pc EXCEPT ![f] = "idle"]
        BY <1>1 DEF Typed, Placed
      <3> QED
        BY <1>10, <3>1 DEF Answer, At, Goto, fileQueue, search, bounds
    <2>2. f # Ui
      BY <1>1, <1>10
    <2>3. l \in Labels /\ Turns(f, l) = Turns(f, pc[f]) /\ Path(f, l) \in {0, 6} /\ Path(f, pc[f]) = 0
      BY <1>1, <1>2, <2>1, <2>2, PathIs DEF Sending, Labels, Path
    <2>4. Len(flight') = Len(flight) - 1 /\ Len(queue') = Len(queue)
      BY <1>1, <2>1, SeqFacts DEF TypeOK
    <2>5. 5 * Len(queue') + 7 * Len(flight') + Path(f, l)
            < 5 * Len(queue) + 7 * Len(flight) + Path(f, pc[f])
      BY <1>1, <2>3, <2>4
    <2>6. others' \in 0..MaxOther
      BY <1>1, <2>1
    <2> QED
      BY <2>1, <2>3, <2>5, <2>6, Nears
  <1>11. CASE f = SearchNvr /\ Accept
    <2>1. /\ pc[f] = "accept" /\ pc' = [pc EXCEPT ![f] = "idle"] /\ UNCHANGED <<left, iWaitCnt, others, up, flight>>
          /\ queue' = queue \/ queue' = Append(queue, loc[f].node)
      BY <1>11 DEF Accept, At, Goto, search, bounds
    <2>2. f # Ui /\ loc[f].node \in Node
      BY <1>1, <1>11 DEF Typed, Placed, Local
    <2>3. "idle" \in Labels /\ Turns(f, "idle") = Turns(f, pc[f]) /\ Path(f, "idle") = 0 /\ Path(f, pc[f]) = 6
      BY <1>1, <1>2, <2>1, <2>2, PathIs DEF Sending, Labels, Path
    <2>4. Len(queue') \in {Len(queue), Len(queue) + 1} /\ Len(flight') = Len(flight)
      BY <1>1, <2>1, <2>2, SeqFacts DEF TypeOK
    <2>5. 5 * Len(queue') + 7 * Len(flight') + Path(f, "idle")
            < 5 * Len(queue) + 7 * Len(flight) + Path(f, pc[f])
      BY <1>1, <2>3, <2>4
    <2>6. others' \in 0..MaxOther
      BY <1>1, <2>1
    <2> QED
      BY <2>1, <2>3, <2>5, <2>6, Nears
  <1> QED
    BY <1>5, <1>6, <1>7, <1>8, <1>9, <1>10, <1>11

\* A step takes one thread to another place, if any.
LEMMA FiniteStep ==
    ASSUME Typed, Finite, [Next]_vars
    PROVE  Finite'
  <1> USE DEF Goto
  <1>1. ASSUME NEW f \in Threads, NEW l \in Labels, pc' = [pc EXCEPT ![f] = l] PROVE Finite'
    BY <1>1, MoveUi, MoveNvr DEF Typed, Threads
  <1>2. CASE pc' = pc
    BY <1>2 DEF Finite, Places, Sends
  <1>3. {"idle", "searching", "clean", "send", "started", "accept", "other", "end", "over", "look",
         "read", "unlink", "last", "take", "pop", "finish"} \subseteq Labels
    BY DEF Labels
  <1>4. CASE Query \/ Tick
    BY <1>1, <1>3, <1>4, Ids DEF Query, Tick
  <1>5. CASE Offline \/ Online \/ \E n \in Nvr : Other(n)
    BY <1>1, <1>3, <1>5, Ids DEF Offline, Online, Other
  <1>6. ASSUME NEW f \in Threads, SearchFile(f) PROVE Finite'
    BY <1>1, <1>3, <1>6 DEF SearchFile, Searching, Clean, Send, SendFails
  <1>7. ASSUME NEW f \in Threads, Ending(f) PROVE Finite'
    <2>1. CASE Begin(f) \/ NegativeOver(f) \/ Look(f)
      BY <1>1, <1>3, <2>1 DEF Begin, NegativeOver, Look
    <2>2. CASE Read(f) \/ Unlink(f) \/ LastNode(f)
      BY <1>1, <1>2, <1>3, <2>2 DEF Read, Unlink, LastNode
    <2>3. CASE Take(f) \/ Pop(f) \/ Finish(f)
      BY <1>1, <1>2, <1>3, <2>3 DEF Take, Pop, Finish
    <2> QED
      BY <1>7, <2>1, <2>2, <2>3 DEF Ending
  <1>8. CASE Started \/ NegativeTick
    BY <1>1, <1>3, <1>8, Ids DEF Started, NegativeTick
  <1>9. CASE Answer \/ Accept
    BY <1>1, <1>2, <1>3, <1>9, Ids DEF Answer, Accept
  <1>10. ASSUME NEW f \in Nvr, OtherMessage(f) \/ End(f) PROVE Finite'
    BY <1>1, <1>3, <1>10, Ids DEF OtherMessage, End
  <1>11. CASE UNCHANGED vars
    BY <1>2, <1>11 DEF vars
  <1> QED
    BY <1>4, <1>5, <1>6, <1>7, <1>8, <1>9, <1>10, <1>11 DEF Next, Step

\* Where the user interface is while the timer is active.
LEMMA TickingStep ==
    ASSUME Typed, Ticking, [Next]_vars
    PROVE  Ticking'
  <1> USE DEF At, Goto
  <1>1. /\ MaxOther \in Nat /\ others \in 0..MaxOther /\ pc \in [Threads -> Labels] /\ loc \in [Threads -> Local]
        /\ Ui \in Threads /\ SearchNvr # Ui /\ Ui \notin Nvr /\ SearchNvr \in Threads
    BY SearchAssumption, Ids DEF Ticking, Typed, Placed
  <1>2. ASSUME others' = others, timer' => timer, pc'[Ui] = pc[Ui], loc'[Ui].left = loc[Ui].left PROVE Ticking'
    BY <1>2 DEF Ticking
  <1>3. ASSUME others' = others, pc'[Ui] \in Labels \ ({"other", "end", "accept", "pop", "started"} \cup Sending)
        PROVE  Ticking'
    BY <1>1, <1>3 DEF Ticking
  <1>4. ASSUME others' = others, timer' = timer, loc'[Ui].left = loc[Ui].left,
               pc[Ui] \in Sending \cup {"pop"}, pc'[Ui] \in Sending
        PROVE  Ticking'
    BY <1>4 DEF Ticking, Sending
  <1>5. CASE Query
    BY <1>1, <1>5 DEF Query, Ticking, Sending
  <1>6. CASE Tick
    BY <1>1, <1>3, <1>6 DEF Tick, bounds, Labels, Sending
  <1>7. CASE Offline
    BY <1>1, <1>7 DEF Offline, Ticking, search
  <1>8. CASE Online
    BY <1>1, <1>2, <1>8 DEF Online, search, bounds
  <1>9. ASSUME NEW n \in Nvr, Other(n) PROVE Ticking'
    BY <1>1, <1>9, Ids DEF Other, Ticking, search
  <1>10. ASSUME NEW f \in Threads, f # Ui, Step(f) PROVE Ticking'
    <2>1. others' = others /\ (timer' => timer)
      <3>1. CASE SearchFile(f)
        BY <3>1 DEF SearchFile, Searching, Clean, Send, SendFails, search, bounds
      <3>2. CASE Begin(f)
        BY <3>2 DEF Begin, bounds
      <3>3. CASE NegativeOver(f) \/ Finish(f)
        BY <3>3 DEF NegativeOver, Finish, bounds
      <3>4. CASE Look(f) \/ Read(f) \/ Unlink(f) \/ LastNode(f) \/ Take(f) \/ Pop(f)
        BY <3>4 DEF Look, Read, Unlink, LastNode, Take, Pop, search, bounds
      <3>5. CASE Answer \/ Accept \/ OtherMessage(f) \/ End(f)
        BY <3>5 DEF Answer, Accept, OtherMessage, End, search, bounds
      <3> QED
        BY <1>10, <3>1, <3>2, <3>3, <3>4, <3>5 DEF Step, Ending
    <2>2. pc'[Ui] = pc[Ui]
      BY <1>1, <1>10 DEF Step, SearchFile, Ending, Searching, Clean, Send, SendFails, Begin, NegativeOver, Look, Read, Unlink,
         LastNode, Take, Pop, Finish, Answer, Accept, OtherMessage, End
    <2>3. loc'[Ui] = loc[Ui]
      BY <1>1, <1>10 DEF Step, SearchFile, Ending, Searching, Clean, Send, SendFails, Begin, NegativeOver, Look, Read, Unlink,
         LastNode, Take, Pop, Finish, Answer, Accept, OtherMessage, End, Rest
    <2> QED
      BY <1>2, <2>1, <2>2, <2>3
  <1>11. ASSUME Searching(Ui) \/ Clean(Ui) PROVE Ticking'
    BY <1>1, <1>4, <1>11 DEF Searching, Clean, Sending, search, bounds
  <1>12. ASSUME Send(Ui) \/ SendFails(Ui) PROVE Ticking'
    <2>1. others' = others /\ timer' = timer /\ pc[Ui] = "send" /\ (timer => ~Clicked(Ui))
      BY <1>12 DEF Send, SendFails, Ticking, Sending, Clicked, search, bounds
    <2>2. pc'[Ui] = "idle" \/ (pc'[Ui] = "started" /\ Clicked(Ui))
      BY <1>1, <1>12 DEF Send, SendFails
    <2> QED
      BY <1>1, <2>1, <2>2 DEF Ticking, Sending
  <1>13. ASSUME Begin(Ui) \/ Read(Ui) \/ Unlink(Ui) PROVE Ticking'
    <2>1. others' = others
      BY <1>13 DEF Begin, Read, Unlink, bounds
    <2>2. CASE Begin(Ui)
      BY <1>1, <1>3, <2>1, <2>2 DEF Begin, Labels, Sending
    <2>3. CASE (Read(Ui) \/ Unlink(Ui)) /\ queue = <<>>
      BY <1>2, <2>1, <2>3 DEF Read, Unlink, search
    <2>4. CASE (Read(Ui) \/ Unlink(Ui)) /\ queue # <<>>
      BY <1>1, <1>3, <2>1, <2>4 DEF Read, Unlink, Labels, Sending
    <2> QED
      BY <1>13, <2>2, <2>3, <2>4
  <1>14. ASSUME LastNode(Ui) \/ Take(Ui) \/ Finish(Ui) \/ Started PROVE Ticking'
    BY <1>1, <1>3, <1>14 DEF LastNode, Take, Finish, Started, bounds, Labels, Sending
  <1>15. ASSUME Look(Ui) PROVE Ticking'
    <2>1. others' = others /\ timer' = timer /\ loc' = loc
      BY <1>15 DEF Look, search, bounds
    <2>2. pc'[Ui] \in {"read", "finish"} \/ (pc'[Ui] = "pop" /\ loc[Ui].left > 0)
      BY <1>1, <1>15 DEF Look
    <2>3. loc[Ui].left > 0 => loc[Ui].left # 0
      BY <1>1 DEF Local
    <2> QED
      BY <1>1, <2>1, <2>2, <2>3 DEF Ticking, Sending
  <1>16. ASSUME Pop(Ui) PROVE Ticking'
    BY <1>1, <1>2, <1>4, <1>16 DEF Pop, Sending, bounds
  <1>17. ASSUME NegativeTick PROVE Ticking'
    <2>1. others' = others
      BY <1>17 DEF NegativeTick, bounds
    <2>2. pc'[Ui] = "idle" \/ (pc'[Ui] = "pop" /\ left # <<>> /\ loc'[Ui].left = Len(left))
      BY <1>1, <1>17 DEF NegativeTick, Local
    <2>3. left # <<>> => Len(left) # 0
      BY SeqFacts DEF Typed, TypeOK
    <2> QED
      BY <1>1, <2>1, <2>2, <2>3 DEF Ticking, Sending
  <1>18. CASE UNCHANGED vars
    BY <1>2, <1>18 DEF vars, search, bounds
  <1>19. ASSUME Step(Ui) PROVE Ticking'
    BY <1>1, <1>11, <1>12, <1>13, <1>14, <1>15, <1>16, <1>17, <1>19
       DEF Step, SearchFile, Ending, NegativeOver
  <1> QED
    BY <1>5, <1>6, <1>7, <1>8, <1>9, <1>10, <1>18, <1>19 DEF Next

\* The user interface can go on: the timer ticks, or it is on its way.
Onward == pc[Ui] \in {"idle", "searching", "clean", "send", "over", "look", "read", "unlink", "last", "take", "pop", "finish"}

\* A search ends (Ends) because, as long as the timer is active and nothing breaks, every step of
\* any thread leaves fewer cameras, requests and messages, or as many of them and fewer nodes,
\* answers and steps on the threads' ways; and the user interface waits for no other thread.
THEOREM EndNears ==
    Spec => /\ [](Rounds \in Nat /\ Paces \in Nat)
            /\ [][timer /\ timer' /\ ~crash' => Nearer]_vars
            /\ [](timer => Onward)
  <1>1. Init => Typed /\ Asked /\ Finite /\ Ticking
    <2> SUFFICES ASSUME Init PROVE Finite /\ Ticking
      BY Start
    <2>1. \A n \in Nvr : pc[n] = "idle"
      BY Ids DEF Init
    <2>2. Places = {} /\ Sends = {}
      BY <2>1, PathIs DEF Places, Sends, Sending
    <2>3. Finite
      BY <2>2, FS_EmptySet DEF Finite
    <2>4. Ticking
      BY SearchAssumption, Ids DEF Init, Ticking
    <2> QED
      BY <2>3, <2>4
  <1>2. Typed /\ Asked /\ Finite /\ Ticking /\ [Next]_vars => (Typed /\ Asked /\ Finite /\ Ticking)'
    BY TypedStep, FiniteStep, TickingStep
  <1>3. Typed /\ Finite /\ Ticking => Rounds \in Nat /\ Paces \in Nat /\ (timer => Onward)
    <2> SUFFICES ASSUME Typed, Finite, Ticking PROVE Rounds \in Nat /\ Paces \in Nat /\ (timer => Onward)
      OBVIOUS
    <2>1. Len(left) \in Nat /\ Len(queue) \in Nat /\ Len(flight) \in Nat /\ Chances \in Nat
      BY Figured DEF Typed, Ticking
    <2>2. pc[Ui] \in Labels /\ Placed
      BY Ids DEF Typed, Placed
    <2>3. pc = [pc EXCEPT ![Ui] = pc[Ui]]
      BY <2>2 DEF Placed
    <2>4. Cardinality(Places) \in Nat /\ Cardinality(Sends) \in Nat
      BY FS_CardinalityType DEF Finite
    <2>5. Path(Ui, pc[Ui]) \in Nat /\ Turns(Ui, pc[Ui]) \in Nat
      BY <2>2, PathIs DEF Path, Turns
    <2>6. Rounds \in Nat /\ Paces \in Nat
      <3>1. AllPaths \in Nat
        BY <2>4, <2>5 DEF AllPaths
      <3>2. AllTurns \in Nat
        BY <2>4, <2>5 DEF AllTurns
      <3>3. MaxOther - others \in Nat
        BY SearchAssumption DEF Ticking
      <3> QED
        BY <2>1, <3>1, <3>2, <3>3 DEF Rounds, Paces
    <2>7. timer => Onward
      BY <2>2 DEF Onward, Ticking, Labels
    <2> QED
      BY <2>6, <2>7
  <1>4. Typed /\ Asked /\ Finite /\ Ticking /\ [Next]_vars => [timer /\ timer' /\ ~crash' => Nearer]_vars
    <2> SUFFICES ASSUME Typed, Asked, Finite, Ticking, Next, timer, timer', ~crash' PROVE Nearer
      OBVIOUS
    <2>1. TypeOK'
      BY TypedStep DEF Typed
    <2>2. CASE Query \/ Tick \/ Offline \/ Online \/ \E n \in Nvr : Other(n)
      BY <2>1, <2>2, NearsOther
    <2>3. ASSUME NEW f \in Threads, Step(f) PROVE Nearer
      BY <2>1, <2>3, NearsStep, NearsTaking DEF Step, SearchFile, Ending
    <2> QED
      BY <2>2, <2>3 DEF Next
  <1> QED
    BY <1>1, <1>2, <1>3, <1>4, PTL DEF Spec
=============================================================================
