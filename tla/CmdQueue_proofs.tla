-------------------------- MODULE CmdQueue_proofs --------------------------
(***************************************************************************)
(* Proofs about CmdQueue, for any set of producers and any number of       *)
(* packets.                                                                *)
(***************************************************************************)
EXTENDS CmdQueue, TLAPS

\* PutLock keeps the invariant.
LEMMA PutLockKeeps == ASSUME NEW p \in Producers, Inv, PutLock(p) PROVE Inv'
<1> USE QueueAssumption DEF NULL, Node
<1>1. TypeOK'
  BY DEF Inv, TypeOK, PutLock, list, putter, getter
<1>2. Order'
  BY DEF Inv, TypeOK, Order, Linked, Head, PutLock, list, putter, getter
<1>3. Shape'
  BY DEF Inv, TypeOK, Order, Shape, Linked, Head, PutLock, list, putter, getter
<1>4. Count'
  BY DEF Inv, TypeOK, Order, Shape, Count, Linked, Head, PutLock, list, putter, getter
<1> QED
  BY <1>1, <1>2, <1>3, <1>4 DEF Inv

\* PutTest keeps the invariant.
LEMMA PutTestKeeps == ASSUME Inv, PutTest PROVE Inv'
<1> USE QueueAssumption DEF NULL, Node
<1>1. TypeOK'
  BY DEF Inv, TypeOK, PutTest, Putting, TakingLast, list, putter, getter
<1>2. Order'
  BY DEF Inv, TypeOK, Order, Linked, Head, PutTest, Putting, TakingLast, list, putter, getter
<1>3. Shape'
  BY DEF Inv, TypeOK, Order, Shape, Linked, Head, PutTest, Putting, TakingLast, list, putter, getter
<1>4. Count'
  BY DEF Inv, TypeOK, Order, Shape, Count, Linked, Head, PutTest, Putting, TakingLast, list, putter, getter
<1> QED
  BY <1>1, <1>2, <1>3, <1>4 DEF Inv

\* PutLink keeps the invariant.
LEMMA PutLinkKeeps == ASSUME Inv, PutLink PROVE Inv'
<1> USE QueueAssumption DEF NULL, Node
<1>1. TypeOK'
  BY DEF Inv, TypeOK, PutLink, Putting, list, putter, getter
<1>2. Order'
  <2>1. CASE tail = NULL
    BY <2>1 DEF Inv, TypeOK, Order, Linked, Head, PutLink, Putting, list, putter, getter
  <2>2. CASE tail # NULL
    <3>1. PICK to \in {tail, ptLast} :
            IF to = NULL \/ to \in freed
            THEN fault' = TRUE /\ UNCHANGED <<ptFirst, next>>
            ELSE next' = [next EXCEPT ![to] = n] /\ UNCHANGED <<ptFirst, fault>>
      BY <2>2 DEF PutLink
    <3>2. to \in 0..(n - 1) /\ n \in Nat \ {0} /\ n <= MaxNode
      BY DEF Inv, TypeOK, Order, Linked, PutLink, Putting
    <3>3. Linked = n - 1 /\ Linked' = n /\ Head' = Head /\ ptFirst' = ptFirst
      BY <3>1 DEF PutLink, Putting, Linked, Head, putter, getter
    <3>4. \A i \in Node : next'[i] # NULL => next'[i] \in (i + 1)..n
      BY <3>1, <3>2, <3>3 DEF Inv, TypeOK, Order
    <3> QED
      BY <3>2, <3>3, <3>4 DEF Inv, TypeOK, Order, Head, PutLink, Putting, list, putter, getter
  <2> QED
    BY <2>1, <2>2
<1>3. Shape'
  <2> SUFFICES ASSUME ~raced PROVE Shape'
    BY DEF Inv, Shape, PutLink
  <2>1. CASE tail = NULL
    BY <2>1 DEF Inv, TypeOK, Order, Shape, Linked, Head, PutLink, Putting, list, putter, getter
  <2>2. CASE tail # NULL
    <3>1. tail = ptLast /\ ptLast = n - 1 /\ gone < n - 1 /\ get # "clear" /\ Head <= n - 1
      BY <2>2 DEF Inv, TypeOK, Order, Shape, Linked, Head, PutLink, Putting
    <3>2. tail \notin freed /\ tail \in Node
      BY <3>1 DEF Inv, TypeOK, Shape, PutLink, Putting
    <3>3. next' = [next EXCEPT ![n - 1] = n] /\ UNCHANGED <<ptFirst, fault>>
      BY <2>2, <3>1, <3>2 DEF PutLink
    <3>4. Linked = n - 1 /\ Linked' = n /\ Head' = Head
      BY DEF PutLink, Putting, Linked, Head, putter, getter
    <3>5. \A i \in Head..Linked' : next'[i] = IF i < Linked' THEN i + 1 ELSE NULL
      <4>1. n \in Nat \ {0} /\ n - 1 \in Node /\ Head \in Nat \ {0} /\ n <= MaxNode
        BY <3>1, <3>2 DEF Inv, TypeOK, Order, Head
      <4>2. \A i \in Node : i # n - 1 => next'[i] = next[i]
        BY <3>3 DEF Inv, TypeOK
      <4>3. next'[n - 1] = n
        BY <3>3, <4>1 DEF Inv, TypeOK
      <4>4. \A i \in Head..(n - 1) : next[i] = IF i < n - 1 THEN i + 1 ELSE NULL
        BY <3>4 DEF Inv, Shape
      <4>5. next[n] = NULL
        BY <3>4, <4>1 DEF Inv, TypeOK, Order
      <4> QED
        BY <3>4, <4>1, <4>2, <4>3, <4>4, <4>5
    <3>6. /\ UNCHANGED <<ptFirst, ptLast, freed, gone, get, ptTmp, nx, tail, n>>
          /\ at = "link" /\ at' = "last" /\ fault' = fault /\ ~raced
      BY <3>3 DEF PutLink, Putting, getter
    <3>7. ptFirst = Head
      BY <3>1, <3>4 DEF Inv, Shape
    <3> QED
      <4>1. n \in Nat /\ gone \in Nat /\ Head \in Nat
        BY DEF Inv, TypeOK, Head
      <4>2. /\ get = "first" => nx = ptTmp + 1 /\ nx # NULL
            /\ get # "clear"
            /\ gone + (IF get = "out" THEN 0 ELSE 1) < n
            /\ get \in {"first", "clear", "count", "copy"} => ptTmp = gone + 1
            /\ freed \subseteq 1..gone /\ ~fault
        BY <3>1, <3>6 DEF Inv, TypeOK, Shape
      <4>3. ptFirst' = IF Head' <= Linked' THEN Head' ELSE NULL
        BY <3>1, <3>4, <3>6, <3>7, <4>1
      <4> QED
        BY <3>1, <3>4, <3>5, <3>6, <4>1, <4>2, <4>3 DEF Shape
  <2> QED
    BY <2>1, <2>2
<1>4. Count'
  BY DEF Inv, TypeOK, Order, Shape, Count, Linked, Head, PutLink, Putting, list, putter, getter
<1> QED
  BY <1>1, <1>2, <1>3, <1>4 DEF Inv

\* PutLast keeps the invariant.
LEMMA PutLastKeeps == ASSUME Inv, PutLast PROVE Inv'
<1> USE QueueAssumption DEF NULL, Node
<1>1. TypeOK'
  BY DEF Inv, TypeOK, PutLast, Putting, list, putter, getter
<1>2. Order'
  BY DEF Inv, TypeOK, Order, Linked, Head, PutLast, Putting, list, putter, getter
<1>3. Shape'
  BY DEF Inv, TypeOK, Order, Shape, Linked, Head, PutLast, Putting, list, putter, getter
<1>4. Count'
  BY DEF Inv, TypeOK, Order, Shape, Count, Linked, Head, PutLast, Putting, list, putter, getter
<1> QED
  BY <1>1, <1>2, <1>3, <1>4 DEF Inv

\* PutCount keeps the invariant.
LEMMA PutCountKeeps == ASSUME Inv, PutCount PROVE Inv'
<1> USE QueueAssumption DEF NULL, Node
<1>1. TypeOK'
  BY DEF Inv, TypeOK, PutCount, Putting, list, putter, getter
<1>2. Order'
  BY DEF Inv, TypeOK, Order, Linked, Head, PutCount, Putting, list, putter, getter
<1>3. Shape'
  BY DEF Inv, TypeOK, Order, Shape, Linked, Head, PutCount, Putting, list, putter, getter
<1>4. Count'
  BY DEF Inv, TypeOK, Order, Shape, Count, Linked, Head, PutCount, Putting, list, putter, getter
<1> QED
  BY <1>1, <1>2, <1>3, <1>4 DEF Inv

\* PutUnlock keeps the invariant.
LEMMA PutUnlockKeeps == ASSUME Inv, PutUnlock PROVE Inv'
<1> USE QueueAssumption DEF NULL, Node
<1>1. TypeOK'
  BY DEF Inv, TypeOK, PutUnlock, Putting, list, putter, getter
<1>2. Order'
  BY DEF Inv, TypeOK, Order, Linked, Head, PutUnlock, Putting, list, putter, getter
<1>3. Shape'
  BY DEF Inv, TypeOK, Order, Shape, Linked, Head, PutUnlock, Putting, list, putter, getter
<1>4. Count'
  BY DEF Inv, TypeOK, Order, Shape, Count, Linked, Head, PutUnlock, Putting, list, putter, getter
<1> QED
  BY <1>1, <1>2, <1>3, <1>4 DEF Inv

\* GetCheck keeps the invariant.
LEMMA GetCheckKeeps == ASSUME Inv, GetCheck PROVE Inv'
<1> USE QueueAssumption DEF NULL, Node
<1>1. TypeOK'
  BY DEF Inv, TypeOK, GetCheck, Getting, list, putter, getter
<1>2. Order'
  BY DEF Inv, TypeOK, Order, Linked, Head, GetCheck, Getting, list, putter, getter
<1>3. Shape'
  BY DEF Inv, TypeOK, Order, Shape, Linked, Head, GetCheck, Getting, list, putter, getter
<1>4. Count'
  BY DEF Inv, TypeOK, Order, Shape, Count, Linked, Head, GetCheck, Getting, list, putter, getter
<1> QED
  BY <1>1, <1>2, <1>3, <1>4 DEF Inv

\* GetNext keeps the invariant.
LEMMA GetNextKeeps == ASSUME Inv, GetNext PROVE Inv'
<1> USE QueueAssumption DEF NULL, Node
<1>1. TypeOK'
  BY DEF Inv, TypeOK, Order, Linked, GetNext, Getting, list, putter, getter
<1>2. Order'
  BY DEF Inv, TypeOK, Order, Linked, Head, GetNext, Getting, list, putter, getter
<1>3. Shape'
  <2> SUFFICES ASSUME ~raced' PROVE Shape'
    BY DEF Shape
  <2>1. ~raced /\ (next[ptFirst] = NULL => at # "link")
    BY DEF GetNext
  <2>2. ptFirst = gone + 1 /\ gone + 1 <= Linked /\ Linked \in 0..n
    BY <2>1 DEF Inv, TypeOK, Order, Shape, Head, Linked, GetNext, Getting
  <2>3. ptTmp' = gone + 1 /\ nx' = next[gone + 1]
    BY <2>2 DEF GetNext
  <2>4. next[gone + 1] = IF gone + 1 < Linked THEN gone + 2 ELSE NULL
    BY <2>1, <2>2 DEF Inv, TypeOK, Shape, Head, GetNext, Getting
  <2>5. Linked' = Linked /\ Head' = Head /\ Head = gone + 1
    BY DEF Linked, Head, GetNext, Getting, list, putter
  <2>6. nx' = NULL => gone + 1 = Linked /\ at \in {"out", "test"}
    BY <2>1, <2>2, <2>3, <2>4 DEF Inv, TypeOK, Order, Shape, Linked, GetNext, Getting
  <2> QED
    BY <2>1, <2>2, <2>3, <2>4, <2>5, <2>6 DEF Inv, TypeOK, Order, Shape, GetNext, Getting, list, putter
<1>4. Count'
  BY DEF Inv, TypeOK, Order, Shape, Count, Linked, Head, GetNext, Getting, list, putter, getter
<1> QED
  BY <1>1, <1>2, <1>3, <1>4 DEF Inv

\* GetFirst keeps the invariant.
LEMMA GetFirstKeeps == ASSUME Inv, GetFirst PROVE Inv'
<1> USE QueueAssumption DEF NULL, Node
<1>1. TypeOK'
  BY DEF Inv, TypeOK, GetFirst, Getting, list, putter, getter
<1>2. Order'
  BY DEF Inv, TypeOK, Order, Linked, Head, GetFirst, Getting, list, putter, getter
<1>3. Shape'
  BY DEF Inv, TypeOK, Order, Shape, Linked, Head, GetFirst, Getting, list, putter, getter
<1>4. Count'
  BY DEF Inv, TypeOK, Order, Shape, Count, Linked, Head, GetFirst, Getting, list, putter, getter
<1> QED
  BY <1>1, <1>2, <1>3, <1>4 DEF Inv

\* GetClear keeps the invariant.
LEMMA GetClearKeeps == ASSUME Inv, GetClear PROVE Inv'
<1> USE QueueAssumption DEF NULL, Node
<1>1. TypeOK'
  BY DEF Inv, TypeOK, GetClear, Getting, list, putter, getter
<1>2. Order'
  BY DEF Inv, TypeOK, Order, Linked, Head, GetClear, Getting, list, putter, getter
<1>3. Shape'
  BY DEF Inv, TypeOK, Order, Shape, Linked, Head, GetClear, Getting, list, putter, getter
<1>4. Count'
  BY DEF Inv, TypeOK, Order, Shape, Count, Linked, Head, GetClear, Getting, list, putter, getter
<1> QED
  BY <1>1, <1>2, <1>3, <1>4 DEF Inv

\* GetCount keeps the invariant.
LEMMA GetCountKeeps == ASSUME Inv, GetCount PROVE Inv'
<1> USE QueueAssumption DEF NULL, Node
<1>1. TypeOK'
  BY DEF Inv, TypeOK, GetCount, Getting, list, putter, getter
<1>2. Order'
  BY DEF Inv, TypeOK, Order, Linked, Head, GetCount, Getting, list, putter, getter
<1>3. Shape'
  BY DEF Inv, TypeOK, Order, Shape, Linked, Head, GetCount, Getting, list, putter, getter
<1>4. Count'
  BY DEF Inv, TypeOK, Order, Shape, Count, Linked, Head, GetCount, Getting, list, putter, getter
<1> QED
  BY <1>1, <1>2, <1>3, <1>4 DEF Inv

\* GetCopy keeps the invariant.
LEMMA GetCopyKeeps == ASSUME Inv, GetCopy PROVE Inv'
<1> USE QueueAssumption DEF NULL, Node
<1>1. TypeOK'
  BY DEF Inv, TypeOK, Order, Linked, GetCopy, Getting, list, putter, getter
<1>2. Order'
  BY DEF Inv, TypeOK, Order, Linked, Head, GetCopy, Getting, list, putter, getter
<1>3. Shape'
  BY DEF Inv, TypeOK, Order, Shape, Linked, Head, GetCopy, Getting, list, putter, getter
<1>4. Count'
  BY DEF Inv, TypeOK, Order, Shape, Count, Linked, Head, GetCopy, Getting, list, putter, getter
<1> QED
  BY <1>1, <1>2, <1>3, <1>4 DEF Inv

\* Clean keeps the invariant.
LEMMA CleanKeeps == ASSUME Inv, Clean PROVE Inv'
<1> USE QueueAssumption DEF NULL, Node
<1>0. Walked \subseteq 1..n
  <2> SUFFICES ASSUME NEW i \in Walked PROVE i \in 1..n
    OBVIOUS
  <2>1. 1..n \in SUBSET Node
    BY DEF Inv, TypeOK
  <2>2. ptFirst # NULL => ptFirst \in 1..n
    BY DEF Inv, TypeOK, Order, Linked, Head
  <2>3. \A j \in 1..n : next[j] # NULL => next[j] \in 1..n
    BY DEF Inv, TypeOK, Order, Linked
  <2> QED
    BY <2>1, <2>2, <2>3 DEF Walked
<1>1. TypeOK'
  BY <1>0 DEF Inv, TypeOK, Clean, Getting, list, putter, getter
<1>2. Order'
  BY DEF Inv, TypeOK, Order, Linked, Head, Clean, Getting, list, putter, getter
<1>3. Shape'
  BY <1>0 DEF Inv, TypeOK, Order, Shape, Linked, Head, Clean, Getting, list, putter, getter
<1>4. Count'
  BY DEF Inv, TypeOK, Order, Shape, Count, Linked, Head, Clean, Getting, list, putter, getter
<1> QED
  BY <1>1, <1>2, <1>3, <1>4 DEF Inv

-----------------------------------------------------------------------------

\* The inductive invariant holds in every reachable state: the list, the
\* packets and the places of producer and consumer always fit together.
THEOREM Invariance == Spec => []Inv
<1>1. Init => Inv
  <2> SUFFICES ASSUME Init PROVE Inv
    OBVIOUS
  <2> USE QueueAssumption DEF Init, NULL, Node
  <2>0. next \in [Node -> 0..MaxNode] /\ freed \subseteq Node
    OBVIOUS
  <2>1. TypeOK
    <3>1. fault \in BOOLEAN /\ raced \in BOOLEAN /\ miscounted \in BOOLEAN
      BY Zenon
    <3>2. tMutex \in Producers \cup {NoOne}
      OBVIOUS
    <3>3. 0 \in 0..MaxNode /\ 0 \in Int
      OBVIOUS
    <3> QED
      BY <2>0, <3>1, <3>2, <3>3, Zenon DEF TypeOK
  <2>2. Order
    BY DEF Order, Linked, Head
  <2>3. Shape
    BY DEF Shape, Linked, Head
  <2>4. Count
    BY DEF Count
  <2> QED
    BY <2>1, <2>2, <2>3, <2>4 DEF Inv
<1>2. ASSUME Inv, [Next]_vars PROVE Inv'
  <2>1. ASSUME NEW p \in Producers, PutLock(p) PROVE Inv'
    BY <1>2, <2>1, PutLockKeeps
  <2>2. CASE Put
    BY <1>2, <2>2, PutTestKeeps, PutLinkKeeps, PutLastKeeps, PutCountKeeps, PutUnlockKeeps DEF Put
  <2>3. CASE Get
    BY <1>2, <2>3, GetCheckKeeps, GetNextKeeps, GetFirstKeeps, GetClearKeeps, GetCountKeeps,
       GetCopyKeeps DEF Get
  <2>4. CASE Clean
    BY <1>2, <2>4, CleanKeeps
  <2>5. CASE UNCHANGED vars
    BY <1>2, <2>5 DEF vars, list, putter, getter, Inv, TypeOK, Order, Shape, Count, Linked, Head
  <2> QED
    BY <1>2, <2>1, <2>2, <2>3, <2>4, <2>5 DEF Next
<1> QED
  BY <1>1, <1>2, PTL DEF Spec

\* An overlap of Put and Get loses packets only if the Get takes the last node.
THEOREM NothingLost == Spec => []LossNeedsLastNode
<1>1. Inv => LossNeedsLastNode
  <2> SUFFICES ASSUME Inv, ~raced PROVE ~fault /\ (get = "out" /\ tMutex = NoOne => WholeList)
    BY DEF LossNeedsLastNode
  <2>1. ~fault
    BY DEF Inv, Shape
  <2>2. ASSUME get = "out", tMutex = NoOne PROVE WholeList
    BY <2>2, QueueAssumption DEF Inv, TypeOK, Order, Shape, Linked, Head, WholeList, NULL
  <2> QED
    BY <2>1, <2>2
<1> QED
  BY <1>1, Invariance, PTL

\* NVR_GetFileQueueSize counts right unless two updates of the count overlapped.
THEOREM CountRight == Spec => []CountNeedsOverlap
<1>1. Inv => CountNeedsOverlap
  BY DEF Inv, Order, Count, CountNeedsOverlap
<1> QED
  BY <1>1, Invariance, PTL

\* A step of the list is a step of LossyQueue, or none.
LEMMA StepRefines == ASSUME Inv, [Next]_vars PROVE [Queue!Next]_<<n, gone>>
<1> USE QueueAssumption DEF NULL
<1>1. CASE \E p \in Producers : PutLock(p)
  BY <1>1 DEF PutLock, getter, Queue!Next, Queue!Put
<1>2. CASE Put
  BY <1>2 DEF Put, PutTest, PutLink, PutLast, PutCount, PutUnlock, getter, putter
<1>3. CASE GetCopy
  <2>1. ptTmp \in (gone + 1)..n
    BY <1>3 DEF Inv, TypeOK, Order, Linked, GetCopy, Getting
  <2>2. Queue!Take(ptTmp)
    BY <1>3, <2>1 DEF GetCopy, putter, Queue!Take
  <2> QED
    BY <2>1, <2>2 DEF Queue!Next
<1>4. CASE Get /\ ~GetCopy
  BY <1>4 DEF Get, GetCheck, GetNext, GetFirst, GetClear, GetCount, putter
<1>5. CASE Clean
  BY <1>5 DEF Clean, putter, Queue!Next, Queue!Clean
<1>6. CASE UNCHANGED vars
  BY <1>6 DEF vars, putter, getter
<1> QED
  BY <1>1, <1>2, <1>3, <1>4, <1>5, <1>6 DEF Next

\* Packets leave the queue in order, at most once, and never after a Clean.
THEOREM Refinement == Spec => ImplementsLossy
<1>1. Init => Queue!Init
  BY DEF Init, Queue!Init
<1> QED
  BY <1>1, StepRefines, Invariance, PTL DEF Spec, ImplementsLossy, Queue!Spec

-----------------------------------------------------------------------------
(* Why the queue is emptied *)

\* How far a call of Put, and of Get, has to go yet, and how far Get has come.
PutRest == CASE at = "out" -> 0 [] at = "test" -> 5 [] at = "link" -> 4 [] at = "last" -> 3
             [] at = "count" -> 2 [] at = "unlock" -> 1
GetDone == CASE get = "out" -> 0 [] get = "next" -> 1 [] get = "first" -> 2 [] get = "clear" -> 3
             [] get = "count" -> 4 [] get = "copy" -> 5

\* The steps that Put and Get have yet to take, at most: six for a call of either.
Work == 6 * (MaxNode - n) + PutRest + 6 * (MaxNode - gone) - GetDone

LEMMA WorkNat == Inv => Work \in Nat
<1> SUFFICES ASSUME Inv PROVE Work \in Nat
  OBVIOUS
<1>1. n \in 0..MaxNode /\ gone \in 0..MaxNode /\ MaxNode \in Nat
  BY QueueAssumption DEF Inv, TypeOK
<1>2. PutRest \in 0..5 /\ GetDone \in 0..5
  BY DEF Inv, TypeOK, PutRest, GetDone
<1>3. get # "out" => gone < MaxNode
  <2>1. Linked <= n
    BY <1>1 DEF Linked
  <2>2. get = "next" => ptFirst \in (gone + 1)..Linked
    BY DEF Inv, Order, Head
  <2>3. get \in {"first", "clear", "count", "copy"} => ptTmp \in (gone + 1)..Linked
    BY DEF Inv, Order
  <2>4. Linked \in Int
    BY <1>1 DEF Linked
  <2> QED
    BY <1>1, <2>1, <2>2, <2>3, <2>4 DEF Inv, TypeOK
<1>4. get = "out" => GetDone = 0
  BY DEF GetDone
<1> QED
  BY <1>1, <1>2, <1>3, <1>4 DEF Work

\* Every step of Put and of Get leaves less to do, and Clean does not leave more.
LEMMA WorkLess ==
    ASSUME Inv, Next
    PROVE  Work' < Work \/ (Clean /\ Work' <= Work)
<1>1. n \in 0..MaxNode /\ gone \in 0..MaxNode /\ MaxNode \in Nat
  BY QueueAssumption DEF Inv, TypeOK
<1>2. PutRest \in 0..5 /\ GetDone \in 0..5
  BY DEF Inv, TypeOK, PutRest, GetDone
<1>3. ASSUME NEW p \in Producers, PutLock(p) PROVE Work' < Work
  <2>1. at = "out"
    BY <1>3 DEF PutLock, Inv, Order
  <2>2. n' = n + 1 /\ gone' = gone /\ PutRest = 0 /\ PutRest' = 5 /\ GetDone' = GetDone
    BY <1>3, <2>1 DEF PutLock, PutRest, GetDone, getter
  <2> QED
    BY <1>1, <1>2, <2>2 DEF Work
<1>4. CASE Put
  <2>1. n' = n /\ gone' = gone /\ GetDone' = GetDone
    BY <1>4 DEF Put, PutTest, PutLink, PutLast, PutCount, PutUnlock, getter, GetDone
  <2>2. PutRest' = PutRest - 1
    BY <1>4 DEF Put, PutTest, PutLink, PutLast, PutCount, PutUnlock, Putting, PutRest
  <2> QED
    BY <1>1, <1>2, <2>1, <2>2 DEF Work
<1>5. ASSUME Get /\ ~GetCopy PROVE Work' < Work
  <2>1. n' = n /\ gone' = gone /\ PutRest' = PutRest
    BY <1>5 DEF Get, GetCheck, GetNext, GetFirst, GetClear, GetCount, putter, PutRest
  <2>2. GetDone' > GetDone
    BY <1>5 DEF Get, GetCheck, GetNext, GetFirst, GetClear, GetCount, Getting, GetDone
  <2>3. GetDone' \in Int
    BY <1>5 DEF Get, GetCheck, GetNext, GetFirst, GetClear, GetCount, Getting, GetDone
  <2> QED
    <3>1. GetDone \in Int /\ Work \in Int /\ Work' \in Int
      BY <1>1, <1>2, <2>1, <2>3 DEF Work
    <3>2. Work - Work' = GetDone' - GetDone
      BY <1>1, <1>2, <2>1, <2>3 DEF Work
    <3> QED
      BY <2>2, <2>3, <3>1, <3>2
<1>6. ASSUME GetCopy PROVE Work' < Work
  <2>1. n' = n /\ PutRest' = PutRest /\ GetDone = 5 /\ GetDone' = 0
    BY <1>6 DEF GetCopy, Getting, putter, PutRest, GetDone
  <2>2. gone' \in Int /\ gone' > gone
    BY <1>1, <1>6 DEF GetCopy, Getting, Inv, TypeOK, Order
  <2> QED
    <3>1. Work \in Int /\ Work' \in Int
      BY <1>1, <1>2, <2>1, <2>2 DEF Work
    <3>2. Work - Work' = 6 * (gone' - gone) - 5
      BY <1>1, <1>2, <2>1, <2>2 DEF Work
    <3> QED
      BY <1>1, <2>2, <3>1, <3>2
<1>7. CASE Clean
  <2>1. n' = n /\ PutRest' = PutRest /\ GetDone' = GetDone /\ gone' = n
    BY <1>7 DEF Clean, putter, PutRest, GetDone
  <2>2. gone <= n
    BY <1>1 DEF Inv, Order, Linked
  <2> QED
    BY <1>1, <1>2, <1>7, <2>1, <2>2 DEF Work
<1> QED
  BY <1>3, <1>4, <1>5, <1>6, <1>7 DEF Next

\* One of the threads can take a step of Put or Get: a call is at work, or the next call of Get
\* finds the mutex free and the oldest packet at the front.
Moving == at # "out" \/ get # "out" \/ (tMutex = NoOne /\ ptFirst = gone + 1)

\* As long as a packet waits, unless a race has torn the list.
LEMMA NotStuck == Inv => \A k \in Node : ~raced /\ gone < k /\ k <= n => ~fault /\ Moving
<1> SUFFICES ASSUME Inv, NEW k \in Node, ~raced, gone < k, k <= n
             PROVE  ~fault /\ (at = "out" /\ get = "out" => tMutex = NoOne /\ ptFirst = gone + 1)
  BY DEF Moving
<1>1. n \in 0..MaxNode /\ gone \in 0..MaxNode /\ k \in Int
  BY DEF Inv, TypeOK, Node
<1>2. ~fault
  BY DEF Inv, Shape
<1>3. ASSUME at = "out", get = "out" PROVE tMutex = NoOne /\ ptFirst = gone + 1
  <2>1. Linked = n /\ Head = gone + 1
    BY <1>3 DEF Linked, Head
  <2> QED
    BY <1>1, <1>3, <2>1 DEF Inv, Order, Shape
<1> QED
  BY <1>2, <1>3

\* The queue is emptied (Drained) because every step of Put or Get leaves less to do, a Clean does
\* not leave more, and as long as a packet waits one of the threads can go on.
THEOREM WorkEnds ==
    Spec => /\ [](Work \in Nat)
            /\ [][Work' < Work \/ (Clean /\ Work' <= Work)]_vars
            /\ [](\A k \in Node : ~raced /\ gone < k /\ k <= n => ~fault /\ Moving)
<1>1. Inv /\ [Next]_vars => [Work' < Work \/ (Clean /\ Work' <= Work)]_vars
  BY WorkLess
<1> QED
  BY <1>1, Invariance, WorkNat, NotStuck, PTL DEF Spec
=============================================================================
