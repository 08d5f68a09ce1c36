------------------------------ MODULE CmdQueue ------------------------------
(***************************************************************************)
(* The linked list of NVRMsgProc.cxx that carries commands to the sending  *)
(* thread (PtCmdQueue) and found files to the search (ptFileQueue).        *)
(* Producers append under the queue's mutex.  The consumer holds the mutex *)
(* only while it looks whether the list is empty: it unlinks the first     *)
(* node, counts it and frees it without the mutex, and so meets producers  *)
(* at every point of their critical section.  One step is one access to    *)
(* the shared memory, or several that no other thread can tell apart.      *)
(*                                                                         *)
(* A node is numbered when its producer gets the mutex; 0 is NULL.         *)
(***************************************************************************)
EXTENDS Integers

CONSTANTS
    Producers,  \* threads that call PutNodeToCmdQueue
    NoOne,      \* no thread
    MaxNode     \* bound: packets put

ASSUME QueueAssumption ==
    /\ MaxNode \in Nat
    /\ NoOne \notin Producers

Node == 1..MaxNode
NULL == 0

VARIABLES
    ptFirst, ptLast, iPktCount, \* T_CMD_QUEUE
    next,       \* next of every node
    freed,      \* nodes given back to the heap
    n,          \* packets put so far; the last is the only one that may not be linked yet
    tMutex,     \* who holds the mutex
    at,         \* where its holder is in PutNodeToCmdQueue
    tail,       \* ptLast as the holder has read it
    putCount,   \* iPktCount as the holder has read it
    get,        \* where the consumer is in GetNodeFromCmdQueue
    ptTmp, nx,  \* the consumer's node and the next of it
    getCount,   \* iPktCount as the consumer has read it
    gone,       \* last packet taken or cleaned
    fault,      \* an access through NULL or to a freed node was made
    raced,      \* a Put met a Get that was taking the last node
    miscounted  \* an update of iPktCount met another one

list == <<ptFirst, ptLast, next, freed>>
putter == <<n, tMutex, at, tail, putCount>>
getter == <<get, ptTmp, nx, getCount, gone>>
vars == <<list, iPktCount, putter, getter, fault, raced, miscounted>>

Init ==
    /\ ptFirst = NULL
    /\ ptLast = NULL
    /\ iPktCount = 0
    /\ next = [i \in Node |-> NULL]
    /\ freed = {}
    /\ n = 0
    /\ tMutex = NoOne
    /\ at = "out"
    /\ tail = NULL
    /\ putCount = 0
    /\ get = "out"
    /\ ptTmp = NULL
    /\ nx = NULL
    /\ getCount = 0
    /\ gone = 0
    /\ fault = FALSE
    /\ raced = FALSE
    /\ miscounted = FALSE

-----------------------------------------------------------------------------
(* PutNodeToCmdQueue *)

Putting(where) == ~fault /\ at = where

PutLock(p) ==
    /\ ~fault
    /\ tMutex = NoOne
    /\ n < MaxNode
    /\ n' = n + 1
    /\ tMutex' = p
    /\ at' = "test"
    /\ UNCHANGED <<list, iPktCount, tail, putCount, getter, fault, raced, miscounted>>

\* A Get that has found its node to be the last one and is not done with the list.
TakingLast == get \in {"first", "clear"} /\ nx = NULL

PutTest ==
    /\ Putting("test")
    /\ tail' = ptLast
    /\ at' = "link"
    /\ raced' = (raced \/ TakingLast)
    /\ UNCHANGED <<list, iPktCount, n, tMutex, putCount, getter, fault, miscounted>>

\* ptLast->next = node: ptLast is the value tested, or the compiler reads it again.
PutLink ==
    /\ Putting("link")
    /\ at' = "last"
    /\ IF tail = NULL
         THEN ptFirst' = n /\ UNCHANGED <<next, fault>>
         ELSE \E to \in {tail, ptLast} :
                IF to = NULL \/ to \in freed
                THEN fault' = TRUE /\ UNCHANGED <<ptFirst, next>>
                ELSE next' = [next EXCEPT ![to] = n] /\ UNCHANGED <<ptFirst, fault>>
    /\ UNCHANGED <<ptLast, freed, iPktCount, n, tMutex, tail, putCount, getter, raced, miscounted>>

PutLast ==
    /\ Putting("last")
    /\ ptLast' = n
    /\ at' = "count"
    /\ UNCHANGED <<ptFirst, next, freed, iPktCount, n, tMutex, tail, putCount, getter,
                   fault, raced, miscounted>>

\* iPktCount++ and iPktCount-- are a read and a write.
PutCount ==
    /\ Putting("count")
    /\ putCount' = iPktCount
    /\ at' = "unlock"
    /\ miscounted' = (miscounted \/ get = "copy")
    /\ UNCHANGED <<list, iPktCount, n, tMutex, tail, getter, fault, raced>>

PutUnlock ==
    /\ Putting("unlock")
    /\ iPktCount' = putCount + 1
    /\ tMutex' = NoOne
    /\ at' = "out"
    /\ UNCHANGED <<list, n, tail, putCount, getter, fault, raced, miscounted>>

-----------------------------------------------------------------------------
(* GetNodeFromCmdQueue and CleanNodeFromCmdQueue, called by the consumer *)

Getting(where) == ~fault /\ get = where

\* Mutant: a list of one node counts as empty.
GetCheck_NeedsTwo ==
    /\ Getting("out")
    /\ tMutex = NoOne
    /\ ptFirst # ptLast
    /\ get' = "next"
    /\ UNCHANGED <<list, iPktCount, putter, ptTmp, nx, getCount, gone, fault, raced, miscounted>>

\* The look under the mutex; Get does nothing if the list is empty.
GetCheck ==
    /\ Getting("out")
    /\ tMutex = NoOne
    /\ ptFirst # NULL
    /\ get' = "next"
    /\ UNCHANGED <<list, iPktCount, putter, ptTmp, nx, getCount, gone, fault, raced, miscounted>>

\* No other thread writes ptFirst while it is not NULL.
GetNext ==
    /\ Getting("next")
    /\ ptTmp' = ptFirst
    /\ nx' = next[ptFirst]
    /\ get' = "first"
    /\ raced' = (raced \/ (nx' = NULL /\ at = "link"))
    /\ UNCHANGED <<list, iPktCount, putter, getCount, gone, fault, miscounted>>

\* Mutant: ptLast is left alone when the last node is taken.
GetFirst_KeepsLast ==
    /\ Getting("first")
    /\ ptFirst' = nx
    /\ get' = "count"
    /\ UNCHANGED <<ptLast, next, freed, iPktCount, putter, ptTmp, nx, getCount, gone,
                   fault, raced, miscounted>>

GetFirst ==
    /\ Getting("first")
    /\ ptFirst' = nx
    /\ get' = IF nx = NULL THEN "clear" ELSE "count"
    /\ UNCHANGED <<ptLast, next, freed, iPktCount, putter, ptTmp, nx, getCount, gone,
                   fault, raced, miscounted>>

GetClear ==
    /\ Getting("clear")
    /\ ptLast' = NULL
    /\ get' = "count"
    /\ UNCHANGED <<ptFirst, next, freed, iPktCount, putter, ptTmp, nx, getCount, gone,
                   fault, raced, miscounted>>

GetCount ==
    /\ Getting("count")
    /\ getCount' = iPktCount
    /\ get' = "copy"
    /\ miscounted' = (miscounted \/ at = "unlock")
    /\ UNCHANGED <<list, iPktCount, putter, ptTmp, nx, gone, fault, raced>>

\* The count is written, the packet copied out and its node freed.
GetCopy ==
    /\ Getting("copy")
    /\ iPktCount' = getCount - 1
    /\ gone' = ptTmp
    /\ freed' = freed \cup {ptTmp}
    /\ get' = "out"
    /\ UNCHANGED <<ptFirst, ptLast, next, putter, ptTmp, nx, getCount, fault, raced, miscounted>>

\* The nodes found by walking the list.
Walked ==
    {i \in Node : \A S \in SUBSET Node :
        (/\ ptFirst # NULL => ptFirst \in S
         /\ \A j \in S : next[j] # NULL => next[j] \in S) => i \in S}

\* Mutants: iPktCount, or ptFirst, is not reset.
Clean_KeepsCount ==
    /\ Getting("out")
    /\ tMutex = NoOne
    /\ freed' = freed \cup Walked
    /\ ptFirst' = NULL
    /\ ptLast' = NULL
    /\ gone' = n
    /\ UNCHANGED <<next, iPktCount, putter, get, ptTmp, nx, getCount, fault, raced, miscounted>>

Clean_KeepsFirst ==
    /\ Getting("out")
    /\ tMutex = NoOne
    /\ freed' = freed \cup Walked
    /\ ptLast' = NULL
    /\ iPktCount' = 0
    /\ gone' = n
    /\ UNCHANGED <<ptFirst, next, putter, get, ptTmp, nx, getCount, fault, raced, miscounted>>

\* Between two calls of Get, wholly under the mutex.
Clean ==
    /\ Getting("out")
    /\ tMutex = NoOne
    /\ freed' = freed \cup Walked
    /\ ptFirst' = NULL
    /\ ptLast' = NULL
    /\ iPktCount' = 0
    /\ gone' = n
    /\ UNCHANGED <<next, putter, get, ptTmp, nx, getCount, fault, raced, miscounted>>

Put == PutTest \/ PutLink \/ PutLast \/ PutCount \/ PutUnlock
Get == GetCheck \/ GetNext \/ GetFirst \/ GetClear \/ GetCount \/ GetCopy

Next == (\E p \in Producers : PutLock(p)) \/ Put \/ Get \/ Clean

Spec == Init /\ [][Next]_vars

\* The operating system runs the threads, and CmdProcessThread, the consumer of
\* every PtCmdQueue, calls Get in an endless loop (361-374).
FairSpec == Spec /\ WF_vars(Put) /\ WF_vars(Get)

-----------------------------------------------------------------------------
(* Properties *)

TypeOK ==
    /\ ptFirst \in 0..MaxNode
    /\ ptLast \in 0..MaxNode
    /\ iPktCount \in Int
    /\ next \in [Node -> 0..MaxNode]
    /\ freed \subseteq Node
    /\ n \in 0..MaxNode
    /\ tMutex \in Producers \cup {NoOne}
    /\ at \in {"out", "test", "link", "last", "count", "unlock"}
    /\ tail \in 0..MaxNode
    /\ putCount \in Int
    /\ get \in {"out", "next", "first", "clear", "count", "copy"}
    /\ ptTmp \in 0..MaxNode
    /\ nx \in 0..MaxNode
    /\ getCount \in Int
    /\ gone \in 0..MaxNode
    /\ fault \in BOOLEAN
    /\ raced \in BOOLEAN
    /\ miscounted \in BOOLEAN

\* What a quiet queue looks like when nothing was lost: the list runs through
\* every packet put and not taken or cleaned, in the order of the calls.
WholeList ==
    /\ ptFirst = IF gone < n THEN gone + 1 ELSE NULL
    /\ ptLast = IF gone < n THEN n ELSE NULL
    /\ \A i \in (gone + 1)..n : next[i] = IF i < n THEN i + 1 ELSE NULL

\* Taking nodes without the mutex (225-233) does no harm as long as no Put
\* comes in while a Get takes the last node: any other overlap of the two
\* leaves no packet behind and touches no freed node.
LossNeedsLastNode ==
    ~raced => /\ ~fault
              /\ get = "out" /\ tMutex = NoOne => WholeList

\* iPktCount, which NVR_GetFileQueueSize returns and the search compares with
\* 0, is the number of packets there unless two updates of it overlapped (183, 231).
CountNeedsOverlap ==
    ~raced /\ ~miscounted /\ get = "out" /\ tMutex = NoOne => iPktCount = n - gone

\* Whatever is lost, packets leave in the order of the calls of Put, none
\* twice, and none that was there when the queue was cleaned.
Queue == INSTANCE LossyQueue WITH put <- n, floor <- gone
ImplementsLossy == Queue!Spec

\* A command put on the queue of an NVR is taken from it in the end, unless a
\* Put met a Get of the last node (352-376): then the list may never be walked again.
Drained == []~raced => \A k \in Node : n >= k ~> gone >= k

-----------------------------------------------------------------------------
(* The inductive invariant *)

\* The nodes that are linked to the list, or were.
Linked == IF at \in {"test", "link"} THEN n - 1 ELSE n

\* First node behind the one that is being unlinked.
Head == IF get \in {"clear", "count", "copy"} THEN ptTmp + 1 ELSE gone + 1

\* With or without a race, every pointer leads from older nodes to newer ones.
Order ==
    /\ tMutex = NoOne <=> at = "out"
    /\ at # "out" => n > 0
    /\ gone <= Linked
    /\ ptLast <= Linked
    /\ at = "link" => tail <= Linked
    /\ ptFirst # NULL => ptFirst \in Head..Linked
    /\ \A i \in Node : next[i] # NULL => next[i] \in (i + 1)..Linked
    /\ get = "next" => ptFirst # NULL
    /\ get \in {"first", "clear", "count", "copy"} => ptTmp \in (gone + 1)..Linked
    /\ get = "first" /\ nx # NULL => nx \in (ptTmp + 1)..Linked

\* Without a race the list has the shape WholeList gives it, up to what the
\* producer inside and the consumer have yet to do.
Shape ==
    ~raced =>
        /\ ~fault
        /\ freed \subseteq 1..gone
        /\ ptFirst = IF Head <= Linked THEN Head ELSE NULL
        /\ \A i \in Head..Linked : next[i] = IF i < Linked THEN i + 1 ELSE NULL
        /\ get \in {"first", "clear", "count", "copy"} => ptTmp = gone + 1
        /\ get = "first" => IF nx = NULL THEN ptTmp = Linked /\ at \in {"out", "test"}
                                         ELSE nx = ptTmp + 1
        /\ get = "clear" => ptTmp = Linked /\ at \in {"out", "test"} /\ nx = NULL
        /\ at # "out" => gone + (IF get = "out" THEN 0 ELSE 1) < n
        /\ at = "link" => tail = ptLast
        /\ ptLast = IF at = "last" THEN tail
                    ELSE IF Head <= Linked \/ get = "clear" THEN Linked ELSE NULL
        /\ at = "last" => tail \in {NULL, n - 1}

Count ==
    ~raced /\ ~miscounted =>
        /\ iPktCount = (IF at = "out" THEN n ELSE n - 1) - gone
        /\ at = "unlock" => putCount = iPktCount /\ get # "copy"
        /\ get = "copy" => getCount = iPktCount

Inv ==
    /\ TypeOK
    /\ Order
    /\ Shape
    /\ Count
=============================================================================
