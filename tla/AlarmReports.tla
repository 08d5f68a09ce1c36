---------------------------- MODULE AlarmReports ----------------------------
(***************************************************************************)
(* The alarms of the cameras and of the NVRs themselves: PmsgProc of       *)
(* NVRMsgProc.cxx and STATE_SetIpcWarnState, STATE_SetNvrWarnState and     *)
(* PutDataList of SDK/state/state.c.  The threads of all connections copy  *)
(* the flags of a report into one static buffer per kind of report         *)
(* (tIpcWarnState, tNvrWarnState) and work on from there; nothing is       *)
(* locked, so every access to a buffer is a step.                          *)
(***************************************************************************)
EXTENDS Naturals, Sequences

CONSTANTS
    Nvr,        \* the NVRs, one thread for each
    Source,     \* what alarms are about: the cameras, and the NVRs
    Owner,      \* Owner[s]: the NVR whose thread handles the reports of s
    Kind,       \* Kind[s]: "ipc" or "nvr"
    Flag, Quiet,\* the flags of a report; Quiet: all are 00
    MaxLog      \* bound: the alarms of a source that are followed, the first ones

ASSUME AlarmAssumption ==
    /\ Owner \in [Source -> Nvr]
    /\ Kind \in [Source -> {"ipc", "nvr"}]
    /\ Quiet \in Flag
    /\ MaxLog \in Nat

VARIABLES
    pc,         \* where the thread of an NVR is
    src, flag,  \* the report it works on
    buf,        \* buf["ipc"]: tIpcWarnState, buf["nvr"]: tNvrWarnState
    ptWarn,     \* the copy the thread has allocated
    tWarnState, \* tWarnState of every source
    tWarnStateList, \* the alarms listed for every source
    last, log,  \* what its reports said: the latest, and the alarms to be listed
    overlap     \* two threads were at work on the same buffer

task == <<src, flag>>
table == <<tWarnState, tWarnStateList>>
truth == <<last, log, overlap>>
vars == <<pc, task, buf, ptWarn, table, truth>>

Init ==
    /\ pc = [k \in Nvr |-> "idle"]
    /\ src \in [Nvr -> Source]
    /\ flag = [k \in Nvr |-> Quiet]
    /\ buf = [d \in {"ipc", "nvr"} |-> Quiet]
    /\ ptWarn = [k \in Nvr |-> Quiet]
    /\ tWarnState = [s \in Source |-> Quiet]
    /\ tWarnStateList = [s \in Source |-> <<>>]
    /\ last = [s \in Source |-> Quiet]
    /\ log = [s \in Source |-> <<>>]
    /\ overlap = FALSE

\* The thread still reads the buffer of kind d.
Uses(k, d) == pc[k] \in {"compare", "store", "test", "copy"} /\ Kind[src[k]] = d

\* Repeated reports of a camera are one alarm; every report of an NVR with a flag is one
\* (the memcmp of STATE_SetNvrWarnState compares its result with -4).
News(s, f) == f # Quiet /\ (Kind[s] = "ipc" => f # last[s])

\* The list with one more alarm; the lists of the code have no bound.
Listed(list, f) == IF Len(list) < MaxLog THEN Append(list, f) ELSE list

\* PmsgProc gets a report f about s and copies the flags into the static buffer.
Receive(k, s, f) ==
    /\ pc[k] = "idle"
    /\ Owner[s] = k
    /\ buf' = [buf EXCEPT ![Kind[s]] = f]
    /\ pc' = [pc EXCEPT ![k] = IF Kind[s] = "ipc" THEN "compare" ELSE "store"]
    /\ src' = [src EXCEPT ![k] = s]
    /\ flag' = [flag EXCEPT ![k] = f]
    /\ last' = [last EXCEPT ![s] = f]
    /\ log' = [log EXCEPT ![s] = IF News(s, f) THEN Listed(@, f) ELSE @]
    /\ overlap' = (overlap \/ \E j \in Nvr \ {k} : Uses(j, Kind[s]))
    /\ UNCHANGED <<ptWarn, table>>

\* Mutant: a quiet report ends the comparison, the camera keeps its alarm.
Compare_QuietToo(k) ==
    /\ pc[k] = "compare"
    /\ pc' = [pc EXCEPT ![k] =
         IF buf["ipc"] \in {tWarnState[src[k]], Quiet} THEN "idle" ELSE "store"]
    /\ UNCHANGED <<task, buf, ptWarn, table, truth>>

\* memcmp: a camera's report that says nothing new is dropped.
Compare(k) ==
    /\ pc[k] = "compare"
    /\ pc' = [pc EXCEPT ![k] = IF buf["ipc"] = tWarnState[src[k]] THEN "idle" ELSE "store"]
    /\ UNCHANGED <<task, buf, ptWarn, table, truth>>

\* Mutant: the state of the source is not updated.
Store_NoCopy(k) ==
    /\ pc[k] = "store"
    /\ pc' = [pc EXCEPT ![k] = "test"]
    /\ UNCHANGED <<task, buf, ptWarn, table, truth>>

\* memcpy into the row of the source.
Store(k) ==
    /\ pc[k] = "store"
    /\ tWarnState' = [tWarnState EXCEPT ![src[k]] = buf[Kind[src[k]]]]
    /\ pc' = [pc EXCEPT ![k] = "test"]
    /\ UNCHANGED <<task, buf, ptWarn, tWarnStateList, truth>>

\* Is a flag set?
Test(k) ==
    /\ pc[k] = "test"
    /\ pc' = [pc EXCEPT ![k] = IF buf[Kind[src[k]]] = Quiet THEN "idle" ELSE "copy"]
    /\ UNCHANGED <<task, buf, ptWarn, table, truth>>

\* malloc and memcpy.
Copy(k) ==
    /\ pc[k] = "copy"
    /\ ptWarn' = [ptWarn EXCEPT ![k] = buf[Kind[src[k]]]]
    /\ pc' = [pc EXCEPT ![k] = "put"]
    /\ UNCHANGED <<task, buf, table, truth>>

\* PutDataList: only the thread of its NVR appends to a list.
Put(k) ==
    /\ pc[k] = "put"
    /\ tWarnStateList' = [tWarnStateList EXCEPT ![src[k]] = Listed(@, ptWarn[k])]
    /\ pc' = [pc EXCEPT ![k] = "idle"]
    /\ UNCHANGED <<task, buf, ptWarn, tWarnState, truth>>

Handle(k) == Compare(k) \/ Store(k) \/ Test(k) \/ Copy(k) \/ Put(k)

Next == \E k \in Nvr : Handle(k) \/ \E s \in Source, f \in Flag : Receive(k, s, f)

Spec == Init /\ [][Next]_vars

-----------------------------------------------------------------------------
(* Properties *)

\* The variables have their types.
TypeOK ==
    /\ pc \in [Nvr -> {"idle", "compare", "store", "test", "copy", "put"}]
    /\ src \in [Nvr -> Source]
    /\ flag \in [Nvr -> Flag]
    /\ buf \in [{"ipc", "nvr"} -> Flag]
    /\ ptWarn \in [Nvr -> Flag]
    /\ tWarnState \in [Source -> Flag] /\ last \in [Source -> Flag]
    /\ tWarnStateList \in [Source -> Seq(Flag)] /\ log \in [Source -> Seq(Flag)]
    /\ overlap \in BOOLEAN

\* Nobody works on a report about s.
AtRest(s) == pc[Owner[s]] = "idle" \/ src[Owner[s]] # s

\* When a source is at rest, its state is what it reported last and its list holds every
\* alarm it raised, once and in order; unless two threads ever met at a static buffer.
AlarmsRight ==
    ~overlap => \A s \in Source : AtRest(s) => tWarnState[s] = last[s] /\ tWarnStateList[s] = log[s]

-----------------------------------------------------------------------------
(* The inductive invariant *)

\* A thread works on the reports of its NVR.
Mine == \A k \in Nvr : pc[k] # "idle" => Owner[src[k]] = k

\* Without an overlap the buffer still holds the report, and the report is the latest.
Fresh ==
    \A k \in Nvr :
        /\ (pc[k] \in {"compare", "store", "test", "copy"}) => buf[Kind[src[k]]] = flag[k]
        /\ pc[k] # "idle" => last[src[k]] = flag[k]

\* How far the thread has come with what the report asks for.
More(k) == Listed(tWarnStateList[src[k]], flag[k])
Same(k) == tWarnStateList[src[k]]

Progress ==
    \A k \in Nvr :
        /\ pc[k] = "compare" =>
             /\ Kind[src[k]] = "ipc"
             /\ log[src[k]] = IF flag[k] = Quiet \/ flag[k] = tWarnState[src[k]] THEN Same(k) ELSE More(k)
        /\ pc[k] \in {"store", "test"} =>
             log[src[k]] = IF flag[k] = Quiet THEN Same(k) ELSE More(k)
        /\ pc[k] \in {"copy", "put"} => log[src[k]] = More(k)
        /\ pc[k] \in {"test", "copy", "put"} => tWarnState[src[k]] = flag[k]
        /\ pc[k] = "put" => ptWarn[k] = flag[k]

Inv == TypeOK /\ Mine /\ (~overlap => Fresh /\ Progress) /\ AlarmsRight
=============================================================================
