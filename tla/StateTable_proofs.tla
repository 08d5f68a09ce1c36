-------------------------- MODULE StateTable_proofs --------------------------
(***************************************************************************)
(* What the two parts of SDK/state/state.c promise: AlarmReports, proved   *)
(* for any NVRs, cameras and flags, and DeviceTable, for any number of     *)
(* NVRs and cameras.                                                       *)
(***************************************************************************)
EXTENDS AlarmReports, DeviceTable, TLAPS

-----------------------------------------------------------------------------
(* The alarms *)

\* A list gives every source a number of entries.
LEMMA ListedType ==
    ASSUME NEW list \in Seq(Flag), NEW f \in Flag
    PROVE  Listed(list, f) \in Seq(Flag)
BY DEF Listed

\* The invariant holds at the start.
LEMMA InitInv == Init => Inv
<1>. SUFFICES ASSUME Init PROVE Inv
  OBVIOUS
<1>. USE AlarmAssumption DEF Init
<1>1. TypeOK
  <2>1. overlap \in BOOLEAN
    OBVIOUS
  <2>2. <<>> \in Seq(Flag)
    OBVIOUS
  <2>3. tWarnStateList \in [Source -> Seq(Flag)] /\ log \in [Source -> Seq(Flag)]
    BY <2>2
  <2>4. /\ pc \in [Nvr -> {"idle", "compare", "store", "test", "copy", "put"}]
        /\ src \in [Nvr -> Source] /\ flag \in [Nvr -> Flag] /\ ptWarn \in [Nvr -> Flag]
    OBVIOUS
  <2>5. buf \in [{"ipc", "nvr"} -> Flag]
    OBVIOUS
  <2>6. tWarnState \in [Source -> Flag] /\ last \in [Source -> Flag]
    OBVIOUS
  <2>. QED
    BY <2>1, <2>3, <2>4, <2>5, <2>6 DEF TypeOK
<1>2. Mine /\ Fresh /\ Progress /\ AlarmsRight
  BY DEF Mine, Fresh, Progress, AlarmsRight
<1>. QED
  BY <1>1, <1>2 DEF Inv

\* A step of the thread of k leaves the sources of the other threads alone.
LEMMA Apart ==
    ASSUME Mine, NEW k \in Nvr, NEW j \in Nvr, j # k, pc[j] # "idle", NEW s, Owner[s] = k
    PROVE  src[j] # s
BY DEF Mine

\* Receive keeps the invariant.
LEMMA ReceiveStep ==
    ASSUME Inv, NEW k \in Nvr, NEW s \in Source, NEW f \in Flag, Receive(k, s, f)
    PROVE  Inv'
<1>. USE AlarmAssumption DEF Inv, Receive, table
<1>1. TypeOK'
  <2>1. log' \in [Source -> Seq(Flag)]
    BY ListedType DEF TypeOK
  <2>2. pc' \in [Nvr -> {"idle", "compare", "store", "test", "copy", "put"}]
    BY DEF TypeOK
  <2>3. overlap' \in BOOLEAN
    OBVIOUS
  <2>4. src' \in [Nvr -> Source] /\ flag' \in [Nvr -> Flag] /\ buf' \in [{"ipc", "nvr"} -> Flag]
        /\ last' \in [Source -> Flag]
    BY DEF TypeOK
  <2>. QED
    BY <2>1, <2>2, <2>3, <2>4 DEF TypeOK
<1>2. /\ pc'[k] = (IF Kind[s] = "ipc" THEN "compare" ELSE "store")
      /\ src'[k] = s /\ flag'[k] = f /\ last'[s] = f /\ buf'[Kind[s]] = f
      /\ log'[s] = (IF News(s, f) THEN Listed(log[s], f) ELSE log[s])
      /\ \A j \in Nvr : j # k => pc'[j] = pc[j] /\ src'[j] = src[j] /\ flag'[j] = flag[j]
      /\ \A r \in Source : r # s => last'[r] = last[r] /\ log'[r] = log[r]
      /\ \A d \in {"ipc", "nvr"} : d # Kind[s] => buf'[d] = buf[d]
  BY DEF TypeOK
<1>3. Mine'
  BY <1>2 DEF Mine
<1>4. ASSUME ~overlap'
      PROVE  ~overlap /\ \A j \in Nvr : j # k => ~Uses(j, Kind[s])
  BY <1>4
<1>5. \A j \in Nvr : j # k /\ pc[j] # "idle" => src[j] # s /\ src[j] \in Source
  BY Apart DEF TypeOK
<1>6. ASSUME ~overlap'
      PROVE  tWarnState[s] = last[s] /\ tWarnStateList[s] = log[s]
  BY <1>4, <1>6 DEF AlarmsRight, AtRest
<1>7. ASSUME ~overlap'
      PROVE  Fresh'
  <2>1. ASSUME NEW j \in Nvr, j # k
        PROVE  /\ pc'[j] \in {"compare", "store", "test", "copy"} => buf'[Kind[src'[j]]] = flag'[j]
               /\ pc'[j] # "idle" => last'[src'[j]] = flag'[j]
    <3>1. pc'[j] = pc[j] /\ src'[j] = src[j] /\ flag'[j] = flag[j] /\ src[j] \in Source
      BY <1>2, <2>1 DEF TypeOK
    <3>2. pc[j] # "idle" => src[j] # s /\ last'[src[j]] = last[src[j]] /\ last[src[j]] = flag[j]
      BY <1>2, <1>4, <1>5, <1>7, <2>1, <3>1 DEF Fresh
    <3>3. ASSUME pc[j] \in {"compare", "store", "test", "copy"}
          PROVE  buf'[Kind[src[j]]] = flag[j]
      <4>1. Kind[src[j]] # Kind[s] /\ Kind[src[j]] \in {"ipc", "nvr"}
        BY <1>4, <1>7, <2>1, <3>1, <3>3 DEF Uses
      <4>2. buf[Kind[src[j]]] = flag[j]
        BY <1>4, <1>7, <3>3 DEF Fresh
      <4>. QED
        BY <1>2, <4>1, <4>2
    <3>. QED
      BY <3>1, <3>2, <3>3
  <2>. QED
    BY <1>2, <2>1 DEF Fresh
<1>8. ASSUME ~overlap'
      PROVE  Progress'
  <2>1. ASSUME NEW j \in Nvr, j # k, pc[j] # "idle"
        PROVE  log'[src[j]] = log[src[j]] /\ More(j)' = More(j) /\ Same(j)' = Same(j)
    BY <1>2, <1>5, <2>1 DEF More, Same
  <2>2. /\ More(k)' = Listed(tWarnStateList[s], f) /\ Same(k)' = tWarnStateList[s]
        /\ tWarnState' = tWarnState
    BY <1>2 DEF More, Same
  <2>3. log'[s] = IF f = Quiet \/ (Kind[s] = "ipc" /\ f = tWarnState[s]) THEN Same(k)' ELSE More(k)'
    BY <1>2, <1>6, <1>8, <2>2 DEF News
  <2>4. ASSUME NEW j \in Nvr, j # k, pc[j] # "idle"
        PROVE  /\ pc'[j] = pc[j] /\ src'[j] = src[j] /\ flag'[j] = flag[j]
               /\ ptWarn'[j] = ptWarn[j]
    BY <1>2, <2>4
  <2>5. Progress
    BY <1>4, <1>8
  <2>. QED
    BY <1>2, <2>1, <2>2, <2>3, <2>4, <2>5 DEF Progress
<1>9. ASSUME ~overlap'
      PROVE  AlarmsRight'
  <2>1. ASSUME NEW r \in Source, AtRest(r)'
        PROVE  r # s /\ AtRest(r)
    BY <1>2, <2>1 DEF AtRest
  <2>. QED
    BY <1>2, <1>4, <1>9, <2>1 DEF AlarmsRight
<1>10. overlap' => AlarmsRight'
  BY DEF AlarmsRight
<1>. QED
  BY <1>1, <1>3, <1>7, <1>8, <1>9, <1>10

\* Compare keeps the invariant.
LEMMA CompareStep ==
    ASSUME Inv, NEW k \in Nvr, Compare(k)
    PROVE  Inv'
<1>. USE AlarmAssumption DEF Inv, Compare, task, table, truth
<1>1. TypeOK'
  BY DEF TypeOK
<1>2. Mine'
  BY DEF Mine, TypeOK
<1>3. ~overlap => Fresh'
  BY DEF Fresh, TypeOK
<1>4. ~overlap => Progress'
  BY DEF Fresh, Progress, More, Same, TypeOK
<1>5. AlarmsRight'
  <2>1. ASSUME ~overlap, NEW s \in Source, AtRest(s)'
        PROVE  tWarnState[s] = last[s] /\ tWarnStateList[s] = log[s]
    <3>1. CASE AtRest(s)
      BY <2>1, <3>1 DEF AlarmsRight
    <3>2. CASE ~AtRest(s)
      <4>1. src[k] = s /\ buf["ipc"] = tWarnState[s]
        BY <2>1, <3>2 DEF AtRest, TypeOK
      <4>2. flag[k] = tWarnState[s] /\ last[s] = flag[k]
        BY <2>1, <4>1 DEF Fresh, Progress
      <4>3. log[s] = tWarnStateList[s]
        BY <2>1, <4>1, <4>2 DEF Progress, Same
      <4>. QED
        BY <4>2, <4>3
    <3>. QED
      BY <3>1, <3>2
  <2>. QED
    BY <2>1 DEF AlarmsRight
<1>. QED
  BY <1>1, <1>2, <1>3, <1>4, <1>5

\* Store keeps the invariant.
LEMMA StoreStep ==
    ASSUME Inv, NEW k \in Nvr, Store(k)
    PROVE  Inv'
<1>. USE AlarmAssumption DEF Inv, Store, task, table, truth
<1>1. TypeOK'
  BY DEF TypeOK
<1>2. Mine'
  BY DEF Mine, TypeOK
<1>3. ~overlap => Fresh'
  BY DEF Fresh, TypeOK
<1>4. \A j \in Nvr : j # k /\ pc[j] # "idle" => src[j] # src[k]
  BY DEF Mine
<1>5. ASSUME ~overlap
      PROVE  Progress'
  <2>1. /\ pc[k] = "store" /\ pc'[k] = "test" /\ buf[Kind[src[k]]] = flag[k]
        /\ tWarnState'[src[k]] = buf[Kind[src[k]]]
    BY <1>5 DEF Fresh, TypeOK
  <2>2. \A j \in Nvr : /\ More(j)' = More(j) /\ Same(j)' = Same(j)
                       /\ j # k => pc'[j] = pc[j]
                       /\ j # k /\ pc[j] # "idle" => tWarnState'[src[j]] = tWarnState[src[j]]
    BY <1>4 DEF More, Same, TypeOK
  <2>3. UNCHANGED <<src, flag, log, ptWarn>>
    OBVIOUS
  <2>4. Progress
    BY <1>5
  <2>. HIDE DEF Inv, Store
  <2>. QED
    BY <2>1, <2>2, <2>3, <2>4 DEF Progress
<1>6. AlarmsRight'
  <2>1. ASSUME NEW s \in Source, AtRest(s)'
        PROVE  AtRest(s) /\ s # src[k]
    BY <2>1 DEF AtRest, TypeOK, Mine
  <2>. QED
    BY <2>1 DEF AlarmsRight, TypeOK
<1>. QED
  BY <1>1, <1>2, <1>3, <1>5, <1>6

\* Test keeps the invariant.
LEMMA TestStep ==
    ASSUME Inv, NEW k \in Nvr, Test(k)
    PROVE  Inv'
<1>. USE AlarmAssumption DEF Inv, Test, task, table, truth
<1>1. TypeOK'
  BY DEF TypeOK
<1>2. Mine'
  BY DEF Mine, TypeOK
<1>3. ~overlap => Fresh'
  BY DEF Fresh, TypeOK
<1>4. ~overlap => Progress'
  BY DEF Fresh, Progress, More, Same, TypeOK
<1>5. AlarmsRight'
  <2>1. ASSUME ~overlap, NEW s \in Source, AtRest(s)'
        PROVE  tWarnState[s] = last[s] /\ tWarnStateList[s] = log[s]
    <3>1. CASE AtRest(s)
      BY <2>1, <3>1 DEF AlarmsRight
    <3>2. CASE ~AtRest(s)
      <4>1. src[k] = s /\ buf[Kind[src[k]]] = Quiet
        BY <2>1, <3>2 DEF AtRest, TypeOK
      <4>2. flag[k] = Quiet /\ last[s] = flag[k] /\ tWarnState[s] = flag[k]
        BY <2>1, <4>1 DEF Fresh, Progress
      <4>3. log[s] = tWarnStateList[s]
        BY <2>1, <4>1, <4>2 DEF Progress, Same
      <4>. QED
        BY <4>2, <4>3
    <3>. QED
      BY <3>1, <3>2
  <2>. QED
    BY <2>1 DEF AlarmsRight
<1>. QED
  BY <1>1, <1>2, <1>3, <1>4, <1>5

\* Copy keeps the invariant.
LEMMA CopyStep ==
    ASSUME Inv, NEW k \in Nvr, Copy(k)
    PROVE  Inv'
<1>. USE AlarmAssumption DEF Inv, Copy, task, table, truth
<1>1. TypeOK'
  BY DEF TypeOK
<1>2. Mine'
  BY DEF Mine, TypeOK
<1>3. ~overlap => Fresh'
  BY DEF Fresh, TypeOK
<1>4. ~overlap => Progress'
  BY DEF Fresh, Progress, More, Same, TypeOK
<1>5. AlarmsRight'
  BY DEF AlarmsRight, AtRest, TypeOK
<1>. QED
  BY <1>1, <1>2, <1>3, <1>4, <1>5

\* Put keeps the invariant.
LEMMA PutStep ==
    ASSUME Inv, NEW k \in Nvr, Put(k)
    PROVE  Inv'
<1>. USE AlarmAssumption DEF Inv, Put, task, table, truth
<1>1. TypeOK'
  <2>1. tWarnStateList' \in [Source -> Seq(Flag)]
    BY ListedType DEF TypeOK
  <2>. QED
    BY <2>1 DEF TypeOK
<1>2. Mine'
  BY DEF Mine, TypeOK
<1>3. ~overlap => Fresh'
  BY DEF Fresh, TypeOK
<1>4. \A j \in Nvr : j # k /\ pc[j] # "idle" => src[j] # src[k]
  BY DEF Mine
<1>5. ~overlap => Progress'
  BY <1>4 DEF Progress, More, Same, TypeOK
<1>6. AlarmsRight'
  <2>1. ASSUME ~overlap, NEW s \in Source, AtRest(s)'
        PROVE  tWarnState[s] = last[s] /\ tWarnStateList'[s] = log[s]
    <3>1. CASE s # src[k]
      <4>1. AtRest(s)
        BY <2>1, <3>1 DEF AtRest, TypeOK
      <4>. QED
        BY <2>1, <3>1, <4>1 DEF AlarmsRight, TypeOK
    <3>2. CASE s = src[k]
      <4>1. tWarnState[s] = flag[k] /\ last[s] = flag[k] /\ ptWarn[k] = flag[k]
        BY <2>1, <3>2 DEF Progress, Fresh
      <4>2. log[s] = Listed(tWarnStateList[s], flag[k])
        BY <2>1, <3>2 DEF Progress, More
      <4>3. tWarnStateList'[s] = Listed(tWarnStateList[s], ptWarn[k])
        BY <3>2 DEF TypeOK
      <4>. QED
        BY <4>1, <4>2, <4>3
    <3>. QED
      BY <3>1, <3>2
  <2>. QED
    BY <2>1 DEF AlarmsRight
<1>. QED
  BY <1>1, <1>2, <1>3, <1>5, <1>6

\* Every thread is where its report and the shared buffer put it, in every reachable state.
THEOREM Invariance == Spec => []Inv
<1>1. Inv /\ [Next]_vars => Inv'
  <2>. SUFFICES ASSUME Inv, [Next]_vars PROVE Inv'
    OBVIOUS
  <2>1. CASE Next
    BY <2>1, ReceiveStep, CompareStep, StoreStep, TestStep, CopyStep, PutStep DEF Next, Handle
  <2>2. CASE UNCHANGED vars
    BY <2>2 DEF vars, task, table, truth, Inv, TypeOK, Mine, Fresh, Progress, More, Same,
       AlarmsRight, AtRest
  <2>. QED
    BY <2>1, <2>2
<1>. QED
  BY <1>1, InitInv, PTL DEF Spec

\* As long as no two threads met at a static buffer, the alarms of every source are right.
THEOREM Alarms == Spec => []AlarmsRight
<1>1. Inv => AlarmsRight
  BY DEF Inv
<1>. QED
  BY <1>1, Invariance, PTL

-----------------------------------------------------------------------------
(* The table of the cameras *)

\* Indexes and numbers are natural numbers.
LEMMA Rows ==
    /\ NvrNum \in Nat
    /\ \A k \in Row : k \in Nat /\ k < NvrNum /\ IpcNum[k] \in Nat /\ IpcNum[k] > 0
BY TableAssumption DEF Row

\* The invariant holds at the start.
LEMMA TableStart == TableInit => TableInv
<1>. SUFFICES ASSUME TableInit PROVE TableInv
  OBVIOUS
<1>1. TableTypeOK
  BY DEF TableInit, TableTypeOK, State
<1>2. ToldRight
  BY DEF TableInit, ToldRight, Online
<1>3. Marked /\ InnerBound
  BY DEF TableInit, Marked, InnerBound
<1>. QED
  BY <1>1, <1>2, <1>3 DEF TableInv

\* A step of the thread of k changes what belongs to k only.
LEMMA StatusStep ==
    ASSUME TableInv, NEW k \in Row, NEW c \in Ipc(k), NEW s \in {0, Online}, Status(k, c, s)
    PROVE  TableInv'
<1>. USE DEF TableInv, Status
<1>1. /\ DOMAIN tState' = Row /\ DOMAIN told' = Row
      /\ tState'[k] = [tState[k] EXCEPT ![c] = s]
      /\ told'[k] = IF tState[k][c] = s THEN told[k]
                    ELSE IF s = Online THEN told[k] \cup {c} ELSE told[k] \ {c}
      /\ \A j \in Row : j # k => tState'[j] = tState[j] /\ told'[j] = told[j]
  BY DEF TableTypeOK
<1>2. TableTypeOK'
  <2>1. tState'[k] \in [Ipc(k) -> State]
    BY <1>1 DEF TableTypeOK, State
  <2>2. told'[k] \subseteq Ipc(k)
    BY <1>1 DEF TableTypeOK
  <2>. QED
    BY <1>1, <2>1, <2>2 DEF TableTypeOK
<1>3. ToldRight'
  <2>1. told[k] = {d \in Ipc(k) : tState[k][d] = Online}
    BY DEF ToldRight
  <2>2. \A d \in Ipc(k) : tState'[k][d] = IF d = c THEN s ELSE tState[k][d]
    BY <1>1 DEF TableTypeOK
  <2>3. told'[k] = {d \in Ipc(k) : tState'[k][d] = Online}
    BY <1>1, <2>1, <2>2 DEF Online
  <2>. QED
    BY <1>1, <2>3 DEF ToldRight
<1>4. Marked' /\ InnerBound'
  BY <1>1 DEF Marked, InnerBound
<1>. QED
  BY <1>2, <1>3, <1>4

\* Offline keeps the invariant.
LEMMA OfflineStep ==
    ASSUME TableInv, NEW k \in Row, Offline(k)
    PROVE  TableInv'
<1>. USE Rows DEF TableInv, Offline
<1>1. TableTypeOK'
  BY DEF TableTypeOK
<1>2. ToldRight' /\ Marked' /\ InnerBound'
  BY DEF TableTypeOK, ToldRight, Marked, InnerBound
<1>. QED
  BY <1>1, <1>2

\* NextNvr keeps the invariant.
LEMMA NextNvrStep ==
    ASSUME TableInv, NEW k \in Row, NextNvr(k)
    PROVE  TableInv'
<1>. USE Rows DEF TableInv, NextNvr
<1>1. TableTypeOK'
  <2>1. at' \in [Row -> {"idle", "nvrs", "cameras"}]
    BY DEF TableTypeOK
  <2>2. i \in [Row -> Nat] /\ i[k] + 1 \in Nat
    BY DEF TableTypeOK
  <2>3. \E x \in Nat : i' = [i EXCEPT ![k] = x]
    BY <2>2
  <2>4. i' \in [Row -> Nat]
    BY <2>2, <2>3
  <2>. QED
    BY <2>1, <2>4 DEF TableTypeOK
<1>2. ToldRight'
  BY DEF TableTypeOK, ToldRight
<1>3. Marked'
  <2>1. ASSUME NEW j \in Row, j # k
        PROVE  at'[j] = at[j] /\ i'[j] = i[j]
    BY <2>1 DEF TableTypeOK
  <2>2. at'[k] = "cameras" => i'[k] = 0
    BY DEF TableTypeOK
  <2>3. at'[k] = "nvrs" => at[k] = "nvrs" /\ i[k] # k /\ i'[k] = i[k] + 1
    BY DEF TableTypeOK
  <2>4. ASSUME NEW c \in Ipc(k), (at'[k] = "cameras" /\ c < i'[k]) \/ (at'[k] = "nvrs" /\ i'[k] > k)
        PROVE  tState[k][c] = Char0
    <3>1. c \in Nat /\ i[k] \in Nat /\ k \in Nat
      BY DEF TableTypeOK, Ipc
    <3>2. at[k] = "nvrs" /\ i[k] > k
      <4>. HIDE DEF TableInv, NextNvr
      <4>. QED
        BY <2>2, <2>3, <2>4, <3>1
    <3>. QED
      BY <3>2 DEF Marked
  <2>. QED
    BY <2>1, <2>4 DEF Marked
<1>4. InnerBound'
  <2>1. ASSUME NEW j \in Row, at'[j] = "cameras" PROVE i'[j] <= IpcNum[j]
    <3>1. CASE j = k
      BY <2>1, <3>1 DEF TableTypeOK
    <3>2. CASE j # k
      BY <2>1, <3>2 DEF TableTypeOK, InnerBound
    <3>. QED
      BY <3>1, <3>2
  <2>. QED
    BY <2>1 DEF InnerBound
<1>. QED
  BY <1>1, <1>2, <1>3, <1>4

\* NextCamera keeps the invariant.
LEMMA NextCameraStep ==
    ASSUME TableInv, NEW k \in Row, NextCamera(k)
    PROVE  TableInv'
<1>. USE Rows DEF TableInv, NextCamera
<1>1. /\ i[k] \in Ipc(k) /\ DOMAIN tState' = Row
      /\ tState'[k] = [tState[k] EXCEPT ![i[k]] = Char0]
      /\ \A j \in Row : j # k => tState'[j] = tState[j]
  BY DEF TableTypeOK, Ipc
<1>2. /\ i' \in [Row -> Nat] /\ i'[k] = i[k] + 1
      /\ \A j \in Row : j # k => i'[j] = i[j]
  BY DEF TableTypeOK
<1>3. TableTypeOK'
  <2>1. tState'[k] \in [Ipc(k) -> State]
    BY <1>1 DEF TableTypeOK, State
  <2>. QED
    BY <1>1, <1>2, <2>1 DEF TableTypeOK
<1>4. ToldRight'
  BY <1>1 DEF ToldRight
<1>5. Marked'
  <2>1. ASSUME NEW c \in Ipc(k), c < i[k] + 1
        PROVE  tState'[k][c] = Char0
    BY <1>1, <2>1 DEF TableTypeOK, Marked, Ipc
  <2>. QED
    BY <1>1, <1>2, <2>1 DEF Marked
<1>6. InnerBound'
  BY <1>2 DEF TableTypeOK, InnerBound
<1>. QED
  BY <1>3, <1>4, <1>5, <1>6

\* CamerasDone keeps the invariant.
LEMMA CamerasDoneStep ==
    ASSUME TableInv, NEW k \in Row, CamerasDone(k)
    PROVE  TableInv'
<1>. USE Rows DEF TableInv, CamerasDone
<1>1. TableTypeOK'
  BY DEF TableTypeOK
<1>2. ToldRight'
  BY DEF TableTypeOK, ToldRight
<1>3. Marked'
  BY DEF TableTypeOK, Marked, Ipc
<1>4. InnerBound'
  BY DEF TableTypeOK, InnerBound
<1>. QED
  BY <1>1, <1>2, <1>3, <1>4

\* Disconnected keeps the invariant.
LEMMA DisconnectedStep ==
    ASSUME TableInv, NEW k \in Row, Disconnected(k)
    PROVE  TableInv'
<1>. USE Rows DEF TableInv, Disconnected
<1>1. TableTypeOK'
  BY DEF TableTypeOK
<1>2. ToldRight'
  <2>1. \A c \in Ipc(k) : tState[k][c] = Char0
    BY DEF TableTypeOK, Marked
  <2>2. told'[k] = {} /\ \A j \in Row : j # k => told'[j] = told[j]
    BY DEF TableTypeOK
  <2>3. told'[k] = {c \in Ipc(k) : tState[k][c] = Online}
    BY <2>1, <2>2 DEF Char0, Online
  <2>. QED
    BY <2>2, <2>3 DEF ToldRight, TableTypeOK
<1>3. Marked' /\ InnerBound'
  BY DEF TableTypeOK, Marked, InnerBound
<1>. QED
  BY <1>1, <1>2, <1>3

\* The table, the marks of STATE_CleanIPCState and what the user interface knows agree
\* in every reachable state.
THEOREM TableInvariance == TableSpec => []TableInv
<1>1. TableInv /\ [TableNext]_tableVars => TableInv'
  <2>. SUFFICES ASSUME TableInv, [TableNext]_tableVars PROVE TableInv'
    OBVIOUS
  <2>1. CASE TableNext
    BY <2>1, StatusStep, OfflineStep, NextNvrStep, NextCameraStep, CamerasDoneStep,
       DisconnectedStep DEF TableNext, CleanIPCState
  <2>2. CASE UNCHANGED tableVars
    BY <2>2 DEF tableVars, TableInv, TableTypeOK, ToldRight, Marked, InnerBound
  <2>. QED
    BY <2>1, <2>2
<1>. QED
  BY <1>1, TableStart, PTL DEF TableSpec

\* The user interface knows the cameras that are online, for any NVRs and cameras.
THEOREM TableTold == TableSpec => []ToldRight
<1>1. TableInv => ToldRight
  BY DEF TableInv
<1>. QED
  BY <1>1, TableInvariance, PTL

\* How many steps STATE_CleanIPCState has yet to take for NVR k, at most: to the row of k, through
\* its cameras, and from behind the row to the end of the table.
ToReturn(k) ==
    CASE at[k] = "idle" -> 0
      [] at[k] = "nvrs" /\ i[k] > k -> (IF i[k] < NvrNum THEN NvrNum - i[k] ELSE 0) + 1
      [] at[k] = "cameras" -> (IpcNum[k] - i[k]) + NvrNum + 2
      [] OTHER -> (k - i[k]) + IpcNum[k] + NvrNum + 3

LEMMA ToReturnType ==
    ASSUME TableInv, NEW k \in Row
    PROVE  ToReturn(k) \in Nat
<1>1. /\ at[k] \in {"idle", "nvrs", "cameras"} /\ i[k] \in Nat
      /\ at[k] = "cameras" => i[k] <= IpcNum[k]
  BY DEF TableInv, TableTypeOK, InnerBound
<1>. QED
  BY <1>1, Rows DEF ToReturn

\* A step of the thread brings the return nearer: the outer loop goes on behind the row.
LEMMA ToReturnLess ==
    ASSUME TableInv, NEW k \in Row, IpcNum[k] >= k, CleanIPCState(k)
    PROVE  ToReturn(k)' < ToReturn(k)
<1>1. /\ at[k] \in {"idle", "nvrs", "cameras"} /\ i[k] \in Nat
      /\ at[k] = "cameras" => i[k] <= IpcNum[k]
      /\ NvrNum \in Nat /\ k \in Nat /\ k < NvrNum /\ IpcNum[k] \in Nat
  BY Rows DEF TableInv, TableTypeOK, InnerBound
<1>2. CASE NextNvr(k)
  <2>1. at[k] = "nvrs" /\ i[k] < NvrNum
    BY <1>2 DEF NextNvr
  <2>2. IF i[k] = k THEN at'[k] = "cameras" /\ i'[k] = 0 ELSE i'[k] = i[k] + 1 /\ at'[k] = "nvrs"
    BY <1>2 DEF NextNvr, TableInv, TableTypeOK
  <2>. QED
    BY <1>1, <2>1, <2>2 DEF ToReturn
<1>3. CASE NextCamera(k)
  <2>1. at[k] = "cameras" /\ i[k] < IpcNum[k] /\ at'[k] = "cameras" /\ i'[k] = i[k] + 1
    BY <1>3 DEF NextCamera, TableInv, TableTypeOK
  <2>. QED
    BY <1>1, <2>1 DEF ToReturn
<1>4. CASE CamerasDone(k)
  <2>1. at[k] = "cameras" /\ i[k] >= IpcNum[k] /\ at'[k] = "nvrs" /\ i'[k] = i[k] + 1
    BY <1>4 DEF CamerasDone, TableInv, TableTypeOK
  <2>2. i'[k] > k
    BY <1>1, <2>1
  <2>. QED
    BY <1>1, <2>1, <2>2 DEF ToReturn
<1>5. CASE Disconnected(k)
  <2>1. at[k] = "nvrs" /\ i[k] >= NvrNum /\ at'[k] = "idle"
    BY <1>5 DEF Disconnected, TableInv, TableTypeOK
  <2>. QED
    BY <1>1, <2>1 DEF ToReturn
<1>. QED
  BY <1>2, <1>3, <1>4, <1>5 DEF CleanIPCState

\* No other step touches the loop of a thread that is in it.
LEMMA ToReturnKept ==
    ASSUME TableInv, TableNext, NEW k \in Row, at[k] # "idle", ~CleanIPCState(k)
    PROVE  at'[k] = at[k] /\ i'[k] = i[k] /\ ToReturn(k)' = ToReturn(k)
<1>1. at'[k] = at[k] /\ i'[k] = i[k]
  <2>1. ASSUME NEW j \in Row, NEW c \in Ipc(j), NEW s \in {0, Online}, Status(j, c, s)
        PROVE  at'[k] = at[k] /\ i'[k] = i[k]
    BY <2>1 DEF Status
  <2>2. ASSUME NEW j \in Row, Offline(j) \/ CleanIPCState(j)
        PROVE  at'[k] = at[k] /\ i'[k] = i[k]
    <3>1. j # k
      BY <2>2 DEF Offline
    <3>. QED
      BY <2>2, <3>1 DEF Offline, CleanIPCState, NextNvr, NextCamera, CamerasDone, Disconnected,
                        TableInv, TableTypeOK
  <2>. QED
    BY <2>1, <2>2 DEF TableNext
<1>. QED
  BY <1>1 DEF ToReturn

\* STATE_CleanIPCState returns, if the NVR has as many cameras as its index says, because each of
\* its steps leaves fewer of them, and no other thread adds any.
THEOREM TableReturns ==
    TableSpec =>
        /\ [](\A k \in Row : ToReturn(k) \in Nat)
        /\ [][\A k \in Row : IpcNum[k] >= k /\ at[k] # "idle" =>
                ToReturn(k)' < ToReturn(k) \/ (~CleanIPCState(k) /\ UNCHANGED <<at[k], i[k]>>)]_tableVars
<1>1. TableInv => \A k \in Row : ToReturn(k) \in Nat
  BY ToReturnType
<1>2. TableInv /\ [TableNext]_tableVars =>
        [\A k \in Row : IpcNum[k] >= k /\ at[k] # "idle" =>
            ToReturn(k)' < ToReturn(k) \/ (~CleanIPCState(k) /\ UNCHANGED <<at[k], i[k]>>)]_tableVars
  BY ToReturnLess, ToReturnKept
<1>. QED
  BY <1>1, <1>2, TableInvariance, PTL DEF TableSpec
==============================================================================
