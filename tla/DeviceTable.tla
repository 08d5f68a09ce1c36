---------------------------- MODULE DeviceTable ----------------------------
(***************************************************************************)
(* The table of the cameras (g_atNVRInfo of SDK/state/state.c) and the     *)
(* threads that write it.  The thread of the connection to NVR k runs      *)
(* PmsgProc for every message of k: a camera status is stored and, when it *)
(* is news, handed to the user interface; when the connection is lost all  *)
(* cameras of k are marked and the user interface is told that k is gone.  *)
(*                                                                         *)
(* STATE_CleanIPCState uses one variable i for the loop over the NVRs and  *)
(* for the loop over the cameras inside it.                                *)
(***************************************************************************)
EXTENDS Integers

CONSTANTS
    NvrNum,     \* g_iNvrTotalNum
    IpcNum      \* IpcNum[k]: the cameras of NVR k, iIPCNum

ASSUME TableAssumption ==
    /\ NvrNum \in Nat
    /\ IpcNum \in [0..(NvrNum - 1) -> Nat \ {0}]

Row == 0..(NvrNum - 1)
Ipc(k) == 0..(IpcNum[k] - 1)

\* What cOnlineState may be: 0 and 1, and the character '0' that
\* STATE_CleanIPCState writes.
Char0 == 48
Online == 1
State == {0, Online, Char0}

VARIABLES
    at,     \* where the thread of an NVR is in STATE_CleanIPCState, "idle": it is not there
    i,      \* the loop variable
    tState, \* tState[k][c]: cOnlineState of camera c of NVR k
    told    \* the cameras the user interface was told are online, since it was
            \* told last that their NVR is gone

tableVars == <<at, i, tState, told>>

TableInit ==
    /\ at = [k \in Row |-> "idle"]
    /\ i = [k \in Row |-> 0]
    /\ tState = [k \in Row |-> [c \in Ipc(k) |-> 0]]
    /\ told = [k \in Row |-> {}]

\* STATE_SetIpcState: the camera reports s; IPCOnlineStatusChange is called on a change.
Status(k, c, s) ==
    /\ at[k] = "idle"
    /\ tState' = [tState EXCEPT ![k][c] = s]
    /\ told' = [told EXCEPT ![k] =
         IF tState[k][c] = s THEN @
         ELSE IF s = Online THEN @ \cup {c} ELSE @ \ {c}]
    /\ UNCHANGED <<at, i>>

\* SERV_CLI_MSG_TYPE_OFFLINE.
Offline(k) ==
    /\ at[k] = "idle"
    /\ at' = [at EXCEPT ![k] = "nvrs"]
    /\ i' = [i EXCEPT ![k] = 0]
    /\ UNCHANGED <<tState, told>>

\* The outer loop looks for the row of the NVR.
NextNvr(k) ==
    /\ at[k] = "nvrs" /\ i[k] < NvrNum
    /\ IF i[k] = k
         THEN at' = [at EXCEPT ![k] = "cameras"] /\ i' = [i EXCEPT ![k] = 0]
         ELSE i' = [i EXCEPT ![k] = @ + 1] /\ UNCHANGED at
    /\ UNCHANGED <<tState, told>>

\* The inner loop marks the cameras of the row.
NextCamera(k) ==
    /\ at[k] = "cameras" /\ i[k] < IpcNum[k]
    /\ tState' = [tState EXCEPT ![k][i[k]] = Char0]
    /\ i' = [i EXCEPT ![k] = @ + 1]
    /\ UNCHANGED <<at, told>>

\* Mutant: the last camera is not marked.
CamerasDone_Early(k) ==
    /\ at[k] = "cameras" /\ i[k] >= IpcNum[k] - 1
    /\ at' = [at EXCEPT ![k] = "nvrs"]
    /\ i' = [i EXCEPT ![k] = @ + 1]
    /\ UNCHANGED <<tState, told>>

\* Mutant: the outer loop does not advance.
CamerasDone_Stay(k) ==
    /\ at[k] = "cameras" /\ i[k] >= IpcNum[k]
    /\ at' = [at EXCEPT ![k] = "nvrs"]
    /\ UNCHANGED <<i, tState, told>>

\* The outer loop goes on where the inner one has left i.
CamerasDone(k) ==
    /\ at[k] = "cameras" /\ i[k] >= IpcNum[k]
    /\ at' = [at EXCEPT ![k] = "nvrs"]
    /\ i' = [i EXCEPT ![k] = @ + 1]
    /\ UNCHANGED <<tState, told>>

\* g_pNVRDisconnectBack tells the user interface.
Disconnected(k) ==
    /\ at[k] = "nvrs" /\ i[k] >= NvrNum
    /\ at' = [at EXCEPT ![k] = "idle"]
    /\ told' = [told EXCEPT ![k] = {}]
    /\ UNCHANGED <<i, tState>>

CleanIPCState(k) == NextNvr(k) \/ NextCamera(k) \/ CamerasDone(k) \/ Disconnected(k)

TableNext ==
    \E k \in Row :
        \/ \E c \in Ipc(k), s \in {0, Online} : Status(k, c, s)
        \/ Offline(k)
        \/ CleanIPCState(k)

TableSpec == TableInit /\ [][TableNext]_tableVars

\* A thread in the middle of STATE_CleanIPCState is scheduled.
TableFairSpec == TableSpec /\ \A k \in Row : WF_tableVars(CleanIPCState(k))

-----------------------------------------------------------------------------
(* Properties *)

\* The variables have their types.
TableTypeOK ==
    /\ at \in [Row -> {"idle", "nvrs", "cameras"}]
    /\ i \in [Row -> Nat]
    /\ DOMAIN tState = Row
    /\ \A k \in Row : tState[k] \in [Ipc(k) -> State]
    /\ DOMAIN told = Row
    /\ \A k \in Row : told[k] \subseteq Ipc(k)

\* Between two messages the user interface knows of exactly the cameras that are online:
\* STATE_SetIpcState reports every camera that comes back after a disconnection, because
\* STATE_CleanIPCState has marked them all, and none that was there already.
ToldRight ==
    \A k \in Row : at[k] = "idle" => told[k] = {c \in Ipc(k) : tState[k][c] = Online}

\* STATE_CleanIPCState returns if the NVR has at least as many cameras as its index
\* says: then i is beyond the row when the outer loop goes on.  With fewer, i comes back to
\* the row for ever and the thread of the NVR never handles another message.
CleanReturns == \A k \in Row : IpcNum[k] >= k => (at[k] # "idle" ~> at[k] = "idle")

-----------------------------------------------------------------------------
(* The inductive invariant *)

\* Beyond the row of the NVR, all its cameras are marked; within, those before i.
Marked ==
    \A k \in Row : \A c \in Ipc(k) :
        (at[k] = "cameras" /\ c < i[k]) \/ (at[k] = "nvrs" /\ i[k] > k) => tState[k][c] = Char0

InnerBound == \A k \in Row : at[k] = "cameras" => i[k] <= IpcNum[k]

TableInv == TableTypeOK /\ ToldRight /\ Marked /\ InnerBound
=============================================================================
