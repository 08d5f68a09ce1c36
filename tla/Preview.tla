------------------------------ MODULE Preview ------------------------------
(***************************************************************************)
(* The live previews and the playback of a file.  A window has a player    *)
(* (MainSdk, s_tPreviewInfo in mainsdk.cpp), a player that is open has a   *)
(* thread (CMPlayerInterface.cpp).  The user interface changes the         *)
(* carriage on a click, a poll tick or a new connection, and stops the     *)
(* previews when a connection is lost; a camera that comes online opens    *)
(* its preview on the connection's thread (IPCOnlineStatusChange), and     *)
(* stops a playback on the way.  Nothing locks the tables of players.      *)
(*                                                                         *)
(* Reads and writes of the shared tables and fields are made one at a      *)
(* time, but for the fields of one player that are set in a row.  What     *)
(* a player's thread does on the network is MonitorPlayThread's outline:   *)
(* it opens the stream, loses it, and ends when its flag is down.          *)
(***************************************************************************)
EXTENDS Integers, Sequences, FiniteSets, Functions

CONSTANTS
    NumNvr,      \* NVRs 1..NumNvr, each with a connection thread
    NumWin,      \* MAX_CARRIAGE_PRE_CAMERA_NUM
    MaxCarriage, \* MAX_CARRIAGE_NUM, less the hidden buttons
    Trains       \* the configurations to look at, each with its bounds:
                 \*   nvrOf[c]: the NVR of the configured carriage c
                 \*   pos[c]: acIpcPos, the positions of the cameras of c
                 \*   ops: operations of the user interface
                 \*   events: cameras that come online, streams lost
                 \*   links: connections made

Nvrs == 1..NumNvr
Wins == 1..NumWin

ASSUME PreviewAssumption ==
    /\ NumNvr \in Nat \ {0} /\ NumWin \in Nat \ {0} /\ MaxCarriage \in Nat \ {0}
    /\ \A t \in Trains :
          /\ \E n \in 1..MaxCarriage : t.nvrOf \in [1..n -> Nvrs] /\ DOMAIN t.pos = 1..n
          /\ \A c \in DOMAIN t.pos : t.pos[c] \in Seq(Wins) /\ Len(t.pos[c]) <= NumWin
          /\ t.ops \in Nat /\ t.events \in Nat /\ t.links \in Nat

VARIABLES
    train,      \* the configuration, read at the start
    connected,  \* NVR_GetConnectStatus of each NVR
    online,     \* the cameras <<carriage, position>> the state table has as online
    handle,     \* s_tPreviewInfo[].pCMPHandle: a player, 0 for NULL
    playback,   \* s_tPlayBackInfo.pCMPHandle
    current,    \* m_iCurrentiCarriageNo, 0 for -1
    select,     \* m_iCurSelectCarriageIdx
    m_bInitPreview,
    polling,    \* m_enumPoll = REALMONITOR_POLLON
    seen,       \* m_iConnectStates
    player,     \* every player there ever was
    thread,     \* every thread of a player there ever was
    pc, loc,    \* where the user interface (0) and the connection threads are
    crash,      \* a deleted player was used
    \* history
    overlap,    \* two of them have been in MainSdk at the same time
    wrapped,    \* polling has come to the end of the train
    beyond,     \* a carriage that is not configured has been selected
    reinit,     \* a connection thread has called initPreview
    excused,    \* windows a preview is missing from for a known reason
    ops, events, links

tables == <<handle, playback, current, select, m_bInitPreview, polling, seen>>
players == <<player, thread>>
world == <<train, connected, online>>
history == <<wrapped, beyond, reinit, excused>>
bounds == <<ops, events, links>>
vars == <<world, tables, players, pc, loc, crash, overlap, history, bounds>>

NvrOf == train.nvrOf
Pos == train.pos
Carriages == DOMAIN NvrOf  \* checkCarriage

Ui == 0
Actors == Nvrs \cup {Ui}
NoCam == <<0, 0>>
File == <<0, 1>>  \* what a playback shows
Nil == [c |-> 0, pos |-> 0, w |-> 0, p |-> 0, t |-> 0, ret |-> "idle"]

Init ==
    /\ train \in Trains
    /\ connected = [n \in Nvrs |-> FALSE] /\ online = {}
    /\ handle = [w \in Wins |-> 0] /\ playback = 0
    /\ current = 0 /\ select = 1
    /\ m_bInitPreview = FALSE /\ polling = FALSE
    /\ seen = [n \in Nvrs |-> FALSE]
    /\ player = <<>> /\ thread = <<>>
    /\ pc = [a \in Actors |-> "idle"] /\ loc = [a \in Actors |-> Nil]
    /\ crash = FALSE /\ overlap = FALSE
    /\ wrapped = FALSE /\ beyond = FALSE /\ reinit = FALSE /\ excused = {}
    /\ ops = 0 /\ events = 0 /\ links = 0

At(a, label) == pc[a] = label /\ ~crash
Goto(a, label) == pc' = [pc EXCEPT ![a] = label]
Put(a, l) == loc' = [loc EXCEPT ![a] = l]
Rest(a) == Goto(a, "idle") /\ Put(a, Nil)
Busy(a) == pc[a] \notin {"idle", "told"}

Running(t) == thread[t].at # "done"
Live(p) == player[p].live
\* a uses player p: a deleted one ends the program.
Crash == crash' = TRUE /\ UNCHANGED <<world, tables, players, pc, loc, history, bounds>>

-----------------------------------------------------------------------------
(* CMPlayerInterface.cpp *)

NewPlayer == [live |-> TRUE, flag |-> FALSE, state |-> "IDLE", h |-> 0]
CMP_Init == player' = Append(player, NewPlayer)

\* The thread is started in the player's name; an older one is forgotten.
Open(p, cam, state) ==
    /\ thread' = Append(thread, [p |-> p, cam |-> cam, at |-> "login"])
    /\ player' = [player EXCEPT ![p].flag = TRUE, ![p].state = state,
                                ![p].h = Len(thread) + 1]

\* Mutant: the flag of the thread is not taken down.
Close_KeepsFlag(a) ==
    LET p == loc[a].p
        t == player[p].h
    IN  /\ At(a, "close") /\ Live(p)
        /\ IF t = 0
           THEN /\ player' = [player EXCEPT ![p].state = "STOP"]
                /\ Goto(a, loc[a].ret) /\ UNCHANGED loc
           ELSE /\ player' = player
                /\ Goto(a, "wait") /\ Put(a, [loc[a] EXCEPT !.t = t])
        /\ UNCHANGED <<world, tables, thread, crash, history, bounds>>

\* CMP_CloseMedia on loc[a].p, up to the wait for the thread.
Close(a) ==
    LET p == loc[a].p
        t == player[p].h
    IN  /\ At(a, "close") /\ Live(p)
        /\ IF t = 0
           THEN /\ player' = [player EXCEPT ![p].flag = FALSE, ![p].state = "STOP"]
                /\ Goto(a, loc[a].ret) /\ UNCHANGED loc
           ELSE /\ player' = [player EXCEPT ![p].flag = FALSE]
                /\ Goto(a, "wait") /\ Put(a, [loc[a] EXCEPT !.t = t])
        /\ UNCHANGED <<world, tables, thread, crash, history, bounds>>

\* Mutant: the wait gives up.
Waited_NotLong(a) ==
    LET p == loc[a].p
    IN  /\ At(a, "wait") /\ Live(p)
        /\ player' = [player EXCEPT ![p].h = 0, ![p].state = "STOP"]
        /\ Goto(a, loc[a].ret) /\ Put(a, [loc[a] EXCEPT !.t = 0])
        /\ UNCHANGED <<world, tables, thread, crash, history, bounds>>

Waited(a) ==
    LET p == loc[a].p
    IN  /\ At(a, "wait") /\ ~Running(loc[a].t) /\ Live(p)
        /\ player' = [player EXCEPT ![p].h = 0, ![p].state = "STOP"]
        /\ Goto(a, loc[a].ret) /\ Put(a, [loc[a] EXCEPT !.t = 0])
        /\ UNCHANGED <<world, tables, thread, crash, history, bounds>>

\* CMP_UnInit.  A thread of the player that still runs works on freed memory.
Deletes(p) == player' = [player EXCEPT ![p].live = FALSE]
MayDelete(p) == Live(p) /\ \A t \in 1..Len(thread) : thread[t].p = p => ~Running(t)

\* MonitorPlayThread.
Opened(t) ==
    /\ ~crash /\ thread[t].at = "login"
    /\ thread' = [thread EXCEPT ![t].at = "play"]
    /\ player' = [player EXCEPT ![thread[t].p].state = "PLAY"]
    /\ UNCHANGED <<world, tables, pc, loc, crash, history, bounds>>

\* A preview whose stream is lost logs in again.
Lost(t) ==
    /\ ~crash /\ ~overlap /\ thread[t].at = "play" /\ thread[t].cam # File
    /\ player[thread[t].p].flag
    /\ events < train.events /\ events' = events + 1
    /\ thread' = [thread EXCEPT ![t].at = "login"]
    /\ UNCHANGED <<world, tables, player, pc, loc, crash, history, ops, links>>

\* The flag is down; a playback also ends by itself.
Ended(t) ==
    /\ ~crash /\ Running(t)
    /\ ~player[thread[t].p].flag \/ thread[t].cam = File
    /\ thread' = [thread EXCEPT ![t].at = "done"]
    /\ player' = [player EXCEPT ![thread[t].p].state = "STOP"]
    /\ UNCHANGED <<world, tables, pc, loc, crash, history, bounds>>

-----------------------------------------------------------------------------
(* The operations of the user interface begin.  Where two threads have     *)
(* met in MainSdk every property allows anything: from then on they only   *)
(* finish what they have begun.                                            *)

UiFree == At(Ui, "idle") /\ ~overlap /\ ops < train.ops /\ ops' = ops + 1

\* stopMonitor(select), then SetCarrriageWorker goes on to carriage c (0: it does not).
StopMonitor(c) ==
    /\ Goto(Ui, IF select \in Carriages /\ current > 0 THEN "uninit" ELSE "swap")
    /\ Put(Ui, [Nil EXCEPT !.c = c, !.w = 1])

SetCarriage(c, force) ==
    IF c \notin 1..MaxCarriage \/ (~force /\ c = select)
    THEN UNCHANGED <<pc, loc>>
    ELSE StopMonitor(c)

Click ==
    /\ UiFree
    /\ \E c \in 1..MaxCarriage : SetCarriage(c, FALSE)
    /\ UNCHANGED <<world, tables, players, crash, history, events, links>>

Poll ==
    /\ UiFree /\ polling' = ~polling
    /\ UNCHANGED <<world, handle, playback, current, select, m_bInitPreview, seen,
                   players, pc, loc, crash, history, events, links>>

VideoPollTimeSlots ==
    /\ UiFree /\ polling
    /\ IF select + 1 > MaxCarriage
       THEN /\ select' = 0 /\ wrapped' = TRUE /\ UNCHANGED <<pc, loc>>
       ELSE /\ SetCarriage(select + 1, FALSE) /\ UNCHANGED <<select, wrapped>>
    /\ UNCHANGED <<world, handle, playback, current, m_bInitPreview, polling, seen, players,
                   crash, beyond, reinit, excused, events, links>>

\* Mutant: the selected carriage counts as shown.
ConnectTimer_NotForced(n) ==
    /\ At(Ui, "idle") /\ ~overlap /\ seen[n] # connected[n]
    /\ seen' = [seen EXCEPT ![n] = connected[n]]
    /\ IF connected[n]
       THEN /\ SetCarriage(IF select <= 0 THEN 1 ELSE select, FALSE)
            /\ UNCHANGED excused
       ELSE /\ StopMonitor(0)
            \* also when the previews are of another NVR
            /\ excused' = IF select \in Carriages /\ NvrOf[select] # n THEN Wins ELSE excused
    /\ UNCHANGED <<world, handle, playback, current, select, m_bInitPreview, polling,
                   players, crash, wrapped, beyond, reinit, bounds>>

\* ProcessConnectTimerOut for one NVR.
ConnectTimer(n) ==
    /\ At(Ui, "idle") /\ ~overlap /\ seen[n] # connected[n]
    /\ seen' = [seen EXCEPT ![n] = connected[n]]
    /\ IF connected[n]
       THEN /\ SetCarriage(IF select <= 0 THEN 1 ELSE select, select > 0)
            /\ UNCHANGED excused
       ELSE /\ StopMonitor(0)
            \* also when the previews are of another NVR
            /\ excused' = IF select \in Carriages /\ NvrOf[select] # n THEN Wins ELSE excused
    /\ UNCHANGED <<world, handle, playback, current, select, m_bInitPreview, polling,
                   players, crash, wrapped, beyond, reinit, bounds>>

\* on_pushButtonDownloadPlay_clicked and on_pushButtonDownloadStop_clicked.
Play ==
    /\ UiFree
    /\ \E c \in Carriages : Put(Ui, [Nil EXCEPT !.c = c, !.ret = "play"])
    /\ Goto(Ui, "stopPlayBack")
    /\ UNCHANGED <<world, tables, players, crash, history, events, links>>

StopPlay ==
    /\ UiFree
    /\ Put(Ui, Nil) /\ Goto(Ui, "stopPlayBack")
    /\ UNCHANGED <<world, tables, players, crash, history, events, links>>

\* The timer of the playback reads the handle and uses the player.
Peek ==
    /\ UiFree /\ playback # 0
    /\ Put(Ui, [Nil EXCEPT !.p = playback]) /\ Goto(Ui, "peek")
    /\ UNCHANGED <<world, tables, players, crash, history, events, links>>

Peeked ==
    /\ At(Ui, "peek") /\ Live(loc[Ui].p) /\ Rest(Ui)
    /\ UNCHANGED <<world, tables, players, crash, history, bounds>>
-----------------------------------------------------------------------------
(* MainSdk, on the user interface's thread or on a connection's *)

\* Mutant: the last window is left out.
Uninit_OneShort ==
    /\ At(Ui, "uninit")
    /\ LET w == loc[Ui].w
       IN  IF w >= NumWin
           THEN Goto(Ui, "swap") /\ current' = 0 /\ UNCHANGED loc
           ELSE /\ IF handle[w] = 0
                   THEN Put(Ui, [loc[Ui] EXCEPT !.w = w + 1]) /\ UNCHANGED pc
                   ELSE /\ Put(Ui, [loc[Ui] EXCEPT !.p = handle[w], !.ret = "delete"])
                        /\ Goto(Ui, "close")
                /\ UNCHANGED current
    /\ UNCHANGED <<world, handle, playback, select, m_bInitPreview, polling, seen, players,
                   crash, history, bounds>>

\* UninitPreview.
Uninit ==
    /\ At(Ui, "uninit")
    /\ LET w == loc[Ui].w
       IN  IF w > NumWin
           THEN Goto(Ui, "swap") /\ current' = 0 /\ UNCHANGED loc
           ELSE /\ IF handle[w] = 0
                   THEN Put(Ui, [loc[Ui] EXCEPT !.w = w + 1]) /\ UNCHANGED pc
                   ELSE /\ Put(Ui, [loc[Ui] EXCEPT !.p = handle[w], !.ret = "delete"])
                        /\ Goto(Ui, "close")
                /\ UNCHANGED current
    /\ UNCHANGED <<world, handle, playback, select, m_bInitPreview, polling, seen, players,
                   crash, history, bounds>>

\* Mutant: the player is closed but not deleted.
Delete_Keeps ==
    LET w == loc[Ui].w
        p == handle[w]
    IN  /\ At(Ui, "delete")
        /\ IF p = 0 THEN UNCHANGED player ELSE UNCHANGED player
        /\ handle' = [handle EXCEPT ![w] = 0]
        /\ Goto(Ui, "uninit") /\ Put(Ui, [loc[Ui] EXCEPT !.w = w + 1])
        /\ UNCHANGED <<world, playback, current, select, m_bInitPreview, polling, seen, thread,
                       crash, history, bounds>>

Delete ==
    LET w == loc[Ui].w
        p == handle[w]
    IN  /\ At(Ui, "delete")
        /\ IF p = 0 THEN UNCHANGED player ELSE MayDelete(p) /\ Deletes(p)
        /\ handle' = [handle EXCEPT ![w] = 0]
        /\ Goto(Ui, "uninit") /\ Put(Ui, [loc[Ui] EXCEPT !.w = w + 1])
        /\ UNCHANGED <<world, playback, current, select, m_bInitPreview, polling, seen, thread,
                       crash, history, bounds>>

\* After stopMonitor: SetCarrriageWorker goes on, the connection timer does not.
Swap ==
    /\ At(Ui, "swap")
    /\ m_bInitPreview' = FALSE
    /\ IF loc[Ui].c = 0
       THEN Rest(Ui) /\ UNCHANGED <<select, beyond>>
       ELSE /\ select' = loc[Ui].c
            /\ beyond' = (beyond \/ loc[Ui].c \notin Carriages)
            /\ Goto(Ui, "init") /\ Put(Ui, [Nil EXCEPT !.c = loc[Ui].c, !.w = 1])
    /\ UNCHANGED <<world, handle, playback, current, polling, seen, players, crash, wrapped,
                   reinit, excused, bounds>>

\* initPreview: what the table holds is overwritten.
InitPreview(a) ==
    LET w == loc[a].w
    IN  /\ At(a, "init")
        /\ IF w > NumWin
           THEN Goto(a, IF a = Ui THEN "inited" ELSE "start") /\ UNCHANGED <<handle, player, loc>>
           ELSE /\ CMP_Init /\ handle' = [handle EXCEPT ![w] = Len(player) + 1]
                /\ Put(a, [loc[a] EXCEPT !.w = w + 1]) /\ UNCHANGED pc
        /\ UNCHANGED <<world, playback, current, select, m_bInitPreview, polling, seen, thread,
                       crash, history, bounds>>

Inited ==
    /\ At(Ui, "inited")
    /\ m_bInitPreview' = TRUE /\ Goto(Ui, "begin")
    /\ UNCHANGED <<world, handle, playback, current, select, polling, seen, players, loc, crash,
                   history, bounds>>

\* startMonitor(carriage), which does nothing for the current carriage.
Begin ==
    LET c == loc[Ui].c
    IN  /\ At(Ui, "begin")
        /\ IF current # c /\ c \in Carriages
           THEN current' = c /\ Goto(Ui, "status") /\ UNCHANGED loc
           ELSE Rest(Ui) /\ UNCHANGED current
        /\ excused' = IF current = c THEN Wins ELSE {}
        /\ UNCHANGED <<world, handle, playback, select, m_bInitPreview, polling, seen, players,
                       crash, wrapped, beyond, reinit, bounds>>

Status ==
    /\ At(Ui, "status")
    /\ IF connected[NvrOf[loc[Ui].c]]
       THEN Goto(Ui, "each") /\ Put(Ui, [loc[Ui] EXCEPT !.w = 1])
       ELSE Rest(Ui)
    /\ UNCHANGED <<world, tables, players, crash, history, bounds>>

\* One camera of the loop: a player that plays is closed before it is opened.
Each ==
    LET c == loc[Ui].c
        w == loc[Ui].w
        p == handle[w]
    IN  /\ At(Ui, "each")
        /\ IF w > Len(Pos[c]) THEN Rest(Ui)
           ELSE IF <<c, Pos[c][w]>> \notin online
                THEN Put(Ui, [loc[Ui] EXCEPT !.w = w + 1]) /\ UNCHANGED pc
                ELSE /\ p # 0 => Live(p)
                     /\ Put(Ui, [loc[Ui] EXCEPT !.p = p, !.ret = "open"])
                     /\ Goto(Ui, IF p # 0 /\ player[p].state = "PLAY" THEN "close" ELSE "open")
        /\ UNCHANGED <<world, tables, players, crash, history, bounds>>

\* The camera startMonitor finds for window w.
CamOf(c, w) == IF w <= Len(Pos[c]) THEN <<c, Pos[c][w]>> ELSE NoCam

\* CMP_OpenMediaPreview of the handle of window w.
OpenPreview(a) ==
    LET w == loc[a].w
        p == handle[w]
    IN  /\ At(a, "open")
        /\ IF p = 0 THEN UNCHANGED players
           ELSE Live(p) /\ Open(p, CamOf(loc[a].c, w), "IDLE")
        /\ IF a = Ui
           THEN Goto(Ui, "each") /\ Put(Ui, [loc[Ui] EXCEPT !.w = w + 1])
           ELSE Rest(a)
        /\ UNCHANGED <<world, tables, crash, history, bounds>>

-----------------------------------------------------------------------------
(* The playback *)

\* UninitPlayBack.
StopPlayBack(a) ==
    /\ At(a, "stopPlayBack")
    /\ IF playback = 0
       THEN Goto(a, "stopped") /\ UNCHANGED loc
       ELSE /\ Goto(a, "close")
            /\ Put(a, [loc[a] EXCEPT !.p = playback, !.ret =
                          IF loc[a].ret = "play" THEN "deletePlay" ELSE "deletePlayBack"])
    /\ UNCHANGED <<world, tables, players, crash, history, bounds>>

DeletePlayBack(a) ==
    /\ pc[a] \in {"deletePlayBack", "deletePlay"} /\ ~crash
    /\ IF playback = 0 THEN UNCHANGED player ELSE MayDelete(playback) /\ Deletes(playback)
    /\ playback' = 0
    /\ Goto(a, "stopped")
    /\ Put(a, [loc[a] EXCEPT !.ret = IF pc[a] = "deletePlay" THEN "play" ELSE "idle"])
    /\ UNCHANGED <<world, handle, current, select, m_bInitPreview, polling, seen, thread, crash,
                   history, bounds>>

\* initPlayBack, or the end of a stop.
InitPlayBack ==
    /\ At(Ui, "stopped")
    /\ IF loc[Ui].ret = "play"
       THEN CMP_Init /\ playback' = Len(player) + 1 /\ Goto(Ui, "openFile") /\ UNCHANGED loc
       ELSE Rest(Ui) /\ UNCHANGED <<player, playback>>
    /\ UNCHANGED <<world, handle, current, select, m_bInitPreview, polling, seen, thread, crash,
                   history, bounds>>

\* startPlayBack and CMP_OpenMediaFile, up to the wait for the event.
OpenFile ==
    /\ At(Ui, "openFile")
    /\ IF ~connected[NvrOf[loc[Ui].c]] \/ playback = 0
       THEN Rest(Ui) /\ UNCHANGED players
       ELSE /\ Live(playback) /\ Open(playback, File, player[playback].state)
            /\ Goto(Ui, "waitFile")
            /\ Put(Ui, [loc[Ui] EXCEPT !.p = playback, !.t = Len(thread) + 1])
    /\ UNCHANGED <<world, tables, crash, history, bounds>>

\* The thread has set the event; iPlaySecs is set in the player.
FileOpen ==
    /\ At(Ui, "waitFile") /\ thread[loc[Ui].t].at # "login" /\ Live(loc[Ui].p)
    /\ Rest(Ui)
    /\ UNCHANGED <<world, tables, players, crash, history, bounds>>

-----------------------------------------------------------------------------
(* The connection threads *)

Connect(n) ==
    /\ At(n, "idle") /\ ~connected[n] /\ n \in Range(NvrOf)
    /\ links < train.links /\ links' = links + 1
    /\ connected' = [connected EXCEPT ![n] = TRUE]
    /\ UNCHANGED <<train, online, tables, players, pc, loc, crash, history, ops, events>>

\* OFFLINE: the cameras of the NVR are marked, and nothing is stopped.
Disconnect(n) ==
    /\ At(n, "idle") /\ connected[n]
    /\ connected' = [connected EXCEPT ![n] = FALSE]
    /\ online' = {x \in online : NvrOf[x[1]] # n}
    /\ UNCHANGED <<train, tables, players, pc, loc, crash, history, bounds>>

Offline(n) ==
    /\ At(n, "idle") /\ connected[n]
    /\ \E x \in {y \in online : NvrOf[y[1]] = n} : online' = online \ {x}
    /\ UNCHANGED <<train, connected, tables, players, pc, loc, crash, history, bounds>>

Cameras == UNION {{<<c, Pos[c][i]>> : i \in DOMAIN Pos[c]} : c \in Carriages}

\* STATE_SetIpcState: a camera that was not online is told.
Online(n) ==
    /\ At(n, "idle") /\ connected[n]
    /\ events < train.events /\ events' = events + 1
    /\ \E x \in Cameras \ online :
          /\ NvrOf[x[1]] = n
          /\ online' = online \cup {x}
          /\ Put(n, [Nil EXCEPT !.c = x[1], !.pos = x[2]])
    /\ Goto(n, "told")
    /\ UNCHANGED <<train, connected, tables, players, crash, history, ops, links>>

\* IPCOnlineStatusChange.
Told(n) ==
    /\ At(n, "told")
    /\ IF loc[n].c = select /\ ~polling
       THEN Goto(n, "check") /\ UNCHANGED <<loc, excused>>
       ELSE /\ Rest(n)
            /\ excused' = IF loc[n].c = select THEN excused \cup {loc[n].pos} ELSE excused
    /\ UNCHANGED <<world, tables, players, crash, wrapped, beyond, reinit, bounds>>

Check(n) ==
    /\ At(n, "check")
    /\ IF m_bInitPreview
       THEN Goto(n, "start") /\ UNCHANGED <<loc, reinit>>
       ELSE Goto(n, "init") /\ Put(n, [loc[n] EXCEPT !.w = 1]) /\ reinit' = TRUE
    /\ UNCHANGED <<world, tables, players, crash, wrapped, beyond, excused, bounds>>

\* Mutant: the preview is not stopped before it is started.
Start_NoStop(n) ==
    LET p == handle[loc[n].pos]
    IN  /\ At(n, "start")
        /\ IF loc[n].c # current THEN Rest(n)
           ELSE /\ Put(n, [loc[n] EXCEPT !.w = loc[n].pos, !.p = p, !.ret = "stopPlayBack"])
                /\ Goto(n, "stopPlayBack")
        /\ UNCHANGED <<world, tables, players, crash, history, bounds>>

\* startMonitor(carriage, position), which begins with stopMonitor(carriage, position).
Start(n) ==
    LET p == handle[loc[n].pos]
    IN  /\ At(n, "start")
        /\ IF loc[n].c # current THEN Rest(n)
           ELSE /\ Put(n, [loc[n] EXCEPT !.w = loc[n].pos, !.p = p, !.ret = "stopPlayBack"])
                /\ Goto(n, IF p = 0 THEN "stopPlayBack" ELSE "close")
        /\ UNCHANGED <<world, tables, players, crash, history, bounds>>

Current(n) ==
    /\ At(n, "stopped")
    /\ current' = loc[n].c
    /\ IF connected[NvrOf[loc[n].c]] THEN Goto(n, "state") /\ UNCHANGED loc ELSE Rest(n)
    /\ UNCHANGED <<world, handle, playback, select, m_bInitPreview, polling, seen, players, crash,
                   history, bounds>>

\* A camera the table does not know leaves ptState as it was: either way is possible.
State(n) ==
    LET p == handle[loc[n].w]
        x == CamOf(loc[n].c, loc[n].w)
    IN  /\ At(n, "state")
        /\ \E on \in IF x = NoCam THEN BOOLEAN ELSE {x \in online} :
              IF ~on \/ p = 0 THEN Rest(n)
              ELSE /\ Live(p)
                   /\ IF player[p].state = "PLAY" THEN Rest(n)
                      ELSE Goto(n, "open") /\ UNCHANGED loc
        /\ UNCHANGED <<world, tables, players, crash, history, bounds>>
-----------------------------------------------------------------------------
\* The next step of a uses a deleted player, or deletes one a thread still works on.
Misuses(a) ==
    LET w == loc[a].w
        Dead(p) == p # 0 /\ ~Live(p)
    IN  \/ pc[a] \in {"close", "peek"} /\ Dead(loc[a].p)
        \/ pc[a] = "wait" /\ ~Running(loc[a].t) /\ Dead(loc[a].p)
        \/ pc[a] = "waitFile" /\ thread[loc[a].t].at # "login" /\ Dead(loc[a].p)
        \/ pc[a] = "delete" /\ handle[w] # 0 /\ ~MayDelete(handle[w])
        \/ pc[a] \in {"deletePlayBack", "deletePlay"} /\ playback # 0 /\ ~MayDelete(playback)
        \/ pc[a] \in {"open", "state"} /\ Dead(handle[w])
        \/ pc[a] = "each" /\ w <= Len(Pos[loc[a].c]) /\ <<loc[a].c, Pos[loc[a].c][w]>> \in online
                         /\ Dead(handle[w])
        \/ pc[a] = "openFile" /\ connected[NvrOf[loc[a].c]] /\ Dead(playback)

Misuse(a) ==
    /\ ~crash /\ Misuses(a)
    /\ crash' = TRUE
    /\ UNCHANGED <<world, tables, players, pc, loc, history, bounds>>

UiBegins ==
    \/ Click \/ Poll \/ VideoPollTimeSlots \/ Play \/ StopPlay \/ Peek
    \/ \E n \in Nvrs : ConnectTimer(n)

UiStep ==
    \/ Uninit \/ Delete \/ Swap \/ InitPreview(Ui) \/ Inited \/ Begin \/ Status \/ Each
    \/ OpenPreview(Ui) \/ StopPlayBack(Ui) \/ DeletePlayBack(Ui) \/ InitPlayBack \/ OpenFile
    \/ FileOpen \/ Peeked \/ Close(Ui) \/ Waited(Ui) \/ Misuse(Ui)

ConnStep(n) ==
    \/ Told(n) \/ Check(n) \/ InitPreview(n) \/ Start(n) \/ StopPlayBack(n) \/ DeletePlayBack(n)
    \/ Current(n) \/ State(n) \/ OpenPreview(n) \/ Close(n) \/ Waited(n) \/ Misuse(n)

FromNvr(n) == ~crash /\ ~overlap /\ (Connect(n) \/ Disconnect(n) \/ Offline(n) \/ Online(n))

PlayThread == \E t \in DOMAIN thread : Opened(t) \/ Ended(t)

Overlapping == \E a \in Actors : \E b \in Actors \ {a} : Busy(a) /\ Busy(b)

Next ==
    /\ \/ UiBegins \/ UiStep
       \/ \E n \in Nvrs : ConnStep(n) \/ FromNvr(n)
       \/ PlayThread
       \/ \E t \in DOMAIN thread : Lost(t)
    /\ overlap' = (overlap \/ Overlapping')

Spec == Init /\ [][Next]_vars

-----------------------------------------------------------------------------
(* Properties *)

Labels == {"idle", "told", "uninit", "delete", "swap", "init", "inited", "begin", "status",
           "each", "open", "stopPlayBack", "deletePlayBack", "deletePlay", "stopped", "openFile",
           "waitFile", "check", "start", "state", "close", "wait", "peek"}
States == {"IDLE", "PLAY", "STOP"}

\* The types of the variables: a handle is NULL or a player that was made.
TypeOK ==
    LET Players == 0..Len(player)
        Threads == 0..Len(thread)
    IN  /\ train \in Trains /\ connected \in [Nvrs -> BOOLEAN] /\ online \subseteq Cameras
        /\ handle \in [Wins -> Players] /\ playback \in Players
        /\ current \in {0} \cup Carriages /\ select \in 0..MaxCarriage
        /\ {m_bInitPreview, polling, crash, overlap, wrapped, beyond, reinit} \subseteq BOOLEAN
        /\ seen \in [Nvrs -> BOOLEAN]
        /\ player \in Seq([live : BOOLEAN, flag : BOOLEAN, state : States, h : Threads])
        /\ thread \in Seq([p : Players \ {0}, cam : Cameras \cup {NoCam, File},
                           at : {"login", "play", "done"}])
        /\ pc \in [Actors -> Labels]
        /\ loc \in [Actors -> [c : 0..MaxCarriage, pos : {0} \cup Wins, w : 0..(NumWin + 1), p : Players,
                              t : Threads, ret : Labels \cup {"play"}]]
        /\ excused \subseteq Wins
        /\ ops \in 0..train.ops /\ events \in 0..train.events /\ links \in 0..train.links

AtRest == \A a \in Actors : pc[a] = "idle"
InTable(p) == p = playback \/ \E w \in Wins : p = handle[w]

\* No player is used after it was deleted, and none is deleted under its own
\* thread, as long as the user interface and the connection threads do not
\* come together in MainSdk: one after the other they leave the tables right.
CrashNeedsOverlap == crash => overlap

\* A thread that still shows a camera can be stopped: its player is in a table,
\* unless two threads met or the polling went round the train, where carriage 0
\* makes the next stopMonitor return without stopping anything.
NoStray ==
    ~overlap /\ ~wrapped => \A t \in DOMAIN thread : Running(t) => InTable(thread[t].p)

\* Every player that was made and not deleted is in a table, unless a
\* connection thread has called initPreview, which overwrites the table and
\* does not set m_bInitPreview, or stopMonitor was called for no carriage.
NothingLost ==
    ~overlap /\ ~wrapped /\ ~beyond /\ ~reinit =>
        \A p \in DOMAIN player : Live(p) => InTable(p)

\* At rest a window shows a camera of the selected carriage, the window's own,
\* in one picture: no thread of an older carriage goes on in a window.
RightPicture ==
    ~overlap /\ AtRest /\ select # 0 =>
        \A w \in Wins : \A t \in DOMAIN thread :
            Running(t) /\ thread[t].p = handle[w] =>
                /\ select \in Carriages /\ thread[t].cam = CamOf(select, w)
                /\ \A u \in DOMAIN thread : Running(u) /\ thread[u].p = handle[w] => u = t

\* At rest every online camera of the selected carriage is shown in its window
\* once the user interface knows of the connection.  Three cases are excused:
\* the loss of another NVR stopped all previews; a camera that came back while
\* polling was on waits for the carriage's next turn; and polling went on from
\* the end of the train and the user chose the last carriage shown, which still
\* counts as the current one and is not started anew.  A camera must have
\* the window of its position, or startMonitor(carriage, position) misses it.
Shown ==
    ~overlap /\ AtRest /\ select \in Carriages =>
        LET n == NvrOf[select]
        IN  connected[n] /\ seen[n] =>
              \A w \in DOMAIN Pos[select] \ excused :
                 Pos[select][w] = w /\ <<select, w>> \in online =>
                    \E t \in DOMAIN thread : Running(t) /\ thread[t].p = handle[w]

\* Who waits in CMP_CloseMedia, without limit, waits for a thread that will end:
\* its flag is down or it plays a file, and it was not started anew meanwhile.
WaitEnds ==
    ~overlap => \A a \in Actors : pc[a] = "wait" /\ Running(loc[a].t) =>
        LET t == thread[loc[a].t]
        IN  t.p = loc[a].p /\ (~player[t.p].flag \/ t.cam = File)

-----------------------------------------------------------------------------
(* The inductive invariant *)

\* Where an actor may be, and what its local variables hold there.
InMedia == {"close", "wait"}
Closing(a, rets) == pc[a] \in InMedia /\ loc[a].ret \in rets
ConnPlaces == {"stopPlayBack", "deletePlayBack", "stopped", "state", "open"}
ConnLabels == {"idle", "told", "check", "init", "start"} \cup InMedia \cup ConnPlaces
UiLabels == Labels \ {"told", "check", "start", "state"}

ConnLocal(n) ==
    /\ pc[n] \in ConnLabels
    /\ pc[n] # "idle" =>
          /\ connected[n] /\ loc[n].c \in Carriages /\ NvrOf[loc[n].c] = n /\ loc[n].pos \in Wins
    /\ pc[n] = "init" => loc[n].w > 0
    /\ pc[n] \in InMedia \cup ConnPlaces => loc[n].w = loc[n].pos
    /\ pc[n] \in InMedia => loc[n].ret \in {"stopPlayBack", "deletePlayBack"}
    /\ pc[n] = "stopPlayBack" => loc[n].ret # "play"

UiLocal ==
    LET l == loc[Ui]
        at == pc[Ui]
    IN  /\ at \in UiLabels
        /\ at \in InMedia => l.ret \in {"delete", "open", "deletePlayBack", "deletePlay"}
        /\ at \in {"uninit", "init", "each"} => l.w > 0
        /\ at = "delete" \/ Closing(Ui, {"delete"}) => l.w \in Wins
        /\ at \in {"init", "inited", "begin"} => l.c > 0
        /\ at \in {"status", "each"} => l.c \in Carriages
        /\ at = "open" \/ Closing(Ui, {"open"}) => l.c \in Carriages /\ l.w \in DOMAIN Pos[l.c]
        /\ \/ at \in {"stopPlayBack", "stopped"} /\ l.ret = "play"
           \/ at \in {"deletePlay", "openFile"} \/ Closing(Ui, {"deletePlay"})
           => l.c \in Carriages

Local ==
    /\ UiLocal /\ \A n \in Nvrs : ConnLocal(n)
    /\ \A a \in Actors : pc[a] \in InMedia \cup {"peek", "waitFile"} => loc[a].p # 0
    /\ \A a \in Actors : pc[a] \in {"wait", "waitFile"} => loc[a].t # 0

\* The cameras of an NVR that is not connected are not online.
OnlineConnected == \A x \in online : connected[NvrOf[x[1]]]

One == \A a, b \in Actors : Busy(a) /\ Busy(b) => a = b

\* A player is in one place of the tables, and not deleted.
Tables ==
    /\ \A v, w \in Wins : handle[v] = handle[w] /\ handle[v] # 0 => v = w
    /\ \A w \in Wins : handle[w] # 0 => Live(handle[w]) /\ handle[w] # playback
    /\ playback # 0 => Live(playback)

\* A thread that runs is the one its player knows of; one that shows a camera
\* is not told to end but by the actor that waits for it.
Threads ==
    /\ \A t \in DOMAIN thread : Running(t) => player[thread[t].p].h = t
    /\ \A p \in DOMAIN player : player[p].h # 0 => thread[player[p].h].p = p
    /\ \A t \in DOMAIN thread : \A w \in Wins :
          Running(t) /\ thread[t].p = handle[w] =>
              player[handle[w]].flag \/ \E a \in Actors : pc[a] = "wait" /\ loc[a].p = handle[w]

Still(p) == player[p].h = 0 /\ player[p].state # "PLAY"
New(w) == handle[w] # 0 /\ Still(handle[w])
Shows(w) == \E t \in DOMAIN thread : Running(t) /\ thread[t].p = handle[w]

\* What a busy actor relies on: in CMP_CloseMedia and around it, ...
Work(a) ==
    /\ Closing(a, {"delete", "open", "stopPlayBack"}) => loc[a].p = handle[loc[a].w]
    /\ Closing(a, {"deletePlayBack", "deletePlay"}) => loc[a].p = playback
    /\ pc[a] = "wait" => player[loc[a].p].h = loc[a].t /\ ~player[loc[a].p].flag
    /\ pc[a] \in {"deletePlayBack", "deletePlay"} => playback # 0 /\ player[playback].h = 0
    /\ pc[a] = "stopped" => playback = 0

\* ... on the user interface's thread, ...
Clearing == pc[Ui] \in {"uninit", "delete"} \/ Closing(Ui, {"delete"})
UiWork ==
    LET l == loc[Ui]
        at == pc[Ui]
    IN  /\ ~Closing(Ui, {"open"})
        /\ Clearing => \A v \in Wins : v < l.w => handle[v] = 0
        /\ at = "delete" => handle[l.w] # 0 /\ player[handle[l.w]].h = 0
        /\ at = "swap" => current = 0 \/ select \notin Carriages
        /\ at = "init" => \A v \in Wins : v < l.w => New(v)
        /\ at \in {"inited", "begin", "status"} => \A v \in Wins : New(v)
        /\ at \in {"each", "open"} => \A v \in Wins : handle[v] # 0 /\ (v >= l.w => New(v))
        /\ at \in {"init", "inited", "begin", "status", "each", "open"} => l.c = select
        /\ at \in {"begin", "status", "each", "open"} => m_bInitPreview
        /\ at \in {"status", "each", "open"} => current = l.c
        /\ at \in {"init", "inited", "begin"} => (l.c \in Carriages \/ beyond) /\ (wrapped \/ current = 0)
        /\ at = "openFile" => playback # 0 /\ player[playback].h = 0
        /\ at \in {"peek", "waitFile"} => l.p = playback

\* ... and on a connection's.
ConnWork(n) ==
    /\ Busy(n) => select \in {0, loc[n].c}
    /\ pc[n] \in {"check", "init", "start"} => m_bInitPreview \/ current = 0
    /\ pc[n] = "init" => ~m_bInitPreview /\ reinit
    /\ pc[n] \in InMedia \cup ConnPlaces => current = loc[n].c /\ m_bInitPreview
    /\ pc[n] \in ConnPlaces \/ Closing(n, {"deletePlayBack"}) =>
          handle[loc[n].w] = 0 \/ Still(handle[loc[n].w])

\* What the windows show is of the current carriage, and that is the selected one.
Preparing == pc[Ui] \in {"init", "inited", "begin"}
Carriage ==
    /\ \A w \in Wins : \A t \in DOMAIN thread :
          Running(t) /\ thread[t].p = handle[w] =>
              /\ current \in Carriages /\ thread[t].cam = CamOf(current, w)
              /\ current = select \/ select = 0 \/ pc[Ui] = "init"
    /\ ~wrapped /\ current # 0 => current = select
    /\ ~m_bInitPreview => current = 0 \/ select \notin Carriages \/ Preparing

\* Nothing is in the windows while there is no current carriage.
Emptied ==
    ~wrapped /\ ~beyond /\ ~reinit =>
        \A w \in Wins :
            \/ current = 0 /\ ~Preparing
            \/ pc[Ui] = "init" /\ w >= loc[Ui].w
            => handle[w] = 0

\* The user interface goes over to another carriage, or stops the previews.
Switching == Clearing \/ pc[Ui] \in {"swap", "init", "inited", "begin", "status"}
Watched == select \in Carriages /\ seen[NvrOf[select]] /\ excused # Wins
Pending(n, w) == pc[n] # "idle" /\ loc[n].c = select /\ loc[n].pos = w
ToShow(w) ==
    /\ w \in DOMAIN Pos[select] \ excused /\ Pos[select][w] = w /\ <<select, w>> \in online
    /\ pc[Ui] \in {"each", "open"} => w < loc[Ui].w

\* What is still to be shown: a connection's thread is at it.
Showing ==
    /\ Watched /\ ~Switching => current = select /\ m_bInitPreview /\ \A w \in Wins : handle[w] # 0
    /\ Watched /\ Switching => loc[Ui].c # 0
    /\ Watched /\ ~Switching =>
          \A w \in Wins : ToShow(w) => Shows(w) \/ Pending(NvrOf[select], w)

Alone ==
    /\ One /\ Tables /\ Threads
    /\ UiWork /\ \A a \in Actors : Work(a)
    /\ \A n \in Nvrs : ConnWork(n)
    /\ Carriage /\ NoStray /\ Emptied /\ NothingLost /\ Showing

\* The tables hold players that were made, and none of them is used after it was
\* deleted unless two threads met; what the actors rely on until then holds.
Inv ==
    /\ TypeOK /\ Local /\ OnlineConnected /\ (select = 0 => wrapped)
    /\ CrashNeedsOverlap
    /\ ~overlap => Alone
=============================================================================
