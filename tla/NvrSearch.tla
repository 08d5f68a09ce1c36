----------------------------- MODULE NvrSearch -----------------------------
(***************************************************************************)
(* The search for recorded files.  A click (UserMonitor.cpp,               *)
(* on_pushButtonStartQuery_clicked) asks the NVR of a carriage for the     *)
(* files of one camera after the other.  PmsgProc (NVRMsgProc.cxx) puts    *)
(* the answers into the file queue on the connection's thread.  Nothing    *)
(* marks the last answer: the next message of another kind, of any NVR, is *)
(* taken for the end and runs SearchFileOver on the thread it came on; a   *)
(* timer of the user interface runs SearchFileTimerSlots every 15 seconds. *)
(* Both take the answers out of the queue, ask for the next camera, or     *)
(* show the list.                                                          *)
(*                                                                         *)
(* Reads and writes of the shared list in GetNodeFromCmdQueue are made one *)
(* at a time, as the source has them.  What the file names look like is    *)
(* in FileNames.                                                           *)
(***************************************************************************)
EXTENDS Integers, Sequences, SequencesExt, FiniteSets

CONSTANTS
    Nvr,        \* the NVRs
    SearchNvr,  \* the one of the carriage that is searched
    Cams,       \* the cameras of the carriage, in order
    Answers,    \* Answers[c]: how many answers with files the NVR has for camera c
    MaxOther,   \* bound: messages of other kinds, losses of the connection included
    MaxQuery    \* bound: clicks

ASSUME SearchAssumption ==
    /\ SearchNvr \in Nvr /\ Nvr \subseteq Nat \ {0}
    /\ Cams \in Seq(Nat \ {0}) /\ Cams # <<>> /\ IsInjective(Cams)
    /\ Answers \in [Range(Cams) -> Nat]
    /\ MaxOther \in Nat /\ MaxQuery \in Nat

VARIABLES
    up,         \* NVR_GetConnectStatus of SearchNvr
    flight,     \* the answers SearchNvr still has to give or that are on their way
    g_eFileSearch, g_bSearchDataReturn,
    queue,      \* ptFileQueue from ptFirst on
    dangling,   \* ptLast is a node that was unlinked
    iPktCount,
    freed,      \* nodes that were freed while another thread held them
    timer,      \* m_pSearchTimer is active
    iWaitCnt,
    left,       \* m_iSelSearchCameraIndexs
    cam,        \* m_iSearchCameraIndex
    list,       \* m_aSearchFileList
    shown,      \* the rows of tableWidgetFileList
    pc, loc,    \* where a thread is, and its local variables
    crash,      \* the program has used a null or freed pointer or an index out of range
    \* history
    want,       \* the cameras of the last query that was sent
    overlap,    \* a thread began to end or start a search while another was at it
    cut,        \* cameras with answers due when their search ended, or at a new click
    others, queries

shared == <<g_eFileSearch, g_bSearchDataReturn>>
fileQueue == <<queue, dangling, iPktCount, freed>>
search == <<timer, iWaitCnt, left, cam>>
result == <<list, shown>>
ghosts == <<want, overlap, cut>>
bounds == <<others, queries>>
vars == <<up, flight, shared, fileQueue, search, result, pc, loc, crash, ghosts, bounds>>

Ui == 0
Threads == Nvr \cup {Ui}
NoNode == [cam |-> 0, query |-> 0, nr |-> 0]
Nil == [left |-> 0, node |-> NoNode, cnt |-> 0, cam |-> 0]

Init ==
    /\ up = TRUE /\ flight = <<>>
    /\ g_eFileSearch = "IDLE" /\ g_bSearchDataReturn = FALSE
    /\ queue = <<>> /\ dangling = FALSE /\ iPktCount = 0 /\ freed = {}
    /\ timer = FALSE /\ iWaitCnt = 0 /\ left = <<>> /\ cam = 0
    /\ list = <<>> /\ shown = <<>>
    /\ pc = [f \in Threads |-> "idle"]
    /\ loc = [f \in Threads |-> Nil]
    /\ crash = FALSE
    /\ want = {} /\ overlap = FALSE /\ cut = {}
    /\ others = 0 /\ queries = 0

Goto(f, label) == pc' = [pc EXCEPT ![f] = label]
At(f, label) == pc[f] = label /\ ~crash
Busy(f) == pc[f] \notin {"idle", "accept", "other", "end"}

\* f begins to end or to start a search while another thread is at it.
Meets(f) == overlap' = (overlap \/ \E g \in Threads \ {f} : Busy(g))

Held(f) == {loc[g].node : g \in {h \in Threads \ {f} : pc[h] \in {"unlink", "last", "take"}}}

\* The cameras an answer is still due for.
Due == {flight[i].cam : i \in 1..Len(flight)}
         \cup {loc[n].node.cam : n \in {m \in Nvr : pc[m] = "accept"}}
Cut == cut' = cut \cup Due

-----------------------------------------------------------------------------
(* The click, and searchFile, which every end of a camera's search calls too *)

Query ==
    /\ At(Ui, "idle") /\ ~timer /\ queries < MaxQuery
    /\ \/ /\ \E c \in Range(Cams) : cam' = c /\ want' = {c}
          /\ left' = <<>>
       \/ /\ cam' = Cams[1] /\ want' = Range(Cams)
          /\ left' = Reverse(Tail(Cams))
    /\ queries' = queries + 1
    /\ Meets(Ui) /\ Cut
    /\ Goto(Ui, "searching")
    /\ UNCHANGED <<up, flight, shared, fileQueue, timer, iWaitCnt, result, loc, crash, others>>

Searching(f) ==
    /\ At(f, "searching")
    /\ g_eFileSearch' = "SEARCHING"
    /\ Goto(f, "clean")
    /\ UNCHANGED <<up, flight, g_bSearchDataReturn, fileQueue, search, result, loc, crash, ghosts, bounds>>

\* NVR_CleanFileInfo.
Clean(f) ==
    /\ At(f, "clean")
    /\ queue' = <<>> /\ dangling' = FALSE /\ iPktCount' = 0
    /\ freed' = freed \cup (Range(queue) \cap Held(f))
    /\ Goto(f, "send")
    /\ UNCHANGED <<up, flight, shared, search, result, loc, crash, ghosts, bounds>>

\* What the NVR answers: messages with files, or one without.
Reply(c) ==
    IF Answers[c] = 0 THEN <<[cam |-> c, query |-> queries, nr |-> 0]>>
    ELSE [i \in 1..Answers[c] |-> [cam |-> c, query |-> queries, nr |-> i]]

\* After the click's own search nothing is left over from a queue.
Clicked(f) == f = Ui /\ loc[f].left = 0
Rest(f) == loc' = [loc EXCEPT ![f] = Nil]

Send(f) ==
    /\ At(f, "send") /\ up
    /\ flight' = flight \o Reply(cam)
    /\ Goto(f, IF Clicked(f) THEN "started" ELSE "idle") /\ Rest(f)
    /\ UNCHANGED <<up, shared, fileQueue, search, result, crash, ghosts, bounds>>

\* NVR_SendCmdInfo fails: only the click looks at the result.
SendFails(f) ==
    /\ At(f, "send") /\ ~up
    /\ cut' = cut \cup {cam}
    /\ Goto(f, "idle") /\ Rest(f)
    /\ UNCHANGED <<up, flight, shared, fileQueue, search, result, crash, want, overlap, bounds>>

\* Mutant: the list of the last search is kept.
Started_KeepsList ==
    /\ At(Ui, "started")
    /\ shown' = <<>>
    /\ timer' = TRUE
    /\ Goto(Ui, "idle")
    /\ UNCHANGED <<up, flight, shared, fileQueue, iWaitCnt, left, cam, list, loc, crash, ghosts, bounds>>

\* The click has sent its request.
Started ==
    /\ At(Ui, "started")
    /\ list' = <<>> /\ shown' = <<>>
    /\ timer' = TRUE
    /\ Goto(Ui, "idle")
    /\ UNCHANGED <<up, flight, shared, fileQueue, iWaitCnt, left, cam, loc, crash, ghosts, bounds>>

SearchFile(f) == Searching(f) \/ Clean(f) \/ Send(f) \/ SendFails(f)

-----------------------------------------------------------------------------
(* PmsgProc on the thread of a connection *)

\* GET_RECORD_FILE_RESP: the state is looked at first.
Answer ==
    /\ At(SearchNvr, "idle") /\ flight # <<>>
    /\ flight' = Tail(flight)
    /\ IF g_eFileSearch = "SEARCHING"
       THEN /\ Goto(SearchNvr, "accept")
            /\ loc' = [loc EXCEPT ![SearchNvr].node = Head(flight)]
       ELSE UNCHANGED <<pc, loc>>
    /\ UNCHANGED <<up, shared, fileQueue, search, result, crash, ghosts, bounds>>

\* PutNodeToCmdQueue links the node behind ptLast, whatever that is.
Accept ==
    /\ At(SearchNvr, "accept")
    /\ g_bSearchDataReturn' = TRUE
    /\ LET node == loc[SearchNvr].node  data == node.nr > 0 IN
       /\ queue' = IF data /\ ~dangling THEN Append(queue, node) ELSE queue
       /\ iPktCount' = IF data THEN iPktCount + 1 ELSE iPktCount
    /\ Goto(SearchNvr, "idle") /\ Rest(SearchNvr)
    /\ UNCHANGED <<up, flight, g_eFileSearch, dangling, freed, search, result, crash, ghosts, bounds>>

\* Any other message; OFFLINE and ONLINE are two of them.
Other(n) ==
    /\ At(n, "idle") /\ others < MaxOther
    /\ others' = others + 1
    /\ Goto(n, "other")
    /\ UNCHANGED <<up, flight, shared, fileQueue, search, result, loc, crash, ghosts, queries>>

Offline ==
    /\ At(SearchNvr, "idle") /\ up /\ others < MaxOther
    /\ up' = FALSE /\ flight' = <<>>
    /\ Cut
    /\ others' = others + 1
    /\ Goto(SearchNvr, "other")
    /\ UNCHANGED <<shared, fileQueue, search, result, loc, crash, want, overlap, queries>>

Online ==
    /\ At(SearchNvr, "idle") /\ ~up
    /\ up' = TRUE
    /\ Goto(SearchNvr, "other")
    /\ UNCHANGED <<flight, shared, fileQueue, search, result, loc, crash, ghosts, bounds>>

\* The last lines of PmsgProc.
OtherMessage(n) ==
    /\ At(n, "other")
    /\ Goto(n, IF g_bSearchDataReturn THEN "end" ELSE "idle")
    /\ UNCHANGED <<up, flight, shared, fileQueue, search, result, loc, crash, ghosts, bounds>>

\* STATE_SetFileSearchState(E_FILE_IDLE, 1) calls SearchOver.
End(n) ==
    /\ At(n, "end")
    /\ g_bSearchDataReturn' = FALSE
    /\ g_eFileSearch' = "IDLE"
    /\ Cut /\ Meets(n)
    /\ Goto(n, "over")
    /\ UNCHANGED <<up, flight, fileQueue, search, result, loc, crash, want, bounds>>

-----------------------------------------------------------------------------
(* SearchFileOver on thread n, SearchFileTimerSlots on thread Ui *)

Tick ==
    /\ At(Ui, "idle") /\ timer
    /\ Meets(Ui)
    /\ Goto(Ui, "over")
    /\ UNCHANGED <<up, flight, shared, fileQueue, search, result, loc, crash, want, cut, bounds>>

\* Mutant: the files are listed under the camera that comes next.
Begin_NextCamera(f) ==
    /\ At(f, "over") /\ iPktCount >= 0
    /\ timer' = (timer /\ left # <<>>)
    /\ g_eFileSearch' = "IDLE"
    /\ loc' = [loc EXCEPT ![f].left = Len(left), ![f].cam = IF left = <<>> THEN cam ELSE Last(left)]
    /\ Cut
    /\ Goto(f, "look")
    /\ UNCHANGED <<up, flight, g_bSearchDataReturn, fileQueue, iWaitCnt, left, cam, result, crash, want, overlap, bounds>>

Begin(f) ==
    /\ At(f, "over") /\ iPktCount >= 0
    /\ timer' = (timer /\ left # <<>>)
    /\ g_eFileSearch' = "IDLE"
    /\ loc' = [loc EXCEPT ![f].left = Len(left), ![f].cam = cam]
    /\ Cut
    /\ Goto(f, "look")
    /\ UNCHANGED <<up, flight, g_bSearchDataReturn, fileQueue, iWaitCnt, left, cam, result, crash, want, overlap, bounds>>

\* A negative count is taken for an NVR that is not there; SearchFileOver then ends the
\* search, if it was the last camera's, without reading the queue.
NegativeOver(n) ==
    /\ At(n, "over") /\ n # Ui /\ iPktCount < 0
    /\ IF left = <<>> THEN timer' = FALSE /\ g_eFileSearch' = "IDLE" ELSE UNCHANGED <<timer, g_eFileSearch>>
    /\ Cut
    /\ Goto(n, "idle")
    /\ UNCHANGED <<up, flight, g_bSearchDataReturn, fileQueue, iWaitCnt, left, cam, result, loc, crash, want, overlap, bounds>>

\* SearchFileTimerSlots waits for one more tick.
NegativeTick ==
    /\ At(Ui, "over") /\ iPktCount < 0
    /\ iWaitCnt' = IF iWaitCnt = 0 THEN 1 ELSE 0
    /\ IF iWaitCnt = 0 THEN Goto(Ui, "idle") /\ UNCHANGED <<timer, g_eFileSearch, shown, loc, cut>>
       ELSE /\ Cut
            /\ IF left = <<>>
               THEN /\ timer' = FALSE /\ g_eFileSearch' = "IDLE"
                    /\ shown' = IF list = <<>> THEN shown ELSE list
                    /\ Goto(Ui, "idle") /\ UNCHANGED loc
               ELSE /\ loc' = [loc EXCEPT ![Ui].left = Len(left)]
                    /\ Goto(Ui, "pop") /\ UNCHANGED <<timer, g_eFileSearch, shown>>
    /\ UNCHANGED <<up, flight, g_bSearchDataReturn, fileQueue, left, cam, list, crash, want, overlap, bounds>>

\* Mutant: off by one, the last camera has a successor.
Look_OffByOne(f) ==
    /\ At(f, "look")
    /\ Goto(f, IF queue # <<>> THEN "read" ELSE IF loc[f].left >= 0 THEN "pop" ELSE "finish")
    /\ UNCHANGED <<up, flight, shared, fileQueue, search, result, loc, crash, ghosts, bounds>>

\* GetNodeFromCmdQueue looks under the mutex, ...
Look(f) ==
    /\ At(f, "look")
    /\ Goto(f, IF queue # <<>> THEN "read" ELSE IF loc[f].left > 0 THEN "pop" ELSE "finish")
    /\ UNCHANGED <<up, flight, shared, fileQueue, search, result, loc, crash, ghosts, bounds>>

\* ... and takes the first node without it.
Read(f) ==
    /\ At(f, "read")
    /\ IF queue = <<>> THEN crash' = TRUE /\ UNCHANGED <<pc, loc>>
       ELSE /\ loc' = [loc EXCEPT ![f].node = Head(queue)]
            /\ Goto(f, "unlink") /\ UNCHANGED crash
    /\ UNCHANGED <<up, flight, shared, fileQueue, search, result, ghosts, bounds>>

Unlink(f) ==
    /\ At(f, "unlink")
    /\ IF queue = <<>> THEN crash' = TRUE /\ UNCHANGED <<pc, queue, dangling>>
       ELSE /\ queue' = Tail(queue)
            /\ dangling' = (Len(queue) = 1)
            /\ Goto(f, "last") /\ UNCHANGED crash
    /\ UNCHANGED <<up, flight, shared, iPktCount, freed, search, result, loc, ghosts, bounds>>

\* ptLast = NULL if ptFirst is; iPktCount is read to be decremented.
LastNode(f) ==
    /\ At(f, "last")
    /\ dangling' = FALSE
    /\ loc' = [loc EXCEPT ![f].cnt = iPktCount]
    /\ Goto(f, "take")
    /\ UNCHANGED <<up, flight, shared, queue, iPktCount, freed, search, result, crash, ghosts, bounds>>

\* The node is counted off, copied and freed, and its files are listed under the camera of
\* the search.
Take(f) ==
    /\ At(f, "take")
    /\ iPktCount' = loc[f].cnt - 1
    /\ LET node == loc[f].node IN
       IF node \in freed THEN crash' = TRUE /\ UNCHANGED <<list, freed>>
       ELSE /\ list' = Append(list, [cam |-> loc[f].cam, file |-> node])
            /\ freed' = freed \cup ({node} \cap Held(f)) /\ UNCHANGED crash
    /\ loc' = [loc EXCEPT ![f].node = NoNode, ![f].cnt = 0]
    /\ Goto(f, "look")
    /\ UNCHANGED <<up, flight, shared, queue, dangling, search, shown, ghosts, bounds>>

\* Mutant: pop_back is missing.
Pop_Keeps(f) ==
    /\ At(f, "pop")
    /\ IF left = <<>> THEN crash' = TRUE /\ UNCHANGED <<pc, cam>>
       ELSE /\ cam' = Last(left)
            /\ Goto(f, "searching") /\ UNCHANGED crash
    /\ UNCHANGED <<up, flight, shared, fileQueue, timer, iWaitCnt, left, result, loc, ghosts, bounds>>

\* at() throws when another thread has taken the last camera.
Pop(f) ==
    /\ At(f, "pop")
    /\ IF left = <<>> THEN crash' = TRUE /\ UNCHANGED <<pc, left, cam>>
       ELSE /\ cam' = Last(left) /\ left' = Front(left)
            /\ Goto(f, "searching") /\ UNCHANGED crash
    /\ UNCHANGED <<up, flight, shared, fileQueue, timer, iWaitCnt, result, loc, ghosts, bounds>>

\* The last camera: updateSearchFile, if there is anything to show.
Finish(f) ==
    /\ At(f, "finish")
    /\ shown' = IF list = <<>> THEN shown ELSE list
    /\ timer' = FALSE /\ g_eFileSearch' = "IDLE"
    /\ Goto(f, "idle") /\ Rest(f)
    /\ UNCHANGED <<up, flight, g_bSearchDataReturn, fileQueue, iWaitCnt, left, cam, list, crash, ghosts, bounds>>

Ending(f) ==
    \/ Begin(f) \/ NegativeOver(f)
    \/ Look(f) \/ Read(f) \/ Unlink(f) \/ LastNode(f) \/ Take(f) \/ Pop(f) \/ Finish(f)

-----------------------------------------------------------------------------

Step(f) ==
    \/ SearchFile(f) \/ Ending(f)
    \/ f = Ui /\ (Started \/ NegativeTick)
    \/ f = SearchNvr /\ (Answer \/ Accept)
    \/ f \in Nvr /\ (OtherMessage(f) \/ End(f))

Next ==
    \/ Query \/ Tick \/ Offline \/ Online
    \/ \E n \in Nvr : Other(n)
    \/ \E f \in Threads : Step(f)

\* Threads run, and the timer ticks as long as it is active.
Fairness == WF_vars(Tick) /\ \A f \in Threads : WF_vars(Step(f))

Spec == Init /\ [][Next]_vars /\ Fairness

-----------------------------------------------------------------------------
(* Properties *)

Node == [cam : Nat, query : Nat, nr : Nat]

\* The variables have their types.
TypeOK ==
    /\ up \in BOOLEAN /\ flight \in Seq(Node)
    /\ g_eFileSearch \in {"IDLE", "SEARCHING"} /\ g_bSearchDataReturn \in BOOLEAN
    /\ queue \in Seq(Node) /\ dangling \in BOOLEAN /\ iPktCount \in Int /\ freed \subseteq Node
    /\ timer \in BOOLEAN /\ iWaitCnt \in {0, 1} /\ left \in Seq(Nat) /\ cam \in Nat
    /\ list \in Seq([cam : Nat, file : Node]) /\ shown \in Seq([cam : Nat, file : Node])
    /\ crash \in BOOLEAN

\* A null or freed node, or a camera that is not there, is used only after two threads were
\* at the queue and the list of cameras at once: the timer's and a connection's, or those of
\* two connections that both saw g_bSearchDataReturn set.
CrashNeedsOverlap == crash => overlap

\* The variables have their types, and nothing breaks without an overlap of two threads.
Inv == TypeOK /\ CrashNeedsOverlap

\* A file is listed under a camera it is not of only if answers of its own camera were still
\* due when a search ended (by a foreign message, a tick, a loss) or when the user clicked
\* again: the nodes carry no name of the request they answer.
RightCamera ==
    ~overlap => \A i \in 1..Len(list) :
        list[i].cam # list[i].file.cam => list[i].file.cam \in cut

\* When a search is over, the table has every file of the cameras asked for, once, unless
\* the search of one of them was ended early.
Over == queries > 0 /\ ~timer /\ \A f \in Threads : pc[f] = "idle"
Expected == UNION {{[cam |-> c, file |-> [cam |-> c, query |-> queries, nr |-> i]] : i \in 1..Answers[c]}
                     : c \in want}
Complete ==
    Over /\ ~overlap /\ cut = {} =>
        Range(shown) = Expected /\ Len(shown) = Cardinality(Expected)

\* A search that was started ends, whatever the NVRs send or do not send.
Ends == timer ~> ~timer \/ crash
=============================================================================
