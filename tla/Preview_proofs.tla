--------------------------- MODULE Preview_proofs ---------------------------
(***************************************************************************)
(* What Preview promises, proved for any train, any number of windows, and *)
(* any number of operations, events and connections.                       *)
(***************************************************************************)
EXTENDS Preview, SequenceTheorems, TLAPS

\* The carriages of a train, their NVRs and their windows.
LEMMA TrainFacts ==
    ASSUME train \in Trains
    PROVE  /\ NumWin \in Nat /\ 1 <= NumWin /\ MaxCarriage \in Nat /\ 1 <= MaxCarriage
           /\ Carriages \subseteq 1..MaxCarriage /\ 1 \in Carriages
           /\ \A c \in Carriages : /\ NvrOf[c] \in Nvrs /\ Pos[c] \in Seq(Wins)
                                   /\ DOMAIN Pos[c] = 1..Len(Pos[c]) /\ Len(Pos[c]) <= NumWin
                                   /\ DOMAIN Pos[c] \subseteq Wins
           /\ Ui \notin Nvrs /\ Ui \in Actors /\ Nvrs \subseteq Actors /\ Nvrs \subseteq Nat
           /\ 0 \notin Carriages
<1>1. PICK k \in 1..MaxCarriage : train.nvrOf \in [1..k -> Nvrs] /\ DOMAIN train.pos = 1..k
  BY PreviewAssumption
<1>2. /\ NumNvr \in Nat \ {0} /\ NumWin \in Nat \ {0} /\ MaxCarriage \in Nat \ {0}
      /\ \A c \in DOMAIN train.pos : train.pos[c] \in Seq(Wins) /\ Len(train.pos[c]) <= NumWin
  BY PreviewAssumption
<1>3. Carriages = 1..k
  BY <1>1 DEF Carriages, NvrOf
<1>4. ASSUME NEW c \in Carriages
      PROVE  /\ NvrOf[c] \in Nvrs /\ Pos[c] \in Seq(Wins)
             /\ DOMAIN Pos[c] = 1..Len(Pos[c]) /\ Len(Pos[c]) <= NumWin
             /\ DOMAIN Pos[c] \subseteq Wins
  <2>1. NvrOf[c] \in Nvrs /\ Pos[c] \in Seq(Wins) /\ Len(Pos[c]) <= NumWin
    BY <1>1, <1>2, <1>3, <1>4 DEF NvrOf, Pos
  <2>2. Len(Pos[c]) \in Nat /\ DOMAIN Pos[c] = 1..Len(Pos[c])
    BY <2>1
  <2>. QED
    BY <1>2, <2>1, <2>2 DEF Wins
<1>. QED
  BY <1>1, <1>2, <1>3, <1>4 DEF Nvrs, Ui, Actors

\* What startMonitor finds for a window is a camera of the carriage or none, and no file.
LEMMA CamFacts ==
    ASSUME train \in Trains, NEW c \in Carriages, NEW w \in Wins
    PROVE  CamOf(c, w) \in Cameras \cup {NoCam} /\ CamOf(c, w) # File
<1>1. c # 0 /\ w \in Nat /\ w >= 1 /\ DOMAIN Pos[c] = 1..Len(Pos[c]) /\ Len(Pos[c]) \in Nat
  BY TrainFacts DEF Wins
<1>2. <<c, Pos[c][w]>> # File /\ NoCam # File
  BY <1>1 DEF File, NoCam
<1>3. w <= Len(Pos[c]) => <<c, Pos[c][w]>> \in Cameras
  <2>1. w <= Len(Pos[c]) => w \in DOMAIN Pos[c]
    BY <1>1
  <2>. QED
    BY <2>1 DEF Cameras
<1>. QED
  BY <1>2, <1>3 DEF CamOf

\* The types of the tables of players and threads, one by one.
Player == [live : BOOLEAN, flag : BOOLEAN, state : States, h : 0..Len(thread)]
Thread == [p : (0..Len(player)) \ {0}, cam : Cameras \cup {NoCam, File},
           at : {"login", "play", "done"}]
Loc == [c : 0..MaxCarriage, pos : {0} \cup Wins, w : 0..(NumWin + 1), p : 0..Len(player),
        t : 0..Len(thread), ret : Labels \cup {"play"}]

\* The numbers of players and threads.
LEMMA Numbers ==
    ASSUME TypeOK
    PROVE  /\ train \in Trains
           /\ Len(player) \in Nat /\ DOMAIN player = 1..Len(player)
           /\ Len(thread) \in Nat /\ DOMAIN thread = 1..Len(thread)
           /\ \A p \in DOMAIN player : player[p] \in Player
           /\ \A t \in DOMAIN thread : thread[t] \in Thread /\ thread[t].p \in DOMAIN player
           /\ \A a \in Actors : loc[a] \in Loc /\ pc[a] \in Labels
           /\ player \in Seq(Player) /\ thread \in Seq(Thread) /\ loc \in [Actors -> Loc]
<1>1. player \in Seq(Player) /\ thread \in Seq(Thread)
  BY DEF TypeOK, Player, Thread
<1>2. /\ Len(player) \in Nat /\ DOMAIN player = 1..Len(player)
      /\ Len(thread) \in Nat /\ DOMAIN thread = 1..Len(thread)
  BY <1>1
<1>3. \A p \in DOMAIN player : player[p] \in Player
  BY <1>1
<1>4. \A t \in DOMAIN thread : thread[t] \in Thread
  BY <1>1
<1>5. \A t \in DOMAIN thread : thread[t].p \in DOMAIN player
  BY <1>2, <1>4 DEF Thread
<1>6. loc \in [Actors -> Loc] /\ pc \in [Actors -> Labels] /\ train \in Trains
  BY DEF TypeOK, Loc
<1>. QED
  BY <1>1, <1>2, <1>3, <1>4, <1>5, <1>6

LEMMA NilLoc ==
    ASSUME TypeOK
    PROVE  Nil \in Loc
BY Numbers, TrainFacts DEF Nil, Loc, Labels

\* TypeOK from the types of the parts.
Small ==
    /\ train \in Trains /\ connected \in [Nvrs -> BOOLEAN] /\ online \subseteq Cameras
    /\ current \in {0} \cup Carriages /\ select \in 0..MaxCarriage
    /\ m_bInitPreview \in BOOLEAN /\ polling \in BOOLEAN /\ crash \in BOOLEAN
    /\ overlap \in BOOLEAN /\ wrapped \in BOOLEAN /\ beyond \in BOOLEAN /\ reinit \in BOOLEAN
    /\ seen \in [Nvrs -> BOOLEAN] /\ excused \subseteq Wins
    /\ ops \in 0..train.ops /\ events \in 0..train.events /\ links \in 0..train.links
Big ==
    /\ handle \in [Wins -> 0..Len(player)] /\ playback \in 0..Len(player)
    /\ player \in Seq(Player) /\ thread \in Seq(Thread)
Where == pc \in [Actors -> Labels] /\ loc \in [Actors -> Loc]
LEMMA TypeParts == TypeOK <=> Small /\ Big /\ Where
BY DEF TypeOK, Small, Big, Where, Player, Thread, Loc

\* The part of the invariant that holds after a meeting of two threads, too.
Basic == TypeOK /\ Local /\ OnlineConnected /\ (select = 0 => wrapped) /\ CrashNeedsOverlap
Meeting == overlap' = (overlap \/ Overlapping')

LEMMA InvParts == Inv <=> Basic /\ (~overlap => Alone)
BY DEF Inv, Basic

\* Without a meeting there was none before, and one actor is busy.
LEMMA Solo ==
    ASSUME TypeOK, Meeting, ~overlap'
    PROVE  ~overlap /\ One'
<1>1. ~overlap /\ ~Overlapping'
  BY DEF Meeting, TypeOK
<1>. QED
  BY <1>1 DEF Overlapping, One

\* An actor that is not busy relies on nothing.
LEMMA Resting ==
    ASSUME NEW a \in Actors, ~Busy(a)'
    PROVE  Work(a)' /\ (a \in Nvrs => ConnWork(a)') /\ (a = Ui => UiWork')
<1>1. pc'[a] \in {"idle", "told"}
  BY DEF Busy
<1>2. Work(a)'
  BY <1>1 DEF Work, Closing, InMedia
<1>3. ConnWork(a)'
  BY <1>1 DEF ConnWork, Closing, InMedia, ConnPlaces, Busy
<1>4. a = Ui => UiWork'
  BY <1>1 DEF UiWork, Closing, InMedia, Clearing
<1>. QED
  BY <1>2, <1>3, <1>4

\* What has to be shown of a step after which no other actor is busy.
LEMMA AloneFrom ==
    ASSUME NEW a \in Actors, \A b \in Actors \ {a} : ~Busy(b)',
           One', Tables', Threads', Work(a)', a = Ui => UiWork', a \in Nvrs => ConnWork(a)',
           Carriage', NoStray', Emptied', NothingLost', Showing',
           Ui \in Actors, Nvrs \subseteq Actors, Ui \notin Nvrs
    PROVE  Alone'
<1>1. \A b \in Actors : Work(b)'
  BY Resting
<1>2. \A n \in Nvrs : ConnWork(n)'
  BY Resting
<1>3. UiWork'
  BY Resting
<1>. QED
  BY <1>1, <1>2, <1>3 DEF Alone

\* What holds of the tables and the threads as long as they stay as they are and nobody
\* leaves the wait.
LEMMA SameTables ==
    ASSUME Alone, ~overlap, UNCHANGED <<handle, playback, player, thread>>,
           wrapped => wrapped', beyond => beyond', reinit => reinit',
           \A a \in Actors : pc[a] = "wait" => pc'[a] = "wait" /\ loc'[a].p = loc[a].p
    PROVE  Tables' /\ Threads' /\ NoStray' /\ NothingLost'
<1>1. Tables'
  BY DEF Alone, Tables, Live
<1>2. Threads'
  BY DEF Alone, Threads, Running
<1>3. NoStray'
  BY DEF Alone, NoStray, Running, InTable
<1>4. NothingLost'
  BY DEF Alone, NothingLost, Live, InTable
<1>. QED
  BY <1>1, <1>2, <1>3, <1>4

\* A step of the user interface keeps what holds of the connections' local variables.
LEMMA UiLocalStep ==
    ASSUME Local, Nvrs \subseteq Actors, Actors = Nvrs \cup {Ui}, UNCHANGED <<train, connected>>,
           \A n \in Nvrs : pc'[n] = pc[n] /\ loc'[n] = loc[n], UiLocal',
           pc'[Ui] \in InMedia \cup {"peek", "waitFile"} => loc'[Ui].p # 0,
           pc'[Ui] \in {"wait", "waitFile"} => loc'[Ui].t # 0
    PROVE  Local'
<1>1. \A n \in Nvrs : ConnLocal(n)'
  BY DEF Local, ConnLocal, NvrOf, Carriages
<1>. QED
  BY <1>1 DEF Local

\* And the other way round.
LEMMA ConnLocalStep ==
    ASSUME Local, Actors = Nvrs \cup {Ui}, Ui \notin Nvrs, train' = train, NEW n \in Nvrs,
           \A a \in Actors \ {n} : pc'[a] = pc[a] /\ loc'[a] = loc[a],
           \A m \in Nvrs \ {n} : connected'[m] = connected[m], ConnLocal(n)',
           pc'[n] \in InMedia => loc'[n].p # 0,
           pc'[n] = "wait" => loc'[n].t # 0
    PROVE  Local'
<1>1. UiLocal'
  BY DEF Local, UiLocal, NvrOf, Carriages, Closing, Pos
<1>2. \A m \in Nvrs : ConnLocal(m)'
  BY DEF Local, ConnLocal, NvrOf, Carriages
<1>3. pc'[n] \notin {"peek", "waitFile"}
  BY DEF ConnLocal, ConnLabels, InMedia, ConnPlaces
<1>. QED
  BY <1>1, <1>2, <1>3 DEF Local

\* An actor goes to another place, or puts away its local variables.
LEMMA GotoFacts ==
    ASSUME TypeOK, NEW a \in Actors, NEW x \in Labels, Goto(a, x)
    PROVE  /\ pc' \in [Actors -> Labels] /\ pc'[a] = x
           /\ \A b \in Actors \ {a} : pc'[b] = pc[b]
BY Numbers DEF Goto, TypeOK

LEMMA PutFacts ==
    ASSUME TypeOK, NEW a \in Actors, NEW l \in Loc, Put(a, l)
    PROVE  /\ loc' \in [Actors -> Loc] /\ loc'[a] = l
           /\ \A b \in Actors \ {a} : loc'[b] = loc[b]
BY Numbers DEF Put

LEMMA RestFacts ==
    ASSUME TypeOK, NEW a \in Actors, Rest(a)
    PROVE  /\ pc' \in [Actors -> Labels] /\ loc' \in [Actors -> Loc]
           /\ pc'[a] = "idle" /\ loc'[a] = Nil
           /\ \A b \in Actors \ {a} : pc'[b] = pc[b] /\ loc'[b] = loc[b]
<1>1. "idle" \in Labels
  BY DEF Labels
<1>. QED
  BY <1>1, GotoFacts, PutFacts, NilLoc DEF Rest

LEMMA WhereSame ==
    ASSUME pc' \in [Actors -> Labels], loc' \in [Actors -> Loc], UNCHANGED players
    PROVE  Where'
BY DEF Where, Loc, players

LEMMA MoveFacts ==
    ASSUME TypeOK, NEW a \in Actors, NEW x \in Labels, NEW l \in Loc, Goto(a, x), Put(a, l)
    PROVE  /\ pc' \in [Actors -> Labels] /\ loc' \in [Actors -> Loc]
           /\ pc'[a] = x /\ loc'[a] = l
           /\ \A b \in Actors \ {a} : pc'[b] = pc[b] /\ loc'[b] = loc[b]
BY GotoFacts, PutFacts

\* The ways local variables are changed.
LEMMA PutW ==
    ASSUME TypeOK, NEW a \in Actors,
           NEW w \in 0..(NumWin + 1),
           Put(a, [loc[a] EXCEPT !.w = w])
    PROVE  /\ loc' \in [Actors -> Loc] /\ loc'[a].w = w
           /\ loc'[a].c = loc[a].c /\ loc'[a].pos = loc[a].pos /\ loc'[a].p = loc[a].p
           /\ loc'[a].t = loc[a].t /\ loc'[a].ret = loc[a].ret
           /\ \A b \in Actors \ {a} : loc'[b] = loc[b]
<1>. DEFINE m == [loc[a] EXCEPT !.w = w]
<1>1. loc[a] \in Loc
  BY Numbers
<1>2. m \in Loc /\ m.w = w
      /\ m.c = loc[a].c /\ m.pos = loc[a].pos /\ m.p = loc[a].p /\ m.t = loc[a].t
      /\ m.ret = loc[a].ret
  BY <1>1 DEF Loc
<1>3. Put(a, m)
  OBVIOUS
<1>. HIDE DEF m
<1>. QED
  BY <1>2, <1>3, PutFacts

LEMMA PutT ==
    ASSUME TypeOK, NEW a \in Actors,
           NEW t \in 0..Len(thread),
           Put(a, [loc[a] EXCEPT !.t = t])
    PROVE  /\ loc' \in [Actors -> Loc] /\ loc'[a].t = t
           /\ loc'[a].c = loc[a].c /\ loc'[a].pos = loc[a].pos /\ loc'[a].w = loc[a].w
           /\ loc'[a].p = loc[a].p /\ loc'[a].ret = loc[a].ret
           /\ \A b \in Actors \ {a} : loc'[b] = loc[b]
<1>. DEFINE m == [loc[a] EXCEPT !.t = t]
<1>1. loc[a] \in Loc
  BY Numbers
<1>2. m \in Loc /\ m.t = t
      /\ m.c = loc[a].c /\ m.pos = loc[a].pos /\ m.w = loc[a].w /\ m.p = loc[a].p
      /\ m.ret = loc[a].ret
  BY <1>1 DEF Loc
<1>3. Put(a, m)
  OBVIOUS
<1>. HIDE DEF m
<1>. QED
  BY <1>2, <1>3, PutFacts

LEMMA PutRet ==
    ASSUME TypeOK, NEW a \in Actors,
           NEW r \in Labels \cup {"play"},
           Put(a, [loc[a] EXCEPT !.ret = r])
    PROVE  /\ loc' \in [Actors -> Loc] /\ loc'[a].ret = r
           /\ loc'[a].c = loc[a].c /\ loc'[a].pos = loc[a].pos /\ loc'[a].w = loc[a].w
           /\ loc'[a].p = loc[a].p /\ loc'[a].t = loc[a].t
           /\ \A b \in Actors \ {a} : loc'[b] = loc[b]
<1>. DEFINE m == [loc[a] EXCEPT !.ret = r]
<1>1. loc[a] \in Loc
  BY Numbers
<1>2. m \in Loc /\ m.ret = r
      /\ m.c = loc[a].c /\ m.pos = loc[a].pos /\ m.w = loc[a].w /\ m.p = loc[a].p /\ m.t = loc[a].t
  BY <1>1 DEF Loc
<1>3. Put(a, m)
  OBVIOUS
<1>. HIDE DEF m
<1>. QED
  BY <1>2, <1>3, PutFacts

-----------------------------------------------------------------------------
(* The operations of the user interface begin *)

\* stopMonitor is called: types and local variables.
LEMMA StopMonitorBasic ==
    ASSUME Basic, pc[Ui] = "idle", NEW c \in 0..MaxCarriage, StopMonitor(c),
           UNCHANGED <<train, connected, player, thread>>
    PROVE  Where' /\ Local'
<1>. USE DEF Basic
<1>1. /\ \A n \in Nvrs : pc'[n] = pc[n] /\ loc'[n] = loc[n]
      /\ pc'[Ui] \in {"uninit", "swap"} /\ loc'[Ui] = [Nil EXCEPT !.c = c, !.w = 1]
      /\ pc' \in [Actors -> Labels]
  BY Numbers, TrainFacts DEF StopMonitor, Goto, Put, Labels, TypeOK
<1>2. [Nil EXCEPT !.c = c, !.w = 1] \in Loc
  <2>1. Nil \in Loc /\ 1 \in 0..(NumWin + 1)
    BY NilLoc, Numbers, TrainFacts
  <2>. QED
    BY <2>1 DEF Loc
<1>3. Where'
  BY <1>1, <1>2, Numbers DEF Where, StopMonitor, Put, Loc
<1>4. UiLocal'
  BY <1>1 DEF UiLocal, Closing, InMedia, UiLabels, Labels, Nil
<1>. QED
  BY <1>1, <1>3, <1>4, UiLocalStep, Numbers, TrainFacts DEF Actors, InMedia

\* stopMonitor is called, and nobody else is busy.
LEMMA StopMonitorAlone ==
    ASSUME Basic, Alone, Meeting, ~overlap', pc[Ui] = "idle",
           NEW c \in 0..MaxCarriage, StopMonitor(c),
           UNCHANGED <<train, connected, online, handle, playback, current, select, m_bInitPreview,
                       players, wrapped, beyond, reinit>>,
           Small', Where',
           c = 0 => (select \in Carriages => ~seen'[NvrOf[select]] \/ excused' = Wins)
    PROVE  Alone'
<1>. USE DEF Basic
<1>1. /\ \A n \in Nvrs : pc'[n] = pc[n] /\ loc'[n] = loc[n]
      /\ pc'[Ui] = IF select \in Carriages /\ current > 0 THEN "uninit" ELSE "swap"
      /\ loc'[Ui] = [Nil EXCEPT !.c = c, !.w = 1]
  BY Numbers, TrainFacts DEF StopMonitor, Goto, Put, TypeOK
<1>2. loc'[Ui].w = 1 /\ loc'[Ui].c = c
  BY <1>1 DEF Nil
<1>3. ~overlap /\ One'
  BY Solo
<1>4. \A b \in Actors \ {Ui} : ~Busy(b)'
  BY <1>1, <1>3, Numbers, TrainFacts DEF One, Busy
<1>5. Tables' /\ Threads' /\ NoStray' /\ NothingLost'
  <2>1. \A a \in Actors : pc[a] = "wait" => pc'[a] = "wait" /\ loc'[a].p = loc[a].p
    BY <1>1 DEF Actors
  <2>. QED
    BY <1>3, <2>1, SameTables DEF players
<1>6. Work(Ui)'
  BY <1>1 DEF Work, Closing, InMedia
<1>7. UiWork'
  <2>1. \A v \in Wins : ~(v < 1)
    BY Numbers, TrainFacts DEF Wins
  <2>2. pc'[Ui] = "swap" => current = 0 \/ select \notin Carriages
    <3>1. train \in Trains /\ current \in {0} \cup Carriages
      BY TypeParts DEF Small
    <3>2. current # 0 => current > 0
      BY <3>1, TrainFacts
    <3>. QED
      BY <1>1, <3>1, <3>2
  <2>. QED
    BY <1>1, <1>2, <2>1, <2>2 DEF UiWork, Clearing, Closing, InMedia, Carriages, NvrOf
<1>8. Carriage'
  BY <1>1 DEF Alone, Carriage, Preparing, Running, Carriages, NvrOf, CamOf, Pos, players
<1>9. Emptied'
  BY <1>1 DEF Alone, Emptied, Preparing
<1>10. Showing'
  BY <1>1, <1>2 DEF Showing, Switching, Clearing, Watched, Carriages, NvrOf
<1>. QED
  BY <1>3, <1>4, <1>5, <1>6, <1>7, <1>8, <1>9, <1>10, AloneFrom, Numbers, TrainFacts

\* What has to be shown of the types and the local variables in a step of the program.
LEMMA SmallStep ==
    ASSUME TypeOK, Meeting, UNCHANGED <<world, crash, events, links>>,
           current' \in {0} \cup Carriages, select' \in 0..MaxCarriage,
           m_bInitPreview' \in BOOLEAN, polling' \in BOOLEAN, seen' \in [Nvrs -> BOOLEAN],
           wrapped' \in BOOLEAN, beyond' \in BOOLEAN, reinit' \in BOOLEAN, excused' \subseteq Wins,
           ops' \in 0..train.ops
    PROVE  Small'
<1>1. overlap' \in BOOLEAN
  BY TypeParts DEF Meeting, Small, Overlapping
<1>. QED
  BY <1>1, TypeParts DEF Small, world, Cameras, Carriages, NvrOf, Pos

LEMMA BasicStep ==
    ASSUME Basic, Meeting, UNCHANGED <<world, crash>>, Small', Big', Where', Local',
           select' = 0 => wrapped'
    PROVE  Basic'
<1>1. TypeOK'
  BY DEF TypeOK, Small, Big, Where, Player, Thread, Loc
<1>2. OnlineConnected'
  BY DEF Basic, OnlineConnected, world, NvrOf
<1>3. CrashNeedsOverlap'
  BY DEF Basic, CrashNeedsOverlap, Meeting
<1>. QED
  BY <1>1, <1>2, <1>3 DEF Basic

\* The tables and the players stay as they are.
LEMMA SameBig ==
    ASSUME TypeOK, UNCHANGED <<train, handle, playback, players>>
    PROVE  Big' /\ Loc' = Loc
<1>1. Big'
  BY TypeParts DEF Big, players, Player, Thread, Cameras, Carriages, NvrOf, Pos
<1>. QED
  BY <1>1 DEF Loc, players

\* Where nobody moves, everything stays as it is.
LEMMA Unmoved ==
    ASSUME Alone, ~overlap, UNCHANGED <<world, handle, playback, current, select, m_bInitPreview,
                                        seen, players, pc, loc, history>>
    PROVE  Alone'
<1>1. Tables' /\ Threads' /\ NoStray' /\ NothingLost'
  BY SameTables DEF players, history
<1>2. One'
  BY DEF Alone, One, Busy
<1>3. \A a \in Actors : Work(a)'
  BY DEF Alone, Work, Closing, players
<1>4. UiWork'
  BY DEF Alone, UiWork, Closing, Clearing, players, world, history, New, Still, Carriages, NvrOf
<1>5. \A n \in Nvrs : ConnWork(n)'
  BY DEF Alone, ConnWork, Busy, Closing, players, world, history, Still
<1>6. Carriage'
  BY
  DEF Alone, Carriage, Preparing, Running, Carriages, NvrOf, CamOf, Pos, players, world, history
<1>7. Emptied'
  BY DEF Alone, Emptied, Preparing, history
<1>8. Showing'
  BY DEF Alone, Showing, Switching, Clearing, Closing, Watched, ToShow, Pending, Shows, Running,
         Carriages, NvrOf, Pos, players, world, history
<1>. QED
  BY <1>1, <1>2, <1>3, <1>4, <1>5, <1>6, <1>7, <1>8 DEF Alone

\* Where nobody moves the local variables are as they were.
LEMMA SameLocal ==
    ASSUME Basic, UNCHANGED <<train, connected, pc, loc>>, Loc' = Loc
    PROVE  Local' /\ Where'
<1>1. Where'
  BY TypeParts DEF Basic, Where
<1>2. UiLocal'
  BY DEF Basic, Local, UiLocal, Closing, Carriages, NvrOf, Pos
<1>3. \A n \in Nvrs : ConnLocal(n)'
  BY DEF Basic, Local, ConnLocal, Carriages, NvrOf
<1>. QED
  BY <1>1, <1>2, <1>3 DEF Basic, Local

LEMMA SetCarriageStep ==
    ASSUME Basic, ~overlap => Alone, Meeting, ~overlap, pc[Ui] = "idle",
           NEW c \in 0..MaxCarriage, NEW force \in BOOLEAN, SetCarriage(c, force) \/ StopMonitor(c),
           UNCHANGED <<world, crash, handle, playback, current, select, m_bInitPreview, players,
                       wrapped, beyond, reinit>>,
           Small', ~StopMonitor(c) => UNCHANGED <<seen, excused>>,
           c = 0 => (select \in Carriages => ~seen'[NvrOf[select]] \/ excused' = Wins)
    PROVE  Basic' /\ (~overlap' => Alone')
<1>1. Big' /\ Loc' = Loc
  BY SameBig DEF Basic, world
<1>2. CASE StopMonitor(c)
  <2>1. Where' /\ Local'
    BY <1>2, StopMonitorBasic DEF world, players
  <2>2. Basic'
    BY <1>1, <2>1, BasicStep DEF Basic
  <2>3. ~overlap' => Alone'
    BY <1>2, <2>1, StopMonitorAlone DEF world
  <2>. QED
    BY <2>2, <2>3
<1>3. CASE ~StopMonitor(c)
  <2>1. UNCHANGED <<pc, loc, seen, excused>>
    BY <1>3 DEF SetCarriage
  <2>2. Where' /\ Local'
    BY <1>1, <2>1, SameLocal DEF world
  <2>3. Basic'
    BY <1>1, <2>2, BasicStep DEF Basic
  <2>4. Alone'
    BY <2>1, Unmoved DEF history
  <2>. QED
    BY <2>3, <2>4
<1>. QED
  BY <1>2, <1>3

LEMMA OpsStep ==
    ASSUME TypeOK, UiFree
    PROVE  ops' \in 0..train.ops /\ ~overlap /\ pc[Ui] = "idle" /\ ~crash
<1>1. train.ops \in Nat
  BY TypeParts, PreviewAssumption DEF Small
<1>. QED
  BY <1>1, TypeParts DEF Small, UiFree, At

LEMMA ClickStep ==
    ASSUME Basic, ~overlap => Alone, Meeting, Click
    PROVE  Basic' /\ (~overlap' => Alone')
<1>1. ~overlap /\ pc[Ui] = "idle" /\ Small'
  BY OpsStep, SmallStep, TypeParts
  DEF Click, Basic, Small, tables, players, world, history, Carriages, NvrOf
<1>2. PICK c \in 1..MaxCarriage : SetCarriage(c, FALSE)
  BY DEF Click
<1>3. c \in 0..MaxCarriage /\ c # 0
  BY <1>2, Numbers, TrainFacts DEF Basic
<1>. QED
  BY <1>1, <1>2, <1>3, SetCarriageStep DEF Click, tables, history

LEMMA PollStep ==
    ASSUME Basic, ~overlap => Alone, Meeting, Poll
    PROVE  Basic' /\ (~overlap' => Alone')
<1>1. ~overlap /\ Small'
  BY OpsStep, SmallStep, TypeParts
  DEF Poll, Basic, Small, tables, players, world, history, Carriages, NvrOf
<1>2. Big' /\ Where' /\ Local'
  BY SameBig, SameLocal DEF Poll, Basic, world
<1>3. Basic'
  BY <1>1, <1>2, BasicStep DEF Poll, Basic, history
<1>4. Alone'
  BY <1>1, Unmoved DEF Poll
<1>. QED
  BY <1>3, <1>4

LEMMA VideoPollStep ==
    ASSUME Basic, ~overlap => Alone, Meeting, VideoPollTimeSlots
    PROVE  Basic' /\ (~overlap' => Alone')
<1>1. /\ ~overlap /\ pc[Ui] = "idle" /\ ops' \in 0..train.ops
      /\ UNCHANGED <<world, crash, handle, playback, current, m_bInitPreview, polling, seen, players,
                     beyond, reinit, excused, events, links>>
  BY OpsStep DEF VideoPollTimeSlots, Basic
<1>2. Big' /\ Loc' = Loc
  BY <1>1, SameBig DEF Basic, world
<1>3. CASE select + 1 > MaxCarriage
  <2>1. select' = 0 /\ wrapped' = TRUE /\ UNCHANGED <<pc, loc>>
    BY <1>3 DEF VideoPollTimeSlots
  <2>2. Small'
    BY <1>1, <2>1, SmallStep, TypeParts, Numbers, TrainFacts
    DEF Basic, Small, Carriages, NvrOf, world
  <2>3. Where' /\ Local'
    BY <1>1, <1>2, <2>1, SameLocal DEF Basic, world
  <2>4. Basic'
    BY <1>1, <1>2, <2>1, <2>2, <2>3, BasicStep DEF Basic
  <2>5. ASSUME ~overlap' PROVE Alone'
    <3>1. \A b \in Actors \ {Ui} : ~Busy(b)' \/ Busy(b)
      BY <2>1 DEF Busy
    <3>2. Tables' /\ Threads' /\ NoStray' /\ NothingLost'
      BY <1>1, <2>1, SameTables DEF players
    <3>3. One' /\ \A a \in Actors : Work(a)'
      BY <1>1, <2>1 DEF Alone, One, Busy, Work, Closing, players
    <3>4. UiWork'
      BY <1>1, <2>1 DEF UiWork, Closing, Clearing, InMedia
    <3>5. \A n \in Nvrs : ConnWork(n)'
      BY <1>1, <2>1 DEF Alone, ConnWork, Busy, Closing, players, Still
    <3>6. 0 \notin Carriages'
      BY <1>1, Numbers, TrainFacts DEF Basic, Carriages, NvrOf, world
    <3>7. Carriage'
      BY <1>1, <2>1, <3>6
      DEF Alone, Carriage, Running, Carriages, NvrOf, CamOf, Pos, players, world
    <3>8. Emptied' /\ Showing'
      BY <2>1, <3>6 DEF Emptied, Showing, Watched
    <3>. QED
      BY <3>2, <3>3, <3>4, <3>5, <3>7, <3>8 DEF Alone
  <2>. QED
    BY <2>4, <2>5
<1>4. CASE ~(select + 1 > MaxCarriage)
  <2>1. SetCarriage(select + 1, FALSE) /\ UNCHANGED <<select, wrapped>>
    BY <1>4 DEF VideoPollTimeSlots
  <2>2. select + 1 \in 0..MaxCarriage /\ select + 1 # 0
    BY <1>4, TypeParts, Numbers, TrainFacts DEF Basic, Small
  <2>3. Small'
    BY <1>1, <2>1, SmallStep, TypeParts DEF Basic, Small, Carriages, NvrOf, world
  <2>. QED
    BY <1>1, <2>1, <2>2, <2>3, SetCarriageStep
<1>. QED
  BY <1>3, <1>4

LEMMA ConnectTimerStep ==
    ASSUME Basic, ~overlap => Alone, Meeting, NEW n \in Nvrs, ConnectTimer(n)
    PROVE  Basic' /\ (~overlap' => Alone')
<1>1. /\ ~overlap /\ pc[Ui] = "idle" /\ seen' = [seen EXCEPT ![n] = connected[n]]
      /\ UNCHANGED <<world, crash, handle, playback, current, select, m_bInitPreview, polling, players,
                     wrapped, beyond, reinit, bounds>>
  BY DEF ConnectTimer, At
<1>2. seen' \in [Nvrs -> BOOLEAN] /\ seen'[n] = connected[n] /\ excused' \subseteq Wins
  BY <1>1, TypeParts DEF Basic, Small, ConnectTimer
<1>3. Small'
  BY <1>1, <1>2, SmallStep, TypeParts DEF Basic, Small, Carriages, NvrOf, world, bounds
<1>4. select \in Nat /\ MaxCarriage \in Nat /\ 1 <= MaxCarriage /\ select \in 0..MaxCarriage
  BY TypeParts, Numbers, TrainFacts DEF Basic, Small
<1>5. CASE connected[n]
  <2>. DEFINE c == IF select <= 0 THEN 1 ELSE select
  <2>1. c \in 0..MaxCarriage /\ c # 0 /\ StopMonitor(c) /\ excused' = excused
    BY <1>4, <1>5 DEF ConnectTimer, SetCarriage
  <2>. HIDE DEF c
  <2>. QED
    BY <1>1, <1>3, <2>1, SetCarriageStep DEF world
<1>6. CASE ~connected[n]
  <2>1. StopMonitor(0) /\ excused' = IF select \in Carriages /\ NvrOf[select] # n THEN Wins ELSE excused
    BY <1>6 DEF ConnectTimer
  <2>2. select \in Carriages => ~seen'[NvrOf[select]] \/ excused' = Wins
    BY <1>2, <1>6, <2>1
  <2>3. 0 \in 0..MaxCarriage /\ FALSE \in BOOLEAN
    BY <1>4
  <2>. QED
    BY <1>1, <1>3, <2>1, <2>2, <2>3, SetCarriageStep DEF world
<1>. QED
  BY <1>5, <1>6

-----------------------------------------------------------------------------
(* Steps that leave the tables and the players as they are *)

Keep == UNCHANGED <<world, handle, playback, players, crash>>
KeepCarriage == UNCHANGED <<current, select, m_bInitPreview, seen>>

\* An actor goes on, and the other ones do not move.
Moves(a) ==
    /\ \A b \in Actors \ {a} : pc'[b] = pc[b] /\ loc'[b] = loc[b]
    /\ Busy(a) \/ Busy(a)'

\* In a step after which two actors have not met, only the one that moves is busy.
LEMMA OnlyOne ==
    ASSUME TypeOK, ~overlap => Alone, Meeting, ~overlap', NEW a \in Actors, Moves(a)
    PROVE  ~overlap /\ Alone /\ One' /\ \A b \in Actors \ {a} : ~Busy(b) /\ ~Busy(b)'
<1>1. ~overlap /\ Alone /\ One'
  BY Solo
<1>2. One
  BY <1>1 DEF Alone
<1>. QED
  BY <1>1, <1>2 DEF Moves, One, Busy

LEMMA ControlStep ==
    ASSUME Basic, ~overlap => Alone, Meeting, NEW a \in Actors, Moves(a), Keep,
           wrapped => wrapped', beyond => beyond', reinit => reinit', select' = 0 => wrapped',
           Small', Where', Local', pc[a] # "wait",
           Alone /\ ~overlap /\ ~overlap' =>
              /\ Work(a)' /\ (a = Ui => UiWork') /\ (a \in Nvrs => ConnWork(a)')
              /\ Carriage' /\ Emptied' /\ Showing'
    PROVE  Basic' /\ (~overlap' => Alone')
<1>1. Basic'
  <2>1. Big'
    BY SameBig DEF Basic, Keep, world
  <2>. QED
    BY <2>1, BasicStep DEF Basic, Keep
<1>2. ASSUME ~overlap' PROVE Alone'
  <2>1. ~overlap /\ Alone /\ One' /\ \A b \in Actors \ {a} : ~Busy(b)'
    BY <1>2, OnlyOne DEF Basic
  <2>2. Tables' /\ Threads' /\ NoStray' /\ NothingLost'
    <3>1. \A b \in Actors : pc[b] = "wait" => pc'[b] = "wait" /\ loc'[b].p = loc[b].p
      BY DEF Moves
    <3>. QED
      BY <2>1, <3>1, SameTables DEF Keep, players
  <2>. QED
    BY <1>2, <2>1, <2>2, AloneFrom, Numbers, TrainFacts DEF Basic
<1>. QED
  BY <1>1, <1>2

\* The user interface is neither on its way to another carriage nor opening previews.
Aside == ~Switching /\ pc[Ui] \notin {"each", "open"}

\* Beside the change of the carriage: what the windows show does not depend on it.
LEMMA AsideShows ==
    ASSUME Basic, Alone, Keep, KeepCarriage, UNCHANGED history,
           (Aside /\ Aside') \/ (pc'[Ui] = pc[Ui] /\ loc'[Ui] = loc[Ui]),
           \A n \in Nvrs : pc[n] # "idle" =>
              pc'[n] # "idle" /\ loc'[n].c = loc[n].c /\ loc'[n].pos = loc[n].pos
    PROVE  Carriage' /\ Emptied' /\ Showing'
<1>1. /\ Preparing' <=> Preparing
      /\ pc'[Ui] = "init" <=> pc[Ui] = "init"
      /\ pc'[Ui] = "init" => loc'[Ui].w = loc[Ui].w
      /\ Switching' <=> Switching
      /\ Switching => loc'[Ui].c = loc[Ui].c
      /\ pc'[Ui] \in {"each", "open"} <=> pc[Ui] \in {"each", "open"}
      /\ pc'[Ui] \in {"each", "open"} => loc'[Ui].w = loc[Ui].w
  BY DEF Aside, Preparing, Switching, Clearing, Closing
<1>2. Carriage'
  BY <1>1
  DEF Alone, Carriage, Running, Carriages, NvrOf, CamOf, Pos, Keep, KeepCarriage, players,
      world, history
<1>3. Emptied'
  BY <1>1 DEF Alone, Emptied, Keep, KeepCarriage, history
<1>4. Showing'
  <2>1. Watched' <=> Watched
    BY DEF Watched, Carriages, NvrOf, Keep, KeepCarriage, world, history
  <2>2. ASSUME NEW w \in Wins PROVE (ToShow(w)' <=> ToShow(w)) /\ (Shows(w)' <=> Shows(w))
    BY <1>1 DEF ToShow, Shows, Running, Pos, Keep, KeepCarriage, players, world, history
  <2>3. ASSUME Watched, NEW w \in Wins, Pending(NvrOf[select], w) PROVE Pending(NvrOf[select], w)'
    <3>1. NvrOf[select] \in Nvrs
      BY <2>3, Numbers, TrainFacts DEF Watched, Basic
    <3>. QED
      BY <2>3, <3>1 DEF Pending, NvrOf, Keep, KeepCarriage, world
  <2>. QED
    BY <1>1, <2>1, <2>2, <2>3 DEF Alone, Showing, Keep, KeepCarriage
<1>. QED
  BY <1>2, <1>3, <1>4

\* A step of the user interface beside the change of the carriage.
LEMMA UiAside ==
    ASSUME Basic, ~overlap => Alone, Meeting, Moves(Ui), Keep, KeepCarriage, UNCHANGED history,
           Small', Where', UiLocal', pc[Ui] # "wait",
           pc'[Ui] \in InMedia \cup {"peek", "waitFile"} => loc'[Ui].p # 0,
           pc'[Ui] \in {"wait", "waitFile"} => loc'[Ui].t # 0,
           Aside, Aside',
           Alone => Work(Ui)' /\ UiWork'
    PROVE  Basic' /\ (~overlap' => Alone')
<1>1. Ui \in Actors /\ Ui \notin Nvrs /\ Nvrs \subseteq Actors
  BY Numbers, TrainFacts DEF Basic
<1>2. Local'
  BY <1>1, UiLocalStep DEF Basic, Keep, world, Moves, Actors
<1>3. Alone => Carriage' /\ Emptied' /\ Showing'
  BY <1>1, AsideShows DEF Keep, world, Moves
<1>. QED
  BY <1>1, <1>2, <1>3, ControlStep DEF history, KeepCarriage, Basic

\* The small parts stay as they are, but for the count of operations.
LEMMA SameSmall ==
    ASSUME TypeOK, Meeting, UNCHANGED <<world, tables, crash, history, events, links>>,
           ops' \in 0..train.ops
    PROVE  Small'
<1>1. current \in {0} \cup Carriages /\ select \in 0..MaxCarriage /\ m_bInitPreview \in BOOLEAN
  BY TypeParts DEF Small
<1>2. /\ polling \in BOOLEAN /\ seen \in [Nvrs -> BOOLEAN] /\ excused \subseteq Wins
      /\ wrapped \in BOOLEAN /\ beyond \in BOOLEAN /\ reinit \in BOOLEAN
  BY TypeParts DEF Small
<1>. QED
  BY <1>1, <1>2, SmallStep DEF tables, history

LEMMA PlayStep ==
    ASSUME Basic, ~overlap => Alone, Meeting, Play
    PROVE  Basic' /\ (~overlap' => Alone')
<1>1. /\ pc[Ui] = "idle" /\ ops' \in 0..train.ops
      /\ UNCHANGED <<world, tables, players, crash, history, events, links>>
  BY OpsStep DEF Play, Basic
<1>2. PICK c \in Carriages : Put(Ui, [Nil EXCEPT !.c = c, !.ret = "play"])
  BY DEF Play
<1>3. [Nil EXCEPT !.c = c, !.ret = "play"] \in Loc
  <2>1. c \in 0..MaxCarriage /\ Nil \in Loc
    BY <1>2, Numbers, TrainFacts, NilLoc DEF Basic
  <2>. QED
    BY <2>1 DEF Loc
<1>4. /\ Where' /\ pc'[Ui] = "stopPlayBack" /\ loc'[Ui].c = c
      /\ \A b \in Actors \ {Ui} : pc'[b] = pc[b] /\ loc'[b] = loc[b]
  <2>1. "stopPlayBack" \in Labels /\ Ui \in Actors
    BY DEF Labels, Actors
  <2>2. Goto(Ui, "stopPlayBack")
    BY DEF Play
  <2>3. [Nil EXCEPT !.c = c, !.ret = "play"].c = c
    BY DEF Nil
  <2>. QED
    BY <1>1, <1>2, <1>3, <2>1, <2>2, <2>3, MoveFacts, WhereSame DEF Basic
<1>5. Small'
  BY <1>1, SameSmall DEF Basic
<1>6. UiLocal'
  BY <1>1, <1>2, <1>4 DEF UiLocal, Closing, InMedia, UiLabels, Labels, Carriages, NvrOf, world
<1>7. Work(Ui)' /\ UiWork'
  BY <1>4 DEF Work, UiWork, Clearing, Closing, InMedia
<1>. QED
  BY <1>1, <1>4, <1>5, <1>6, <1>7, UiAside
  DEF Keep, KeepCarriage, tables, Aside, Switching, Clearing, Closing, InMedia, Moves, Busy

LEMMA StopPlayStep ==
    ASSUME Basic, ~overlap => Alone, Meeting, StopPlay
    PROVE  Basic' /\ (~overlap' => Alone')
<1>1. /\ pc[Ui] = "idle" /\ ops' \in 0..train.ops
      /\ UNCHANGED <<world, tables, players, crash, history, events, links>>
  BY OpsStep DEF StopPlay, Basic
<1>2. /\ Where' /\ pc'[Ui] = "stopPlayBack" /\ loc'[Ui] = Nil
      /\ \A b \in Actors \ {Ui} : pc'[b] = pc[b] /\ loc'[b] = loc[b]
  <2>1. "stopPlayBack" \in Labels /\ Ui \in Actors /\ Nil \in Loc
    BY NilLoc DEF Labels, Actors, Basic
  <2>. QED
    BY <1>1, <2>1, MoveFacts, WhereSame DEF Basic, StopPlay
<1>3. Small'
  BY <1>1, SameSmall DEF Basic
<1>4. UiLocal'
  BY <1>2 DEF UiLocal, Closing, InMedia, UiLabels, Labels, Nil
<1>5. Work(Ui)' /\ UiWork'
  BY <1>2 DEF Work, UiWork, Clearing, Closing, InMedia
<1>. QED
  BY <1>1, <1>2, <1>3, <1>4, <1>5, UiAside
  DEF Keep, KeepCarriage, tables, Aside, Switching, Clearing, Closing, InMedia, Moves, Busy

LEMMA PeekStep ==
    ASSUME Basic, ~overlap => Alone, Meeting, Peek
    PROVE  Basic' /\ (~overlap' => Alone')
<1>1. /\ pc[Ui] = "idle" /\ ops' \in 0..train.ops /\ playback # 0
      /\ UNCHANGED <<world, tables, players, crash, history, events, links>>
  BY OpsStep DEF Peek, Basic
<1>2. [Nil EXCEPT !.p = playback] \in Loc
  BY NilLoc, TypeParts DEF Basic, Big, Loc
<1>3. /\ Where' /\ pc'[Ui] = "peek" /\ loc'[Ui].p = playback
      /\ \A b \in Actors \ {Ui} : pc'[b] = pc[b] /\ loc'[b] = loc[b]
  <2>1. "peek" \in Labels /\ Ui \in Actors
    BY DEF Labels, Actors
  <2>2. [Nil EXCEPT !.p = playback].p = playback
    BY DEF Nil
  <2>. QED
    BY <1>1, <1>2, <2>1, <2>2, MoveFacts, WhereSame DEF Basic, Peek
<1>4. Small'
  BY <1>1, SameSmall DEF Basic
<1>5. UiLocal'
  BY <1>3 DEF UiLocal, Closing, InMedia, UiLabels, Labels
<1>6. Work(Ui)' /\ UiWork'
  BY <1>1, <1>3 DEF Work, UiWork, Clearing, Closing, InMedia, tables
<1>. QED
  BY <1>1, <1>3, <1>4, <1>5, <1>6, UiAside
  DEF Keep, KeepCarriage, tables, Aside, Switching, Clearing, Closing, InMedia, Moves, Busy

\* The user interface comes to rest after a playback or its timer.
LEMMA UiRestStep ==
    ASSUME Basic, ~overlap => Alone, Meeting, Rest(Ui),
           pc[Ui] \in {"peek", "waitFile", "openFile", "stopped"},
           UNCHANGED <<world, tables, players, crash, history, bounds>>
    PROVE  Basic' /\ (~overlap' => Alone')
<1>1. /\ Where' /\ pc'[Ui] = "idle"
      /\ \A b \in Actors \ {Ui} : pc'[b] = pc[b] /\ loc'[b] = loc[b]
  BY RestFacts, WhereSame DEF Basic, Actors
<1>2. Small'
  BY SameSmall, TypeParts DEF Basic, bounds, Small
<1>3. UiLocal'
  BY <1>1 DEF UiLocal, Closing, InMedia, UiLabels, Labels
<1>4. Work(Ui)' /\ UiWork'
  BY <1>1 DEF Work, UiWork, Clearing, Closing, InMedia
<1>. QED
  BY <1>1, <1>2, <1>3, <1>4, UiAside
  DEF Keep, KeepCarriage, tables, Aside, Switching, Clearing, Closing, InMedia, Moves, Busy

LEMMA PeekedStep ==
    ASSUME Basic, ~overlap => Alone, Meeting, Peeked \/ FileOpen
    PROVE  Basic' /\ (~overlap' => Alone')
<1>. QED
  BY UiRestStep DEF Peeked, FileOpen, At

-----------------------------------------------------------------------------
(* The user interface goes over to another carriage *)

\* A step of the user interface that stays on the way to another carriage.
LEMMA UiOnTheWay ==
    ASSUME Basic, ~overlap => Alone, Meeting, Moves(Ui), Keep, UNCHANGED <<seen, history>>,
           select' = select, Small', Where', UiLocal', pc[Ui] # "wait",
           pc'[Ui] \in InMedia \cup {"peek", "waitFile"} => loc'[Ui].p # 0,
           pc'[Ui] \in {"wait", "waitFile"} => loc'[Ui].t # 0,
           Switching, Switching', loc'[Ui].c = loc[Ui].c,
           Alone => Work(Ui)' /\ UiWork' /\ Carriage' /\ Emptied'
    PROVE  Basic' /\ (~overlap' => Alone')
<1>1. Ui \in Actors /\ Ui \notin Nvrs /\ Nvrs \subseteq Actors
  BY Numbers, TrainFacts DEF Basic
<1>2. Local'
  BY <1>1, UiLocalStep DEF Basic, Keep, world, Moves, Actors
<1>3. Alone => Showing'
  BY <1>1 DEF Alone, Showing, Watched, Carriages, NvrOf, Keep, world, history
<1>. QED
  BY <1>1, <1>2, <1>3, ControlStep DEF history, Basic

\* A running thread has a player.
LEMMA HasPlayer ==
    ASSUME TypeOK, NEW t \in DOMAIN thread
    PROVE  thread[t].p # 0
BY Numbers

LEMMA UninitStep ==
    ASSUME Basic, ~overlap => Alone, Meeting, Uninit
    PROVE  Basic' /\ (~overlap' => Alone')
<1>. DEFINE w == loc[Ui].w
<1>1. /\ pc[Ui] = "uninit"
      /\ UNCHANGED <<world, handle, playback, select, m_bInitPreview, polling, seen, players,
                     crash, history, bounds>>
  BY DEF Uninit, At
<1>2. /\ Ui \in Actors /\ w \in 1..(NumWin + 1) /\ loc[Ui] \in Loc /\ NumWin \in Nat
      /\ \A v \in Wins : v \in 1..NumWin
  BY <1>1, Numbers, TrainFacts DEF Basic, Local, UiLocal, Loc, Wins
<1>3. \A v \in Wins : Alone /\ v < w => handle[v] = 0
  BY <1>1 DEF Alone, UiWork, Clearing
<1>4. current' \in {0, current} => Small'
  BY <1>1, SmallStep, TypeParts DEF Basic, Small, bounds, history, Carriages, NvrOf, world
<1>. USE DEF Moves, Busy, Switching, Clearing, Closing, InMedia
<1>5. CASE w > NumWin
  <2>1. Goto(Ui, "swap") /\ current' = 0 /\ loc' = loc
    BY <1>5 DEF Uninit
  <2>2. /\ Where' /\ pc'[Ui] = "swap" /\ loc'[Ui] = loc[Ui]
        /\ \A b \in Actors \ {Ui} : pc'[b] = pc[b] /\ loc'[b] = loc[b]
    <3>1. "swap" \in Labels
      BY DEF Labels
    <3>. QED
      BY <1>1, <1>2, <2>1, <3>1, GotoFacts, WhereSame, Numbers DEF Basic
  <2>3. UiLocal'
    BY <2>2 DEF UiLocal, UiLabels, Labels
  <2>4. ASSUME Alone PROVE Work(Ui)' /\ UiWork' /\ Carriage' /\ Emptied'
    <3>1. \A v \in Wins : handle'[v] = 0
      BY <1>1, <1>2, <1>3, <1>5, <2>4
    <3>2. Carriage'
      <4>1. \A t \in DOMAIN thread : thread'[t].p # 0
        BY <1>1, HasPlayer DEF Basic, players
      <4>. QED
        BY <1>1, <2>1, <3>1, <4>1 DEF Carriage, players
    <3>3. Work(Ui)' /\ UiWork' /\ Emptied'
      BY <2>1, <2>2, <3>1 DEF Work, UiWork, Emptied
    <3>. QED
      BY <3>2, <3>3
  <2>. QED
    BY <1>1, <1>2, <1>4, <2>1, <2>2, <2>3, <2>4, UiOnTheWay DEF Keep
<1>6. CASE w <= NumWin /\ handle[w] = 0
  <2>1. Put(Ui, [loc[Ui] EXCEPT !.w = w + 1]) /\ pc' = pc /\ current' = current
    BY <1>2, <1>6 DEF Uninit
  <2>2. /\ Where' /\ pc' = pc /\ loc'[Ui].w = w + 1 /\ loc'[Ui].c = loc[Ui].c
        /\ \A b \in Actors \ {Ui} : loc'[b] = loc[b]
    <3>1. w + 1 \in 0..(NumWin + 1)
      BY <1>2, <1>6
    <3>. QED
      BY <1>1, <1>2, <2>1, <3>1, PutW, WhereSame, TypeParts DEF Basic, Where
  <2>3. UiLocal'
    BY <1>1, <1>2, <2>2 DEF UiLocal, UiLabels, Labels
  <2>4. ASSUME Alone PROVE Work(Ui)' /\ UiWork' /\ Carriage' /\ Emptied'
    <3>1. \A v \in Wins : v < w + 1 => handle'[v] = 0
      BY <1>1, <1>2, <1>3, <1>6, <2>4
    <3>2. Carriage'
      BY <1>1, <2>1, <2>4
      DEF Alone, Carriage, Preparing, Running, Carriages, NvrOf, CamOf, Pos, players, world,
          history
    <3>3. Work(Ui)' /\ UiWork'
      BY <1>1, <2>2, <3>1 DEF Work, UiWork
    <3>4. Emptied'
      BY <1>1, <2>1, <2>4 DEF Alone, Emptied, Preparing, history
    <3>. QED
      BY <3>2, <3>3, <3>4
  <2>. QED
    BY <1>1, <1>2, <1>4, <2>1, <2>2, <2>3, <2>4, UiOnTheWay DEF Keep
<1>7. CASE w <= NumWin /\ handle[w] # 0
  <2>1. /\ Put(Ui, [loc[Ui] EXCEPT !.p = handle[w], !.ret = "delete"])
        /\ Goto(Ui, "close") /\ current' = current
    BY <1>2, <1>7 DEF Uninit
  <2>2. /\ Where' /\ pc'[Ui] = "close" /\ loc'[Ui].w = w /\ loc'[Ui].c = loc[Ui].c
        /\ loc'[Ui].p = handle[w] /\ loc'[Ui].ret = "delete" /\ w \in Wins
        /\ \A b \in Actors \ {Ui} : pc'[b] = pc[b] /\ loc'[b] = loc[b]
    <3>1. w \in Wins /\ handle[w] \in 0..Len(player)
      BY <1>2, <1>7, TypeParts DEF Basic, Big, Wins
    <3>2. "close" \in Labels /\ "delete" \in Labels \cup {"play"}
      BY DEF Labels
    <3>3. /\ loc' \in [Actors -> Loc] /\ loc'[Ui].p = handle[w] /\ loc'[Ui].ret = "delete"
          /\ loc'[Ui].c = loc[Ui].c /\ loc'[Ui].w = w
          /\ \A b \in Actors \ {Ui} : loc'[b] = loc[b]
      <4>. DEFINE m == [loc[Ui] EXCEPT !.p = handle[w], !.ret = "delete"]
      <4>1. m \in Loc /\ m.p = handle[w] /\ m.ret = "delete" /\ m.c = loc[Ui].c /\ m.w = w
        BY <1>2, <3>1, <3>2 DEF Loc
      <4>2. Put(Ui, m)
        BY <2>1
      <4>. HIDE DEF m
      <4>. QED
        BY <1>2, <4>1, <4>2, PutFacts DEF Basic
    <3>. QED
      BY <1>1, <1>2, <2>1, <3>1, <3>2, <3>3, GotoFacts, WhereSame DEF Basic
  <2>3. UiLocal'
    BY <1>1, <1>2, <2>2 DEF UiLocal, UiLabels, Labels, world, Wins
  <2>4. ASSUME Alone PROVE Work(Ui)' /\ UiWork' /\ Carriage' /\ Emptied'
    <3>1. Carriage'
      BY <1>1, <2>1, <2>2, <2>4
      DEF Alone, Carriage, Preparing, Running, Carriages, NvrOf, CamOf, Pos, players, world,
          history
    <3>2. Work(Ui)' /\ UiWork'
      BY <1>1, <1>3, <2>2, <2>4 DEF Work, UiWork
    <3>3. Emptied'
      BY <1>1, <2>1, <2>2, <2>4 DEF Alone, Emptied, Preparing, history
    <3>. QED
      BY <3>1, <3>2, <3>3
  <2>. QED
    BY <1>1, <1>2, <1>4, <1>7, <2>1, <2>2, <2>3, <2>4, UiOnTheWay DEF Keep
<1>. QED
  BY <1>2, <1>5, <1>6, <1>7

\* What has to be shown of any step of the user interface, or of a connection.
LEMMA UiStepFrom ==
    ASSUME Basic, ~overlap => Alone, Meeting, Moves(Ui), UNCHANGED <<world, crash>>,
           Small', Big', Where', UiLocal', select' = 0 => wrapped',
           pc'[Ui] \in InMedia \cup {"peek", "waitFile"} => loc'[Ui].p # 0,
           pc'[Ui] \in {"wait", "waitFile"} => loc'[Ui].t # 0,
           ~overlap /\ Alone /\ (\A n \in Nvrs : ~Busy(n) /\ ~Busy(n)') =>
              /\ Tables' /\ Threads' /\ NoStray' /\ NothingLost'
              /\ Work(Ui)' /\ UiWork' /\ Carriage' /\ Emptied' /\ Showing'
    PROVE  Basic' /\ (~overlap' => Alone')
<1>1. Ui \in Actors /\ Ui \notin Nvrs /\ Nvrs \subseteq Actors
  BY Numbers, TrainFacts DEF Basic
<1>2. Local'
  BY <1>1, UiLocalStep DEF Basic, world, Moves, Actors
<1>3. Basic'
  BY <1>2, BasicStep
<1>4. ASSUME ~overlap' PROVE Alone'
  <2>1. ~overlap /\ Alone /\ One' /\ \A b \in Actors \ {Ui} : ~Busy(b) /\ ~Busy(b)'
    BY <1>1, <1>4, OnlyOne DEF Basic
  <2>. QED
    BY <1>1, <2>1, AloneFrom
<1>. QED
  BY <1>3, <1>4

LEMMA ConnStepFrom ==
    ASSUME Basic, ~overlap => Alone, Meeting, NEW n \in Nvrs, Moves(n), UNCHANGED <<world, crash>>,
           Small', Big', Where', ConnLocal(n)', select' = 0 => wrapped',
           pc'[n] \in InMedia => loc'[n].p # 0,
           pc'[n] = "wait" => loc'[n].t # 0,
           ~overlap /\ Alone /\ (\A b \in Actors \ {n} : ~Busy(b) /\ ~Busy(b)') =>
              /\ Tables' /\ Threads' /\ NoStray' /\ NothingLost'
              /\ Work(n)' /\ ConnWork(n)' /\ Carriage' /\ Emptied' /\ Showing'
    PROVE  Basic' /\ (~overlap' => Alone')
<1>1. Ui \in Actors /\ Ui \notin Nvrs /\ Nvrs \subseteq Actors /\ n # Ui
  BY Numbers, TrainFacts DEF Basic
<1>2. Local'
  BY <1>1, ConnLocalStep DEF Basic, world, Moves, Actors
<1>3. Basic'
  BY <1>2, BasicStep
<1>4. ASSUME ~overlap' PROVE Alone'
  <2>1. ~overlap /\ Alone /\ One' /\ \A b \in Actors \ {n} : ~Busy(b) /\ ~Busy(b)'
    BY <1>1, <1>4, OnlyOne DEF Basic
  <2>. QED
    BY <1>1, <2>1, AloneFrom
<1>. QED
  BY <1>3, <1>4

-----------------------------------------------------------------------------
(* Changes of a player *)

LEMMA PlayerSet ==
    ASSUME TypeOK, NEW p \in DOMAIN player, NEW x \in Player, player' = [player EXCEPT ![p] = x]
    PROVE  /\ player' \in Seq(Player) /\ Len(player') = Len(player) /\ DOMAIN player' = DOMAIN player
           /\ player'[p] = x /\ \A q \in DOMAIN player \ {p} : player'[q] = player[q]
<1>1. player \in Seq(Player) /\ Len(player) \in Nat /\ DOMAIN player = 1..Len(player)
  BY Numbers
<1>. QED
  BY <1>1

LEMMA DeletesFacts ==
    ASSUME TypeOK, NEW p \in DOMAIN player, Deletes(p)
    PROVE  /\ player' \in Seq(Player) /\ Len(player') = Len(player) /\ DOMAIN player' = DOMAIN player
           /\ ~player'[p].live
           /\ \A q \in DOMAIN player : /\ player'[q].flag = player[q].flag
                                       /\ player'[q].state = player[q].state
                                       /\ player'[q].h = player[q].h
                                       /\ q # p => player'[q].live = player[q].live
<1>. DEFINE x == [player[p] EXCEPT !.live = FALSE]
<1>1. player[p] \in Player
  BY Numbers
<1>2. x \in Player /\ x.live = FALSE /\ x.flag = player[p].flag /\ x.state = player[p].state
      /\ x.h = player[p].h
  BY <1>1 DEF Player
<1>3. player' = [player EXCEPT ![p] = x]
  BY DEF Deletes
<1>. HIDE DEF x
<1>. QED
  BY <1>2, <1>3, PlayerSet

\* A new player is added.
LEMMA InitFacts ==
    ASSUME TypeOK, CMP_Init
    PROVE  /\ player' \in Seq(Player) /\ Len(player') = Len(player) + 1
           /\ DOMAIN player' = DOMAIN player \cup {Len(player) + 1}
           /\ \A p \in DOMAIN player : player'[p] = player[p]
           /\ Len(player) + 1 \notin DOMAIN player
           /\ player'[Len(player) + 1] = NewPlayer
<1>1. player \in Seq(Player) /\ Len(player) \in Nat /\ DOMAIN player = 1..Len(player)
      /\ Len(thread) \in Nat
  BY Numbers
<1>2. NewPlayer \in Player
  BY <1>1 DEF NewPlayer, Player, States
<1>. HIDE DEF NewPlayer
<1>. QED
  BY <1>1, <1>2 DEF CMP_Init

\* A player is closed: its flag is down, and perhaps its thread forgotten.
LEMMA StopFacts ==
    ASSUME TypeOK, NEW p \in DOMAIN player,
           \/ player' = [player EXCEPT ![p].flag = FALSE, ![p].state = "STOP"] /\ player[p].h = 0
           \/ player' = [player EXCEPT ![p].h = 0, ![p].state = "STOP"]
    PROVE  /\ player' \in Seq(Player) /\ Len(player') = Len(player) /\ DOMAIN player' = DOMAIN player
           /\ player'[p].h = 0 /\ player'[p].state = "STOP" /\ player'[p].live = player[p].live
           /\ \A q \in DOMAIN player \ {p} : player'[q] = player[q]
<1>1. player[p] \in Player /\ Len(thread) \in Nat
  BY Numbers
<1>2. CASE player' = [player EXCEPT ![p].flag = FALSE, ![p].state = "STOP"] /\ player[p].h = 0
  <2>. DEFINE x == [player[p] EXCEPT !.flag = FALSE, !.state = "STOP"]
  <2>1. x \in Player /\ x.h = 0 /\ x.state = "STOP" /\ x.live = player[p].live
    BY <1>1, <1>2 DEF Player, States
  <2>2. player' = [player EXCEPT ![p] = x]
    BY <1>2
  <2>. HIDE DEF x
  <2>. QED
    BY <2>1, <2>2, PlayerSet
<1>3. CASE player' = [player EXCEPT ![p].h = 0, ![p].state = "STOP"]
  <2>. DEFINE x == [player[p] EXCEPT !.h = 0, !.state = "STOP"]
  <2>1. x \in Player /\ x.h = 0 /\ x.state = "STOP" /\ x.live = player[p].live
    BY <1>1, <1>3 DEF Player, States
  <2>2. player' = [player EXCEPT ![p] = x]
    BY <1>3
  <2>. HIDE DEF x
  <2>. QED
    BY <2>1, <2>2, PlayerSet
<1>. QED
  BY <1>2, <1>3

\* The flag of a player is taken down.
LEMMA FlagFacts ==
    ASSUME TypeOK, NEW p \in DOMAIN player, player' = [player EXCEPT ![p].flag = FALSE]
    PROVE  /\ player' \in Seq(Player) /\ Len(player') = Len(player) /\ DOMAIN player' = DOMAIN player
           /\ ~player'[p].flag
           /\ \A q \in DOMAIN player : /\ player'[q].live = player[q].live
                                       /\ player'[q].state = player[q].state
                                       /\ player'[q].h = player[q].h
                                       /\ q # p => player'[q].flag = player[q].flag
<1>. DEFINE x == [player[p] EXCEPT !.flag = FALSE]
<1>1. player[p] \in Player
  BY Numbers
<1>2. x \in Player /\ x.flag = FALSE /\ x.live = player[p].live /\ x.state = player[p].state
      /\ x.h = player[p].h
  BY <1>1 DEF Player
<1>3. player' = [player EXCEPT ![p] = x]
  OBVIOUS
<1>. HIDE DEF x
<1>. QED
  BY <1>2, <1>3, PlayerSet

\* The state of a player is set by its thread.
LEMMA StateFacts ==
    ASSUME TypeOK, NEW p \in DOMAIN player, NEW s \in States, player' = [player EXCEPT ![p].state = s]
    PROVE  /\ player' \in Seq(Player) /\ Len(player') = Len(player) /\ DOMAIN player' = DOMAIN player
           /\ player'[p].state = s
           /\ \A q \in DOMAIN player : /\ player'[q].live = player[q].live
                                       /\ player'[q].flag = player[q].flag
                                       /\ player'[q].h = player[q].h
                                       /\ q # p => player'[q].state = player[q].state
<1>. DEFINE x == [player[p] EXCEPT !.state = s]
<1>1. player[p] \in Player
  BY Numbers
<1>2. x \in Player /\ x.state = s /\ x.live = player[p].live /\ x.flag = player[p].flag
      /\ x.h = player[p].h
  BY <1>1 DEF Player
<1>3. player' = [player EXCEPT ![p] = x]
  OBVIOUS
<1>. HIDE DEF x
<1>. QED
  BY <1>2, <1>3, PlayerSet

\* A player is opened: it has a new thread.
LEMMA OpenFacts ==
    ASSUME TypeOK, NEW p \in DOMAIN player, NEW cam \in Cameras \cup {NoCam, File},
           NEW state \in States, Open(p, cam, state)
    PROVE  /\ Len(player') = Len(player) /\ DOMAIN player' = DOMAIN player
           /\ Len(thread') = Len(thread) + 1
           /\ DOMAIN thread' = DOMAIN thread \cup {Len(thread) + 1}
           /\ Len(thread) + 1 \notin DOMAIN thread
           /\ \A t \in DOMAIN thread : thread'[t] = thread[t]
           /\ LET t == thread'[Len(thread) + 1] IN t.p = p /\ t.cam = cam /\ t.at = "login"
           /\ player'[p].flag /\ player'[p].state = state /\ player'[p].h = Len(thread) + 1
           /\ player'[p].live = player[p].live
           /\ \A q \in DOMAIN player \ {p} : player'[q] = player[q]
           /\ train' = train => player' \in Seq(Player') /\ thread' \in Seq(Thread')
<1>. DEFINE x == [player[p] EXCEPT !.flag = TRUE, !.state = state, !.h = Len(thread) + 1]
            y == [p |-> p, cam |-> cam, at |-> "login"]
            P == [live : BOOLEAN, flag : BOOLEAN, state : States, h : 0..(Len(thread) + 1)]
            T == [p : (0..Len(player)) \ {0}, cam : Cameras \cup {NoCam, File},
                  at : {"login", "play", "done"}]
<1>1. /\ player \in Seq(Player) /\ thread \in Seq(Thread) /\ player[p] \in Player
      /\ Len(player) \in Nat /\ DOMAIN player = 1..Len(player)
      /\ Len(thread) \in Nat /\ DOMAIN thread = 1..Len(thread)
  BY Numbers
<1>2. /\ x \in P /\ x.flag = TRUE /\ x.state = state /\ x.h = Len(thread) + 1
      /\ x.live = player[p].live
  <2>. DEFINE a == [player[p] EXCEPT !.flag = TRUE, !.state = state]
  <2>1. a \in Player /\ a.flag = TRUE /\ a.state = state /\ a.live = player[p].live
    BY <1>1 DEF Player
  <2>2. x = [a EXCEPT !.h = Len(thread) + 1]
    OBVIOUS
  <2>. HIDE DEF a, x, y, T, P
  <2>3. /\ a.live \in BOOLEAN /\ DOMAIN a = {"live", "flag", "state", "h"}
        /\ a = [live |-> a.live, flag |-> a.flag, state |-> a.state, h |-> a.h]
    BY <2>1 DEF Player
  <2>4. x = [live |-> player[p].live, flag |-> TRUE, state |-> state, h |-> Len(thread) + 1]
    BY <2>1, <2>2, <2>3
  <2>5. player[p].live \in BOOLEAN /\ Len(thread) + 1 \in 0..(Len(thread) + 1)
    BY <1>1, <2>1, <2>3
  <2>. QED
    BY <2>4, <2>5 DEF P
<1>3. y \in T /\ y.p = p /\ y.cam = cam /\ y.at = "login"
  BY <1>1
<1>4. player' = [player EXCEPT ![p] = x] /\ thread' = Append(thread, y)
  BY DEF Open
<1>5. Player \subseteq P /\ thread \in Seq(T)
  BY <1>1 DEF Player, Thread
<1>. HIDE DEF x, y, P, T
<1>6. player \in Seq(P)
  <2>1. \A q \in 1..Len(player) : player[q] \in P
    BY <1>1, <1>5
  <2>. QED
    BY <1>1, <2>1
<1>7. /\ player' \in Seq(P) /\ Len(player') = Len(player) /\ DOMAIN player' = DOMAIN player
      /\ player'[p] = x /\ \A q \in DOMAIN player \ {p} : player'[q] = player[q]
  BY <1>1, <1>2, <1>4, <1>6
<1>8. /\ thread' \in Seq(T) /\ Len(thread') = Len(thread) + 1
      /\ DOMAIN thread' = DOMAIN thread \cup {Len(thread) + 1}
      /\ Len(thread) + 1 \notin DOMAIN thread
      /\ \A t \in DOMAIN thread : thread'[t] = thread[t]
      /\ thread'[Len(thread) + 1] = y
  BY <1>1, <1>3, <1>4, <1>5
<1>9. train' = train => P = Player' /\ T = Thread'
  BY <1>7, <1>8 DEF Player, Thread, P, T, Cameras, Carriages, NvrOf, Pos
<1>. QED
  BY <1>2, <1>3, <1>7, <1>8, <1>9

\* A thread goes on.
LEMMA ThreadFacts ==
    ASSUME TypeOK, NEW t \in DOMAIN thread, NEW s \in {"login", "play", "done"},
           thread' = [thread EXCEPT ![t].at = s]
    PROVE  /\ thread' \in Seq(Thread) /\ Len(thread') = Len(thread) /\ DOMAIN thread' = DOMAIN thread
           /\ thread'[t].at = s
           /\ \A u \in DOMAIN thread : /\ thread'[u].p = thread[u].p /\ thread'[u].cam = thread[u].cam
                                       /\ u # t => thread'[u].at = thread[u].at
<1>. DEFINE x == [thread[t] EXCEPT !.at = s]
<1>1. /\ thread[t] \in Thread /\ thread \in Seq(Thread)
      /\ Len(thread) \in Nat /\ DOMAIN thread = 1..Len(thread)
  BY Numbers
<1>2. x \in Thread /\ x.at = s /\ x.p = thread[t].p /\ x.cam = thread[t].cam
  BY <1>1 DEF Thread
<1>3. thread' = [thread EXCEPT ![t] = x]
  OBVIOUS
<1>. HIDE DEF x
<1>. QED
  BY <1>1, <1>2, <1>3

\* The types of the tables and of the local variables, where only their contents change.
LEMMA BigStep ==
    ASSUME TypeOK, train' = train, player' \in Seq(Player), thread' \in Seq(Thread),
           Len(player') = Len(player), Len(thread') = Len(thread),
           handle' \in [Wins -> 0..Len(player)], playback' \in 0..Len(player)
    PROVE  Big' /\ Loc' = Loc
<1>1. Player' = Player /\ Thread' = Thread
  BY DEF Player, Thread, Cameras, Carriages, NvrOf, Pos
<1>. QED
  BY <1>1 DEF Big, Loc

-----------------------------------------------------------------------------
(* The user interface goes over to another carriage, on *)

\* A player is taken out of the tables and deleted.
LEMMA Deleting ==
    ASSUME TypeOK, Alone, ~overlap, NEW p \in DOMAIN player, MayDelete(p), Deletes(p), thread' = thread,
           \A w \in Wins : /\ handle'[w] = handle[w] \/ (handle[w] = p /\ handle'[w] = 0)
                           /\ handle'[w] # p,
           playback' = playback \/ (playback = p /\ playback' = 0), playback' # p,
           UNCHANGED <<wrapped, beyond, reinit>>, \A a \in Actors : pc[a] # "wait"
    PROVE  Tables' /\ Threads' /\ NoStray' /\ NothingLost'
<1>1. /\ DOMAIN player' = DOMAIN player /\ DOMAIN thread' = DOMAIN thread
      /\ ~player'[p].live /\ p # 0
      /\ \A q \in DOMAIN player : /\ player'[q].flag = player[q].flag /\ player'[q].h = player[q].h
                                  /\ q # p => player'[q].live = player[q].live
      /\ \A w \in Wins : handle[w] # 0 => handle[w] \in DOMAIN player
      /\ playback # 0 => playback \in DOMAIN player
      /\ \A t \in DOMAIN thread : thread[t].p \in DOMAIN player
  BY DeletesFacts, Numbers, TypeParts DEF Big
<1>2. Tables'
  BY <1>1 DEF Alone, Tables, Live
<1>3. \A t \in DOMAIN thread : thread[t].p = p => ~Running(t)
  BY Numbers DEF MayDelete
<1>4. Threads'
  <2>1. \A t \in DOMAIN thread' : Running(t)' => player'[thread'[t].p].h = t
    BY <1>1 DEF Alone, Threads, Running
  <2>2. \A q \in DOMAIN player' : player'[q].h # 0 => thread'[player'[q].h].p = q
    BY <1>1 DEF Alone, Threads
  <2>3. ASSUME NEW t \in DOMAIN thread', NEW w \in Wins, Running(t)', thread'[t].p = handle'[w]
        PROVE  player'[handle'[w]].flag
    <3>1. thread[t].p # 0 /\ Running(t)
      BY <2>3, HasPlayer DEF Running
    <3>2. handle'[w] = handle[w] /\ handle[w] \in DOMAIN player
      BY <1>1, <2>3, <3>1
    <3>3. player[handle[w]].flag
      BY <2>3, <3>1, <3>2 DEF Alone, Threads
    <3>. QED
      BY <1>1, <3>2, <3>3
  <2>. QED
    BY <2>1, <2>2, <2>3 DEF Threads
<1>5. NoStray'
  BY <1>1, <1>3 DEF Alone, NoStray, Running, InTable
<1>6. NothingLost'
  BY <1>1 DEF Alone, NothingLost, Live, InTable
<1>. QED
  BY <1>2, <1>4, <1>5, <1>6

\* No window shows anything it has not shown before.
LEMMA CarriageStep ==
    ASSUME Alone, UNCHANGED <<train, current, select, m_bInitPreview, wrapped>>,
           pc[Ui] = "init" => pc'[Ui] = "init", Preparing => Preparing',
           \A w \in Wins : \A t \in DOMAIN thread' : Running(t)' /\ thread'[t].p = handle'[w] =>
              \E u \in DOMAIN thread :
                 Running(u) /\ thread[u].p = handle[w] /\ thread[u].cam = thread'[t].cam
    PROVE  Carriage'
<1>1. ASSUME NEW w \in Wins, NEW t \in DOMAIN thread', Running(t)', thread'[t].p = handle'[w]
      PROVE  /\ current' \in Carriages' /\ thread'[t].cam = CamOf(current, w)'
             /\ current' = select' \/ select' = 0 \/ pc'[Ui] = "init"
  <2>1. PICK u \in DOMAIN thread :
           Running(u) /\ thread[u].p = handle[w] /\ thread[u].cam = thread'[t].cam
    BY <1>1
  <2>2. /\ current \in Carriages /\ thread[u].cam = CamOf(current, w)
        /\ current = select \/ select = 0 \/ pc[Ui] = "init"
    BY <2>1 DEF Alone, Carriage
  <2>. QED
    BY <2>1, <2>2 DEF Carriages, NvrOf, CamOf, Pos
<1>2. /\ ~wrapped' /\ current' # 0 => current' = select'
      /\ ~m_bInitPreview' => current' = 0 \/ select' \notin Carriages' \/ Preparing'
  BY DEF Alone, Carriage, Carriages, NvrOf
<1>. QED
  BY <1>1, <1>2 DEF Carriage

LEMMA DeleteStep ==
    ASSUME Basic, ~overlap => Alone, Meeting, Delete
    PROVE  Basic' /\ (~overlap' => Alone')
<1>. DEFINE w == loc[Ui].w
            p == handle[w]
<1>1. /\ pc[Ui] = "delete"
      /\ IF p = 0 THEN UNCHANGED player ELSE MayDelete(p) /\ Deletes(p)
      /\ handle' = [handle EXCEPT ![w] = 0]
      /\ Goto(Ui, "uninit") /\ Put(Ui, [loc[Ui] EXCEPT !.w = w + 1])
      /\ UNCHANGED <<world, playback, current, select, m_bInitPreview, polling, seen, thread,
                     crash, history, bounds>>
  BY DEF Delete, At
<1>2. /\ Ui \in Actors /\ w \in Wins /\ NumWin \in Nat /\ w + 1 \in 0..(NumWin + 1)
      /\ p \in 0..Len(player) /\ handle \in [Wins -> 0..Len(player)]
      /\ \A v \in Wins : v \in Nat
  BY <1>1, Numbers, TrainFacts, TypeParts DEF Basic, Local, UiLocal, Loc, Wins, Big
<1>3. /\ handle' \in [Wins -> 0..Len(player)] /\ handle'[w] = 0
      /\ \A v \in Wins \ {w} : handle'[v] = handle[v]
  BY <1>1, <1>2, Numbers DEF Basic
<1>4. Big' /\ Loc' = Loc
  <2>1. player' \in Seq(Player) /\ Len(player') = Len(player)
    BY <1>1, <1>2, DeletesFacts, Numbers DEF Basic
  <2>. QED
    BY <1>1, <1>3, <2>1, BigStep, Numbers, TypeParts DEF Basic, Big, world
<1>5. Small'
  BY <1>1, SmallStep, TypeParts DEF Basic, Small, bounds, history, Carriages, NvrOf, world
<1>6. /\ Where' /\ pc'[Ui] = "uninit" /\ loc'[Ui].w = w + 1 /\ loc'[Ui].c = loc[Ui].c
      /\ \A b \in Actors \ {Ui} : pc'[b] = pc[b] /\ loc'[b] = loc[b]
  <2>1. "uninit" \in Labels
    BY DEF Labels
  <2>. QED
    BY <1>1, <1>2, <1>4, <2>1, PutW, GotoFacts DEF Basic, Where
<1>. USE DEF Busy, Switching, Clearing, Closing, InMedia
<1>7. UiLocal'
  BY <1>2, <1>6 DEF UiLocal, UiLabels, Labels
<1>8. ASSUME ~overlap, Alone, \A n \in Nvrs : ~Busy(n)
      PROVE  /\ Tables' /\ Threads' /\ NoStray' /\ NothingLost'
             /\ Work(Ui)' /\ UiWork' /\ Carriage' /\ Emptied' /\ Showing'
  <2>1. p # 0 /\ p \in DOMAIN player /\ MayDelete(p) /\ Deletes(p)
    BY <1>1, <1>2, <1>8, Numbers DEF Alone, UiWork, Basic
  <2>2. Tables' /\ Threads' /\ NoStray' /\ NothingLost'
    <3>1. \A v \in Wins : /\ handle'[v] = handle[v] \/ (handle[v] = p /\ handle'[v] = 0)
                          /\ handle'[v] # p
      BY <1>2, <1>3, <1>8, <2>1 DEF Alone, Tables
    <3>2. playback # p
      BY <1>2, <1>8, <2>1 DEF Alone, Tables
    <3>3. \A a \in Actors : pc[a] # "wait"
      BY <1>1, <1>8 DEF Actors
    <3>. HIDE DEF p
    <3>. QED
      BY <1>1, <1>8, <2>1, <3>1, <3>2, <3>3, Deleting DEF Basic, history
  <2>3. Work(Ui)' /\ UiWork'
    <3>1. \A v \in Wins : v < w + 1 => handle'[v] = 0
      BY <1>1, <1>2, <1>3, <1>8 DEF Alone, UiWork
    <3>. QED
      BY <1>6, <3>1 DEF Work, UiWork
  <2>4. Carriage'
    <3>1. \A t \in DOMAIN thread : thread[t].p # 0
      BY HasPlayer DEF Basic
    <3>. QED
      <4>1. \A v \in Wins : \A t \in DOMAIN thread : thread[t].p = handle'[v] => handle'[v] = handle[v]
        BY <1>3, <3>1
      <4>. QED
        BY <1>1, <1>6, <1>8, <4>1, CarriageStep DEF Preparing, Running, world, history
  <2>5. Emptied'
    BY <1>1, <1>3, <1>6, <1>8 DEF Alone, Emptied, Preparing, history
  <2>6. Showing'
    BY <1>1, <1>6, <1>8 DEF Alone, Showing, Watched, Carriages, NvrOf, world, history
  <2>. QED
    BY <2>2, <2>3, <2>4, <2>5, <2>6
<1>. QED
  BY <1>1, <1>4, <1>5, <1>6, <1>7, <1>8, UiStepFrom DEF Moves, Busy, Basic, history

LEMMA SwapStep ==
    ASSUME Basic, ~overlap => Alone, Meeting, Swap
    PROVE  Basic' /\ (~overlap' => Alone')
<1>. DEFINE c == loc[Ui].c
<1>1. /\ pc[Ui] = "swap" /\ m_bInitPreview' = FALSE
      /\ UNCHANGED <<world, handle, playback, current, polling, seen, players, crash, wrapped,
                     reinit, excused, bounds>>
  BY DEF Swap, At
<1>2. /\ Ui \in Actors /\ Ui \notin Nvrs /\ Nvrs \subseteq Actors
      /\ c \in 0..MaxCarriage /\ current \in {0} \cup Carriages /\ beyond \in BOOLEAN
      /\ NumWin \in Nat
  BY Numbers, TrainFacts, TypeParts DEF Basic, Loc, Small
<1>3. ASSUME select' \in 0..MaxCarriage, beyond' \in BOOLEAN PROVE Small'
  BY <1>1, <1>3, SmallStep, TypeParts DEF Basic, Small, bounds, Carriages, NvrOf, world
<1>. USE DEF Switching, Clearing, Closing, InMedia
<1>4. CASE c = 0
  <2>1. /\ Where' /\ pc'[Ui] = "idle" /\ UNCHANGED <<select, beyond>>
        /\ \A b \in Actors \ {Ui} : pc'[b] = pc[b] /\ loc'[b] = loc[b]
    BY <1>1, <1>2, <1>4, RestFacts, WhereSame DEF Swap, Basic
  <2>2. UiLocal'
    BY <2>1 DEF UiLocal, UiLabels, Labels
  <2>3. Local'
    BY <1>1, <1>2, <2>1, <2>2, UiLocalStep DEF Basic, world, Actors
  <2>4. Small'
    BY <1>3, <2>1, TypeParts DEF Basic, Small
  <2>5. ASSUME Alone PROVE Work(Ui)' /\ UiWork' /\ Carriage' /\ Emptied' /\ Showing'
    <3>1. Work(Ui)' /\ UiWork'
      BY <2>1 DEF Work, UiWork
    <3>2. current = 0 \/ select \notin Carriages
      BY <1>1, <2>5 DEF Alone, UiWork
    <3>3. Carriage'
      BY <1>1, <2>1, <2>5, <3>2
      DEF Alone, Carriage, Preparing, Running, Carriages, NvrOf, CamOf, Pos, players, world
    <3>4. Emptied'
      BY <1>1, <2>1, <2>5 DEF Alone, Emptied, Preparing
    <3>5. ~Watched /\ (Watched' <=> Watched)
      BY <1>1, <1>4, <2>1, <2>5 DEF Alone, Showing, Watched, Carriages, NvrOf, world
    <3>. QED
      BY <3>1, <3>3, <3>4, <3>5 DEF Showing
  <2>. QED
    BY <1>1, <1>2, <2>1, <2>3, <2>4, <2>5, ControlStep DEF Keep, Moves, Busy, Basic
<1>5. CASE c # 0
  <2>1. /\ select' = c /\ beyond' = (beyond \/ c \notin Carriages)
        /\ Goto(Ui, "init") /\ Put(Ui, [Nil EXCEPT !.c = c, !.w = 1])
    BY <1>5 DEF Swap
  <2>2. /\ Where' /\ pc'[Ui] = "init" /\ loc'[Ui].c = c /\ loc'[Ui].w = 1
        /\ \A b \in Actors \ {Ui} : pc'[b] = pc[b] /\ loc'[b] = loc[b]
    <3>. DEFINE m == [Nil EXCEPT !.c = c, !.w = 1]
    <3>1. m \in Loc /\ m.c = c /\ m.w = 1
      <4>1. Nil \in Loc /\ 1 \in 0..(NumWin + 1)
        BY <1>2, NilLoc DEF Basic
      <4>. QED
        BY <1>2, <4>1 DEF Loc
    <3>2. "init" \in Labels
      BY DEF Labels
    <3>3. Put(Ui, m)
      BY <2>1
    <3>. HIDE DEF m
    <3>. QED
      BY <1>1, <1>2, <2>1, <3>1, <3>2, <3>3, MoveFacts, WhereSame DEF Basic
  <2>3. UiLocal'
    BY <1>2, <1>5, <2>2 DEF UiLocal, UiLabels, Labels
  <2>4. Local'
    BY <1>1, <1>2, <2>2, <2>3, UiLocalStep DEF Basic, world, Actors
  <2>5. Small'
    BY <1>2, <1>3, <2>1
  <2>6. ASSUME Alone PROVE Work(Ui)' /\ UiWork' /\ Carriage' /\ Emptied' /\ Showing'
    <3>1. wrapped \/ current = 0
      BY <1>1, <1>2, <2>6 DEF Alone, UiWork, Carriage
    <3>2. Work(Ui)'
      BY <2>2 DEF Work
    <3>3. UiWork'
      <4>1. \A v \in Wins : ~(v < 1)
        BY <1>2 DEF Wins
      <4>. QED
        BY <1>1, <2>1, <2>2, <3>1, <4>1 DEF UiWork, Carriages, NvrOf, world
    <3>4. Carriage'
      BY <1>1, <2>1, <2>2, <2>6, <3>1
      DEF Alone, Carriage, Preparing, Running, Carriages, NvrOf, CamOf, Pos, players, world
    <3>5. Emptied'
      BY <1>1, <2>1, <2>2, <2>6, <3>1 DEF Alone, Emptied, Preparing
    <3>6. Showing'
      BY <1>5, <2>2 DEF Showing
    <3>. QED
      BY <3>2, <3>3, <3>4, <3>5, <3>6
  <2>. QED
    BY <1>1, <1>2, <1>5, <2>1, <2>2, <2>4, <2>5, <2>6, ControlStep DEF Keep, Moves, Busy, Basic
<1>. QED
  BY <1>4, <1>5

LEMMA InitedStep ==
    ASSUME Basic, ~overlap => Alone, Meeting, Inited
    PROVE  Basic' /\ (~overlap' => Alone')
<1>1. /\ pc[Ui] = "inited" /\ m_bInitPreview' = TRUE /\ Goto(Ui, "begin")
      /\ UNCHANGED <<world, handle, playback, current, select, polling, seen, players, loc, crash,
                     history, bounds>>
  BY DEF Inited, At
<1>2. Ui \in Actors /\ Ui \notin Nvrs /\ Nvrs \subseteq Actors
  BY Numbers, TrainFacts DEF Basic
<1>3. Small'
  BY <1>1, SmallStep, TypeParts DEF Basic, Small, bounds, history, Carriages, NvrOf, world
<1>4. /\ Where' /\ pc'[Ui] = "begin"
      /\ \A b \in Actors \ {Ui} : pc'[b] = pc[b] /\ loc'[b] = loc[b]
  <2>1. "begin" \in Labels
    BY DEF Labels
  <2>. QED
    BY <1>1, <1>2, <2>1, GotoFacts, WhereSame, Numbers DEF Basic
<1>. USE DEF Switching, Clearing, Closing, InMedia
<1>5. UiLocal'
  BY <1>1, <1>4 DEF Basic, Local, UiLocal, UiLabels, Labels
<1>6. ASSUME Alone PROVE Work(Ui)' /\ UiWork' /\ Carriage' /\ Emptied'
  <2>1. Work(Ui)'
    BY <1>4 DEF Work
  <2>2. UiWork'
    BY <1>1, <1>4, <1>6
    DEF Alone, UiWork, New, Still, Carriages, NvrOf, world, players, history
  <2>3. Carriage'
    BY <1>1, <1>4, <1>6
    DEF Alone, Carriage, Preparing, Running, Carriages, NvrOf, CamOf, Pos, players, world, history
  <2>4. Emptied'
    BY <1>1, <1>4, <1>6 DEF Alone, Emptied, Preparing, history
  <2>. QED
    BY <2>1, <2>2, <2>3, <2>4
<1>. QED
  BY <1>1, <1>2, <1>3, <1>4, <1>5, <1>6, UiOnTheWay DEF Keep, Moves, Busy

LEMMA BeginStep ==
    ASSUME Basic, ~overlap => Alone, Meeting, Begin
    PROVE  Basic' /\ (~overlap' => Alone')
<1>. DEFINE c == loc[Ui].c
<1>1. /\ pc[Ui] = "begin" /\ excused' = IF current = c THEN Wins ELSE {}
      /\ UNCHANGED <<world, handle, playback, select, m_bInitPreview, polling, seen, players,
                     crash, wrapped, beyond, reinit, bounds>>
  BY DEF Begin, At
<1>2. Ui \in Actors /\ Ui \notin Nvrs /\ Nvrs \subseteq Actors /\ 0 \notin Carriages
  BY Numbers, TrainFacts DEF Basic
<1>3. ASSUME current' \in {0} \cup Carriages PROVE Small'
  BY <1>1, <1>3, SmallStep, TypeParts DEF Basic, Small, bounds, Carriages, NvrOf, world
<1>. USE DEF Switching, Clearing, Closing, InMedia
<1>4. CASE current # c /\ c \in Carriages
  <2>1. current' = c /\ Goto(Ui, "status") /\ loc' = loc /\ excused' = {}
    BY <1>1, <1>4 DEF Begin
  <2>2. /\ Where' /\ pc'[Ui] = "status"
        /\ \A b \in Actors \ {Ui} : pc'[b] = pc[b] /\ loc'[b] = loc[b]
    <3>1. "status" \in Labels
      BY DEF Labels
    <3>. QED
      BY <1>1, <1>2, <2>1, <3>1, GotoFacts, WhereSame, Numbers DEF Basic
  <2>3. Local'
    <3>1. UiLocal'
      BY <1>1, <1>4, <2>1, <2>2 DEF UiLocal, UiLabels, Labels, Carriages, NvrOf, world
    <3>. QED
      BY <1>1, <1>2, <2>2, <3>1, UiLocalStep DEF Basic, world, Actors
  <2>4. ASSUME Alone PROVE Work(Ui)' /\ UiWork' /\ Carriage' /\ Emptied' /\ Showing'
    <3>1. /\ \A v \in Wins : New(v)
          /\ c = select /\ m_bInitPreview /\ (wrapped \/ current = 0)
      BY <1>1, <2>4 DEF Alone, UiWork
    <3>2. Work(Ui)' /\ UiWork'
      BY <1>1, <2>1, <2>2, <3>1 DEF Work, UiWork, New, Still, players, world
    <3>3. Carriage'
      <4>1. ASSUME NEW w \in Wins, NEW t \in DOMAIN thread, Running(t), thread[t].p = handle[w]
            PROVE  FALSE
        <5>1. player[handle[w]].h = t /\ t # 0
          BY <2>4, <4>1, Numbers DEF Alone, Threads, Basic
        <5>. QED
          BY <3>1, <5>1 DEF New, Still
      <4>. QED
        BY <1>1, <2>1, <3>1, <4>1 DEF Carriage, Running, players
    <3>4. Emptied'
      BY <1>2, <1>4, <2>1, <2>2 DEF Emptied, Preparing
    <3>5. Showing'
      <4>1. Watched' => c # 0
        BY <1>2, <1>4
      <4>. QED
        BY <2>1, <2>2, <4>1 DEF Showing
    <3>. QED
      BY <3>2, <3>3, <3>4, <3>5
  <2>. QED
    BY <1>1, <1>2, <1>3, <1>4, <2>1, <2>2, <2>3, <2>4, ControlStep DEF Keep, Moves, Busy, Basic
<1>5. CASE ~(current # c /\ c \in Carriages)
  <2>1. Rest(Ui) /\ current' = current
    BY <1>5 DEF Begin
  <2>2. /\ Where' /\ pc'[Ui] = "idle"
        /\ \A b \in Actors \ {Ui} : pc'[b] = pc[b] /\ loc'[b] = loc[b]
    BY <1>1, <1>2, <2>1, RestFacts, WhereSame DEF Basic
  <2>3. Local'
    <3>1. UiLocal'
      BY <2>2 DEF UiLocal, UiLabels, Labels
    <3>. QED
      BY <1>1, <1>2, <2>2, <3>1, UiLocalStep DEF Basic, world, Actors
  <2>4. Small'
    BY <1>3, <2>1, TypeParts DEF Basic, Small
  <2>5. ASSUME Alone PROVE Work(Ui)' /\ UiWork' /\ Carriage' /\ Emptied' /\ Showing'
    <3>1. c = select /\ m_bInitPreview /\ (c \in Carriages \/ beyond) /\ \A v \in Wins : New(v)
      BY <1>1, <2>5 DEF Alone, UiWork
    <3>2. Work(Ui)' /\ UiWork'
      BY <2>2 DEF Work, UiWork
    <3>3. Carriage'
      BY <1>1, <2>1, <2>2, <2>5, <3>1
      DEF Alone, Carriage, Preparing, Running, Carriages, NvrOf, CamOf, Pos, players, world
    <3>4. Emptied'
      BY <1>1, <1>2, <1>5, <2>1, <2>2, <2>5, <3>1 DEF Alone, Emptied, Preparing
    <3>5. ~Watched'
      BY <1>1, <1>5, <2>1, <3>1 DEF Watched, Carriages, NvrOf, world
    <3>. QED
      BY <3>2, <3>3, <3>4, <3>5 DEF Showing
  <2>. QED
    BY <1>1, <1>2, <2>1, <2>2, <2>3, <2>4, <2>5, ControlStep DEF Keep, Moves, Busy, Basic
<1>. QED
  BY <1>4, <1>5

\* A window with a new player shows nothing.
LEMMA NewShowsNothing ==
    ASSUME TypeOK, Threads, NEW w \in Wins, NEW t \in DOMAIN thread, Running(t),
           thread[t].p = handle[w]
    PROVE  ~New(w) /\ player[handle[w]].h = t /\ t # 0
<1>1. player[handle[w]].h = t /\ t # 0
  BY Numbers DEF Threads
<1>. QED
  BY <1>1 DEF New, Still

LEMMA StatusStep ==
    ASSUME Basic, ~overlap => Alone, Meeting, Status
    PROVE  Basic' /\ (~overlap' => Alone')
<1>. DEFINE c == loc[Ui].c
<1>1. pc[Ui] = "status" /\ UNCHANGED <<world, tables, players, crash, history, bounds>>
  BY DEF Status, At
<1>2. /\ Ui \in Actors /\ Ui \notin Nvrs /\ Nvrs \subseteq Actors /\ 0 \notin Carriages
      /\ c \in Carriages /\ NumWin \in Nat
  BY <1>1, Numbers, TrainFacts DEF Basic, Local, UiLocal
<1>3. Small'
  BY <1>1, SameSmall, TypeParts DEF Basic, Small, bounds
<1>4. Alone => c = select /\ current = c /\ m_bInitPreview /\ \A v \in Wins : New(v)
  BY <1>1 DEF Alone, UiWork
<1>. USE DEF Switching, Clearing, Closing, InMedia
<1>5. CASE connected[NvrOf[c]]
  <2>1. /\ Where' /\ pc'[Ui] = "each" /\ loc'[Ui].w = 1 /\ loc'[Ui].c = c
        /\ \A b \in Actors \ {Ui} : pc'[b] = pc[b] /\ loc'[b] = loc[b]
    <3>1. "each" \in Labels /\ 1 \in 0..(NumWin + 1)
      BY <1>2 DEF Labels
    <3>2. Goto(Ui, "each") /\ Put(Ui, [loc[Ui] EXCEPT !.w = 1])
      BY <1>5 DEF Status
    <3>. QED
      BY <1>1, <1>2, <3>1, <3>2, GotoFacts, PutW, WhereSame DEF Basic
  <2>2. Local'
    <3>1. UiLocal'
      BY <1>1, <1>2, <2>1 DEF UiLocal, UiLabels, Labels, Carriages, NvrOf, world
    <3>. QED
      BY <1>1, <1>2, <2>1, <3>1, UiLocalStep DEF Basic, world, Actors
  <2>3. ASSUME Alone PROVE Work(Ui)' /\ UiWork' /\ Carriage' /\ Emptied' /\ Showing'
    <3>1. Work(Ui)' /\ UiWork'
      BY <1>1, <1>4, <2>1, <2>3 DEF Work, UiWork, New, Still, players, tables
    <3>2. Carriage'
      BY <1>1, <2>1, <2>3
      DEF Alone, Carriage, Preparing, Running, Carriages, NvrOf, CamOf, Pos, players, tables,
          world,
          history
    <3>3. Emptied'
      BY <1>1, <1>2, <1>4, <2>1, <2>3 DEF Emptied, Preparing, tables
    <3>4. Showing'
      <4>1. \A v \in Wins : ~(v < 1)
        BY <1>2 DEF Wins
      <4>. QED
        BY <1>1, <1>4, <2>1, <2>3, <4>1 DEF Showing, ToShow, New, tables
    <3>. QED
      BY <3>1, <3>2, <3>3, <3>4
  <2>. QED
    BY <1>1, <1>2, <1>3, <2>1, <2>2, <2>3, ControlStep
    DEF Keep, tables, history, Moves, Busy, Basic
<1>6. CASE ~connected[NvrOf[c]]
  <2>1. /\ Where' /\ pc'[Ui] = "idle"
        /\ \A b \in Actors \ {Ui} : pc'[b] = pc[b] /\ loc'[b] = loc[b]
    BY <1>1, <1>2, <1>6, RestFacts, WhereSame DEF Basic, Status
  <2>2. Local'
    <3>1. UiLocal'
      BY <2>1 DEF UiLocal, UiLabels, Labels
    <3>. QED
      BY <1>1, <1>2, <2>1, <3>1, UiLocalStep DEF Basic, world, Actors
  <2>3. ASSUME Alone PROVE Work(Ui)' /\ UiWork' /\ Carriage' /\ Emptied' /\ Showing'
    <3>1. Work(Ui)' /\ UiWork'
      BY <2>1 DEF Work, UiWork
    <3>2. Carriage'
      BY <1>1, <2>1, <2>3
      DEF Alone, Carriage, Preparing, Running, Carriages, NvrOf, CamOf, Pos, players, tables,
          world,
          history
    <3>3. Emptied'
      BY <1>1, <1>2, <1>4, <2>1, <2>3 DEF Emptied, Preparing, tables
    <3>4. Showing'
      <4>1. \A v \in Wins : <<select, v>> \notin online
        BY <1>4, <1>6, <2>3 DEF Basic, OnlineConnected
      <4>. QED
        BY <1>1, <1>4, <2>1, <2>3, <4>1 DEF Showing, ToShow, New, tables, world
    <3>. QED
      BY <3>1, <3>2, <3>3, <3>4
  <2>. QED
    BY <1>1, <1>2, <1>3, <2>1, <2>2, <2>3, ControlStep
    DEF Keep, tables, history, Moves, Busy, Basic
<1>. QED
  BY <1>5, <1>6

\* The loop over the cameras goes on: what is shown stays shown.
LEMMA EachShows ==
    ASSUME TypeOK, Alone, pc[Ui] \in {"each", "open"}, pc'[Ui] \in {"idle", "each", "open"},
           UNCHANGED <<world, tables, players, history>>,
           \A n \in Nvrs : pc'[n] = pc[n] /\ loc'[n] = loc[n],
           \A v \in Wins : ToShow(v)' => ToShow(v)
    PROVE  Carriage' /\ Emptied' /\ Showing'
<1>. USE DEF Switching, Clearing, Closing, InMedia
<1>1. Carriage'
  BY
  DEF Alone, Carriage, Preparing, Running, Carriages, NvrOf, CamOf, Pos, players, tables, world,
         history
<1>2. Emptied'
  BY DEF Alone, Emptied, Preparing, tables, history
<1>3. Showing'
  <2>1. Watched' => Watched /\ NvrOf[select] \in Nvrs
    BY Numbers, TrainFacts DEF Watched, Carriages, NvrOf, world, tables, history
  <2>2. Watched' => current' = select' /\ m_bInitPreview' /\ \A v \in Wins : handle'[v] # 0
    BY <2>1 DEF Alone, Showing, tables
  <2>3. ASSUME Watched', NEW v \in Wins, ToShow(v)'
        PROVE  Shows(v)' \/ Pending(NvrOf[select], v)'
    <3>1. Shows(v) \/ Pending(NvrOf[select], v)
      BY <2>1, <2>3 DEF Alone, Showing
    <3>. QED
      BY <2>1, <2>3, <3>1 DEF Shows, Running, Pending, NvrOf, players, tables, world
  <2>. QED
    BY <2>2, <2>3 DEF Showing
<1>. QED
  BY <1>1, <1>2, <1>3

LEMMA EachStep ==
    ASSUME Basic, ~overlap => Alone, Meeting, Each
    PROVE  Basic' /\ (~overlap' => Alone')
<1>. DEFINE c == loc[Ui].c
            w == loc[Ui].w
            p == handle[w]
<1>1. pc[Ui] = "each" /\ UNCHANGED <<world, tables, players, crash, history, bounds>>
  BY DEF Each, At
<1>2. /\ Ui \in Actors /\ Ui \notin Nvrs /\ Nvrs \subseteq Actors
      /\ c \in Carriages /\ NumWin \in Nat /\ w \in 1..(NumWin + 1)
      /\ Len(Pos[c]) \in 0..NumWin /\ DOMAIN Pos[c] = 1..Len(Pos[c]) /\ DOMAIN Pos[c] \subseteq Wins
      /\ loc[Ui] \in Loc
  BY <1>1, Numbers, TrainFacts DEF Basic, Local, UiLocal, Loc
<1>3. Small'
  BY <1>1, SameSmall, TypeParts DEF Basic, Small, bounds
<1>4. Alone => /\ c = select /\ current = c /\ m_bInitPreview
               /\ \A v \in Wins : handle[v] # 0 /\ (v >= w => New(v))
  BY <1>1 DEF Alone, UiWork
<1>. USE DEF InMedia
<1>5. CASE w > Len(Pos[c])
  <2>1. /\ Where' /\ pc'[Ui] = "idle"
        /\ \A b \in Actors \ {Ui} : pc'[b] = pc[b] /\ loc'[b] = loc[b]
    BY <1>1, <1>2, <1>5, RestFacts, WhereSame DEF Basic, Each
  <2>2. Local'
    <3>1. UiLocal'
      BY <2>1 DEF UiLocal, UiLabels, Labels, Closing
    <3>. QED
      BY <1>1, <1>2, <2>1, <3>1, UiLocalStep DEF Basic, world, Actors
  <2>3. ASSUME Alone PROVE Work(Ui)' /\ UiWork' /\ Carriage' /\ Emptied' /\ Showing'
    <3>1. Work(Ui)' /\ UiWork'
      BY <2>1 DEF Work, UiWork, Closing, Clearing
    <3>2. \A v \in Wins : ToShow(v)' => ToShow(v)
      BY <1>1, <1>2, <1>4, <1>5, <2>3 DEF ToShow, Pos, world, tables, history
    <3>. QED
      BY <1>1, <1>2, <2>1, <2>3, <3>1, <3>2, EachShows DEF Basic
  <2>. QED
    BY <1>1, <1>2, <1>3, <2>1, <2>2, <2>3, ControlStep
    DEF Keep, tables, history, Moves, Busy, Basic
<1>6. CASE w <= Len(Pos[c]) /\ <<c, Pos[c][w]>> \notin online
  <2>1. /\ Where' /\ pc' = pc /\ loc'[Ui].w = w + 1 /\ loc'[Ui].c = c
        /\ \A b \in Actors \ {Ui} : loc'[b] = loc[b]
    <3>1. w + 1 \in 0..(NumWin + 1)
      BY <1>2, <1>6
    <3>2. pc' = pc /\ Put(Ui, [loc[Ui] EXCEPT !.w = w + 1])
      BY <1>2, <1>6 DEF Each
    <3>. QED
      BY <1>1, <1>2, <3>1, <3>2, PutW, WhereSame, TypeParts DEF Basic, Where
  <2>2. Local'
    <3>1. UiLocal'
      BY <1>1, <1>2, <2>1 DEF UiLocal, UiLabels, Labels, Closing, Carriages, NvrOf, world
    <3>. QED
      BY <1>1, <1>2, <2>1, <3>1, UiLocalStep DEF Basic, world, Actors
  <2>3. ASSUME Alone PROVE Work(Ui)' /\ UiWork' /\ Carriage' /\ Emptied' /\ Showing'
    <3>1. Work(Ui)' /\ UiWork'
      <4>1. \A v \in Wins : v >= w + 1 => v >= w
        BY <1>2 DEF Wins
      <4>. QED
        BY <1>1, <1>4, <2>1, <2>3, <4>1
        DEF Work, UiWork, Closing, Clearing, New, Still, tables, players
    <3>2. ASSUME NEW v \in Wins, ToShow(v)' PROVE ToShow(v)
      <4>1. /\ v \in DOMAIN Pos[select] \ excused /\ Pos[select][v] = v /\ <<select, v>> \in online
            /\ v < w + 1
        BY <1>1, <2>1, <3>2 DEF ToShow, Pos, world, tables, history
      <4>2. v # w
        BY <1>4, <1>6, <2>3, <4>1
      <4>3. v < w
        BY <1>2, <4>1, <4>2 DEF Wins
      <4>. QED
        BY <4>1, <4>3 DEF ToShow
    <3>. QED
      BY <1>1, <1>2, <2>1, <2>3, <3>1, <3>2, EachShows DEF Basic
  <2>. QED
    BY <1>1, <1>2, <1>3, <2>1, <2>2, <2>3, ControlStep
    DEF Keep, tables, history, Moves, Busy, Basic
<1>7. CASE w <= Len(Pos[c]) /\ <<c, Pos[c][w]>> \in online
  <2>. DEFINE x == IF p # 0 /\ player[p].state = "PLAY" THEN "close" ELSE "open"
              m == [loc[Ui] EXCEPT !.p = p, !.ret = "open"]
  <2>1. Put(Ui, m) /\ Goto(Ui, x) /\ w \in DOMAIN Pos[c] /\ w \in Wins
    BY <1>2, <1>7 DEF Each
  <2>2. /\ Where' /\ pc'[Ui] = x /\ loc'[Ui].w = w /\ loc'[Ui].c = c /\ loc'[Ui].p = p
        /\ loc'[Ui].ret = "open"
        /\ \A b \in Actors \ {Ui} : pc'[b] = pc[b] /\ loc'[b] = loc[b]
    <3>1. x \in Labels /\ "open" \in Labels /\ p \in 0..Len(player)
      BY <2>1, TypeParts DEF Labels, Basic, Big
    <3>2. m \in Loc /\ m.p = p /\ m.ret = "open" /\ m.c = c /\ m.w = w
      BY <1>2, <3>1 DEF Loc
    <3>. HIDE DEF m, x
    <3>. QED
      BY <1>1, <1>2, <2>1, <3>1, <3>2, MoveFacts, WhereSame DEF Basic
  <2>3. Local'
    <3>1. UiLocal'
      BY <1>1, <1>2, <2>1, <2>2
      DEF UiLocal, UiLabels, Labels, Closing, Carriages, NvrOf, Pos, world
    <3>2. pc'[Ui] \in InMedia => loc'[Ui].p # 0
      BY <2>2
    <3>. QED
      BY <1>1, <1>2, <2>2, <3>1, <3>2, UiLocalStep DEF Basic, world, Actors
  <2>4. ASSUME Alone PROVE Work(Ui)' /\ UiWork' /\ Carriage' /\ Emptied' /\ Showing'
    <3>1. New(w)
      BY <1>2, <1>4, <2>1, <2>4
    <3>2. pc'[Ui] = "open"
      BY <2>2, <3>1 DEF New, Still
    <3>3. Work(Ui)' /\ UiWork'
      BY <1>1, <1>4, <2>2, <2>4, <3>2
      DEF Work, UiWork, Closing, Clearing, New, Still, tables, players
    <3>4. \A v \in Wins : ToShow(v)' => ToShow(v)
      BY <1>1, <2>2, <3>2 DEF ToShow, Pos, world, tables, history
    <3>. QED
      BY <1>1, <1>2, <2>2, <2>4, <3>2, <3>3, <3>4, EachShows DEF Basic
  <2>. QED
    BY <1>1, <1>2, <1>3, <2>2, <2>3, <2>4, ControlStep
    DEF Keep, tables, history, Moves, Busy, Basic
<1>. QED
  BY <1>2, <1>5, <1>6, <1>7

-----------------------------------------------------------------------------
(* New players *)

\* A new player gets a place in the tables.
LEMMA Adding ==
    ASSUME TypeOK, Alone, ~overlap, CMP_Init, thread' = thread,
           handle' \in [Wins -> 0..(Len(player) + 1)],
           playback' \in {playback, Len(player) + 1},
           \A v \in Wins : handle'[v] \in {handle[v], Len(player) + 1},
           \A u, v \in Wins : handle'[u] = Len(player) + 1 /\ handle'[v] = Len(player) + 1 => u = v,
           \A v \in Wins : ~(handle'[v] = Len(player) + 1 /\ playback' = Len(player) + 1),
           playback' = Len(player) + 1 \/ \E v \in Wins : handle'[v] = Len(player) + 1,
           playback' # playback => playback = 0,
           \A v \in Wins : handle'[v] # handle[v] =>
              /\ wrapped \/ \A t \in DOMAIN thread : Running(t) => thread[t].p # handle[v]
              /\ wrapped \/ beyond \/ reinit \/ handle[v] = 0,
           UNCHANGED <<wrapped, beyond, reinit>>, \A a \in Actors : pc[a] # "wait"
    PROVE  Tables' /\ Threads' /\ NoStray' /\ NothingLost'
<1>. DEFINE N == Len(player) + 1
<1>1. /\ DOMAIN player' = DOMAIN player \cup {N} /\ DOMAIN thread' = DOMAIN thread
      /\ N \notin DOMAIN player /\ N # 0 /\ playback # N
      /\ \A v \in Wins : handle[v] # N /\ (handle[v] # 0 => handle[v] \in DOMAIN player)
      /\ playback # 0 => playback \in DOMAIN player
      /\ \A q \in DOMAIN player : player'[q] = player[q]
      /\ player'[N].live /\ player'[N].h = 0
      /\ \A t \in DOMAIN thread : thread[t].p \in DOMAIN player /\ thread[t].p # 0 /\ thread[t].p # N
  <2>1. /\ handle \in [Wins -> 0..Len(player)] /\ playback \in 0..Len(player)
        /\ Len(player) \in Nat /\ DOMAIN player = 1..Len(player)
        /\ \A t \in DOMAIN thread : thread[t].p \in DOMAIN player
    BY Numbers, TypeParts DEF Big
  <2>2. /\ DOMAIN player' = DOMAIN player \cup {N}
        /\ \A q \in DOMAIN player : player'[q] = player[q]
        /\ player'[N] = NewPlayer
    BY InitFacts
  <2>3. NewPlayer.live /\ NewPlayer.h = 0
    BY DEF NewPlayer
  <2>. QED
    BY <2>1, <2>2, <2>3
<1>. HIDE DEF N
<1>2. /\ playback' \in {playback, N} /\ \A v \in Wins : handle'[v] \in {handle[v], N}
      /\ \A u, v \in Wins : handle'[u] = N /\ handle'[v] = N => u = v
      /\ \A v \in Wins : ~(handle'[v] = N /\ playback' = N)
      /\ playback' = N \/ \E v \in Wins : handle'[v] = N
  BY DEF N
<1>3. Tables'
  <2>1. ASSUME NEW u \in Wins, NEW v \in Wins, handle'[u] = handle'[v], handle'[u] # 0 PROVE u = v
    BY <1>1, <1>2, <2>1 DEF Alone, Tables
  <2>2. ASSUME NEW v \in Wins, handle'[v] # 0
        PROVE  player'[handle'[v]].live /\ handle'[v] # playback'
    BY <1>1, <1>2, <2>2 DEF Alone, Tables, Live
  <2>3. playback' # 0 => player'[playback'].live
    BY <1>1, <1>2 DEF Alone, Tables, Live
  <2>. QED
    BY <2>1, <2>2, <2>3 DEF Tables, Live
<1>4. Threads'
  <2>1. \A t \in DOMAIN thread' : Running(t)' => player'[thread'[t].p].h = t
    BY <1>1 DEF Alone, Threads, Running
  <2>2. \A q \in DOMAIN player' : player'[q].h # 0 => thread'[player'[q].h].p = q
    BY <1>1 DEF Alone, Threads
  <2>3. ASSUME NEW t \in DOMAIN thread', NEW w \in Wins, Running(t)', thread'[t].p = handle'[w]
        PROVE  player'[handle'[w]].flag
    <3>1. handle'[w] = handle[w] /\ handle[w] \in DOMAIN player /\ Running(t)
      BY <1>1, <1>2, <2>3 DEF Running
    <3>. QED
      BY <1>1, <2>3, <3>1 DEF Alone, Threads
  <2>. QED
    BY <2>1, <2>2, <2>3 DEF Threads
<1>5. NoStray'
  <2>1. ASSUME ~wrapped, NEW t \in DOMAIN thread, Running(t) PROVE InTable(thread[t].p)'
    <3>1. thread[t].p = playback \/ \E v \in Wins : thread[t].p = handle[v]
      BY <2>1 DEF Alone, NoStray, InTable
    <3>2. thread[t].p = playback => playback' = playback
      BY <1>1
    <3>3. \A v \in Wins : thread[t].p = handle[v] => handle'[v] = handle[v]
      BY <2>1
    <3>. QED
      BY <3>1, <3>2, <3>3 DEF InTable
  <2>. QED
    BY <1>1, <2>1 DEF NoStray, Running, InTable
<1>6. NothingLost'
  <2>1. ASSUME ~wrapped, ~beyond, ~reinit, NEW q \in DOMAIN player, player[q].live
        PROVE  q = playback' \/ \E v \in Wins : q = handle'[v]
    <3>1. q # 0 /\ (q = playback \/ \E v \in Wins : q = handle[v])
      BY <2>1, Numbers DEF Alone, NothingLost, InTable, Live
    <3>2. q = playback => playback' = playback
      BY <3>1
    <3>3. \A v \in Wins : q = handle[v] => handle'[v] = handle[v]
      BY <2>1, <3>1
    <3>. QED
      BY <3>1, <3>2, <3>3
  <2>. QED
    BY <1>1, <1>2, <2>1 DEF NothingLost, Live, InTable
<1>. QED
  BY <1>3, <1>4, <1>5, <1>6

\* The types, where a player is added.
LEMMA AddingBig ==
    ASSUME TypeOK, train' = train, CMP_Init, thread' = thread,
           handle' \in [Wins -> 0..(Len(player) + 1)], playback' \in 0..(Len(player) + 1)
    PROVE  Big' /\ Loc \subseteq Loc'
<1>1. /\ player' \in Seq(Player) /\ Len(player') = Len(player) + 1 /\ Len(player) \in Nat
      /\ thread \in Seq(Thread) /\ DOMAIN thread = 1..Len(thread) /\ Len(thread) \in Nat
      /\ \A t \in DOMAIN thread : thread[t] \in Thread
  BY InitFacts, Numbers
<1>2. Thread \subseteq Thread' /\ Player' = Player /\ Loc \subseteq Loc'
  BY <1>1 DEF Thread, Player, Loc, Cameras, Carriages, NvrOf, Pos
<1>3. thread' \in Seq(Thread')
  <2>1. \A t \in 1..Len(thread) : thread[t] \in Thread'
    BY <1>1, <1>2
  <2>. QED
    BY <1>1, <2>1
<1>. QED
  BY <1>1, <1>2, <1>3 DEF Big

\* The player of a window is replaced by a new one.
LEMMA InitWindow ==
    ASSUME TypeOK, NEW w \in Wins, CMP_Init, handle' = [handle EXCEPT ![w] = Len(player) + 1]
    PROVE  /\ handle' \in [Wins -> 0..(Len(player) + 1)]
           /\ handle'[w] = Len(player) + 1 /\ \A v \in Wins \ {w} : handle'[v] = handle[v]
           /\ \A v \in Wins : handle[v] # Len(player) + 1
BY Numbers, TypeParts DEF Big

LEMMA InitPreviewUi ==
    ASSUME Basic, ~overlap => Alone, Meeting, InitPreview(Ui)
    PROVE  Basic' /\ (~overlap' => Alone')
<1>. DEFINE w == loc[Ui].w
            c == loc[Ui].c
            N == Len(player) + 1
<1>1. /\ pc[Ui] = "init"
      /\ UNCHANGED <<world, playback, current, select, m_bInitPreview, polling, seen, thread,
                     crash, history, bounds>>
  BY DEF InitPreview, At
<1>2. /\ Ui \in Actors /\ Ui \notin Nvrs /\ Nvrs \subseteq Actors
      /\ w \in 1..(NumWin + 1) /\ NumWin \in Nat /\ Wins = 1..NumWin /\ Len(player) \in Nat
  BY <1>1, Numbers, TrainFacts DEF Basic, Local, UiLocal, Loc, Wins
<1>3. Small'
  BY <1>1, SmallStep, TypeParts DEF Basic, Small, bounds, history, Carriages, NvrOf, world
<1>4. Alone => /\ \A v \in Wins : v < w => New(v)
               /\ c = select /\ (c \in Carriages \/ beyond) /\ (wrapped \/ current = 0)
  BY <1>1 DEF Alone, UiWork
<1>. USE DEF Busy, Switching, Clearing, Closing, InMedia
<1>5. CASE w > NumWin
  <2>1. Goto(Ui, "inited") /\ UNCHANGED <<handle, player, loc>>
    BY <1>5 DEF InitPreview
  <2>2. /\ Where' /\ pc'[Ui] = "inited"
        /\ \A b \in Actors \ {Ui} : pc'[b] = pc[b] /\ loc'[b] = loc[b]
    <3>1. "inited" \in Labels
      BY DEF Labels
    <3>. QED
      BY <1>1, <1>2, <2>1, <3>1, GotoFacts, WhereSame, Numbers DEF Basic, players
  <2>3. UiLocal'
    BY <1>1, <2>1, <2>2 DEF Basic, Local, UiLocal, UiLabels, Labels
  <2>4. ASSUME Alone PROVE Work(Ui)' /\ UiWork' /\ Carriage' /\ Emptied'
    <3>1. \A v \in Wins : New(v)
      BY <1>2, <1>4, <1>5, <2>4
    <3>2. Work(Ui)' /\ UiWork'
      BY <1>1, <1>4, <2>1, <2>2, <2>4, <3>1
      DEF Work, UiWork, New, Still, Carriages, NvrOf, world, history
    <3>3. Carriage'
      <4>1. \A v \in Wins : \A t \in DOMAIN thread : Running(t) => thread[t].p # handle[v]
        BY <2>4, <3>1, NewShowsNothing DEF Alone, Basic
      <4>. QED
        BY <1>1, <2>1, <2>2, <2>4, <4>1
        DEF Alone, Carriage, Preparing, Running, Carriages, NvrOf, world, history
    <3>4. Emptied'
      BY <1>1, <2>1, <2>2, <2>4 DEF Alone, Emptied, Preparing, history
    <3>. QED
      BY <3>2, <3>3, <3>4
  <2>. QED
    BY <1>1, <1>2, <1>3, <2>1, <2>2, <2>3, <2>4, UiOnTheWay DEF Keep, players, Moves
<1>6. CASE w <= NumWin
  <2>1. /\ CMP_Init /\ handle' = [handle EXCEPT ![w] = N] /\ w \in Wins
        /\ Put(Ui, [loc[Ui] EXCEPT !.w = w + 1]) /\ pc' = pc
    BY <1>2, <1>6 DEF InitPreview
  <2>2. /\ handle' \in [Wins -> 0..N] /\ handle'[w] = N /\ \A v \in Wins \ {w} : handle'[v] = handle[v]
        /\ \A v \in Wins : handle[v] # N
        /\ playback \in 0..Len(player) /\ playback # N
    BY <1>2, <2>1, InitWindow, TypeParts DEF Basic, Big
  <2>3. Big' /\ Loc \subseteq Loc'
    BY <1>1, <1>2, <2>1, <2>2, AddingBig DEF Basic, world
  <2>4. /\ Where' /\ pc' = pc /\ loc'[Ui].w = w + 1 /\ loc'[Ui].c = c
        /\ \A b \in Actors \ {Ui} : loc'[b] = loc[b]
    <3>1. w + 1 \in 0..(NumWin + 1)
      BY <1>2, <1>6
    <3>2. /\ loc' \in [Actors -> Loc] /\ loc'[Ui].w = w + 1 /\ loc'[Ui].c = c
          /\ \A b \in Actors \ {Ui} : loc'[b] = loc[b]
      BY <1>2, <2>1, <3>1, PutW DEF Basic
    <3>3. loc' \in [Actors -> Loc']
      BY <2>3, <3>2
    <3>. QED
      BY <2>1, <3>2, <3>3, TypeParts DEF Basic, Where
  <2>5. UiLocal'
    BY <1>1, <1>2, <2>4 DEF Basic, Local, UiLocal, UiLabels, Labels
  <2>6. ASSUME ~overlap, Alone, \A n \in Nvrs : ~Busy(n)
        PROVE  /\ Tables' /\ Threads' /\ NoStray' /\ NothingLost'
               /\ Work(Ui)' /\ UiWork' /\ Carriage' /\ Emptied' /\ Showing'
    <3>1. Tables' /\ Threads' /\ NoStray' /\ NothingLost'
      <4>1. wrapped \/ \A t \in DOMAIN thread : Running(t) => thread[t].p # handle[w]
        BY <1>4, <2>1, <2>6, Numbers, TrainFacts DEF Alone, Carriage, Basic
      <4>2. wrapped \/ beyond \/ reinit \/ handle[w] = 0
        BY <1>1, <1>2, <2>1, <2>6 DEF Alone, Emptied
      <4>3. \A a \in Actors : pc[a] # "wait"
        BY <1>1, <2>6 DEF Actors
      <4>4. \A v \in Wins : handle'[v] # handle[v] => v = w
        BY <2>2
      <4>5. \A v \in Wins : handle'[v] = N => v = w
        BY <2>2
      <4>. QED
        BY <1>1, <2>1, <2>2, <2>6, <4>1, <4>2, <4>3, <4>4, <4>5, Adding DEF Basic, history
    <3>2. Work(Ui)'
      BY <1>1, <2>4 DEF Work
    <3>3. UiWork'
      <4>1. ASSUME NEW v \in Wins, v < w + 1 PROVE New(v)'
        <5>1. CASE v = w
          <6>1. N # 0 /\ player'[N] = NewPlayer
            BY <1>2, <2>1, InitFacts DEF Basic
          <6>. QED
            BY <2>2, <5>1, <6>1 DEF New, Still, NewPlayer
        <5>2. CASE v # w
          <6>1. v < w
            BY <1>2, <4>1, <5>2
          <6>2. New(v) /\ handle'[v] = handle[v] /\ handle[v] \in DOMAIN player
            BY <1>4, <2>2, <2>6, <5>2, <6>1, TypeParts, Numbers DEF New, Basic, Big
          <6>3. player'[handle[v]] = player[handle[v]]
            BY <2>1, <6>2, InitFacts DEF Basic
          <6>. QED
            BY <6>2, <6>3 DEF New, Still
        <5>. QED
          BY <5>1, <5>2
      <4>. QED
        BY <1>1, <1>4, <2>4, <2>6, <4>1 DEF UiWork, Carriages, NvrOf, world, history
    <3>4. Carriage'
      <4>1. \A t \in DOMAIN thread : thread[t].p # N
        BY <1>2, Numbers DEF Basic
      <4>2. \A v \in Wins : \A t \in DOMAIN thread : thread[t].p = handle'[v] => handle'[v] = handle[v]
        BY <2>2, <4>1
      <4>. QED
        BY <1>1, <2>4, <2>6, <4>2, CarriageStep DEF Preparing, Running, world, history
    <3>5. Emptied'
      <4>1. \A v \in Wins : v >= w + 1 => v # w /\ v >= w
        BY <1>2
      <4>. QED
        BY <1>1, <2>2, <2>4, <2>6, <4>1 DEF Alone, Emptied, Preparing, history
    <3>6. Showing'
      BY <1>1, <2>4, <2>6 DEF Alone, Showing, Watched, Carriages, NvrOf, world, history
    <3>. QED
      BY <3>1, <3>2, <3>3, <3>4, <3>5, <3>6
  <2>. QED
    BY <1>1, <1>3, <2>3, <2>4, <2>5, <2>6, UiStepFrom DEF Moves, Basic, history
<1>. QED
  BY <1>2, <1>5, <1>6

LEMMA InitPreviewConn ==
    ASSUME Basic, ~overlap => Alone, Meeting, NEW n \in Nvrs, InitPreview(n)
    PROVE  Basic' /\ (~overlap' => Alone')
<1>. DEFINE w == loc[n].w
            N == Len(player) + 1
<1>1. /\ pc[n] = "init"
      /\ UNCHANGED <<world, playback, current, select, m_bInitPreview, polling, seen, thread,
                     crash, history, bounds>>
  BY DEF InitPreview, At
<1>2. /\ n \in Actors /\ n # Ui /\ Ui \in Actors /\ Ui \notin Nvrs /\ Nvrs \subseteq Actors
      /\ w \in 1..(NumWin + 1) /\ NumWin \in Nat /\ Wins = 1..NumWin /\ Len(player) \in Nat
  BY <1>1, Numbers, TrainFacts DEF Basic, Local, ConnLocal, Loc, Wins
<1>3. Small'
  BY <1>1, SmallStep, TypeParts DEF Basic, Small, bounds, history, Carriages, NvrOf, world
<1>4. Alone => /\ ~m_bInitPreview /\ reinit /\ current = 0 /\ select \in {0, loc[n].c}
               /\ \A v \in Wins : \A t \in DOMAIN thread : Running(t) => thread[t].p # handle[v]
  BY <1>1, Numbers, TrainFacts DEF Alone, ConnWork, Busy, Carriage, Basic
<1>5. Alone /\ ~Busy(Ui) => ~Switching /\ ~Watched
  BY <1>4 DEF Alone, Showing, Busy, Switching, Clearing, Closing, InMedia
<1>. USE DEF Closing, InMedia
<1>6. CASE w > NumWin
  <2>1. Goto(n, "start") /\ UNCHANGED <<handle, player, loc>>
    BY <1>2, <1>6 DEF InitPreview
  <2>2. /\ Where' /\ pc'[n] = "start"
        /\ \A b \in Actors \ {n} : pc'[b] = pc[b] /\ loc'[b] = loc[b]
    <3>1. "start" \in Labels
      BY DEF Labels
    <3>. QED
      BY <1>1, <1>2, <2>1, <3>1, GotoFacts, WhereSame, Numbers DEF Basic, players
  <2>3. ConnLocal(n)'
    BY <1>1, <2>1, <2>2
    DEF Basic, Local, ConnLocal, ConnLabels, ConnPlaces, world, Carriages, NvrOf
  <2>4. Big'
    BY <1>1, <2>1, SameBig DEF Basic, players, world
  <2>5. ASSUME ~overlap, Alone, \A b \in Actors \ {n} : ~Busy(b)
        PROVE  /\ Tables' /\ Threads' /\ NoStray' /\ NothingLost'
               /\ Work(n)' /\ ConnWork(n)' /\ Carriage' /\ Emptied' /\ Showing'
    <3>1. Tables' /\ Threads' /\ NoStray' /\ NothingLost'
      <4>1. \A a \in Actors : pc[a] = "wait" => pc'[a] = "wait" /\ loc'[a].p = loc[a].p
        BY <1>1, <2>1, <2>2
      <4>. QED
        BY <1>1, <2>1, <2>5, <4>1, SameTables DEF history
    <3>2. Work(n)' /\ ConnWork(n)'
      BY <1>1, <1>4, <2>1, <2>2, <2>5 DEF Work, ConnWork, Busy, ConnPlaces
    <3>3. Carriage' /\ Emptied' /\ Showing'
      BY <1>1, <1>2, <2>1, <2>2, <2>5, AsideShows DEF Keep, KeepCarriage, players
    <3>. QED
      BY <3>1, <3>2, <3>3
  <2>. QED
    BY <1>1, <1>2, <1>3, <2>1, <2>2, <2>3, <2>4, <2>5, ConnStepFrom
    DEF Moves, Busy, Basic, history
<1>7. CASE w <= NumWin
  <2>1. /\ CMP_Init /\ handle' = [handle EXCEPT ![w] = N] /\ w \in Wins
        /\ Put(n, [loc[n] EXCEPT !.w = w + 1]) /\ pc' = pc
    BY <1>2, <1>7 DEF InitPreview
  <2>2. /\ handle' \in [Wins -> 0..N] /\ handle'[w] = N /\ \A v \in Wins \ {w} : handle'[v] = handle[v]
        /\ \A v \in Wins : handle[v] # N
        /\ playback \in 0..Len(player) /\ playback # N
    BY <1>2, <2>1, InitWindow, TypeParts DEF Basic, Big
  <2>3. Big' /\ Loc \subseteq Loc'
    BY <1>1, <1>2, <2>1, <2>2, AddingBig DEF Basic, world
  <2>4. /\ Where' /\ pc' = pc /\ loc'[n].w = w + 1 /\ loc'[n].c = loc[n].c /\ loc'[n].pos = loc[n].pos
        /\ \A b \in Actors \ {n} : loc'[b] = loc[b]
    <3>1. w + 1 \in 0..(NumWin + 1)
      BY <1>2, <1>7
    <3>2. /\ loc' \in [Actors -> Loc] /\ loc'[n].w = w + 1 /\ loc'[n].c = loc[n].c
          /\ loc'[n].pos = loc[n].pos /\ \A b \in Actors \ {n} : loc'[b] = loc[b]
      BY <1>2, <2>1, <3>1, PutW DEF Basic
    <3>3. loc' \in [Actors -> Loc']
      BY <2>3, <3>2
    <3>. QED
      BY <2>1, <3>2, <3>3, TypeParts DEF Basic, Where
  <2>5. ConnLocal(n)'
    BY <1>1, <1>2, <2>4
    DEF Basic, Local, ConnLocal, ConnLabels, ConnPlaces, world, Carriages, NvrOf
  <2>6. ASSUME ~overlap, Alone, \A b \in Actors \ {n} : ~Busy(b)
        PROVE  /\ Tables' /\ Threads' /\ NoStray' /\ NothingLost'
               /\ Work(n)' /\ ConnWork(n)' /\ Carriage' /\ Emptied' /\ Showing'
    <3>1. Tables' /\ Threads' /\ NoStray' /\ NothingLost'
      <4>1. reinit /\ \A t \in DOMAIN thread : Running(t) => thread[t].p # handle[w]
        BY <1>4, <2>1, <2>6
      <4>3. \A a \in Actors : pc[a] # "wait"
        BY <1>1, <2>6 DEF Actors, Busy
      <4>4. \A v \in Wins : handle'[v] # handle[v] => v = w
        BY <2>2
      <4>5. \A v \in Wins : handle'[v] = N => v = w
        BY <2>2
      <4>. QED
        BY <1>1, <2>1, <2>2, <2>6, <4>1, <4>3, <4>4, <4>5, Adding DEF Basic, history
    <3>2. Work(n)' /\ ConnWork(n)'
      BY <1>1, <1>4, <2>4, <2>6 DEF Work, ConnWork, Busy, ConnPlaces, history
    <3>3. Carriage'
      <4>1. \A t \in DOMAIN thread : thread[t].p # N
        BY <1>2, Numbers DEF Basic
      <4>2. \A v \in Wins : \A t \in DOMAIN thread : thread[t].p = handle'[v] => handle'[v] = handle[v]
        BY <2>2, <4>1
      <4>. QED
        BY <1>1, <2>4, <2>6, <4>2, CarriageStep DEF Preparing, Running, world, history
    <3>4. Emptied'
      BY <1>1, <1>4, <2>6 DEF Emptied, history
    <3>5. Showing'
      <4>1. ~Switching /\ ~Watched
        BY <1>2, <1>5, <2>6
      <4>2. ~Watched'
        BY <1>1, <4>1 DEF Watched, Carriages, NvrOf, world, history
      <4>. QED
        BY <4>2 DEF Showing
    <3>. QED
      BY <3>1, <3>2, <3>3, <3>4, <3>5
  <2>. QED
    BY <1>1, <1>2, <1>3, <2>3, <2>4, <2>5, <2>6, ConnStepFrom DEF Moves, Busy, Basic, history
<1>. QED
  BY <1>2, <1>6, <1>7

-----------------------------------------------------------------------------
(* New threads *)

\* A player that has no thread and is in the tables gets one.
LEMMA Opening ==
    ASSUME TypeOK, Alone, ~overlap, NEW p \in DOMAIN player, player[p].h = 0, InTable(p),
           NEW cam \in Cameras \cup {NoCam, File}, NEW state \in States, Open(p, cam, state),
           UNCHANGED <<handle, playback, wrapped, beyond, reinit>>, \A a \in Actors : pc[a] # "wait"
    PROVE  /\ Tables' /\ Threads' /\ NoStray' /\ NothingLost'
           /\ \A v \in Wins : Shows(v) \/ handle[v] = p => Shows(v)'
<1>. DEFINE T == Len(thread) + 1
<1>1. /\ DOMAIN player' = DOMAIN player /\ DOMAIN thread' = DOMAIN thread \cup {T}
      /\ T \notin DOMAIN thread
      /\ \A t \in DOMAIN thread : thread'[t] = thread[t] /\ thread[t].p \in DOMAIN player
      /\ thread'[T].p = p /\ thread'[T].at = "login"
      /\ player'[p].flag /\ player'[p].h = T
      /\ \A q \in DOMAIN player : player'[q].live = player[q].live
      /\ \A q \in DOMAIN player \ {p} : player'[q] = player[q]
  BY OpenFacts, Numbers
<1>2. /\ \A v \in Wins : handle[v] # 0 => handle[v] \in DOMAIN player
      /\ playback # 0 => playback \in DOMAIN player
      /\ \A t \in DOMAIN thread : thread[t].p # 0
  BY Numbers, TypeParts DEF Big
<1>3. \A t \in DOMAIN thread : Running(t) => thread[t].p # p
  <2>1. \A t \in DOMAIN thread : t # 0
    BY Numbers
  <2>. QED
    BY <2>1 DEF Alone, Threads
<1>4. \A t \in DOMAIN thread' : Running(t)' <=> t = T \/ (t \in DOMAIN thread /\ Running(t))
  BY <1>1 DEF Running
<1>. HIDE DEF T
<1>5. Tables'
  BY <1>1, <1>2 DEF Alone, Tables, Live
<1>6. Threads'
  <2>1. \A t \in DOMAIN thread' : Running(t)' => player'[thread'[t].p].h = t
    BY <1>1, <1>3, <1>4 DEF Alone, Threads
  <2>2. ASSUME NEW q \in DOMAIN player', player'[q].h # 0 PROVE thread'[player'[q].h].p = q
    <3>1. CASE q = p
      BY <1>1, <3>1
    <3>2. CASE q # p
      <4>1. player'[q].h = player[q].h /\ player[q].h \in DOMAIN thread
        BY <1>1, <2>2, <3>2, Numbers DEF Player
      <4>. QED
        BY <1>1, <2>2, <4>1 DEF Alone, Threads
    <3>. QED
      BY <3>1, <3>2
  <2>3. ASSUME NEW t \in DOMAIN thread', NEW w \in Wins, Running(t)', thread'[t].p = handle'[w]
        PROVE  player'[handle'[w]].flag
    <3>1. CASE t = T
      BY <1>1, <2>3, <3>1
    <3>2. CASE t # T
      <4>1. t \in DOMAIN thread /\ Running(t) /\ thread[t].p = handle[w]
        BY <1>1, <1>4, <2>3, <3>2
      <4>2. handle[w] # p /\ handle[w] \in DOMAIN player /\ player[handle[w]].flag
        BY <1>1, <1>3, <4>1 DEF Alone, Threads
      <4>. QED
        BY <1>1, <4>2
    <3>. QED
      BY <3>1, <3>2
  <2>. QED
    BY <2>1, <2>2, <2>3 DEF Threads
<1>7. NoStray'
  BY <1>1, <1>4 DEF Alone, NoStray, InTable
<1>8. NothingLost'
  BY <1>1 DEF Alone, NothingLost, Live, InTable
<1>9. \A v \in Wins : Shows(v) \/ handle[v] = p => Shows(v)'
  BY <1>1, <1>4 DEF Shows
<1>. QED
  BY <1>5, <1>6, <1>7, <1>8, <1>9

LEMMA OpeningBig ==
    ASSUME TypeOK, train' = train, NEW p \in DOMAIN player, NEW cam \in Cameras \cup {NoCam, File},
           NEW state \in States, Open(p, cam, state), UNCHANGED <<handle, playback>>
    PROVE  Big' /\ Loc \subseteq Loc'
<1>1. /\ Len(player') = Len(player) /\ Len(thread') = Len(thread) + 1
      /\ Len(player) \in Nat /\ Len(thread) \in Nat
      /\ player' \in Seq(Player') /\ thread' \in Seq(Thread')
  BY OpenFacts, Numbers
<1>. QED
  BY <1>1, TypeParts DEF Big, Loc

LEMMA OpenPreviewUi ==
    ASSUME Basic, ~overlap => Alone, Meeting, OpenPreview(Ui)
    PROVE  Basic' /\ (~overlap' => Alone')
<1>. DEFINE w == loc[Ui].w
            c == loc[Ui].c
            p == handle[w]
            T == Len(thread) + 1
<1>1. /\ pc[Ui] = "open" /\ UNCHANGED <<world, tables, crash, history, bounds>>
      /\ Goto(Ui, "each") /\ Put(Ui, [loc[Ui] EXCEPT !.w = w + 1])
      /\ IF p = 0 THEN UNCHANGED players ELSE Live(p) /\ Open(p, CamOf(c, w), "IDLE")
  BY DEF OpenPreview, At
<1>2. /\ Ui \in Actors /\ Ui \notin Nvrs /\ Nvrs \subseteq Actors
      /\ c \in Carriages /\ w \in Wins /\ NumWin \in Nat /\ Wins = 1..NumWin
      /\ p \in 0..Len(player) /\ DOMAIN player = 1..Len(player) /\ Len(player) \in Nat
      /\ Len(thread) \in Nat /\ DOMAIN thread = 1..Len(thread)
  BY <1>1, Numbers, TrainFacts, TypeParts DEF Basic, Local, UiLocal, Wins, Big
<1>3. Small'
  BY <1>1, SameSmall, TypeParts DEF Basic, Small, bounds
<1>4. CamOf(c, w) \in Cameras \cup {NoCam, File} /\ "IDLE" \in States
  BY <1>2, CamFacts, TypeParts DEF Basic, Small, States
<1>5. Big' /\ Loc \subseteq Loc'
  <2>1. CASE p = 0
    BY <1>1, <2>1, SameBig DEF Basic, tables, world
  <2>2. CASE p # 0
    <3>1. p \in DOMAIN player /\ Open(p, CamOf(c, w), "IDLE")
      BY <1>1, <1>2, <2>2
    <3>. HIDE DEF p, w, c
    <3>. QED
      BY <1>1, <1>4, <3>1, OpeningBig DEF Basic, tables, world
  <2>. QED
    BY <2>1, <2>2
<1>6. /\ Where' /\ pc'[Ui] = "each" /\ loc'[Ui].w = w + 1 /\ loc'[Ui].c = c
      /\ \A b \in Actors \ {Ui} : pc'[b] = pc[b] /\ loc'[b] = loc[b]
  <2>1. "each" \in Labels /\ w + 1 \in 0..(NumWin + 1)
    BY <1>2 DEF Labels
  <2>2. /\ loc' \in [Actors -> Loc] /\ loc'[Ui].w = w + 1 /\ loc'[Ui].c = c
        /\ \A b \in Actors \ {Ui} : loc'[b] = loc[b]
    BY <1>1, <1>2, <2>1, PutW DEF Basic
  <2>3. loc' \in [Actors -> Loc']
    BY <1>5, <2>2
  <2>. QED
    BY <1>1, <1>2, <2>1, <2>2, <2>3, GotoFacts DEF Basic, Where
<1>. USE DEF Busy, Switching, Clearing, Closing, InMedia
<1>7. UiLocal'
  BY <1>1, <1>2, <1>6 DEF UiLocal, UiLabels, Labels, Carriages, NvrOf, world
<1>8. ASSUME ~overlap, Alone, \A n \in Nvrs : ~Busy(n)
      PROVE  /\ Tables' /\ Threads' /\ NoStray' /\ NothingLost'
             /\ Work(Ui)' /\ UiWork' /\ Carriage' /\ Emptied' /\ Showing'
  <2>1. /\ \A v \in Wins : handle[v] # 0 /\ (v >= w => New(v))
        /\ c = select /\ current = c /\ m_bInitPreview
    BY <1>1, <1>8 DEF Alone, UiWork
  <2>2. p # 0 /\ p \in DOMAIN player /\ player[p].h = 0 /\ InTable(p) /\ Open(p, CamOf(c, w), "IDLE")
    BY <1>1, <1>2, <2>1 DEF New, Still, InTable
  <2>3. /\ Tables' /\ Threads' /\ NoStray' /\ NothingLost'
        /\ \A v \in Wins : Shows(v) \/ handle[v] = p => Shows(v)'
    <3>1. \A a \in Actors : pc[a] # "wait"
      BY <1>1, <1>8 DEF Actors
    <3>. HIDE DEF p, w, c
    <3>. QED
      BY <1>1, <1>4, <1>8, <2>2, <3>1, Opening DEF Basic, tables, history
  <2>4. /\ DOMAIN thread' = DOMAIN thread \cup {T}
        /\ \A t \in DOMAIN thread : thread'[t] = thread[t]
        /\ thread'[T].p = p /\ thread'[T].cam = CamOf(c, w)
        /\ \A q \in DOMAIN player \ {p} : player'[q] = player[q]
    <3>. HIDE DEF p, w, c
    <3>. QED
      BY <1>4, <2>2, OpenFacts DEF Basic
  <2>. HIDE DEF p, T
  <2>5. Work(Ui)'
    BY <1>6 DEF Work
  <2>6. UiWork'
    <3>1. ASSUME NEW v \in Wins, v >= w + 1 PROVE New(v)'
      <4>1. v # w /\ v >= w
        BY <1>2, <3>1
      <4>2. handle[v] # p /\ handle[v] \in DOMAIN player /\ New(v)
        BY <1>2, <1>8, <2>1, <4>1, TypeParts, Numbers DEF Alone, Tables, p, Basic, Big
      <4>. QED
        BY <1>1, <2>4, <4>2 DEF New, Still, tables
    <3>. QED
      BY <1>1, <1>6, <2>1, <3>1 DEF UiWork, tables
  <2>7. Carriage'
    <3>1. ASSUME NEW v \in Wins, NEW t \in DOMAIN thread', Running(t)', thread'[t].p = handle[v]
          PROVE  thread'[t].cam = CamOf(current, v)
      <4>1. CASE t \in DOMAIN thread
        BY <1>8, <2>4, <3>1, <4>1 DEF Alone, Carriage, Running
      <4>2. CASE t = T
        <5>1. v = w
          BY <1>2, <1>8, <2>2, <2>4, <3>1, <4>2 DEF Alone, Tables, p
        <5>. QED
          BY <2>1, <2>4, <4>2, <5>1
      <4>. QED
        BY <2>4, <4>1, <4>2
    <3>2. \A v \in Wins : CamOf(current, v)' = CamOf(current, v)
      BY <1>1 DEF CamOf, Pos, world, tables
    <3>. QED
      BY <1>1, <1>2, <2>1, <3>1, <3>2 DEF Carriage, Carriages, NvrOf, tables, world
  <2>8. Emptied'
    BY <1>1, <1>2, <1>6, <2>1, Numbers, TrainFacts DEF Emptied, Preparing, tables, Basic
  <2>9. Showing'
    <3>1. Watched' => Watched /\ NvrOf[select] \in Nvrs
      BY <1>1, Numbers, TrainFacts DEF Watched, Carriages, NvrOf, world, tables, history, Basic
    <3>2. ASSUME Watched', NEW v \in Wins, ToShow(v)'
          PROVE  Shows(v)' \/ Pending(NvrOf[select], v)'
      <4>1. CASE v = w
        BY <2>3, <4>1 DEF p
      <4>2. CASE v # w
        <5>1. v < w
          BY <1>2, <1>6, <3>2, <4>2 DEF ToShow
        <5>2. ToShow(v)
          BY <1>1, <3>2, <5>1 DEF ToShow, Pos, world, tables, history
        <5>3. Shows(v) \/ Pending(NvrOf[select], v)
          BY <1>1, <1>8, <3>1, <3>2, <5>2 DEF Alone, Showing
        <5>. QED
          BY <1>1, <1>2, <1>6, <2>3, <3>1, <3>2, <5>3 DEF Pending, NvrOf, world, tables
      <4>. QED
        BY <4>1, <4>2
    <3>. QED
      BY <1>1, <1>6, <2>1, <3>2 DEF Showing, NvrOf, tables, world
  <2>. QED
    BY <2>3, <2>5, <2>6, <2>7, <2>8, <2>9
<1>. QED
  BY <1>1, <1>3, <1>5, <1>6, <1>7, <1>8, UiStepFrom DEF Moves, Basic, history, tables

\* A connection comes to rest: what it had to show is shown, or nothing has to be.
LEMMA ConnRestShows ==
    ASSUME TypeOK, Alone, NEW n \in Nvrs, ~Busy(Ui), ~Busy(Ui)', pc'[Ui] = pc[Ui],
           UNCHANGED <<world, tables>>, excused \subseteq excused', excused' \subseteq Wins,
           \A m \in Nvrs \ {n} : pc'[m] = pc[m] /\ loc'[m] = loc[m],
           \A v \in Wins : Shows(v) => Shows(v)',
           \A v \in Wins :
              Watched /\ pc[n] # "idle" /\ loc[n].c = select /\ loc[n].pos = v /\ ToShow(v)' =>
                 Shows(v)' \/ Pending(n, v)'
    PROVE  Showing'
<1>. USE DEF Busy, Switching, Clearing, Closing, InMedia
<1>1. Watched' => Watched /\ NvrOf[select] \in Nvrs
  BY Numbers, TrainFacts, TypeParts DEF Watched, Carriages, NvrOf, world, tables, Small
<1>2. ASSUME Watched', NEW v \in Wins, ToShow(v)' PROVE Shows(v)' \/ Pending(NvrOf[select], v)'
  <2>1. ToShow(v)
    BY <1>2 DEF ToShow, Pos, world, tables
  <2>2. Shows(v) \/ Pending(NvrOf[select], v)
    BY <1>1, <1>2, <2>1 DEF Alone, Showing
  <2>3. CASE Shows(v)
    BY <2>3
  <2>4. CASE Pending(NvrOf[select], v) /\ NvrOf[select] # n
    BY <1>1, <1>2, <2>4 DEF Pending, NvrOf, world, tables
  <2>5. CASE Pending(NvrOf[select], v) /\ NvrOf[select] = n
    <3>1. pc[n] # "idle" /\ loc[n].c = select /\ loc[n].pos = v
      BY <2>5 DEF Pending
    <3>2. Shows(v)' \/ Pending(n, v)'
      BY <1>1, <1>2, <3>1
    <3>3. NvrOf'[select'] = n
      BY <2>5 DEF NvrOf, world, tables
    <3>. QED
      BY <3>2, <3>3 DEF Pending
  <2>. QED
    BY <2>2, <2>3, <2>4, <2>5
<1>3. Watched' => current' = select' /\ m_bInitPreview' /\ \A v \in Wins : handle'[v] # 0
  BY <1>1 DEF Alone, Showing, tables
<1>. QED
  BY <1>2, <1>3 DEF Showing, NvrOf, world, tables

LEMMA OpenPreviewConn ==
    ASSUME Basic, ~overlap => Alone, Meeting, NEW n \in Nvrs, OpenPreview(n)
    PROVE  Basic' /\ (~overlap' => Alone')
<1>. DEFINE w == loc[n].w
            c == loc[n].c
            p == handle[w]
            T == Len(thread) + 1
<1>1. Ui \in Actors /\ Ui \notin Nvrs /\ n \in Actors /\ n # Ui /\ Nvrs \subseteq Actors
  BY Numbers, TrainFacts DEF Basic
<1>2. /\ pc[n] = "open" /\ UNCHANGED <<world, tables, crash, history, bounds>> /\ Rest(n)
      /\ IF p = 0 THEN UNCHANGED players ELSE Live(p) /\ Open(p, CamOf(c, w), "IDLE")
  BY <1>1 DEF OpenPreview, At
<1>3. /\ c \in Carriages /\ w \in Wins /\ loc[n].pos = w /\ c # 0
      /\ p \in 0..Len(player) /\ DOMAIN player = 1..Len(player) /\ Len(player) \in Nat
      /\ Len(thread) \in Nat /\ DOMAIN thread = 1..Len(thread)
  BY <1>2, Numbers, TrainFacts, TypeParts DEF Basic, Local, ConnLocal, ConnPlaces, Big
<1>4. Small'
  BY <1>2, SameSmall, TypeParts DEF Basic, Small, bounds
<1>5. CamOf(c, w) \in Cameras \cup {NoCam, File} /\ "IDLE" \in States
  BY <1>3, CamFacts, TypeParts DEF Basic, Small, States
<1>6. Big' /\ Loc \subseteq Loc'
  <2>1. CASE p = 0
    BY <1>2, <2>1, SameBig DEF Basic, tables, world
  <2>2. CASE p # 0
    <3>1. p \in DOMAIN player /\ Open(p, CamOf(c, w), "IDLE")
      BY <1>2, <1>3, <2>2
    <3>. HIDE DEF p, w, c
    <3>. QED
      BY <1>2, <1>5, <3>1, OpeningBig DEF Basic, tables, world
  <2>. QED
    BY <2>1, <2>2
<1>7. /\ Where' /\ pc'[n] = "idle"
      /\ \A b \in Actors \ {n} : pc'[b] = pc[b] /\ loc'[b] = loc[b]
  <2>1. loc' \in [Actors -> Loc']
    BY <1>1, <1>2, <1>6, RestFacts DEF Basic
  <2>. QED
    BY <1>1, <1>2, <2>1, RestFacts DEF Basic, Where
<1>8. ConnLocal(n)'
  BY <1>7 DEF ConnLocal, ConnLabels, ConnPlaces, InMedia
<1>9. ASSUME ~overlap, Alone, \A b \in Actors \ {n} : ~Busy(b) /\ ~Busy(b)'
      PROVE  /\ Tables' /\ Threads' /\ NoStray' /\ NothingLost'
             /\ Work(n)' /\ ConnWork(n)' /\ Carriage' /\ Emptied' /\ Showing'
  <2>1. Work(n)' /\ ConnWork(n)'
    BY <1>7 DEF Work, ConnWork, Busy, Closing, InMedia, ConnPlaces
  <2>2. current = c /\ m_bInitPreview /\ (p = 0 \/ Still(p)) /\ select \in {0, c}
    BY <1>2, <1>9 DEF Alone, ConnWork, ConnPlaces, Busy
  <2>3. \A a \in Actors : pc[a] # "wait"
    BY <1>2, <1>9 DEF Busy
  <2>4. CASE p = 0
    <3>1. UNCHANGED players
      BY <1>2, <2>4
    <3>2. Tables' /\ Threads' /\ NoStray' /\ NothingLost'
      BY <1>2, <1>9, <2>3, <3>1, SameTables DEF tables, players, history
    <3>3. Carriage' /\ Emptied'
      BY <1>1, <1>2, <1>7, <1>9, <3>1
      DEF Alone, Carriage, Emptied, Preparing, Running, Carriages, NvrOf, CamOf, Pos, players,
          tables,
          world, history
    <3>4. Showing'
      <4>1. ~Watched /\ \A v \in Wins : Shows(v) => Shows(v)'
        BY <1>1, <1>2, <1>3, <1>9, <2>4, <3>1
        DEF Alone, Showing, Busy, Switching, Clearing, Closing, InMedia, Shows, Running,
            players, tables
      <4>. QED
        BY <1>1, <1>2, <1>4, <1>7, <1>9, <4>1, ConnRestShows DEF history, Basic, Small
    <3>. QED
      BY <2>1, <3>2, <3>3, <3>4
  <2>5. CASE p # 0
    <3>1. p \in DOMAIN player /\ player[p].h = 0 /\ InTable(p) /\ Open(p, CamOf(c, w), "IDLE")
      BY <1>2, <1>3, <2>2, <2>5 DEF Still, InTable
    <3>2. /\ Tables' /\ Threads' /\ NoStray' /\ NothingLost'
          /\ \A v \in Wins : Shows(v) \/ handle[v] = p => Shows(v)'
      <4>. HIDE DEF p, w, c
      <4>. QED
        BY <1>2, <1>5, <1>9, <2>3, <3>1, Opening DEF Basic, tables, history
    <3>3. /\ DOMAIN thread' = DOMAIN thread \cup {T}
          /\ \A t \in DOMAIN thread : thread'[t] = thread[t]
          /\ thread'[T].p = p /\ thread'[T].cam = CamOf(c, w)
      <4>. HIDE DEF p, w, c
      <4>. QED
        BY <1>5, <3>1, OpenFacts DEF Basic
    <3>. HIDE DEF T
    <3>4. Carriage'
      <4>1. ASSUME NEW v \in Wins, NEW t \in DOMAIN thread', Running(t)', thread'[t].p = handle[v]
            PROVE  thread'[t].cam = CamOf(current, v)
        <5>1. CASE t \in DOMAIN thread
          BY <1>9, <3>3, <4>1, <5>1 DEF Alone, Carriage, Running
        <5>2. CASE t = T
          <6>1. v = w
            BY <1>3, <1>9, <2>5, <3>3, <4>1, <5>2 DEF Alone, Tables
          <6>. QED
            BY <2>2, <3>3, <5>2, <6>1
        <5>. QED
          BY <3>3, <5>1, <5>2
      <4>2. \A v \in Wins : CamOf(current, v)' = CamOf(current, v)
        BY <1>2 DEF CamOf, Pos, world, tables
      <4>3. ~wrapped' /\ current' # 0 => current' = select'
        BY <1>2, <1>9 DEF Alone, Carriage, tables, history
      <4>. QED
        BY <1>2, <1>3, <2>2, <4>1, <4>2, <4>3 DEF Carriage, Carriages, NvrOf, tables, world
    <3>5. Emptied'
      BY <1>1, <1>2, <1>3, <1>7, <1>9, <2>2 DEF Emptied, Busy, Preparing, tables
    <3>6. Showing'
      BY <1>1, <1>2, <1>3, <1>4, <1>7, <1>9, <3>2, ConnRestShows DEF history, Basic, Small
    <3>. QED
      BY <2>1, <3>2, <3>4, <3>5, <3>6
  <2>. QED
    BY <2>4, <2>5
<1>. QED
  BY <1>1, <1>2, <1>4, <1>6, <1>7, <1>8, <1>9, ConnStepFrom
  DEF Moves, Busy, InMedia, Basic, history, tables

-----------------------------------------------------------------------------
(* The playback *)

\* A step of a connection beside what the windows show.
LEMMA ConnAside ==
    ASSUME Basic, ~overlap => Alone, Meeting, NEW n \in Nvrs, Moves(n), Keep, KeepCarriage,
           UNCHANGED <<wrapped, beyond, excused>>, reinit => reinit',
           Small', Where', ConnLocal(n)', pc[n] # "wait",
           pc'[n] \in InMedia => loc'[n].p # 0,
           pc'[n] = "wait" => loc'[n].t # 0,
           pc'[n] # "idle" /\ loc'[n].c = loc[n].c /\ loc'[n].pos = loc[n].pos,
           Alone /\ ~overlap /\ ~Busy(Ui) => Work(n)' /\ ConnWork(n)'
    PROVE  Basic' /\ (~overlap' => Alone')
<1>1. Ui \in Actors /\ Ui \notin Nvrs /\ n \in Actors /\ n # Ui /\ Nvrs \subseteq Actors
  BY Numbers, TrainFacts DEF Basic
<1>2. Local'
  BY <1>1, ConnLocalStep DEF Basic, Keep, world, Moves, Actors
<1>3. pc'[Ui] = pc[Ui] /\ loc'[Ui] = loc[Ui]
  BY <1>1 DEF Moves
<1>4. ASSUME Alone PROVE Carriage' /\ Emptied' /\ Showing'
  <2>1. Carriage'
    BY <1>3, <1>4
    DEF Alone, Carriage, Preparing, Running, Carriages, NvrOf, CamOf, Pos, Keep, KeepCarriage,
        players, world
  <2>2. Emptied'
    BY <1>3, <1>4 DEF Alone, Emptied, Preparing, Keep, KeepCarriage
  <2>3. Showing'
    <3>1. Watched' <=> Watched
      BY DEF Watched, Carriages, NvrOf, Keep, KeepCarriage, world
    <3>2. ASSUME NEW w \in Wins PROVE (ToShow(w)' <=> ToShow(w)) /\ (Shows(w)' <=> Shows(w))
      BY <1>3 DEF ToShow, Shows, Running, Pos, Keep, KeepCarriage, players, world
    <3>3. ASSUME Watched, NEW w \in Wins, Pending(NvrOf[select], w) PROVE Pending(NvrOf[select], w)'
      <4>1. NvrOf[select] \in Nvrs
        BY <3>3, Numbers, TrainFacts DEF Watched, Basic
      <4>. QED
        BY <1>1, <3>3, <4>1 DEF Pending, NvrOf, Keep, KeepCarriage, world, Moves
    <3>. QED
      BY <1>3, <1>4, <3>1, <3>2, <3>3
      DEF Alone, Showing, Switching, Clearing, Closing, Keep, KeepCarriage
  <2>. QED
    BY <2>1, <2>2, <2>3
<1>5. ~overlap' => ~Busy(Ui)
  BY <1>1, OnlyOne DEF Basic
<1>. QED
  BY <1>1, <1>2, <1>4, <1>5, ControlStep DEF KeepCarriage, Basic

LEMMA StopPlayBackUi ==
    ASSUME Basic, ~overlap => Alone, Meeting, StopPlayBack(Ui)
    PROVE  Basic' /\ (~overlap' => Alone')
<1>1. pc[Ui] = "stopPlayBack" /\ UNCHANGED <<world, tables, players, crash, history, bounds>>
  BY DEF StopPlayBack, At
<1>2. Ui \in Actors /\ Ui \notin Nvrs /\ Nvrs \subseteq Actors /\ loc[Ui] \in Loc
  BY Numbers, TrainFacts DEF Basic
<1>3. Small'
  BY <1>1, SameSmall, TypeParts DEF Basic, Small, bounds
<1>. USE DEF Closing, InMedia
<1>4. CASE playback = 0
  <2>1. Goto(Ui, "stopped") /\ loc' = loc
    BY <1>4 DEF StopPlayBack
  <2>2. /\ Where' /\ pc'[Ui] = "stopped"
        /\ \A b \in Actors \ {Ui} : pc'[b] = pc[b] /\ loc'[b] = loc[b]
    <3>1. "stopped" \in Labels
      BY DEF Labels
    <3>. QED
      BY <1>1, <1>2, <2>1, <3>1, GotoFacts, WhereSame, Numbers DEF Basic
  <2>3. UiLocal'
    BY <1>1, <2>1, <2>2 DEF Basic, Local, UiLocal, UiLabels, Labels, Carriages, NvrOf, world
  <2>4. Work(Ui)' /\ UiWork'
    BY <1>1, <1>4, <2>2 DEF Work, UiWork, Clearing, tables
  <2>. QED
    BY <1>1, <1>2, <1>3, <2>2, <2>3, <2>4, UiAside
    DEF Keep, KeepCarriage, tables, Aside, Switching, Clearing, Moves, Busy
<1>5. CASE playback # 0
  <2>. DEFINE r == IF loc[Ui].ret = "play" THEN "deletePlay" ELSE "deletePlayBack"
              m == [loc[Ui] EXCEPT !.p = playback, !.ret = r]
  <2>1. Goto(Ui, "close") /\ Put(Ui, m)
    BY <1>5 DEF StopPlayBack
  <2>2. /\ Where' /\ pc'[Ui] = "close" /\ loc'[Ui].p = playback /\ loc'[Ui].ret = r
        /\ loc'[Ui].c = loc[Ui].c
        /\ \A b \in Actors \ {Ui} : pc'[b] = pc[b] /\ loc'[b] = loc[b]
    <3>1. r \in Labels /\ "close" \in Labels /\ playback \in 0..Len(player)
      BY TypeParts DEF Labels, Basic, Big
    <3>2. m \in Loc /\ m.p = playback /\ m.ret = r /\ m.c = loc[Ui].c
      BY <1>2, <3>1 DEF Loc
    <3>. HIDE DEF m, r
    <3>. QED
      BY <1>1, <1>2, <2>1, <3>1, <3>2, MoveFacts, WhereSame DEF Basic
  <2>3. UiLocal'
    BY <1>1, <2>2 DEF Basic, Local, UiLocal, UiLabels, Labels, Carriages, NvrOf, world
  <2>4. Work(Ui)' /\ UiWork'
    BY <1>1, <2>2 DEF Work, UiWork, Clearing, tables
  <2>. QED
    BY <1>1, <1>2, <1>3, <1>5, <2>2, <2>3, <2>4, UiAside
    DEF Keep, KeepCarriage, tables, Aside, Switching, Clearing, Moves, Busy
<1>. QED
  BY <1>4, <1>5

LEMMA StopPlayBackConn ==
    ASSUME Basic, ~overlap => Alone, Meeting, NEW n \in Nvrs, StopPlayBack(n)
    PROVE  Basic' /\ (~overlap' => Alone')
<1>1. pc[n] = "stopPlayBack" /\ UNCHANGED <<world, tables, players, crash, history, bounds>>
  BY DEF StopPlayBack, At
<1>2. /\ Ui \in Actors /\ Ui \notin Nvrs /\ Nvrs \subseteq Actors /\ n \in Actors /\ loc[n] \in Loc
      /\ loc[n].ret # "play"
  BY <1>1, Numbers, TrainFacts DEF Basic, Local, ConnLocal
<1>3. Small'
  BY <1>1, SameSmall, TypeParts DEF Basic, Small, bounds
<1>. USE DEF Closing, InMedia
<1>4. CASE playback = 0
  <2>1. Goto(n, "stopped") /\ loc' = loc
    BY <1>4 DEF StopPlayBack
  <2>2. /\ Where' /\ pc'[n] = "stopped"
        /\ \A b \in Actors \ {n} : pc'[b] = pc[b] /\ loc'[b] = loc[b]
    <3>1. "stopped" \in Labels
      BY DEF Labels
    <3>. QED
      BY <1>1, <1>2, <2>1, <3>1, GotoFacts, WhereSame, Numbers DEF Basic
  <2>3. ConnLocal(n)'
    BY <1>1, <2>1, <2>2
    DEF Basic, Local, ConnLocal, ConnLabels, ConnPlaces, Carriages, NvrOf, world
  <2>4. Alone => Work(n)' /\ ConnWork(n)'
    BY <1>1, <1>4, <2>1, <2>2 DEF Alone, Work, ConnWork, Busy, ConnPlaces, Still, tables, players
  <2>. QED
    BY <1>1, <1>2, <1>3, <2>1, <2>2, <2>3, <2>4, ConnAside
    DEF Keep, KeepCarriage, tables, history, Moves, Busy
<1>5. CASE playback # 0
  <2>. DEFINE m == [loc[n] EXCEPT !.p = playback, !.ret = "deletePlayBack"]
  <2>1. Goto(n, "close") /\ Put(n, m)
    BY <1>2, <1>5 DEF StopPlayBack
  <2>2. /\ Where' /\ pc'[n] = "close" /\ loc'[n].p = playback /\ loc'[n].ret = "deletePlayBack"
        /\ loc'[n].c = loc[n].c /\ loc'[n].pos = loc[n].pos /\ loc'[n].w = loc[n].w
        /\ \A b \in Actors \ {n} : pc'[b] = pc[b] /\ loc'[b] = loc[b]
    <3>1. "deletePlayBack" \in Labels /\ "close" \in Labels /\ playback \in 0..Len(player)
      BY TypeParts DEF Labels, Basic, Big
    <3>2. /\ m \in Loc /\ m.p = playback /\ m.ret = "deletePlayBack"
          /\ m.c = loc[n].c /\ m.pos = loc[n].pos /\ m.w = loc[n].w
      BY <1>2, <3>1 DEF Loc
    <3>. HIDE DEF m
    <3>. QED
      BY <1>1, <1>2, <2>1, <3>1, <3>2, MoveFacts, WhereSame DEF Basic
  <2>3. ConnLocal(n)'
    BY <1>1, <2>2 DEF Basic, Local, ConnLocal, ConnLabels, ConnPlaces, Carriages, NvrOf, world
  <2>4. Alone => Work(n)' /\ ConnWork(n)'
    BY <1>1, <2>2 DEF Alone, Work, ConnWork, Busy, ConnPlaces, Still, tables, players
  <2>. QED
    BY <1>1, <1>2, <1>3, <1>5, <2>2, <2>3, <2>4, ConnAside
    DEF Keep, KeepCarriage, tables, history, Moves, Busy
<1>. QED
  BY <1>4, <1>5

\* The playback's player is deleted, and it was nowhere else in the tables.
LEMMA DeletePlayBackFacts ==
    ASSUME Basic, Meeting, NEW a \in Actors, DeletePlayBack(a)
    PROVE  /\ Big' /\ Small' /\ Where'
           /\ playback' = 0 /\ pc'[a] = "stopped"
           /\ loc'[a].ret = IF pc[a] = "deletePlay" THEN "play" ELSE "idle"
           /\ loc'[a].c = loc[a].c /\ loc'[a].pos = loc[a].pos /\ loc'[a].w = loc[a].w
           /\ \A b \in Actors \ {a} : pc'[b] = pc[b] /\ loc'[b] = loc[b]
           /\ Alone /\ ~overlap /\ Work(a) /\ (\A b \in Actors : pc[b] # "wait") =>
                 /\ Tables' /\ Threads' /\ NoStray' /\ NothingLost'
                 /\ \A w \in Wins : handle[w] # 0 => player'[handle[w]].h = player[handle[w]].h
                                                 /\ player'[handle[w]].state = player[handle[w]].state
<1>1. /\ pc[a] \in {"deletePlayBack", "deletePlay"}
      /\ IF playback = 0 THEN UNCHANGED player ELSE MayDelete(playback) /\ Deletes(playback)
      /\ playback' = 0 /\ Goto(a, "stopped")
      /\ Put(a, [loc[a] EXCEPT !.ret = IF pc[a] = "deletePlay" THEN "play" ELSE "idle"])
      /\ UNCHANGED <<world, handle, current, select, m_bInitPreview, polling, seen, thread, crash,
                     history, bounds>>
  BY DEF DeletePlayBack
<1>2. playback \in 0..Len(player) /\ handle \in [Wins -> 0..Len(player)]
      /\ DOMAIN player = 1..Len(player) /\ Len(player) \in Nat /\ player \in Seq(Player)
      /\ thread \in Seq(Thread)
  BY Numbers, TypeParts DEF Basic, Big
<1>3. Big' /\ Loc' = Loc
  <2>1. player' \in Seq(Player) /\ Len(player') = Len(player)
    BY <1>1, <1>2, DeletesFacts DEF Basic
  <2>2. 0 \in 0..Len(player)
    BY <1>2
  <2>. QED
    BY <1>1, <1>2, <2>1, <2>2, BigStep DEF Basic, world
<1>4. Small'
  BY <1>1, SmallStep, TypeParts DEF Basic, Small, bounds, history, Carriages, NvrOf, world
<1>5. /\ Where' /\ pc'[a] = "stopped"
      /\ loc'[a].ret = IF pc[a] = "deletePlay" THEN "play" ELSE "idle"
      /\ loc'[a].c = loc[a].c /\ loc'[a].pos = loc[a].pos /\ loc'[a].w = loc[a].w
      /\ \A b \in Actors \ {a} : pc'[b] = pc[b] /\ loc'[b] = loc[b]
  <2>. DEFINE r == IF pc[a] = "deletePlay" THEN "play" ELSE "idle"
  <2>1. "stopped" \in Labels /\ r \in Labels \cup {"play"}
    BY DEF Labels
  <2>2. Put(a, [loc[a] EXCEPT !.ret = r])
    BY <1>1
  <2>. HIDE DEF r
  <2>3. /\ loc' \in [Actors -> Loc] /\ loc'[a].ret = r
        /\ loc'[a].c = loc[a].c /\ loc'[a].pos = loc[a].pos /\ loc'[a].w = loc[a].w
        /\ \A b \in Actors \ {a} : loc'[b] = loc[b]
    BY <2>1, <2>2, PutRet DEF Basic
  <2>. QED
    BY <1>1, <1>3, <2>1, <2>3, GotoFacts DEF Basic, Where, r
<1>6. ASSUME Alone, ~overlap, Work(a), \A b \in Actors : pc[b] # "wait"
      PROVE  /\ Tables' /\ Threads' /\ NoStray' /\ NothingLost'
             /\ \A w \in Wins : handle[w] # 0 => player'[handle[w]].h = player[handle[w]].h
                                             /\ player'[handle[w]].state = player[handle[w]].state
  <2>1. playback # 0 /\ playback \in DOMAIN player /\ MayDelete(playback) /\ Deletes(playback)
    BY <1>1, <1>2, <1>6 DEF Work
  <2>2. \A w \in Wins : handle'[w] = handle[w] /\ handle'[w] # playback
    BY <1>1, <1>6, <2>1 DEF Alone, Tables
  <2>3. Tables' /\ Threads' /\ NoStray' /\ NothingLost'
    BY <1>1, <1>6, <2>1, <2>2, Deleting DEF Basic, history
  <2>4. \A w \in Wins : handle[w] # 0 => handle[w] \in DOMAIN player
    BY <1>2
  <2>. QED
    BY <2>1, <2>3, <2>4, DeletesFacts DEF Basic
<1>. QED
  BY <1>1, <1>3, <1>4, <1>5, <1>6

\* Where the user interface is, as far as what the windows show depends on it.
SamePlace ==
    /\ Preparing' <=> Preparing
    /\ pc'[Ui] = "init" <=> pc[Ui] = "init"
    /\ pc'[Ui] = "init" => loc'[Ui].w = loc[Ui].w
    /\ Switching' <=> Switching
    /\ Switching => loc'[Ui].c = loc[Ui].c
    /\ pc'[Ui] \in {"each", "open"} <=> pc[Ui] \in {"each", "open"}
    /\ pc'[Ui] \in {"each", "open"} => loc'[Ui].w = loc[Ui].w

LEMMA AsidePlace ==
    ASSUME (Aside /\ Aside') \/ (pc'[Ui] = pc[Ui] /\ loc'[Ui] = loc[Ui])
    PROVE  SamePlace
BY DEF SamePlace, Aside, Preparing, Switching, Clearing, Closing

\* As long as the windows, their threads and the places that matter stay, what they show does.
LEMMA ShowsStep ==
    ASSUME Basic, Alone, SamePlace,
           UNCHANGED <<world, handle, current, select, m_bInitPreview, seen, history>>,
           \A n \in Nvrs : pc[n] # "idle" =>
              pc'[n] # "idle" /\ loc'[n].c = loc[n].c /\ loc'[n].pos = loc[n].pos,
           \A t \in DOMAIN thread' : \A w \in Wins : Running(t)' /\ thread'[t].p = handle[w] =>
              t \in DOMAIN thread /\ Running(t) /\ thread[t].p = handle[w]
                                  /\ thread'[t].cam = thread[t].cam,
           \A w \in Wins : Shows(w) => Shows(w)' \/ Switching \/ ~Watched \/ Pending(NvrOf[select], w)
    PROVE  Carriage' /\ Emptied' /\ Showing'
<1>. USE DEF SamePlace
<1>1. Carriage'
  BY CarriageStep DEF world, history
<1>2. Emptied'
  BY DEF Alone, Emptied, history
<1>3. Showing'
  <2>1. Watched' <=> Watched
    BY DEF Watched, Carriages, NvrOf, world, history
  <2>2. \A w \in Wins : ToShow(w)' <=> ToShow(w)
    BY DEF ToShow, Pos, world, history
  <2>3. ASSUME Watched, NEW w \in Wins, Pending(NvrOf[select], w) PROVE Pending(NvrOf[select], w)'
    <3>1. NvrOf[select] \in Nvrs
      BY <2>3, Numbers, TrainFacts DEF Watched, Basic
    <3>. QED
      BY <2>3, <3>1 DEF Pending, NvrOf, world
  <2>. QED
    BY <2>1, <2>2, <2>3 DEF Alone, Showing
<1>. QED
  BY <1>1, <1>2, <1>3

LEMMA DeletePlayBackUi ==
    ASSUME Basic, ~overlap => Alone, Meeting, DeletePlayBack(Ui)
    PROVE  Basic' /\ (~overlap' => Alone')
<1>1. /\ pc[Ui] \in {"deletePlayBack", "deletePlay"}
      /\ UNCHANGED <<world, handle, current, select, m_bInitPreview, polling, seen, thread, crash,
                     history, bounds>>
  BY DEF DeletePlayBack
<1>2. Ui \in Actors /\ Ui \notin Nvrs /\ Nvrs \subseteq Actors
  BY Numbers, TrainFacts DEF Basic
<1>3. /\ Big' /\ Small' /\ Where'
      /\ playback' = 0 /\ pc'[Ui] = "stopped"
      /\ loc'[Ui].ret = IF pc[Ui] = "deletePlay" THEN "play" ELSE "idle"
      /\ loc'[Ui].c = loc[Ui].c
      /\ \A b \in Actors \ {Ui} : pc'[b] = pc[b] /\ loc'[b] = loc[b]
  BY <1>2, DeletePlayBackFacts
<1>. USE DEF Closing, InMedia
<1>4. UiLocal'
  BY <1>1, <1>3 DEF Basic, Local, UiLocal, UiLabels, Labels, Carriages, NvrOf, world
<1>5. ASSUME ~overlap, Alone, \A n \in Nvrs : ~Busy(n)
      PROVE  /\ Tables' /\ Threads' /\ NoStray' /\ NothingLost'
             /\ Work(Ui)' /\ UiWork' /\ Carriage' /\ Emptied' /\ Showing'
  <2>1. Tables' /\ Threads' /\ NoStray' /\ NothingLost'
    <3>1. \A b \in Actors : pc[b] # "wait"
      BY <1>1, <1>5 DEF Actors, Busy
    <3>2. Work(Ui)
      BY <1>2, <1>5 DEF Alone
    <3>. QED
      BY <1>2, <1>5, <3>1, <3>2, DeletePlayBackFacts
  <2>2. Work(Ui)' /\ UiWork'
    BY <1>3 DEF Work, UiWork, Clearing
  <2>3. Carriage' /\ Emptied' /\ Showing'
    <3>1. Aside /\ Aside'
      BY <1>1, <1>3 DEF Aside, Switching, Clearing
    <3>. QED
      BY <1>1, <1>2, <1>3, <1>5, <3>1, ShowsStep, AsidePlace DEF Shows, Running
  <2>. QED
    BY <2>1, <2>2, <2>3
<1>. QED
  BY <1>1, <1>3, <1>4, <1>5, UiStepFrom DEF Moves, Busy, Basic, history

LEMMA DeletePlayBackConn ==
    ASSUME Basic, ~overlap => Alone, Meeting, NEW n \in Nvrs, DeletePlayBack(n)
    PROVE  Basic' /\ (~overlap' => Alone')
<1>1. /\ pc[n] = "deletePlayBack"
      /\ UNCHANGED <<world, handle, current, select, m_bInitPreview, polling, seen, thread, crash,
                     history, bounds>>
  BY DEF DeletePlayBack, Basic, Local, ConnLocal, ConnLabels, InMedia, ConnPlaces
<1>2. Ui \in Actors /\ Ui \notin Nvrs /\ Nvrs \subseteq Actors /\ n \in Actors /\ n # Ui
  BY Numbers, TrainFacts DEF Basic
<1>3. /\ Big' /\ Small' /\ Where'
      /\ playback' = 0 /\ pc'[n] = "stopped" /\ loc'[n].ret = "idle"
      /\ loc'[n].c = loc[n].c /\ loc'[n].pos = loc[n].pos /\ loc'[n].w = loc[n].w
      /\ \A b \in Actors \ {n} : pc'[b] = pc[b] /\ loc'[b] = loc[b]
  BY <1>1, <1>2, DeletePlayBackFacts
<1>. USE DEF Closing, InMedia
<1>4. ConnLocal(n)'
  BY <1>1, <1>3 DEF Basic, Local, ConnLocal, ConnLabels, ConnPlaces, Carriages, NvrOf, world
<1>5. ASSUME ~overlap, Alone, \A b \in Actors \ {n} : ~Busy(b)
      PROVE  /\ Tables' /\ Threads' /\ NoStray' /\ NothingLost'
             /\ Work(n)' /\ ConnWork(n)' /\ Carriage' /\ Emptied' /\ Showing'
  <2>1. /\ Tables' /\ Threads' /\ NoStray' /\ NothingLost'
        /\ \A w \in Wins : handle[w] # 0 => player'[handle[w]].h = player[handle[w]].h
                                        /\ player'[handle[w]].state = player[handle[w]].state
    <3>1. \A b \in Actors : pc[b] # "wait"
      BY <1>1, <1>5 DEF Busy
    <3>2. Work(n)
      BY <1>2, <1>5 DEF Alone
    <3>. QED
      BY <1>2, <1>5, <3>1, <3>2, DeletePlayBackFacts
  <2>2. Work(n)' /\ ConnWork(n)'
    <3>1. loc[n].w \in Wins
      BY <1>1 DEF Basic, Local, ConnLocal, ConnPlaces
    <3>. QED
      BY <1>1, <1>3, <1>5, <2>1, <3>1 DEF Alone, Work, ConnWork, Busy, ConnPlaces, Still
  <2>3. Carriage' /\ Emptied' /\ Showing'
    BY <1>1, <1>2, <1>3, <1>5, ShowsStep, AsidePlace DEF Shows, Running
  <2>. QED
    BY <2>1, <2>2, <2>3
<1>. QED
  BY <1>1, <1>2, <1>3, <1>4, <1>5, ConnStepFrom DEF Moves, Busy, Basic, history

LEMMA InitPlayBackStep ==
    ASSUME Basic, ~overlap => Alone, Meeting, InitPlayBack
    PROVE  Basic' /\ (~overlap' => Alone')
<1>. DEFINE N == Len(player) + 1
<1>1. /\ pc[Ui] = "stopped"
      /\ UNCHANGED <<world, handle, current, select, m_bInitPreview, polling, seen, thread, crash,
                     history, bounds>>
  BY DEF InitPlayBack, At
<1>2. Ui \in Actors /\ Ui \notin Nvrs /\ Nvrs \subseteq Actors /\ loc[Ui] \in Loc
  BY Numbers, TrainFacts DEF Basic
<1>3. CASE loc[Ui].ret # "play"
  BY <1>1, <1>3, UiRestStep DEF InitPlayBack, tables, players
<1>4. CASE loc[Ui].ret = "play"
  <2>1. CMP_Init /\ playback' = N /\ Goto(Ui, "openFile") /\ loc' = loc
    BY <1>4 DEF InitPlayBack
  <2>2. /\ handle \in [Wins -> 0..N] /\ N \in 0..N /\ N # 0 /\ \A w \in Wins : handle[w] # N
        /\ \A t \in DOMAIN thread : thread[t].p # N
    BY Numbers, TypeParts DEF Basic, Big
  <2>3. Big' /\ Loc \subseteq Loc'
    BY <1>1, <2>1, <2>2, AddingBig DEF Basic, world
  <2>4. Small'
    BY <1>1, SmallStep, TypeParts DEF Basic, Small, bounds, history, Carriages, NvrOf, world
  <2>5. /\ Where' /\ pc'[Ui] = "openFile"
        /\ \A b \in Actors \ {Ui} : pc'[b] = pc[b] /\ loc'[b] = loc[b]
    <3>1. "openFile" \in Labels
      BY DEF Labels
    <3>2. loc' \in [Actors -> Loc']
      BY <2>1, <2>3, Numbers DEF Basic
    <3>. QED
      BY <1>2, <2>1, <3>1, <3>2, GotoFacts DEF Basic, Where
  <2>. USE DEF Closing, InMedia
  <2>6. UiLocal'
    BY <1>1, <1>4, <2>1, <2>5 DEF Basic, Local, UiLocal, UiLabels, Labels, Carriages, NvrOf, world
  <2>7. ASSUME ~overlap, Alone, \A n \in Nvrs : ~Busy(n)
        PROVE  /\ Tables' /\ Threads' /\ NoStray' /\ NothingLost'
               /\ Work(Ui)' /\ UiWork' /\ Carriage' /\ Emptied' /\ Showing'
    <3>1. playback = 0
      BY <1>1, <1>2, <2>7 DEF Alone, Work
    <3>2. Tables' /\ Threads' /\ NoStray' /\ NothingLost'
      <4>1. \A b \in Actors : pc[b] # "wait"
        BY <1>1, <2>7 DEF Actors, Busy
      <4>. QED
        BY <1>1, <2>1, <2>2, <2>7, <3>1, <4>1, Adding DEF Basic, history
    <3>3. player'[N].h = 0
      BY <2>1, InitFacts DEF NewPlayer, Basic
    <3>4. Work(Ui)' /\ UiWork'
      BY <2>1, <2>2, <2>5, <3>3 DEF Work, UiWork, Clearing
    <3>5. Carriage' /\ Emptied' /\ Showing'
      <4>1. Aside /\ Aside'
        BY <1>1, <2>5 DEF Aside, Switching, Clearing
      <4>. QED
        BY <1>1, <1>2, <2>5, <2>7, <4>1, ShowsStep, AsidePlace DEF Shows, Running
    <3>. QED
      BY <3>2, <3>4, <3>5
  <2>. QED
    BY <1>1, <2>3, <2>4, <2>5, <2>6, <2>7, UiStepFrom DEF Moves, Busy, Basic, history
<1>. QED
  BY <1>3, <1>4

LEMMA OpenFileStep ==
    ASSUME Basic, ~overlap => Alone, Meeting, OpenFile
    PROVE  Basic' /\ (~overlap' => Alone')
<1>. DEFINE T == Len(thread) + 1
            p == playback
            s == player[p].state
            m == [loc[Ui] EXCEPT !.p = p, !.t = T]
<1>1. pc[Ui] = "openFile" /\ UNCHANGED <<world, tables, crash, history, bounds>>
  BY DEF OpenFile, At
<1>2. Ui \in Actors /\ Ui \notin Nvrs /\ Nvrs \subseteq Actors /\ loc[Ui] \in Loc
  BY Numbers, TrainFacts DEF Basic
<1>3. CASE Rest(Ui) /\ UNCHANGED players
  BY <1>1, <1>3, UiRestStep
<1>4. CASE ~(Rest(Ui) /\ UNCHANGED players)
  <2>1. /\ p # 0 /\ Open(p, File, s) /\ Goto(Ui, "waitFile") /\ Put(Ui, m)
    BY <1>4 DEF OpenFile
  <2>2. /\ p \in DOMAIN player /\ s \in States /\ File \in Cameras \cup {NoCam, File}
        /\ Len(player) \in Nat /\ Len(thread) \in Nat
        /\ \A w \in Wins : handle[w] # 0 => handle[w] \in DOMAIN player
    BY <2>1, Numbers, TypeParts DEF Basic, Big, Player
  <2>3. Small'
    BY <1>1, SameSmall, TypeParts DEF Basic, Small, bounds
  <2>. HIDE DEF s
  <2>4. Big' /\ Loc \subseteq Loc' /\ Len(player') = Len(player) /\ Len(thread') = T
    BY <1>1, <2>1, <2>2, OpeningBig, OpenFacts DEF Basic, tables, world
  <2>5. /\ Where' /\ pc'[Ui] = "waitFile" /\ loc'[Ui].p = p /\ loc'[Ui].t = T
        /\ \A b \in Actors \ {Ui} : pc'[b] = pc[b] /\ loc'[b] = loc[b]
    <3>1. "waitFile" \in Labels
      BY DEF Labels
    <3>2. /\ m \in Loc' /\ m.p = p /\ m.t = T
      <4>1. p \in 0..Len(player') /\ T \in 0..Len(thread') /\ loc[Ui] \in Loc'
        BY <1>2, <2>2, <2>4, TypeParts DEF Basic, Big
      <4>. HIDE DEF p, T
      <4>. QED
        BY <4>1 DEF Loc
    <3>. HIDE DEF m
    <3>3. loc' = [loc EXCEPT ![Ui] = m] /\ loc \in [Actors -> Loc']
      BY <2>1, <2>4, Numbers DEF Put, Basic
    <3>4. loc' \in [Actors -> Loc'] /\ loc'[Ui] = m /\ \A b \in Actors \ {Ui} : loc'[b] = loc[b]
      BY <1>2, <3>2, <3>3
    <3>. QED
      BY <1>2, <2>1, <3>1, <3>2, <3>4, GotoFacts DEF Basic, Where
  <2>. USE DEF Closing, InMedia
  <2>6. UiLocal'
    BY <2>5 DEF UiLocal, UiLabels, Labels
  <2>7. ASSUME ~overlap, Alone, \A n \in Nvrs : ~Busy(n)
        PROVE  /\ Tables' /\ Threads' /\ NoStray' /\ NothingLost'
               /\ Work(Ui)' /\ UiWork' /\ Carriage' /\ Emptied' /\ Showing'
    <3>1. player[p].h = 0 /\ InTable(p)
      BY <1>1, <2>7 DEF Alone, UiWork, InTable
    <3>2. /\ Tables' /\ Threads' /\ NoStray' /\ NothingLost'
          /\ \A v \in Wins : Shows(v) => Shows(v)'
      <4>1. \A b \in Actors : pc[b] # "wait"
        BY <1>1, <2>7 DEF Actors, Busy
      <4>. QED
        BY <1>1, <2>1, <2>2, <2>7, <3>1, <4>1, Opening DEF Basic, tables, history
    <3>3. Work(Ui)' /\ UiWork'
      BY <1>1, <2>5 DEF Work, UiWork, Clearing, tables
    <3>4. Carriage' /\ Emptied' /\ Showing'
      <4>1. Aside /\ Aside'
        BY <1>1, <2>5 DEF Aside, Switching, Clearing
      <4>2. /\ DOMAIN thread' = DOMAIN thread \cup {T}
            /\ \A t \in DOMAIN thread : thread'[t] = thread[t]
            /\ thread'[T].p = p
        BY <2>1, <2>2, OpenFacts DEF Basic
      <4>3. \A w \in Wins : handle[w] # p
        BY <2>1, <2>7 DEF Alone, Tables
      <4>. HIDE DEF T, p
      <4>4. \A t \in DOMAIN thread' : \A w \in Wins : Running(t)' /\ thread'[t].p = handle[w] =>
              t \in DOMAIN thread /\ Running(t) /\ thread[t].p = handle[w]
                                  /\ thread'[t].cam = thread[t].cam
        BY <4>2, <4>3 DEF Running
      <4>. QED
        BY <1>1, <1>2, <2>5, <2>7, <3>2, <4>1, <4>4, ShowsStep, AsidePlace DEF tables
    <3>. QED
      BY <3>2, <3>3, <3>4
  <2>8. p # 0 /\ T # 0
    BY <2>1, <2>2
  <2>. QED
    BY <1>1, <2>3, <2>4, <2>5, <2>6, <2>7, <2>8, UiStepFrom
    DEF Moves, Busy, Basic, history, tables
<1>. QED
  BY <1>3, <1>4

-----------------------------------------------------------------------------
(* CMP_CloseMedia *)

\* Nobody's thread is left of the player that was closed.
LEMMA Stopping ==
    ASSUME TypeOK, Alone, ~overlap, NEW a \in Actors, NEW p \in DOMAIN player,
           \/ player' = [player EXCEPT ![p].flag = FALSE, ![p].state = "STOP"] /\ player[p].h = 0
           \/ player' = [player EXCEPT ![p].h = 0, ![p].state = "STOP"],
           \A t \in DOMAIN thread : Running(t) => thread[t].p # p,
           UNCHANGED <<thread, handle, playback, wrapped, beyond, reinit>>,
           \A b \in Actors \ {a} : pc[b] # "wait", pc[a] = "wait" => loc[a].p = p
    PROVE  Tables' /\ Threads' /\ NoStray' /\ NothingLost'
<1>1. /\ DOMAIN player' = DOMAIN player /\ player'[p].h = 0 /\ player'[p].live = player[p].live
      /\ \A q \in DOMAIN player \ {p} : player'[q] = player[q]
      /\ \A v \in Wins : handle[v] # 0 => handle[v] \in DOMAIN player
      /\ playback # 0 => playback \in DOMAIN player
      /\ \A t \in DOMAIN thread : thread[t].p \in DOMAIN player
  <2>1. /\ DOMAIN player' = DOMAIN player /\ player'[p].h = 0 /\ player'[p].live = player[p].live
        /\ \A q \in DOMAIN player \ {p} : player'[q] = player[q]
    BY StopFacts
  <2>2. /\ handle \in [Wins -> 0..Len(player)] /\ playback \in 0..Len(player)
        /\ DOMAIN player = 1..Len(player) /\ \A t \in DOMAIN thread : thread[t].p \in DOMAIN player
    BY Numbers, TypeParts DEF Big
  <2>. QED
    BY <2>1, <2>2
<1>2. Tables'
  BY <1>1 DEF Alone, Tables, Live
<1>3. Threads'
  <2>1. \A t \in DOMAIN thread' : Running(t)' => player'[thread'[t].p].h = t
    BY <1>1 DEF Alone, Threads, Running
  <2>2. \A q \in DOMAIN player' : player'[q].h # 0 => thread'[player'[q].h].p = q
    BY <1>1 DEF Alone, Threads
  <2>3. ASSUME NEW t \in DOMAIN thread', NEW w \in Wins, Running(t)', thread'[t].p = handle'[w]
        PROVE  player'[handle'[w]].flag
    <3>1. Running(t) /\ thread[t].p = handle[w] /\ handle[w] # p /\ handle[w] \in DOMAIN player
      BY <1>1, <2>3 DEF Running
    <3>2. player[handle[w]].flag
      BY <3>1 DEF Alone, Threads
    <3>. QED
      BY <1>1, <3>1, <3>2
  <2>. QED
    BY <2>1, <2>2, <2>3 DEF Threads
<1>4. NoStray'
  BY <1>1 DEF Alone, NoStray, Running, InTable
<1>5. NothingLost'
  BY <1>1 DEF Alone, NothingLost, Live, InTable
<1>. QED
  BY <1>2, <1>3, <1>4, <1>5

\* The flag of a player is down, and somebody waits for its thread.
LEMMA Flagging ==
    ASSUME TypeOK, Alone, ~overlap, NEW a \in Actors, NEW p \in DOMAIN player,
           player' = [player EXCEPT ![p].flag = FALSE], pc'[a] = "wait", loc'[a].p = p,
           UNCHANGED <<thread, handle, playback, wrapped, beyond, reinit>>,
           \A b \in Actors : pc[b] # "wait"
    PROVE  Tables' /\ Threads' /\ NoStray' /\ NothingLost'
<1>1. /\ DOMAIN player' = DOMAIN player
      /\ \A q \in DOMAIN player : player'[q].h = player[q].h /\ player'[q].live = player[q].live
      /\ \A q \in DOMAIN player \ {p} : player'[q].flag = player[q].flag
      /\ \A v \in Wins : handle[v] # 0 => handle[v] \in DOMAIN player
      /\ playback # 0 => playback \in DOMAIN player
      /\ \A t \in DOMAIN thread : thread[t].p \in DOMAIN player
  BY FlagFacts, Numbers, TypeParts DEF Big
<1>2. Tables'
  BY <1>1 DEF Alone, Tables, Live
<1>3. Threads'
  <2>1. \A t \in DOMAIN thread' : Running(t)' => player'[thread'[t].p].h = t
    BY <1>1 DEF Alone, Threads, Running
  <2>2. \A q \in DOMAIN player' : player'[q].h # 0 => thread'[player'[q].h].p = q
    BY <1>1 DEF Alone, Threads
  <2>3. ASSUME NEW t \in DOMAIN thread', NEW w \in Wins, Running(t)', thread'[t].p = handle'[w],
               handle'[w] # p
        PROVE  player'[handle'[w]].flag
    <3>1. Running(t) /\ thread[t].p = handle[w] /\ handle[w] \in DOMAIN player
      BY <1>1, <2>3 DEF Running
    <3>2. player[handle[w]].flag
      BY <3>1 DEF Alone, Threads
    <3>. QED
      BY <1>1, <2>3, <3>1, <3>2
  <2>. QED
    BY <2>1, <2>2, <2>3 DEF Threads
<1>4. NoStray'
  BY <1>1 DEF Alone, NoStray, Running, InTable
<1>5. NothingLost'
  BY <1>1 DEF Alone, NothingLost, Live, InTable
<1>. QED
  BY <1>2, <1>3, <1>4, <1>5

\* a is back from CMP_CloseMedia.
Returns(a) ==
    LET p == loc[a].p
    IN  /\ pc[a] \in InMedia
        /\ \/ player' = [player EXCEPT ![p].flag = FALSE, ![p].state = "STOP"] /\ player[p].h = 0
           \/ player' = [player EXCEPT ![p].h = 0, ![p].state = "STOP"]
        /\ Goto(a, loc[a].ret)
        /\ loc' = loc \/ Put(a, [loc[a] EXCEPT !.t = 0])
        /\ Alone => \A t \in DOMAIN thread : Running(t) => thread[t].p # p
        /\ UNCHANGED <<world, tables, thread, crash, history, bounds>>

\* a has taken the flag down and waits for the thread.
Waits(a) ==
    LET p == loc[a].p
        t == player[p].h
    IN  /\ pc[a] = "close" /\ t # 0
        /\ player' = [player EXCEPT ![p].flag = FALSE]
        /\ Goto(a, "wait") /\ Put(a, [loc[a] EXCEPT !.t = t])
        /\ UNCHANGED <<world, tables, thread, crash, history, bounds>>

LEMMA CloseCases ==
    ASSUME Basic, NEW a \in Actors, Close(a) \/ Waited(a)
    PROVE  Returns(a) \/ Waits(a)
<1>1. ASSUME Close(a), player[loc[a].p].h = 0 PROVE Returns(a)
  <2>1. ASSUME Alone, NEW t \in DOMAIN thread, Running(t) PROVE thread[t].p # loc[a].p
    <3>1. player[thread[t].p].h = t /\ t # 0
      BY <2>1, Numbers DEF Alone, Threads, Basic
    <3>. QED
      BY <1>1, <3>1
  <2>. QED
    BY <1>1, <2>1 DEF Close, Returns, At, InMedia
<1>2. ASSUME Close(a), player[loc[a].p].h # 0 PROVE Waits(a)
  BY <1>2 DEF Close, Waits, At
<1>3. ASSUME Waited(a) PROVE Returns(a)
  <2>1. ASSUME Alone, NEW t \in DOMAIN thread, Running(t) PROVE thread[t].p # loc[a].p
    <3>1. player[thread[t].p].h = t
      BY <2>1 DEF Alone, Threads
    <3>2. player[loc[a].p].h = loc[a].t /\ ~Running(loc[a].t)
      BY <1>3, <2>1 DEF Alone, Work, Waited, At
    <3>. QED
      BY <2>1, <3>1, <3>2
  <2>. QED
    BY <1>3, <2>1 DEF Waited, Returns, At, InMedia
<1>. QED
  BY <1>1, <1>2, <1>3

LEMMA ReturnsFacts ==
    ASSUME Basic, Meeting, NEW a \in Actors, Returns(a), loc[a].ret \in Labels
    PROVE  /\ Big' /\ Small' /\ Where' /\ loc[a].p \in DOMAIN player
           /\ pc'[a] = loc[a].ret /\ loc'[a].c = loc[a].c /\ loc'[a].pos = loc[a].pos
           /\ loc'[a].w = loc[a].w /\ loc'[a].p = loc[a].p /\ loc'[a].ret = loc[a].ret
           /\ \A b \in Actors \ {a} : pc'[b] = pc[b] /\ loc'[b] = loc[b]
           /\ player'[loc[a].p].h = 0 /\ player'[loc[a].p].state = "STOP"
           /\ \A q \in DOMAIN player \ {loc[a].p} : player'[q] = player[q]
           /\ ~overlap /\ Alone /\ (\A b \in Actors \ {a} : ~Busy(b)) =>
                 Tables' /\ Threads' /\ NoStray' /\ NothingLost'
<1>. DEFINE p == loc[a].p
<1>1. /\ \/ player' = [player EXCEPT ![p].flag = FALSE, ![p].state = "STOP"] /\ player[p].h = 0
         \/ player' = [player EXCEPT ![p].h = 0, ![p].state = "STOP"]
      /\ pc[a] \in InMedia /\ Goto(a, loc[a].ret)
      /\ loc' = loc \/ Put(a, [loc[a] EXCEPT !.t = 0])
      /\ Alone => \A t \in DOMAIN thread : Running(t) => thread[t].p # p
      /\ UNCHANGED <<world, tables, thread, crash, history, bounds>>
  BY DEF Returns
<1>2. p \in DOMAIN player /\ Len(player) \in Nat /\ Len(thread) \in Nat
  BY <1>1, Numbers DEF Basic, Local, Loc
<1>3. /\ player' \in Seq(Player) /\ Len(player') = Len(player)
      /\ player'[p].h = 0 /\ player'[p].state = "STOP"
      /\ \A q \in DOMAIN player \ {p} : player'[q] = player[q]
  <2>. HIDE DEF p
  <2>. QED
    BY <1>1, <1>2, StopFacts DEF Basic
<1>4. Big' /\ Loc' = Loc
  BY <1>1, <1>3, BigStep, Numbers, TypeParts DEF Basic, Big, tables, world
<1>5. Small'
  BY <1>1, SameSmall, TypeParts DEF Basic, Small, bounds
<1>6. /\ loc' \in [Actors -> Loc] /\ loc'[a].c = loc[a].c /\ loc'[a].pos = loc[a].pos
      /\ loc'[a].w = loc[a].w /\ loc'[a].p = loc[a].p /\ loc'[a].ret = loc[a].ret
      /\ \A b \in Actors \ {a} : loc'[b] = loc[b]
  <2>1. CASE loc' = loc
    BY <2>1, Numbers DEF Basic
  <2>2. CASE Put(a, [loc[a] EXCEPT !.t = 0])
    <3>1. 0 \in 0..Len(thread)
      BY <1>2
    <3>. QED
      BY <2>2, <3>1, PutT DEF Basic
  <2>. QED
    BY <1>1, <2>1, <2>2
<1>7. /\ Where' /\ pc'[a] = loc[a].ret /\ \A b \in Actors \ {a} : pc'[b] = pc[b]
  BY <1>1, <1>4, <1>6, GotoFacts DEF Basic, Where
<1>8. ASSUME ~overlap, Alone, \A b \in Actors \ {a} : ~Busy(b)
      PROVE  Tables' /\ Threads' /\ NoStray' /\ NothingLost'
  <2>1. \A b \in Actors \ {a} : pc[b] # "wait"
    BY <1>8 DEF Busy
  <2>2. UNCHANGED <<thread, handle, playback, wrapped, beyond, reinit>>
    BY <1>1 DEF tables, history
  <2>3. pc[a] = "wait" => loc[a].p = p
    OBVIOUS
  <2>4. \A t \in DOMAIN thread : Running(t) => thread[t].p # p
    BY <1>1, <1>8
  <2>. HIDE DEF p
  <2>. QED
    BY <1>1, <1>2, <1>8, <2>1, <2>2, <2>3, <2>4, Stopping DEF Basic
<1>. QED
  BY <1>2, <1>3, <1>4, <1>5, <1>6, <1>7, <1>8

LEMMA WaitsFacts ==
    ASSUME Basic, Meeting, NEW a \in Actors, Waits(a)
    PROVE  /\ Big' /\ Small' /\ Where' /\ loc[a].p \in DOMAIN player
           /\ pc'[a] = "wait" /\ loc'[a].c = loc[a].c /\ loc'[a].pos = loc[a].pos
           /\ loc'[a].w = loc[a].w /\ loc'[a].p = loc[a].p /\ loc'[a].ret = loc[a].ret
           /\ loc'[a].t = player[loc[a].p].h /\ loc'[a].t # 0
           /\ \A b \in Actors \ {a} : pc'[b] = pc[b] /\ loc'[b] = loc[b]
           /\ ~player'[loc[a].p].flag
           /\ \A q \in DOMAIN player : player'[q].h = player[q].h /\ player'[q].state = player[q].state
           /\ ~overlap /\ Alone /\ (\A b \in Actors \ {a} : ~Busy(b)) =>
                 Tables' /\ Threads' /\ NoStray' /\ NothingLost'
<1>. DEFINE p == loc[a].p
            h == player[p].h
<1>1. /\ pc[a] = "close" /\ h # 0
      /\ player' = [player EXCEPT ![p].flag = FALSE]
      /\ Goto(a, "wait") /\ Put(a, [loc[a] EXCEPT !.t = h])
      /\ UNCHANGED <<world, tables, thread, crash, history, bounds>>
  BY DEF Waits
<1>2. p \in DOMAIN player /\ Len(player) \in Nat /\ Len(thread) \in Nat /\ h \in 0..Len(thread)
  BY <1>1, Numbers DEF Basic, Local, Loc, InMedia, Player
<1>3. /\ player' \in Seq(Player) /\ Len(player') = Len(player) /\ ~player'[p].flag
      /\ \A q \in DOMAIN player : player'[q].h = player[q].h /\ player'[q].state = player[q].state
  <2>. HIDE DEF p
  <2>. QED
    BY <1>1, <1>2, FlagFacts DEF Basic
<1>4. Big' /\ Loc' = Loc
  BY <1>1, <1>3, BigStep, Numbers, TypeParts DEF Basic, Big, tables, world
<1>5. Small'
  BY <1>1, SameSmall, TypeParts DEF Basic, Small, bounds
<1>6. /\ loc' \in [Actors -> Loc] /\ loc'[a].c = loc[a].c /\ loc'[a].pos = loc[a].pos
      /\ loc'[a].w = loc[a].w /\ loc'[a].p = loc[a].p /\ loc'[a].ret = loc[a].ret
      /\ loc'[a].t = h /\ \A b \in Actors \ {a} : loc'[b] = loc[b]
  <2>. HIDE DEF h
  <2>. QED
    BY <1>1, <1>2, PutT DEF Basic
<1>7. Where' /\ pc'[a] = "wait" /\ \A b \in Actors \ {a} : pc'[b] = pc[b]
  <2>1. "wait" \in Labels
    BY DEF Labels
  <2>. QED
    BY <1>1, <1>4, <1>6, <2>1, GotoFacts DEF Basic, Where
<1>8. ASSUME ~overlap, Alone, \A b \in Actors \ {a} : ~Busy(b)
      PROVE  Tables' /\ Threads' /\ NoStray' /\ NothingLost'
  <2>1. \A b \in Actors : pc[b] # "wait"
    BY <1>1, <1>8 DEF Busy
  <2>2. UNCHANGED <<thread, handle, playback, wrapped, beyond, reinit>>
    BY <1>1 DEF tables, history
  <2>3. loc'[a].p = p
    BY <1>6
  <2>. HIDE DEF p
  <2>. QED
    BY <1>1, <1>2, <1>7, <1>8, <2>1, <2>2, <2>3, Flagging DEF Basic
<1>. QED
  BY <1>1, <1>2, <1>3, <1>4, <1>5, <1>6, <1>7, <1>8

LEMMA ReturnsUi ==
    ASSUME Basic, ~overlap => Alone, Meeting, Returns(Ui)
    PROVE  Basic' /\ (~overlap' => Alone')
<1>. DEFINE p == loc[Ui].p
<1>1. pc[Ui] \in InMedia /\ UNCHANGED <<world, tables, thread, crash, history, bounds>>
  BY DEF Returns
<1>2. /\ Ui \in Actors /\ Ui \notin Nvrs /\ Nvrs \subseteq Actors
      /\ loc[Ui].ret \in {"delete", "open", "deletePlayBack", "deletePlay"}
  BY <1>1, Numbers, TrainFacts DEF Basic, Local, UiLocal
<1>3. loc[Ui].ret \in Labels
  BY <1>2 DEF Labels
<1>4. /\ Big' /\ Small' /\ Where' /\ p \in DOMAIN player
      /\ pc'[Ui] = loc[Ui].ret /\ loc'[Ui].c = loc[Ui].c /\ loc'[Ui].pos = loc[Ui].pos
      /\ loc'[Ui].w = loc[Ui].w /\ loc'[Ui].p = p /\ loc'[Ui].ret = loc[Ui].ret
      /\ \A b \in Actors \ {Ui} : pc'[b] = pc[b] /\ loc'[b] = loc[b]
      /\ player'[p].h = 0 /\ player'[p].state = "STOP"
      /\ \A q \in DOMAIN player \ {p} : player'[q] = player[q]
      /\ ~overlap /\ Alone /\ (\A b \in Actors \ {Ui} : ~Busy(b)) =>
            Tables' /\ Threads' /\ NoStray' /\ NothingLost'
  BY <1>2, <1>3, ReturnsFacts
<1>. HIDE DEF p
<1>. USE DEF Closing, InMedia
<1>5. UiLocal'
  BY <1>1, <1>2, <1>4 DEF Basic, Local, UiLocal, UiLabels, Labels, Carriages, NvrOf, Pos, world
<1>6. ASSUME ~overlap, Alone, \A n \in Nvrs : ~Busy(n)
      PROVE  /\ Tables' /\ Threads' /\ NoStray' /\ NothingLost'
             /\ Work(Ui)' /\ UiWork' /\ Carriage' /\ Emptied' /\ Showing'
  <2>1. Tables' /\ Threads' /\ NoStray' /\ NothingLost'
    BY <1>4, <1>6 DEF Actors
  <2>2. /\ loc[Ui].ret \in {"delete", "deletePlayBack", "deletePlay"}
        /\ loc[Ui].ret = "delete" => p = handle[loc[Ui].w]
        /\ loc[Ui].ret # "delete" => p = playback
        /\ p # 0
        /\ loc[Ui].ret = "delete" => \A v \in Wins : v < loc[Ui].w => handle[v] = 0
    BY <1>1, <1>2, <1>4, <1>6, Numbers DEF Alone, UiWork, Work, Clearing, p, Basic
  <2>3. Work(Ui)' /\ UiWork'
    BY <1>1, <1>4, <2>2 DEF Work, UiWork, Clearing, tables
  <2>4. SamePlace
    BY <1>1, <1>4, <2>2 DEF SamePlace, Preparing, Switching, Clearing
  <2>5. Carriage' /\ Emptied' /\ Showing'
    BY <1>1, <1>2, <1>4, <1>6, <2>4, ShowsStep DEF Shows, Running, tables
  <2>. QED
    BY <2>1, <2>3, <2>5
<1>. QED
  BY <1>1, <1>2, <1>4, <1>5, <1>6, UiStepFrom DEF Moves, Busy, Basic, history, tables

LEMMA WaitsUi ==
    ASSUME Basic, ~overlap => Alone, Meeting, Waits(Ui)
    PROVE  Basic' /\ (~overlap' => Alone')
<1>. DEFINE p == loc[Ui].p
<1>1. pc[Ui] = "close" /\ UNCHANGED <<world, tables, thread, crash, history, bounds>>
  BY DEF Waits
<1>2. Ui \in Actors /\ Ui \notin Nvrs /\ Nvrs \subseteq Actors
  BY Numbers, TrainFacts DEF Basic
<1>3. /\ Big' /\ Small' /\ Where' /\ p \in DOMAIN player
      /\ pc'[Ui] = "wait" /\ loc'[Ui].c = loc[Ui].c /\ loc'[Ui].pos = loc[Ui].pos
      /\ loc'[Ui].w = loc[Ui].w /\ loc'[Ui].p = p /\ loc'[Ui].ret = loc[Ui].ret
      /\ loc'[Ui].t = player[p].h /\ loc'[Ui].t # 0
      /\ \A b \in Actors \ {Ui} : pc'[b] = pc[b] /\ loc'[b] = loc[b]
      /\ ~player'[p].flag
      /\ \A q \in DOMAIN player : player'[q].h = player[q].h /\ player'[q].state = player[q].state
      /\ ~overlap /\ Alone /\ (\A b \in Actors \ {Ui} : ~Busy(b)) =>
            Tables' /\ Threads' /\ NoStray' /\ NothingLost'
  BY <1>2, WaitsFacts
<1>. HIDE DEF p
<1>. USE DEF Closing, InMedia
<1>4. UiLocal'
  BY <1>1, <1>3 DEF Basic, Local, UiLocal, UiLabels, Labels, Carriages, NvrOf, Pos, world
<1>5. p # 0
  BY <1>1 DEF Basic, Local, p, Actors
<1>6. ASSUME ~overlap, Alone, \A n \in Nvrs : ~Busy(n)
      PROVE  /\ Tables' /\ Threads' /\ NoStray' /\ NothingLost'
             /\ Work(Ui)' /\ UiWork' /\ Carriage' /\ Emptied' /\ Showing'
  <2>1. Tables' /\ Threads' /\ NoStray' /\ NothingLost'
    BY <1>3, <1>6 DEF Actors
  <2>2. Work(Ui)' /\ UiWork'
    BY <1>1, <1>2, <1>3, <1>6 DEF Alone, Work, UiWork, Clearing, tables, p
  <2>3. SamePlace
    BY <1>1, <1>3 DEF SamePlace, Preparing, Switching, Clearing
  <2>4. Carriage' /\ Emptied' /\ Showing'
    BY <1>1, <1>2, <1>3, <1>6, <2>3, ShowsStep DEF Shows, Running, tables
  <2>. QED
    BY <2>1, <2>2, <2>4
<1>. QED
  BY <1>1, <1>3, <1>4, <1>5, <1>6, UiStepFrom DEF Moves, Busy, Basic, history, tables

LEMMA ReturnsConn ==
    ASSUME Basic, ~overlap => Alone, Meeting, NEW n \in Nvrs, Returns(n)
    PROVE  Basic' /\ (~overlap' => Alone')
<1>. DEFINE p == loc[n].p
<1>1. pc[n] \in InMedia /\ UNCHANGED <<world, tables, thread, crash, history, bounds>>
  BY DEF Returns
<1>2. /\ Ui \in Actors /\ Ui \notin Nvrs /\ Nvrs \subseteq Actors /\ n \in Actors /\ n # Ui
      /\ loc[n].ret \in {"stopPlayBack", "deletePlayBack"} /\ loc[n].w \in Wins
  BY <1>1, Numbers, TrainFacts DEF Basic, Local, ConnLocal, InMedia
<1>3. loc[n].ret \in Labels
  BY <1>2 DEF Labels
<1>4. /\ Big' /\ Small' /\ Where' /\ p \in DOMAIN player
      /\ pc'[n] = loc[n].ret /\ loc'[n].c = loc[n].c /\ loc'[n].pos = loc[n].pos
      /\ loc'[n].w = loc[n].w /\ loc'[n].p = p /\ loc'[n].ret = loc[n].ret
      /\ \A b \in Actors \ {n} : pc'[b] = pc[b] /\ loc'[b] = loc[b]
      /\ player'[p].h = 0 /\ player'[p].state = "STOP"
      /\ \A q \in DOMAIN player \ {p} : player'[q] = player[q]
      /\ ~overlap /\ Alone /\ (\A b \in Actors \ {n} : ~Busy(b)) =>
            Tables' /\ Threads' /\ NoStray' /\ NothingLost'
  BY <1>2, <1>3, ReturnsFacts
<1>. HIDE DEF p
<1>. USE DEF Closing, InMedia
<1>5. ConnLocal(n)'
  BY <1>1, <1>2, <1>4 DEF Basic, Local, ConnLocal, ConnLabels, ConnPlaces, Carriages, NvrOf, world
<1>6. ASSUME ~overlap, Alone, \A b \in Actors \ {n} : ~Busy(b)
      PROVE  /\ Tables' /\ Threads' /\ NoStray' /\ NothingLost'
             /\ Work(n)' /\ ConnWork(n)' /\ Carriage' /\ Emptied' /\ Showing'
  <2>1. Tables' /\ Threads' /\ NoStray' /\ NothingLost'
    BY <1>4, <1>6
  <2>2. /\ loc[n].ret = "stopPlayBack" => p = handle[loc[n].w]
        /\ loc[n].ret = "deletePlayBack" => p = playback
        /\ p # 0
        /\ select \in {0, loc[n].c} /\ current = loc[n].c /\ m_bInitPreview
        /\ loc[n].ret = "deletePlayBack" => handle[loc[n].w] = 0 \/ Still(handle[loc[n].w])
    BY <1>1, <1>2, <1>4, <1>6, Numbers DEF Alone, ConnWork, Work, Busy, p, Basic
  <2>3. Work(n)'
    BY <1>1, <1>2, <1>4, <2>2 DEF Work, tables
  <2>4. ConnWork(n)'
    <3>1. handle[loc[n].w] = 0 \/ Still(handle[loc[n].w])'
      <4>1. CASE loc[n].ret = "stopPlayBack"
        BY <1>1, <1>4, <2>2, <4>1 DEF Still, tables
      <4>2. CASE loc[n].ret = "deletePlayBack"
        <5>1. handle[loc[n].w] # 0 => handle[loc[n].w] # p /\ handle[loc[n].w] \in DOMAIN player
          BY <1>2, <1>6, <2>2, <4>2, Numbers, TypeParts DEF Alone, Tables, Basic, Big
        <5>. QED
          BY <1>1, <1>4, <2>2, <4>2, <5>1 DEF Still, tables
      <4>. QED
        BY <1>2, <4>1, <4>2
    <3>. QED
      BY <1>1, <1>2, <1>4, <2>2, <3>1 DEF ConnWork, Busy, ConnPlaces, Still, tables
  <2>5. SamePlace
    BY <1>2, <1>4, AsidePlace
  <2>6. pc[n] # "idle" => pc'[n] # "idle"
    BY <1>2, <1>4
  <2>7. Carriage' /\ Emptied' /\ Showing'
    BY <1>1, <1>2, <1>4, <1>6, <2>5, <2>6, ShowsStep DEF Shows, Running, tables
  <2>. QED
    BY <2>1, <2>3, <2>4, <2>7
<1>. QED
  BY <1>1, <1>2, <1>4, <1>5, <1>6, ConnStepFrom DEF Moves, Busy, Basic, history, tables

LEMMA WaitsConn ==
    ASSUME Basic, ~overlap => Alone, Meeting, NEW n \in Nvrs, Waits(n)
    PROVE  Basic' /\ (~overlap' => Alone')
<1>. DEFINE p == loc[n].p
<1>1. pc[n] = "close" /\ UNCHANGED <<world, tables, thread, crash, history, bounds>>
  BY DEF Waits
<1>2. /\ Ui \in Actors /\ Ui \notin Nvrs /\ Nvrs \subseteq Actors /\ n \in Actors /\ n # Ui
      /\ loc[n].ret \in {"stopPlayBack", "deletePlayBack"} /\ loc[n].w \in Wins
  BY <1>1, Numbers, TrainFacts DEF Basic, Local, ConnLocal, InMedia
<1>3. /\ Big' /\ Small' /\ Where' /\ p \in DOMAIN player
      /\ pc'[n] = "wait" /\ loc'[n].c = loc[n].c /\ loc'[n].pos = loc[n].pos
      /\ loc'[n].w = loc[n].w /\ loc'[n].p = p /\ loc'[n].ret = loc[n].ret
      /\ loc'[n].t = player[p].h /\ loc'[n].t # 0
      /\ \A b \in Actors \ {n} : pc'[b] = pc[b] /\ loc'[b] = loc[b]
      /\ ~player'[p].flag
      /\ \A q \in DOMAIN player : player'[q].h = player[q].h /\ player'[q].state = player[q].state
      /\ ~overlap /\ Alone /\ (\A b \in Actors \ {n} : ~Busy(b)) =>
            Tables' /\ Threads' /\ NoStray' /\ NothingLost'
  BY <1>2, WaitsFacts
<1>. HIDE DEF p
<1>. USE DEF Closing, InMedia
<1>4. ConnLocal(n)'
  BY <1>1, <1>2, <1>3 DEF Basic, Local, ConnLocal, ConnLabels, ConnPlaces, Carriages, NvrOf, world
<1>5. p # 0
  BY <1>1, <1>2 DEF Basic, Local, p
<1>6. ASSUME ~overlap, Alone, \A b \in Actors \ {n} : ~Busy(b)
      PROVE  /\ Tables' /\ Threads' /\ NoStray' /\ NothingLost'
             /\ Work(n)' /\ ConnWork(n)' /\ Carriage' /\ Emptied' /\ Showing'
  <2>1. Tables' /\ Threads' /\ NoStray' /\ NothingLost'
    BY <1>3, <1>6
  <2>2. /\ Closing(n, {"stopPlayBack"}) => p = handle[loc[n].w]
        /\ Closing(n, {"deletePlayBack"}) => p = playback
        /\ select \in {0, loc[n].c} /\ current = loc[n].c /\ m_bInitPreview
        /\ loc[n].ret = "deletePlayBack" => handle[loc[n].w] = 0 \/ Still(handle[loc[n].w])
    BY <1>1, <1>2, <1>6 DEF Alone, ConnWork, Work, Busy, p
  <2>3. Work(n)'
    BY <1>1, <1>2, <1>3, <2>2 DEF Work, tables
  <2>4. ConnWork(n)'
    <3>1. loc[n].ret = "deletePlayBack" => handle[loc[n].w] = 0 \/ Still(handle[loc[n].w])'
      <4>1. handle[loc[n].w] # 0 => handle[loc[n].w] \in DOMAIN player
        BY <1>2, Numbers, TypeParts DEF Basic, Big
      <4>. QED
        BY <1>1, <1>3, <2>2, <4>1 DEF Still, tables
    <3>. QED
      BY <1>1, <1>2, <1>3, <2>2, <3>1 DEF ConnWork, Busy, ConnPlaces, Still, tables
  <2>5. SamePlace
    BY <1>2, <1>3, AsidePlace
  <2>6. Carriage' /\ Emptied' /\ Showing'
    BY <1>1, <1>2, <1>3, <1>6, <2>5, ShowsStep DEF Shows, Running, tables
  <2>. QED
    BY <2>1, <2>3, <2>4, <2>6
<1>. QED
  BY <1>1, <1>2, <1>3, <1>4, <1>5, <1>6, ConnStepFrom DEF Moves, Busy, Basic, history, tables

LEMMA CloseStep ==
    ASSUME Basic, ~overlap => Alone, Meeting, NEW a \in Actors, Close(a) \/ Waited(a)
    PROVE  Basic' /\ (~overlap' => Alone')
<1>1. a = Ui \/ a \in Nvrs
  BY DEF Actors
<1>. QED
  BY <1>1, CloseCases, ReturnsUi, WaitsUi, ReturnsConn, WaitsConn

\* While nobody has met, no player is used that was deleted, and none is deleted in use.
LEMMA NoMisuse ==
    ASSUME Basic, Alone, NEW a \in Actors
    PROVE  ~Misuses(a)
<1>. DEFINE w == loc[a].w
<1>1. /\ a = Ui \/ a \in Nvrs
      /\ Ui \notin Nvrs
      /\ \A v \in Wins : handle[v] # 0 => Live(handle[v])
      /\ playback # 0 => Live(playback)
  BY Numbers, TrainFacts DEF Alone, Tables, Actors, Basic
<1>2. pc[a] \in InMedia => loc[a].p # 0 /\ Live(loc[a].p)
  <2>1. CASE a = Ui
    BY <1>1, <2>1 DEF Basic, Local, UiLocal, Alone, UiWork, Work, Closing
  <2>2. CASE a \in Nvrs
    <3>1. pc[a] \in InMedia => /\ loc[a].ret \in {"stopPlayBack", "deletePlayBack"}
                              /\ loc[a].w \in Wins /\ loc[a].p # 0
      BY <2>2 DEF Basic, Local, ConnLocal, InMedia
    <3>2. pc[a] \in InMedia => loc[a].p = handle[loc[a].w] \/ loc[a].p = playback
      BY <3>1 DEF Alone, Work, Closing
    <3>. QED
      BY <1>1, <3>1, <3>2
  <2>. QED
    BY <1>1, <2>1, <2>2
<1>3. pc[a] \in {"peek", "waitFile"} => a = Ui /\ loc[a].p = playback
  BY <1>1 DEF Alone, UiWork, Basic, Local, ConnLocal, ConnLabels, InMedia, ConnPlaces
<1>4. ASSUME NEW p \in DOMAIN player, Live(p), player[p].h = 0 PROVE MayDelete(p)
  <2>1. \A t \in DOMAIN thread : Running(t) => player[thread[t].p].h = t /\ t # 0
    BY Numbers DEF Alone, Threads, Basic
  <2>2. DOMAIN thread = 1..Len(thread)
    BY Numbers DEF Basic
  <2>. QED
    BY <1>4, <2>1, <2>2 DEF MayDelete
<1>5. pc[a] = "delete" /\ handle[w] # 0 => MayDelete(handle[w])
  <2>1. pc[a] = "delete" => a = Ui /\ w \in Wins /\ player[handle[w]].h = 0
    BY <1>1 DEF Alone, UiWork, Basic, Local, UiLocal, ConnLocal, ConnLabels, InMedia, ConnPlaces
  <2>2. w \in Wins /\ handle[w] # 0 => handle[w] \in DOMAIN player
    BY Numbers, TypeParts DEF Basic, Big
  <2>. QED
    BY <1>1, <1>4, <2>1, <2>2
<1>6. pc[a] \in {"deletePlayBack", "deletePlay"} /\ playback # 0 => MayDelete(playback)
  <2>1. playback # 0 => playback \in DOMAIN player
    BY Numbers, TypeParts DEF Basic, Big
  <2>. QED
    BY <1>1, <1>4, <2>1 DEF Alone, Work
<1>7. pc[a] \in {"open", "state"} => w \in Wins
  <2>1. CASE a = Ui
    BY <1>1, <2>1, Numbers, TrainFacts DEF Basic, Local, UiLocal, UiLabels
  <2>2. CASE a \in Nvrs
    BY <2>2 DEF Basic, Local, ConnLocal, ConnPlaces
  <2>. QED
    BY <1>1, <2>1, <2>2
<1>8. pc[a] = "each" /\ w <= Len(Pos[loc[a].c]) => w \in Wins
  <2>1. pc[a] = "each" => a = Ui /\ loc[a].c \in Carriages /\ w > 0 /\ w \in 0..(NumWin + 1)
    BY <1>1, Numbers DEF Basic, Local, UiLocal, ConnLocal, ConnLabels, InMedia, ConnPlaces, Loc
  <2>2. ASSUME loc[a].c \in Carriages
        PROVE  /\ Len(Pos[loc[a].c]) \in Nat /\ DOMAIN Pos[loc[a].c] = 1..Len(Pos[loc[a].c])
               /\ DOMAIN Pos[loc[a].c] \subseteq Wins /\ NumWin \in Nat
    BY <2>2, Numbers, TrainFacts DEF Basic
  <2>. QED
    BY <2>1, <2>2
<1>. HIDE DEF w
<1>. QED
  BY <1>1, <1>2, <1>3, <1>5, <1>6, <1>7, <1>8 DEF Misuses, InMedia, w

LEMMA MisuseStep ==
    ASSUME Basic, ~overlap => Alone, Meeting, NEW a \in Actors, Misuse(a)
    PROVE  Basic' /\ (~overlap' => Alone')
<1>1. overlap /\ overlap'
  BY NoMisuse DEF Misuse, Meeting, Basic, TypeOK
<1>2. crash' = TRUE /\ UNCHANGED <<world, tables, players, pc, loc, history, bounds>>
  BY DEF Misuse
<1>3. Big' /\ Where' /\ Local'
  BY <1>2, SameBig, SameLocal DEF Basic, tables, world
<1>4. Small'
  <2>1. overlap' \in BOOLEAN
    BY <1>1, TypeParts DEF Meeting, Basic, Small, Overlapping
  <2>. QED
    BY <1>2, <2>1, TypeParts
    DEF Basic, Small, world, tables, history, bounds, Cameras, Carriages, NvrOf, Pos
<1>5. TypeOK'
  BY <1>3, <1>4 DEF TypeOK, Small, Big, Where, Player, Thread, Loc
<1>6. OnlineConnected' /\ (select' = 0 => wrapped')
  BY <1>2 DEF Basic, OnlineConnected, world, NvrOf, tables, history
<1>. QED
  BY <1>1, <1>3, <1>5, <1>6 DEF Basic, CrashNeedsOverlap

-----------------------------------------------------------------------------
(* A camera that came online *)

LEMMA CheckStep ==
    ASSUME Basic, ~overlap => Alone, Meeting, NEW n \in Nvrs, Check(n)
    PROVE  Basic' /\ (~overlap' => Alone')
<1>1. /\ pc[n] = "check"
      /\ UNCHANGED <<world, tables, players, crash, wrapped, beyond, excused, bounds>>
  BY DEF Check, At
<1>2. /\ Ui \in Actors /\ Ui \notin Nvrs /\ Nvrs \subseteq Actors /\ n \in Actors /\ loc[n] \in Loc
      /\ NumWin \in Nat /\ 1 \in 0..(NumWin + 1)
  BY Numbers, TrainFacts DEF Basic
<1>3. Small'
  <2>1. reinit' \in BOOLEAN
    BY TypeParts DEF Check, Basic, Small
  <2>2. /\ current' \in {0} \cup Carriages /\ select' \in 0..MaxCarriage
        /\ m_bInitPreview' \in BOOLEAN /\ polling' \in BOOLEAN /\ seen' \in [Nvrs -> BOOLEAN]
        /\ wrapped' \in BOOLEAN /\ beyond' \in BOOLEAN /\ excused' \subseteq Wins
        /\ ops' \in 0..train.ops
    BY <1>1, TypeParts DEF Basic, Small, tables, bounds
  <2>. QED
    BY <1>1, <2>1, <2>2, SmallStep DEF Basic, bounds
<1>. USE DEF Closing, InMedia
<1>4. CASE m_bInitPreview
  <2>1. Goto(n, "start") /\ loc' = loc /\ reinit' = reinit
    BY <1>4 DEF Check
  <2>2. /\ Where' /\ pc'[n] = "start"
        /\ \A b \in Actors \ {n} : pc'[b] = pc[b] /\ loc'[b] = loc[b]
    <3>1. "start" \in Labels
      BY DEF Labels
    <3>. QED
      BY <1>1, <1>2, <2>1, <3>1, GotoFacts, WhereSame, Numbers DEF Basic
  <2>3. ConnLocal(n)'
    BY <1>1, <2>1, <2>2
    DEF Basic, Local, ConnLocal, ConnLabels, ConnPlaces, Carriages, NvrOf, world
  <2>4. Alone => Work(n)' /\ ConnWork(n)'
    BY <1>1, <1>4, <2>1, <2>2 DEF Alone, Work, ConnWork, Busy, ConnPlaces, tables
  <2>. QED
    BY <1>1, <1>2, <1>3, <2>1, <2>2, <2>3, <2>4, ConnAside
    DEF Keep, KeepCarriage, tables, Moves, Busy
<1>5. CASE ~m_bInitPreview
  <2>. DEFINE m == [loc[n] EXCEPT !.w = 1]
  <2>1. Goto(n, "init") /\ Put(n, m) /\ reinit' = TRUE
    BY <1>5 DEF Check
  <2>2. /\ Where' /\ pc'[n] = "init" /\ loc'[n].w = 1
        /\ loc'[n].c = loc[n].c /\ loc'[n].pos = loc[n].pos
        /\ \A b \in Actors \ {n} : pc'[b] = pc[b] /\ loc'[b] = loc[b]
    <3>1. "init" \in Labels
      BY DEF Labels
    <3>2. m \in Loc /\ m.w = 1 /\ m.c = loc[n].c /\ m.pos = loc[n].pos
      BY <1>2 DEF Loc
    <3>. HIDE DEF m
    <3>. QED
      BY <1>1, <1>2, <2>1, <3>1, <3>2, MoveFacts, WhereSame DEF Basic
  <2>3. ConnLocal(n)'
    BY <1>1, <2>2 DEF Basic, Local, ConnLocal, ConnLabels, ConnPlaces, Carriages, NvrOf, world
  <2>4. Alone => Work(n)' /\ ConnWork(n)'
    BY <1>1, <1>5, <2>1, <2>2 DEF Alone, Work, ConnWork, Busy, ConnPlaces, tables
  <2>. QED
    BY <1>1, <1>2, <1>3, <2>1, <2>2, <2>3, <2>4, ConnAside
    DEF Keep, KeepCarriage, tables, Moves, Busy
<1>. QED
  BY <1>4, <1>5

LEMMA StartStep ==
    ASSUME Basic, ~overlap => Alone, Meeting, NEW n \in Nvrs, Start(n)
    PROVE  Basic' /\ (~overlap' => Alone')
<1>1. pc[n] = "start" /\ UNCHANGED <<world, tables, players, crash, history, bounds>>
  BY DEF Start, At
<1>2. /\ Ui \in Actors /\ Ui \notin Nvrs /\ Nvrs \subseteq Actors /\ n \in Actors /\ loc[n] \in Loc
      /\ loc[n].c \in Carriages /\ loc[n].pos \in Wins /\ Wins \subseteq 0..(NumWin + 1) /\ n # Ui
      /\ 0 \notin Carriages /\ connected[n] /\ NvrOf[loc[n].c] = n
  BY <1>1, Numbers, TrainFacts DEF Basic, Local, ConnLocal, Wins
<1>3. Small'
  BY <1>1, SameSmall, TypeParts DEF Basic, Small, bounds
<1>4. CASE loc[n].c # current
  <2>1. Rest(n)
    BY <1>4 DEF Start
  <2>2. /\ Where' /\ pc'[n] = "idle"
        /\ \A b \in Actors \ {n} : pc'[b] = pc[b] /\ loc'[b] = loc[b]
    BY <1>1, <1>2, <2>1, RestFacts, WhereSame DEF Basic
  <2>3. Work(n)' /\ ConnWork(n)'
    BY <1>2, <2>2, Resting DEF Busy
  <2>4. ConnLocal(n)'
    BY <2>2 DEF ConnLocal, ConnLabels, ConnPlaces, InMedia
  <2>5. Local'
    BY <1>1, <1>2, <2>2, <2>4, ConnLocalStep DEF Basic, world, Actors, InMedia
  <2>6. ASSUME Alone, ~overlap, ~overlap' PROVE Carriage' /\ Emptied' /\ Showing'
    <3>1. ~Busy(Ui) /\ ~Busy(Ui)' /\ pc'[Ui] = pc[Ui] /\ loc'[Ui] = loc[Ui]
      BY <1>1, <1>2, <2>2, <2>6, OnlyOne DEF Basic, Busy, Moves
    <3>2. Carriage'
      BY <1>1, <2>6, <3>1
      DEF Alone, Carriage, Preparing, Running, Carriages, NvrOf, CamOf, Pos, world, tables,
          players, history
    <3>3. Emptied'
      BY <1>1, <2>6, <3>1 DEF Alone, Emptied, Preparing, tables, history
    <3>4. \A v \in Wins : Shows(v) => Shows(v)'
      BY <1>1 DEF Shows, Running, tables, players
    <3>5. ~(Watched /\ loc[n].c = select)
      BY <1>4, <2>6, <3>1 DEF Alone, Showing, Switching, Clearing, Closing, InMedia, Busy
    <3>6. excused' = excused /\ excused \subseteq Wins
      BY <1>1, TypeParts DEF history, Basic, Small
    <3>7. Showing'
      BY <1>1, <1>2, <2>2, <2>6, <3>1, <3>4, <3>5, <3>6, ConnRestShows DEF Basic
    <3>. QED
      BY <3>2, <3>3, <3>7
  <2>. QED
    BY <1>1, <1>2, <1>3, <2>2, <2>3, <2>5, <2>6, ControlStep
    DEF Keep, tables, history, Moves, Busy, Basic
<1>5. CASE loc[n].c = current
  <2>. DEFINE p == handle[loc[n].pos]
              x == IF p = 0 THEN "stopPlayBack" ELSE "close"
              m == [loc[n] EXCEPT !.w = loc[n].pos, !.p = p, !.ret = "stopPlayBack"]
  <2>1. Goto(n, x) /\ Put(n, m)
    BY <1>5 DEF Start
  <2>2. /\ Where' /\ pc'[n] = x /\ loc'[n].w = loc[n].pos /\ loc'[n].p = p
        /\ loc'[n].ret = "stopPlayBack" /\ loc'[n].c = loc[n].c /\ loc'[n].pos = loc[n].pos
        /\ \A b \in Actors \ {n} : pc'[b] = pc[b] /\ loc'[b] = loc[b]
    <3>1. x \in Labels /\ "stopPlayBack" \in Labels /\ p \in 0..Len(player)
      BY <1>2, TypeParts DEF Labels, Basic, Big
    <3>2. /\ m \in Loc /\ m.p = p /\ m.ret = "stopPlayBack" /\ m.w = loc[n].pos
          /\ m.c = loc[n].c /\ m.pos = loc[n].pos
      BY <1>2, <3>1 DEF Loc
    <3>. HIDE DEF m, x
    <3>. QED
      BY <1>1, <1>2, <2>1, <3>1, <3>2, MoveFacts, WhereSame DEF Basic
  <2>. USE DEF Closing, InMedia
  <2>3. ConnLocal(n)'
    BY <1>1, <1>2, <2>2 DEF ConnLocal, ConnLabels, ConnPlaces, Carriages, NvrOf, world
  <2>4. Alone => Work(n)' /\ ConnWork(n)'
    BY <1>1, <1>2, <1>5, <2>2 DEF Alone, Work, ConnWork, Busy, ConnPlaces, Still, tables, players
  <2>. QED
    BY <1>1, <1>2, <1>3, <2>2, <2>3, <2>4, ConnAside
    DEF Keep, KeepCarriage, tables, history, Moves, Busy
<1>. QED
  BY <1>4, <1>5

LEMMA CurrentStep ==
    ASSUME Basic, ~overlap => Alone, Meeting, NEW n \in Nvrs, Current(n)
    PROVE  Basic' /\ (~overlap' => Alone')
<1>1. /\ pc[n] = "stopped" /\ current' = loc[n].c
      /\ UNCHANGED <<world, handle, playback, select, m_bInitPreview, polling, seen, players, crash,
                     history, bounds>>
  BY DEF Current, At
<1>2. /\ Ui \in Actors /\ Ui \notin Nvrs /\ Nvrs \subseteq Actors /\ n \in Actors /\ n # Ui
      /\ loc[n].c \in Carriages /\ connected[NvrOf[loc[n].c]]
  BY <1>1, Numbers, TrainFacts DEF Basic, Local, ConnLocal
<1>3. Goto(n, "state") /\ loc' = loc
  BY <1>2 DEF Current
<1>4. Small'
  <2>1. /\ current' \in {0} \cup Carriages /\ select' \in 0..MaxCarriage
        /\ m_bInitPreview' \in BOOLEAN /\ polling' \in BOOLEAN /\ seen' \in [Nvrs -> BOOLEAN]
        /\ wrapped' \in BOOLEAN /\ beyond' \in BOOLEAN /\ reinit' \in BOOLEAN
        /\ excused' \subseteq Wins /\ ops' \in 0..train.ops
    BY <1>1, <1>2, TypeParts DEF Basic, Small, history, bounds
  <2>. QED
    BY <1>1, <2>1, SmallStep DEF Basic, bounds
<1>5. Big'
  BY <1>1, SameBig DEF Basic, world
<1>6. /\ Where' /\ pc'[n] = "state"
      /\ \A b \in Actors \ {n} : pc'[b] = pc[b] /\ loc'[b] = loc[b]
  <2>1. "state" \in Labels
    BY DEF Labels
  <2>. QED
    BY <1>1, <1>2, <1>3, <2>1, GotoFacts, WhereSame, Numbers DEF Basic
<1>. USE DEF Closing, InMedia
<1>7. ConnLocal(n)'
  BY <1>1, <1>3, <1>6 DEF Basic, Local, ConnLocal, ConnLabels, ConnPlaces, Carriages, NvrOf, world
<1>8. ASSUME ~overlap, Alone, \A b \in Actors \ {n} : ~Busy(b) /\ ~Busy(b)'
      PROVE  /\ Tables' /\ Threads' /\ NoStray' /\ NothingLost'
             /\ Work(n)' /\ ConnWork(n)' /\ Carriage' /\ Emptied' /\ Showing'
  <2>1. current' = current
    BY <1>1, <1>8 DEF Alone, ConnWork, ConnPlaces
  <2>2. Tables' /\ Threads' /\ NoStray' /\ NothingLost'
    <3>1. \A a \in Actors : pc[a] # "wait"
      BY <1>1, <1>8 DEF Busy
    <3>. QED
      BY <1>1, <1>8, <3>1, SameTables DEF players, history
  <2>3. Work(n)' /\ ConnWork(n)'
    BY <1>1, <1>3, <1>6, <1>8, <2>1 DEF Alone, Work, ConnWork, Busy, ConnPlaces, Still, players
  <2>4. SamePlace
    BY <1>2, <1>6, AsidePlace
  <2>5. Carriage' /\ Emptied' /\ Showing'
    <3>1. \A m \in Nvrs : pc[m] # "idle" =>
             pc'[m] # "idle" /\ loc'[m].c = loc[m].c /\ loc'[m].pos = loc[m].pos
      BY <1>2, <1>3, <1>6
    <3>2. \A w \in Wins : Shows(w) => Shows(w)'
      BY <1>1 DEF Shows, Running, players
    <3>3. \A t \in DOMAIN thread' : \A w \in Wins : Running(t)' /\ thread'[t].p = handle[w] =>
             t \in DOMAIN thread /\ Running(t) /\ thread[t].p = handle[w]
                                 /\ thread'[t].cam = thread[t].cam
      BY <1>1 DEF Running, players
    <3>. QED
      BY <1>1, <1>8, <2>1, <2>4, <3>1, <3>2, <3>3, ShowsStep
  <2>. QED
    BY <2>2, <2>3, <2>5
<1>. QED
  BY <1>1, <1>2, <1>4, <1>5, <1>6, <1>7, <1>8, ConnStepFrom DEF Moves, Busy, Basic, history

LEMMA StateStep ==
    ASSUME Basic, ~overlap => Alone, Meeting, NEW n \in Nvrs, State(n)
    PROVE  Basic' /\ (~overlap' => Alone')
<1>. DEFINE w == loc[n].w
            c == loc[n].c
            p == handle[w]
<1>1. pc[n] = "state" /\ UNCHANGED <<world, tables, players, crash, history, bounds>>
  BY DEF State, At
<1>2. /\ Ui \in Actors /\ Ui \notin Nvrs /\ Nvrs \subseteq Actors /\ n \in Actors /\ n # Ui
      /\ w \in Wins /\ loc[n].pos = w /\ 0 \notin Carriages
      /\ \A x \in Carriages : DOMAIN Pos[x] = 1..Len(Pos[x]) /\ Len(Pos[x]) \in Nat
  BY <1>1, Numbers, TrainFacts DEF Basic, Local, ConnLocal, ConnPlaces
<1>3. PICK on \in IF CamOf(c, w) = NoCam THEN BOOLEAN ELSE {CamOf(c, w) \in online} :
         IF ~on \/ p = 0 THEN Rest(n)
         ELSE /\ Live(p)
              /\ IF player[p].state = "PLAY" THEN Rest(n)
                 ELSE Goto(n, "open") /\ UNCHANGED loc
  BY DEF State
<1>4. Small'
  BY <1>1, SameSmall, TypeParts DEF Basic, Small, bounds
<1>. USE DEF Closing, InMedia
<1>5. CASE Rest(n) /\ (~on \/ p = 0 \/ player[p].state = "PLAY")
  <2>2. /\ Where' /\ pc'[n] = "idle"
        /\ \A b \in Actors \ {n} : pc'[b] = pc[b] /\ loc'[b] = loc[b]
    BY <1>1, <1>2, <1>5, RestFacts, WhereSame DEF Basic
  <2>3. Work(n)' /\ ConnWork(n)'
    BY <1>2, <2>2, Resting DEF Busy
  <2>4. ConnLocal(n)'
    BY <2>2 DEF ConnLocal, ConnLabels, ConnPlaces
  <2>5. Local'
    BY <1>1, <1>2, <2>2, <2>4, ConnLocalStep DEF Basic, world, Actors
  <2>6. ASSUME Alone, ~overlap, ~overlap' PROVE Carriage' /\ Emptied' /\ Showing'
    <3>1. ~Busy(Ui) /\ ~Busy(Ui)' /\ pc'[Ui] = pc[Ui] /\ loc'[Ui] = loc[Ui]
      BY <1>1, <1>2, <2>2, <2>6, OnlyOne DEF Basic, Busy, Moves
    <3>2. Carriage'
      BY <1>1, <2>6, <3>1
      DEF Alone, Carriage, Preparing, Running, Carriages, NvrOf, CamOf, Pos, world, tables,
          players, history
    <3>3. Emptied'
      BY <1>1, <2>6, <3>1 DEF Alone, Emptied, Preparing, tables, history
    <3>4. \A v \in Wins : Shows(v) => Shows(v)'
      BY <1>1 DEF Shows, Running, tables, players
    <3>5. ASSUME NEW v \in Wins, Watched, loc[n].c = select, loc[n].pos = v, ToShow(v)'
          PROVE FALSE
      <4>1. /\ v \in DOMAIN Pos[select] /\ Pos[select][v] = v /\ <<select, v>> \in online
            /\ select \in Carriages /\ v = w /\ c = select
        BY <1>1, <1>2, <3>5 DEF ToShow, Watched, world, tables, Pos
      <4>2. CamOf(c, w) = <<select, v>>
        BY <1>2, <4>1 DEF CamOf
      <4>3. CamOf(c, w) # NoCam
        BY <1>2, <4>1, <4>2 DEF NoCam
      <4>4. on
        BY <1>3, <4>1, <4>2, <4>3
      <4>5. p # 0
        BY <1>2, <2>6, <3>1, <3>5
        DEF Alone, Showing, Switching, Clearing, Busy
      <4>6. p = 0 \/ player[p].state # "PLAY"
        BY <1>1, <2>6 DEF Alone, ConnWork, ConnPlaces, Still
      <4>. QED
        BY <1>5, <4>4, <4>5, <4>6
    <3>6. excused' = excused /\ excused \subseteq Wins
      BY <1>1, TypeParts DEF history, Basic, Small
    <3>7. Showing'
      BY <1>1, <1>2, <2>2, <2>6, <3>1, <3>4, <3>5, <3>6, ConnRestShows DEF Basic
    <3>. QED
      BY <3>2, <3>3, <3>7
  <2>. QED
    BY <1>1, <1>2, <1>4, <2>2, <2>3, <2>5, <2>6, ControlStep
    DEF Keep, tables, history, Moves, Busy, Basic
<1>6. CASE Goto(n, "open") /\ UNCHANGED loc
  <2>2. /\ Where' /\ pc'[n] = "open"
        /\ \A b \in Actors \ {n} : pc'[b] = pc[b] /\ loc'[b] = loc[b]
    <3>1. "open" \in Labels
      BY DEF Labels
    <3>. QED
      BY <1>1, <1>2, <1>6, <3>1, GotoFacts, WhereSame, Numbers DEF Basic
  <2>3. ConnLocal(n)'
    BY <1>1, <1>6, <2>2
    DEF Basic, Local, ConnLocal, ConnLabels, ConnPlaces, Carriages, NvrOf, world
  <2>4. Alone => Work(n)' /\ ConnWork(n)'
    BY <1>1, <1>6, <2>2 DEF Alone, Work, ConnWork, Busy, ConnPlaces, Still, tables, players
  <2>. QED
    BY <1>1, <1>2, <1>4, <1>6, <2>2, <2>3, <2>4, ConnAside
    DEF Keep, KeepCarriage, tables, history, Moves, Busy
<1>. HIDE DEF p, w, c
<1>. QED
  BY <1>3, <1>5, <1>6

-----------------------------------------------------------------------------
(* What the NVRs do: connections and cameras come and go *)

LEMMA WorldSmall ==
    ASSUME TypeOK, Meeting, UNCHANGED <<train, tables, crash, wrapped, beyond, reinit, ops>>,
           connected' \in [Nvrs -> BOOLEAN], online' \subseteq Cameras, excused' \subseteq Wins,
           events' \in 0..train.events, links' \in 0..train.links
    PROVE  Small'
<1>1. overlap' \in BOOLEAN
  BY TypeParts DEF Meeting, Small, Overlapping
<1>. QED
  BY <1>1, TypeParts DEF Small, tables, Cameras, Carriages, NvrOf, Pos

\* A connection that is not busy takes no part: what is to be shown now was to be
\* shown before, or the connection has just been told.
LEMMA QuietStep ==
    ASSUME Basic, ~overlap => Alone, Meeting, NEW n \in Nvrs,
           UNCHANGED <<train, tables, players, crash, wrapped, beyond, reinit>>,
           \A b \in Actors \ {n} : pc'[b] = pc[b] /\ loc'[b] = loc[b],
           pc[n] \in {"idle", "told"}, pc'[n] \in {"idle", "told"},
           \A m \in Nvrs \ {n} : connected'[m] = connected[m],
           Small', Where', ConnLocal(n)', OnlineConnected', excused \subseteq excused',
           \A v \in Wins : Watched /\ ToShow(v)' =>
              \/ Pending(NvrOf[select], v)'
              \/ ToShow(v) /\ (Pending(NvrOf[select], v) => Pending(NvrOf[select], v)')
    PROVE  Basic' /\ (~overlap' => Alone')
<1>. USE DEF InMedia, Closing
<1>1. Ui \in Actors /\ Ui \notin Nvrs /\ n \in Actors /\ n # Ui /\ Nvrs \subseteq Actors
  BY Numbers, TrainFacts DEF Basic
<1>2. Local'
  BY <1>1, ConnLocalStep DEF Basic, Actors
<1>3. Big'
  BY SameBig DEF Basic, tables
<1>4. TypeOK'
  BY <1>3 DEF TypeOK, Small, Big, Where, Player, Thread, Loc
<1>5. Basic'
  BY <1>2, <1>4 DEF Basic, tables, CrashNeedsOverlap, Meeting
<1>6. ASSUME ~overlap' PROVE Alone'
  <2>1. ~overlap /\ One' /\ Alone
    BY <1>6, Solo DEF Basic
  <2>2. Tables' /\ Threads' /\ NoStray' /\ NothingLost'
    <3>1. \A a \in Actors : pc[a] = "wait" => pc'[a] = "wait" /\ loc'[a].p = loc[a].p
      OBVIOUS
    <3>. QED
      BY <2>1, <3>1, SameTables DEF tables, players
  <2>3. pc'[Ui] = pc[Ui] /\ loc'[Ui] = loc[Ui]
    BY <1>1
  <2>4. \A a \in Actors : Work(a)'
    <3>1. \A a \in Actors \ {n} : Work(a)'
      BY <2>1 DEF Alone, Work, tables, players
    <3>. QED
      BY <3>1, Resting, <1>1 DEF Busy
  <2>5. UiWork'
    BY <2>1, <2>3 DEF Alone, UiWork, Clearing, New, Still, Carriages, NvrOf, tables, players
  <2>6. \A m \in Nvrs : ConnWork(m)'
    <3>1. \A m \in Nvrs \ {n} : ConnWork(m)'
      BY <1>1, <2>1 DEF Alone, ConnWork, Busy, Still, tables, players
    <3>. QED
      BY <1>1, <3>1, Resting DEF Busy
  <2>7. Carriage'
    BY <2>1, <2>3
    DEF Alone, Carriage, Preparing, Running, Carriages, NvrOf, CamOf, Pos, tables, players
  <2>8. Emptied'
    BY <2>1, <2>3 DEF Alone, Emptied, Preparing, tables
  <2>9. Showing'
    <3>1. Watched' => Watched
      <4>1. excused' \subseteq Wins
        BY DEF Small
      <4>. QED
        BY <4>1 DEF Watched, Carriages, NvrOf, tables
    <3>2. \A v \in Wins : Shows(v) => Shows(v)'
      BY DEF Shows, Running, tables, players
    <3>. QED
      BY <2>1, <2>3, <3>1, <3>2 DEF Alone, Showing, Switching, Clearing, NvrOf, tables
  <2>. QED
    BY <2>1, <2>2, <2>4, <2>5, <2>6, <2>7, <2>8, <2>9 DEF Alone
<1>. QED
  BY <1>5, <1>6

LEMMA ConnectStep ==
    ASSUME Basic, ~overlap => Alone, Meeting, NEW n \in Nvrs, Connect(n)
    PROVE  Basic' /\ (~overlap' => Alone')
<1>1. /\ pc[n] = "idle" /\ connected' = [connected EXCEPT ![n] = TRUE]
      /\ links < train.links /\ links' = links + 1
      /\ UNCHANGED <<train, online, tables, players, pc, loc, crash, history, ops, events>>
  BY DEF Connect, At
<1>2. /\ connected \in [Nvrs -> BOOLEAN] /\ online \subseteq Cameras /\ excused \subseteq Wins
      /\ events \in 0..train.events /\ links \in 0..train.links /\ train.links \in Nat
  BY TypeParts, PreviewAssumption DEF Basic, Small
<1>3. Small'
  BY <1>1, <1>2, WorldSmall DEF Basic, history
<1>4. Where'
  BY <1>1, TypeParts DEF Basic, Where, Loc, players
<1>5. ConnLocal(n)'
  BY <1>1 DEF ConnLocal, ConnLabels, ConnPlaces, InMedia
<1>6. OnlineConnected'
  BY <1>1, <1>2 DEF Basic, OnlineConnected, NvrOf
<1>7. \A v \in Wins : /\ (ToShow(v)' => ToShow(v))
                     /\ (Pending(NvrOf[select], v) => Pending(NvrOf[select], v)')
  BY <1>1 DEF ToShow, Pending, NvrOf, Pos, tables, history
<1>. QED
  BY <1>1, <1>2, <1>3, <1>4, <1>5, <1>6, <1>7, QuietStep DEF history

LEMMA DisconnectStep ==
    ASSUME Basic, ~overlap => Alone, Meeting, NEW n \in Nvrs, Disconnect(n)
    PROVE  Basic' /\ (~overlap' => Alone')
<1>1. /\ pc[n] = "idle" /\ connected' = [connected EXCEPT ![n] = FALSE]
      /\ online' = {x \in online : NvrOf[x[1]] # n}
      /\ UNCHANGED <<train, tables, players, pc, loc, crash, history, bounds>>
  BY DEF Disconnect, At
<1>2. /\ connected \in [Nvrs -> BOOLEAN] /\ online \subseteq Cameras /\ excused \subseteq Wins
      /\ events \in 0..train.events /\ links \in 0..train.links
  BY TypeParts DEF Basic, Small
<1>3. Small'
  BY <1>1, <1>2, WorldSmall DEF Basic, history, bounds
<1>4. Where'
  BY <1>1, TypeParts DEF Basic, Where, Loc, players
<1>5. ConnLocal(n)'
  BY <1>1 DEF ConnLocal, ConnLabels, ConnPlaces, InMedia
<1>6. OnlineConnected'
  BY <1>1, <1>2 DEF Basic, OnlineConnected, NvrOf
<1>7. \A v \in Wins : /\ (ToShow(v)' => ToShow(v))
                     /\ (Pending(NvrOf[select], v) => Pending(NvrOf[select], v)')
  BY <1>1 DEF ToShow, Pending, NvrOf, Pos, tables, history
<1>. QED
  BY <1>1, <1>2, <1>3, <1>4, <1>5, <1>6, <1>7, QuietStep DEF history

LEMMA OfflineStep ==
    ASSUME Basic, ~overlap => Alone, Meeting, NEW n \in Nvrs, Offline(n)
    PROVE  Basic' /\ (~overlap' => Alone')
<1>1. /\ pc[n] = "idle" /\ online' \subseteq online
      /\ UNCHANGED <<train, connected, tables, players, pc, loc, crash, history, bounds>>
  BY DEF Offline, At
<1>2. /\ connected \in [Nvrs -> BOOLEAN] /\ online \subseteq Cameras /\ excused \subseteq Wins
      /\ events \in 0..train.events /\ links \in 0..train.links
  BY TypeParts DEF Basic, Small
<1>3. Small'
  BY <1>1, <1>2, WorldSmall DEF Basic, history, bounds
<1>4. Where'
  BY <1>1, TypeParts DEF Basic, Where, Loc, players
<1>5. ConnLocal(n)'
  BY <1>1 DEF ConnLocal, ConnLabels, ConnPlaces, InMedia
<1>6. OnlineConnected'
  BY <1>1 DEF Basic, OnlineConnected, NvrOf
<1>7. \A v \in Wins : /\ (ToShow(v)' => ToShow(v))
                     /\ (Pending(NvrOf[select], v) => Pending(NvrOf[select], v)')
  BY <1>1 DEF ToShow, Pending, NvrOf, Pos, tables, history
<1>. QED
  BY <1>1, <1>2, <1>3, <1>4, <1>5, <1>6, <1>7, QuietStep DEF history

LEMMA OnlineStep ==
    ASSUME Basic, ~overlap => Alone, Meeting, NEW n \in Nvrs, Online(n)
    PROVE  Basic' /\ (~overlap' => Alone')
<1>1. PICK x \in Cameras : NvrOf[x[1]] = n /\ online' = online \cup {x}
                           /\ Put(n, [Nil EXCEPT !.c = x[1], !.pos = x[2]])
  BY DEF Online
<1>2. /\ pc[n] = "idle" /\ connected[n] /\ Goto(n, "told")
      /\ events < train.events /\ events' = events + 1
      /\ UNCHANGED <<train, connected, tables, players, crash, history, ops, links>>
  BY DEF Online, At
<1>3. /\ connected \in [Nvrs -> BOOLEAN] /\ online \subseteq Cameras /\ excused \subseteq Wins
      /\ events \in 0..train.events /\ links \in 0..train.links /\ train.events \in Nat
  BY TypeParts, PreviewAssumption DEF Basic, Small
<1>4. x[1] \in Carriages /\ x[2] \in Wins /\ x = <<x[1], x[2]>>
  <2>1. PICK c \in Carriages : \E i \in DOMAIN Pos[c] : x = <<c, Pos[c][i]>>
    BY DEF Cameras
  <2>2. PICK i \in DOMAIN Pos[c] : x = <<c, Pos[c][i]>>
    BY <2>1
  <2>3. Pos[c][i] \in Wins
    BY Numbers, TrainFacts DEF Basic
  <2>. QED
    BY <2>2, <2>3
<1>5. n \in Actors /\ Carriages \subseteq 0..MaxCarriage /\ Nil \in Loc
  BY Numbers, TrainFacts, NilLoc DEF Basic
<1>. DEFINE m == [Nil EXCEPT !.c = x[1], !.pos = x[2]]
<1>6. m \in Loc /\ m.c = x[1] /\ m.pos = x[2]
  BY <1>4, <1>5 DEF Loc
<1>7. Put(n, m)
  BY <1>1
<1>. HIDE DEF m
<1>8. /\ Where' /\ pc'[n] = "told" /\ loc'[n].c = x[1] /\ loc'[n].pos = x[2]
      /\ \A b \in Actors \ {n} : pc'[b] = pc[b] /\ loc'[b] = loc[b]
  <2>1. "told" \in Labels
    BY DEF Labels
  <2>. QED
    BY <1>2, <1>5, <1>6, <1>7, <2>1, MoveFacts, WhereSame DEF Basic
<1>9. Small'
  BY <1>1, <1>2, <1>3, WorldSmall DEF Basic, history
<1>10. ConnLocal(n)'
  BY <1>1, <1>2, <1>4, <1>8 DEF ConnLocal, ConnLabels, ConnPlaces, InMedia, Carriages, NvrOf
<1>11. OnlineConnected'
  BY <1>1, <1>2 DEF Basic, OnlineConnected, NvrOf
<1>12. ASSUME NEW v \in Wins, Watched, ToShow(v)'
       PROVE  \/ Pending(NvrOf[select], v)'
              \/ ToShow(v) /\ (Pending(NvrOf[select], v) => Pending(NvrOf[select], v)')
  <2>1. select' = select /\ NvrOf' = NvrOf /\ excused' = excused /\ Pos' = Pos /\ NvrOf[select] \in Nvrs
    BY <1>2, <1>12, Numbers, TrainFacts DEF tables, NvrOf, Pos, history, Watched, Basic
  <2>2. Ui \in Actors /\ Ui # n /\ Nvrs \subseteq Actors
    BY Numbers, TrainFacts DEF Basic
  <2>3. <<select, v>> \in online'
    BY <1>12, <2>1 DEF ToShow
  <2>4. CASE <<select, v>> = x
    BY <1>1, <1>4, <1>8, <2>1, <2>4 DEF Pending
  <2>5. CASE <<select, v>> \in online
    <3>1. ToShow(v)
      BY <1>8, <1>12, <2>1, <2>2, <2>5 DEF ToShow
    <3>2. Pending(NvrOf[select], v) => Pending(NvrOf[select], v)'
      BY <1>2, <1>8, <2>1, <2>2 DEF Pending
    <3>. QED
      BY <3>1, <3>2
  <2>. QED
    BY <1>1, <2>3, <2>4, <2>5
<1>. QED
  BY <1>2, <1>8, <1>9, <1>10, <1>11, <1>12, QuietStep DEF history

LEMMA ToldStep ==
    ASSUME Basic, ~overlap => Alone, Meeting, NEW n \in Nvrs, Told(n)
    PROVE  Basic' /\ (~overlap' => Alone')
<1>1. /\ pc[n] = "told"
      /\ UNCHANGED <<world, tables, players, crash, wrapped, beyond, reinit, bounds>>
  BY DEF Told, At
<1>2. /\ Ui \in Actors /\ Ui \notin Nvrs /\ Nvrs \subseteq Actors /\ n \in Actors /\ n # Ui
      /\ loc[n].c \in Carriages /\ loc[n].pos \in Wins /\ connected[n] /\ NvrOf[loc[n].c] = n
  BY <1>1, Numbers, TrainFacts DEF Basic, Local, ConnLocal
<1>3. /\ connected \in [Nvrs -> BOOLEAN] /\ online \subseteq Cameras /\ excused \subseteq Wins
      /\ events \in 0..train.events /\ links \in 0..train.links
  BY TypeParts DEF Basic, Small
<1>. USE DEF Closing, InMedia
<1>4. CASE loc[n].c = select /\ ~polling
  <2>1. Goto(n, "check") /\ UNCHANGED <<loc, excused>>
    BY <1>4 DEF Told
  <2>2. Small'
    BY <1>1, <1>3, <2>1, WorldSmall DEF Basic, world, bounds
  <2>3. /\ Where' /\ pc'[n] = "check"
        /\ \A b \in Actors \ {n} : pc'[b] = pc[b] /\ loc'[b] = loc[b]
    <3>1. "check" \in Labels
      BY DEF Labels
    <3>. QED
      BY <1>1, <1>2, <2>1, <3>1, GotoFacts, WhereSame, Numbers DEF Basic
  <2>4. ConnLocal(n)'
    BY <1>1, <1>2, <2>1, <2>3 DEF ConnLocal, ConnLabels, ConnPlaces, Carriages, NvrOf, world
  <2>5. Alone /\ ~overlap /\ ~Busy(Ui) => Work(n)' /\ ConnWork(n)'
    <3>1. Alone /\ ~Busy(Ui) => m_bInitPreview \/ current = 0
      BY <1>2, <1>4 DEF Alone, Carriage, Preparing, Busy
    <3>. QED
      BY <1>1, <1>4, <2>1, <2>3, <3>1 DEF Work, ConnWork, ConnPlaces, tables
  <2>. QED
    BY <1>1, <1>2, <2>1, <2>2, <2>3, <2>4, <2>5, ConnAside
    DEF Keep, KeepCarriage, tables, Moves, Busy
<1>5. CASE ~(loc[n].c = select /\ ~polling)
  <2>1. /\ Rest(n)
        /\ excused' = IF loc[n].c = select THEN excused \cup {loc[n].pos} ELSE excused
    BY <1>5 DEF Told
  <2>2. Small'
    BY <1>1, <1>2, <1>3, <2>1, WorldSmall DEF Basic, world, bounds
  <2>3. /\ Where' /\ pc'[n] = "idle"
        /\ \A b \in Actors \ {n} : pc'[b] = pc[b] /\ loc'[b] = loc[b]
    BY <1>1, <1>2, <2>1, RestFacts, WhereSame DEF Basic
  <2>4. ConnLocal(n)'
    BY <2>3 DEF ConnLocal, ConnLabels, ConnPlaces
  <2>5. OnlineConnected'
    BY <1>1 DEF Basic, OnlineConnected, NvrOf, world
  <2>6. ASSUME NEW v \in Wins, Watched, ToShow(v)'
        PROVE  ToShow(v) /\ (Pending(NvrOf[select], v) => Pending(NvrOf[select], v)')
    <3>1. /\ select' = select /\ NvrOf' = NvrOf /\ Pos' = Pos /\ NvrOf[select] \in Nvrs
          /\ online' = online
      BY <1>1, <2>6, Numbers, TrainFacts DEF tables, world, NvrOf, Pos, Watched, Basic
    <3>2. ToShow(v)
      BY <1>2, <2>1, <2>3, <2>6, <3>1 DEF ToShow
    <3>3. ~(loc[n].c = select /\ loc[n].pos = v)
      BY <2>1, <2>6 DEF ToShow
    <3>4. Pending(NvrOf[select], v) => Pending(NvrOf[select], v)'
      BY <1>2, <2>3, <3>1, <3>3 DEF Pending
    <3>. QED
      BY <3>2, <3>4
  <2>. QED
    BY <1>1, <2>1, <2>2, <2>3, <2>4, <2>5, <2>6, QuietStep DEF world
<1>. QED
  BY <1>4, <1>5

-----------------------------------------------------------------------------
(* The threads of the players *)

\* A thread goes on and sets its player's state.
LEMMA ThreadStep ==
    ASSUME Basic, ~overlap => Alone, Meeting, Small',
           UNCHANGED <<world, tables, pc, loc, crash, history>>,
           player' \in Seq(Player), Len(player') = Len(player), DOMAIN player' = DOMAIN player,
           thread' \in Seq(Thread), Len(thread') = Len(thread), DOMAIN thread' = DOMAIN thread,
           \A q \in DOMAIN player : /\ player'[q].live = player[q].live
                                    /\ player'[q].flag = player[q].flag
                                    /\ player'[q].h = player[q].h
                                    /\ Alone /\ Still(q) => Still(q)',
           \A u \in DOMAIN thread : /\ thread'[u].p = thread[u].p /\ thread'[u].cam = thread[u].cam
                                    /\ Running(u)' => Running(u),
           Alone => \A w \in Wins :
              Shows(w) => Shows(w)' \/ Switching \/ ~Watched \/ Pending(NvrOf[select], w)
    PROVE  Basic' /\ (~overlap' => Alone')
<1>1. Big' /\ Loc' = Loc
  BY BigStep, TypeParts DEF Basic, Big, world, tables
<1>2. Local' /\ Where'
  BY <1>1, SameLocal DEF world
<1>3. Basic'
  BY <1>1, <1>2, BasicStep DEF Basic, tables, history
<1>4. ASSUME ~overlap' PROVE Alone'
  <2>1. ~overlap /\ One' /\ Alone
    BY <1>4, Solo DEF Basic
  <2>2. /\ \A w \in Wins : handle[w] # 0 => handle[w] \in DOMAIN player
        /\ playback # 0 => playback \in DOMAIN player
        /\ \A u \in DOMAIN thread : thread[u].p \in DOMAIN player /\ thread[u].p # 0
        /\ \A a \in Actors : loc[a].p # 0 => loc[a].p \in DOMAIN player
        /\ \A p \in DOMAIN player : player[p].h # 0 => player[p].h \in DOMAIN thread
    <3>1. \A a \in Actors : loc[a].p # 0 => loc[a].p \in DOMAIN player
      BY Numbers DEF Basic, Loc
    <3>2. \A p \in DOMAIN player : player[p].h # 0 => player[p].h \in DOMAIN thread
      BY Numbers DEF Basic, Player
    <3>. QED
      BY <3>1, <3>2, Numbers, TypeParts DEF Basic, Big
  <2>3. Tables'
    BY <2>1, <2>2 DEF Alone, Tables, Live, tables
  <2>4. Threads'
    <3>1. \A u \in DOMAIN thread' : Running(u)' => player'[thread'[u].p].h = u
      BY <2>1, <2>2 DEF Alone, Threads
    <3>2. \A p \in DOMAIN player' : player'[p].h # 0 => thread'[player'[p].h].p = p
      BY <2>1, <2>2 DEF Alone, Threads
    <3>3. \A u \in DOMAIN thread' : \A w \in Wins : Running(u)' /\ thread'[u].p = handle'[w] =>
             player'[handle'[w]].flag \/ \E a \in Actors : pc'[a] = "wait" /\ loc'[a].p = handle'[w]
      BY <2>1, <2>2 DEF Alone, Threads, tables
    <3>. QED
      BY <3>1, <3>2, <3>3 DEF Threads
  <2>5. \A a \in Actors : Work(a)'
    <3>1. \A a \in Actors : pc[a] = "wait" => loc[a].p # 0
      BY DEF Basic, Local, InMedia
    <3>. QED
      BY <2>1, <2>2, <3>1 DEF Alone, Work, Closing, tables
  <2>6. UiWork'
    <3>1. \A w \in Wins : New(w) => New(w)'
      BY <2>1, <2>2 DEF New, tables
    <3>2. loc[Ui].w \in Wins \/ pc[Ui] # "delete"
      BY DEF Basic, Local, UiLocal
    <3>. QED
      BY <2>1, <2>2, <3>1, <3>2
      DEF Alone, UiWork, Clearing, Closing, Carriages, NvrOf, tables, world, history
  <2>7. \A n \in Nvrs : ConnWork(n)'
    <3>1. \A w \in Wins : handle[w] = 0 \/ Still(handle[w]) => handle'[w] = 0 \/ Still(handle[w])'
      BY <2>1, <2>2 DEF tables
    <3>2. \A n \in Nvrs : pc[n] \in ConnPlaces \/ Closing(n, {"deletePlayBack"}) => loc[n].w \in Wins
      BY DEF Basic, Local, ConnLocal, ConnPlaces, Closing, InMedia
    <3>. QED
      BY <2>1, <3>1, <3>2 DEF Alone, ConnWork, Busy, Closing, tables, history
  <2>8. NoStray' /\ NothingLost'
    BY <2>1, <2>2 DEF Alone, NoStray, NothingLost, InTable, Live, tables, history
  <2>9. Carriage' /\ Emptied' /\ Showing'
    <3>1. SamePlace
      BY AsidePlace
    <3>2. \A u \in DOMAIN thread' : \A w \in Wins : Running(u)' /\ thread'[u].p = handle[w] =>
             u \in DOMAIN thread /\ Running(u) /\ thread[u].p = handle[w]
                                 /\ thread'[u].cam = thread[u].cam
      OBVIOUS
    <3>. QED
      BY <2>1, <3>1, <3>2, ShowsStep DEF tables
  <2>. QED
    BY <2>1, <2>3, <2>4, <2>5, <2>6, <2>7, <2>8, <2>9 DEF Alone
<1>. QED
  BY <1>3, <1>4

\* A thread that runs is its player's, which is not still then.
LEMMA RunsNotStill ==
    ASSUME Basic, Alone, NEW t \in DOMAIN thread, Running(t)
    PROVE  ~Still(thread[t].p)
BY Numbers DEF Basic, Alone, Threads, Still

LEMMA OpenedStep ==
    ASSUME Basic, ~overlap => Alone, Meeting, NEW t \in DOMAIN thread, Opened(t)
    PROVE  Basic' /\ (~overlap' => Alone')
<1>. DEFINE p == thread[t].p
<1>1. /\ thread[t].at = "login" /\ thread' = [thread EXCEPT ![t].at = "play"]
      /\ player' = [player EXCEPT ![p].state = "PLAY"]
      /\ UNCHANGED <<world, tables, pc, loc, crash, history, bounds>>
  BY DEF Opened
<1>2. p \in DOMAIN player /\ "PLAY" \in States
  BY Numbers DEF Basic, States
<1>3. Small'
  BY <1>1, WorldSmall, TypeParts DEF Basic, Small, world, history, bounds
<1>. HIDE DEF p
<1>4. /\ player' \in Seq(Player) /\ Len(player') = Len(player) /\ DOMAIN player' = DOMAIN player
      /\ \A q \in DOMAIN player : /\ player'[q].live = player[q].live
                                  /\ player'[q].flag = player[q].flag
                                  /\ player'[q].h = player[q].h
                                  /\ q # p => player'[q].state = player[q].state
  BY <1>1, <1>2, StateFacts DEF Basic
<1>5. /\ thread' \in Seq(Thread) /\ Len(thread') = Len(thread) /\ DOMAIN thread' = DOMAIN thread
      /\ thread'[t].at = "play"
      /\ \A u \in DOMAIN thread : /\ thread'[u].p = thread[u].p /\ thread'[u].cam = thread[u].cam
                                  /\ u # t => thread'[u].at = thread[u].at
  BY <1>1, ThreadFacts DEF Basic
<1>6. \A u \in DOMAIN thread : Running(u)' <=> Running(u)
  BY <1>1, <1>5 DEF Running
<1>7. \A q \in DOMAIN player : Alone /\ Still(q) => Still(q)'
  BY <1>1, <1>4, RunsNotStill DEF Still, Running, p
<1>8. \A w \in Wins : Shows(w) => Shows(w)'
  BY <1>1, <1>5, <1>6 DEF Shows, tables
<1>. QED
  BY <1>1, <1>3, <1>4, <1>5, <1>6, <1>7, <1>8, ThreadStep

LEMMA LostStep ==
    ASSUME Basic, ~overlap => Alone, Meeting, NEW t \in DOMAIN thread, Lost(t)
    PROVE  Basic' /\ (~overlap' => Alone')
<1>1. /\ thread[t].at = "play" /\ thread' = [thread EXCEPT ![t].at = "login"]
      /\ events < train.events /\ events' = events + 1
      /\ UNCHANGED <<world, tables, player, pc, loc, crash, history, ops, links>>
  BY DEF Lost
<1>2. events \in 0..train.events /\ train.events \in Nat
  BY TypeParts, PreviewAssumption DEF Basic, Small
<1>3. Small'
  BY <1>1, <1>2, WorldSmall, TypeParts DEF Basic, Small, world, history
<1>4. player \in Seq(Player)
  BY Numbers DEF Basic
<1>5. /\ thread' \in Seq(Thread) /\ Len(thread') = Len(thread) /\ DOMAIN thread' = DOMAIN thread
      /\ thread'[t].at = "login"
      /\ \A u \in DOMAIN thread : /\ thread'[u].p = thread[u].p /\ thread'[u].cam = thread[u].cam
                                  /\ u # t => thread'[u].at = thread[u].at
  BY <1>1, ThreadFacts DEF Basic
<1>6. \A u \in DOMAIN thread : Running(u)' <=> Running(u)
  BY <1>1, <1>5 DEF Running
<1>7. \A q \in DOMAIN player : Alone /\ Still(q) => Still(q)'
  BY <1>1 DEF Still
<1>8. \A w \in Wins : Shows(w) => Shows(w)'
  BY <1>1, <1>5, <1>6 DEF Shows, tables
<1>. QED
  BY <1>1, <1>3, <1>4, <1>5, <1>6, <1>7, <1>8, ThreadStep

LEMMA EndedStep ==
    ASSUME Basic, ~overlap => Alone, Meeting, NEW t \in DOMAIN thread, Ended(t)
    PROVE  Basic' /\ (~overlap' => Alone')
<1>. DEFINE p == thread[t].p
<1>1. /\ Running(t) /\ thread' = [thread EXCEPT ![t].at = "done"]
      /\ player' = [player EXCEPT ![p].state = "STOP"]
      /\ UNCHANGED <<world, tables, pc, loc, crash, history, bounds>>
      /\ ~player[p].flag \/ thread[t].cam = File
  BY DEF Ended
<1>2. p \in DOMAIN player /\ p # 0 /\ "STOP" \in States
  BY Numbers DEF Basic, States
<1>3. Small'
  BY <1>1, WorldSmall, TypeParts DEF Basic, Small, world, history, bounds
<1>4. ASSUME Alone, NEW w \in Wins, handle[w] = p, Watched
      PROVE  Switching \/ Pending(NvrOf[select], w)
  <2>1. ~player[p].flag
    <3>1. current \in Carriages /\ thread[t].cam = CamOf(current, w)
      BY <1>1, <1>4 DEF Alone, Carriage
    <3>. QED
      BY <1>1, <3>1, CamFacts, Numbers DEF Basic
  <2>2. PICK a \in Actors : pc[a] = "wait" /\ loc[a].p = p
    BY <1>1, <1>4, <2>1 DEF Alone, Threads
  <2>3. p # playback
    BY <1>2, <1>4 DEF Alone, Tables
  <2>4. CASE a = Ui
    BY <1>4, <2>2, <2>3, <2>4
    DEF Basic, Local, UiLocal, Alone, Work, UiWork, Closing, InMedia, Switching, Clearing
  <2>5. CASE a \in Nvrs
    <3>1. /\ loc[a].ret = "stopPlayBack" /\ loc[a].w = loc[a].pos /\ NvrOf[loc[a].c] = a
          /\ loc[a].w \in Wins
      BY <1>4, <2>2, <2>3, <2>5 DEF Basic, Local, ConnLocal, Alone, Work, Closing, InMedia
    <3>2. loc[a].w = w
      BY <1>2, <1>4, <2>2, <3>1 DEF Alone, Work, Tables, Closing, InMedia
    <3>3. select = loc[a].c
      BY <1>4, <2>2, <2>5, Numbers, TrainFacts DEF Alone, ConnWork, Busy, Watched, Basic
    <3>. QED
      BY <2>2, <3>1, <3>2, <3>3 DEF Pending
  <2>. QED
    BY <2>4, <2>5 DEF Actors
<1>. HIDE DEF p
<1>5. /\ player' \in Seq(Player) /\ Len(player') = Len(player) /\ DOMAIN player' = DOMAIN player
      /\ player'[p].state = "STOP"
      /\ \A q \in DOMAIN player : /\ player'[q].live = player[q].live
                                  /\ player'[q].flag = player[q].flag
                                  /\ player'[q].h = player[q].h
                                  /\ q # p => player'[q].state = player[q].state
  BY <1>1, <1>2, StateFacts DEF Basic
<1>6. /\ thread' \in Seq(Thread) /\ Len(thread') = Len(thread) /\ DOMAIN thread' = DOMAIN thread
      /\ thread'[t].at = "done"
      /\ \A u \in DOMAIN thread : /\ thread'[u].p = thread[u].p /\ thread'[u].cam = thread[u].cam
                                  /\ u # t => thread'[u].at = thread[u].at
  BY <1>1, ThreadFacts DEF Basic
<1>7. \A u \in DOMAIN thread : Running(u)' <=> Running(u) /\ u # t
  BY <1>6 DEF Running
<1>8. \A q \in DOMAIN player : Still(q) => Still(q)'
  BY <1>5 DEF Still
<1>9. ASSUME Alone, NEW w \in Wins, Shows(w)
      PROVE  Shows(w)' \/ Switching \/ ~Watched \/ Pending(NvrOf[select], w)
  <2>1. PICK u \in DOMAIN thread : Running(u) /\ thread[u].p = handle[w]
    BY <1>9 DEF Shows
  <2>2. u # t => Shows(w)'
    BY <1>1, <1>6, <1>7, <2>1 DEF Shows, tables
  <2>. QED
    BY <1>4, <1>9, <2>1, <2>2 DEF p
<1>. QED
  BY <1>1, <1>3, <1>5, <1>6, <1>7, <1>8, <1>9, ThreadStep

-----------------------------------------------------------------------------
(* The invariant *)

LEMMA Begins ==
    ASSUME Init
    PROVE  Inv
<1>. USE DEF Init
<1>1. train \in Trains
  OBVIOUS
<1>2. /\ NumWin \in Nat /\ 1 <= NumWin /\ MaxCarriage \in Nat /\ 1 <= MaxCarriage
      /\ Ui \notin Nvrs /\ Ui \in Actors
      /\ train.ops \in Nat /\ train.events \in Nat /\ train.links \in Nat
      /\ Len(player) = 0 /\ Len(thread) = 0 /\ DOMAIN player = {} /\ DOMAIN thread = {}
  BY <1>1, TrainFacts, PreviewAssumption
<1>3. Small
  <2>1. connected \in [Nvrs -> BOOLEAN] /\ seen \in [Nvrs -> BOOLEAN]
    OBVIOUS
  <2>2. /\ select \in 0..MaxCarriage /\ ops \in 0..train.ops
        /\ events \in 0..train.events /\ links \in 0..train.links
    BY <1>2
  <2>3. online \subseteq Cameras /\ excused \subseteq Wins /\ current \in {0} \cup Carriages
    OBVIOUS
  <2>. QED
    BY <2>1, <2>2, <2>3 DEF Small
<1>4. Big
  BY <1>2 DEF Big
<1>5. Where
  BY <1>2 DEF Where, Loc, Nil, Labels
<1>6. TypeOK
  BY <1>3, <1>4, <1>5, TypeParts
<1>7. Local
  <2>1. UiLocal
    BY <1>2 DEF UiLocal, UiLabels, Labels, InMedia, Closing
  <2>2. \A n \in Nvrs : ConnLocal(n)
    BY DEF ConnLocal, ConnLabels, ConnPlaces, InMedia, Actors
  <2>. QED
    BY <2>1, <2>2 DEF Local, InMedia
<1>8. \A a \in Actors : pc[a] = "idle" /\ ~Busy(a)
  BY DEF Busy
<1>9. One /\ Tables /\ Threads /\ NoStray /\ NothingLost
  BY <1>2, <1>8 DEF One, Tables, Threads, NoStray, NothingLost
<1>10. UiWork
  BY <1>2 DEF UiWork, Closing, Clearing, InMedia
<1>11. \A a \in Actors : Work(a)
  BY DEF Work, Closing, InMedia
<1>12. \A n \in Nvrs : ConnWork(n)
  BY <1>8 DEF ConnWork, Closing, InMedia, ConnPlaces, Actors
<1>13. Carriage
  BY <1>2 DEF Carriage
<1>14. Emptied
  BY DEF Emptied
<1>15. Showing
  BY <1>1, <1>2, TrainFacts DEF Showing, Watched
<1>16. Alone
  BY <1>9, <1>10, <1>11, <1>12, <1>13, <1>14, <1>15 DEF Alone
<1>. QED
  BY <1>6, <1>7, <1>16 DEF Inv, OnlineConnected, CrashNeedsOverlap

LEMMA NextStep ==
    ASSUME Inv, Next
    PROVE  Inv'
<1>1. Basic /\ (~overlap => Alone)
  BY InvParts
<1>2. Meeting
  BY DEF Next, Meeting
<1>3. Ui \in Actors /\ Nvrs \subseteq Actors
  BY DEF Actors
<1>4. ASSUME UiBegins PROVE Basic' /\ (~overlap' => Alone')
  BY <1>1, <1>2, <1>4, ClickStep, PollStep, VideoPollStep, PlayStep, StopPlayStep, PeekStep,
     ConnectTimerStep DEF UiBegins
<1>5. ASSUME UiStep PROVE Basic' /\ (~overlap' => Alone')
  <2>1. CASE Uninit \/ Delete \/ Swap \/ InitPreview(Ui) \/ Inited \/ Begin \/ Status \/ Each
    BY <1>1, <1>2, <2>1, UninitStep, DeleteStep, SwapStep, InitPreviewUi, InitedStep, BeginStep,
       StatusStep, EachStep
  <2>2. CASE OpenPreview(Ui) \/ StopPlayBack(Ui) \/ DeletePlayBack(Ui) \/ InitPlayBack \/ OpenFile
    BY <1>1, <1>2, <2>2, OpenPreviewUi, StopPlayBackUi, DeletePlayBackUi, InitPlayBackStep,
       OpenFileStep
  <2>3. CASE FileOpen \/ Peeked \/ Close(Ui) \/ Waited(Ui) \/ Misuse(Ui)
    BY <1>1, <1>2, <1>3, <2>3, PeekedStep, CloseStep, MisuseStep
  <2>. QED
    BY <1>5, <2>1, <2>2, <2>3 DEF UiStep
<1>6. ASSUME NEW n \in Nvrs, ConnStep(n) PROVE Basic' /\ (~overlap' => Alone')
  <2>1. CASE Told(n) \/ Check(n) \/ InitPreview(n) \/ Start(n) \/ Current(n) \/ State(n)
    BY <1>1, <1>2, <2>1, ToldStep, CheckStep, InitPreviewConn, StartStep, CurrentStep, StateStep
  <2>2. CASE StopPlayBack(n) \/ DeletePlayBack(n) \/ OpenPreview(n)
    BY <1>1, <1>2, <2>2, StopPlayBackConn, DeletePlayBackConn, OpenPreviewConn
  <2>3. CASE Close(n) \/ Waited(n) \/ Misuse(n)
    BY <1>1, <1>2, <1>3, <2>3, CloseStep, MisuseStep
  <2>. QED
    BY <1>6, <2>1, <2>2, <2>3 DEF ConnStep
<1>7. ASSUME NEW n \in Nvrs, FromNvr(n) PROVE Basic' /\ (~overlap' => Alone')
  BY <1>1, <1>2, <1>7, ConnectStep, DisconnectStep, OfflineStep, OnlineStep DEF FromNvr
<1>8. ASSUME PlayThread \/ \E t \in DOMAIN thread : Lost(t) PROVE Basic' /\ (~overlap' => Alone')
  BY <1>1, <1>2, <1>8, OpenedStep, EndedStep, LostStep DEF PlayThread
<1>9. Basic' /\ (~overlap' => Alone')
  BY <1>4, <1>5, <1>6, <1>7, <1>8 DEF Next
<1>. QED
  BY <1>9 DEF Inv, Basic

LEMMA Stutters ==
    ASSUME Inv, UNCHANGED vars
    PROVE  Inv'
<1>1. /\ UNCHANGED <<world, handle, playback, current, select, m_bInitPreview, seen, players, pc, loc,
                     history>>
      /\ UNCHANGED <<tables, crash, overlap, bounds>>
  BY DEF vars, tables
<1>2. Basic /\ (~overlap => Alone)
  BY InvParts
<1>3. ~overlap' => Alone'
  BY <1>1, <1>2, Unmoved
<1>4. Big' /\ Where' /\ Local'
  BY <1>1, <1>2, SameBig, SameLocal DEF Basic, world
<1>5. Small'
  BY <1>1, <1>2, TypeParts
  DEF Basic, Small, world, tables, history, bounds, Cameras, Carriages, NvrOf, Pos
<1>6. TypeOK'
  BY <1>4, <1>5 DEF TypeOK, Small, Big, Where, Player, Thread, Loc
<1>. QED
  BY <1>1, <1>2, <1>3, <1>4, <1>6
  DEF Inv, Basic, OnlineConnected, CrashNeedsOverlap, world, tables, history, NvrOf

\* The tables hold players that were made, and what every actor relies on in MainSdk
\* holds, until two of them meet there.
THEOREM Invariance == Spec => []Inv
<1>1. Init => Inv
  BY Begins
<1>2. Inv /\ [Next]_vars => Inv'
  BY NextStep, Stutters
<1>. QED
  BY <1>1, <1>2, PTL DEF Spec

\* No player is used that was deleted, and none is deleted while its thread works on it
\* (CMP_UnInit), as long as the user interface and the connection threads do not come
\* together in MainSdk.
THEOREM NoCrash == Spec => []CrashNeedsOverlap
<1>1. Inv => CrashNeedsOverlap
  BY DEF Inv
<1>. QED
  BY <1>1, Invariance, PTL

\* A thread that still shows a camera can be stopped: its player is in a table, unless
\* two threads met or the polling went round the train.
THEOREM Reachable == Spec => []NoStray
<1>1. Inv => NoStray
  BY DEF Inv, Alone, NoStray
<1>. QED
  BY <1>1, Invariance, PTL

\* Every player that was made and not deleted is in a table, unless a connection thread
\* has called initPreview, or stopMonitor was called for no carriage.
THEOREM Kept == Spec => []NothingLost
<1>1. Inv => NothingLost
  BY DEF Inv, Alone, NothingLost
<1>. QED
  BY <1>1, Invariance, PTL

\* Who waits in CMP_CloseMedia waits for a thread of its player that was told to end.
THEOREM Ends == Spec => []WaitEnds
<1>1. ASSUME Inv PROVE WaitEnds
  <2>1. ASSUME ~overlap, NEW a \in Actors, pc[a] = "wait"
        PROVE  thread[loc[a].t].p = loc[a].p /\ ~player[loc[a].p].flag
    <3>1. player[loc[a].p].h = loc[a].t /\ ~player[loc[a].p].flag
      BY <1>1, <2>1 DEF Inv, Alone, Work
    <3>2. loc[a].p \in DOMAIN player /\ loc[a].t # 0
      BY <1>1, <2>1, Numbers DEF Inv, Local, InMedia, Loc
    <3>. QED
      BY <1>1, <2>1, <3>1, <3>2 DEF Inv, Alone, Threads
  <2>. QED
    BY <2>1 DEF WaitEnds
<1>. QED
  BY <1>1, Invariance, PTL

\* At rest a window shows its own camera of the selected carriage, in one picture: no
\* thread of an older carriage goes on in a window.
THEOREM OnePicture == Spec => []RightPicture
<1>1. ASSUME Inv PROVE RightPicture
  <2>1. ASSUME ~overlap, AtRest, select # 0, NEW w \in Wins, NEW t \in DOMAIN thread,
               Running(t), thread[t].p = handle[w]
        PROVE  /\ select \in Carriages /\ thread[t].cam = CamOf(select, w)
               /\ \A u \in DOMAIN thread : Running(u) /\ thread[u].p = handle[w] => u = t
    <3>1. Alone /\ pc[Ui] = "idle"
      BY <1>1, <2>1 DEF Inv, AtRest, Actors
    <3>2. current \in Carriages /\ thread[t].cam = CamOf(current, w) /\ current = select
      BY <2>1, <3>1 DEF Alone, Carriage
    <3>3. \A u \in DOMAIN thread : Running(u) /\ thread[u].p = handle[w] => u = t
      BY <2>1, <3>1 DEF Alone, Threads
    <3>. QED
      BY <3>2, <3>3
  <2>. QED
    BY <2>1 DEF RightPicture
<1>. QED
  BY <1>1, Invariance, PTL

\* At rest every online camera of the selected carriage is shown in the window of its
\* position, once the user interface knows of the connection, but for the windows that
\* are dark for one of the three reasons Shown names.
THEOREM AllShown == Spec => []Shown
<1>1. ASSUME Inv PROVE Shown
  <2>1. ASSUME ~overlap, AtRest, select \in Carriages, seen[NvrOf[select]],
               NEW w \in DOMAIN Pos[select] \ excused, Pos[select][w] = w, <<select, w>> \in online
        PROVE  \E t \in DOMAIN thread : Running(t) /\ thread[t].p = handle[w]
    <3>1. Alone /\ \A a \in Actors : pc[a] = "idle"
      BY <1>1, <2>1 DEF Inv, AtRest
    <3>2. w \in Wins /\ NvrOf[select] \in Actors /\ Ui \in Actors
      BY <1>1, <2>1, Numbers, TrainFacts DEF Inv
    <3>3. Watched /\ ~Switching /\ ToShow(w)
      BY <2>1, <3>1, <3>2 DEF Watched, Switching, Clearing, Closing, InMedia, ToShow
    <3>4. ~Pending(NvrOf[select], w)
      BY <3>1, <3>2 DEF Pending
    <3>. QED
      BY <3>1, <3>2, <3>3, <3>4 DEF Alone, Showing, Shows
  <2>. QED
    BY <2>1 DEF Shown
<1>. QED
  BY <1>1, Invariance, PTL
=============================================================================
