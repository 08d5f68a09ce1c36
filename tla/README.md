# Verification of the train video monitor client

The program is a Windows client (Qt user interface, C and C++ below it) for the
video recorders (NVRs) of a train. It shows live pictures of the cameras of every
carriage, searches and replays recordings, downloads files, and reports cameras
that go off line or raise an alarm. This directory holds TLA+ models of the parts
of it in which threads, connections and lost messages meet, the TLC runs that
check them, and proofs of their main properties.

- [Inventory](#inventory): the system's parts
- [Modules](#modules): which module models what, and how
- [Runs](#runs): what is checked, with which bounds and fairness
- [Proofs](#proofs): what is proved, and how
- [What the checks say about the code](#what-the-checks-say-about-the-code)
- [Not modelled](#not-modelled)

## Inventory

Threads: the user interface (Qt's event loop with its timers); one connection
thread for every NVR; one thread that sends the commands of all NVRs; a thread for
the download in progress; for every player a play thread, receive threads for
RTSP, RTP and RTCP, and a thread that draws. They share globals, mostly without
a lock.

```
   NVR 1 .. NVR n                                        camera (RTSP/RTP)
     |  TCP                                                   |
  pmsgcli.cpp  one thread per NVR                     cmplay/  player, rtsp, rtp
     |  callback PmsgProc        ^ PMSG_SendPmsgData          |  decoder, display
  NVRMsgProc.cxx  dispatch ----- command queue ---.           |
     |        |                                   |           |
  SDK/state   file queue --> search               |           |
  (table)         \             |                 |           |
     |  callbacks  `--->  mainsdk.cpp, UserMonitor.cpp  ------'
     '---------------->   user interface  ---- ftp/ftpApi.cpp  download thread -- FTP
```

| Component | State | Operations | What is hard | What must hold | Module |
|---|---|---|---|---|---|
| **NVR message connection** `pmsgcli.cpp` | status, socket, parser (`nDataLength`, `nPreDataMove`, `cmdType`) of every NVR | connect, receive a head or a body, heartbeat, disconnect, destroy; `PMSG_SendPmsgData` from other threads | connections lost inside a message, short reads, senders that use the socket without the thread's knowledge | messages whole, in order, under their own command; sessions ONLINE .. OFFLINE; the status is that of the socket; a close is noticed; frames reach the connection they were meant for | `PmsgConn`, `NvrCommand` |
| **Command and file queues** `NVRMsgProc.cxx` 59-240 | linked list, count, mutex | create, put, get, clean | the dequeue is outside the mutex | FIFO, nothing twice, nothing lost, count right | `CmdQueue`, `NvrSearch` |
| **NVR message dispatch** `NVRMsgProc.cxx` 242-480 | handles, `g_bSearchDataReturn`, static buffers | `PmsgProc` (one branch per message), `CmdProcessThread`, `NVR_Connect`, `NVR_SendCmdInfo` | one callback function with static variables, run by all connection threads; the first ONLINE against the end of `NVR_Connect` | a report reaches the row of its camera; commands are sent while on line, each session asks for the states | `DeviceTable`, `AlarmReports`, `NvrCommand`, `NvrSearch` |
| **Device state table** `SDK/state/state.c` | cameras, NVRs, alarms with their lists, search and download state | set and get, clean after a disconnection | no locks; nested loops over one variable | the user interface knows what is on line; every alarm is listed once | `DeviceTable`, `AlarmReports` |
| **Download** `mainsdk.cpp` 640-840, `ftp/ftpApi.cpp`, `UserMonitor.cpp` | FTP handle, queue of files, total, progress, download state | `downloadFile`, `initDownload`, receive thread, `PftpProc`, timer | the thread can end before it is marked as started; the connection is freed without a join | success means complete; no use after free; a download ends | `FtpDownload` |
| **Search** `NVRMsgProc.cxx`, `UserMonitor.cpp` 4399-4755 | file queue, search state, cameras left, list of files | query, answer, end of search, timer, cutting answers into names | the end is inferred from *another* message; two consumers of the file queue | every file found is listed once, for the right camera; a search ends | `NvrSearch`, `FileNames` |
| **Preview and polling** `mainsdk.cpp` 150-520, `UserMonitor.cpp` | players, current carriage, selected carriage | start, stop, swap, poll, play a file | connection threads start previews in the middle of the user interface's operations | the selected carriage is shown, and nothing else; no player is lost or used after it was deleted | `Preview` |
| **Player** `cmplay/CMPlayerInterface.cpp` | play state, run flag, thread | init, open, close | `CMP_CloseMedia` waits for the thread without limit | the wait ends | `Preview` |
| **RTSP and RTP client** `cmplay/rtsp*.cpp`, `rtp.cpp` | receive buffer, sequence numbers, frame being put together | read, parse, hand over a frame | bytes of three kinds on one connection, cut anywhere; packets that are missing | in step with the stream; frames whole or not at all, and none too few | `RtpStream` |
| **Decoding, display** `cmplay/vdec.cpp`, `display.cpp` | queue of packets | send, decode, draw | bounded queue between two threads | bounded, in order | - |
| **Client update** `UserMonitor.cpp` 6050-6160, `MBRClientUpdate/` | flag files | hand over, unpack, restart | two programs that communicate through files | an update is unpacked once | - |
| **User interface, configuration, logging** | widgets, text files | slots | - | - | - |

Every hazard found while reading is listed with its line in `PROJECT.json`,
together with the properties that cover it or the reason why none does.

## Modules

| Module | What it is |
|---|---|
| `PmsgConn` | the connection thread, the network and the NVR |
| `MsgSession` | abstract: the session a callback may count on |
| `NvrCommand` | commands on their way: `NVR_init`, the queues, the sender, all connection threads, sockets |
| `CmdQueue` | the queue, one access to the shared memory per step |
| `LossyQueue` | abstract: a queue that may lose packets but keeps the order |
| `DeviceTable` | camera states, their cleaning, and what the user interface was told |
| `AlarmReports` | alarm reports from `PmsgProc` to the lists of `state.c` |
| `NvrSearch` | a search: click, requests, answers, both ends of it, the file queue's two consumers |
| `FileNames` | how the answers of a search are cut into names |
| `FtpDownload` | the download, from the click to the report |
| `Preview` | players and previews: user interface, polling, connection threads, play threads |
| `RtpStream` | the receive thread of a player's session, from bytes to frames |
| `*_proofs` | theorems about the module of that name; `StateTable_proofs` about `DeviceTable` and `AlarmReports`, `NvrSearch_proofs` about `NvrSearch` and `FileNames` |
| `MC*` | instances for TLC |

Comments in the modules give the code's functions; `map` in `PROJECT.json` gives the
lines of every definition. A definition `A_xyz` next to an action `A` is a mutation
of it, used to show that a property can fail.

How they compose. `MsgSession` is what `PmsgProc` relies on, and `PmsgConn` implements
it; the models of `PmsgProc`'s branches (`DeviceTable`, `AlarmReports`, `NvrSearch`,
`NvrCommand`) take messages one at a time per connection, with ONLINE and OFFLINE
around them. `LossyQueue` is what `CmdProcessThread` and the search rely on;
`NvrCommand` uses the queues as sequences, since the one consumer of a command queue takes
from it what a Put has finished (what a race does to it is `CmdQueue`'s subject), while
`NvrSearch` repeats the steps of Get, because the file queue has a second consumer.
`DeviceTable` ends where the user interface is told (`told`); `Preview` begins there.

### PmsgConn (pmsgcli.cpp 140-381, 611-743)

One connection thread, `CliProcessThreadRead`, which is the whole life of an
NVR's connection: `ConnectOk`/`ConnectFail` (204-236), one `select` and `recv`
(`SelectTimeout`, `RecvFail`, `RecvTooShort`, `RecvBadMagic`, `RecvHead`,
`RecvBody`: 239-331), the heartbeat (`HeartPass`, `HeartFail`: 333-353) and
`Exit` (355-381). `pc` is `"top"` before a round of the loop, `"beat"` between
receiving and the heartbeat. The NVR may send, or close after any byte
(`NvrSend`, `NvrClose`), `DestroyConnect` clears the run flag at any moment.

- A byte is its place in the stream: frame number and offset. So a read that
  starts in the middle of a message is seen to be one, without any contents.
  A head read from a place that is no head gives a length from `JunkLen`, or is
  refused because its first byte is not 0xFF.
- `socket` stands for `iSocket` and `iSockfd`, which are assigned together (their
  separate life against other threads is in `NvrCommand`).
- A read returns fewer bytes than asked for when the NVR closed or when
  `SO_RCVTIMEO` ran out with `MSG_WAITALL` set.
- Bodies fit the receive buffer. Callbacks are atomic: they run on this thread
  and touch none of its state.
- `torn` is an auxiliary variable: it says that the current connection started
  with an expected body left over from the last, or got a body that was cut.
- `CliProcessThread` (383-604) is an older version of the thread that is started only
  outside Windows.

`MsgSession` is the session: ONLINE, then messages sent in this session, whole and in
order, then OFFLINE, which may leave messages undelivered. The refinement mapping takes
`online` from the socket and `last` from the last callback, and maps a callback with
anything but a whole message to `<<"JUNK">>`, which no session allows.
`ImplementsSession` asks every step to be one of `MsgSession` for as long as `~torn'`.

### NvrCommand (NVRMsgProc.cxx 122-480, pmsgcli.cpp 204-381, 611-803)

`Create` and `Store` are the two halves of `NVR_Connect`, between which the connection
thread already runs. `UiCheck`/`UiPut` is `NVR_SendCmdInfo`; the first ONLINE puts a
status request the same way. The sender goes through the queues (`Turn`, `Get`), and
`PMSG_SendPmsgData` is `Check` (the status, without the mutex), `SendBegin` (the mutex,
the first part of the frame) and `SendDone`/`SendFail`. A connection thread opens,
publishes and closes its socket step by step: `iSocket` (local), `iSockfd` and
`iConnectStatus` are separate variables, none of them under the mutex. The heartbeat
takes the mutex like a command.

- A socket is a number from `Socket`; the system gives any number that is free, also one
  closed a moment ago, to any NVR.
- A send hands a frame to TCP in two parts, so that frames can mix. `wire[c]` keeps the last
  two parts that were written to connection `c`, which is all it takes to see a mixture.
- What a connection receives is in `PmsgConn`; here it goes up and down at any moment.
- `NVR_Uninit` ends the calling thread (it calls `ExitThread`) and `NVR_DisConnect` has
  no caller: neither is modelled.

### CmdQueue (NVRMsgProc.cxx 59-240)

Producers append under the mutex. The consumer takes the mutex only to look
whether the list is empty (`GetCheck`, 211-224) and unlinks the node without it
(225-237). Each step is one read or write of shared memory: `PutTest`,
`PutLink`, `PutLast`, `PutCount`, `PutUnlock` inside `PutLock`;
`GetNext`, `GetFirst`, `GetClear`, `GetCount`, `GetCopy`. `iPktCount++` is a read
and a write. `PutLink` uses the value of `ptLast` that was tested or reads it
again, as the compiler likes. `Clean` is one step, wholly under the mutex, and runs on the
thread that also calls Get: `searchRecordFiles` on the user interface's thread.
The second consumer of a file queue is in `NvrSearch`.

- An access through NULL or to a freed node sets `fault`, and nothing happens
  after a fault: what the program does then is undefined. That is why this run,
  and only for this reason, has `CHECK_DEADLOCK FALSE`.
- `raced`: a Put came in while a Get was taking the last node. `miscounted`: two
  updates of the count overlapped. They are the only two accidents, which is what
  `LossNeedsLastNode` and `CountNeedsOverlap` say.

### DeviceTable (state.c 300-420, NVRMsgProc.cxx 242-300)

Every connection thread is at one place of `PmsgProc`. `Status` is a camera's
report, which calls `IPCOnlineStatusChange` if it is news; `Offline` and then
`NextNvr`, `NextCamera`, `CamerasDone`, `Disconnected` are the steps of
`STATE_CleanIPCState` and of the callback after it. The loop variable `i` is one
variable for the two nested loops, as in the code. `told` is what the user
interface has been told. Threads write the rows of their own NVR only.
A message that comes before `NVR_Connect` has stored the handle finds no NVR and
changes nothing; ONLINE changes nothing in this table.

### AlarmReports (NVRMsgProc.cxx 301-338, state.c 40-110, 425-470, 700-740)

The threads of all NVRs copy a report into a static variable of `PmsgProc`
(`Receive`), from which `STATE_SetIpcWarnState` compares (`Compare`), stores
(`Store`), tests (`Test`) and copies (`Copy`) it, and append the copy to the
list (`Put`). Each access to the static variable is a step. `last` and `log` are what
the reports said, kept apart from what the code made of it; `overlap` says that two
threads were at work on the same variable. The `memcmp` of `STATE_SetNvrWarnState` is
compared with 4, a value it does not have, so an NVR's repeated report is listed each
time (`News`). Lists are followed up to `MaxLog` entries (`Listed`).

### NvrSearch (UserMonitor.cpp 4399-4755, mainsdk.cpp 534-553, NVRMsgProc.cxx 86-121, 192-341, state.c 760-773)

`Query` is the click (one camera or all of the carriage), which becomes
`Searching`, `Clean`, `Send` and `Started`, the steps of `searchRecordFiles` and of the
slot after it. `Answer` and `Accept` are `PmsgProc`'s branch for an answer, on the
connection's thread. Nothing marks the last answer: `Other`, a message of any other kind
from any NVR (also `Offline`, `Online`), is followed by `OtherMessage`, which sees
`g_bSearchDataReturn` and runs `End` and then `SearchFileOver` on that thread; `Tick` runs
`SearchFileTimerSlots` on the user interface's. The two functions are the same for what
they share, and are written once for a thread `f`: `Begin`, then `Look`, `Read`, `Unlink`,
`LastNode`, `Take` for each node, and `Pop` (the next camera, back to `Searching`) or
`Finish` (the table is filled). `NegativeOver` and `NegativeTick` are what they do with a
count below zero, which a race of two updates can leave.

- A node carries the camera it is of, which the program does not know: a file is
  listed under the camera the search has reached.
- `crash` is the use of a node that was freed or is missing, or of a camera that is
  not there. `overlap` says that a thread began an end, or a start, of a search while
  another was at one. `cut` collects the cameras with answers still due when a search
  ended or the user clicked again.
- One carriage is searched. Its NVR loses the answers on their way when it goes off line.

### FileNames (UserMonitor.cpp 4545-4624, NVRMsgProc.cxx 288-305)

A pure algorithm, with the arithmetic of the code: answers are copied into `acData`
behind what the one before has left, names are cut at `.MP4`, zeros end an answer. The
buffer is not cleared, so old bytes lie behind the present answer. `Texts` are what the messages
hold, of any length; `PmsgProc` puts them into the queue with `strncpy`, which fills what comes behind
the first zero with zeros (`Strncpy`, `Copies`). A symbol
stands for `.MP4`, for a zero or for any other part of a name. The reference definition
(`Reference`) knows no buffer and no loop: it numbers the places where names end in the answers
(`EndNr`), and a name is what stands between such a place and the one before, or the front of its
answer (`NameAt`). Where the code has written or would read behind the
end of `acData` (`Outside`: a `memcpy` of an answer that is longer, or a `strstr` that finds neither its
string nor a zero) what follows is undefined, and the model ends there.

### FtpDownload (mainsdk.cpp 640-840, ftpApi.cpp 925-1170, 1310-1470, UserMonitor.cpp)

The user interface's steps are the calls of `downloadFile` that another thread can
tell apart: `Connect` or `Reuse` of a connection (`initDownload`), `AddFile` or
`SkipFile` for each file, `StartThread`, `SetDowning`; and `Tick`, the timer that
reads the result and frees the connection. `Refuse` is a click while a download is
marked as running. The thread's steps are `Open`/`OpenFail`, `Recv`, `Eof`,
`RecvFail`, `EndFile`, `Report` and `Poll`, the wait on an empty queue.

- File `i` has `Cum[i] - Cum[i-1]` bytes. `DownloadFileSize` is what the SIZE
  commands said, which may fail (nothing is added) or give a number of another
  command's answer (`Wrong`, which also stands for what `strtoul` makes of a size
  of 4 GiB and more). `known` says that every size was told.
- Commands on the control connection succeed or fail nondeterministically.
- Not modelled: a failing `CreateThread`, and closing the program during a
  download. An empty file at the end of the queue is not opened any more at 100 %,
  which `Written` does not ask for.
- `hopeless` collects the accidents after which the code finds no end; see `Ends`.

### Preview (mainsdk.cpp 150-520, UserMonitor.cpp, CMPlayerInterface.cpp)

Actor 0 is the user interface, the others are the connection threads. `pc` and `loc` say
where in MainSdk an actor is and with which arguments. The user interface begins an operation
with `Click` (a carriage button), `Poll` and `VideoPollTimeSlots` (the poll button and its
timer), `ConnectTimer` (`connectStatusTimerSlots`), `Play`, `StopPlay` or `Peek` (the position
of the playback); it goes on through `stopMonitor`, `UninitPreview`, `initPreview` and
`startMonitor` one player at a time. A connection thread comes from `Online`
(`IPCOnlineStatusChange`) and runs `startMonitor(carriage, position)`. A player that is opened
gets a thread (`Opened`, `Lost`, `Ended`), for which `CMP_CloseMedia` waits (`Close`, `Waited`).

- `train` is a configuration: which NVR a carriage has, which positions of a carriage have a
  camera. One run looks at several.
- `MonitorPlayThread` is modelled as its outline: log in, play, end when the flag is down. Its
  working loop is inside a comment at this commit (504-563), and the message list of the play
  control calls has no reader.
- The states after a meeting of two actors are followed until both are done (`overlap` stops new
  operations): what two threads do to the tables without a lock is undefined behaviour sooner or
  later, and the properties but `Inv` speak of the states without one.
- `wrapped`, `beyond`, `reinit` and `excused` remember the known cases the properties name.

### RtpStream (rtsp.cpp 966-1326, rtp.cpp 375-483)

A step is one read (`Recv`), the keeping of a packet that is not all there (`Save`), or one round
of the loop: `Packet` behind a `$`, `Line` and `Scan` through the text of an answer. `Packet` joins the
parser of a video packet: the test of the numbers (`u16OldSeq`), the frame being put together,
the mark that hands it over. What the camera sends is chosen at the start: `stream` is a sequence
of bytes with the packets and texts it is made of.

- A `$` inside a packet's or a text's bytes looks like a head, with the contents of one of `Fakes`.
- The length of a packet is what its head says, and may be anything. A packet shorter than its header
  (`Short` for video) has fields in the bytes behind it, so what the code takes them for is open. The
  code swaps `ts` of RTP and `ntp_sec`, `ntp_frac` of RTCP where they lie (1118, 1190-1191): of a packet
  shorter than that the swap changes the bytes behind it (`Reach`, `Behind`), which become any
  (`swapped`, read through `At`). Where a length for `memcpy` is negative, or the swap goes over the end
  of `acRecvBuf` (`Breaks`), what follows is undefined, and the model ends there (`Break`).
- `base` is the place of `acRecvBuf` in the stream: `iOffset` is `pos - base`.
- A number counts modulo `SeqSize`; `u16OldSeq + 1` does not, because the source adds in `int`.
- `mishaps` collects what puts the thread out of step (see `InStep`).
- `sizes` is an auxiliary variable: how long the frame under construction would have been at each
  video packet, had none been missing or thrown away (`Size`).
- TCP only. The parser for H.265 is that for H.264 without types that are passed over.

## Runs

| Run | States | Checks |
|---|---|---|
| `conn` | 22430 | `WholeInOrder`, `StatusIsSocket`, `SessionOrder`, `CloseNoticed`, `ImplementsSession` |
| `conn_torn` | - | *violation* of `CompleteMessage` |
| `commands` | 479542 | `StrayNeedsClose`, `DroppedNeedsClose`, `FramesWhole`, `SessionAsked`, `Served` |
| `queue` | 20012 | `LossNeedsLastNode`, `CountNeedsOverlap`, `ImplementsLossy`, `Drained` |
| `device_table` | 14400 | `ToldRight`, `CleanReturns` |
| `alarms` | 2776412 | `AlarmsRight`, the invariant |
| `search` | 719144 | `RightCamera`, `Complete`, `Ends`, and `Inv` (types, `CrashNeedsOverlap`) |
| `file_names` | 411837 | `AllNames`, `Inside`, `LoopsEnd` |
| `download` | 3977 | `NoUseAfterFree`, `SuccMeansWhole`, `Ends`, the invariant |
| `download_hundred` | - | *violation* of `HundredMeansAll` |
| `preview` | 1467228 | `WaitEnds`, `NoStray`, `NothingLost`, `RightPicture`, `Shown`, and `Inv` (types, `CrashNeedsOverlap`) |
| `rtp` | 2972418 | `InStep`, `WholeFrames`, `NoneMissing`, and `Inv` (types, `Fits`) |

Where `CHECK_DEADLOCK FALSE` stands the system really stops: `PmsgConn`'s thread ends after
`DestroyConnect`; the NVR of `PmsgConn`, the user and the network of `NvrCommand`, `NvrSearch` and
`Preview` stop at the bounds; `FileNames` and `RtpStream` come to the end of their input; `CmdQueue`
stops at a fault.

**conn.** Two messages, two connections, two messages on each. The bodies
are of 3 and 6 bytes: one shorter than a head, for which every cut is
noticed, and one long enough for a cut to pass unnoticed. Two connections are what
a leftover of one needs to meet the next. `JunkLen` has a length below and one above
what is there. It shows that a connection in step delivers each
message whole and in order, however its reads are cut, that every session is
announced and ended, and that until a connection is lost inside a message every step is one of
`MsgSession`. (That exception is the defect `conn_torn` shows, not a convenience: without it the
refinement is false.)

**commands.** Two NVRs, two socket numbers, two connections in all, one command of the user
interface or one heartbeat besides the status requests. Two numbers and two
connections let a closed number come back for the same NVR or for another while a sender
still waits for the mutex. An instance with one command *and* one heartbeat (2028084 states)
was checked once with the same result. It shows that a frame is never mixed with one of its own NVR, that it goes astray only over a closed
connection, and that one slow or lost NVR does not hold up the commands of the others for ever.

**queue.** Two producers, four packets. A list of one node, of two, and of more are
the cases the code distinguishes; a race on the last node, and life after it, take three
packets. What is shown: unlinking without the mutex is harmless as long as no Put meets
the Get of the last node; if it does, packets may be lost or a freed node may be
touched, but until such a fault order is kept and nothing is delivered twice or
after a Clean.

**device_table.** Three NVRs; the first has two cameras, the others one. NVR 2 (counting
from 0) has fewer cameras than its index, for which the loop never ends: `CleanReturns` excepts it.
NVR 1 has exactly as many, which is enough.

**alarms.** Two NVRs, two cameras and the second NVR's own disk, two flag values, the
first two alarms of each source. Two threads are all it takes to meet at a buffer. Two
alarms of a source show repeated and returning ones.

**search.** Two cameras with one answer each, two clicks, one message of another kind, two NVRs: a
search of two cameras takes one end from the first to the second, a second click meets what the
first has left over. The two ends of a search, on the timer and on either connection's thread,
meet in every order. `Complete` shows that without a meeting and without an early end every
file is in the table once; `RightCamera` that files get under a wrong camera only where answers
were still due; `Ends` that the timer ends every search. An instance with a third click and a
second message, restricted to states without an overlap, was checked once (796590 states).

**file_names.** All searches of up to four answers, of fifteen texts (before `strncpy`): whole names with
and without zeros behind them, names that are cut, zeros around and between names. The buffer holds five
symbols, a text up to six: there are answers that fill the buffer, with and without a zero or an end
of a name as its last symbol, and one that is longer. `AllNames` shows that answers of whole names are
listed exactly, whatever longer one was in the buffer before; `Inside` that the loops stay in the buffer
unless the answer at work is as long as the buffer itself (see below).

**download.** Three files of 2, 0 and 1 bytes: an empty file in the middle, a first
file that does not end the download, a last one that does. One wrong size. Up to three
files per click, and clicks at any time, so that a connection is used again.

**preview.** Trains of two carriages with two NVRs, two with one NVR (the second carriage has no
camera at its first position), one carriage of which polling goes on to a second that is not
configured, and two where the user comes back to the last carriage after polling has wrapped; two
windows. A state constraint (`InBound`) keeps the playback out of the last of these and, once two
threads have met, out of the train with two NVRs; the other trains have it. One to three operations of the user interface with one or two cameras
that come on line or streams that are lost: each pair of an operation and an event that can meet
meets. `WaitEnds` is the safety half of the wait in `CMP_CloseMedia`: the thread waited for has
been told to end and nobody starts it anew.

**rtp.** Three frames of up to three packets, in three shapes (fragments, whole NAL units, types
that are passed over, a frame too long for its buffer); every subset of the first five packets
lost, at every place of the round of four numbers; RTCP, an answer of one or two lines, or a
packet as long as the buffer in between; packets shorter than their headers (RTCP without a sender
report, another payload type, video that is empty, has no payload or not all of its header); bytes in
the payload that look like a head; and all
of it cut into reads in every way. Texts, packets and reads are a few bytes long, which is
enough for each to end inside each; a header of RTP has two bytes, `ts` ends with the first of them, and
`ntp_frac` with the second byte of RTCP, so that a swap changes one or two bytes behind its packet.

**Fairness.** `PmsgConn` and `FtpDownload` assume weak fairness of the thread as a
whole: the operating system schedules it, `select`, `recv` and the commands of the
control connection all have timeouts, so a round of the loop always ends. What the thread's
step does (success or failure) stays open. In `FtpDownload` the steps of
`downloadFile` follow one another in one call, and the timer ticks as long as it is
active and the user interface returns to its loop. In `DeviceTable`, a thread within
`STATE_CleanIPCState` is scheduled. In `CmdQueue`, a producer inside the mutex and the
consumer are scheduled; the consumer of a command queue calls Get in an endless
loop with a sleep. `GetCheck` needs the mutex, and weak fairness gives it to the
consumer because Put is called finitely often (`MaxNode`). In the program calls are
rare and the mutex is held for a few instructions; that no stream of producers keeps
the consumer out for ever is an assumption about their rate. In `NvrCommand` every
thread is scheduled and a send ends, at the latest after `SO_SNDTIMEO`; that the
sender gets the mutex again and again free in the end gets it itself is strong fairness
(`SendBegin`), justified by the heartbeat, which leaves it free for seconds. In `NvrSearch` the
timer ticks as long as it is active and every thread goes on. `FileNames` is sequential. No
fairness is assumed of the NVR, the network or the user.

**Bounds.** `MaxConn`, `MaxExtra`, `MaxFrame`, `MaxNode`, `MaxFile`, `MaxLog`, `MaxOther`,
`MaxQuery`, `MaxPackets` and the `ops`, `events` and `links` of a train bound counters. They are
constants without an upper limit, and the theorems hold for all values.

## Proofs

`tlapm` checks the `_proofs` modules. Each proves `Spec => []Inv` for an inductive
invariant, with one lemma per action (or, in `PmsgConn`, per part of the
invariant), and derives the properties from it. The assumptions are the named `ASSUME`s
of the modules: they say what the constants are (lengths are positive, sums do not
decrease, an NVR has a camera).

**PmsgConn.** For any messages of any length and any number of connections:
`Delivery` (`WholeInOrder`), `Status` (`StatusIsSocket`), `Sessions`
(`SessionOrder`), `TypeCorrect`, and `Refinement` (`ImplementsSession`).
`WholeInOrder` is not inductive: that the next body read is whole depends
on where the parser stands in the stream. `InStep` says so (before head `seen + 1`, or
between it and its body), `Stream` says that what is on the wire is a gapless stretch of
the messages sent, and `Flushed` that an open NVR has sent whole messages only.
The heart is `RunLength`: the `BodyLen` bytes behind a head are that message's body.
Types need the invariant too: the length taken from a head is a number only because the
bytes there are bytes of a message sent.

**NvrCommand.** For any number of NVRs, sockets and connections: `Stray`
(`StrayNeedsClose`), `Dropped` (`DroppedNeedsClose`), `Frames` (`FramesWhole`) and `Asked`
(`SessionAsked`). `Sockets` and `LiveIsOpen` tie a number to the thread that has it open,
`Accepted` every command to a connection that was up, `Mutex` and `Begun` the two parts of a
frame to whoever holds the mutex, and `Aim` a send in progress to the connection that was
checked. `FramesWhole` needs them all: the mutex is per NVR and does not keep a frame of
another NVR off a number used again.

**CmdQueue.** `NothingLost` (`LossNeedsLastNode`), `CountRight`
(`CountNeedsOverlap`), `Refinement` (`ImplementsLossy`), for any number of producers and
packets. `Order` holds with or without a race: pointers lead from older packets to
newer ones, hence the order of packets. `Shape` gives the list, without a race,
exactly, up to what the producer inside and the consumer have yet to do. `Count` does the
same for `iPktCount`.

**DeviceTable** (in `StateTable_proofs`). `TableInvariance` (types) and `TableTold` (`ToldRight`), for any
numbers of NVRs and cameras. `Marked` says which cameras are marked at each point of the two loops.

**AlarmReports** (in `StateTable_proofs`). `Invariance` (types) and `Alarms` (`AlarmsRight`), for any NVRs, cameras and flags. `Fresh`
says that without an overlap the static variable still holds the thread's report,
`Progress` how far the thread has come.

**NvrSearch.** `Invariance` (`Inv`: types and `CrashNeedsOverlap`), `RightCameraAlways`
(`RightCamera`) and `CompleteAlways` (`Complete`), for any NVRs, cameras, answers, clicks and messages. `Alone` says that without an
overlap one thread is at a search, `Holds` that what it looked at (a node in the queue, a
camera left) is still so where it is used. For `RightCamera` the invariant follows an answer's
whole way: what is due (`Due`) is of the current camera or given up; from the beginning of an end
on, all that is due is given up (`Given`), so the next camera may be chosen; the queue may
hold other files only between that choice and `Clean` (`QueueFits`). The proof showed that
a click has to be counted among the ways to give answers up (see below); TLC's bounds did not.
`Complete` needs an account of every file (`Whole`: as long as nothing overlapped and no answers
were given up, `Tally`). The answers of the camera are numbered: those handed over, queued, taken and
listed follow from one another (`Handed`, `Queued`, `Taken`, `Done`; `Trip`, `Counts`), and nothing
is due any more while an end is under way (`Quiet`). The list is, at each step, exactly the files of the cameras
done and the first `Num` of the present one (`Listing`, `Tabled`), the cameras left being different
ones that were asked for (`Course`), and the table that is shown is the list of a search that is settled
(`Shows`).

**FileNames** (in `NvrSearch_proofs`). `InsideAlways` (`Inside`), for any texts of any length and any
buffer. `TextWork`: what was taken of an answer and what is left of it make up all of it, and `acData`
begins with the answer, as far as it fits. Since `strncpy` leaves zeros only at an answer's end
(`Padded`), nothing is left for the next one (`TextLeft`), and behind an answer shorter than the buffer
the last byte of the buffer is still zero, where the search for `.MP4` stops. `AllNamesAlways` (`AllNames`), for
any answers of whole names: `AllListed` says that the name listed k-th is the one that ends at
`EndNr(k)`, and that there are as many as ends of names were passed (`Passed`). That the ends can be
numbered at all needs that of any set of them one comes first (`Least`), which follows from the
library's facts about well-founded relations.

**FtpDownload.** `ConnectionInUse` (`NoUseAfterFree`) and `Success`
(`SuccMeansWhole`), for any files of any sizes. `Owner` says that a running thread
was started by a download that is marked as running or about to be, which only the
thread itself ends: so the timer never frees the connection under it, although nobody
waits for the thread. `Account` relates the bytes received to the files done, and
`Hundred` shows that with integer division 100 % are reached with the last byte and not
before.

**Preview.** `Invariance` (`Inv`), `NoCrash` (`CrashNeedsOverlap`), `Reachable` (`NoStray`), `Kept`
(`NothingLost`), `Ends` (`WaitEnds`), `OnePicture` (`RightPicture`) and `AllShown` (`Shown`), for
any trains, cameras and operations. None of them is inductive: an operation changes the tables one
player at a time, and the next step relies on what the last has found. The invariant says, for every
place an actor can be at, what it has done to the tables so far and what its local variables still
mean there (`Local`, with or without an overlap, for the types; `Alone`, without one, for the rest):
which players are in the tables and which threads are theirs (`Tables`, `Threads`), what the windows
show (`Carriage`), and which of them still lack the picture they are due (`Showing`).

**RtpStream.** `Invariance` (`Inv`: types, and no overrun of the receive buffer or of the
frame's but by a packet shorter than its headers), `InStepAlways` (`InStep`), `WholeFramesAlways` (`WholeFrames`) and `NoneMissingAlways`
(`NoneMissing`), for any streams, cut in
any way, any buffer sizes and any length of the round of the numbers. `Sync` says where in the
stream the thread stands (at the start of a unit, or inside a text but not between its
last two bytes), that no byte was swapped, and that nothing complete is left when it reads again. `GrowFits`
says what a packet adds to the frame unless its length is negative behind the header (`Negative`), and
`BreakRunt` that only a short packet breaks the thread: one that lies in the buffer with all of its
header keeps the swap inside, too. `Assembled` says of the frame being put
together that it is exact so far, or is marked as lost, or has one of the gaps or the packets without
payload the property names behind it. `Built` is the opposite claim: if nothing since the last mark tells against the
frame (`Clear`: no gap in the numbers, no step to 0, nothing too long), it holds every packet since,
and its length is what `sizes` says.

**Liveness, as far as it goes.** That something happens in the end has three parts: there are
only so many steps until it does, there is always one to take, and whoever can take it is scheduled. The
first two are safety and are proved, for any values of the constants, with a measure for each of the
liveness properties; only the last, the fairness step, is left to TLC.

| Property | Theorem | What every step makes less | Who can go on |
|---|---|---|---|
| `CloseNoticed` | `NoticeNears` | `ToNotice`: bytes still on the wire, the heartbeat, `DestroyConnect` | the thread has the connection and is not kept waiting on it |
| `Served` | `ServedNears` | `Rest(n)`: commands to come and in the queues, the sender's way with a packet and round to NVR `n`; the other threads never add to it | whoever keeps the sender from the mutex is a heartbeat in the middle of its send |
| `Drained` | `WorkEnds` | `Work`: the steps `Put` and `Get` have yet to take; a `Clean` does not add to it | a producer inside the mutex, or else the consumer |
| `Ends` (download) | `EndNears` | `ToEnd`: bytes and files to come, the thread's way with a file | the thread, which never waits for a file that was not queued |
| `Ends` (search) | `EndNears` | as long as nothing breaks (`crash`), `Rounds`, or else `Paces`: the cameras, requests and messages to come, and between two of them the nodes, the answers and the steps of all threads | the user interface, which waits for no other thread |
| `LoopsEnd` | `LoopsDescend` | `ToDo`: answers to take, and the rest of the present one | - (one thread) |
| `CleanReturns` | `TableReturns` | `ToReturn`: the rows and cameras before the loops' end | - (no other thread touches the loop's variables) |

The measures count what the bounds (`MaxNode`, `MaxExtra`, `MaxConn`, `MaxOther`) still allow: they hold
for every bound, not without one. For `Served` the measure needs that a command number stands for one
place in one queue (`Numbered`) and that no more status requests are put than connections were made
(`Bounded`). For `Ends` of a search, steps that set the timer's thread back (a tick that waits once
more because the count is below zero, a foreign message that starts the next camera) are paid for by what
they use up (`Chances`, `Turns`).

**Only model-checked:** the liveness properties themselves, `CloseNoticed`, `Drained`, `Served`,
`Ends`, `LoopsEnd` and `CleanReturns`: to conclude them from the above takes fairness, `ENABLED` and
induction on the measure, which are out of this prover's reach. Every other property of the runs is
stated by a theorem, but the two that a run refutes.

## What the checks say about the code

Two runs show a comment of the code to be wrong:

- `conn_torn`: the callback's data is called "the length of one complete message" at
  `pmsgcli.cpp:165`. A connection lost between a head and its body leaves the parser
  expecting that body: the first bytes of the next connection are handed over as
  it. And a body cut after four or more bytes is handed over with its full length.
- `download_hundred`: `mainsdk.cpp:645` says 100 means complete. A file whose
  size could not be learned does not count, and 100 is reached without it.

The properties that hold name their exceptions, and each exception is something the program can do:

- **Sends.** A command can go to another connection than the one its sender found up, even
  to another NVR, when the socket is closed and its number given away while the sender waits
  for the mutex (`StrayNeedsClose`). A command taken while the link is down is dropped without a
  word (`DroppedNeedsClose`). A connection made before `NVR_Connect` stored the handle never asks for
  the states of its cameras (`SessionAsked`).
- **Queues.** A Put that meets the Get of the last node loses packets or touches a freed node; two
  updates of the count that overlap leave it wrong (`LossNeedsLastNode`, `CountNeedsOverlap`).
- **Device table.** `STATE_CleanIPCState` does not return for an NVR with fewer cameras than its
  index (`state.c:319`: the two loops share a variable), which is why `CleanReturns` speaks only of the
  others. It writes a third value, the character `'0'`, where `state.h:83` has two;
  `ToldRight` shows that this does no harm.
- **Alarms.** Two threads that meet at a static buffer give a camera the flags of another
  (`state.h:92` says whose they are), and every repeated report of an NVR's disk is listed again.
- **Search.** Two threads can be at the end of a search at once (the timer's and a connection's, or
  two connections that both saw `g_bSearchDataReturn`), and then a node is used after it was freed, or
  `at()` throws (`CrashNeedsOverlap`). Any message of any NVR ends a camera's search; answers that
  come later are lost or listed under the next camera (`RightCamera`, `Complete`). A click whose
  request fails leaves `m_iSelSearchCameraIndexs` and the file queue as they are, so that a later message
  of another NVR goes on with that search although the timer is off, and the next click gets its
  answers under another camera.
- **Names.** An answer is not measured against `acData`: one of 2048 bytes or more is copied over its
  end (`UserMonitor.cpp:4567`), or read over it (`Inside`). Nothing of an answer is ever kept for the next:
  a rest without `.MP4` is given up, and `strncpy` (`NVRMsgProc.cxx:298`) leaves nothing behind a zero. So
  of a name that is cut between two answers only the second part is listed; answers of whole names are
  safe (`AllNames`).
- **Download.** `state.c:779` says state 1 is "in progress"; `downloadFile` sets it after it has started
  the thread, and a thread that fails at once has reported by then: no download is ever accepted
  again (one of the accidents `Ends` names, with a data connection closed early and a click
  between the end of a download and the next tick).
- **Preview.** Polling past the last carriage selects carriage 0, for which `stopMonitor` returns at
  once: the players go on unseen (`wrapped`). If the last carriage is chosen next, it still counts as
  the current one and is not started anew: a camera that was dark stays dark (`Shown`, `excused`). The loss of any NVR stops the previews of every NVR
  (`excused`). `initPreview` on a connection thread overwrites the table of players (`reinit`).
  `startMonitor(carriage, position)` takes the position for an index (`Shown` asks for cameras in
  their places) and stops a playback on the way. After a meeting of two threads a deleted player can be
  used, and `CMP_CloseMedia` can wait for ever.
- **RTP.** `u16OldSeq + 1` is an `int`: the frame at the wrap of the numbers is thrown away
  although nothing is missing, and a loss right after number 0 goes unnoticed (`NoneMissing`,
  `WholeFrames`). A packet of a type that is passed over clears `iFrameLostFlag` before the damaged
  frame is at its end. An answer cut between `\r` and `\n`, or cut at all with an unlucky next read,
  puts the thread out of step, as does a packet that does not fit the buffer, which is then
  emptied (`InStep`). So does RTCP without a sender report (shorter than 16 bytes): the swap of the fields
  it does not have changes the head of the packet behind it, or bytes behind `acRecvBuf`
  (`rtsp.cpp:1190-1191`). A video packet shorter than its headers makes the length of a `memcpy` negative
  (`rtp.cpp:416-443`, `Fits`).

## Not modelled

- Of the modelled components: the branches of `PmsgProc` for image attributes and the clock, the
  NVR and display states of `state.c` (single assignments and readers without a property of their
  own); `NVR_Uninit`, `DestroyCmdQueue`; closing the window during a download; full-screen windows, seek
  and speed buttons; `MonitorPlayThread`'s loop and the message list of the player (commented out, without a
  reader); the RTSP session's login, open, control and logout, which are calls one after the other, the
  receive threads over UDP, audio. `GetAlarmList` against `PutDataList` (`state.c:67`) reads a node
  that is not filled yet, which is undefined behaviour, and is listed as a hazard without a property.
- Known defects outside the models, found while reading: `g_tNVRNetnfo` has 6 entries for up to 8 NVRs
  (`NVRMsgProc.cxx:53`); `STATE_GetIpcWarnState` copies `tState` where `tWarnState` is meant
  (`state.c:483`); `PMSG_DestroyConnect` terminates a thread with whatever lock it holds, and the status
  stays CONNECT after the thread's end (`pmsgcli.cpp:690`, `358`).
- Client update: the update button is hidden (`UserMonitor.cpp:121`) and nothing shows it, so the
  protocol between the two programs cannot start in this build.
- Decoding and drawing: codec and drawing code. The packet queue of `vdec.cpp` is a bounded buffer
  under one mutex.
- Widgets, dialogs, styles; configuration and log files: no protocol of their own.
- The upload thread of `ftpApi.cpp`: no code of the program calls `FTP_FileUpLoad`.
- `SDK/` except `state/state.c`, and `uifile/`: older versions that are not built. They, the headers of
  FFmpeg, Qt and breakpad, `MBRZip` and the character tables (`gb2312_utf8`) make up most of the
  repository's lines.
