---------------------------- MODULE FtpDownload ----------------------------
(***************************************************************************)
(* The download of recorded files (mainsdk.cpp, ftp/ftpApi.cpp and the     *)
(* download slots of UserMonitor.cpp).  The user interface asks the NVR    *)
(* for the size of every file, queues the files and starts a thread that   *)
(* fetches them one after the other; the thread reports through two global *)
(* variables, which a timer of the user interface looks at.                *)
(*                                                                         *)
(* The files queued on one FTP connection are numbered; Cum[i] bytes are   *)
(* in the first i of them, so file i has Cum[i] - Cum[i - 1].              *)
(***************************************************************************)
EXTENDS Integers

CONSTANTS
    MaxFile,    \* bound: files queued on one connection
    Cum,        \* Cum[i]: bytes of the first i files
    Wrong       \* sizes read from an answer that is not the file's

ASSUME FileAssumption ==
    /\ MaxFile \in Nat
    /\ Cum \in [0..MaxFile -> Nat]
    /\ Cum[0] = 0
    /\ \A i, j \in 0..MaxFile : i <= j => Cum[i] <= Cum[j]
    /\ Wrong \subseteq Nat

File == 1..MaxFile
Size(i) == Cum[i] - Cum[i - 1]

VARIABLES
    ui,             \* where the user interface is in downloadFile
    want,           \* files it has yet to queue
    timer,          \* m_pDownloadtimer is active
    handle,         \* g_ftpHandle is not NULL
    added,          \* files queued on this connection
    DownloadFileSize,
    eFileDownState, iFileProgress,  \* the globals of state.c
    thread,         \* where FTP_DownloadDataRecvThread is, "none": it does not run
    popped,         \* the file it has taken from the queue last
    iPos, iFileSize,
    got,            \* bytes of every file it has written
    short,          \* bytes missing from the files it is done with
    known,          \* DownloadFileSize is the size of the files queued
    hopeless        \* see Ends

user == <<ui, want, timer, handle>>
conn == <<added, DownloadFileSize, known>>
report == <<eFileDownState, iFileProgress>>
fetch == <<thread, popped, iPos, iFileSize, got, short>>
vars == <<user, conn, report, fetch, hopeless>>

Init ==
    /\ ui = "idle"
    /\ want = 0
    /\ timer = FALSE
    /\ handle = FALSE
    /\ added = 0
    /\ DownloadFileSize = 0
    /\ eFileDownState = "IDLE"
    /\ iFileProgress = 0
    /\ thread = "none"
    /\ popped = 0
    /\ iPos = 0
    /\ iFileSize = 0
    /\ got = [i \in File |-> 0]
    /\ short = 0
    /\ known = TRUE
    /\ hopeless = FALSE

-----------------------------------------------------------------------------
(* The user interface *)

MayDownload == ui = "idle" /\ eFileDownState # "DOWNING"

\* downloadFile on a new connection.
Connect(k) ==
    /\ MayDownload /\ ~handle
    /\ ui' = "add"
    /\ want' = k
    /\ handle' = TRUE
    /\ added' = 0
    /\ DownloadFileSize' = 0
    /\ known' = TRUE
    /\ popped' = 0
    /\ got' = [i \in File |-> 0]
    /\ hopeless' = FALSE
    /\ UNCHANGED <<timer, report, thread, iPos, iFileSize, short>>

\* The last download is over, but the timer has not seen it yet: initDownload
\* keeps the connection, with its queue and its DownloadFileSize.
Reuse(k) ==
    /\ MayDownload /\ handle
    /\ added + k <= MaxFile
    /\ ui' = "add"
    /\ want' = k
    /\ hopeless' = TRUE
    /\ UNCHANGED <<timer, handle, conn, report, fetch>>

\* FTP_AddDownLoadFile: SIZE is answered, or it fails and the error is ignored, or the
\* number is read from the answer to another command (a late one, or a 226 left unread).
AddFile ==
    /\ ui = "add" /\ want > 0
    /\ want' = want - 1
    /\ added' = added + 1
    /\ \/ /\ DownloadFileSize' = DownloadFileSize + Size(added')
          /\ UNCHANGED known
       \/ /\ \E w \in Wrong \cup {0} : DownloadFileSize' = DownloadFileSize + w
          /\ known' = FALSE
    /\ UNCHANGED <<ui, timer, handle, report, fetch, hopeless>>

\* parseFileName finds no file name: the file is left out.
SkipFile ==
    /\ ui = "add" /\ want > 0
    /\ want' = want - 1
    /\ UNCHANGED <<ui, timer, handle, conn, report, fetch, hopeless>>

\* Mutant: the bytes received are not counted from zero again.
StartThread_KeepsCount ==
    /\ ui = "add" /\ want = 0
    /\ ui' = "started"
    /\ thread' = "loop"
    /\ iPos' = 0
    /\ short' = Cum[popped]
    /\ hopeless' = (hopeless \/ ~known \/ DownloadFileSize = 0)
    /\ UNCHANGED <<want, timer, handle, conn, report, popped, got, iFileSize>>

\* FTP_FileDownLoad.
StartThread ==
    /\ ui = "add" /\ want = 0
    /\ ui' = "started"
    /\ thread' = "loop"
    /\ iPos' = 0
    /\ iFileSize' = 0
    /\ short' = Cum[popped]
    /\ hopeless' = (hopeless \/ ~known \/ DownloadFileSize = 0)
    /\ UNCHANGED <<want, timer, handle, conn, report, popped, got>>

\* Only now; the thread may be over already.
SetDowning ==
    /\ ui = "started"
    /\ ui' = "idle"
    /\ eFileDownState' = "DOWNING"
    /\ timer' = TRUE
    /\ hopeless' = (hopeless \/ thread = "none")
    /\ UNCHANGED <<want, handle, conn, iFileProgress, fetch>>

\* Mutant: DownloadFileTimerSlots looks at the progress only.
Tick_ProgressOnly ==
    /\ ui = "idle" /\ timer
    /\ iFileProgress >= 100
    /\ handle' = FALSE
    /\ timer' = FALSE
    /\ eFileDownState' = "IDLE"
    /\ UNCHANGED <<ui, want, conn, iFileProgress, fetch, hopeless>>

\* DownloadFileTimerSlots with FTP_DestoryConnect, which does not wait for the thread.
Tick ==
    /\ ui = "idle" /\ timer
    /\ iFileProgress >= 100 /\ eFileDownState # "DOWNING"
    /\ handle' = FALSE
    /\ timer' = FALSE
    /\ eFileDownState' = "IDLE"
    /\ UNCHANGED <<ui, want, conn, iFileProgress, fetch, hopeless>>

\* downloadFile while a download is marked as running: an error message.
Refuse ==
    /\ ui = "idle" /\ eFileDownState = "DOWNING"
    /\ UNCHANGED vars

-----------------------------------------------------------------------------
(* The thread *)

\* The next file: it is opened and TYPE, PASV and RETR are answered.
Open ==
    /\ thread = "loop" /\ popped < added
    /\ popped' = popped + 1
    /\ thread' = "recv"
    /\ UNCHANGED <<user, conn, report, iPos, iFileSize, got, short, hopeless>>

\* Or one of them fails, or the data connection.
OpenFail ==
    /\ thread = "loop" /\ popped < added
    /\ popped' = popped + 1
    /\ iPos' \in {-2, -3}
    /\ thread' = "end"
    /\ UNCHANGED <<user, conn, report, iFileSize, got, short, hopeless>>

\* The queue is empty and the download is not over: Sleep(50), with no bound.
Poll ==
    /\ thread = "loop" /\ popped = added
    /\ UNCHANGED vars

\* Mutant: the progress is measured with the size of the file, not of the download.
Recv_OneFile(c) ==
    /\ thread = "recv"
    /\ c \in 1..(DownloadFileSize - iFileSize) /\ got[popped] + c <= Size(popped)
    /\ got' = [got EXCEPT ![popped] = @ + c]
    /\ iFileSize' = iFileSize + c
    /\ iPos' = (got'[popped] * 100) \div Size(popped)
    /\ IF iPos' = 100
         THEN thread' = "end" /\ UNCHANGED iFileProgress
         ELSE iFileProgress' = iPos' /\ UNCHANGED thread
    /\ UNCHANGED <<user, conn, eFileDownState, popped, short, hopeless>>

\* c bytes are received and written.  At 100 % the thread does not wait for the 226.
Recv(c) ==
    /\ thread = "recv"
    /\ c \in 1..(DownloadFileSize - iFileSize) /\ got[popped] + c <= Size(popped)
    /\ got' = [got EXCEPT ![popped] = @ + c]
    /\ iFileSize' = iFileSize + c
    /\ iPos' = (iFileSize' * 100) \div DownloadFileSize
    /\ IF iPos' = 100
         THEN thread' = "end" /\ UNCHANGED iFileProgress
         ELSE iFileProgress' = iPos' /\ UNCHANGED thread
    /\ UNCHANGED <<user, conn, eFileDownState, popped, short, hopeless>>

\* recv returns 0: the server has closed the data connection, at the end of the
\* file or before, or no byte was asked for.  iPos stays as it is.
Eof ==
    /\ thread = "recv"
    /\ thread' = "end"
    /\ short' = short + Size(popped) - got[popped]
    /\ hopeless' = (hopeless \/ got[popped] < Size(popped))
    /\ UNCHANGED <<user, conn, report, popped, iPos, iFileSize, got>>

\* recv fails or times out (-3), or fwrite does (-2).
RecvFail ==
    /\ thread = "recv"
    /\ thread' = "end"
    /\ iPos' \in {-2, -3}
    /\ UNCHANGED <<user, conn, report, popped, iFileSize, got, short, hopeless>>

\* Mutant: an error does not end the download.
EndFile_GoOn ==
    /\ thread = "end"
    /\ IF iPos = 100
         THEN thread' = "report" /\ iFileProgress' = 100
         ELSE thread' = "loop" /\ UNCHANGED iFileProgress
    /\ UNCHANGED <<user, conn, eFileDownState, popped, iPos, iFileSize, got, short, hopeless>>

\* The file is done; the download is over with 100 or an error only.
EndFile ==
    /\ thread = "end"
    /\ IF iPos \in {100, -2, -3}
         THEN thread' = "report" /\ iFileProgress' = 100
         ELSE thread' = "loop" /\ UNCHANGED iFileProgress
    /\ UNCHANGED <<user, conn, eFileDownState, popped, iPos, iFileSize, got, short, hopeless>>

Report ==
    /\ thread = "report"
    /\ thread' = "none"
    /\ eFileDownState' = IF iPos = 100 THEN "SUCC" ELSE "FAIL"
    /\ UNCHANGED <<user, conn, iFileProgress, popped, iPos, iFileSize, got, short, hopeless>>

Thread ==
    \/ Open \/ OpenFail \/ Poll
    \/ \E c \in 1..(DownloadFileSize - iFileSize) : Recv(c)
    \/ Eof \/ RecvFail \/ EndFile \/ Report

UserInterface ==
    \/ \E k \in File : Connect(k) \/ Reuse(k)
    \/ AddFile \/ SkipFile \/ StartThread \/ SetDowning \/ Tick \/ Refuse

Next == UserInterface \/ Thread

Spec == Init /\ [][Next]_vars

\* The threads of the process are scheduled: a step of FTP_DownloadDataRecvThread and of
\* downloadFile ends (select, recv and the commands have timeouts), the timer ticks.
FairSpec ==
    /\ Spec
    /\ WF_vars(Thread)
    /\ WF_vars(AddFile \/ SkipFile \/ StartThread \/ SetDowning)
    /\ WF_vars(Tick)

-----------------------------------------------------------------------------
(* Properties *)

Written(i) == got[i] = Size(i)

\* The variables have their types, and no file has more bytes than it should.
TypeOK ==
    /\ ui \in {"idle", "add", "started"}
    /\ want \in 0..MaxFile
    /\ timer \in BOOLEAN /\ handle \in BOOLEAN
    /\ added \in 0..MaxFile /\ added + want <= MaxFile
    /\ popped \in 0..MaxFile /\ popped <= added
    /\ DownloadFileSize \in Nat /\ iFileSize \in Nat /\ short \in Nat
    /\ known \in BOOLEAN /\ hopeless \in BOOLEAN
    /\ eFileDownState \in {"IDLE", "DOWNING", "SUCC", "FAIL"}
    /\ iFileProgress \in 0..100
    /\ thread \in {"none", "loop", "recv", "end", "report"}
    /\ iPos \in -3..100
    /\ got \in [File -> Nat]
    /\ \A i \in File : got[i] <= Size(i)

\* The connection is not freed (DownloadFileTimerSlots, FTP_DestoryConnect) while
\* FTP_DownloadDataRecvThread, which nobody joins, still uses it.
NoUseAfterFree == thread # "none" => handle

\* When the user interface is about to say that the download succeeded, and the NVR had
\* told the size of every file, every byte of every file queued has been written: 100 %
\* is a proof of completeness although it is computed over the download as a whole.
SuccMeansWhole ==
    (ui = "idle" /\ eFileDownState = "SUCC" /\ known) => \A i \in 1..added : Written(i)

\* A download that is in progress ends, with success or failure, and the user interface
\* is told, whatever the NVR sends; except where the code cannot find an end: it did not
\* learn a size, nothing is to be fetched, a file came short, the thread was over before
\* downloadFile marked the download as running, or the connection of the last is used again.
Ends == (eFileDownState = "DOWNING") ~> (eFileDownState # "DOWNING" \/ hopeless)

\* mainsdk.cpp: "iPos=100, the download is complete".
HundredMeansAll == (thread = "report" /\ iPos = 100) => \A i \in 1..added : Written(i)

-----------------------------------------------------------------------------
(* The inductive invariant *)

\* Who may run: a thread has a connection, and was started by a downloadFile that has
\* not yet set, or has set, the state DOWNING, which only the thread resets.
Owner ==
    /\ ui # "idle" => handle
    /\ thread # "none" =>
         /\ handle
         /\ ui = "started" \/ (ui = "idle" /\ eFileDownState = "DOWNING")

\* The total is the sum of the sizes.
Total == known => DownloadFileSize = Cum[added]

\* Where iPos stands at every point of the thread.
Position ==
    /\ thread \in {"loop", "recv"} => iPos \in 0..99
    /\ thread = "end" => iPos # -1
    /\ thread = "report" => iPos \in {100, -2, -3}

\* The thread is done with the file it has taken, and looks for the next.
Between == thread = "loop" \/ (thread = "end" /\ iPos \in 0..99)

\* The thread works on a file, or has reached 100 % in it.
Within == thread = "recv" \/ (thread \in {"end", "report"} /\ iPos = 100)

\* What the thread has received and what it has missed are the files it has taken.
Account ==
    /\ thread # "none" => iFileSize <= DownloadFileSize
    /\ Between => iFileSize + short = Cum[popped]
    /\ Within => popped > 0 /\ iFileSize + short = Cum[popped - 1] + got[popped]
    /\ (Within /\ iPos = 100) => iFileSize = DownloadFileSize

\* When nothing is missing, the files done are whole.
Done ==
    (thread # "none" /\ short = 0) =>
        \A i \in 1..popped : (i < popped \/ Between) => Written(i)

\* A file not yet taken is not yet written.
Untouched == \A i \in File : i > popped => got[i] = 0

Inv ==
    /\ TypeOK
    /\ Owner
    /\ Total
    /\ Position
    /\ Account
    /\ Done
    /\ Untouched
    /\ SuccMeansWhole
=============================================================================
