------------------------- MODULE FtpDownload_proofs -------------------------
(***************************************************************************)
(* What FtpDownload promises, proved for any number of files of any sizes. *)
(***************************************************************************)
EXTENDS FtpDownload, TLAPS

\* The sizes are natural numbers, and the sums of them grow.
LEMMA Sizes ==
    /\ \A i \in File : Size(i) \in Nat /\ Cum[i] = Cum[i - 1] + Size(i)
    /\ \A i \in 0..MaxFile : Cum[i] \in Nat
    /\ \A i, j \in 0..MaxFile : i <= j => Cum[i] <= Cum[j]
<1>1. \A i \in 0..MaxFile : Cum[i] \in Nat
  BY FileAssumption
<1>2. \A i, j \in 0..MaxFile : i <= j => Cum[i] <= Cum[j]
  BY FileAssumption
<1>3. ASSUME NEW i \in File
      PROVE  Size(i) \in Nat /\ Cum[i] = Cum[i - 1] + Size(i)
  <2>1. i \in 0..MaxFile /\ i - 1 \in 0..MaxFile /\ i - 1 <= i
    BY FileAssumption DEF File
  <2>. QED
    BY <1>1, <1>2, <2>1 DEF Size
<1>. QED
  BY <1>1, <1>2, <1>3

\* What \div does.
LEMMA Quotient ==
    ASSUME NEW x \in Nat, NEW d \in Nat, d > 0
    PROVE  /\ x \div d \in Int
           /\ d * (x \div d) <= x
           /\ x < d * ((x \div d) + 1)
<1>1. x \div d \in Int
  BY SMT
<1>2. d * (x \div d) <= x
  BY SMT
<1>3. x < d * ((x \div d) + 1)
  BY SMT
<1>. QED
  BY <1>1, <1>2, <1>3

\* 100 % are reached with the last byte and not before.
LEMMA Hundred ==
    ASSUME NEW d \in Nat, NEW f \in Nat, d > 0, f <= d
    PROVE  /\ (f * 100) \div d \in 0..100
           /\ (f * 100) \div d = 100 => f = d
<1>. DEFINE q == (f * 100) \div d
<1>1. q \in Int /\ d * q <= f * 100 /\ f * 100 < d * (q + 1)
  BY Quotient, f * 100 \in Nat
<1>2. d * q <= 100 * d
  BY <1>1, SMT
<1>. HIDE DEF q
<1>3. q <= 100
  BY <1>1, <1>2, SMT
<1>4. q >= 0
  BY <1>1, SMT
<1>5. q = 100 => f = d
  BY <1>1, SMT
<1>. QED
  BY <1>1, <1>3, <1>4, <1>5 DEF q

\* Connect keeps the invariant.
LEMMA ConnectStep ==
    ASSUME Inv, NEW k \in File, Connect(k)
    PROVE  Inv'
<1>. USE DEF Inv, Connect, user, conn, report, fetch
<1>1. TypeOK'
  <2>1. got' \in [File -> Nat] /\ \A i \in File : got'[i] <= Size(i)
    BY Sizes
  <2>2. 0 \in 0..MaxFile /\ want' \in 0..MaxFile /\ added' + want' <= MaxFile
    BY FileAssumption DEF TypeOK, File
  <2>3. /\ ui' = "add" /\ handle' /\ known' /\ ~hopeless'
        /\ added' = 0 /\ popped' = 0 /\ DownloadFileSize' = 0
        /\ UNCHANGED <<timer, report, thread, iPos, iFileSize, short>>
    OBVIOUS
  <2>4. handle' \in BOOLEAN /\ known' \in BOOLEAN /\ hopeless' \in BOOLEAN
    OBVIOUS
  <2>. HIDE DEF Connect
  <2>. QED
    BY <2>1, <2>2, <2>3, <2>4 DEF TypeOK
<1>2. Owner'
  BY DEF Owner, TypeOK, MayDownload
<1>3. Total'
  BY FileAssumption DEF Total
<1>4. Position'
  BY DEF Position, TypeOK, Owner, MayDownload
<1>5. Account'
  BY DEF Account, Between, Within, Owner, Position, TypeOK, MayDownload
<1>6. Done'
  BY DEF Done, Between, Written, TypeOK, Owner, MayDownload
<1>7. Untouched'
  BY DEF Untouched, TypeOK, File
<1>8. SuccMeansWhole'
  BY DEF SuccMeansWhole, Written, TypeOK, Owner
<1>. QED
  BY <1>1, <1>2, <1>3, <1>4, <1>5, <1>6, <1>7, <1>8

\* Reuse keeps the invariant.
LEMMA ReuseStep ==
    ASSUME Inv, NEW k \in File, Reuse(k)
    PROVE  Inv'
<1>. USE DEF Inv, Reuse, user, conn, report, fetch
<1>1. TypeOK'
  BY Sizes, FileAssumption DEF TypeOK, File, MayDownload
<1>2. Owner'
  BY DEF Owner, TypeOK, MayDownload
<1>3. Total'
  BY DEF Total, TypeOK
<1>4. Position'
  BY DEF Position, TypeOK, Owner, MayDownload
<1>5. Account'
  BY DEF Account, Between, Within, Owner, Position, TypeOK, MayDownload
<1>6. Done'
  BY DEF Done, Between, Written, TypeOK, Owner, MayDownload
<1>7. Untouched'
  BY DEF Untouched, TypeOK, File
<1>8. SuccMeansWhole'
  BY DEF SuccMeansWhole, Written, TypeOK, Owner
<1>. QED
  BY <1>1, <1>2, <1>3, <1>4, <1>5, <1>6, <1>7, <1>8

\* AddFile keeps the invariant.
LEMMA AddFileStep ==
    ASSUME Inv, AddFile
    PROVE  Inv'
<1>. USE DEF Inv, AddFile, user, conn, report, fetch
<1>1. TypeOK'
  <2>1. added' \in File /\ want' \in 0..MaxFile /\ added' + want' <= MaxFile /\ popped' <= added'
    BY FileAssumption DEF TypeOK, File
  <2>2. DownloadFileSize' \in Nat
    <3>1. Size(added') \in Nat
      BY <2>1, Sizes
    <3>. QED
      BY <3>1, FileAssumption DEF TypeOK
  <2>3. added' \in 0..MaxFile
    BY <2>1 DEF File
  <2>4. known' \in BOOLEAN
    BY DEF TypeOK
  <2>. QED
    BY <2>1, <2>2, <2>3, <2>4 DEF TypeOK
<1>2. Owner'
  BY DEF Owner, TypeOK, MayDownload
<1>3. Total'
  <2>1. added' \in File /\ added' - 1 = added
    BY FileAssumption DEF TypeOK, File
  <2>2. Cum[added'] = Cum[added] + Size(added')
    BY <2>1, Sizes
  <2>. QED
    BY <2>2 DEF Total
<1>4. Position'
  BY DEF Position, TypeOK, Owner, MayDownload
<1>5. Account'
  BY DEF Account, Between, Within, Owner, Position, TypeOK, MayDownload
<1>6. Done'
  BY DEF Done, Between, Written, TypeOK, Owner, MayDownload
<1>7. Untouched'
  BY DEF Untouched, TypeOK, File
<1>8. SuccMeansWhole'
  BY DEF SuccMeansWhole, Written, TypeOK, Owner
<1>. QED
  BY <1>1, <1>2, <1>3, <1>4, <1>5, <1>6, <1>7, <1>8

\* SkipFile keeps the invariant.
LEMMA SkipFileStep ==
    ASSUME Inv, SkipFile
    PROVE  Inv'
<1>. USE DEF Inv, SkipFile, user, conn, report, fetch
<1>1. TypeOK'
  BY Sizes, FileAssumption DEF TypeOK, File, MayDownload
<1>2. Owner'
  BY DEF Owner, TypeOK, MayDownload
<1>3. Total'
  BY DEF Total, TypeOK
<1>4. Position'
  BY DEF Position, TypeOK, Owner, MayDownload
<1>5. Account'
  BY DEF Account, Between, Within, Owner, Position, TypeOK, MayDownload
<1>6. Done'
  BY DEF Done, Between, Written, TypeOK, Owner, MayDownload
<1>7. Untouched'
  BY DEF Untouched, TypeOK, File
<1>8. SuccMeansWhole'
  BY DEF SuccMeansWhole, Written, TypeOK, Owner
<1>. QED
  BY <1>1, <1>2, <1>3, <1>4, <1>5, <1>6, <1>7, <1>8

\* StartThread keeps the invariant.
LEMMA StartThreadStep ==
    ASSUME Inv, StartThread
    PROVE  Inv'
<1>. USE DEF Inv, StartThread, user, conn, report, fetch
<1>1. TypeOK'
  BY Sizes, FileAssumption DEF TypeOK, File, MayDownload
<1>2. Owner'
  BY DEF Owner, TypeOK, MayDownload
<1>3. Total'
  BY DEF Total, TypeOK
<1>4. Position'
  BY DEF Position, TypeOK, Owner, MayDownload
<1>5. Account'
  <2>1. Cum[popped] \in Nat
    BY Sizes DEF TypeOK
  <2>. QED
    BY <2>1 DEF Account, Between, Within, TypeOK
<1>6. Done'
  <2>1. SUFFICES ASSUME Cum[popped] = 0, NEW i \in 1..popped
                 PROVE  Written(i)
    BY DEF Done, Written
  <2>2. i \in File /\ i \in 0..MaxFile /\ i - 1 \in 0..MaxFile
    BY FileAssumption DEF TypeOK, File
  <2>3. Cum[i] <= 0 /\ Cum[i - 1] \in Nat /\ Cum[i] \in Nat
    BY <2>1, <2>2, Sizes DEF TypeOK
  <2>4. Size(i) = 0
    BY <2>2, <2>3, Sizes
  <2>. QED
    BY <2>2, <2>4 DEF Written, TypeOK
<1>7. Untouched'
  BY DEF Untouched, TypeOK, File
<1>8. SuccMeansWhole'
  BY DEF SuccMeansWhole, Written, TypeOK, Owner
<1>. QED
  BY <1>1, <1>2, <1>3, <1>4, <1>5, <1>6, <1>7, <1>8

\* SetDowning keeps the invariant.
LEMMA SetDowningStep ==
    ASSUME Inv, SetDowning
    PROVE  Inv'
<1>. USE DEF Inv, SetDowning, user, conn, report, fetch
<1>1. TypeOK'
  BY Sizes, FileAssumption DEF TypeOK, File, MayDownload
<1>2. Owner'
  BY DEF Owner, TypeOK, MayDownload
<1>3. Total'
  BY DEF Total, TypeOK
<1>4. Position'
  BY DEF Position, TypeOK, Owner, MayDownload
<1>5. Account'
  BY DEF Account, Between, Within, Owner, Position, TypeOK, MayDownload
<1>6. Done'
  BY DEF Done, Between, Written, TypeOK, Owner, MayDownload
<1>7. Untouched'
  BY DEF Untouched, TypeOK, File
<1>8. SuccMeansWhole'
  BY DEF SuccMeansWhole, Written, TypeOK, Owner
<1>. QED
  BY <1>1, <1>2, <1>3, <1>4, <1>5, <1>6, <1>7, <1>8

\* Tick keeps the invariant.
LEMMA TickStep ==
    ASSUME Inv, Tick
    PROVE  Inv'
<1>. USE DEF Inv, Tick, user, conn, report, fetch
<1>1. TypeOK'
  BY Sizes, FileAssumption DEF TypeOK, File, MayDownload
<1>2. Owner'
  BY DEF Owner, TypeOK, MayDownload
<1>3. Total'
  BY DEF Total, TypeOK
<1>4. Position'
  BY DEF Position, TypeOK, Owner, MayDownload
<1>5. Account'
  BY DEF Account, Between, Within, Owner, Position, TypeOK, MayDownload
<1>6. Done'
  BY DEF Done, Between, Written, TypeOK, Owner, MayDownload
<1>7. Untouched'
  BY DEF Untouched, TypeOK, File
<1>8. SuccMeansWhole'
  BY DEF SuccMeansWhole, Written, TypeOK, Owner
<1>. QED
  BY <1>1, <1>2, <1>3, <1>4, <1>5, <1>6, <1>7, <1>8

\* Open keeps the invariant.
LEMMA OpenStep ==
    ASSUME Inv, Open
    PROVE  Inv'
<1>. USE DEF Inv, Open, user, conn, report, fetch
<1>1. TypeOK'
  BY Sizes, FileAssumption DEF TypeOK, File, MayDownload
<1>2. Owner'
  BY DEF Owner, TypeOK, MayDownload
<1>3. Total'
  BY DEF Total, TypeOK
<1>4. Position'
  BY DEF Position, TypeOK, Owner, MayDownload
<1>5. Account'
  <2>1. popped' \in File /\ popped' > popped /\ popped' - 1 = popped
    BY FileAssumption DEF TypeOK, File
  <2>2. got[popped'] = 0
    BY <2>1 DEF Untouched
  <2>. QED
    BY <2>1, <2>2 DEF Account, Between, Within, Position, TypeOK
<1>6. Done'
  BY DEF Done, Between, Written, TypeOK, Owner, MayDownload
<1>7. Untouched'
  BY DEF Untouched, TypeOK, File
<1>8. SuccMeansWhole'
  BY DEF SuccMeansWhole, Written, TypeOK, Owner
<1>. QED
  BY <1>1, <1>2, <1>3, <1>4, <1>5, <1>6, <1>7, <1>8

\* OpenFail keeps the invariant.
LEMMA OpenFailStep ==
    ASSUME Inv, OpenFail
    PROVE  Inv'
<1>. USE DEF Inv, OpenFail, user, conn, report, fetch
<1>1. TypeOK'
  BY Sizes, FileAssumption DEF TypeOK, File, MayDownload
<1>2. Owner'
  BY DEF Owner, TypeOK, MayDownload
<1>3. Total'
  BY DEF Total, TypeOK
<1>4. Position'
  BY DEF Position, TypeOK, Owner, MayDownload
<1>5. Account'
  BY DEF Account, Between, Within, Owner, Position, TypeOK, MayDownload
<1>6. Done'
  BY DEF Done, Between, Written, TypeOK, Owner, MayDownload
<1>7. Untouched'
  BY DEF Untouched, TypeOK, File
<1>8. SuccMeansWhole'
  BY DEF SuccMeansWhole, Written, TypeOK, Owner
<1>. QED
  BY <1>1, <1>2, <1>3, <1>4, <1>5, <1>6, <1>7, <1>8

\* Recv keeps the invariant.
LEMMA RecvStep ==
    ASSUME Inv, NEW c \in 1..(DownloadFileSize - iFileSize), Recv(c)
    PROVE  Inv'
<1>. USE DEF Inv, Recv, user, conn, report, fetch
<1>1. TypeOK'
  <2>1. popped \in File
    BY DEF TypeOK, File, Account, Within
  <2>2. got[popped] \in Nat /\ got' \in [File -> Nat] /\ \A i \in File : got'[i] <= Size(i)
    BY <2>1, Sizes DEF TypeOK
  <2>3. iFileSize' \in Nat /\ iFileSize' <= DownloadFileSize /\ DownloadFileSize > 0
    BY DEF TypeOK
  <2>4. iPos' \in 0..100
    BY <2>3, Hundred DEF TypeOK
  <2>5. iFileProgress' \in 0..100 /\ thread' \in {"recv", "end"}
    BY <2>4 DEF TypeOK
  <2>. QED
    BY <2>2, <2>3, <2>4, <2>5 DEF TypeOK
<1>2. Owner'
  BY DEF Owner, TypeOK, MayDownload
<1>3. Total'
  BY DEF Total, TypeOK
<1>4. Position'
  BY DEF Position, TypeOK, Owner, MayDownload
<1>5. Account'
  <2>1. popped \in File
    BY DEF TypeOK, File, Account, Within
  <2>2. got'[popped] = got[popped] + c /\ got[popped] \in Nat /\ Cum[popped - 1] \in Nat
    BY <2>1, Sizes, FileAssumption DEF TypeOK, File
  <2>3. iFileSize' \in Nat /\ iFileSize' <= DownloadFileSize /\ DownloadFileSize > 0
    BY DEF TypeOK
  <2>4. iPos' = 100 => iFileSize' = DownloadFileSize
    BY <2>3, Hundred DEF TypeOK
  <2>5. iFileSize' + short' = Cum[popped' - 1] + got'[popped']
    BY <2>2, <2>3 DEF Account, Within, TypeOK
  <2>6. thread' = "end" => iPos' = 100
    BY DEF Position
  <2>7. ~Between'
    BY <2>6 DEF Between
  <2>. QED
    BY <2>3, <2>4, <2>5, <2>7 DEF Account, Within, TypeOK
<1>6. Done'
  BY DEF Done, Between, Written, TypeOK, Owner, MayDownload
<1>7. Untouched'
  BY DEF Untouched, TypeOK, File
<1>8. SuccMeansWhole'
  BY DEF SuccMeansWhole, Written, TypeOK, Owner
<1>. QED
  BY <1>1, <1>2, <1>3, <1>4, <1>5, <1>6, <1>7, <1>8

\* Eof keeps the invariant.
LEMMA EofStep ==
    ASSUME Inv, Eof
    PROVE  Inv'
<1>. USE DEF Inv, Eof, user, conn, report, fetch
<1>1. TypeOK'
  <2>1. popped \in File
    BY DEF TypeOK, File, Account, Within
  <2>2. short' \in Nat
    BY <2>1, Sizes DEF TypeOK
  <2>3. hopeless' \in BOOLEAN
    BY DEF TypeOK
  <2>. QED
    BY <2>2, <2>3 DEF TypeOK
<1>2. Owner'
  BY DEF Owner, TypeOK, MayDownload
<1>3. Total'
  BY DEF Total, TypeOK
<1>4. Position'
  BY DEF Position, TypeOK, Owner, MayDownload
<1>5. Account'
  <2>1. popped \in File
    BY DEF TypeOK, File, Account, Within
  <2>2. /\ Size(popped) \in Nat /\ got[popped] \in Nat /\ Cum[popped - 1] \in Nat
        /\ Cum[popped] = Cum[popped - 1] + Size(popped)
    BY <2>1, Sizes, FileAssumption DEF TypeOK, File
  <2>3. iFileSize + short = Cum[popped - 1] + got[popped]
    BY DEF Account, Within
  <2>4. iFileSize' + short' = Cum[popped']
    BY <2>2, <2>3 DEF TypeOK
  <2>5. ~Within'
    BY DEF Within, Position
  <2>. QED
    BY <2>4, <2>5 DEF Account, TypeOK
<1>6. Done'
  <2>1. popped \in File
    BY DEF TypeOK, File, Account, Within
  <2>2. Size(popped) \in Nat /\ got[popped] \in Nat /\ got[popped] <= Size(popped)
    BY <2>1, Sizes DEF TypeOK
  <2>3. short' = 0 => short = 0 /\ got[popped] = Size(popped)
    <3>1. short' = short + Size(popped) - got[popped] /\ short \in Nat
      BY DEF TypeOK
    <3>. HIDE DEF Eof, Inv
    <3>. QED
      BY <2>2, <3>1
  <2>4. \A i \in 1..popped : i < popped \/ i = popped
    BY DEF TypeOK
  <2>. QED
    BY <2>3, <2>4 DEF Done, Written
<1>7. Untouched'
  BY DEF Untouched, TypeOK, File
<1>8. SuccMeansWhole'
  BY DEF SuccMeansWhole, Written, TypeOK, Owner
<1>. QED
  BY <1>1, <1>2, <1>3, <1>4, <1>5, <1>6, <1>7, <1>8

\* RecvFail keeps the invariant.
LEMMA RecvFailStep ==
    ASSUME Inv, RecvFail
    PROVE  Inv'
<1>. USE DEF Inv, RecvFail, user, conn, report, fetch
<1>1. TypeOK'
  BY Sizes, FileAssumption DEF TypeOK, File, MayDownload
<1>2. Owner'
  BY DEF Owner, TypeOK, MayDownload
<1>3. Total'
  BY DEF Total, TypeOK
<1>4. Position'
  BY DEF Position, TypeOK, Owner, MayDownload
<1>5. Account'
  BY DEF Account, Between, Within, Owner, Position, TypeOK, MayDownload
<1>6. Done'
  BY DEF Done, Between, Written, TypeOK, Owner, MayDownload
<1>7. Untouched'
  BY DEF Untouched, TypeOK, File
<1>8. SuccMeansWhole'
  BY DEF SuccMeansWhole, Written, TypeOK, Owner
<1>. QED
  BY <1>1, <1>2, <1>3, <1>4, <1>5, <1>6, <1>7, <1>8

\* EndFile keeps the invariant.
LEMMA EndFileStep ==
    ASSUME Inv, EndFile
    PROVE  Inv'
<1>. USE DEF Inv, EndFile, user, conn, report, fetch
<1>1. TypeOK'
  <2>1. iFileProgress' \in 0..100
    BY DEF TypeOK
  <2>2. thread' \in {"report", "loop"}
    OBVIOUS
  <2>. QED
    BY <2>1, <2>2 DEF TypeOK
<1>2. Owner'
  BY DEF Owner, TypeOK, MayDownload
<1>3. Total'
  BY DEF Total, TypeOK
<1>4. Position'
  BY DEF Position, TypeOK, Owner, MayDownload
<1>5. Account'
  BY DEF Account, Between, Within, Owner, Position, TypeOK, MayDownload
<1>6. Done'
  <2>1. Between' => Between
    BY DEF Between, Position, TypeOK
  <2>. QED
    BY <2>1 DEF Done, Written
<1>7. Untouched'
  BY DEF Untouched, TypeOK, File
<1>8. SuccMeansWhole'
  BY DEF SuccMeansWhole, Written, TypeOK, Owner
<1>. QED
  BY <1>1, <1>2, <1>3, <1>4, <1>5, <1>6, <1>7, <1>8

\* Report keeps the invariant.
LEMMA ReportStep ==
    ASSUME Inv, Report
    PROVE  Inv'
<1>. USE DEF Inv, Report, user, conn, report, fetch
<1>1. TypeOK'
  BY Sizes, FileAssumption DEF TypeOK, File, MayDownload
<1>2. Owner'
  BY DEF Owner, TypeOK, MayDownload
<1>3. Total'
  BY DEF Total, TypeOK
<1>4. Position'
  BY DEF Position, TypeOK, Owner, MayDownload
<1>5. Account'
  BY DEF Account, Between, Within, Owner, Position, TypeOK, MayDownload
<1>6. Done'
  BY DEF Done, Between, Written, TypeOK, Owner, MayDownload
<1>7. Untouched'
  BY DEF Untouched, TypeOK, File
<1>8. SuccMeansWhole'
  <2>1. SUFFICES ASSUME iPos = 100, known, NEW i \in 1..added
                 PROVE  Written(i)
    BY DEF SuccMeansWhole, Written
  <2>2. /\ popped \in File /\ popped - 1 \in 0..MaxFile /\ popped \in 0..MaxFile
        /\ added \in 0..MaxFile /\ popped <= added
        /\ i \in File /\ i \in 0..MaxFile /\ i - 1 \in 0..MaxFile /\ i <= added
    BY <2>1, FileAssumption DEF TypeOK, File, Account, Within
  <2>3. /\ Cum[popped] = Cum[popped - 1] + Size(popped)
        /\ Cum[popped] <= Cum[added] /\ Cum[i] <= Cum[added]
        /\ Cum[popped] \in Nat /\ Cum[popped - 1] \in Nat /\ Cum[added] \in Nat
        /\ Cum[i] \in Nat /\ Cum[i - 1] \in Nat
    BY <2>2, Sizes
  <2>4. Cum[added] + short = Cum[popped - 1] + got[popped]
    BY <2>1 DEF Account, Within, Total
  <2>5. got[popped] \in Nat /\ got[popped] <= Size(popped) /\ got[i] \in Nat /\ got[i] <= Size(i)
    BY <2>2 DEF TypeOK
  <2>6. short = 0 /\ Cum[popped] = Cum[added] /\ got[popped] = Size(popped)
    BY <2>3, <2>4, <2>5, Sizes, <2>2 DEF TypeOK
  <2>7. CASE i < popped
    BY <2>6, <2>7, <2>2 DEF Done
  <2>8. CASE i = popped
    BY <2>6, <2>8 DEF Written
  <2>9. CASE i > popped
    <3>1. Cum[popped] <= Cum[i - 1]
      BY <2>2, <2>9, Sizes
    <3>2. Size(i) = 0
      BY <2>2, <3>1, <2>3, <2>6, Sizes
    <3>. QED
      BY <3>2, <2>5 DEF Written
  <2>. QED
    BY <2>2, <2>7, <2>8, <2>9
<1>. QED
  BY <1>1, <1>2, <1>3, <1>4, <1>5, <1>6, <1>7, <1>8

\* A stuttering step keeps the invariant.
LEMMA StutterStep ==
    ASSUME Inv, UNCHANGED vars
    PROVE  Inv'
BY DEF Inv, vars, user, conn, report, fetch, TypeOK, Owner, Total, Position, Account,
       Between, Within, Done, Untouched, SuccMeansWhole, Written

\* The invariant holds at the start.
LEMMA InitInv == Init => Inv
<1>. SUFFICES ASSUME Init PROVE Inv
  OBVIOUS
<1>. USE DEF Init
<1>1. TypeOK
  <2>1. got \in [File -> Nat] /\ \A i \in File : got[i] <= Size(i)
    BY Sizes
  <2>2. 0 \in 0..MaxFile
    BY FileAssumption
  <2>3. timer \in BOOLEAN /\ handle \in BOOLEAN /\ known \in BOOLEAN /\ hopeless \in BOOLEAN
    OBVIOUS
  <2>4. /\ ui = "idle" /\ want = 0 /\ added = 0 /\ popped = 0 /\ thread = "none" /\ short = 0
        /\ DownloadFileSize = 0 /\ iFileSize = 0 /\ iPos = 0
        /\ eFileDownState = "IDLE" /\ iFileProgress = 0
    OBVIOUS
  <2>. HIDE DEF Init
  <2>. QED
    BY <2>1, <2>2, <2>3, <2>4, FileAssumption DEF TypeOK
<1>2. Owner /\ Position /\ Done /\ Untouched
  BY DEF Owner, Position, Done, Untouched
<1>3. Total
  BY FileAssumption DEF Total
<1>4. Account
  BY DEF Account, Between, Within
<1>5. SuccMeansWhole
  BY DEF SuccMeansWhole
<1>. QED
  BY <1>1, <1>2, <1>3, <1>4, <1>5 DEF Inv

\* What the thread has received, what it has missed and the files it has taken agree in
\* every reachable state, whatever the sizes and however the NVR answers.
THEOREM Invariance == Spec => []Inv
<1>1. Inv /\ [Next]_vars => Inv'
  <2>. SUFFICES ASSUME Inv, [Next]_vars PROVE Inv'
    OBVIOUS
  <2>1. CASE UserInterface
    BY <2>1, ConnectStep, ReuseStep, AddFileStep, SkipFileStep, StartThreadStep,
       SetDowningStep, TickStep, StutterStep DEF UserInterface, Refuse
  <2>2. CASE Thread
    BY <2>2, OpenStep, OpenFailStep, RecvStep, EofStep, RecvFailStep, EndFileStep,
       ReportStep, StutterStep DEF Thread, Poll
  <2>3. CASE UNCHANGED vars
    BY <2>3, StutterStep
  <2>. QED
    BY <2>1, <2>2, <2>3 DEF Next
<1>. QED
  BY <1>1, InitInv, PTL DEF Spec

\* The connection is there as long as the thread runs, although nobody waits for it.
THEOREM ConnectionInUse == Spec => []NoUseAfterFree
<1>1. Inv => NoUseAfterFree
  BY DEF Inv, Owner, NoUseAfterFree
<1>. QED
  BY <1>1, Invariance, PTL

\* 100 % mean that every byte of every file is written, if the sizes were all told.
THEOREM Success == Spec => []SuccMeansWhole
<1>1. Inv => SuccMeansWhole
  BY DEF Inv
<1>. QED
  BY <1>1, Invariance, PTL

-----------------------------------------------------------------------------
(* Why a download ends *)

\* A download in progress for which Ends makes no exception.
Hoping == eFileDownState = "DOWNING" /\ ~hopeless

\* Only downloadFile marks a download as running.  From the start of a thread on that has a size
\* to count against, nothing is missing, and there are bytes to come until it reports 100 %.
Counting ==
    /\ eFileDownState = "DOWNING" => ui = "idle"
    /\ Hoping => thread # "none"
    /\ ui = "add" => eFileDownState # "DOWNING" /\ thread = "none"
    /\ ui = "add" /\ ~hopeless => popped = 0
    /\ ~hopeless /\ (ui = "started" \/ eFileDownState = "DOWNING") =>
         /\ known /\ short = 0 /\ DownloadFileSize > 0
         /\ thread = "recv" \/ Between => iFileSize < DownloadFileSize

LEMMA CountingStart == Init => Counting
BY DEF Init, Counting, Hoping, Between

LEMMA CountingUi ==
    ASSUME Inv, Counting, UserInterface
    PROVE  Counting'
<1>. USE DEF user, conn, report, fetch
<1>1. ASSUME NEW k \in File, Connect(k)
      PROVE  Counting'
  <2>1. thread = "none"
    BY <1>1 DEF Connect, MayDownload, Inv, Owner
  <2>. QED
    BY <1>1, <2>1 DEF Connect, MayDownload, Counting, Hoping
<1>2. ASSUME NEW k \in File, Reuse(k)
      PROVE  Counting'
  <2>1. thread = "none"
    BY <1>2 DEF Reuse, MayDownload, Inv, Owner
  <2>. QED
    BY <1>2, <2>1 DEF Reuse, MayDownload, Counting, Hoping
<1>3. CASE AddFile
  BY <1>3 DEF AddFile, Counting, Hoping
<1>4. CASE SkipFile
  BY <1>4 DEF SkipFile, Counting, Hoping
<1>5. CASE StartThread
  <2>1. Cum[0] = 0
    BY FileAssumption
  <2>2. ~hopeless' => known /\ DownloadFileSize # 0 /\ popped = 0
    BY <1>5 DEF StartThread, Counting
  <2>3. DownloadFileSize \in Nat
    BY DEF Inv, TypeOK
  <2>4. eFileDownState' # "DOWNING" /\ ui' = "started"
    BY <1>5 DEF StartThread, Counting
  <2>. QED
    BY <1>5, <2>1, <2>2, <2>3, <2>4 DEF StartThread, Counting, Hoping
<1>6. CASE SetDowning
  BY <1>6 DEF SetDowning, Counting, Hoping, Between
<1>7. CASE Tick
  BY <1>7 DEF Tick, Counting, Hoping, Between
<1>8. CASE Refuse
  BY <1>8 DEF Refuse, vars, Counting, Hoping, Between
<1>. QED
  BY <1>1, <1>2, <1>3, <1>4, <1>5, <1>6, <1>7, <1>8 DEF UserInterface

LEMMA CountingThread ==
    ASSUME Inv, Counting, Thread
    PROVE  Counting'
<1>. USE DEF user, conn, report, fetch
<1>1. CASE Open
  BY <1>1 DEF Open, Counting, Hoping, Between
<1>2. CASE OpenFail
  BY <1>2 DEF OpenFail, Counting, Hoping, Between
<1>3. CASE Poll
  BY <1>3 DEF Poll, vars, Counting, Hoping, Between
<1>4. ASSUME NEW c \in 1..(DownloadFileSize - iFileSize), Recv(c)
      PROVE  Counting'
  <2>1. /\ thread = "recv" /\ iFileSize' = iFileSize + c
        /\ iPos' = (iFileSize' * 100) \div DownloadFileSize
        /\ thread' = (IF iPos' = 100 THEN "end" ELSE "recv")
        /\ UNCHANGED <<ui, known, short, hopeless, popped, DownloadFileSize, eFileDownState>>
    BY <1>4 DEF Recv
  <2>2. iFileSize \in Nat /\ DownloadFileSize \in Nat
    BY DEF Inv, TypeOK
  <2>3. iPos' # 100 => iFileSize' < DownloadFileSize
    <3>1. iFileSize' = DownloadFileSize /\ DownloadFileSize > 0 => iPos' = 100
      BY <2>1, <2>2
    <3>. QED
      BY <2>1, <2>2, <3>1
  <2>4. ui # "add"
    BY <2>1 DEF Counting
  <2>. QED
    BY <2>1, <2>3, <2>4 DEF Counting, Hoping, Between
<1>5. CASE Eof
  <2>1. /\ thread = "recv" /\ thread' = "end" /\ short' = short + Size(popped) - got[popped]
        /\ hopeless' = (hopeless \/ got[popped] < Size(popped))
        /\ UNCHANGED <<ui, known, popped, iPos, iFileSize, DownloadFileSize, eFileDownState>>
    BY <1>5 DEF Eof
  <2>2. popped \in File
    BY <2>1 DEF Inv, TypeOK, Account, Within, File
  <2>3. got[popped] \in Nat /\ got[popped] <= Size(popped) /\ Size(popped) \in Nat
    BY <2>2, Sizes DEF Inv, TypeOK
  <2>4. ~hopeless' /\ short = 0 => short' = 0
    <3>1. ~hopeless' => ~(got[popped] < Size(popped))
      BY <2>1
    <3>2. ~hopeless' => got[popped] = Size(popped)
      BY <2>3, <3>1
    <3>. QED
      BY <2>1, <2>3, <3>2
  <2>. QED
    BY <2>1, <2>4 DEF Counting, Hoping, Between
<1>6. CASE RecvFail
  BY <1>6 DEF RecvFail, Counting, Hoping, Between
<1>7. CASE EndFile
  <2>1. iPos' = iPos /\ thread = "end" /\ thread' = (IF iPos \in {100, -2, -3} THEN "report" ELSE "loop")
        /\ UNCHANGED <<ui, known, short, popped, iFileSize, DownloadFileSize, eFileDownState, hopeless>>
    BY <1>7 DEF EndFile
  <2>2. thread' = "loop" => Between
    BY <2>1 DEF Inv, TypeOK, Position, Between
  <2>. QED
    BY <2>1, <2>2 DEF Counting, Hoping, Between
<1>8. CASE Report
  BY <1>8 DEF Report, Counting, Hoping, Between
<1>. QED
  BY <1>1, <1>2, <1>3, <1>4, <1>5, <1>6, <1>7, <1>8 DEF Thread

\* How far the end is: the bytes and the files to come, and what the thread does with a file.
Phase == CASE thread = "recv" -> 4 [] thread = "end" -> 3 [] thread = "loop" -> 2
           [] thread = "report" -> 1 [] thread = "none" -> 0
ToEnd == (DownloadFileSize - iFileSize) + 3 * (added - popped) + Phase

\* The thread never waits for a file that was not queued.
LEMMA FileLeft ==
    ASSUME Inv, Counting, Hoping
    PROVE  ToEnd \in Nat /\ thread # "none" /\ (thread = "loop" => popped < added)
<1>1. thread # "none"
  BY DEF Counting
<1>2. /\ DownloadFileSize \in Nat /\ iFileSize \in Nat /\ iFileSize <= DownloadFileSize
      /\ popped \in 0..MaxFile /\ added \in 0..MaxFile /\ popped <= added /\ MaxFile \in Nat
  BY <1>1, FileAssumption DEF Inv, TypeOK, Account
<1>3. Phase \in Nat
  BY DEF Inv, TypeOK, Phase
<1>4. ASSUME thread = "loop" PROVE popped # added
  <2>1. iFileSize + short = Cum[popped] /\ short = 0 /\ iFileSize < DownloadFileSize /\ known
    BY <1>4 DEF Inv, Account, Between, Counting, Hoping
  <2>2. DownloadFileSize = Cum[added]
    BY <2>1 DEF Inv, Total
  <2>. QED
    BY <1>2, <2>1, <2>2
<1>. QED
  BY <1>1, <1>2, <1>3, <1>4 DEF ToEnd

\* Every step brings the end nearer.
LEMMA EndNearer ==
    ASSUME Inv, Counting, Next, Hoping, Hoping', vars' # vars
    PROVE  ToEnd' < ToEnd
<1>. USE DEF user, conn, report, fetch
<1>1. ui = "idle" /\ eFileDownState = "DOWNING"
  BY DEF Counting, Hoping
<1>2. Thread /\ ~Poll
  BY <1>1 DEF Next, UserInterface, Connect, Reuse, MayDownload, AddFile, SkipFile, StartThread,
              SetDowning, Tick, Refuse, Poll
<1>3. /\ DownloadFileSize \in Nat /\ iFileSize \in Nat
      /\ popped \in Nat /\ added \in Nat
  BY FileAssumption DEF Inv, TypeOK
<1>4. Phase \in Nat
  BY DEF Inv, TypeOK, Phase
<1>5. CASE Open
  BY <1>3, <1>5 DEF Open, ToEnd, Phase
<1>6. CASE OpenFail
  BY <1>3, <1>6 DEF OpenFail, ToEnd, Phase
<1>7. ASSUME NEW c \in 1..(DownloadFileSize - iFileSize), Recv(c)
      PROVE  ToEnd' < ToEnd
  BY <1>3, <1>7 DEF Recv, ToEnd, Phase
<1>8. CASE Eof
  BY <1>3, <1>8 DEF Eof, ToEnd, Phase
<1>9. CASE RecvFail
  BY <1>3, <1>9 DEF RecvFail, ToEnd, Phase
<1>10. CASE EndFile
  BY <1>3, <1>10 DEF EndFile, ToEnd, Phase
<1>11. CASE Report
  BY <1>11 DEF Report, Hoping
<1>. QED
  BY <1>2, <1>5, <1>6, <1>7, <1>8, <1>9, <1>10, <1>11 DEF Thread

\* A download ends (Ends) because, unless one of the exceptions is met, the thread always has a
\* step to take, every step there is until the state changes brings the end nearer, and the
\* distance is a natural number.
THEOREM EndNears ==
    Spec => /\ [](Hoping => ToEnd \in Nat /\ thread # "none" /\ (thread = "loop" => popped < added))
            /\ [][Hoping => ~Hoping' \/ ToEnd' < ToEnd]_vars
<1>1. ASSUME Inv, Counting, [Next]_vars
      PROVE  Counting'
  <2>1. CASE UNCHANGED vars
    BY <1>1, <2>1 DEF vars, user, conn, report, fetch, Counting, Hoping, Between
  <2>. QED
    BY <1>1, <2>1, CountingUi, CountingThread DEF Next
<1>2. ASSUME Inv, Counting, [Next]_vars
      PROVE  [Hoping => ~Hoping' \/ ToEnd' < ToEnd]_vars
  BY <1>2, EndNearer
<1>3. Inv /\ Counting =>
        (Hoping => ToEnd \in Nat /\ thread # "none" /\ (thread = "loop" => popped < added))
  BY FileLeft
<1>. QED
  BY <1>1, <1>2, <1>3, CountingStart, Invariance, PTL DEF Spec
=============================================================================
