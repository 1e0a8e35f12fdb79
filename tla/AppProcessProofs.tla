--------------------------- MODULE AppProcessProofs ---------------------------
(***************************************************************************)
(* The file transport and the life of the process, for any days, lines,    *)
(* jobs and bounds: what the files hold at any moment, and that a failed   *)
(* bootstrap exits with nothing lost.                                      *)
(***************************************************************************)
EXTENDS AppProcess, TLAPS

Write == [line : 1 .. MaxLines, path : {FileOf(d) : d \in Days}]

\* The lines whose append has settled are the first ones.
DoneLines == Len(mirrored) - Len(pendingWrite)

\* The inductive invariant of the transport.  The chain holds the last lines
\* mirrored, in their order, each with the file of its day ...
Chained ==
  /\ Len(pendingWrite) <= Len(mirrored)
  /\ \A i \in 1 .. Len(pendingWrite) :
       /\ pendingWrite[i].line = DoneLines + i
       /\ pendingWrite[i].path = FileOf(mirrored[DoneLines + i])

\* ... and a file holds lines of its day among the others, in their order:
\* all but lines reported.
FileKept(d) ==
  /\ \A i, j \in 1 .. Len(files[d]) : i < j => files[d][i] < files[d][j]
  /\ \A i \in 1 .. Len(files[d]) : files[d][i] \in 1 .. DoneLines /\ mirrored[files[d][i]] = d
  /\ \A n \in 1 .. DoneLines :
       mirrored[n] = d => n \in reported \/ \E i \in 1 .. Len(files[d]) : files[d][i] = n

\* The file chosen is the one of the day last seen.
FileChosen == currentDateKey # "none" => currentFilePath = FileOf(currentDateKey)

LinesInv == Chained /\ FileChosen /\ \A d \in Days : FileKept(d)

\* And of the process: the transport is off only once bootstrap() has failed,
\* with its cause the last line mirrored.
BootInv ==
  /\ transport = "new" => boot \in {"mkdir", "dead"}
  /\ transport = "on" => boot \notin {"stopping", "exited"}
  /\ transport \in {"new", "failed"} => mirrored = <<>>
  /\ transport = "off" => cause = Len(mirrored) /\ cause > 0
  /\ boot = "mkdir" => transport = "new"
  /\ boot = "exited" => pendingWrite = <<>>

ProcessInv == TypeOK /\ LinesInv /\ BootInv

-----------------------------------------------------------------------------
(* The transport *)

\* What the types say of the lines.
LEMMA LineTypes ==
  ASSUME TypeOK
  PROVE  /\ mirrored \in Seq(Days) /\ Len(mirrored) \in Nat /\ Len(mirrored) <= MaxLines
         /\ pendingWrite \in Seq(Write) /\ Len(pendingWrite) \in Nat
         /\ MaxLines \in Nat
         /\ \A d \in Days : files[d] \in Seq(1 .. MaxLines) /\ Len(files[d]) \in Nat
BY MaxLinesAssumption DEF TypeOK, Write

\* Files of different days are different.
LEMMA FilesDiffer == \A d, e : FileOf(d) = FileOf(e) <=> d = e
BY DEF FileOf

\* A line mirrored joins the end of the chain, with the file of its day.
LEMMA MirrorStep ==
  ASSUME TypeOK, LinesInv, Mirror
  PROVE  /\ LinesInv'
         /\ currentDateKey' \in Days
         /\ currentFilePath' \in {FileOf(d) : d \in Days}
         /\ pendingWrite' \in Seq(Write)
         /\ mirrored' \in Seq(Days) /\ Len(mirrored') = Len(mirrored) + 1
         /\ Len(mirrored') <= MaxLines
<1> DEFINE w == [line |-> Len(mirrored) + 1, path |-> FileOf(day)]
<1>1. day \in Days
  BY DEF TypeOK
<1>2. ResolveCurrentFilePath = FileOf(day)
  BY <1>1, DaysAssumption DEF ResolveCurrentFilePath, LinesInv, FileChosen
<1>3. /\ Len(mirrored) < MaxLines
      /\ mirrored' = Append(mirrored, day)
      /\ pendingWrite' = Append(pendingWrite, w)
      /\ currentDateKey' = day /\ currentFilePath' = FileOf(day)
      /\ UNCHANGED <<files, reported>>
  BY <1>2 DEF Mirror
<1>4. w \in Write /\ w.line = Len(mirrored) + 1 /\ w.path = FileOf(day)
  BY <1>1, <1>3, LineTypes DEF Write
<1> HIDE DEF w
<1>5. /\ mirrored' \in Seq(Days)
      /\ Len(mirrored') = Len(mirrored) + 1
      /\ \A i \in 1 .. Len(mirrored) : mirrored'[i] = mirrored[i]
      /\ mirrored'[Len(mirrored) + 1] = day
  BY <1>1, <1>3, LineTypes
<1>6. /\ pendingWrite' \in Seq(Write)
      /\ Len(pendingWrite') = Len(pendingWrite) + 1
      /\ \A i \in 1 .. Len(pendingWrite) : pendingWrite'[i] = pendingWrite[i]
      /\ pendingWrite'[Len(pendingWrite) + 1] = w
  BY <1>3, <1>4, LineTypes
<1>7. DoneLines' = DoneLines /\ DoneLines \in 0 .. Len(mirrored)
  BY <1>5, <1>6, LineTypes DEF DoneLines, LinesInv, Chained
<1>8. Chained'
  <2>1. Len(pendingWrite') <= Len(mirrored')
    BY <1>5, <1>6, LineTypes DEF LinesInv, Chained
  <2>2. ASSUME NEW i \in 1 .. Len(pendingWrite)
        PROVE  /\ pendingWrite'[i].line = DoneLines + i
               /\ pendingWrite'[i].path = FileOf(mirrored'[DoneLines + i])
    <3>1. DoneLines + i \in 1 .. Len(mirrored)
      BY LineTypes DEF DoneLines, LinesInv, Chained
    <3> QED
      BY <3>1, <1>5, <1>6 DEF LinesInv, Chained
  <2>3. /\ pendingWrite'[Len(pendingWrite) + 1].line = DoneLines + (Len(pendingWrite) + 1)
        /\ pendingWrite'[Len(pendingWrite) + 1].path
             = FileOf(mirrored'[DoneLines + (Len(pendingWrite) + 1)])
    <3>1. DoneLines + (Len(pendingWrite) + 1) = Len(mirrored) + 1
      BY LineTypes DEF DoneLines
    <3> QED
      BY <3>1, <1>4, <1>5, <1>6
  <2>4. ASSUME NEW i \in 1 .. Len(pendingWrite')
        PROVE  /\ pendingWrite'[i].line = DoneLines + i
               /\ pendingWrite'[i].path = FileOf(mirrored'[DoneLines + i])
    <3>1. CASE i \in 1 .. Len(pendingWrite)
      BY <3>1, <2>2
    <3>2. CASE i = Len(pendingWrite) + 1
      BY <3>2, <2>3
    <3> QED
      BY <3>1, <3>2, <1>6, LineTypes
  <2> QED
    BY <1>7, <2>1, <2>4 DEF Chained
<1>9. ASSUME NEW d \in Days PROVE FileKept(d)'
  <2>1. FileKept(d)
    BY DEF LinesInv
  <2>2. \A n \in 1 .. DoneLines : mirrored'[n] = mirrored[n]
    BY <1>5, <1>7, LineTypes
  <2> QED
    BY <1>3, <1>7, <2>1, <2>2 DEF FileKept
<1>10. FileChosen'
  BY <1>3 DEF FileChosen
<1> QED
  BY <1>1, <1>3, <1>5, <1>6, <1>8, <1>9, <1>10, LineTypes DEF LinesInv

\* An append that settles takes the first line off the chain: the line is in
\* the file of its day, or it is reported, or both.
LEMMA SettleStep ==
  ASSUME TypeOK, LinesInv, AppendSucceeds \/ AppendFails
  PROVE  /\ LinesInv'
         /\ pendingWrite' \in Seq(Write)
         /\ files' \in [Days -> Seq(1 .. MaxLines)]
         /\ reported' \subseteq 1 .. MaxLines
         /\ pendingWrite # <<>>
         /\ UNCHANGED <<day, transport, currentDateKey, currentFilePath, mirrored>>
<1> DEFINE k == DoneLines + 1
<1> DEFINE e == mirrored[k]
<1>1. /\ pendingWrite # <<>>
      /\ pendingWrite' = Tail(pendingWrite)
      /\ UNCHANGED <<day, transport, currentDateKey, currentFilePath, mirrored>>
  BY DEF AppendSucceeds, AppendFails
<1>2. /\ Len(pendingWrite) > 0
      /\ Head(pendingWrite) = pendingWrite[1]
      /\ pendingWrite' \in Seq(Write)
      /\ Len(pendingWrite') = Len(pendingWrite) - 1
      /\ \A i \in 1 .. Len(pendingWrite') : pendingWrite'[i] = pendingWrite[i + 1]
  BY <1>1, LineTypes
<1>3. k \in 1 .. Len(mirrored) /\ DoneLines' = k /\ DoneLines \in Nat /\ k = DoneLines + 1
  BY <1>1, <1>2, LineTypes DEF DoneLines, LinesInv, Chained
<1>4. e \in Days /\ k \in 1 .. MaxLines
  BY <1>3, LineTypes
<1>5. Head(pendingWrite).line = k /\ Head(pendingWrite).path = FileOf(e)
  BY <1>2 DEF LinesInv, Chained
<1> HIDE DEF k, e
<1>6. Chained'
  <2>1. Len(pendingWrite') <= Len(mirrored')
    BY <1>1, <1>2, LineTypes DEF LinesInv, Chained
  <2>2. ASSUME NEW i \in 1 .. Len(pendingWrite')
        PROVE  /\ pendingWrite'[i].line = k + i
               /\ pendingWrite'[i].path = FileOf(mirrored[k + i])
    <3>1. i + 1 \in 1 .. Len(pendingWrite) /\ DoneLines + (i + 1) = k + i
      BY <1>2, <1>3, LineTypes
    <3> QED
      BY <1>2, <3>1 DEF LinesInv, Chained
  <2> QED
    BY <1>1, <1>3, <2>1, <2>2 DEF Chained
<1>7. /\ files' \in [Days -> Seq(1 .. MaxLines)]
      /\ \A d \in Days \ {e} : files'[d] = files[d]
      /\ files'[e] = files[e] \/ files'[e] = Append(files[e], k)
      /\ files'[e] = files[e] => k \in reported'
      /\ reported' \in {reported, reported \cup {k}}
  <2>1. CASE UNCHANGED files /\ reported' = reported \cup {k}
    BY <2>1, <1>4 DEF TypeOK
  <2>2. CASE AppendTo(Head(pendingWrite)) /\ reported' \in {reported, reported \cup {k}}
    <3>1. files' = [d \in Days |-> IF d = e THEN Append(files[d], k) ELSE files[d]]
      BY <2>2, <1>5, FilesDiffer DEF AppendTo
    <3>2. Append(files[e], k) \in Seq(1 .. MaxLines) /\ Append(files[e], k) # files[e]
      BY <1>4, LineTypes
    <3> QED
      BY <2>2, <3>1, <3>2, <1>4, LineTypes
  <2> QED
    BY <1>5, <2>1, <2>2 DEF AppendSucceeds, AppendFails
<1>8. reported' \subseteq 1 .. MaxLines
  BY <1>4, <1>7 DEF TypeOK
<1>9. ASSUME NEW d \in Days PROVE FileKept(d)'
  <2>1. FileKept(d)
    BY DEF LinesInv
  <2>2. CASE files'[d] = files[d] /\ (d = e => k \in reported')
    <3>1. reported \subseteq reported'
      BY <1>7
    <3> QED
      BY <1>1, <1>3, <1>7, <2>1, <2>2, <3>1 DEF FileKept, e
  <2>3. CASE d = e /\ files'[e] = Append(files[e], k)
    <3> DEFINE n == Len(files[e])
    <3>1. /\ n \in Nat
          /\ Len(files'[e]) = n + 1
          /\ files'[e][n + 1] = k
          /\ \A i \in 1 .. n : files'[e][i] = files[e][i]
      BY <1>4, <2>3, LineTypes
    <3>2. \A i \in 1 .. n : files[e][i] \in 1 .. DoneLines
      BY <2>1, <2>3 DEF FileKept
    <3> HIDE DEF n
    <3>3. \A i, j \in 1 .. n + 1 : i < j => files'[e][i] < files'[e][j]
      <4> SUFFICES ASSUME NEW i \in 1 .. n + 1, NEW j \in 1 .. n + 1, i < j
                   PROVE  files'[e][i] < files'[e][j]
        OBVIOUS
      <4>1. CASE j = n + 1
        <5>1. i \in 1 .. n /\ files'[e][i] \in 1 .. DoneLines
          BY <4>1, <3>1, <3>2
        <5> QED
          BY <4>1, <5>1, <3>1, <1>3
      <4>2. CASE j # n + 1
        <5>1. i \in 1 .. n /\ j \in 1 .. n
          BY <4>2, <3>1
        <5>2. files[e][i] < files[e][j]
          BY <5>1, <2>1, <2>3 DEF FileKept, n
        <5> QED
          BY <5>1, <5>2, <3>1
      <4> QED
        BY <4>1, <4>2
    <3>4. \A i \in 1 .. n + 1 : files'[e][i] \in 1 .. k /\ mirrored[files'[e][i]] = e
      <4>1. \A i \in 1 .. n : mirrored[files[e][i]] = e
        BY <2>1, <2>3 DEF FileKept, n
      <4>2. mirrored[k] = e /\ k \in 1 .. k
        BY <1>3 DEF e
      <4> SUFFICES ASSUME NEW i \in 1 .. n + 1
                   PROVE  files'[e][i] \in 1 .. k /\ mirrored[files'[e][i]] = e
        OBVIOUS
      <4>3. CASE i = n + 1
        BY <4>2, <4>3, <3>1
      <4>4. CASE i # n + 1
        <5>1. i \in 1 .. n
          BY <4>4, <3>1
        <5>2. files'[e][i] = files[e][i] /\ files[e][i] \in 1 .. DoneLines
          BY <5>1, <3>1, <3>2
        <5>3. files'[e][i] \in 1 .. k
          BY <5>2, <1>3
        <5> QED
          BY <4>1, <5>1, <5>2, <5>3
      <4> QED
        BY <4>3, <4>4
    <3>5. ASSUME NEW m \in 1 .. k, mirrored[m] = e
          PROVE  m \in reported' \/ \E i \in 1 .. n + 1 : files'[e][i] = m
      <4>1. CASE m = k
        BY <4>1, <3>1
      <4>2. CASE m # k
        <5>1. m \in 1 .. DoneLines
          BY <4>2, <1>3
        <5>2. m \in reported \/ \E i \in 1 .. n : files[e][i] = m
          BY <5>1, <3>5, <2>1, <2>3 DEF FileKept, n
        <5> QED
          BY <5>2, <1>7, <3>1
      <4> QED
        BY <4>1, <4>2
    <3> QED
      BY <1>1, <1>3, <2>3, <3>1, <3>3, <3>4, <3>5 DEF FileKept
  <2> QED
    BY <1>7, <2>2, <2>3
<1>10. FileChosen'
  BY <1>1 DEF FileChosen, LinesInv
<1> QED
  BY <1>1, <1>2, <1>6, <1>7, <1>8, <1>9, <1>10 DEF LinesInv

-----------------------------------------------------------------------------
(* The process *)

LEMMA ProcessInvInit == Init => ProcessInv
<1> SUFFICES ASSUME Init PROVE ProcessInv
  OBVIOUS
<1>1. /\ day \in Days /\ transport = "new"
      /\ currentDateKey = "none" /\ currentFilePath = NoFile
      /\ pendingWrite = <<>> /\ files = [d \in Days |-> <<>>]
      /\ mirrored = <<>> /\ reported = {}
      /\ boot = "mkdir" /\ started = {} /\ running = [j \in CronJobs |-> 0] /\ cause = 0
  BY DEF Init, TransportInit
<1>2. TypeOK
  BY <1>1, MaxLinesAssumption, MaxRunsAssumption DEF TypeOK, Booting
<1>3. Len(mirrored) = 0 /\ Len(pendingWrite) = 0 /\ DoneLines = 0
  BY <1>1 DEF DoneLines
<1>4. \A d \in Days : Len(files[d]) = 0
  BY <1>1
<1>5. LinesInv
  BY <1>1, <1>3, <1>4 DEF LinesInv, Chained, FileChosen, FileKept
<1> QED
  BY <1>1, <1>2, <1>5 DEF ProcessInv, BootInv

\* The types of the transport's state.
TransportTypeOK ==
  /\ day \in Days
  /\ transport \in {"new", "on", "off", "failed"}
  /\ currentDateKey \in Days \cup {"none"}
  /\ currentFilePath \in {FileOf(d) : d \in Days} \cup {NoFile}
  /\ pendingWrite \in Seq(Write)
  /\ files \in [Days -> Seq(1 .. MaxLines)]
  /\ mirrored \in Seq(Days) /\ Len(mirrored) <= MaxLines
  /\ reported \subseteq 1 .. MaxLines

ProcessTypeOK ==
  /\ boot \in {"mkdir", "up", "stopping", "exited", "dead"} \cup Booting
  /\ started \subseteq CronJobs
  /\ running \in [CronJobs -> 0 .. MaxRuns]
  /\ cause \in 0 .. MaxLines

LEMMA TypesApart == TypeOK <=> TransportTypeOK /\ ProcessTypeOK
BY DEF TypeOK, TransportTypeOK, ProcessTypeOK, Write

\* What a step leaves of the lines stays as it is.
LEMMA LinesStay ==
  ASSUME TypeOK, LinesInv,
         UNCHANGED <<pendingWrite, files, mirrored, reported, currentDateKey, currentFilePath>>
  PROVE  LinesInv'
BY DEF LinesInv, Chained, FileChosen, FileKept, DoneLines

\* A line written while the streams are not intercepted changes nothing.
LEMMA WriteStep ==
  ASSUME TypeOK, LinesInv, WriteLine
  PROVE  /\ LinesInv' /\ TransportTypeOK'
         /\ UNCHANGED transport
         /\ transport # "on" => UNCHANGED <<mirrored, pendingWrite>>
<1>1. CASE transport = "on"
  <2>1. Mirror /\ UNCHANGED transport
    BY <1>1 DEF WriteLine
  <2>2. UNCHANGED <<day, files, reported>>
    BY <2>1 DEF Mirror
  <2> QED
    BY <1>1, <2>1, <2>2, MirrorStep, TypesApart DEF TransportTypeOK
<1>2. CASE transport # "on"
  <2>1. UNCHANGED transportVars
    BY <1>2 DEF WriteLine, transportVars
  <2> QED
    BY <2>1, LinesStay, TypesApart DEF TransportTypeOK, transportVars
<1> QED
  BY <1>1, <1>2

LEMMA ProcessInvStep == ProcessInv /\ [Next]_vars => ProcessInv'
<1> SUFFICES ASSUME ProcessInv, [Next]_vars PROVE ProcessInv'
  OBVIOUS
<1>0. TypeOK /\ LinesInv /\ BootInv /\ TransportTypeOK /\ ProcessTypeOK
  BY TypesApart DEF ProcessInv
<1>a. ASSUME TransportTypeOK', ProcessTypeOK', LinesInv', BootInv' PROVE ProcessInv'
  BY <1>a DEF ProcessInv, TypeOK, TransportTypeOK, ProcessTypeOK, Write
<1>b. ASSUME UNCHANGED transportVars PROVE TransportTypeOK' /\ LinesInv'
  BY <1>0, <1>b, LinesStay DEF transportVars, TransportTypeOK
<1>1. CASE TransportStarts
  <2>1. /\ UNCHANGED <<day, pendingWrite, files, mirrored, reported, currentDateKey,
                       currentFilePath, started, running, cause>>
        /\ transport = "new" /\ transport' \in {"on", "failed"}
        /\ boot' = "create"
    BY <1>1 DEF TransportStarts, StartTransport
  <2>2. LinesInv'
    BY <1>0, <2>1, LinesStay
  <2> QED
    BY <1>0, <1>a, <2>1, <2>2 DEF TransportTypeOK, ProcessTypeOK, Booting, BootInv
<1>2. CASE BootAdvances
  <2>1. /\ UNCHANGED <<transportVars, started, running, cause>>
        /\ boot \in Booting /\ boot' \in Booting
    BY <1>2 DEF BootAdvances, Booting
  <2> QED
    BY <1>0, <1>a, <1>b, <2>1 DEF ProcessTypeOK, Booting, BootInv, transportVars
<1>3. CASE BootEnds
  <2>1. /\ WriteLine /\ boot = "init" /\ boot' = "up"
        /\ UNCHANGED <<started, running, cause>>
    BY <1>3 DEF BootEnds
  <2>2. /\ LinesInv' /\ TransportTypeOK' /\ UNCHANGED transport
        /\ transport # "on" => UNCHANGED <<mirrored, pendingWrite>>
    BY <1>0, <2>1, WriteStep
  <2> QED
    BY <1>0, <1>a, <2>1, <2>2 DEF ProcessTypeOK, BootInv
<1>4. CASE BootFails
  <2>1. boot \in Booting /\ boot' = "stopping" /\ UNCHANGED <<started, running>>
    BY <1>4 DEF BootFails
  <2>2. CASE transport = "on"
    <3>1. /\ Mirror /\ transport' = "off" /\ cause' = Len(mirrored) + 1
          /\ UNCHANGED <<day, files, reported>>
      BY <1>4, <2>2 DEF BootFails, Mirror
    <3>2. /\ LinesInv'
          /\ TransportTypeOK'
          /\ cause' = Len(mirrored') /\ cause' \in 1 .. MaxLines
      BY <1>0, <3>1, MirrorStep, LineTypes DEF TransportTypeOK
    <3> QED
      BY <1>0, <1>a, <2>1, <3>1, <3>2, MaxLinesAssumption DEF ProcessTypeOK, BootInv
  <2>3. CASE transport # "on"
    <3>1. UNCHANGED <<transportVars, cause>>
      BY <1>4, <2>3 DEF BootFails
    <3>2. transport # "new"
      BY <1>0, <2>1 DEF BootInv, Booting
    <3> QED
      BY <1>0, <1>a, <1>b, <2>1, <2>3, <3>1, <3>2
         DEF ProcessTypeOK, BootInv, transportVars, Booting
  <2> QED
    BY <2>2, <2>3
<1>5. CASE Exit
  <2>1. /\ boot = "stopping" /\ pendingWrite = <<>> /\ boot' = "exited"
        /\ UNCHANGED <<transportVars, started, running, cause>>
    BY <1>5 DEF Exit
  <2> QED
    BY <1>0, <1>a, <1>b, <2>1 DEF ProcessTypeOK, BootInv, transportVars
<1>6. CASE Kill
  <2>1. boot' = "dead" /\ UNCHANGED <<transportVars, started, running, cause>>
    BY <1>6 DEF Kill
  <2> QED
    BY <1>0, <1>a, <1>b, <2>1 DEF ProcessTypeOK, BootInv, transportVars
<1>7. ASSUME NEW j \in CronJobs, StartJob(j) \/ Tick(j) \/ RunSucceeds(j) PROVE ProcessInv'
  <2>1. UNCHANGED <<transportVars, boot, cause>>
    BY <1>7 DEF StartJob, Tick, RunSucceeds
  <2>2. started' \subseteq CronJobs /\ running' \in [CronJobs -> 0 .. MaxRuns]
    BY <1>0, <1>7, MaxRunsAssumption DEF StartJob, Tick, RunSucceeds, ProcessTypeOK
  <2> QED
    BY <1>0, <1>a, <1>b, <2>1, <2>2 DEF ProcessTypeOK, BootInv, transportVars
<1>8. ASSUME NEW j \in CronJobs, RunFails(j) PROVE ProcessInv'
  <2>1. WriteLine /\ Alive /\ UNCHANGED <<boot, started, cause>>
    BY <1>8 DEF RunFails
  <2>2. running' \in [CronJobs -> 0 .. MaxRuns]
    BY <1>0, <1>8, MaxRunsAssumption DEF RunFails, ProcessTypeOK
  <2>3. /\ LinesInv' /\ TransportTypeOK' /\ UNCHANGED transport
        /\ transport # "on" => UNCHANGED <<mirrored, pendingWrite>>
    BY <1>0, <2>1, WriteStep
  <2> QED
    BY <1>0, <1>a, <2>1, <2>2, <2>3 DEF ProcessTypeOK, BootInv, Alive
<1>9. CASE SettleAppend
  <2>1. /\ AppendSucceeds \/ AppendFails
        /\ Alive /\ UNCHANGED processVars
    BY <1>9 DEF SettleAppend
  <2>2. /\ LinesInv' /\ TransportTypeOK'
        /\ UNCHANGED <<transport, mirrored>>
    BY <1>0, <2>1, SettleStep DEF TransportTypeOK
  <2> QED
    BY <1>0, <1>a, <2>1, <2>2 DEF ProcessTypeOK, BootInv, Alive, processVars
<1>10. CASE Alive /\ (ClockMoves \/ WriteLine) /\ UNCHANGED processVars
  <2>1. CASE ClockMoves
    <3>1. /\ day' \in Days
          /\ UNCHANGED <<transport, pendingWrite, files, mirrored, reported, currentDateKey,
                         currentFilePath>>
      BY <2>1 DEF ClockMoves
    <3>2. LinesInv'
      BY <1>0, <3>1, LinesStay
    <3> QED
      BY <1>0, <1>a, <1>10, <3>1, <3>2
         DEF TransportTypeOK, ProcessTypeOK, BootInv, processVars
  <2>2. CASE WriteLine
    <3>1. /\ LinesInv' /\ TransportTypeOK' /\ UNCHANGED transport
          /\ transport # "on" => UNCHANGED <<mirrored, pendingWrite>>
      BY <1>0, <2>2, WriteStep
    <3> QED
      BY <1>0, <1>a, <1>10, <3>1 DEF ProcessTypeOK, BootInv, Alive, processVars
  <2> QED
    BY <1>10, <2>1, <2>2
<1>11. CASE UNCHANGED vars
  BY <1>0, <1>a, <1>b, <1>11 DEF vars, ProcessTypeOK, BootInv, transportVars
<1> QED
  BY <1>1, <1>2, <1>3, <1>4, <1>5, <1>6, <1>7, <1>8, <1>9, <1>10, <1>11 DEF Next

\* The inductive invariant holds in every reachable state.
THEOREM ProcessInvariant == Spec => []ProcessInv
BY ProcessInvInit, ProcessInvStep, PTL DEF Spec

\* The state of the process is of the right kind in every reachable state.
THEOREM ProcessTypeCorrect == Spec => []TypeOK
<1>1. ProcessInv => TypeOK
  BY DEF ProcessInv
<1> QED
  BY <1>1, ProcessInvariant, PTL

\* A line has settled when it is among the first DoneLines.
LEMMA SettledLines ==
  ASSUME TypeOK, LinesInv, NEW n
  PROVE  n \in DOMAIN mirrored /\ Settled(n) <=> n \in 1 .. DoneLines
<1>1. /\ DOMAIN mirrored = 1 .. Len(mirrored)
      /\ DOMAIN pendingWrite = 1 .. Len(pendingWrite)
      /\ DoneLines \in Nat /\ DoneLines + Len(pendingWrite) = Len(mirrored)
  BY LineTypes DEF DoneLines, LinesInv, Chained
<1>2. \A i \in 1 .. Len(pendingWrite) : pendingWrite[i].line = DoneLines + i
  BY DEF LinesInv, Chained
<1>3. ASSUME n \in 1 .. DoneLines PROVE n \in DOMAIN mirrored /\ Settled(n)
  BY <1>1, <1>2, <1>3, LineTypes DEF Settled
<1>4. ASSUME n \in DOMAIN mirrored, Settled(n), n \notin 1 .. DoneLines PROVE FALSE
  <2>1. n - DoneLines \in 1 .. Len(pendingWrite) /\ DoneLines + (n - DoneLines) = n
    BY <1>1, <1>4, LineTypes
  <2> QED
    BY <1>1, <1>2, <1>4, <2>1 DEF Settled
<1> QED
  BY <1>3, <1>4

\* The files tell what was written, whatever appends fail and however the
\* clock moves.
THEOREM FilesTell == Spec => []FilesTellWhatWasWritten
<1>1. ASSUME ProcessInv PROVE FilesTellWhatWasWritten
  <2> SUFFICES ASSUME NEW d \in Days
               PROVE  LET settledOfDay == {n \in DOMAIN mirrored : mirrored[n] = d /\ Settled(n)}
                      IN  /\ \A i, j \in DOMAIN files[d] : i < j => files[d][i] < files[d][j]
                          /\ ToSet(files[d]) \subseteq settledOfDay
                          /\ settledOfDay \ reported \subseteq ToSet(files[d])
    BY DEF FilesTellWhatWasWritten
  <2>1. TypeOK /\ LinesInv /\ FileKept(d)
    BY <1>1 DEF ProcessInv, LinesInv
  <2>2. DOMAIN files[d] = 1 .. Len(files[d])
    BY <2>1, LineTypes
  <2>3. \A n : n \in DOMAIN mirrored /\ Settled(n) <=> n \in 1 .. DoneLines
    BY <2>1, SettledLines
  <2> QED
    BY <2>1, <2>2, <2>3 DEF FileKept, ToSet
<1> QED
  BY <1>1, ProcessInvariant, PTL

\* A bootstrap that failed exits with every line in a file or reported, the
\* cause of the failure the last of them.
THEOREM ExitIsComplete == Spec => []ExitLosesNothing
<1>1. ASSUME ProcessInv PROVE ExitLosesNothing
  <2> SUFFICES ASSUME boot = "exited"
               PROVE  /\ \A n \in DOMAIN mirrored :
                           n \in reported
                             \/ \E i \in DOMAIN files[mirrored[n]] : files[mirrored[n]][i] = n
                      /\ transport # "failed" => cause = Len(mirrored) /\ cause > 0
    BY DEF ExitLosesNothing
  <2>1. TypeOK /\ LinesInv /\ BootInv
    BY <1>1 DEF ProcessInv
  <2>2. pendingWrite = <<>> /\ DoneLines = Len(mirrored)
    BY <2>1, LineTypes DEF BootInv, DoneLines
  <2>3. ASSUME NEW n \in DOMAIN mirrored
        PROVE  n \in reported \/ \E i \in DOMAIN files[mirrored[n]] : files[mirrored[n]][i] = n
    <3>1. mirrored[n] \in Days /\ n \in 1 .. DoneLines
      BY <2>1, <2>2, LineTypes
    <3>2. DOMAIN files[mirrored[n]] = 1 .. Len(files[mirrored[n]])
      BY <2>1, <3>1, LineTypes
    <3> QED
      BY <2>1, <3>1, <3>2 DEF LinesInv, FileKept
  <2>4. transport \in {"off", "failed"}
    BY <2>1 DEF BootInv, TypeOK
  <2> QED
    BY <2>1, <2>3, <2>4 DEF BootInv
<1> QED
  BY <1>1, ProcessInvariant, PTL
=============================================================================
