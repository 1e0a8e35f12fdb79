---------------------------- MODULE FileTransport ----------------------------
(***************************************************************************)
(* FileConsoleTransport: every line written to stdout or stderr is also    *)
(* appended to the file of its day.  The appends are chained on one        *)
(* promise, so that each starts when the one before has settled; one that  *)
(* fails is reported to the console and the chain goes on.                 *)
(*                                                                         *)
(* Left out: the text of a line.  One without text after its colours are   *)
(* removed is not mirrored.                                                *)
(***************************************************************************)
EXTENDS Naturals, Sequences, SequencesExt

CONSTANTS
  Days,     \* what the clock may show; a clock can be set back
  MaxLines  \* bound: lines mirrored

\* A day is written as a date.
ASSUME DaysAssumption == "none" \notin Days
ASSUME MaxLinesAssumption == MaxLines \in Nat

VARIABLES
  day,             \* the date of the clock
  transport,       \* "new", "on", "off" (stopped) or "failed" (no directory)
  currentDateKey,  \* the day of the last line, or "none"
  currentFilePath, \* and the file chosen for it
  pendingWrite,    \* the chain: the lines and files of appends not settled
  files,           \* the contents of each file
  mirrored,        \* the day each line was written, in order (history)
  reported         \* the lines whose append was reported as failed

transportVars ==
  <<day, transport, currentDateKey, currentFilePath, pendingWrite, files, mirrored, reported>>

FileOf(d) == <<"app", d>>
NoFile == <<"none">>

TransportInit ==
  /\ day \in Days
  /\ transport = "new"
  /\ currentDateKey = "none"
  /\ currentFilePath = NoFile
  /\ pendingWrite = <<>>
  /\ files = [d \in Days |-> <<>>]
  /\ mirrored = <<>>
  /\ reported = {}

ClockMoves ==
  /\ day' \in Days \ {day}
  /\ UNCHANGED <<transport, currentDateKey, currentFilePath, pendingWrite, files,
                 mirrored, reported>>

\* start(): mkdir resolves and the writers of both streams are replaced, or it
\* rejects and nothing is mirrored.
StartTransport ==
  /\ transport = "new"
  /\ transport' \in {"on", "failed"}
  /\ UNCHANGED <<day, currentDateKey, currentFilePath, pendingWrite, files, mirrored, reported>>

\* Mutant: the file of the first day is kept.
ResolveCurrentFilePathOnce ==
  IF currentFilePath # NoFile THEN currentFilePath ELSE FileOf(day)

\* Mutant: the key is renewed before it is compared.
ResolveCurrentFilePathUnset == currentFilePath

ResolveCurrentFilePath ==
  IF currentDateKey = day THEN currentFilePath ELSE FileOf(day)

\* A line with text is written while the streams are intercepted.
Mirror ==
  /\ Len(mirrored) < MaxLines
  /\ currentDateKey' = day
  /\ currentFilePath' = ResolveCurrentFilePath
  /\ mirrored' = Append(mirrored, day)
  /\ pendingWrite' = Append(pendingWrite, [line |-> Len(mirrored) + 1,
                                           path |-> ResolveCurrentFilePath])
  /\ UNCHANGED <<day, files, reported>>

\* Any code writes a line, to streams that are intercepted or not.
WriteLine ==
  /\ IF transport = "on"
     THEN Mirror
     ELSE UNCHANGED <<day, currentDateKey, currentFilePath, pendingWrite, files, mirrored, reported>>
  /\ UNCHANGED transport

AppendTo(write) ==
  files' = [d \in Days |-> IF FileOf(d) = write.path THEN Append(files[d], write.line) ELSE files[d]]

\* Mutant: appends are not chained, so any of those pending may come next.
AppendSucceedsUnchained ==
  /\ \E i \in DOMAIN pendingWrite :
       /\ AppendTo(pendingWrite[i])
       /\ pendingWrite' = RemoveAt(pendingWrite, i)
  /\ UNCHANGED <<day, transport, currentDateKey, currentFilePath, mirrored, reported>>

AppendSucceeds ==
  /\ pendingWrite # <<>>
  /\ AppendTo(Head(pendingWrite))
  /\ pendingWrite' = Tail(pendingWrite)
  /\ UNCHANGED <<day, transport, currentDateKey, currentFilePath, mirrored, reported>>

\* Mutant: without the catch a rejected append ends the chain, and every later
\* line is skipped.
AppendFailsForGood ==
  /\ pendingWrite # <<>>
  /\ reported' = reported \cup {Head(pendingWrite).line}
  /\ pendingWrite' = <<>>
  /\ UNCHANGED <<day, transport, currentDateKey, currentFilePath, files, mirrored>>

\* appendFile rejects, before or after the line was in the file; the catch
\* reports it to the console itself, so that it is not mirrored in turn.
AppendFails ==
  /\ pendingWrite # <<>>
  /\ UNCHANGED files \/ AppendTo(Head(pendingWrite))
  /\ reported' = reported \cup {Head(pendingWrite).line}
  /\ pendingWrite' = Tail(pendingWrite)
  /\ UNCHANGED <<day, transport, currentDateKey, currentFilePath, mirrored>>

-----------------------------------------------------------------------------

\* The lines whose append has settled, as the chain orders them.
Settled(n) == n \in DOMAIN mirrored /\ \A i \in DOMAIN pendingWrite : pendingWrite[i].line # n

\* The file of a day holds the lines written that day, in the order they were
\* written, each once: all that have settled, but for some of those reported as
\* failed.  So no line slips into the file of another day at midnight, or past
\* an earlier one whose append is slow or fails (enqueueWrite,
\* resolveCurrentFilePath).
FilesTellWhatWasWritten ==
  \A d \in Days :
    LET settledOfDay == {n \in DOMAIN mirrored : mirrored[n] = d /\ Settled(n)}
    IN  /\ \A i, j \in DOMAIN files[d] : i < j => files[d][i] < files[d][j]
        /\ ToSet(files[d]) \subseteq settledOfDay
        /\ settledOfDay \ reported \subseteq ToSet(files[d])
=============================================================================
