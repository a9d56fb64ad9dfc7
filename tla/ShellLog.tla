------------------------------ MODULE ShellLog ------------------------------
(***************************************************************************)
(* One shell session (shell.go, scrollback.go, the shell bindings of       *)
(* app.go): the pump that reads the PTY and hands every chunk first to the *)
(* terminal's channel and then to the log, the goroutine that batches the  *)
(* terminal's events, the buffered log trimmed from time to time, and the  *)
(* readers of the history, who flush that buffer with no lock.             *)
(*                                                                         *)
(* A chunk is its number.  The sizes are counted in chunks.                *)
(***************************************************************************)
EXTENDS Naturals, Sequences, SequencesExt

CONSTANTS Readers,              \* the calls that read the history
          OutCap, BufCap, Cap,  \* the channel, the log's buffer, what a trim keeps
          MaxChunks, MaxBatch   \* bounds: the output, a batch

VARIABLES
  sess,     \* none, started, logged, open, closing, closed
  alive,    \* the PTY can still be read
  pump, queue,
  batch, shown, done,  \* the events: gathered, sent, and the last one
  buf, fd, err,        \* the log's writer: its buffer, its file, the error it keeps
  disk, linked,        \* the file, and whether it still has its name
  chunks,
  teed,     \* history: what the pump handed to the log
  damaged,  \* history: the log was cleared, failed, or was flushed during a write
  reader, read

log == <<buf, fd, err, disk, linked>>
ui == <<batch, shown, done>>
vars == <<sess, alive, pump, queue, ui, log, chunks, teed, damaged, reader, read>>

Idle == [pc |-> "idle"]
NothingRead == [seq |-> <<>>, need |-> 0]
Rest == [at |-> "read"]
\* An earlier run may have left a log under the same id.
Init == /\ sess = "none" /\ alive = FALSE /\ pump = [at |-> "over"] /\ queue = <<>>
        /\ batch = <<>> /\ shown = <<>> /\ done = FALSE /\ buf = <<>> /\ fd = "none" /\ err = FALSE
        /\ reader = [r \in Readers |-> Idle] /\ read = NothingRead
        /\ disk \in {<<>>, <<1>>} /\ linked = (disk # <<>>) /\ chunks = Len(disk) /\ teed = disk /\ damaged = FALSE

-----------------------------------------------------------------------------
\* OpenShell: the session runs before its log is opened, and both before it is known.
StartShell ==
  /\ sess = "none" /\ sess' = "started" /\ alive' = TRUE /\ pump' = Rest
  /\ UNCHANGED <<queue, ui, log, chunks, teed, damaged, reader, read>>
\* The log of an earlier run under the same id is appended to; one that cannot be
\* opened leaves the session without.
OpenScrollbackWriter ==
  /\ sess = "started" /\ sess' = "logged"
  /\ \/ fd' = "open" /\ linked' = TRUE /\ disk' = (IF linked THEN disk ELSE <<>>) /\ UNCHANGED damaged
     \/ damaged' = TRUE /\ UNCHANGED <<fd, linked, disk>>
  /\ UNCHANGED <<alive, pump, queue, ui, buf, err, chunks, teed, reader, read>>
Register ==
  /\ sess = "logged" /\ sess' = "open"
  /\ UNCHANGED <<alive, pump, queue, ui, log, chunks, teed, damaged, reader, read>>

-----------------------------------------------------------------------------
\* The pump.
PumpReads ==
  /\ pump = Rest /\ alive /\ chunks < MaxChunks /\ chunks' = chunks + 1
  /\ pump' = [at |-> "send", c |-> chunks']
  /\ UNCHANGED <<sess, alive, queue, ui, log, teed, damaged, reader, read>>
PumpSends ==
  /\ pump.at = "send" /\ Len(queue) < OutCap
  /\ queue' = Append(queue, pump.c) /\ pump' = [pump EXCEPT !.at = "tee"]
  /\ UNCHANGED <<sess, alive, ui, log, chunks, teed, damaged, reader, read>>
PumpEnds ==
  /\ pump = Rest /\ ~alive /\ pump' = [at |-> "over"]
  /\ UNCHANGED <<sess, alive, queue, ui, log, chunks, teed, damaged, reader, read>>

Flushing == \E r \in Readers : reader[r].pc = "flush"
\* bufio.Writer.Flush: an error stays for good.
Flush == IF err \/ buf = <<>> THEN UNCHANGED <<buf, err, disk>>
         ELSE IF fd # "open" THEN err' = TRUE /\ UNCHANGED <<buf, disk>>
         ELSE disk' = disk \o buf /\ buf' = <<>> /\ UNCHANGED err
\* cappedWriter.Write; a write while a reader flushes races with it.
PumpTees ==
  /\ pump.at = "tee"
  /\ IF fd = "none" THEN UNCHANGED <<log, teed, damaged>> /\ pump' = Rest
     ELSE /\ teed' = Append(teed, pump.c) /\ damaged' = (damaged \/ Flushing)
          /\ \E trims \in BOOLEAN : pump' = IF trims THEN [at |-> "trim"] ELSE Rest
          /\ IF err THEN UNCHANGED <<buf, err, disk>>
             ELSE IF Len(buf) < BufCap THEN buf' = Append(buf, pump.c) /\ UNCHANGED <<err, disk>>
             ELSE IF fd # "open" THEN err' = TRUE /\ UNCHANGED <<buf, disk>>
             ELSE disk' = disk \o buf /\ buf' = <<pump.c>> /\ UNCHANGED err
          /\ UNCHANGED <<fd, linked>>
  /\ UNCHANGED <<sess, alive, queue, ui, chunks, reader, read>>

TailOf(s, n) == IF Len(s) <= n THEN s ELSE SubSeq(s, Len(s) - n + 1, Len(s))
\* A slip: the tail is read although the newest output is still buffered.
TrimUnflushed ==
  /\ pump.at = "trim" /\ UNCHANGED <<buf, err, disk>>
  /\ pump' = IF linked /\ Len(disk) >= 2 * Cap THEN [at |-> "reopen", tail |-> TailOf(disk, Cap)] ELSE Rest
  /\ UNCHANGED <<sess, alive, queue, ui, fd, linked, chunks, teed, damaged, reader, read>>
\* trim: flush first, since the tail is read from the file; a file without its name
\* is left alone.
Trim ==
  /\ pump.at = "trim" /\ Flush
  /\ pump' = IF linked /\ ~err' /\ Len(disk') >= 2 * Cap THEN [at |-> "reopen", tail |-> TailOf(disk', Cap)] ELSE Rest
  /\ damaged' = (damaged \/ Flushing)
  /\ UNCHANGED <<sess, alive, queue, ui, fd, linked, chunks, teed, reader, read>>
\* The file is closed, truncated and written; a failure leaves the writer on the closed one.
TrimReopens ==
  /\ pump.at = "reopen" /\ pump' = Rest
  /\ \/ disk' = pump.tail /\ buf' = <<>> /\ linked' = TRUE /\ fd' = "open" /\ err' = FALSE
        /\ damaged' = (damaged \/ Flushing)
     \/ fd' = "closed" /\ disk' \in {disk, <<>>} /\ damaged' = TRUE /\ UNCHANGED <<buf, linked, err>>
  /\ UNCHANGED <<sess, alive, queue, ui, chunks, teed, reader, read>>

-----------------------------------------------------------------------------
\* pumpShellOutput, started with the registration and never stopped from outside.
Drains == sess \notin {"none", "started", "logged"}
\* A slip: a session that is closed is not drained any longer.
GatherWhileOpen ==
  /\ sess = "open" /\ queue # <<>> /\ Len(batch) < MaxBatch
  /\ batch' = Append(batch, Head(queue)) /\ queue' = Tail(queue)
  /\ UNCHANGED <<sess, alive, pump, shown, done, log, chunks, teed, damaged, reader, read>>
Gather ==
  /\ Drains /\ queue # <<>> /\ Len(batch) < MaxBatch
  /\ batch' = Append(batch, Head(queue)) /\ queue' = Tail(queue)
  /\ UNCHANGED <<sess, alive, pump, shown, done, log, chunks, teed, damaged, reader, read>>
\* On the tick, or at once when the batch is large.
Emit ==
  /\ Drains /\ batch # <<>> /\ ~done /\ shown' = shown \o batch /\ batch' = <<>>
  /\ UNCHANGED <<sess, alive, pump, queue, done, log, chunks, teed, damaged, reader, read>>
\* A slip: the end is announced and what was gathered is dropped.
DoneDrops ==
  /\ Drains /\ ~done /\ pump.at = "over" /\ queue = <<>>
  /\ done' = TRUE /\ UNCHANGED <<batch, shown>>
  /\ UNCHANGED <<sess, alive, pump, queue, log, chunks, teed, damaged, reader, read>>
\* The channel is closed: the rest is sent, then the end.
Done ==
  /\ Drains /\ ~done /\ pump.at = "over" /\ queue = <<>>
  /\ done' = TRUE /\ shown' = shown \o batch /\ batch' = <<>>
  /\ UNCHANGED <<sess, alive, pump, queue, log, chunks, teed, damaged, reader, read>>

-----------------------------------------------------------------------------
\* The shell ends by itself, or its device goes.
Exits == /\ alive /\ alive' = FALSE
         /\ UNCHANGED <<sess, pump, queue, ui, log, chunks, teed, damaged, reader, read>>
\* CloseShell (and shutdown): out of the map, the PTY closed, the process killed, then
\* it waits for the pump.  The log is neither flushed nor closed: of what its buffer holds
\* then, the file has nothing.
CloseShell == /\ sess = "open" /\ sess' = "closing" /\ alive' = FALSE
              /\ UNCHANGED <<pump, queue, ui, log, chunks, teed, damaged, reader, read>>
StopReturns == /\ sess = "closing" /\ pump.at = "over" /\ sess' = "closed"
               /\ UNCHANGED <<alive, pump, queue, ui, log, chunks, teed, damaged, reader, read>>
-----------------------------------------------------------------------------
\* ReadShellHistory: the sessions that are open are flushed, then the file is read.
NoFlushFirst(r) ==
  /\ reader[r] = Idle /\ sess # "none"
  /\ reader' = [reader EXCEPT ![r] = [pc |-> "read", need |-> IF sess = "open" /\ teed # <<>> THEN Last(teed) ELSE 0]]
  /\ UNCHANGED <<sess, alive, pump, queue, ui, log, chunks, teed, damaged, read>>
ReadShellHistory(r) ==
  /\ reader[r] = Idle /\ sess # "none"
  /\ reader' = [reader EXCEPT ![r] =
       [pc |-> IF sess = "open" /\ fd # "none" THEN "look" ELSE "read",
        need |-> IF sess = "open" /\ teed # <<>> THEN Last(teed) ELSE 0]]
  /\ read' = NothingRead /\ UNCHANGED <<sess, alive, pump, queue, ui, log, chunks, teed, damaged>>
\* FlushTee, in the two halves of Flush: the file has the bytes, the buffer still too.
FlushTee(r) ==
  /\ reader[r].pc = "look" /\ damaged' = (damaged \/ Flushing)
  /\ IF err \/ buf = <<>> THEN reader' = [reader EXCEPT ![r].pc = "read"] /\ UNCHANGED <<err, disk>>
     ELSE IF fd # "open" THEN err' = TRUE /\ reader' = [reader EXCEPT ![r].pc = "read"] /\ UNCHANGED disk
     ELSE disk' = disk \o buf /\ reader' = [reader EXCEPT ![r] = [pc |-> "flush", need |-> @.need, n |-> Len(buf)]] /\ UNCHANGED err
  /\ UNCHANGED <<sess, alive, pump, queue, ui, buf, fd, linked, chunks, teed, read>>
\* When the buffer grew meanwhile that is a short write, and the log takes no more.
FlushEnds(r) ==
  /\ reader[r].pc = "flush" /\ reader' = [reader EXCEPT ![r].pc = "read"]
  /\ IF Len(buf) > reader[r].n THEN err' = TRUE /\ buf' = SubSeq(buf, reader[r].n + 1, Len(buf))
     ELSE buf' = <<>> /\ UNCHANGED err
  /\ UNCHANGED <<sess, alive, pump, queue, ui, fd, disk, linked, chunks, teed, damaged, read>>
ReadScrollback(r) ==
  /\ reader[r].pc = "read" /\ reader' = [reader EXCEPT ![r] = Idle]
  /\ read' = [seq |-> IF linked THEN TailOf(disk, Cap) ELSE <<>>, need |-> reader[r].need]
  /\ UNCHANGED <<sess, alive, pump, queue, ui, log, chunks, teed, damaged>>
\* The file loses its name; an open session writes on into it.
ClearShellHistory ==
  /\ linked /\ linked' = FALSE /\ damaged' = TRUE
  /\ UNCHANGED <<sess, alive, pump, queue, ui, buf, fd, err, disk, chunks, teed, reader, read>>

Pump == PumpSends \/ PumpEnds \/ PumpTees \/ Trim \/ TrimReopens
Next == \/ StartShell \/ OpenScrollbackWriter \/ Register
        \/ PumpReads \/ PumpSends \/ PumpEnds \/ PumpTees \/ Trim \/ TrimReopens
        \/ Gather \/ Emit \/ Done \/ Exits \/ CloseShell \/ StopReturns \/ ClearShellHistory
        \/ \E r \in Readers : ReadShellHistory(r) \/ FlushTee(r) \/ FlushEnds(r) \/ ReadScrollback(r)
\* The two goroutines of a session are never held up: the tick comes, a read of a PTY
\* that is closed returns.
Fair == WF_vars(Pump) /\ WF_vars(Gather) /\ WF_vars(Emit) /\ WF_vars(Done) /\ WF_vars(StopReturns)
Spec == Init /\ [][Next]_vars /\ Fair

-----------------------------------------------------------------------------
\* The terminal gets every chunk once and in order, and is told of the end only after
\* the last one, whatever becomes of the log: the pump sends before it writes, and an
\* error of the log stops nothing.
TerminalIsWhole ==
  LET sent == shown \o batch \o queue \o (IF pump.at = "send" THEN <<pump.c>> ELSE <<>>) IN
  /\ sent # <<>> => Last(sent) = chunks /\ \A n \in 1 .. Len(sent) - 1 : sent[n + 1] = sent[n] + 1
  /\ done => batch = <<>> /\ queue = <<>> /\ pump.at = "over"

\* What is still in the buffer, but for one that a flush has written already: of a session
\* that is over, nobody flushes it any more.
Unwritten == IF Flushing THEN <<>> ELSE buf
\* The log of an open session, in its file and its buffer, is the newest part of the output
\* and at least what a trim keeps, and a reader finds in it everything the session had
\* printed when it asked.  Once the session is over only the file counts: it is that part
\* without its end, of which at most a buffer is missing.
LogIsNewest ==
  ~damaged =>
    LET upTo == SubSeq(teed, 1, Len(teed) - Len(Unwritten)) IN
    /\ sess = "open" => IsSuffix(disk \o Unwritten, teed)
    /\ sess \in {"closing", "closed"} => IsSuffix(disk, upTo) /\ Len(Unwritten) <= BufCap
    /\ sess \in {"open", "closing", "closed"} => Len(disk) = Len(upTo) \/ Len(disk) >= Cap
    /\ read.need = 0 \/ (read.seq # <<>> /\ Last(read.seq) >= read.need)

\* Closing a shell returns: the pump is never left blocked on a channel nobody drains.
CloseReturns == sess = "closing" ~> sess # "closing"
=============================================================================
