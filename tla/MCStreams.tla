----------------------------- MODULE MCStreams -----------------------------
(***************************************************************************)
(* What streams to a page and must be given back when the page lets go:    *)
(* the logcat feed, a shell and its log, a Frida session. One of them runs *)
(* in each behaviour, the others stay in an initial state.                 *)
(***************************************************************************)
EXTENDS LogcatFeed

CONSTANTS c1, c2

\* Two bindings may be in flight at once: the filter is changed while the
\* screen is being left, or React mounts twice.
TwoCalls == {c1, c2}
AllOnly  == {"all"}

VARIABLES
  part,     \* the component that runs
  sess, alive, pump, queue, shellBatch, shown, done, buf, fd, err, disk, linked, chunks, teed,
  damaged, reader, read,
  server, turns, runtime, managed, call, driver, tmp, fridaFwd, fridaSess, seq, fridaDone, last,
  stop, wire, reply, fridaShown, ended, sub, app, overtook

\* Two chunks for a channel, a buffer and a log that hold one.
Shell == INSTANCE ShellLog WITH Readers <- {}, OutCap <- 1, BufCap <- 1, Cap <- 1, MaxChunks <- 2,
                                MaxBatch <- 1, batch <- shellBatch
ShellVars == <<sess, alive, pump, queue, shellBatch, shown, done, buf, fd, err, disk, linked,
               chunks, teed, damaged, reader, read>>

\* One session of one message.
Frida == INSTANCE FridaSession WITH Sessions <- {1}, Ring <- 1, MaxMsgs <- 1, MaxTurns <- 1,
                                    Forwarded <- TRUE, fwd <- fridaFwd, done <- fridaDone, shown <- fridaShown
FridaVars == <<server, turns, runtime, managed, call, driver, tmp, fridaFwd, fridaSess, seq,
               fridaDone, last, stop, wire, reply, fridaShown, ended, sub, app, overtook>>

all == <<part, vars, ShellVars, FridaVars>>

AllInit ==
  /\ part \in {"logcat", "shell", "frida"}
  /\ Init /\ Shell!Init /\ Frida!Init
  /\ (part # "shell" => disk = <<>>)
  /\ (part # "frida" => server /\ runtime /\ managed)

AllNext ==
  \/ part = "logcat" /\ Next /\ UNCHANGED <<part, ShellVars, FridaVars>>
  \/ part = "shell" /\ Shell!Next /\ UNCHANGED <<part, vars, FridaVars>>
  \/ part = "frida" /\ Frida!Next /\ UNCHANGED <<part, vars, ShellVars>>

AllSpec == AllInit /\ [][AllNext]_all /\ Fairness /\ Shell!Fair /\ Frida!Fairness
-----------------------------------------------------------------------------
\* A feed that was stopped ends and gives its lock back, and a silent one is noticed.
FeedsEnd == Released /\ StoppedFeedsEnd /\ SilenceResolved

\* Closing a shell returns, and a session that is stopped releases what it held.
SessionsEnd == Shell!CloseReturns /\ Frida!StopReleases
=============================================================================
