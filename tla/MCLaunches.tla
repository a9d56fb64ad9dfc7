---------------------------- MODULE MCLaunches -----------------------------
(***************************************************************************)
(* What is started for a device or an application, and on what: the feed   *)
(* that follows it through its restarts, the page that shows its lines,    *)
(* the mirror's window, Frida's host files and its scripts, and the        *)
(* choices of a version, a file, a Java, a package. One of them runs in    *)
(* each behaviour, the others stay in an initial state.                    *)
(***************************************************************************)
EXTENDS LogcatFeed, FiniteSets

CONSTANTS
  c1,
  MirrorCalls, MaxStarts, MaxMirrorCalls, MaxSwaps,             \* Mirror
  Jobs, MaxCrashes,                                             \* FridaHost; the crashes of FridaLibrary too
  Bodies, Slugs, Apps, MaxIds, MaxLibraryCalls, HistoryMax,     \* FridaLibrary
  PaneFilters, MaxPaneCalls, MaxLines,                          \* LogcatPane
  Sessions, Ring, MaxMsgs, MaxTurns,                            \* FridaSession
  Readers, OutCap, BufCap, Cap, MaxChunks, MaxBatch             \* ShellLog

OneCall == {c1}
AppOnly == {"app"}
AnyOrApp == {"all", "app"}
One == {1}
Two == {1, 2}
TwoBodies == {"v1", "v2"}
OneSlug == {"s"}
OneApp == {"a"}

\* A trim keeps something of the log.
ASSUME CapAssumption == Cap \in Nat \ {0}
\* The log is buffered.
ASSUME BufAssumption == BufCap \in Nat \ {0}
\* The processes of scrcpy can be counted.
ASSUME MirrorAssumption == MaxStarts \in Nat
\* A session's messages, and those its ring holds, can be counted.
ASSUME SessionAssumption == MaxMsgs \in Nat /\ Ring \in Nat

VARIABLES
  part,     \* the component that runs
  scrcpyProc, tracked, call, badge, ver, major, quit, calls, swaps, late, twice,
  ask, answer,
  kind, pc, deps, digest, asset, parts, venv, bridge, stamp, bin, remote, runnable, crashes, mixed,
  scripts, seq, apps, hist, disk, libraryCall, imports, launch, torn, births, libraryCalls,
  libraryCrashes,
  visible, showSystem, paneFilter, ring, paneCalls, issued, lcMu, feed, buf, logged, got, gone,
  crossed, missed,
  server, turns, runtime, managed, sessionCall, driver, tmp, sessionFwd, fridaSess, sessionSeq,
  done, last, stop, wire, reply, shown, ended, sub, app, overtook,
  sess, alive, pump, queue, shellBatch, shellShown, shellDone, shellBuf, fd, err, shellDisk, linked,
  chunks, teed, damaged, reader, read

\* Starts and stops that cross, and a scrcpy that may be replaced.
Scrcpy == INSTANCE Mirror WITH Calls <- MirrorCalls, MaxCalls <- MaxMirrorCalls, proc <- scrcpyProc
ScrcpyVars == <<scrcpyProc, tracked, call, badge, ver, major, quit, calls, swaps, late, twice>>

\* The questions of MCPicks, one in each behaviour.
Pick == INSTANCE MCPicks
PickVars == <<ask, answer>>

\* Installs of any kind, over crashes.
Host == INSTANCE FridaHost
HostVars == <<kind, pc, deps, digest, asset, parts, venv, bridge, stamp, bin, remote, runnable,
              crashes, mixed>>

\* Scripts, some of them shared, bound to applications, over crashes.
Library == INSTANCE FridaLibrary WITH MaxCalls <- MaxLibraryCalls, call <- libraryCall,
                                      calls <- libraryCalls, crashes <- libraryCrashes
LibraryVars == <<scripts, seq, apps, hist, disk, libraryCall, imports, launch, torn, births,
                 libraryCalls, libraryCrashes>>

\* The page's calls and the lines of the feed.
Pane == INSTANCE LogcatPane WITH Filters <- PaneFilters, MaxCalls <- MaxPaneCalls,
                                 filter <- paneFilter, calls <- paneCalls
PaneVars == <<visible, showSystem, paneFilter, ring, paneCalls, issued, lcMu, feed, buf, logged,
              got, gone, crossed, missed>>

\* Sessions whose ring holds the last of their messages.
Session == INSTANCE FridaSession WITH Forwarded <- TRUE, call <- sessionCall, fwd <- sessionFwd,
                                      seq <- sessionSeq
SessionVars == <<server, turns, runtime, managed, sessionCall, driver, tmp, sessionFwd, fridaSess,
                 sessionSeq, done, last, stop, wire, reply, shown, ended, sub, app, overtook>>

\* Chunks for a channel, a buffer and a log that each hold a few.
Shell == INSTANCE ShellLog WITH batch <- shellBatch, shown <- shellShown, done <- shellDone,
                                buf <- shellBuf, disk <- shellDisk
ShellVars == <<sess, alive, pump, queue, shellBatch, shellShown, shellDone, shellBuf, fd, err,
               shellDisk, linked, chunks, teed, damaged, reader, read>>

all == <<part, vars, ScrcpyVars, PickVars, HostVars, LibraryVars, PaneVars, SessionVars, ShellVars>>

AllInit ==
  /\ part \in {"logcat", "mirror", "picks", "host", "library", "pane", "session", "shell"}
  /\ Init /\ Scrcpy!Init /\ Pick!Init /\ Host!Init /\ Library!Init /\ Pane!Init /\ Session!Init /\ Shell!Init
  /\ (part # "mirror" => ver = 2)
  /\ (part # "host" => kind = [j \in Jobs |-> "venv"] /\ (\A j \in Jobs : deps[j]) /\ (\A k \in DOMAIN digest : digest[k]) /\ venv = "none" /\ bridge = "none" /\ \A k \in DOMAIN asset : asset[k] = "none")
  /\ (part # "pane" => paneFilter = CHOOSE f \in PaneFilters : TRUE)
  /\ (part # "session" => server /\ runtime /\ managed)
  /\ (part # "shell" => shellDisk = <<>>)

AllNext ==
  \/ part = "logcat" /\ Next /\ UNCHANGED <<part, ScrcpyVars, PickVars, HostVars, LibraryVars, PaneVars, SessionVars, ShellVars>>
  \/ part = "mirror" /\ Scrcpy!Next /\ UNCHANGED <<part, vars, PickVars, HostVars, LibraryVars, PaneVars, SessionVars, ShellVars>>
  \/ part = "picks" /\ Pick!Next /\ UNCHANGED <<part, vars, ScrcpyVars, HostVars, LibraryVars, PaneVars, SessionVars, ShellVars>>
  \/ part = "host" /\ Host!Next /\ UNCHANGED <<part, vars, ScrcpyVars, PickVars, LibraryVars, PaneVars, SessionVars, ShellVars>>
  \/ part = "library" /\ Library!Next /\ UNCHANGED <<part, vars, ScrcpyVars, PickVars, HostVars, PaneVars, SessionVars, ShellVars>>
  \/ part = "pane" /\ Pane!Next /\ UNCHANGED <<part, vars, ScrcpyVars, PickVars, HostVars, LibraryVars, SessionVars, ShellVars>>
  \/ part = "session" /\ Session!Next /\ UNCHANGED <<part, vars, ScrcpyVars, PickVars, HostVars, LibraryVars, PaneVars, ShellVars>>
  \/ part = "shell" /\ Shell!Next /\ UNCHANGED <<part, vars, ScrcpyVars, PickVars, HostVars, LibraryVars, PaneVars, SessionVars>>

AllSpec == AllInit /\ [][AllNext]_all
-----------------------------------------------------------------------------
\* The badge tells whether the window is up, of which there is one at most: see Mirror.
MirrorIsTrue == Scrcpy!MirrorIsTrue

\* Frida's tools, server, wheel and offers fit the device and the host.
FridaFits == Pick!FridaFits

\* Java, jadx, the form of an AVD and the APKs of an install or an export fit.
PicksFit == Pick!HostFits /\ Pick!PackageFits

\* What is ready on the host is whole, a launch loads the scripts it was bound to, no
\* session leaves anything behind, and its console is its log.
FridaKept == /\ Session!TypeOK /\ Session!NothingLeftBehind /\ Session!ConsoleIsTheLog
             /\ Host!ReadyIsWhole /\ Host!CacheHeals /\ Host!NothingHalfRuns
             /\ Library!LibraryHolds /\ Library!LaunchIsWhole

\* The switches of the feed are the page's, which has the feed's lines.
PaneHolds == Pane!SwitchesHold /\ Pane!PaneIsWhole

\* A terminal misses nothing of its shell, and the log keeps the newest of it.
ShellKeeps == Shell!TerminalIsWhole /\ Shell!LogIsNewest
=============================================================================
