------------------------------ MODULE Emulators ------------------------------
(***************************************************************************)
(* The emulators of one AVD: the StartAVD bindings and their boot tasks    *)
(* (app.go), the EmulatorManager that supervises the processes they spawn  *)
(* (internal/adb/avd_launch.go), StopAVD, and shutdown.                    *)
(*                                                                         *)
(* A process is named after the StartAVD call that spawned it, 0 is nil.   *)
(* procs is the AVD's entry in the manager's map.  The map is read, the    *)
(* process spawned and the map written in three steps that no lock joins.  *)
(***************************************************************************)
EXTENDS Tasks

CONSTANTS
  User,       \* StopAVD's caller
  MaxStops    \* bound: calls of StopAVD

ASSUME UserAssumption == User \notin Starts
ASSUME MaxStopsAssumption == MaxStops \in Nat

VARIABLES
  child,        \* the emulator: none, up, closing (asked to), killed, down
  reap,         \* the goroutine that waits for it: off, run, closed, over
  procs,        \* EmulatorManager.procs[name]
  wpc, target,  \* StartAVD and its boot wait, and whose emulator it awaits
  kpc, ktgt,    \* Stop, by the user or by a cancelled start
  stops,
  quit, qtgt,   \* shutdown
  doubled,      \* history: a live emulator's entry was overwritten
  late          \* history: a start was under way when StopAll took the map

procVars == <<child, reap, procs>>
callVars == <<wpc, target, kpc, ktgt, stops>>
quitVars == <<quit, qtgt>>
histVars == <<doubled, late>>
vars == <<taskVars, procVars, callVars, quitVars, histVars>>

Stoppers == Starts \cup {User}

Init ==
  /\ TaskInit
  /\ child = [t \in Starts |-> "none"]
  /\ reap = [t \in Starts |-> "off"]
  /\ procs = 0
  /\ wpc = [t \in Starts |-> "idle"]
  /\ target = [t \in Starts |-> 0]
  /\ kpc = [k \in Stoppers |-> "off"]
  /\ ktgt = [k \in Stoppers |-> 0]
  /\ stops = 0
  /\ quit = "no" /\ qtgt = 0
  /\ doubled = FALSE /\ late = FALSE

Running(c) == c # 0 /\ child[c] \in {"up", "closing", "killed"}

\* procAlive: a signal reaches it, as it still does when it exited unawaited.
Alive(c) == c # 0 /\ reap[c] = "run"

\* adbq runs: nothing but an emulator moves when it is over.
Lives == quit # "over"

\* A worker that emitted its last copy goes on.
Goes(t, from, to) ==
  /\ Lives
  /\ wpc[t] = from /\ hand[t] = "none"
  /\ wpc' = [wpc EXCEPT ![t] = to]

-----------------------------------------------------------------------------
(* StartAVD and EmulatorManager.Start.                                     *)

StartAVD(t) ==
  /\ quit = "no"
  /\ Goes(t, "idle", "check")
  /\ CreateTask(t)
  /\ UNCHANGED <<procVars, target, kpc, ktgt, stops, quitVars, histVars>>

\* "Already running under our supervision": wait for it, saying so; or go on to spawn.
Check(t) ==
  /\ IF Alive(procs)
       THEN Goes(t, "check", "wait") /\ UpdateTask(t) /\ target' = [target EXCEPT ![t] = procs]
       ELSE Goes(t, "check", "spawn") /\ UNCHANGED <<taskVars, target>>
  /\ UNCHANGED <<procVars, kpc, ktgt, stops, quitVars, histVars>>

\* No emulator binary, no free port, or the process does not start.
SpawnFail(t) ==
  /\ Goes(t, "spawn", "failed")
  /\ UNCHANGED <<taskVars, procVars, target, kpc, ktgt, stops, quitVars, histVars>>

Spawn(t) ==
  /\ Goes(t, "spawn", "register")
  /\ child' = [child EXCEPT ![t] = "up"]
  /\ target' = [target EXCEPT ![t] = t]
  /\ UNCHANGED <<taskVars, reap, procs, kpc, ktgt, stops, quitVars, histVars>>

\* The entry is written, whatever it held, and the goroutine that waits starts.
Register(t) ==
  /\ Goes(t, "register", "grace")
  /\ procs' = t
  /\ reap' = [reap EXCEPT ![t] = "run"]
  /\ doubled' = (doubled \/ Running(procs))
  /\ UNCHANGED <<taskVars, child, target, kpc, ktgt, stops, quitVars, late>>

\* It exited within the grace period: the task fails ...
GraceFail(t) ==
  /\ reap[t] \in {"closed", "over"}
  /\ Goes(t, "grace", "failed")
  /\ UNCHANGED <<taskVars, procVars, target, kpc, ktgt, stops, quitVars, histVars>>

Failed(t) ==
  /\ Goes(t, "failed", "done")
  /\ Finish(t, "err")
  /\ UNCHANGED <<procVars, target, kpc, ktgt, stops, quitVars, histVars>>

\* ... or the timer won: the binding returns, its goroutine waits for the boot.
Grace(t) ==
  /\ Goes(t, "grace", "wait")
  /\ UpdateTask(t)
  /\ UNCHANGED <<procVars, target, kpc, ktgt, stops, quitVars, histVars>>

-----------------------------------------------------------------------------
(* WaitForBoot and what StartAVD makes of its answer.                      *)

\* Some emulator answers to the serial awaited: its own, or one that took its port.
Answers(t) ==
  \E c \in Starts : /\ child[c] \in {"up", "closing"}
                    /\ c = target[t] \/ child[target[t]] = "down"

\* The device is online; a done context ends the wait, or fails the listing.
Online(t) ==
  /\ Goes(t, "wait", "online")
  /\ ~ctxDone[t] /\ Answers(t)
  /\ UNCHANGED <<taskVars, procVars, target, kpc, ktgt, stops, quitVars, histVars>>

\* Not booted yet, or the context failed the question: report it, wait again.
Booting(t) ==
  /\ Goes(t, "online", "wait")
  /\ UpdateTask(t)
  /\ UNCHANGED <<procVars, target, kpc, ktgt, stops, quitVars, histVars>>

\* sys.boot_completed is set: the wait ends, whatever is cancelled from here on.
Booted(t) ==
  /\ Goes(t, "online", "booted")
  /\ ~ctxDone[t] /\ Answers(t)
  /\ UNCHANGED <<taskVars, procVars, target, kpc, ktgt, stops, quitVars, histVars>>

BootedUpdate(t) ==
  /\ Goes(t, "booted", "ready")
  /\ UpdateTask(t)
  /\ UNCHANGED <<procVars, target, kpc, ktgt, stops, quitVars, histVars>>

BootedFinish(t) ==
  /\ Goes(t, "ready", "done")
  /\ Finish(t, "ok")
  /\ UNCHANGED <<procVars, target, kpc, ktgt, stops, quitVars, histVars>>

\* Five minutes are over.
BootTimeout(t) ==
  /\ ~ctxDone[t]
  /\ Goes(t, "wait", "failed")
  /\ UNCHANGED <<taskVars, procVars, target, kpc, ktgt, stops, quitVars, histVars>>

\* Mutant: a cancel only ends the wait.
CancelDropsWait(t) ==
  /\ ctxDone[t]
  /\ Goes(t, "wait", "done")
  /\ Finish(t, "cancelled")
  /\ UNCHANGED <<procVars, target, kpc, ktgt, stops, quitVars, histVars>>

\* "The cancel has to reach the emulator": stop it, then finish.
CancelStops(t) ==
  /\ ctxDone[t]
  /\ Goes(t, "wait", "stopping")
  /\ kpc' = [kpc EXCEPT ![t] = "find"]
  /\ UNCHANGED <<taskVars, procVars, target, ktgt, stops, quitVars, histVars>>

CancelFinish(t) ==
  /\ kpc[t] = "off"
  /\ Goes(t, "stopping", "done")
  /\ Finish(t, "cancelled")
  /\ UNCHANGED <<procVars, target, kpc, ktgt, stops, quitVars, histVars>>

-----------------------------------------------------------------------------
(* EmulatorManager.Stop.                                                   *)

StopAVD ==
  /\ quit = "no" /\ stops < MaxStops
  /\ stops' = stops + 1
  /\ kpc[User] = "off"
  /\ kpc' = [kpc EXCEPT ![User] = "find"]
  /\ UNCHANGED <<taskVars, procVars, wpc, target, ktgt, quitVars, histVars>>

Return(k) ==
  /\ kpc' = [kpc EXCEPT ![k] = "off"]
  /\ ktgt' = [ktgt EXCEPT ![k] = 0]

\* Mutant: no error when there is nothing to stop.
StopFindNothing(k) ==
  /\ Lives /\ kpc[k] = "find"
  /\ kpc' = [kpc EXCEPT ![k] = "kill"]
  /\ ktgt' = [ktgt EXCEPT ![k] = procs]
  /\ UNCHANGED <<taskVars, procVars, wpc, target, stops, quitVars, histVars>>

\* Our child, or one adb names for this AVD, or nothing to stop.
StopFind(k) ==
  /\ Lives /\ kpc[k] = "find"
  /\ \/ /\ procs # 0
        /\ kpc' = [kpc EXCEPT ![k] = "kill"]
        /\ ktgt' = [ktgt EXCEPT ![k] = procs]
     \/ /\ procs = 0
        /\ \E c \in Starts :
             /\ child[c] = "up"
             /\ kpc' = [kpc EXCEPT ![k] = "ask"]
             /\ ktgt' = [ktgt EXCEPT ![k] = c]
     \/ procs = 0 /\ Return(k)
  /\ UNCHANGED <<taskVars, procVars, wpc, target, stops, quitVars, histVars>>

\* emu kill: the console closes the emulator, or does not answer.
Asked(c) ==
  \E s \in {child[c]} \cup (IF child[c] = "up" THEN {"closing"} ELSE {}) :
    child' = [child EXCEPT ![c] = s]

\* Mutant: Stop returns once it asked.
StopAskOnly(k) ==
  /\ Lives /\ kpc[k] \in {"kill", "ask"}
  /\ Asked(ktgt[k])
  /\ Return(k)
  /\ UNCHANGED <<taskVars, reap, procs, wpc, target, stops, quitVars, histVars>>

StopAsk(k) ==
  /\ Lives /\ kpc[k] \in {"kill", "ask"}
  /\ Asked(ktgt[k])
  /\ IF kpc[k] = "kill"
       THEN kpc' = [kpc EXCEPT ![k] = "await"] /\ UNCHANGED ktgt
       ELSE Return(k)
  /\ UNCHANGED <<taskVars, reap, procs, wpc, target, stops, quitVars, histVars>>

\* It closed ...
StopDone(k) ==
  /\ Lives /\ kpc[k] = "await"
  /\ reap[ktgt[k]] \in {"closed", "over"}
  /\ Return(k)
  /\ UNCHANGED <<taskVars, procVars, wpc, target, stops, quitVars, histVars>>

\* ... or eight seconds are over: kill it.
StopKill(k) ==
  /\ Lives /\ kpc[k] = "await"
  /\ child' = [child EXCEPT ![ktgt[k]] = IF @ = "down" THEN @ ELSE "killed"]
  /\ Return(k)
  /\ UNCHANGED <<taskVars, reap, procs, wpc, target, stops, quitVars, histVars>>

-----------------------------------------------------------------------------
(* The emulator, the goroutine that waits for it, and shutdown.            *)

\* It exits: because it was told to, crashed, or another holds the AVD.
Exit(c) ==
  /\ Running(c)
  /\ child' = [child EXCEPT ![c] = "down"]
  /\ UNCHANGED <<taskVars, reap, procs, callVars, quitVars, histVars>>

\* cmd.Wait returned: close(proc.done) ...
ReapClose(c) ==
  /\ Lives /\ reap[c] = "run" /\ child[c] = "down"
  /\ reap' = [reap EXCEPT ![c] = "closed"]
  /\ UNCHANGED <<taskVars, child, procs, callVars, quitVars, histVars>>

\* Mutant: the entry is deleted whoever it belongs to.
ReapDeleteAny(c) ==
  /\ Lives /\ reap[c] = "closed"
  /\ reap' = [reap EXCEPT ![c] = "over"]
  /\ procs' = 0
  /\ UNCHANGED <<taskVars, child, callVars, quitVars, histVars>>

\* ... and delete the entry, if it is still this process's.
ReapDelete(c) ==
  /\ Lives /\ reap[c] = "closed"
  /\ reap' = [reap EXCEPT ![c] = "over"]
  /\ procs' = IF procs = c THEN 0 ELSE procs
  /\ UNCHANGED <<taskVars, child, callVars, quitVars, histVars>>

\* shutdown: StopAll takes the map ...
StopAll ==
  /\ quit = "no"
  /\ quit' = "taken"
  /\ qtgt' = procs
  /\ procs' = 0
  /\ late' = (\E t \in Starts : wpc[t] \in {"check", "spawn", "register"})
  /\ UNCHANGED <<taskVars, child, reap, callVars, doubled>>

\* ... asks each emulator to close ...
StopAllAsk ==
  /\ quit = "taken"
  /\ quit' = "asked"
  /\ IF qtgt = 0 THEN UNCHANGED child ELSE Asked(qtgt)
  /\ UNCHANGED <<taskVars, reap, procs, callVars, qtgt, histVars>>

\* Mutant: only asks.
StopAllNoKill ==
  /\ quit = "asked"
  /\ quit' = "over"
  /\ UNCHANGED <<taskVars, procVars, callVars, qtgt, histVars>>

\* ... and kills what is not gone after six seconds.  adbq exits.
StopAllEnd ==
  /\ quit = "asked"
  /\ quit' = "over"
  /\ child' = IF Running(qtgt) THEN [child EXCEPT ![qtgt] = "killed"] ELSE child
  /\ UNCHANGED <<taskVars, reap, procs, callVars, qtgt, histVars>>

\* A step of the task manager or of the tray, which is gone once adbq quits.
TaskOnly == Lives /\ UNCHANGED <<procVars, callVars, quitVars, histVars>>
TrayOnly == quit = "no" /\ TaskOnly

StartStep(t) ==
  \/ Check(t) \/ SpawnFail(t) \/ Spawn(t) \/ Register(t) \/ GraceFail(t) \/ Failed(t)
  \/ Grace(t) \/ Booting(t) \/ BootedUpdate(t) \/ BootedFinish(t)
  \/ CancelStops(t) \/ CancelFinish(t)
WaitStep(t) == Online(t) \/ Booted(t) \/ BootTimeout(t)
StopStep(k) == StopFind(k) \/ StopAsk(k) \/ StopDone(k) \/ StopKill(k)
ReapStep(c) == ReapClose(c) \/ ReapDelete(c)
ShutStep == StopAllAsk \/ StopAllEnd

Next ==
  \/ \E t \in Starts : StartAVD(t) \/ StartStep(t) \/ WaitStep(t) \/ ReapStep(t) \/ Exit(t)
  \/ \E k \in Stoppers : StopStep(k)
  \/ StopAVD \/ StopAll \/ ShutStep
  \/ \E t \in Starts : Emit(t) /\ TaskOnly
  \/ \E t \in Starts : CancelMark(t) /\ TaskOnly
  \/ \E t \in Starts : CancelEmit(t) /\ TaskOnly
  \/ \E t \in Starts : Remove(t) /\ TaskOnly
  \/ \E t \in Starts : Cancel(t) /\ TrayOnly
  \/ \E t \in Starts : Dismiss(t) /\ TrayOnly
  \/ List /\ TrayOnly
  \/ Listed /\ TrayOnly

Spec == Init /\ [][Next]_vars

\* Goroutines run and timers fire.  A killed emulator dies; one that was only asked
\* to close may hang.  Nothing obliges an emulator to boot or a user to act.
Fairness ==
  /\ \A t \in Starts :
       /\ WF_vars(StartStep(t))
       /\ WF_vars(TaskCall(t) /\ TaskOnly)
       /\ WF_vars(ReapStep(t))
       /\ WF_vars(child[t] = "killed" /\ Exit(t))
  /\ \A k \in Stoppers : WF_vars(StopStep(k))
  /\ WF_vars(Listed /\ TrayOnly)
  /\ WF_vars(ShutStep)

FairSpec == Spec /\ Fairness

-----------------------------------------------------------------------------
(* Properties.                                                             *)

WorkStates == {"idle", "check", "spawn", "register", "grace", "wait", "online",
               "failed", "booted", "ready", "stopping", "done"}

ProcTypes ==
  /\ child \in [Starts -> {"none", "up", "closing", "killed", "down"}]
  /\ reap \in [Starts -> {"off", "run", "closed", "over"}]
  /\ procs \in Starts \cup {0}
  /\ wpc \in [Starts -> WorkStates]
  /\ target \in [Starts -> Starts \cup {0}]
  /\ kpc \in [Stoppers -> {"off", "find", "kill", "ask", "await"}]
  /\ ktgt \in [Stoppers -> Starts \cup {0}]
  /\ \A k \in Stoppers : kpc[k] \in {"kill", "ask", "await"} => ktgt[k] # 0
  /\ stops \in 0 .. MaxStops
  /\ quit \in {"no", "taken", "asked", "over"}
  /\ qtgt \in Starts \cup {0}
  /\ doubled \in BOOLEAN /\ late \in BOOLEAN

\* Every variable has its type, and Stop never asks a nil process to close.
TypeOK == TaskTypes /\ ProcTypes

\* "if m.procs[name] == proc": the goroutine of an emulator that exited never
\* drops the entry of its successor, which nobody could stop at shutdown then.
ReapsOwn == [][procs # 0 /\ procs' = 0 /\ quit' = quit => child[procs] = "down"]_vars

\* StopAll exists "so we don't leave orphaned VMs behind": none outlives adbq but
\* one whose entry another start overwrote, or whose start was under way when
\* StopAll took the map.
NoneLeftBehind ==
  quit = "over" => \A c \in Starts : child[c] = "up" => doubled \/ late

\* "A cancelled 'Start ...' task can only mean 'don't start it'": a cancel before
\* the boot is seen takes the emulator down, whoever spawned it.
CancelReaches ==
  \A t \in Starts :
    ctxDone[t] /\ wpc[t] \in {"check", "spawn", "register", "grace", "wait", "online"} ~>
      \/ wpc[t] = "done" /\ ~(target[t] # 0 /\ child[target[t]] = "up")
      \/ doubled \/ quit # "no"

\* When the stop of a cancelled start returns, the emulator it awaited is gone or
\* told to go, though another start spawned it, a third replaced it, or it hangs.
TookDown ==
  \A t \in Starts :
    wpc[t] = "stopping" /\ kpc[t] = "off" =>
      child[target[t]] # "up" \/ doubled \/ quit # "no"

\* The tray never says a task is over that still runs in the manager, whatever
\* copies of the worker and of Cancel overtake one another.
NoFalseEnd == \A t \in Starts : row[t] \in Terminal => status[t] # "running"

\* A task whose worker ended stops spinning in the tray, even when Cancel races
\* the worker's last words; unless the tray's listing was overtaken by an event,
\* or the task was dismissed, which makes the last words unheard.
RowSettles ==
  <>[](\A t \in Starts :
         wpc[t] = "done" /\ status[t] # "none" /\ quit = "no" /\ ~overtaken
         => row[t] # "running")
=============================================================================
