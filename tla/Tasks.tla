-------------------------------- MODULE Tasks --------------------------------
(***************************************************************************)
(* The task manager (internal/adb/tasks.go) and the tray that shows its    *)
(* tasks (frontend/src/tasks.tsx).                                         *)
(*                                                                         *)
(* Every change is made and copied under the lock and emitted after it is  *)
(* released, so a worker's copies and a canceller's reach the page in any  *)
(* order; the tray starts from one listing whose reply may be overtaken by *)
(* events.  Of a task only its status is kept.  The workers are the        *)
(* modules' that extend this one.                                          *)
(***************************************************************************)
EXTENDS Naturals

CONSTANTS
  Starts,     \* tasks, numbered from 1
  Cancelled,  \* bound: the tasks the user may cancel
  MaxLists    \* bound: listings

ASSUME StartsAssumption == Starts \subseteq Nat \ {0}
ASSUME CancelledAssumption == Cancelled \subseteq Starts
ASSUME MaxListsAssumption == MaxLists \in Nat

VARIABLES
  status,     \* TaskManager.tasks: the status of each, "none" if not there
  ctxDone,    \* its context is done
  hand,       \* the copy its worker took and has still to emit
  cpc, chand, \* the same for a call of Cancel, and where it stands
  removing,   \* a call of RemoveTask on its way
  row,        \* what the tray shows
  listing,    \* a snapshot on its way to the tray
  asked,      \* listings the tray asked for: one each time it mounts
  overtaken   \* history: an event was shown while a snapshot was on its way

taskVars == <<status, ctxDone, hand, cpc, chand, removing, row, listing, asked, overtaken>>

Terminal == {"ok", "err", "cancelled"}
Status   == Terminal \cup {"running"}

TaskInit ==
  /\ status = [t \in Starts |-> "none"]
  /\ ctxDone = [t \in Starts |-> FALSE]
  /\ hand = [t \in Starts |-> "none"]
  /\ cpc = [t \in Starts |-> "idle"]
  /\ chand = [t \in Starts |-> "none"]
  /\ removing = [t \in Starts |-> FALSE]
  /\ row = [t \in Starts |-> "none"]
  /\ listing = <<>>
  /\ asked = 0
  /\ overtaken = FALSE

\* task:update reaches the tray, which replaces the row or adds one.
Show(t, s) ==
  /\ row' = [row EXCEPT ![t] = s]
  /\ overtaken' = (overtaken \/ listing # <<>>)

-----------------------------------------------------------------------------
(* What a worker calls; hand[t] is emitted before it goes on.              *)

CreateTask(t) ==
  /\ status' = [status EXCEPT ![t] = "running"]
  /\ hand' = [hand EXCEPT ![t] = "shared"]
  /\ UNCHANGED <<ctxDone, cpc, chand, removing, row, listing, asked, overtaken>>

\* Mutant: the progress update writes the whole state back.
UpdateTaskRevives(t) ==
  /\ status' = [status EXCEPT ![t] = IF @ = "none" THEN @ ELSE "running"]
  /\ hand' = [hand EXCEPT ![t] = status'[t]]
  /\ UNCHANGED <<ctxDone, cpc, chand, removing, row, listing, asked, overtaken>>

\* Update of the detail line: nothing for a task that was removed.
UpdateTask(t) ==
  /\ hand' = [hand EXCEPT ![t] = status[t]]
  /\ UNCHANGED <<status, ctxDone, cpc, chand, removing, row, listing, asked, overtaken>>

\* Mutant: a cancelled task is left alone, and nothing is emitted.
FinishUnlessCancelled(t, s) ==
  /\ IF status[t] = "running"
       THEN /\ status' = [status EXCEPT ![t] = s]
            /\ hand' = [hand EXCEPT ![t] = s]
       ELSE UNCHANGED <<status, hand>>
  /\ UNCHANGED <<ctxDone, cpc, chand, removing, row, listing, asked, overtaken>>

\* Finish: whatever the status was.
Finish(t, s) ==
  /\ IF status[t] # "none"
       THEN /\ status' = [status EXCEPT ![t] = s]
            /\ hand' = [hand EXCEPT ![t] = s]
       ELSE UNCHANGED <<status, hand>>
  /\ UNCHANGED <<ctxDone, cpc, chand, removing, row, listing, asked, overtaken>>

\* What is emitted.  Create emits the task itself and no copy: it may be cancelled
\* by then, and dismissed, by a tray that had it from the listing.
Emitted(t) ==
  CASE hand[t] # "shared" -> hand[t]
    [] hand[t] = "shared" /\ status[t] # "none" -> status[t]
    [] OTHER -> "cancelled"

\* emit, with the lock released.
Emit(t) ==
  /\ hand[t] # "none"
  /\ Show(t, Emitted(t))
  /\ hand' = [hand EXCEPT ![t] = "none"]
  /\ UNCHANGED <<status, ctxDone, cpc, chand, removing, listing, asked>>

-----------------------------------------------------------------------------
(* Cancel, from the row of a running task: fire the context, then mark.    *)

Cancel(t) ==
  /\ t \in Cancelled /\ row[t] = "running" /\ cpc[t] = "idle"
  /\ ctxDone' = [ctxDone EXCEPT ![t] = @ \/ status[t] # "none"]
  /\ cpc' = [cpc EXCEPT ![t] = "mark"]
  /\ UNCHANGED <<status, hand, chand, removing, row, listing, asked, overtaken>>

CancelMark(t) ==
  /\ cpc[t] = "mark"
  /\ IF status[t] # "none"
       THEN /\ status' = [status EXCEPT ![t] = "cancelled"]
            /\ chand' = [chand EXCEPT ![t] = "cancelled"]
            /\ cpc' = [cpc EXCEPT ![t] = "emit"]
       ELSE /\ cpc' = [cpc EXCEPT ![t] = "over"]
            /\ UNCHANGED <<status, chand>>
  /\ UNCHANGED <<ctxDone, hand, removing, row, listing, asked, overtaken>>

CancelEmit(t) ==
  /\ cpc[t] = "emit"
  /\ Show(t, chand[t])
  /\ chand' = [chand EXCEPT ![t] = "none"]
  /\ cpc' = [cpc EXCEPT ![t] = "over"]
  /\ UNCHANGED <<status, ctxDone, hand, removing, listing, asked>>

-----------------------------------------------------------------------------
(* The tray.                                                               *)

\* Dismiss, of a row that does not run: drop it here, tell the backend.
Dismiss(t) ==
  /\ row[t] \in Terminal
  /\ row' = [row EXCEPT ![t] = "none"]
  /\ removing' = [removing EXCEPT ![t] = TRUE]
  /\ UNCHANGED <<status, ctxDone, hand, cpc, chand, listing, asked, overtaken>>

Remove(t) ==
  /\ removing[t]
  /\ removing' = [removing EXCEPT ![t] = FALSE]
  /\ status' = [status EXCEPT ![t] = "none"]
  /\ UNCHANGED <<ctxDone, hand, cpc, chand, row, listing, asked, overtaken>>

\* The tray's listing: taken now, shown when the reply arrives.
List ==
  /\ listing = <<>> /\ asked < MaxLists
  /\ asked' = asked + 1
  /\ listing' = <<status>>
  /\ UNCHANGED <<status, ctxDone, hand, cpc, chand, removing, row, overtaken>>

Listed ==
  /\ listing # <<>>
  /\ row' = listing[1]
  /\ listing' = <<>>
  /\ UNCHANGED <<status, ctxDone, hand, cpc, chand, removing, asked, overtaken>>

TaskCall(t) == Emit(t) \/ CancelMark(t) \/ CancelEmit(t) \/ Remove(t)

TaskTypes ==
  /\ status \in [Starts -> Status \cup {"none"}]
  /\ ctxDone \in [Starts -> BOOLEAN]
  /\ hand \in [Starts -> Status \cup {"none", "shared"}]
  /\ cpc \in [Starts -> {"idle", "mark", "emit", "over"}]
  /\ chand \in [Starts -> {"none", "cancelled"}]
  /\ removing \in [Starts -> BOOLEAN]
  /\ row \in [Starts -> Status \cup {"none"}]
  /\ listing \in {<<>>} \cup {<<s>> : s \in [Starts -> Status \cup {"none"}]}
  /\ asked \in 0 .. MaxLists /\ overtaken \in BOOLEAN
=============================================================================
