-------------------------- MODULE EmulatorsProofs --------------------------
(***************************************************************************)
(* Emulators for any number of starts of an AVD, cancels, listings and     *)
(* stops; the files of an AVD, the listings of images, the folder that is  *)
(* found for an SDK and the trees and stages of the host, for any jobs,    *)
(* crashes, images and folders.  Each is proved of its own component, and  *)
(* a step of MCEmulators is a step of one of them.                         *)
(***************************************************************************)
EXTENDS MCEmulators, Integers, Sequences, FiniteSetTheorems, WellFoundedInduction, TLAPS

-----------------------------------------------------------------------------
(* Types.                                                                  *)

\* Create, Update and Finish of tasks.go, and the emits that follow them.
LEMMA TaskStepTypes ==
  ASSUME TaskTypes, NEW t \in Starts,
         \/ CreateTask(t) \/ UpdateTask(t) \/ \E s \in Terminal : Finish(t, s)
         \/ TaskCall(t) \/ Cancel(t) \/ Dismiss(t)
  PROVE  TaskTypes'
<1> USE DEF TaskTypes, Status, Terminal
<1>1. CASE CreateTask(t) BY <1>1 DEF CreateTask
<1>2. CASE UpdateTask(t) BY <1>2 DEF UpdateTask
<1>3. CASE \E s \in Terminal : Finish(t, s) BY <1>3 DEF Finish
<1>4. CASE Emit(t) BY <1>4 DEF Emit, Show, Emitted
<1>5. CASE CancelMark(t) BY <1>5 DEF CancelMark
<1>6. CASE CancelEmit(t) BY <1>6 DEF CancelEmit, Show
<1>7. CASE Remove(t) BY <1>7 DEF Remove
<1>8. CASE Cancel(t) BY <1>8 DEF Cancel
<1>9. CASE Dismiss(t) BY <1>9 DEF Dismiss
<1> QED BY <1>1, <1>2, <1>3, <1>4, <1>5, <1>6, <1>7, <1>8, <1>9 DEF TaskCall

\* The tray's listing.
LEMMA ListTypes ==
  ASSUME TaskTypes, List \/ Listed
  PROVE  TaskTypes'
<1>1. CASE List
  <2>1. asked' \in 0 .. MaxLists
    BY <1>1, MaxListsAssumption DEF List, TaskTypes
  <2> QED BY <1>1, <2>1 DEF List, TaskTypes
<1>2. CASE Listed
  <2>1. row' \in [Starts -> Status \cup {"none"}]
    BY <1>2 DEF Listed, TaskTypes
  <2> QED BY <1>2, <2>1 DEF Listed, TaskTypes
<1> QED BY <1>1, <1>2

\* The binding, its boot wait and the goroutine that reaps.
LEMMA StartTypes ==
  ASSUME ProcTypes, NEW t \in Starts,
         StartAVD(t) \/ StartStep(t) \/ WaitStep(t) \/ ReapStep(t) \/ Exit(t)
  PROVE  ProcTypes'
<1> USE StartsAssumption DEF ProcTypes, WorkStates, Stoppers, procVars, callVars, quitVars, histVars
<1>1. CASE StartAVD(t) BY <1>1 DEF StartAVD, Goes
<1>2. CASE Check(t) BY <1>2 DEF Check, Goes
<1>3. CASE SpawnFail(t) \/ GraceFail(t) \/ Failed(t)
  BY <1>3 DEF SpawnFail, GraceFail, Failed, Goes
<1>4. CASE Spawn(t) BY <1>4 DEF Spawn, Goes
<1>5. CASE Register(t)
  <2>1. doubled' \in BOOLEAN BY <1>5 DEF Register
  <2> QED BY <1>5, <2>1 DEF Register, Goes
<1>6. CASE Grace(t) \/ Booting(t) \/ BootedUpdate(t) \/ BootedFinish(t)
  BY <1>6 DEF Grace, Booting, BootedUpdate, BootedFinish, Goes
<1>7. CASE CancelStops(t) BY <1>7 DEF CancelStops, Goes
<1>8. CASE CancelFinish(t) BY <1>8 DEF CancelFinish, Goes
<1>9. CASE WaitStep(t) BY <1>9 DEF WaitStep, Online, Booted, BootTimeout, Goes
<1>10. CASE ReapStep(t) BY <1>10 DEF ReapStep, ReapClose, ReapDelete
<1>11. CASE Exit(t) BY <1>11 DEF Exit
<1> QED BY <1>1, <1>2, <1>3, <1>4, <1>5, <1>6, <1>7, <1>8, <1>9, <1>10, <1>11 DEF StartStep

\* emu kill closes an emulator that is up, or does nothing.
LEMMA AskedEffect ==
  ASSUME ProcTypes, NEW c, Asked(c)
  PROVE  child' = child \/ (c \in Starts /\ child[c] = "up" /\ child' = [child EXCEPT ![c] = "closing"])
<1>1. PICK s \in {child[c]} \cup (IF child[c] = "up" THEN {"closing"} ELSE {}) :
        child' = [child EXCEPT ![c] = s]
  BY DEF Asked
<1>2. CASE c \in Starts BY <1>1, <1>2 DEF ProcTypes
<1>3. CASE c \notin Starts BY <1>1, <1>3 DEF ProcTypes
<1> QED BY <1>2, <1>3

\* Stop and StopAll.
LEMMA StopTypes ==
  ASSUME ProcTypes,
         StopAVD \/ StopAll \/ ShutStep \/ \E k \in Stoppers : StopStep(k)
  PROVE  ProcTypes'
<1> USE StartsAssumption DEF ProcTypes, Stoppers, procVars, callVars, quitVars, histVars
<1>1. CASE StopAVD BY <1>1, MaxStopsAssumption DEF StopAVD
<1>2. CASE StopAll
  <2>1. late' \in BOOLEAN BY <1>2 DEF StopAll
  <2> QED BY <1>2, <2>1 DEF StopAll
<1>3. CASE StopAllAsk BY <1>3, AskedEffect DEF StopAllAsk
<1>4. CASE StopAllEnd BY <1>4 DEF StopAllEnd, Running
<1>5. ASSUME NEW k \in Stoppers, StopStep(k) PROVE ProcTypes'
  <2>1. CASE StopFind(k)
    <3>1. UNCHANGED <<procVars, wpc, target, stops, quitVars, histVars>>
      BY <2>1 DEF StopFind
    <3>2. CASE procs # 0 /\ kpc' = [kpc EXCEPT ![k] = "kill"] /\ ktgt' = [ktgt EXCEPT ![k] = procs]
      BY <3>1, <3>2
    <3>3. ASSUME NEW c \in Starts, kpc' = [kpc EXCEPT ![k] = "ask"], ktgt' = [ktgt EXCEPT ![k] = c]
          PROVE  ProcTypes'
      BY <3>1, <3>3
    <3>4. CASE Return(k) BY <3>1, <3>4 DEF Return
    <3> QED BY <2>1, <3>2, <3>3, <3>4 DEF StopFind
  <2>2. CASE StopAsk(k)
    <3>1. child' \in [Starts -> {"none", "up", "closing", "killed", "down"}]
      BY <2>2, AskedEffect DEF StopAsk
    <3>2. UNCHANGED <<reap, procs, wpc, target, stops, quitVars, histVars>>
      BY <2>2 DEF StopAsk
    <3>3. CASE kpc' = [kpc EXCEPT ![k] = "await"] /\ UNCHANGED ktgt
      BY <2>2, <3>1, <3>2, <3>3 DEF StopAsk
    <3>4. CASE Return(k) BY <3>1, <3>2, <3>4 DEF Return
    <3> QED BY <2>2, <3>3, <3>4 DEF StopAsk
  <2>3. CASE StopDone(k) BY <2>3 DEF StopDone, Return
  <2>4. CASE StopKill(k) BY <2>4 DEF StopKill, Return
  <2> QED BY <1>5, <2>1, <2>2, <2>3, <2>4 DEF StopStep
<1> QED BY <1>1, <1>2, <1>3, <1>4, <1>5 DEF ShutStep

TaskStep ==
  /\ TaskOnly
  /\ \/ \E t \in Starts : TaskCall(t) \/ Cancel(t) \/ Dismiss(t)
     \/ List \/ Listed

\* The steps of the program, one group per goroutine.
LEMMA Steps ==
  ASSUME Next
  PROVE  \/ \E t \in Starts : StartAVD(t) \/ StartStep(t) \/ WaitStep(t) \/ ReapStep(t) \/ Exit(t)
         \/ \E k \in Stoppers : StopStep(k)
         \/ StopAVD \/ StopAll \/ ShutStep
         \/ TaskStep
BY DEF Next, TaskStep, TaskCall, TrayOnly

LEMMA TypesStep ==
  ASSUME TypeOK, [Next]_vars
  PROVE  TypeOK'
<1> USE DEF TypeOK
<1>1. ASSUME NEW t \in Starts,
             StartAVD(t) \/ StartStep(t) \/ WaitStep(t) \/ ReapStep(t) \/ Exit(t)
      PROVE  TypeOK'
  <2>1. \/ CreateTask(t) \/ UpdateTask(t) \/ \E s \in Terminal : Finish(t, s)
        \/ UNCHANGED taskVars
    BY <1>1 DEF StartAVD, StartStep, WaitStep, ReapStep, Check, SpawnFail, Spawn, Register,
                GraceFail, Failed, Grace, Booting, BootedUpdate, BootedFinish, CancelStops,
                CancelFinish, Online, Booted, BootTimeout, ReapClose, ReapDelete, Exit, Terminal
  <2>2. TaskTypes' BY <2>1, TaskStepTypes DEF TaskTypes, taskVars
  <2> QED BY <1>1, <2>2, StartTypes
<1>2. CASE StopAVD \/ StopAll \/ ShutStep \/ \E k \in Stoppers : StopStep(k)
  <2>1. UNCHANGED taskVars
    BY <1>2 DEF StopAVD, StopAll, ShutStep, StopAllAsk, StopAllEnd, StopStep, StopFind,
                StopAsk, StopDone, StopKill
  <2> QED BY <1>2, <2>1, StopTypes DEF TaskTypes, taskVars
<1>3. CASE TaskStep
  <2>1. TaskTypes' BY <1>3, TaskStepTypes, ListTypes DEF TaskStep
  <2>2. ProcTypes'
    BY <1>3 DEF TaskStep, TaskOnly, ProcTypes, procVars, callVars, quitVars, histVars
  <2> QED BY <2>1, <2>2
<1>4. CASE UNCHANGED vars
  BY <1>4 DEF vars, taskVars, procVars, callVars, quitVars, histVars, TaskTypes, ProcTypes
<1> QED BY <1>1, <1>2, <1>3, <1>4, Steps

LEMMA InitTypes == Init => TypeOK
<1> SUFFICES ASSUME Init PROVE TypeOK OBVIOUS
<1>1. 0 \in 0 .. MaxLists /\ 0 \in 0 .. MaxStops
  BY MaxListsAssumption, MaxStopsAssumption
<1>2. TaskTypes BY <1>1 DEF Init, TaskInit, TaskTypes, Status, Terminal
<1>3. ProcTypes BY <1>1 DEF Init, ProcTypes, WorkStates
<1> QED BY <1>2, <1>3 DEF TypeOK

-----------------------------------------------------------------------------
(* The inductive invariant.                                                *)

Awaiting == {"grace", "wait", "online", "booted", "ready", "stopping"}

\* A goroutine reaps every emulator from its registration on, and closes done when it
\* is gone (Start, avd_launch.go:344-359); whoever awaits one awaits a registered one.
LifeInv ==
  /\ \A c \in Starts : reap[c] \in {"closed", "over"} => child[c] = "down"
  /\ \A c \in Starts : wpc[c] \in {"idle", "check", "spawn", "register"} => reap[c] = "off"
  /\ procs # 0 => reap[procs] # "off"
  /\ \A t \in Starts : wpc[t] = "register" => target[t] = t
  /\ \A t \in Starts : wpc[t] \in Awaiting => target[t] \in Starts /\ reap[target[t]] # "off"

\* The map holds the emulator that is up, but for races.
MapInv ==
  quit = "no" =>
    \A c \in Starts : child[c] = "up" => procs = c \/ wpc[c] = "register" \/ doubled

\* Once StopAll has the map, no start is on its way but those it did not see.
QuitInv ==
  quit # "no" =>
    /\ ~late => \A t \in Starts : wpc[t] \notin {"check", "spawn", "register"}
    /\ \A c \in Starts : child[c] = "up" => qtgt = c \/ doubled \/ late
    /\ quit = "over" /\ qtgt # 0 => child[qtgt] # "up"

\* The stop of a cancelled start is about to act on the emulator it awaited.
StopInv ==
  \A t \in Starts :
    wpc[t] = "stopping" /\ ~doubled /\ quit = "no" /\ child[target[t]] = "up" =>
      \/ kpc[t] = "find" /\ procs = target[t]
      \/ kpc[t] \in {"kill", "await"} /\ ktgt[t] = target[t]

IInv == TypeOK /\ LifeInv /\ MapInv /\ QuitInv /\ StopInv

\* The steps that spawn nothing, register nothing and reap nothing.
Quiet ==
  \/ StopAVD \/ StopAll \/ ShutStep \/ TaskStep \/ UNCHANGED vars
  \/ \E k \in Stoppers : StopStep(k)
Work(t) == (StartAVD(t) \/ StartStep(t) \/ WaitStep(t)) /\ ~Spawn(t) /\ ~Register(t)
Turn(t) == Spawn(t) \/ Register(t) \/ ReapStep(t) \/ Exit(t)

LEMMA Turns ==
  ASSUME [Next]_vars
  PROVE  Quiet \/ \E t \in Starts : Work(t) \/ Turn(t)
BY Steps DEF Quiet, Work, Turn

LEMMA InitInv == Init => IInv
<1> SUFFICES ASSUME Init PROVE IInv OBVIOUS
<1>1. TypeOK BY InitTypes
<1>2. LifeInv BY DEF Init, LifeInv, Awaiting
<1>3. MapInv /\ QuitInv /\ StopInv BY DEF Init, MapInv, QuitInv, StopInv
<1> QED BY <1>1, <1>2, <1>3 DEF IInv

\* What Stop, StopAll and the tasks do to emulators: they close or kill.
LEMMA StopEffect ==
  ASSUME TypeOK, Quiet
  PROVE  /\ \A c \in Starts : child[c] = "down" => child'[c] = "down"
         /\ \A c \in Starts : child'[c] = "up" => child[c] = "up"
         /\ UNCHANGED <<reap, wpc, target, doubled>>
<1> USE DEF TypeOK, ProcTypes
<1>1. CASE StopAVD \/ StopAll \/ TaskStep \/ UNCHANGED vars
  BY <1>1 DEF StopAVD, StopAll, TaskStep, TaskOnly, vars, procVars, callVars, quitVars, histVars
<1>2. CASE StopAllAsk
  BY <1>2, AskedEffect DEF StopAllAsk, callVars, histVars
<1>3. CASE StopAllEnd
  BY <1>3 DEF StopAllEnd, Running, callVars, histVars
<1>4. ASSUME NEW k \in Stoppers, StopFind(k) \/ StopDone(k)
      PROVE  UNCHANGED <<child, reap, wpc, target, doubled>>
  BY <1>4 DEF StopFind, StopDone, procVars, histVars
<1>5. ASSUME NEW k \in Stoppers, StopAsk(k)
      PROVE  /\ \A c \in Starts : child[c] = "down" => child'[c] = "down"
             /\ \A c \in Starts : child'[c] = "up" => child[c] = "up"
             /\ UNCHANGED <<reap, wpc, target, doubled>>
  <2>1. child' = child \/ (ktgt[k] \in Starts /\ child[ktgt[k]] = "up"
                           /\ child' = [child EXCEPT ![ktgt[k]] = "closing"])
    BY <1>5, AskedEffect DEF StopAsk
  <2>2. UNCHANGED <<reap, wpc, target, doubled>> BY <1>5 DEF StopAsk, histVars
  <2> QED BY <2>1, <2>2
<1>6. ASSUME NEW k \in Stoppers, StopKill(k)
      PROVE  /\ \A c \in Starts : child[c] = "down" => child'[c] = "down"
             /\ \A c \in Starts : child'[c] = "up" => child[c] = "up"
             /\ UNCHANGED <<reap, wpc, target, doubled>>
  BY <1>6 DEF StopKill, histVars
<1> QED BY <1>1, <1>2, <1>3, <1>4, <1>5, <1>6 DEF Quiet, ShutStep, StopStep

\* The map itself: only StopAll takes it.
LEMMA MapEffect ==
  ASSUME Quiet
  PROVE  \/ procs' = procs /\ (quit' = "no" <=> quit = "no") /\ UNCHANGED <<late, qtgt>>
         \/ StopAll
BY DEF Quiet, StopAVD, ShutStep, StopAllAsk, StopAllEnd, TaskStep, TaskOnly, StopStep, StopFind,
       StopAsk, StopDone, StopKill, vars, procVars, quitVars, histVars

\* What a start's steps leave alone, but for Spawn, Register and CancelStops.
LEMMA WorkEffect ==
  ASSUME TypeOK, NEW t \in Starts, Work(t)
  PROVE  /\ UNCHANGED <<child, reap, procs, quit, qtgt, doubled, late, ktgt>>
         /\ wpc' = [wpc EXCEPT ![t] = wpc'[t]] /\ wpc'[t] # "register" /\ wpc[t] # "register"
         /\ wpc[t] = "stopping" => wpc'[t] = "done"
         /\ wpc'[t] = "stopping" => CancelStops(t)
         /\ CancelStops(t) \/ kpc' = kpc
         /\ wpc'[t] \in {"idle", "check", "spawn"} => wpc[t] \in {"idle", "check"}
         /\ quit # "no" => wpc[t] # "idle"
         /\ quit # "no" /\ wpc'[t] \in {"check", "spawn"} => wpc[t] \in {"check", "spawn"}
         /\ wpc'[t] \in Awaiting =>
              \/ wpc[t] \in Awaiting /\ target' = target
              \/ Alive(procs) /\ target' = [target EXCEPT ![t] = procs]
         /\ \A u \in Starts \ {t} : target'[u] = target[u]
<1> USE DEF TypeOK, ProcTypes, WorkStates, Goes, procVars, quitVars, histVars, Awaiting
<1>1. CASE StartAVD(t) BY <1>1 DEF StartAVD, CancelStops
<1>2. CASE Check(t)
  <2>1. UNCHANGED <<child, reap, procs, quit, qtgt, doubled, late, ktgt, kpc>>
    BY <1>2 DEF Check
  <2>2. CASE Alive(procs) BY <1>2, <2>1, <2>2 DEF Check, CancelStops
  <2>3. CASE ~Alive(procs) BY <1>2, <2>1, <2>3 DEF Check, CancelStops
  <2> QED BY <2>2, <2>3
<1>3. CASE SpawnFail(t) \/ GraceFail(t) \/ Failed(t)
  BY <1>3 DEF SpawnFail, GraceFail, Failed, CancelStops
<1>4. CASE Grace(t) \/ Booting(t) \/ BootedUpdate(t) \/ BootedFinish(t)
  BY <1>4 DEF Grace, Booting, BootedUpdate, BootedFinish, CancelStops
<1>5. CASE CancelStops(t) BY <1>5 DEF CancelStops
<1>6. CASE CancelFinish(t) BY <1>6 DEF CancelFinish, CancelStops
<1>7. CASE WaitStep(t) BY <1>7 DEF WaitStep, Online, Booted, BootTimeout, CancelStops
<1> QED BY <1>1, <1>2, <1>3, <1>4, <1>5, <1>6, <1>7 DEF Work, StartStep

LEMMA LifeStep ==
  ASSUME TypeOK, LifeInv, [Next]_vars
  PROVE  LifeInv'
<1> USE StartsAssumption DEF TypeOK, ProcTypes, LifeInv, Awaiting
<1>1. CASE Quiet
  <2>1. procs' = procs \/ procs' = 0 BY <1>1, MapEffect DEF StopAll
  <2> QED BY <1>1, <2>1, StopEffect
<1>2. ASSUME NEW t \in Starts, Work(t) PROVE LifeInv'
  <2>1. UNCHANGED <<child, reap, procs>> BY <1>2, WorkEffect
  <2>2. \A u \in Starts \ {t} : wpc'[u] = wpc[u] /\ target'[u] = target[u]
    BY <1>2, WorkEffect
  <2>3. wpc'[t] \in {"idle", "check", "spawn", "register"} => reap[t] = "off"
    BY <1>2, WorkEffect
  <2>4. wpc'[t] # "register" BY <1>2, WorkEffect
  <2>5. wpc'[t] \in Awaiting => target'[t] \in Starts /\ reap[target'[t]] # "off"
    BY <1>2, WorkEffect DEF Alive
  <2> QED BY <2>1, <2>2, <2>3, <2>4, <2>5
<1>3. ASSUME NEW t \in Starts, Spawn(t) PROVE LifeInv'
  BY <1>3 DEF Spawn, Goes
<1>4. ASSUME NEW t \in Starts, Register(t) PROVE LifeInv'
  BY <1>4 DEF Register, Goes
<1>5. ASSUME NEW t \in Starts, ReapStep(t) PROVE LifeInv'
  <2>1. UNCHANGED <<child, wpc, target>> BY <1>5 DEF ReapStep, ReapClose, ReapDelete, callVars
  <2>2. child[t] = "down" BY <1>5 DEF ReapStep, ReapClose, ReapDelete
  <2>3. procs' = procs \/ procs' = 0 BY <1>5 DEF ReapStep, ReapClose, ReapDelete
  <2>4. PICK s \in {"closed", "over"} : reap' = [reap EXCEPT ![t] = s] /\ reap[t] # "off"
    BY <1>5 DEF ReapStep, ReapClose, ReapDelete
  <2>5. \A c \in Starts : (reap'[c] = "off" <=> reap[c] = "off") /\ (c # t => reap'[c] = reap[c])
    BY <2>4
  <2> QED BY <2>1, <2>2, <2>3, <2>5
<1>6. ASSUME NEW t \in Starts, Exit(t) PROVE LifeInv'
  BY <1>6 DEF Exit, callVars
<1> QED BY <1>1, <1>2, <1>3, <1>4, <1>5, <1>6, Turns DEF Turn

LEMMA MapStep ==
  ASSUME TypeOK, LifeInv, MapInv, [Next]_vars
  PROVE  MapInv'
<1> USE StartsAssumption DEF TypeOK, ProcTypes, MapInv
<1>1. CASE Quiet
  <2>1. CASE StopAll BY <2>1 DEF StopAll
  <2>2. CASE ~StopAll BY <1>1, <2>2, MapEffect, StopEffect
  <2> QED BY <2>1, <2>2
<1>2. ASSUME NEW t \in Starts, Work(t) PROVE MapInv'
  <2>1. UNCHANGED <<child, procs, quit, doubled>> BY <1>2, WorkEffect
  <2>2. \A u \in Starts : wpc[u] = "register" => wpc'[u] = "register" BY <1>2, WorkEffect
  <2> QED BY <2>1, <2>2
<1>3. ASSUME NEW t \in Starts, Spawn(t) PROVE MapInv'
  BY <1>3 DEF Spawn, Goes, quitVars, histVars
<1>4. ASSUME NEW t \in Starts, Register(t) PROVE MapInv'
  BY <1>4 DEF Register, Goes, Running, quitVars
<1>5. ASSUME NEW t \in Starts, ReapStep(t) PROVE MapInv'
  BY <1>5 DEF ReapStep, ReapClose, ReapDelete, LifeInv, callVars, quitVars, histVars
<1>6. ASSUME NEW t \in Starts, Exit(t) PROVE MapInv'
  BY <1>6 DEF Exit, callVars, quitVars, histVars
<1> QED BY <1>1, <1>2, <1>3, <1>4, <1>5, <1>6, Turns DEF Turn

LEMMA QuitStep ==
  ASSUME TypeOK, MapInv, QuitInv, [Next]_vars
  PROVE  QuitInv'
<1> USE StartsAssumption DEF TypeOK, ProcTypes, QuitInv
<1>1. CASE Quiet
  <2>1. CASE StopAll
    <3>1. UNCHANGED <<child, wpc, doubled>> /\ quit = "no" /\ qtgt' = procs /\ quit' = "taken"
      BY <2>1 DEF StopAll, callVars
    <3>2. ~late' => \A t \in Starts : wpc[t] \notin {"check", "spawn", "register"}
      BY <2>1 DEF StopAll
    <3> QED BY <3>1, <3>2 DEF MapInv
  <2>2. CASE ~StopAll
    <3>1. /\ procs' = procs /\ (quit' = "no" <=> quit = "no") /\ UNCHANGED <<late, qtgt>>
          /\ UNCHANGED <<wpc, doubled>> /\ \A c \in Starts : child'[c] = "up" => child[c] = "up"
      BY <1>1, <2>2, MapEffect, StopEffect
    <3>2. quit' = "over" /\ qtgt # 0 => child'[qtgt] # "up"
      <4>1. CASE StopAllEnd BY <4>1 DEF StopAllEnd, Running
      <4>2. CASE ~StopAllEnd
        <5>1. quit' = "over" => quit = "over"
          BY <1>1, <2>2, <4>2 DEF Quiet, StopAVD, ShutStep, StopAllAsk, TaskStep, TaskOnly, StopStep,
             StopFind, StopAsk, StopDone, StopKill, vars, quitVars
        <5> QED BY <3>1, <5>1
      <4> QED BY <4>1, <4>2
    <3> QED BY <3>1, <3>2
  <2> QED BY <2>1, <2>2
<1>2. ASSUME NEW t \in Starts, Work(t) PROVE QuitInv'
  <2>1. UNCHANGED <<child, quit, qtgt, doubled, late>> BY <1>2, WorkEffect
  <2>2. \A u \in Starts \ {t} : wpc'[u] = wpc[u] BY <1>2, WorkEffect
  <2>3. quit # "no" /\ wpc'[t] \in {"check", "spawn", "register"} => wpc[t] \in {"check", "spawn"}
    BY <1>2, WorkEffect
  <2> QED BY <2>1, <2>2, <2>3
<1>3. ASSUME NEW t \in Starts, Spawn(t) PROVE QuitInv'
  BY <1>3 DEF Spawn, Goes, Lives, quitVars, histVars
<1>4. ASSUME NEW t \in Starts, Register(t) PROVE QuitInv'
  <2>1. doubled => doubled' BY <1>4 DEF Register
  <2> QED BY <1>4, <2>1 DEF Register, Goes, quitVars
<1>5. ASSUME NEW t \in Starts, ReapStep(t) PROVE QuitInv'
  BY <1>5 DEF ReapStep, ReapClose, ReapDelete, callVars, quitVars, histVars
<1>6. ASSUME NEW t \in Starts, Exit(t) PROVE QuitInv'
  BY <1>6 DEF Exit, callVars, quitVars, histVars
<1> QED BY <1>1, <1>2, <1>3, <1>4, <1>5, <1>6, Turns DEF Turn

\* The stop that a cancelled start calls, step by step.
LEMMA StopCallStep ==
  ASSUME TypeOK, LifeInv, StopInv, NEW k \in Stoppers, StopStep(k)
  PROVE  StopInv'
<1> USE UserAssumption DEF TypeOK, ProcTypes, StopInv, Stoppers
<1>1. /\ UNCHANGED <<reap, wpc, target, doubled, procs, quit>>
      /\ \A c \in Starts : child'[c] = "up" => child[c] = "up"
  <2>1. Quiet BY DEF Quiet
  <2> QED BY <2>1, StopEffect DEF StopStep, StopFind, StopAsk, StopDone, StopKill, procVars, quitVars
<1>2. \A t \in Starts \ {k} : kpc'[t] = kpc[t] /\ ktgt'[t] = ktgt[t]
  BY DEF StopStep, StopFind, StopAsk, StopDone, StopKill, Return
<1>3. SUFFICES ASSUME k \in Starts, wpc[k] = "stopping", ~doubled, quit = "no", child'[target[k]] = "up"
      PROVE  \/ kpc'[k] = "find" /\ procs = target[k]
             \/ kpc'[k] \in {"kill", "await"} /\ ktgt'[k] = target[k]
  <2>1. \A t \in Starts : wpc[t] = "stopping" => target[t] \in Starts
    BY DEF LifeInv, Awaiting
  <2> QED BY <1>1, <1>2, <2>1
<1>4. target[k] \in Starts /\ target[k] # 0 /\ child[target[k]] = "up"
  BY <1>1, <1>3, StartsAssumption DEF LifeInv, Awaiting
<1>5. CASE StopFind(k)
  BY <1>3, <1>4, <1>5 DEF StopFind, Return
<1>6. CASE StopAsk(k)
  BY <1>3, <1>4, <1>6 DEF StopAsk, Return
<1>7. CASE StopDone(k)
  BY <1>3, <1>4, <1>7 DEF StopDone, LifeInv
<1>8. CASE StopKill(k)
  BY <1>3, <1>4, <1>8 DEF StopKill
<1> QED BY <1>5, <1>6, <1>7, <1>8 DEF StopStep

LEMMA StopInvStep ==
  ASSUME TypeOK, LifeInv, MapInv, StopInv, [Next]_vars
  PROVE  StopInv'
<1> USE StartsAssumption DEF TypeOK, ProcTypes, StopInv
<1>1. \A t \in Starts : wpc[t] = "stopping" => target[t] \in Starts /\ reap[target[t]] # "off"
  BY DEF LifeInv, Awaiting
<1>2. CASE Quiet
  <2>1. CASE StopAll BY <2>1 DEF StopAll
  <2>2. CASE \E k \in Stoppers : StopStep(k) BY <2>2, StopCallStep
  <2>3. CASE StopAVD \/ ShutStep \/ TaskStep \/ UNCHANGED vars
    <3>1. \A t \in Starts : kpc'[t] = kpc[t] /\ ktgt'[t] = ktgt[t]
      BY <2>3, UserAssumption DEF StopAVD, ShutStep, StopAllAsk, StopAllEnd, TaskStep, TaskOnly, vars,
         callVars, Stoppers
    <3>2. procs' = procs /\ (quit' = "no" <=> quit = "no")
      BY <2>3 DEF StopAVD, ShutStep, StopAllAsk, StopAllEnd, TaskStep, TaskOnly, vars, procVars, quitVars
    <3>3. /\ \A c \in Starts : child'[c] = "up" => child[c] = "up"
          /\ UNCHANGED <<wpc, target, doubled>>
      BY <1>2, StopEffect
    <3> QED BY <1>1, <3>1, <3>2, <3>3, ZenonT(40)
  <2> QED BY <1>2, <2>1, <2>2, <2>3 DEF Quiet
<1>3. ASSUME NEW t \in Starts, Work(t) PROVE StopInv'
  <2>1. UNCHANGED <<child, reap, procs, quit, doubled, ktgt>> BY <1>3, WorkEffect
  <2>2. \A u \in Starts \ {t} : wpc'[u] = wpc[u] /\ target'[u] = target[u] BY <1>3, WorkEffect
  <2>3. CASE CancelStops(t)
    <3>1. wpc[t] = "wait" /\ target' = target /\ kpc' = [kpc EXCEPT ![t] = "find"]
      BY <2>3 DEF CancelStops, Goes
    <3>2. target[t] \in Starts /\ reap[target[t]] # "off" BY <3>1 DEF LifeInv, Awaiting
    <3>3. wpc[target[t]] # "register" BY <3>2 DEF LifeInv
    <3>4. quit = "no" /\ child[target[t]] = "up" => procs = target[t] \/ doubled
      BY <3>2, <3>3 DEF MapInv
    <3> QED BY <2>1, <2>2, <3>1, <3>4 DEF Stoppers
  <2>4. CASE ~CancelStops(t)
    <3>1. kpc' = kpc /\ wpc'[t] # "stopping" BY <1>3, <2>4, WorkEffect
    <3> QED BY <2>1, <2>2, <3>1
  <2> QED BY <2>3, <2>4
<1>4. ASSUME NEW t \in Starts, Spawn(t) PROVE StopInv'
  <2>1. wpc[t] = "spawn" /\ wpc' = [wpc EXCEPT ![t] = "register"] BY <1>4 DEF Spawn, Goes
  <2>2. UNCHANGED <<procs, kpc, ktgt, quit, doubled>> BY <1>4 DEF Spawn, quitVars, histVars
  <2>3. reap[t] = "off" BY <2>1 DEF LifeInv
  <2>4. \A u \in Starts : wpc'[u] = "stopping" =>
          /\ wpc[u] = "stopping" /\ target'[u] = target[u]
          /\ child'[target[u]] = child[target[u]]
    BY <1>1, <1>4, <2>1, <2>3 DEF Spawn
  <2> QED BY <2>2, <2>4
<1>5. ASSUME NEW t \in Starts, Register(t) PROVE StopInv'
  <2>1. UNCHANGED <<child, target, kpc, ktgt, quit>> /\ procs' = t BY <1>5 DEF Register, quitVars
  <2>2. \A u \in Starts : wpc'[u] = "stopping" => wpc[u] = "stopping" BY <1>5 DEF Register, Goes
  <2>3. procs \in Starts /\ child[procs] = "up" => doubled' BY <1>5 DEF Register, Running
  <2>4. doubled => doubled' BY <1>5 DEF Register
  <2> QED BY <1>1, <2>1, <2>2, <2>3, <2>4
<1>6. ASSUME NEW t \in Starts, ReapStep(t) PROVE StopInv'
  <2>1. UNCHANGED <<child, callVars, quit, doubled>>
    BY <1>6 DEF ReapStep, ReapClose, ReapDelete, quitVars, histVars
  <2>2. procs' = procs \/ procs = t BY <1>6 DEF ReapStep, ReapClose, ReapDelete
  <2>3. child[t] = "down" BY <1>6 DEF ReapStep, ReapClose, ReapDelete, LifeInv
  <2> QED BY <1>1, <2>1, <2>2, <2>3 DEF callVars
<1>7. ASSUME NEW t \in Starts, Exit(t) PROVE StopInv'
  BY <1>1, <1>7 DEF Exit, callVars, quitVars, histVars
<1> QED BY <1>2, <1>3, <1>4, <1>5, <1>6, <1>7, Turns DEF Turn

LEMMA Inductive == IInv /\ [Next]_vars => IInv'
BY TypesStep, LifeStep, MapStep, QuitStep, StopInvStep DEF IInv

LEMMA Invariant == Spec => []IInv
<1>1. IInv /\ [Next]_vars => IInv' BY Inductive
<1> QED BY InitInv, <1>1, PTL DEF Spec

-----------------------------------------------------------------------------
(* What the tray is told of a task.                                        *)

\* The tray shows that the task ended, or may still be told so without a change of it.
SaidOver(t) ==
  \/ hand[t] \in Terminal \/ chand[t] \in Terminal \/ row[t] \in Terminal
  \/ listing # <<>> /\ listing[1][t] \in Terminal
Unheard(t) ==
  /\ status[t] = "none" /\ hand[t] = "none" /\ chand[t] = "none" /\ row[t] = "none"
  /\ listing # <<>> => listing[1][t] = "none"

\* Nobody says that a running task ended, and nobody heard of one not created yet:
\* a task runs from Create on, and nothing makes it run again (tasks.go:39-114).
RowOf(t) ==
  /\ SaidOver(t) => status[t] # "running"
  /\ wpc[t] = "idle" => Unheard(t)
RowInv == \A t \in Starts : RowOf(t)

LEMMA InitRow == Init => RowInv
<1> SUFFICES ASSUME Init, NEW t \in Starts PROVE RowOf(t) BY DEF RowInv
<1>1. /\ status[t] = "none" /\ hand[t] = "none" /\ chand[t] = "none" /\ row[t] = "none"
      /\ listing = <<>>
  BY DEF Init, TaskInit
<1> QED BY <1>1 DEF RowOf, SaidOver, Unheard, Terminal

\* What a start's step does to its task.
LEMMA WorkerCalls ==
  ASSUME TypeOK, NEW t \in Starts,
         StartAVD(t) \/ StartStep(t) \/ WaitStep(t) \/ ReapStep(t) \/ Exit(t)
  PROVE  \/ CreateTask(t) /\ wpc[t] = "idle" /\ wpc' = [wpc EXCEPT ![t] = "check"]
         \/ /\ UpdateTask(t) \/ (\E s \in Terminal : Finish(t, s)) \/ UNCHANGED taskVars
            /\ \A u \in Starts : wpc'[u] = "idle" => wpc[u] = "idle"
            /\ wpc'[t] # "idle" \/ UNCHANGED taskVars
<1> USE DEF TypeOK, ProcTypes, Goes, Terminal
<1>1. CASE StartAVD(t) BY <1>1 DEF StartAVD
<1>2. CASE Check(t) BY <1>2 DEF Check
<1>3. CASE SpawnFail(t) \/ Spawn(t) \/ Register(t) \/ GraceFail(t)
  BY <1>3 DEF SpawnFail, Spawn, Register, GraceFail
<1>4. CASE Failed(t) \/ BootedFinish(t) \/ CancelFinish(t)
  BY <1>4 DEF Failed, BootedFinish, CancelFinish
<1>5. CASE Grace(t) \/ Booting(t) \/ BootedUpdate(t)
  BY <1>5 DEF Grace, Booting, BootedUpdate
<1>6. CASE CancelStops(t) BY <1>6 DEF CancelStops
<1>7. CASE WaitStep(t) BY <1>7 DEF WaitStep, Online, Booted, BootTimeout
<1>8. CASE ReapStep(t) \/ Exit(t)
  BY <1>8 DEF ReapStep, ReapClose, ReapDelete, Exit, callVars
<1> QED BY <1>1, <1>2, <1>3, <1>4, <1>5, <1>6, <1>7, <1>8 DEF StartStep

\* A step about one task leaves what is said of the others.
LEMMA OneTask ==
  ASSUME RowInv, NEW t \in Starts, RowOf(t)', listing' = listing,
         \A u \in Starts \ {t} :
           /\ status'[u] = status[u] /\ hand'[u] = hand[u] /\ chand'[u] = chand[u] /\ row'[u] = row[u]
           /\ wpc'[u] = "idle" => wpc[u] = "idle"
  PROVE  RowInv'
<1> SUFFICES ASSUME NEW u \in Starts \ {t} PROVE RowOf(u)' BY DEF RowInv
<1> QED BY DEF RowInv, RowOf, SaidOver, Unheard

\* Create, Update and Finish, by a start that is under way.
LEMMA WorkerRow ==
  ASSUME TypeOK, RowInv, NEW t \in Starts,
         StartAVD(t) \/ StartStep(t) \/ WaitStep(t) \/ ReapStep(t) \/ Exit(t)
  PROVE  RowInv'
<1> USE DEF TypeOK, TaskTypes, ProcTypes, RowOf, SaidOver, Unheard, Terminal, Status
<1>1. RowOf(t) BY DEF RowInv
<1>2. CASE CreateTask(t) /\ wpc[t] = "idle" /\ wpc' = [wpc EXCEPT ![t] = "check"]
  <2>1. RowOf(t)' BY <1>1, <1>2 DEF CreateTask
  <2> QED BY <1>2, <2>1, OneTask DEF CreateTask
<1>3. ASSUME \A u \in Starts : wpc'[u] = "idle" => wpc[u] = "idle",
             wpc'[t] # "idle", UpdateTask(t)
      PROVE  RowInv'
  <2>1. RowOf(t)' BY <1>1, <1>3 DEF UpdateTask
  <2> QED BY <1>3, <2>1, OneTask DEF UpdateTask
<1>4. ASSUME \A u \in Starts : wpc'[u] = "idle" => wpc[u] = "idle",
             wpc'[t] # "idle", NEW s \in Terminal, Finish(t, s)
      PROVE  RowInv'
  <2>1. RowOf(t)' BY <1>1, <1>4 DEF Finish
  <2> QED BY <1>4, <2>1, OneTask DEF Finish
<1>5. ASSUME \A u \in Starts : wpc'[u] = "idle" => wpc[u] = "idle", UNCHANGED taskVars
      PROVE  RowInv'
  BY <1>5 DEF taskVars, RowInv
<1> QED BY <1>2, <1>3, <1>4, <1>5, WorkerCalls

\* The emits, Cancel, Remove and the tray.
LEMMA TrayRow ==
  ASSUME TypeOK, RowInv, TaskStep
  PROVE  RowInv'
<1> USE DEF TypeOK, TaskTypes, Terminal, Status
<1>1. wpc' = wpc BY DEF TaskStep, TaskOnly, callVars
<1>2. ASSUME NEW t \in Starts,
             Emit(t) \/ CancelMark(t) \/ CancelEmit(t) \/ Remove(t) \/ Cancel(t) \/ Dismiss(t)
      PROVE  RowInv'
  <2> USE DEF RowOf, SaidOver, Unheard
  <2>1. RowOf(t) BY DEF RowInv
  <2>2. CASE Emit(t)
    <3>1. status[t] = "running" => Emitted(t) \notin Terminal BY <2>1, <2>2 DEF Emit, Emitted
    <3>2. wpc[t] # "idle" BY <2>1, <2>2 DEF Emit
    <3>3. RowOf(t)' BY <1>1, <2>1, <2>2, <3>1, <3>2 DEF Emit, Show
    <3> QED BY <1>1, <2>2, <3>3, OneTask DEF Emit, Show
  <2>3. CASE CancelMark(t)
    <3>1. RowOf(t)' BY <1>1, <2>1, <2>3 DEF CancelMark
    <3> QED BY <1>1, <2>3, <3>1, OneTask DEF CancelMark
  <2>4. CASE CancelEmit(t)
    <3>1. RowOf(t)' BY <1>1, <2>1, <2>4 DEF CancelEmit, Show
    <3> QED BY <1>1, <2>4, <3>1, OneTask DEF CancelEmit, Show
  <2>5. CASE Remove(t)
    <3>1. RowOf(t)' BY <1>1, <2>1, <2>5 DEF Remove
    <3> QED BY <1>1, <2>5, <3>1, OneTask DEF Remove
  <2>6. CASE Cancel(t)
    <3>1. RowOf(t)' BY <1>1, <2>1, <2>6 DEF Cancel
    <3> QED BY <1>1, <2>6, <3>1, OneTask DEF Cancel
  <2>7. CASE Dismiss(t)
    <3>1. RowOf(t)' BY <1>1, <2>1, <2>7 DEF Dismiss
    <3> QED BY <1>1, <2>7, <3>1, OneTask DEF Dismiss
  <2> QED BY <1>2, <2>2, <2>3, <2>4, <2>5, <2>6, <2>7
<1>3. CASE List
  <2>1. /\ listing' # <<>> /\ listing'[1] = status
        /\ UNCHANGED <<status, hand, chand, row>>
    BY <1>3 DEF List
  <2> QED BY <1>1, <2>1 DEF RowInv, RowOf, SaidOver, Unheard
<1>4. CASE Listed
  <2>1. listing # <<>> /\ listing' = <<>> /\ row' = listing[1] /\ UNCHANGED <<status, hand, chand>>
    BY <1>4 DEF Listed
  <2> QED BY <1>1, <2>1 DEF RowInv, RowOf, SaidOver, Unheard
<1> QED BY <1>2, <1>3, <1>4 DEF TaskStep, TaskCall

LEMMA RowStep ==
  ASSUME TypeOK, RowInv, [Next]_vars
  PROVE  RowInv'
<1> USE DEF RowInv, RowOf, SaidOver, Unheard
<1>1. CASE \E t \in Starts : StartAVD(t) \/ StartStep(t) \/ WaitStep(t) \/ ReapStep(t) \/ Exit(t)
  BY <1>1, WorkerRow
<1>2. CASE StopAVD \/ StopAll \/ ShutStep \/ \E k \in Stoppers : StopStep(k)
  <2>1. UNCHANGED taskVars /\ wpc' = wpc
    BY <1>2 DEF StopAVD, StopAll, ShutStep, StopAllAsk, StopAllEnd, StopStep, StopFind,
                StopAsk, StopDone, StopKill, callVars
  <2> QED BY <2>1 DEF taskVars
<1>3. CASE TaskStep BY <1>3, TrayRow
<1>4. CASE UNCHANGED vars BY <1>4 DEF vars, taskVars, callVars
<1> QED BY <1>1, <1>2, <1>3, <1>4, Steps

-----------------------------------------------------------------------------
(* What follows.                                                           *)

\* Every variable has its type, and Stop never asks a nil process to close
\* (Stop, avd_launch.go:415-453).
THEOREM TypeCorrect == Spec => []TypeOK
<1>1. IInv => TypeOK BY DEF IInv
<1> QED BY Invariant, <1>1, PTL

\* An emulator that is up when adbq is gone is one whose entry another start
\* overwrote or whose start StopAll did not see (StopAll, avd_launch.go:466-496).
THEOREM NoneLeft == Spec => []NoneLeftBehind
<1>1. IInv => NoneLeftBehind
  <2> SUFFICES ASSUME IInv PROVE NoneLeftBehind OBVIOUS
  <2> QED BY StartsAssumption DEF IInv, QuitInv, NoneLeftBehind
<1> QED BY Invariant, <1>1, PTL

\* When the stop of a cancelled start returns, the emulator it awaited was told to
\* go, unless another start hid it (StartAVD, app.go:299-312; Stop).
THEOREM CancelTakesDown == Spec => []TookDown
<1>1. IInv => TookDown
  <2> SUFFICES ASSUME IInv PROVE TookDown OBVIOUS
  <2> QED BY DEF IInv, StopInv, TookDown
<1> QED BY Invariant, <1>1, PTL

\* The tray never says that a task ended which still runs, in whatever order the
\* copies of its worker, of Cancel and of the listing reach it (tasks.go:51-114,
\* tasks.tsx:18-45).
THEOREM RowTrue == Spec => []NoFalseEnd
<1>1. Init => TypeOK /\ RowInv BY InitTypes, InitRow
<1>2. TypeOK /\ RowInv /\ [Next]_vars => (TypeOK /\ RowInv)' BY TypesStep, RowStep
<1>3. RowInv => NoFalseEnd BY DEF RowInv, RowOf, SaidOver, NoFalseEnd
<1> QED BY <1>1, <1>2, <1>3, PTL DEF Spec

\* Only the goroutine of the emulator whose entry it is deletes it, and only when it
\* is gone (Start, avd_launch.go:351-358).
THEOREM OwnEntry == Spec => ReapsOwn
<1>1. IInv /\ [Next]_vars => [procs # 0 /\ procs' = 0 /\ quit' = quit => child[procs] = "down"]_vars
  <2> SUFFICES ASSUME IInv, [Next]_vars, procs # 0, procs' = 0, quit' = quit
               PROVE  child[procs] = "down"
    OBVIOUS
  <2> USE DEF IInv, LifeInv
  <2>1. CASE Quiet BY <2>1, MapEffect DEF StopAll
  <2>2. ASSUME NEW t \in Starts, Work(t) PROVE FALSE BY <2>2, WorkEffect
  <2>3. ASSUME NEW t \in Starts, Turn(t) PROVE child[procs] = "down"
    BY <2>3, StartsAssumption DEF Turn, Spawn, Register, ReapStep, ReapClose, ReapDelete, Exit
  <2> QED BY <2>1, <2>2, <2>3, Turns
<1> QED BY Invariant, <1>1, PTL DEF Spec, ReapsOwn

-----------------------------------------------------------------------------
(* The files of an AVD: a config is whole, and an edit is shown.            *)

Keys == {"ram", "cores", "gpu", "width", "height", "density", "keyboard", "gpuOn", "sysdir"}
IsConfig(kv) == kv = [k \in Keys |-> kv[k]]

LEMMA MergedIs ==
  ASSUME NEW kv, IsConfig(kv), NEW c, DOMAIN c \subseteq Keys
  PROVE  /\ IsConfig(Avd!Merged(kv, c))
         /\ \A k \in Keys : Avd!Merged(kv, c)[k] = IF k \in DOMAIN c THEN c[k] ELSE kv[k]
<1>1. PICK m : m = Avd!Merged(kv, c) OBVIOUS
<1>2. DOMAIN kv = Keys BY DEF IsConfig
<1>3. DOMAIN kv \cup DOMAIN c = Keys BY <1>2
<1>4. m = [k \in Keys |-> IF k \in DOMAIN c THEN c[k] ELSE kv[k]] BY <1>1, <1>3 DEF Avd!Merged
<1>5. m = [k \in Keys |-> m[k]] BY <1>4
<1> QED BY <1>1, <1>4, <1>5 DEF IsConfig

LEMMA FrugalIs == IsConfig(Avd!Frugal)
<1> DEFINE c == [ram |-> 1536, cores |-> 2, keyboard |-> "no", gpuOn |-> "no", sysdir |-> "set"]
<1>1. c = [ram |-> 1536, cores |-> 2, keyboard |-> "no", gpuOn |-> "no", sysdir |-> "set"] OBVIOUS
<1>2. DOMAIN c = {"ram", "cores", "keyboard", "gpuOn", "sysdir"} OBVIOUS
<1> HIDE DEF c
<1>3. DOMAIN Avd!Leave = {"ram", "cores", "gpu", "width", "height", "density", "keyboard"} BY DEF Avd!Leave
<1>4. DOMAIN Avd!Leave \cup DOMAIN c = Keys BY <1>2, <1>3 DEF Keys
<1>5. Avd!Frugal = Avd!Merged(Avd!Leave, c) BY <1>1 DEF Avd!Frugal
<1>6. PICK m : m = Avd!Merged(Avd!Leave, c) OBVIOUS
<1>7. m = [k \in Keys |-> IF k \in DOMAIN c THEN c[k] ELSE Avd!Leave[k]] BY <1>4, <1>6 DEF Avd!Merged
<1>8. m = [k \in Keys |-> m[k]] BY <1>7
<1> QED BY <1>5, <1>6, <1>8 DEF IsConfig

\* What an edit that is not refused writes.
Edit(h) == h \in Edits /\ Avd!AVDHardwareOK(h)

LEMMA SetIs ==
  ASSUME NEW h \in Settings
  PROVE  /\ Avd!Set(h) \subseteq Keys \ {"gpuOn", "sysdir"}
         /\ "gpu" \in Avd!Set(h) <=> h.gpu # ""
         /\ "width" \in Avd!Set(h) <=> h.width # 0
         /\ "height" \in Avd!Set(h) <=> h.height # 0
<1>1. DOMAIN h = {"ram", "cores", "gpu", "width", "height", "density", "keyboard"} BY DEF Settings
<1>2. Avd!Leave["gpu"] = "" /\ Avd!Leave["width"] = 0 /\ Avd!Leave["height"] = 0 BY DEF Avd!Leave
<1> QED BY <1>1, <1>2 DEF Avd!Set, Keys

LEMMA ChangesIs ==
  ASSUME NEW h, Edit(h)
  PROVE  LET c == Avd!AVDHardwareChanges(h) IN
         /\ DOMAIN c \subseteq Keys \ {"sysdir"}
         /\ "gpu" \in DOMAIN c => /\ c["gpu"] = h.gpu /\ "gpuOn" \in DOMAIN c
                                  /\ c["gpuOn"] = IF h.gpu = "off" THEN "no" ELSE "yes"
         /\ {"width", "height"} \subseteq DOMAIN c \/ {"width", "height"} \cap DOMAIN c = {}
<1>1. h \in Settings BY SettingsAssumption DEF Edit
<1>2. PICK c : c = Avd!AVDHardwareChanges(h) OBVIOUS
<1>3. PICK D : D = Avd!Set(h) \cup Avd!Mode(h) OBVIOUS
<1>4. c = [k \in D |-> IF k # "gpuOn" THEN h[k] ELSE IF h.gpu = "off" THEN "no" ELSE "yes"]
  BY <1>2, <1>3 DEF Avd!AVDHardwareChanges
<1>5. DOMAIN c = D BY <1>4
<1>6. Avd!Mode(h) = IF h.gpu = "" THEN {} ELSE {"gpuOn"} BY DEF Avd!Mode
<1>7. D \subseteq Keys \ {"sysdir"} BY <1>1, <1>3, <1>6, SetIs DEF Keys
<1>8. "gpu" \in D => h.gpu # "" /\ "gpuOn" \in D BY <1>1, <1>3, <1>6, SetIs
<1>9. "gpu" \in D => c["gpu"] = h.gpu /\ c["gpuOn"] = IF h.gpu = "off" THEN "no" ELSE "yes" BY <1>4, <1>8
<1>10. h.width = 0 <=> h.height = 0 BY DEF Edit, Avd!AVDHardwareOK
<1>11. {"width", "height"} \subseteq D \/ {"width", "height"} \cap D = {} BY <1>1, <1>3, <1>6, <1>10, SetIs
<1> QED BY <1>2, <1>5, <1>7, <1>8, <1>9, <1>11

\* A new AVD's settings are keys of its config.
LEMMA TweaksIs == ASSUME NEW s \in Specs PROVE DOMAIN Avd!ConfigTweaks(s) \subseteq Keys
<1>1. s \in Settings BY SettingsAssumption
<1>2. DOMAIN Avd!ConfigTweaks(s) = (Avd!Set(s) \cap {"ram", "cores", "gpu"}) \cup {"keyboard"} \cup Avd!Mode(s)
  BY DEF Avd!ConfigTweaks
<1>3. Avd!Mode(s) \subseteq {"gpuOn"} BY DEF Avd!Mode
<1> QED BY <1>2, <1>3 DEF Keys

\* What an edit leaves the panel to show.
LEMMA ShownIs ==
  ASSUME NEW h, Edit(h), NEW kv, IsConfig(kv), ini # "none",
         config = Avd!File(Avd!Merged(kv, Avd!AVDHardwareChanges(h))),
         edited = [is |-> "edit", was |-> kv, changes |-> Avd!AVDHardwareChanges(h)]
  PROVE  Avd!EditIsShown
<1>1. PICK c : c = Avd!AVDHardwareChanges(h) OBVIOUS
<1>2. PICK m : m = Avd!Merged(kv, c) OBVIOUS
<1>3. DOMAIN c \subseteq Keys BY <1>1, ChangesIs
<1>4. \A k \in Keys : m[k] = IF k \in DOMAIN c THEN c[k] ELSE kv[k] BY <1>2, <1>3, MergedIs
<1>5. config.is = "file" /\ config.kv = m BY <1>1, <1>2 DEF Avd!File
<1>6. edited.was = kv /\ edited.changes = c BY <1>1
<1>7. Avd!LoadAVD = Avd!applyConfig(m) BY <1>5 DEF Avd!LoadAVD
<1>8. DOMAIN kv = Keys BY DEF IsConfig
<1>9. \A k \in DOMAIN c : m[k] = c[k] BY <1>3, <1>4
<1>10. \A k \in DOMAIN kv \ DOMAIN c : m[k] = kv[k] BY <1>4, <1>8
<1>11. {"ram", "cores", "gpu", "density", "width", "height"} \subseteq Keys BY DEF Keys
<1>12. \A k \in {"ram", "cores", "gpu", "density"} : Avd!applyConfig(m)[k] = m[k] /\ Avd!applyConfig(kv)[k] = kv[k]
  BY DEF Avd!applyConfig
<1>13. \A k \in {"ram", "cores", "gpu", "density"} \ DOMAIN c : Avd!applyConfig(m)[k] = Avd!applyConfig(kv)[k]
  BY <1>4, <1>11, <1>12
<1>14. {"width", "height"} \subseteq DOMAIN c \/ Avd!applyConfig(m).size = Avd!applyConfig(kv).size
  <2>1. {"width", "height"} \subseteq DOMAIN c \/ {"width", "height"} \cap DOMAIN c = {} BY <1>1, ChangesIs
  <2>2. {"width", "height"} \cap DOMAIN c = {} => m["width"] = kv["width"] /\ m["height"] = kv["height"] BY <1>4, <1>11
  <2> QED BY <2>1, <2>2 DEF Avd!applyConfig
<1>15. "gpu" \in DOMAIN c => (m.gpu = "off" <=> m.gpuOn = "no")
  <2> SUFFICES ASSUME "gpu" \in DOMAIN c PROVE m["gpu"] = "off" <=> m["gpuOn"] = "no" OBVIOUS
  <2>1. c["gpu"] = h.gpu /\ "gpuOn" \in DOMAIN c /\ c["gpuOn"] = IF h.gpu = "off" THEN "no" ELSE "yes" BY <1>1, ChangesIs
  <2>2. m["gpu"] = c["gpu"] /\ m["gpuOn"] = c["gpuOn"] BY <1>9, <2>1
  <2> QED BY <2>1, <2>2
<1> QED BY <1>5, <1>6, <1>7, <1>9, <1>10, <1>13, <1>14, <1>15 DEF Avd!EditIsShown

WritePoints == {"write", "fill", "rename"}

\* A call that writes: it goes on from the config it read, whole, and is to change some keys.
Writing(j) ==
  /\ job[j] = [pc |-> job[j].pc, of |-> job[j].of, was |-> job[j].was, changes |-> job[j].changes, new |-> job[j].new]
  /\ ini = "path" /\ config = job[j].was
  /\ DOMAIN job[j].changes \subseteq Keys
  /\ \E kv : IsConfig(kv) /\ job[j].was = Avd!File(kv) /\ job[j].new = Avd!Merged(kv, job[j].changes)
  /\ job[j].of = "edit" => \E h : Edit(h) /\ job[j].changes = Avd!AVDHardwareChanges(h)
  /\ job[j].pc = "rename" => temp = Avd!File(job[j].new)
Creating(j) == /\ job[j] = [pc |-> job[j].pc, spec |-> job[j].spec] /\ job[j].spec \in Specs
               /\ job[j].pc = "tweak" => ini = "path"
CallOfAvd(j) ==
  \/ job[j] = Avd!Idle
  \/ job[j] = [pc |-> "delete"]
  \/ job[j].pc \in WritePoints /\ Writing(j)
  \/ job[j].pc \in {"create", "tweak"} /\ Creating(j)

\* The last edit is what the file holds.
EditKept ==
  edited # Avd!None =>
    /\ ini # "none"
    /\ \E h, kv : /\ Edit(h) /\ IsConfig(kv) /\ config = Avd!File(Avd!Merged(kv, Avd!AVDHardwareChanges(h)))
                  /\ edited = [is |-> "edit", was |-> kv, changes |-> Avd!AVDHardwareChanges(h)]

AvdWhole ==
  /\ \A i, j \in Jobs : job[i] # Avd!Idle /\ job[j] # Avd!Idle => i = j
  /\ \A j \in Jobs : CallOfAvd(j)
  /\ config = Avd!None \/ \E kv : IsConfig(kv) /\ config = Avd!File(kv)
  /\ EditKept

AvdInv == /\ crossed \in BOOLEAN /\ job = [j \in Jobs |-> job[j]]
          /\ ~crossed => AvdWhole

LEMMA AvdStart == Avd!Init => AvdInv
<1> SUFFICES ASSUME Avd!Init PROVE AvdInv OBVIOUS
<1>1. \A j \in Jobs : job[j] = Avd!Idle BY DEF Avd!Init
<1>2. config = Avd!None \/ config = Avd!File(Avd!Frugal) BY DEF Avd!Init
<1>3. edited = Avd!None /\ crossed = FALSE /\ job = [j \in Jobs |-> job[j]] BY DEF Avd!Init
<1> QED BY <1>1, <1>2, <1>3, FrugalIs DEF AvdInv, AvdWhole, CallOfAvd, EditKept

LEMMA AvdInvIsWhole == AvdInv => AvdKeeps
<1> SUFFICES ASSUME AvdInv, ~crossed PROVE config # Avd!Part /\ Avd!EditIsShown
  BY DEF AvdKeeps, Avd!ConfigIsWhole, Avd!EditIsShown
<1>1. config # Avd!Part BY DEF AvdInv, AvdWhole, Avd!None, Avd!Part, Avd!File
<1>2. ASSUME edited = Avd!None PROVE Avd!EditIsShown BY <1>2, Zenon DEF Avd!EditIsShown
<1>3. ASSUME edited # Avd!None PROVE Avd!EditIsShown
  <2>1. PICK h, kv : /\ Edit(h) /\ IsConfig(kv) /\ config = Avd!File(Avd!Merged(kv, Avd!AVDHardwareChanges(h)))
                     /\ edited = [is |-> "edit", was |-> kv, changes |-> Avd!AVDHardwareChanges(h)]
    BY <1>3 DEF AvdInv, AvdWhole, EditKept
  <2>2. ini # "none" BY <1>3 DEF AvdInv, AvdWhole, EditKept
  <2> QED BY <2>1, <2>2, ShownIs
<1> QED BY <1>1, <1>2, <1>3

\* A step of the one call under way; the next point of its own.
LEMMA AvdAlone ==
  ASSUME AvdInv, NEW j \in Jobs, NEW step, job' = [job EXCEPT ![j] = step], crossed' = crossed,
         ~crossed => job[j] # Avd!Idle,
         ~crossed /\ AvdWhole => CallOfAvd(j)' /\ EditKept'
                                 /\ (config' = Avd!None \/ \E kv : IsConfig(kv) /\ config' = Avd!File(kv))
  PROVE  AvdInv'
<1>1. \A i \in Jobs : job'[i] = IF i = j THEN step ELSE job[i] BY DEF AvdInv
<1>2. job' = [i \in Jobs |-> job'[i]] BY DEF AvdInv
<1>3. ASSUME ~crossed PROVE AvdWhole'
  <2>1. AvdWhole BY <1>3 DEF AvdInv
  <2>2. \A i \in Jobs : i # j => job'[i] = Avd!Idle BY <1>1, <1>3, <2>1 DEF AvdWhole
  <2>3. \A i \in Jobs : CallOfAvd(i)'
    <3> SUFFICES ASSUME NEW i \in Jobs PROVE CallOfAvd(i)' OBVIOUS
    <3>1. CASE i = j BY <1>3, <2>1, <3>1
    <3>2. CASE i # j BY <2>2, <3>2 DEF CallOfAvd
    <3> QED BY <3>1, <3>2
  <2>4. \A i, k \in Jobs : job'[i] # Avd!Idle /\ job'[k] # Avd!Idle => i = k BY <2>2
  <2> QED BY <1>3, <2>1, <2>3, <2>4 DEF AvdWhole
<1> QED BY <1>2, <1>3 DEF AvdInv

\* A call begins, alone or to cross another.
LEMMA AvdBegins ==
  ASSUME AvdInv, NEW j \in Jobs, Avd!UpdateAVDHardware(j) \/ Avd!CreateAVD(j) \/ Avd!DeleteAVD(j)
  PROVE  AvdInv'
<1>1. UNCHANGED <<ini, config, temp, edited>> /\ crossed' = (crossed \/ Avd!Writers # {})
  BY DEF Avd!UpdateAVDHardware, Avd!CreateAVD, Avd!DeleteAVD, Avd!Meets
<1>2. PICK step :
        /\ job' = [job EXCEPT ![j] = step]
        /\ \/ step = [pc |-> "delete"]
           \/ \E s \in Specs : step = [pc |-> "create", spec |-> s]
           \/ \E h \in Edits :
                /\ Avd!AVDHardwareOK(h) /\ ini = "path" /\ config.is # "none"
                /\ step = [pc |-> "write", of |-> "edit", was |-> config, changes |-> Avd!AVDHardwareChanges(h),
                           new |-> IF config.is = "file" THEN Avd!Merged(config.kv, Avd!AVDHardwareChanges(h))
                                   ELSE Avd!AVDHardwareChanges(h)]
  <2>1. CASE Avd!UpdateAVDHardware(j) BY <2>1 DEF Avd!UpdateAVDHardware, Avd!ReadConfig
  <2>2. CASE Avd!CreateAVD(j) BY <2>2 DEF Avd!CreateAVD
  <2>3. CASE Avd!DeleteAVD(j) BY <2>3 DEF Avd!DeleteAVD
  <2> QED BY <2>1, <2>2, <2>3
<1>3. job' = [i \in Jobs |-> job'[i]] /\ \A i \in Jobs : job'[i] = IF i = j THEN step ELSE job[i] BY <1>2 DEF AvdInv
<1>4. ASSUME ~crossed' PROVE AvdWhole'
  <2>1. AvdWhole /\ Avd!Writers = {} BY <1>1, <1>4 DEF AvdInv
  <2>2. \A i \in Jobs : job[i] = Avd!Idle
    <3>1. \A i \in Jobs : job[i].pc = "idle" BY <2>1 DEF Avd!Writers
    <3>2. \A i \in Jobs : CallOfAvd(i) BY <2>1 DEF AvdWhole
    <3> QED BY <3>1, <3>2 DEF CallOfAvd, WritePoints
  <2>3. CallOfAvd(j)'
    <3>1. CASE step = [pc |-> "delete"] BY <1>3, <3>1 DEF CallOfAvd
    <3>2. CASE \E s \in Specs : step = [pc |-> "create", spec |-> s] BY <1>3, <3>2 DEF CallOfAvd, Creating
    <3>3. CASE \E h \in Edits :
                /\ Avd!AVDHardwareOK(h) /\ ini = "path" /\ config.is # "none"
                /\ step = [pc |-> "write", of |-> "edit", was |-> config, changes |-> Avd!AVDHardwareChanges(h),
                           new |-> IF config.is = "file" THEN Avd!Merged(config.kv, Avd!AVDHardwareChanges(h))
                                   ELSE Avd!AVDHardwareChanges(h)]
      <4>1. PICK h \in Edits :
                /\ Avd!AVDHardwareOK(h) /\ ini = "path" /\ config.is # "none"
                /\ step = [pc |-> "write", of |-> "edit", was |-> config, changes |-> Avd!AVDHardwareChanges(h),
                           new |-> IF config.is = "file" THEN Avd!Merged(config.kv, Avd!AVDHardwareChanges(h))
                                   ELSE Avd!AVDHardwareChanges(h)]
        BY <3>3
      <4>2. Edit(h) BY <4>1 DEF Edit
      <4>3. DOMAIN Avd!AVDHardwareChanges(h) \subseteq Keys BY <4>2, ChangesIs
      <4>4. PICK kv : IsConfig(kv) /\ config = Avd!File(kv) BY <2>1, <4>1 DEF AvdWhole, Avd!None
      <4>5. config.is = "file" /\ config.kv = kv BY <4>4 DEF Avd!File
      <4>6. PICK c : c = Avd!AVDHardwareChanges(h) OBVIOUS
      <4>7. job'[j] = [pc |-> "write", of |-> "edit", was |-> config, changes |-> c, new |-> Avd!Merged(kv, c)]
        BY <1>3, <4>1, <4>5, <4>6
      <4>8. /\ job'[j].pc = "write" /\ job'[j].of = "edit" /\ job'[j].was = config
            /\ job'[j].changes = c /\ job'[j].new = Avd!Merged(kv, c)
        BY <4>7
      <4>9. Writing(j)' BY <1>1, <4>1, <4>2, <4>3, <4>4, <4>6, <4>7, <4>8 DEF Writing
      <4> QED BY <4>8, <4>9 DEF CallOfAvd, WritePoints
    <3> QED BY <1>2, <3>1, <3>2, <3>3
  <2>4. \A i \in Jobs : i # j => job'[i] = Avd!Idle BY <1>3, <2>2
  <2>5. \A i \in Jobs : CallOfAvd(i)' BY <2>3, <2>4 DEF CallOfAvd
  <2>6. EditKept' BY <1>1, <2>1 DEF AvdWhole, EditKept
  <2> QED BY <1>1, <2>1, <2>4, <2>5, <2>6 DEF AvdWhole
<1>5. crossed' \in BOOLEAN BY <1>1 DEF AvdInv
<1> QED BY <1>3, <1>4, <1>5 DEF AvdInv

\* The writes of a config.
LEMMA AvdWrites ==
  ASSUME AvdInv, NEW j \in Jobs, Avd!WriteTemp(j) \/ Avd!FillTemp(j)
  PROVE  AvdInv'
<1>1. UNCHANGED <<ini, config, crossed, edited>> /\ job[j].pc \in {"write", "fill"} BY DEF Avd!WriteTemp, Avd!FillTemp
<1>2. PICK p : /\ p \in {"fill", "rename"} /\ job' = [job EXCEPT ![j].pc = p]
               /\ p = "rename" => temp' = Avd!File(job[j].new)
  BY DEF Avd!WriteTemp, Avd!FillTemp
<1>3. PICK step : step = [job[j] EXCEPT !.pc = p] OBVIOUS
<1>4. job' = [job EXCEPT ![j] = step] BY <1>2, <1>3
<1>5. ASSUME ~crossed, AvdWhole PROVE CallOfAvd(j)'
  <2>1. Writing(j)
    <3>1. CallOfAvd(j) BY <1>5 DEF AvdWhole
    <3> QED BY <1>1, <3>1 DEF CallOfAvd, Avd!Idle
  <2>2. job[j] = [pc |-> job[j].pc, of |-> job[j].of, was |-> job[j].was, changes |-> job[j].changes, new |-> job[j].new]
    BY <2>1 DEF Writing
  <2>3. step = [pc |-> p, of |-> job[j].of, was |-> job[j].was, changes |-> job[j].changes, new |-> job[j].new]
    BY <1>3, <2>2
  <2>4. job'[j] = step BY <1>4 DEF AvdInv
  <2>5. step.pc = p /\ step.of = job[j].of /\ step.was = job[j].was /\ step.changes = job[j].changes /\ step.new = job[j].new
    BY <2>3
  <2>6. Writing(j)' BY <1>1, <1>2, <2>1, <2>3, <2>4, <2>5 DEF Writing
  <2> QED BY <1>2, <2>4, <2>5, <2>6 DEF CallOfAvd, WritePoints
<1>6. ASSUME AvdWhole PROVE EditKept' /\ (config' = Avd!None \/ \E kv : IsConfig(kv) /\ config' = Avd!File(kv))
  BY <1>1, <1>6 DEF AvdWhole, EditKept
<1>7. job[j] # Avd!Idle BY <1>1 DEF Avd!Idle
<1> QED BY <1>1, <1>4, <1>5, <1>6, <1>7, AvdAlone

LEMMA AvdRenames == ASSUME AvdInv, NEW j \in Jobs, Avd!Rename(j) PROVE AvdInv'
<1>1. /\ job[j].pc = "rename" /\ config' = temp /\ job' = [job EXCEPT ![j] = Avd!Idle] /\ UNCHANGED <<ini, crossed>>
      /\ edited' = IF job[j].of = "edit" /\ job[j].was.is = "file"
                   THEN [is |-> "edit", was |-> job[j].was.kv, changes |-> job[j].changes] ELSE Avd!None
  BY DEF Avd!Rename, Avd!Ends
<1>2. ASSUME ~crossed, AvdWhole
      PROVE  EditKept' /\ \E kv : IsConfig(kv) /\ config' = Avd!File(kv)
  <2>1. Writing(j)
    <3>1. CallOfAvd(j) BY <1>2 DEF AvdWhole
    <3> QED BY <1>1, <3>1 DEF CallOfAvd, Avd!Idle
  <2>2. PICK kv : IsConfig(kv) /\ job[j].was = Avd!File(kv) /\ job[j].new = Avd!Merged(kv, job[j].changes) BY <2>1 DEF Writing
  <2>3. config' = Avd!File(Avd!Merged(kv, job[j].changes)) BY <1>1, <2>1, <2>2 DEF Writing
  <2>4. IsConfig(Avd!Merged(kv, job[j].changes)) BY <2>1, <2>2, MergedIs DEF Writing
  <2>5. job[j].was.is = "file" /\ job[j].was.kv = kv BY <2>2 DEF Avd!File
  <2>6. EditKept'
    <3>1. CASE job[j].of # "edit" BY <1>1, <3>1 DEF EditKept
    <3>2. CASE job[j].of = "edit"
      <4>1. PICK h : Edit(h) /\ job[j].changes = Avd!AVDHardwareChanges(h) BY <2>1, <3>2 DEF Writing
      <4>2. ini' # "none" BY <1>1, <2>1 DEF Writing
      <4>3. edited' = [is |-> "edit", was |-> kv, changes |-> Avd!AVDHardwareChanges(h)] BY <1>1, <2>5, <3>2, <4>1
      <4>4. config' = Avd!File(Avd!Merged(kv, Avd!AVDHardwareChanges(h))) BY <2>3, <4>1
      <4> QED BY <2>2, <4>1, <4>2, <4>3, <4>4 DEF EditKept
    <3> QED BY <3>1, <3>2
  <2> QED BY <2>3, <2>4, <2>6
<1>3. job[j] # Avd!Idle BY <1>1 DEF Avd!Idle
<1>4. job'[j] = Avd!Idle BY <1>1 DEF AvdInv
<1> QED BY <1>1, <1>2, <1>3, <1>4, AvdAlone DEF CallOfAvd

\* A call ends without a write, or with the AVD deleted.
LEMMA AvdEnds ==
  ASSUME AvdInv, NEW j \in Jobs,
         Avd!WriteFails(j) \/ Avd!CreateFails(j) \/ Avd!TweakFails(j) \/ Avd!Deleted(j)
  PROVE  AvdInv'
<1>1. /\ job' = [job EXCEPT ![j] = Avd!Idle] /\ crossed' = crossed
      /\ job[j].pc \in {"write", "fill", "rename", "create", "tweak", "delete"}
      /\ \/ UNCHANGED <<ini, config, edited>>
         \/ config' = Avd!None /\ edited' = Avd!None
  BY DEF Avd!WriteFails, Avd!CreateFails, Avd!TweakFails, Avd!Deleted, Avd!Ends
<1>2. job[j] # Avd!Idle BY <1>1 DEF Avd!Idle
<1>3. job'[j] = Avd!Idle BY <1>1 DEF AvdInv
<1>4. ASSUME AvdWhole PROVE EditKept' /\ (config' = Avd!None \/ \E kv : IsConfig(kv) /\ config' = Avd!File(kv))
  BY <1>1, <1>4 DEF AvdWhole, EditKept
<1> QED BY <1>1, <1>2, <1>3, <1>4, AvdAlone DEF CallOfAvd

\* The steps of a creation.
LEMMA AvdCreates ==
  ASSUME AvdInv, NEW j \in Jobs, Avd!Created(j) \/ Avd!applyAVDConfigTweaks(j)
  PROVE  AvdInv'
<1>1. job[j].pc \in {"create", "tweak"} /\ crossed' = crossed BY DEF Avd!Created, Avd!applyAVDConfigTweaks
<1>2. job[j] # Avd!Idle BY <1>1 DEF Avd!Idle
<1>3. CASE Avd!Created(j)
  <2>1. /\ ini' = "path" /\ config' = Avd!File(Avd!Frugal) /\ edited' = Avd!None /\ job' = [job EXCEPT ![j].pc = "tweak"]
        /\ job[j].pc = "create"
    BY <1>3 DEF Avd!Created
  <2>2. PICK step : step = [job[j] EXCEPT !.pc = "tweak"] OBVIOUS
  <2>3. job' = [job EXCEPT ![j] = step] /\ job'[j] = step BY <2>1, <2>2 DEF AvdInv
  <2>4. ASSUME ~crossed, AvdWhole PROVE CallOfAvd(j)'
    <3>1. CallOfAvd(j) BY <2>4 DEF AvdWhole
    <3>2. Creating(j) BY <2>1, <3>1 DEF CallOfAvd, Avd!Idle, WritePoints
    <3>3. job[j] = [pc |-> job[j].pc, spec |-> job[j].spec] BY <3>2 DEF Creating
    <3>4. step = [pc |-> "tweak", spec |-> job[j].spec] BY <2>2, <3>3
    <3>5. Creating(j)' BY <2>1, <2>3, <3>2, <3>4 DEF Creating
    <3> QED BY <2>3, <3>4, <3>5 DEF CallOfAvd
  <2>5. EditKept' /\ \E kv : IsConfig(kv) /\ config' = Avd!File(kv) BY <2>1, FrugalIs DEF EditKept
  <2> QED BY <1>1, <1>2, <2>3, <2>4, <2>5, AvdAlone
<1>4. CASE Avd!applyAVDConfigTweaks(j)
  <2>1. /\ UNCHANGED <<ini, config, edited>> /\ job[j].pc = "tweak" /\ ini = "path" /\ config.is # "none"
    BY <1>4 DEF Avd!applyAVDConfigTweaks, Avd!ReadConfig
  <2>2. PICK c : c = Avd!ConfigTweaks(job[j].spec) OBVIOUS
  <2>3. PICK step : step = [pc |-> "write", of |-> "create", was |-> config, changes |-> c,
                            new |-> IF config.is = "file" THEN Avd!Merged(config.kv, c) ELSE c] OBVIOUS
  <2>4. job' = [job EXCEPT ![j] = step] /\ job'[j] = step
    BY <1>4, <2>2, <2>3 DEF Avd!applyAVDConfigTweaks, Avd!ReadConfig, AvdInv
  <2>5. ASSUME ~crossed, AvdWhole PROVE CallOfAvd(j)'
    <3>1. CallOfAvd(j) BY <2>5 DEF AvdWhole
    <3>2. Creating(j) BY <2>1, <3>1 DEF CallOfAvd, Avd!Idle, WritePoints
    <3>3. DOMAIN c \subseteq Keys BY <2>2, <3>2, TweaksIs DEF Creating
    <3>4. PICK kv : IsConfig(kv) /\ config = Avd!File(kv) BY <2>1, <2>5 DEF AvdWhole, Avd!None
    <3>5. config.is = "file" /\ config.kv = kv BY <3>4 DEF Avd!File
    <3>6. step = [pc |-> "write", of |-> "create", was |-> config, changes |-> c, new |-> Avd!Merged(kv, c)] BY <2>3, <3>5
    <3>7. step.pc = "write" /\ step.of = "create" /\ step.was = config /\ step.changes = c /\ step.new = Avd!Merged(kv, c)
      BY <3>6
    <3>8. Writing(j)' BY <2>1, <2>4, <3>3, <3>4, <3>6, <3>7 DEF Writing
    <3> QED BY <2>4, <3>7, <3>8 DEF CallOfAvd, WritePoints
  <2>6. ASSUME AvdWhole PROVE EditKept' /\ (config' = Avd!None \/ \E kv : IsConfig(kv) /\ config' = Avd!File(kv))
    BY <2>1, <2>6 DEF AvdWhole, EditKept
  <2> QED BY <1>1, <1>2, <2>4, <2>5, <2>6, AvdAlone
<1> QED BY <1>3, <1>4

\* A crash ends every call; the emulator and the snapshots touch no config.
LEMMA AvdOthers ==
  ASSUME AvdInv,
         \/ Avd!Crash \/ Avd!Boot \/ Avd!Leaves \/ \E j \in Jobs : Avd!DeleteSnapshot(j)
  PROVE  AvdInv'
<1>1. UNCHANGED <<ini, config, temp, crossed, edited>> /\ (job' = job \/ job' = [j \in Jobs |-> Avd!Idle])
  BY DEF Avd!Crash, Avd!Boot, Avd!Leaves, Avd!DeleteSnapshot
<1>2. CASE job' = job BY <1>1, <1>2 DEF AvdInv, AvdWhole, CallOfAvd, Writing, Creating, EditKept
<1>3. CASE job' = [j \in Jobs |-> Avd!Idle]
  <2>1. \A j \in Jobs : job'[j] = Avd!Idle BY <1>3
  <2>2. ASSUME AvdWhole PROVE AvdWhole' BY <1>1, <2>1, <2>2 DEF AvdWhole, CallOfAvd, EditKept
  <2> QED BY <1>1, <1>3, <2>2 DEF AvdInv
<1> QED BY <1>1, <1>2, <1>3

\* The file of an AVD is whole and an edit changes what it names, over any settings, calls and
\* crashes, as long as no two calls write for the same AVD (avd.go, avd_create.go).
THEOREM AvdsKept == Avd!Spec => [](Avd!ConfigIsWhole /\ Avd!EditIsShown)
<1>1. ASSUME AvdInv, UNCHANGED Avd!vars PROVE AvdInv'
  BY <1>1 DEF Avd!vars, AvdInv, AvdWhole, CallOfAvd, Writing, Creating, EditKept
<1>2. AvdInv /\ [Avd!Next]_Avd!vars => AvdInv'
  BY <1>1, AvdBegins, AvdWrites, AvdRenames, AvdEnds, AvdCreates, AvdOthers DEF Avd!Next
<1>3. AvdInv => Avd!ConfigIsWhole /\ Avd!EditIsShown BY AvdInvIsWhole DEF AvdKeeps
<1> QED BY <1>2, <1>3, AvdStart, PTL DEF Avd!Spec

-----------------------------------------------------------------------------
(* The listings of system images: what they are sorted by.                  *)

\* A row of a listing.
Rows == [pkg : Images, api : Nat, playStore : BOOLEAN, rootable : BOOLEAN, compatible : BOOLEAN,
         installed : BOOLEAN]

LEMMA NewRow ==
  ASSUME NEW i \in Images, NEW b \in BOOLEAN
  PROVE  /\ Sdk!newSystemImage(i, b) \in Rows
         /\ Sdk!newSystemImage(i, b).pkg = i
         /\ Sdk!newSystemImage(i, b).installed = b
<1>1. i[1] \in Nat BY ImagesAssumption
<1>2. Sdk!PlayStore(i) \in BOOLEAN BY DEF Sdk!PlayStore
<1>3. Sdk!Compatible(i) \in BOOLEAN BY DEF Sdk!Compatible
<1> QED BY <1>1, <1>2, <1>3 DEF Rows, Sdk!newSystemImage

LEMMA LeastApi ==
  ASSUME NEW S \in SUBSET Nat, S # {}
  PROVE  \E n \in S : \A m \in S : n <= m
<1>1. PICK n \in S : \A m \in S : ~ (<<m, n>> \in OpToRel(<, Nat)) BY NatLessThanWellFounded, WFMin
<1>2. ASSUME NEW m \in S PROVE n <= m
  <2>1. ~ (m < n) BY <1>1 DEF OpToRel
  <2> QED BY <2>1
<1> QED BY <1>2

\* Of some rows one can stand last.
LEMMA LastRow ==
  ASSUME NEW S \in SUBSET Rows, S # {}
  PROVE  \E x \in S : \A y \in S : ~Sdk!Before(x, y)
<1>1. PICK T \in SUBSET S : /\ T # {}
                            /\ \A x \in T, y \in S : y \in T \/ (~x.compatible /\ y.compatible)
                            /\ \A x, y \in T : x.compatible = y.compatible
  <2>1. CASE \E y \in S : ~y.compatible
    <3>1. PICK T : T = {y \in S : ~y.compatible} OBVIOUS
    <3>2. T \in SUBSET S /\ T # {} /\ \A x \in T : ~x.compatible BY <2>1, <3>1
    <3>3. \A y \in S : y \in T \/ y.compatible BY <3>1
    <3>4. \A x, y \in T : x.compatible = y.compatible BY <3>2 DEF Rows
    <3> QED BY <3>2, <3>3, <3>4
  <2>2. CASE \A y \in S : y.compatible
    <3>1. \A x, y \in S : x.compatible = y.compatible BY <2>2 DEF Rows
    <3> QED BY <3>1
  <2> QED BY <2>1, <2>2
<1>2. PICK x \in T : \A y \in T : x.api <= y.api
  <2>1. PICK A : A = {y.api : y \in T} OBVIOUS
  <2>2. A \in SUBSET Nat /\ A # {} BY <1>1, <2>1 DEF Rows
  <2>3. PICK n \in A : \A m \in A : n <= m BY <2>2, LeastApi
  <2>4. PICK x \in T : x.api = n BY <2>1
  <2> QED BY <2>1, <2>3, <2>4
<1>3. ASSUME NEW y \in S PROVE ~Sdk!Before(x, y)
  <2>1. CASE y \in T
    <3>1. x.api \in Nat /\ y.api \in Nat /\ x.api <= y.api /\ x.compatible = y.compatible BY <1>1, <1>2, <2>1 DEF Rows
    <3> QED BY <3>1 DEF Sdk!Before, Sdk!NewestFirst
  <2>2. CASE y \notin T
    <3>1. ~x.compatible /\ y.compatible BY <1>1, <2>2
    <3> QED BY <3>1 DEF Sdk!Before
  <2> QED BY <2>1, <2>2
<1> QED BY <1>3

\* Finitely many rows can be sorted.
LEMMA Sortable ==
  \A n \in Nat : \A S \in SUBSET Rows :
    IsFiniteSet(S) /\ Cardinality(S) = n => \E q \in [1 .. n -> S] : Sdk!Sorts(q, S)
<1> DEFINE Unsorted(n, S) == IsFiniteSet(S) /\ Cardinality(S) = n /\ ~ \E q \in [1 .. n -> S] : Sdk!Sorts(q, S)
<1> DEFINE Bad == {n \in Nat : \E S \in SUBSET Rows : Unsorted(n, S)}
<1> SUFFICES ASSUME Bad # {} PROVE FALSE OBVIOUS
<1>1. PICK n \in Bad : \A m \in Bad : n <= m BY LeastApi
<1>2. PICK S \in SUBSET Rows : Unsorted(n, S) BY <1>1
<1>3. n \in Nat /\ IsFiniteSet(S) /\ Cardinality(S) = n BY <1>1, <1>2
<1>4. \A q \in [1 .. n -> S] : ~Sdk!Sorts(q, S) BY <1>2
<1> HIDE DEF Unsorted
<1>5. S # {}
  <2> SUFFICES ASSUME S = {} PROVE FALSE OBVIOUS
  <2>1. n = 0 BY <1>3, FS_EmptySet
  <2>2. [i \in 1 .. 0 |-> i] \in [1 .. n -> S] BY <2>1
  <2>3. Sdk!Sorts([i \in 1 .. 0 |-> i], S) BY DEF Sdk!Sorts
  <2> QED BY <1>4, <2>2, <2>3
<1>6. PICK x \in S : \A y \in S : ~Sdk!Before(x, y) BY <1>5, LastRow
<1>7. IsFiniteSet(S \ {x}) /\ Cardinality(S \ {x}) = n - 1 /\ n - 1 \in Nat
  <2>1. IsFiniteSet(S \ {x}) /\ Cardinality(S \ {x}) = n - 1 BY <1>3, <1>6, FS_RemoveElement
  <2> QED BY <2>1, FS_CardinalityType
<1>8. PICK q \in [1 .. n - 1 -> S \ {x}] : Sdk!Sorts(q, S \ {x})
  <2>1. n - 1 \notin Bad BY <1>1, <1>3, <1>7
  <2>2. ~Unsorted(n - 1, S \ {x}) BY <1>7, <2>1
  <2> QED BY <1>7, <2>2 DEF Unsorted
<1>9. PICK p : p = [i \in 1 .. n |-> IF i < n THEN q[i] ELSE x] OBVIOUS
<1>10. \A i \in 1 .. n : (i \in 1 .. n - 1 /\ p[i] = q[i] /\ q[i] \in S \ {x}) \/ (i = n /\ p[i] = x)
  BY <1>3, <1>7, <1>8, <1>9
<1>11. p \in [1 .. n -> S] BY <1>6, <1>9, <1>10
<1>12. Sdk!Sorts(p, S)
  <2>1. ASSUME NEW y \in S PROVE \E i \in 1 .. n : p[i] = y
    <3>1. CASE y = x BY <1>3, <1>7, <1>9, <3>1
    <3>2. CASE y # x
      <4>1. PICK i \in 1 .. n - 1 : q[i] = y BY <1>8, <3>2 DEF Sdk!Sorts
      <4> QED BY <1>3, <1>9, <4>1
    <3> QED BY <3>1, <3>2
  <2>2. ASSUME NEW k \in 1 .. n, NEW l \in 1 .. n, k < l PROVE ~Sdk!Before(p[l], p[k])
    <3>1. k \in 1 .. n - 1 /\ p[k] = q[k] /\ q[k] \in S BY <1>3, <1>10, <2>2
    <3>2. CASE l = n BY <1>6, <1>9, <3>1, <3>2
    <3>3. CASE l # n
      <4>1. l \in 1 .. n - 1 /\ p[l] = q[l] BY <1>3, <1>10, <3>3
      <4> QED BY <1>8, <2>2, <3>1, <4>1 DEF Sdk!Sorts
    <3> QED BY <3>2, <3>3
  <2>3. DOMAIN p = 1 .. n BY <1>9
  <2> QED BY <2>1, <2>2, <2>3 DEF Sdk!Sorts
<1> QED BY <1>4, <1>11, <1>12

\* What is listed: all rows, those this computer runs first and the newest of them first.
LEMMA SortsAll ==
  ASSUME NEW S \in SUBSET Rows, IsFiniteSet(S)
  PROVE  LET q == Sdk!sortSystemImages(S) IN
         /\ \A n \in DOMAIN q : q[n] \in S
         /\ \A x \in S : \E n \in DOMAIN q : q[n] = x
         /\ \A m, n \in DOMAIN q :
              m < n /\ q[n].compatible => q[m].compatible /\ q[m].api >= q[n].api
<1>1. Sdk!Cardinality(S) = Cardinality(S) BY DEF Sdk!Cardinality, Cardinality
<1>2. PICK c \in Nat : c = Cardinality(S) BY FS_CardinalityType
<1>3. \E q \in [1 .. c -> S] : Sdk!Sorts(q, S) BY <1>2, Sortable
<1>4. PICK q : q = Sdk!sortSystemImages(S) OBVIOUS
<1>5. q = CHOOSE r \in [1 .. c -> S] : Sdk!Sorts(r, S) BY <1>1, <1>2, <1>4 DEF Sdk!sortSystemImages
<1>6. q \in [1 .. c -> S] /\ Sdk!Sorts(q, S) BY <1>3, <1>5
<1>7. ASSUME NEW m \in DOMAIN q, NEW n \in DOMAIN q, m < n, q[n].compatible
      PROVE  q[m].compatible /\ q[m].api >= q[n].api
  <2>1. ~Sdk!Before(q[n], q[m]) BY <1>6, <1>7 DEF Sdk!Sorts
  <2>2. q[m] \in Rows /\ q[n] \in Rows BY <1>6
  <2>3. q[m].compatible BY <1>7, <2>1, <2>2 DEF Sdk!Before, Rows
  <2>4. ~(q[n].api > q[m].api) BY <1>7, <2>1, <2>2, <2>3 DEF Sdk!Before, Sdk!NewestFirst, Rows
  <2>5. q[m].api \in Nat /\ q[n].api \in Nat BY <2>2 DEF Rows
  <2> QED BY <2>3, <2>4, <2>5
<1> QED BY <1>4, <1>6, <1>7 DEF Sdk!Sorts

\* The rows a catalogue or a listing can have.
RowSets == {R \in SUBSET Rows : IsFiniteSet(R)}

LEMMA FinitePairs ==
  ASSUME NEW T \in SUBSET Images, NEW B \in [Images -> BOOLEAN]
  PROVE  {Sdk!newSystemImage(i, B[i]) : i \in T} \in RowSets
<1>1. PICK R : R = {Sdk!newSystemImage(i, B[i]) : i \in T} OBVIOUS
<1>2. PICK f : f = [i \in T |-> Sdk!newSystemImage(i, B[i])] OBVIOUS
<1>3. f \in Surjection(T, R) BY <1>1, <1>2 DEF Surjection
<1>4. IsFiniteSet(T) BY ImagesAssumption, FS_Subset
<1>5. IsFiniteSet(R) BY <1>3, <1>4, FS_Surjection
<1>6. R \in SUBSET Rows BY <1>1, NewRow
<1> QED BY <1>1, <1>5, <1>6 DEF RowSets

LEMMA ParsedRows ==
  ASSUME NEW T \in SUBSET Images
  PROVE  /\ Sdk!parseSDKManagerList(T) \in RowSets
         /\ \A r \in Sdk!parseSDKManagerList(T) : r.installed => r.pkg \in T
<1>1. PICK Yes : Yes = {Sdk!newSystemImage(i, TRUE) : i \in T} OBVIOUS
<1>2. PICK No : No = {Sdk!newSystemImage(i, FALSE) : i \in Images} OBVIOUS
<1>3. Sdk!parseSDKManagerList(T) = Yes \cup No BY <1>1, <1>2 DEF Sdk!parseSDKManagerList
<1>4. Yes \in RowSets
  <2>1. {Sdk!newSystemImage(i, [j \in Images |-> TRUE][i]) : i \in T} = Yes BY <1>1
  <2> QED BY <2>1, FinitePairs
<1>5. No \in RowSets
  <2>1. {Sdk!newSystemImage(i, [j \in Images |-> FALSE][i]) : i \in Images} = No BY <1>2
  <2> QED BY <2>1, FinitePairs
<1>6. Yes \cup No \in RowSets
  <2>1. IsFiniteSet(Yes \cup No) BY <1>4, <1>5, FS_Union DEF RowSets
  <2> QED BY <1>4, <1>5, <2>1 DEF RowSets
<1>7. \A r \in Yes : r.pkg \in T BY <1>1, NewRow
<1>8. \A r \in No : ~r.installed BY <1>2, NewRow
<1> QED BY <1>3, <1>6, <1>7, <1>8

LEMMA MergedRows ==
  ASSUME NEW T \in SUBSET Images, NEW R \in RowSets
  PROVE  /\ Sdk!mergeSystemImages(T, R) \in RowSets
         /\ \A i \in T : \E x \in Sdk!mergeSystemImages(T, R) : x.pkg = i /\ x.installed
         /\ \A x \in Sdk!mergeSystemImages(T, R) :
              x.installed => x.pkg \in T \/ \E r \in R : r.pkg = x.pkg /\ r.installed
<1>1. PICK B : B = [i \in Images |-> (i \in T \/ \E r \in R : r.pkg = i /\ r.installed)] OBVIOUS
<1>2. PICK P : P = T \cup {r.pkg : r \in R} OBVIOUS
<1>3. P \in SUBSET Images BY <1>2 DEF RowSets, Rows
<1>4. B \in [Images -> BOOLEAN] BY <1>1
<1>5. Sdk!mergeSystemImages(T, R) = {Sdk!newSystemImage(i, B[i]) : i \in P}
  <2>1. \A i \in P : B[i] = (i \in T \/ \E r \in R : r.pkg = i /\ r.installed) BY <1>1, <1>3
  <2> QED BY <1>2, <2>1 DEF Sdk!mergeSystemImages
<1>6. \A i \in P : Sdk!newSystemImage(i, B[i]).pkg = i /\ Sdk!newSystemImage(i, B[i]).installed = B[i]
  BY <1>3, <1>4, NewRow
<1>7. \A i \in T : i \in P /\ B[i] BY <1>1, <1>2
<1>8. \A i \in P : B[i] => i \in T \/ \E r \in R : r.pkg = i /\ r.installed BY <1>1, <1>3
<1> QED BY <1>3, <1>4, <1>5, <1>6, <1>7, <1>8, FinitePairs

ListStates == {Sdk!Idle} \cup [pc : {"look", "fetch"}, installed : SUBSET Images, gone : SUBSET Images, rows : RowSets]
ToolStates == {Sdk!Idle} \cup [pc : {"install", "remove", "installed", "removed"}, image : Images]
ImageTypes ==
  /\ disk \in SUBSET Images /\ gone \in SUBSET Images
  /\ cache \in {Sdk!None} \cup [is : {"kept"}, rows : RowSets]
  /\ list \in [Listers -> ListStates] /\ tool \in ToolStates

\* No row says of an image in G that it is installed.
NoneOf(R, G) == \A r \in R : r.installed => r.pkg \notin G

\* What adbq removed is not on disk, and neither the catalogue kept nor the one being fetched
\* says that it is.
GoneInv ==
  /\ gone \cap disk = {}
  /\ tool.pc = "removed" => tool.image \notin disk
  /\ cache # Sdk!None => NoneOf(cache.rows, gone)
  /\ \A l \in Listers : list[l].pc = "fetch" => NoneOf(list[l].rows, gone)

ImagesInv == ImageTypes /\ GoneInv /\ Sdk!ListingIsTrue

LEMMA ImagesStart == Sdk!Init => ImagesInv
<1> SUFFICES ASSUME Sdk!Init PROVE ImagesInv OBVIOUS
<1>1. disk \in SUBSET Images
  <2>1. (CHOOSE i \in Images : TRUE) \in Images BY ImagesAssumption
  <2> QED BY <2>1 DEF Sdk!Init
<1>2. ImageTypes BY <1>1 DEF Sdk!Init, ImageTypes, ListStates, ToolStates
<1>3. GoneInv BY DEF Sdk!Init, GoneInv, Sdk!Idle, Sdk!None
<1>4. Sdk!ListingIsTrue BY DEF Sdk!Init, Sdk!ListingIsTrue, Sdk!None
<1> QED BY <1>2, <1>3, <1>4 DEF ImagesInv

\* A listing that ends, with the tree it read and a catalogue that no removal contradicts.
LEMMA ShowsTruth ==
  ASSUME NEW T \in SUBSET Images, NEW R \in RowSets, NEW G, NoneOf(R, G), Sdk!Shows(T, R, G)
  PROVE  Sdk!ListingIsTrue'
<1>1. PICK M : M = Sdk!mergeSystemImages(T, R) OBVIOUS
<1>2. PICK q : q = Sdk!sortSystemImages(M) OBVIOUS
<1>3. shown' = [is |-> "rows", rows |-> q, disk |-> T, gone |-> G] BY <1>1, <1>2 DEF Sdk!Shows
<1>4. M \in RowSets BY <1>1, MergedRows
<1>5. /\ \A n \in DOMAIN q : q[n] \in M
      /\ \A x \in M : \E n \in DOMAIN q : q[n] = x
      /\ \A m, n \in DOMAIN q : m < n /\ q[n].compatible => q[m].compatible /\ q[m].api >= q[n].api
  BY <1>2, <1>4, SortsAll DEF RowSets
<1>6. \A i \in T : \E n \in DOMAIN q : q[n].pkg = i /\ q[n].installed
  <2>1. \A i \in T : \E x \in M : x.pkg = i /\ x.installed BY <1>1, MergedRows
  <2> QED BY <1>5, <2>1
<1>7. \A n \in DOMAIN q : q[n].pkg \in G \ T => ~q[n].installed
  <2>1. \A x \in M : x.installed => x.pkg \in T \/ \E r \in R : r.pkg = x.pkg /\ r.installed BY <1>1, MergedRows
  <2> QED BY <1>5, <2>1 DEF NoneOf
<1> QED BY <1>3, <1>5, <1>6, <1>7 DEF Sdk!ListingIsTrue

LEMMA ListStep ==
  ASSUME ImagesInv, NEW l \in Listers,
         \/ Sdk!ListSystemImages(l) \/ Sdk!ListKept(l) \/ Sdk!fetchRemoteImages(l)
         \/ Sdk!ListFetched(l) \/ Sdk!ListOffline(l)
  PROVE  ImagesInv'
<1> USE DEF ImagesInv, ImageTypes, GoneInv
<1>1. list[l] \in ListStates BY Zenon
<1>2. {} \in RowSets /\ NoneOf({}, list[l].gone \cap gone) BY FS_EmptySet DEF RowSets, NoneOf
<1>3. Sdk!Idle \in ListStates /\ Sdk!Idle.pc \notin {"look", "fetch"} BY DEF ListStates, Sdk!Idle
<1>4. list[l].pc \in {"look", "fetch"} =>
        list[l].installed \in SUBSET Images /\ list[l].gone \in SUBSET Images /\ list[l].rows \in RowSets
  BY <1>1, <1>3 DEF ListStates
<1>5. CASE Sdk!ListSystemImages(l)
  <2>1. PICK s : s = [pc |-> "look", installed |-> disk, gone |-> gone, rows |-> {}] OBVIOUS
  <2>2. s \in ListStates /\ s.pc # "fetch" BY <1>2, <2>1 DEF ListStates
  <2>3. list' = [list EXCEPT ![l] = s] /\ UNCHANGED <<disk, cache, tool, shown, gone>>
    BY <1>5, <2>1 DEF Sdk!ListSystemImages, Sdk!ListInstalledImages
  <2>4. ImageTypes' BY <2>2, <2>3
  <2>5. GoneInv' BY <2>2, <2>3
  <2>6. Sdk!ListingIsTrue' BY <2>3 DEF Sdk!ListingIsTrue
  <2> QED BY <2>4, <2>5, <2>6
<1>6. CASE Sdk!fetchRemoteImages(l)
  <2>1. PICK R : R = Sdk!parseSDKManagerList(disk) OBVIOUS
  <2>2. R \in RowSets /\ NoneOf(R, gone) BY <2>1, ParsedRows DEF NoneOf
  <2>3. list[l].pc = "look" /\ list' = [list EXCEPT ![l] = [list[l] EXCEPT !.pc = "fetch", !.rows = R]]
        /\ UNCHANGED <<disk, cache, tool, shown, gone>>
    BY <1>6, <2>1 DEF Sdk!fetchRemoteImages
  <2>4. PICK s : s = [list[l] EXCEPT !.pc = "fetch", !.rows = R] OBVIOUS
  <2>5. s \in ListStates /\ s.rows = R BY <1>1, <1>3, <2>2, <2>3, <2>4 DEF ListStates
  <2>6. list' = [list EXCEPT ![l] = s] BY <2>3, <2>4
  <2>7. ImageTypes' BY <2>3, <2>5, <2>6
  <2>8. GoneInv' BY <2>2, <2>3, <2>5, <2>6
  <2>9. Sdk!ListingIsTrue' BY <2>3 DEF Sdk!ListingIsTrue
  <2> QED BY <2>7, <2>8, <2>9
<1>7. CASE Sdk!ListKept(l)
  <2>1. list[l].pc = "look" /\ cache # Sdk!None /\ Sdk!Shows(list[l].installed, cache.rows, list[l].gone \cap gone)
        /\ list' = [list EXCEPT ![l] = Sdk!Idle] /\ UNCHANGED <<disk, cache, tool, gone>>
    BY <1>7 DEF Sdk!ListKept
  <2>2. cache.rows \in RowSets /\ NoneOf(cache.rows, list[l].gone \cap gone) BY <2>1 DEF NoneOf
  <2>3. Sdk!ListingIsTrue' BY <1>4, <2>1, <2>2, ShowsTruth
  <2>4. ImageTypes' BY <1>3, <2>1
  <2>5. GoneInv' BY <1>3, <2>1
  <2> QED BY <2>3, <2>4, <2>5
<1>8. CASE Sdk!ListFetched(l)
  <2>1. list[l].pc = "fetch" /\ cache' = [is |-> "kept", rows |-> list[l].rows]
        /\ Sdk!Shows(list[l].installed, list[l].rows, list[l].gone \cap gone)
        /\ list' = [list EXCEPT ![l] = Sdk!Idle] /\ UNCHANGED <<disk, tool, gone>>
    BY <1>8 DEF Sdk!ListFetched
  <2>2. list[l].rows \in RowSets /\ NoneOf(list[l].rows, gone) /\ NoneOf(list[l].rows, list[l].gone \cap gone)
    BY <1>4, <2>1 DEF NoneOf
  <2>3. Sdk!ListingIsTrue' BY <1>4, <2>1, <2>2, ShowsTruth
  <2>4. ImageTypes' BY <1>3, <2>1, <2>2
  <2>5. GoneInv' BY <1>3, <2>1, <2>2
  <2> QED BY <2>3, <2>4, <2>5
<1>9. CASE Sdk!ListOffline(l)
  <2>1. list[l].pc \in {"look", "fetch"} /\ Sdk!Shows(list[l].installed, {}, list[l].gone \cap gone)
        /\ list' = [list EXCEPT ![l] = Sdk!Idle] /\ UNCHANGED <<disk, cache, tool, gone>>
    BY <1>9 DEF Sdk!ListOffline
  <2>2. Sdk!ListingIsTrue' BY <1>2, <1>4, <2>1, ShowsTruth
  <2>3. ImageTypes' BY <1>3, <2>1
  <2>4. GoneInv' BY <1>3, <2>1
  <2> QED BY <2>2, <2>3, <2>4
<1> QED BY <1>5, <1>6, <1>7, <1>8, <1>9

LEMMA PackageStep ==
  ASSUME ImagesInv,
         \/ Sdk!InstallSystemImage \/ Sdk!UninstallSystemImage \/ Sdk!ToolDone \/ Sdk!ToolFails
         \/ Sdk!ToolEnds \/ Sdk!Expires \/ UNCHANGED Sdk!vars
  PROVE  ImagesInv'
<1> USE DEF ImagesInv, ImageTypes, GoneInv, ToolStates
<1>1. Sdk!Idle.pc = "idle" /\ Sdk!None # [is |-> "kept", rows |-> {}] BY DEF Sdk!Idle, Sdk!None
<1>2. CASE UNCHANGED Sdk!vars BY <1>2 DEF Sdk!vars, Sdk!ListingIsTrue
<1>3. CASE Sdk!InstallSystemImage BY <1>1, <1>3 DEF Sdk!InstallSystemImage, Sdk!ListingIsTrue
<1>4. CASE Sdk!UninstallSystemImage BY <1>1, <1>4 DEF Sdk!UninstallSystemImage, Sdk!ListingIsTrue
<1>5. CASE Sdk!ToolDone
  <2>1. tool \in [pc : {"install", "remove"}, image : Images] BY <1>1, <1>5 DEF Sdk!ToolDone
  <2>2. gone' = gone \ {tool.image} /\ UNCHANGED <<cache, list, shown>> BY <1>5 DEF Sdk!ToolDone
  <2>3. \/ tool.pc = "install" /\ disk' = disk \cup {tool.image} /\ tool' = [tool EXCEPT !.pc = "installed"]
        \/ tool.pc = "remove" /\ disk' = disk \ {tool.image} /\ tool' = [tool EXCEPT !.pc = "removed"]
    BY <1>5 DEF Sdk!ToolDone
  <2>4. ImageTypes' BY <2>1, <2>2, <2>3
  <2>5. GoneInv' BY <2>1, <2>2, <2>3 DEF NoneOf
  <2>6. Sdk!ListingIsTrue' BY <2>2 DEF Sdk!ListingIsTrue
  <2> QED BY <2>4, <2>5, <2>6
<1>6. CASE Sdk!ToolFails BY <1>1, <1>6 DEF Sdk!ToolFails, Sdk!ListingIsTrue
<1>7. CASE Sdk!ToolEnds
  <2>1. tool \in [pc : {"installed", "removed"}, image : Images] BY <1>1, <1>7 DEF Sdk!ToolEnds
  <2>2. cache' = Sdk!None /\ tool' = Sdk!Idle /\ UNCHANGED <<disk, list, shown>> BY <1>7 DEF Sdk!ToolEnds, Sdk!Invalidate
  <2>3. \/ gone' = gone
        \/ /\ tool.pc = "removed" /\ gone' = gone \cup {tool.image}
           /\ \A l \in Listers : list[l].pc # "fetch"
    BY <1>7 DEF Sdk!ToolEnds, Sdk!Fetching
  <2>4. ImageTypes' BY <2>1, <2>2, <2>3
  <2>5. GoneInv' BY <1>1, <2>1, <2>2, <2>3
  <2>6. Sdk!ListingIsTrue' BY <2>2 DEF Sdk!ListingIsTrue
  <2> QED BY <2>4, <2>5, <2>6
<1>8. CASE Sdk!Expires BY <1>8 DEF Sdk!Expires, Sdk!ListingIsTrue
<1> QED BY <1>2, <1>3, <1>4, <1>5, <1>6, <1>7, <1>8

\* A listing says of every image what the tree said, and never that one is there which adbq
\* removed; and the images this computer runs come first, the newest in front, over any
\* listings, installs and removals (sdk_packages.go).
THEOREM ListingTrue == Sdk!Spec => []Sdk!ListingIsTrue
<1>1. ImagesInv /\ [Sdk!Next]_Sdk!vars => ImagesInv' BY ListStep, PackageStep DEF Sdk!Next
<1>2. ImagesInv => Sdk!ListingIsTrue BY DEF ImagesInv
<1> QED BY <1>1, <1>2, ImagesStart, PTL DEF Sdk!Spec

-----------------------------------------------------------------------------
(* The toolchain: a folder that was chosen is served, and what is told is   *)
(* there.                                                                   *)

\* A root that is found is one, or there is none.
LEMMA FirstFits ==
  ASSUME NEW places, NEW k \in Nat, DOMAIN places = 1 .. k
  PROVE  Tool!FirstSDK(places).root = Tool!None \/ Tool!looksLikeSDK(Tool!FirstSDK(places).root)
<1>1. PICK fit : fit = {n \in DOMAIN places : Tool!looksLikeSDK(places[n].root)} OBVIOUS
<1>2. CASE fit = {} BY <1>1, <1>2 DEF Tool!FirstSDK
<1>3. CASE fit # {}
  <2>1. fit \in SUBSET Nat BY <1>1
  <2>2. \E n \in fit : \A m \in fit : n <= m BY <1>3, <2>1, LeastApi
  <2>3. Tool!Least(fit) \in fit BY <2>2 DEF Tool!Least
  <2>4. Tool!FirstSDK(places) = places[Tool!Least(fit)] BY <1>1, <1>3 DEF Tool!FirstSDK
  <2> QED BY <1>1, <2>3, <2>4
<1> QED BY <1>2, <1>3

\* What a probe makes of the folder that is resolved.
Described(at) == [root |-> at.root, source |-> at.source,
                  emulator |-> Tool!Tools(at.root).emulator, avdmanager |-> Tool!Tools(at.root).avdmanager]
Now == Tool!resolveRoot(host.sdk)

\* The places that are searched are a list.
EnvTypes == env = <<>> \/ \E r \in Roots : env = <<[root |-> r, source |-> "ANDROID_HOME"]>>

LEMMA NowFits ==
  ASSUME EnvTypes
  PROVE  \A s : LET at == Tool!resolveRoot(s) IN
           /\ at.root = Tool!None \/ Tool!looksLikeSDK(at.root)
           /\ Tool!dirExists(at.root)
<1> SUFFICES ASSUME NEW s PROVE LET at == Tool!resolveRoot(s) IN
           /\ at.root = Tool!None \/ Tool!looksLikeSDK(at.root)
           /\ Tool!dirExists(at.root)
  OBVIOUS
<1>1. PICK places : places = <<[root |-> s, source |-> "setting"]>> \o env OBVIOUS
<1>2. DOMAIN places = 1 .. 1 \/ DOMAIN places = 1 .. 2 BY <1>1 DEF EnvTypes
<1>3. Tool!resolveRoot(s) = Tool!FirstSDK(places) BY <1>1 DEF Tool!resolveRoot
<1>4. Tool!FirstSDK(places).root = Tool!None \/ Tool!looksLikeSDK(Tool!FirstSDK(places).root)
  BY <1>2, FirstFits
<1> QED BY <1>3, <1>4, RootsAssumption DEF Tool!looksLikeSDK, Tool!dirExists, Tool!None

\* What the disk, the environment and PATH decide.
LEMMA LookStays ==
  ASSUME UNCHANGED <<toolDisk, env, onPath>>
  PROVE  /\ \A s : (Tool!resolveRoot(s))' = Tool!resolveRoot(s)
         /\ \A r : (Tool!Tools(r))' = Tool!Tools(r)
         /\ \A r : (Tool!dirExists(r))' = Tool!dirExists(r)
         /\ \A at : (Described(at))' = Described(at)
         /\ EnvTypes => EnvTypes'
<1>1. \A r : (Tool!looksLikeSDK(r))' = Tool!looksLikeSDK(r) BY DEF Tool!looksLikeSDK
<1>2. \A p : (Tool!FirstSDK(p))' = Tool!FirstSDK(p) BY <1>1 DEF Tool!FirstSDK
<1>3. \A s : (Tool!resolveRoot(s))' = Tool!resolveRoot(s) BY <1>2 DEF Tool!resolveRoot
<1>4. \A r, p : (Tool!firstExisting(r, p))' = Tool!firstExisting(r, p) BY DEF Tool!firstExisting
<1>5. \A r : (Tool!Tools(r))' = Tool!Tools(r) BY <1>4 DEF Tool!Tools
<1>6. \A at : (Described(at))' = Described(at) BY <1>5 DEF Described
<1> QED BY <1>3, <1>5, <1>6 DEF EnvTypes, Tool!dirExists

CallPoints == {"idle", "info", "tools", "store", "sdk", "jadx", "recheck"}
ToolForms ==
  /\ EnvTypes
  /\ host = [sdk |-> host.sdk, jadx |-> host.jadx]
  /\ call = [c \in Callers |-> call[c]]
  /\ given = [c \in Callers |-> [info |-> given[c].info, old |-> given[c].old]]
  /\ \A c \in Callers :
       /\ call[c].pc \in CallPoints /\ (call[c].pc = "idle" <=> call[c] = Tool!Idle)
       /\ call[c].pc \in {"sdk", "jadx"} => call[c].hs = [sdk |-> call[c].hs.sdk, jadx |-> call[c].hs.jadx]
  /\ raced \in BOOLEAN /\ moved \in BOOLEAN

\* What a caller was told, or will be, is there, unless the disk changed since it asked.
ToldInv ==
  \A c \in Callers : ~given[c].old =>
    /\ Tool!dirExists(given[c].info.root)
    /\ call[c].pc = "tools" => Tool!dirExists(call[c].at.root)
    /\ call[c].pc = "store" => Tool!dirExists(call[c].info.root)

\* While calls do not overlap, the one under way works on the settings there are, and what is
\* cached describes the folder they choose until a setter is about to drop it.
ServedInv ==
  /\ ~raced => \A c, d \in Callers : call[c] # Tool!Idle /\ call[d] # Tool!Idle => c = d
  /\ ~raced /\ ~moved =>
       /\ toolCache # <<>> => toolCache[1] = Described(Now) \/ \E c \in Callers : call[c].pc = "recheck"
       /\ \A c \in Callers :
            /\ call[c].pc = "tools" => call[c].at = Now
            /\ call[c].pc = "store" => call[c].info = Described(Now)
            /\ call[c].pc = "jadx" => call[c].hs.sdk = host.sdk

ToolInv == ToolForms /\ ToldInv /\ ServedInv

LEMMA ToolStart == Tool!Init => ToolInv
<1> SUFFICES ASSUME Tool!Init PROVE ToolInv OBVIOUS
<1>1. ToolForms BY DEF Tool!Init, ToolForms, EnvTypes, Tool!Idle, CallPoints
<1>2. ToldInv
  <2>1. \A c \in Callers : given[c].info.root = Tool!None /\ call[c].pc = "idle" BY DEF Tool!Init, Tool!Nothing, Tool!Idle
  <2> QED BY <2>1, RootsAssumption DEF ToldInv, Tool!dirExists, Tool!None
<1>3. ServedInv
  <2>1. toolCache = <<>> BY DEF Tool!Init
  <2>2. \A c \in Callers : call[c] = Tool!Idle /\ call[c].pc = "idle" BY DEF Tool!Init, Tool!Idle
  <2> QED BY <2>1, <2>2 DEF ServedInv
<1> QED BY <1>1, <1>2, <1>3 DEF ToolInv

LEMMA ToolInvIsTrue == ToolInv => Tool!ChoiceIsServed /\ Tool!ToldWhatIsThere
<1> SUFFICES ASSUME ToolInv PROVE Tool!ChoiceIsServed /\ Tool!ToldWhatIsThere OBVIOUS
<1>1. Tool!ToldWhatIsThere BY DEF ToolInv, ToldInv, Tool!ToldWhatIsThere
<1>2. ASSUME Tool!Quiet, ~raced, ~moved, toolCache # <<>>
      PROVE  /\ toolCache[1].root = Now.root
             /\ toolCache[1].root # Tool!None => Tool!looksLikeSDK(toolCache[1].root)
             /\ toolCache[1].emulator = Tool!Tools(toolCache[1].root).emulator
             /\ toolCache[1].avdmanager = Tool!Tools(toolCache[1].root).avdmanager
  <2>1. \A c \in Callers : call[c].pc # "recheck" BY <1>2 DEF Tool!Quiet, Tool!Idle
  <2>2. toolCache[1] = Described(Now) BY <1>2, <2>1 DEF ToolInv, ServedInv
  <2>3. Now.root = Tool!None \/ Tool!looksLikeSDK(Now.root) BY NowFits DEF ToolInv, ToolForms, Now
  <2> QED BY <2>2, <2>3 DEF Described
<1>3. ASSUME NEW i, i.emulator = Tool!Tools(i.root).emulator
      PROVE  Tool!Emulator(i) = Tool!Emulator([Tool!Nothing EXCEPT !.root = i.root, !.emulator = Tool!Tools(i.root).emulator])
  BY <1>3 DEF Tool!Emulator, Tool!Nothing
<1>4. Tool!ChoiceIsServed
  <2> SUFFICES ASSUME Tool!Quiet, ~raced, ~moved, toolCache # <<>>
               PROVE  /\ toolCache[1].root = Tool!resolveRoot(host.sdk).root
                      /\ toolCache[1].root # Tool!None => Tool!looksLikeSDK(toolCache[1].root)
                      /\ Tool!Emulator(toolCache[1]) =
                           Tool!Emulator([Tool!Nothing EXCEPT !.root = toolCache[1].root, !.emulator = Tool!Tools(toolCache[1].root).emulator])
                      /\ Tool!Tools(toolCache[1].root).avdmanager = toolCache[1].avdmanager
    BY DEF Tool!ChoiceIsServed
  <2>1. toolCache[1].root = Tool!resolveRoot(host.sdk).root BY <1>2 DEF Now
  <2>2. toolCache[1].root # Tool!None => Tool!looksLikeSDK(toolCache[1].root) BY <1>2
  <2>3. Tool!Emulator(toolCache[1]) =
          Tool!Emulator([Tool!Nothing EXCEPT !.root = toolCache[1].root, !.emulator = Tool!Tools(toolCache[1].root).emulator])
    BY <1>2, <1>3
  <2>4. Tool!Tools(toolCache[1].root).avdmanager = toolCache[1].avdmanager BY <1>2
  <2> QED BY <2>1, <2>2, <2>3, <2>4
<1> QED BY <1>1, <1>4

\* A step of one call, which goes to `step`; of the others nothing changes.
ToolGoes(c, step) ==
  /\ call' = [call EXCEPT ![c] = step] /\ UNCHANGED <<toolDisk, env, onPath>>
  /\ given'[c].old = FALSE \/ given'[c].old = given[c].old
  /\ given' = [given EXCEPT ![c] = [info |-> given'[c].info, old |-> given'[c].old]]

LEMMA FormsStep ==
  ASSUME ToolForms, NEW c \in Callers, NEW step, ToolGoes(c, step),
         step.pc \in CallPoints, step.pc = "idle" <=> step = Tool!Idle,
         step.pc \in {"sdk", "jadx"} => step.hs = [sdk |-> step.hs.sdk, jadx |-> step.hs.jadx],
         host' = [sdk |-> host'.sdk, jadx |-> host'.jadx], raced' \in BOOLEAN, moved' \in BOOLEAN
  PROVE  ToolForms'
<1>1. call' = [d \in Callers |-> call'[d]] /\ \A d \in Callers : call'[d] = IF d = c THEN step ELSE call[d]
  BY DEF ToolForms, ToolGoes
<1>2. given' = [d \in Callers |-> [info |-> given'[d].info, old |-> given'[d].old]]
  <2>1. \A d \in Callers : given'[d] = IF d = c THEN [info |-> given'[c].info, old |-> given'[c].old] ELSE given[d]
    BY DEF ToolForms, ToolGoes
  <2>2. \A d \in Callers : given[d] = [info |-> given[d].info, old |-> given[d].old] BY DEF ToolForms
  <2>3. \A d \in Callers : given'[d] = [info |-> given'[d].info, old |-> given'[d].old] BY <2>1, <2>2
  <2>4. given' = [d \in Callers |-> given'[d]] BY DEF ToolForms, ToolGoes
  <2> QED BY <2>3, <2>4
<1>3. EnvTypes' BY DEF ToolForms, ToolGoes, EnvTypes
<1> QED BY <1>1, <1>2, <1>3 DEF ToolForms

LEMMA ToldStep ==
  ASSUME ToolForms, ToldInv, NEW c \in Callers, NEW step, ToolGoes(c, step),
         ~given'[c].old => /\ Tool!dirExists(given'[c].info.root)
                           /\ step.pc = "tools" => Tool!dirExists(step.at.root)
                           /\ step.pc = "store" => Tool!dirExists(step.info.root)
  PROVE  ToldInv'
<1>1. \A r : (Tool!dirExists(r))' = Tool!dirExists(r) BY LookStays DEF ToolGoes
<1>2. \A d \in Callers : call'[d] = IF d = c THEN step ELSE call[d] BY DEF ToolForms, ToolGoes
<1>3. \A d \in Callers : d # c => given'[d] = given[d] BY DEF ToolForms, ToolGoes
<1> SUFFICES ASSUME NEW d \in Callers, ~given'[d].old
             PROVE  /\ Tool!dirExists(given'[d].info.root)
                    /\ call'[d].pc = "tools" => Tool!dirExists(call'[d].at.root)
                    /\ call'[d].pc = "store" => Tool!dirExists(call'[d].info.root)
  BY <1>1 DEF ToldInv
<1>4. CASE d = c BY <1>2, <1>4
<1>5. CASE d # c BY <1>2, <1>3, <1>5 DEF ToldInv
<1> QED BY <1>4, <1>5

\* The same of ServedInv: what the step needs of the settings, the cache and the history.
LEMMA ServedStep ==
  ASSUME ToolForms, ServedInv, NEW c \in Callers, NEW step, ToolGoes(c, step),
         ~raced' => \/ ~raced /\ (call[c] # Tool!Idle \/ \A d \in Callers : call[d] = Tool!Idle)
                    \/ \A d \in Callers \ {c} : call[d] = Tool!Idle,
         ~raced' /\ ~moved' =>
           /\ toolCache' # <<>> => toolCache'[1] = Described(Tool!resolveRoot(host'.sdk)) \/ step.pc = "recheck"
           /\ step.pc = "tools" => step.at = Tool!resolveRoot(host'.sdk)
           /\ step.pc = "store" => step.info = Described(Tool!resolveRoot(host'.sdk))
           /\ step.pc = "jadx" => step.hs.sdk = host'.sdk
  PROVE  ServedInv'
<1>1. /\ \A s : (Tool!resolveRoot(s))' = Tool!resolveRoot(s)
      /\ \A at : (Described(at))' = Described(at)
  BY LookStays DEF ToolGoes
<1>2. Now' = Tool!resolveRoot(host'.sdk) /\ (Described(Now))' = Described(Tool!resolveRoot(host'.sdk))
  BY <1>1 DEF Now
<1>3. \A d \in Callers : call'[d] = IF d = c THEN step ELSE call[d] BY DEF ToolForms, ToolGoes
<1>4. ~raced' => \A d \in Callers \ {c} : call'[d] = Tool!Idle
  <2> SUFFICES ASSUME ~raced', NEW d \in Callers \ {c} PROVE call[d] = Tool!Idle BY <1>3
  <2>1. CASE \A e \in Callers \ {c} : call[e] = Tool!Idle BY <2>1
  <2>2. CASE ~raced /\ call[c] # Tool!Idle BY <2>2 DEF ServedInv
  <2>3. CASE \A e \in Callers : call[e] = Tool!Idle BY <2>3
  <2> QED BY <2>1, <2>2, <2>3
<1>5. \A d \in Callers : call'[d] = Tool!Idle => call'[d].pc \notin {"tools", "store", "jadx"} BY DEF Tool!Idle
<1>6. ~raced' => \A d, e \in Callers : call'[d] # Tool!Idle /\ call'[e] # Tool!Idle => d = e BY <1>4
<1>7. ASSUME ~raced', ~moved'
      PROVE  /\ toolCache' # <<>> => toolCache'[1] = (Described(Now))' \/ \E d \in Callers : call'[d].pc = "recheck"
             /\ \A d \in Callers :
                  /\ call'[d].pc = "tools" => call'[d].at = Now'
                  /\ call'[d].pc = "store" => call'[d].info = (Described(Now))'
                  /\ call'[d].pc = "jadx" => call'[d].hs.sdk = host'.sdk
  <2>1. toolCache' # <<>> => toolCache'[1] = (Described(Now))' \/ call'[c].pc = "recheck" BY <1>2, <1>3, <1>7
  <2>2. ASSUME NEW d \in Callers
        PROVE  /\ call'[d].pc = "tools" => call'[d].at = Now'
               /\ call'[d].pc = "store" => call'[d].info = (Described(Now))'
               /\ call'[d].pc = "jadx" => call'[d].hs.sdk = host'.sdk
    <3>1. CASE d = c BY <1>2, <1>3, <1>7, <3>1
    <3>2. CASE d # c BY <1>4, <1>5, <1>7, <3>2
    <3> QED BY <3>1, <3>2
  <2> QED BY <2>1, <2>2
<1> QED BY <1>6, <1>7 DEF ServedInv

\* A call begins.
LEMMA ToolBegins ==
  ASSUME ToolInv, NEW c \in Callers,
         Tool!Info(c) \/ Tool!SetJadxPath(c) \/ \E r \in Roots \cup {Tool!None} : Tool!SetSDKRoot(c, r)
  PROVE  ToolInv'
<1> USE DEF ToolInv
<1>1. PICK step : /\ call' = [call EXCEPT ![c] = step]
                  /\ \/ step = [pc |-> "info"]
                     \/ step = [pc |-> "jadx", hs |-> [host EXCEPT !.jadx = ~@]]
                     \/ \E r : step = [pc |-> "sdk", hs |-> [host EXCEPT !.sdk = r]]
  BY DEF Tool!Info, Tool!SetJadxPath, Tool!SetSDKRoot, Tool!Goes
<1>2. /\ call[c] = Tool!Idle /\ UNCHANGED <<toolDisk, env, onPath, host, toolCache, moved>>
      /\ raced' = (raced \/ \E d \in Callers : call[d] # Tool!Idle)
      /\ given' = [given EXCEPT ![c] = [info |-> Tool!Nothing, old |-> FALSE]]
  BY DEF Tool!Info, Tool!SetJadxPath, Tool!SetSDKRoot, Tool!Begin, Tool!Asks
<1>3. given'[c] = [info |-> Tool!Nothing, old |-> FALSE] BY <1>2 DEF ToolForms
<1>4. ToolGoes(c, step)
  <2>1. given'[c].info = Tool!Nothing /\ given'[c].old = FALSE BY <1>3
  <2>2. given' = [given EXCEPT ![c] = [info |-> given'[c].info, old |-> given'[c].old]] BY <1>2, <2>1
  <2> QED BY <1>1, <1>2, <2>1, <2>2 DEF ToolGoes
<1>5. host = [sdk |-> host.sdk, jadx |-> host.jadx] BY DEF ToolForms
<1>6. /\ step.pc \in {"info", "jadx", "sdk"} /\ step # Tool!Idle
      /\ step.pc \in {"sdk", "jadx"} => step.hs = [sdk |-> step.hs.sdk, jadx |-> step.hs.jadx]
      /\ step.pc = "jadx" => step.hs.sdk = host.sdk
  BY <1>1, <1>5 DEF Tool!Idle
<1>7. ToolForms'
  <2>1. host' = [sdk |-> host'.sdk, jadx |-> host'.jadx] /\ raced' \in BOOLEAN /\ moved' \in BOOLEAN
    BY <1>2, <1>5 DEF ToolForms
  <2> QED BY <1>4, <1>6, <2>1, FormsStep DEF CallPoints
<1>8. ToldInv'
  <2>1. Tool!dirExists(given'[c].info.root) BY <1>3, RootsAssumption DEF Tool!dirExists, Tool!Nothing, Tool!None
  <2> QED BY <1>4, <1>6, <2>1, ToldStep
<1>9. ServedInv'
  <2>1. ~raced' => ~raced /\ \A d \in Callers : call[d] = Tool!Idle BY <1>2 DEF ToolForms
  <2>2. ~raced' /\ ~moved' /\ toolCache' # <<>> => toolCache'[1] = Described(Tool!resolveRoot(host'.sdk))
    <3>1. ~raced' => \A d \in Callers : call[d].pc # "recheck" BY <2>1 DEF Tool!Idle
    <3> QED BY <1>2, <2>1, <3>1 DEF ServedInv, Now
  <2> QED BY <1>2, <1>4, <1>6, <2>1, <2>2, ServedStep
<1> QED BY <1>7, <1>8, <1>9

\* The steps of Info.
LEMMA ToolProbes ==
  ASSUME ToolInv, NEW c \in Callers, Tool!probe(c) \/ Tool!ProbeTools(c) \/ Tool!Cached(c) \/ Tool!Store(c)
  PROVE  ToolInv'
<1> USE DEF ToolInv
<1>1. UNCHANGED <<toolDisk, env, onPath, host, raced, moved>> /\ call[c].pc \in {"info", "tools", "store"}
  BY DEF Tool!probe, Tool!ProbeTools, Tool!Cached, Tool!Store, Tool!Keep
<1>2. call[c] # Tool!Idle BY <1>1 DEF Tool!Idle
<1>3. \A d \in Callers : ~raced /\ call[d].pc = "recheck" => FALSE
  <2> SUFFICES ASSUME NEW d \in Callers, ~raced, call[d].pc = "recheck" PROVE FALSE OBVIOUS
  <2>1. call[d] # Tool!Idle BY DEF Tool!Idle
  <2>2. c = d BY <1>2, <2>1 DEF ServedInv
  <2> QED BY <1>1, <2>2
<1>4. ~raced /\ ~moved /\ toolCache # <<>> => toolCache[1] = Described(Now) BY <1>3 DEF ServedInv
<1>5. given[c] = [info |-> given[c].info, old |-> given[c].old] BY DEF ToolForms
<1>6. host' = [sdk |-> host'.sdk, jadx |-> host'.jadx] /\ raced' \in BOOLEAN /\ moved' \in BOOLEAN BY <1>1 DEF ToolForms
<1>7. CASE Tool!probe(c)
  <2>1. PICK step : step = [pc |-> "tools", at |-> Now] OBVIOUS
  <2>2. call' = [call EXCEPT ![c] = step] /\ UNCHANGED <<toolCache, given>> BY <1>7, <2>1 DEF Tool!probe, Tool!Goes, Now
  <2>3. ToolGoes(c, step) BY <1>1, <1>5, <2>2 DEF ToolGoes, ToolForms
  <2>4. step.pc = "tools" /\ step # Tool!Idle /\ step.at = Now BY <2>1 DEF Tool!Idle
  <2>5. ToolForms' BY <1>6, <2>3, <2>4, FormsStep DEF CallPoints
  <2>6. Tool!dirExists(Now.root) BY NowFits DEF ToolForms, Now
  <2>7. ToldInv' BY <2>2, <2>3, <2>4, <2>6, ToldStep DEF ToldInv
  <2>8. ServedInv' BY <1>1, <1>2, <1>4, <2>2, <2>3, <2>4, ServedStep DEF Now
  <2> QED BY <2>5, <2>7, <2>8
<1>8. CASE Tool!ProbeTools(c)
  <2>1. PICK step : step = [pc |-> "store", info |-> Described(call[c].at)] OBVIOUS
  <2>2. call[c].pc = "tools" /\ call' = [call EXCEPT ![c] = step] /\ UNCHANGED <<toolCache, given>>
    BY <1>8, <2>1 DEF Tool!ProbeTools, Tool!Goes, Described
  <2>3. ToolGoes(c, step) BY <1>1, <1>5, <2>2 DEF ToolGoes, ToolForms
  <2>4. step.pc = "store" /\ step # Tool!Idle /\ step.info = Described(call[c].at) /\ step.info.root = call[c].at.root
    BY <2>1 DEF Tool!Idle, Described
  <2>5. ToolForms' BY <1>6, <2>3, <2>4, FormsStep DEF CallPoints
  <2>6. ToldInv' BY <2>2, <2>3, <2>4, ToldStep DEF ToldInv
  <2>7. ~raced /\ ~moved => call[c].at = Now BY <2>2 DEF ServedInv
  <2>8. ServedInv' BY <1>1, <1>2, <1>4, <2>2, <2>3, <2>4, <2>7, ServedStep DEF Now
  <2> QED BY <2>5, <2>6, <2>8
<1>9. CASE Tool!Cached(c) \/ Tool!Store(c)
  <2>1. PICK i : /\ given' = [given EXCEPT ![c] = [info |-> i, old |-> given[c].old]]
                 /\ call' = [call EXCEPT ![c] = Tool!Idle]
                 /\ \/ i = toolCache[1] /\ toolCache # <<>> /\ toolCache' = toolCache /\ Tool!dirExists(i.root)
                    \/ i = call[c].info /\ call[c].pc = "store" /\ toolCache' = <<i>>
    <3>1. CASE Tool!Cached(c) BY <3>1 DEF Tool!Cached, Tool!Told, Tool!Goes, Tool!Valid, ToolForms
    <3>2. CASE Tool!Store(c) BY <3>2 DEF Tool!Store, Tool!Told, Tool!Goes, ToolForms
    <3> QED BY <1>9, <3>1, <3>2
  <2>2. given'[c] = [info |-> i, old |-> given[c].old] BY <2>1 DEF ToolForms
  <2>3. ToolGoes(c, Tool!Idle)
    <3>1. given'[c].info = i /\ given'[c].old = given[c].old BY <2>2
    <3>2. given' = [given EXCEPT ![c] = [info |-> given'[c].info, old |-> given'[c].old]] BY <2>1, <3>1
    <3> QED BY <1>1, <2>1, <3>1, <3>2 DEF ToolGoes
  <2>4. Tool!Idle.pc = "idle" BY DEF Tool!Idle
  <2>5. ToolForms' BY <1>6, <2>3, <2>4, FormsStep DEF CallPoints
  <2>6. ~given[c].old => Tool!dirExists(i.root) BY <2>1 DEF ToldInv
  <2>7. ToldInv' BY <2>2, <2>3, <2>4, <2>6, ToldStep
  <2>8. ~raced /\ ~moved => i = Described(Now) BY <1>4, <2>1 DEF ServedInv
  <2>9. ~raced /\ ~moved => toolCache'[1] = Described(Now) BY <2>1, <2>8
  <2>10. ServedInv' BY <1>1, <1>2, <2>3, <2>4, <2>9, ServedStep DEF Now
  <2> QED BY <2>5, <2>7, <2>10
<1> QED BY <1>7, <1>8, <1>9

\* The cache is dropped, by a Recheck or behind a setter.
LEMMA ToolRechecks ==
  ASSUME ToolInv, NEW c \in Callers, Tool!RecheckAndroidSDK(c) \/ Tool!RecheckAfter(c)
  PROVE  ToolInv'
<1> USE DEF ToolInv
<1>1. PICK step : step = [pc |-> "info"] OBVIOUS
<1>2. /\ call' = [call EXCEPT ![c] = step] /\ toolCache' = <<>> /\ moved' = FALSE
      /\ raced' = (\E d \in Callers \ {c} : call[d] # Tool!Idle)
      /\ UNCHANGED <<toolDisk, env, onPath, host>>
  BY <1>1 DEF Tool!RecheckAndroidSDK, Tool!RecheckAfter, Tool!Recheck, Tool!Goes, Tool!Keep
<1>3. given' = given \/ given' = [given EXCEPT ![c] = [info |-> Tool!Nothing, old |-> FALSE]]
  BY DEF Tool!RecheckAndroidSDK, Tool!RecheckAfter, Tool!Asks
<1>4. given'[c] = given[c] \/ given'[c] = [info |-> Tool!Nothing, old |-> FALSE] BY <1>3 DEF ToolForms
<1>5. given[c] = [info |-> given[c].info, old |-> given[c].old] BY DEF ToolForms
<1>6. ToolGoes(c, step)
  <2>1. given' = [given EXCEPT ![c] = [info |-> given'[c].info, old |-> given'[c].old]]
    BY <1>3, <1>5 DEF ToolForms
  <2> QED BY <1>2, <1>4, <2>1 DEF ToolGoes
<1>7. step.pc = "info" /\ step # Tool!Idle BY <1>1 DEF Tool!Idle
<1>8. ToolForms'
  <2>1. host' = [sdk |-> host'.sdk, jadx |-> host'.jadx] /\ raced' \in BOOLEAN /\ moved' \in BOOLEAN BY <1>2 DEF ToolForms
  <2> QED BY <1>6, <1>7, <2>1, FormsStep DEF CallPoints
<1>9. ToldInv'
  <2>1. Tool!dirExists(Tool!Nothing.root) BY RootsAssumption DEF Tool!dirExists, Tool!Nothing, Tool!None
  <2>2. ~given'[c].old => Tool!dirExists(given'[c].info.root) BY <1>4, <2>1 DEF ToldInv
  <2> QED BY <1>6, <1>7, <2>2, ToldStep
<1>10. ServedInv' BY <1>2, <1>6, <1>7, ServedStep
<1> QED BY <1>8, <1>9, <1>10

\* The settings are replaced.
LEMMA ToolSets ==
  ASSUME ToolInv, NEW c \in Callers, Tool!HostStoreSet(c) \/ Tool!SetJadx(c) \/ Tool!SetFails(c)
  PROVE  ToolInv'
<1> USE DEF ToolInv
<1>1. call[c].pc \in {"sdk", "jadx"} /\ host' = call[c].hs /\ UNCHANGED <<toolDisk, env, onPath, toolCache, given, raced>>
  BY DEF Tool!HostStoreSet, Tool!SetJadx, Tool!SetFails, Tool!Keep
<1>2. PICK step : /\ call' = [call EXCEPT ![c] = step]
                  /\ \/ step = [pc |-> "recheck"] /\ moved' = moved
                     \/ step = Tool!Idle /\ moved' = TRUE
                     \/ step = Tool!Idle /\ moved' = moved /\ call[c].pc = "jadx"
  BY DEF Tool!HostStoreSet, Tool!SetJadx, Tool!SetFails, Tool!Goes
<1>3. step.pc \in {"recheck", "idle"} /\ (step.pc = "idle" <=> step = Tool!Idle) BY <1>2 DEF Tool!Idle
<1>4. given[c] = [info |-> given[c].info, old |-> given[c].old] BY DEF ToolForms
<1>5. ToolGoes(c, step) BY <1>1, <1>2, <1>4 DEF ToolGoes, ToolForms
<1>6. ToolForms'
  <2>1. host' = [sdk |-> host'.sdk, jadx |-> host'.jadx] BY <1>1 DEF ToolForms
  <2>2. raced' \in BOOLEAN /\ moved' \in BOOLEAN BY <1>1, <1>2 DEF ToolForms
  <2> QED BY <1>3, <1>5, <2>1, <2>2, FormsStep DEF CallPoints
<1>7. ToldInv' BY <1>1, <1>3, <1>5, ToldStep DEF ToldInv
<1>8. call[c] # Tool!Idle BY <1>1 DEF Tool!Idle
<1>9. ServedInv'
  <2>1. ~raced' /\ ~moved' /\ step.pc # "recheck" => call[c].pc = "jadx" /\ ~raced /\ ~moved
    BY <1>1, <1>2
  <2>2. ~raced' /\ ~moved' /\ step.pc # "recheck" => host'.sdk = host.sdk BY <1>1, <2>1 DEF ServedInv
  <2>3. ~raced /\ call[c].pc = "jadx" => \A d \in Callers : call[d].pc # "recheck"
    <3> SUFFICES ASSUME ~raced, call[c].pc = "jadx", NEW d \in Callers, call[d].pc = "recheck" PROVE FALSE OBVIOUS
    <3>1. call[d] # Tool!Idle BY DEF Tool!Idle
    <3>2. c = d BY <1>8, <3>1 DEF ServedInv
    <3> QED BY <3>2
  <2>4. ~raced' /\ ~moved' /\ toolCache' # <<>> =>
          toolCache'[1] = Described(Tool!resolveRoot(host'.sdk)) \/ step.pc = "recheck"
    BY <1>1, <2>1, <2>2, <2>3 DEF ServedInv, Now
  <2> QED BY <1>1, <1>3, <1>5, <1>8, <2>4, ServedStep
<1> QED BY <1>6, <1>7, <1>9

LEMMA ToolMoves == ASSUME ToolInv, NEW r, NEW l, Tool!Move(r, l) PROVE ToolInv'
<1> USE DEF ToolInv
<1>1. moved' = TRUE /\ UNCHANGED <<env, host, call, raced>> /\ given' = [c \in Callers |-> [given[c] EXCEPT !.old = TRUE]]
  BY DEF Tool!Move
<1>2. \A c \in Callers : given'[c] = [info |-> given[c].info, old |-> TRUE]
  <2> SUFFICES ASSUME NEW c \in Callers PROVE given'[c] = [info |-> given[c].info, old |-> TRUE] OBVIOUS
  <2>1. given[c] = [info |-> given[c].info, old |-> given[c].old] BY DEF ToolForms
  <2>2. given'[c] = [given[c] EXCEPT !.old = TRUE] BY <1>1
  <2>3. ASSUME NEW x, NEW y, NEW z PROVE [[info |-> x, old |-> y] EXCEPT !.old = z] = [info |-> x, old |-> z] OBVIOUS
  <2>4. [[info |-> given[c].info, old |-> given[c].old] EXCEPT !.old = TRUE] = [info |-> given[c].info, old |-> TRUE] BY <2>3, Zenon
  <2> QED BY <2>1, <2>2, <2>4, Zenon
<1>3. ToolForms' BY <1>1, <1>2 DEF ToolForms, EnvTypes
<1>4. ToldInv'
  <2>1. ASSUME NEW c \in Callers PROVE given'[c].old
    <3>1. given'[c] = [info |-> given[c].info, old |-> TRUE] BY <1>2
    <3> QED BY <3>1
  <2> QED BY <2>1, Zenon DEF ToldInv
<1>5. ServedInv' BY <1>1 DEF ServedInv
<1> QED BY <1>3, <1>4, <1>5

\* A folder that was chosen takes effect at once, and what a caller is told is there, over any
\* calls, folders and moves (sdk.go, host_store.go).
THEOREM ToolsServed == Tool!Spec => [](Tool!ChoiceIsServed /\ Tool!ToldWhatIsThere)
<1>1. ASSUME ToolInv, UNCHANGED Tool!vars PROVE ToolInv'
  <2>1. UNCHANGED <<toolDisk, env, host, onPath, toolCache, call, given, raced, moved>> BY <1>1 DEF Tool!vars
  <2>2. ToolForms' BY <1>1, <2>1 DEF ToolInv, ToolForms, EnvTypes
  <2>3. /\ \A s : (Tool!resolveRoot(s))' = Tool!resolveRoot(s) /\ \A at : (Described(at))' = Described(at)
        /\ \A r : (Tool!dirExists(r))' = Tool!dirExists(r)
    BY <2>1, LookStays
  <2>4. ToldInv' BY <1>1, <2>1, <2>3 DEF ToolInv, ToldInv
  <2>5. Now' = Now /\ (Described(Now))' = Described(Now) BY <2>1, <2>3 DEF Now
  <2>6. ServedInv' BY <1>1, <2>1, <2>5 DEF ToolInv, ServedInv
  <2> QED BY <2>2, <2>4, <2>6 DEF ToolInv
<1>2. ToolInv /\ [Tool!Next]_Tool!vars => ToolInv'
  BY <1>1, ToolBegins, ToolProbes, ToolRechecks, ToolSets, ToolMoves DEF Tool!Next
<1> QED BY <1>2, ToolStart, ToolInvIsTrue, PTL DEF Tool!Spec

-----------------------------------------------------------------------------
(* The caches of the host: an installed tree is whole, and jadx is opened   *)
(* with one application.                                                    *)

StagedFiles == [build : Nat, state : {"none", "part", "whole"}]
InstallStates == {i \in [pc : {"download", "open", "extract", "write"}, of : Kept!Tools,
                         left : SUBSET {"jadx-gui", "lib", "rootAVD.sh", "Magisk.zip"},
                         file : {"", "jadx-gui", "lib", "rootAVD.sh", "Magisk.zip"}] :
                    i.pc = "write" => i.file \in Kept!Files[i.of]}
OpenStates == {o \in [pc : {"version", "stage", "pull"}, of : {"stage"}, build : Nat, code : Nat, files : Seq(StagedFiles)] :
                 /\ o.pc = "version" => o.files = <<>>
                 /\ o.pc = "pull" => Len(o.files) < 2}

KeptTypes ==
  /\ tree = [t \in Kept!Tools |-> [f \in Kept!Files[t] |-> tree[t][f]]]
  /\ archive \in [Kept!Tools -> {"none", "whole", "bad"}] /\ archive["jadx"] # "bad"
  /\ app \in [build : Nat, code : Nat] /\ app.code <= app.build /\ app.build <= MaxBuilds
  /\ stage \in [Kept!Codes -> [{"base", "split"} -> StagedFiles]]
  /\ keptJob \in [Jobs -> {Kept!Idle} \cup InstallStates \cup OpenStates]
  /\ \A j \in Jobs : keptJob[j] \in OpenStates => keptJob[j].code \in Kept!Codes /\ Len(keptJob[j].files) <= 2
  /\ cut = [tools |-> cut.tools, codes |-> cut.codes]

\* An install that nothing came across is alone on its tool: nothing is taken for installed
\* until it has the files, and those it has extracted are whole.
TreeHolds(t) ==
  /\ \A i, j \in Kept!On(t) : i = j
  /\ Kept!On(t) = {} /\ Kept!Installed(t) => \A f \in Kept!Files[t] : tree[t][f] = "whole"
  /\ \A j \in Kept!On(t) :
       /\ keptJob[j].pc \in {"download", "open"} => ~Kept!Installed(t) /\ keptJob[j].left = Kept!Files[t]
       /\ keptJob[j].pc = "extract" /\ t = "jadx" =>
            \A f \in Kept!Files[t] \ keptJob[j].left : tree[t][f] = "whole"
       /\ keptJob[j].pc = "write" /\ t = "jadx" =>
            \A f \in Kept!Files[t] \ (keptJob[j].left \cup {keptJob[j].file}) : tree[t][f] = "whole"
TreeInv == \A t \in Kept!Tools : t \notin cut.tools => TreeHolds(t)

\* A call that stages the files of code c.
Stages(j, c) == keptJob[j] \in OpenStates /\ keptJob[j].pc \in {"stage", "pull"} /\ keptJob[j].code = c

\* A code that nothing came across is staged by one call at a time: only the file it is
\* pulling is not whole.
StageHolds(c) ==
  /\ \A i, j \in Jobs : Stages(i, c) /\ Stages(j, c) => i = j
  /\ \A s \in {"base", "split"} :
       \/ stage[c][s] = Kept!Absent \/ stage[c][s].state = "whole"
       \/ \E j \in Jobs : Stages(j, c) /\ keptJob[j].pc = "pull" /\ Kept!NextSplit(j) = s
  /\ \A j \in Jobs : Stages(j, c) => \A i \in DOMAIN keptJob[j].files : keptJob[j].files[i].state = "whole"
  /\ opened # <<>> /\ opened[1].code = c =>
       Len(opened[1].files) = 2 /\ \A i \in DOMAIN opened[1].files : opened[1].files[i].state = "whole"
StageInv == \A c \in Kept!Codes : c \notin cut.codes => StageHolds(c)

\* While each build has a code of its own, what is staged under a code is of that build,
\* and so is what a call has gathered.
JobBuilt(j) ==
  keptJob[j] \in OpenStates =>
    /\ keptJob[j].build <= app.build
    /\ keptJob[j].pc # "version" /\ keptJob[j].code # 0 =>
         /\ keptJob[j].build <= keptJob[j].code /\ keptJob[j].code <= app.build
         /\ keptJob[j].pc = "pull" => keptJob[j].build = keptJob[j].code
         /\ \A i \in DOMAIN keptJob[j].files : keptJob[j].files[i].build = keptJob[j].code
BuildInv ==
  app.code = app.build =>
    /\ \A c \in Kept!Codes, s \in {"base", "split"} : c # 0 /\ stage[c][s] # Kept!Absent => stage[c][s].build = c
    /\ \A j \in Jobs : JobBuilt(j)
    /\ opened # <<>> /\ opened[1].code # 0 => \A i \in DOMAIN opened[1].files : opened[1].files[i].build = opened[1].code

\* What jadx was opened with has a code.
OpenedTypes == opened # <<>> => opened = <<opened[1]>> /\ opened[1].code \in Kept!Codes

KeptInv == KeptTypes /\ OpenedTypes /\ TreeInv /\ StageInv /\ BuildInv

LEMMA KeptNames ==
  /\ Kept!Tools = {"jadx", "rootavd"}
  /\ Kept!Files["jadx"] = {"jadx-gui", "lib"} /\ Kept!Files["rootavd"] = {"rootAVD.sh", "Magisk.zip"}
  /\ Kept!Idle \notin InstallStates /\ Kept!Idle \notin OpenStates
  /\ \A x \in InstallStates : x \notin OpenStates
  /\ Kept!Codes = 0 .. MaxBuilds /\ MaxBuilds \in Nat \ {0}
BY BuildsAssumption DEF Kept!Tools, Kept!Files, Kept!Idle, InstallStates, OpenStates, Kept!Codes

LEMMA KeptStart == Kept!Init => KeptInv
<1> SUFFICES ASSUME Kept!Init PROVE KeptInv OBVIOUS
<1>1. \A j \in Jobs : keptJob[j] = Kept!Idle /\ keptJob[j].pc = "idle" BY DEF Kept!Init, Kept!Idle
<1>2. \A t \in Kept!Tools : Kept!On(t) = {} /\ ~Kept!Installed(t)
  <2>1. \A t \in Kept!Tools : Kept!On(t) = {} BY <1>1 DEF Kept!On
  <2>2. tree["jadx"]["jadx-gui"] = "none" /\ tree["rootavd"]["rootAVD.sh"] = "none" BY KeptNames DEF Kept!Init, Kept!Empty
  <2> QED BY <2>1, <2>2, KeptNames DEF Kept!Installed, Kept!jadxLauncher, Kept!RootAVDStatus
<1>3. \A c \in Kept!Codes, s \in {"base", "split"} : stage[c][s] = Kept!Absent BY DEF Kept!Init
<1>4. opened = <<>> BY DEF Kept!Init
<1>5. KeptTypes
  <2>1. Kept!Absent \in StagedFiles BY DEF Kept!Absent, StagedFiles
  <2>2. stage \in [Kept!Codes -> [{"base", "split"} -> StagedFiles]] BY <2>1 DEF Kept!Init
  <2>3. tree = [t \in Kept!Tools |-> [f \in Kept!Files[t] |-> tree[t][f]]] BY DEF Kept!Init, Kept!Empty
  <2>4. archive \in [Kept!Tools -> {"none", "whole", "bad"}] /\ archive["jadx"] # "bad" BY KeptNames DEF Kept!Init
  <2>5. app \in [build : Nat, code : Nat] /\ app.code <= app.build /\ app.build <= MaxBuilds BY KeptNames DEF Kept!Init
  <2>6. keptJob \in [Jobs -> {Kept!Idle} \cup InstallStates \cup OpenStates] BY DEF Kept!Init
  <2>7. cut = [tools |-> cut.tools, codes |-> cut.codes] BY DEF Kept!Init
  <2> QED BY <1>1, <2>2, <2>3, <2>4, <2>5, <2>6, <2>7, KeptNames DEF KeptTypes
<1>6. TreeInv BY <1>2 DEF TreeInv, TreeHolds
<1>7. StageInv BY <1>1, <1>3, <1>4, KeptNames DEF StageInv, StageHolds, Stages
<1>8. BuildInv BY <1>1, <1>3, <1>4, KeptNames DEF BuildInv, JobBuilt
<1> QED BY <1>4, <1>5, <1>6, <1>7, <1>8 DEF KeptInv, OpenedTypes

LEMMA KeptInvIsTrue == KeptInv => Kept!InstalledIsWhole /\ Kept!OpenedIsOneApp
<1> SUFFICES ASSUME KeptInv PROVE Kept!InstalledIsWhole /\ Kept!OpenedIsOneApp OBVIOUS
<1>1. Kept!InstalledIsWhole BY DEF KeptInv, TreeInv, TreeHolds, Kept!InstalledIsWhole
<1>2. ASSUME opened # <<>>
      PROVE  opened[1].code \notin cut.codes =>
        /\ Len(opened[1].files) = 2 /\ \A i \in DOMAIN opened[1].files : opened[1].files[i].state = "whole"
        /\ opened[1].code # 0 /\ app.code = app.build =>
             \A i \in DOMAIN opened[1].files : opened[1].files[i].build = opened[1].code
  <2>1. opened[1].code \in Kept!Codes BY <1>2 DEF KeptInv, OpenedTypes
  <2>2. opened[1].code \notin cut.codes => StageHolds(opened[1].code) BY <2>1 DEF KeptInv, StageInv
  <2> QED BY <1>2, <2>2 DEF StageHolds, KeptInv, BuildInv, JobBuilt
<1>3. Len(Kept!Splits) = 2 BY DEF Kept!Splits
<1>4. Kept!OpenedIsOneApp BY <1>2, <1>3 DEF Kept!OpenedIsOneApp
<1> QED BY <1>1, <1>4

\* A step that no call that stages takes leaves what is staged.
LEMMA StagesStay ==
  ASSUME KeptInv, \A k \in Jobs : keptJob[k] \in OpenStates \/ keptJob'[k] \in OpenStates => keptJob'[k] = keptJob[k],
         UNCHANGED <<stage, app, opened>>, cut'.codes = cut.codes
  PROVE  (OpenedTypes /\ StageInv /\ BuildInv)'
<1>1. \A k \in Jobs : keptJob'[k] \in OpenStates <=> keptJob[k] \in OpenStates OBVIOUS
<1>2. \A k \in Jobs : keptJob[k] \in OpenStates => keptJob'[k] = keptJob[k] OBVIOUS
<1>3. \A k \in Jobs, c \in Kept!Codes : Stages(k, c)' <=> Stages(k, c) BY <1>1, <1>2 DEF Stages
<1>4. \A k \in Jobs : keptJob[k] \in OpenStates => Kept!NextSplit(k)' = Kept!NextSplit(k)
  BY <1>2 DEF Kept!NextSplit
<1>5. StageInv'
  <2> SUFFICES ASSUME NEW c \in Kept!Codes, c \notin cut.codes PROVE StageHolds(c)' BY DEF StageInv
  <2>1. StageHolds(c) BY DEF KeptInv, StageInv
  <2>2. (\A i, k \in Jobs : Stages(i, c) /\ Stages(k, c) => i = k)' BY <1>3, <2>1 DEF StageHolds
  <2>3. ASSUME NEW s \in {"base", "split"}
        PROVE  (\/ stage[c][s] = Kept!Absent \/ stage[c][s].state = "whole"
                \/ \E k \in Jobs : Stages(k, c) /\ keptJob[k].pc = "pull" /\ Kept!NextSplit(k) = s)'
    BY <1>2, <1>3, <1>4, <2>1 DEF StageHolds, Stages, Kept!Absent
  <2>4. (\A k \in Jobs : Stages(k, c) => \A i \in DOMAIN keptJob[k].files : keptJob[k].files[i].state = "whole")'
    BY <1>2, <1>3, <2>1 DEF StageHolds, Stages
  <2> QED BY <2>1, <2>2, <2>3, <2>4 DEF StageHolds
<1>6. BuildInv' BY <1>1, <1>2 DEF KeptInv, BuildInv, JobBuilt, Kept!Absent
<1> QED BY <1>5, <1>6 DEF KeptInv, OpenedTypes

\* A step of a call on something else leaves a tool as it was.
LEMMA ToolStays ==
  ASSUME NEW t \in Kept!Tools, TreeHolds(t), tree'[t] = tree[t],
         NEW j \in Jobs, \A k \in Jobs \ {j} : keptJob'[k] = keptJob[k],
         j \notin Kept!On(t), j \notin Kept!On(t)'
  PROVE  TreeHolds(t)'
<1>1. Kept!On(t)' = Kept!On(t) BY DEF Kept!On
<1>2. \A k \in Kept!On(t) : k \in Jobs /\ keptJob'[k] = keptJob[k] BY DEF Kept!On
<1>3. Kept!Installed(t)' <=> Kept!Installed(t)
  BY KeptNames DEF Kept!Installed, Kept!jadxLauncher, Kept!RootAVDStatus
<1> QED BY <1>1, <1>2, <1>3 DEF TreeHolds

\* The calls on a tool after a step of one that was alone on it.
LEMMA StaysAlone ==
  ASSUME NEW t \in Kept!Tools, TreeHolds(t), NEW j \in Kept!On(t),
         \A k \in Jobs \ {j} : keptJob'[k] = keptJob[k]
  PROVE  Kept!On(t)' \subseteq {j}
<1>1. \A i, k \in Kept!On(t) : i = k BY DEF TreeHolds
<1>2. \A k \in Jobs \ {j} : k \notin Kept!On(t) BY <1>1
<1> QED BY <1>2 DEF Kept!On

\* A call on a tool is an install, and a call that stages is none on a tool.
LEMMA OnTool ==
  ASSUME KeptInv, NEW t \in Kept!Tools, NEW j \in Jobs
  PROVE  j \in Kept!On(t) <=> keptJob[j] \in InstallStates /\ keptJob[j].of = t
<1>1. keptJob[j] \in {Kept!Idle} \cup InstallStates \cup OpenStates BY DEF KeptInv, KeptTypes
<1>2. CASE keptJob[j] = Kept!Idle BY <1>2, KeptNames DEF Kept!On, Kept!Idle
<1>3. CASE keptJob[j] \in InstallStates BY <1>3 DEF Kept!On, InstallStates
<1>4. CASE keptJob[j] \in OpenStates BY <1>4, KeptNames DEF Kept!On, OpenStates
<1> QED BY <1>1, <1>2, <1>3, <1>4

\* The types, after a step of a call that stages nothing.
LEMMA InstallTyped ==
  ASSUME KeptInv, NEW j \in Jobs, NEW x \in {Kept!Idle} \cup InstallStates, keptJob' = [keptJob EXCEPT ![j] = x],
         tree' = [t \in Kept!Tools |-> [f \in Kept!Files[t] |-> tree'[t][f]]],
         archive' \in [Kept!Tools -> {"none", "whole", "bad"}], archive'["jadx"] # "bad",
         UNCHANGED <<stage, app>>, cut' = [tools |-> cut'.tools, codes |-> cut'.codes]
  PROVE  KeptTypes'
<1>1. keptJob' \in [Jobs -> {Kept!Idle} \cup InstallStates \cup OpenStates] BY DEF KeptInv, KeptTypes
<1>2. \A k \in Jobs : keptJob'[k] \in OpenStates => keptJob'[k] = keptJob[k]
  BY KeptNames DEF KeptInv, KeptTypes
<1>3. \A k \in Jobs : keptJob'[k] \in OpenStates => keptJob'[k].code \in Kept!Codes /\ Len(keptJob'[k].files) <= 2
  BY <1>2 DEF KeptInv, KeptTypes
<1> QED BY <1>1, <1>3 DEF KeptInv, KeptTypes, Kept!Codes

\* What a step of an install has to keep.
LEMMA InstallKeeps ==
  ASSUME KeptInv, NEW j \in Jobs, keptJob[j] \in InstallStates, NEW u \in Kept!Tools, keptJob[j].of = u,
         NEW x \in {Kept!Idle} \cup InstallStates, keptJob' = [keptJob EXCEPT ![j] = x],
         x # Kept!Idle => x.of = u,
         tree' = [t \in Kept!Tools |-> [f \in Kept!Files[t] |-> tree'[t][f]]],
         \A t \in Kept!Tools \ {u} : tree'[t] = tree[t],
         archive' \in [Kept!Tools -> {"none", "whole", "bad"}], archive'["jadx"] # "bad",
         UNCHANGED <<stage, app, opened, cut>>,
         TreeHolds(u) =>
           /\ x = Kept!Idle /\ Kept!Installed(u)' => \A f \in Kept!Files[u] : tree'[u][f] = "whole"
           /\ x # Kept!Idle =>
                /\ x.pc \in {"download", "open"} => ~Kept!Installed(u)' /\ x.left = Kept!Files[u]
                /\ x.pc = "extract" /\ u = "jadx" => \A f \in Kept!Files[u] \ x.left : tree'[u][f] = "whole"
                /\ x.pc = "write" /\ u = "jadx" =>
                     \A f \in Kept!Files[u] \ (x.left \cup {x.file}) : tree'[u][f] = "whole"
  PROVE  KeptInv'
<1>1. keptJob'[j] = x /\ \A k \in Jobs \ {j} : keptJob'[k] = keptJob[k] BY DEF KeptInv, KeptTypes
<1>2. KeptTypes' BY InstallTyped DEF KeptInv, KeptTypes
<1>3. (OpenedTypes /\ StageInv /\ BuildInv)'
  <2>1. keptJob[j] \notin OpenStates /\ keptJob'[j] \notin OpenStates BY <1>1, KeptNames
  <2> QED BY <1>1, <2>1, StagesStay
<1>4. TreeInv'
  <2> SUFFICES ASSUME NEW t \in Kept!Tools, t \notin cut.tools PROVE TreeHolds(t)' BY DEF TreeInv
  <2>1. TreeHolds(t) BY DEF KeptInv, TreeInv
  <2>2. x = Kept!Idle => x.pc = "idle" BY DEF Kept!Idle
  <2>3. ASSUME t # u PROVE TreeHolds(t)'
    <3>1. j \notin Kept!On(t) /\ j \notin Kept!On(t)' BY <1>1, <2>2, <2>3 DEF Kept!On
    <3> QED BY <1>1, <2>1, <2>3, <3>1, ToolStays
  <2>4. ASSUME t = u PROVE TreeHolds(t)'
    <3>1. j \in Kept!On(t) BY <2>4, OnTool
    <3>2. Kept!On(t)' \subseteq {j} BY <1>1, <2>1, <3>1, StaysAlone
    <3>3. x = Kept!Idle => Kept!On(t)' = {} BY <1>1, <2>2, <3>2 DEF Kept!On
    <3>4. x # Kept!Idle => j \in Kept!On(t)' BY <1>1, <2>4 DEF Kept!On, InstallStates
    <3>5. x = Kept!Idle => TreeHolds(t)' BY <2>1, <2>4, <3>3 DEF TreeHolds
    <3>6. x # Kept!Idle => TreeHolds(t)' BY <1>1, <2>1, <2>4, <3>2, <3>4 DEF TreeHolds
    <3> QED BY <3>5, <3>6
  <2> QED BY <2>3, <2>4
<1> QED BY <1>2, <1>3, <1>4 DEF KeptInv

LEMMA Installing ==
  ASSUME KeptInv, NEW j \in Jobs, keptJob[j].pc \in {"download", "open", "extract", "write"}
  PROVE  keptJob[j] \in InstallStates /\ keptJob[j].of \in Kept!Tools /\ j \in Kept!On(keptJob[j].of)
<1>1. keptJob[j] \in {Kept!Idle} \cup InstallStates \cup OpenStates BY DEF KeptInv, KeptTypes
<1>2. keptJob[j] # Kept!Idle BY DEF Kept!Idle
<1>3. keptJob[j] \notin OpenStates BY DEF OpenStates
<1>4. keptJob[j] \in InstallStates BY <1>1, <1>2, <1>3
<1> QED BY <1>4 DEF InstallStates, Kept!On

\* The trees after one of them is emptied, or one of its files is written.
LEMMA TreeEmptied ==
  ASSUME KeptTypes, NEW t \in Kept!Tools, tree' = [tree EXCEPT ![t] = Kept!Empty(t)]
  PROVE  /\ tree' = [u \in Kept!Tools |-> [f \in Kept!Files[u] |-> tree'[u][f]]]
         /\ \A u \in Kept!Tools \ {t} : tree'[u] = tree[u]
         /\ ~Kept!Installed(t)'
<1>1. \A u \in Kept!Tools \ {t} : tree'[u] = tree[u] BY DEF KeptTypes
<1>2. tree'[t] = [f \in Kept!Files[t] |-> "none"] BY DEF KeptTypes, Kept!Empty
<1>3. tree' = [u \in Kept!Tools |-> tree'[u]] BY DEF KeptTypes
<1>4. \A u \in Kept!Tools : tree'[u] = [f \in Kept!Files[u] |-> tree'[u][f]] BY <1>1, <1>2 DEF KeptTypes
<1>5. \A f \in Kept!Files[t] : tree'[t][f] = "none" BY <1>2
<1>6. ~Kept!Installed(t)' BY <1>5, KeptNames DEF Kept!Installed, Kept!jadxLauncher, Kept!RootAVDStatus
<1> QED BY <1>1, <1>3, <1>4, <1>6

LEMMA TreeWritten ==
  ASSUME KeptTypes, NEW t \in Kept!Tools, NEW f \in Kept!Files[t], NEW how \in {"part", "bad", "whole"},
         tree' = [tree EXCEPT ![t][f] = how]
  PROVE  /\ tree' = [u \in Kept!Tools |-> [g \in Kept!Files[u] |-> tree'[u][g]]]
         /\ \A u \in Kept!Tools \ {t} : tree'[u] = tree[u]
         /\ \A g \in Kept!Files[t] \ {f} : tree'[t][g] = tree[t][g]
         /\ tree'[t][f] = how
<1>1. \A u \in Kept!Tools \ {t} : tree'[u] = tree[u] BY DEF KeptTypes
<1>2. tree'[t] = [tree[t] EXCEPT ![f] = how] BY DEF KeptTypes
<1>3. tree' = [u \in Kept!Tools |-> tree'[u]] BY DEF KeptTypes
<1>4. tree[t] = [g \in Kept!Files[t] |-> tree[t][g]] BY DEF KeptTypes
<1>5. tree'[t] = [g \in Kept!Files[t] |-> tree'[t][g]] BY <1>2, <1>4
<1>6. \A u \in Kept!Tools \ {t} : tree'[u] = [g \in Kept!Files[u] |-> tree'[u][g]] BY <1>1 DEF KeptTypes
<1>7. \A g \in Kept!Files[t] \ {f} : tree'[t][g] = tree[t][g] BY <1>2, <1>4
<1>8. tree'[t][f] = how BY <1>2, <1>4
<1>9. \A u \in Kept!Tools : tree'[u] = [g \in Kept!Files[u] |-> tree'[u][g]] BY <1>5, <1>6
<1> QED BY <1>1, <1>3, <1>7, <1>8, <1>9

\* A step of an install that leaves the trees.
LEMMA TreeLeft ==
  ASSUME KeptInv, tree' = tree
  PROVE  /\ tree' = [u \in Kept!Tools |-> [f \in Kept!Files[u] |-> tree'[u][f]]]
         /\ \A u \in Kept!Tools : tree'[u] = tree[u] /\ (Kept!Installed(u)' <=> Kept!Installed(u))
BY DEF KeptInv, KeptTypes, Kept!Installed, Kept!jadxLauncher, Kept!RootAVDStatus

LEMMA ArchiveLeft ==
  ASSUME KeptInv, NEW t \in Kept!Tools, NEW a \in {"none", "whole", "bad"}, t = "jadx" => a # "bad",
         archive' = archive \/ archive' = [archive EXCEPT ![t] = a]
  PROVE  archive' \in [Kept!Tools -> {"none", "whole", "bad"}] /\ archive'["jadx"] # "bad"
BY KeptNames DEF KeptInv, KeptTypes

LEMMA DownloadKeeps == ASSUME KeptInv, NEW j \in Jobs, Kept!Download(j) PROVE KeptInv'
<1> USE DEF Kept!Download
<1>1. keptJob[j] \in InstallStates /\ keptJob[j].of \in Kept!Tools /\ j \in Kept!On(keptJob[j].of) BY Installing
<1> DEFINE x == [keptJob[j] EXCEPT !.pc = "open"]
<1>2. x \in InstallStates /\ x.pc = "open" /\ x.of = keptJob[j].of /\ x.left = keptJob[j].left BY <1>1 DEF InstallStates
<1>3. keptJob' = [keptJob EXCEPT ![j] = x] BY DEF Kept!To
<1>4. \E a \in {"none", "whole", "bad"} :
        (keptJob[j].of = "jadx" => a # "bad") /\ archive' = [archive EXCEPT ![keptJob[j].of] = a]
  <2>1. archive[keptJob[j].of] \in {"none", "whole", "bad"} /\ archive["jadx"] # "bad" BY <1>1 DEF KeptInv, KeptTypes
  <2> QED BY <2>1
<1>5. archive' \in [Kept!Tools -> {"none", "whole", "bad"}] /\ archive'["jadx"] # "bad" BY <1>1, <1>4, ArchiveLeft
<1>6. TreeHolds(keptJob[j].of) => ~Kept!Installed(keptJob[j].of) /\ keptJob[j].left = Kept!Files[keptJob[j].of]
  BY <1>1 DEF TreeHolds
<1>7. x # Kept!Idle BY <1>2, KeptNames
<1>8. UNCHANGED <<stage, app, opened, cut>> /\ tree' = tree OBVIOUS
<1> HIDE DEF x
<1> QED BY <1>1, <1>2, <1>3, <1>5, <1>6, <1>7, <1>8, TreeLeft, InstallKeeps

LEMMA DownloadFailsKeeps == ASSUME KeptInv, NEW j \in Jobs, Kept!DownloadFails(j) PROVE KeptInv'
<1> USE DEF Kept!DownloadFails
<1>1. keptJob[j] \in InstallStates /\ keptJob[j].of \in Kept!Tools /\ j \in Kept!On(keptJob[j].of) BY Installing
<1>2. keptJob' = [keptJob EXCEPT ![j] = Kept!Idle] BY DEF Kept!Ends
<1>3. archive' \in [Kept!Tools -> {"none", "whole", "bad"}] /\ archive'["jadx"] # "bad"
  BY DEF KeptInv, KeptTypes, Kept!diskVars
<1>4. TreeHolds(keptJob[j].of) => ~Kept!Installed(keptJob[j].of) BY <1>1 DEF TreeHolds
<1>5. UNCHANGED <<stage, app, opened, cut>> /\ tree' = tree BY DEF Kept!diskVars
<1> HIDE DEF Kept!DownloadFails
<1> QED BY <1>1, <1>2, <1>3, <1>4, <1>5, TreeLeft, InstallKeeps

LEMMA ExtractKeeps == ASSUME KeptInv, NEW j \in Jobs, Kept!Extract(j) PROVE KeptInv'
<1> USE DEF Kept!Extract
<1>1. keptJob[j] \in InstallStates /\ keptJob[j].of \in Kept!Tools /\ j \in Kept!On(keptJob[j].of) BY Installing
<1> DEFINE x == [keptJob[j] EXCEPT !.pc = "extract"]
<1>2. x \in InstallStates /\ x.pc = "extract" /\ x.of = keptJob[j].of /\ x.left = keptJob[j].left BY <1>1 DEF InstallStates
<1>3. keptJob' = [keptJob EXCEPT ![j] = x] BY DEF Kept!To
<1>4. archive' \in [Kept!Tools -> {"none", "whole", "bad"}] /\ archive'["jadx"] # "bad"
  BY DEF KeptInv, KeptTypes, Kept!diskVars
<1>5. TreeHolds(keptJob[j].of) => keptJob[j].left = Kept!Files[keptJob[j].of] BY <1>1 DEF TreeHolds
<1>6. x # Kept!Idle BY <1>2, KeptNames
<1>7. UNCHANGED <<stage, app, opened, cut>> /\ tree' = tree BY DEF Kept!diskVars
<1> HIDE DEF x, Kept!Extract
<1> QED BY <1>1, <1>2, <1>3, <1>4, <1>5, <1>6, <1>7, TreeLeft, InstallKeeps

\* A tree that is given up is empty.
LEMMA GivenUp ==
  ASSUME KeptInv, NEW j \in Jobs, keptJob[j].pc \in {"download", "open", "extract", "write"}, Kept!GiveUp(j)
  PROVE  KeptInv'
<1>1. keptJob[j] \in InstallStates /\ keptJob[j].of \in Kept!Tools BY Installing
<1>2. keptJob' = [keptJob EXCEPT ![j] = Kept!Idle] BY DEF Kept!GiveUp, Kept!Ends
<1>3. tree' = [tree EXCEPT ![keptJob[j].of] = Kept!Empty(keptJob[j].of)] BY DEF Kept!GiveUp
<1>4. archive' = [archive EXCEPT ![keptJob[j].of] = "none"] BY DEF Kept!GiveUp
<1>5. UNCHANGED <<stage, app, opened, cut>> BY DEF Kept!GiveUp
<1>6. archive' \in [Kept!Tools -> {"none", "whole", "bad"}] /\ archive'["jadx"] # "bad" BY <1>1, <1>4, ArchiveLeft
<1>7. /\ tree' = [u \in Kept!Tools |-> [f \in Kept!Files[u] |-> tree'[u][f]]]
      /\ \A u \in Kept!Tools \ {keptJob[j].of} : tree'[u] = tree[u]
      /\ \A u \in Kept!Tools : u = keptJob[j].of => ~Kept!Installed(u)'
  BY <1>1, <1>3, TreeEmptied DEF KeptInv
<1> QED BY <1>1, <1>2, <1>5, <1>6, <1>7, InstallKeeps

LEMMA ExtractFailsKeeps == ASSUME KeptInv, NEW j \in Jobs, Kept!ExtractFails(j) PROVE KeptInv'
BY GivenUp DEF Kept!ExtractFails

LEMMA RejectedKeeps == ASSUME KeptInv, NEW j \in Jobs, Kept!Rejected(j) PROVE KeptInv'
BY GivenUp DEF Kept!Rejected

LEMMA VerifiedKeeps == ASSUME KeptInv, NEW j \in Jobs, Kept!Verified(j) PROVE KeptInv'
<1>1. keptJob[j] \in InstallStates /\ keptJob[j].of \in Kept!Tools /\ j \in Kept!On(keptJob[j].of)
  BY Installing DEF Kept!Verified
<1>2. keptJob' = [keptJob EXCEPT ![j] = Kept!Idle] BY DEF Kept!Verified, Kept!Ends
<1>3. archive' = [archive EXCEPT ![keptJob[j].of] = "none"] BY DEF Kept!Verified
<1>4. archive' \in [Kept!Tools -> {"none", "whole", "bad"}] /\ archive'["jadx"] # "bad" BY <1>1, <1>3, ArchiveLeft
<1>5. UNCHANGED <<stage, app, opened, cut>> /\ tree' = tree BY DEF Kept!Verified
<1>6. TreeHolds(keptJob[j].of) => \A f \in Kept!Files[keptJob[j].of] : tree[keptJob[j].of][f] = "whole"
  <2>1. keptJob[j].pc = "extract" /\ keptJob[j].left = {} /\ Kept!Verifies(keptJob[j].of) BY DEF Kept!Verified
  <2>2. keptJob[j].of = "jadx" \/ keptJob[j].of = "rootavd" BY <1>1, KeptNames
  <2>3. keptJob[j].of = "rootavd" => \A f \in Kept!Files[keptJob[j].of] : tree[keptJob[j].of][f] = "whole"
    BY <2>1 DEF Kept!Verifies
  <2>4. keptJob[j].of = "jadx" /\ TreeHolds(keptJob[j].of) =>
          \A f \in Kept!Files[keptJob[j].of] : tree[keptJob[j].of][f] = "whole"
    BY <1>1, <2>1 DEF TreeHolds
  <2> QED BY <2>2, <2>3, <2>4
<1> QED BY <1>1, <1>2, <1>4, <1>5, <1>6, TreeLeft, InstallKeeps

LEMMA OpenFileKeeps ==
  ASSUME KeptInv, NEW j \in Jobs, NEW f, Kept!OpenFile(j, f),
         f \in Kept!Files[keptJob[j].of], f \in {"jadx-gui", "lib", "rootAVD.sh", "Magisk.zip"}
  PROVE  KeptInv'
<1>1. keptJob[j] \in InstallStates /\ keptJob[j].of \in Kept!Tools /\ j \in Kept!On(keptJob[j].of)
  BY Installing DEF Kept!OpenFile
<1> DEFINE x == [keptJob[j] EXCEPT !.pc = "write", !.file = f, !.left = @ \ {f}]
<1>2. x \in InstallStates /\ x.pc = "write" /\ x.of = keptJob[j].of /\ x.left = keptJob[j].left \ {f} /\ x.file = f
  BY <1>1 DEF InstallStates
<1>3. keptJob' = [keptJob EXCEPT ![j] = x] BY DEF Kept!OpenFile
<1>4. tree' = [tree EXCEPT ![keptJob[j].of][f] = "part"] BY DEF Kept!OpenFile
<1>5. /\ tree' = [u \in Kept!Tools |-> [g \in Kept!Files[u] |-> tree'[u][g]]]
      /\ \A u \in Kept!Tools \ {keptJob[j].of} : tree'[u] = tree[u]
      /\ \A g \in Kept!Files[keptJob[j].of] \ {f} : tree'[keptJob[j].of][g] = tree[keptJob[j].of][g]
  <2>1. KeptTypes BY DEF KeptInv
  <2> QED BY <1>1, <1>4, <2>1, TreeWritten
<1>6. archive' \in [Kept!Tools -> {"none", "whole", "bad"}] /\ archive'["jadx"] # "bad"
  BY DEF KeptInv, KeptTypes, Kept!OpenFile
<1>7. TreeHolds(keptJob[j].of) /\ keptJob[j].of = "jadx" =>
        \A g \in Kept!Files[keptJob[j].of] \ keptJob[j].left : tree[keptJob[j].of][g] = "whole"
  BY <1>1 DEF TreeHolds, Kept!OpenFile
<1>8. x # Kept!Idle BY <1>2, KeptNames
<1>9. UNCHANGED <<stage, app, opened, cut>> BY DEF Kept!OpenFile
<1> HIDE DEF x
<1> QED BY <1>1, <1>2, <1>3, <1>5, <1>6, <1>7, <1>8, <1>9, InstallKeeps, ZenonT(40)

LEMMA EntryKeeps ==
  ASSUME KeptInv, NEW j \in Jobs, Kept!EntryWritten(j), NEW f, NEW how,
         f = keptJob[j].file, f \in Kept!Files[keptJob[j].of],
         tree' = [tree EXCEPT ![keptJob[j].of][f] = how], how \in {"bad", "whole"}, keptJob[j].of = "jadx" => how = "whole"
  PROVE  KeptInv'
<1>1. keptJob[j] \in InstallStates /\ keptJob[j].of \in Kept!Tools /\ j \in Kept!On(keptJob[j].of)
  BY Installing DEF Kept!EntryWritten
<1> DEFINE x == [keptJob[j] EXCEPT !.pc = "extract"]
<1>2. x \in InstallStates /\ x.pc = "extract" /\ x.of = keptJob[j].of /\ x.left = keptJob[j].left BY <1>1 DEF InstallStates
<1>3. keptJob' = [keptJob EXCEPT ![j] = x] BY DEF Kept!EntryWritten, Kept!To
<1>4. KeptTypes BY DEF KeptInv
<1>5. /\ tree' = [u \in Kept!Tools |-> [g \in Kept!Files[u] |-> tree'[u][g]]]
      /\ \A u \in Kept!Tools \ {keptJob[j].of} : tree'[u] = tree[u]
      /\ \A g \in Kept!Files[keptJob[j].of] \ {f} : tree'[keptJob[j].of][g] = tree[keptJob[j].of][g]
      /\ tree'[keptJob[j].of][f] = how
  <2> HIDE DEF x
  <2>1. tree' = [tree EXCEPT ![keptJob[j].of][f] = how] OBVIOUS
  <2>2. PICK u \in Kept!Tools : u = keptJob[j].of BY <1>1
  <2>3. f \in Kept!Files[u] BY <2>2
  <2>4. tree' = [tree EXCEPT ![u][f] = how] BY <2>1, <2>2
  <2>5. how \in {"part", "bad", "whole"} OBVIOUS
  <2>6. tree' = [v \in Kept!Tools |-> [g \in Kept!Files[v] |-> tree'[v][g]]] BY <1>4, <2>3, <2>4, <2>5, TreeWritten, ZenonT(40)
  <2>7. \A v \in Kept!Tools \ {u} : tree'[v] = tree[v] BY <1>4, <2>3, <2>4, <2>5, TreeWritten
  <2>8. \A g \in Kept!Files[u] \ {f} : tree'[u][g] = tree[u][g] BY <1>4, <2>3, <2>4, <2>5, TreeWritten
  <2>9. tree'[u][f] = how
    <3>1. tree'[u] = [tree[u] EXCEPT ![f] = how] BY <1>4, <2>4 DEF KeptTypes
    <3>2. tree[u] = [g \in Kept!Files[u] |-> tree[u][g]] BY <1>4 DEF KeptTypes
    <3> QED BY <2>3, <3>1, <3>2
  <2> QED BY <2>2, <2>6, <2>7, <2>8, <2>9
<1>6. archive' \in [Kept!Tools -> {"none", "whole", "bad"}] /\ archive'["jadx"] # "bad"
  BY DEF KeptInv, KeptTypes, Kept!EntryWritten
<1>7. TreeHolds(keptJob[j].of) /\ keptJob[j].of = "jadx" =>
        \A g \in Kept!Files[keptJob[j].of] \ (keptJob[j].left \cup {f}) : tree[keptJob[j].of][g] = "whole"
  BY <1>1 DEF TreeHolds, Kept!EntryWritten
<1>8. TreeHolds(keptJob[j].of) /\ keptJob[j].of = "jadx" =>
        \A g \in Kept!Files[keptJob[j].of] \ keptJob[j].left : tree'[keptJob[j].of][g] = "whole"
  BY <1>5, <1>7
<1>9. x # Kept!Idle BY <1>2, KeptNames
<1>10. UNCHANGED <<stage, app, opened, cut>> BY DEF Kept!EntryWritten
<1> HIDE DEF x
<1>11. x \in {Kept!Idle} \cup InstallStates BY <1>2
<1>12. keptJob[j] \in InstallStates /\ keptJob[j].of \in Kept!Tools BY <1>1
<1>13. /\ tree' = [u \in Kept!Tools |-> [g \in Kept!Files[u] |-> tree'[u][g]]]
       /\ \A u \in Kept!Tools \ {keptJob[j].of} : tree'[u] = tree[u]
  BY <1>5
<1>14. PICK u \in Kept!Tools : u = keptJob[j].of BY <1>12
<1>15. TreeHolds(u) =>
         /\ x = Kept!Idle /\ Kept!Installed(u)' => \A g \in Kept!Files[u] : tree'[u][g] = "whole"
         /\ x # Kept!Idle =>
              /\ x.pc \in {"download", "open"} => ~Kept!Installed(u)' /\ x.left = Kept!Files[u]
              /\ x.pc = "extract" /\ u = "jadx" => \A g \in Kept!Files[u] \ x.left : tree'[u][g] = "whole"
              /\ x.pc = "write" /\ u = "jadx" =>
                   \A g \in Kept!Files[u] \ (x.left \cup {x.file}) : tree'[u][g] = "whole"
  BY <1>2, <1>8, <1>9, <1>14
<1> QED BY <1>2, <1>3, <1>6, <1>10, <1>11, <1>12, <1>13, <1>14, <1>15, InstallKeeps, ZenonT(40)

LEMMA EntryWrittenKeeps == ASSUME KeptInv, NEW j \in Jobs, Kept!EntryWritten(j) PROVE KeptInv'
<1>1. keptJob[j] \in InstallStates BY Installing DEF Kept!EntryWritten
<1>2. keptJob[j].file \in Kept!Files[keptJob[j].of] BY <1>1 DEF InstallStates, Kept!EntryWritten
<1>3. \E how \in {"bad", "whole"} : /\ tree' = [tree EXCEPT ![keptJob[j].of][keptJob[j].file] = how]
                                    /\ keptJob[j].of = "jadx" => how = "whole"
  BY DEF Kept!EntryWritten, KeptInv, KeptTypes
<1> QED BY <1>2, <1>3, EntryKeeps

LEMMA InstallStarts == ASSUME KeptInv, NEW j \in Jobs, NEW t \in Kept!Tools, Kept!Install(j, t) PROVE KeptInv'
<1> USE DEF Kept!Install
<1> DEFINE x == [pc |-> "download", of |-> t, left |-> Kept!Files[t], file |-> ""]
<1>1. x \in InstallStates /\ x.of = t /\ x.pc = "download" /\ x.left = Kept!Files[t]
  <2>1. Kept!Files[t] \in SUBSET {"jadx-gui", "lib", "rootAVD.sh", "Magisk.zip"} BY KeptNames
  <2> HIDE DEF Kept!Install
  <2>2. x \in [pc : {"download", "open", "extract", "write"}, of : Kept!Tools,
               left : SUBSET {"jadx-gui", "lib", "rootAVD.sh", "Magisk.zip"},
               file : {"", "jadx-gui", "lib", "rootAVD.sh", "Magisk.zip"}]
    BY <2>1
  <2>3. x.pc # "write" OBVIOUS
  <2> HIDE DEF x
  <2>4. x \in InstallStates BY <2>2, <2>3 DEF InstallStates
  <2> USE DEF x
  <2> QED BY <2>4
<1>2. keptJob'[j] = x /\ \A k \in Jobs \ {j} : keptJob'[k] = keptJob[k] BY DEF KeptInv, KeptTypes
<1>3. cut' = [tools |-> cut.tools \cup {u \in {t} : Kept!On(t) # {}}, codes |-> cut.codes]
  <2>1. cut = [tools |-> cut.tools, codes |-> cut.codes] BY DEF KeptInv, KeptTypes
  <2>2. cut' = [cut EXCEPT !.tools = cut.tools \cup {u \in {t} : Kept!On(t) # {}}] OBVIOUS
  <2> QED BY <2>1, <2>2
<1>4. KeptTypes'
  <2>1. archive' \in [Kept!Tools -> {"none", "whole", "bad"}] /\ archive'["jadx"] # "bad"
    BY DEF KeptInv, KeptTypes, Kept!diskVars
  <2>2. tree' = tree /\ UNCHANGED <<stage, app>> BY DEF Kept!diskVars
  <2>3. cut' = [tools |-> cut'.tools, codes |-> cut'.codes] BY <1>3
  <2>4. tree' = [u \in Kept!Tools |-> [f \in Kept!Files[u] |-> tree'[u][f]]] BY <2>2, TreeLeft
  <2>5. keptJob' = [keptJob EXCEPT ![j] = x] OBVIOUS
  <2> HIDE DEF x, Kept!Install
  <2> QED BY <1>1, <2>1, <2>2, <2>3, <2>4, <2>5, InstallTyped
<1>5. (OpenedTypes /\ StageInv /\ BuildInv)'
  <2>1. keptJob[j] \notin OpenStates /\ keptJob'[j] \notin OpenStates BY <1>1, <1>2, KeptNames
  <2>2. UNCHANGED <<stage, app, opened>> /\ cut'.codes = cut.codes BY <1>3 DEF Kept!diskVars
  <2> QED BY <1>2, <2>1, <2>2, StagesStay
<1>6. TreeInv'
  <2> SUFFICES ASSUME NEW u \in Kept!Tools, u \notin cut'.tools PROVE TreeHolds(u)' BY DEF TreeInv
  <2>1. u \notin cut.tools /\ TreeHolds(u) BY <1>3 DEF KeptInv, TreeInv
  <2>2. tree' = tree BY DEF Kept!diskVars
  <2>3. j \notin Kept!On(u) 
    <3>1. keptJob[j] = Kept!Idle OBVIOUS
    <3>2. Kept!Idle.pc = "idle" BY DEF Kept!Idle
    <3> QED BY <3>1, <3>2 DEF Kept!On
  <2>4. ASSUME u # t PROVE TreeHolds(u)'
    <3>1. j \notin Kept!On(u)' BY <1>1, <1>2, <2>4 DEF Kept!On
    <3> QED BY <1>2, <2>1, <2>2, <2>3, <3>1, ToolStays
  <2>5. ASSUME u = t PROVE TreeHolds(u)'
    <3>1. Kept!On(u) = {} BY <1>3, <2>5
    <3>2. Kept!On(u)' = {j}
      <4>1. \A k \in Jobs \ {j} : k \notin Kept!On(u)' BY <1>2, <3>1 DEF Kept!On
      <4>2. keptJob'[j].pc # "idle" /\ keptJob'[j].of = u BY <1>1, <1>2, <2>5
      <4> HIDE DEF Kept!Install
      <4> QED BY <4>1, <4>2 DEF Kept!On
    <3>3. ~Kept!Installed(u)' BY <2>2, <2>5, TreeLeft
    <3> HIDE DEF x
    <3> QED BY <1>1, <1>2, <2>5, <3>2, <3>3 DEF TreeHolds
  <2> QED BY <2>4, <2>5
<1> QED BY <1>4, <1>5, <1>6 DEF KeptInv

LEMMA RemoveKeeps == ASSUME KeptInv, NEW t \in Kept!Tools, Kept!Remove(t) PROVE KeptInv'
<1> USE DEF Kept!Remove
<1>1. cut' = [tools |-> cut.tools \cup {u \in {t} : Kept!On(t) # {}}, codes |-> cut.codes]
  <2>1. cut = [tools |-> cut.tools, codes |-> cut.codes] BY DEF KeptInv, KeptTypes
  <2>2. cut' = [cut EXCEPT !.tools = cut.tools \cup {u \in {t} : Kept!On(t) # {}}] OBVIOUS
  <2> QED BY <2>1, <2>2
<1>2. /\ tree' = [u \in Kept!Tools |-> [f \in Kept!Files[u] |-> tree'[u][f]]]
      /\ \A u \in Kept!Tools \ {t} : tree'[u] = tree[u]
      /\ ~Kept!Installed(t)'
  BY TreeEmptied DEF KeptInv
<1>3. archive' \in [Kept!Tools -> {"none", "whole", "bad"}] /\ archive'["jadx"] # "bad" BY ArchiveLeft
<1>4. cut' = [tools |-> cut'.tools, codes |-> cut'.codes] /\ cut'.codes = cut.codes BY <1>1
<1>5. KeptTypes' BY <1>2, <1>3, <1>4 DEF KeptInv, KeptTypes, Kept!Codes
<1>6. (OpenedTypes /\ StageInv /\ BuildInv)' BY <1>4, StagesStay
<1>7. TreeInv'
  <2> SUFFICES ASSUME NEW u \in Kept!Tools, u \notin cut'.tools PROVE TreeHolds(u)' BY DEF TreeInv
  <2>1. u \notin cut.tools /\ TreeHolds(u) BY <1>1 DEF KeptInv, TreeInv
  <2>2. Kept!On(u)' = Kept!On(u) /\ \A k \in Kept!On(u) : keptJob'[k] = keptJob[k] BY DEF Kept!On
  <2>3. ASSUME u # t PROVE TreeHolds(u)'
    <3>1. tree'[u] = tree[u] BY <1>2, <2>3
    <3>2. Kept!Installed(u)' <=> Kept!Installed(u)
      BY <3>1, KeptNames DEF Kept!Installed, Kept!jadxLauncher, Kept!RootAVDStatus
    <3> QED BY <2>1, <2>2, <3>1, <3>2 DEF TreeHolds
  <2>4. ASSUME u = t PROVE TreeHolds(u)'
    <3>1. Kept!On(u)' = {} BY <1>1, <2>2, <2>4
    <3> QED BY <1>2, <2>4, <3>1 DEF TreeHolds
  <2> QED BY <2>3, <2>4
<1> QED BY <1>5, <1>6, <1>7 DEF KeptInv

LEMMA RebuildKeeps == ASSUME KeptInv, Kept!Rebuild PROVE KeptInv'
<1> USE DEF Kept!Rebuild
<1>1. UNCHANGED <<tree, archive, stage, keptJob, opened, cut>> BY DEF Kept!diskVars
<1>2. app \in [build : Nat, code : Nat] /\ app.code <= app.build /\ app.build <= MaxBuilds BY DEF KeptInv, KeptTypes
<1>3. /\ app'.build = app.build + 1 /\ app'.code \in {app.code, app.code + 1}
      /\ app' = [build |-> app'.build, code |-> app'.code]
  OBVIOUS
<1>4. /\ app' \in [build : Nat, code : Nat] /\ app'.code <= app'.build /\ app'.build <= MaxBuilds
      /\ app.build <= app'.build
  BY <1>2, <1>3, KeptNames
<1>5. app'.code = app'.build => app.code = app.build BY <1>2, <1>3
<1> HIDE DEF Kept!Rebuild
<1>6. KeptTypes' BY <1>1, <1>4 DEF KeptInv, KeptTypes, Kept!Codes
<1>7. TreeInv'
  BY <1>1 DEF KeptInv, TreeInv, TreeHolds, Kept!On, Kept!Installed, Kept!jadxLauncher, Kept!RootAVDStatus
<1>8. (OpenedTypes /\ StageInv)'
  BY <1>1 DEF KeptInv, OpenedTypes, StageInv, StageHolds, Stages, Kept!NextSplit, Kept!Codes
<1>9. BuildInv'
  <2> SUFFICES ASSUME app'.code = app'.build PROVE BuildInv' BY DEF BuildInv
  <2>1. app.code = app.build BY <1>5
  <2>2. (\A c \in Kept!Codes, s \in {"base", "split"} : c # 0 /\ stage[c][s] # Kept!Absent => stage[c][s].build = c)'
    BY <1>1, <2>1 DEF KeptInv, BuildInv, JobBuilt, Kept!Absent, Kept!Codes
  <2>3. (opened # <<>> /\ opened[1].code # 0 =>
           \A i \in DOMAIN opened[1].files : opened[1].files[i].build = opened[1].code)'
    BY <1>1, <2>1 DEF KeptInv, BuildInv, JobBuilt
  <2>4. ASSUME NEW j \in Jobs, keptJob[j] \in OpenStates
        PROVE  /\ keptJob[j].build <= app'.build
               /\ keptJob[j].pc # "version" /\ keptJob[j].code # 0 =>
                    /\ keptJob[j].build <= keptJob[j].code /\ keptJob[j].code <= app'.build
                    /\ keptJob[j].pc = "pull" => keptJob[j].build = keptJob[j].code
                    /\ \A i \in DOMAIN keptJob[j].files : keptJob[j].files[i].build = keptJob[j].code
    <3>1. keptJob[j].build \in Nat /\ keptJob[j].code \in Nat BY <2>4 DEF OpenStates
    <3>2. /\ keptJob[j].build <= app.build
          /\ keptJob[j].pc # "version" /\ keptJob[j].code # 0 =>
               /\ keptJob[j].build <= keptJob[j].code /\ keptJob[j].code <= app.build
               /\ keptJob[j].pc = "pull" => keptJob[j].build = keptJob[j].code
               /\ \A i \in DOMAIN keptJob[j].files : keptJob[j].files[i].build = keptJob[j].code
      BY <2>1, <2>4 DEF KeptInv, BuildInv, JobBuilt
    <3> QED BY <1>2, <1>4, <3>1, <3>2
  <2> QED BY <1>1, <2>2, <2>3, <2>4 DEF BuildInv, JobBuilt
<1> QED BY <1>6, <1>7, <1>8, <1>9 DEF KeptInv

LEMMA CrashKeeps == ASSUME KeptInv, Kept!Crash PROVE KeptInv'
<1>1. UNCHANGED <<tree, archive, stage, app, opened>> BY DEF Kept!Crash, Kept!diskVars
<1>2. \A j \in Jobs : keptJob'[j] = Kept!Idle /\ keptJob'[j].pc = "idle" BY DEF Kept!Crash, Kept!Idle
<1>3. cut' = [tools |-> cut.tools \cup {t \in Kept!Tools : \E j \in Kept!On(t) : keptJob[j].pc \in {"extract", "write"}},
              codes |-> cut.codes \cup {keptJob[j].code : j \in {i \in Kept!On("stage") : keptJob[i].pc = "pull"}}]
  BY DEF Kept!Crash
<1>4. \A t \in Kept!Tools : Kept!On(t)' = {} BY <1>2 DEF Kept!On
<1>5. \A j \in Jobs : keptJob'[j] \notin OpenStates BY <1>2, KeptNames
<1>6. KeptTypes'
  <2>1. keptJob' = [j \in Jobs |-> Kept!Idle] BY DEF Kept!Crash
  <2>2. keptJob' \in [Jobs -> {Kept!Idle} \cup InstallStates \cup OpenStates] BY <2>1
  <2>3. cut' = [tools |-> cut'.tools, codes |-> cut'.codes] BY <1>3
  <2> QED BY <1>1, <1>5, <2>2, <2>3 DEF KeptInv, KeptTypes, Kept!Codes
<1>7. TreeInv'
  <2> SUFFICES ASSUME NEW t \in Kept!Tools, t \notin cut'.tools PROVE TreeHolds(t)' BY DEF TreeInv
  <2>1. t \notin cut.tools /\ \A j \in Kept!On(t) : keptJob[j].pc \notin {"extract", "write"} BY <1>3
  <2>2. TreeHolds(t) BY <2>1 DEF KeptInv, TreeInv
  <2>3. Kept!Installed(t)' <=> Kept!Installed(t) BY <1>1, TreeLeft
  <2>4. ASSUME Kept!Installed(t) PROVE Kept!On(t) = {}
    <3> SUFFICES ASSUME NEW j \in Kept!On(t) PROVE FALSE OBVIOUS
    <3>1. j \in Jobs BY DEF Kept!On
    <3>2. keptJob[j] \in InstallStates BY <3>1, OnTool
    <3>3. keptJob[j].pc \in {"download", "open"} BY <2>1, <3>2 DEF InstallStates
    <3> QED BY <2>2, <2>4, <3>3 DEF TreeHolds
  <2> QED BY <1>1, <1>4, <2>2, <2>3, <2>4 DEF TreeHolds
<1>8. StageInv'
  <2> SUFFICES ASSUME NEW c \in Kept!Codes, c \notin cut'.codes PROVE StageHolds(c)' BY DEF StageInv, Kept!Codes
  <2>1. c \notin cut.codes /\ \A j \in Kept!On("stage") : keptJob[j].pc = "pull" => keptJob[j].code # c BY <1>3
  <2>2. StageHolds(c) BY <2>1 DEF KeptInv, StageInv
  <2>3. ASSUME NEW j \in Jobs, Stages(j, c) PROVE keptJob[j].pc # "pull"
    BY <2>1, <2>3 DEF Stages, OpenStates, Kept!On
  <2>4. \A s \in {"base", "split"} : stage[c][s] = Kept!Absent \/ stage[c][s].state = "whole"
    BY <2>2, <2>3 DEF StageHolds
  <2>5. \A j \in Jobs : ~Stages(j, c)' BY <1>5 DEF Stages
  <2> QED BY <1>1, <2>2, <2>4, <2>5 DEF StageHolds, Kept!Absent
<1>9. BuildInv' BY <1>1, <1>5 DEF KeptInv, BuildInv, JobBuilt, Kept!Absent, Kept!Codes
<1> QED BY <1>1, <1>6, <1>7, <1>8, <1>9 DEF KeptInv, OpenedTypes, Kept!Codes

LEMMA Opening ==
  ASSUME KeptInv, NEW j \in Jobs, keptJob[j].pc \in {"version", "stage", "pull"}
  PROVE  keptJob[j] \in OpenStates /\ keptJob[j].code \in Kept!Codes /\ Len(keptJob[j].files) <= 2
<1>1. keptJob[j] \in {Kept!Idle} \cup InstallStates \cup OpenStates BY DEF KeptInv, KeptTypes
<1>2. keptJob[j] # Kept!Idle BY DEF Kept!Idle
<1>3. keptJob[j] \notin InstallStates BY DEF InstallStates
<1> QED BY <1>1, <1>2, <1>3 DEF KeptInv, KeptTypes

\* A step of a call that installs nothing leaves the trees, and keeps the types.
LEMMA TreesStay ==
  ASSUME KeptInv, NEW j \in Jobs, keptJob[j] \notin InstallStates,
         NEW x \in {Kept!Idle} \cup OpenStates, keptJob' = [keptJob EXCEPT ![j] = x],
         x \in OpenStates => x.code \in Kept!Codes /\ Len(x.files) <= 2,
         UNCHANGED <<tree, archive, app>>, stage' \in [Kept!Codes -> [{"base", "split"} -> StagedFiles]],
         cut' = [tools |-> cut.tools, codes |-> cut'.codes]
  PROVE  KeptTypes' /\ TreeInv'
<1>1. keptJob'[j] = x /\ \A k \in Jobs \ {j} : keptJob'[k] = keptJob[k] BY DEF KeptInv, KeptTypes
<1>2. keptJob' \in [Jobs -> {Kept!Idle} \cup InstallStates \cup OpenStates] BY DEF KeptInv, KeptTypes
<1>3. \A k \in Jobs : keptJob'[k] \in OpenStates => keptJob'[k].code \in Kept!Codes /\ Len(keptJob'[k].files) <= 2
  BY <1>1, KeptNames DEF KeptInv, KeptTypes
<1>4. KeptTypes' BY <1>2, <1>3 DEF KeptInv, KeptTypes, Kept!Codes
<1>5. TreeInv'
  <2> SUFFICES ASSUME NEW t \in Kept!Tools, t \notin cut.tools PROVE TreeHolds(t)' BY DEF TreeInv
  <2>1. TreeHolds(t) BY DEF KeptInv, TreeInv
  <2>2. j \notin Kept!On(t) BY OnTool
  <2>3. j \notin Kept!On(t)' BY <1>1, KeptNames DEF Kept!On, Kept!Idle, OpenStates
  <2> QED BY <1>1, <2>1, <2>2, <2>3, ToolStays
<1> QED BY <1>4, <1>5

\* A step of a call that stages nothing of a code, before or after it, leaves that code.
LEMMA CodeStays ==
  ASSUME NEW j \in Jobs, \A k \in Jobs \ {j} : keptJob'[k] = keptJob[k],
         NEW c \in Kept!Codes, StageHolds(c), ~Stages(j, c), ~Stages(j, c)', stage'[c] = stage[c],
         opened' # <<>> /\ opened'[1].code = c => opened' = opened
  PROVE  StageHolds(c)'
<1>1. \A k \in Jobs : Stages(k, c)' <=> Stages(k, c) BY DEF Stages
<1>2. \A k \in Jobs : Stages(k, c) => keptJob'[k] = keptJob[k] OBVIOUS
<1>3. \A k \in Jobs : Stages(k, c) => Kept!NextSplit(k)' = Kept!NextSplit(k) BY <1>2 DEF Kept!NextSplit
<1>4. (\A i, k \in Jobs : Stages(i, c) /\ Stages(k, c) => i = k)' BY <1>1 DEF StageHolds
<1>5. ASSUME NEW s \in {"base", "split"}
      PROVE  (\/ stage[c][s] = Kept!Absent \/ stage[c][s].state = "whole"
              \/ \E k \in Jobs : Stages(k, c) /\ keptJob[k].pc = "pull" /\ Kept!NextSplit(k) = s)'
  BY <1>1, <1>2, <1>3 DEF StageHolds, Kept!Absent
<1>6. (\A k \in Jobs : Stages(k, c) => \A i \in DOMAIN keptJob[k].files : keptJob[k].files[i].state = "whole")'
  BY <1>1, <1>2 DEF StageHolds
<1>7. (opened # <<>> /\ opened[1].code = c =>
         Len(opened[1].files) = 2 /\ \A i \in DOMAIN opened[1].files : opened[1].files[i].state = "whole")'
  BY DEF StageHolds
<1> QED BY <1>4, <1>5, <1>6, <1>7 DEF StageHolds

\* What a call that is alone on a code has to keep.
LEMMA CodeAlone ==
  ASSUME NEW j \in Jobs, \A k \in Jobs \ {j} : keptJob'[k] = keptJob[k],
         NEW c \in Kept!Codes, \A k \in Jobs \ {j} : ~Stages(k, c),
         \A s \in {"base", "split"} :
           \/ stage'[c][s] = Kept!Absent \/ stage'[c][s].state = "whole"
           \/ Stages(j, c)' /\ keptJob'[j].pc = "pull" /\ Kept!NextSplit(j)' = s,
         Stages(j, c)' => \A i \in DOMAIN keptJob'[j].files : keptJob'[j].files[i].state = "whole",
         opened' # <<>> /\ opened'[1].code = c =>
           Len(opened'[1].files) = 2 /\ \A i \in DOMAIN opened'[1].files : opened'[1].files[i].state = "whole"
  PROVE  StageHolds(c)'
<1>1. \A k \in Jobs \ {j} : ~Stages(k, c)' BY DEF Stages
<1>2. (\A i, k \in Jobs : Stages(i, c) /\ Stages(k, c) => i = k)' BY <1>1
<1>3. (\A s \in {"base", "split"} :
         \/ stage[c][s] = Kept!Absent \/ stage[c][s].state = "whole"
         \/ \E k \in Jobs : Stages(k, c) /\ keptJob[k].pc = "pull" /\ Kept!NextSplit(k) = s)'
  BY DEF Kept!Absent
<1>4. (\A k \in Jobs : Stages(k, c) => \A i \in DOMAIN keptJob[k].files : keptJob[k].files[i].state = "whole")'
  BY <1>1
<1> QED BY <1>2, <1>3, <1>4 DEF StageHolds

\* What a call that stages a code finds there.
LEMMA CodeFound ==
  ASSUME NEW j \in Jobs, NEW c \in Kept!Codes, StageHolds(c), Stages(j, c)
  PROVE  /\ \A k \in Jobs \ {j} : ~Stages(k, c)
         /\ \A s \in {"base", "split"} : keptJob[j].pc # "pull" \/ Kept!NextSplit(j) # s =>
              stage[c][s] = Kept!Absent \/ stage[c][s].state = "whole"
         /\ \A i \in DOMAIN keptJob[j].files : keptJob[j].files[i].state = "whole"
<1>1. \A k \in Jobs \ {j} : ~Stages(k, c) BY DEF StageHolds
<1>2. \A s \in {"base", "split"} : keptJob[j].pc # "pull" \/ Kept!NextSplit(j) # s =>
        stage[c][s] = Kept!Absent \/ stage[c][s].state = "whole"
  BY <1>1 DEF StageHolds
<1>3. \A i \in DOMAIN keptJob[j].files : keptJob[j].files[i].state = "whole" BY DEF StageHolds
<1> QED BY <1>1, <1>2, <1>3

\* What a step has to keep of the builds.
LEMMA BuildsStay ==
  ASSUME KeptInv, NEW j \in Jobs, \A k \in Jobs \ {j} : keptJob'[k] = keptJob[k], app' = app,
         app.code = app.build =>
           /\ \A c \in Kept!Codes, s \in {"base", "split"} : c # 0 /\ stage'[c][s] # Kept!Absent => stage'[c][s].build = c
           /\ JobBuilt(j)'
           /\ opened' # <<>> /\ opened'[1].code # 0 =>
                \A i \in DOMAIN opened'[1].files : opened'[1].files[i].build = opened'[1].code
  PROVE  BuildInv'
<1>1. app.code = app.build => \A k \in Jobs \ {j} : JobBuilt(k)' BY DEF KeptInv, BuildInv, JobBuilt
<1> QED BY <1>1 DEF BuildInv, Kept!Codes, Kept!Absent

LEMMA OpenStarts == ASSUME KeptInv, NEW j \in Jobs, Kept!OpenInJadx(j) PROVE KeptInv'
<1> DEFINE x == [pc |-> "version", of |-> "stage", build |-> app.build, code |-> 0, files |-> <<>>]
<1>1. keptJob' = [keptJob EXCEPT ![j] = x] /\ keptJob[j] = Kept!Idle /\ opened' = <<>> BY DEF Kept!OpenInJadx
<1>2. UNCHANGED <<tree, archive, stage, app, cut>> BY DEF Kept!OpenInJadx, Kept!diskVars
<1>3. x \in OpenStates /\ x.pc = "version" /\ x.code = 0 /\ x.build = app.build /\ Len(x.files) = 0
  <2>1. app.build \in Nat BY DEF KeptInv, KeptTypes
  <2>2. x \in [pc : {"version", "stage", "pull"}, of : {"stage"}, build : Nat, code : Nat, files : Seq(StagedFiles)]
    BY <2>1
  <2>3. x.pc = "version" /\ x.files = <<>> OBVIOUS
  <2> QED BY <2>2, <2>3 DEF OpenStates
<1> HIDE DEF x
<1>4. keptJob'[j] = x /\ \A k \in Jobs \ {j} : keptJob'[k] = keptJob[k] BY <1>1 DEF KeptInv, KeptTypes
<1>5. KeptTypes' /\ TreeInv'
  <2>1. stage' \in [Kept!Codes -> [{"base", "split"} -> StagedFiles]] /\ cut' = [tools |-> cut.tools, codes |-> cut'.codes]
    BY <1>2 DEF KeptInv, KeptTypes
  <2>2. x.code \in Kept!Codes /\ Len(x.files) <= 2 BY <1>3, KeptNames
  <2>3. keptJob[j] \notin InstallStates BY <1>1, KeptNames
  <2>4. x \in {Kept!Idle} \cup OpenStates BY <1>3
  <2>5. keptJob' = [keptJob EXCEPT ![j] = x] BY <1>1
  <2> QED BY <1>2, <2>1, <2>2, <2>3, <2>4, <2>5, TreesStay
<1>6. StageInv'
  <2> SUFFICES ASSUME NEW c \in Kept!Codes, c \notin cut.codes PROVE StageHolds(c)' BY <1>2 DEF StageInv, Kept!Codes
  <2>1. StageHolds(c) BY DEF KeptInv, StageInv
  <2>2. ~Stages(j, c) /\ ~Stages(j, c)' BY <1>1, <1>3, <1>4, KeptNames DEF Stages
  <2> QED BY <1>1, <1>2, <1>4, <2>1, <2>2, CodeStays
<1>7. BuildInv'
  <2>1. JobBuilt(j)' BY <1>2, <1>3, <1>4 DEF JobBuilt, KeptInv, KeptTypes
  <2>2. app.code = app.build =>
          \A c \in Kept!Codes, s \in {"base", "split"} : c # 0 /\ stage'[c][s] # Kept!Absent => stage'[c][s].build = c
    BY <1>2 DEF KeptInv, BuildInv
  <2> QED BY <1>1, <1>2, <1>4, <2>1, <2>2, BuildsStay
<1> QED BY <1>1, <1>5, <1>6, <1>7 DEF KeptInv, OpenedTypes

LEMMA StageKeyKeeps == ASSUME KeptInv, NEW j \in Jobs, Kept!StageKey(j) PROVE KeptInv'
<1>1. PICK c \in {0, app.code} :
        /\ keptJob' = [keptJob EXCEPT ![j].pc = "stage", ![j].code = c]
        /\ cut' = [cut EXCEPT !.codes = @ \cup ({keptJob[k].code : k \in Kept!On("stage") \ {j}} \cap {c})]
  BY DEF Kept!StageKey
<1>2. UNCHANGED <<tree, archive, stage, app, opened>> BY DEF Kept!StageKey, Kept!diskVars
<1>3. keptJob[j] \in OpenStates /\ keptJob[j].pc = "version" /\ Len(keptJob[j].files) <= 2
  BY Opening DEF Kept!StageKey
<1>4. c \in Kept!Codes /\ c \in Nat BY KeptNames DEF KeptInv, KeptTypes
<1> DEFINE x == [keptJob[j] EXCEPT !.pc = "stage", !.code = c]
<1>5. /\ x \in OpenStates /\ x.pc = "stage" /\ x.code = c /\ x.build = keptJob[j].build /\ x.files = <<>>
      /\ keptJob[j].files = <<>>
  BY <1>3, <1>4 DEF OpenStates
<1>6. keptJob' = [keptJob EXCEPT ![j] = x] BY <1>1
<1> HIDE DEF x
<1>7. keptJob'[j] = x /\ \A k \in Jobs \ {j} : keptJob'[k] = keptJob[k] BY <1>6 DEF KeptInv, KeptTypes
<1>8. cut' = [tools |-> cut.tools, codes |-> cut.codes \cup ({keptJob[k].code : k \in Kept!On("stage") \ {j}} \cap {c})]
  <2>1. cut = [tools |-> cut.tools, codes |-> cut.codes] BY DEF KeptInv, KeptTypes
  <2> QED BY <1>1, <2>1
<1>9. KeptTypes' /\ TreeInv'
  <2>1. stage' \in [Kept!Codes -> [{"base", "split"} -> StagedFiles]] BY <1>2 DEF KeptInv, KeptTypes
  <2>2. cut' = [tools |-> cut.tools, codes |-> cut'.codes] BY <1>8
  <2>3. keptJob[j] \notin InstallStates BY <1>3, KeptNames
  <2>4. Len(<<>>) <= 2 OBVIOUS
  <2>5. x.code \in Kept!Codes /\ Len(x.files) <= 2 BY <1>4, <1>5, <2>4
  <2>6. x \in {Kept!Idle} \cup OpenStates BY <1>5
  <2> QED BY <1>2, <1>6, <2>1, <2>2, <2>3, <2>5, <2>6, TreesStay
<1>10. StageInv'
  <2> SUFFICES ASSUME NEW d \in Kept!Codes, d \notin cut'.codes PROVE StageHolds(d)' BY <1>2 DEF StageInv, Kept!Codes
  <2>1. d \notin cut.codes /\ StageHolds(d) BY <1>8 DEF KeptInv, StageInv
  <2>2. ~Stages(j, d) BY <1>3 DEF Stages
  <2>3. ASSUME d # c PROVE StageHolds(d)'
    <3>1. ~Stages(j, d)' BY <1>5, <1>7, <2>3 DEF Stages
    <3> QED BY <1>2, <1>7, <2>1, <2>2, <3>1, CodeStays
  <2>4. ASSUME d = c PROVE StageHolds(d)'
    <3>1. \A k \in Jobs \ {j} : ~Stages(k, d)
      <4> SUFFICES ASSUME NEW k \in Jobs \ {j}, Stages(k, d) PROVE FALSE OBVIOUS
      <4>1. k \in Kept!On("stage") \ {j} /\ keptJob[k].code = d BY DEF Stages, OpenStates, Kept!On
      <4> QED BY <1>8, <2>4, <4>1
    <3>2. \A k \in Jobs : ~Stages(k, d) BY <2>2, <3>1
    <3>3. \A s \in {"base", "split"} : stage[d][s] = Kept!Absent \/ stage[d][s].state = "whole"
      BY <2>1, <3>2 DEF StageHolds
    <3>4. opened # <<>> /\ opened[1].code = d =>
            Len(opened[1].files) = 2 /\ \A i \in DOMAIN opened[1].files : opened[1].files[i].state = "whole"
      BY <2>1 DEF StageHolds
    <3>5. \A i \in DOMAIN keptJob'[j].files : keptJob'[j].files[i].state = "whole" BY <1>5, <1>7
    <3> QED BY <1>2, <1>7, <3>1, <3>3, <3>4, <3>5, CodeAlone
  <2> QED BY <2>3, <2>4
<1>11. BuildInv'
  <2> SUFFICES ASSUME app.code = app.build PROVE BuildInv' BY <1>2 DEF BuildInv
  <2>1. BuildInv /\ app.code = app.build BY DEF KeptInv
  <2>2. JobBuilt(j)'
    <3>1. keptJob[j].build <= app.build BY <1>3, <2>1 DEF BuildInv, JobBuilt
    <3> QED BY <1>2, <1>5, <1>7, <2>1, <3>1 DEF JobBuilt, KeptInv, KeptTypes
  <2> QED BY <1>2, <1>7, <2>1, <2>2, BuildsStay DEF BuildInv
<1> QED BY <1>2, <1>9, <1>10, <1>11 DEF KeptInv, OpenedTypes, Kept!Codes

\* A sequence of files, and one more.
LEMMA OneMore ==
  ASSUME NEW fs \in Seq(StagedFiles), Len(fs) < 2, NEW f \in StagedFiles
  PROVE  /\ Append(fs, f) \in Seq(StagedFiles) /\ Len(Append(fs, f)) <= 2
         /\ \A i \in DOMAIN Append(fs, f) : Append(fs, f)[i] = f \/ (i \in DOMAIN fs /\ Append(fs, f)[i] = fs[i])
         /\ <<"base", "split">>[Len(fs) + 1] \in {"base", "split"}
<1>1. Len(fs) \in Nat OBVIOUS
<1>2. Append(fs, f) \in Seq(StagedFiles) /\ Len(Append(fs, f)) = Len(fs) + 1 OBVIOUS
<1>3. \A i \in 1 .. Len(fs) : Append(fs, f)[i] = fs[i] OBVIOUS
<1>4. Append(fs, f)[Len(fs) + 1] = f OBVIOUS
<1>5. DOMAIN Append(fs, f) = 1 .. Len(fs) + 1 /\ DOMAIN fs = 1 .. Len(fs) BY <1>2
<1>6. Len(fs) = 0 \/ Len(fs) = 1
  <2>1. \A n \in Nat : n < 2 => n = 0 \/ n = 1 OBVIOUS
  <2> QED BY <1>1, <2>1
<1> QED BY <1>1, <1>2, <1>3, <1>4, <1>5, <1>6

\* The split a call is at is one of the two.
LEMMA AtSplit ==
  ASSUME KeptInv, NEW j \in Jobs, keptJob[j] \in OpenStates, Len(keptJob[j].files) < 2
  PROVE  Kept!NextSplit(j) \in {"base", "split"} /\ keptJob[j].files \in Seq(StagedFiles)
<1>1. keptJob[j].files \in Seq(StagedFiles) BY DEF OpenStates
<1>2. Kept!NextSplit(j) = <<"base", "split">>[Len(keptJob[j].files) + 1] BY DEF Kept!NextSplit, Kept!Splits
<1>3. Kept!Absent \in StagedFiles BY DEF Kept!Absent, StagedFiles
<1> QED BY <1>1, <1>2, <1>3, OneMore

\* The stage after one of its files is written.
LEMMA StageWritten ==
  ASSUME KeptInv, NEW c \in Kept!Codes, NEW s \in {"base", "split"}, NEW f \in StagedFiles,
         stage' = [stage EXCEPT ![c][s] = f]
  PROVE  /\ stage' \in [Kept!Codes -> [{"base", "split"} -> StagedFiles]]
         /\ \A d \in Kept!Codes \ {c} : stage'[d] = stage[d]
         /\ \A r \in {"base", "split"} \ {s} : stage'[c][r] = stage[c][r]
         /\ stage'[c][s] = f
<1>1. stage \in [Kept!Codes -> [{"base", "split"} -> StagedFiles]] BY DEF KeptInv, KeptTypes
<1>2. stage'[c] = [stage[c] EXCEPT ![s] = f] BY <1>1
<1>3. stage' = [stage EXCEPT ![c] = stage'[c]] BY <1>1, <1>2
<1>4. stage'[c] \in [{"base", "split"} -> StagedFiles] BY <1>1, <1>2
<1>5. stage' \in [Kept!Codes -> [{"base", "split"} -> StagedFiles]] BY <1>1, <1>3, <1>4
<1>6. \A d \in Kept!Codes \ {c} : stage'[d] = stage[d] BY <1>1, <1>3
<1> QED BY <1>1, <1>2, <1>5, <1>6

\* A call takes a file that is whole, and of the build of its code.
LEMMA TakesKeeps ==
  ASSUME KeptInv, NEW j \in Jobs, keptJob[j].pc \in {"stage", "pull"}, NEW f \in StagedFiles,
         Len(keptJob[j].files) < 2, Kept!Takes(j, f), UNCHANGED <<tree, archive, app, opened, cut>>,
         stage' = [stage EXCEPT ![keptJob[j].code][Kept!NextSplit(j)] = f],
         keptJob[j].code \notin cut.codes => f.state = "whole",
         app.code = app.build /\ keptJob[j].code # 0 => f.build = keptJob[j].code
  PROVE  KeptInv'
<1>1. keptJob[j] \in OpenStates /\ keptJob[j].code \in Kept!Codes BY Opening
<1>2. Kept!NextSplit(j) \in {"base", "split"} /\ keptJob[j].files \in Seq(StagedFiles) BY <1>1, AtSplit
<1> DEFINE fs == Append(keptJob[j].files, f)
           x  == [keptJob[j] EXCEPT !.pc = "stage", !.files = fs]
<1>3. /\ fs \in Seq(StagedFiles) /\ Len(fs) <= 2
      /\ \A i \in DOMAIN fs : fs[i] = f \/ (i \in DOMAIN keptJob[j].files /\ fs[i] = keptJob[j].files[i])
  BY <1>2, OneMore
<1> HIDE DEF fs
<1>4. x \in OpenStates /\ x.pc = "stage" /\ x.code = keptJob[j].code /\ x.build = keptJob[j].build /\ x.files = fs
  BY <1>1, <1>3 DEF OpenStates
<1>5. keptJob' = [keptJob EXCEPT ![j] = x]
  <2> USE DEF fs
  <2> QED BY DEF Kept!Takes
<1> HIDE DEF x
<1>6. keptJob'[j] = x /\ \A k \in Jobs \ {j} : keptJob'[k] = keptJob[k] BY <1>5 DEF KeptInv, KeptTypes
<1>7. PICK c \in Kept!Codes : c = keptJob[j].code BY <1>1
<1>8. PICK s \in {"base", "split"} : s = Kept!NextSplit(j) BY <1>2
<1>9. /\ stage' \in [Kept!Codes -> [{"base", "split"} -> StagedFiles]]
      /\ \A d \in Kept!Codes \ {c} : stage'[d] = stage[d]
      /\ \A r \in {"base", "split"} \ {s} : stage'[c][r] = stage[c][r]
      /\ stage'[c][s] = f
  <2>1. stage' = [stage EXCEPT ![c][s] = f] BY <1>7, <1>8
  <2>2. stage'[c][s] = f BY <2>1 DEF KeptInv, KeptTypes
  <2>3. stage' \in [Kept!Codes -> [{"base", "split"} -> StagedFiles]] BY <2>1, StageWritten, ZenonT(40)
  <2>4. \A d \in Kept!Codes \ {c} : stage'[d] = stage[d] BY <2>1, StageWritten
  <2>5. \A r \in {"base", "split"} \ {s} : stage'[c][r] = stage[c][r] BY <2>1, StageWritten
  <2> QED BY <2>2, <2>3, <2>4, <2>5
<1>10. KeptTypes' /\ TreeInv'
  <2>1. cut' = [tools |-> cut.tools, codes |-> cut'.codes] BY DEF KeptInv, KeptTypes
  <2>2. keptJob[j] \notin InstallStates BY <1>1, KeptNames
  <2>3. x.code \in Kept!Codes /\ Len(x.files) <= 2 BY <1>1, <1>3, <1>4
  <2>4. x \in {Kept!Idle} \cup OpenStates BY <1>4
  <2> QED BY <1>5, <1>9, <2>1, <2>2, <2>3, <2>4, TreesStay
<1>11. StageInv'
  <2> SUFFICES ASSUME NEW d \in Kept!Codes, d \notin cut.codes PROVE StageHolds(d)' BY DEF StageInv, Kept!Codes
  <2>1. StageHolds(d) BY DEF KeptInv, StageInv
  <2>2. ASSUME d # c PROVE StageHolds(d)'
    <3>1. ~Stages(j, d) /\ ~Stages(j, d)' BY <1>4, <1>6, <1>7, <2>2 DEF Stages
    <3> QED BY <1>6, <1>9, <2>1, <2>2, <3>1, CodeStays
  <2>3. ASSUME d = c PROVE StageHolds(d)'
    <3>1. Stages(j, c) BY <1>1, <1>7 DEF Stages
    <3>2. /\ \A k \in Jobs \ {j} : ~Stages(k, c)
          /\ \A r \in {"base", "split"} : keptJob[j].pc # "pull" \/ Kept!NextSplit(j) # r =>
               stage[c][r] = Kept!Absent \/ stage[c][r].state = "whole"
          /\ \A i \in DOMAIN keptJob[j].files : keptJob[j].files[i].state = "whole"
      BY <2>1, <2>3, <3>1, CodeFound
    <3>3. f.state = "whole" BY <1>7, <2>3
    <3>4. \A r \in {"base", "split"} : stage'[c][r] = Kept!Absent \/ stage'[c][r].state = "whole"
      BY <1>8, <1>9, <3>2, <3>3
    <3>5. \A i \in DOMAIN keptJob'[j].files : keptJob'[j].files[i].state = "whole"
      BY <1>3, <1>4, <1>6, <3>2, <3>3
    <3>6. opened' # <<>> /\ opened'[1].code = c =>
            Len(opened'[1].files) = 2 /\ \A i \in DOMAIN opened'[1].files : opened'[1].files[i].state = "whole"
      BY <2>1, <2>3 DEF StageHolds
    <3>7. StageHolds(c)' BY <1>6, <3>2, <3>4, <3>5, <3>6, CodeAlone
    <3> QED BY <2>3, <3>7
  <2> QED BY <2>2, <2>3
<1>12. BuildInv'
  <2> SUFFICES ASSUME app.code = app.build PROVE BuildInv' BY DEF BuildInv
  <2>1. BuildInv BY DEF KeptInv
  <2>2. c # 0 => f.build = c BY <1>7
  <2>3. \A d \in Kept!Codes, r \in {"base", "split"} : d # 0 /\ stage'[d][r] # Kept!Absent => stage'[d][r].build = d
    BY <1>9, <2>1, <2>2 DEF BuildInv
  <2>4. JobBuilt(j)'
    <3>1. keptJob[j].build <= app.build BY <1>1, <2>1 DEF BuildInv, JobBuilt
    <3>2. c # 0 => /\ keptJob[j].build <= c /\ c <= app.build
                   /\ \A i \in DOMAIN keptJob[j].files : keptJob[j].files[i].build = c
      BY <1>1, <1>7, <2>1 DEF BuildInv, JobBuilt
    <3>3. c # 0 => \A i \in DOMAIN fs : fs[i].build = c BY <1>3, <2>2, <3>2
    <3> QED BY <1>4, <1>6, <1>7, <3>1, <3>2, <3>3 DEF JobBuilt
  <2> QED BY <1>6, <2>1, <2>3, <2>4, BuildsStay DEF BuildInv
<1> QED BY <1>10, <1>11, <1>12 DEF KeptInv, OpenedTypes, Kept!Codes

LEMMA StagedKeeps == ASSUME KeptInv, NEW j \in Jobs, Kept!Staged(j) PROVE KeptInv'
<1>1. /\ keptJob[j].pc = "stage" /\ Len(keptJob[j].files) < 2 /\ Kept!Held(j) # Kept!Absent
      /\ Kept!Takes(j, Kept!Held(j)) /\ UNCHANGED <<tree, archive, stage, app, opened, cut>>
  BY DEF Kept!Staged, Kept!More, Kept!Splits, Kept!diskVars
<1>2. keptJob[j] \in OpenStates /\ keptJob[j].code \in Kept!Codes BY <1>1, Opening
<1>3. Kept!NextSplit(j) \in {"base", "split"} BY <1>1, <1>2, AtSplit
<1>4. PICK c \in Kept!Codes : c = keptJob[j].code BY <1>2
<1>5. PICK s \in {"base", "split"} : s = Kept!NextSplit(j) BY <1>3
<1>6. Kept!Held(j) = stage[c][s] BY <1>4, <1>5 DEF Kept!Held
<1>7. stage[c][s] \in StagedFiles /\ stage = [stage EXCEPT ![c][s] = stage[c][s]] BY DEF KeptInv, KeptTypes
<1>8. c \notin cut.codes => stage[c][s].state = "whole"
  <2> SUFFICES ASSUME c \notin cut.codes PROVE stage[c][s].state = "whole" OBVIOUS
  <2>1. StageHolds(c) BY DEF KeptInv, StageInv
  <2>2. Stages(j, c) BY <1>1, <1>2, <1>4 DEF Stages
  <2> QED BY <1>1, <1>6, <2>1, <2>2, CodeFound
<1>9. app.code = app.build /\ c # 0 => stage[c][s].build = c BY <1>1, <1>6 DEF KeptInv, BuildInv
<1> QED BY <1>1, <1>4, <1>5, <1>6, <1>7, <1>8, <1>9, TakesKeeps

LEMMA PulledKeeps == ASSUME KeptInv, NEW j \in Jobs, Kept!Pulled(j) PROVE KeptInv'
<1> DEFINE f == [build |-> keptJob[j].build, state |-> "whole"]
<1>1. /\ keptJob[j].pc = "pull" /\ Kept!Takes(j, f) /\ UNCHANGED <<tree, archive, app, opened, cut>>
      /\ stage' = [stage EXCEPT ![keptJob[j].code][Kept!NextSplit(j)] = f]
  BY DEF Kept!Pulled
<1>2. keptJob[j] \in OpenStates BY <1>1, Opening
<1>3. Len(keptJob[j].files) < 2 /\ keptJob[j].build \in Nat BY <1>1, <1>2 DEF OpenStates
<1>4. f \in StagedFiles /\ f.state = "whole" /\ f.build = keptJob[j].build BY <1>3 DEF StagedFiles
<1>5. app.code = app.build /\ keptJob[j].code # 0 => keptJob[j].build = keptJob[j].code
  BY <1>1, <1>2 DEF KeptInv, BuildInv, JobBuilt
<1> HIDE DEF f
<1> QED BY <1>1, <1>3, <1>4, <1>5, TakesKeeps

LEMMA PullKeeps == ASSUME KeptInv, NEW j \in Jobs, Kept!Pull(j) PROVE KeptInv'
<1>1. /\ keptJob[j].pc = "stage" /\ Len(keptJob[j].files) < 2 /\ Kept!Held(j) = Kept!Absent
      /\ app.build = keptJob[j].build /\ keptJob' = [keptJob EXCEPT ![j].pc = "pull"]
      /\ stage' = [stage EXCEPT ![keptJob[j].code][Kept!NextSplit(j)] = [build |-> keptJob[j].build, state |-> "part"]]
      /\ UNCHANGED <<tree, archive, app, opened, cut>>
  BY DEF Kept!Pull, Kept!More, Kept!Splits, Kept!To
<1>2. keptJob[j] \in OpenStates /\ keptJob[j].code \in Kept!Codes /\ Len(keptJob[j].files) <= 2 BY <1>1, Opening
<1>3. Kept!NextSplit(j) \in {"base", "split"} BY <1>1, <1>2, AtSplit
<1> DEFINE x == [keptJob[j] EXCEPT !.pc = "pull"]
           f == [build |-> keptJob[j].build, state |-> "part"]
<1>4. /\ x \in OpenStates /\ x.pc = "pull" /\ x.code = keptJob[j].code /\ x.build = keptJob[j].build
      /\ x.files = keptJob[j].files
  BY <1>1, <1>2 DEF OpenStates
<1>5. f \in StagedFiles /\ f.build = keptJob[j].build BY <1>2 DEF StagedFiles, OpenStates
<1>6. keptJob' = [keptJob EXCEPT ![j] = x] BY <1>1
<1> HIDE DEF x
<1>7. keptJob'[j] = x /\ \A k \in Jobs \ {j} : keptJob'[k] = keptJob[k] BY <1>6 DEF KeptInv, KeptTypes
<1>8. PICK c \in Kept!Codes : c = keptJob[j].code BY <1>2
<1>9. PICK s \in {"base", "split"} : s = Kept!NextSplit(j) BY <1>3
<1>10. stage' = [stage EXCEPT ![c][s] = f] BY <1>1, <1>8, <1>9
<1> HIDE DEF f
<1>11. /\ stage' \in [Kept!Codes -> [{"base", "split"} -> StagedFiles]]
       /\ \A d \in Kept!Codes \ {c} : stage'[d] = stage[d]
       /\ \A r \in {"base", "split"} \ {s} : stage'[c][r] = stage[c][r]
       /\ stage'[c][s] = f
  BY <1>5, <1>10, StageWritten
<1>12. KeptTypes' /\ TreeInv'
  <2>1. cut' = [tools |-> cut.tools, codes |-> cut'.codes] BY <1>1 DEF KeptInv, KeptTypes
  <2>2. keptJob[j] \notin InstallStates BY <1>2, KeptNames
  <2>3. x.code \in Kept!Codes /\ Len(x.files) <= 2 BY <1>2, <1>4
  <2>4. x \in {Kept!Idle} \cup OpenStates BY <1>4
  <2> QED BY <1>1, <1>6, <1>11, <2>1, <2>2, <2>3, <2>4, TreesStay, ZenonT(40)
<1>13. StageInv'
  <2> SUFFICES ASSUME NEW d \in Kept!Codes, d \notin cut.codes PROVE StageHolds(d)' BY <1>1 DEF StageInv, Kept!Codes
  <2>1. StageHolds(d) BY DEF KeptInv, StageInv
  <2>2. ASSUME d # c PROVE StageHolds(d)'
    <3>1. ~Stages(j, d) /\ ~Stages(j, d)' BY <1>4, <1>7, <1>8, <2>2 DEF Stages
    <3> QED BY <1>1, <1>7, <1>11, <2>1, <2>2, <3>1, CodeStays
  <2>3. ASSUME d = c PROVE StageHolds(d)'
    <3>1. Stages(j, c) /\ Stages(j, c)' BY <1>1, <1>2, <1>4, <1>7, <1>8 DEF Stages
    <3>2. /\ \A k \in Jobs \ {j} : ~Stages(k, c)
          /\ \A r \in {"base", "split"} : stage[c][r] = Kept!Absent \/ stage[c][r].state = "whole"
          /\ \A i \in DOMAIN keptJob[j].files : keptJob[j].files[i].state = "whole"
      BY <1>1, <2>1, <2>3, <3>1, CodeFound
    <3>3. Kept!NextSplit(j)' = s BY <1>4, <1>7, <1>9 DEF Kept!NextSplit
    <3>4. \A r \in {"base", "split"} :
            \/ stage'[c][r] = Kept!Absent \/ stage'[c][r].state = "whole"
            \/ Stages(j, c)' /\ keptJob'[j].pc = "pull" /\ Kept!NextSplit(j)' = r
      BY <1>4, <1>7, <1>11, <3>1, <3>2, <3>3
    <3>5. \A i \in DOMAIN keptJob'[j].files : keptJob'[j].files[i].state = "whole" BY <1>4, <1>7, <3>2
    <3>6. opened' # <<>> /\ opened'[1].code = c =>
            Len(opened'[1].files) = 2 /\ \A i \in DOMAIN opened'[1].files : opened'[1].files[i].state = "whole"
      BY <1>1, <2>1, <2>3 DEF StageHolds
    <3>7. StageHolds(c)' BY <1>7, <3>2, <3>4, <3>5, <3>6, CodeAlone
    <3> QED BY <2>3, <3>7
  <2> QED BY <2>2, <2>3
<1>14. BuildInv'
  <2> SUFFICES ASSUME app.code = app.build PROVE BuildInv' BY <1>1 DEF BuildInv
  <2>1. BuildInv BY DEF KeptInv
  <2>2. c # 0 => /\ keptJob[j].build <= c /\ c <= app.build
                 /\ \A i \in DOMAIN keptJob[j].files : keptJob[j].files[i].build = c
    BY <1>1, <1>2, <1>8, <2>1 DEF BuildInv, JobBuilt
  <2>3. c # 0 => keptJob[j].build = c
    <3>1. \A m, n \in Nat : m <= n /\ n <= m => m = n OBVIOUS
    <3>2. c \in Nat /\ keptJob[j].build \in Nat BY <1>2, <1>8 DEF OpenStates
    <3> QED BY <1>1, <2>2, <3>1, <3>2
  <2>4. \A d \in Kept!Codes, r \in {"base", "split"} : d # 0 /\ stage'[d][r] # Kept!Absent => stage'[d][r].build = d
    BY <1>5, <1>11, <2>1, <2>3 DEF BuildInv
  <2>5. JobBuilt(j)'
    <3>1. keptJob[j].build <= app.build BY <1>2, <2>1 DEF BuildInv, JobBuilt
    <3> QED BY <1>1, <1>4, <1>7, <1>8, <2>2, <2>3, <3>1 DEF JobBuilt
  <2> QED BY <1>1, <1>7, <2>1, <2>4, <2>5, BuildsStay DEF BuildInv
<1> QED BY <1>1, <1>12, <1>13, <1>14 DEF KeptInv, OpenedTypes, Kept!Codes

\* A call that ends leaves what is staged, once nothing of its pull can be taken for whole.
LEMMA EndsKeeps ==
  ASSUME KeptInv, NEW j \in Jobs, keptJob[j].pc \in {"stage", "pull"}, Kept!Ends(j),
         UNCHANGED <<tree, archive, stage, app>>, cut' = [tools |-> cut.tools, codes |-> cut'.codes],
         \/ keptJob[j].pc = "stage" /\ cut'.codes = cut.codes
         \/ cut'.codes = cut.codes \cup {keptJob[j].code},
         \/ opened' = opened
         \/ /\ opened' = <<[code |-> keptJob[j].code, files |-> keptJob[j].files]>>
            /\ Len(keptJob[j].files) = 2
  PROVE  KeptInv'
<1>1. keptJob[j] \in OpenStates /\ keptJob[j].code \in Kept!Codes /\ Len(keptJob[j].files) <= 2 BY Opening
<1>2. keptJob' = [keptJob EXCEPT ![j] = Kept!Idle] BY DEF Kept!Ends
<1>3. keptJob'[j] = Kept!Idle /\ \A k \in Jobs \ {j} : keptJob'[k] = keptJob[k] BY <1>2 DEF KeptInv, KeptTypes
<1>4. keptJob'[j] \notin OpenStates BY <1>3, KeptNames
<1>5. PICK c \in Kept!Codes : c = keptJob[j].code BY <1>1
<1>6. OpenedTypes'
  <2>1. CASE opened' = opened BY <2>1 DEF KeptInv, OpenedTypes, Kept!Codes
  <2>2. CASE opened' = <<[code |-> keptJob[j].code, files |-> keptJob[j].files]>>
    BY <1>1, <2>2 DEF OpenedTypes, Kept!Codes
  <2> QED BY <2>1, <2>2
<1>7. opened' = opened \/ (/\ opened'[1].code = c /\ opened'[1].files = keptJob[j].files
                           /\ Len(keptJob[j].files) = 2)
  BY <1>5
<1>8. KeptTypes' /\ TreeInv'
  <2>1. stage' \in [Kept!Codes -> [{"base", "split"} -> StagedFiles]] BY DEF KeptInv, KeptTypes
  <2>2. keptJob[j] \notin InstallStates BY <1>1, KeptNames
  <2> QED BY <1>2, <2>1, <2>2, KeptNames, TreesStay
<1>9. StageInv'
  <2> SUFFICES ASSUME NEW d \in Kept!Codes, d \notin cut'.codes PROVE StageHolds(d)' BY DEF StageInv, Kept!Codes
  <2>1. d \notin cut.codes /\ StageHolds(d) BY DEF KeptInv, StageInv
  <2>2. ASSUME d # c PROVE StageHolds(d)'
    <3>1. ~Stages(j, d) /\ ~Stages(j, d)' BY <1>4, <1>5, <2>2 DEF Stages
    <3> QED BY <1>3, <1>7, <2>1, <2>2, <3>1, CodeStays
  <2>3. ASSUME d = c PROVE StageHolds(d)'
    <3>1. Stages(j, c) /\ ~Stages(j, c)' BY <1>1, <1>4, <1>5 DEF Stages
    <3>2. keptJob[j].pc = "stage" BY <1>5, <2>3
    <3>3. /\ \A k \in Jobs \ {j} : ~Stages(k, c)
          /\ \A r \in {"base", "split"} : stage[c][r] = Kept!Absent \/ stage[c][r].state = "whole"
          /\ \A i \in DOMAIN keptJob[j].files : keptJob[j].files[i].state = "whole"
      BY <2>1, <2>3, <3>1, <3>2, CodeFound
    <3>4. opened' # <<>> /\ opened'[1].code = c =>
            Len(opened'[1].files) = 2 /\ \A i \in DOMAIN opened'[1].files : opened'[1].files[i].state = "whole"
      BY <1>7, <2>1, <2>3, <3>3 DEF StageHolds
    <3>5. StageHolds(c)' BY <1>3, <3>1, <3>3, <3>4, CodeAlone
    <3> QED BY <2>3, <3>5
  <2> QED BY <2>2, <2>3
<1>10. BuildInv'
  <2> SUFFICES ASSUME app.code = app.build PROVE BuildInv' BY DEF BuildInv
  <2>1. BuildInv BY DEF KeptInv
  <2>2. JobBuilt(j)' BY <1>4 DEF JobBuilt
  <2>3. keptJob[j].pc # "version" OBVIOUS
  <2>4. c # 0 => \A i \in DOMAIN keptJob[j].files : keptJob[j].files[i].build = c
    BY <1>1, <1>5, <2>1, <2>3 DEF BuildInv, JobBuilt
  <2>5. opened' # <<>> /\ opened'[1].code # 0 =>
          \A i \in DOMAIN opened'[1].files : opened'[1].files[i].build = opened'[1].code
    BY <1>7, <2>1, <2>4 DEF BuildInv
  <2> QED BY <1>3, <2>1, <2>2, <2>5, BuildsStay DEF BuildInv
<1> QED BY <1>6, <1>8, <1>9, <1>10 DEF KeptInv

LEMMA PullFailsKeeps == ASSUME KeptInv, NEW j \in Jobs, Kept!PullFails(j) PROVE KeptInv'
<1>1. UNCHANGED <<tree, archive, stage, app, opened>> /\ Kept!Ends(j) BY DEF Kept!PullFails, Kept!diskVars
<1>2. cut = [tools |-> cut.tools, codes |-> cut.codes] BY DEF KeptInv, KeptTypes
<1>3. CASE keptJob[j].pc = "stage" /\ cut' = cut BY <1>1, <1>2, <1>3, EndsKeeps
<1>4. CASE keptJob[j].pc = "pull" /\ cut' = [cut EXCEPT !.codes = @ \cup {keptJob[j].code}]
  <2>1. cut' = [tools |-> cut.tools, codes |-> cut.codes \cup {keptJob[j].code}] BY <1>2, <1>4
  <2>2. cut' = [tools |-> cut.tools, codes |-> cut'.codes] /\ cut'.codes = cut.codes \cup {keptJob[j].code} BY <2>1
  <2> QED BY <1>1, <1>4, <2>2, EndsKeeps
<1> QED BY <1>3, <1>4 DEF Kept!PullFails, Kept!More

LEMMA LaunchKeeps == ASSUME KeptInv, NEW j \in Jobs, Kept!Launch(j) \/ Kept!Exited(j) PROVE KeptInv'
<1>1. keptJob[j].pc = "stage" /\ ~Kept!More(j) /\ Kept!Ends(j) /\ UNCHANGED <<tree, archive, stage, app, cut>>
  BY DEF Kept!Launch, Kept!Exited, Kept!diskVars
<1>2. Len(keptJob[j].files) = 2
  <2>1. keptJob[j] \in OpenStates /\ Len(keptJob[j].files) <= 2 BY <1>1, Opening
  <2>2. ~(Len(keptJob[j].files) < 2) BY <1>1 DEF Kept!More, Kept!Splits
  <2>3. Len(keptJob[j].files) \in Nat BY <2>1 DEF OpenStates
  <2>4. \A n \in Nat : n <= 2 /\ ~(n < 2) => n = 2 OBVIOUS
  <2> QED BY <2>1, <2>2, <2>3, <2>4
<1>3. opened' = opened \/ opened' = <<[code |-> keptJob[j].code, files |-> keptJob[j].files]>>
  BY DEF Kept!Launch, Kept!Exited
<1>4. cut' = [tools |-> cut.tools, codes |-> cut'.codes] /\ cut'.codes = cut.codes BY <1>1 DEF KeptInv, KeptTypes
<1> QED BY <1>1, <1>2, <1>3, <1>4, EndsKeeps

LEMMA ClearKeeps == ASSUME KeptInv, Kept!ClearApkStage PROVE KeptInv'
<1>1. UNCHANGED <<tree, archive, app, keptJob, opened>> BY DEF Kept!ClearApkStage
<1>2. stage' = [c \in Kept!Codes |-> [s \in {"base", "split"} |-> Kept!Absent]] BY DEF Kept!ClearApkStage
<1>3. cut' = [tools |-> cut.tools, codes |-> cut.codes \cup {keptJob[j].code : j \in Kept!On("stage")}]
  BY DEF Kept!ClearApkStage, KeptInv, KeptTypes
<1>4. Kept!Absent \in StagedFiles BY DEF Kept!Absent, StagedFiles
<1>5. KeptTypes'
  <2>1. stage' \in [Kept!Codes -> [{"base", "split"} -> StagedFiles]] BY <1>2, <1>4
  <2>2. cut' = [tools |-> cut'.tools, codes |-> cut'.codes] BY <1>3
  <2> QED BY <1>1, <2>1, <2>2 DEF KeptInv, KeptTypes, Kept!Codes
<1>6. TreeInv'
  <2>1. cut'.tools = cut.tools BY <1>3
  <2> QED BY <1>1, <2>1 DEF KeptInv, TreeInv, TreeHolds, Kept!On, Kept!Installed, Kept!jadxLauncher, Kept!RootAVDStatus
<1>7. StageInv'
  <2> SUFFICES ASSUME NEW c \in Kept!Codes, c \notin cut'.codes PROVE StageHolds(c)' BY DEF StageInv, Kept!Codes
  <2>1. StageHolds(c) BY <1>3 DEF KeptInv, StageInv
  <2>2. ASSUME NEW j \in Jobs, Stages(j, c)' PROVE FALSE
    <3>1. j \in Kept!On("stage") /\ keptJob[j].code = c BY <1>1, <2>2 DEF Stages, OpenStates, Kept!On
    <3> QED BY <1>3, <3>1
  <2>3. \A s \in {"base", "split"} : stage'[c][s] = Kept!Absent BY <1>2
  <2> QED BY <1>1, <2>1, <2>2, <2>3 DEF StageHolds, Kept!Absent
<1>8. BuildInv'
  <2>1. \A c \in Kept!Codes, s \in {"base", "split"} : stage'[c][s] = Kept!Absent BY <1>2
  <2> QED BY <1>1, <2>1 DEF KeptInv, BuildInv, JobBuilt, Kept!Absent, Kept!Codes
<1> QED BY <1>1, <1>5, <1>6, <1>7, <1>8 DEF KeptInv, OpenedTypes, Kept!Codes

LEMMA KeptStep == KeptInv /\ [Kept!Next]_Kept!vars => KeptInv'
<1> SUFFICES ASSUME KeptInv, [Kept!Next]_Kept!vars PROVE KeptInv' OBVIOUS
<1>1. ASSUME NEW j \in Jobs, \E t \in Kept!Tools : Kept!Install(j, t) PROVE KeptInv' BY <1>1, InstallStarts
<1>2. ASSUME NEW j \in Jobs, Kept!Download(j) \/ Kept!DownloadFails(j) \/ Kept!Extract(j) \/ Kept!ExtractFails(j)
      PROVE  KeptInv'
  BY <1>2, DownloadKeeps, DownloadFailsKeeps, ExtractKeeps, ExtractFailsKeeps
<1>3. ASSUME NEW j \in Jobs, NEW f \in Kept!Files.jadx, Kept!writeZipEntry(j, f) PROVE KeptInv'
  <2>1. f \in Kept!Files[keptJob[j].of] /\ f \in {"jadx-gui", "lib", "rootAVD.sh", "Magisk.zip"}
    BY <1>3, KeptNames DEF Kept!writeZipEntry
  <2> QED BY <1>3, <2>1, OpenFileKeeps DEF Kept!writeZipEntry
<1>4. ASSUME NEW j \in Jobs, NEW f \in Kept!Files.rootavd, Kept!extractRootAVD(j, f) PROVE KeptInv'
  <2>1. f \in Kept!Files[keptJob[j].of] /\ f \in {"jadx-gui", "lib", "rootAVD.sh", "Magisk.zip"}
    BY <1>4, KeptNames DEF Kept!extractRootAVD
  <2> QED BY <1>4, <2>1, OpenFileKeeps DEF Kept!extractRootAVD
<1>5. ASSUME NEW j \in Jobs, Kept!EntryWritten(j) \/ Kept!Verified(j) \/ Kept!Rejected(j) PROVE KeptInv'
  BY <1>5, EntryWrittenKeeps, VerifiedKeeps, RejectedKeeps
<1>6. ASSUME NEW j \in Jobs, Kept!OpenInJadx(j) \/ Kept!StageKey(j) \/ Kept!Staged(j) \/ Kept!Pull(j) \/ Kept!Pulled(j)
      PROVE  KeptInv'
  BY <1>6, OpenStarts, StageKeyKeeps, StagedKeeps, PullKeeps, PulledKeeps
<1>7. ASSUME NEW j \in Jobs, Kept!PullFails(j) \/ Kept!Launch(j) \/ Kept!Exited(j) PROVE KeptInv'
  BY <1>7, PullFailsKeeps, LaunchKeeps
<1>8. ASSUME NEW t \in Kept!Tools, Kept!Remove(t) PROVE KeptInv' BY <1>8, RemoveKeeps
<1>9. ASSUME UNCHANGED Kept!vars PROVE KeptInv'
  <2>1. UNCHANGED <<tree, archive, stage, app, keptJob, opened, cut>> BY <1>9 DEF Kept!vars, Kept!diskVars
  <2>2. (KeptTypes /\ OpenedTypes)' BY <2>1 DEF KeptInv, KeptTypes, OpenedTypes, Kept!Codes
  <2>3. TreeInv'
    BY <2>1 DEF KeptInv, TreeInv, TreeHolds, Kept!On, Kept!Installed, Kept!jadxLauncher, Kept!RootAVDStatus
  <2>4. StageInv' BY <2>1 DEF KeptInv, StageInv, StageHolds, Stages, Kept!NextSplit, Kept!Absent, Kept!Codes
  <2>5. BuildInv' BY <2>1 DEF KeptInv, BuildInv, JobBuilt, Kept!Absent, Kept!Codes
  <2> QED BY <2>2, <2>3, <2>4, <2>5 DEF KeptInv
<1> QED BY <1>1, <1>2, <1>3, <1>4, <1>5, <1>6, <1>7, <1>8, <1>9, RebuildKeeps, ClearKeeps, CrashKeeps DEF Kept!Next

\* What is installed or opened is whole ("A tree we cannot vouch for must not be left
\* where a later run picks it up", jadx.go:506), and of one build (apk_stage.go:18-20):
\* for any number of jobs, calls, crashes and builds of the application.
THEOREM CachesWhole == Kept!Spec => [](Kept!InstalledIsWhole /\ Kept!OpenedIsOneApp)
<1>1. KeptInv => Kept!InstalledIsWhole /\ Kept!OpenedIsOneApp BY KeptInvIsTrue
<1> QED BY KeptStart, KeptStep, <1>1, PTL DEF Kept!Spec

-----------------------------------------------------------------------------
(* The run of all.                                                          *)

LEMMA BootRuns == AllSpec => Spec
<1>1. AllInit => Init BY DEF AllInit
<1>2. [AllNext]_all => [Next]_vars BY DEF AllNext, all, vars
<1> QED BY <1>1, <1>2, PTL DEF AllSpec, Spec

LEMMA AvdRuns == AllSpec => Avd!Spec
<1>1. AllInit => Avd!Init BY DEF AllInit
<1>2. [AllNext]_all => [Avd!Next]_Avd!vars BY DEF AllNext, all, AvdVars, Avd!vars
<1> QED BY <1>1, <1>2, PTL DEF AllSpec, Avd!Spec

LEMMA SdkRuns == AllSpec => Sdk!Spec
<1>1. AllInit => Sdk!Init BY DEF AllInit
<1>2. [AllNext]_all => [Sdk!Next]_Sdk!vars BY DEF AllNext, all, SdkVars, Sdk!vars
<1> QED BY <1>1, <1>2, PTL DEF AllSpec, Sdk!Spec

LEMMA ToolRuns == AllSpec => Tool!Spec
<1>1. AllInit => Tool!Init BY DEF AllInit
<1>2. [AllNext]_all => [Tool!Next]_Tool!vars BY DEF AllNext, all, ToolVars, Tool!vars
<1> QED BY <1>1, <1>2, PTL DEF AllSpec, Tool!Spec

LEMMA KeptRuns == AllSpec => Kept!Spec
<1>1. AllInit => Kept!Init BY DEF AllInit
<1>2. [AllNext]_all => [Kept!Next]_Kept!vars BY DEF AllNext, all, KeptVars, Kept!vars, Kept!diskVars
<1> QED BY <1>1, <1>2, PTL DEF AllSpec, Kept!Spec

\* No emulator is left behind but one that was overwritten or never seen, a cancel takes its
\* start down, the tray says no false end, and an entry is deleted by its own goroutine
\* (avd_launch.go, tasks.go), in the run of all.
THEOREM BootIsKept == AllSpec => [](TypeOK /\ NoneLeftBehind /\ TookDown /\ NoFalseEnd) /\ ReapsOwn
BY BootRuns, TypeCorrect, NoneLeft, CancelTakesDown, RowTrue, OwnEntry, PTL

\* The file of an AVD is whole and an edit is shown, in the run of all.
THEOREM AvdIsKept == AllSpec => []AvdKeeps
<1>1. Avd!ConfigIsWhole /\ Avd!EditIsShown => AvdKeeps BY DEF AvdKeeps
<1> QED BY <1>1, AvdRuns, AvdsKept, PTL

\* What is listed, chosen, installed or opened is what is there, in the run of all.
THEOREM ToolsAreKept == AllSpec => []ToolsAreTrue
<1>1. /\ Sdk!ListingIsTrue /\ Tool!ChoiceIsServed /\ Tool!ToldWhatIsThere
      /\ Kept!InstalledIsWhole /\ Kept!OpenedIsOneApp
      => ToolsAreTrue
  BY DEF ToolsAreTrue
<1> QED BY <1>1, SdkRuns, ListingTrue, ToolRuns, ToolsServed, KeptRuns, CachesWhole, PTL
=============================================================================
