------------------------------- MODULE Mirror -------------------------------
(***************************************************************************)
(* The scrcpy mirror of one device: ScrcpyManager (scrcpy.go), the         *)
(* bindings that start and stop it, and the badge that follows their       *)
(* events (lib/scrcpy.ts). A process is none, up, exited (nobody has waited *)
(* for it yet), waited, reaped (off the map) or told.                      *)
(***************************************************************************)
EXTENDS Naturals, FiniteSets
CONSTANTS Calls, MaxStarts, MaxCalls, MaxSwaps
Procs == 1 .. MaxStarts

VARIABLES
  proc,     \* each process: its state, and whether its flags need version 2
  tracked,  \* the process in the manager's map, or 0
  call,     \* the bindings under way
  badge,    \* what the UI shows
  ver, major,   \* the installed version (0: none), and the version in the manager's cache
  quit,
  calls, swaps,
  late,     \* history: the last event that reached the UI told it something that was over
  twice     \* history: a start asked while another one was on its way to the map
vars == <<proc, tracked, call, badge, ver, major, quit, calls, swaps, late, twice>>

Idle == [pc |-> "idle"]
Up == \E p \in Procs : proc[p].state = "up"
Init ==
  /\ proc = [p \in Procs |-> [state |-> "none", v2 |-> FALSE]] /\ tracked = 0
  /\ call = [c \in Calls |-> Idle] /\ badge = FALSE
  /\ ver \in 0 .. 2 /\ major = 0 /\ quit = FALSE /\ calls = 0 /\ swaps = 0 /\ late = FALSE /\ twice = FALSE

Becomes(p, state) == proc' = [proc EXCEPT ![p].state = state]
Goes(c, step) == call' = [call EXCEPT ![c] = step]
\* An event that reaches the UI.
Emits(active) == badge' = active /\ late' = (active # Up)
Begin(c) == /\ ~quit /\ call[c] = Idle /\ calls < MaxCalls /\ calls' = calls + 1

\* IsActive: a process that was waited for is dropped; one that has only exited still
\* answers the signal.
IsActive == tracked # 0 /\ proc[tracked].state \in {"up", "exited"}
Asked == tracked' = IF IsActive THEN tracked ELSE 0

\* On its way from the question to the map.
Starting(c) == call[c].pc \in {"binary", "spawn", "track"}
Overlaps == twice' = (twice \/ (~IsActive /\ \E d \in Calls : Starting(d)))
\* StartScrcpy asks first, without keeping the lock ...
StartAgain(c) == /\ Begin(c) /\ Overlaps /\ Goes(c, [pc |-> "binary"])
                 /\ UNCHANGED <<proc, tracked, badge, ver, major, quit, swaps, late>>
StartScrcpy(c) == /\ Begin(c) /\ Asked /\ Overlaps /\ Goes(c, [pc |-> IF IsActive THEN "up" ELSE "binary"])
                  /\ UNCHANGED <<proc, badge, ver, major, quit, swaps, late>>
NoBinary(c) == /\ ~quit /\ call[c].pc = "binary" /\ ver = 0 /\ Goes(c, Idle)
               /\ UNCHANGED <<proc, tracked, badge, ver, major, quit, calls, swaps, late, twice>>
\* ... then which version is installed, which is kept once a probe has told it ...
filterUnsupportedArgs(c, m) == Goes(c, [pc |-> "spawn", v2 |-> m >= 2])
majorVersion(c) ==
  /\ ~quit /\ call[c].pc = "binary" /\ ver # 0
  /\ \E m \in IF major # 0 THEN {major} ELSE {0, ver} :
       major' = m /\ filterUnsupportedArgs(c, m)
  /\ UNCHANGED <<proc, tracked, badge, ver, quit, calls, swaps, late, twice>>
\* ... and starts it, with the flags of version 2 only when it is known to have them.
Spawn(c) ==
  /\ ~quit /\ call[c].pc = "spawn" /\ ver # 0
  /\ \E p \in Procs :
       /\ proc[p].state = "none" /\ \A q \in 1 .. p - 1 : proc[q].state # "none"
       /\ proc' = [proc EXCEPT ![p] = [state |-> IF call[c].v2 /\ ver < 2 THEN "exited" ELSE "up", v2 |-> call[c].v2]]
       /\ Goes(c, [pc |-> "track", p |-> p])
  /\ UNCHANGED <<tracked, badge, ver, major, quit, calls, swaps, late, twice>>
SpawnFails(c) == /\ ~quit /\ call[c].pc = "spawn" /\ Goes(c, Idle)
                 /\ UNCHANGED <<proc, tracked, badge, ver, major, quit, calls, swaps, late, twice>>
Track(c) == /\ ~quit /\ call[c].pc = "track" /\ tracked' = call[c].p /\ Goes(c, [pc |-> "grace", p |-> call[c].p])
            /\ UNCHANGED <<proc, badge, ver, major, quit, calls, swaps, late, twice>>
\* The grace window: an exit in it is the error of the start; the two may come together.
GraceFails(c) == /\ ~quit /\ call[c].pc = "grace" /\ proc[call[c].p].state \in {"waited", "reaped", "told"} /\ Goes(c, Idle)
                 /\ UNCHANGED <<proc, tracked, badge, ver, major, quit, calls, swaps, late, twice>>
GraceOver(c) == /\ ~quit /\ call[c].pc = "grace" /\ Goes(c, [pc |-> "up"])
                /\ UNCHANGED <<proc, tracked, badge, ver, major, quit, calls, swaps, late, twice>>
TellUp(c) == /\ ~quit /\ call[c].pc = "up" /\ Emits(TRUE) /\ Goes(c, Idle)
             /\ UNCHANGED <<proc, tracked, ver, major, quit, calls, swaps, twice>>

\* The goroutine that waits for the process: it takes it off the map when it is still
\* there, and tells the UI in any case.
Waited(p) == /\ ~quit /\ proc[p].state = "exited" /\ \A c \in Calls : call[c].pc = "track" => call[c].p # p
             /\ Becomes(p, "waited") /\ UNCHANGED <<tracked, call, badge, ver, major, quit, calls, swaps, late, twice>>
\* A slip: one that is off the map already is told of to nobody.
ReapQuietly(p) == /\ ~quit /\ proc[p].state = "waited" /\ Becomes(p, IF tracked = p THEN "reaped" ELSE "told")
                  /\ tracked' = (IF tracked = p THEN 0 ELSE tracked)
                  /\ UNCHANGED <<call, badge, ver, major, quit, calls, swaps, late, twice>>
Reap(p) == /\ ~quit /\ proc[p].state = "waited" /\ Becomes(p, "reaped") /\ tracked' = IF tracked = p THEN 0 ELSE tracked
           /\ UNCHANGED <<call, badge, ver, major, quit, calls, swaps, late, twice>>
OnExit(p) == /\ ~quit /\ proc[p].state = "reaped" /\ Becomes(p, "told") /\ Emits(FALSE)
             /\ UNCHANGED <<tracked, call, ver, major, quit, calls, swaps, twice>>
\* The window is closed, the device unplugged, or the process fails.
Exit(p) == /\ proc[p].state = "up" /\ Becomes(p, "exited")
           /\ UNCHANGED <<tracked, call, badge, ver, major, quit, calls, swaps, late, twice>>

\* StopScrcpy: Stop takes the process off the map, kills it, and the UI is told at once.
StopScrcpy(c) == /\ Begin(c) /\ Goes(c, [pc |-> "kill", p |-> tracked]) /\ tracked' = 0
                 /\ UNCHANGED <<proc, badge, ver, major, quit, swaps, late, twice>>
Kill(c) == /\ ~quit /\ call[c].pc = "kill" /\ Goes(c, [pc |-> "down"])
           /\ proc' = [p \in Procs |-> IF p = call[c].p /\ proc[p].state = "up" THEN [proc[p] EXCEPT !.state = "exited"] ELSE proc[p]]
           /\ UNCHANGED <<tracked, badge, ver, major, quit, calls, swaps, late, twice>>
TellDown(c) == /\ ~quit /\ call[c].pc = "down" /\ Emits(FALSE) /\ Goes(c, Idle)
               /\ UNCHANGED <<proc, tracked, ver, major, quit, calls, swaps, twice>>

\* A badge that is mounted reads the state once; the answer may come after an event.
ScrcpyActive(c) == /\ Begin(c) /\ Asked /\ Goes(c, [pc |-> "answer", active |-> IsActive])
                   /\ UNCHANGED <<proc, badge, ver, major, quit, swaps, late, twice>>
Answered(c) == /\ ~quit /\ call[c].pc = "answer" /\ Emits(call[c].active) /\ Goes(c, Idle)
               /\ UNCHANGED <<proc, tracked, ver, major, quit, calls, swaps, twice>>

StopAll == /\ ~quit /\ quit' = TRUE /\ tracked' = 0
           /\ proc' = [p \in Procs |-> IF p = tracked /\ proc[p].state = "up" THEN [proc[p] EXCEPT !.state = "exited"] ELSE proc[p]]
           /\ UNCHANGED <<call, badge, ver, major, calls, swaps, late, twice>>
Replace == /\ ~quit /\ swaps < MaxSwaps /\ swaps' = swaps + 1 /\ ver' \in (0 .. 2) \ {ver}
           /\ UNCHANGED <<proc, tracked, call, badge, major, quit, calls, late, twice>>

Next ==
  \/ \E c \in Calls :
       \/ StartScrcpy(c) \/ NoBinary(c) \/ majorVersion(c) \/ Spawn(c) \/ SpawnFails(c) \/ Track(c)
       \/ GraceFails(c) \/ GraceOver(c) \/ TellUp(c)
       \/ StopScrcpy(c) \/ Kill(c) \/ TellDown(c) \/ ScrcpyActive(c) \/ Answered(c)
  \/ \E p \in Procs : Waited(p) \/ Reap(p) \/ OnExit(p) \/ Exit(p)
  \/ StopAll \/ Replace
Spec == Init /\ [][Next]_vars
-----------------------------------------------------------------------------
Settled == /\ \A c \in Calls : call[c] = Idle
           /\ \A p \in Procs : proc[p].state \notin {"exited", "waited", "reaped"}

\* The mirror's state is pushed and never asked for again (lib/scrcpy.ts:3-8), so an end
\* that nobody tells would be shown for ever: once everything has ended, the badge is
\* lit exactly when a window is up. Only an event that was overtaken (an exit between the
\* grace window and the event, an answer or an end that comes after the next start), with
\* no other after it, tells a falsehood that stays.
BadgeIsTrue == ~quit /\ Settled /\ ~late => badge = Up

\* A window that a stop has taken off the map and is about to kill.
Doomed == {call[c].p : c \in {d \in Calls : call[d].pc = "kill"}}
\* There is one window at most beside those about to be killed ("if a scrcpy is already
\* running for this serial, it is left as-is", scrcpy.go:166) and none is left behind at
\* the end but one a start is about to track, however starts, stops, exits and questions
\* cross: unless a start asked while another was between its question and the map
\* (scrcpy.go:196-216). No flag the installed version rejects is passed unless that version
\* replaced a newer one.
OneWindow ==
  /\ ~twice => Cardinality({p \in Procs : proc[p].state = "up"} \ Doomed) <= 1
  /\ ~twice /\ quit => \A p \in Procs : proc[p].state = "up" => \E c \in Calls : call[c].pc \in {"track", "kill"} /\ call[c].p = p
  /\ swaps = 0 => \A p \in Procs : proc[p].v2 => ver >= 2
MirrorIsTrue == BadgeIsTrue /\ OneWindow
=============================================================================
