------------------------------ MODULE RootProbe ------------------------------
(***************************************************************************)
(* What adbq knows of a device's root: the form of su that works, the      *)
(* probe that failed lately, whether adbd was restarted as root (adb.go,   *)
(* adb_root.go), and the capability scan, which has no expiry              *)
(* (capabilities.go).  Each call probes on its own, with no lock across    *)
(* the round trips, and a command that is refused forgets the probe.       *)
(***************************************************************************)
EXTENDS Naturals

CONSTANTS Jobs, MaxCalls, MaxChanges  \* the calls under way, and bounds

VARIABLES
  su, adbd,         \* the device: su grants, and whom adbd runs as
  emulator, yields, \* the device: its serial says emulator; its build lets adbd be root
  style, failed, latch,  \* suStyles, suFailedAt within five minutes, adbRooted
  caps,             \* the scan kept: whom adbd ran as when it was taken
  job, calls, changes,
  behind            \* history: what was kept before the device changed ("root", "caps"),
                    \* and a failure kept of a device that did not answer ("unheard")

device == <<su, adbd, emulator, yields>>
probe == <<style, failed, latch>>
vars == <<device, probe, caps, job, calls, changes, behind>>

Idle == [pc |-> "idle"]
Init == /\ su \in BOOLEAN /\ adbd = "shell" /\ emulator \in BOOLEAN /\ yields \in BOOLEAN
        /\ style = "unknown" /\ failed = FALSE /\ latch = "untried" /\ caps = "none"
        /\ job = [j \in Jobs |-> Idle] /\ calls = 0 /\ changes = 0 /\ behind = {}

-----------------------------------------------------------------------------
At(j, pc) == job[j].pc = pc
Goes(j, pc) == job' = [job EXCEPT ![j].pc = pc]
Ends(j) == job' = [job EXCEPT ![j] = Idle]
Call(j) == At(j, "idle") /\ calls < MaxCalls /\ calls' = calls + 1
\* What a call found before the device changed is behind when it is kept.
Kept(j, what) == behind' = IF job[j].late THEN behind \cup {what} ELSE behind
Works(form) == IF form = "bare" THEN adbd = "root" ELSE su

\* ShellSU: the form is kept, a failure is remembered, or the device is asked.
ShellSU(j) ==
  /\ Call(j)
  /\ IF style # "unknown" THEN job' = [job EXCEPT ![j] = [pc |-> "run", form |-> style, late |-> FALSE]]
     ELSE IF failed THEN UNCHANGED job
     ELSE job' = [job EXCEPT ![j] = [pc |-> "id", form |-> "unknown", late |-> FALSE]]
  /\ UNCHANGED <<device, probe, caps, changes, behind>>

setSuStyle(j, form) ==
  /\ style' = form /\ Kept(j, "root") /\ job' = [job EXCEPT ![j].pc = "run", ![j].form = form]
  /\ UNCHANGED <<failed, latch>>

\* A device that does not answer is taken for one whose shell is not root.
AskID(j) ==
  /\ At(j, "id")
  /\ \/ adbd = "root" /\ setSuStyle(j, "bare")
     \/ Goes(j, "latch") /\ UNCHANGED <<probe, behind>>
  /\ UNCHANGED <<device, caps, calls, changes>>
\* tryAdbRoot: its outcome is latched.
AskLatch(j) ==
  /\ At(j, "latch")
  /\ IF latch = "granted" THEN setSuStyle(j, "bare")
     ELSE /\ Goes(j, IF latch # "untried" THEN "forms" ELSE IF emulator THEN "restart"
                     ELSE IF caps # "none" THEN "eligible" ELSE "scan")
          /\ UNCHANGED <<probe, behind>>
  /\ UNCHANGED <<device, caps, calls, changes>>
\* adbRootEligible, by ro.debuggable in the scan.
Eligible(j) ==
  /\ At(j, "eligible") /\ Goes(j, IF yields THEN "restart" ELSE "forms")
  /\ latch' = IF yields THEN latch ELSE "ineligible"
  /\ behind' = IF yields \/ ~job[j].late THEN behind ELSE behind \cup {"root"}
  /\ UNCHANGED <<device, style, failed, caps, calls, changes>>
\* adb root, wait-for-device, id.  A device that stays away too long counts as one that
\* refuses, whether or not its adbd came back as root; other calls see adbd change.
RestartAdbd(j) ==
  /\ At(j, "restart")
  /\ \E answers \in {a \in BOOLEAN : a => yields}, root \in {r \in BOOLEAN : r => yields} :
       /\ answers => root
       /\ adbd' = IF root THEN "root" ELSE adbd
       /\ job' = [k \in Jobs |-> IF k = j THEN [job[j] EXCEPT !.pc = IF answers THEN "granted" ELSE "forms"]
                                ELSE IF adbd' # adbd /\ job[k] # Idle THEN [job[k] EXCEPT !.late = TRUE] ELSE job[k]]
       /\ latch' = IF answers THEN latch ELSE "refused"
       /\ behind' = behind \cup (IF adbd' # adbd THEN {"caps"} ELSE {})
                            \cup (IF ~answers /\ job[j].late THEN {"root"} ELSE {})
  /\ UNCHANGED <<su, emulator, yields, style, failed, caps, calls, changes>>
Granted(j) ==
  /\ At(j, "granted") /\ caps' = "none" /\ latch' = "granted" /\ style' = "bare"
  /\ behind' = (IF job[j].late THEN behind \cup {"root"} ELSE behind) \ {"caps"}
  /\ job' = [job EXCEPT ![j].pc = "run", ![j].form = "bare"]
  /\ UNCHANGED <<device, failed, calls, changes>>
\* The four forms of su; a failure of all of them is kept for five minutes, also when
\* su would grant and the device did not answer: the error of the shell is not looked at.
TryForms(j) ==
  /\ At(j, "forms")
  /\ \/ su /\ setSuStyle(j, "su")
     \/ /\ failed' = TRUE /\ Ends(j) /\ UNCHANGED <<style, latch>>
        /\ behind' = behind \cup (IF job[j].late THEN {"root"} ELSE {})
                             \cup (IF su THEN {"unheard"} ELSE {})
  /\ UNCHANGED <<device, caps, calls, changes>>

\* A slip: only the form is forgotten.
ForgetStyle == style' = "unknown" /\ UNCHANGED <<failed, latch>>
ForgetRootProbe == style' = "unknown" /\ failed' = FALSE /\ latch' = "untried"
\* The command itself; an error that reads like a refusal forgets the probe, and leaves
\* the scan. A command that root runs may end with such an error (no such file), and one
\* that a form no longer works for with another (the device is offline).
RunCommand(j) ==
  /\ At(j, "run") /\ Ends(j)
  /\ \/ UNCHANGED <<probe, behind>>
     \/ ForgetRootProbe /\ behind' = behind \ {"root", "unheard"}
  /\ UNCHANGED <<device, caps, calls, changes>>

\* Capabilities, asked by a screen or for ro.debuggable: read, then kept.
Capabilities(j) ==
  /\ Call(j) /\ caps = "none" /\ job' = [job EXCEPT ![j] = [pc |-> "scan", form |-> "none", late |-> FALSE]]
  /\ UNCHANGED <<device, probe, caps, changes, behind>>
Scan(j) ==
  /\ At(j, "scan")
  /\ job' = [job EXCEPT ![j] = [pc |-> "keep", form |-> @.form, late |-> @.late, seen |-> adbd]]
  /\ UNCHANGED <<device, probe, caps, calls, changes, behind>>
\* A device that does not answer has no ABI: the scan is not kept, and its build is taken
\* for one that does not let adbd be root.
ScanFails(j) ==
  /\ At(j, "scan")
  /\ IF job[j].form = "none" THEN Ends(j) /\ UNCHANGED latch
     ELSE Goes(j, "forms") /\ latch' = "ineligible"
  /\ UNCHANGED <<device, style, failed, caps, calls, changes, behind>>
KeepScan(j) ==
  /\ At(j, "keep") /\ caps' = job[j].seen
  /\ behind' = (IF job[j].late THEN behind \cup {"caps"} ELSE behind)
  /\ IF job[j].form = "none" THEN Ends(j) ELSE Goes(j, "eligible")
  /\ UNCHANGED <<device, probe, calls, changes>>

-----------------------------------------------------------------------------
\* The five minutes are over.
Expire == /\ failed /\ failed' = FALSE /\ behind' = behind \ {"unheard"}
          /\ UNCHANGED <<device, style, latch, caps, job, calls, changes>>
\* Reboot, Disconnect: everything is forgotten when the command returns, which is
\* before the device goes down.
ForgetDevice == /\ calls < MaxCalls /\ calls' = calls + 1
                /\ ForgetRootProbe /\ caps' = "none" /\ behind' = {}
                /\ UNCHANGED <<device, job, changes>>

Late == job' = [j \in Jobs |-> IF job[j] = Idle THEN Idle ELSE [job[j] EXCEPT !.late = TRUE]]
\* External: a grant is given or taken back; the device restarts.
Grant == /\ changes < MaxChanges /\ changes' = changes + 1 /\ su' = ~su /\ Late
         /\ behind' = behind \cup {"root"}
         /\ UNCHANGED <<adbd, emulator, yields, probe, caps, calls>>
Restart == /\ changes < MaxChanges /\ changes' = changes + 1 /\ adbd = "root" /\ adbd' = "shell" /\ Late
           /\ behind' = behind \cup {"root", "caps"}
           /\ UNCHANGED <<su, emulator, yields, probe, caps, calls>>

Next == \/ Expire \/ ForgetDevice \/ Grant \/ Restart
        \/ \E j \in Jobs : \/ ShellSU(j) \/ AskID(j) \/ AskLatch(j) \/ Eligible(j) \/ RestartAdbd(j)
                           \/ Granted(j) \/ TryForms(j) \/ RunCommand(j)
                           \/ Capabilities(j) \/ Scan(j) \/ ScanFails(j) \/ KeepScan(j)
Spec == Init /\ [][Next]_vars

-----------------------------------------------------------------------------
\* With no call under way, what is kept of root is what the device grants, unless the
\* device changed and no command was refused since, or a probe that had begun before the
\* change was kept after it; a failure that is kept is a refusal, unless the device did
\* not answer; and the scan is one of the adbd that runs.
RootIsKnown ==
  (\A j \in Jobs : job[j] = Idle) =>
    /\ "root" \notin behind => /\ style # "unknown" => Works(style)
                               /\ failed => ~su \/ "unheard" \in behind
                               /\ latch = "granted" => adbd = "root"
    /\ "caps" \notin behind => caps \in {"none", adbd}
=============================================================================
