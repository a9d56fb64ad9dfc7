------------------------------- MODULE Tcpdump -------------------------------
(***************************************************************************)
(* Putting tcpdump on a device (tcpdump.go, tcpdump_bin.go): the pinned    *)
(* build for one of the device's ABIs, the verified copy kept on this      *)
(* computer, the push, and the probe every screen asks, whose answer is a  *)
(* fact kept for ten minutes and dropped by the bindings that install. An  *)
(* answer is kept when it arrives, whatever was done to the device since   *)
(* it was asked, and a device that does not answer has no tcpdump.         *)
(***************************************************************************)
EXTENDS Naturals, Sequences, SequencesExt

CONSTANTS ABIList,   \* the ABIs the device runs, its own first
          Pinned,    \* the ABIs the manifest has a build for
          Askers,    \* the screens that ask
          Jobs, MaxCalls, MaxCrashes  \* the installs under way, and bounds

VARIABLES
  blob,      \* the cached file of each build: none, bad, whole
  system,    \* a tcpdump in a preferred directory: none, plain, exec
  file,      \* /data/local/tmp/tcpdump: what it is, whose, and its mode
  fact,      \* the probe's answer, as kept
  asks,      \* the probes under way: what the device answered
  job, calls, crashes,
  why        \* history: what may make the kept answer wrong

vars == <<blob, system, file, fact, asks, job, calls, crashes, why>>

Idle == [pc |-> "idle"]
Unknown == [is |-> "unknown"]
NoAsk == [is |-> "none"]
NoFile == [is |-> "none"]
Init == /\ blob \in [Pinned -> {"none", "bad"}] /\ system \in {"none", "plain"} /\ file = NoFile
        /\ fact = Unknown /\ asks = [p \in Askers |-> NoAsk] /\ why = {}
        /\ job = [j \in Jobs |-> Idle] /\ calls = 0 /\ crashes = 0

-----------------------------------------------------------------------------
Found(where, exec) == [is |-> "info", available |-> TRUE, where |-> where, exec |-> exec]
NotFound == [is |-> "info", available |-> FALSE, where |-> "", exec |-> FALSE]
\* The first file of the list is the answer, whether or not it may be executed.
probeTcpdumpUncached ==
  IF system # "none" THEN Found("system", system = "exec")
  ELSE IF file # NoFile THEN Found("tmp", file.exec)
  ELSE NotFound
touch == fact' = Unknown /\ why' = {} /\ UNCHANGED asks

\* The build for the device's own ABI, or for the first other one it can run.
tcpdumpBuildFor == SelectSeq(ABIList, LAMBDA a : a \in Pinned)
\* The dialog says cached of any file that is not empty: the copy is verified later.
PlanTcpdumpAutoInstall == [abi |-> Head(tcpdumpBuildFor), cached |-> blob[Head(tcpdumpBuildFor)] # "none"]

-----------------------------------------------------------------------------
At(j, pc) == job[j].pc = pc
To(j, rec) == job' = [job EXCEPT ![j] = rec]
Goes(j, pc) == job' = [job EXCEPT ![j].pc = pc]
Call(j) == At(j, "idle") /\ calls < MaxCalls /\ calls' = calls + 1
Host == <<blob, calls, crashes>>
Device == <<system, file>>
Kept == <<fact, asks, why>>
\* The device changes under the probes that wait for its answer.
Overtakes(by) ==
  asks' = [p \in Askers |-> IF asks[p] = NoAsk THEN NoAsk ELSE [asks[p] EXCEPT !.why = @ \cup {by}]]

\* A page asks (cachedRead): what is kept answers, or else the device is asked. One
\* that does not answer is one without tcpdump, and no error.
AskPage(p) ==
  /\ fact = Unknown /\ asks[p] = NoAsk
  /\ \/ asks' = [asks EXCEPT ![p] = [is |-> "read", answer |-> probeTcpdumpUncached, why |-> {}]]
     \/ asks' = [asks EXCEPT ![p] = [is |-> "read", answer |-> NotFound, why |-> {"unheard"}]]
  /\ UNCHANGED <<Host, Device, job, fact, why>>
\* Its answer is kept when it arrives.
KeepAnswer(p) ==
  /\ asks[p] # NoAsk
  /\ fact' = asks[p].answer /\ why' = asks[p].why /\ asks' = [asks EXCEPT ![p] = NoAsk]
  /\ UNCHANGED <<Host, Device, job>>

InstallTcpdumpAuto(j) ==
  /\ Call(j) /\ tcpdumpBuildFor # <<>>
  /\ To(j, [pc |-> "fetch", of |-> "auto", abi |-> PlanTcpdumpAutoInstall.abi, is |-> "whole"])
  /\ UNCHANGED <<blob, crashes, Device, Kept>>
\* The file the user picks is not validated; it may be a build for another ABI.
InstallTcpdumpWithPicker(j) ==
  /\ Call(j)
  /\ \E is \in {"whole", "wrong"} : To(j, [pc |-> "push", of |-> "picked", is |-> is])
  /\ UNCHANGED <<blob, crashes, Device, Kept>>

\* A slip: a file that is there is taken for the build.
FetchTrusts(j) ==
  /\ At(j, "fetch") /\ blob[job[j].abi] # "none" /\ To(j, [job[j] EXCEPT !.pc = "push", !.is = blob[job[j].abi]])
  /\ UNCHANGED <<Host, Device, Kept>>
\* fetchTcpdumpBlob: a copy whose digest holds is used; another is removed first.
FetchCached(j) ==
  /\ At(j, "fetch") /\ blob[job[j].abi] = "whole" /\ Goes(j, "push")
  /\ UNCHANGED <<Host, Device, Kept>>
FetchRemoves(j) ==
  /\ At(j, "fetch") /\ blob[job[j].abi] # "whole"
  /\ blob' = [blob EXCEPT ![job[j].abi] = "none"] /\ Goes(j, "download")
  /\ UNCHANGED <<calls, crashes, Device, Kept>>
\* What arrives is hashed on the way into a temporary file, and renamed when it is right.
Downloaded(j) ==
  /\ At(j, "download") /\ blob' = [blob EXCEPT ![job[j].abi] = "whole"] /\ Goes(j, "push")
  /\ UNCHANGED <<calls, crashes, Device, Kept>>

\* InstallTcpdump: the push truncates the file, keeping the mode it had.
PushOpens(j) ==
  /\ At(j, "push") /\ file' = [is |-> "part", of |-> job[j].of, exec |-> file # NoFile /\ file.exec]
  /\ Goes(j, "pushing") /\ Overtakes("overtaken") /\ UNCHANGED <<Host, system, fact, why>>
Pushed(j) ==
  /\ At(j, "pushing") /\ file # NoFile
  /\ file' = [file EXCEPT !.is = job[j].is, !.of = job[j].of]
  /\ Goes(j, "chmod") /\ Overtakes("overtaken") /\ UNCHANGED <<Host, system, fact, why>>
Chmod(j) ==
  /\ At(j, "chmod") /\ file # NoFile /\ file' = [file EXCEPT !.exec = TRUE]
  /\ Goes(j, "check") /\ Overtakes("overtaken") /\ UNCHANGED <<Host, system, fact, why>>
Runs == file # NoFile /\ file.is = "whole" /\ file.exec
\* The version check passed: the answer is the probe's, and the deferred touch follows it.
InstallEnds(j) ==
  /\ At(j, "check") /\ Runs
  /\ touch
  /\ To(j, Idle) /\ UNCHANGED <<Host, Device>>
\* A slip: what is kept is dropped only when the install succeeded.
FailsQuietly(j) ==
  /\ job[j].pc \in {"fetch", "download", "push", "pushing", "chmod"} \/ (At(j, "check") /\ ~Runs)
  /\ To(j, Idle) /\ UNCHANGED <<Host, Device, Kept>>
\* Any step may fail; a file that was pushed stays where it is.
InstallFails(j) ==
  /\ job[j].pc \in {"fetch", "download", "push", "pushing", "chmod"} \/ (At(j, "check") /\ ~Runs)
  /\ touch /\ To(j, Idle) /\ UNCHANGED <<Host, Device>>

\* The fact ends: its ten minutes, or a refresh.
Expires == fact # Unknown /\ touch /\ UNCHANGED <<Host, Device, job>>
\* External: a shell installs or removes a tcpdump.
Outside == /\ "outside" \notin why /\ why' = why \cup {"outside"} /\ Overtakes("outside")
           /\ system' \in {"none", "exec"} \ {system} /\ file' \in {file, NoFile}
           /\ UNCHANGED <<Host, fact, job>>
Crash == /\ crashes < MaxCrashes /\ crashes' = crashes + 1
         /\ job' = [j \in Jobs |-> Idle]
         /\ fact' = Unknown /\ why' = {} /\ asks' = [p \in Askers |-> NoAsk]
         /\ UNCHANGED <<blob, calls, Device>>

Next == \/ Expires \/ Outside \/ Crash
        \/ \E p \in Askers : AskPage(p) \/ KeepAnswer(p)
        \/ \E j \in Jobs : \/ InstallTcpdumpAuto(j) \/ InstallTcpdumpWithPicker(j)
                           \/ FetchCached(j) \/ FetchRemoves(j) \/ Downloaded(j)
                           \/ PushOpens(j) \/ Pushed(j) \/ Chmod(j) \/ InstallEnds(j) \/ InstallFails(j)
Spec == Init /\ [][Next]_vars

-----------------------------------------------------------------------------
\* What an automatic install leaves on the device is a part of the pinned build or all
\* of it, whatever the cache on this computer held and whoever installs beside it.
PushedIsVerified == file # NoFile /\ file.of = "auto" => file.is \in {"part", "whole"}

\* With no install under way, the kept probe says what the device holds, a failed
\* install being a change like another: unless a shell changed it, the device did not
\* answer the probe, or an install changed it between the probe's answer and its keeping.
ProbeIsTrue ==
  (\A j \in Jobs : job[j] = Idle) /\ why = {} /\ fact # Unknown => fact = probeTcpdumpUncached
=============================================================================
