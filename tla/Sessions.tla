----------------------------- MODULE Sessions -----------------------------
(***************************************************************************)
(* What adbq leaves running on one device, and how the next launch finds   *)
(* it: the session store (sessions.go), the file capture (system.go and    *)
(* its bindings in app.go), the interactive screen recording, a crash at   *)
(* any step, and reconcileSessions.                                        *)
(*                                                                         *)
(* The device is a set of tcpdump processes ("file" writes the capture     *)
(* file, "live" is the one of a live capture), whether the capture file    *)
(* holds packets, and the recordings under way.  The ghosts: `slip` is set *)
(* when a command of the panel's that the device did not answer, a crash   *)
(* inside a call or a torn write separates the store from the device;      *)
(* `misled` says why reconcileSessions may drop a capture that runs: its   *)
(* status was no answer ("unheard"), or the capture began after the status *)
(* ("overtaken"); `twins` are the recordings whose starts overlapped.      *)
(***************************************************************************)
EXTENDS Naturals, FiniteSets

CONSTANTS MaxCalls,     \* bound: capture calls
          MaxRecs,      \* bound: recordings
          MaxFaults,    \* bound: times the device goes away
          MaxCrashes    \* bound: crashes of the program

VARIABLES up, tcp, pcap,            \* the device
          store, disk, writing,     \* SessionStore.data, its file, a save under way
          call,                     \* the capture panel's call (its buttons wait for it)
          todo, rows, recon, misled,  \* reconcileSessions, and the task rows it adds
          recs, entry, starts, stops, recRow,  \* recorders, a.srSess, the calls, their rows
          twins, slip, calls, faults, crashes

vars == <<up, tcp, pcap, store, disk, writing, call, todo, rows, recon, misled,
          recs, entry, starts, stops, recRow, twins, slip, calls, faults, crashes>>

device   == <<up, tcp, pcap>>
saved    == <<store, disk, writing>>
panel    == <<call, calls>>
recorder == <<recs, entry, starts, stops, recRow, twins>>
boot     == <<todo, rows, recon, misled>>
bounds   == <<faults, crashes>>

Recs == 1 .. MaxRecs

Init ==
  /\ up = TRUE /\ tcp \in SUBSET {"file", "live"} /\ pcap = ("file" \in tcp)
  /\ store = {} /\ disk = {} /\ writing = FALSE
  /\ call = "none" /\ calls = 0
  /\ todo = {} /\ rows = {} /\ recon = "none" /\ misled = {}
  /\ recs = [r \in Recs |-> "new"] /\ entry = 0 /\ starts = {} /\ stops = {}
  /\ recRow = [r \in Recs |-> "none"] /\ twins = {}
  /\ slip = ("file" \in tcp) /\ faults = 0 /\ crashes = 0

---------------------------------------------------------------------------
(* SessionStore: memory and file under one lock; the file is rewritten in  *)
(* place, so a crash may find it empty.                                    *)

Store(s) == ~writing /\ store' = s /\ writing' = TRUE /\ UNCHANGED disk

SaveEnds ==
  /\ writing /\ writing' = FALSE /\ disk' = store
  /\ UNCHANGED <<device, store, panel, boot, recorder, slip, bounds>>

---------------------------------------------------------------------------
(* The file capture                                                        *)

\* findOurTcpdump: the process whose command line names the capture file
Active == up /\ "file" \in tcp

\* FindTcpdump may find none; then every tcpdump of the device is killed, a
\* live capture's too, and the old file removed.  A device that does not
\* answer is passed over here.
StartCapture ==
  /\ call = "none" /\ calls < MaxCalls /\ calls' = calls + 1
  /\ \/ call' = "launch" /\ IF up THEN tcp' = {} /\ pcap' = FALSE ELSE UNCHANGED <<tcp, pcap>>
     \/ UNCHANGED <<call, tcp, pcap>>
  /\ UNCHANGED <<up, saved, boot, recorder, slip, bounds>>

\* `nohup tcpdump ... &`: an error ends the call, also one that comes after
\* the process started.
Overtakes == misled' = IF recon = "none" THEN misled ELSE misled \cup {"overtaken"}
LaunchCapture ==
  /\ call = "launch"
  /\ \/ up /\ tcp' = tcp \cup {"file"} /\ pcap' = TRUE /\ call' = "probe" /\ Overtakes /\ UNCHANGED slip
     \/ up /\ tcp' = tcp \cup {"file"} /\ pcap' = TRUE /\ call' = "none" /\ Overtakes /\ slip' = TRUE
     \/ call' = "none" /\ slip' = (slip \/ "file" \in tcp) /\ UNCHANGED <<tcp, pcap, misled>>
  /\ UNCHANGED <<up, saved, calls, todo, rows, recon, recorder, bounds>>

\* CaptureStatus 400 ms later: only a capture seen running is stored.
ProbeCapture ==
  /\ call = "probe" /\ call' = "none"
  /\ IF Active
     THEN /\ Store(store \cup {"cap"}) /\ slip' = FALSE
          /\ misled' = IF recon = "none" THEN {} ELSE misled
     ELSE UNCHANGED <<saved, misled>> /\ slip' = (slip \/ "file" \in tcp)
  /\ UNCHANGED <<device, calls, todo, rows, recon, recorder, bounds>>

\* StopCapture and KillExternalCapture: SIGINT, SIGKILL, status; ...
StopCapture ==
  /\ call = "none" /\ calls < MaxCalls /\ calls' = calls + 1 /\ call' = "forget"
  /\ IF up THEN tcp' = {} /\ UNCHANGED slip
     ELSE UNCHANGED tcp /\ slip' = (slip \/ "file" \in tcp)
  /\ UNCHANGED <<up, pcap, saved, boot, recorder, bounds>>

\* ... and the session is removed, whatever the status says.
ForgetCapture ==
  /\ call = "forget" /\ call' = "none"
  /\ Store(store \ {"cap"})
  /\ UNCHANGED <<device, calls, boot, recorder, slip, bounds>>

\* A tcpdump that writes our file and is not in the store is adopted.
AdoptExternalCapture ==
  /\ call = "none" /\ calls < MaxCalls /\ Active /\ calls' = calls + 1
  /\ Store(store \cup {"cap"}) /\ slip' = FALSE
  /\ misled' = IF recon = "none" THEN {} ELSE misled \cup {"overtaken"}
  /\ UNCHANGED <<device, call, todo, rows, recon, recorder, bounds>>

\* PullCapture asks for a file of /sdcard; the capture is in /data/local/tmp.
PulledPath == "/sdcard/adbq-capture.pcap"
CapturePath == "/data/local/tmp/adbq-capture.pcap"
Pulled(path) == path = CapturePath /\ pcap

---------------------------------------------------------------------------
(* The screen recording                                                    *)

\* its slip: no look at the entries
StartAnyway ==
  /\ \E r \in Recs :
       /\ recs[r] = "new" /\ recs' = [recs EXCEPT ![r] = "asked"]
       /\ \A q \in Recs : q < r => recs[q] # "new"
       /\ starts' = starts \cup {r}
       /\ recRow' = [recRow EXCEPT ![r] = "running"]
       /\ twins' = IF starts = {} THEN twins ELSE twins \cup starts'
  /\ UNCHANGED <<device, saved, panel, boot, entry, stops, slip, bounds>>

\* StartScreenRecord looks for an entry, ...
StartScreenRecord ==
  /\ entry = 0
  /\ \E r \in Recs :
       /\ recs[r] = "new" /\ recs' = [recs EXCEPT ![r] = "asked"]
       /\ \A q \in Recs : q < r => recs[q] # "new"
       /\ starts' = starts \cup {r}
       /\ recRow' = [recRow EXCEPT ![r] = "running"]
       /\ twins' = IF starts = {} THEN twins ELSE twins \cup starts'
  /\ UNCHANGED <<device, saved, panel, boot, entry, stops, slip, bounds>>

\* ... starts the recorder, or fails and finishes the row, ...
SpawnRecorder ==
  /\ \E r \in starts :
       /\ recs[r] = "asked"
       /\ \/ up /\ recs' = [recs EXCEPT ![r] = "on"] /\ UNCHANGED <<starts, recRow>>
          \/ /\ recs' = [recs EXCEPT ![r] = "gone"] /\ starts' = starts \ {r}
             /\ recRow' = [recRow EXCEPT ![r] = "err"]
  /\ UNCHANGED <<device, saved, panel, boot, entry, stops, twins, slip, bounds>>

\* ... and writes its entry and its session.
EnterRecording ==
  /\ \E r \in starts :
       /\ recs[r] \in {"on", "over"} /\ entry' = r /\ starts' = starts \ {r}
  /\ Store(store \cup {"rec"})
  /\ UNCHANGED <<device, panel, boot, recs, stops, recRow, twins, slip, bounds>>

\* the time limit: the recorder ends, its entry and row stay
RecorderEnds ==
  /\ \E r \in Recs : recs[r] = "on" /\ recs' = [recs EXCEPT ![r] = "over"]
  /\ UNCHANGED <<device, saved, panel, boot, entry, starts, stops, recRow, twins, slip, bounds>>

\* StopScreenRecord takes the entry, ...
StopScreenRecord ==
  /\ entry # 0 /\ entry' = 0 /\ stops' = stops \cup {entry}
  /\ UNCHANGED <<device, saved, panel, boot, recs, starts, recRow, twins, slip, bounds>>

\* ... waits for the recorder, pulls and removes its file, finishes the row.
\* When the pull fails the session is kept, the entry is not.
FinishRecording ==
  /\ \E r \in stops :
       /\ stops' = stops \ {r}
       /\ \/ /\ up /\ Store(store \ {"rec"})
             /\ recs' = [recs EXCEPT ![r] = "pulled"]
             /\ recRow' = [recRow EXCEPT ![r] = "ok"]
          \/ /\ UNCHANGED saved
             /\ recs' = [recs EXCEPT ![r] = "over"]
             /\ recRow' = [recRow EXCEPT ![r] = "err"]
  /\ UNCHANGED <<device, panel, boot, entry, starts, twins, slip, bounds>>

---------------------------------------------------------------------------
(* Crash, restart and reconcileSessions                                    *)

\* The program is gone: a save under way may leave an empty file, which the
\* next launch reads as no sessions.  A recorder may outlive its adb child.
Crash ==
  /\ crashes < MaxCrashes /\ crashes' = crashes + 1
  /\ store' \in IF writing THEN {disk, store, {}} ELSE {store}
  /\ disk' = store' /\ writing' = FALSE
  /\ slip' = (slip \/ ("file" \in tcp /\ (call # "none" \/ store' # store)))
  /\ recs' \in [Recs -> {"new", "on", "over", "gone", "pulled"}]
  /\ \A r \in Recs : IF recs[r] = "on" THEN recs'[r] \in {"on", "over"}
                     ELSE IF recs[r] = "asked" THEN recs'[r] = "gone" ELSE recs'[r] = recs[r]
  /\ call' = "none" /\ entry' = 0 /\ starts' = {} /\ stops' = {}
  /\ recRow' = [r \in Recs |-> "none"] /\ rows' = {} /\ todo' = store' /\ recon' = "none"
  /\ UNCHANGED <<device, misled, twins, calls, faults>>

\* its slip: what still runs is dropped like what has ended
ReconcileDrops ==
  /\ "cap" \in todo /\ recon = "none" /\ recon' = "look"
  /\ misled' = IF up THEN {} ELSE misled
  /\ UNCHANGED <<device, saved, panel, todo, rows, recorder, slip, bounds>>

\* A capture that runs gets a row and keeps its session.  CaptureStatus answers for a
\* device that is away with an idle state and no error, so that the branch which
\* would keep the session of a device that is offline is never taken.
ReconcileStatus ==
  /\ "cap" \in todo /\ recon = "none"
  /\ \/ /\ Active /\ rows' = rows \cup {"capture runs"} /\ todo' = todo \ {"cap"}
        /\ UNCHANGED <<recon, misled>>
     \/ /\ ~Active /\ recon' = "look" /\ UNCHANGED <<todo, rows>>
        /\ misled' = IF up THEN {} ELSE IF "file" \in tcp THEN misled \cup {"unheard"} ELSE misled
  /\ UNCHANGED <<device, saved, panel, recorder, slip, bounds>>

\* The second status: a row when the file holds packets, ...
ReconcileLook ==
  /\ recon = "look" /\ recon' = "remove"
  /\ rows' = IF up /\ pcap THEN rows \cup {"capture left"} ELSE rows
  /\ UNCHANGED <<device, saved, panel, todo, misled, recorder, slip, bounds>>

\* ... and the session is dropped, whatever became of the capture since the first.
ReconcileRemove ==
  /\ recon = "remove" /\ recon' = "none" /\ todo' = todo \ {"cap"}
  /\ Store(store \ {"cap"})
  /\ UNCHANGED <<device, panel, rows, misled, recorder, slip, bounds>>

\* A recording is only looked for as a file, and always dropped.
ReconcileRecording ==
  /\ "rec" \in todo /\ recon = "none" /\ todo' = todo \ {"rec"}
  /\ Store(store \ {"rec"})
  /\ rows' = IF up /\ \E r \in Recs : recs[r] \in {"on", "over"} THEN rows \cup {"recording left"} ELSE rows
  /\ UNCHANGED <<device, panel, recon, misled, recorder, slip, bounds>>

DeviceLeaves ==
  /\ up /\ faults < MaxFaults /\ faults' = faults + 1 /\ up' = FALSE
  /\ UNCHANGED <<tcp, pcap, saved, panel, boot, recorder, slip, crashes>>

DeviceReturns ==
  /\ ~up /\ up' = TRUE
  /\ UNCHANGED <<tcp, pcap, saved, panel, boot, recorder, slip, bounds>>

Next ==
  \/ SaveEnds
  \/ StartCapture \/ LaunchCapture \/ ProbeCapture
  \/ StopCapture \/ ForgetCapture \/ AdoptExternalCapture
  \/ StartScreenRecord \/ SpawnRecorder \/ EnterRecording \/ RecorderEnds
  \/ StopScreenRecord \/ FinishRecording
  \/ Crash \/ ReconcileStatus \/ ReconcileLook \/ ReconcileRemove \/ ReconcileRecording
  \/ DeviceLeaves \/ DeviceReturns

Spec == Init /\ [][Next]_vars

---------------------------------------------------------------------------
TypeOK ==
  /\ tcp \subseteq {"file", "live"} /\ store \subseteq {"cap", "rec"} /\ disk \subseteq {"cap", "rec"}
  /\ call \in {"none", "launch", "probe", "forget"} /\ todo \subseteq {"cap", "rec"}
  /\ recon \in {"none", "look", "remove"} /\ misled \subseteq {"unheard", "overtaken"}
  /\ entry \in 0 .. MaxRecs /\ starts \subseteq Recs /\ stops \subseteq Recs

\* A file capture that runs while no call is about it is in the store, and on
\* disk once the save is through, so that the next launch finds it.  Exempt are a
\* command of the panel's that the device failed to answer, a crash that cut a call
\* or tore a save, and the two ways in which reconcileSessions drops a capture that
\* runs: the device did not answer its first status, where the comment beside the
\* branch says that the entry is kept, or the capture began after that status.
CaptureIsKnown ==
  ("file" \in tcp /\ call = "none" /\ ~slip /\ misled = {})
     => ("cap" \in store /\ (writing \/ "cap" \in disk))

\* A recorder of this launch that runs, or whose file waits for its stop, is
\* the entry's or one a call is about, and its row is finished only by its stop:
\* a start that did not overlap another never hides it.
RecordingIsReachable ==
  \A r \in Recs \ twins :
    (recRow[r] = "running" /\ r \notin starts \cup stops) => entry = r
===========================================================================
