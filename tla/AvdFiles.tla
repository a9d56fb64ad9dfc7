------------------------------ MODULE AvdFiles ------------------------------
(***************************************************************************)
(* The files of one AVD: <name>.ini, which says where its directory is,    *)
(* config.ini, and the snapshots (avd.go, avd_create.go).  The bindings    *)
(* that create, edit and delete read and write them with no lock; a        *)
(* config.ini is written to config.ini.tmp and renamed.                    *)
(*                                                                         *)
(* A config is a function from keys to values; 0 and "" stand for a key    *)
(* that is absent, or, in an edit, for a value to leave alone.             *)
(***************************************************************************)
EXTENDS Naturals, FiniteSets

CONSTANTS Jobs, Edits, Specs, MaxCalls, MaxCrashes  \* calls, what they ask for, and bounds

Leave == [ram |-> 0, cores |-> 0, gpu |-> "", width |-> 0, height |-> 0, density |-> 0, keyboard |-> ""]
\* The keys that are not changed survive: the file is read, merged and written whole.
Merged(kv, changes) ==
  [k \in DOMAIN kv \cup DOMAIN changes |-> IF k \in DOMAIN changes THEN changes[k] ELSE kv[k]]
\* What the device's own defaults leave in the file.
Frugal == Merged(Leave, [ram |-> 1536, cores |-> 2, keyboard |-> "no", gpuOn |-> "no", sysdir |-> "set"])

VARIABLES
  ini,      \* how <name>.ini names the directory: none, path, rel (path.rel alone)
  config,   \* config.ini: none, part, or a config
  temp,     \* config.ini.tmp: none, part, or a config
  snaps,    \* the snapshots
  live,     \* an emulator runs it, whoever started it
  job,      \* the calls under way
  calls, crashes,
  crossed,  \* history: two writers met, or one was cut
  edited    \* history: the last edit to succeed, with the config it found

vars == <<ini, config, temp, snaps, live, job, calls, crashes, crossed, edited>>

Idle == [pc |-> "idle"]
None == [is |-> "none"]
Part == [is |-> "part"]
File(kv) == [is |-> "file", kv |-> kv]
Writers == {j \in Jobs : job[j].pc # "idle"}

Init ==
  /\ ini \in {"none", "path", "rel"}
  /\ config = IF ini = "none" THEN None ELSE File(Frugal)
  /\ temp = None /\ snaps = {} /\ live = FALSE
  /\ job = [j \in Jobs |-> Idle] /\ calls = 0 /\ crashes = 0 /\ crossed = FALSE /\ edited = None

-----------------------------------------------------------------------------
\* The pure functions.

Limits == [ram |-> 512 .. 65536, cores |-> 1 .. 16, size |-> 240 .. 8192, density |-> 80 .. 960]
InRange(n, range) == n = 0 \/ n \in range
gpuModes == {"auto", "host", "swiftshader_indirect", "angle_indirect", "guest", "off"}

\* What an edit writes, and whether it is refused.
AVDHardwareOK(h) ==
  /\ InRange(h.ram, Limits.ram) /\ InRange(h.cores, Limits.cores)
  /\ h.gpu \in gpuModes \union {""}
  /\ h.width = 0 <=> h.height = 0
  /\ InRange(h.width, Limits.size) /\ InRange(h.height, Limits.size) /\ InRange(h.density, Limits.density)
Set(h) == {k \in DOMAIN h : h[k] # Leave[k]}
Mode(h) == IF h.gpu = "" THEN {} ELSE {"gpuOn"}
AVDHardwareChanges(h) ==
  [k \in Set(h) \cup Mode(h) |-> IF k # "gpuOn" THEN h[k] ELSE IF h.gpu = "off" THEN "no" ELSE "yes"]
\* What a new AVD's settings write: the keyboard either way.
ConfigTweaks(s) ==
  [k \in (Set(s) \cap {"ram", "cores", "gpu"}) \cup {"keyboard"} \cup Mode(s) |->
     CASE k = "keyboard" -> IF s.keyboard = "yes" THEN "yes" ELSE "no"
       [] k = "gpuOn" -> "yes"
       [] OTHER -> s[k]]

\* What the panel shows of an AVD: LoadAVD also follows path.rel.
applyConfig(kv) ==
  [ram |-> kv.ram, cores |-> kv.cores, gpu |-> kv.gpu, density |-> kv.density, keyboard |-> kv.keyboard = "yes",
   size |-> IF kv.width > 0 /\ kv.height > 0 THEN <<kv.width, kv.height>> ELSE <<>>]
LoadAVD == IF ini = "none" \/ config.is # "file" THEN Leave ELSE applyConfig(config.kv)

-----------------------------------------------------------------------------
Call(j) == job[j] = Idle /\ calls < MaxCalls /\ calls' = calls + 1
Ends(j) == job' = [job EXCEPT ![j] = Idle]
Meets == crossed' = (crossed \/ Writers # {})

\* UpdateAVDHardware and applyAVDConfigTweaks find the directory by `path` alone.
ReadConfig(j, changes, of) ==
  /\ ini = "path" /\ config.is # "none"
  /\ job' = [job EXCEPT ![j] = [pc |-> "write", of |-> of, was |-> config, changes |-> changes,
                                new |-> IF config.is = "file" THEN Merged(config.kv, changes) ELSE changes]]
UpdateAVDHardware(j) ==
  /\ Call(j) /\ \E h \in Edits : AVDHardwareOK(h) /\ Set(h) # {} /\ ReadConfig(j, AVDHardwareChanges(h), "edit")
  /\ Meets /\ UNCHANGED <<ini, config, temp, snaps, live, crashes, edited>>

\* A slip: the file is written where it stands.
WriteInPlace(j) ==
  /\ job[j].pc = "write" /\ config' = Part /\ temp' = Part
  /\ job' = [job EXCEPT ![j].pc = "fill"]
  /\ UNCHANGED <<ini, snaps, live, calls, crashes, crossed, edited>>
\* writeIni: the temporary file is truncated, filled and renamed.
WriteTemp(j) ==
  /\ job[j].pc = "write" /\ temp' = Part
  /\ job' = [job EXCEPT ![j].pc = "fill"]
  /\ UNCHANGED <<ini, config, snaps, live, calls, crashes, crossed, edited>>
FillTemp(j) ==
  /\ job[j].pc = "fill" /\ temp' = File(job[j].new)
  /\ job' = [job EXCEPT ![j].pc = "rename"]
  /\ UNCHANGED <<ini, config, snaps, live, calls, crashes, crossed, edited>>
Rename(j) ==
  /\ job[j].pc = "rename" /\ temp # None /\ config # None
  /\ config' = temp /\ temp' = None
  /\ edited' = IF job[j].of = "edit" /\ job[j].was.is = "file"
               THEN [is |-> "edit", was |-> job[j].was.kv, changes |-> job[j].changes] ELSE None
  /\ Ends(j) /\ UNCHANGED <<ini, snaps, live, calls, crashes, crossed>>
\* The disk is full, the directory is gone, or another writer renamed the file.
WriteFails(j) == job[j].pc \in {"write", "fill", "rename"} /\ Ends(j)
                 /\ UNCHANGED <<ini, config, temp, snaps, live, calls, crashes, crossed, edited>>

\* CreateAVD: refused when the name is taken, unless forced; then avdmanager writes the
\* device's own defaults, and the settings it has no flags for follow.
CreateAVD(j) ==
  /\ Call(j)
  /\ \E s \in Specs, force \in BOOLEAN :
       /\ ini = "none" \/ force
       /\ job' = [job EXCEPT ![j] = [pc |-> "create", spec |-> s]]
  /\ Meets /\ UNCHANGED <<ini, config, temp, snaps, live, crashes, edited>>
Created(j) ==
  /\ job[j].pc = "create"
  /\ ini' = "path" /\ config' = File(Frugal) /\ snaps' = {} /\ edited' = None
  /\ job' = [job EXCEPT ![j].pc = "tweak"]
  /\ UNCHANGED <<temp, live, calls, crashes, crossed>>
CreateFails(j) == job[j].pc = "create" /\ Ends(j)
                  /\ UNCHANGED <<ini, config, temp, snaps, live, calls, crashes, crossed, edited>>
applyAVDConfigTweaks(j) ==
  /\ job[j].pc = "tweak" /\ ReadConfig(j, ConfigTweaks(job[j].spec), "create")
  /\ UNCHANGED <<ini, config, temp, snaps, live, calls, crashes, crossed, edited>>
\* Lost settings do not read as a failed creation: the AVD comes back with a warning.
TweakFails(j) == job[j].pc = "tweak" /\ ini # "path" /\ Ends(j)
                 /\ UNCHANGED <<ini, config, temp, snaps, live, calls, crashes, crossed, edited>>

\* avdBusy looks at the transports of adb, then the tool is started: an emulator may
\* start in between.
avdBusy == ini # "none" /\ live
DeleteAVD(j) ==
  /\ Call(j) /\ ~avdBusy
  /\ job' = [job EXCEPT ![j] = [pc |-> "delete"]]
  /\ Meets /\ UNCHANGED <<ini, config, temp, snaps, live, crashes, edited>>
Deleted(j) ==
  /\ job[j].pc = "delete"
  /\ \/ ini' = "none" /\ config' = None /\ temp' = None /\ snaps' = {} /\ edited' = None
     \/ UNCHANGED <<ini, config, temp, snaps, edited>>
  /\ Ends(j) /\ UNCHANGED <<live, calls, crashes, crossed>>
DeleteSnapshot(j) ==
  /\ Call(j) /\ ~avdBusy /\ ini # "none" /\ snaps # {}
  /\ \E s \in snaps : snaps' = snaps \ {s}
  /\ UNCHANGED <<ini, config, temp, live, job, crashes, crossed, edited>>

\* External: an emulator starts, saves a snapshot and ends.
Boot == ini # "none" /\ config.is = "file" /\ ~live /\ live' = TRUE
        /\ UNCHANGED <<ini, config, temp, snaps, job, calls, crashes, crossed, edited>>
Leaves == live /\ live' = FALSE /\ snaps' \in {snaps, {"saved"}}
          /\ UNCHANGED <<ini, config, temp, job, calls, crashes, crossed, edited>>
Crash ==
  /\ crashes < MaxCrashes /\ crashes' = crashes + 1
  /\ job' = [j \in Jobs |-> Idle] /\ UNCHANGED <<ini, config, temp, snaps, live, calls, crossed, edited>>

Next ==
  \/ \E j \in Jobs :
       \/ UpdateAVDHardware(j) \/ CreateAVD(j) \/ DeleteAVD(j) \/ DeleteSnapshot(j)
       \/ WriteTemp(j) \/ FillTemp(j) \/ Rename(j) \/ WriteFails(j)
       \/ Created(j) \/ CreateFails(j) \/ applyAVDConfigTweaks(j) \/ TweakFails(j) \/ Deleted(j)
  \/ Boot \/ Leaves \/ Crash
Spec == Init /\ [][Next]_vars

-----------------------------------------------------------------------------
\* config.ini is a whole file whatever ends the process, as long as no two calls write
\* for the same AVD: they share config.ini.tmp, and the one that renames first takes
\* the other's half-written file.
ConfigIsWhole == ~crossed => config # Part

\* After an edit the panel shows what was asked for, and of every other setting what it
\* showed before; nothing else in the file is lost, the system image's path with it.
EditIsShown ==
  edited # None /\ ~crossed =>
    LET shown == LoadAVD  before == applyConfig(edited.was) IN
    /\ \A k \in DOMAIN edited.changes : config.kv[k] = edited.changes[k]
    /\ \A k \in DOMAIN edited.was \ DOMAIN edited.changes : config.kv[k] = edited.was[k]
    /\ \A k \in {"ram", "cores", "gpu", "density"} \ DOMAIN edited.changes : shown[k] = before[k]
    /\ {"width", "height"} \subseteq DOMAIN edited.changes \/ shown.size = before.size
    /\ "gpu" \in DOMAIN edited.changes => (config.kv.gpu = "off" <=> config.kv.gpuOn = "no")
=============================================================================
