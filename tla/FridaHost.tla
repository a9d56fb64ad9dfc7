------------------------------- MODULE FridaHost -------------------------------
(***************************************************************************)
(* What Frida needs on the host and on the device, made by jobs that no    *)
(* lock joins: a virtual environment (EnsureVenv), the bridges of          *)
(* frida-tools (ensureFridaBridges, both frida_tools.go) and a frida-server *)
(* pushed to a device (InstallFridaServer, frida_install.go).  Each first  *)
(* downloads an asset.  All jobs are for one Frida version, so those of a  *)
(* kind share their files; each server goes to a device of its own.        *)
(*                                                                         *)
(* A file is whole, part of one, or bad (its bytes are not the published   *)
(* ones).  A crash ends every job and keeps the disk.                      *)
(***************************************************************************)
EXTENDS Naturals, FiniteSets

CONSTANTS Jobs,       \* calls of the bindings
          MaxCrashes  \* bound

VARIABLES
  kind,      \* what each job makes: venv, bridges, server
  pc,        \* where it stands
  deps,      \* a venv job: whether it has every dependency
  digest,    \* whether the release publishes a digest of the asset
  asset,     \* the downloaded file of each kind
  parts,     \* temporary downloads left in the cache
  venv,      \* none, bare (without Frida), broken (its import fails), whole
  bridge,    \* java.js: none, part, old (of an earlier policy), whole
  stamp,     \* the policy the stamp names: none, old, current
  bin,       \* the decompressed server: none, part, whole
  remote,    \* what each server job has put on its device
  runnable,  \* the servers made executable there
  crashes,
  mixed      \* history: jobs that another job, or RemoveRuntime, came in the way of

jobVars  == <<kind, pc, deps>>
fileVars == <<digest, asset, parts, venv, bridge, stamp, bin, remote, runnable>>
vars == <<jobVars, fileVars, crashes, mixed>>

Kinds == {"venv", "bridges", "server"}
Ended == {"idle", "ok", "err"}

Init ==
  /\ kind \in [Jobs -> Kinds]
  /\ pc = [j \in Jobs |-> "idle"]
  /\ deps = [j \in Jobs |-> TRUE]
  /\ digest \in [Kinds -> BOOLEAN] /\ digest["venv"] /\ digest["bridges"]
  /\ asset \in [Kinds -> {"none", "bad", "whole"}]
  /\ \A k \in Kinds : asset[k] # "none" => \E j \in Jobs : kind[j] = k
  /\ parts = {}
  /\ venv \in {"none", "broken"}
  /\ bridge \in {"none", "old"} /\ stamp = bridge
  /\ bin = "none"
  /\ remote = [j \in Jobs |-> "none"]
  /\ runnable = {}
  /\ crashes = 0 /\ mixed = {}

Go(j, here, next) == pc[j] = here /\ pc' = [pc EXCEPT ![j] = next]
Same(vs) == UNCHANGED <<vs, crashes, mixed>>

\* The other jobs under way that share this one's files.
Rivals(j) == {i \in Jobs \ {j} : kind[i] = kind[j] /\ pc[i] \notin Ended}
StartPc == [venv |-> "probe", bridges |-> "stamped", server |-> "listed"]
Start(j) == /\ Go(j, "idle", StartPc[kind[j]])
            /\ mixed' = mixed \cup Rivals(j) \cup (IF Rivals(j) = {} THEN {} ELSE {j})
            /\ UNCHANGED <<kind, deps, fileVars, crashes>>
Again(j) == /\ \E end \in {"ok", "err"} : Go(j, end, "idle")
            /\ deps' = [deps EXCEPT ![j] = TRUE]
            /\ Same(<<kind, fileVars>>)

\* A failed EnsureVenv removes what it built; the others leave their files.
Fail(j, here) == /\ Go(j, here, "err")
                 /\ venv' = IF kind[j] = "venv" /\ here # "probe" THEN "none" ELSE venv
                 /\ Same(<<kind, deps, digest, asset, parts, bridge, stamp, bin, remote, runnable>>)

-----------------------------------------------------------------------------
\* downloadVerifiedAsset.

After == [venv |-> "pip", bridges |-> "extract", server |-> "unpack"]
Cached(j) == LET a == asset[kind[j]] IN a = "whole" \/ (a = "bad" /\ ~digest[kind[j]])
GetCached(j) == /\ Cached(j) /\ Go(j, "get", After[kind[j]])
                /\ Same(<<kind, deps, fileVars>>)
GetFresh(j) == /\ ~Cached(j) /\ Go(j, "get", "fetch")
               /\ asset' = [asset EXCEPT ![kind[j]] = "none"]
               /\ parts' = parts \cup {j}
               /\ Same(<<kind, deps, digest, venv, bridge, stamp, bin, remote, runnable>>)
\* A slip: the digest is compared only with a copy found on the disk.
FetchUnverified(j) == /\ Go(j, "fetch", After[kind[j]])
                      /\ \E got \in {"whole", "bad"} : asset' = [asset EXCEPT ![kind[j]] = got]
                      /\ parts' = parts \ {j}
                      /\ Same(<<kind, deps, digest, venv, bridge, stamp, bin, remote, runnable>>)
\* A file whose digest is known and does not match never gets its name.
FetchRename(j) == /\ Go(j, "fetch", After[kind[j]])
                  /\ \E got \in {"whole"} \cup (IF digest[kind[j]] THEN {} ELSE {"bad"}) :
                       asset' = [asset EXCEPT ![kind[j]] = got]
                  /\ parts' = parts \ {j}
                  /\ Same(<<kind, deps, digest, venv, bridge, stamp, bin, remote, runnable>>)
FetchFails(j) == /\ Go(j, "fetch", "err")
                 /\ parts' = parts \ {j}
                 /\ venv' = IF kind[j] = "venv" THEN "none" ELSE venv
                 /\ Same(<<kind, deps, digest, asset, bridge, stamp, bin, remote, runnable>>)

-----------------------------------------------------------------------------
\* EnsureVenv.

Others == <<kind, digest, asset, parts, bridge, stamp, bin, remote, runnable>>
VenvProbe(j) == /\ Go(j, "probe", IF venv = "whole" THEN "ok" ELSE "clear")
                /\ Same(<<kind, deps, fileVars>>)
VenvClear(j) == /\ Go(j, "clear", "create") /\ venv' = "none"
                /\ Same(<<Others, deps>>)
\* Over a directory another job has just filled, it keeps the packages.
VenvCreate(j) == /\ Go(j, "create", "get")
                 /\ venv' = IF venv = "none" THEN "bare" ELSE venv
                 /\ Same(<<Others, deps>>)
\* A dependency whose listing fails is skipped; one that fails to download is not.
VenvSkipsDep(j) == /\ pc[j] = "pip" /\ deps[j]
                   /\ deps' = [deps EXCEPT ![j] = FALSE]
                   /\ Same(<<kind, pc, fileVars>>)
VenvInstall(j) == /\ venv # "none" /\ Go(j, "pip", "check")
                  /\ venv' = IF venv = "whole" \/ (deps[j] /\ asset["venv"] = "whole") THEN "whole" ELSE "broken"
                  /\ Same(<<Others, deps>>)
VenvCheck(j) == /\ venv = "whole" /\ Go(j, "check", "ok")
                /\ Same(<<kind, deps, fileVars>>)
VenvReject(j) == /\ venv # "whole" /\ Go(j, "check", "err") /\ venv' = "none"
                 /\ Same(<<Others, deps>>)
RemoveRuntime == /\ venv # "none" /\ venv' = "none"
                 /\ mixed' = mixed \cup {j \in Jobs : kind[j] = "venv"}
                 /\ UNCHANGED <<Others, deps, pc, crashes>>

-----------------------------------------------------------------------------
\* ensureFridaBridges.

BridgesCached(j) == /\ bridge # "none" /\ stamp = "current" /\ Go(j, "stamped", "ok")
                    /\ Same(<<kind, deps, fileVars>>)
BridgesStale(j) == /\ bridge = "none" \/ stamp # "current"
                   /\ Go(j, "stamped", "get")
                   /\ Same(<<kind, deps, fileVars>>)
\* os.WriteFile truncates, then writes.
BridgeOthers == <<kind, deps, digest, asset, parts, venv, bin, remote, runnable>>
\* A slip: the stamp is written before the bridges.
BridgesEarly(j) == /\ Go(j, "extract", "write") /\ bridge' = "part" /\ stamp' = "current"
                   /\ Same(BridgeOthers)
BridgesOpen(j) == /\ Go(j, "extract", "write") /\ bridge' = "part"
                  /\ Same(<<BridgeOthers, stamp>>)
BridgesWrite(j) == /\ Go(j, "write", "stamp") /\ bridge' = "whole"
                   /\ Same(<<BridgeOthers, stamp>>)
BridgesStamp(j) == /\ Go(j, "stamp", "ok") /\ stamp' = "current"
                   /\ Same(<<BridgeOthers, bridge>>)

-----------------------------------------------------------------------------
\* InstallFridaServer.

ServerOthers == <<kind, deps, digest, asset, parts, venv, bridge, stamp>>
ServerListed(j) == /\ Go(j, "listed", "get") /\ Same(<<kind, deps, fileVars>>)
\* The decompressor's output truncates the file; its archive has checksums.
ServerUnpack(j) == /\ Go(j, "unpack", "unpacking") /\ bin' = "part"
                   /\ Same(<<ServerOthers, remote, runnable>>)
ServerUnpacked(j) == /\ asset["server"] = "whole" /\ Go(j, "unpacking", "verify") /\ bin' = "whole"
                     /\ Same(<<ServerOthers, remote, runnable>>)
ServerCorrupt(j) == /\ Go(j, "unpacking", "err") /\ bin' = "none"
                    /\ Same(<<ServerOthers, remote, runnable>>)
\* verifyFridaELF reads the header, which part of a file may have.
ServerVerify(j) == /\ bin # "none" /\ Go(j, "verify", "push")
                   /\ Same(<<kind, deps, fileVars>>)
ServerReject(j) == /\ bin # "whole" /\ Go(j, "verify", "err") /\ bin' = "none"
                   /\ Same(<<ServerOthers, remote, runnable>>)
\* adbd unlinks what it replaces, so the copy starts without its mode; a root-owned one stays.
ServerPush(j) == /\ bin # "none" /\ Go(j, "push", "chmod")
                 /\ remote' = [remote EXCEPT ![j] = bin] /\ runnable' = runnable \ {j}
                 /\ Same(<<ServerOthers, bin>>)
\* What a push that fails leaves.
Left(j) == \/ bin # "none" /\ remote' = [remote EXCEPT ![j] = "part"] /\ runnable' = runnable \ {j}
           \/ UNCHANGED <<remote, runnable>>
\* A slip: a push that fails goes on to make what it left executable.
ServerPushGoesOn(j) == /\ Go(j, "push", "chmod") /\ Left(j) /\ Same(<<ServerOthers, bin>>)
ServerPushFails(j) == /\ Go(j, "push", "err") /\ Left(j) /\ Same(<<ServerOthers, bin>>)
ServerChmod(j) == /\ Go(j, "chmod", "ok") /\ runnable' = runnable \cup {j}
                  /\ Same(<<ServerOthers, bin, remote>>)

-----------------------------------------------------------------------------
\* Where a step of a job may simply fail.
Failing == {"probe", "create", "get", "pip", "stamped", "extract", "stamp", "listed", "chmod"}

Crash == /\ crashes < MaxCrashes
         /\ \E j \in Jobs : pc[j] \notin Ended
         /\ crashes' = crashes + 1
         /\ pc' = [j \in Jobs |-> IF pc[j] \in Ended THEN pc[j] ELSE "err"]
         /\ UNCHANGED <<kind, deps, fileVars, mixed>>

Download(j) == GetCached(j) \/ GetFresh(j) \/ FetchRename(j) \/ FetchFails(j)
Venv(j) == \/ VenvProbe(j) \/ VenvClear(j) \/ VenvCreate(j) \/ VenvInstall(j) \/ VenvCheck(j)
           \/ VenvReject(j) \/ (kind[j] = "venv" /\ VenvSkipsDep(j))
Bridges(j) == \/ BridgesCached(j) \/ BridgesStale(j) \/ BridgesOpen(j) \/ BridgesWrite(j)
              \/ BridgesStamp(j)
Server(j) == \/ ServerListed(j) \/ ServerUnpack(j) \/ ServerUnpacked(j) \/ ServerCorrupt(j)
             \/ ServerVerify(j) \/ ServerReject(j) \/ ServerPush(j) \/ ServerPushFails(j) \/ ServerChmod(j)
Next == \/ Crash \/ RemoveRuntime
        \/ \E j \in Jobs : \/ Start(j) \/ Again(j) \/ Download(j) \/ Venv(j) \/ Bridges(j) \/ Server(j)
                           \/ \E here \in Failing : Fail(j, here)
Spec == Init /\ [][Next]_vars

-----------------------------------------------------------------------------
TypeOK ==
  /\ kind \in [Jobs -> Kinds] /\ deps \in [Jobs -> BOOLEAN] /\ digest \in [Kinds -> BOOLEAN]
  /\ asset \in [Kinds -> {"none", "bad", "whole"}]
  /\ venv \in {"none", "bare", "broken", "whole"} /\ bin \in {"none", "part", "whole"}
  /\ bridge \in {"none", "part", "old", "whole"} /\ stamp \in {"none", "old", "current"}
  /\ remote \in [Jobs -> {"none", "part", "whole"}]
  /\ parts \cup runnable \cup mixed \subseteq Jobs

\* No two jobs ever wrote bridges at once.
BridgesApart == \A j \in Jobs : kind[j] = "bridges" => j \notin mixed

\* What a job reports ready is whole, after failures, crashes and leftovers of
\* every kind: its venv imports Frida, its bridges are those of the current policy, its
\* server on the device is the whole verified binary.  No lock joins the jobs,
\* so this is promised only to one that had its files to itself; and of bridges only
\* while no two jobs have written them, for a later job trusts the stamp these left.
ReadyIsWhole ==
  \A j \in Jobs : pc[j] = "ok" /\ j \notin mixed /\ Rivals(j) = {} =>
    CASE kind[j] = "venv"    -> venv = "whole"
      [] kind[j] = "bridges" -> BridgesApart => bridge = "whole" /\ stamp = "current"
      [] kind[j] = "server"  -> remote[j] = "whole" /\ j \in runnable

\* A poisoned cache heals itself (frida_tools.go:547-550): whatever a crash or a failure
\* leaves, a stamp of the current policy is next to whole bridges, and an asset
\* whose digest is published is replaced when it is not the published one.
CacheHeals == BridgesApart /\ stamp = "current" => bridge = "whole"

\* An executable on the device was verified as a whole on the host, unless two
\* installs of the version shared the file.
NothingHalfRuns == \A j \in runnable \ mixed : remote[j] = "whole"
=============================================================================
