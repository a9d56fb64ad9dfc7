----------------------------- MODULE HostCaches -----------------------------
(***************************************************************************)
(* What adbq keeps on the host to work with: the jadx release (jadx.go),   *)
(* the rootAVD tree (rootavd.go) and the APKs staged for a decompiler      *)
(* (apk_stage.go, jadx_open.go).  All three are written in place, file by  *)
(* file, by jobs that no lock joins, and each is taken for complete by a   *)
(* mark of its own: the launcher, the script's digest, a size above zero.  *)
(*                                                                         *)
(* A file is none, part (its writer has not finished), bad (the archive    *)
(* held something else) or whole; a staged file is the build it came from. *)
(***************************************************************************)
EXTENDS Naturals, FiniteSets, Sequences

CONSTANTS Jobs, MaxCalls, MaxCrashes, MaxBuilds   \* jobs, and bounds

Tools == {"jadx", "rootavd"}
Files == [jadx |-> {"jadx-gui", "lib"}, rootavd |-> {"rootAVD.sh", "Magisk.zip"}]
Splits == <<"base", "split">>
Codes == 0 .. MaxBuilds      \* version codes; 0: none was read ("unknown")

VARIABLES
  tree,     \* tree[t][f]: the files of each tool
  archive,  \* the downloaded archive of each tool
  app,      \* the build of the package on the device, and its version code
  stage,    \* stage[code][split]: build and state of each staged file
  job,      \* the calls under way
  opened,   \* what jadx was last opened with
  calls, crashes,
  cut       \* history: tools and codes a crash, a failure or another call came across

diskVars == <<tree, archive, stage>>
vars == <<diskVars, app, job, opened, calls, crashes, cut>>

Idle == [pc |-> "idle"]
Absent == [build |-> 0, state |-> "none"]
Empty(t) == [f \in Files[t] |-> "none"]
On(t) == {j \in Jobs : job[j].pc # "idle" /\ job[j].of = t}

Init ==
  /\ tree = [t \in Tools |-> Empty(t)] /\ archive = [t \in Tools |-> "none"]
  /\ app = [build |-> 1, code |-> 1]
  /\ stage = [c \in Codes |-> [s \in {"base", "split"} |-> Absent]]
  /\ job = [j \in Jobs |-> Idle]
  /\ opened = <<>> /\ calls = 0 /\ crashes = 0 /\ cut = [tools |-> {}, codes |-> {}]

To(j, pc) == job' = [job EXCEPT ![j].pc = pc]
Ends(j) == job' = [job EXCEPT ![j] = Idle]

\* JadxStatus and RootAVDStatus: a launcher that is there, a script whose digest is
\* the recorded one.
jadxLauncher == tree.jadx["jadx-gui"] # "none"
RootAVDStatus == tree.rootavd["rootAVD.sh"] = "whole"
Installed(t) == IF t = "jadx" THEN jadxLauncher ELSE RootAVDStatus

\* InstallJadx, InstallJadxRelease and InstallRootAVD return at once when the
\* tool is there.
Install(j, t) ==
  /\ job[j] = Idle /\ calls < MaxCalls /\ calls' = calls + 1
  /\ ~Installed(t)
  /\ job' = [job EXCEPT ![j] = [pc |-> "download", of |-> t, left |-> Files[t], file |-> ""]]
  /\ cut' = [cut EXCEPT !.tools = @ \union {u \in {t} : On(t) # {}}]
  /\ UNCHANGED <<diskVars, app, opened, crashes>>

\* downloadVerifiedAsset leaves a whole archive or none. rootAVD's has no digest of
\* its own: one that is there already is taken as it is.
Download(j) ==
  /\ job[j].pc = "download"
  /\ LET t == job[j].of IN
     /\ archive' \in {[archive EXCEPT ![t] = a] :
                        a \in IF archive[t] # "none" THEN {archive[t]}
                              ELSE IF t = "jadx" THEN {"whole"} ELSE {"bad", "whole"}}
  /\ To(j, "open") /\ UNCHANGED <<tree, stage, app, opened, calls, crashes, cut>>
DownloadFails(j) == job[j].pc = "download" /\ Ends(j) /\ UNCHANGED <<diskVars, app, opened, calls, crashes, cut>>

\* A tree that cannot be vouched for is removed; rootAVD's archive lies in it, and
\* jadx's is removed by the deferred call.
GiveUpLeaves(j) ==
  /\ archive' = [archive EXCEPT ![job[j].of] = "none"]
  /\ Ends(j) /\ UNCHANGED <<tree, stage, app, opened, calls, crashes, cut>>
GiveUp(j) ==
  LET t == job[j].of IN
  /\ tree' = [tree EXCEPT ![t] = Empty(t)] /\ archive' = [archive EXCEPT ![t] = "none"]
  /\ Ends(j) /\ UNCHANGED <<stage, app, opened, calls, crashes, cut>>

Extract(j) == job[j].pc = "open" /\ archive[job[j].of] # "none" /\ To(j, "extract")
              /\ UNCHANGED <<diskVars, app, opened, calls, crashes, cut>>
ExtractFails(j) == job[j].pc \in {"open", "extract", "write"} /\ GiveUp(j)

\* Each file is truncated, then filled.
OpenFile(j, f) ==
  /\ job[j].pc = "extract" /\ f \in job[j].left
  /\ tree' = [tree EXCEPT ![job[j].of][f] = "part"]
  /\ job' = [job EXCEPT ![j].pc = "write", ![j].file = f, ![j].left = @ \ {f}]
  /\ UNCHANGED <<archive, stage, app, opened, calls, crashes, cut>>
writeZipEntry(j, f) == job[j].pc = "extract" /\ job[j].of = "jadx" /\ OpenFile(j, f)
extractRootAVD(j, f) == job[j].pc = "extract" /\ job[j].of = "rootavd" /\ OpenFile(j, f)
EntryWritten(j) ==
  /\ job[j].pc = "write"
  /\ \E how \in IF archive[job[j].of] = "bad" THEN {"bad", "whole"} ELSE {"whole"} :
       tree' = [tree EXCEPT ![job[j].of][job[j].file] = how]
  /\ To(j, "extract") /\ UNCHANGED <<archive, stage, app, opened, calls, crashes, cut>>

\* The launcher is there; the script and the one binary that can reach the device
\* have their digests.
Verifies(t) == IF t = "jadx" THEN jadxLauncher ELSE \A f \in Files[t] : tree[t][f] = "whole"
Verified(j) ==
  /\ job[j].pc = "extract" /\ job[j].left = {} /\ Verifies(job[j].of)
  /\ archive' = [archive EXCEPT ![job[j].of] = "none"]
  /\ Ends(j) /\ UNCHANGED <<tree, stage, app, opened, calls, crashes, cut>>
Rejected(j) == job[j].pc = "extract" /\ job[j].left = {} /\ ~Verifies(job[j].of) /\ GiveUp(j)

\* RemoveJadx and RemoveRootAVD, whatever runs.
Remove(t) ==
  /\ calls < MaxCalls /\ calls' = calls + 1
  /\ tree' = [tree EXCEPT ![t] = Empty(t)] /\ archive' = [archive EXCEPT ![t] = "none"]
  /\ cut' = [cut EXCEPT !.tools = @ \union {u \in {t} : On(t) # {}}]
  /\ UNCHANGED <<stage, app, job, opened, crashes>>

\* The package is rebuilt and installed, under its version code or the next.
Rebuild ==
  /\ app.build < MaxBuilds
  /\ \E c \in {app.code, app.code + 1} : app' = [build |-> app.build + 1, code |-> c]
  /\ UNCHANGED <<diskVars, job, opened, calls, crashes, cut>>

\* OpenInJadx: StageApks reads the paths of the installed build ...
OpenInJadx(j) ==
  /\ job[j] = Idle /\ calls < MaxCalls /\ calls' = calls + 1 /\ jadxLauncher
  /\ job' = [job EXCEPT ![j] = [pc |-> "version", of |-> "stage", build |-> app.build, code |-> 0, files |-> <<>>]]
  /\ opened' = <<>> /\ UNCHANGED <<diskVars, app, crashes, cut>>
\* ... then its version code, which a failed read leaves unknown.
StageKey(j) ==
  /\ job[j].pc = "version"
  /\ \E c \in {0, app.code} :
       /\ job' = [job EXCEPT ![j].pc = "stage", ![j].code = c]
       /\ cut' = [cut EXCEPT !.codes = @ \union ({job[k].code : k \in On("stage") \ {j}} \intersect {c})]
  /\ UNCHANGED <<diskVars, app, opened, calls, crashes>>

NextSplit(j) == Splits[Len(job[j].files) + 1]
HeldAnywhere(j) ==
  LET held == {stage[c][NextSplit(j)] : c \in Codes} \ {Absent} IN IF held = {} THEN Absent ELSE CHOOSE f \in held : TRUE
Held(j) == stage[job[j].code][NextSplit(j)]
Takes(j, f) == job' = [job EXCEPT ![j].pc = "stage", ![j].files = Append(@, f)]
More(j) == job[j].pc = "stage" /\ Len(job[j].files) < Len(Splits)

\* A file that is there at a size above zero is not pulled again.
Staged(j) == More(j) /\ Held(j) # Absent /\ Takes(j, Held(j))
             /\ UNCHANGED <<diskVars, app, opened, calls, crashes, cut>>
Pull(j) ==
  /\ More(j) /\ Held(j) = Absent /\ app.build = job[j].build
  /\ stage' = [stage EXCEPT ![job[j].code][NextSplit(j)] = [build |-> job[j].build, state |-> "part"]]
  /\ To(j, "pull") /\ UNCHANGED <<tree, archive, app, opened, calls, crashes, cut>>
Pulled(j) ==
  /\ job[j].pc = "pull"
  /\ LET f == [build |-> job[j].build, state |-> "whole"] IN
     stage' = [stage EXCEPT ![job[j].code][NextSplit(j)] = f] /\ Takes(j, f)
  /\ UNCHANGED <<tree, archive, app, opened, calls, crashes, cut>>
\* The path of a replaced build is gone; a pull that ends early leaves what it had.
PullFails(j) ==
  /\ \/ More(j) /\ Held(j) = Absent /\ app.build # job[j].build /\ cut' = cut
     \/ job[j].pc = "pull" /\ cut' = [cut EXCEPT !.codes = @ \union {job[j].code}]
  /\ Ends(j) /\ UNCHANGED <<diskVars, app, opened, calls, crashes>>
\* The launcher is started with every file, and watched for two seconds.
Launch(j) ==
  /\ job[j].pc = "stage" /\ ~More(j)
  /\ opened' = <<[code |-> job[j].code, files |-> job[j].files]>>
  /\ Ends(j) /\ UNCHANGED <<diskVars, app, calls, crashes, cut>>
Exited(j) == job[j].pc = "stage" /\ ~More(j) /\ Ends(j) /\ UNCHANGED <<diskVars, app, opened, calls, crashes, cut>>

ClearApkStage ==
  /\ calls < MaxCalls /\ calls' = calls + 1
  /\ stage' = [c \in Codes |-> [s \in {"base", "split"} |-> Absent]]
  /\ cut' = [cut EXCEPT !.codes = @ \union {job[j].code : j \in On("stage")}]
  /\ UNCHANGED <<tree, archive, app, job, opened, crashes>>

Crash ==
  /\ crashes < MaxCrashes /\ crashes' = crashes + 1
  /\ job' = [j \in Jobs |-> Idle]
  /\ cut' = [tools |-> cut.tools \union {t \in Tools : \E j \in On(t) : job[j].pc \in {"extract", "write"}},
             codes |-> cut.codes \union {job[j].code : j \in {i \in On("stage") : job[i].pc = "pull"}}]
  /\ UNCHANGED <<diskVars, app, opened, calls>>

Next ==
  \/ \E j \in Jobs :
       \/ \E t \in Tools : Install(j, t)
       \/ Download(j) \/ DownloadFails(j) \/ Extract(j) \/ ExtractFails(j)
       \/ \E f \in Files.jadx : writeZipEntry(j, f)
       \/ \E f \in Files.rootavd : extractRootAVD(j, f)
       \/ EntryWritten(j) \/ Verified(j) \/ Rejected(j)
       \/ OpenInJadx(j) \/ StageKey(j) \/ Staged(j) \/ Pull(j) \/ Pulled(j) \/ PullFails(j)
       \/ Launch(j) \/ Exited(j)
  \/ \E t \in Tools : Remove(t)
  \/ Rebuild \/ ClearApkStage \/ Crash
Spec == Init /\ [][Next]_vars

-----------------------------------------------------------------------------

\* "A tree we cannot vouch for must not be left where a later run picks it up"
\* (jadx.go:506): a tool that is shown as installed is complete, and what rootAVD
\* would push is the recorded binary. Nothing looks at the other files of an
\* installed tree again, so this is lost once a crash, a removal or a second
\* install comes across an extraction.
InstalledIsWhole ==
  \A t \in Tools : Installed(t) /\ On(t) = {} /\ t \notin cut.tools => \A f \in Files[t] : tree[t][f] = "whole"

\* Every file jadx is opened with is complete, and as long as each build has a
\* version code of its own that can be read, all are of the build of that code ("an
\* update re-stages instead of quietly serving the previous build's code",
\* apk_stage.go:18-20). A pull that was cut or raced loses the first: its file has a
\* size above zero.
OpenedIsOneApp ==
  opened # <<>> =>
    LET o == opened[1] IN
    o.code \notin cut.codes =>
      /\ Len(o.files) = Len(Splits) /\ \A i \in DOMAIN o.files : o.files[i].state = "whole"
      /\ o.code # 0 /\ app.code = app.build => \A i \in DOMAIN o.files : o.files[i].build = o.code
=============================================================================
