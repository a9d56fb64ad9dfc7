------------------------------ MODULE FridaPick ------------------------------
(***************************************************************************)
(* The choices adbq makes before it instruments an application with Frida: *)
(* which release of frida-tools has the bridges for a Frida core           *)
(* (resolveFridaToolsVersion), which installed server a process is         *)
(* (markRunningServers), which server to start (chooseFridaServer), and    *)
(* which interpreter of the host matches it (ResolveForVersion).           *)
(*                                                                         *)
(* A version is its sequence of numbers, a file name a sequence of pieces  *)
(* and a path the directory followed by the name, so that one path is a    *)
(* prefix of another as the strings are.                                   *)
(***************************************************************************)
EXTENDS Integers, FiniteSets, Sequences, SequencesExt, FiniteSetsExt

None == <<>>

\* compareVersions: -1, 0 or 1; a number that is missing is a zero.
Compare(a, b) ==
  LET At(v, i) == IF i <= Len(v) THEN v[i] ELSE 0
      differ == {i \in 1 .. Max({Len(a), Len(b)}) : At(a, i) # At(b, i)}
  IN  CASE a = None /\ b = None -> 0
        [] differ = {} -> 0
        [] OTHER -> IF At(a, Min(differ)) > At(b, Min(differ)) THEN 1 ELSE -1

Newer(a, b) == Compare(a, b) > 0
Major(v) == IF v = None THEN 0 ELSE Head(v)

\* requirementAllows: every clause of a specifier, a sequence of [op, ver],
\* holds of the version. "~=" is read as ">=", and a trailing ".*" is dropped.
ClauseHolds(op, c) == CASE op \in {">=", "~="} -> c >= 0
                        [] op = ">"  -> c > 0
                        [] op = "<=" -> c <= 0
                        [] op = "<"  -> c < 0
                        [] op = "==" -> c = 0
                        [] op = "!=" -> c # 0
requirementAllows(spec, ver) ==
  /\ ver # None
  /\ \A i \in DOMAIN spec : ClauseHolds(spec[i].op, Compare(ver, spec[i].ver))

\* requirementFloor: the version of the first lower bound.
requirementFloor(spec) ==
  LET lower == {i \in DOMAIN spec : spec[i].op \in {">=", ">"}}
  IN  IF lower = {} THEN None ELSE spec[Min(lower)].ver

(***************************************************************************)
(* resolveFridaToolsVersion walks from the newest release down, over the   *)
(* ProbeLimit newest, and keeps [best, floor, over]. A release is          *)
(* [ver, spec, readable, plain].                                           *)
(***************************************************************************)
\* A slip the walk invites: it stops at the newest release of the line.
WalkNewest(w, r, ver) == IF w.best # None THEN w
                         ELSE IF r.readable /\ requirementAllows(r.spec, ver)
                              THEN [w EXCEPT !.best = r.ver] ELSE w
Walk(w, r, ver) ==
  LET floor == requirementFloor(r.spec)
  IN  IF w.over \/ ~r.readable THEN w
      ELSE IF ~requirementAllows(r.spec, ver) THEN [w EXCEPT !.over = w.best # None]
      ELSE IF w.best = None THEN [best |-> r.ver, floor |-> floor, over |-> FALSE]
      ELSE IF floor # w.floor THEN [w EXCEPT !.over = TRUE]
      ELSE [w EXCEPT !.best = r.ver]


Plain(releases) == SelectSeq(releases, LAMBDA r : r.plain)
NewestFirst(releases) == SortSeq(releases, LAMBDA x, y : Newer(x.ver, y.ver))
Probed(releases, limit) ==
  LET sorted == NewestFirst(Plain(releases))
  IN  SubSeq(sorted, 1, Min({limit, Len(sorted)}))
resolveFridaToolsVersion(releases, limit, ver) ==
  FoldLeft(LAMBDA w, r : Walk(w, r, ver),
           [best |-> None, floor |-> None, over |-> FALSE], Probed(releases, limit)).best

(***************************************************************************)
(* markRunningServers. A server is [path, name, ver, arch, runnable], a    *)
(* process [exe, cmd0, comm], each of which may be unreadable (None); cmd0 *)
(* is the path with the arguments run on to it, comm the name cut short.   *)
(* indexOfServerFor is 0 where the code answers -1.                        *)
(***************************************************************************)
\* A slip: the first path that is a prefix, and not the longest.
indexOfServerFirst(servers, p) ==
  LET named == {i \in DOMAIN servers : IsPrefix(servers[i].path, p.cmd0)}
      same  == {i \in DOMAIN servers : servers[i].path = p.exe}
  IN  IF p.exe # None THEN IF same = {} THEN 0 ELSE Min(same)
      ELSE IF named = {} THEN 0 ELSE Min(named)
indexOfServerFor(servers, p) ==
  LET At(k)    == {i \in DOMAIN servers : servers[i].path = k}
      named    == {i \in DOMAIN servers : IsPrefix(servers[i].path, p.cmd0)}
      longest  == {i \in named : \A j \in named : Len(servers[j].path) <= Len(servers[i].path)}
      short    == {i \in DOMAIN servers : p.comm # None /\ IsPrefix(p.comm, servers[i].name)}
  IN  IF p.exe # None THEN IF At(p.exe) = {} THEN 0 ELSE Min(At(p.exe))
      ELSE IF p.cmd0 # None /\ named # {} THEN Min(longest)
      ELSE IF Cardinality(short) = 1 THEN Min(short) ELSE 0


Ambiguous(servers, p) ==
  IF indexOfServerFor(servers, p) # 0 THEN {}
  ELSE {i \in DOMAIN servers : servers[i].name # None /\ IsPrefix(p.comm, servers[i].name)}
markRunningServers(servers, procs) ==
  [i \in DOMAIN servers |->
    [active    |-> \E p \in procs : indexOfServerFor(servers, p) = i,
     ambiguous |-> \E p \in procs : i \in Ambiguous(servers, p)]]

(***************************************************************************)
(* ResolveForVersion takes the first runtime of exactly the server's       *)
(* version, or else the first of its major version.                        *)
(***************************************************************************)
ResolveForVersion(runtimes, ver) ==
  LET exact == {i \in DOMAIN runtimes : runtimes[i] = ver}
      major == {i \in DOMAIN runtimes : Major(ver) > 0 /\ Major(runtimes[i]) = Major(ver)}
  IN  CASE exact # {} -> [at |-> Min(exact), kind |-> "exact"]
        [] exact = {} /\ major # {} -> [at |-> Min(major), kind |-> "major"]
        [] OTHER -> [at |-> 0, kind |-> "none"]

(***************************************************************************)
(* chooseFridaServer: the best score wins, then the newer version, then    *)
(* the earlier entry. 0 is none; arches may be empty when the device told  *)
(* nothing.                                                                *)
(***************************************************************************)
\* A slip: what was used before weighs as much as a runtime at hand.
ScoreFlat(s, arches, runtimes, used) ==
  IF arches # {} /\ s.arch # "" /\ s.arch \notin arches THEN -1
  ELSE (IF s.arch # "" /\ s.arch \in arches THEN 2 ELSE 0)
     + (IF ResolveForVersion(runtimes, s.ver).kind # "none" THEN 2 ELSE 0)
     + (IF s.ver \in used THEN 2 ELSE 0)
Score(s, arches, runtimes, used) ==
  IF arches # {} /\ s.arch # "" /\ s.arch \notin arches THEN -1
  ELSE (IF s.arch # "" /\ s.arch \in arches THEN 4 ELSE 0)
     + (IF ResolveForVersion(runtimes, s.ver).kind # "none" THEN 2 ELSE 0)
     + (IF s.ver \in used THEN 1 ELSE 0)


chooseFridaServer(servers, arches, runtimes, used) ==
  LET Sc(i) == Score(servers[i], arches, runtimes, used)
      Better(best, i) ==
        IF ~servers[i].runnable \/ servers[i].ver = None \/ Sc(i) < 0 THEN best
        ELSE IF \/ best = 0
                \/ Sc(i) > Sc(best)
                \/ Sc(i) = Sc(best) /\ Newer(servers[i].ver, servers[best].ver)
             THEN i ELSE best
  IN  FoldLeft(Better, 0, [i \in DOMAIN servers |-> i])

(***************************************************************************)
(* The host's interpreters. A candidate is [path, ver, venv, frida, target], *)
(* in the order they are tried; path None is not found, ver None cannot be *)
(* run, frida None does not import it. target is <<os, arch>>, None when   *)
(* the probe tells nothing it knows.                                       *)
(***************************************************************************)
Python37(v) == Len(v) >= 2 /\ IF v[1] # 3 THEN v[1] > 3 ELSE v[2] >= 7
DetectHostPython(candidates) ==
  LET fit == {i \in DOMAIN candidates : candidates[i].path # None /\ Python37(candidates[i].ver)}
  IN  IF fit = {} THEN 0 ELSE Min(fit)

\* ListRuntimes: venvs newest first, then the registered, then the discovered ones,
\* each path once, under the first of the lists that has it.
FirstOfPath(list) == SelectSeq([i \in DOMAIN list |-> [at |-> i, r |-> list[i]]],
                               LAMBDA x : \A j \in 1 .. x.at - 1 : list[j].path # x.r.path)
discoverSystemRuntimes(candidates) ==
  SelectSeq(candidates, LAMBDA c : c.path # None /\ c.frida # None)
listVenvs(dirs) == SortSeq(SelectSeq(dirs, LAMBDA d : d.frida # None), LAMBDA x, y : Newer(x.frida, y.frida))
ListRuntimes(dirs, external, candidates) ==
  FirstOfPath(listVenvs(dirs) \o external \o discoverSystemRuntimes(candidates))

(***************************************************************************)
(* PyPI. A file is [type, tags, yanked], where tags are the pieces of its  *)
(* name that tell a platform.                                              *)
(***************************************************************************)
parsePypiFiles(urls) == SelectSeq(urls, LAMBDA u : ~u.yanked)
FirstFile(files, Fits(_)) ==
  LET fit == {i \in DOMAIN files : Fits(files[i])}
  IN  IF fit = {} THEN 0 ELSE Min(fit)

hostWheelPlatforms(target) ==
  CASE target = <<"darwin", "arm64">>  -> {"macosx", "arm64"}
    [] target = <<"darwin", "amd64">>  -> {"macosx", "x86_64"}
    [] target = <<"linux", "amd64">>   -> {"manylinux", "x86_64"}
    [] target = <<"linux", "arm64">>   -> {"manylinux", "aarch64"}
    [] target = <<"linux", "arm">>     -> {"manylinux", "armv7l"}
    [] target = <<"linux", "386">>     -> {"manylinux", "i686"}
    [] target = <<"windows", "amd64">> -> {"win_amd64"}
    [] target = <<"windows", "arm64">> -> {"win_arm64"}
    [] target = <<"windows", "386">>   -> {"win32"}
    [] OTHER -> {}
\* hostPythonTarget: what the interpreter says, or else what adbq was built for.
hostPythonTarget(told, built) == IF told = None THEN built ELSE told
\* A slip: any piece of the platform will do.
selectHostWheelAny(files, target) ==
  FirstFile(files, LAMBDA f : f.type = "wheel" /\ hostWheelPlatforms(target) \cap f.tags # {})
selectHostWheel(files, target) ==
  IF hostWheelPlatforms(target) = {} THEN 0
  ELSE FirstFile(files, LAMBDA f : f.type = "wheel" /\ hostWheelPlatforms(target) \subseteq f.tags)
selectUniversalWheel(files) == FirstFile(files, LAMBDA f : f.type = "wheel" /\ "none-any" \in f.tags)
selectFridaToolsArtifact(files) ==
  LET wheel == selectUniversalWheel(files)
  IN  IF wheel # 0 THEN wheel ELSE FirstFile(files, LAMBDA f : f.type = "sdist")

(***************************************************************************)
(* A wheel's dependencies: [name, marker], where a marker is a sequence of *)
(* [on, op, ver] that all must hold. Only the first clause on              *)
(* python_version is looked at; an extra is never asked for, and whatever  *)
(* else a marker says applies.                                             *)
(***************************************************************************)
markerApplies(marker, py) ==
  LET on(x) == {i \in DOMAIN marker : marker[i].on = x}
  IN  /\ on("extra") = {}
      /\ on("python") # {} =>
           LET c == marker[Min(on("python"))] IN ClauseHolds(c.op, Compare(SubSeq(py, 1, 2), c.ver))
neededDeps(requires, py) == SelectSeq(requires, LAMBDA r : markerApplies(r.marker, py))

\* pypiRequirement: the first that names exactly the dependency, a longer name being another.
pypiRequirement(requires, dep) ==
  LET of == {i \in DOMAIN requires : requires[i].name = dep}
  IN  IF of = {} THEN None ELSE <<requires[Min(of)].spec>>

(***************************************************************************)
(* The device: its architectures, the servers it has, and whether one came *)
(* up. abi and abilist are names of ABIs, None when not told.              *)
(***************************************************************************)
fridaArchForABI(abi) ==
  CASE abi = "arm64-v8a" -> "arm64"
    [] abi \in {"armeabi-v7a", "armeabi"} -> "arm"
    [] abi \in {"x86_64", "x86"} -> abi
    [] OTHER -> ""
unameToABI(m) ==
  CASE m \in {"aarch64", "arm64"} -> "arm64-v8a"
    [] m \in {"armv7l", "armv8l", "armv7", "arm"} -> "armeabi-v7a"
    [] m \in {"x86_64", "amd64"} -> "x86_64"
    [] m \in {"i686", "i386", "x86"} -> "x86"
    [] OTHER -> ""
FirstArch(abis) == LET known == SelectSeq([i \in DOMAIN abis |-> fridaArchForABI(abis[i])], LAMBDA a : a # "")
                   IN  IF known = <<>> THEN "" ELSE Head(known)
detectFridaArch(abi, abilist, uname) == FirstArch(<<abi>> \o abilist \o <<unameToABI(uname)>>)
FridaArchInfo(abi, abilist, uname) ==
  LET all == <<detectFridaArch(abi, abilist, uname)>> \o [i \in DOMAIN abilist |-> fridaArchForABI(abilist[i])]
  IN  [primary |-> all[1], supported |-> ToSet(all) \ {""}]

FridaAdvice(sdk, ver) == CASE sdk <= 0 \/ ver = None -> ""
                           [] sdk \in 1 .. 22 /\ Compare(ver, <<16, 6, 0>>) >= 0 -> "broken"
                           [] sdk >= 35 -> "warn"
                           [] OTHER -> "ok"
\* ListFridaReleases: one entry for each release that has an asset of the architecture.
ListFridaReleases(releases, arch, installed, sdk) ==
  LET of == SelectSeq(releases, LAMBDA r : arch \in r.arches)
  IN  [i \in DOMAIN of |-> [ver |-> of[i].ver, advice |-> FridaAdvice(sdk, of[i].ver),
                             installed |-> [ver |-> of[i].ver, arch |-> arch] \in installed]]

\* ListFridaServers: entries [name, type, ver, arch, archive, exec] of the directory; a
\* failure is an empty listing only where the directory itself can be read.
ListFridaServers(entries, failed, reachable) ==
  IF failed /\ entries = <<>> THEN IF reachable THEN <<<<>>>> ELSE None
  ELSE LET fit == SelectSeq(entries, LAMBDA e : e.frida /\ e.type # "dir")
       IN  <<[i \in DOMAIN fit |-> [name |-> fit[i].name, runnable |-> ~fit[i].archive /\ fit[i].exec]]>>

\* StartFrida trusts the log over the shell's exit: an empty one is a clean start.
fridaStartFailure(log) == log \in {"denied", "busy", "missing"}
StartFrida(log, exited) == ~fridaStartFailure(log) /\ exited

\* DetectRunningFridaVersion asks the binary itself, whatever its name says; without
\* an exe link what it runs is a command line, which is no path.
DetectRunningFridaVersion(procs, answers, servers) ==
  LET told   == {i \in DOMAIN procs : procs[i].exe # None /\ answers[i] # None}
      active == {i \in DOMAIN servers : servers[i].active /\ servers[i].ver # None}
  IN  IF told # {} THEN answers[Min(told)]
      ELSE IF active # {} THEN servers[Min(active)].ver ELSE None
=============================================================================
