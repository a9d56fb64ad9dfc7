------------------------------- MODULE MCPicks -------------------------------
(***************************************************************************)
(* One question is asked and answered in each behaviour: the inputs of     *)
(* the functions of FridaPick, HostPick and PackagePick, small enough for   *)
(* TLC to try them all.                                                    *)
(***************************************************************************)
EXTENDS HostPick
INSTANCE PackagePick

VARIABLES ask, answer
vars == <<ask, answer>>

\* The answer, in a sequence of its own so that any value can be one.
NotYet == <<>>
Given == answer[1]

\* Releases 1..3 with floors and ceilings that grow with them, as those of a
\* package that follows another do; the metadata of some cannot be read, and
\* one may be a pre-release.
Floors   == {<<16>>, <<17>>, <<17, 5>>}
Ceilings == {<<17>>, <<18>>}
Growing(f) == \A i, j \in DOMAIN f : i <= j => Compare(f[i], f[j]) <= 0
ToolsAsks ==
  {[kind |-> "tools", ver |-> v, limit |-> n,
    releases |-> [i \in 1 .. 3 |->
      [ver |-> <<o[i]>>, readable |-> o[i] \notin dark, plain |-> o[i] # odd,
       spec |-> <<[op |-> "<", ver |-> c[o[i]]], [op |-> ">=", ver |-> f[o[i]]]>>]]] :
    v \in {<<16, 1>>, <<17, 0>>, <<17, 5, 1>>}, n \in {2, 3},
    o \in {<<1, 2, 3>>, <<2, 3, 1>>, <<3, 1, 2>>},
    f \in {g \in [1 .. 3 -> Floors] : Growing(g)},
    c \in {g \in [1 .. 3 -> Ceilings] : Growing(g)},
    dark \in SUBSET (1 .. 3), odd \in 0 .. 3}

\* Servers whose names share the piece that a cut-short name keeps, one of them
\* extending another; a process of one of them, or of one elsewhere.
Names == {<<"frida", "1">>, <<"frida", "1", "copy">>, <<"frida", "2">>}
Path(dir, name) == <<dir>> \o name
Server(name) == [path |-> Path("tmp", name), name |-> name, ver |-> <<1>>, arch |-> "", runnable |-> TRUE]
Process(dir, name, seen) ==
  [exe  |-> IF seen = "exe" THEN Path(dir, name) ELSE None,
   cmd0 |-> IF seen \in {"exe", "cmd"} THEN Path(dir, name) \o <<"-l">> ELSE None,
   comm |-> SubSeq(name, 1, 1)]
MarkAsks ==
  {[kind |-> "mark", servers |-> [i \in DOMAIN ns |-> Server(ns[i])],
    dir |-> d, name |-> n, proc |-> Process(d, n, s)] :
    ns \in {q \in SeqOf(Names, 3) : IsInjective(q)}, d \in {"tmp", "adb"}, n \in Names,
    s \in {"exe", "cmd", "comm"}}

ServerAsks ==
  {[kind |-> "server", arches |-> a, runtimes |-> r, used |-> u,
    servers |-> [i \in 1 .. 2 |-> [ver |-> s[i].ver, arch |-> s[i].arch, runnable |-> s[i].runnable]]] :
    a \in {{}, {"arm"}, {"arm", "arm64"}}, r \in {<<>>, <<<<16, 1>>>>, <<<<17, 1>>>>},
    u \in SUBSET {<<16, 1>>, <<17, 2>>},
    s \in [1 .. 2 -> [ver : {None, <<16, 1>>, <<17>>, <<17, 2>>}, arch : {"", "arm", "x86"},
                      runnable : BOOLEAN]]}

\* Interpreters in the order they are tried, the files of a release, and what the
\* wheel declares it needs.
Pythons == [path : {None, <<"a">>}, ver : {<<3, 6, 9>>, <<3, 10, 1>>, <<3, 11, 0>>},
            told : {None, <<"darwin", "arm64">>, <<"linux", "amd64">>}]
Wheel(tags) == [type |-> "wheel", tags |-> tags, yanked |-> FALSE]
Files == {[type |-> "sdist", tags |-> {}, yanked |-> FALSE], Wheel({"macosx", "arm64"}), Wheel({"macosx", "x86_64"}),
          Wheel({"manylinux", "x86_64"}), Wheel({"none-any"}), [Wheel({"macosx", "arm64"}) EXCEPT !.yanked = TRUE]}
Below(v) == <<[on |-> "python", op |-> "<", ver |-> v]>>
Requires == {<<>>, <<[name |-> "typing", marker |-> Below(<<3, 11>>)], [name |-> "websockets", marker |-> <<>>],
                     [name |-> "curio", marker |-> <<[on |-> "extra", op |-> "==", ver |-> <<>>]>>],
                     [name |-> "back", marker |-> <<[on |-> "python", op |-> ">=", ver |-> <<3, 8>>]>> \o Below(<<3, 9>>)]>>}
HostAsks ==
  {[kind |-> "host", pythons |-> <<p, q>>, files |-> f, requires |-> r] :
    p \in Pythons, q \in {x \in Pythons : x.told = None}, f \in {s \in SeqOf(Files, 2) : Len(s) = 2}, r \in Requires}

\* Releases of the server, what the device's directory lists and how its listing ended.
Entries == [name : {<<"frida", "1">>}, frida : {TRUE}, type : {"file", "dir"}, archive : BOOLEAN, exec : BOOLEAN]
DeviceAsks ==
  {[kind |-> "device", abi |-> b, abilist |-> l, uname |-> u, entries |-> e, failed |-> f, reachable |-> c,
    releases |-> <<[ver |-> <<16, 7>>, arches |-> {"arm64", "arm"}], [ver |-> <<16, 1>>, arches |-> {"arm"}]>>,
    sdk |-> k, installed |-> n] :
    b \in {"", "arm64-v8a", "mips"}, l \in {<<>>, <<"armeabi-v7a">>, <<"arm64-v8a", "armeabi-v7a">>},
    u \in {"", "armv8l"}, e \in SeqOf(Entries, 1), f \in BOOLEAN, c \in BOOLEAN, k \in {0, 21, 29, 35},
    n \in SUBSET {[ver |-> <<16, 1>>, arch |-> "arm"], [ver |-> <<16, 7>>, arch |-> "arm64"]}}

\* Java as it is found: a real one, an old one, one that does not answer, a stub
\* outside of any home, a folder; a jadx of the user's, the managed ones, one on PATH.
Javas == {[file |-> "file", home |-> {"release"}, told |-> <<17, 0>>], [file |-> "file", home |-> {"jre/lib/rt.jar"}, told |-> <<1, 8>>],
          [file |-> "file", home |-> {"release"}, told |-> None], [file |-> "file", home |-> {}, told |-> <<21>>],
          [file |-> "dir", home |-> {"release"}, told |-> <<11>>]}
Dirs == {[ver |-> Pinned, launcher |-> TRUE], [ver |-> Pinned, launcher |-> FALSE], [ver |-> <<1, 5, 10>>, launcher |-> TRUE],
         [ver |-> <<1, 5, 9>>, launcher |-> TRUE]}
Users == [kind : {"gone", "file", "root", "bin"}, launcher : {TRUE}, ver : {<<1, 4>>}] \union {[kind |-> "root", launcher |-> FALSE, ver |-> None]}
OpenAsks ==
  {[kind |-> "open", javas |-> j, dirs |-> d, user |-> u, onPath |-> p, bases |-> <<"base", "split", "base">>, staged |-> s] :
    j \in SeqOf(Javas, 3), d \in {q \in SeqOf(Dirs, 2) : IsInjective(q)}, u \in Users, p \in BOOLEAN,
    s \in {{<<"base", 1>>, <<"split", 1>>}, {<<"base", 1>>, <<"split", 1>>, <<"base", 2>>}}}

\* What avdmanager lists, line by line, and the options of a launch.
ListLines == {[key |-> "id", value |-> v] : v \in {"", "pixel_7", "pixel_8", "tablet"}}
             \union {[key |-> "---", value |-> ""], [key |-> "Name", value |-> "fold"], [key |-> "Tag", value |-> "wear"]}
Flags == {"-wipe-data", "-no-snapshot", "-no-snapshot-load", "-no-snapshot-save", "-snapshot", "-read-only", "extra"}
AvdAsks == {[kind |-> "avd", lines |-> l, port |-> p, opts |-> {}] : l \in SeqOf(ListLines, 4), p \in {0}}
           \union {[kind |-> "avd", lines |-> <<>>, port |-> p, opts |-> o] : p \in {0, 5554}, o \in SUBSET Flags}

\* Archives of every layout, for devices of one ABI or two whose screen lies
\* between two buckets.
Entry(dir, name, kind, token) == [dir |-> dir, name |-> name, kind |-> kind, token |-> token]
ArchiveEntries ==
  {Entry("", "base.apk", "base", ""), Entry("", "feature", "other", ""), Entry("", "universal", "other", ""),
   Entry("", "arm64", "abi", "arm64-v8a"), Entry("", "x86", "abi", "x86"), Entry("", "xhdpi", "density", "xhdpi"),
   Entry("", "xxhdpi", "density", "xxhdpi"), Entry("", "fr", "locale", "fr"), Entry("", "meta", "meta", ""),
   Entry("splits", "master", "other", ""), Entry("splits", "xhdpi", "density", "xhdpi"), Entry("standalones", "arm64", "abi", "arm64-v8a")}
PackageAsks ==
  {[kind |-> "package", entries |-> e, abis |-> a, dpi |-> d] :
    e \in {q \in SeqOf(ArchiveEntries, 3) : IsInjective(q)}, a \in {{}, {"arm64-v8a"}, {"x86"}},
    d \in {deviceDensity(o, 400, 160) : o \in {0, 330}} \union {0}}
Running == [pkg : {"a", "b"}, tag : {"", "push"}, pid : {4, 7, 9}]
RunningAsks == {[kind |-> "running", pidof |-> f, procs |-> q] : f \in {<<>>, <<7>>}, q \in {r \in SUBSET Running : Cardinality(r) <= 3}}

\* What an installed application is made of, and an install's output.
ExportAsks ==
  {[kind |-> "export", paths |-> e, abis |-> {"arm64-v8a"}, dpi |-> 400] :
    e \in {q \in SeqOf(ArchiveEntries, 4) : /\ IsInjective(q) /\ \E x \in ToSet(q) : x.name = "base.apk"
                                            /\ \A x \in ToSet(q) : x.dir = "" /\ x.name \notin {"universal", "meta", "x86", "xhdpi"}}}
PmLines == {[failure |-> FALSE, reason |-> ""]} \union [failure : {TRUE}, reason : {"MISSING_SPLIT", "OTHER"}]
PmAsks == {[kind |-> "pm", lines |-> l, exit |-> x] : l \in SeqOf(PmLines, 3), x \in {"", "exit"}}
DumpLine(ind, head, perm, granted) == [indented |-> ind, head |-> head, key |-> "", value |-> "", user0 |-> FALSE, perm |-> perm, granted |-> granted]
DumpLines == {DumpLine(TRUE, h, "", "") : h \in {"requested permissions", "install permissions", "other"}}
             \union {DumpLine(TRUE, "", p, g) : p \in {"CAMERA", "NFC"}, g \in {"", "true", "false"}} \union {DumpLine(FALSE, "", "", "")}
DumpAsks == {[kind |-> "dump", lines |-> l] : l \in SeqOf(DumpLines, 4)}

\* A release as the feed gives it.
FeedAsks == {[kind |-> "feed", ver |-> v, assets |-> a] :
             v \in {None, Pinned, <<1, 5, 10>>}, a \in SeqOf([ver : {Pinned, <<1, 5, 10>>}, algorithm : {"sha256", "bare", "md5", ""}, digest : {"d"}], 2)}

Init == ask = [kind |-> "nothing"] /\ answer = NotYet
AnswerTools ==
  /\ answer = NotYet
  /\ \E a \in ToolsAsks :
      /\ ask' = a
      /\ answer' = <<resolveFridaToolsVersion(a.releases, a.limit, a.ver)>>
AnswerMark ==
  /\ answer = NotYet
  /\ \E a \in MarkAsks :
      /\ ask' = a
      /\ answer' = <<markRunningServers(a.servers, {a.proc})>>
AnswerServer ==
  /\ answer = NotYet
  /\ \E a \in ServerAsks :
      /\ ask' = a
      /\ answer' = <<chooseFridaServer(a.servers, a.arches, a.runtimes, a.used)>>
AnswerHost ==
  /\ answer = NotYet
  /\ \E a \in HostAsks :
      /\ ask' = a
      /\ LET py    == DetectHostPython(a.pythons)
             files == parsePypiFiles(a.files)
             wheel == IF py = 0 THEN 0
                      ELSE selectHostWheel(files, hostPythonTarget(a.pythons[py].told, <<"linux", "amd64">>))
         IN  answer' = <<[py |-> py, wheel |-> IF wheel = 0 THEN None ELSE files[wheel],
                          deps |-> IF py = 0 THEN <<>> ELSE neededDeps(a.requires, a.pythons[py].ver),
                          tools |-> selectFridaToolsArtifact(files)]>>
AnswerDevice ==
  /\ answer = NotYet
  /\ \E a \in DeviceAsks :
      /\ ask' = a
      /\ LET arch == detectFridaArch(a.abi, a.abilist, a.uname)
         IN  answer' = <<[arch |-> arch, info |-> FridaArchInfo(a.abi, a.abilist, a.uname),
                          releases |-> ListFridaReleases(a.releases, arch, a.installed, a.sdk),
                          servers |-> ListFridaServers(a.entries, a.failed, a.reachable)]>>
AnswerOpen ==
  /\ answer = NotYet
  /\ \E a \in OpenAsks :
      /\ ask' = a
      /\ LET info == JadxStatus(a.user, a.dirs, a.onPath, a.javas)
         IN  answer' = <<[info |-> info, plan |-> PlanJadxOpen(info, a.bases, a.staged)]>>
AnswerAvd ==
  /\ answer = NotYet
  /\ \E a \in AvdAsks :
      /\ ask' = a
      /\ LET profiles == classifyDeviceProfiles(parseDeviceProfiles(a.lines))
         IN  answer' = <<[profiles |-> profiles, spec |-> DefaultAVDSpec([api |-> 34, store |-> TRUE], profiles),
                          args |-> EmulatorArgs(a.port, a.opts)]>>
AnswerPackage ==
  /\ answer = NotYet
  /\ \E a \in PackageAsks :
      /\ ask' = a
      /\ answer' = <<[session |-> InstallApkBundle(a.entries, a.abis, a.dpi),
                      plan    |-> PlanApkInstall(a.entries, a.abis, a.dpi)]>>
AnswerRunning ==
  /\ answer = NotYet
  /\ \E a \in RunningAsks :
      /\ ask' = a
      /\ answer' = <<IsAppRunning(a.pidof, a.procs, "a")>>
AnswerExport ==
  /\ answer = NotYet
  /\ \E a \in ExportAsks :
      /\ ask' = a
      /\ LET out == ExportApks(a.paths)
         IN  answer' = <<[split |-> out.split, again |-> InstallApkBundle(out.archive, a.abis, a.dpi)]>>
AnswerPm ==
  /\ answer = NotYet
  /\ \E a \in PmAsks :
      /\ ask' = a
      /\ answer' = <<installMultipleErr(a.lines, a.exit)>>
AnswerDump ==
  /\ answer = NotYet
  /\ \E a \in DumpAsks :
      /\ ask' = a
      /\ answer' = <<describeAppFromText(a.lines)>>
AnswerFeed ==
  /\ answer = NotYet
  /\ \E a \in FeedAsks :
      /\ ask' = a
      /\ answer' = <<[rel |-> jadxReleaseFromFeed(a.ver, a.assets), installs |-> InstallJadxRelease(jadxReleaseFromFeed(a.ver, a.assets))]>>
Next == \/ AnswerTools \/ AnswerMark \/ AnswerServer \/ AnswerHost \/ AnswerDevice
        \/ AnswerOpen \/ AnswerAvd \/ AnswerPackage \/ AnswerRunning
        \/ AnswerExport \/ AnswerPm \/ AnswerDump \/ AnswerFeed
Spec == Init /\ [][Next]_vars

Asked(kind) == ask.kind = kind

\* resolveFridaToolsVersion is defined by what its comment promises: of the releases
\* it looks at and can read, the first one with the highest floor that the
\* version still satisfies.
FirstOfItsLine ==
  Asked("tools") =>
    LET fit  == {r \in ToSet(Probed(ask.releases, ask.limit)) :
                   r.readable /\ requirementAllows(r.spec, ask.ver)}
        line == {r \in fit : \A q \in fit :
                   Compare(requirementFloor(q.spec), requirementFloor(r.spec)) <= 0}
    IN  IF fit = {} THEN Given = None
        ELSE \E r \in line : Given = r.ver /\ \A q \in line : ~Newer(r.ver, q.ver)

\* A server shown as active is the one that runs, and one that runs among those
\* listed is active or among the ambiguous. The exception is a process of an unlisted
\* path whose exe link cannot be read: its name alone may single out a file.
ActiveIsTheRunning ==
  Asked("mark") =>
    \A i \in DOMAIN ask.servers :
      LET runs   == ask.servers[i].path = Path(ask.dir, ask.name)
          listed == \E j \in DOMAIN ask.servers : ask.servers[j].path = Path(ask.dir, ask.name)
      IN  /\ Given[i].active => runs \/ (~listed /\ ask.proc.exe = None)
          /\ runs => Given[i].active \/ Given[i].ambiguous
          /\ Given[i].active => \A j \in DOMAIN ask.servers : ~Given[j].ambiguous /\ (Given[j].active => i = j)

\* The order of preference its comment gives: an architecture the device runs,
\* then a runtime at hand, then one used before, then the newest.
PreferenceIsKept ==
  Asked("server") =>
    LET s == ask.servers
        Can(i) == /\ s[i].runnable /\ s[i].ver # None
                  /\ ask.arches = {} \/ s[i].arch = "" \/ s[i].arch \in ask.arches
        Has(i) == ResolveForVersion(ask.runtimes, s[i].ver).kind # "none"
        Runs(i) == s[i].arch # "" /\ s[i].arch \in ask.arches
        Beats(i, j) ==
          \/ Runs(i) /\ ~Runs(j)
          \/ Runs(i) = Runs(j) /\ Has(i) /\ ~Has(j)
          \/ Runs(i) = Runs(j) /\ Has(i) = Has(j) /\ s[i].ver \in ask.used /\ s[j].ver \notin ask.used
          \/ /\ Runs(i) = Runs(j) /\ Has(i) = Has(j) /\ (s[i].ver \in ask.used) = (s[j].ver \in ask.used)
             /\ Newer(s[i].ver, s[j].ver)
    IN  /\ Given = 0 <=> \A i \in DOMAIN s : ~Can(i)
        /\ Given # 0 => Can(Given) /\ \A i \in DOMAIN s : Can(i) => ~Beats(i, Given)

\* The venv's wheel is built for the system and the machine of the interpreter that will
\* import it, which need not be adbq's own, and no dependency whose marker
\* holds for that interpreter is left out of the offline install (frida_tools.go:1045-1048).
WheelFits ==
  Asked("host") =>
    LET py    == Given.py
        Holds(c) == c.on = "python" /\ ClauseHolds(c.op, Compare(SubSeq(ask.pythons[py].ver, 1, 2), c.ver))
    IN  /\ py = 0 <=> \A i \in DOMAIN ask.pythons : ask.pythons[i].path = None \/ ask.pythons[i].ver = <<3, 6, 9>>
        /\ Given.wheel # None =>
             LET on == ask.pythons[py].told IN
             /\ on = <<"darwin", "arm64">> <=> Given.wheel.tags = {"macosx", "arm64"}
             /\ on # <<"darwin", "arm64">> <=> Given.wheel.tags = {"manylinux", "x86_64"}
             /\ ~Given.wheel.yanked
        /\ py # 0 => \A i \in DOMAIN ask.requires :
             (\A c \in ToSet(ask.requires[i].marker) : Holds(c)) => ask.requires[i] \in ToSet(Given.deps)

\* The servers offered for a device run on it and say whether they are there
\* already; and a directory that could not be listed is never shown as an empty one.
OffersFit ==
  Asked("device") =>
    /\ Given.arch = "" => ask.abi # "arm64-v8a" /\ ask.abilist = <<>> /\ ask.uname = ""
    /\ Given.arch # "" => Given.arch \in Given.info.supported
    /\ \A i \in DOMAIN Given.releases :
         Given.releases[i].installed <=> [ver |-> Given.releases[i].ver, arch |-> Given.arch] \in ask.installed
    /\ Given.servers = <<<<>>>> => ~ask.failed \/ ask.reachable \/ ask.entries # <<>>
    /\ Given.servers = None => ask.failed /\ ~ask.reachable
FridaFits == FirstOfItsLine /\ ActiveIsTheRunning /\ PreferenceIsKept /\ WheelFits /\ OffersFit

\* The Java that jadx is launched with is the first real one that is recent enough, never
\* a stub outside of any home (jadx.go:247-253); what the user pointed at wins while it
\* is there, the pinned release over a newer one (jadx.go:150-157); and the plan
\* says ready exactly when the open would not be refused, with the reason when not.
JadxFits ==
  Asked("open") =>
    LET Ok(c) == c.file = "file" /\ c.home # {} /\ c.told # None /\ c.told # <<1, 8>>
        fit   == {i \in DOMAIN ask.javas : Ok(ask.javas[i])}
        info  == Given.info
        works == ask.user.kind = "file" \/ (ask.user.kind # "gone" /\ ask.user.launcher)
        whole == {d.ver : d \in {x \in ToSet(ask.dirs) : x.launcher}}
    IN  /\ info.java.java = IF fit = {} THEN <<>> ELSE <<ask.javas[Min(fit)]>>
        /\ info.java.java = <<>> <=> info.java.error # ""
        /\ info.java.error = "too old" <=> fit = {} /\ \E c \in ToSet(ask.javas) : c.told = <<1, 8>>
        /\ info.kind = "user" <=> works
        /\ ~works => (info.kind = "managed" <=> whole # {})
        /\ info.kind = "managed" => /\ info.ver \in whole /\ Pinned \in whole => info.ver = Pinned
                                    /\ Pinned \notin whole => \A v \in whole : ~Newer(v, info.ver)
        /\ Given.plan.ready <=> Given.plan.reason = ""
        /\ Given.plan.ready => info.kind # "" /\ fit # {}
        /\ IsInjective(Given.plan.names) /\ Len(Given.plan.names) = Len(ask.bases)
        /\ Given.plan.staged <=> Cardinality(ask.staged) = Len(ask.bases)

\* Every block with an id becomes a profile, with what stands between its id and the next;
\* one at most is recommended, and it fills the form; and a launch without snapshots
\* says nothing that would load, save or name one.
AvdFits ==
  Asked("avd") =>
    LET ids == SelectSeq(ask.lines, LAMBDA l : l.key = "id" /\ l.value # "")
        rec == {i \in DOMAIN Given.profiles : Given.profiles[i].recommended}
    IN  /\ [i \in DOMAIN Given.profiles |-> Given.profiles[i].id] = [i \in DOMAIN ids |-> ids[i].value]
        /\ Cardinality(rec) <= 1 /\ \A i \in rec : Given.spec.device = Given.profiles[i].id
        /\ Given.spec.device = "" <=> \A l \in ToSet(ids) : l.value = "tablet"
        /\ Given.spec.device = "pixel_7" => \A l \in ToSet(ids) : l.value # "pixel_8"
        /\ \A i \in DOMAIN Given.profiles : Given.profiles[i].form = "wear" =>
             \E j \in DOMAIN ask.lines : ask.lines[j].key = "Tag"
        /\ "-no-snapshot" \in ToSet(Given.args) =>
             ToSet(Given.args) \intersect {"-no-snapshot-load", "-no-snapshot-save", "-snapshot"} = {}
        /\ ask.opts \ ToSet(Given.args) # {} => "-no-snapshot" \in ask.opts
\* An archive that nobody can check is never installed (jadx.go:499-501), whatever the
\* feed calls its digest, and one that can be is never refused.
FeedFits ==
  Asked("feed") =>
    LET of == SelectSeq(ask.assets, LAMBDA a : a.ver = ask.ver) IN
    Given.installs <=> of # <<>> /\ Head(of).algorithm # "md5" /\ Head(of).algorithm # ""
HostFits == JadxFits /\ AvdFits /\ FeedFits

\* The APKs of an install are of one layout, with no foreign code, one density at most
\* (the nearest, the denser of two that are as near: apks.go:652), and a session that
\* a base or a module leads where there is one; the plan shows those very
\* files, and nothing is refused but an archive with no APK or only foreign code.
InstallFits ==
  /\ Asked("package") =>
       LET files == Given.session.files
           of    == {e \in ToSet(files) : e.kind = "density"}
           Near(e, d) == LET x == Buckets[e.token] - ask.dpi y == Buckets[d.token] - ask.dpi IN x * x <= y * y
           there == preferredApkEntries(ask.entries)
       IN  /\ Given.plan.error = Given.session.error
           /\ Given.session.error = "" => /\ ToSet(files) = ToSet(Given.plan.install) /\ Len(files) = Len(Given.plan.install)
                                           /\ files # <<>>
           /\ Given.session.error # "" <=> there = <<>> \/ (/\ \E e \in ToSet(there) : e.kind = "abi"
                                                            /\ ask.abis # {}
                                                            /\ \A e \in ToSet(there) : e.kind = "abi" => e.token \notin ask.abis)
           /\ \A e, f \in ToSet(files) : e.dir = f.dir
           /\ \A e \in ToSet(files) : e.kind = "abi" => ask.abis = {} \/ e.token \in ask.abis
           /\ ask.dpi > 0 => /\ Cardinality(of) <= 1
                             /\ \A e \in of : \A d \in ToSet(there) : d.kind = "density" /\ Given.session.error = "" =>
                                  Near(e, d) /\ (Near(d, e) => Buckets[e.token] >= Buckets[d.token])
           /\ \A e \in ToSet(files) : e.name = "base.apk" => files[1] = e
           /\ files # <<>> /\ files[1].kind \in {"abi", "density", "locale"} => \A e \in ToSet(files) : e.kind \in {"abi", "density", "locale"}
           /\ \A x \in {"apk", "apks", "zip", "", "txt"}, s \in BOOLEAN : IsApkBundle(EnsureExportExt(x, s)) = s
  /\ Asked("running") =>
       LET own == {p \in ask.procs : p.pkg = "a"}
       IN  /\ Given.running <=> ask.pidof # <<>> \/ own # {}
           /\ Given.running /\ ask.pidof = <<>> => \E p \in own : p.pid = Given.pid /\ (p.tag = "" \/ \A q \in own : q.tag # "")

\* An export installs again on the device it came from, with every APK it was made of and
\* the base first; a failed install is an error though adb exits with 0 (apks.go:423-425).
ExportFits ==
  /\ Asked("export") =>
       /\ Given.split = (Len(ask.paths) > 1) /\ Given.again.error = ""
       /\ ToSet(Given.again.files) = ToSet(ask.paths) /\ Len(Given.again.files) = Len(ask.paths)
       /\ Given.again.files[1].name = "base.apk"
  /\ Asked("pm") =>
       /\ Given.error = "" <=> ask.exit = "" /\ \A l \in ToSet(ask.lines) : ~l.failure
       /\ Given.advice # "" => [failure |-> TRUE, reason |-> "MISSING_SPLIT"] \in ToSet(ask.lines)

\* A permission is told of from its own section alone: the requested ones stand between
\* their heading and the next, or the end of the block.
DumpFits ==
  Asked("dump") =>
    LET Under(i, heads, ends) ==
          \E j \in 1 .. i - 1 : /\ ask.lines[j].head \in heads
                               /\ \A k \in j + 1 .. i : ask.lines[k].indented /\ ask.lines[k].head \notin ends
        at(P(_)) == SelectSeq([i \in DOMAIN ask.lines |-> i], P)
        grants   == {"install permissions", "runtime permissions"}
        req == at(LAMBDA i : ask.lines[i].perm # "" /\ ask.lines[i].granted = "" /\ Under(i, {"requested permissions"}, grants))
        got == at(LAMBDA i : ask.lines[i].granted # "" /\ Under(i, grants, {}))
    IN  /\ Given.requested = [i \in DOMAIN req |-> ask.lines[req[i]].perm]
        /\ Given.perms = [i \in DOMAIN got |-> <<ask.lines[got[i]].perm, ask.lines[got[i]].granted>>]
PackageFits == InstallFits /\ ExportFits /\ DumpFits
=============================================================================
