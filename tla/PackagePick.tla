----------------------------- MODULE PackagePick -----------------------------
(***************************************************************************)
(* Applications: which APKs of an archive a device gets and in which order *)
(* (apks.go), what an export writes, and what adbq reads out of the        *)
(* package manager's answers (apps.go). An entry of an archive is          *)
(* [dir, name, kind, token], where kind is what its name tells: base,      *)
(* abi, density, locale, other (an APK of no kind), meta or none.          *)
(***************************************************************************)
LOCAL INSTANCE Integers
LOCAL INSTANCE SequencesExt

Buckets == [ldpi |-> 120, mdpi |-> 160, tvdpi |-> 213, hdpi |-> 240, xhdpi |-> 320, xxhdpi |-> 480, xxxhdpi |-> 640]
IsApk(e) == e.kind \notin {"meta", "none"}

\* preferredApkEntries: one of the layouts that lie side by side in an archive.
preferredApkEntries(entries) ==
  LET apks   == SelectSeq(entries, IsApk)
      In(d)  == SelectSeq(apks, LAMBDA e : e.dir = d)
      root   == SelectSeq(apks, LAMBDA e : e.dir = "" /\ e.name # "universal")
      whole  == SelectSeq(apks, LAMBDA e : e.dir = "" /\ e.name = "universal")
  IN  CASE In("splits") # <<>> -> In("splits")
        [] In("splits") = <<>> /\ root # <<>> -> root
        [] In("splits") = <<>> /\ root = <<>> /\ whole # <<>> -> whole
        [] OTHER -> In("standalones")

Abs(n) == IF n < 0 THEN -n ELSE n
\* A slip: the first of two that are as near is the coarser.
closestDensityCoarse(apks, dpi) ==
  LET there == {e.token : e \in {x \in ToSet(apks) : x.kind = "density" /\ x.token \in DOMAIN Buckets}}
      near  == {b \in there : \A d \in there : Abs(Buckets[b] - dpi) <= Abs(Buckets[d] - dpi)}
  IN  IF there = {} \/ dpi <= 0 THEN "" ELSE CHOOSE b \in near : \A d \in near : Buckets[b] <= Buckets[d]
closestDensityBucket(apks, dpi) ==
  LET there == {e.token : e \in {x \in ToSet(apks) : x.kind = "density" /\ x.token \in DOMAIN Buckets}}
      near  == {b \in there : \A d \in there : Abs(Buckets[b] - dpi) <= Abs(Buckets[d] - dpi)}
  IN  IF there = {} \/ dpi <= 0 THEN "" ELSE CHOOSE b \in near : \A d \in near : Buckets[b] >= Buckets[d]

\* selectApkEntries: the keep, or the reason there is none.
selectApkEntries(entries, abis, dpi) ==
  LET apks == preferredApkEntries(entries)
      best == closestDensityBucket(apks, dpi)
      Keeps(e) == CASE e.kind = "abi"     -> abis = {} \/ e.token \in abis
                    [] e.kind = "density" -> e.token \notin DOMAIN Buckets \/ best = "" \/ e.token = best
                    [] OTHER -> TRUE
      keep == SelectSeq(apks, Keeps)
      Abi(e) == e.kind = "abi"
  IN  [keep |-> keep,
       error |-> CASE apks = <<>> -> "no apk"
                   [] apks # <<>> /\ SelectSeq(apks, Abi) # <<>> /\ SelectSeq(keep, Abi) = <<>> -> "other ABIs"
                   [] OTHER -> ""]

\* apkEntryRank orders the session: the base, the modules, the configuration splits.
apkEntryRank(e) == IF e.name = "base.apk" THEN 0 ELSE IF e.kind \in {"base", "other"} THEN 1 ELSE 2
Session(keep) == SelectSeq(keep, LAMBDA e : apkEntryRank(e) = 0) \o SelectSeq(keep, LAMBDA e : apkEntryRank(e) = 1)
                 \o SelectSeq(keep, LAMBDA e : apkEntryRank(e) = 2)
\* InstallApkBundle, and the plan that is shown before it.
InstallApkBundle(entries, abis, dpi) ==
  LET sel == selectApkEntries(entries, abis, dpi)
  IN  IF sel.error # "" THEN [error |-> sel.error, files |-> <<>>] ELSE [error |-> "", files |-> Session(sel.keep)]
PlanApkInstall(entries, abis, dpi) ==
  LET sel == selectApkEntries(entries, abis, dpi)
  IN  [error |-> sel.error, install |-> sel.keep, split |-> Len(sel.keep) > 1]

\* deviceDensity: the override, the physical one, then the property; 0 when none is told.
deviceDensity(override, physical, prop) ==
  LET told == SelectSeq(<<override, physical, prop>>, LAMBDA n : n > 0) IN IF told = <<>> THEN 0 ELSE Head(told)

\* EnsureExportExt: an archive is never named an APK, nor an APK an archive.
EnsureExportExt(ext, split) ==
  IF split THEN IF ext \in {"apks", "xapk", "zip", "apkm"} THEN ext ELSE "apks" ELSE "apk"
IsApkBundle(ext) == ext \in {"apks", "xapk", "zip", "apkm"}

\* baseAndSplits: the one that is named so, or else the first.
baseAndSplits(paths) ==
  LET named == {i \in DOMAIN paths : paths[i] = "base.apk"}
      at    == IF named = {} THEN 1 ELSE Min(named)
  IN  [base |-> at, splits |-> SelectSeq([i \in DOMAIN paths |-> i], LAMBDA i : i # at)]

\* ExportApks: one APK is pulled as it is; several become an archive, the base first and
\* the metadata of other installers beside them.
ExportApks(paths) ==
  LET set   == baseAndSplits([i \in DOMAIN paths |-> paths[i].name])
      order == <<paths[set.base]>> \o [i \in DOMAIN set.splits |-> paths[set.splits[i]]]
  IN  IF set.splits = <<>> THEN [split |-> FALSE, archive |-> order]
      ELSE [split |-> TRUE, archive |-> Append(order, [dir |-> "", name |-> "meta", kind |-> "meta", token |-> ""])]

(***************************************************************************)
(* The package manager. adb exits with 0 from an install that failed, so   *)
(* its output is what counts; the reasons it gives are told apart.         *)
(***************************************************************************)
pmResultErr(lines, exit) == LET fails == SelectSeq(lines, LAMBDA l : l.failure) IN IF fails # <<>> THEN Head(fails).reason ELSE exit
Advice == [MISSING_SPLIT |-> "export again", VERSION_DOWNGRADE |-> "uninstall first", UPDATE_INCOMPATIBLE |-> "uninstall first", NO_MATCHING_ABIS |-> "other ABI"]
installMultipleErr(lines, exit) == LET e == pmResultErr(lines, exit) IN [error |-> e, advice |-> IF e \in DOMAIN Advice THEN Advice[e] ELSE ""]

\* IsAppRunning: pidof, then the process that is named so, then the lowest of its others.
pidsForPackage(procs, pkg) ==
  LET Of(tag) == {p.pid : p \in {q \in procs : q.pkg = pkg /\ (q.tag = "") = tag}}
  IN  [main |-> IF Of(TRUE) = {} THEN 0 ELSE Min(Of(TRUE)), subs |-> Of(FALSE)]
IsAppRunning(pidof, procs, pkg) ==
  LET found == pidsForPackage(procs, pkg)
  IN  CASE pidof # <<>> -> [running |-> TRUE, pid |-> Head(pidof)]
        [] pidof = <<>> /\ found.main > 0 -> [running |-> TRUE, pid |-> found.main]
        [] OTHER -> [running |-> found.subs # {}, pid |-> IF found.subs = {} THEN 0 ELSE Min(found.subs)]

\* describeAppFromText: a line is [indented, head, key, value, user0, perm, granted]. A
\* key counts where it is first, the state of user 0 where it is last; the requested
\* and the granted permissions are those of their own sections.
describeAppFromText(lines) ==
  LET Step(d, l) ==
        LET req == d.req /\ l.indented /\ l.head \notin {"install permissions", "runtime permissions"}
            got == (d.got /\ l.indented) \/ l.head \in {"install permissions", "runtime permissions"}
        IN  [ver   |-> IF l.key = "versionName" /\ d.ver = "" THEN l.value ELSE d.ver,
             user0 |-> IF l.key = "enabled" /\ l.user0 THEN l.value ELSE d.user0,
             req   |-> req \/ l.head = "requested permissions", got |-> got,
             requested |-> IF req /\ l.head = "" /\ l.perm # "" /\ l.granted = "" THEN Append(d.requested, l.perm) ELSE d.requested,
             perms |-> IF got /\ l.granted # "" THEN Append(d.perms, <<l.perm, l.granted>>) ELSE d.perms]
  IN  FoldLeft(Step, [ver |-> "", user0 |-> "", req |-> FALSE, got |-> FALSE, requested |-> <<>>, perms |-> <<>>], lines)
=============================================================================
