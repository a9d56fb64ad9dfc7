------------------------------ MODULE HostPick ------------------------------
(***************************************************************************)
(* What adbq makes of the host it runs on: the Java runtime and the jadx   *)
(* that opening an application needs (jadx.go, jadx_open.go), and the      *)
(* settings a new emulator gets (avd_create.go, avd_cmd.go). Versions are  *)
(* as in FridaPick, names and files are tokens.                            *)
(***************************************************************************)
EXTENDS FridaPick

MinJava == 11
Pinned == <<1, 5, 6>>

(***************************************************************************)
(* Java. A candidate is [source, file, home, told], in the order they are  *)
(* tried: the setting, JAVA_HOME, what the system names, Android Studio's, *)
(* the installed ones, PATH. file is none, dir or file; home are the files *)
(* beside its bin/; told is the version it answers, None when it does not. *)
(***************************************************************************)
isJavaHome(home) == home \intersect {"release", "lib/modules", "jre/lib/rt.jar"} # {}
parseJavaVersion(v) == CASE v = None -> 0 [] v # None /\ v[1] = 1 /\ Len(v) > 1 -> v[2] [] OTHER -> Head(v)

\* A slip: one that answers is taken, wherever it lives.
resolveJavaAnswers(cands) ==
  LET fit == SelectSeq(cands, LAMBDA c : c.file = "file" /\ parseJavaVersion(c.told) >= MinJava)
  IN  IF fit # <<>> THEN [java |-> <<Head(fit)>>, error |-> "", ver |-> Head(fit).told] ELSE [java |-> <<>>, error |-> "none", ver |-> None]
resolveJava(cands) ==
  LET files == SelectSeq(cands, LAMBDA c : c.file = "file")
      homes == SelectSeq(files, LAMBDA c : isJavaHome(c.home))
      fit   == SelectSeq(homes, LAMBDA c : parseJavaVersion(c.told) >= MinJava)
      old   == SelectSeq(homes, LAMBDA c : parseJavaVersion(c.told) \in 1 .. MinJava - 1)
  IN  CASE fit # <<>> -> [java |-> <<Head(fit)>>, error |-> "", ver |-> Head(fit).told]
        [] fit = <<>> /\ old # <<>> -> [java |-> <<>>, error |-> "too old", ver |-> Head(old).told]
        [] fit = <<>> /\ old = <<>> /\ homes # files -> [java |-> <<>>, error |-> "stub", ver |-> None]
        [] OTHER -> [java |-> <<>>, error |-> "none", ver |-> None]

(***************************************************************************)
(* jadx. What the user pointed at is [kind, launcher, ver]: a file, the    *)
(* release's root or its bin directory, or gone; dirs are the managed      *)
(* installs, [ver, launcher].                                              *)
(***************************************************************************)
resolveJadxUserPath(p) == p.kind = "file" \/ (p.kind \in {"root", "bin"} /\ p.launcher)
managedJadx(dirs) ==
  LET whole  == SelectSeq(dirs, LAMBDA d : d.launcher)
      pinned == SelectSeq(whole, LAMBDA d : d.ver = Pinned)
  IN  IF pinned # <<>> THEN <<Head(pinned)>>
      ELSE IF whole = <<>> THEN <<>> ELSE <<SortSeq(whole, LAMBDA x, y : Newer(x.ver, y.ver))[1]>>
JadxStatus(user, dirs, onPath, cands) ==
  LET managed == managedJadx(dirs)
      java    == resolveJava(cands)
      kind    == CASE resolveJadxUserPath(user) -> "user"
                   [] ~resolveJadxUserPath(user) /\ managed # <<>> -> "managed"
                   [] OTHER -> IF onPath THEN "path" ELSE ""
  IN  [kind |-> kind, java |-> java, ready |-> kind # "" /\ java.java # <<>>,
       ver |-> CASE kind = "user" -> user.ver [] kind = "managed" -> managed[1].ver [] OTHER -> None]

\* The release feed: the archive named after the version, whose digest counts only
\* unless it names another algorithm; an install of what cannot be verified is refused.
jadxReleaseFromFeed(ver, assets) ==
  LET of == SelectSeq(assets, LAMBDA a : a.ver = ver)
  IN  IF ver = None \/ of = <<>> THEN <<>>
      ELSE <<[ver |-> ver, digest |-> IF Head(of).algorithm \in {"sha256", "bare"} THEN Head(of).digest ELSE "", newer |-> Newer(ver, Pinned)]>>
InstallJadxRelease(rel) == rel # <<>> /\ rel[1].digest # ""

\* The plan of an open says why it cannot run and whether anything will be pulled;
\* staged are the files that are there at a size above zero.
uniqueEntryName(name, taken) ==
  IF name \notin taken THEN name ELSE <<name[1], Min({n \in 2 .. Cardinality(taken) + 2 : <<name[1], n>> \notin taken})>>
EntryNames(bases) == FoldLeft(LAMBDA out, b : Append(out, uniqueEntryName(<<b, 1>>, ToSet(out))), <<>>, bases)
PlanJadxOpen(info, bases, staged) ==
  [ready |-> info.ready, names |-> EntryNames(bases), staged |-> bases # <<>> /\ ToSet(EntryNames(bases)) \subseteq staged,
   reason |-> CASE info.kind = "" -> "not installed" [] info.kind # "" /\ info.java.java = <<>> -> info.java.error [] OTHER -> ""]

(***************************************************************************)
(* A new emulator. A profile is [id, words]: the words, each with the      *)
(* label it stands after (id, Name or Tag), that the classification knows. *)
(***************************************************************************)
FormWords == <<[of |-> {"Tag"}, word |-> "wear", form |-> "wear"], [of |-> {"Tag"}, word |-> "tv", form |-> "tv"],
               [of |-> {"Tag"}, word |-> "automotive", form |-> "automotive"], [of |-> {"Tag"}, word |-> "desktop", form |-> "desktop"],
               [of |-> {"Tag"}, word |-> "xr", form |-> "xr"], [of |-> {"Tag"}, word |-> "glasses", form |-> "xr"],
               [of |-> {"id", "Name"}, word |-> "fold", form |-> "foldable"], [of |-> {"id", "Name"}, word |-> "tablet", form |-> "tablet"],
               [of |-> {"id"}, word |-> "nexus_9", form |-> "tablet"], [of |-> {"id"}, word |-> "nexus_10", form |-> "tablet"]>>
deviceFormFactor(words) ==
  LET fit == SelectSeq(FormWords, LAMBDA w : \E k \in w.of : <<k, w.word>> \in words) IN IF fit = <<>> THEN "phone" ELSE Head(fit).form
preferredDeviceIDs == <<"pixel_8", "pixel_7", "pixel_6", "pixel_5", "medium_phone", "pixel_4">>
classifyDeviceProfiles(profiles) ==
  LET ids  == {profiles[i].id : i \in DOMAIN profiles}
      want == SelectSeq(preferredDeviceIDs, LAMBDA d : d \in ids)
      best == IF want = <<>> THEN 0 ELSE Max({i \in DOMAIN profiles : profiles[i].id = Head(want)})
  IN  [i \in DOMAIN profiles |-> [id |-> profiles[i].id, form |-> deviceFormFactor(profiles[i].words), recommended |-> i = best]]

\* parseDeviceProfiles: the lines between one id and the next; a rule ends a block, and a
\* block without a quoted id is dropped.
parseDeviceProfiles(lines) ==
  LET Flush(s) == [out |-> IF s.cur # <<>> /\ s.cur[1].id # "" THEN s.out \o s.cur ELSE s.out, cur |-> <<>>]
      Step(s, l) == CASE l.key = "id"   -> [Flush(s) EXCEPT !.cur = <<[id |-> l.value, words |-> {<<"id", l.value>>}]>>]
                      [] l.key = "---"  -> Flush(s)
                      [] l.key \in {"Name", "Tag"} /\ s.cur # <<>> -> [s EXCEPT !.cur[1].words = @ \union {<<l.key, l.value>>}]
                      [] OTHER -> s
  IN  Flush(FoldLeft(Step, [out |-> <<>>, cur |-> <<>>], lines)).out
DefaultAVDSpec(img, profiles) ==
  LET rec == SelectSeq(profiles, LAMBDA p : p.recommended)
  IN  [device |-> IF rec = <<>> THEN "" ELSE Head(rec).id, ram |-> 4096, cores |-> 4, gpu |-> "auto", name |-> <<"Android", img.api, img.store>>]

\* EmulatorArgs: only what was set becomes a flag, and no snapshot at all leaves nothing
\* to say about loading, saving or naming one; the user's own flags come last.
EmulatorArgs(port, o) ==
  (IF port > 0 THEN <<"-port">> ELSE <<>>) \o SelectSeq(<<"-wipe-data", "-no-snapshot">>, LAMBDA f : f \in o)
  \o (IF "-no-snapshot" \in o THEN <<>> ELSE SelectSeq(<<"-no-snapshot-load", "-no-snapshot-save", "-snapshot">>, LAMBDA f : f \in o))
  \o SelectSeq(<<"-no-window", "-read-only", "-gpu", "-memory">>, LAMBDA f : f \in o)
  \o SelectSeq(<<"extra">>, LAMBDA f : f \in o)
=============================================================================
