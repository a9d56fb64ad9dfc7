------------------------------ MODULE HostTools ------------------------------
(***************************************************************************)
(* The Android toolchain of the host (sdk.go) and the settings that choose *)
(* it (host_store.go, and SetSDKRoot and SetJadxPath of app.go). Info      *)
(* answers from a cache that no lock joins to its probe, which runs the    *)
(* emulator twice and may take twenty seconds; a setter reads the settings,*)
(* changes its field and writes them all back.                             *)
(***************************************************************************)
EXTENDS Naturals, FiniteSets, Sequences
CONSTANTS Callers, Roots, Layouts, MaxCalls, MaxMoves
None == "none"
Gone == {"gone"}      \* a folder that is not there, beside the layouts of those that are
VARIABLES
  disk,    \* disk[r]: what is under the folder r
  env,     \* the folders the environment and the system's conventions name, in order
  onPath,  \* whether the tools can be found on PATH
  host,    \* the settings: the SDK's root and the jadx path
  cache,   \* Info's cache: <<>>, or the description
  call,    \* the calls under way
  given,   \* what each caller was told last, and whether the disk has changed since it asked
  calls, moves,
  raced, moved   \* history: calls overlapped, or the disk changed, since the cache was last dropped
vars == <<disk, env, onPath, host, cache, call, given, calls, moves, raced, moved>>

Idle == [pc |-> "idle"]
Nothing == [root |-> None, source |-> None, emulator |-> None, avdmanager |-> None]

\* looksLikeSDK: one of the usual folders; the emulator of old releases, in tools/, is none.
looksLikeSDK(r) == r \in Roots /\ disk[r] # Gone /\ disk[r] \intersect {"emulator", "latest", "versioned"} # {}
dirExists(r) == r \in Roots => disk[r] # Gone

Least(S) == CHOOSE n \in S : \A m \in S : n <= m

\* resolveRoot: the setting, then each place in turn, a stale one being passed over.
FirstSDK(places) ==
  LET fit == {n \in DOMAIN places : looksLikeSDK(places[n].root)}
  IN  IF fit = {} THEN [root |-> None, source |-> None] ELSE places[Least(fit)]
\* A slip: a setting is taken as it is.
resolveRootTrusts(setting) ==
  IF setting # None THEN [root |-> setting, source |-> "setting"] ELSE FirstSDK(env)
resolveRoot(setting) == FirstSDK(<<[root |-> setting, source |-> "setting"]>> \o env)

\* firstExisting of the places a tool has had, then PATH.
firstExisting(r, places) ==
  LET fit == IF r = None THEN {} ELSE {n \in DOMAIN places : places[n] \in disk[r]}
  IN  IF fit # {} THEN places[Least(fit)] ELSE IF onPath THEN "PATH" ELSE None
cmdlineToolCandidates == <<"latest", "versioned", "tools">>
Tools(r) == [emulator |-> firstExisting(r, <<"emulator", "tools">>), avdmanager |-> firstExisting(r, cmdlineToolCandidates)]

\* What the calls answer of a description, or why they cannot.
Emulator(i) == IF i.emulator # None THEN i.emulator ELSE IF i.root = None THEN "no SDK" ELSE "no emulator"
AVDManagerBin(i) == CASE i.avdmanager # None -> i.avdmanager [] i.root = None /\ i.emulator = None -> "no SDK" [] OTHER -> "no command-line tools"

Init ==
  /\ disk \in [Roots -> Layouts] /\ onPath \in BOOLEAN
  /\ env \in {<<>>} \union {<<[root |-> r, source |-> "ANDROID_HOME"]>> : r \in Roots}
  /\ host = [sdk |-> None, jadx |-> FALSE]
  /\ cache = <<>> /\ call = [c \in Callers |-> Idle]
  /\ given = [c \in Callers |-> [info |-> Nothing, old |-> FALSE]]
  /\ calls = 0 /\ moves = 0 /\ raced = FALSE /\ moved = FALSE

Asks(c) == given' = [given EXCEPT ![c] = [info |-> Nothing, old |-> FALSE]]
Begin(c) == call[c] = Idle /\ calls < MaxCalls /\ calls' = calls + 1
            /\ raced' = (raced \/ \E d \in Callers : call[d] # Idle) /\ Asks(c)
Goes(c, step) == call' = [call EXCEPT ![c] = step]
Told(c, info) == given' = [given EXCEPT ![c] = [info |-> info, old |-> @.old]]
Keep == UNCHANGED <<disk, env, onPath, calls, moves>>

Info(c) == Begin(c) /\ Goes(c, [pc |-> "info"]) /\ UNCHANGED <<disk, env, onPath, host, cache, moves, moved>>

\* Cached: a description whose root has been deleted is not handed out.
ValidAlways(i) == TRUE
Valid(i) == dirExists(i.root)
Cached(c) ==
  /\ call[c].pc = "info" /\ cache # <<>> /\ Valid(cache[1])
  /\ Told(c, cache[1]) /\ Goes(c, Idle) /\ UNCHANGED <<host, cache, raced, moved>> /\ Keep
probe(c) ==
  /\ call[c].pc = "info" /\ ~(cache # <<>> /\ Valid(cache[1]))
  /\ Goes(c, [pc |-> "tools", at |-> resolveRoot(host.sdk)]) /\ UNCHANGED <<host, cache, given, raced, moved>> /\ Keep
ProbeTools(c) ==
  /\ call[c].pc = "tools"
  /\ Goes(c, [pc |-> "store", info |-> [root |-> call[c].at.root, source |-> call[c].at.source,
                                        emulator |-> Tools(call[c].at.root).emulator, avdmanager |-> Tools(call[c].at.root).avdmanager]])
  /\ UNCHANGED <<host, cache, given, raced, moved>> /\ Keep
Store(c) ==
  /\ call[c].pc = "store"
  /\ cache' = <<call[c].info>> /\ Told(c, call[c].info) /\ Goes(c, Idle) /\ UNCHANGED <<host, raced, moved>> /\ Keep

\* Recheck drops the cache, then is an Info.
RecheckKeeps(c) == /\ Goes(c, [pc |-> "info"]) /\ moved' = FALSE /\ raced' = (\E d \in Callers \ {c} : call[d] # Idle) /\ UNCHANGED <<cache, host>>
Recheck(c) == /\ Goes(c, [pc |-> "info"]) /\ cache' = <<>>
              /\ moved' = FALSE /\ raced' = (\E d \in Callers \ {c} : call[d] # Idle) /\ UNCHANGED host
RecheckAndroidSDK(c) == call[c] = Idle /\ calls < MaxCalls /\ calls' = calls + 1 /\ Asks(c) /\ Recheck(c) /\ UNCHANGED <<disk, env, onPath, moves>>

\* The setters: the settings are read ...
SetSDKRoot(c, r) == Begin(c) /\ Goes(c, [pc |-> "sdk", hs |-> [host EXCEPT !.sdk = r]])
                    /\ UNCHANGED <<disk, env, onPath, host, cache, moves, moved>>
SetJadxPath(c) == Begin(c) /\ Goes(c, [pc |-> "jadx", hs |-> [host EXCEPT !.jadx = ~@]])
                  /\ UNCHANGED <<disk, env, onPath, host, cache, moves, moved>>
\* ... then replaced, in memory at once; when they cannot be persisted the call ends
\* there, with what is in memory in force.
HostStoreSet(c) == call[c].pc = "sdk" /\ host' = call[c].hs /\ Goes(c, [pc |-> "recheck"]) /\ UNCHANGED <<cache, given, raced, moved>> /\ Keep
RecheckAfter(c) == call[c].pc = "recheck" /\ Recheck(c) /\ UNCHANGED given /\ Keep
SetJadx(c) == call[c].pc = "jadx" /\ host' = call[c].hs /\ Goes(c, Idle) /\ UNCHANGED <<cache, given, raced, moved>> /\ Keep
SetFails(c) == call[c].pc \in {"sdk", "jadx"} /\ host' = call[c].hs /\ Goes(c, Idle) /\ moved' = TRUE
               /\ UNCHANGED <<cache, given, raced>> /\ Keep

\* The user installs, moves or removes an SDK.
Move(r, l) ==
  /\ moves < MaxMoves /\ moves' = moves + 1 /\ disk' = [disk EXCEPT ![r] = l] /\ disk' # disk /\ moved' = TRUE
  /\ given' = [c \in Callers |-> [given[c] EXCEPT !.old = TRUE]]
  /\ UNCHANGED <<env, onPath, host, cache, call, calls, raced>>

Next ==
  \/ \E c \in Callers :
       \/ Info(c) \/ Cached(c) \/ probe(c) \/ ProbeTools(c) \/ Store(c) \/ RecheckAndroidSDK(c)
       \/ \E r \in Roots \union {None} : SetSDKRoot(c, r)
       \/ SetJadxPath(c) \/ HostStoreSet(c) \/ RecheckAfter(c) \/ SetJadx(c) \/ SetFails(c)
  \/ \E r \in Roots, l \in Layouts \union {Gone} : Move(r, l)
Spec == Init /\ [][Next]_vars
-----------------------------------------------------------------------------
Quiet == \A c \in Callers : call[c] = Idle

\* A folder that was chosen takes effect without a restart (app.go:232-234): once the
\* calls have ended, what the next one is told is what a probe would find. Calls that
\* overlapped since the last recheck may have stored an older answer (sdk.go:80).
ChoiceIsServed ==
  Quiet /\ ~raced /\ ~moved /\ cache # <<>> =>
    /\ cache[1].root = resolveRoot(host.sdk).root
    /\ cache[1].root # None => looksLikeSDK(cache[1].root)
    /\ Emulator(cache[1]) = Emulator([Nothing EXCEPT !.root = cache[1].root, !.emulator = Tools(cache[1].root).emulator])
    /\ Tools(cache[1].root).avdmanager = cache[1].avdmanager

\* "A cached path that has since been deleted must not be handed out as if it were
\* live" (sdk.go:69): of the root, what a caller was told is there when the disk has
\* not changed since.
ToldWhatIsThere ==
  \A c \in Callers : call[c] = Idle /\ ~given[c].old => dirExists(given[c].info.root)
=============================================================================
