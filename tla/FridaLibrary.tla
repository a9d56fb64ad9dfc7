--------------------------- MODULE FridaLibrary ---------------------------
(***************************************************************************)
(* The Frida script library of one user (frida_scripts.go,                 *)
(* frida_history.go and the launch of app.go that reads them): three maps  *)
(* in memory behind FridaStore.mu, an index file for each, and one sidecar *)
(* file per script.  Every index is written whole (tmp + rename), so a     *)
(* crash falls between two writes, never inside one.                       *)
(*                                                                         *)
(* A body is a member of Bodies; a script's metadata says which body it    *)
(* describes (SourceSha) and whether the user trusts that body.  A script  *)
(* carries `born`, a number the program does not have, which tells two     *)
(* scripts of one id apart.                                                *)
(***************************************************************************)
EXTENDS Naturals, Sequences, SequencesExt, FiniteSets

CONSTANTS Bodies,      \* what a script may contain
          Slugs,       \* CodeShare projects that can be imported
          Apps,        \* packages a binding can be for
          MaxIds,      \* bound: scripts created by one run of the program
          MaxCalls,    \* bound: calls of the store
          MaxCrashes,  \* bound: crashes of the program
          HistoryMax   \* fridaHistoryMax

VARIABLES scripts, seq, apps, hist,    \* memory: s.scripts, scriptSeq, appScripts, history
          disk,                        \* the three index files and the sidecars
          call,                        \* the call that holds mu, between two of its writes
          imports,                     \* ImportCodeshare between its two lock sections
          launch,                      \* StartAppWithFrida, from binding to the last script
          torn,                        \* ghost: scripts a crash caught between body and index
          births, calls, crashes       \* ghost and bounds

vars == <<scripts, seq, apps, hist, disk, call, imports, launch, torn, births, calls, crashes>>

Idle == [op |-> "none"]
None == <<>>                           \* a map or a list with nothing in it
NoLaunch == [at |-> "none"]

Drop(f, ks) == [k \in DOMAIN f \ ks |-> f[k]]
Put(f, k, v) == [x \in DOMAIN f \cup {k} |-> IF x = k THEN v ELSE f[x]]

Init ==
  /\ scripts = None /\ seq = 0 /\ apps = None /\ hist = <<>>
  /\ disk = [scripts |-> None, apps |-> None, hist |-> <<>>, bodies |-> None]
  /\ call = Idle /\ imports = {} /\ launch = NoLaunch
  /\ torn = {} /\ births = 0 /\ calls = 0 /\ crashes = 0

Enter == call = Idle /\ calls < MaxCalls /\ calls' = calls + 1

---------------------------------------------------------------------------
(* SaveScript: the sidecar first, then memory and index.                   *)

\* The script that results: a new one, or the old one with what `in` leaves
\* empty kept.
Saved(in) ==
  IF in.id = 0
  THEN [id |-> seq + 1, slug |-> in.slug, of |-> in.of, trusted |-> in.trusted, born |-> births + 1]
  ELSE [in EXCEPT !.slug = IF @ = "local" THEN scripts[in.id].slug ELSE @,
                  !.born = scripts[in.id].born]

\* write the body; the call goes on with `next`
SaveScript(in) ==
  /\ in.id # 0 => in.id \in DOMAIN scripts
  /\ in.id = 0 => seq < MaxIds
  /\ LET s == Saved(in) IN
     /\ seq' = IF in.id = 0 THEN s.id ELSE seq
     /\ births' = IF in.id = 0 THEN births + 1 ELSE births
     /\ disk' = [disk EXCEPT !.bodies = Put(@, s.id, s.of)]
     /\ call' = [op |-> "save", id |-> s.id, s |-> s]
  /\ UNCHANGED <<scripts, apps, hist, launch, crashes, torn>>

SaveIndex ==
  /\ call.op = "save"
  /\ scripts' = Put(scripts, call.s.id, call.s)
  /\ disk' = [disk EXCEPT !.scripts = scripts']
  /\ call' = Idle
  /\ UNCHANGED <<seq, apps, hist, imports, launch, births, calls, crashes, torn>>

\* The editor creates a script, or saves the one it shows with an edited body
\* or with the user's trust.
SaveFridaScript ==
  /\ Enter
  /\ \E id \in {0} \cup DOMAIN scripts, b \in Bodies, t \in BOOLEAN :
       SaveScript([id |-> id, slug |-> "local", of |-> b, trusted |-> t, born |-> 0])
  /\ UNCHANGED imports

\* First lock section of ImportCodeshare: is the project in the library?
ImportCodeshare ==
  /\ Enter
  /\ \E slug \in Slugs, b \in Bodies :
       \E id \in IF \E i \in DOMAIN scripts : scripts[i].slug = slug
                 THEN {i \in DOMAIN scripts : scripts[i].slug = slug} ELSE {0} :
         imports' = imports \cup {[id |-> id, slug |-> slug, of |-> b, trusted |-> FALSE, born |-> 0]}
  /\ UNCHANGED <<scripts, seq, apps, hist, disk, call, launch, births, crashes, torn>>

\* The second one; a script deleted between the two makes the import fail.
ImportSave ==
  /\ call = Idle
  /\ \E in \in imports :
       /\ imports' = imports \ {in}
       /\ IF in.id # 0 /\ in.id \notin DOMAIN scripts
          THEN UNCHANGED <<scripts, seq, apps, hist, disk, call, launch, births, crashes, torn>>
          ELSE SaveScript(in)
  /\ UNCHANGED calls

---------------------------------------------------------------------------
(* DeleteScript                                                            *)

\* the loop over a binding's ids: kept[n] is what it keeps of the first n
Without(ids, id) ==
  LET kept[n \in 0 .. Len(ids)] ==
        IF n = 0 THEN <<>>
        ELSE IF ids[n] # id THEN Append(kept[n - 1], ids[n]) ELSE kept[n - 1]
  IN kept[Len(ids)]

\* `kept := b.ScriptIDs[:0]` compacts the binding's array in place: a launch
\* that read the same array sees its head overwritten and its tail left.
Overwritten(ids, kept) == kept \o SubSeq(ids, Len(kept) + 1, Len(ids))

DeleteScript ==
  /\ Enter
  /\ \E id \in DOMAIN scripts :
       LET hit == {p \in DOMAIN apps : id \in ToSet(apps[p])} IN
       /\ scripts' = Drop(scripts, {id})
       /\ disk' = [disk EXCEPT !.bodies = Drop(@, {id})]
       /\ apps' = [p \in DOMAIN apps |-> Without(apps[p], id)]
       /\ launch' = IF launch.at # "none" /\ launch.shares /\ launch.app \in hit
                    THEN [launch EXCEPT !.ids = Overwritten(@, apps'[launch.app])] ELSE launch
       /\ call' = [op |-> IF hit # {} THEN "detach" ELSE "unlist", id |-> id]
  /\ UNCHANGED <<seq, hist, imports, births, crashes, torn>>

\* its slip: only the index of the scripts is written
DeleteForgetsApps ==
  /\ call.op = "detach"
  /\ disk' = [disk EXCEPT !.scripts = scripts]
  /\ call' = [call EXCEPT !.op = "unlist"]
  /\ UNCHANGED <<scripts, seq, apps, hist, imports, launch, births, calls, crashes, torn>>

\* saveAppScripts, before the index
DeleteDetach ==
  /\ call.op = "detach"
  /\ disk' = [disk EXCEPT !.apps = apps]
  /\ call' = [call EXCEPT !.op = "unlist"]
  /\ UNCHANGED <<scripts, seq, apps, hist, imports, launch, births, calls, crashes, torn>>

DeleteUnlist ==
  /\ call.op = "unlist"
  /\ disk' = [disk EXCEPT !.scripts = scripts]
  /\ call' = Idle
  /\ UNCHANGED <<scripts, seq, apps, hist, imports, launch, births, calls, crashes, torn>>

---------------------------------------------------------------------------
(* Bindings and recents                                                    *)

\* A package's binding is replaced by a new array; an empty one is forgotten.
SetAppScripts ==
  /\ Enter
  /\ \E p \in Apps, ids \in {s \in SeqOf(DOMAIN scripts, MaxIds) : IsInjective(s)} :
       /\ apps' = IF ids = <<>> THEN Drop(apps, {p}) ELSE Put(apps, p, ids)
       /\ launch' = IF launch.at # "none" /\ launch.app = p
                    THEN [launch EXCEPT !.shares = FALSE] ELSE launch
  /\ disk' = [disk EXCEPT !.apps = apps']
  /\ UNCHANGED <<scripts, seq, hist, call, imports, births, crashes, torn>>

Others(h, p) == SelectSeq(h, LAMBDA e : e.app # p)
Count(h, p) == LET old == SelectSeq(h, LAMBDA e : e.app = p) IN IF old = <<>> THEN 0 ELSE old[1].count

\* the newest first, one entry per package, at most HistoryMax of them
Recorded(h, p) ==
  LET all == <<[app |-> p, count |-> Count(h, p) + 1]>> \o Others(h, p)
  IN SubSeq(all, 1, IF Len(all) > HistoryMax THEN HistoryMax ELSE Len(all))

RemoveHistory ==
  /\ Enter
  /\ \E p \in {e.app : e \in ToSet(hist)} : hist' = Others(hist, p)
  /\ disk' = [disk EXCEPT !.hist = hist']
  /\ UNCHANGED <<scripts, seq, apps, call, imports, launch, births, crashes, torn>>

---------------------------------------------------------------------------
(* StartAppWithFrida: the binding is read first, the scripts minutes later *)

StartAppWithFrida ==
  /\ call = Idle /\ launch.at = "none"
  /\ \E p \in DOMAIN apps :
       launch' = [at |-> "prepare", app |-> p, ids |-> apps[p], shares |-> TRUE, loaded |-> <<>>,
                  bound |-> [i \in DOMAIN apps[p] |-> scripts[apps[p][i]].born]]
  /\ UNCHANGED <<scripts, seq, apps, hist, disk, call, imports, births, calls, crashes, torn>>

\* its slip: a script that is gone is passed over
CollectSkips ==
  /\ launch.at = "prepare" /\ call = Idle
  /\ LET n == Len(launch.loaded) + 1 IN
     /\ n <= Len(launch.ids)
     /\ launch' = IF launch.ids[n] \in DOMAIN scripts
                  THEN [launch EXCEPT !.loaded = Append(@, scripts[launch.ids[n]])]
                  ELSE [launch EXCEPT !.ids = Without(@, launch.ids[n])]
  /\ UNCHANGED <<scripts, seq, apps, hist, disk, call, imports, births, calls, crashes, torn>>

\* collectScripts, one GetScript at a time; a missing one ends the launch.
CollectScript ==
  /\ launch.at = "prepare" /\ call = Idle
  /\ LET n == Len(launch.loaded) + 1 IN
     /\ n <= Len(launch.ids)
     /\ launch' = IF launch.ids[n] \in DOMAIN scripts
                  THEN [launch EXCEPT !.loaded = Append(@, scripts[launch.ids[n]])] ELSE NoLaunch
  /\ UNCHANGED <<scripts, seq, apps, hist, disk, call, imports, births, calls, crashes, torn>>

\* every script is there: the session starts and the launch is recorded
RecordHistory ==
  /\ launch.at = "prepare" /\ call = Idle /\ Len(launch.loaded) = Len(launch.ids)
  /\ hist' = Recorded(hist, launch.app)
  /\ disk' = [disk EXCEPT !.hist = hist']
  /\ launch' = [launch EXCEPT !.at = "running"]
  /\ UNCHANGED <<scripts, seq, apps, call, imports, births, calls, crashes, torn>>

---------------------------------------------------------------------------
(* A crash between two writes, and initScripts of the next run             *)

Highest(S) == IF S = {} THEN 0 ELSE CHOOSE n \in S : \A k \in S : k <= n

Crash ==
  /\ crashes < MaxCrashes /\ crashes' = crashes + 1
  /\ scripts' = disk.scripts /\ apps' = disk.apps /\ hist' = disk.hist
  /\ seq' = Highest(DOMAIN disk.scripts)
  /\ call' = Idle /\ imports' = {} /\ launch' = NoLaunch
  /\ torn' = torn \cup (IF call = Idle THEN {} ELSE {call.id})
  /\ UNCHANGED <<disk, births, calls>>

Next ==
  \/ SaveFridaScript \/ SaveIndex \/ ImportCodeshare \/ ImportSave
  \/ DeleteScript \/ DeleteDetach \/ DeleteUnlist
  \/ SetAppScripts \/ RemoveHistory
  \/ StartAppWithFrida \/ CollectScript \/ RecordHistory
  \/ Crash

Spec == Init /\ [][Next]_vars

---------------------------------------------------------------------------
TypeOK ==
  /\ DOMAIN scripts \subseteq 1 .. seq
  /\ \A i \in DOMAIN scripts : scripts[i].id = i /\ scripts[i].born \in 1 .. births
  /\ \A p \in DOMAIN apps : p \in Apps /\ ToSet(apps[p]) \subseteq 1 .. seq
  /\ call.op \in {"none", "save", "detach", "unlist"}
  /\ launch.at \in {"none", "prepare", "running"}

\* Between two calls a binding names scripts of the library (no crash between
\* the writes of a deletion lets a later script take a deleted one's id and be
\* run in its place), and a script's metadata, what the user trusts among it, is
\* about the body on disk, unless a crash came between body and index.
LibraryHolds ==
  call = Idle =>
    /\ \A p \in DOMAIN apps : ToSet(apps[p]) \subseteq DOMAIN scripts
    /\ \A i \in DOMAIN scripts \ torn : i \in DOMAIN disk.bodies /\ disk.bodies[i] = scripts[i].of

\* A launch that starts has loaded as many scripts as the binding it read, each
\* of them one of those: it never starts without one that is gone.
LaunchIsWhole ==
  launch.at = "running" =>
    /\ Len(launch.loaded) = Len(launch.bound)
    /\ {s.born : s \in ToSet(launch.loaded)} \subseteq ToSet(launch.bound)
===========================================================================
