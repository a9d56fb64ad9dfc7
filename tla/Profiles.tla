------------------------------ MODULE Profiles ------------------------------
(***************************************************************************)
(* The profiles and the devices bound to them (profiles.go,                *)
(* profiles_app.go): two JSON files, each written beside itself and        *)
(* renamed, under one lock; and the applying of a profile, step by step,   *)
(* at whose end the device is bound to it.                                 *)
(***************************************************************************)
EXTENDS Naturals, Sequences, FiniteSets, FiniteSetsExt, SequencesExt, Functions

CONSTANTS Keys,       \* the devices, by their stable keys
          Contents,   \* what a profile may enable: sets of steps
          Rooted,     \* the devices on which su answers
          MaxIds, MaxCalls, MaxCrashes, MaxFaults

VARIABLES
  profiles,  \* the store's profiles: id -> what it enables, and its birth
  bound,     \* the devices' records: key -> the id bound, 0 for none
  seq,       \* the last id given
  disk,      \* the two files
  todo,      \* the files a call that holds the lock has still to write
  temp,      \* a file written beside another one, and whether it is whole
  apply,     \* the profile being applied: a copy, what is left, what came of it
  saving,    \* the profile that the call holding the lock saves, 0 for none
  told,      \* history: the profiles whose saving a caller was told of
  born, calls, crashes, faults

vars == <<profiles, bound, seq, disk, todo, temp, apply, saving, told, born, calls, crashes, faults>>

Nothing == [f \in {} |-> 0]
Idle == [pc |-> "idle"]
NoTemp == [file |-> "none", whole |-> FALSE, what |-> Nothing]

Init == /\ profiles = Nothing /\ bound = Nothing /\ seq = 0
        /\ disk = [profiles |-> Nothing, devices |-> Nothing]
        /\ todo = <<>> /\ temp = NoTemp /\ apply = Idle
        /\ saving = 0 /\ told = Nothing
        /\ born = 0 /\ calls = 0 /\ crashes = 0 /\ faults = 0

-----------------------------------------------------------------------------
\* The file of a name, as the store holds it in memory.
Held(file) == IF file = "profiles" THEN profiles ELSE bound
Free == todo = <<>> /\ calls < MaxCalls /\ calls' = calls + 1
Still == UNCHANGED <<disk, temp, apply, crashes, faults>>

\* A profile of a new id, or one whose id is not in the store any more.
SaveProfile(id, steps) ==
  /\ Free /\ born < MaxIds
  /\ seq' = IF id = 0 THEN seq + 1 ELSE seq
  /\ LET its == IF id = 0 THEN seq' ELSE id
         birth == IF its \in DOMAIN profiles THEN profiles[its].birth ELSE born + 1
     IN  /\ profiles' = [i \in DOMAIN profiles \cup {its} |->
                           IF i = its THEN [steps |-> steps, birth |-> birth] ELSE profiles[i]]
         /\ born' = IF birth > born THEN birth ELSE born
         /\ saving' = its
  /\ todo' = <<"profiles">>
  /\ UNCHANGED <<bound, told>> /\ Still

Forgets(id) ==
  /\ told' = Restrict(told, DOMAIN told \ {id})
  /\ saving' = 0

\* A slip: the devices' file is left as it was.
DeleteForgetsDevices(id) ==
  /\ Free
  /\ profiles' = Restrict(profiles, DOMAIN profiles \ {id})
  /\ bound' = [k \in DOMAIN bound |-> IF bound[k] = id THEN 0 ELSE bound[k]]
  /\ todo' = <<"profiles">> /\ Forgets(id)
  /\ UNCHANGED <<seq, born>> /\ Still

DeleteProfile(id) ==
  /\ Free
  /\ profiles' = Restrict(profiles, DOMAIN profiles \ {id})
  /\ bound' = [k \in DOMAIN bound |-> IF bound[k] = id THEN 0 ELSE bound[k]]
  /\ todo' = <<"profiles", "devices">> /\ Forgets(id)
  /\ UNCHANGED <<seq, born>> /\ Still

\* A device is seen: its record is made, or keeps its binding.
UpsertDeviceSeen(k) ==
  /\ Free
  /\ bound' = [d \in DOMAIN bound \cup {k} |-> IF d \in DOMAIN bound THEN bound[d] ELSE 0]
  /\ todo' = <<"devices">> /\ saving' = 0
  /\ UNCHANGED <<profiles, seq, born, told>> /\ Still

\* No look at whether there is such a profile.
Binds(k, id) ==
  /\ bound' = [d \in DOMAIN bound \cup {k} |-> IF d = k THEN id ELSE bound[d]]
  /\ todo' = <<"devices">> /\ saving' = 0
  /\ UNCHANGED <<profiles, seq, born, told>>
BindProfile(k, id) == Free /\ Binds(k, id) /\ Still

-----------------------------------------------------------------------------
\* A slip: the file is opened itself, and is empty until it is filled.
WriteInPlace ==
  /\ todo # <<>> /\ temp = NoTemp
  /\ temp' = [file |-> Head(todo), whole |-> FALSE, what |-> Held(Head(todo))]
  /\ disk' = [disk EXCEPT ![Head(todo)] = Nothing]
  /\ UNCHANGED <<profiles, bound, seq, todo, apply, saving, told, born, calls, crashes, faults>>
\* atomicWriteJSON, a call that holds the lock.
WriteTemp ==
  /\ todo # <<>> /\ temp = NoTemp
  /\ temp' = [file |-> Head(todo), whole |-> FALSE, what |-> Held(Head(todo))]
  /\ UNCHANGED <<profiles, bound, seq, disk, todo, apply, saving, told, born, calls, crashes, faults>>

FillTemp ==
  /\ temp # NoTemp /\ ~temp.whole /\ temp' = [temp EXCEPT !.whole = TRUE]
  /\ UNCHANGED <<profiles, bound, seq, disk, todo, apply, saving, told, born, calls, crashes, faults>>


\* The caller is told once the last of its files is in place.
Rename ==
  /\ temp # NoTemp /\ temp.whole /\ temp' = NoTemp
  /\ disk' = [disk EXCEPT ![temp.file] = temp.what]
  /\ todo' = Tail(todo)
  /\ told' = IF saving = 0 THEN told
              ELSE [i \in DOMAIN told \cup {saving} |-> IF i = saving THEN profiles[i].birth ELSE told[i]]
  /\ UNCHANGED <<profiles, bound, seq, apply, saving, born, calls, crashes, faults>>

\* The disk refuses: the call returns, and its second file is not written. What it
\* changed in memory stays.
SaveFails ==
  /\ todo # <<>> /\ faults < MaxFaults /\ faults' = faults + 1
  /\ temp' = NoTemp /\ todo' = <<>>
  /\ UNCHANGED <<profiles, bound, seq, disk, apply, saving, told, born, calls, crashes>>

\* The store is read; the ids go on from the highest that is left.
Restart ==
  /\ crashes < MaxCrashes /\ crashes' = crashes + 1
  /\ profiles' = disk.profiles /\ bound' = disk.devices
  /\ seq' = Max(DOMAIN disk.profiles \cup {0})
  /\ todo' = <<>> /\ temp' = NoTemp /\ apply' = Idle
  /\ saving' = 0
  /\ UNCHANGED <<disk, told, born, calls, faults>>

-----------------------------------------------------------------------------
\* Network last.
Order == <<"iptables", "hosts", "cert", "frida", "forwards", "proxy">>
NeedsRoot == {"iptables", "hosts"}

ApplyProfile(k, id) ==
  /\ apply = Idle /\ id \in DOMAIN profiles /\ calls < MaxCalls /\ calls' = calls + 1
  /\ apply' = [pc |-> "steps", key |-> k, id |-> id,
               left |-> SelectSeq(Order, LAMBDA s : s \in profiles[id].steps), done |-> {}]
  /\ UNCHANGED <<profiles, bound, seq, disk, todo, temp, saving, told, born, crashes, faults>>

\* One step after another, whatever came of those before it.
Step(status) ==
  /\ apply # Idle /\ apply.left # <<>>
  /\ (status = "skip") <=> (Head(apply.left) \in NeedsRoot /\ apply.key \notin Rooted)
  /\ apply' = [apply EXCEPT !.left = Tail(@), !.done = @ \cup {status}]
  /\ UNCHANGED <<profiles, bound, seq, disk, todo, temp, saving, told, born, calls, crashes, faults>>

\* A profile that did nothing useful is not adopted.
Adopts == "ok" \in apply.done \/ apply.done = {}
Adopt ==
  /\ apply # Idle /\ apply.left = <<>> /\ todo = <<>>
  /\ IF Adopts THEN Binds(apply.key, apply.id)
               ELSE UNCHANGED <<profiles, bound, seq, todo, saving, told, born>>
  /\ apply' = Idle
  /\ UNCHANGED <<disk, temp, calls, crashes, faults>>

Next == \/ \E steps \in Contents, id \in 0 .. seq : SaveProfile(id, steps)
        \/ \E id \in DOMAIN profiles : DeleteProfile(id)
        \/ \E k \in Keys : UpsertDeviceSeen(k)
        \/ \E k \in Keys, id \in DOMAIN profiles \cup {0} : BindProfile(k, id)
        \/ \E k \in Keys, id \in DOMAIN profiles : ApplyProfile(k, id)
        \/ WriteTemp \/ FillTemp \/ Rename \/ SaveFails \/ Restart
        \/ \E status \in {"ok", "skip", "err"} : Step(status)
        \/ Adopt

Spec == Init /\ [][Next]_vars

-----------------------------------------------------------------------------
\* What the user was told is kept is there after any crash, as it was saved or as
\* it was saved since, until it is deleted; and when no call is under way and the
\* disk has refused nothing, the two files say what the store does.
NothingLost ==
  /\ \A id \in DOMAIN told : id \in DOMAIN profiles /\ profiles[id].birth = told[id]
  /\ todo = <<>> /\ faults = 0 => disk = [profiles |-> profiles, devices |-> bound]
=============================================================================
