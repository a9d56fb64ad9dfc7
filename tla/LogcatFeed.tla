----------------------------- MODULE LogcatFeed -----------------------------
(***************************************************************************)
(* The life cycle of one device's logcat feeds: the bindings that replace  *)
(* and stop a feed under lcMu (app.go), the goroutines of each feed        *)
(* (logcat_feed.go) and the adb processes they own (internal/adb/          *)
(* logcat.go).                                                             *)
(*                                                                         *)
(* Feeds and streams are numbered in the order they are created; 0 is the  *)
(* nil pointer.  A feed has three goroutines that may swap its stream by   *)
(* calling attach: the binding that starts it, pollProcs, and the recovery *)
(* of a stream that ended.  Attach talks to the device, so every one of    *)
(* its steps interleaves with everything else.                             *)
(*                                                                         *)
(* What the lines say is left to LogcatBatch: here a feed merely "speaks"  *)
(* on the event it shares with its successors.                             *)
(***************************************************************************)
EXTENDS Naturals

CONSTANTS
  Calls,       \* binding goroutines that may hold lcMu
  NoCall,      \* lcMu is free
  Filters,     \* filters the UI asks for: "all" (whole device), "app"
  MaxFeeds,    \* bound: feeds ever created
  MaxStreams,  \* bound: adb processes ever spawned
  MaxPid,      \* bound: times the filtered app starts
  Delays       \* Len(reconnectDelays)

ASSUME NoCallAssumption == NoCall \notin Calls
ASSUME FiltersAssumption == Filters \subseteq {"all", "app"}
ASSUME BoundsAssumption ==
  /\ MaxFeeds \in Nat
  /\ MaxStreams \in Nat
  /\ MaxPid \in Nat
  /\ Delays \in Nat

VARIABLES
  \* App
  holder,     \* who holds lcMu
  logcats,    \* the feed registered for the device, 0 if none
  callPc, callFilter, callFeed, callStream,   \* one binding per call
  \* logcatFeed
  nextFeed, filter, cancelled, dead, cur, lastPid, procs, batch, poll,
  \* LogcatStream, its forwarder and the recovery it may start
  nextStream, owner, proc, reason, fwd, tries,
  \* attach, one activation per goroutine that may call it
  att,
  \* the device and the pane
  appPid, nextPid, lines, notices

callVars   == <<holder, logcats, callPc, callFilter, callFeed, callStream>>
feedVars   == <<nextFeed, filter, cancelled, dead, cur, lastPid, procs, batch, poll>>
streamVars == <<nextStream, owner, proc, reason, fwd, tries>>
appVars    == <<appPid, nextPid>>
paneVars   == <<lines, notices>>
vars == <<callVars, feedVars, streamVars, att, appVars, paneVars>>

Feeds   == 1 .. MaxFeeds
Streams == 1 .. MaxStreams
Pids    == 0 .. MaxPid          \* 0: whole device, or not running

\* The goroutines that call attach.
Attachers == ({"start", "poll"} \X Feeds) \cup ({"rec"} \X Streams)
FeedOf(a) == IF a[1] = "rec" THEN owner[a[2]] ELSE a[2]

Idle == [pc |-> "off", pid |-> 0, new |-> 0, old |-> 0]
Attach(p) == [pc |-> "spawn", pid |-> p, new |-> 0, old |-> 0]

Created(f)  == f \in Feeds /\ f < nextFeed
Spawned(s)  == s \in Streams /\ s < nextStream

\* Process.Kill on a stream's adb client: it exits some time later.
Kill(p, s) == IF s # 0 /\ p[s] = "up" THEN [p EXCEPT ![s] = "killed"] ELSE p

\* pidForPackage: the last ps snapshot if it knows the package, else pidof,
\* which answers 0 for an app that is not running and for a failed probe.
PidForPackage(f) == IF procs[f] # 0 THEN {procs[f]} ELSE {appPid, 0}

-----------------------------------------------------------------------------
(* Bindings: EnsureLogcat, StopLogcat.                                     *)

Init ==
  /\ holder = NoCall
  /\ logcats = 0
  /\ callPc = [c \in Calls |-> "idle"]
  /\ callFilter = [c \in Calls |-> "none"]
  /\ callFeed = [c \in Calls |-> 0]
  /\ callStream = [c \in Calls |-> 0]
  /\ nextFeed = 1
  /\ filter = [f \in Feeds |-> "none"]
  /\ cancelled = [f \in Feeds |-> FALSE]
  /\ dead = [f \in Feeds |-> FALSE]
  /\ cur = [f \in Feeds |-> 0]
  /\ lastPid = [f \in Feeds |-> 0]
  /\ procs = [f \in Feeds |-> 0]
  /\ batch = [f \in Feeds |-> "off"]
  /\ poll = [f \in Feeds |-> "off"]
  /\ nextStream = 1
  /\ owner = [s \in Streams |-> 0]
  /\ proc = [s \in Streams |-> "none"]
  /\ reason = [s \in Streams |-> "transient"]
  /\ fwd = [s \in Streams |-> "off"]
  /\ tries = [s \in Streams |-> 0]
  /\ att = [a \in Attachers |-> Idle]
  /\ appPid = 0
  /\ nextPid = 1
  /\ lines = {}
  /\ notices = {}

\* Mutant: bindings that do not take lcMu.
NoMutex == TRUE

LockFree == holder = NoCall

\* A healthy feed with the same filter is left alone.
Healthy(f, p) == f # 0 /\ filter[f] = p /\ ~dead[f]

\* EnsureLogcat finds no healthy feed: stopLogcatFeed unregisters the old one.
EnsureBegin(c, p) ==
  /\ LockFree
  /\ callPc[c] = "idle"
  /\ ~Healthy(logcats, p)
  /\ nextFeed <= MaxFeeds
  /\ holder' = c
  /\ callFilter' = [callFilter EXCEPT ![c] = p]
  /\ callFeed' = [callFeed EXCEPT ![c] = logcats]
  /\ callPc' = [callPc EXCEPT ![c] = IF logcats # 0 THEN "cancel" ELSE "create"]
  /\ logcats' = 0
  /\ UNCHANGED <<callStream, feedVars, streamVars, att, appVars, paneVars>>

\* StopLogcat, and shutdown, which does the same for every feed.
StopBegin(c) ==
  /\ LockFree
  /\ callPc[c] = "idle"
  /\ logcats # 0
  /\ holder' = c
  /\ callFilter' = [callFilter EXCEPT ![c] = "none"]
  /\ callFeed' = [callFeed EXCEPT ![c] = logcats]
  /\ callPc' = [callPc EXCEPT ![c] = "cancel"]
  /\ logcats' = 0
  /\ UNCHANGED <<callStream, feedVars, streamVars, att, appVars, paneVars>>

\* Mutant: Stop forgets f.cancel().
StopCancelForgets(c) ==
  /\ callPc[c] = "cancel"
  /\ callPc' = [callPc EXCEPT ![c] = "take"]
  /\ UNCHANGED <<holder, logcats, callFilter, callFeed, callStream, feedVars,
                 streamVars, att, appVars, paneVars>>

\* logcatFeed.Stop: cancel the context ...
StopCancel(c) ==
  /\ callPc[c] = "cancel"
  /\ cancelled' = [cancelled EXCEPT ![callFeed[c]] = TRUE]
  /\ callPc' = [callPc EXCEPT ![c] = "take"]
  /\ UNCHANGED <<holder, logcats, callFilter, callFeed, callStream, nextFeed,
                 filter, dead, cur, lastPid, procs, batch, poll, streamVars,
                 att, appVars, paneVars>>

\* ... take the current stream and kill it ...
StopTake(c) ==
  /\ callPc[c] = "take"
  /\ callStream' = [callStream EXCEPT ![c] = cur[callFeed[c]]]
  /\ proc' = Kill(proc, cur[callFeed[c]])
  /\ cur' = [cur EXCEPT ![callFeed[c]] = 0]
  /\ callPc' = [callPc EXCEPT ![c] = "drain"]
  /\ UNCHANGED <<holder, logcats, callFilter, callFeed, nextFeed, filter,
                 cancelled, dead, lastPid, procs, batch, poll, nextStream,
                 owner, reason, fwd, tries, att, appVars, paneVars>>

\* Mutant: Stop returns without waiting for the batcher.
StopDrainNoWait(c) ==
  /\ callPc[c] = "drain"
  /\ callStream[c] # 0 => proc[callStream[c]] = "down"
  /\ callStream' = [callStream EXCEPT ![c] = 0]
  /\ callFeed' = [callFeed EXCEPT ![c] = 0]
  /\ IF callFilter[c] = "none"
       THEN /\ callPc' = [callPc EXCEPT ![c] = "idle"]
            /\ holder' = NoCall
       ELSE /\ callPc' = [callPc EXCEPT ![c] = "create"]
            /\ UNCHANGED holder
  /\ UNCHANGED <<logcats, callFilter, feedVars, streamVars, att, appVars, paneVars>>

\* ... and wait for its pump and for the batcher.
StopDrain(c) ==
  /\ callPc[c] = "drain"
  /\ callStream[c] # 0 => proc[callStream[c]] = "down"
  /\ batch[callFeed[c]] = "done"
  /\ callStream' = [callStream EXCEPT ![c] = 0]
  /\ callFeed' = [callFeed EXCEPT ![c] = 0]
  /\ IF callFilter[c] = "none"
       THEN /\ callPc' = [callPc EXCEPT ![c] = "idle"]
            /\ holder' = NoCall
       ELSE /\ callPc' = [callPc EXCEPT ![c] = "create"]
            /\ UNCHANGED holder
  /\ UNCHANGED <<logcats, callFilter, feedVars, streamVars, att, appVars, paneVars>>

\* startLogcatFeed: the first process snapshot, then the goroutines.
Create(c) ==
  /\ callPc[c] = "create"
  /\ nextFeed <= MaxFeeds
  /\ LET f == nextFeed IN
       /\ nextFeed' = f + 1
       /\ callFeed' = [callFeed EXCEPT ![c] = f]
       /\ filter' = [filter EXCEPT ![f] = callFilter[c]]
       /\ \E p \in {0, appPid} : procs' = [procs EXCEPT ![f] = p]
       /\ batch' = [batch EXCEPT ![f] = "run"]
       /\ poll' = [poll EXCEPT ![f] = "idle"]
       /\ IF callFilter[c] = "all"
            THEN /\ callPc' = [callPc EXCEPT ![c] = "attach"]
                 /\ att' = [att EXCEPT ![<<"start", f>>] = Attach(0)]
            ELSE /\ callPc' = [callPc EXCEPT ![c] = "resolve"]
                 /\ UNCHANGED att
  /\ UNCHANGED <<holder, logcats, callFilter, callStream, cancelled, dead, cur,
                 lastPid, streamVars, appVars, paneVars>>

\* startLogcatFeed under a package filter: attach to the app's pid, or start
\* nothing and leave it to pollProcs.
Register(c) ==
  /\ logcats' = callFeed[c]
  /\ holder' = NoCall
  /\ callPc' = [callPc EXCEPT ![c] = "idle"]
  /\ callFilter' = [callFilter EXCEPT ![c] = "none"]
  /\ callFeed' = [callFeed EXCEPT ![c] = 0]

Resolve(c) ==
  /\ callPc[c] = "resolve"
  /\ \E p \in PidForPackage(callFeed[c]) :
       IF p # 0
         THEN /\ att' = [att EXCEPT ![<<"start", callFeed[c]>>] = Attach(p)]
              /\ callPc' = [callPc EXCEPT ![c] = "attach"]
              /\ UNCHANGED <<holder, logcats, callFilter, callFeed, paneVars>>
         ELSE /\ Register(c)
              /\ lines' = {}       \* EnsureLogcat returned true: fresh pane
              /\ notices' = {}
              /\ UNCHANGED att
  /\ UNCHANGED <<callStream, feedVars, streamVars, appVars>>

\* Mutant: the error path of startLogcatFeed forgets cancel().
StartedLeaks(c) ==
  /\ callPc[c] = "attach"
  /\ LET a == <<"start", callFeed[c]>> IN
       /\ att[a].pc \in {"ok", "err"}
       /\ att' = [att EXCEPT ![a] = Idle]
       /\ IF att[a].pc = "ok"
            THEN Register(c) /\ lines' = {} /\ notices' = {}
            ELSE /\ holder' = NoCall
                 /\ callPc' = [callPc EXCEPT ![c] = "idle"]
                 /\ callFilter' = [callFilter EXCEPT ![c] = "none"]
                 /\ callFeed' = [callFeed EXCEPT ![c] = 0]
                 /\ UNCHANGED <<logcats, paneVars>>
  /\ UNCHANGED <<callStream, feedVars, streamVars, appVars>>

\* The start's attach returned.  On an error the feed is cancelled, never
\* registered; otherwise it is, and the UI empties its pane.
Started(c) ==
  /\ callPc[c] = "attach"
  /\ LET a == <<"start", callFeed[c]>> IN
       /\ att[a].pc \in {"ok", "err"}
       /\ att' = [att EXCEPT ![a] = Idle]
       /\ IF att[a].pc = "ok"
            THEN /\ Register(c)
                 /\ lines' = {}
                 /\ notices' = {}
                 /\ UNCHANGED cancelled
            ELSE /\ cancelled' = [cancelled EXCEPT ![callFeed[c]] = TRUE]
                 /\ holder' = NoCall
                 /\ callPc' = [callPc EXCEPT ![c] = "idle"]
                 /\ callFilter' = [callFilter EXCEPT ![c] = "none"]
                 /\ callFeed' = [callFeed EXCEPT ![c] = 0]
                 /\ UNCHANGED <<logcats, paneVars>>
  /\ UNCHANGED <<callStream, nextFeed, filter, dead, cur, lastPid, procs,
                 batch, poll, streamVars, appVars>>

-----------------------------------------------------------------------------
(* attach, by any of the goroutines that call it.                          *)

\* StartLogcat spawned the adb client.  exec refuses a context that is done.
Spawn(a) ==
  /\ att[a].pc = "spawn"
  /\ nextStream <= MaxStreams
  /\ ~cancelled[FeedOf(a)]
  /\ nextStream' = nextStream + 1
  /\ owner' = [owner EXCEPT ![nextStream] = FeedOf(a)]
  /\ proc' = [proc EXCEPT ![nextStream] = "up"]
  /\ att' = [att EXCEPT ![a].pc = "check", ![a].new = nextStream]
  /\ UNCHANGED <<callVars, feedVars, reason, fwd, tries, appVars, paneVars>>

\* No adb binary, or the context is already done.
SpawnFail(a) ==
  /\ att[a].pc = "spawn"
  /\ att' = [att EXCEPT ![a].pc = "err"]
  /\ UNCHANGED <<callVars, feedVars, streamVars, appVars, paneVars>>

\* "The feed may have been stopped while we were away": retire the newcomer.
Check(a) ==
  /\ att[a].pc = "check"
  /\ IF cancelled[FeedOf(a)]
       THEN /\ att' = [att EXCEPT ![a].pc = "abort"]
            /\ proc' = Kill(proc, att[a].new)
       ELSE /\ att' = [att EXCEPT ![a].pc = "install"]
            /\ UNCHANGED proc
  /\ UNCHANGED <<callVars, feedVars, nextStream, owner, reason, fwd, tries, appVars, paneVars>>

Abort(a) ==
  /\ att[a].pc = "abort"
  /\ proc[att[a].new] = "down"
  /\ att' = [att EXCEPT ![a].pc = "err", ![a].new = 0]
  /\ UNCHANGED <<callVars, feedVars, streamVars, appVars, paneVars>>

\* Mutant: the replaced stream is not stopped.
InstallKeepsOld(a) ==
  /\ att[a].pc = "install"
  /\ LET f == FeedOf(a)
         s == att[a].new
     IN /\ cur' = [cur EXCEPT ![f] = s]
        /\ lastPid' = [lastPid EXCEPT ![f] = att[a].pid]
        /\ att' = [att EXCEPT ![a].pc = "ok", ![a].new = 0]
        /\ fwd' = [fwd EXCEPT ![s] = "reading"]
  /\ UNCHANGED <<callVars, nextFeed, filter, cancelled, dead, procs, batch,
                 poll, nextStream, owner, proc, reason, tries, appVars, paneVars>>

\* Swap the stream under f.mu, and stop the one it replaces.
Install(a) ==
  /\ att[a].pc = "install"
  /\ LET f == FeedOf(a)
         s == att[a].new
     IN /\ cur' = [cur EXCEPT ![f] = s]
        /\ lastPid' = [lastPid EXCEPT ![f] = att[a].pid]
        /\ proc' = Kill(proc, cur[f])
        /\ IF cur[f] # 0
             THEN /\ att' = [att EXCEPT ![a].pc = "retire", ![a].old = cur[f]]
                  /\ UNCHANGED fwd
             ELSE /\ att' = [att EXCEPT ![a].pc = "ok", ![a].new = 0]
                  /\ fwd' = [fwd EXCEPT ![s] = "reading"]
  /\ UNCHANGED <<callVars, nextFeed, filter, cancelled, dead, procs, batch,
                 poll, nextStream, owner, reason, tries, appVars, paneVars>>

\* The replaced stream's pump ended: start forwarding the new one.
Retire(a) ==
  /\ att[a].pc = "retire"
  /\ proc[att[a].old] = "down"
  /\ fwd' = [fwd EXCEPT ![att[a].new] = "reading"]
  /\ att' = [att EXCEPT ![a].pc = "ok", ![a].new = 0, ![a].old = 0]
  /\ UNCHANGED <<callVars, feedVars, nextStream, owner, proc, reason, tries,
                 appVars, paneVars>>

-----------------------------------------------------------------------------
(* The adb client, its forwarder, and the recovery of a stream that ended. *)

\* The client exits: on its own at any time, or because it was killed.  A
\* killed client's diagnostic is suppressed, which reads as transient.
Exit(s) ==
  /\ proc[s] \in {"up", "killed"}
  /\ \E r \in IF proc[s] = "up" THEN {"transient", "permanent"} ELSE {"transient"} :
       reason' = [reason EXCEPT ![s] = r]
  /\ proc' = [proc EXCEPT ![s] = "down"]
  /\ UNCHANGED <<callVars, feedVars, nextStream, owner, fwd, tries,
                 att, appVars, paneVars>>

\* Mutant: a done context kills no client.
CtxKillNever(s) == FALSE

\* exec.CommandContext kills the client once the feed's context is done.
CtxKill(s) ==
  /\ proc[s] = "up"
  /\ cancelled[owner[s]]
  /\ proc' = [proc EXCEPT ![s] = "killed"]
  /\ UNCHANGED <<callVars, feedVars, nextStream, owner, reason, fwd, tries, att, appVars, paneVars>>

\* forward: the stream's lines are over.  A swapped or stopped stream is
\* nobody's business; otherwise recover, or give up on a permanent reason.
ForwardEnd(s) ==
  /\ fwd[s] = "reading"
  /\ proc[s] = "down"
  /\ LET f == owner[s] IN
       IF cur[f] # s \/ cancelled[f]
         THEN fwd' = [fwd EXCEPT ![s] = "done"]
         ELSE fwd' = [fwd EXCEPT ![s] =
                        IF reason[s] = "permanent" \/ Delays = 0 THEN "fail" ELSE "wait"]
  /\ UNCHANGED <<callVars, feedVars, nextStream, owner, proc, reason, tries,
                 att, appVars, paneVars>>

\* recover, while it sleeps: the context wins ...
RecoverCancelled(s) ==
  /\ fwd[s] = "wait"
  /\ cancelled[owner[s]]
  /\ fwd' = [fwd EXCEPT ![s] = "done"]
  /\ tries' = [tries EXCEPT ![s] = 0]
  /\ UNCHANGED <<callVars, feedVars, nextStream, owner, proc, reason, att,
                 appVars, paneVars>>

\* ... or the timer does, even when both are ready.  Under a package filter
\* the pid is resolved again first; otherwise it is still 0, whole device.
RecoverTimer(s) ==
  /\ fwd[s] = "wait"
  /\ IF filter[owner[s]] = "app"
       THEN /\ fwd' = [fwd EXCEPT ![s] = "probe"]
            /\ UNCHANGED att
       ELSE /\ fwd' = [fwd EXCEPT ![s] = "attach"]
            /\ att' = [att EXCEPT ![<<"rec", s>>] = Attach(lastPid[owner[s]])]
  /\ UNCHANGED <<callVars, feedVars, nextStream, owner, proc, reason, tries,
                 appVars, paneVars>>

\* Mutant: one attempt too many.
NextTryOneMore(s) ==
  LET last == tries[s] > Delays IN
    /\ fwd' = [fwd EXCEPT ![s] = IF last THEN "fail" ELSE "wait"]
    /\ tries' = [tries EXCEPT ![s] = IF last THEN 0 ELSE @ + 1]

\* The attempt led nowhere: sleep again, or fail after the last delay.
NextTry(s) ==
  LET last == tries[s] + 1 >= Delays IN
    /\ fwd' = [fwd EXCEPT ![s] = IF last THEN "fail" ELSE "wait"]
    /\ tries' = [tries EXCEPT ![s] = IF last THEN 0 ELSE @ + 1]

RecoverProbe(s) ==
  /\ fwd[s] = "probe"
  /\ \E p \in PidForPackage(owner[s]) :
       IF p = 0
         THEN NextTry(s) /\ UNCHANGED att
         ELSE /\ fwd' = [fwd EXCEPT ![s] = "attach"]
              /\ att' = [att EXCEPT ![<<"rec", s>>] = Attach(p)]
              /\ UNCHANGED tries
  /\ UNCHANGED <<callVars, feedVars, nextStream, owner, proc, reason,
                 appVars, paneVars>>

\* attach returned: announce the reconnection, or try again.
RecoverAttached(s) ==
  /\ fwd[s] = "attach"
  /\ LET a == <<"rec", s>> IN
       /\ att[a].pc \in {"ok", "err"}
       /\ att' = [att EXCEPT ![a] = Idle]
       /\ IF att[a].pc = "ok"
            THEN /\ fwd' = [fwd EXCEPT ![s] = "done"]
                 /\ tries' = [tries EXCEPT ![s] = 0]
                 /\ notices' = notices \cup {owner[s]}
            ELSE NextTry(s) /\ UNCHANGED notices
  /\ UNCHANGED <<callVars, feedVars, nextStream, owner, proc, reason,
                 appVars, lines>>

\* Mutant: giving up without marking the feed dead.
RecoverFailSilent(s) ==
  /\ fwd[s] = "fail"
  /\ fwd' = [fwd EXCEPT ![s] = "done"]
  /\ notices' = notices \cup {owner[s]}
  /\ UNCHANGED <<callVars, feedVars, nextStream, owner, proc, reason, tries,
                 att, appVars, lines>>

\* fail: mark the feed dead and say why.
RecoverFail(s) ==
  /\ fwd[s] = "fail"
  /\ fwd' = [fwd EXCEPT ![s] = "done"]
  /\ dead' = [dead EXCEPT ![owner[s]] = TRUE]
  /\ notices' = notices \cup {owner[s]}
  /\ UNCHANGED <<callVars, nextFeed, filter, cancelled, cur, lastPid, procs,
                 batch, poll, nextStream, owner, proc, reason, tries,
                 att, appVars, lines>>

-----------------------------------------------------------------------------
(* pollProcs.  Without a package filter it only refreshes the table that   *)
(* classifies lines, which LogcatBatch models.                             *)

PollTick(f) ==
  /\ poll[f] = "idle"
  /\ filter[f] = "app"
  /\ ~dead[f]
  /\ poll' = [poll EXCEPT ![f] = "refresh"]
  /\ UNCHANGED <<callVars, nextFeed, filter, cancelled, dead, cur, lastPid,
                 procs, batch, streamVars, att, appVars, paneVars>>

PollExit(f) ==
  /\ poll[f] = "idle"
  /\ cancelled[f] \/ dead[f]
  /\ poll' = [poll EXCEPT ![f] = "done"]
  /\ UNCHANGED <<callVars, nextFeed, filter, cancelled, dead, cur, lastPid,
                 procs, batch, streamVars, att, appVars, paneVars>>

\* refreshProcs: a failed ps keeps the old table.
PollRefresh(f) ==
  /\ poll[f] = "refresh"
  /\ \E p \in {appPid, procs[f]} : procs' = [procs EXCEPT ![f] = p]
  /\ poll' = [poll EXCEPT ![f] = "follow"]
  /\ UNCHANGED <<callVars, nextFeed, filter, cancelled, dead, cur, lastPid,
                 batch, streamVars, att, appVars, paneVars>>

\* followPackage: re-point the stream when the app's pid changed.
PollFollow(f) ==
  /\ poll[f] = "follow"
  /\ \E p \in PidForPackage(f) :
       IF p = 0 \/ p = lastPid[f]
         THEN /\ poll' = [poll EXCEPT ![f] = "idle"]
              /\ UNCHANGED att
         ELSE /\ poll' = [poll EXCEPT ![f] = "attach"]
              /\ att' = [att EXCEPT ![<<"poll", f>>] = Attach(p)]
  /\ UNCHANGED <<callVars, nextFeed, filter, cancelled, dead, cur, lastPid,
                 procs, batch, streamVars, appVars, paneVars>>

PollAttached(f) ==
  /\ poll[f] = "attach"
  /\ att[<<"poll", f>>].pc \in {"ok", "err"}
  /\ att' = [att EXCEPT ![<<"poll", f>>] = Idle]
  /\ poll' = [poll EXCEPT ![f] = "idle"]
  /\ UNCHANGED <<callVars, nextFeed, filter, cancelled, dead, cur, lastPid,
                 procs, batch, streamVars, appVars, paneVars>>

-----------------------------------------------------------------------------
(* The batcher, the app, and the whole.                                    *)

\* batch flushes what a forwarder copied; with its context done it may still
\* pick a ready line or tick before it picks the context.
BatchEmit(f) ==
  /\ batch[f] = "run"
  /\ \E s \in Streams : owner[s] = f /\ fwd[s] = "reading"
  /\ lines' = lines \cup {f}
  /\ UNCHANGED <<callVars, feedVars, streamVars, att, appVars, notices>>

BatchDone(f) ==
  /\ batch[f] = "run"
  /\ cancelled[f]
  /\ batch' = [batch EXCEPT ![f] = "done"]
  /\ UNCHANGED <<callVars, nextFeed, filter, cancelled, dead, cur, lastPid,
                 procs, poll, streamVars, att, appVars, paneVars>>

AppStart ==
  /\ appPid = 0
  /\ nextPid <= MaxPid
  /\ appPid' = nextPid
  /\ nextPid' = nextPid + 1
  /\ UNCHANGED <<callVars, feedVars, streamVars, att, paneVars>>

AppExit ==
  /\ appPid # 0
  /\ appPid' = 0
  /\ UNCHANGED <<nextPid, callVars, feedVars, streamVars, att, paneVars>>

CallStep(c) == StopCancel(c) \/ StopTake(c) \/ StopDrain(c) \/ Create(c)
               \/ Resolve(c) \/ Started(c)
AttachStep(a) == Spawn(a) \/ SpawnFail(a) \/ Check(a) \/ Abort(a)
                 \/ Install(a) \/ Retire(a)
StreamStep(s) == CtxKill(s) \/ ForwardEnd(s) \/ RecoverCancelled(s)
                 \/ RecoverTimer(s) \/ RecoverProbe(s) \/ RecoverAttached(s)
                 \/ RecoverFail(s)
PollStep(f) == PollTick(f) \/ PollExit(f) \/ PollRefresh(f) \/ PollFollow(f)
               \/ PollAttached(f)

Next ==
  \/ \E c \in Calls : \/ \E p \in Filters : EnsureBegin(c, p)
                      \/ StopBegin(c)
                      \/ CallStep(c)
  \/ \E a \in Attachers : AttachStep(a)
  \/ \E s \in Streams : Exit(s) \/ StreamStep(s)
  \/ \E f \in Feeds : PollStep(f) \/ BatchEmit(f) \/ BatchDone(f)
  \/ AppStart
  \/ AppExit

Spec == Init /\ [][Next]_vars

\* The Go scheduler runs every goroutine, timers and tickers fire, and a killed
\* adb client exits.  Nothing obliges a healthy client to exit, the app to start,
\* a line to arrive or the UI to call.
Fairness ==
  /\ \A c \in Calls : WF_vars(CallStep(c))
  /\ \A a \in Attachers : WF_vars(AttachStep(a))
  /\ \A s \in Streams : /\ WF_vars(StreamStep(s))
                        /\ WF_vars(proc[s] = "killed" /\ Exit(s))
  /\ \A f \in Feeds : WF_vars(PollStep(f)) /\ WF_vars(BatchDone(f))

FairSpec == Spec /\ Fairness

-----------------------------------------------------------------------------
(* Properties.                                                             *)

\* Every variable has its type: who holds lcMu, which feed is registered, where
\* each binding, feed, stream and attach activation stands.
CallTypes ==
  /\ holder \in Calls \cup {NoCall}
  /\ logcats \in 0 .. MaxFeeds
  /\ callPc \in [Calls -> {"idle", "cancel", "take", "drain", "create", "resolve", "attach"}]
  /\ callFilter \in [Calls -> {"none", "all", "app"}]
  /\ callFeed \in [Calls -> 0 .. MaxFeeds]
  /\ callStream \in [Calls -> 0 .. MaxStreams]

FeedTypes ==
  /\ nextFeed \in 1 .. MaxFeeds + 1
  /\ filter \in [Feeds -> {"none", "all", "app"}]
  /\ cancelled \in [Feeds -> BOOLEAN]
  /\ dead \in [Feeds -> BOOLEAN]
  /\ cur \in [Feeds -> 0 .. MaxStreams]
  /\ lastPid \in [Feeds -> Pids]
  /\ procs \in [Feeds -> Pids]
  /\ batch \in [Feeds -> {"off", "run", "done"}]
  /\ poll \in [Feeds -> {"off", "idle", "refresh", "follow", "attach", "done"}]

StreamTypes ==
  /\ nextStream \in 1 .. MaxStreams + 1
  /\ owner \in [Streams -> 0 .. MaxFeeds]
  /\ proc \in [Streams -> {"none", "up", "killed", "down"}]
  /\ reason \in [Streams -> {"transient", "permanent"}]
  /\ fwd \in [Streams -> {"off", "reading", "wait", "probe", "attach", "fail", "done"}]
  /\ tries \in [Streams -> 0 .. Delays]

AttachTypes ==
  att \in [Attachers ->
    [pc : {"off", "spawn", "check", "abort", "install", "retire", "ok", "err"},
     pid : Pids, new : 0 .. MaxStreams, old : 0 .. MaxStreams]]

AppTypes ==
  /\ appPid \in Pids
  /\ nextPid \in 1 .. MaxPid + 1
  /\ lines \subseteq Feeds
  /\ notices \subseteq Feeds

TypeOK == CallTypes /\ FeedTypes /\ StreamTypes /\ AttachTypes /\ AppTypes

Alive(f) == Created(f) /\ ~cancelled[f]

\* However the UI's calls interleave, a device never has two feeds alive:
\* EnsureLogcat and StopLogcat stop the old one under lcMu before a new one is
\* created, and a feed that fails to start is cancelled, not forgotten.
OneLiveFeed == \A f, g \in Feeds : Alive(f) /\ Alive(g) => f = g

\* The feed EnsureLogcat registered is one nobody has cancelled, and while lcMu
\* is free no other feed is alive: a feed that is not registered can be reached
\* by no binding, so it would run for the rest of the session.
LiveIsRegistered ==
  /\ logcats # 0 => Alive(logcats)
  /\ LockFree => \A f \in Feeds : Alive(f) => f = logcats

\* attach never leaks an adb process: a client that runs for a live feed is the
\* feed's current stream, or some attach still holds it and will install or
\* stop it.  Three goroutines may be swapping the stream at once.
NoOrphanStream ==
  \A s \in Streams :
    proc[s] = "up" /\ ~cancelled[owner[s]] =>
      \/ cur[owner[s]] = s
      \/ \E a \in Attachers : att[a].new = s /\ att[a].pc \in {"check", "install"}

\* "Emitting its leftovers would drop lines from the previous filter into the
\* freshly cleared new view": once a call has returned, the pane holds lines of
\* the registered feed only.
LinesOfOneFeed == LockFree /\ logcats # 0 => lines \subseteq {logcats}

\* A pump that feeds the pane is never doubled: two clients of one live feed
\* are never forwarded at the same time, which would show every line twice.
NoDoubleForward ==
  \A s, t \in Streams :
    /\ fwd[s] = "reading" /\ fwd[t] = "reading"
    /\ proc[s] = "up" /\ proc[t] = "up"
    /\ owner[s] = owner[t] /\ ~cancelled[owner[s]]
    => s = t

\* Who answers for a stream once its client exits: its forwarder, the recovery that
\* forwarder starts, or the attach that is about to start the forwarder.
Answered(s) ==
  \/ fwd[s] \in {"reading", "wait", "probe", "attach", "fail"}
  \/ \E a \in Attachers : att[a].pc = "retire" /\ att[a].new = s

\* The registered feed is never silent for good: as long as it does not say that it is
\* dead, its current stream has somebody to notice its end, however the start, the poll
\* and a recovery swap streams; a feed of the whole device has a stream, and the one of
\* an application that is not running has the poll that waits for it.
NoSilentFeed ==
  \A f \in Feeds : f = logcats /\ ~dead[f] =>
    /\ cur[f] # 0 => Answered(cur[f])
    /\ filter[f] = "all" => cur[f] # 0
    /\ poll[f] \notin {"off", "done"}

\* The inductive invariant.  lcMu: a binding past its first step holds it, and
\* from there to its last step no feed is registered.
LockInv == \A c \in Calls : callPc[c] # "idle" => holder = c /\ logcats = 0

\* Where the feed a binding works on stands.
CallFeedInv ==
  /\ \A c \in Calls :
       /\ callPc[c] \in {"cancel", "take", "drain", "resolve", "attach"} => Created(callFeed[c])
       /\ callPc[c] \in {"take", "drain"} => cancelled[callFeed[c]]
       /\ callPc[c] \in {"resolve", "attach"} => ~cancelled[callFeed[c]]
  /\ \A f \in Feeds : cancelled[f] => Created(f)

\* Who answers for a live feed: the map, or the binding that starts or stops it.
FeedInv ==
  /\ logcats # 0 => Alive(logcats)
  /\ \A f \in Feeds : Alive(f) =>
       \/ f = logcats
       \/ \E c \in Calls : callFeed[c] = f /\ callPc[c] \in {"cancel", "resolve", "attach"}

\* An attach runs on behalf of the goroutine that waits for it.
AttachInv ==
  /\ \A f \in Feeds :
       /\ att[<<"start", f>>].pc # "off" =>
            \E c \in Calls : callPc[c] = "attach" /\ callFeed[c] = f
       /\ att[<<"poll", f>>].pc # "off" => poll[f] = "attach"
       /\ poll[f] # "off" => Created(f)
  /\ \A s \in Streams : att[<<"rec", s>>].pc # "off" => fwd[s] = "attach"

\* An attach that holds a stream is alone to hold it, for its own feed, and
\* nobody forwards that stream yet.
Holding == {"check", "abort", "install", "retire"}
StreamInv ==
  /\ \A s \in Streams :
       /\ proc[s] # "none" \/ fwd[s] # "off" => Spawned(s)
       /\ Spawned(s) => Created(owner[s])
  /\ \A a \in Attachers :
       IF att[a].pc \in Holding
         THEN /\ Spawned(att[a].new)
              /\ owner[att[a].new] = FeedOf(a)
              /\ fwd[att[a].new] = "off"
         ELSE att[a].new = 0
  /\ \A a, b \in Attachers : att[a].new = att[b].new /\ att[a].new # 0 => a = b

IInv == TypeOK /\ LockInv /\ CallFeedInv /\ FeedInv /\ AttachInv /\ StreamInv /\ NoOrphanStream

\* What NoSilentFeed needs of every feed, registered or not, of the bindings and of the
\* recoveries.
AnswerFeed(f) ==
  /\ cur[f] # 0 => Spawned(cur[f]) /\ owner[cur[f]] = f
  /\ cur[f] # 0 /\ Alive(f) /\ ~dead[f] => Answered(cur[f])
  /\ att[<<"start", f>>].pc \in {"retire", "ok"} /\ Alive(f) => cur[f] # 0
  /\ f = logcats /\ filter[f] = "all" => cur[f] # 0
  /\ Created(f) => poll[f] # "off"
  /\ poll[f] = "done" => cancelled[f] \/ dead[f]
AnswerCall(c) ==
  /\ callPc[c] = "create" => callFilter[c] # "none"
  /\ callPc[c] = "resolve" => filter[callFeed[c]] = "app"
AnswerRec(s) == att[<<"rec", s>>].pc \in {"retire", "ok"} => cur[owner[s]] # s

AnswerInv ==
  /\ \A f \in Feeds : AnswerFeed(f)
  /\ \A c \in Calls : AnswerCall(c)
  /\ \A s \in Streams : AnswerRec(s)

\* lcMu is always handed back: EnsureLogcat and StopLogcat wait for a batcher
\* and for killed clients, and neither can wait for the other for ever.
Released == \A c \in Calls : holder = c ~> holder # c

\* Stopping a feed stops its adb clients, those included that an attach was
\* spawning while the feed was cancelled.
StoppedFeedsEnd ==
  \A f \in Feeds : cancelled[f] ~>
    \A s \in Streams : owner[s] = f => proc[s] = "down"

\* A whole-device feed whose client exited does not sit there in silence: it
\* gets another client, or says it is dead, or is stopped.
SilenceResolved ==
  \A f \in Feeds :
    (logcats = f /\ filter[f] = "all" /\ cur[f] # 0 /\ proc[cur[f]] = "down")
      ~> (\/ dead[f] \/ cancelled[f]
          \/ \E s \in Streams : owner[s] = f /\ proc[s] = "up")

\* logcat_feed.go:278: when the filtered app died, "pollProcs picks it up from
\* here": a registered feed that saw only dropped connections keeps its poller.
PollPicksUp ==
  \A f \in Feeds :
    /\ LockFree /\ logcats = f /\ filter[f] = "app"
    /\ \A s \in Streams : owner[s] = f => reason[s] = "transient"
    => poll[f] # "done"
=============================================================================
