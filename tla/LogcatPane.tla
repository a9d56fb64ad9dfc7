------------------------------ MODULE LogcatPane ------------------------------
(***************************************************************************)
(* The log of a device as the page keeps it (logcatStore.ts), with the     *)
(* switches it sets on the feed (app.go, logcat_feed.go): the filter, the  *)
(* lines of the system, and quiet, while no screen shows the log.  Each    *)
(* binding is a call of its own, which may be handled in any order; one of *)
(* them, SetLogcatQuiet, does not wait for a restart that is under way.    *)
(*                                                                         *)
(* A line is its number; odd lines are an application's, even ones the     *)
(* system's.  How a feed lives and dies is LogcatFeed's.                   *)
(***************************************************************************)
EXTENDS Naturals, Sequences

CONSTANTS Filters, MaxCalls, MaxLines  \* the package filters, and bounds

VARIABLES
  visible, showSystem, filter,  \* the page, as the user sees it
  ring,       \* the lines it holds
  calls,      \* the calls it made that are under way, by number
  issued,
  lcMu,       \* the call that holds it, or 0
  feed,       \* the registered feed, if there is one
  buf,        \* the lines its batcher holds
  logged,     \* the lines the device has logged
  got, gone,  \* history: what the feed was given, and what was dropped of it on purpose
  crossed,    \* history: a call was handled before an earlier one
  missed      \* history: SetLogcatQuiet found no feed

page == <<visible, showSystem, filter>>
past == <<got, gone, crossed, missed>>
vars == <<page, ring, calls, issued, lcMu, feed, buf, logged, past>>

None == <<>>
Init == /\ visible = FALSE /\ showSystem = FALSE /\ filter \in Filters /\ ring = <<>> /\ calls = {} /\ issued = 0
        /\ lcMu = 0 /\ feed = None /\ buf = <<>> /\ logged = 0
        /\ got = {} /\ gone = {} /\ crossed = FALSE /\ missed = FALSE

-----------------------------------------------------------------------------
\* The page.  A call takes what it needs with it.
Issue(cs) ==
  /\ issued + Len(cs) <= MaxCalls /\ issued' = issued + Len(cs)
  /\ calls' = calls \cup {[op |-> cs[i].op, filter |-> cs[i].filter, on |-> cs[i].on, no |-> issued + i, pc |-> "sent"] :
                          i \in DOMAIN cs}
  /\ UNCHANGED <<lcMu, feed, buf, logged, past>>
Ensure(f) == [op |-> "ensure", filter |-> f, on |-> showSystem]
Switch(op, on) == [op |-> op, filter |-> filter, on |-> on]

Mount == /\ ~visible /\ visible' = TRUE /\ Issue(<<Ensure(filter), Switch("quiet", FALSE)>>)
         /\ UNCHANGED <<showSystem, filter, ring>>
Unmount == /\ visible /\ visible' = FALSE /\ Issue(<<Switch("quiet", TRUE)>>)
           /\ UNCHANGED <<showSystem, filter, ring>>
setShowSystem == /\ visible /\ showSystem' = ~showSystem /\ Issue(<<Switch("system", showSystem')>>)
                 /\ UNCHANGED <<visible, filter, ring>>
setFilter(f) == /\ visible /\ f # filter /\ filter' = f /\ Issue(<<Ensure(f)>>)
                /\ UNCHANGED <<visible, showSystem, ring>>
clear == /\ visible /\ ring # <<>> /\ ring' = <<>> /\ Issue(<<Switch("clear", TRUE)>>)
         /\ UNCHANGED page

-----------------------------------------------------------------------------
\* The bindings.
Sent(c, op) == c.op = op /\ c.pc = "sent"
Done(c) == calls' = calls \ {c}
Step(c, pc) == calls' = (calls \ {c}) \cup {[c EXCEPT !.pc = pc]}
Crosses(c) == crossed' = (crossed \/ \E d \in calls : d.no < c.no /\ d.pc # "reply")
Lines(s) == {s[i] : i \in DOMAIN s}

\* A slip: any feed will do.
EnsureHealthyAny(c) ==
  /\ Sent(c, "ensure") /\ lcMu = 0 /\ feed # None
  /\ feed' = <<[feed[1] EXCEPT !.sys = c.on]>> /\ Done(c) /\ Crosses(c)
  /\ UNCHANGED <<page, ring, issued, lcMu, buf, logged, got, gone, missed>>
\* EnsureLogcat: a healthy feed with this filter is kept, and its switch set.
EnsureHealthy(c) ==
  /\ Sent(c, "ensure") /\ lcMu = 0 /\ feed # None /\ feed[1].filter = c.filter
  /\ feed' = <<[feed[1] EXCEPT !.sys = c.on]>> /\ Done(c) /\ Crosses(c)
  /\ UNCHANGED <<page, ring, issued, lcMu, buf, logged, got, gone, missed>>
\* Any other is stopped; what its batcher holds is not sent.
EnsureStops(c) ==
  /\ Sent(c, "ensure") /\ lcMu = 0 /\ ~(feed # None /\ feed[1].filter = c.filter)
  /\ lcMu' = c.no /\ feed' = None /\ buf' = <<>> /\ got' = {} /\ gone' = {} /\ Step(c, "start") /\ Crosses(c)
  /\ UNCHANGED <<page, ring, issued, logged, missed>>
\* restartLogcatLocked: the new feed begins with the tail of the device's log, and is not quiet.
Classified(i, on) == IF on \/ i % 2 = 1 THEN <<i>> ELSE <<>>
LogTail(on) == IF on THEN [i \in 1 .. logged |-> i] ELSE [i \in 1 .. (logged + 1) \div 2 |-> 2 * i - 1]
EnsureStarts(c) ==
  /\ c.op = "ensure" /\ c.pc = "start" /\ lcMu = c.no /\ lcMu' = 0
  /\ feed' = <<[filter |-> c.filter, sys |-> c.on, quiet |-> FALSE]>>
  /\ buf' = LogTail(c.on)
  /\ got' = Lines(buf') /\ gone' = {} /\ Step(c, "reply")
  /\ UNCHANGED <<page, ring, issued, logged, crossed, missed>>
EnsureFails(c) ==
  /\ c.op = "ensure" /\ c.pc = "start" /\ lcMu = c.no /\ lcMu' = 0 /\ Done(c)
  /\ UNCHANGED <<page, ring, issued, feed, buf, logged, past>>
\* The answer says restarted: the ring is dropped, and with it what the new feed sent
\* before the answer came.
Restarted(c) ==
  /\ c.pc = "reply" /\ ring' = <<>> /\ gone' = gone \cup (Lines(ring) \cap got) /\ Done(c)
  /\ UNCHANGED <<page, issued, lcMu, feed, buf, logged, got, crossed, missed>>

\* SetLogcatSystem waits for lcMu, SetLogcatQuiet does not.
SetLogcatSystem(c) ==
  /\ Sent(c, "system") /\ lcMu = 0 /\ Done(c) /\ Crosses(c)
  /\ feed' = IF feed = None THEN None ELSE <<[feed[1] EXCEPT !.sys = c.on]>>
  /\ UNCHANGED <<page, ring, issued, lcMu, buf, logged, got, gone, missed>>
SetLogcatQuiet(c) ==
  /\ Sent(c, "quiet") /\ Done(c) /\ Crosses(c) /\ missed' = (missed \/ feed = None)
  /\ feed' = IF feed = None THEN None ELSE <<[feed[1] EXCEPT !.quiet = c.on]>>
  /\ UNCHANGED <<page, ring, issued, lcMu, buf, logged, got, gone>>
\* ClearLogcat: what is on its way is dropped too.
ClearLogcat(c) ==
  /\ Sent(c, "clear") /\ Done(c) /\ Crosses(c)
  /\ IF feed = None THEN UNCHANGED <<buf, got, gone>> ELSE buf' = <<>> /\ got' = {} /\ gone' = {}
  /\ UNCHANGED <<page, ring, issued, lcMu, feed, logged, missed>>

-----------------------------------------------------------------------------
\* The feed: classify, and the batch that goes out on the tick.
Log ==
  /\ logged < MaxLines /\ logged' = logged + 1
  /\ IF feed = None THEN UNCHANGED <<buf, got>>
     ELSE /\ buf' = buf \o Classified(logged', feed[1].sys)
          /\ got' = got \cup (Lines(buf') \ Lines(buf))
  /\ UNCHANGED <<page, ring, calls, issued, lcMu, feed, gone, crossed, missed>>
\* send: nothing is kept of a batch that goes out while the feed is quiet.
Flush ==
  /\ buf # <<>> /\ buf' = <<>>
  /\ IF feed[1].quiet THEN gone' = gone \cup Lines(buf) /\ UNCHANGED ring ELSE ring' = ring \o buf /\ UNCHANGED gone
  /\ UNCHANGED <<page, calls, issued, lcMu, feed, logged, got, crossed, missed>>

Next == \/ Mount \/ Unmount \/ setShowSystem \/ clear \/ Log \/ Flush
        \/ \E f \in Filters : setFilter(f)
        \/ \E c \in calls : \/ EnsureHealthy(c) \/ EnsureStops(c) \/ EnsureStarts(c) \/ EnsureFails(c) \/ Restarted(c)
                            \/ SetLogcatSystem(c) \/ SetLogcatQuiet(c) \/ ClearLogcat(c)
Spec == Init /\ [][Next]_vars

-----------------------------------------------------------------------------
Settled == calls = {} /\ ~crossed
\* Once its calls are handled, and in the order in which they were made, the feed has the
\* switches that the page shows; quiet too, unless the call fell into a restart.
SwitchesHold ==
  Settled /\ feed # None => /\ feed[1].sys = showSystem /\ feed[1].filter = filter
                            /\ ~missed => feed[1].quiet = ~visible

\* The page then has every line the feed was given, once and in order, but for those that
\* went out while it was quiet or before the answer that announced the feed.
PaneIsWhole ==
  Settled /\ feed # None =>
    /\ got \subseteq Lines(ring) \cup Lines(buf) \cup gone
    /\ \A i, j \in DOMAIN ring : i < j => ring[i] < ring[j]
=============================================================================
