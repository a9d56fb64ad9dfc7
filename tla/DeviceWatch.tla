---------------------------- MODULE DeviceWatch ----------------------------
(***************************************************************************)
(* The pushed device list: the adb server's track-devices socket, the      *)
(* Tracker that reads it (internal/adb/track.go), the deviceWatcher that   *)
(* enriches and publishes what it reads or polls (device_watcher.go), and  *)
(* the UI, which listens to devices:changed and may also ask for the list. *)
(*                                                                         *)
(* A device list is a function from the serials on it to what is known of  *)
(* each: Bare when only the transport is known, else the detail that       *)
(* Enrich read, a number that changes when something on the device does.   *)
(* Go slices alias: publish keeps the very array that enrichAndPublish     *)
(* goes on writing, which the flag "aliased" records.                      *)
(***************************************************************************)
EXTENDS Naturals, Sequences, FiniteSets

CONSTANTS
  Serials,      \* devices that may be plugged in
  Slots,        \* capacity of the tracker's channel
  Worlds        \* the worlds it may find itself in, as records:
                \*   trackable: this adb server speaks track-devices
                \*   quits: the user may quit
                \*   plugs, details, kills, reads: bounds on plug and unplug events,
                \*   on changes on a device the adb server does not announce, on times
                \*   the adb server goes away, and on ListDevices calls by the UI

ASSUME SlotsAssumption == Slots \in Nat \ {0}
ASSUME WorldsAssumption ==
  Worlds \subseteq [trackable : BOOLEAN, quits : BOOLEAN, plugs : Nat, details : Nat, kills : Nat, reads : Nat]

VARIABLES
  world,    \* the world it is in
  \* the devices and the adb server
  attached, detail, server, plugs, kills,
  \* Tracker
  sock, session, frame, out, closed, connected,
  \* deviceWatcher
  pc, list, todo, last, aliased, tracker, cancelled,
  \* the UI
  told, ui, reading, reads,
  \* every set of devices there has been (history)
  seen

worldVars   == <<attached, detail, server, plugs, kills, seen>>
trackerVars == <<sock, session, frame, out, closed, connected>>
watchVars   == <<pc, list, todo, last, aliased, tracker, cancelled>>
uiVars      == <<told, ui, reading, reads>>
vars == <<worldVars, trackerVars, watchVars, uiVars>>   \* all but world, which stays

Bare == 0
Details == 1 .. world.details + 1
Known == Details \cup {Bare}
Lists == UNION {[D -> Known] : D \in SUBSET Serials}
Empty == [d \in {} |-> Bare]

\* ParseDeviceList: what the transport says.  Enrich: what the device says.
Parsed(D)   == [d \in D |-> Bare]
Enriched(D) == [d \in D |-> detail[d]]

Init ==
  /\ world \in Worlds
  /\ attached \in SUBSET Serials
  /\ detail = [d \in Serials |-> 1]
  /\ server = "up"
  /\ plugs = 0 /\ kills = 0
  /\ seen = {attached}
  /\ sock = <<>>
  /\ session = "dial"
  /\ frame = {}
  /\ out = <<>>
  /\ closed = FALSE
  /\ connected = FALSE
  /\ pc = "refresh"
  /\ list = Empty
  /\ todo = {}
  /\ last = Empty
  /\ aliased = FALSE
  /\ tracker = "set"
  /\ cancelled = FALSE
  /\ told = Empty
  /\ ui = Empty
  /\ reading = <<>>
  /\ reads = 0

-----------------------------------------------------------------------------
(* The world.                                                              *)

\* A device is plugged in or out; a live tracking socket is told.
Plug(d) ==
  /\ plugs < world.plugs
  /\ plugs' = plugs + 1
  /\ attached' = IF d \in attached THEN attached \ {d} ELSE attached \cup {d}
  /\ seen' = seen \cup {attached'}
  /\ sock' = IF session \in {"reading", "sending"} /\ server = "up"
               THEN Append(sock, attached') ELSE sock
  /\ UNCHANGED <<detail, server, kills, session, frame, out, closed, connected,
                 watchVars, uiVars>>

\* Root is granted, the address moves: nothing announces it.
Change(d) ==
  /\ detail[d] <= world.details
  /\ detail' = [detail EXCEPT ![d] = @ + 1]
  /\ UNCHANGED <<attached, server, plugs, kills, seen, trackerVars, watchVars, uiVars>>

\* adb kill-server, an upgrade, a crash; the next command starts it again.
ServerGoes ==
  /\ server = "up"
  /\ kills < world.kills
  /\ kills' = kills + 1
  /\ server' = "down"
  /\ UNCHANGED <<attached, detail, plugs, seen, trackerVars, watchVars, uiVars>>

ServerComes ==
  /\ server = "down"
  /\ server' = "up"
  /\ UNCHANGED <<attached, detail, plugs, kills, seen, trackerVars, watchVars, uiVars>>

-----------------------------------------------------------------------------
(* Tracker.loop and Tracker.session.                                       *)

\* Dialled, shaken hands, and the server sent the current list.
Connect ==
  /\ session = "dial" /\ ~cancelled
  /\ server = "up" /\ world.trackable
  /\ session' = "reading"
  /\ connected' = TRUE
  /\ sock' = <<attached>>
  /\ UNCHANGED <<worldVars, frame, out, closed, watchVars, uiVars>>

\* No server, or one that refuses both forms of the request.
ConnectFail ==
  /\ session = "dial" /\ ~cancelled
  /\ ~(server = "up" /\ world.trackable)
  /\ session' = "backoff"
  /\ connected' = FALSE
  /\ UNCHANGED <<worldVars, sock, frame, out, closed, watchVars, uiVars>>

Backoff ==
  /\ session = "backoff" /\ ~cancelled
  /\ session' = "dial"
  /\ UNCHANGED <<worldVars, sock, frame, out, closed, connected, watchVars, uiVars>>

ReadFrame ==
  /\ session = "reading"
  /\ sock # <<>>
  /\ frame' = Head(sock)
  /\ sock' = Tail(sock)
  /\ session' = "sending"
  /\ UNCHANGED <<worldVars, out, closed, connected, watchVars, uiVars>>

\* The read fails: the server went away and what it had sent is read, or Stop
\* closed the connection under the reader.
ReadFail ==
  /\ session = "reading"
  /\ cancelled \/ (sock = <<>> /\ server = "down")
  /\ session' = "backoff"
  /\ connected' = FALSE
  /\ sock' = <<>>
  /\ UNCHANGED <<worldVars, frame, out, closed, watchVars, uiVars>>

\* Mutant: a channel without a capacity.
SendAnyway ==
  /\ session = "sending"
  /\ out' = Append(out, frame)
  /\ session' = "reading"
  /\ UNCHANGED <<worldVars, sock, frame, closed, connected, watchVars, uiVars>>

\* The channel has room.
Send ==
  /\ session = "sending"
  /\ Len(out) < Slots
  /\ out' = Append(out, frame)
  /\ session' = "reading"
  /\ UNCHANGED <<worldVars, sock, frame, closed, connected, watchVars, uiVars>>

\* Mutant: the send does not look at the context.
SendCancelledNever == FALSE

\* select: the context ends a send nobody receives.
SendCancelled ==
  /\ session = "sending"
  /\ cancelled
  /\ session' = "backoff"
  /\ UNCHANGED <<worldVars, sock, frame, out, closed, connected, watchVars, uiVars>>

\* Mutant: a refused or lost session ends the tracker.
TrackerGivesUp ==
  /\ session = "backoff"
  /\ session' = "done"
  /\ connected' = FALSE
  /\ closed' = TRUE
  /\ UNCHANGED <<worldVars, sock, frame, out, watchVars, uiVars>>

\* loop returns: State is disconnected, then Updates() is closed, then done.
TrackerEnd ==
  /\ session \in {"dial", "backoff"}
  /\ cancelled
  /\ session' = "done"
  /\ connected' = FALSE
  /\ closed' = TRUE
  /\ UNCHANGED <<worldVars, sock, frame, out, watchVars, uiVars>>

-----------------------------------------------------------------------------
(* deviceWatcher.loop.                                                     *)

\* Mutants: a comparison that forgets the details, and one that only counts.
SameSerials(a, b) == DOMAIN a = DOMAIN b
SameLength(a, b) == Cardinality(DOMAIN a) = Cardinality(DOMAIN b)

\* devicesEqual: by value, every field.
DevicesEqual(a, b) == a = b

\* publish: keep the list; tell the UI unless it equals the one kept before.
Publish(l) ==
  /\ last' = l
  /\ IF DevicesEqual(last, l)
       THEN UNCHANGED <<told, ui>>
       ELSE told' = l /\ ui' = l

\* Mutant: a failed listing is published as an empty one.
RefreshBlank ==
  /\ pc = "refresh"
  /\ server = "down" \/ cancelled
  /\ pc' = "select"
  /\ Publish(Empty)
  /\ UNCHANGED <<worldVars, trackerVars, list, todo, aliased, tracker,
                 cancelled, reading, reads>>

\* ListDevices fails: the previous list is left alone.
RefreshFail ==
  /\ pc = "refresh"
  /\ server = "down" \/ cancelled
  /\ pc' = "select"
  /\ UNCHANGED <<worldVars, trackerVars, list, todo, last, aliased, tracker,
                 cancelled, uiVars>>

\* ListDevices answers with a list of its own.
Refresh ==
  /\ pc = "refresh"
  /\ server = "up"
  /\ list' = Parsed(attached)
  /\ todo' = attached
  /\ aliased' = FALSE
  /\ pc' = "enrich"
  /\ UNCHANGED <<worldVars, trackerVars, last, tracker, cancelled, uiVars>>

\* Updates() yields a list: publish it bare, and go on to enrich that array.
Pushed ==
  /\ pc = "select" /\ tracker = "set"
  /\ out # <<>>
  /\ list' = Parsed(Head(out))
  /\ todo' = Head(out)
  /\ out' = Tail(out)
  /\ Publish(Parsed(Head(out)))
  /\ aliased' = TRUE
  /\ pc' = "enrich"
  /\ UNCHANGED <<worldVars, sock, session, frame, closed, connected, tracker,
                 cancelled, reading, reads>>

\* Updates() is closed: forget the tracker, and go round again.
PushClosed ==
  /\ pc = "select" /\ tracker = "set"
  /\ closed /\ out = <<>>
  /\ tracker' = "nil"
  /\ UNCHANGED <<worldVars, trackerVars, pc, list, todo, last, aliased,
                 cancelled, uiVars>>

\* "The ticker keeps the list alive until the context closes" (:106-107), but select
\* evaluates w.tracker.Updates() before it waits: a nil dereference, on quitting.
NilTracker ==
  /\ pc = "select" /\ tracker = "nil"
  /\ pc' = "panic"
  /\ UNCHANGED <<worldVars, trackerVars, list, todo, last, aliased, tracker,
                 cancelled, uiVars>>

\* The ticker, at five seconds or sixty.
Tick ==
  /\ pc = "select" /\ tracker = "set"
  /\ pc' = "refresh"
  /\ UNCHANGED <<worldVars, trackerVars, list, todo, last, aliased, tracker,
                 cancelled, uiVars>>

\* Enrich one device, in place.  The kept list changes with it when it is the
\* same array.
Enrich(d) ==
  /\ pc = "enrich" /\ d \in todo /\ ~cancelled
  /\ list' = [list EXCEPT ![d] = detail[d]]
  /\ last' = IF aliased THEN list' ELSE last
  /\ todo' = todo \ {d}
  /\ UNCHANGED <<worldVars, trackerVars, pc, aliased, tracker, cancelled, uiVars>>

\* Every device is done: publish.
EnrichDone ==
  /\ pc = "enrich" /\ todo = {}
  /\ Publish(list)
  /\ pc' = "select"
  /\ list' = Empty           \* the loop's variable goes out of scope
  /\ aliased' = FALSE
  /\ UNCHANGED <<worldVars, trackerVars, todo, tracker, cancelled, reading, reads>>

EnrichCancelled ==
  /\ pc = "enrich" /\ todo # {} /\ cancelled
  /\ pc' = "select"
  /\ list' = Empty /\ todo' = {} /\ aliased' = FALSE
  /\ UNCHANGED <<worldVars, trackerVars, last, tracker, cancelled, uiVars>>

\* shutdown calls Stop, which cancels and waits for the loop.
Quit ==
  /\ world.quits /\ ~cancelled
  /\ cancelled' = TRUE
  /\ UNCHANGED <<worldVars, trackerVars, pc, list, todo, last, aliased, tracker, uiVars>>

Done ==
  /\ pc = "select" /\ tracker = "set" /\ cancelled
  /\ pc' = "done"
  /\ UNCHANGED <<worldVars, trackerVars, list, todo, last, aliased, tracker,
                 cancelled, uiVars>>

-----------------------------------------------------------------------------
(* The UI: reload() asks for the list on mount and after adb connect.      *)

\* The binding copies the published list, or lists and enriches by itself when
\* there is none.
ReadList ==
  /\ reads < world.reads /\ reading = <<>>
  /\ reads' = reads + 1
  /\ \/ last # Empty /\ reading' = <<last>>
     \/ last = Empty /\ server = "up" /\ reading' = <<Enriched(attached)>>
  /\ UNCHANGED <<worldVars, trackerVars, watchVars, told, ui>>

\* The answer reaches the page, whatever events arrived meanwhile.
ReadDone ==
  /\ reading # <<>>
  /\ ui' = Head(reading)
  /\ reading' = <<>>
  /\ UNCHANGED <<worldVars, trackerVars, watchVars, told, reads>>

World == (\E d \in Serials : Plug(d) \/ Change(d)) \/ ServerGoes \/ ServerComes
TrackerStep == Connect \/ ConnectFail \/ Backoff \/ ReadFrame \/ ReadFail
               \/ Send \/ SendCancelled \/ TrackerEnd
WatcherWork == RefreshFail \/ Refresh \/ (\E d \in Serials : Enrich(d))
               \/ EnrichDone \/ EnrichCancelled
WatcherStep == WatcherWork \/ Pushed \/ PushClosed \/ NilTracker \/ Tick \/ Done

Next == (World \/ TrackerStep \/ WatcherStep \/ Quit \/ ReadList \/ ReadDone) /\ UNCHANGED world

Spec == Init /\ [][Next]_<<vars, world>>

\* Goroutines run and the ticker fires.  A Go select with several ready cases
\* picks one at random, so none of them is passed over for ever.
Fairness ==
  /\ WF_vars(TrackerStep)
  /\ WF_vars(WatcherWork)
  /\ SF_vars(Pushed) /\ SF_vars(Tick) /\ WF_vars(NilTracker)
  /\ SF_vars(Done \/ PushClosed)
  /\ WF_vars(ServerComes) /\ WF_vars(ReadDone)

FairSpec == Spec /\ Fairness

-----------------------------------------------------------------------------
(* Properties.                                                             *)

\* Every variable has its type.
TypeOK ==
  /\ world \in Worlds
  /\ attached \subseteq Serials
  /\ detail \in [Serials -> Details]
  /\ server \in {"up", "down"}
  /\ plugs \in 0 .. world.plugs
  /\ kills \in 0 .. world.kills
  /\ seen \subseteq SUBSET Serials
  /\ sock \in Seq(SUBSET Serials)
  /\ session \in {"dial", "reading", "sending", "backoff", "done"}
  /\ frame \subseteq Serials
  /\ out \in Seq(SUBSET Serials) /\ Len(out) <= Slots
  /\ closed \in BOOLEAN /\ connected \in BOOLEAN /\ cancelled \in BOOLEAN
  /\ pc \in {"refresh", "enrich", "select", "done", "panic"}
  /\ {list, last, told, ui} \subseteq Lists
  /\ todo \subseteq DOMAIN list
  /\ aliased \in BOOLEAN
  /\ tracker \in {"set", "nil"}
  /\ reading \in Seq(Lists) /\ Len(reading) <= 1
  /\ reads \in 0 .. world.reads

\* "The channel is closed only when the tracker is stopped": a server that goes
\* away or refuses to track is retried, never reported as the end.
ClosedOnlyWhenStopped == closed => cancelled

\* The lists are what they should be, and a tracker's channel is closed only when it is
\* stopped.
ListsAreSound == TypeOK /\ ClosedOnlyWhenStopped

\* "Blanking the UI on a transient failure makes a hiccup look like every device
\* unplugging at once": by event or by reply, the page is only ever given a set of
\* devices there was.
ToldWhatWas == [][ui' # ui => DOMAIN ui' \in seen]_vars

\* Once the world is quiet the backend's last word names the attached devices,
\* through any number of stale pushes queued behind a poll; and where the server cannot
\* track, polling gets the details right as well, whatever changed unannounced.
TopicConverges == <>[](\/ pc \in {"done", "panic"}
                       \/ DOMAIN told = attached /\ (~world.trackable => told = Enriched(attached)))

\* device_watcher.go:37-39: the slow poll "is what eventually notices" a change on
\* the device that the adb server does not announce, and a pushed list is published
\* bare, "then fill in the details" (:111-113): the last word has the details right.
DetailsConverge ==
  <>[](pc \in {"done", "panic"} \/ told = Enriched(attached))

\* Quitting ends the watcher and its tracker: the tracker blocked on a full
\* channel, the watcher busy enriching, the server gone.
QuitEnds == cancelled ~> (pc \in {"done", "panic"} /\ session = "done")
=============================================================================
