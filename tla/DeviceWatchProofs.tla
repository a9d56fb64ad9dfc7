-------------------------- MODULE DeviceWatchProofs --------------------------
(***************************************************************************)
(* The device list for any devices, channel capacity and bounds: what the  *)
(* lists hold, when the tracker's channel is closed, and that the page is  *)
(* only ever told of devices there were.                                   *)
(***************************************************************************)
EXTENDS DeviceWatch, SequenceTheorems, TLAPS

-----------------------------------------------------------------------------
(* Types.                                                                  *)

IsList(l) == DOMAIN l \subseteq Serials /\ l \in [DOMAIN l -> Known]

WorldTypes ==
  /\ world \in Worlds /\ attached \subseteq Serials /\ detail \in [Serials -> Details]
  /\ server \in {"up", "down"} /\ plugs \in 0 .. world.plugs /\ kills \in 0 .. world.kills
  /\ seen \subseteq SUBSET Serials

TrackerTypes ==
  /\ sock \in Seq(SUBSET Serials) /\ frame \subseteq Serials
  /\ session \in {"dial", "reading", "sending", "backoff", "done"}
  /\ out \in Seq(SUBSET Serials) /\ Len(out) <= Slots
  /\ closed \in BOOLEAN /\ connected \in BOOLEAN

WatchTypes ==
  /\ pc \in {"refresh", "enrich", "select", "done", "panic"}
  /\ IsList(list) /\ todo \subseteq DOMAIN list
  /\ aliased \in BOOLEAN /\ tracker \in {"set", "nil"} /\ cancelled \in BOOLEAN

PageTypes ==
  /\ IsList(last) /\ IsList(told) /\ IsList(ui)
  /\ reading = <<>> \/ \E l : IsList(l) /\ reading = <<l>>
  /\ reads \in 0 .. world.reads

TypeInv == WorldTypes /\ TrackerTypes /\ WatchTypes /\ PageTypes

LEMMA ListIs == \A l : l \in Lists <=> IsList(l)
<1>1. ASSUME NEW l, l \in Lists PROVE IsList(l)
  <2>1. PICK D \in SUBSET Serials : l \in [D -> Known]
    BY <1>1 DEF Lists
  <2> QED BY <2>1 DEF IsList
<1>2. ASSUME NEW l, IsList(l) PROVE l \in Lists
  BY <1>2 DEF IsList, Lists
<1> QED BY <1>1, <1>2

LEMMA TypesAreTypeOK == TypeInv => TypeOK
<1> SUFFICES ASSUME TypeInv PROVE TypeOK
  OBVIOUS
<1>1. {list, last, told, ui} \subseteq Lists
  BY ListIs DEF TypeInv, WatchTypes, PageTypes
<1>2. reading \in Seq(Lists) /\ Len(reading) <= 1
  <2>1. CASE reading = <<>>
    BY <2>1
  <2>2. ASSUME NEW l, IsList(l), reading = <<l>> PROVE reading \in Seq(Lists) /\ Len(reading) <= 1
    <3>1. l \in Lists
      BY <2>2, ListIs
    <3> QED BY <2>2, <3>1
  <2> QED BY <2>1, <2>2 DEF TypeInv, PageTypes
<1> QED BY <1>1, <1>2 DEF TypeInv, WorldTypes, TrackerTypes, WatchTypes, PageTypes, TypeOK

LEMMA WorldIs ==
  ASSUME world \in Worlds
  PROVE  /\ world.plugs \in Nat /\ world.details \in Nat /\ world.kills \in Nat /\ world.reads \in Nat
         /\ 1 \in Details /\ Details \subseteq Known /\ Bare \in Known
BY WorldsAssumption DEF Details, Known

\* The lists the watcher makes.
LEMMA Made ==
  ASSUME world \in Worlds, detail \in [Serials -> Details], NEW D, D \subseteq Serials
  PROVE  /\ IsList(Parsed(D)) /\ DOMAIN Parsed(D) = D
         /\ IsList(Enriched(D)) /\ DOMAIN Enriched(D) = D
         /\ IsList(Empty) /\ DOMAIN Empty = {}
BY WorldIs DEF IsList, Parsed, Enriched, Empty

LEMMA InitTypes == Init => TypeInv
<1> SUFFICES ASSUME Init PROVE TypeInv
  OBVIOUS
<1>1. WorldTypes
  BY WorldIs DEF Init, WorldTypes
<1>2. TrackerTypes
  <2>1. <<>> \in Seq(SUBSET Serials) /\ Len(<<>>) = 0
    OBVIOUS
  <2>2. Len(<<>>) <= Slots
    BY <2>1, SlotsAssumption
  <2>3. /\ sock = <<>> /\ out = <<>> /\ frame = {} /\ session = "dial"
        /\ closed = FALSE /\ connected = FALSE
    BY DEF Init
  <2> QED BY <2>1, <2>2, <2>3 DEF TrackerTypes
<1>3. IsList(Empty)
  BY <1>1, Made DEF WorldTypes
<1>4. WatchTypes
  BY <1>3 DEF Init, WatchTypes
<1>5. PageTypes
  BY <1>1, <1>3, WorldIs DEF Init, PageTypes, WorldTypes
<1> QED BY <1>1, <1>2, <1>4, <1>5 DEF TypeInv

\* A step moves the world, the tracker, the watcher or the page.
LEMMA WorldStep == TypeInv /\ [Next]_<<vars, world>> => WorldTypes'
<1> SUFFICES ASSUME TypeInv, [Next]_<<vars, world>> PROVE WorldTypes'
  OBVIOUS
<1>0. WorldTypes /\ world' = world
  BY DEF Next, TypeInv
<1>1. CASE UNCHANGED worldVars
  BY <1>0, <1>1 DEF worldVars, WorldTypes, Details
<1>2. ASSUME NEW d \in Serials, Plug(d) PROVE WorldTypes'
  <2>1. attached' \subseteq Serials
    BY <1>0, <1>2 DEF Plug, WorldTypes
  <2>2. plugs' \in 0 .. world.plugs
    BY <1>0, <1>2, WorldIs DEF Plug, WorldTypes
  <2> QED BY <1>0, <1>2, <2>1, <2>2 DEF Plug, WorldTypes, Details
<1>3. ASSUME NEW d \in Serials, Change(d) PROVE WorldTypes'
  <2>1. detail[d] + 1 \in Details
    BY <1>0, <1>3, WorldIs DEF Change, WorldTypes, Details
  <2> QED BY <1>0, <1>3, <2>1 DEF Change, WorldTypes, Details
<1>4. CASE ServerGoes \/ ServerComes
  BY <1>0, <1>4, WorldIs DEF ServerGoes, ServerComes, WorldTypes, Details
<1>5. CASE TrackerStep
  BY <1>1, <1>5 DEF TrackerStep, Connect, ConnectFail, Backoff, ReadFrame, ReadFail, Send,
                    SendCancelled, TrackerEnd
<1>6. CASE WatcherStep
  BY <1>1, <1>6 DEF WatcherStep, WatcherWork, RefreshFail, Refresh, Enrich, EnrichDone,
                    EnrichCancelled, Pushed, PushClosed, NilTracker, Tick, Done
<1>7. CASE Quit \/ ReadList \/ ReadDone
  BY <1>1, <1>7 DEF Quit, ReadList, ReadDone
<1> QED BY <1>1, <1>2, <1>3, <1>4, <1>5, <1>6, <1>7 DEF Next, World, vars

LEMMA TrackerTypesStep == TypeInv /\ [Next]_<<vars, world>> => TrackerTypes'
<1> SUFFICES ASSUME TypeInv, [Next]_<<vars, world>> PROVE TrackerTypes'
  OBVIOUS
<1>0. WorldTypes /\ TrackerTypes
  BY DEF TypeInv
<1>1. CASE UNCHANGED trackerVars
  BY <1>0, <1>1 DEF trackerVars, TrackerTypes
<1>2. ASSUME NEW d \in Serials, Plug(d) PROVE TrackerTypes'
  <2>1. attached' \in SUBSET Serials
    BY <1>0, <1>2 DEF Plug, WorldTypes
  <2>2. sock' \in Seq(SUBSET Serials)
    BY <1>0, <1>2, <2>1 DEF Plug, TrackerTypes
  <2> QED BY <1>0, <1>2, <2>2 DEF Plug, TrackerTypes
<1>3. CASE Connect \/ ConnectFail \/ Backoff \/ ReadFail \/ SendCancelled \/ TrackerEnd
  <2>1. attached \in SUBSET Serials
    BY <1>0 DEF WorldTypes
  <2>2. <<attached>> \in Seq(SUBSET Serials) /\ <<>> \in Seq(SUBSET Serials)
    BY <2>1
  <2>3. sock' \in {sock, <<attached>>, <<>>} /\ frame' = frame /\ out' = out
    BY <1>3 DEF Connect, ConnectFail, Backoff, ReadFail, SendCancelled, TrackerEnd
  <2>4. /\ session' \in {"dial", "reading", "backoff", "done"}
        /\ closed' \in {closed, TRUE} /\ connected' \in {connected, TRUE, FALSE}
    BY <1>3 DEF Connect, ConnectFail, Backoff, ReadFail, SendCancelled, TrackerEnd
  <2> QED BY <1>0, <2>2, <2>3, <2>4 DEF TrackerTypes
<1>4. CASE ReadFrame
  <2>1. Head(sock) \in SUBSET Serials /\ Tail(sock) \in Seq(SUBSET Serials)
    BY <1>0, <1>4, HeadTailProperties DEF ReadFrame, TrackerTypes
  <2> QED BY <1>0, <1>4, <2>1 DEF ReadFrame, TrackerTypes
<1>5. CASE Send
  <2>1. out' \in Seq(SUBSET Serials) /\ Len(out') = Len(out) + 1
    BY <1>0, <1>5 DEF Send, TrackerTypes
  <2> QED BY <1>0, <1>5, <2>1, SlotsAssumption DEF Send, TrackerTypes
<1>6. CASE Pushed
  <2>1. Tail(out) \in Seq(SUBSET Serials) /\ Len(Tail(out)) = Len(out) - 1
    BY <1>0, <1>6, HeadTailProperties DEF Pushed, TrackerTypes
  <2> QED BY <1>0, <1>6, <2>1, SlotsAssumption DEF Pushed, TrackerTypes
<1>7. CASE WatcherWork \/ PushClosed \/ NilTracker \/ Tick \/ Done
  BY <1>1, <1>7 DEF WatcherWork, RefreshFail, Refresh, Enrich, EnrichDone, EnrichCancelled,
                    PushClosed, NilTracker, Tick, Done
<1>8. CASE (\E d \in Serials : Change(d)) \/ ServerGoes \/ ServerComes \/ Quit \/ ReadList \/ ReadDone
  BY <1>1, <1>8 DEF Change, ServerGoes, ServerComes, Quit, ReadList, ReadDone
<1>9. CASE UNCHANGED <<vars, world>>
  BY <1>1, <1>9 DEF vars
<1> QED BY <1>2, <1>3, <1>4, <1>5, <1>6, <1>7, <1>8, <1>9
        DEF Next, World, TrackerStep, WatcherStep

LEMMA WatchStep == TypeInv /\ [Next]_<<vars, world>> => WatchTypes'
<1> SUFFICES ASSUME TypeInv, [Next]_<<vars, world>> PROVE WatchTypes'
  OBVIOUS
<1>0. WorldTypes /\ TrackerTypes /\ WatchTypes /\ world' = world /\ Known' = Known
  BY DEF TypeInv, Next, Known, Details
<1>1. ASSUME UNCHANGED <<list, todo>>, pc' \in {"refresh", "enrich", "select", "done", "panic"},
             aliased' \in BOOLEAN, tracker' \in {"set", "nil"}, cancelled' \in BOOLEAN
      PROVE WatchTypes'
  BY <1>0, <1>1 DEF WatchTypes, IsList
<1>2. CASE UNCHANGED watchVars
  BY <1>0, <1>1, <1>2 DEF watchVars, WatchTypes
<1>3. CASE World \/ TrackerStep \/ ReadList \/ ReadDone
  BY <1>2, <1>3 DEF World, Plug, Change, ServerGoes, ServerComes, TrackerStep, Connect, ConnectFail,
     Backoff, ReadFrame, ReadFail, Send, SendCancelled, TrackerEnd, ReadList, ReadDone
<1>4. CASE RefreshFail \/ PushClosed \/ NilTracker \/ Tick \/ Done \/ Quit
  BY <1>0, <1>1, <1>4 DEF RefreshFail, PushClosed, NilTracker, Tick, Done, Quit, WatchTypes
<1>5. ASSUME NEW D, D \subseteq Serials, list' = Parsed(D), todo' = D, pc' = "enrich",
             aliased' \in BOOLEAN, UNCHANGED <<tracker, cancelled>>
      PROVE WatchTypes'
  <2>1. IsList(Parsed(D)) /\ DOMAIN Parsed(D) = D
    BY <1>0, <1>5, Made DEF WorldTypes
  <2> QED BY <1>0, <1>5, <2>1 DEF WatchTypes, IsList
<1>6. CASE Refresh
  BY <1>0, <1>5, <1>6 DEF Refresh, WorldTypes
<1>7. CASE Pushed
  <2>1. Head(out) \in SUBSET Serials
    BY <1>0, <1>7, HeadTailProperties DEF Pushed, TrackerTypes
  <2> QED BY <1>0, <1>5, <1>7, <2>1 DEF Pushed
<1>8. ASSUME NEW d \in Serials, Enrich(d) PROVE WatchTypes'
  <2>1. detail[d] \in Known
    BY <1>0, WorldIs DEF WorldTypes
  <2>2. DOMAIN list' = DOMAIN list /\ IsList(list)'
    BY <1>0, <1>8, <2>1 DEF Enrich, WatchTypes, IsList
  <2>3. todo' \subseteq DOMAIN list' /\ UNCHANGED <<pc, aliased, tracker, cancelled>>
    BY <1>0, <1>8, <2>2 DEF Enrich, WatchTypes
  <2> QED BY <1>0, <2>2, <2>3 DEF WatchTypes
<1>9. CASE EnrichDone \/ EnrichCancelled
  <2>1. IsList(Empty)
    BY <1>0, Made DEF WorldTypes
  <2>2. /\ list' = Empty /\ pc' = "select" /\ aliased' = FALSE /\ todo' = {}
        /\ UNCHANGED <<tracker, cancelled>>
    BY <1>9 DEF EnrichDone, EnrichCancelled
  <2> QED BY <1>0, <2>1, <2>2 DEF WatchTypes, IsList
<1>10. CASE UNCHANGED <<vars, world>>
  BY <1>2, <1>10 DEF vars
<1> QED BY <1>3, <1>4, <1>6, <1>7, <1>8, <1>9, <1>10 DEF Next, WatcherStep, WatcherWork

\* What publish leaves behind.
LEMMA Published ==
  ASSUME NEW l, Publish(l)
  PROVE  /\ last' = l
         /\ \/ told' = told /\ ui' = ui
            \/ told' = l /\ ui' = l
BY DEF Publish

LEMMA PageStep == TypeInv /\ [Next]_<<vars, world>> => PageTypes'
<1> SUFFICES ASSUME TypeInv, [Next]_<<vars, world>> PROVE PageTypes'
  OBVIOUS
<1>0. /\ WorldTypes /\ TrackerTypes /\ WatchTypes /\ PageTypes
      /\ world' = world /\ Known' = Known /\ \A l : IsList(l)' <=> IsList(l)
  BY DEF TypeInv, Next, Known, Details, IsList
<1>1. ASSUME UNCHANGED <<reading, reads>>, IsList(last'), IsList(told'), IsList(ui')
      PROVE PageTypes'
  BY <1>0, <1>1 DEF PageTypes, IsList
<1>2. CASE UNCHANGED <<last, told, ui, reading, reads>>
  BY <1>0, <1>1, <1>2 DEF PageTypes
<1>3. CASE UNCHANGED <<vars, world>> \/ World \/ TrackerStep \/ Quit
  BY <1>2, <1>3 DEF World, Plug, Change, ServerGoes, ServerComes, TrackerStep, Connect, ConnectFail,
     Backoff, ReadFrame, ReadFail, Send, SendCancelled, TrackerEnd, Quit, vars, watchVars, uiVars
<1>4. CASE RefreshFail \/ Refresh \/ EnrichCancelled \/ PushClosed \/ NilTracker \/ Tick \/ Done
  BY <1>2, <1>4 DEF RefreshFail, Refresh, EnrichCancelled, PushClosed, NilTracker, Tick, Done, uiVars
<1>5. CASE Pushed
  <2>1. Head(out) \in SUBSET Serials
    BY <1>0, <1>5, HeadTailProperties DEF Pushed, TrackerTypes
  <2>2. IsList(Parsed(Head(out)))
    BY <1>0, <2>1, Made DEF WorldTypes
  <2>3. Publish(Parsed(Head(out))) /\ UNCHANGED <<reading, reads>>
    BY <1>5 DEF Pushed
  <2> QED BY <1>0, <1>1, <2>2, <2>3, Published DEF PageTypes
<1>6. CASE EnrichDone
  <2>1. Publish(list) /\ UNCHANGED <<reading, reads>>
    BY <1>6 DEF EnrichDone
  <2> QED BY <1>0, <1>1, <2>1, Published DEF PageTypes, WatchTypes
<1>7. ASSUME NEW d \in Serials, Enrich(d) PROVE PageTypes'
  <2>1. IsList(list)'
    BY <1>7, WatchStep DEF WatchTypes
  <2>2. IsList(list')
    BY <1>0, <2>1 DEF IsList
  <2>3. last' \in {last, list'} /\ UNCHANGED uiVars
    BY <1>7 DEF Enrich
  <2> QED BY <1>0, <1>1, <2>2, <2>3 DEF PageTypes, uiVars
<1>8. CASE ReadList
  <2>1. IsList(Enriched(attached))
    BY <1>0, Made DEF WorldTypes
  <2>2. \E l : IsList(l) /\ reading' = <<l>>
    BY <1>0, <1>8, <2>1 DEF ReadList, PageTypes
  <2>3. reads' \in 0 .. world.reads
    BY <1>0, <1>8, WorldIs DEF ReadList, PageTypes, WorldTypes
  <2>4. UNCHANGED <<last, told, ui>>
    BY <1>8 DEF ReadList, watchVars
  <2> QED BY <1>0, <2>2, <2>3, <2>4 DEF PageTypes, IsList
<1>9. CASE ReadDone
  <2>1. PICK l : IsList(l) /\ reading = <<l>>
    BY <1>0, <1>9 DEF ReadDone, PageTypes
  <2>2. ui' = l /\ reading' = <<>> /\ UNCHANGED <<last, told, reads>>
    BY <1>9, <2>1 DEF ReadDone, watchVars
  <2> QED BY <1>0, <2>1, <2>2 DEF PageTypes, IsList
<1> QED BY <1>3, <1>4, <1>5, <1>6, <1>7, <1>8, <1>9 DEF Next, WatcherStep, WatcherWork

LEMMA TypeStep == TypeInv /\ [Next]_<<vars, world>> => TypeInv'
BY WorldStep, TrackerTypesStep, WatchStep, PageStep DEF TypeInv

\* loop closes the channel only once its context is done, which it stays.
LEMMA ClosedStep ==
  ClosedOnlyWhenStopped /\ [Next]_<<vars, world>> => ClosedOnlyWhenStopped'
<1> SUFFICES ASSUME ClosedOnlyWhenStopped, [Next]_<<vars, world>> PROVE ClosedOnlyWhenStopped'
  OBVIOUS
<1>1. CASE UNCHANGED <<closed, cancelled>>
  BY <1>1 DEF ClosedOnlyWhenStopped
<1>2. CASE TrackerEnd \/ Quit
  BY <1>2 DEF TrackerEnd, Quit, watchVars, trackerVars, ClosedOnlyWhenStopped
<1>3. CASE World \/ Connect \/ ConnectFail \/ Backoff \/ ReadFrame \/ ReadFail \/ Send \/ SendCancelled
  BY <1>1, <1>3 DEF World, Plug, Change, ServerGoes, ServerComes, Connect, ConnectFail, Backoff,
     ReadFrame, ReadFail, Send, SendCancelled, watchVars, trackerVars
<1>4. CASE WatcherStep
  BY <1>1, <1>4 DEF WatcherStep, WatcherWork, RefreshFail, Refresh, Enrich, EnrichDone,
     EnrichCancelled, Pushed, PushClosed, NilTracker, Tick, Done, trackerVars
<1>5. CASE ReadList \/ ReadDone \/ UNCHANGED <<vars, world>>
  BY <1>1, <1>5 DEF ReadList, ReadDone, vars, watchVars, trackerVars
<1> QED BY <1>2, <1>3, <1>4, <1>5 DEF Next, TrackerStep

-----------------------------------------------------------------------------
(* Every list on its way to the page names devices there were.             *)

\* It names a set of devices there was.
Was(l) == DOMAIN l \in seen

SeenInv ==
  /\ attached \in seen
  /\ \A i \in 1 .. Len(sock) : sock[i] \in seen
  /\ session = "sending" => frame \in seen
  /\ \A i \in 1 .. Len(out) : out[i] \in seen
  /\ pc = "enrich" => Was(list)
  /\ last = Empty \/ Was(last)
  /\ reading = <<>> \/ Was(reading[1])

IInv == TypeInv /\ ClosedOnlyWhenStopped /\ SeenInv

LEMMA SeenInit == Init => SeenInv
BY DEF Init, SeenInv

\* What a sequence holds, its head, its tail and what an Append adds.
LEMMA Queue ==
  ASSUME NEW S, NEW q \in Seq(S), NEW x \in S
  PROVE  /\ q # <<>> => /\ Head(q) = q[1] /\ 1 \in 1 .. Len(q) /\ Len(Tail(q)) = Len(q) - 1
                        /\ \A i \in 1 .. Len(Tail(q)) : Tail(q)[i] = q[i + 1] /\ i + 1 \in 1 .. Len(q)
         /\ Len(Append(q, x)) = Len(q) + 1 /\ Append(q, x)[Len(q) + 1] = x
         /\ \A i \in 1 .. Len(q) : Append(q, x)[i] = q[i]
<1>1. ASSUME q # <<>>
      PROVE  /\ Head(q) = q[1] /\ 1 \in 1 .. Len(q) /\ Len(Tail(q)) = Len(q) - 1
             /\ \A i \in 1 .. Len(Tail(q)) : Tail(q)[i] = q[i + 1] /\ i + 1 \in 1 .. Len(q)
  BY <1>1, HeadTailProperties
<1>2. /\ Len(Append(q, x)) = Len(q) + 1 /\ Append(q, x)[Len(q) + 1] = x
      /\ \A i \in 1 .. Len(q) : Append(q, x)[i] = q[i]
  BY AppendProperties
<1> QED BY <1>1, <1>2

LEMMA SeenStep == TypeInv /\ SeenInv /\ [Next]_<<vars, world>> => SeenInv'
<1> SUFFICES ASSUME TypeInv, SeenInv, [Next]_<<vars, world>> PROVE SeenInv'
  OBVIOUS
<1>0. /\ WorldTypes /\ TrackerTypes /\ WatchTypes /\ PageTypes
      /\ sock \in Seq(SUBSET Serials) /\ out \in Seq(SUBSET Serials)
      /\ frame \in SUBSET Serials /\ attached \in SUBSET Serials
  BY DEF TypeInv, WorldTypes, TrackerTypes
<1>1. ASSUME UNCHANGED <<attached, seen, sock, frame, out, list, last, reading>>,
             session' = "sending" => session = "sending", pc' = "enrich" => pc = "enrich"
      PROVE SeenInv'
  BY <1>1 DEF SeenInv, Was, Empty
<1>2. ASSUME NEW d \in Serials, Plug(d) PROVE SeenInv'
  <2>1. /\ seen' = seen \cup {attached'} /\ attached' \in SUBSET Serials
        /\ sock' = sock \/ sock' = Append(sock, attached')
        /\ UNCHANGED <<session, frame, out, pc, list, last, reading>>
    BY <1>0, <1>2 DEF Plug, watchVars, uiVars
  <2>2. \A i \in 1 .. Len(sock') : sock'[i] \in seen'
    <3>1. CASE sock' = sock
      BY <2>1, <3>1 DEF SeenInv
    <3>2. CASE sock' = Append(sock, attached')
      <4>1. /\ Len(sock') = Len(sock) + 1 /\ sock'[Len(sock) + 1] = attached'
            /\ \A i \in 1 .. Len(sock) : sock'[i] = sock[i]
        BY <1>0, <2>1, <3>2, Queue
      <4>2. Len(sock) \in Nat
        BY <1>0
      <4> QED BY <2>1, <4>1, <4>2 DEF SeenInv
    <3> QED BY <2>1, <3>1, <3>2
  <2> QED BY <2>1, <2>2 DEF SeenInv, Was, Empty
<1>3. CASE Connect
  <2>1. /\ sock' = <<attached>> /\ session' = "reading"
        /\ UNCHANGED <<attached, seen, frame, out, pc, list, last, reading>>
    BY <1>3 DEF Connect, worldVars, watchVars, uiVars
  <2> QED BY <2>1 DEF SeenInv, Was, Empty
<1>4. CASE ReadFrame
  <2>1. /\ sock # <<>> /\ sock' = Tail(sock) /\ frame' = Head(sock)
        /\ UNCHANGED <<attached, seen, out, pc, list, last, reading>>
    BY <1>4 DEF ReadFrame, worldVars, watchVars, uiVars
  <2>2. /\ Head(sock) = sock[1] /\ 1 \in 1 .. Len(sock)
        /\ \A i \in 1 .. Len(Tail(sock)) : Tail(sock)[i] = sock[i + 1] /\ i + 1 \in 1 .. Len(sock)
    BY <1>0, <2>1, Queue
  <2> QED BY <2>1, <2>2 DEF SeenInv, Was, Empty
<1>5. CASE ReadFail
  <2>1. /\ sock' = <<>> /\ session' = "backoff"
        /\ UNCHANGED <<attached, seen, frame, out, pc, list, last, reading>>
    BY <1>5 DEF ReadFail, worldVars, watchVars, uiVars
  <2> QED BY <2>1 DEF SeenInv, Was, Empty
<1>6. CASE Send
  <2>1. /\ session = "sending" /\ out' = Append(out, frame) /\ session' = "reading"
        /\ UNCHANGED <<attached, seen, sock, frame, pc, list, last, reading>>
    BY <1>6 DEF Send, worldVars, watchVars, uiVars
  <2>2. /\ Len(out') = Len(out) + 1 /\ out'[Len(out) + 1] = frame
        /\ \A i \in 1 .. Len(out) : out'[i] = out[i]
    BY <1>0, <2>1, Queue
  <2>3. Len(out) \in Nat
    BY <1>0
  <2>4. \A i \in 1 .. Len(out') : out'[i] \in seen
    BY <2>1, <2>2, <2>3 DEF SeenInv
  <2> QED BY <2>1, <2>4 DEF SeenInv, Was, Empty
<1>7. CASE ConnectFail \/ Backoff \/ SendCancelled \/ TrackerEnd
  BY <1>1, <1>7 DEF ConnectFail, Backoff, SendCancelled, TrackerEnd, worldVars, watchVars, uiVars
<1>8. CASE (\E d \in Serials : Change(d)) \/ ServerGoes \/ ServerComes \/ Quit \/ UNCHANGED <<vars, world>>
  BY <1>1, <1>8 DEF Change, ServerGoes, ServerComes, Quit, vars, worldVars, trackerVars, watchVars,
                    uiVars
<1>9. CASE RefreshFail \/ PushClosed \/ NilTracker \/ Tick \/ Done
  BY <1>1, <1>9 DEF RefreshFail, PushClosed, NilTracker, Tick, Done, worldVars, trackerVars, uiVars
<1>10. CASE Refresh
  <2>1. /\ list' = Parsed(attached) /\ pc' = "enrich"
        /\ UNCHANGED <<attached, seen, sock, session, frame, out, last, reading>>
    BY <1>10 DEF Refresh, worldVars, trackerVars, uiVars
  <2>2. DOMAIN list' = attached
    BY <2>1 DEF Parsed
  <2> QED BY <2>1, <2>2 DEF SeenInv, Was, Empty
<1>11. CASE Pushed
  <2>1. /\ out # <<>> /\ list' = Parsed(Head(out)) /\ out' = Tail(out) /\ last' = list'
        /\ UNCHANGED <<attached, seen, sock, session, frame, reading>>
    BY <1>11, Published DEF Pushed, worldVars
  <2>2. /\ Head(out) = out[1] /\ 1 \in 1 .. Len(out)
        /\ \A i \in 1 .. Len(Tail(out)) : Tail(out)[i] = out[i + 1] /\ i + 1 \in 1 .. Len(out)
    BY <1>0, <2>1, Queue
  <2>3. DOMAIN list' = out[1]
    BY <2>1, <2>2 DEF Parsed
  <2> QED BY <2>1, <2>2, <2>3 DEF SeenInv, Was, Empty
<1>12. ASSUME NEW d \in Serials, Enrich(d) PROVE SeenInv'
  <2>1. /\ DOMAIN list' = DOMAIN list /\ last' \in {last, list'} /\ pc = "enrich"
        /\ UNCHANGED <<attached, seen, sock, session, frame, out, pc, reading>>
    BY <1>12 DEF Enrich, worldVars, trackerVars, uiVars
  <2> QED BY <2>1 DEF SeenInv, Was, Empty
<1>13. CASE EnrichDone
  <2>1. /\ pc = "enrich" /\ pc' = "select" /\ last' = list
        /\ UNCHANGED <<attached, seen, sock, session, frame, out, reading>>
    BY <1>13, Published DEF EnrichDone, worldVars, trackerVars
  <2> QED BY <2>1 DEF SeenInv, Was, Empty
<1>14. CASE EnrichCancelled
  <2>1. pc' = "select" /\ UNCHANGED <<attached, seen, sock, session, frame, out, last, reading>>
    BY <1>14 DEF EnrichCancelled, worldVars, trackerVars, uiVars
  <2> QED BY <2>1 DEF SeenInv, Was, Empty
<1>15. CASE ReadList
  <2>1. /\ (reading' = <<last>> /\ last # Empty) \/ reading' = <<Enriched(attached)>>
        /\ UNCHANGED <<attached, seen, sock, session, frame, out, pc, list, last>>
    BY <1>15 DEF ReadList, worldVars, trackerVars, watchVars
  <2>2. DOMAIN Enriched(attached) = attached
    BY DEF Enriched
  <2>3. Was(reading[1])'
    BY <2>1, <2>2 DEF SeenInv, Was
  <2> QED BY <2>1, <2>3 DEF SeenInv, Was, Empty
<1>16. CASE ReadDone
  <2>1. /\ reading' = <<>>
        /\ UNCHANGED <<attached, seen, sock, session, frame, out, pc, list, last>>
    BY <1>16 DEF ReadDone, worldVars, trackerVars, watchVars
  <2> QED BY <2>1 DEF SeenInv, Was, Empty
<1> QED BY <1>2, <1>3, <1>4, <1>5, <1>6, <1>7, <1>8, <1>9, <1>10, <1>11, <1>12, <1>13, <1>14, <1>15,
           <1>16 DEF Next, World, TrackerStep, WatcherStep, WatcherWork

\* What the page is given by an event or a reply.
LEMMA ToldStep == TypeInv /\ SeenInv /\ [Next]_<<vars, world>> => (ui' # ui => DOMAIN ui' \in seen)
<1> SUFFICES ASSUME TypeInv, SeenInv, [Next]_<<vars, world>>, ui' # ui PROVE DOMAIN ui' \in seen
  OBVIOUS
<1>1. CASE Pushed
  <2>1. out # <<>> /\ ui' = Parsed(Head(out))
    BY <1>1, Published DEF Pushed
  <2>2. Head(out) = out[1] /\ 1 \in 1 .. Len(out)
    BY <2>1, Queue DEF TypeInv, TrackerTypes
  <2> QED BY <2>1, <2>2 DEF SeenInv, Parsed
<1>2. CASE EnrichDone
  BY <1>2, Published DEF EnrichDone, SeenInv, Was
<1>3. CASE ReadDone
  <2>1. PICK l : reading = <<l>>
    BY <1>3 DEF ReadDone, TypeInv, PageTypes
  <2>2. ui' = l /\ reading[1] = l /\ reading # <<>>
    BY <1>3, <2>1 DEF ReadDone
  <2> QED BY <2>2 DEF SeenInv, Was
<1>4. CASE World \/ TrackerStep \/ Quit \/ ReadList \/ UNCHANGED <<vars, world>>
  BY <1>4 DEF World, Plug, Change, ServerGoes, ServerComes, TrackerStep, Connect, ConnectFail, Backoff,
     ReadFrame, ReadFail, Send, SendCancelled, TrackerEnd, Quit, ReadList, vars, uiVars
<1>5. CASE \/ RefreshFail \/ Refresh \/ (\E d \in Serials : Enrich(d)) \/ EnrichCancelled \/ PushClosed
           \/ NilTracker \/ Tick \/ Done
  BY <1>5 DEF RefreshFail, Refresh, Enrich, EnrichCancelled, PushClosed, NilTracker, Tick, Done, uiVars
<1> QED BY <1>1, <1>2, <1>3, <1>4, <1>5 DEF Next, WatcherStep, WatcherWork

-----------------------------------------------------------------------------
(* The theorems.                                                           *)

\* The inductive invariant: whatever is on its way to the page, on the socket, in
\* the channel, being enriched, kept or read, names devices there were.
THEOREM Invariant == Spec => []IInv
<1>1. Init => IInv
  BY InitTypes, SeenInit DEF IInv, Init, ClosedOnlyWhenStopped
<1>2. IInv /\ [Next]_<<vars, world>> => IInv'
  BY TypeStep, ClosedStep, SeenStep DEF IInv
<1> QED BY <1>1, <1>2, PTL DEF Spec

\* "The channel is closed only when the tracker is stopped", and the lists, the
\* channel and the copies on their way are what they should be.
THEOREM ListsSound == Spec => []ListsAreSound
<1>1. IInv => ListsAreSound
  BY TypesAreTypeOK DEF IInv, ListsAreSound
<1> QED BY <1>1, Invariant, PTL

\* By event or by reply the page is only ever given a set of devices there was: a
\* failed listing or a lost session never blanks it.
THEOREM ToldTrue == Spec => ToldWhatWas
<1>1. IInv /\ [Next]_<<vars, world>> => [ui' # ui => DOMAIN ui' \in seen]_vars
  BY ToldStep DEF IInv
<1> QED BY <1>1, Invariant, PTL DEF Spec, ToldWhatWas
=============================================================================
