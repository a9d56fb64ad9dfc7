------------------------- MODULE LogcatFeedProofs -------------------------
(***************************************************************************)
(* The safety of LogcatFeed, for any number of calls, feeds and streams.   *)
(***************************************************************************)
EXTENDS LogcatFeed, TLAPS

\* Only the bindings move lcMu, create feeds or cancel them: what EnsureLogcat and
\* StopLogcat own (app.go) no goroutine of a feed writes.
LEMMA CallsStep ==
  ASSUME Next
  PROVE  \/ UNCHANGED <<callVars, nextFeed, cancelled>>
         \/ \E c \in Calls : \/ \E p \in Filters : EnsureBegin(c, p)
                             \/ StopBegin(c)
                             \/ CallStep(c)
<1>1. ASSUME NEW a \in Attachers, AttachStep(a)
      PROVE  UNCHANGED <<callVars, nextFeed, cancelled>>
  BY <1>1 DEF AttachStep, Spawn, SpawnFail, Check, Abort, Install, Retire, feedVars
<1>2. ASSUME NEW s \in Streams, Exit(s) \/ StreamStep(s)
      PROVE  UNCHANGED <<callVars, nextFeed, cancelled>>
  BY <1>2 DEF StreamStep, Exit, CtxKill, ForwardEnd, RecoverCancelled, RecoverTimer,
              RecoverProbe, RecoverAttached, RecoverFail, feedVars
<1>3. ASSUME NEW f \in Feeds, PollStep(f) \/ BatchEmit(f) \/ BatchDone(f)
      PROVE  UNCHANGED <<callVars, nextFeed, cancelled>>
  BY <1>3 DEF PollStep, PollTick, PollExit, PollRefresh, PollFollow, PollAttached,
              BatchEmit, BatchDone, feedVars
<1>4. AppStart \/ AppExit => UNCHANGED <<callVars, nextFeed, cancelled>>
  BY DEF AppStart, AppExit, feedVars
<1> QED BY <1>1, <1>2, <1>3, <1>4 DEF Next

\* lcMu excludes: a binding past its first step is alone, and no feed is
\* registered while it works (EnsureLogcat, StopLogcat).
LEMMA LockStep ==
  ASSUME TypeOK, CallTypes, FeedTypes, LockInv, Next
  PROVE  LockInv'
<1>1. CASE UNCHANGED callVars
  BY <1>1 DEF LockInv, callVars
<1>2. ASSUME NEW c \in Calls, NEW p \in Filters, EnsureBegin(c, p) PROVE LockInv'
  BY <1>2, NoCallAssumption DEF EnsureBegin, TypeOK, CallTypes, FeedTypes, LockInv, LockFree
<1>3. ASSUME NEW c \in Calls, StopBegin(c) PROVE LockInv'
  BY <1>3, NoCallAssumption DEF StopBegin, TypeOK, CallTypes, FeedTypes, LockInv, LockFree
<1>4. ASSUME NEW c \in Calls, CallStep(c) PROVE LockInv'
  <2>1. CASE StopCancel(c) BY <2>1 DEF StopCancel, TypeOK, CallTypes, FeedTypes, LockInv
  <2>2. CASE StopTake(c) BY <2>2 DEF StopTake, TypeOK, CallTypes, FeedTypes, LockInv
  <2>3. CASE StopDrain(c) BY <2>3 DEF StopDrain, TypeOK, CallTypes, FeedTypes, LockInv
  <2>4. CASE Create(c) BY <2>4 DEF Create, TypeOK, CallTypes, FeedTypes, LockInv
  <2>5. CASE Resolve(c) BY <2>5 DEF Resolve, Register, TypeOK, CallTypes, FeedTypes, LockInv
  <2>6. CASE Started(c) BY <2>6 DEF Started, Register, TypeOK, CallTypes, FeedTypes, LockInv
  <2> QED BY <1>4, <2>1, <2>2, <2>3, <2>4, <2>5, <2>6 DEF CallStep
<1> QED BY <1>1, <1>2, <1>3, <1>4, CallsStep

\* A binding between stopping and starting works on a feed that exists, cancelled
\* from Stop's first step on and not before.
LEMMA CallFeedStep ==
  ASSUME TypeOK, LockInv, CallFeedInv, FeedInv, Next
  PROVE  CallFeedInv'
<1> USE DEF Feeds, Alive, Created
<1>1. CASE UNCHANGED <<callVars, nextFeed, cancelled>>
  BY <1>1 DEF CallFeedInv, callVars
<1>2. ASSUME NEW c \in Calls, NEW p \in Filters, EnsureBegin(c, p) PROVE CallFeedInv'
  BY <1>2 DEF EnsureBegin, TypeOK, CallTypes, FeedTypes, FeedInv, CallFeedInv, feedVars
<1>3. ASSUME NEW c \in Calls, StopBegin(c) PROVE CallFeedInv'
  BY <1>3 DEF StopBegin, TypeOK, CallTypes, FeedTypes, FeedInv, CallFeedInv, feedVars
<1>4. ASSUME NEW c \in Calls, CallStep(c) PROVE CallFeedInv'
  <2>1. CASE StopCancel(c)
    BY <2>1 DEF StopCancel, TypeOK, CallTypes, FeedTypes, LockInv, CallFeedInv
  <2>2. CASE StopTake(c)
    BY <2>2 DEF StopTake, TypeOK, CallTypes, FeedTypes, CallFeedInv
  <2>3. CASE StopDrain(c)
    BY <2>3 DEF StopDrain, TypeOK, CallTypes, FeedTypes, CallFeedInv, feedVars
  <2>4. CASE Create(c)
    BY <2>4 DEF Create, TypeOK, CallTypes, FeedTypes, LockInv, CallFeedInv
  <2>5. CASE Resolve(c)
    <3>1. /\ UNCHANGED <<nextFeed, cancelled>>
          /\ callPc[c] = "resolve"
          /\ \/ callPc' = [callPc EXCEPT ![c] = "attach"] /\ UNCHANGED callFeed
             \/ /\ callPc' = [callPc EXCEPT ![c] = "idle"]
                /\ callFeed' = [callFeed EXCEPT ![c] = 0]
      BY <2>5 DEF Resolve, Register, feedVars
    <3> QED BY <3>1 DEF TypeOK, CallTypes, FeedTypes, CallFeedInv
  <2>6. CASE Started(c)
    <3>1. /\ UNCHANGED nextFeed
          /\ callPc[c] = "attach"
          /\ callPc' = [callPc EXCEPT ![c] = "idle"]
          /\ callFeed' = [callFeed EXCEPT ![c] = 0]
          /\ UNCHANGED cancelled \/ cancelled' = [cancelled EXCEPT ![callFeed[c]] = TRUE]
      BY <2>6 DEF Started, Register
    <3>2. \A d \in Calls : callPc'[d] = "idle"
      BY <3>1 DEF LockInv, TypeOK, CallTypes, FeedTypes
    <3>3. \A f \in Feeds : cancelled'[f] => f = callFeed[c] \/ cancelled[f]
      BY <3>1 DEF TypeOK, CallTypes, FeedTypes
    <3>4. \A f \in Feeds : cancelled'[f] => Created(f)'
      BY <3>1, <3>3 DEF CallFeedInv
    <3> QED BY <3>2, <3>4 DEF CallFeedInv
  <2> QED BY <1>4, <2>1, <2>2, <2>3, <2>4, <2>5, <2>6 DEF CallStep
<1> QED BY <1>1, <1>2, <1>3, <1>4, CallsStep

\* A live feed is always answered for: by App.logcats, or by the binding that
\* starts or stops it.
LEMMA FeedStep ==
  ASSUME TypeOK, LockInv, CallFeedInv, FeedInv, Next
  PROVE  FeedInv'
<1> USE DEF Feeds, Alive, Created
<1>1. CASE UNCHANGED <<callVars, nextFeed, cancelled>>
  BY <1>1 DEF FeedInv, callVars
<1>2. ASSUME NEW c \in Calls, NEW p \in Filters, EnsureBegin(c, p) PROVE FeedInv'
  BY <1>2, NoCallAssumption DEF EnsureBegin, TypeOK, CallTypes, FeedTypes, LockInv, FeedInv, LockFree, feedVars
<1>3. ASSUME NEW c \in Calls, StopBegin(c) PROVE FeedInv'
  BY <1>3, NoCallAssumption DEF StopBegin, TypeOK, CallTypes, FeedTypes, LockInv, FeedInv, LockFree, feedVars
<1>4. ASSUME NEW c \in Calls, CallStep(c) PROVE FeedInv'
  <2>1. CASE StopCancel(c)
    BY <2>1 DEF StopCancel, TypeOK, CallTypes, FeedTypes, LockInv, FeedInv
  <2>2. CASE StopTake(c)
    BY <2>2 DEF StopTake, TypeOK, CallTypes, FeedTypes, FeedInv
  <2>3. CASE StopDrain(c)
    <3>1. /\ UNCHANGED <<logcats, nextFeed, cancelled>>
          /\ callPc[c] = "drain"
      BY <2>3 DEF StopDrain, feedVars
    <3>2. \A f \in Feeds : ~Alive(f)
      BY <3>1 DEF LockInv, CallFeedInv, FeedInv
    <3> QED BY <3>1, <3>2 DEF FeedInv
  <2>4. CASE Create(c)
    <3>1. /\ callPc[c] = "create" /\ nextFeed \in Feeds
          /\ nextFeed' = nextFeed + 1
          /\ callFeed' = [callFeed EXCEPT ![c] = nextFeed]
          /\ callPc'[c] \in {"resolve", "attach"}
          /\ UNCHANGED <<logcats, cancelled>>
      BY <2>4, BoundsAssumption DEF Create, TypeOK, CallTypes, FeedTypes
    <3>2. logcats = 0 /\ \A f \in Feeds : ~Alive(f)
      BY <3>1 DEF LockInv, FeedInv
    <3>3. \A f \in Feeds : Alive(f)' => f = nextFeed
      BY <3>1, <3>2, BoundsAssumption DEF TypeOK, CallTypes, FeedTypes
    <3> QED BY <3>1, <3>2, <3>3 DEF FeedInv, TypeOK, CallTypes, FeedTypes
  <2>5. CASE Resolve(c)
    <3>1. /\ UNCHANGED <<nextFeed, cancelled>>
          /\ callPc[c] = "resolve"
          /\ \/ callPc'[c] = "attach" /\ UNCHANGED <<callFeed, logcats>>
             \/ logcats' = callFeed[c]
      BY <2>5 DEF Resolve, Register, TypeOK, CallTypes, FeedTypes, feedVars
    <3>2. logcats = 0 /\ \A f \in Feeds : Alive(f) => f = callFeed[c]
      BY <3>1 DEF LockInv, FeedInv
    <3>3. Alive(callFeed[c])
      BY <3>1 DEF CallFeedInv
    <3> QED BY <3>1, <3>2, <3>3 DEF FeedInv
  <2>6. CASE Started(c)
    <3>1. /\ UNCHANGED nextFeed
          /\ callPc[c] = "attach"
          /\ \/ logcats' = callFeed[c] /\ UNCHANGED cancelled
             \/ /\ cancelled' = [cancelled EXCEPT ![callFeed[c]] = TRUE]
                /\ UNCHANGED logcats
      BY <2>6 DEF Started, Register
    <3>2. logcats = 0 /\ \A f \in Feeds : Alive(f) => f = callFeed[c]
      BY <3>1 DEF LockInv, FeedInv
    <3>3. Alive(callFeed[c])
      BY <3>1 DEF CallFeedInv
    <3>4. CASE UNCHANGED cancelled
      BY <3>1, <3>2, <3>3, <3>4 DEF FeedInv, TypeOK, CallTypes, FeedTypes
    <3>5. CASE cancelled' = [cancelled EXCEPT ![callFeed[c]] = TRUE] /\ UNCHANGED logcats
      <4>1. \A f \in Feeds : ~Alive(f)'
        BY <3>1, <3>2, <3>5 DEF TypeOK, CallTypes, FeedTypes
      <4> QED BY <3>2, <3>5, <4>1 DEF FeedInv
    <3> QED BY <3>1, <3>4, <3>5
  <2> QED BY <1>4, <2>1, <2>2, <2>3, <2>4, <2>5, <2>6 DEF CallStep
<1> QED BY <1>1, <1>2, <1>3, <1>4, CallsStep
-----------------------------------------------------------------------------
(* Attach activations.                                                     *)

\* attach is called by the start, by pollProcs or by a recovery.
LEMMA AttacherKinds ==
  ASSUME NEW a \in Attachers
  PROVE  \/ \E f \in Feeds : a = <<"start", f>>
         \/ \E f \in Feeds : a = <<"poll", f>>
         \/ \E s \in Streams : a = <<"rec", s>>
BY DEF Attachers

\* Which feed each goroutine that may call attach works for.
LEMMA Kinds ==
  /\ \A f \in Feeds : <<"start", f>> \in Attachers /\ FeedOf(<<"start", f>>) = f
  /\ \A f \in Feeds : <<"poll", f>> \in Attachers /\ FeedOf(<<"poll", f>>) = f
  /\ \A s \in Streams : <<"rec", s>> \in Attachers /\ FeedOf(<<"rec", s>>) = owner[s]
BY DEF Attachers, FeedOf

\* The goroutines that may call attach are told apart by kind and number.
LEMMA Distinct ==
  /\ \A x, y : <<"start", x>> # <<"poll", y>>
  /\ \A x, y : <<"start", x>> # <<"rec", y>>
  /\ \A x, y : <<"poll", x>> # <<"rec", y>>
  /\ \A x, y : <<"start", x>> = <<"start", y>> => x = y
  /\ \A x, y : <<"poll", x>> = <<"poll", y>> => x = y
  /\ \A x, y : <<"rec", x>> = <<"rec", y>> => x = y
OBVIOUS

\* An attach in progress works for a feed that was created.
LEMMA AttachFeed ==
  ASSUME CallFeedInv, AttachInv, StreamInv,
         NEW a \in Attachers, att[a].pc # "off"
  PROVE  Created(FeedOf(a))
<1>1. CASE \E f \in Feeds : a = <<"start", f>>
  <2>1. PICK f \in Feeds : a = <<"start", f>>
    BY <1>1
  <2>2. PICK c \in Calls : callPc[c] = "attach" /\ callFeed[c] = f
    BY <2>1 DEF AttachInv
  <2>3. Created(f)
    BY <2>2 DEF CallFeedInv
  <2>4. FeedOf(a) = f
    BY <2>1, Kinds
  <2> QED BY <2>3, <2>4
<1>2. CASE \E f \in Feeds : a = <<"poll", f>>
  <2>1. PICK f \in Feeds : a = <<"poll", f>>
    BY <1>2
  <2>2. Created(f)
    BY <2>1 DEF AttachInv
  <2>3. FeedOf(a) = f
    BY <2>1, Kinds
  <2> QED BY <2>2, <2>3
<1>3. CASE \E s \in Streams : a = <<"rec", s>>
  BY <1>3, Kinds DEF AttachInv, StreamInv
<1> QED BY <1>1, <1>2, <1>3, AttacherKinds
-----------------------------------------------------------------------------
(* Types.                                                                  *)

\* Killing a stream's client leaves every client in a known state.
LEMMA KillType ==
  ASSUME NEW p \in [Streams -> {"none", "up", "killed", "down"}], NEW s \in 0 .. MaxStreams
  PROVE  Kill(p, s) \in [Streams -> {"none", "up", "killed", "down"}]
BY DEF Kill

\* pidForPackage answers a pid the device handed out, or 0.
LEMMA PidType ==
  ASSUME TypeOK, NEW f \in Feeds
  PROVE  PidForPackage(f) \subseteq Pids
BY BoundsAssumption DEF TypeOK, FeedTypes, AppTypes, PidForPackage, Pids

\* Starting or ending an activation of attach keeps the type of all of them.
LEMMA AttachType ==
  ASSUME AttachTypes, NEW a \in Attachers, NEW p \in Pids
  PROVE  /\ att' = [att EXCEPT ![a] = Attach(p)] => AttachTypes'
         /\ att' = [att EXCEPT ![a] = Idle] => AttachTypes'
BY BoundsAssumption DEF AttachTypes, Attach, Idle, Pids

\* Updating one activation of attach leaves the others as they were.
LEMMA AttachAt ==
  ASSUME AttachTypes, NEW a \in Attachers, NEW v, att' = [att EXCEPT ![a] = v]
  PROVE  \A b \in Attachers : att'[b] = IF b = a THEN v ELSE att[b]
BY DEF AttachTypes

\* An activation holds no stream when it starts and when it is over.
LEMMA Activation ==
  /\ Idle.pc = "off" /\ Idle.new = 0
  /\ \A p \in Pids : Attach(p).pc = "spawn" /\ Attach(p).new = 0
BY DEF Idle, Attach

\* The steps of EnsureLogcat and StopLogcat keep every variable's type.
LEMMA CallType ==
  ASSUME TypeOK, CallFeedInv, NEW c \in Calls,
         \/ \E p \in Filters : EnsureBegin(c, p)
         \/ StopBegin(c)
         \/ CallStep(c)
  PROVE  TypeOK'
<1> USE DEF TypeOK
<1>1. ASSUME NEW p \in Filters, EnsureBegin(c, p) PROVE TypeOK'
  <2>1. UNCHANGED <<feedVars, streamVars, att, appVars, paneVars>>
    BY <1>1 DEF EnsureBegin
  <2>2. CallTypes'
    BY <1>1, BoundsAssumption, FiltersAssumption DEF EnsureBegin, CallTypes
  <2> QED BY <2>1, <2>2 DEF FeedTypes, StreamTypes, AttachTypes, AppTypes,
          feedVars, streamVars, appVars, paneVars
<1>2. CASE StopBegin(c)
  <2>1. UNCHANGED <<feedVars, streamVars, att, appVars, paneVars>>
    BY <1>2 DEF StopBegin
  <2>2. CallTypes'
    BY <1>2, BoundsAssumption DEF StopBegin, CallTypes
  <2> QED BY <2>1, <2>2 DEF FeedTypes, StreamTypes, AttachTypes, AppTypes,
          feedVars, streamVars, appVars, paneVars
<1>3. CASE StopCancel(c)
  <2>1. UNCHANGED <<streamVars, att, appVars, paneVars>>
    BY <1>3 DEF StopCancel
  <2>2. CallTypes' /\ FeedTypes'
    BY <1>3 DEF StopCancel, CallTypes, FeedTypes
  <2> QED BY <2>1, <2>2 DEF StreamTypes, AttachTypes, AppTypes, streamVars, appVars, paneVars
<1>4. CASE StopTake(c)
  <2>1. UNCHANGED <<att, appVars, paneVars>>
    BY <1>4 DEF StopTake
  <2>2. callFeed[c] \in Feeds
    BY <1>4 DEF StopTake, CallFeedInv, Created
  <2>3. CallTypes'
    BY <1>4, <2>2 DEF StopTake, CallTypes, FeedTypes
  <2>4. FeedTypes'
    <3>1. /\ UNCHANGED <<nextFeed, filter, cancelled, dead, lastPid, procs, batch, poll>>
          /\ cur' = [cur EXCEPT ![callFeed[c]] = 0]
      BY <1>4 DEF StopTake
    <3>2. 0 \in 0 .. MaxStreams
      BY BoundsAssumption
    <3>3. cur' \in [Feeds -> 0 .. MaxStreams]
      BY <3>1, <3>2, Zenon DEF FeedTypes
    <3> QED BY <3>1, <3>2 DEF FeedTypes
  <2>5. StreamTypes'
    BY <1>4, <2>2, KillType DEF StopTake, FeedTypes, StreamTypes
  <2> QED BY <2>1, <2>3, <2>4, <2>5 DEF AttachTypes, AppTypes, appVars, paneVars
<1>5. CASE StopDrain(c)
  <2>1. UNCHANGED <<feedVars, streamVars, att, appVars, paneVars>>
    BY <1>5 DEF StopDrain
  <2>2. CallTypes'
    BY <1>5, BoundsAssumption DEF StopDrain, CallTypes
  <2> QED BY <2>1, <2>2 DEF FeedTypes, StreamTypes, AttachTypes, AppTypes,
          feedVars, streamVars, appVars, paneVars
<1>6. CASE Create(c)
  <2>1. UNCHANGED <<streamVars, appVars, paneVars>>
    BY <1>6 DEF Create
  <2>2. nextFeed \in Feeds
    BY <1>6, BoundsAssumption DEF Create, FeedTypes, Feeds
  <2>3. CallTypes'
    BY <1>6, <2>2, BoundsAssumption DEF Create, CallTypes, Feeds
  <2>4. FeedTypes'
    <3>1. UNCHANGED <<cancelled, dead, cur, lastPid>> /\ nextFeed' = nextFeed + 1
      BY <1>6 DEF Create
    <3>2. nextFeed' \in 1 .. MaxFeeds + 1
      BY <2>2, <3>1, BoundsAssumption DEF FeedTypes, Feeds
    <3>3. filter' \in [Feeds -> {"none", "all", "app"}]
      BY <1>6 DEF Create, CallTypes, FeedTypes
    <3>4. procs' \in [Feeds -> Pids]
      <4>1. PICK p \in {0, appPid} : procs' = [procs EXCEPT ![nextFeed] = p]
        BY <1>6 DEF Create
      <4>2. p \in Pids
        BY BoundsAssumption DEF AppTypes, Pids
      <4> QED BY <4>1, <4>2 DEF FeedTypes
    <3>5. /\ batch' \in [Feeds -> {"off", "run", "done"}]
          /\ poll' \in [Feeds -> {"off", "idle", "refresh", "follow", "attach", "done"}]
      BY <1>6 DEF Create, FeedTypes
    <3> QED BY <3>1, <3>2, <3>3, <3>4, <3>5 DEF FeedTypes
  <2>5. AttachTypes'
    <3>1. 0 \in Pids /\ <<"start", nextFeed>> \in Attachers
      BY <2>2, BoundsAssumption, Kinds DEF Pids
    <3>2. att' = [att EXCEPT ![<<"start", nextFeed>>] = Attach(0)] \/ UNCHANGED att
      BY <1>6 DEF Create
    <3> QED BY <3>1, <3>2, AttachType DEF AttachTypes
  <2> QED BY <2>1, <2>3, <2>4, <2>5 DEF StreamTypes, AppTypes, streamVars, appVars, paneVars
<1>7. CASE Resolve(c)
  <2>1. UNCHANGED <<callStream, feedVars, streamVars, appVars>>
    BY <1>7 DEF Resolve
  <2>2. callFeed[c] \in Feeds
    BY <1>7 DEF Resolve, CallFeedInv, Created
  <2>3. CallTypes'
    BY <1>7, <2>1, BoundsAssumption DEF Resolve, Register, CallTypes
  <2>4. AttachTypes'
    <3>1. \/ UNCHANGED att
          \/ \E p \in Pids : att' = [att EXCEPT ![<<"start", callFeed[c]>>] = Attach(p)]
      BY <1>7, <2>2, PidType DEF Resolve
    <3> QED BY <2>2, <3>1, AttachType, Kinds DEF AttachTypes
  <2>5. AppTypes'
    BY <1>7, <2>1 DEF Resolve, AppTypes, appVars, paneVars
  <2> QED BY <2>1, <2>3, <2>4, <2>5 DEF FeedTypes, StreamTypes, feedVars, streamVars
<1>8. CASE Started(c)
  <2>1. UNCHANGED <<callStream, nextFeed, filter, dead, cur, lastPid, procs, batch,
                    poll, streamVars, appVars>>
    BY <1>8 DEF Started
  <2>2. callFeed[c] \in Feeds
    BY <1>8 DEF Started, CallFeedInv, Created
  <2>3. CallTypes'
    BY <1>8, <2>1, BoundsAssumption DEF Started, Register, CallTypes
  <2>4. FeedTypes'
    BY <1>8, <2>1 DEF Started, FeedTypes
  <2>5. AttachTypes'
    <3>1. att' = [att EXCEPT ![<<"start", callFeed[c]>>] = Idle] /\ 0 \in Pids
      BY <1>8, BoundsAssumption DEF Started, Pids
    <3> QED BY <2>2, <3>1, AttachType, Kinds
  <2>6. AppTypes'
    BY <1>8, <2>1 DEF Started, AppTypes, appVars, paneVars
  <2> QED BY <2>1, <2>3, <2>4, <2>5, <2>6 DEF StreamTypes, streamVars
<1> QED BY <1>1, <1>2, <1>3, <1>4, <1>5, <1>6, <1>7, <1>8 DEF CallStep

\* att[a] keeps its type under the updates attach makes.
LEMMA AttachUpdate ==
  ASSUME AttachTypes, NEW a \in Attachers, NEW n \in 0 .. MaxStreams,
         NEW q \in {"off", "spawn", "check", "abort", "install", "retire", "ok", "err"}
  PROVE  /\ att' = [att EXCEPT ![a].pc = q] => AttachTypes'
         /\ att' = [att EXCEPT ![a].pc = q, ![a].new = n] => AttachTypes'
         /\ att' = [att EXCEPT ![a].pc = q, ![a].old = n] => AttachTypes'
         /\ att' = [att EXCEPT ![a].pc = q, ![a].new = n, ![a].old = n] => AttachTypes'
BY DEF AttachTypes

\* The steps of attach keep every variable's type.
LEMMA AttachStepType ==
  ASSUME TypeOK, CallFeedInv, AttachInv, StreamInv, NEW a \in Attachers, AttachStep(a)
  PROVE  TypeOK'
<1> USE DEF TypeOK
<1>0. 0 \in 0 .. MaxStreams
  BY BoundsAssumption
<1>1. CASE Spawn(a)
  <2>1. UNCHANGED <<callVars, feedVars, reason, fwd, tries, appVars, paneVars>>
    BY <1>1 DEF Spawn
  <2>2. nextStream \in Streams /\ FeedOf(a) \in Feeds
    BY <1>1, BoundsAssumption, AttachFeed DEF Spawn, StreamTypes, Streams, Created
  <2>3. FeedOf(a) \in 0 .. MaxFeeds
    BY <2>2, BoundsAssumption DEF Feeds
  <2>4. nextStream' \in 1 .. MaxStreams + 1
    BY <1>1, <2>2, BoundsAssumption DEF Spawn, Streams
  <2>5. StreamTypes'
    BY <1>1, <2>1, <2>3, <2>4 DEF Spawn, StreamTypes
  <2>6. AttachTypes'
    <3>1. nextStream \in 0 .. MaxStreams
      BY <2>2, BoundsAssumption DEF Streams
    <3>2. att' = [att EXCEPT ![a].pc = "check", ![a].new = nextStream]
      BY <1>1 DEF Spawn
    <3> QED BY <3>1, <3>2, AttachUpdate
  <2> QED BY <2>1, <2>5, <2>6 DEF CallTypes, FeedTypes, AppTypes,
          callVars, feedVars, appVars, paneVars
<1>2. CASE SpawnFail(a)
  <2>1. UNCHANGED <<callVars, feedVars, streamVars, appVars, paneVars>>
    BY <1>2 DEF SpawnFail
  <2>2. AttachTypes'
    BY <1>0, <1>2, AttachUpdate DEF SpawnFail
  <2> QED BY <2>1, <2>2 DEF CallTypes, FeedTypes, StreamTypes, AppTypes,
          callVars, feedVars, streamVars, appVars, paneVars
<1>3. CASE Check(a)
  <2>1. UNCHANGED <<callVars, feedVars, nextStream, owner, reason, fwd, tries, appVars, paneVars>>
    BY <1>3 DEF Check
  <2>2. AttachTypes'
    BY <1>0, <1>3, AttachUpdate DEF Check
  <2>3. att[a].new \in 0 .. MaxStreams
    BY DEF AttachTypes
  <2>4. StreamTypes'
    BY <1>3, <2>1, <2>3, KillType DEF Check, StreamTypes
  <2> QED BY <2>1, <2>2, <2>4 DEF CallTypes, FeedTypes, AppTypes,
          callVars, feedVars, appVars, paneVars
<1>4. CASE Abort(a)
  <2>1. UNCHANGED <<callVars, feedVars, streamVars, appVars, paneVars>>
    BY <1>4 DEF Abort
  <2>2. AttachTypes'
    BY <1>0, <1>4, AttachUpdate DEF Abort
  <2> QED BY <2>1, <2>2 DEF CallTypes, FeedTypes, StreamTypes, AppTypes,
          callVars, feedVars, streamVars, appVars, paneVars
<1>5. CASE Install(a)
  <2>1. UNCHANGED <<callVars, nextFeed, filter, cancelled, dead, procs, batch, poll,
                    nextStream, owner, reason, tries, appVars, paneVars>>
    BY <1>5 DEF Install
  <2>2. FeedOf(a) \in Feeds /\ att[a].new \in 0 .. MaxStreams /\ att[a].pid \in Pids
    BY <1>5, AttachFeed DEF Install, Created, AttachTypes
  <2>3. cur[FeedOf(a)] \in 0 .. MaxStreams
    BY <2>2 DEF FeedTypes
  <2>4. FeedTypes'
    BY <1>5, <2>1, <2>2 DEF Install, FeedTypes
  <2>5. StreamTypes'
    BY <1>5, <2>1, <2>3, KillType DEF Install, StreamTypes
  <2>6. AttachTypes'
    <3>1. CASE cur[FeedOf(a)] # 0
      BY <1>5, <2>3, <3>1, AttachUpdate DEF Install
    <3>2. CASE cur[FeedOf(a)] = 0
      BY <1>0, <1>5, <3>2, AttachUpdate, ZenonT(40) DEF Install
    <3> QED BY <3>1, <3>2
  <2> QED BY <2>1, <2>4, <2>5, <2>6 DEF CallTypes, AppTypes, callVars, appVars, paneVars
<1>6. CASE Retire(a)
  <2>1. UNCHANGED <<callVars, feedVars, nextStream, owner, proc, reason, tries, appVars, paneVars>>
    BY <1>6 DEF Retire
  <2>2. StreamTypes'
    BY <1>6, <2>1 DEF Retire, StreamTypes
  <2>3. AttachTypes'
    BY <1>0, <1>6, AttachUpdate DEF Retire
  <2> QED BY <2>1, <2>2, <2>3 DEF CallTypes, FeedTypes, AppTypes,
          callVars, feedVars, appVars, paneVars
<1> QED BY <1>1, <1>2, <1>3, <1>4, <1>5, <1>6 DEF AttachStep

\* The adb client, its forwarder and its recovery keep every variable's type: a
\* recovery never counts past the schedule.
LEMMA StreamStepType ==
  ASSUME TypeOK, StreamInv, NEW s \in Streams, Exit(s) \/ StreamStep(s)
  PROVE  TypeOK'
<1> USE DEF TypeOK
<1>0. 0 \in Pids /\ 0 \in 0 .. Delays /\ <<"rec", s>> \in Attachers
  BY BoundsAssumption, Kinds DEF Pids
<1>1. CASE Exit(s)
  <2>1. StreamTypes'
    BY <1>1 DEF Exit, StreamTypes
  <2> QED BY <1>1, <2>1 DEF Exit, CallTypes, FeedTypes, AttachTypes, AppTypes,
          callVars, feedVars, appVars, paneVars
<1>2. CASE CtxKill(s)
  <2>1. StreamTypes'
    BY <1>2 DEF CtxKill, StreamTypes
  <2> QED BY <1>2, <2>1 DEF CtxKill, CallTypes, FeedTypes, AttachTypes, AppTypes,
          callVars, feedVars, appVars, paneVars
<1>3. CASE ForwardEnd(s)
  <2>1. StreamTypes'
    BY <1>3 DEF ForwardEnd, StreamTypes
  <2> QED BY <1>3, <2>1 DEF ForwardEnd, CallTypes, FeedTypes, AttachTypes, AppTypes,
          callVars, feedVars, appVars, paneVars
<1>4. CASE RecoverCancelled(s)
  <2>1. StreamTypes'
    BY <1>0, <1>4 DEF RecoverCancelled, StreamTypes
  <2> QED BY <1>4, <2>1 DEF RecoverCancelled, CallTypes, FeedTypes, AttachTypes, AppTypes,
          callVars, feedVars, appVars, paneVars
<1>5. NextTry(s) => /\ fwd' \in [Streams -> {"off", "reading", "wait", "probe", "attach", "fail", "done"}]
                    /\ tries' \in [Streams -> 0 .. Delays]
  <2>1. tries[s] \in 0 .. Delays
    BY DEF StreamTypes
  <2>2. (IF tries[s] + 1 >= Delays THEN 0 ELSE tries[s] + 1) \in 0 .. Delays
    BY <2>1, BoundsAssumption
  <2> QED BY <2>2 DEF NextTry, StreamTypes
<1>6. CASE RecoverTimer(s)
  <2>1. owner[s] \in Feeds
    BY <1>6 DEF RecoverTimer, StreamInv, Created
  <2>2. lastPid[owner[s]] \in Pids
    BY <2>1 DEF FeedTypes
  <2>3. AttachTypes'
    BY <1>0, <1>6, <2>2, AttachType DEF RecoverTimer, AttachTypes
  <2>4. StreamTypes'
    BY <1>6 DEF RecoverTimer, StreamTypes
  <2> QED BY <1>6, <2>3, <2>4 DEF RecoverTimer, CallTypes, FeedTypes, AppTypes,
          callVars, feedVars, appVars, paneVars
<1>7. CASE RecoverProbe(s)
  <2>1. owner[s] \in Feeds
    BY <1>7 DEF RecoverProbe, StreamInv, Created
  <2>2. PICK p \in Pids : RecoverProbe(s)!2!(p)
    BY <1>7, <2>1, PidType DEF RecoverProbe
  <2>3. AttachTypes'
    BY <1>0, <2>2, AttachType DEF AttachTypes
  <2>4. StreamTypes'
    BY <1>5, <1>7, <2>2 DEF RecoverProbe, StreamTypes
  <2> QED BY <1>7, <2>3, <2>4 DEF RecoverProbe, CallTypes, FeedTypes, AppTypes,
          callVars, feedVars, appVars, paneVars
<1>8. CASE RecoverAttached(s)
  <2>1. owner[s] \in Feeds
    BY <1>8 DEF RecoverAttached, StreamInv, Created
  <2>2. AttachTypes'
    BY <1>0, <1>8, AttachType DEF RecoverAttached
  <2>3. StreamTypes'
    BY <1>0, <1>5, <1>8 DEF RecoverAttached, StreamTypes
  <2>4. AppTypes'
    BY <1>8, <2>1 DEF RecoverAttached, AppTypes, appVars
  <2> QED BY <1>8, <2>2, <2>3, <2>4 DEF RecoverAttached, CallTypes, FeedTypes,
          callVars, feedVars
<1>9. CASE RecoverFail(s)
  <2>1. owner[s] \in Feeds
    BY <1>9 DEF RecoverFail, StreamInv, Created
  <2>2. FeedTypes' /\ StreamTypes'
    BY <1>9, <2>1 DEF RecoverFail, FeedTypes, StreamTypes
  <2>3. AppTypes'
    BY <1>9, <2>1 DEF RecoverFail, AppTypes, appVars
  <2> QED BY <1>9, <2>2, <2>3 DEF RecoverFail, CallTypes, AttachTypes, callVars
<1> QED BY <1>1, <1>2, <1>3, <1>4, <1>6, <1>7, <1>8, <1>9 DEF StreamStep

\* pollProcs and the batcher keep every variable's type.
LEMMA PollStepType ==
  ASSUME TypeOK, NEW f \in Feeds, PollStep(f) \/ BatchEmit(f) \/ BatchDone(f)
  PROVE  TypeOK'
<1> USE DEF TypeOK
<1>0. 0 \in Pids /\ <<"poll", f>> \in Attachers
  BY BoundsAssumption, Kinds DEF Pids
<1>1. CASE PollTick(f) \/ PollExit(f)
  <2>1. FeedTypes'
    BY <1>1 DEF PollTick, PollExit, FeedTypes
  <2> QED BY <1>1, <2>1 DEF PollTick, PollExit, CallTypes, StreamTypes, AttachTypes,
          AppTypes, callVars, streamVars, appVars, paneVars
<1>2. CASE PollRefresh(f)
  <2>1. PICK p \in Pids : procs' = [procs EXCEPT ![f] = p]
    BY <1>2 DEF PollRefresh, AppTypes, FeedTypes
  <2>2. FeedTypes'
    BY <1>2, <2>1 DEF PollRefresh, FeedTypes
  <2> QED BY <1>2, <2>2 DEF PollRefresh, CallTypes, StreamTypes, AttachTypes,
          AppTypes, callVars, streamVars, appVars, paneVars
<1>3. CASE PollFollow(f)
  <2>1. PICK p \in Pids : PollFollow(f)!2!(p)
    BY <1>3, PidType DEF PollFollow
  <2>2. AttachTypes'
    BY <1>0, <2>1, AttachType DEF AttachTypes
  <2>3. FeedTypes'
    BY <1>3, <2>1 DEF PollFollow, FeedTypes
  <2> QED BY <1>3, <2>2, <2>3 DEF PollFollow, CallTypes, StreamTypes,
          AppTypes, callVars, streamVars, appVars, paneVars
<1>4. CASE PollAttached(f)
  <2>1. AttachTypes'
    BY <1>0, <1>4, AttachType DEF PollAttached
  <2>2. FeedTypes'
    BY <1>4 DEF PollAttached, FeedTypes
  <2> QED BY <1>4, <2>1, <2>2 DEF PollAttached, CallTypes, StreamTypes,
          AppTypes, callVars, streamVars, appVars, paneVars
<1>5. CASE BatchEmit(f)
  BY <1>5 DEF BatchEmit, CallTypes, FeedTypes, StreamTypes, AttachTypes, AppTypes,
     callVars, feedVars, streamVars, appVars
<1>6. CASE BatchDone(f)
  <2>1. FeedTypes'
    BY <1>6 DEF BatchDone, FeedTypes
  <2> QED BY <1>6, <2>1 DEF BatchDone, CallTypes, StreamTypes, AttachTypes,
          AppTypes, callVars, streamVars, appVars, paneVars
<1> QED BY <1>1, <1>2, <1>3, <1>4, <1>5, <1>6 DEF PollStep

\* The filtered app's starts and exits keep every variable's type.
LEMMA AppType ==
  ASSUME TypeOK, AppStart \/ AppExit
  PROVE  TypeOK'
<1>1. AppTypes'
  <2>1. CASE AppStart
    BY <2>1, BoundsAssumption DEF TypeOK, AppStart, AppTypes, Pids, paneVars
  <2>2. CASE AppExit
    BY <2>2, BoundsAssumption DEF TypeOK, AppExit, AppTypes, Pids, paneVars
  <2> QED BY <2>1, <2>2
<1> QED BY <1>1 DEF AppStart, AppExit, TypeOK, CallTypes, FeedTypes, StreamTypes,
        AttachTypes, callVars, feedVars, streamVars

\* Every step keeps every variable's type.
LEMMA TypeStep ==
  ASSUME TypeOK, CallFeedInv, AttachInv, StreamInv, Next
  PROVE  TypeOK'
<1>1. ASSUME NEW c \in Calls,
             \/ \E p \in Filters : EnsureBegin(c, p)
             \/ StopBegin(c)
             \/ CallStep(c)
      PROVE  TypeOK'
  BY <1>1, CallType
<1>2. ASSUME NEW a \in Attachers, AttachStep(a) PROVE TypeOK'
  BY <1>2, AttachStepType
<1>3. ASSUME NEW s \in Streams, Exit(s) \/ StreamStep(s) PROVE TypeOK'
  BY <1>3, StreamStepType
<1>4. ASSUME NEW f \in Feeds, PollStep(f) \/ BatchEmit(f) \/ BatchDone(f) PROVE TypeOK'
  BY <1>4, PollStepType
<1>5. CASE AppStart \/ AppExit
  BY <1>5, AppType
<1> QED BY <1>1, <1>2, <1>3, <1>4, <1>5 DEF Next
-----------------------------------------------------------------------------
(* What a step that is not attach's own does to activations and streams.   *)

\* It touches only activations that hold no stream, spawns nothing, revives
\* nothing, and takes a stream out of its feed only by killing it.
NotAttach ==
  /\ \A a \in Attachers : \/ att'[a] = att[a]
                          \/ /\ att[a].pc \notin Holding
                             /\ att'[a].pc \in {"off", "spawn"}
                             /\ att'[a].new = 0
  /\ UNCHANGED <<nextStream, owner>>
  /\ \A s \in Streams : \/ proc'[s] = proc[s]
                        \/ proc[s] # "none" /\ proc'[s] # "up"
  /\ \A s \in Streams : fwd'[s] = fwd[s] \/ fwd[s] # "off"
  /\ \A f \in Feeds : cancelled[f] => cancelled'[f]
  /\ nextFeed' \in Nat /\ nextFeed' >= nextFeed
  /\ \A f \in Feeds : \/ cur'[f] = cur[f]
                      \/ cur[f] \in Streams => proc'[cur[f]] # "up"

\* The bindings.
LEMMA CallEffect ==
  ASSUME TypeOK, LockInv, CallFeedInv, AttachInv, NEW c \in Calls,
         \/ \E p \in Filters : EnsureBegin(c, p)
         \/ StopBegin(c)
         \/ CallStep(c)
  PROVE  NotAttach
<1> USE DEF TypeOK
<1>1. CASE (\E p \in Filters : EnsureBegin(c, p)) \/ StopBegin(c) \/ StopDrain(c)
  <2>1. UNCHANGED <<feedVars, streamVars, att>>
    BY <1>1 DEF EnsureBegin, StopBegin, StopDrain
  <2> QED BY <2>1, BoundsAssumption DEF NotAttach, feedVars, streamVars, FeedTypes
<1>3. CASE StopCancel(c)
  <2>1. /\ UNCHANGED <<nextFeed, cur, streamVars, att>>
        /\ cancelled' = [cancelled EXCEPT ![callFeed[c]] = TRUE]
    BY <1>3 DEF StopCancel
  <2>2. \A f \in Feeds : cancelled[f] => cancelled'[f]
    BY <2>1 DEF FeedTypes
  <2> QED BY <2>1, <2>2, BoundsAssumption DEF NotAttach, streamVars, FeedTypes
<1>4. CASE StopTake(c)
  <2>1. /\ UNCHANGED <<nextFeed, cancelled, nextStream, owner, fwd, att>>
        /\ proc' = Kill(proc, cur[callFeed[c]])
        /\ cur' = [cur EXCEPT ![callFeed[c]] = 0]
    BY <1>4 DEF StopTake
  <2>2. callFeed[c] \in Feeds
    BY <1>4 DEF StopTake, CallFeedInv, Created
  <2>3. \A s \in Streams : proc'[s] = proc[s] \/ (proc[s] # "none" /\ proc'[s] # "up")
    BY <2>1, <2>2 DEF Kill, FeedTypes, StreamTypes
  <2>4. cur[callFeed[c]] \in Streams => proc'[cur[callFeed[c]]] # "up"
    BY <2>1, <2>2, BoundsAssumption DEF Kill, StreamTypes, Streams
  <2>5. \A f \in Feeds : f # callFeed[c] => cur'[f] = cur[f]
    BY <2>1 DEF FeedTypes
  <2> QED BY <2>1, <2>3, <2>4, <2>5, BoundsAssumption DEF NotAttach, FeedTypes
<1>5. CASE Create(c)
  <2>1. /\ UNCHANGED <<cancelled, cur, streamVars>>
        /\ nextFeed' = nextFeed + 1
        /\ UNCHANGED att \/ att' = [att EXCEPT ![<<"start", nextFeed>>] = Attach(0)]
    BY <1>5 DEF Create
  <2>2. nextFeed \in Feeds
    BY <1>5, BoundsAssumption DEF Create, FeedTypes, Feeds
  <2>3. att[<<"start", nextFeed>>].pc = "off"
    <3>1. ASSUME NEW d \in Calls, callPc[d] = "attach", callFeed[d] = nextFeed PROVE FALSE
      BY <3>1, BoundsAssumption DEF CallFeedInv, Created, FeedTypes
    <3> QED BY <2>2, <3>1 DEF AttachInv
  <2>4. \A a \in Attachers : att'[a] = att[a] \/
          (att[a].pc = "off" /\ att'[a].pc = "spawn" /\ att'[a].new = 0)
    <3>1. <<"start", nextFeed>> \in Attachers /\ 0 \in Pids
      BY <2>2, Kinds, BoundsAssumption DEF Pids
    <3> QED BY <2>1, <2>3, <3>1, AttachAt, Activation
  <2> QED BY <2>1, <2>4, BoundsAssumption DEF NotAttach, Holding, streamVars, FeedTypes
<1>6. CASE Resolve(c)
  <2>1. /\ UNCHANGED <<feedVars, streamVars>>
        /\ callPc[c] = "resolve" /\ callFeed[c] \in Feeds
        /\ \/ UNCHANGED att
           \/ \E p \in Pids : att' = [att EXCEPT ![<<"start", callFeed[c]>>] = Attach(p)]
    <3>1. callFeed[c] \in Feeds
      BY <1>6 DEF Resolve, CallFeedInv, Created
    <3> QED BY <1>6, <3>1, PidType DEF Resolve
  <2>2. att[<<"start", callFeed[c]>>].pc = "off"
    <3>1. \A d \in Calls : callPc[d] # "attach"
      BY <2>1 DEF LockInv
    <3> QED BY <2>1, <3>1 DEF AttachInv
  <2>3. \A a \in Attachers : att'[a] = att[a] \/
          (att[a].pc = "off" /\ att'[a].pc = "spawn" /\ att'[a].new = 0)
    BY <2>1, <2>2, Kinds, AttachAt, Activation
  <2> QED BY <2>1, <2>3, BoundsAssumption DEF NotAttach, Holding, feedVars, streamVars, FeedTypes
<1>7. CASE Started(c)
  <2>1. /\ UNCHANGED <<nextFeed, cur, streamVars>>
        /\ att[<<"start", callFeed[c]>>].pc \in {"ok", "err"}
        /\ att' = [att EXCEPT ![<<"start", callFeed[c]>>] = Idle]
        /\ UNCHANGED cancelled \/ cancelled' = [cancelled EXCEPT ![callFeed[c]] = TRUE]
    BY <1>7 DEF Started
  <2>2. \A a \in Attachers : att'[a] = att[a] \/
          (att[a].pc \in {"ok", "err"} /\ att'[a].pc = "off" /\ att'[a].new = 0)
    BY <2>1 DEF AttachTypes, Idle
  <2>3. \A f \in Feeds : cancelled[f] => cancelled'[f]
    BY <2>1 DEF FeedTypes
  <2> QED BY <2>1, <2>2, <2>3, BoundsAssumption DEF NotAttach, Holding, streamVars, FeedTypes
<1> QED BY <1>1, <1>3, <1>4, <1>5, <1>6, <1>7 DEF CallStep

\* The adb clients, their forwarders and recoveries.
LEMMA StreamEffect ==
  ASSUME TypeOK, AttachInv, StreamInv, NEW s \in Streams, Exit(s) \/ StreamStep(s)
  PROVE  NotAttach
<1> USE DEF TypeOK
<1>0. nextFeed' = nextFeed /\ cancelled' = cancelled /\ cur' = cur => 
        /\ \A f \in Feeds : cancelled[f] => cancelled'[f]
        /\ nextFeed' \in Nat /\ nextFeed' >= nextFeed
        /\ \A f \in Feeds : cur'[f] = cur[f]
  BY BoundsAssumption DEF FeedTypes
<1>1. UNCHANGED <<nextFeed, cancelled, cur, nextStream, owner>>
  BY DEF StreamStep, Exit, CtxKill, ForwardEnd, RecoverCancelled, RecoverTimer, RecoverProbe,
         RecoverAttached, RecoverFail, feedVars
<1>2. \A t \in Streams : proc'[t] = proc[t] \/ (proc[t] # "none" /\ proc'[t] # "up")
  <2>1. \/ UNCHANGED proc
        \/ proc[s] \in {"up", "killed"} /\ proc' = [proc EXCEPT ![s] = "down"]
        \/ proc[s] = "up" /\ proc' = [proc EXCEPT ![s] = "killed"]
    BY DEF StreamStep, Exit, CtxKill, ForwardEnd, RecoverCancelled, RecoverTimer, RecoverProbe,
           RecoverAttached, RecoverFail
  <2> QED BY <2>1 DEF StreamTypes
<1>3. \A t \in Streams : fwd'[t] = fwd[t] \/ fwd[t] # "off"
  <2>1. UNCHANGED fwd \/ (fwd[s] # "off" /\ \E v : fwd' = [fwd EXCEPT ![s] = v])
    BY DEF StreamStep, Exit, CtxKill, ForwardEnd, RecoverCancelled, RecoverTimer, RecoverProbe,
           RecoverAttached, RecoverFail, NextTry
  <2> QED BY <2>1 DEF StreamTypes
<1>4. \A a \in Attachers : \/ att'[a] = att[a]
                           \/ /\ att[a].pc \notin Holding
                              /\ att'[a].pc \in {"off", "spawn"}
                              /\ att'[a].new = 0
  <2>1. CASE UNCHANGED att
    BY <2>1
  <2>2. CASE RecoverTimer(s) \/ RecoverProbe(s)
    <3>1. fwd[s] # "attach" /\ owner[s] \in Feeds
      BY <2>2 DEF RecoverTimer, RecoverProbe, StreamInv, Created
    <3>2. att[<<"rec", s>>].pc = "off"
      BY <3>1 DEF AttachInv
    <3>3. UNCHANGED att \/ \E p \in Pids : att' = [att EXCEPT ![<<"rec", s>>] = Attach(p)]
      BY <2>2, <3>1, PidType DEF RecoverTimer, RecoverProbe, FeedTypes
    <3> QED BY <3>2, <3>3, Kinds, AttachAt, Activation DEF Holding
  <2>3. CASE RecoverAttached(s)
    <3>1. /\ att[<<"rec", s>>].pc \in {"ok", "err"}
          /\ att' = [att EXCEPT ![<<"rec", s>>] = Idle]
      BY <2>3 DEF RecoverAttached
    <3> QED BY <3>1, Kinds, AttachAt, Activation DEF Holding
  <2> QED BY <2>1, <2>2, <2>3 DEF StreamStep, Exit, CtxKill, ForwardEnd, RecoverCancelled,
          RecoverFail
<1> QED BY <1>0, <1>1, <1>2, <1>3, <1>4 DEF NotAttach

\* pollProcs and the batcher.
LEMMA PollEffect ==
  ASSUME TypeOK, AttachInv, NEW f \in Feeds, PollStep(f) \/ BatchEmit(f) \/ BatchDone(f)
  PROVE  NotAttach
<1> USE DEF TypeOK
<1>1. UNCHANGED <<nextFeed, cancelled, cur, streamVars>>
  BY DEF PollStep, PollTick, PollExit, PollRefresh, PollFollow, PollAttached, BatchEmit,
         BatchDone, feedVars
<1>2. \A a \in Attachers : \/ att'[a] = att[a]
                           \/ /\ att[a].pc \notin Holding
                              /\ att'[a].pc \in {"off", "spawn"}
                              /\ att'[a].new = 0
  <2>1. CASE UNCHANGED att
    BY <2>1
  <2>2. CASE PollFollow(f)
    <3>1. UNCHANGED att \/ \E p \in Pids : att' = [att EXCEPT ![<<"poll", f>>] = Attach(p)]
      BY <2>2, PidType DEF PollFollow
    <3>2. att[<<"poll", f>>].pc = "off"
      BY <2>2 DEF PollFollow, AttachInv
    <3> QED BY <3>1, <3>2, Kinds, AttachAt, Activation DEF Holding
  <2>3. CASE PollAttached(f)
    <3>1. /\ att[<<"poll", f>>].pc \in {"ok", "err"}
          /\ att' = [att EXCEPT ![<<"poll", f>>] = Idle]
      BY <2>3 DEF PollAttached
    <3> QED BY <3>1, Kinds, AttachAt, Activation DEF Holding
  <2> QED BY <2>1, <2>2, <2>3 DEF PollStep, PollTick, PollExit, PollRefresh, BatchEmit, BatchDone
<1> QED BY <1>1, <1>2, BoundsAssumption DEF NotAttach, streamVars, FeedTypes

\* Either attach takes a step, or the step is one that leaves streams alone.
LEMMA Effect ==
  ASSUME TypeOK, LockInv, CallFeedInv, AttachInv, StreamInv, Next
  PROVE  NotAttach \/ \E a \in Attachers : AttachStep(a)
<1>1. ASSUME NEW c \in Calls,
             (\E p \in Filters : EnsureBegin(c, p)) \/ StopBegin(c) \/ CallStep(c)
      PROVE  NotAttach
  BY <1>1, CallEffect
<1>2. ASSUME NEW s \in Streams, Exit(s) \/ StreamStep(s) PROVE NotAttach
  BY <1>2, StreamEffect
<1>3. ASSUME NEW f \in Feeds, PollStep(f) \/ BatchEmit(f) \/ BatchDone(f) PROVE NotAttach
  BY <1>3, PollEffect
<1>4. CASE AppStart \/ AppExit
  BY <1>4, BoundsAssumption DEF AppStart, AppExit, NotAttach, TypeOK, FeedTypes, feedVars, streamVars
<1> QED BY <1>1, <1>2, <1>3, <1>4 DEF Next

\* A step outside attach neither hands a stream to an activation nor orphans one:
\* it starts no client, and what it takes from a feed it kills (Stop).
LEMMA NotAttachKeeps ==
  ASSUME TypeOK, StreamInv, NoOrphanStream, NotAttach
  PROVE  StreamInv' /\ NoOrphanStream'
<1>1. \A f \in Feeds : Created(f) => Created(f)'
  BY BoundsAssumption DEF NotAttach, Created, TypeOK, FeedTypes, Feeds
<1>2. \A s \in Streams : Spawned(s)' <=> Spawned(s)
  BY DEF NotAttach, Spawned
<1>3. \A a \in Attachers : FeedOf(a)' = FeedOf(a)
  BY DEF NotAttach, FeedOf
<1>4. StreamInv'
  <2>1. \A s \in Streams : /\ proc'[s] # "none" \/ fwd'[s] # "off" => Spawned(s)'
                           /\ Spawned(s)' => Created(owner[s])'
    BY <1>1, <1>2 DEF NotAttach, StreamInv, Created
  <2>2. ASSUME NEW a \in Attachers
        PROVE  IF att'[a].pc \in Holding
                 THEN /\ Spawned(att[a].new)'
                      /\ owner'[att'[a].new] = FeedOf(a)'
                      /\ fwd'[att'[a].new] = "off"
                 ELSE att'[a].new = 0
    <3>1. CASE att'[a] = att[a]
      <4>1. CASE att[a].pc \in Holding
        <5>1. Spawned(att[a].new) /\ owner[att[a].new] = FeedOf(a) /\ fwd[att[a].new] = "off"
          BY <4>1 DEF StreamInv
        <5>2. att[a].new \in Streams
          BY <5>1 DEF Spawned
        <5> QED BY <1>2, <1>3, <3>1, <4>1, <5>1, <5>2 DEF NotAttach
      <4> QED BY <3>1, <4>1 DEF StreamInv
    <3>2. CASE att'[a].pc \in {"off", "spawn"} /\ att'[a].new = 0
      BY <3>2 DEF Holding
    <3> QED BY <3>1, <3>2 DEF NotAttach
  <2>3. \A a, b \in Attachers : att'[a].new = att'[b].new /\ att'[a].new # 0 => a = b
    <3>1. \A a \in Attachers : att'[a].new # 0 => att'[a].new = att[a].new
      BY DEF NotAttach
    <3> QED BY <3>1 DEF StreamInv
  <2>4. UNCHANGED owner
    BY DEF NotAttach
  <2> QED BY <2>1, <2>2, <2>3, <2>4 DEF StreamInv
<1>5. NoOrphanStream'
  <2>1. SUFFICES ASSUME NEW s \in Streams, proc'[s] = "up", ~cancelled'[owner[s]]
                 PROVE  \/ cur'[owner[s]] = s
                        \/ \E a \in Attachers : att'[a].new = s /\ att'[a].pc \in {"check", "install"}
    BY DEF NotAttach, NoOrphanStream
  <2>2. proc[s] = "up" /\ owner[s] \in Feeds
    BY <2>1 DEF NotAttach, StreamInv, Created
  <2>3. ~cancelled[owner[s]]
    BY <2>1, <2>2 DEF NotAttach
  <2>4. CASE cur[owner[s]] = s
    BY <2>1, <2>2, <2>4 DEF NotAttach
  <2>5. CASE \E a \in Attachers : att[a].new = s /\ att[a].pc \in {"check", "install"}
    BY <2>5 DEF NotAttach, Holding
  <2> QED BY <2>1, <2>2, <2>3, <2>4, <2>5 DEF NoOrphanStream
<1> QED BY <1>4, <1>5
-----------------------------------------------------------------------------
(* attach's own steps.                                                     *)

\* What every step of an activation leaves to others.
LEMMA AttachFrame ==
  ASSUME TypeOK, StreamInv, NEW a \in Attachers, AttachStep(a)
  PROVE  /\ UNCHANGED <<callVars, nextFeed, cancelled, poll>>
         /\ att[a].pc # "off"
         /\ \A b \in Attachers : b # a => att'[b] = att[b]
         /\ \A s \in Streams : fwd'[s] = fwd[s] \/ (fwd[s] = "off" /\ Spawned(s))
<1> USE DEF TypeOK
<1>1. UNCHANGED <<callVars, nextFeed, cancelled, poll>> /\ att[a].pc # "off"
  BY DEF AttachStep, Spawn, SpawnFail, Check, Abort, Install, Retire, feedVars
<1>2. \A b \in Attachers : b # a => att'[b] = att[b]
  BY DEF AttachStep, Spawn, SpawnFail, Check, Abort, Install, Retire, AttachTypes
<1>3. \A s \in Streams : fwd'[s] = fwd[s] \/ (fwd[s] = "off" /\ Spawned(s))
  <2>1. CASE Install(a) \/ Retire(a)
    <3>1. att[a].pc \in Holding
      BY <2>1 DEF Install, Retire, Holding
    <3>2. Spawned(att[a].new) /\ fwd[att[a].new] = "off"
      BY <3>1 DEF StreamInv
    <3>3. UNCHANGED fwd \/ fwd' = [fwd EXCEPT ![att[a].new] = "reading"]
      BY <2>1 DEF Install, Retire
    <3> QED BY <3>2, <3>3 DEF StreamTypes
  <2>2. CASE UNCHANGED fwd
    BY <2>2
  <2> QED BY <2>1, <2>2 DEF AttachStep, Spawn, SpawnFail, Check, Abort, streamVars
<1> QED BY <1>1, <1>2, <1>3

\* An attach runs only while the goroutine that called it waits for it.
LEMMA AttachInvStep ==
  ASSUME TypeOK, LockInv, CallFeedInv, AttachInv, StreamInv, Next
  PROVE  AttachInv'
<1> USE DEF TypeOK
<1>1. ASSUME NEW a \in Attachers, AttachStep(a) PROVE AttachInv'
  <2>1. \A b \in Attachers : att'[b].pc # "off" => att[b].pc # "off"
    BY <1>1, AttachFrame
  <2>2. \A s \in Streams : fwd[s] = "attach" => fwd'[s] = "attach"
    BY <1>1, AttachFrame
  <2>3. UNCHANGED <<callVars, nextFeed, poll>>
    BY <1>1, AttachFrame
  <2> QED BY <2>1, <2>2, <2>3, Kinds, Distinct DEF AttachInv, Created, callVars
<1>2. ASSUME NEW c \in Calls,
             (\E p \in Filters : EnsureBegin(c, p)) \/ StopBegin(c) \/ CallStep(c)
      PROVE  AttachInv'
  <2>1. CASE \/ \E p \in Filters : EnsureBegin(c, p)
             \/ StopBegin(c) \/ StopCancel(c) \/ StopTake(c) \/ StopDrain(c)
    <3>1. /\ UNCHANGED <<nextFeed, poll, fwd, att>>
          /\ callPc[c] # "attach"
          /\ \A d \in Calls : d # c => callPc'[d] = callPc[d] /\ callFeed'[d] = callFeed[d]
      BY <2>1 DEF EnsureBegin, StopBegin, StopCancel, StopTake, StopDrain, feedVars, streamVars,
                  CallTypes
    <3> QED BY <3>1 DEF AttachInv, Created
  <2>2. CASE Create(c)
    <3>1. nextFeed \in Feeds
      BY <2>2, BoundsAssumption DEF Create, FeedTypes, Feeds
    <3>2. /\ nextFeed' = nextFeed + 1 /\ UNCHANGED fwd
          /\ callPc[c] = "create"
          /\ \A d \in Calls : d # c => callPc'[d] = callPc[d] /\ callFeed'[d] = callFeed[d]
          /\ callFeed'[c] = nextFeed
          /\ \A f \in Feeds : f # nextFeed => poll'[f] = poll[f]
          /\ \/ UNCHANGED att
             \/ /\ callPc'[c] = "attach"
                /\ att' = [att EXCEPT ![<<"start", nextFeed>>] = Attach(0)]
      BY <2>2 DEF Create, streamVars, CallTypes, FeedTypes
    <3>3. \A b \in Attachers : b # <<"start", nextFeed>> => att'[b] = att[b]
      BY <3>1, <3>2, Kinds, AttachAt
    <3>4. \A f \in Feeds : Created(f) => Created(f)'
      BY <3>2, BoundsAssumption DEF Created, FeedTypes, Feeds
    <3>5. \A f \in Feeds : att'[<<"start", f>>].pc # "off" =>
            \E d \in Calls : callPc'[d] = "attach" /\ callFeed'[d] = f
      <4>1. SUFFICES ASSUME NEW f \in Feeds, att'[<<"start", f>>].pc # "off"
                     PROVE  \E d \in Calls : callPc'[d] = "attach" /\ callFeed'[d] = f
        OBVIOUS
      <4>2. CASE att'[<<"start", f>>] = att[<<"start", f>>]
        <5>1. PICK d \in Calls : callPc[d] = "attach" /\ callFeed[d] = f
          BY <4>1, <4>2 DEF AttachInv
        <5> QED BY <3>2, <5>1
      <4>3. CASE att'[<<"start", f>>] # att[<<"start", f>>]
        <5>1. f = nextFeed
          BY <3>3, <4>3, Kinds
        <5> QED BY <3>2, <4>3, <5>1
      <4> QED BY <4>2, <4>3
    <3>6. \A f \in Feeds : f = nextFeed => Created(f)'
      BY <3>1, <3>2, BoundsAssumption DEF Created, FeedTypes, Feeds
    <3>7. \A f \in Feeds : att'[<<"poll", f>>].pc # "off" => poll'[f] = "attach"
      <4>1. ~Created(nextFeed)
        BY <3>1, BoundsAssumption DEF Created, FeedTypes
      <4>2. att[<<"poll", nextFeed>>].pc = "off"
        BY <3>1, <4>1 DEF AttachInv
      <4>3. \A f \in Feeds : att'[<<"poll", f>>] = att[<<"poll", f>>]
        BY <3>3, Kinds, Distinct
      <4>4. \A f \in Feeds : att[<<"poll", f>>].pc # "off" => poll[f] = "attach"
        BY DEF AttachInv
      <4> QED BY <3>2, <4>2, <4>3, <4>4
    <3>8. \A f \in Feeds : poll'[f] # "off" => Created(f)'
      BY <3>2, <3>4, <3>6 DEF AttachInv
    <3>9. \A s \in Streams : att'[<<"rec", s>>].pc # "off" => fwd'[s] = "attach"
      BY <3>2, <3>3, Kinds, Distinct DEF AttachInv
    <3> QED BY <3>5, <3>7, <3>8, <3>9 DEF AttachInv
  <2>3. CASE Resolve(c)
    <3>1. /\ UNCHANGED <<nextFeed, poll, fwd>>
          /\ callPc[c] = "resolve" /\ callFeed[c] \in Feeds
          /\ \A d \in Calls : d # c => callPc'[d] = callPc[d] /\ callFeed'[d] = callFeed[d]
          /\ \/ UNCHANGED att
             \/ /\ callPc'[c] = "attach" /\ callFeed'[c] = callFeed[c]
                /\ \E p \in Pids : att' = [att EXCEPT ![<<"start", callFeed[c]>>] = Attach(p)]
      <4>1. callFeed[c] \in Feeds
        BY <2>3 DEF Resolve, CallFeedInv, Created
      <4>2. PICK p \in Pids : Resolve(c)!2!(p)
        BY <2>3, <4>1, PidType DEF Resolve
      <4>3. callPc[c] = "resolve" /\ UNCHANGED <<nextFeed, poll, fwd>>
        BY <2>3 DEF Resolve, feedVars, streamVars
      <4> QED BY <4>1, <4>2, <4>3 DEF Register, CallTypes
    <3>2. \A b \in Attachers : b # <<"start", callFeed[c]>> => att'[b] = att[b]
      BY <3>1, Kinds, AttachAt
    <3>3. \A f \in Feeds : att'[<<"start", f>>].pc # "off" =>
            \E d \in Calls : callPc'[d] = "attach" /\ callFeed'[d] = f
      <4>1. SUFFICES ASSUME NEW f \in Feeds, att'[<<"start", f>>].pc # "off"
                     PROVE  \E d \in Calls : callPc'[d] = "attach" /\ callFeed'[d] = f
        OBVIOUS
      <4>2. CASE att'[<<"start", f>>] = att[<<"start", f>>]
        <5>1. PICK d \in Calls : callPc[d] = "attach" /\ callFeed[d] = f
          BY <4>1, <4>2 DEF AttachInv
        <5> QED BY <3>1, <5>1
      <4>3. CASE att'[<<"start", f>>] # att[<<"start", f>>]
        <5>1. f = callFeed[c]
          BY <3>2, <4>3, Kinds
        <5> QED BY <3>1, <4>3, <5>1
      <4> QED BY <4>2, <4>3
    <3> QED BY <3>1, <3>2, <3>3, Kinds, Distinct DEF AttachInv, Created
  <2>4. CASE Started(c)
    <3>1. /\ UNCHANGED <<nextFeed, poll, fwd>>
          /\ callPc[c] = "attach" /\ callFeed[c] \in Feeds
          /\ \A d \in Calls : d # c => callPc'[d] = callPc[d] /\ callFeed'[d] = callFeed[d]
          /\ att' = [att EXCEPT ![<<"start", callFeed[c]>>] = Idle]
      <4>1. callFeed[c] \in Feeds
        BY <2>4 DEF Started, CallFeedInv, Created
      <4> QED BY <2>4, <4>1 DEF Started, Register, CallTypes, streamVars
    <3>2. \A b \in Attachers : b # <<"start", callFeed[c]>> => att'[b] = att[b]
      BY <3>1, Kinds, AttachAt
    <3>3. att'[<<"start", callFeed[c]>>].pc = "off"
      <4>1. <<"start", callFeed[c]>> \in Attachers
        BY <3>1, Kinds
      <4>2. att'[<<"start", callFeed[c]>>] = Idle
        BY <3>1, <4>1 DEF AttachTypes
      <4> QED BY <4>2, Activation
    <3>4. \A f \in Feeds : att'[<<"start", f>>].pc # "off" =>
            \E d \in Calls : callPc'[d] = "attach" /\ callFeed'[d] = f
      <4>1. SUFFICES ASSUME NEW f \in Feeds, att'[<<"start", f>>].pc # "off"
                     PROVE  \E d \in Calls : callPc'[d] = "attach" /\ callFeed'[d] = f
        OBVIOUS
      <4>2. f # callFeed[c]
        BY <3>3, <4>1
      <4>3. att'[<<"start", f>>] = att[<<"start", f>>]
        BY <3>2, <4>2, Kinds, Distinct
      <4>4. PICK d \in Calls : callPc[d] = "attach" /\ callFeed[d] = f
        BY <4>1, <4>3 DEF AttachInv
      <4> QED BY <3>1, <4>2, <4>4
    <3> QED BY <3>1, <3>2, <3>4, Kinds, Distinct DEF AttachInv, Created
  <2> QED BY <1>2, <2>1, <2>2, <2>3, <2>4 DEF CallStep
<1>3. ASSUME NEW s \in Streams, Exit(s) \/ StreamStep(s) PROVE AttachInv'
  <2>1. UNCHANGED <<callVars, nextFeed, poll>>
    BY <1>3 DEF StreamStep, Exit, CtxKill, ForwardEnd, RecoverCancelled, RecoverTimer,
                RecoverProbe, RecoverAttached, RecoverFail, feedVars
  <2>2. \A t \in Streams : t # s => fwd'[t] = fwd[t]
    BY <1>3 DEF StreamStep, Exit, CtxKill, ForwardEnd, RecoverCancelled, RecoverTimer,
                RecoverProbe, RecoverAttached, RecoverFail, NextTry, StreamTypes
  <2>3. \A b \in Attachers : b # <<"rec", s>> => att'[b] = att[b]
    <3>1. UNCHANGED att \/ \E v : att' = [att EXCEPT ![<<"rec", s>>] = v]
      BY <1>3 DEF StreamStep, Exit, CtxKill, ForwardEnd, RecoverCancelled, RecoverTimer,
                  RecoverProbe, RecoverAttached, RecoverFail
    <3> QED BY <3>1, Kinds, AttachAt
  <2>4. att'[<<"rec", s>>].pc # "off" => fwd'[s] = "attach"
    <3>1. CASE Exit(s) \/ CtxKill(s)
      BY <3>1 DEF Exit, CtxKill, AttachInv
    <3>2. CASE ForwardEnd(s) \/ RecoverCancelled(s) \/ RecoverFail(s)
      BY <3>2 DEF ForwardEnd, RecoverCancelled, RecoverFail, AttachInv
    <3>3. CASE RecoverTimer(s)
      BY <3>3 DEF RecoverTimer, AttachInv, StreamTypes
    <3>4. CASE RecoverProbe(s)
      <4>1. fwd[s] = "probe" /\ (UNCHANGED att \/ fwd' = [fwd EXCEPT ![s] = "attach"])
        BY <3>4 DEF RecoverProbe
      <4> QED BY <4>1 DEF AttachInv, StreamTypes
    <3>5. CASE RecoverAttached(s)
      <4>1. att' = [att EXCEPT ![<<"rec", s>>] = Idle]
        BY <3>5 DEF RecoverAttached
      <4>2. <<"rec", s>> \in Attachers
        BY Kinds
      <4>3. att'[<<"rec", s>>] = Idle
        BY <4>1, <4>2 DEF AttachTypes
      <4> QED BY <4>3, Activation
    <3> QED BY <1>3, <3>1, <3>2, <3>3, <3>4, <3>5 DEF StreamStep
  <2> QED BY <2>1, <2>2, <2>3, <2>4, Kinds, Distinct DEF AttachInv, Created, callVars
<1>4. ASSUME NEW f \in Feeds, PollStep(f) \/ BatchEmit(f) \/ BatchDone(f) PROVE AttachInv'
  <2>1. /\ UNCHANGED <<callVars, nextFeed, fwd>>
        /\ UNCHANGED poll \/ (poll[f] # "off" /\ \E v : poll' = [poll EXCEPT ![f] = v])
    BY <1>4 DEF PollStep, PollTick, PollExit, PollRefresh, PollFollow, PollAttached, BatchEmit,
                BatchDone, feedVars, streamVars
  <2>2. \A g \in Feeds : g # f => poll'[g] = poll[g]
    BY <2>1 DEF FeedTypes
  <2>3. \A b \in Attachers : b # <<"poll", f>> => att'[b] = att[b]
    <3>1. UNCHANGED att \/ \E v : att' = [att EXCEPT ![<<"poll", f>>] = v]
      BY <1>4 DEF PollStep, PollTick, PollExit, PollRefresh, PollFollow, PollAttached, BatchEmit,
                  BatchDone
    <3> QED BY <3>1, Kinds, AttachAt
  <2>4. att'[<<"poll", f>>].pc # "off" => poll'[f] = "attach"
    <3>1. CASE PollTick(f) \/ PollExit(f) \/ PollRefresh(f) \/ BatchEmit(f) \/ BatchDone(f)
      BY <3>1 DEF PollTick, PollExit, PollRefresh, BatchEmit, BatchDone, feedVars, AttachInv
    <3>2. CASE PollFollow(f)
      <4>1. poll[f] = "follow" /\ (UNCHANGED att \/ poll' = [poll EXCEPT ![f] = "attach"])
        BY <3>2 DEF PollFollow
      <4>2. poll' = [poll EXCEPT ![f] = "attach"] => poll'[f] = "attach"
        BY DEF FeedTypes
      <4> QED BY <4>1, <4>2 DEF AttachInv
    <3>3. CASE PollAttached(f)
      <4>1. att' = [att EXCEPT ![<<"poll", f>>] = Idle]
        BY <3>3 DEF PollAttached
      <4>2. <<"poll", f>> \in Attachers
        BY Kinds
      <4>3. att'[<<"poll", f>>] = Idle
        BY <4>1, <4>2 DEF AttachTypes
      <4> QED BY <4>3, Activation
    <3> QED BY <1>4, <3>1, <3>2, <3>3 DEF PollStep
  <2>5. \A g \in Feeds : poll'[g] # "off" => Created(g)'
    BY <2>1, <2>2 DEF AttachInv, Created
  <2> QED BY <2>1, <2>2, <2>3, <2>4, <2>5, Kinds, Distinct DEF AttachInv, callVars
<1>5. CASE AppStart \/ AppExit
  BY <1>5 DEF AppStart, AppExit, AttachInv, Created, callVars, feedVars, streamVars
<1> QED BY <1>1, <1>2, <1>3, <1>4, <1>5 DEF Next

\* An activation keeps what StreamInv says of it.
HoldsWell(a) ==
  IF att[a].pc \in Holding
    THEN Spawned(att[a].new) /\ owner[att[a].new] = FeedOf(a) /\ fwd[att[a].new] = "off"
    ELSE att[a].new = 0

\* Spawn hands the newcomer to the activation that asked for it.
LEMMA SpawnKeeps ==
  ASSUME TypeOK, CallFeedInv, AttachInv, StreamInv, NoOrphanStream,
         NEW a \in Attachers, Spawn(a)
  PROVE  StreamInv' /\ NoOrphanStream'
<1> USE DEF TypeOK
<1> DEFINE n == nextStream
<1>1. /\ n \in Streams /\ n # 0 /\ ~Spawned(n)
      /\ nextStream' = n + 1
      /\ \A s \in Streams : Spawned(s)' <=> Spawned(s) \/ s = n
  BY BoundsAssumption DEF Spawn, Spawned, StreamTypes, Streams
<1>2. FeedOf(a) \in Feeds /\ Created(FeedOf(a)) /\ ~cancelled[FeedOf(a)]
  BY AttachFeed DEF Spawn, Created
<1>3. /\ UNCHANGED <<nextFeed, cancelled, cur, fwd>>
      /\ owner'[n] = FeedOf(a) /\ \A s \in Streams : s # n => owner'[s] = owner[s]
      /\ proc'[n] = "up" /\ \A s \in Streams : s # n => proc'[s] = proc[s]
  BY <1>1 DEF Spawn, feedVars, StreamTypes
<1>4. /\ att[a].pc = "spawn"
      /\ att'[a].pc = "check" /\ att'[a].new = n
      /\ \A b \in Attachers : b # a => att'[b] = att[b]
  BY DEF Spawn, AttachTypes
<1>5. /\ \A s \in Streams : proc[s] # "none" \/ fwd[s] # "off" => Spawned(s)
      /\ \A s \in Streams : Spawned(s) => Created(owner[s])
      /\ \A b \in Attachers : HoldsWell(b)
      /\ \A b, c \in Attachers : att[b].new = att[c].new /\ att[b].new # 0 => b = c
  BY DEF StreamInv, HoldsWell
<1>6. proc[n] = "none" /\ fwd[n] = "off"
  BY <1>1, <1>5
<1>7. \A b \in Attachers : att[b].new # n
  <2>1. SUFFICES ASSUME NEW b \in Attachers, att[b].new = n PROVE FALSE
    OBVIOUS
  <2>2. Spawned(att[b].new)
    BY <1>1, <1>5, <2>1 DEF HoldsWell
  <2> QED BY <1>1, <2>1, <2>2
<1>8. \A b \in Attachers : att[b].pc # "off" => FeedOf(b)' = FeedOf(b)
  <2>1. att[<<"rec", n>>].pc = "off"
    BY <1>1, <1>6 DEF AttachInv
  <2> QED BY <1>3, <2>1, AttacherKinds DEF FeedOf
<1>9. \A b \in Attachers : HoldsWell(b)'
  <2>1. HoldsWell(a)'
    BY <1>1, <1>3, <1>4, <1>6, <1>8 DEF HoldsWell, Holding
  <2>2. ASSUME NEW b \in Attachers, b # a PROVE HoldsWell(b)'
    <3>1. CASE att[b].pc \in Holding
      <4>1. Spawned(att[b].new) /\ owner[att[b].new] = FeedOf(b) /\ fwd[att[b].new] = "off"
        BY <1>5, <3>1 DEF HoldsWell
      <4>2. att[b].new \in Streams /\ att[b].new # n
        BY <1>7, <4>1 DEF Spawned
      <4>3. Spawned(att[b].new)' /\ owner'[att[b].new] = FeedOf(b)'
        BY <1>1, <1>3, <1>4, <1>8, <2>2, <3>1, <4>1, <4>2 DEF Holding
      <4> QED BY <1>3, <1>4, <2>2, <3>1, <4>1, <4>3 DEF HoldsWell
    <3> QED BY <1>4, <1>5, <2>2, <3>1 DEF HoldsWell
  <2> QED BY <2>1, <2>2
<1>10. StreamInv'
  <2>1. \A s \in Streams : proc'[s] # "none" \/ fwd'[s] # "off" => Spawned(s)'
    BY <1>1, <1>3, <1>5
  <2>2. \A s \in Streams : Spawned(s)' => Created(owner[s])'
    BY <1>1, <1>2, <1>3, <1>5 DEF Created
  <2>3. \A b, c \in Attachers : att'[b].new = att'[c].new /\ att'[b].new # 0 => b = c
    BY <1>4, <1>5, <1>7
  <2> QED BY <1>9, <2>1, <2>2, <2>3 DEF StreamInv, HoldsWell
<1>11. NoOrphanStream'
  <2>1. SUFFICES ASSUME NEW s \in Streams, proc'[s] = "up", ~cancelled'[owner'[s]]
                 PROVE  \/ cur'[owner'[s]] = s
                        \/ \E b \in Attachers : att'[b].new = s /\ att'[b].pc \in {"check", "install"}
    BY DEF NoOrphanStream
  <2>2. CASE s = n
    BY <1>4, <2>2
  <2>3. CASE s # n
    <3>1. proc[s] = "up" /\ owner'[s] = owner[s] /\ ~cancelled[owner[s]]
      BY <1>3, <2>1, <2>3
    <3>2. CASE cur[owner[s]] = s
      BY <1>3, <3>1, <3>2
    <3>3. CASE \E b \in Attachers : att[b].new = s /\ att[b].pc \in {"check", "install"}
      BY <1>4, <3>3
    <3> QED BY <3>1, <3>2, <3>3 DEF NoOrphanStream
  <2> QED BY <2>2, <2>3
<1> QED BY <1>10, <1>11

\* No other step of an activation starts a client.
LEMMA HolderSpawnsNone ==
  ASSUME TypeOK, CallFeedInv, AttachInv, StreamInv, NEW a \in Attachers,
         SpawnFail(a) \/ Check(a) \/ Abort(a) \/ Install(a) \/ Retire(a)
  PROVE  \A s \in Streams : proc'[s] # "none" => proc[s] # "none"
<1> USE DEF TypeOK
<1>1. UNCHANGED proc \/ \E s \in 0 .. MaxStreams : proc' = Kill(proc, s)
  <2>1. CASE Check(a)
    BY <2>1 DEF Check, AttachTypes
  <2>2. CASE Install(a)
    <3>1. cur[FeedOf(a)] \in 0 .. MaxStreams
      BY <2>2, AttachFeed DEF Install, Created, FeedTypes
    <3> QED BY <2>2, <3>1 DEF Install
  <2>3. CASE SpawnFail(a) \/ Abort(a) \/ Retire(a)
    BY <2>3 DEF SpawnFail, Abort, Retire, streamVars
  <2> QED BY <2>1, <2>2, <2>3
<1> QED BY <1>1 DEF Kill, StreamTypes

\* The other steps of an activation: what they do to streams, and what they
\* leave.
LEMMA HolderKeeps ==
  ASSUME TypeOK, CallFeedInv, AttachInv, StreamInv, NEW a \in Attachers,
         SpawnFail(a) \/ Check(a) \/ Abort(a) \/ Install(a) \/ Retire(a)
  PROVE  StreamInv'
<1> USE DEF TypeOK
<1>1. UNCHANGED <<nextFeed, nextStream, owner>>
  BY DEF SpawnFail, Check, Abort, Install, Retire, feedVars, streamVars
<1>2. /\ \A s \in Streams : proc[s] # "none" \/ fwd[s] # "off" => Spawned(s)
      /\ \A s \in Streams : Spawned(s) => Created(owner[s])
      /\ \A b \in Attachers : HoldsWell(b)
      /\ \A b, c \in Attachers : att[b].new = att[c].new /\ att[b].new # 0 => b = c
  BY DEF StreamInv, HoldsWell
<1>3. \A s \in Streams : proc'[s] # "none" => proc[s] # "none"
  BY HolderSpawnsNone
<1>4. AttachStep(a)
  BY DEF AttachStep
<1>5. /\ \A b \in Attachers : b # a => att'[b] = att[b]
      /\ \A s \in Streams : fwd'[s] = fwd[s] \/ (fwd[s] = "off" /\ Spawned(s))
  BY <1>4, AttachFrame
<1>6. att'[a].new = att[a].new \/ att'[a].new = 0
  BY DEF SpawnFail, Check, Abort, Install, Retire, AttachTypes
<1>7. \A b \in Attachers : HoldsWell(b)'
  <2>1. HoldsWell(a)'
    <3>1. CASE SpawnFail(a) \/ Abort(a) \/ Retire(a)
      <4>1. att'[a].pc \notin Holding /\ att'[a].new = 0
        <5>1. CASE SpawnFail(a)
          <6>1. att[a].pc = "spawn" /\ att' = [att EXCEPT ![a].pc = "err"]
            BY <5>1 DEF SpawnFail
          <6>2. att[a].new = 0
            BY <1>2, <6>1 DEF HoldsWell, Holding
          <6> QED BY <6>1, <6>2 DEF AttachTypes, Holding
        <5>2. CASE Abort(a)
          BY <5>2 DEF Abort, AttachTypes, Holding
        <5>3. CASE Retire(a)
          BY <5>3 DEF Retire, AttachTypes, Holding
        <5> QED BY <3>1, <5>1, <5>2, <5>3
      <4> QED BY <4>1 DEF HoldsWell
    <3>2. CASE Check(a) \/ Install(a)
      <4>1. att[a].pc \in Holding
        BY <3>2 DEF Check, Install, Holding
      <4>2. Spawned(att[a].new) /\ owner[att[a].new] = FeedOf(a) /\ fwd[att[a].new] = "off"
        BY <1>2, <4>1 DEF HoldsWell
      <4>3. \/ att'[a].pc \in Holding /\ att'[a].new = att[a].new /\ UNCHANGED fwd
            \/ att'[a].pc = "ok" /\ att'[a].new = 0
        BY <3>2 DEF Check, Install, AttachTypes, Holding
      <4>4. FeedOf(a)' = FeedOf(a)
        BY <1>1 DEF FeedOf
      <4>5. CASE att'[a].pc \in Holding /\ att'[a].new = att[a].new /\ UNCHANGED fwd
        <5>1. Spawned(att[a].new)'
          BY <1>1, <4>2, <4>5 DEF Spawned
        <5> QED BY <1>1, <4>2, <4>4, <4>5, <5>1 DEF HoldsWell
      <4>6. CASE att'[a].pc = "ok" /\ att'[a].new = 0
        BY <4>6 DEF HoldsWell, Holding
      <4> QED BY <4>3, <4>5, <4>6
    <3> QED BY <3>1, <3>2
  <2>2. ASSUME NEW b \in Attachers, b # a PROVE HoldsWell(b)'
    <3>1. CASE att[b].pc \in Holding
      <4>1. Spawned(att[b].new) /\ owner[att[b].new] = FeedOf(b) /\ fwd[att[b].new] = "off"
        BY <1>2, <3>1 DEF HoldsWell
      <4>2. att[b].new \in Streams /\ att[b].new # 0
        BY <4>1 DEF Spawned, Streams
      <4>3. att[b].new # att[a].new
        BY <1>2, <2>2, <4>2
      <4>4. fwd'[att[b].new] = fwd[att[b].new]
        <5>1. UNCHANGED fwd \/ fwd' = [fwd EXCEPT ![att[a].new] = "reading"]
          BY DEF SpawnFail, Check, Abort, Install, Retire, streamVars
        <5> QED BY <4>2, <4>3, <5>1 DEF StreamTypes
      <4> QED BY <1>1, <1>5, <2>2, <3>1, <4>1, <4>4 DEF HoldsWell, FeedOf, Spawned
    <3> QED BY <1>2, <1>5, <2>2, <3>1 DEF HoldsWell
  <2> QED BY <2>1, <2>2
<1>8. \A b, c \in Attachers : att'[b].new = att'[c].new /\ att'[b].new # 0 => b = c
  BY <1>2, <1>5, <1>6
<1>9. \A s \in Streams : /\ proc'[s] # "none" \/ fwd'[s] # "off" => Spawned(s)'
                         /\ Spawned(s)' => Created(owner[s])'
  BY <1>1, <1>2, <1>3, <1>5 DEF Spawned, Created
<1> QED BY <1>7, <1>8, <1>9 DEF StreamInv, HoldsWell

\* Past the spawn, attach keeps hold of its newcomer until it is the feed's current
\* stream or killed, and kills the stream it replaces.
LEMMA HolderNoOrphan ==
  ASSUME TypeOK, CallFeedInv, AttachInv, StreamInv, NoOrphanStream, NEW a \in Attachers,
         SpawnFail(a) \/ Check(a) \/ Abort(a) \/ Install(a) \/ Retire(a)
  PROVE  NoOrphanStream'
<1> USE DEF TypeOK
<1>1. SUFFICES ASSUME NEW s \in Streams, proc'[s] = "up", ~cancelled'[owner'[s]]
               PROVE  \/ cur'[owner'[s]] = s
                      \/ \E b \in Attachers : att'[b].new = s /\ att'[b].pc \in {"check", "install"}
  BY DEF NoOrphanStream
<1>2. UNCHANGED <<cancelled, owner>>
  BY DEF SpawnFail, Check, Abort, Install, Retire, feedVars, streamVars
<1>3. \A b \in Attachers : b # a => att'[b] = att[b]
  BY DEF SpawnFail, Check, Abort, Install, Retire, AttachTypes
<1>4. CASE SpawnFail(a) \/ Abort(a) \/ Retire(a)
  <2>1. UNCHANGED <<cur, proc>> /\ att[a].pc \notin {"check", "install"}
    BY <1>4 DEF SpawnFail, Abort, Retire, feedVars, streamVars
  <2>2. \/ cur[owner[s]] = s
        \/ \E b \in Attachers : att[b].new = s /\ att[b].pc \in {"check", "install"}
    BY <1>1, <1>2, <2>1 DEF NoOrphanStream
  <2> QED BY <1>2, <1>3, <2>1, <2>2
<1>5. CASE Check(a)
  <2>1. att[a].pc = "check" /\ UNCHANGED cur
    BY <1>5 DEF Check, feedVars
  <2>2. Spawned(att[a].new) /\ owner[att[a].new] = FeedOf(a)
    BY <2>1 DEF StreamInv, Holding
  <2>3. att[a].new \in Streams
    BY <2>2 DEF Spawned
  <2>4. CASE cancelled[FeedOf(a)]
    <3>1. proc' = Kill(proc, att[a].new)
      BY <1>5, <2>4 DEF Check
    <3>2. s # att[a].new /\ proc[s] = "up"
      BY <1>1, <1>2, <2>2, <2>3, <2>4, <3>1 DEF Kill, StreamTypes
    <3>3. \/ cur[owner[s]] = s
          \/ \E b \in Attachers : att[b].new = s /\ att[b].pc \in {"check", "install"}
      BY <1>1, <1>2, <3>2 DEF NoOrphanStream
    <3> QED BY <1>2, <1>3, <2>1, <3>2, <3>3
  <2>5. CASE ~cancelled[FeedOf(a)]
    <3>1. UNCHANGED proc /\ att'[a].pc = "install" /\ att'[a].new = att[a].new
      BY <1>5, <2>5 DEF Check, AttachTypes
    <3>2. \/ cur[owner[s]] = s
          \/ \E b \in Attachers : att[b].new = s /\ att[b].pc \in {"check", "install"}
      BY <1>1, <1>2, <3>1 DEF NoOrphanStream
    <3> QED BY <1>2, <1>3, <2>1, <3>1, <3>2
  <2> QED BY <2>4, <2>5
<1>6. CASE Install(a)
  <2> DEFINE f == FeedOf(a)
  <2>1. att[a].pc = "install" /\ f \in Feeds
    BY <1>6, AttachFeed DEF Install, Created
  <2>2. cur' = [cur EXCEPT ![f] = att[a].new] /\ proc' = Kill(proc, cur[f])
    BY <1>6 DEF Install
  <2>3. owner[att[a].new] = f
    BY <2>1 DEF StreamInv, Holding
  <2>4. proc[s] = "up" /\ cur[f] # s
    BY <1>1, <2>1, <2>2, BoundsAssumption DEF Kill, FeedTypes, StreamTypes, Streams
  <2>5. CASE s = att[a].new
    BY <1>2, <2>1, <2>2, <2>3, <2>5 DEF FeedTypes
  <2>6. CASE s # att[a].new
    <3>1. owner[s] \in Feeds
      BY <2>4 DEF StreamInv, Created
    <3>2. \/ cur[owner[s]] = s
          \/ \E b \in Attachers : att[b].new = s /\ att[b].pc \in {"check", "install"}
      BY <1>1, <1>2, <2>4 DEF NoOrphanStream
    <3>3. CASE cur[owner[s]] = s
      BY <1>2, <2>2, <2>4, <3>1, <3>3 DEF FeedTypes
    <3>4. CASE \E b \in Attachers : att[b].new = s /\ att[b].pc \in {"check", "install"}
      BY <1>3, <2>6, <3>4
    <3> QED BY <3>2, <3>3, <3>4
  <2> QED BY <2>5, <2>6
<1> QED BY <1>4, <1>5, <1>6
-----------------------------------------------------------------------------
(* The theorems.                                                           *)

\* The inductive invariant holds when the app starts.
LEMMA InitInv == Init => IInv
<1> SUFFICES ASSUME Init PROVE IInv
  OBVIOUS
<1>1. TypeOK
  <2>1. CallTypes /\ FeedTypes /\ StreamTypes /\ AppTypes
    BY BoundsAssumption DEF Init, CallTypes, FeedTypes, StreamTypes, AppTypes, Pids
  <2>2. AttachTypes
    BY BoundsAssumption DEF Init, AttachTypes, Idle, Pids
  <2> QED BY <2>1, <2>2 DEF TypeOK
<1>2. LockInv /\ CallFeedInv
  BY DEF Init, LockInv, CallFeedInv
<1>3. FeedInv
  BY BoundsAssumption DEF Init, FeedInv, Alive, Created, Feeds
<1>4. \A a \in Attachers : att[a].pc = "off" /\ att[a].new = 0
  BY DEF Init, Idle
<1>5. AttachInv
  BY <1>4, Kinds DEF Init, AttachInv
<1>6. StreamInv
  <2>1. \A s \in Streams : proc[s] = "none" /\ fwd[s] = "off" /\ ~Spawned(s)
    BY BoundsAssumption DEF Init, Spawned, Streams
  <2> QED BY <1>4, <2>1 DEF StreamInv, Holding
<1>7. NoOrphanStream
  BY DEF Init, NoOrphanStream
<1> QED BY <1>1, <1>2, <1>3, <1>5, <1>6, <1>7 DEF IInv

\* Every step keeps the inductive invariant.
LEMMA NextInv == IInv /\ [Next]_vars => IInv'
<1> SUFFICES ASSUME IInv, [Next]_vars PROVE IInv'
  OBVIOUS
<1> USE DEF IInv
<1>1. CASE Next
  <2>1. TypeOK' BY <1>1, TypeStep
  <2>2. LockInv' BY <1>1, LockStep DEF TypeOK
  <2>3. CallFeedInv' BY <1>1, CallFeedStep
  <2>4. FeedInv' BY <1>1, FeedStep
  <2>5. AttachInv' BY <1>1, AttachInvStep
  <2>6. StreamInv' /\ NoOrphanStream'
    <3>1. CASE NotAttach
      BY <3>1, NotAttachKeeps
    <3>2. ASSUME NEW a \in Attachers, AttachStep(a) PROVE StreamInv' /\ NoOrphanStream'
      BY <3>2, SpawnKeeps, HolderKeeps, HolderNoOrphan DEF AttachStep
    <3> QED BY <1>1, <3>1, <3>2, Effect
  <2> QED BY <2>1, <2>2, <2>3, <2>4, <2>5, <2>6
<1>2. CASE UNCHANGED vars
  <2> USE <1>2 DEF vars, callVars, feedVars, streamVars, appVars, paneVars
  <2>1. TypeOK' BY DEF TypeOK, CallTypes, FeedTypes, StreamTypes, AttachTypes, AppTypes
  <2>2. LockInv' /\ CallFeedInv' /\ FeedInv'
    BY DEF LockInv, CallFeedInv, FeedInv, Alive, Created
  <2>3. AttachInv' /\ NoOrphanStream'
    BY DEF AttachInv, NoOrphanStream, Created
  <2>4. StreamInv'
    BY DEF StreamInv, Spawned, Created, FeedOf
  <2> QED BY <2>1, <2>2, <2>3, <2>4
<1> QED BY <1>1, <1>2

\* The inductive invariant holds in every reachable state.
THEOREM Invariant == Spec => []IInv
BY InitInv, NextInv, PTL DEF Spec

\* Every variable of the feed machinery keeps its type: in particular recover
\* never counts more attempts than reconnectDelays has entries.
THEOREM TypeCorrect == Spec => []TypeOK
<1>1. IInv => TypeOK
  BY DEF IInv
<1> QED BY <1>1, Invariant, PTL

\* A device never has two live feeds, whatever EnsureLogcat and StopLogcat do
\* concurrently: the live one is registered, or the holder of lcMu has it.
THEOREM OneLive == Spec => []OneLiveFeed
<1>1. IInv => OneLiveFeed
  <2>1. SUFFICES ASSUME IInv, NEW f \in Feeds, NEW g \in Feeds, Alive(f), Alive(g) PROVE f = g
    BY DEF OneLiveFeed
  <2>2. f # 0 /\ g # 0
    BY DEF Feeds
  <2>3. \A c, d \in Calls : callPc[c] # "idle" /\ callPc[d] # "idle" => c = d /\ logcats = 0
    BY <2>1 DEF IInv, LockInv
  <2> QED BY <2>1, <2>2, <2>3 DEF IInv, FeedInv
<1> QED BY <1>1, Invariant, PTL

\* While lcMu is free, the registered feed is alive and no other is.
THEOREM Registered == Spec => []LiveIsRegistered
<1>1. IInv => LiveIsRegistered
  <2>1. SUFFICES ASSUME IInv PROVE LiveIsRegistered
    OBVIOUS
  <2>2. LockFree => \A c \in Calls : callPc[c] = "idle"
    BY <2>1, NoCallAssumption DEF IInv, LockInv, LockFree
  <2> QED BY <2>1, <2>2 DEF IInv, FeedInv, LiveIsRegistered
<1> QED BY <1>1, Invariant, PTL

\* attach leaks no adb client, with three goroutines swapping streams at once.
THEOREM NoOrphan == Spec => []NoOrphanStream
<1>1. IInv => NoOrphanStream
  BY DEF IInv
<1> QED BY <1>1, Invariant, PTL

\* No live feed has two running clients forwarded at the same time.
THEOREM OneForward == Spec => []NoDoubleForward
<1>1. IInv => NoDoubleForward
  <2>1. SUFFICES ASSUME IInv, NEW s \in Streams, NEW t \in Streams,
                        fwd[s] = "reading", fwd[t] = "reading",
                        proc[s] = "up", proc[t] = "up",
                        owner[s] = owner[t], ~cancelled[owner[s]]
                 PROVE  s = t
    BY DEF NoDoubleForward
  <2>2. \A a \in Attachers : att[a].pc \in {"check", "install"} => fwd[att[a].new] = "off"
    BY <2>1 DEF IInv, StreamInv, Holding
  <2>3. cur[owner[s]] = s /\ cur[owner[t]] = t
    BY <2>1, <2>2 DEF IInv, NoOrphanStream
  <2> QED BY <2>1, <2>3
<1> QED BY <1>1, Invariant, PTL

-----------------------------------------------------------------------------
(* Who notices the end of a feed's stream.                                 *)

\* A step that leaves a feed's streams alone may register it only with a stream, or
\* under a package filter.
LEMMA FeedFrame ==
  ASSUME NEW f \in Feeds, AnswerFeed(f),
         UNCHANGED <<nextFeed, filter, dead, cur, poll, nextStream, owner, fwd>>,
         cancelled[f] => cancelled'[f],
         logcats' = f => logcats = f \/ cur[f] # 0 \/ filter[f] = "app",
         \A b \in Attachers : att[b].pc = "retire" => att'[b] = att[b],
         att'[<<"start", f>>].pc \in {"retire", "ok"} => att[<<"start", f>>].pc \in {"retire", "ok"}
  PROVE  AnswerFeed(f)'
<1>1. cur[f] # 0 /\ Answered(cur[f]) => Answered(cur[f])'
  BY DEF Answered
<1>2. (Created(f)' <=> Created(f)) /\ (Alive(f)' => Alive(f)) /\ (Alive(f)' => ~cancelled'[f])
  BY DEF Alive, Created
<1> QED BY <1>1, <1>2 DEF AnswerFeed, Spawned

\* The binding that stops a feed empties it of its stream only when it is cancelled, and
\* the one that starts it registers it when it has one, or a poll to wait for one.
LEMMA AnswerCallStep ==
  ASSUME IInv, AnswerInv, NEW c \in Calls,
         (\E p \in Filters : EnsureBegin(c, p)) \/ StopBegin(c) \/ CallStep(c)
  PROVE  AnswerInv'
<1> USE DEF IInv, TypeOK, CallTypes, FeedTypes, AnswerInv
<1>1. CASE (\E p \in Filters : EnsureBegin(c, p)) \/ StopBegin(c)
  <2>1. /\ UNCHANGED <<feedVars, streamVars, att>>
        /\ logcats' = 0
        /\ \E p \in {"none"} \cup Filters :
             /\ callFilter' = [callFilter EXCEPT ![c] = p]
             /\ \/ callPc' = [callPc EXCEPT ![c] = "cancel"]
                \/ p # "none" /\ callPc' = [callPc EXCEPT ![c] = "create"]
        /\ callPc[c] = "idle" /\ LockFree
    BY <1>1, FiltersAssumption DEF EnsureBegin, StopBegin
  <2>2. \A d \in Calls : callPc[d] = "idle"
    BY <2>1, NoCallAssumption DEF LockFree, LockInv
  <2>3. ASSUME NEW f \in Feeds PROVE AnswerFeed(f)'
    <3>1. AnswerFeed(f) /\ logcats' # f BY <2>1 DEF Feeds
    <3> QED BY <2>1, <3>1, FeedFrame DEF feedVars, streamVars
  <2>4. \A s \in Streams : AnswerRec(s)'
    BY <2>1 DEF AnswerRec, feedVars, streamVars
  <2>5. (\A d \in Calls : AnswerCall(d))'
    BY <2>1, <2>2 DEF AnswerCall
  <2> QED BY <2>3, <2>4, <2>5
<1>2. CASE StopCancel(c)
  <2>1. \A f \in Feeds : AnswerFeed(f)'
    BY <1>2, FeedFrame DEF StopCancel, streamVars
  <2>2. (\A d \in Calls : AnswerCall(d))' BY <1>2 DEF StopCancel, AnswerCall
  <2>3. \A s \in Streams : AnswerRec(s)' BY <1>2 DEF StopCancel, AnswerRec, streamVars
  <2> QED BY <2>1, <2>2, <2>3
<1>3. CASE StopTake(c)
  <2>1. callFeed[c] \in Feeds /\ cancelled[callFeed[c]] /\ logcats = 0
    BY <1>3 DEF StopTake, CallFeedInv, LockInv, Created
  <2>2. \A f \in Feeds : AnswerFeed(f)'
    <3>1. ASSUME NEW f \in Feeds, f # callFeed[c] PROVE AnswerFeed(f)'
      <4>1. cur'[f] = cur[f] BY <1>3, <3>1 DEF StopTake
      <4>2. AnswerFeed(f) OBVIOUS
      <4>3. Answered(cur[f]) => Answered(cur[f])' BY <1>3, <4>1 DEF StopTake, Answered
      <4> QED BY <1>3, <4>1, <4>2, <4>3 DEF StopTake, AnswerFeed, Spawned, Alive, Created
    <3>2. AnswerFeed(callFeed[c])'
      <4>1. cur'[callFeed[c]] = 0 /\ UNCHANGED callFeed BY <1>3, <2>1 DEF StopTake
      <4>2. ~Alive(callFeed[c])' BY <1>3, <2>1 DEF StopTake, Alive
      <4>3. AnswerFeed(callFeed[c]) BY <2>1
      <4> QED BY <1>3, <2>1, <4>1, <4>2, <4>3 DEF StopTake, AnswerFeed, Created, Feeds
    <3> QED BY <1>3, <3>1, <3>2 DEF StopTake
  <2>3. (\A d \in Calls : AnswerCall(d))' BY <1>3 DEF StopTake, AnswerCall
  <2>4. \A s \in Streams : AnswerRec(s)'
    BY <1>3, <2>1 DEF StopTake, AnswerRec, StreamTypes, Streams
  <2> QED BY <2>2, <2>3, <2>4
<1>4. CASE StopDrain(c)
  <2>1. \A f \in Feeds : AnswerFeed(f)'
    BY <1>4, FeedFrame DEF StopDrain, feedVars, streamVars
  <2>2. (\A d \in Calls : AnswerCall(d))'
    BY <1>4 DEF StopDrain, AnswerCall, LockInv, feedVars
  <2>3. \A s \in Streams : AnswerRec(s)' BY <1>4 DEF StopDrain, AnswerRec, feedVars, streamVars
  <2> QED BY <2>1, <2>2, <2>3
<1>5. CASE Create(c)
  <2> DEFINE n == nextFeed
  <2>1. n \in Feeds /\ logcats = 0 /\ ~Created(n) /\ cur[n] = 0
    <3>1. n \in Feeds /\ logcats = 0 /\ ~Created(n)
      BY <1>5, BoundsAssumption DEF Create, LockInv, Feeds, Created
    <3>2. cur[n] # 0 => Spawned(cur[n]) /\ owner[cur[n]] = n BY <3>1 DEF AnswerFeed
    <3>3. ASSUME cur[n] # 0 PROVE FALSE
      <4>1. Spawned(cur[n]) /\ cur[n] \in Streams BY <3>2, <3>3 DEF Spawned
      <4>2. Created(owner[cur[n]]) BY <4>1 DEF StreamInv
      <4> QED BY <3>1, <3>2, <3>3, <4>2
    <3> QED BY <3>1, <3>3
  <2>2. /\ \A f \in Feeds : f # n => att'[<<"start", f>>] = att[<<"start", f>>]
        /\ att'[<<"start", n>>].pc \in {"spawn", "off"}
        /\ \A s \in Streams : att'[<<"rec", s>>] = att[<<"rec", s>>]
        /\ \A a \in Attachers : att[a].pc = "retire" => att'[a] = att[a]
    <3>1. att[<<"start", n>>].pc = "off"
      <4>1. SUFFICES ASSUME att[<<"start", n>>].pc # "off" PROVE FALSE OBVIOUS
      <4>2. PICK d \in Calls : callPc[d] = "attach" /\ callFeed[d] = n BY <2>1, <4>1 DEF AttachInv
      <4> QED BY <2>1, <4>2 DEF CallFeedInv
    <3>2. UNCHANGED att \/ att' = [att EXCEPT ![<<"start", n>>] = Attach(0)]
      BY <1>5 DEF Create
    <3>3. \A f \in Feeds : f # n => <<"start", f>> # <<"start", n>> BY Distinct
    <3>4. \A b \in Attachers : b # <<"start", n>> => att'[b] = att[b] BY <3>2 DEF AttachTypes
    <3>5. att'[<<"start", n>>].pc \in {"spawn", "off"}
      <4>1. <<"start", n>> \in Attachers BY <2>1, Kinds
      <4> QED BY <3>1, <3>2, <4>1 DEF Attach, AttachTypes
    <3> QED BY <3>1, <3>3, <3>4, <3>5, Kinds, Distinct
  <2>3. /\ filter' = [filter EXCEPT ![n] = callFilter[c]]
        /\ poll' = [poll EXCEPT ![n] = "idle"]
        /\ UNCHANGED <<logcats, callFilter, cancelled, dead, cur, streamVars>>
        /\ nextFeed' = n + 1
        /\ callFeed' = [callFeed EXCEPT ![c] = n]
        /\ callPc[c] = "create"
        /\ \/ callPc' = [callPc EXCEPT ![c] = "attach"]
           \/ callFilter[c] # "all" /\ callPc' = [callPc EXCEPT ![c] = "resolve"]
    BY <1>5 DEF Create
  <2>4. ASSUME NEW f \in Feeds PROVE AnswerFeed(f)'
    <3>1. CASE f = n
      BY <2>1, <2>2, <2>3, <3>1 DEF AnswerFeed, Feeds
    <3>2. CASE f # n
      <4>2. Answered(cur[f]) => Answered(cur[f])'
        BY <2>2, <2>3 DEF Answered, streamVars
      <4>3. (Created(f)' <=> Created(f)) /\ (Alive(f)' <=> Alive(f))
        BY <2>3, <3>2, BoundsAssumption DEF Alive, Created, Feeds
      <4>4. AnswerFeed(f) OBVIOUS
      <4>5. /\ filter'[f] = filter[f] /\ poll'[f] = poll[f] /\ cur'[f] = cur[f]
            /\ att'[<<"start", f>>] = att[<<"start", f>>]
        BY <2>2, <2>3, <3>2
      <4> QED BY <2>3, <4>2, <4>3, <4>4, <4>5 DEF AnswerFeed, Spawned, streamVars
    <3> QED BY <3>1, <3>2
  <2>5. (\A d \in Calls : AnswerCall(d))'
    BY <2>1, <2>3, FiltersAssumption DEF AnswerCall, LockInv
  <2>6. \A s \in Streams : AnswerRec(s)'
    BY <2>2, <2>3 DEF AnswerRec, streamVars
  <2> QED BY <2>4, <2>5, <2>6
<1>6. CASE Resolve(c) \/ Started(c)
  <2> DEFINE g == callFeed[c]
  <2>1. /\ g \in Feeds /\ Alive(g) /\ logcats = 0
        /\ callPc[c] \in {"resolve", "attach"}
    BY <1>6 DEF Resolve, Started, CallFeedInv, LockInv, Created, Alive
  <2>2. /\ UNCHANGED <<nextFeed, filter, dead, cur, poll, streamVars>>
        /\ callPc'[c] \in {"idle", "attach"}
        /\ \A d \in Calls : d # c => callPc'[d] = callPc[d]
        /\ \A f \in Feeds : cancelled[f] => cancelled'[f]
        /\ logcats' \in {0, g}
        /\ logcats' = g => UNCHANGED cancelled /\ (filter[g] = "app" \/ att[<<"start", g>>].pc = "ok")
    <3>1. CASE Resolve(c)
      <4>1. filter[g] = "app" BY <3>1 DEF Resolve, AnswerCall
      <4> QED BY <2>1, <3>1, <4>1 DEF Resolve, Register, feedVars
    <3>2. CASE Started(c)
      <4>1. /\ UNCHANGED <<nextFeed, filter, dead, cur, poll, streamVars>>
            /\ callPc' = [callPc EXCEPT ![c] = "idle"]
            /\ \/ logcats' = g /\ UNCHANGED cancelled /\ att[<<"start", g>>].pc = "ok"
               \/ UNCHANGED logcats /\ cancelled' = [cancelled EXCEPT ![g] = TRUE]
        BY <3>2 DEF Started, Register
      <4>2. g # 0 BY <2>1 DEF Feeds
      <4> QED BY <2>1, <4>1, <4>2
    <3> QED BY <1>6, <3>1, <3>2
  <2>3. /\ \A f \in Feeds : f # g => att'[<<"start", f>>] = att[<<"start", f>>]
        /\ att'[<<"start", g>>].pc \in {"spawn", "off"} \/ UNCHANGED att
        /\ \A s \in Streams : att'[<<"rec", s>>] = att[<<"rec", s>>]
        /\ \A a \in Attachers : att[a].pc = "retire" => att'[a] = att[a]
    <3>1. \/ UNCHANGED att
          \/ /\ att[<<"start", g>>].pc # "retire"
             /\ \E v : v.pc \in {"spawn", "off"} /\ att' = [att EXCEPT ![<<"start", g>>] = v]
      <4>1. callPc[c] = "resolve" => att[<<"start", g>>].pc = "off"
        <5>1. SUFFICES ASSUME callPc[c] = "resolve", att[<<"start", g>>].pc # "off" PROVE FALSE
          OBVIOUS
        <5>2. PICK d \in Calls : callPc[d] = "attach" /\ callFeed[d] = g BY <2>1, <5>1 DEF AttachInv
        <5>3. d = c BY <5>1, <5>2 DEF LockInv
        <5> QED BY <5>1, <5>2, <5>3
      <4>2. \A p : Attach(p).pc = "spawn" /\ Idle.pc = "off" BY DEF Attach, Idle
      <4> QED BY <1>6, <4>1, <4>2 DEF Resolve, Started
    <3>2. \A b \in Attachers : b # <<"start", g>> => att'[b] = att[b] BY <3>1 DEF AttachTypes
    <3>3. UNCHANGED att
          \/ (att[<<"start", g>>].pc # "retire" /\ att'[<<"start", g>>].pc \in {"spawn", "off"})
      <4>1. <<"start", g>> \in Attachers BY <2>1, Kinds
      <4>2. CASE att' # att
        <5>1. PICK v : v.pc \in {"spawn", "off"} /\ att' = [att EXCEPT ![<<"start", g>>] = v]
          BY <3>1, <4>2
        <5>2. att'[<<"start", g>>] = v BY <4>1, <5>1 DEF AttachTypes
        <5> QED BY <3>1, <4>2, <5>1, <5>2
      <4> QED BY <4>2
    <3>4. \A f \in Feeds : f # g => <<"start", f>> # <<"start", g>> BY Distinct
    <3> QED BY <3>2, <3>3, <3>4, Kinds, Distinct
  <2>4. ASSUME NEW f \in Feeds PROVE AnswerFeed(f)'
    <3>1. Answered(cur[f]) => Answered(cur[f])'
      BY <2>2, <2>3 DEF Answered, streamVars
    <3>2. (Created(f)' <=> Created(f)) /\ (Alive(f)' => Alive(f))
      BY <2>2 DEF Alive, Created
    <3>3. AnswerFeed(f) OBVIOUS
    <3>4. att'[<<"start", f>>].pc \in {"retire", "ok"} => att[<<"start", f>>].pc \in {"retire", "ok"}
      BY <2>3
    <3>5. f = logcats' /\ filter[f] = "all" => cur[f] # 0
      BY <2>1, <2>2, <3>3 DEF AnswerFeed
    <3> QED BY <2>2, <3>1, <3>2, <3>3, <3>4, <3>5 DEF AnswerFeed, Spawned, streamVars
  <2>5. (\A d \in Calls : AnswerCall(d))'
    BY <2>1, <2>2 DEF AnswerCall, LockInv
  <2>6. \A s \in Streams : AnswerRec(s)'
    BY <2>2, <2>3 DEF AnswerRec, streamVars
  <2> QED BY <2>4, <2>5, <2>6
<1> QED BY <1>1, <1>2, <1>3, <1>4, <1>5, <1>6 DEF CallStep

\* An attach swaps the stream and starts a forwarder for it before it is over.
LEMMA AnswerAttachStep ==
  ASSUME IInv, AnswerInv, NEW a \in Attachers, AttachStep(a)
  PROVE  AnswerInv'
<1> USE DEF IInv, TypeOK, FeedTypes, AnswerInv
<1>1. /\ UNCHANGED <<callVars, nextFeed, filter, cancelled, dead, poll>>
      /\ \A s \in Streams : Spawned(s) => Spawned(s)' /\ owner'[s] = owner[s]
      /\ \A b \in Attachers : b # a => att'[b] = att[b]
      /\ att[a].pc # "off"
  <2>1. \A s \in Streams : Spawned(s) => Spawned(s)' /\ owner'[s] = owner[s]
    BY BoundsAssumption DEF AttachStep, Spawn, SpawnFail, Check, Abort, Install, Retire, streamVars,
       Spawned, StreamTypes, Streams
  <2>2. \E v : att' = [att EXCEPT ![a] = v]
    BY DEF AttachStep, Spawn, SpawnFail, Check, Abort, Install, Retire, AttachTypes
  <2>3. \A b \in Attachers : b # a => att'[b] = att[b]
    BY <2>2, AttachAt
  <2> QED BY <2>1, <2>3
     DEF AttachStep, Spawn, SpawnFail, Check, Abort, Install, Retire, feedVars
<1>2. (\A d \in Calls : AnswerCall(d))'
  BY <1>1 DEF AnswerCall, callVars
<1>3. \A f \in Feeds : (Created(f)' <=> Created(f)) /\ (Alive(f)' <=> Alive(f))
  BY <1>1 DEF Created, Alive
<1>4. CASE Spawn(a) \/ SpawnFail(a) \/ Check(a) \/ Abort(a)
  <2>1. /\ UNCHANGED <<cur, fwd>>
        /\ att[a].pc # "retire" /\ att'[a].pc \notin {"retire", "ok"}
    BY <1>4 DEF Spawn, SpawnFail, Check, Abort, feedVars, streamVars, AttachTypes
  <2>2. \A b \in Attachers : /\ att[b].pc = "retire" => att'[b] = att[b]
                             /\ att'[b].pc \in {"retire", "ok"} => att'[b] = att[b]
    BY <1>1, <2>1
  <2>3. ASSUME NEW f \in Feeds PROVE AnswerFeed(f)'
    <3>1. Answered(cur[f]) => Answered(cur[f])'
      BY <2>1, <2>2 DEF Answered
    <3>2. AnswerFeed(f) OBVIOUS
    <3>3. cur[f] # 0 => cur[f] \in Streams BY DEF Streams
    <3> QED BY <1>1, <1>3, <2>1, <2>2, <3>1, <3>2, <3>3, Kinds DEF AnswerFeed, callVars
  <2>4. ASSUME NEW s \in Streams PROVE AnswerRec(s)'
    <3>1. att[<<"rec", s>>].pc # "off" => Spawned(s) BY DEF AttachInv, StreamInv
    <3> QED BY <1>1, <2>1, <2>2, <3>1, Kinds DEF AnswerRec
  <2> QED BY <1>2, <2>3, <2>4
<1>5. CASE Install(a)
  <2>0. PICK g, n : g = FeedOf(a) /\ n = att[a].new OBVIOUS
  <2>1. /\ g \in Feeds /\ n \in Streams /\ Spawned(n) /\ owner[n] = g /\ fwd[n] = "off"
    BY <1>1, <1>5, <2>0, AttachFeed DEF Install, StreamInv, Holding, Spawned, Created
  <2>2. /\ cur' = [cur EXCEPT ![g] = n]
        /\ UNCHANGED owner
        /\ \A s \in Streams : s # n => fwd'[s] = fwd[s]
        /\ \/ att'[a].pc = "retire" /\ att'[a].new = n
           \/ fwd'[n] = "reading"
        /\ att[a].pc = "install"
    BY <1>5, <2>0, <2>1 DEF Install, AttachTypes, StreamTypes
  <2>3. ASSUME NEW f \in Feeds PROVE AnswerFeed(f)'
    <3>1. AnswerFeed(f) OBVIOUS
    <3>2. CASE f = g
      <4>1. cur'[f] = n /\ n # 0 BY <2>1, <2>2, <3>2 DEF Streams
      <4>2. Answered(n)' BY <2>2 DEF Answered
      <4>3. Answered(cur[f])' BY <4>1, <4>2 DEF Answered
      <4>4. Spawned(n)' /\ owner'[n] = f BY <1>1, <2>1, <2>2, <3>2
      <4> QED BY <1>1, <1>3, <3>1, <4>1, <4>3, <4>4 DEF AnswerFeed, callVars, Spawned
    <3>3. CASE f # g
      <4>1. cur'[f] = cur[f] BY <2>1, <2>2, <3>3
      <4>2. cur[f] # 0 => cur[f] \in Streams /\ cur[f] # n
        BY <2>1, <3>1, <3>3 DEF AnswerFeed, Spawned
      <4>3. cur[f] # 0 /\ Answered(cur[f]) => Answered(cur[f])'
        BY <1>1, <2>2, <4>2 DEF Answered
      <4>4. FeedOf(<<"start", f>>) = f BY Kinds
      <4>5. att'[<<"start", f>>] = att[<<"start", f>>] BY <1>1, <2>0, <3>3, <4>4, Kinds
      <4> QED BY <1>1, <1>3, <2>2, <3>1, <4>1, <4>2, <4>3, <4>5 DEF AnswerFeed, callVars
    <3> QED BY <3>2, <3>3
  <2>4. ASSUME NEW s \in Streams PROVE AnswerRec(s)'
    <3>1. CASE a = <<"rec", s>>
      <4>1. fwd[s] = "attach" BY <1>1, <3>1 DEF AttachInv
      <4>2. g = owner[s] BY <2>0, <3>1, Kinds
      <4> QED BY <2>1, <2>2, <4>1, <4>2 DEF AnswerRec
    <3>2. CASE a # <<"rec", s>>
      <4>1. att'[<<"rec", s>>] = att[<<"rec", s>>] BY <1>1, <3>2, Kinds
      <4>2. CASE att[<<"rec", s>>].pc \in {"retire", "ok"}
        <5>1. fwd[s] = "attach" BY <4>2 DEF AttachInv
        <5>2. owner[s] \in Feeds BY <5>1 DEF StreamInv, Created
        <5> QED BY <2>1, <2>2, <4>2, <5>1, <5>2 DEF AnswerRec
      <4> QED BY <4>1, <4>2 DEF AnswerRec
    <3> QED BY <3>1, <3>2
  <2> QED BY <1>2, <2>3, <2>4
<1>6. CASE Retire(a)
  <2> DEFINE n == att[a].new
  <2>1. /\ n \in Streams /\ fwd' = [fwd EXCEPT ![n] = "reading"]
        /\ UNCHANGED <<cur, owner>> /\ att[a].pc = "retire" /\ att'[a].pc = "ok"
    BY <1>6 DEF Retire, StreamInv, Holding, Spawned, feedVars, AttachTypes
  <2>2. ASSUME NEW f \in Feeds PROVE AnswerFeed(f)'
    <3>1. AnswerFeed(f) OBVIOUS
    <3>2. cur[f] # 0 => cur[f] \in Streams BY DEF Streams
    <3>3. cur[f] # 0 /\ Answered(cur[f]) => Answered(cur[f])'
      <4>1. SUFFICES ASSUME cur[f] # 0, Answered(cur[f]) PROVE Answered(cur[f])' OBVIOUS
      <4>2. CASE cur[f] = n BY <2>1, <4>2 DEF Answered, StreamTypes
      <4>3. CASE cur[f] # n
        BY <1>1, <2>1, <3>2, <4>1, <4>3 DEF Answered, StreamTypes
      <4> QED BY <4>2, <4>3
    <3>4. att'[<<"start", f>>].pc \in {"retire", "ok"} => att[<<"start", f>>].pc \in {"retire", "ok"}
      BY <1>1, <2>1, Kinds
    <3> QED BY <1>1, <1>3, <2>1, <3>1, <3>2, <3>3, <3>4 DEF AnswerFeed, callVars
  <2>3. ASSUME NEW s \in Streams PROVE AnswerRec(s)'
    BY <1>1, <2>1, Kinds DEF AnswerRec
  <2> QED BY <1>2, <2>2, <2>3
<1> QED BY <1>4, <1>5, <1>6 DEF AttachStep

\* A forwarder whose stream ended hands it to a recovery, which ends only with another
\* stream in its place, or with the feed dead or cancelled.
LEMMA AnswerStreamStep ==
  ASSUME IInv, AnswerInv, NEW s \in Streams, Exit(s) \/ StreamStep(s)
  PROVE  AnswerInv'
<1> USE DEF IInv, TypeOK, FeedTypes, AnswerInv
<1>1. /\ UNCHANGED <<callVars, nextFeed, filter, cancelled, cur, poll, nextStream, owner>>
      /\ \A f \in Feeds : dead[f] => dead'[f]
      /\ \A t \in Streams : t # s => fwd'[t] = fwd[t]
  BY DEF Exit, StreamStep, CtxKill, ForwardEnd, RecoverCancelled, RecoverTimer, RecoverProbe,
         RecoverAttached, RecoverFail, NextTry, feedVars, streamVars, StreamTypes
<1>2. /\ \A b \in Attachers : b # <<"rec", s>> => att'[b] = att[b]
      /\ att'[<<"rec", s>>].pc \in {"retire", "ok"} => att'[<<"rec", s>>] = att[<<"rec", s>>]
      /\ att[<<"rec", s>>].pc = "retire" => att'[<<"rec", s>>] = att[<<"rec", s>>]
  <2>1. \/ UNCHANGED att
        \/ /\ att[<<"rec", s>>].pc \in {"ok", "err"} \/ fwd[s] # "attach"
           /\ \E v : v.pc \in {"spawn", "off"} /\ att' = [att EXCEPT ![<<"rec", s>>] = v]
    <3>1. \A p : Attach(p).pc = "spawn" /\ Idle.pc = "off" BY DEF Attach, Idle
    <3> QED BY <3>1 DEF Exit, StreamStep, CtxKill, ForwardEnd, RecoverCancelled, RecoverTimer, RecoverProbe,
           RecoverAttached, RecoverFail
  <2>2. fwd[s] # "attach" => att[<<"rec", s>>].pc = "off" BY DEF AttachInv
  <2>3. \A b \in Attachers : b # <<"rec", s>> => att'[b] = att[b] BY <2>1, Kinds, AttachAt
  <2>4. UNCHANGED att
        \/ (att[<<"rec", s>>].pc # "retire" /\ att'[<<"rec", s>>].pc \in {"spawn", "off"})
    <3>1. <<"rec", s>> \in Attachers BY Kinds
    <3>2. CASE att' # att
      <4>1. PICK v : v.pc \in {"spawn", "off"} /\ att' = [att EXCEPT ![<<"rec", s>>] = v]
        BY <2>1, <3>2
      <4>2. att'[<<"rec", s>>] = v BY <3>1, <4>1 DEF AttachTypes
      <4> QED BY <2>1, <2>2, <3>2, <4>1, <4>2
    <3> QED BY <3>2
  <2> QED BY <2>3, <2>4, Kinds
<1>4. fwd[s] \in {"reading", "wait", "probe", "attach", "fail"} =>
        \/ fwd'[s] \in {"reading", "wait", "probe", "attach", "fail"}
        \/ cur[owner[s]] # s \/ cancelled[owner[s]] \/ dead'[owner[s]]
  <2>1. CASE Exit(s) \/ CtxKill(s) BY <2>1 DEF Exit, CtxKill
  <2>2. CASE ForwardEnd(s) BY <2>2 DEF ForwardEnd, StreamTypes
  <2>3. CASE RecoverCancelled(s) BY <2>3 DEF RecoverCancelled
  <2>4. CASE RecoverTimer(s) BY <2>4 DEF RecoverTimer, StreamTypes
  <2>5. CASE RecoverProbe(s) BY <2>5 DEF RecoverProbe, NextTry, StreamTypes
  <2>6. CASE RecoverAttached(s)
    BY <2>6 DEF RecoverAttached, NextTry, StreamTypes, AnswerRec
  <2>7. CASE RecoverFail(s)
    <3>1. owner[s] \in Feeds BY <2>7 DEF RecoverFail, StreamInv, Created
    <3> QED BY <2>7, <3>1 DEF RecoverFail
  <2> QED BY <2>1, <2>2, <2>3, <2>4, <2>5, <2>6, <2>7 DEF StreamStep
<1>5. fwd'[s] # fwd[s] => fwd[s] \in {"reading", "wait", "probe", "attach", "fail"}
  BY DEF Exit, StreamStep, CtxKill, ForwardEnd, RecoverCancelled, RecoverTimer, RecoverProbe,
         RecoverAttached, RecoverFail
<1>6. ASSUME NEW f \in Feeds PROVE AnswerFeed(f)'
  <2>1. AnswerFeed(f) OBVIOUS
  <2>2. (Created(f)' <=> Created(f)) /\ (Alive(f)' <=> Alive(f)) BY <1>1 DEF Created, Alive
  <2>3. cur[f] # 0 => cur[f] \in Streams BY DEF Streams
  <2>4. cur[f] # 0 /\ Alive(f) /\ ~dead'[f] /\ Answered(cur[f]) => Answered(cur[f])'
    <3>1. SUFFICES ASSUME cur[f] # 0, Alive(f), ~dead'[f], Answered(cur[f]) PROVE Answered(cur[f])'
      OBVIOUS
    <3>2. CASE \E a \in Attachers : att[a].pc = "retire" /\ att[a].new = cur[f]
      <4>1. PICK a \in Attachers : att[a].pc = "retire" /\ att[a].new = cur[f] BY <3>2
      <4>2. att'[a] = att[a] BY <1>2, <4>1
      <4> QED BY <1>1, <4>1, <4>2 DEF Answered
    <3>3. CASE fwd[cur[f]] \in {"reading", "wait", "probe", "attach", "fail"}
      <4>1. CASE cur[f] = s
        <5>1. owner[s] = f BY <2>1, <3>1, <4>1 DEF AnswerFeed
        <5>2. ~cancelled[f] BY <3>1 DEF Alive
        <5> QED BY <1>1, <1>4, <3>1, <3>3, <4>1, <5>1, <5>2 DEF Answered
      <4>2. CASE cur[f] # s BY <1>1, <2>3, <3>1, <3>3, <4>2 DEF Answered
      <4> QED BY <4>1, <4>2
    <3> QED BY <3>1, <3>2, <3>3 DEF Answered
  <2>5. att'[<<"start", f>>] = att[<<"start", f>>] BY <1>2, Kinds, Distinct
  <2> QED BY <1>1, <2>1, <2>2, <2>4, <2>5 DEF AnswerFeed, Spawned, callVars
<1>7. (\A d \in Calls : AnswerCall(d))' BY <1>1 DEF AnswerCall, callVars
<1>8. ASSUME NEW t \in Streams PROVE AnswerRec(t)'
  BY <1>1, <1>2, Kinds, Distinct DEF AnswerRec
<1> QED BY <1>6, <1>7, <1>8

\* A poll ends only with its feed.
LEMMA AnswerPollStep ==
  ASSUME IInv, AnswerInv, NEW f \in Feeds, PollStep(f) \/ BatchEmit(f) \/ BatchDone(f)
  PROVE  AnswerInv'
<1> USE DEF IInv, TypeOK, FeedTypes, AnswerInv
<1>1. /\ UNCHANGED <<callVars, nextFeed, filter, cancelled, dead, cur, streamVars>>
      /\ \A g \in Feeds : g # f => poll'[g] = poll[g]
      /\ poll'[f] = "off" => poll[f] = "off"
      /\ poll'[f] = "done" => poll[f] = "done" \/ cancelled[f] \/ dead[f]
  BY DEF PollStep, PollTick, PollExit, PollRefresh, PollFollow, PollAttached, BatchEmit, BatchDone,
         feedVars
<1>2. /\ \A b \in Attachers : b # <<"poll", f>> => att'[b] = att[b]
      /\ att[<<"poll", f>>].pc = "retire" => att'[<<"poll", f>>] = att[<<"poll", f>>]
  <2>1. \/ UNCHANGED att
        \/ /\ att[<<"poll", f>>].pc \in {"ok", "err"}
           /\ \E v : att' = [att EXCEPT ![<<"poll", f>>] = v]
        \/ /\ poll[f] # "attach"
           /\ \E v : att' = [att EXCEPT ![<<"poll", f>>] = v]
    BY DEF PollStep, PollTick, PollExit, PollRefresh, PollFollow, PollAttached, BatchEmit, BatchDone
  <2>2. poll[f] # "attach" => att[<<"poll", f>>].pc = "off" BY DEF AttachInv
  <2> QED BY <2>1, <2>2, Kinds, AttachAt
<1>3. ASSUME NEW g \in Feeds PROVE AnswerFeed(g)'
  <2>1. AnswerFeed(g) OBVIOUS
  <2>2. (Created(g)' <=> Created(g)) /\ (Alive(g)' <=> Alive(g)) BY <1>1 DEF Created, Alive
  <2>3. Answered(cur[g]) => Answered(cur[g])' BY <1>1, <1>2 DEF Answered, streamVars
  <2>4. att'[<<"start", g>>] = att[<<"start", g>>] BY <1>2, Kinds, Distinct
  <2>5. (poll'[g] = "off" => poll[g] = "off")
        /\ (poll'[g] = "done" => poll[g] = "done" \/ cancelled[g] \/ dead[g])
    BY <1>1
  <2> QED BY <1>1, <2>1, <2>2, <2>3, <2>4, <2>5 DEF AnswerFeed, Spawned, callVars, streamVars
<1>4. (\A d \in Calls : AnswerCall(d))' BY <1>1 DEF AnswerCall, callVars
<1>5. ASSUME NEW t \in Streams PROVE AnswerRec(t)'
  BY <1>1, <1>2, Kinds, Distinct DEF AnswerRec, streamVars
<1> QED BY <1>3, <1>4, <1>5

\* However start, poll and recovery swap streams, the registered feed's stream has a
\* goroutine that notices its end, until the feed says it is dead (attach, forward and
\* recover, logcat_feed.go).
THEOREM NoSilence == Spec => []NoSilentFeed
<1>1. Init => AnswerInv
  <2>1. SUFFICES ASSUME Init PROVE AnswerInv OBVIOUS
  <2>2. \A a \in Attachers : att[a].pc = "off" BY <2>1 DEF Init, Idle
  <2>3. \A f \in Feeds : AnswerFeed(f)
    <3> SUFFICES ASSUME NEW f \in Feeds PROVE AnswerFeed(f) OBVIOUS
    <3>1. cur[f] = 0 /\ poll[f] = "off" /\ ~Created(f) /\ logcats = 0 /\ f # 0
      BY <2>1 DEF Init, Created, Feeds
    <3>2. att[<<"start", f>>].pc = "off" BY <2>2, Kinds
    <3> QED BY <3>1, <3>2 DEF AnswerFeed
  <2>4. \A s \in Streams : AnswerRec(s) BY <2>2, Kinds DEF AnswerRec
  <2>5. \A c \in Calls : AnswerCall(c) BY <2>1 DEF Init, AnswerCall
  <2> QED BY <2>3, <2>4, <2>5 DEF AnswerInv
<1>2. IInv /\ AnswerInv /\ [Next]_vars => AnswerInv'
  <2>1. SUFFICES ASSUME IInv, AnswerInv, [Next]_vars PROVE AnswerInv' OBVIOUS
  <2>2. CASE UNCHANGED vars \/ AppStart \/ AppExit
    <3>1. UNCHANGED <<callVars, feedVars, streamVars, att>>
      BY <2>2 DEF vars, AppStart, AppExit
    <3>2. \A f \in Feeds : AnswerFeed(f)'
      BY <2>1, <3>1 DEF AnswerInv, AnswerFeed, Spawned, Alive, Created, Answered, callVars, feedVars,
         streamVars
    <3>3. \A s \in Streams : AnswerRec(s)'
      BY <2>1, <3>1 DEF AnswerInv, AnswerRec, feedVars, streamVars
    <3>4. \A c \in Calls : AnswerCall(c)'
      BY <2>1, <3>1 DEF AnswerInv, AnswerCall, callVars, feedVars
    <3> QED BY <3>2, <3>3, <3>4 DEF AnswerInv
  <2> QED BY <2>1, <2>2, AnswerCallStep, AnswerAttachStep, AnswerStreamStep, AnswerPollStep DEF Next
<1>3. IInv /\ AnswerInv => NoSilentFeed
  <2>1. SUFFICES ASSUME IInv, AnswerInv, NEW f \in Feeds, f = logcats, ~dead[f]
                 PROVE  /\ cur[f] # 0 => Answered(cur[f])
                        /\ filter[f] = "all" => cur[f] # 0
                        /\ poll[f] \notin {"off", "done"}
    BY DEF NoSilentFeed
  <2>2. Created(f) /\ ~cancelled[f] BY <2>1 DEF IInv, FeedInv, Alive, Feeds
  <2>3. AnswerFeed(f) BY <2>1 DEF AnswerInv
  <2> QED BY <2>1, <2>2, <2>3 DEF AnswerFeed, Alive
<1> QED BY <1>1, <1>2, <1>3, Invariant, PTL DEF Spec
-----------------------------------------------------------------------------
(* Whose lines the pane shows, of feeds of the whole device.               *)

\* A client of the feed was ever forwarded: only such a feed has lines.
Forwarded(f) == \E s \in Streams : owner[s] = f /\ fwd[s] # "off"

\* Nothing but a package filter resolves a pid or follows one (followPackage).
WholeInv ==
  /\ \A c \in Calls : /\ callFilter[c] # "app" /\ callPc[c] # "resolve"
                      /\ callPc[c] = "create" => callFilter[c] = "all"
  /\ \A f \in Feeds : filter[f] # "app" /\ poll[f] \in {"off", "idle", "done"}

\* A start whose attach has not succeeded has shown nothing, so the one that fails
\* leaves no batcher with lines in it (startLogcatFeed).
StartInv ==
  \A f \in Feeds :
    att[<<"start", f>>].pc \in {"spawn", "check", "abort", "install", "err"} => ~Forwarded(f)

\* Whoever may still emit is registered, or a binding waits for it (Stop).
SpeakInv ==
  \A f \in Feeds : batch[f] = "run" /\ Forwarded(f) =>
    \/ f = logcats
    \/ \E c \in Calls : callFeed[c] = f /\ callPc[c] \in {"cancel", "take", "drain", "attach"}

LinesInv == WholeInv /\ StartInv /\ SpeakInv /\ LinesOfOneFeed

\* No feed has spoken at the start.
LEMMA InitLines == Init => LinesInv
<1> SUFFICES ASSUME Init PROVE LinesInv OBVIOUS
<1>1. WholeInv BY DEF Init, WholeInv
<1>2. \A f \in Feeds : ~Forwarded(f) BY DEF Init, Forwarded
<1>3. LinesOfOneFeed BY DEF Init, LinesOfOneFeed
<1> QED BY <1>1, <1>2, <1>3 DEF LinesInv, StartInv, SpeakInv

LEMMA WholeStep ==
  ASSUME Filters \subseteq {"all"}, TypeOK, WholeInv, Next
  PROVE  WholeInv'
<1> USE DEF TypeOK, CallTypes, FeedTypes, WholeInv
<1>1. ASSUME NEW c \in Calls,
             (\E p \in Filters : EnsureBegin(c, p)) \/ StopBegin(c) \/ CallStep(c)
      PROVE  WholeInv'
  <2>1. CASE \E p \in Filters : EnsureBegin(c, p) BY <2>1 DEF EnsureBegin, feedVars
  <2>2. CASE StopBegin(c) BY <2>2 DEF StopBegin, feedVars
  <2>3. CASE StopCancel(c) \/ StopTake(c) \/ StopDrain(c)
    BY <2>3 DEF StopCancel, StopTake, StopDrain, feedVars
  <2>4. CASE Create(c) BY <2>4 DEF Create
  <2>5. CASE Resolve(c) BY <2>5 DEF Resolve
  <2>6. CASE Started(c) BY <2>6 DEF Started, Register
  <2> QED BY <1>1, <2>1, <2>2, <2>3, <2>4, <2>5, <2>6 DEF CallStep
<1>2. ASSUME NEW a \in Attachers, AttachStep(a) PROVE WholeInv'
  BY <1>2 DEF AttachStep, Spawn, SpawnFail, Check, Abort, Install, Retire, callVars, feedVars
<1>3. ASSUME NEW s \in Streams, Exit(s) \/ StreamStep(s) PROVE WholeInv'
  BY <1>3 DEF StreamStep, Exit, CtxKill, ForwardEnd, RecoverCancelled, RecoverTimer,
              RecoverProbe, RecoverAttached, RecoverFail, callVars, feedVars
<1>4. ASSUME NEW f \in Feeds, PollStep(f) \/ BatchEmit(f) \/ BatchDone(f) PROVE WholeInv'
  BY <1>4 DEF PollStep, PollTick, PollExit, PollRefresh, PollFollow, PollAttached,
              BatchEmit, BatchDone, callVars, feedVars
<1>5. CASE AppStart \/ AppExit BY <1>5 DEF AppStart, AppExit, callVars, feedVars
<1> QED BY <1>1, <1>2, <1>3, <1>4, <1>5 DEF Next

\* A feed is forwarded from its start's success on: a recovery attaches for a feed that
\* was forwarded before, and pollProcs does not attach.
LEMMA FirstForward ==
  ASSUME IInv, WholeInv, Next, NEW f \in Feeds, Forwarded(f)', ~Forwarded(f)
  PROVE  /\ Install(<<"start", f>>) \/ Retire(<<"start", f>>)
         /\ att'[<<"start", f>>].pc = "ok"
<1> USE DEF IInv, TypeOK
<1>1. PICK s \in Streams : owner'[s] = f /\ fwd'[s] # "off" BY DEF Forwarded
<1>2. \A t \in Streams : owner[t] = f => fwd[t] = "off" BY DEF Forwarded
<1>3. ~NotAttach BY <1>1, <1>2 DEF NotAttach
<1>4. PICK a \in Attachers : AttachStep(a) BY <1>3, Effect
<1>5. ~Spawn(a)
  <2> SUFFICES ASSUME Spawn(a) PROVE FALSE OBVIOUS
  <2>1. nextStream \in Streams /\ ~Spawned(nextStream)
    BY BoundsAssumption DEF Spawn, StreamTypes, Streams, Spawned
  <2>2. fwd' = fwd /\ \A t \in Streams \ {nextStream} : owner'[t] = owner[t]
    BY DEF Spawn, StreamTypes
  <2>3. fwd[nextStream] = "off" BY <2>1 DEF StreamInv
  <2> QED BY <1>1, <1>2, <2>2, <2>3
<1>6. Install(a) \/ Retire(a)
  <2>1. ASSUME SpawnFail(a) \/ Check(a) \/ Abort(a) PROVE FALSE
    BY <1>1, <1>2, <2>1 DEF SpawnFail, Check, Abort, streamVars
  <2> QED BY <1>4, <1>5, <2>1 DEF AttachStep
<1>7. /\ owner' = owner /\ s = att[a].new
      /\ att'[a].pc = "ok" /\ att[a].pc \in Holding
  <2>1. owner' = owner /\ att[a].pc \in {"install", "retire"} BY <1>6 DEF Install, Retire
  <2>2. fwd' # fwd BY <1>1, <1>2, <2>1
  <2>3. fwd' = [fwd EXCEPT ![att[a].new] = "reading"] BY <1>6, <2>2 DEF Install, Retire
  <2>4. s = att[a].new BY <1>1, <1>2, <2>1, <2>3 DEF StreamTypes
  <2>5. att'[a].pc = "ok" BY <1>6, <2>2 DEF Install, Retire, AttachTypes
  <2> QED BY <2>1, <2>4, <2>5 DEF Holding
<1>8. FeedOf(a) = f BY <1>1, <1>7 DEF StreamInv
<1>9. CASE \E g \in Feeds : a = <<"start", g>> BY <1>6, <1>7, <1>8, <1>9, Kinds
<1>10. CASE \E g \in Feeds : a = <<"poll", g>>
  BY <1>7, <1>10 DEF AttachInv, WholeInv, Holding
<1>11. CASE \E t \in Streams : a = <<"rec", t>>
  <2>1. PICK t \in Streams : a = <<"rec", t>> BY <1>11
  <2>2. owner[t] = f /\ fwd[t] = "attach" BY <1>7, <1>8, <2>1, Kinds DEF AttachInv, Holding
  <2> QED BY <1>2, <2>2
<1> QED BY <1>9, <1>10, <1>11, AttacherKinds

\* Nobody forwards for a feed that is yet to be created.
LEMMA NotForwardedYet ==
  ASSUME TypeOK, StreamInv
  PROVE  ~Forwarded(nextFeed)
BY BoundsAssumption DEF TypeOK, FeedTypes, StreamInv, Forwarded, Created

\* A start attaches once.
LEMMA StartOnce ==
  ASSUME IInv, WholeInv, Next, NEW f \in Feeds,
         att[<<"start", f>>].pc \in {"off", "retire", "ok"},
         att'[<<"start", f>>].pc \in {"spawn", "check", "abort", "install", "err"}
  PROVE  f = nextFeed
<1> USE DEF IInv, TypeOK
<1>1. ASSUME NEW c \in Calls,
             (\E p \in Filters : EnsureBegin(c, p)) \/ StopBegin(c) \/ CallStep(c)
      PROVE  f = nextFeed
  <2>1. CASE Create(c)
    <3>1. nextFeed \in Feeds BY <2>1, BoundsAssumption DEF Create, FeedTypes, Feeds
    <3>2. UNCHANGED att \/ att' = [att EXCEPT ![<<"start", nextFeed>>] = Attach(0)]
      BY <2>1 DEF Create
    <3> QED BY <3>1, <3>2, Kinds, Distinct, AttachAt
  <2>2. CASE Started(c)
    <3>1. att' = [att EXCEPT ![<<"start", callFeed[c]>>] = Idle] /\ callFeed[c] \in Feeds
      BY <2>2 DEF Started, CallFeedInv, Created
    <3> QED BY <3>1, Kinds, AttachAt, Activation
  <2>3. CASE Resolve(c) BY <2>3 DEF Resolve, WholeInv
  <2> QED BY <1>1, <2>1, <2>2, <2>3 DEF EnsureBegin, StopBegin, CallStep, StopCancel, StopTake, StopDrain
<1>2. ASSUME NEW a \in Attachers, AttachStep(a) PROVE f = nextFeed
  <2>1. CASE a = <<"start", f>>
    <3>1. CASE Retire(a) BY <2>1, <3>1 DEF Retire, AttachTypes
    <3>2. CASE ~Retire(a)
      BY <1>2, <2>1, <3>2 DEF AttachStep, Spawn, SpawnFail, Check, Abort, Install
    <3> QED BY <3>1, <3>2
  <2>2. CASE a # <<"start", f>> BY <1>2, <2>2, AttachFrame, Kinds
  <2> QED BY <2>1, <2>2
<1>3. ASSUME NEW s \in Streams, Exit(s) \/ StreamStep(s) PROVE f = nextFeed
  <2>1. UNCHANGED att \/ \E v : att' = [att EXCEPT ![<<"rec", s>>] = v]
    BY <1>3 DEF StreamStep, Exit, CtxKill, ForwardEnd, RecoverCancelled, RecoverTimer,
                RecoverProbe, RecoverAttached, RecoverFail
  <2> QED BY <2>1, Kinds, Distinct, AttachAt
<1>4. ASSUME NEW g \in Feeds, PollStep(g) \/ BatchEmit(g) \/ BatchDone(g) PROVE f = nextFeed
  <2>1. UNCHANGED att \/ \E v : att' = [att EXCEPT ![<<"poll", g>>] = v]
    BY <1>4 DEF PollStep, PollTick, PollExit, PollRefresh, PollFollow, PollAttached,
                BatchEmit, BatchDone
  <2> QED BY <2>1, Kinds, Distinct, AttachAt
<1>5. CASE AppStart \/ AppExit BY <1>5 DEF AppStart, AppExit
<1> QED BY <1>1, <1>2, <1>3, <1>4, <1>5 DEF Next

LEMMA StartStep ==
  ASSUME IInv, WholeInv, StartInv, Next
  PROVE  StartInv'
<1> SUFFICES ASSUME NEW f \in Feeds, Forwarded(f)',
                    att'[<<"start", f>>].pc \in {"spawn", "check", "abort", "install", "err"}
             PROVE  FALSE
  BY DEF StartInv
<1>1. Forwarded(f) BY FirstForward
<1>2. att[<<"start", f>>].pc \notin {"spawn", "check", "abort", "install", "err"}
  BY <1>1 DEF StartInv
<1>3. att[<<"start", f>>].pc \in {"off", "retire", "ok"}
  BY <1>2, Kinds DEF IInv, TypeOK, AttachTypes
<1>4. f = nextFeed BY <1>3, StartOnce
<1> QED BY <1>1, <1>4, NotForwardedYet DEF IInv

\* Only Create starts a batcher.
LEMMA BatchStep ==
  ASSUME TypeOK, Next, NEW f \in Feeds, batch'[f] = "run"
  PROVE  batch[f] = "run" \/ f = nextFeed
<1> USE DEF TypeOK, FeedTypes
<1>1. ASSUME NEW c \in Calls,
             (\E p \in Filters : EnsureBegin(c, p)) \/ StopBegin(c) \/ CallStep(c)
      PROVE  batch[f] = "run" \/ f = nextFeed
  BY <1>1 DEF EnsureBegin, StopBegin, CallStep, StopCancel, StopTake, StopDrain, Create,
              Resolve, Started, feedVars
<1>2. ASSUME NEW a \in Attachers, AttachStep(a) PROVE batch[f] = "run"
  BY <1>2 DEF AttachStep, Spawn, SpawnFail, Check, Abort, Install, Retire, feedVars
<1>3. ASSUME NEW s \in Streams, Exit(s) \/ StreamStep(s) PROVE batch[f] = "run"
  BY <1>3 DEF StreamStep, Exit, CtxKill, ForwardEnd, RecoverCancelled, RecoverTimer,
              RecoverProbe, RecoverAttached, RecoverFail, feedVars
<1>4. ASSUME NEW g \in Feeds, PollStep(g) \/ BatchEmit(g) \/ BatchDone(g) PROVE batch[f] = "run"
  BY <1>4 DEF PollStep, PollTick, PollExit, PollRefresh, PollFollow, PollAttached,
              BatchEmit, BatchDone, feedVars
<1>5. CASE AppStart \/ AppExit BY <1>5 DEF AppStart, AppExit, feedVars
<1> QED BY <1>1, <1>2, <1>3, <1>4, <1>5 DEF Next

\* A feed that may emit leaves the hands of the binding that stops it only when its
\* batcher is done, and those of the binding that starts it only into the map.
LEMMA SpeakStep ==
  ASSUME IInv, WholeInv, StartInv, SpeakInv, Next
  PROVE  SpeakInv'
<1> USE DEF IInv, TypeOK, CallTypes
<1> DEFINE Minds(c, f) == callFeed[c] = f /\ callPc[c] \in {"cancel", "take", "drain", "attach"}
<1> SUFFICES ASSUME NEW f \in Feeds, batch'[f] = "run", Forwarded(f)'
             PROVE  f = logcats' \/ \E c \in Calls : Minds(c, f)'
  BY DEF SpeakInv
<1>1. CASE ~Forwarded(f)
  <2>1. /\ Install(<<"start", f>>) \/ Retire(<<"start", f>>)
        /\ att[<<"start", f>>].pc # "off"
    BY <1>1, FirstForward DEF Install, Retire
  <2>2. PICK c \in Calls : callPc[c] = "attach" /\ callFeed[c] = f BY <2>1 DEF AttachInv
  <2> QED BY <2>1, <2>2 DEF Install, Retire, callVars
<1>2. CASE Forwarded(f)
  <2>1. f # nextFeed BY <1>2, NotForwardedYet
  <2>2. batch[f] = "run" BY <2>1, BatchStep
  <2>3. f = logcats \/ \E c \in Calls : Minds(c, f) BY <1>2, <2>2 DEF SpeakInv
  <2>4. f # 0 BY DEF Feeds
  <2>5. CASE UNCHANGED callVars BY <2>3, <2>5 DEF callVars
  <2>6. ASSUME NEW c \in Calls, (\E p \in Filters : EnsureBegin(c, p)) \/ StopBegin(c)
        PROVE  Minds(c, f)'
    <3>1. \A d \in Calls : callPc[d] = "idle"
      BY <2>6, NoCallAssumption DEF EnsureBegin, StopBegin, LockFree, LockInv
    <3>2. f = logcats BY <2>3, <3>1
    <3> QED BY <2>4, <2>6, <3>2 DEF EnsureBegin, StopBegin
  <2>7. ASSUME NEW c \in Calls, CallStep(c)
        PROVE  f = logcats' \/ \E d \in Calls : Minds(d, f)'
    <3>1. callPc[c] # "idle" /\ callPc[c] # "resolve"
      BY <2>7 DEF CallStep, StopCancel, StopTake, StopDrain, Create, Resolve, Started, WholeInv
    <3>2. \A d \in Calls : callPc[d] # "idle" => d = c /\ logcats = 0 BY <3>1 DEF LockInv
    <3>3. Minds(c, f) BY <2>3, <2>4, <3>1, <3>2
    <3>4. CASE StopCancel(c) \/ StopTake(c) BY <3>3, <3>4 DEF StopCancel, StopTake
    <3>5. CASE StopDrain(c) BY <2>2, <3>3, <3>5 DEF StopDrain
    <3>6. CASE Create(c) BY <3>3, <3>6 DEF Create
    <3>7. CASE Started(c) BY <1>2, <3>3, <3>7 DEF Started, Register, StartInv
    <3> QED BY <2>7, <3>1, <3>4, <3>5, <3>6, <3>7 DEF CallStep, Resolve
  <2> QED BY <2>5, <2>6, <2>7, CallsStep
<1> QED BY <1>1, <1>2

\* The pane is emptied when a feed is registered, and from then on only that one speaks.
LEMMA LinesStep ==
  ASSUME IInv, WholeInv, SpeakInv, LinesOfOneFeed, Next
  PROVE  LinesOfOneFeed'
<1> USE DEF IInv, TypeOK, CallTypes
<1> SUFFICES ASSUME holder' = NoCall, logcats' # 0 PROVE lines' \subseteq {logcats'}
  BY DEF LinesOfOneFeed, LockFree
<1>1. ASSUME NEW c \in Calls, (\E p \in Filters : EnsureBegin(c, p)) \/ StopBegin(c)
      PROVE  FALSE
  BY <1>1, NoCallAssumption DEF EnsureBegin, StopBegin
<1>2. ASSUME NEW c \in Calls, CallStep(c) PROVE lines' = {}
  <2>1. callPc[c] # "idle" /\ callPc[c] # "resolve"
    BY <1>2 DEF CallStep, StopCancel, StopTake, StopDrain, Create, Resolve, Started, WholeInv
  <2>2. logcats = 0 BY <2>1 DEF LockInv
  <2>3. Started(c)
    BY <1>2, <2>1, <2>2 DEF CallStep, StopCancel, StopTake, StopDrain, Create, Resolve
  <2> QED BY <2>2, <2>3 DEF Started
<1>3. ASSUME UNCHANGED callVars, UNCHANGED lines PROVE lines' \subseteq {logcats'}
  BY <1>3 DEF callVars, LinesOfOneFeed, LockFree
<1>4. ASSUME NEW f \in Feeds, BatchEmit(f) PROVE lines' \subseteq {logcats'}
  <2>1. \A c \in Calls : callPc[c] = "idle"
    BY <1>4, NoCallAssumption DEF BatchEmit, callVars, LockInv
  <2>2. f = logcats BY <1>4, <2>1 DEF BatchEmit, SpeakInv, Forwarded
  <2> QED BY <1>4, <2>2 DEF BatchEmit, callVars, LinesOfOneFeed, LockFree
<1>5. ASSUME NEW a \in Attachers, AttachStep(a) PROVE UNCHANGED <<callVars, lines>>
  BY <1>5 DEF AttachStep, Spawn, SpawnFail, Check, Abort, Install, Retire, paneVars
<1>6. ASSUME NEW s \in Streams, Exit(s) \/ StreamStep(s) PROVE UNCHANGED <<callVars, lines>>
  BY <1>6 DEF StreamStep, Exit, CtxKill, ForwardEnd, RecoverCancelled, RecoverTimer,
              RecoverProbe, RecoverAttached, RecoverFail, paneVars
<1>7. ASSUME NEW f \in Feeds, PollStep(f) \/ BatchDone(f) PROVE UNCHANGED <<callVars, lines>>
  BY <1>7 DEF PollStep, PollTick, PollExit, PollRefresh, PollFollow, PollAttached,
              BatchDone, paneVars
<1>8. CASE AppStart \/ AppExit BY <1>3, <1>8 DEF AppStart, AppExit, paneVars
<1> QED BY <1>1, <1>2, <1>3, <1>4, <1>5, <1>6, <1>7, <1>8 DEF Next

LEMMA NextLines ==
  ASSUME Filters \subseteq {"all"}
  PROVE  IInv /\ LinesInv /\ [Next]_vars => LinesInv'
<1> SUFFICES ASSUME IInv, LinesInv, [Next]_vars PROVE LinesInv'
  OBVIOUS
<1>1. CASE Next
  BY <1>1, WholeStep, StartStep, SpeakStep, LinesStep DEF IInv, LinesInv
<1>2. CASE UNCHANGED vars
  BY <1>2 DEF vars, callVars, feedVars, streamVars, paneVars, LinesInv, WholeInv, StartInv,
              SpeakInv, Forwarded, LinesOfOneFeed, LockFree
<1> QED BY <1>1, <1>2

\* While no binding is under way, the pane holds lines of the registered feed only
\* (EnsureLogcat and startLogcatFeed, app.go; Stop waits for the batcher).  Feeds of the
\* whole device only: under a package filter pollProcs may attach while the start fails,
\* and that feed's batcher is not waited for.
THEOREM OneFeedsLines ==
  ASSUME Filters \subseteq {"all"}
  PROVE  Spec => []LinesOfOneFeed
<1>1. LinesInv => LinesOfOneFeed BY DEF LinesInv
<1> QED BY <1>1, InitLines, NextLines, Invariant, PTL DEF Spec
=============================================================================
