----------------------------- MODULE FactCache -----------------------------
(***************************************************************************)
(* One device fact and its two caches.  Backend: a Resolver picks a        *)
(* strategy the device supports and remembers what a costly one read,      *)
(* under a freshness key and a TTL (internal/adb/strategy.go).  Page: a    *)
(* stale-while-revalidate store with one request in flight per key         *)
(* (frontend/src/cache.tsx).  A binding that changes the device drops both *)
(* by domain when it is done (cachedomain.go, app_invalidate.go).          *)
(*                                                                         *)
(* The fact's value is the pair of the link the device is on and a version *)
(* that adbq's own changes move; the link is also the freshness key.       *)
(* cachedRead is the same with one strategy and one link.                  *)
(***************************************************************************)
EXTENDS Naturals, FiniteSets

CONSTANTS
  Mutators,    \* bindings that change the device
  Readers,     \* goroutines that read the fact
  Page,        \* the one that answers the page's request
  Links,       \* networks the device may be on
  Strategies,  \* 1 .. n, in the order they are registered
  Needs,       \* the binaries each strategy requires
  Costly,      \* the strategies whose values are remembered
  CapBins,     \* the binaries the capability scan looks for
  Bins,        \* the binaries this device has
  Refusable,   \* the strategies that tell a refusal from a failure
  MaxWrites,   \* bound: changes made by adbq
  MaxCalls,    \* bound: calls of a mutating binding
  MaxRoams,    \* bound: changes of network
  NoData       \* the page has nothing to show

ASSUME PageAssumption == Page \in Readers
ASSUME StrategiesAssumption ==
  /\ Strategies \subseteq Nat
  /\ Costly \subseteq Strategies /\ Refusable \subseteq Strategies
ASSUME BoundsAssumption == MaxWrites \in Nat /\ MaxCalls \in Nat /\ MaxRoams \in Nat

Values == [link : Links, ver : 0 .. MaxWrites]
ASSUME NoDataAssumption == NoData \notin Values

VARIABLES
  device, roams, refused,                   \* the device
  caps, fact, ruledOut,                     \* Client.caps, Client.facts
  rpc, rkey, rcand, rval, rby, rfail,       \* Resolve, one per reader
  mpc, msnap, calls,                        \* the mutating bindings
  events, entry, inflight, mounted,         \* the wire and the page
  late, mlate, factLate, pageLate           \* history: see Late

deviceVars == <<device, roams, refused>>
storeVars  == <<caps, fact, ruledOut>>
readVars   == <<rpc, rkey, rcand, rval, rby, rfail>>
mutVars    == <<mpc, msnap, calls>>
pageVars   == <<events, entry, inflight, mounted>>
lateVars   == <<late, mlate, factLate, pageLate>>
vars == <<deviceVars, storeVars, readVars, mutVars, pageVars, lateVars>>

NoFact  == [cached |-> FALSE, key |-> CHOOSE l \in Links : TRUE,
            val |-> NoData]
NoEntry == [there |-> FALSE, data |-> NoData, fresh |-> FALSE,
            loading |-> FALSE, err |-> FALSE]

Init ==
  /\ \E l \in Links : device = [link |-> l, ver |-> 0]
  /\ roams = 0
  /\ refused \in SUBSET Refusable
  /\ caps = FALSE
  /\ fact = NoFact
  /\ ruledOut = {}
  /\ rpc = [r \in Readers |-> "idle"]
  /\ rkey = [r \in Readers |-> NoFact.key]
  /\ rcand = [r \in Readers |-> {}]
  /\ rval = [r \in Readers |-> NoData]
  /\ rby = [r \in Readers |-> 0]
  /\ rfail = [r \in Readers |-> {}]
  /\ mpc = [m \in Mutators |-> "idle"]
  /\ msnap = [m \in Mutators |-> NoData]
  /\ calls = 0
  /\ events = 0
  /\ entry = NoEntry
  /\ inflight = FALSE
  /\ mounted = FALSE
  /\ late = [r \in Readers |-> FALSE]
  /\ mlate = [m \in Mutators |-> FALSE]
  /\ factLate = FALSE
  /\ pageLate = FALSE

-----------------------------------------------------------------------------
(* Resolver.Resolve and the fact store.                                    *)

\* cachedFact: remembered under this key, and younger than the TTL: a value that
\* is older counts as not remembered, see FactExpire.
Hit(key) == fact.cached /\ fact.key = key

\* The call's locals go out of scope.
Forget(r) ==
  /\ rpc' = [rpc EXCEPT ![r] = "idle"]
  /\ rkey' = [rkey EXCEPT ![r] = NoFact.key]
  /\ rcand' = [rcand EXCEPT ![r] = {}]
  /\ rval' = [rval EXCEPT ![r] = NoData]
  /\ rby' = [rby EXCEPT ![r] = 0]
  /\ rfail' = [rfail EXCEPT ![r] = {}]
  /\ late' = [late EXCEPT ![r] = FALSE]

\* Resolve is called; RefreshSSID first drops the value it would be served.
Start(r) ==
  /\ IF r = Page THEN rpc[r] = "asked" ELSE rpc[r] = "idle"
  /\ rkey' = [rkey EXCEPT ![r] = device.link]
  /\ \E refresh \in BOOLEAN :
       /\ fact' = IF refresh THEN NoFact ELSE fact
       /\ factLate' = (factLate /\ ~refresh)
  /\ rpc' = [rpc EXCEPT ![r] = "lookup"]
  /\ UNCHANGED <<deviceVars, caps, ruledOut, rcand, rval, rby, rfail, mutVars,
                 pageVars, late, mlate, pageLate>>

Lookup(r) ==
  /\ rpc[r] = "lookup"
  /\ IF Hit(rkey[r])
       THEN /\ rval' = [rval EXCEPT ![r] = fact.val]
            /\ late' = [late EXCEPT ![r] = @ \/ factLate]
            /\ rpc' = [rpc EXCEPT ![r] = "answer"]
       ELSE /\ rpc' = [rpc EXCEPT ![r] = "pick"]
            /\ UNCHANGED <<rval, late>>
  /\ UNCHANGED <<deviceVars, storeVars, rkey, rcand, rby, rfail, mutVars,
                 pageVars, mlate, factLate, pageLate>>

\* deviceMeets: every binary the strategy needs is one the scan found.
Meets(s, found) == Needs[s] \subseteq found

Eligible(found) == {s \in Strategies \ ruledOut : Meets(s, found)}

\* Capabilities answers from its cache or probes; a probe that failed is not
\* kept and finds nothing.
Pick(r) ==
  /\ rpc[r] = "pick"
  /\ \/ /\ caps' = TRUE
        /\ rcand' = [rcand EXCEPT ![r] = Eligible(Bins \cap CapBins)]
        /\ UNCHANGED rfail
     \/ /\ ~caps
        /\ rcand' = [rcand EXCEPT ![r] = Eligible({})]
        /\ rfail' = [rfail EXCEPT ![r] = Strategies]
        /\ UNCHANGED caps
  /\ rpc' = [rpc EXCEPT ![r] = IF rcand'[r] = {} THEN "error" ELSE "run"]
  /\ UNCHANGED <<deviceVars, fact, ruledOut, rkey, rval, rby, mutVars, pageVars, lateVars>>

\* The strategy whose turn it is.
Turn(r) == CHOOSE s \in rcand[r] : \A t \in rcand[r] : s <= t

NextStrategy(r) ==
  /\ rcand' = [rcand EXCEPT ![r] = @ \ {Turn(r)}]
  /\ rpc' = [rpc EXCEPT ![r] = IF rcand'[r] = {} THEN "error" ELSE "run"]

\* Its command exists: the value is the device's at that moment.
RunOk(r) ==
  /\ rpc[r] = "run"
  /\ Turn(r) \notin refused /\ Needs[Turn(r)] \subseteq Bins
  /\ rval' = [rval EXCEPT ![r] = device]
  /\ rby' = [rby EXCEPT ![r] = Turn(r)]
  /\ rpc' = [rpc EXCEPT ![r] = IF Turn(r) \in Costly THEN "remember" ELSE "answer"]
  /\ UNCHANGED <<deviceVars, storeVars, rkey, rcand, rfail, mutVars, pageVars, lateVars>>

\* ErrUnsupported: ruled out for this device.
RunUnsupported(r) ==
  /\ rpc[r] = "run"
  /\ Turn(r) \in refused
  /\ ruledOut' = ruledOut \cup {Turn(r)}
  /\ NextStrategy(r)
  /\ UNCHANGED <<deviceVars, caps, fact, rkey, rval, rby, rfail, mutVars, pageVars, lateVars>>

\* Mutant: a transient failure rules the strategy out.
RunTransientRulesOut(r) ==
  /\ rpc[r] = "run"
  /\ rfail' = [rfail EXCEPT ![r] = @ \cup {Turn(r)}]
  /\ ruledOut' = ruledOut \cup {Turn(r)}
  /\ NextStrategy(r)
  /\ UNCHANGED <<deviceVars, caps, fact, rkey, rval, rby, mutVars, pageVars, lateVars>>

\* Any other failure: the strategy stays eligible, the next one answers.
RunTransient(r) ==
  /\ rpc[r] = "run"
  /\ rfail' = [rfail EXCEPT ![r] = @ \cup {Turn(r)}]
  /\ NextStrategy(r)
  /\ UNCHANGED <<deviceVars, storeVars, rkey, rval, rby, mutVars, pageVars, lateVars>>

\* rememberFact: whatever was invalidated since the read began.
Remember(r) ==
  /\ rpc[r] = "remember"
  /\ fact' = [cached |-> TRUE, key |-> rkey[r], val |-> rval[r]]
  /\ factLate' = late[r]
  /\ rpc' = [rpc EXCEPT ![r] = "answer"]
  /\ UNCHANGED <<deviceVars, caps, ruledOut, rkey, rcand, rval, rby, rfail,
                 mutVars, pageVars, late, mlate, pageLate>>

\* Another reader than the page has its answer, or its error.
Return(r) ==
  /\ r # Page
  /\ rpc[r] \in {"answer", "error"}
  /\ Forget(r)
  /\ UNCHANGED <<deviceVars, storeVars, mutVars, pageVars, mlate, factLate, pageLate>>

\* Mutant: a value is served whatever its age.
FactExpireNever == FALSE

\* The value grows older than factTTL.
FactExpire ==
  /\ fact.cached
  /\ fact' = NoFact
  /\ factLate' = FALSE
  /\ UNCHANGED <<deviceVars, caps, ruledOut, readVars, mutVars, pageVars, late, mlate, pageLate>>

-----------------------------------------------------------------------------
(* The device, and the bindings that change it.                            *)

\* It joins another network: the freshness key moves, nobody is told.
Roam(l) ==
  /\ roams < MaxRoams /\ l # device.link
  /\ roams' = roams + 1
  /\ device' = [device EXCEPT !.link = l]
  /\ late' = [r \in Readers |-> late[r] \/ rpc[r] \in {"lookup", "pick", "run", "remember", "answer"}]
  /\ mlate' = [m \in Mutators |-> mlate[m] \/ mpc[m] # "idle"]
  /\ pageLate' = TRUE
  /\ UNCHANGED <<refused, storeVars, readVars, mutVars, pageVars, factLate>>

\* A mutating binding: the command changes the device or fails, and it may read
\* back a snapshot it will return.
Mutate(m) ==
  /\ mpc[m] = "idle" /\ calls < MaxCalls
  /\ calls' = calls + 1
  /\ \/ device.ver < MaxWrites /\ device' = [device EXCEPT !.ver = @ + 1]
     \/ UNCHANGED device
  /\ msnap' = [msnap EXCEPT ![m] = device']
  /\ mpc' = [mpc EXCEPT ![m] = "touch"]
  /\ UNCHANGED <<roams, refused, storeVars, readVars, pageVars, lateVars>>

\* Mutant: the facts under the domain are not dropped.
TouchEventOnly(m) ==
  /\ mpc[m] = "touch"
  /\ mpc' = [mpc EXCEPT ![m] = "emit"]
  /\ UNCHANGED <<deviceVars, storeVars, readVars, msnap, calls, pageVars, lateVars>>

\* touch, deferred: InvalidateDomains drops the fact's whole state ...
Touch(m) ==
  /\ mpc[m] = "touch"
  /\ fact' = NoFact
  /\ ruledOut' = {}
  /\ factLate' = FALSE
  /\ late' = [r \in Readers |-> late[r] \/ rpc[r] = "remember"]
  /\ mpc' = [mpc EXCEPT ![m] = "emit"]
  /\ UNCHANGED <<deviceVars, caps, readVars, msnap, calls, pageVars, mlate, pageLate>>

\* Mutant: emitted by the binding and again by its deferred touch.
EmitTwice(m) ==
  /\ mpc[m] = "emit"
  /\ events' = events + 2
  /\ mpc' = [mpc EXCEPT ![m] = "reply"]
  /\ UNCHANGED <<deviceVars, storeVars, readVars, msnap, calls, entry, inflight, mounted, lateVars>>

\* ... and cache:invalidate is emitted; then the binding returns.
Emit(m) ==
  /\ mpc[m] = "emit"
  /\ events' = events + 1
  /\ mpc' = [mpc EXCEPT ![m] = "reply"]
  /\ UNCHANGED <<deviceVars, storeVars, readVars, msnap, calls, entry, inflight, mounted, lateVars>>

-----------------------------------------------------------------------------
(* The page's cache.                                                       *)

\* revalidate: one request per key, joined by whoever asks meanwhile.
Revalidate ==
  IF inflight
    THEN UNCHANGED <<rpc, entry, inflight>>
    ELSE /\ entry' = [entry EXCEPT !.there = TRUE, !.loading = TRUE, !.err = FALSE]
         /\ inflight' = TRUE
         /\ rpc' = [rpc EXCEPT ![Page] = "asked"]

PageIdle == <<deviceVars, storeVars, rkey, rcand, rval, rby, rfail, mutVars>>

\* useDeviceData's effect: subscribe, and revalidate what is missing or old.
Mount ==
  /\ ~mounted
  /\ mounted' = TRUE
  /\ IF entry.there /\ entry.fresh
       THEN UNCHANGED <<rpc, entry, inflight>>
       ELSE Revalidate
  /\ UNCHANGED <<PageIdle, events, lateVars>>

Unmount ==
  /\ mounted
  /\ mounted' = FALSE
  /\ UNCHANGED <<PageIdle, rpc, events, entry, inflight, lateVars>>

\* refresh, and prefetchData and getOrFetch of an entry that is missing, old or
\* in error.
Fetch ==
  /\ mounted \/ ~(entry.there /\ entry.fresh /\ ~entry.err)
  /\ Revalidate
  /\ UNCHANGED <<PageIdle, events, mounted, lateVars>>

\* The request is answered.
Answer ==
  /\ rpc[Page] = "answer"
  /\ Forget(Page)
  /\ entry' = [there |-> TRUE, data |-> rval[Page], fresh |-> TRUE,
               loading |-> FALSE, err |-> FALSE]
  /\ inflight' = FALSE
  /\ pageLate' = late[Page]
  /\ UNCHANGED <<deviceVars, storeVars, mutVars, events, mounted, mlate, factLate>>

\* Mutant: a failed request leaves the entry loading.
AnswerErrorLoading ==
  /\ rpc[Page] = "error"
  /\ Forget(Page)
  /\ entry' = [entry EXCEPT !.there = TRUE, !.err = TRUE]
  /\ inflight' = FALSE
  /\ UNCHANGED <<deviceVars, storeVars, mutVars, events, mounted, mlate, factLate, pageLate>>

\* The request failed: what was shown stays, with the error.
AnswerError ==
  /\ rpc[Page] = "error"
  /\ Forget(Page)
  /\ entry' = [entry EXCEPT !.there = TRUE, !.loading = FALSE, !.err = TRUE]
  /\ inflight' = FALSE
  /\ UNCHANGED <<deviceVars, storeVars, mutVars, events, mounted, mlate, factLate, pageLate>>

\* The answers under way that were outdated when the page heard of a change.
Outdated ==
  /\ late' = [late EXCEPT ![Page] =
       @ \/ (rpc[Page] \in {"remember", "answer"} /\ rval[Page] # device)]
  /\ mlate' = [m \in Mutators |-> mlate[m] \/ (mpc[m] # "idle" /\ msnap[m] # device)]

\* Mutant: an observed key is left alone.
InvalidatedIgnored ==
  /\ events > 0
  /\ events' = events - 1
  /\ IF mounted THEN UNCHANGED <<rpc, entry, inflight>>
     ELSE entry' = NoEntry /\ UNCHANGED <<rpc, inflight>>
  /\ Outdated
  /\ UNCHANGED <<PageIdle, mounted, factLate, pageLate>>

\* cache:invalidate: a key somebody shows is revalidated, another is deleted.
Invalidated ==
  /\ events > 0
  /\ events' = events - 1
  /\ IF ~entry.there
       THEN UNCHANGED <<rpc, entry, inflight>>
       ELSE IF mounted THEN Revalidate
       ELSE entry' = NoEntry /\ UNCHANGED <<rpc, inflight>>
  /\ Outdated
  /\ UNCHANGED <<PageIdle, mounted, factLate, pageLate>>

\* The mutating binding's own answer: a snapshot goes straight into the store.
Reply(m) ==
  /\ mpc[m] = "reply"
  /\ mpc' = [mpc EXCEPT ![m] = "idle"]
  /\ msnap' = [msnap EXCEPT ![m] = NoData]
  /\ mlate' = [mlate EXCEPT ![m] = FALSE]
  /\ \/ /\ entry' = [there |-> TRUE, data |-> msnap[m], fresh |-> TRUE,
                     loading |-> FALSE, err |-> FALSE]
        /\ pageLate' = mlate[m]
     \/ UNCHANGED <<entry, pageLate>>
  /\ UNCHANGED <<deviceVars, storeVars, readVars, calls, events, inflight, mounted,
                 late, factLate>>

PageExpire ==
  /\ entry.fresh
  /\ entry' = [entry EXCEPT !.fresh = FALSE]
  /\ UNCHANGED <<PageIdle, rpc, events, inflight, mounted, lateVars>>

ReadStep(r) == Start(r) \/ Lookup(r) \/ Pick(r) \/ RunOk(r) \/ RunUnsupported(r)
               \/ RunTransient(r) \/ Remember(r) \/ Return(r)
PageStep == Mount \/ Unmount \/ Fetch \/ Answer \/ AnswerError \/ Invalidated \/ PageExpire

Next ==
  \/ \E r \in Readers : ReadStep(r)
  \/ FactExpire
  \/ \E l \in Links : Roam(l)
  \/ \E m \in Mutators : Mutate(m) \/ Touch(m) \/ Emit(m) \/ Reply(m)
  \/ PageStep

Spec == Init /\ [][Next]_vars

\* Goroutines run, replies and events are delivered, time passes.
Fairness ==
  /\ \A r \in Readers : WF_vars(rpc[r] # "idle" /\ ReadStep(r))
  /\ WF_vars(FactExpire)
  /\ \A m \in Mutators : WF_vars(Touch(m) \/ Emit(m) \/ Reply(m))
  /\ WF_vars(Answer \/ AnswerError) /\ WF_vars(Invalidated)

FairSpec == Spec /\ Fairness

-----------------------------------------------------------------------------
(* Properties.                                                             *)

\* Every variable has its type.
TypeOK ==
  /\ device \in Values /\ roams \in 0 .. MaxRoams
  /\ refused \subseteq Refusable
  /\ caps \in BOOLEAN /\ ruledOut \subseteq Strategies
  /\ fact \in [cached : BOOLEAN, key : Links, val : Values \cup {NoData}]
  /\ rpc \in [Readers -> {"idle", "asked", "lookup", "pick", "run", "remember",
                          "answer", "error"}]
  /\ rkey \in [Readers -> Links]
  /\ rcand \in [Readers -> SUBSET Strategies]
  /\ rval \in [Readers -> Values \cup {NoData}]
  /\ rby \in [Readers -> Strategies \cup {0}]
  /\ rfail \in [Readers -> SUBSET Strategies]
  /\ mpc \in [Mutators -> {"idle", "touch", "emit", "reply"}]
  /\ msnap \in [Mutators -> Values \cup {NoData}]
  /\ calls \in 0 .. MaxCalls
  /\ events \in 0 .. calls
  /\ entry \in [there : BOOLEAN, data : Values \cup {NoData}, fresh : BOOLEAN,
                loading : BOOLEAN, err : BOOLEAN]
  /\ inflight \in BOOLEAN /\ mounted \in BOOLEAN
  /\ late \in [Readers -> BOOLEAN] /\ mlate \in [Mutators -> BOOLEAN]
  /\ factLate \in BOOLEAN /\ pageLate \in BOOLEAN

Dirty == \E m \in Mutators : mpc[m] = "touch"
Untold == Dirty \/ events > 0 \/ \E m \in Mutators : mpc[m] = "emit"

\* "Both caches drop them": while no binding is between changing the device and
\* its touch, a remembered value the backend would serve is the device's own,
\* but for one whose read was under way when it was invalidated.
ServedIsTrue == Hit(device.link) /\ fact.val # device => Dirty \/ factLate

\* "Live keys are revalidated rather than dropped": what the page shows, once it
\* heard of every change, is the device's own, is being asked again, or carries
\* the error of having asked; but for an answer, or a snapshot, that was already
\* under way and outdated when the page heard.
ShownIsTrue ==
  entry.data # NoData /\ entry.data # device =>
    Untold \/ inflight \/ entry.err \/ pageLate

\* "A preferred path is used whenever it works": what answered is the first
\* registered strategy that works on this device, unless an earlier one, or the
\* capability scan, failed during this very call.
PreferredWhenItWorks ==
  \A r \in Readers : rby[r] # 0 =>
    \A s \in Strategies : s < rby[r] /\ s \notin rfail[r] =>
      s \in refused \/ ~(Needs[s] \subseteq Bins)

\* The TTL is the backstop: once adbq stops changing the device, what the
\* backend serves becomes true and stays so, whatever race went before.
StaleExpires == <>[](Hit(device.link) => fact.val = device)

\* A page that is loading is answered, or shows the error.
LoadingEnds == entry.loading ~> ~entry.loading
=============================================================================
