---------------------------- MODULE StoresProofs ----------------------------
(***************************************************************************)
(* What adbq remembers of a device is what the device holds, for any calls *)
(* at once, bounds, ABIs, certificates, files and profiles: the captures   *)
(* and recordings, the tcpdump that was pushed, certificates, the hosts    *)
(* file, root, the profiles, and the facts it serves.  Each part of        *)
(* MCStores is proved of its own component; a step of the whole is a step  *)
(* of one of them.                                                         *)
(***************************************************************************)
EXTENDS MCStores, Sequences, FiniteSetTheorems, WellFoundedInduction, TLAPS

-----------------------------------------------------------------------------
(* The facts: what is served and shown, and which strategy read it, for any *)
(* number of readers, bindings, strategies and networks.                    *)

ReadStates == {"idle", "asked", "lookup", "pick", "run", "remember", "answer", "error"}

CoreTypes ==
  /\ device \in Values
  /\ fact \in [cached : BOOLEAN, key : Links, val : Values \cup {NoData}]
  /\ rpc \in [Readers -> ReadStates]
  /\ rkey \in [Readers -> Links]
  /\ rval \in [Readers -> Values \cup {NoData}]
  /\ mpc \in [Mutators -> {"idle", "touch", "emit", "reply"}]
  /\ late \in [Readers -> BOOLEAN] /\ factLate \in BOOLEAN

\* The value of the key's network at the device's version of now.
Current(v, k) == v = [link |-> k, ver |-> device.ver]

\* What is remembered is current for the key it is remembered under.
FactInv == fact.cached => Current(fact.val, fact.key) \/ Dirty \/ factLate

\* A call's key is the network it set out on; what it is about to remember is
\* current for that key.
ReadInv ==
  \A r \in Readers :
    /\ rpc[r] \in {"lookup", "pick", "run"} => rkey[r] = device.link \/ late[r]
    /\ rpc[r] = "remember" => Current(rval[r], rkey[r]) \/ Dirty \/ late[r]

IInv == CoreTypes /\ FactInv /\ ReadInv

LEMMA NoFactType ==
  ASSUME CoreTypes
  PROVE  /\ NoFact \in [cached : BOOLEAN, key : Links, val : Values \cup {NoData}]
         /\ NoFact.key \in Links /\ NoFact.cached = FALSE
<1>1. device.link \in Links BY DEF CoreTypes, Values
<1> QED BY <1>1 DEF NoFact

\* Nothing is remembered and nobody reads.
LEMMA InitInv == Init => IInv
<1> SUFFICES ASSUME Init PROVE IInv OBVIOUS
<1>1. PICK l \in Links : device = [link |-> l, ver |-> 0] BY DEF Init
<1>2. device \in Values BY <1>1, BoundsAssumption DEF Values
<1>3. /\ NoFact \in [cached : BOOLEAN, key : Links, val : Values \cup {NoData}]
      /\ NoFact.key \in Links /\ NoFact.cached = FALSE
  BY <1>1 DEF NoFact
<1>4. CoreTypes BY <1>2, <1>3 DEF Init, CoreTypes, ReadStates
<1>5. FactInv BY <1>3 DEF Init, FactInv
<1>6. ReadInv BY DEF Init, ReadInv
<1> QED BY <1>4, <1>5, <1>6 DEF IInv

\* A step of Resolve.
LEMMA ReadKeeps ==
  ASSUME IInv, NEW r \in Readers, ReadStep(r)
  PROVE  IInv'
<1> USE DEF IInv
<1>0. /\ NoFact \in [cached : BOOLEAN, key : Links, val : Values \cup {NoData}]
      /\ NoFact.key \in Links /\ NoFact.cached = FALSE
  BY NoFactType
<1>1. CASE Start(r)
  <2>1. device.link \in Links BY DEF CoreTypes, Values
  <2>2. CoreTypes'
    BY <1>0, <1>1, <2>1 DEF Start, CoreTypes, ReadStates, deviceVars, mutVars
  <2>3. FactInv' BY <1>0, <1>1 DEF Start, CoreTypes, FactInv, Current, Dirty, deviceVars, mutVars
  <2>4. ReadInv'
    BY <1>1 DEF Start, CoreTypes, ReadInv, Current, Dirty, deviceVars, mutVars
  <2> QED BY <2>2, <2>3, <2>4
<1>2. CASE Lookup(r)
  <2>1. CoreTypes'
    BY <1>2 DEF Lookup, CoreTypes, ReadStates, deviceVars, storeVars, mutVars
  <2>2. FactInv'
    BY <1>2 DEF Lookup, FactInv, Current, Dirty, deviceVars, storeVars, mutVars
  <2>3. ReadInv'
    BY <1>2 DEF Lookup, CoreTypes, ReadInv, Current, Dirty, deviceVars, storeVars, mutVars
  <2> QED BY <2>1, <2>2, <2>3
<1>3. CASE Pick(r)
  <2>1. CoreTypes'
    BY <1>3 DEF Pick, CoreTypes, ReadStates, deviceVars, mutVars, lateVars
  <2>2. FactInv'
    BY <1>3 DEF Pick, FactInv, Current, Dirty, deviceVars, mutVars, lateVars
  <2>3. ReadInv'
    BY <1>3 DEF Pick, CoreTypes, ReadInv, Current, Dirty, deviceVars, mutVars, lateVars
  <2> QED BY <2>1, <2>2, <2>3
<1>4. CASE RunOk(r)
  <2>1. CoreTypes'
    BY <1>4 DEF RunOk, CoreTypes, ReadStates, deviceVars, storeVars, mutVars, lateVars
  <2>2. FactInv'
    BY <1>4 DEF RunOk, FactInv, Current, Dirty, deviceVars, storeVars, mutVars, lateVars
  <2>3. device = [link |-> device.link, ver |-> device.ver]
    BY DEF CoreTypes, Values
  <2>4. ReadInv'
    BY <1>4, <2>3 DEF RunOk, CoreTypes, ReadInv, Current, Dirty, deviceVars, storeVars,
                      mutVars, lateVars
  <2> QED BY <2>1, <2>2, <2>4
<1>5. CASE RunUnsupported(r)
  BY <1>5 DEF RunUnsupported, NextStrategy, CoreTypes, ReadStates, FactInv, ReadInv,
              Current, Dirty, deviceVars, mutVars, lateVars
<1>6. CASE RunTransient(r)
  BY <1>6 DEF RunTransient, NextStrategy, CoreTypes, ReadStates, FactInv, ReadInv,
              Current, Dirty, deviceVars, storeVars, mutVars, lateVars
<1>7. CASE Remember(r)
  <2>1. CoreTypes'
    BY <1>7 DEF Remember, CoreTypes, ReadStates, deviceVars, mutVars
  <2>2. FactInv'
    BY <1>7 DEF Remember, CoreTypes, ReadInv, FactInv, Current, Dirty, deviceVars, mutVars
  <2>3. ReadInv'
    BY <1>7 DEF Remember, CoreTypes, ReadInv, Current, Dirty, deviceVars, mutVars
  <2> QED BY <2>1, <2>2, <2>3
<1>8. CASE Return(r)
  BY <1>0, <1>8 DEF Return, Forget, CoreTypes, ReadStates, FactInv, ReadInv, Current, Dirty,
              deviceVars, storeVars, mutVars
<1> QED BY <1>1, <1>2, <1>3, <1>4, <1>5, <1>6, <1>7, <1>8 DEF ReadStep

\* A step of a binding that changes the device.
LEMMA MutatorKeeps ==
  ASSUME IInv, NEW m \in Mutators, Mutate(m) \/ Touch(m) \/ Emit(m) \/ Reply(m)
  PROVE  IInv'
<1> USE DEF IInv
<1>0. /\ NoFact \in [cached : BOOLEAN, key : Links, val : Values \cup {NoData}]
      /\ NoFact.key \in Links /\ NoFact.cached = FALSE
  BY NoFactType
<1>1. CASE Mutate(m)
  <2>1. device' \in Values /\ mpc'[m] = "touch"
    BY <1>1, BoundsAssumption DEF Mutate, CoreTypes, Values
  <2>2. Dirty' BY <2>1 DEF Dirty
  <2>3. CoreTypes'
    BY <1>1, <2>1 DEF Mutate, CoreTypes, storeVars, readVars, lateVars
  <2>4. FactInv' BY <2>2 DEF FactInv
  <2>5. device.link = device'.link
    BY <1>1 DEF Mutate, CoreTypes, Values
  <2>6. ReadInv'
    BY <1>1, <2>2, <2>5 DEF Mutate, ReadInv, readVars, lateVars
  <2> QED BY <2>3, <2>4, <2>6
<1>2. CASE Touch(m)
  <2>1. CoreTypes'
    BY <1>0, <1>2 DEF Touch, CoreTypes, deviceVars, readVars
  <2>2. FactInv' BY <1>0, <1>2 DEF Touch, FactInv
  <2>3. ReadInv' BY <1>2 DEF Touch, CoreTypes, ReadInv, deviceVars, readVars
  <2> QED BY <2>1, <2>2, <2>3
<1>3. CASE Emit(m) \/ Reply(m)
  <2>1. mpc[m] # "touch" /\ mpc' = [mpc EXCEPT ![m] = mpc'[m]] /\ mpc'[m] \in {"idle", "reply"}
    BY <1>3 DEF Emit, Reply, CoreTypes
  <2>2. Dirty' <=> Dirty BY <2>1 DEF Dirty, CoreTypes
  <2>3. UNCHANGED <<device, fact, rpc, rkey, rval, late, factLate>>
    BY <1>3 DEF Emit, Reply, deviceVars, storeVars, readVars, lateVars
  <2>4. CoreTypes' BY <2>1, <2>3 DEF CoreTypes
  <2>5. FactInv' BY <2>2, <2>3 DEF FactInv, Current
  <2>6. ReadInv' BY <2>2, <2>3 DEF ReadInv, Current
  <2> QED BY <2>4, <2>5, <2>6
<1> QED BY <1>1, <1>2, <1>3

\* The page's steps disturb a reader only by asking, answering and marking it late.
LEMMA PageKeeps ==
  ASSUME IInv, PageStep
  PROVE  IInv'
<1> USE DEF IInv
<1>0. /\ NoFact.key \in Links /\ Page \in Readers
  BY NoFactType, PageAssumption
<1>1. CASE Answer \/ AnswerError
  <2>1. /\ UNCHANGED <<device, fact, mpc, factLate>>
        /\ rpc' = [rpc EXCEPT ![Page] = "idle"]
        /\ rkey' = [rkey EXCEPT ![Page] = NoFact.key]
        /\ rval' = [rval EXCEPT ![Page] = NoData]
        /\ late' = [late EXCEPT ![Page] = FALSE]
    BY <1>1 DEF Answer, AnswerError, Forget, deviceVars, storeVars, mutVars
  <2>2. CoreTypes' BY <1>0, <2>1 DEF CoreTypes, ReadStates
  <2>3. FactInv' BY <2>1 DEF FactInv, Current, Dirty
  <2>4. ReadInv' BY <1>0, <2>1 DEF CoreTypes, ReadInv, Current, Dirty
  <2> QED BY <2>2, <2>3, <2>4
<1>2. CASE Mount \/ Unmount \/ Fetch \/ Invalidated \/ PageExpire
  <2>1. UNCHANGED <<device, fact, rkey, rval, mpc, factLate>>
    BY <1>2 DEF Mount, Unmount, Fetch, Invalidated, PageExpire, PageIdle, deviceVars,
                storeVars, mutVars, lateVars
  <2>2. rpc' = rpc \/ rpc' = [rpc EXCEPT ![Page] = "asked"]
    BY <1>2 DEF Mount, Unmount, Fetch, Invalidated, PageExpire, Revalidate
  <2>3. late' = late \/ \E b \in BOOLEAN : late' = [late EXCEPT ![Page] = @ \/ b]
    BY <1>2 DEF Mount, Unmount, Fetch, Invalidated, PageExpire, Outdated, lateVars
  <2>4. CoreTypes' BY <1>0, <2>1, <2>2, <2>3 DEF CoreTypes, ReadStates
  <2>5. FactInv' BY <2>1 DEF FactInv, Current, Dirty
  <2>6. ReadInv'
    BY <1>0, <2>1, <2>2, <2>3 DEF CoreTypes, ReadStates, ReadInv, Current, Dirty
  <2> QED BY <2>4, <2>5, <2>6
<1> QED BY <1>1, <1>2 DEF PageStep

LEMMA NextInv ==
  ASSUME IInv, [Next]_vars
  PROVE  IInv'
<1> USE DEF IInv
<1>1. ASSUME NEW r \in Readers, ReadStep(r) PROVE IInv'
  BY <1>1, ReadKeeps
<1>2. CASE FactExpire
  BY <1>2, NoFactType DEF FactExpire, CoreTypes, FactInv, ReadInv, Current, Dirty,
                          deviceVars, readVars, mutVars
<1>3. ASSUME NEW l \in Links, Roam(l) PROVE IInv'
  <2>1. device' \in Values /\ device'.ver = device.ver
    BY <1>3 DEF Roam, CoreTypes, Values
  <2>2. CoreTypes'
    BY <1>3, <2>1 DEF Roam, CoreTypes, storeVars, readVars, mutVars
  <2>3. FactInv' BY <1>3, <2>1 DEF Roam, FactInv, Current, Dirty, storeVars, mutVars
  <2>4. ReadInv'
    BY <1>3, <2>1 DEF Roam, CoreTypes, ReadInv, Current, Dirty, readVars, mutVars
  <2> QED BY <2>2, <2>3, <2>4
<1>4. ASSUME NEW m \in Mutators, Mutate(m) \/ Touch(m) \/ Emit(m) \/ Reply(m) PROVE IInv'
  BY <1>4, MutatorKeeps
<1>5. CASE PageStep
  BY <1>5, PageKeeps
<1>6. CASE UNCHANGED vars
  BY <1>6 DEF vars, CoreTypes, FactInv, ReadInv, Current, Dirty, deviceVars, storeVars,
              readVars, mutVars, lateVars
<1> QED BY <1>1, <1>2, <1>3, <1>4, <1>5, <1>6 DEF Next

\* What the backend remembers is true, being dropped, or was overtaken: rememberFact
\* (strategy.go:260) against touch (app_invalidate.go:35), whoever reads and writes.
THEOREM Served == Spec => []ServedIsTrue
<1>1. IInv => ServedIsTrue
  <2> SUFFICES ASSUME IInv, Hit(device.link), fact.val # device PROVE Dirty \/ factLate
    BY DEF ServedIsTrue
  <2>1. device = [link |-> device.link, ver |-> device.ver]
    BY DEF IInv, CoreTypes, Values
  <2> QED BY <2>1 DEF IInv, FactInv, Current, Hit
<1> QED BY <1>1, InitInv, NextInv, PTL DEF Spec

-----------------------------------------------------------------------------
(* Which strategy answers.                                                 *)

\* The names of Needs are the scan's, as far as this device has them (strategy.go:38-39).
ScanSeesNeeds == \A s \in Strategies : Needs[s] \cap Bins \subseteq CapBins

\* Why s was passed over: it failed in this call, or it does not work here.
Excused(r, s) == s \in rfail[r] \/ s \in refused \/ ~(Needs[s] \subseteq Bins)

\* What a call passed over is excused; what is ruled out is refused.
PickInv ==
  /\ rcand \in [Readers -> SUBSET Strategies]
  /\ rby \in [Readers -> Strategies \cup {0}]
  /\ rfail \in [Readers -> SUBSET Strategies]
  /\ ruledOut \subseteq refused
  /\ \A r \in Readers : rpc[r] = "run" =>
       /\ rcand[r] # {}
       /\ \A s \in Strategies \ rcand[r] : Excused(r, s)
  /\ \A r \in Readers : rby[r] # 0 =>
       \A s \in Strategies : s < rby[r] => Excused(r, s)

\* The loop of Resolve takes the first candidate.
LEMMA TurnIsLeast ==
  ASSUME NEW r \in Readers, rcand[r] \subseteq Strategies, rcand[r] # {}
  PROVE  Turn(r) \in rcand[r] /\ \A t \in rcand[r] : Turn(r) <= t
<1> DEFINE R == OpToRel(<, Nat)
<1>1. rcand[r] \subseteq Nat BY StrategiesAssumption
<1>2. IsWellFoundedOn(R, Nat) BY NatLessThanWellFounded
<1>3. PICK x \in rcand[r] : \A y \in rcand[r] : ~(<<y, x>> \in R)
  <2> HIDE DEF R
  <2> QED BY <1>1, <1>2, WFMin
<1>4. ASSUME NEW y \in rcand[r] PROVE x <= y
  <2>1. ~(y < x) BY <1>1, <1>3 DEF OpToRel
  <2> QED BY <1>1, <2>1
<1> QED BY <1>4 DEF Turn

\* A step of Resolve keeps it: strategies are passed over one at a time.
LEMMA ReadPicks ==
  ASSUME ScanSeesNeeds, IInv, PickInv, NEW r \in Readers, ReadStep(r)
  PROVE  PickInv'
<1> USE DEF PickInv, Excused
<1>0. rpc \in [Readers -> ReadStates] BY DEF IInv, CoreTypes
<1>1. CASE Start(r)
  BY <1>0, <1>1 DEF Start, ReadStates, deviceVars
<1>2. CASE Lookup(r)
  BY <1>0, <1>2 DEF Lookup, ReadStates, deviceVars, storeVars
<1>3. CASE Pick(r)
  <2>1. rfail' = rfail \/ rfail' = [rfail EXCEPT ![r] = Strategies]
    BY <1>3 DEF Pick
  <2>2. rcand' = [rcand EXCEPT ![r] = rcand'[r]] /\ rcand'[r] \subseteq Strategies
    BY <1>3 DEF Pick, Eligible
  <2>3. /\ rpc' = [rpc EXCEPT ![r] = rpc'[r]]
        /\ rpc'[r] = IF rcand'[r] = {} THEN "error" ELSE "run"
    BY <1>0, <1>3 DEF Pick
  <2>4. UNCHANGED <<refused, ruledOut, rby>>
    BY <1>3 DEF Pick, deviceVars
  <2>5. ASSUME NEW s \in Strategies \ rcand'[r] PROVE Excused(r, s)'
    <3>1. CASE rcand' = [rcand EXCEPT ![r] = Eligible(Bins \cap CapBins)]
      <4>1. s \in ruledOut \/ ~(Needs[s] \subseteq Bins \cap CapBins)
        BY <2>5, <3>1 DEF Eligible, Meets
      <4>2. Needs[s] \subseteq Bins => Needs[s] \subseteq Bins \cap CapBins
        BY DEF ScanSeesNeeds
      <4> QED BY <2>4, <4>1, <4>2
    <3>2. CASE rfail' = [rfail EXCEPT ![r] = Strategies]
      BY <3>2
    <3> QED BY <1>3, <3>1, <3>2 DEF Pick
  <2>6. ASSUME NEW q \in Readers, NEW s \in Strategies, Excused(q, s) PROVE Excused(q, s)'
    BY <2>1, <2>4, <2>6
  <2>7. ASSUME NEW q \in Readers, rpc'[q] = "run"
        PROVE  rcand'[q] # {} /\ \A s \in Strategies \ rcand'[q] : Excused(q, s)'
    <3> HIDE DEF Excused
    <3> QED BY <1>0, <2>2, <2>3, <2>5, <2>6, <2>7
  <2>8. ASSUME NEW q \in Readers, rby'[q] # 0, NEW s \in Strategies, s < rby'[q]
        PROVE  Excused(q, s)'
    <3> HIDE DEF Excused
    <3> QED BY <2>4, <2>6, <2>8
  <2>9. /\ rcand' \in [Readers -> SUBSET Strategies]
        /\ rfail' \in [Readers -> SUBSET Strategies]
    BY <2>1, <2>2
  <2> HIDE DEF Excused
  <2> QED BY <2>4, <2>7, <2>8, <2>9
<1>4. CASE RunOk(r)
  <2>1. /\ Turn(r) \in rcand[r] /\ \A t \in rcand[r] : Turn(r) <= t
    BY <1>4, TurnIsLeast DEF RunOk
  <2>2. /\ UNCHANGED <<refused, ruledOut, rcand, rfail>>
        /\ rby' = [rby EXCEPT ![r] = Turn(r)]
        /\ rpc[r] = "run"
        /\ rpc' = [rpc EXCEPT ![r] = rpc'[r]] /\ rpc'[r] # "run"
    BY <1>0, <1>4 DEF RunOk, deviceVars, storeVars
  <2>3. ASSUME NEW s \in Strategies, s < Turn(r) PROVE s \notin rcand[r]
    BY <2>1, <2>3, StrategiesAssumption
  <2>4. ASSUME NEW q \in Readers, rby'[q] # 0, NEW s \in Strategies, s < rby'[q]
        PROVE  Excused(q, s)'
    BY <2>2, <2>3, <2>4
  <2>5. rby' \in [Readers -> Strategies \cup {0}] BY <2>1, <2>2
  <2> QED BY <1>0, <2>2, <2>4, <2>5
<1>5. CASE RunUnsupported(r) \/ RunTransient(r)
  <2>1. PICK c \in rcand[r] : c = Turn(r)
    BY <1>5, TurnIsLeast DEF RunUnsupported, RunTransient
  <2>2. /\ rcand' = [rcand EXCEPT ![r] = @ \ {c}]
        /\ rpc[r] = "run"
        /\ rpc' = [rpc EXCEPT ![r] = rpc'[r]]
        /\ rpc'[r] = IF rcand'[r] = {} THEN "error" ELSE "run"
        /\ UNCHANGED <<refused, rby>>
    BY <1>0, <1>5, <2>1 DEF RunUnsupported, RunTransient, NextStrategy, deviceVars
  <2>3. \/ ruledOut' = ruledOut \cup {c} /\ rfail' = rfail /\ c \in refused
        \/ ruledOut' = ruledOut /\ rfail' = [rfail EXCEPT ![r] = @ \cup {c}]
    BY <1>5, <2>1 DEF RunUnsupported, RunTransient, storeVars
  <2>4. ASSUME NEW q \in Readers, NEW s \in Strategies, Excused(q, s) PROVE Excused(q, s)'
    BY <2>2, <2>3, <2>4
  <2>5. Excused(r, c)' BY <2>2, <2>3
  <2>6. ASSUME NEW q \in Readers, rpc'[q] = "run"
        PROVE  rcand'[q] # {} /\ \A s \in Strategies \ rcand'[q] : Excused(q, s)'
    <3> HIDE DEF Excused
    <3>1. CASE q = r BY <2>2, <2>4, <2>5, <2>6, <3>1
    <3>2. CASE q # r BY <1>0, <2>2, <2>4, <2>6, <3>2
    <3> QED BY <3>1, <3>2
  <2>7. ASSUME NEW q \in Readers, rby'[q] # 0, NEW s \in Strategies, s < rby'[q]
        PROVE  Excused(q, s)'
    <3> HIDE DEF Excused
    <3> QED BY <2>2, <2>4, <2>7
  <2>8. /\ rcand' \in [Readers -> SUBSET Strategies]
        /\ rfail' \in [Readers -> SUBSET Strategies]
        /\ ruledOut' \subseteq refused'
    BY <2>1, <2>2, <2>3
  <2> HIDE DEF Excused
  <2> QED BY <2>2, <2>6, <2>7, <2>8
<1>6. CASE Remember(r)
  BY <1>0, <1>6 DEF Remember, ReadStates, deviceVars
<1>7. CASE Return(r)
  BY <1>0, <1>7 DEF Return, Forget, ReadStates, deviceVars, storeVars
<1> QED BY <1>1, <1>2, <1>3, <1>4, <1>5, <1>6, <1>7 DEF ReadStep

LEMMA NextPicks ==
  ASSUME ScanSeesNeeds, IInv, PickInv, [Next]_vars
  PROVE  PickInv'
<1>1. ASSUME NEW r \in Readers, ReadStep(r) PROVE PickInv'
  BY <1>1, ReadPicks
<1>2. CASE Answer \/ AnswerError
  BY <1>2, PageAssumption DEF Answer, AnswerError, Forget, IInv, CoreTypes, PickInv, Excused,
                              deviceVars, storeVars
<1>3. CASE \/ FactExpire \/ UNCHANGED vars
           \/ \E l \in Links : Roam(l)
           \/ \E m \in Mutators : Mutate(m) \/ Touch(m) \/ Emit(m) \/ Reply(m)
           \/ Mount \/ Unmount \/ Fetch \/ Invalidated \/ PageExpire
  <2>1. UNCHANGED <<refused, rcand, rby, rfail>> /\ ruledOut' \subseteq ruledOut
    BY <1>3 DEF FactExpire, Roam, Mutate, Touch, Emit, Reply, Mount, Unmount, Fetch,
                Invalidated, PageExpire, PageIdle, vars, deviceVars, storeVars, readVars
  <2>2. rpc' = rpc \/ rpc' = [rpc EXCEPT ![Page] = "asked"]
    BY <1>3 DEF FactExpire, Roam, Mutate, Touch, Emit, Reply, Mount, Unmount, Fetch,
                Invalidated, PageExpire, PageIdle, Revalidate, vars, readVars
  <2> QED BY <2>1, <2>2 DEF PickInv, Excused, IInv, CoreTypes
<1> QED BY <1>1, <1>2, <1>3 DEF Next, PageStep

\* "A preferred path is used whenever it works" (strategy.go:74-76) wherever strategies
\* name their needs as the scan does; the process table's ps is the one that does not.
THEOREM Preferred ==
  ASSUME ScanSeesNeeds
  PROVE  Spec => []PreferredWhenItWorks
<1>1. Init => IInv /\ PickInv
  BY InitInv DEF Init, PickInv
<1>2. IInv /\ PickInv /\ [Next]_vars => (IInv /\ PickInv)'
  BY NextInv, NextPicks
<1>3. PickInv => PreferredWhenItWorks
  BY DEF PickInv, Excused, PreferredWhenItWorks
<1> QED BY <1>1, <1>2, <1>3, PTL DEF Spec

-----------------------------------------------------------------------------
(* What the page shows.                                                    *)

PageTypes ==
  /\ events \in Nat
  /\ entry \in [there : BOOLEAN, data : Values \cup {NoData}, fresh : BOOLEAN,
                loading : BOOLEAN, err : BOOLEAN]
  /\ inflight \in BOOLEAN /\ pageLate \in BOOLEAN
  /\ msnap \in [Mutators -> Values \cup {NoData}]
  /\ mlate \in [Mutators -> BOOLEAN]

\* A value on its way to the page is the device's, or will be asked again, or was
\* outdated when the page heard of a change.
OnItsWay(v, isLate) == v = device \/ Untold \/ isLate

\* What the page's own request is about to remember or to answer, ...
AnswerInv == rpc[Page] \in {"remember", "answer"} => OnItsWay(rval[Page], late[Page])

\* ... what a binding read back to return it, ...
SnapInv == \A m \in Mutators : mpc[m] # "idle" => OnItsWay(msnap[m], mlate[m])

\* ... and an entry that was deleted holds nothing.
GoneInv == ~entry.there => entry.data = NoData

PageInv == PageTypes /\ AnswerInv /\ SnapInv /\ GoneInv /\ ShownIsTrue

\* The page shows nothing and has asked nothing.
LEMMA InitPage == Init => PageInv
<1> SUFFICES ASSUME Init PROVE PageInv OBVIOUS
<1>1. PageTypes BY DEF Init, PageTypes, NoEntry
<1>2. AnswerInv /\ SnapInv BY PageAssumption DEF Init, AnswerInv, SnapInv
<1>3. GoneInv /\ ShownIsTrue BY DEF Init, GoneInv, ShownIsTrue, NoEntry
<1> QED BY <1>1, <1>2, <1>3 DEF PageInv

\* A step of a reader changes nothing of the page but, if it is the page's, its answer:
\* a value from the store is the device's own unless one was overtaken.
LEMMA ReadShows ==
  ASSUME IInv, PageInv, NEW r \in Readers, ReadStep(r)
  PROVE  PageInv'
<1> USE DEF IInv, PageInv
<1>1. UNCHANGED <<device, mpc, msnap, mlate, events, entry, inflight, pageLate>>
  BY DEF ReadStep, Start, Lookup, Pick, RunOk, RunUnsupported, RunTransient, Remember, Return,
         deviceVars, mutVars, pageVars, lateVars
<1>2. Untold' <=> Untold
  BY <1>1 DEF Untold, Dirty
<1>3. PageTypes' /\ SnapInv' /\ GoneInv' /\ ShownIsTrue'
  BY <1>1, <1>2 DEF PageTypes, SnapInv, GoneInv, ShownIsTrue, OnItsWay
<1>4. AnswerInv'
  <2>1. CASE r # Page
    <3>1. rpc'[Page] = rpc[Page] /\ rval'[Page] = rval[Page] /\ late'[Page] = late[Page]
      BY <2>1, PageAssumption
         DEF ReadStep, Start, Lookup, Pick, RunOk, RunUnsupported, RunTransient, NextStrategy,
             Remember, Return, Forget, CoreTypes, lateVars
    <3> QED BY <1>1, <1>2, <3>1 DEF AnswerInv, OnItsWay
  <2>2. CASE r = Page
    <3>1. CASE Start(r) \/ Pick(r) \/ RunUnsupported(r) \/ RunTransient(r) \/ Return(r)
      <4>1. rpc'[Page] \notin {"remember", "answer"}
        BY <2>2, <3>1 DEF Start, Pick, RunUnsupported, RunTransient, NextStrategy, Return, CoreTypes
      <4> QED BY <4>1 DEF AnswerInv
    <3>2. CASE Lookup(r)
      <4>1. CASE Hit(rkey[r])
        <5>1. rval'[Page] = fact.val /\ late'[Page] = (late[Page] \/ factLate)
          BY <2>2, <3>2, <4>1 DEF Lookup, CoreTypes
        <5>2. Current(fact.val, rkey[r]) \/ Dirty \/ factLate
          BY <4>1 DEF Hit, FactInv
        <5>3. rkey[r] = device.link \/ late[r]
          BY <3>2 DEF Lookup, ReadInv
        <5>4. device = [link |-> device.link, ver |-> device.ver]
          BY DEF CoreTypes, Values
        <5>5. fact.val = device \/ Dirty \/ factLate \/ late[r]
          BY <5>2, <5>3, <5>4 DEF Current
        <5> QED BY <1>1, <1>2, <2>2, <5>1, <5>5 DEF AnswerInv, OnItsWay, Untold
      <4>2. CASE ~Hit(rkey[r])
        BY <2>2, <3>2, <4>2 DEF Lookup, CoreTypes, AnswerInv
      <4> QED BY <4>1, <4>2
    <3>3. CASE RunOk(r)
      BY <1>1, <2>2, <3>3 DEF RunOk, CoreTypes, AnswerInv, OnItsWay
    <3>4. CASE Remember(r)
      BY <1>1, <1>2, <2>2, <3>4 DEF Remember, CoreTypes, AnswerInv, OnItsWay
    <3> QED BY <3>1, <3>2, <3>3, <3>4 DEF ReadStep
  <2> QED BY <2>1, <2>2
<1> QED BY <1>3, <1>4

\* A binding tells the page of its change before it answers.
LEMMA MutatorShows ==
  ASSUME IInv, PageInv, NEW m \in Mutators, Mutate(m) \/ Touch(m) \/ Emit(m) \/ Reply(m)
  PROVE  PageInv'
<1> USE DEF IInv, PageInv, OnItsWay
<1>1. CASE Mutate(m)
  <2>1. device' \in Values /\ mpc'[m] = "touch"
    BY <1>1, BoundsAssumption DEF Mutate, CoreTypes, Values
  <2>2. Untold' BY <2>1 DEF Untold, Dirty
  <2>3. PageTypes' /\ GoneInv'
    BY <1>1, <2>1 DEF Mutate, PageTypes, GoneInv, pageVars, lateVars
  <2> QED BY <2>2, <2>3 DEF AnswerInv, SnapInv, ShownIsTrue
<1>2. CASE Touch(m)
  <2>1. Untold' BY <1>2 DEF Touch, CoreTypes, Untold
  <2>2. PageTypes' /\ GoneInv'
    BY <1>2 DEF Touch, PageTypes, GoneInv, pageVars
  <2> QED BY <2>1, <2>2 DEF AnswerInv, SnapInv, ShownIsTrue
<1>3. CASE Emit(m)
  <2>1. PageTypes' /\ GoneInv' /\ events' > 0
    BY <1>3 DEF Emit, PageTypes, GoneInv, lateVars
  <2> QED BY <2>1 DEF AnswerInv, SnapInv, ShownIsTrue, Untold
<1>4. CASE Reply(m)
  <2>1. /\ UNCHANGED <<device, rpc, rval, late, events, inflight>>
        /\ mpc[m] = "reply" /\ mpc' = [mpc EXCEPT ![m] = "idle"]
        /\ msnap' = [msnap EXCEPT ![m] = NoData] /\ mlate' = [mlate EXCEPT ![m] = FALSE]
    BY <1>4 DEF Reply, deviceVars, readVars
  <2>2. Untold' <=> Untold BY <2>1 DEF Untold, Dirty, CoreTypes
  <2>3. CASE UNCHANGED <<entry, pageLate>>
    BY <2>1, <2>2, <2>3 DEF CoreTypes, PageTypes, AnswerInv, SnapInv, GoneInv, ShownIsTrue
  <2>4. CASE /\ entry' = [there |-> TRUE, data |-> msnap[m], fresh |-> TRUE,
                          loading |-> FALSE, err |-> FALSE]
             /\ pageLate' = mlate[m]
    <3>1. ShownIsTrue'
      BY <2>1, <2>2, <2>4 DEF SnapInv, ShownIsTrue
    <3>2. PageTypes' /\ GoneInv'
      BY <2>1, <2>4 DEF PageTypes, GoneInv
    <3>3. AnswerInv' /\ SnapInv'
      BY <2>1, <2>2 DEF AnswerInv, SnapInv, CoreTypes, PageTypes
    <3> QED BY <3>1, <3>2, <3>3
  <2> QED BY <1>4, <2>3, <2>4 DEF Reply
<1> QED BY <1>1, <1>2, <1>3, <1>4

\* A page that hears of a change asks again, forgets what it held, or holds nothing.
LEMMA PageShows ==
  ASSUME IInv, PageInv, PageStep
  PROVE  PageInv'
<1> USE DEF IInv, PageInv, OnItsWay
<1>1. CASE Answer \/ AnswerError
  <2>1. /\ UNCHANGED <<device, mpc, msnap, mlate, events>> /\ inflight' = FALSE
        /\ rpc' = [rpc EXCEPT ![Page] = "idle"]
    BY <1>1 DEF Answer, AnswerError, Forget, deviceVars, mutVars
  <2>2. Untold' <=> Untold BY <2>1 DEF Untold, Dirty
  <2>3. AnswerInv' /\ SnapInv'
    BY <2>1, <2>2, PageAssumption DEF AnswerInv, SnapInv, CoreTypes
  <2>4. PageTypes' /\ GoneInv' /\ ShownIsTrue'
    <3>1. CASE Answer
      BY <2>1, <2>2, <3>1, PageAssumption
         DEF Answer, PageTypes, CoreTypes, GoneInv, ShownIsTrue, AnswerInv
    <3>2. CASE AnswerError
      BY <2>1, <2>2, <3>2 DEF AnswerError, PageTypes, GoneInv, ShownIsTrue
    <3> QED BY <1>1, <3>1, <3>2
  <2> QED BY <2>3, <2>4
<1>2. CASE Mount \/ Unmount \/ Fetch \/ PageExpire
  <2>1. UNCHANGED <<device, mpc, msnap, mlate, events, rval, late, pageLate>>
    BY <1>2 DEF Mount, Unmount, Fetch, PageExpire, PageIdle, deviceVars, mutVars, lateVars
  <2>2. Untold' <=> Untold BY <2>1 DEF Untold, Dirty
  <2>3. \/ /\ UNCHANGED <<rpc, inflight>>
           /\ entry' = entry \/ (entry.fresh /\ entry' = [entry EXCEPT !.fresh = FALSE])
        \/ /\ rpc' = [rpc EXCEPT ![Page] = "asked"] /\ inflight' = TRUE
           /\ entry' = [entry EXCEPT !.there = TRUE, !.loading = TRUE, !.err = FALSE]
    BY <1>2 DEF Mount, Unmount, Fetch, PageExpire, Revalidate
  <2>4. AnswerInv' /\ SnapInv'
    BY <2>1, <2>2, <2>3, PageAssumption DEF AnswerInv, SnapInv, CoreTypes
  <2>5. PageTypes' /\ GoneInv' /\ ShownIsTrue'
    BY <2>1, <2>2, <2>3 DEF PageTypes, GoneInv, ShownIsTrue
  <2> QED BY <2>4, <2>5
<1>3. CASE Invalidated
  <2>1. /\ UNCHANGED <<device, mpc, msnap, rval, pageLate>> /\ events' \in Nat
        /\ \/ UNCHANGED rpc
           \/ rpc' = [rpc EXCEPT ![Page] = "asked"]
    BY <1>3 DEF Invalidated, Revalidate, PageIdle, deviceVars, mutVars, PageTypes
  <2>2. /\ late'[Page] <=> late[Page] \/ (rpc[Page] \in {"remember", "answer"} /\ rval[Page] # device)
        /\ \A m \in Mutators : mlate'[m] <=> mlate[m] \/ (mpc[m] # "idle" /\ msnap[m] # device)
        /\ mlate' \in [Mutators -> BOOLEAN]
    BY <1>3, PageAssumption DEF Invalidated, Outdated, CoreTypes, PageTypes
  <2>3. AnswerInv' /\ SnapInv'
    BY <2>1, <2>2, PageAssumption DEF AnswerInv, SnapInv, CoreTypes
  <2>4. \/ ~entry.there /\ UNCHANGED <<entry, inflight>>
        \/ inflight /\ UNCHANGED <<entry, inflight>>
        \/ /\ entry' = [entry EXCEPT !.there = TRUE, !.loading = TRUE, !.err = FALSE]
           /\ inflight' = TRUE
        \/ entry' = NoEntry /\ UNCHANGED inflight
    BY <1>3 DEF Invalidated, Revalidate
  <2>5. NoEntry \in [there : BOOLEAN, data : Values \cup {NoData}, fresh : BOOLEAN,
                     loading : BOOLEAN, err : BOOLEAN] /\ NoEntry.data = NoData
    BY DEF NoEntry
  <2>6. PageTypes'
    BY <2>1, <2>2, <2>4, <2>5 DEF PageTypes
  <2>7. GoneInv' /\ ShownIsTrue'
    <3>1. CASE ~entry.there /\ UNCHANGED <<entry, inflight>>
      BY <3>1 DEF GoneInv, ShownIsTrue
    <3>2. CASE inflight /\ UNCHANGED <<entry, inflight>>
      BY <3>2 DEF GoneInv, ShownIsTrue
    <3>3. CASE /\ entry' = [entry EXCEPT !.there = TRUE, !.loading = TRUE, !.err = FALSE]
               /\ inflight' = TRUE
      BY <3>3 DEF PageTypes, GoneInv, ShownIsTrue
    <3>4. CASE entry' = NoEntry
      BY <2>5, <3>4 DEF GoneInv, ShownIsTrue
    <3> QED BY <2>4, <3>1, <3>2, <3>3, <3>4
  <2> QED BY <2>3, <2>6, <2>7
<1> QED BY <1>1, <1>2, <1>3 DEF PageStep

LEMMA NextPage ==
  ASSUME IInv, PageInv, [Next]_vars
  PROVE  PageInv'
<1> USE DEF IInv, PageInv, OnItsWay
<1>1. ASSUME NEW r \in Readers, ReadStep(r) PROVE PageInv'
  BY <1>1, ReadShows
<1>2. CASE FactExpire \/ UNCHANGED vars
  BY <1>2 DEF FactExpire, vars, deviceVars, storeVars, readVars, mutVars, pageVars, lateVars, PageTypes,
              AnswerInv, SnapInv, GoneInv, ShownIsTrue, Untold, Dirty
<1>3. ASSUME NEW l \in Links, Roam(l) PROVE PageInv'
  <2>1. /\ UNCHANGED <<rpc, rval, mpc, msnap, events, entry, inflight>> /\ pageLate' = TRUE
        /\ \A r \in Readers : rpc[r] \in {"remember", "answer"} => late'[r]
        /\ \A m \in Mutators : mpc[m] # "idle" => mlate'[m]
        /\ mlate' \in [Mutators -> BOOLEAN]
    BY <1>3 DEF Roam, readVars, mutVars, pageVars, PageTypes, CoreTypes
  <2> QED BY <2>1, PageAssumption DEF PageTypes, AnswerInv, SnapInv, GoneInv, ShownIsTrue
<1>4. ASSUME NEW m \in Mutators, Mutate(m) \/ Touch(m) \/ Emit(m) \/ Reply(m) PROVE PageInv'
  BY <1>4, MutatorShows
<1>5. CASE PageStep
  BY <1>5, PageShows
<1> QED BY <1>1, <1>2, <1>3, <1>4, <1>5 DEF Next

\* A page that heard of every change shows the device's own value, asks again, or carries
\* the error of having asked (cache.tsx: live keys are revalidated), whoever reads and
\* writes; but for a value that was outdated on its way.
THEOREM Shown == Spec => []ShownIsTrue
<1>1. Init => IInv /\ PageInv
  BY InitInv, InitPage
<1>2. IInv /\ PageInv /\ [Next]_vars => (IInv /\ PageInv)'
  BY NextInv, NextPage
<1>3. PageInv => ShownIsTrue
  BY DEF PageInv
<1> QED BY <1>1, <1>2, <1>3, PTL DEF Spec

-----------------------------------------------------------------------------
(* The capture.                                                            *)

\* Memory and file differ during a save only (SessionStore, sessions.go).
SavedInv == writing \/ disk = store

\* A call that is about to forget the capture has killed it, or is known to have slipped
\* (StopCapture, KillExternalCapture); what reconcileSessions is about to drop does not
\* run, or it is known to be misled; so what runs otherwise has its session.
CaptureInv ==
  /\ captureCall = "forget" /\ "file" \in tcp => slip
  /\ recon # "none" /\ "file" \in tcp => misled # {}
  /\ captureCall = "none" /\ "file" \in tcp /\ ~slip /\ misled = {} => "cap" \in store

\* The steps about the capture, those about a recording, and those of the device.
CaptureCall == Capture!StartCapture \/ Capture!LaunchCapture \/ Capture!ProbeCapture \/ Capture!StopCapture \/ Capture!ForgetCapture
               \/ Capture!AdoptExternalCapture \/ Capture!ReconcileStatus \/ Capture!ReconcileLook
               \/ Capture!ReconcileRemove
RecordingCall == Capture!StartScreenRecord \/ Capture!SpawnRecorder \/ Capture!EnterRecording \/ Capture!RecorderEnds
                 \/ Capture!StopScreenRecord \/ Capture!FinishRecording \/ Capture!ReconcileRecording
CaptureIdles == Capture!DeviceLeaves \/ Capture!DeviceReturns \/ UNCHANGED Capture!vars

LEMMA CaptureSteps ==
  ASSUME [Capture!Next]_Capture!vars
  PROVE  CaptureCall \/ RecordingCall \/ Capture!Crash \/ Capture!SaveEnds \/ CaptureIdles
BY DEF Capture!Next, CaptureCall, RecordingCall, CaptureIdles

LEMMA SavedStep ==
  ASSUME SavedInv, [Capture!Next]_Capture!vars
  PROVE  SavedInv'
<1> USE DEF SavedInv
<1>1. CASE CaptureCall
  BY <1>1 DEF CaptureCall, Capture!StartCapture, Capture!LaunchCapture, Capture!ProbeCapture, Capture!StopCapture, Capture!ForgetCapture,
              Capture!AdoptExternalCapture, Capture!ReconcileStatus, Capture!ReconcileLook, Capture!ReconcileRemove,
              Capture!Store, Capture!saved
<1>2. CASE RecordingCall
  BY <1>2 DEF RecordingCall, Capture!StartScreenRecord, Capture!SpawnRecorder, Capture!EnterRecording, Capture!RecorderEnds,
              Capture!StopScreenRecord, Capture!FinishRecording, Capture!ReconcileRecording, Capture!Store, Capture!saved
<1>3. CASE Capture!Crash BY <1>3 DEF Capture!Crash
<1>4. CASE Capture!SaveEnds BY <1>4 DEF Capture!SaveEnds
<1>5. CASE CaptureIdles BY <1>5 DEF CaptureIdles, Capture!DeviceLeaves, Capture!DeviceReturns, Capture!vars, Capture!saved
<1> QED BY <1>1, <1>2, <1>3, <1>4, <1>5, CaptureSteps

LEMMA CaptureStep ==
  ASSUME CaptureInv, [Capture!Next]_Capture!vars
  PROVE  CaptureInv'
<1> USE DEF CaptureInv, Capture!saved, Capture!device, Capture!panel, Capture!boot
<1>1. CASE CaptureCall
  <2>1. CASE Capture!StartCapture BY <2>1 DEF Capture!StartCapture
  <2>2. CASE Capture!LaunchCapture BY <2>2 DEF Capture!LaunchCapture, Capture!Overtakes
  <2>3. CASE Capture!ProbeCapture BY <2>3 DEF Capture!ProbeCapture, Capture!Active, Capture!Store
  <2>4. CASE Capture!StopCapture BY <2>4 DEF Capture!StopCapture
  <2>5. CASE Capture!ForgetCapture BY <2>5 DEF Capture!ForgetCapture, Capture!Store
  <2>6. CASE Capture!AdoptExternalCapture BY <2>6 DEF Capture!AdoptExternalCapture, Capture!Store
  <2>7. CASE Capture!ReconcileStatus BY <2>7 DEF Capture!ReconcileStatus, Capture!Active
  <2>8. CASE Capture!ReconcileLook BY <2>8 DEF Capture!ReconcileLook
  <2>9. CASE Capture!ReconcileRemove BY <2>9 DEF Capture!ReconcileRemove, Capture!Store
  <2> QED BY <1>1, <2>1, <2>2, <2>3, <2>4, <2>5, <2>6, <2>7, <2>8, <2>9 DEF CaptureCall
<1>2. CASE RecordingCall
  <2>1. UNCHANGED <<tcp, captureCall, slip, recon, misled>> /\ ("cap" \in store => "cap" \in store')
    BY <1>2 DEF RecordingCall, Capture!StartScreenRecord, Capture!SpawnRecorder, Capture!EnterRecording, Capture!RecorderEnds,
                Capture!StopScreenRecord, Capture!FinishRecording, Capture!ReconcileRecording, Capture!Store
  <2> QED BY <2>1
<1>3. CASE Capture!Crash BY <1>3 DEF Capture!Crash
<1>4. CASE Capture!SaveEnds BY <1>4 DEF Capture!SaveEnds
<1>5. CASE CaptureIdles BY <1>5 DEF CaptureIdles, Capture!DeviceLeaves, Capture!DeviceReturns, Capture!vars
<1> QED BY <1>1, <1>2, <1>3, <1>4, <1>5, CaptureSteps

-----------------------------------------------------------------------------
(* The recording.                                                          *)

RecordTypes ==
  /\ captureEntry \in Capture!Recs \cup {0} /\ starts \subseteq Capture!Recs /\ stops \subseteq Capture!Recs
  /\ DOMAIN recRow = Capture!Recs

\* A start found no entry, so an entry beside a start is one of a start that overlapped
\* it, and so are two starts (StartScreenRecord looks, and enters, in two steps).
RecordAloneInv ==
  /\ captureEntry # 0 /\ starts # {} => captureEntry \in twins
  /\ \A r, q \in starts : r # q => r \in twins

RecordInv == RecordTypes /\ RecordAloneInv /\ Capture!RecordingIsReachable

LEMMA RecordStep ==
  ASSUME RecordInv, [Capture!Next]_Capture!vars
  PROVE  RecordInv'
<1> USE DEF RecordInv, RecordTypes, RecordAloneInv, Capture!RecordingIsReachable, Capture!recorder
<1>0. 0 \notin Capture!Recs BY DEF Capture!Recs
<1>1. ASSUME UNCHANGED <<captureEntry, starts, stops, recRow, twins>> PROVE RecordInv'
  BY <1>1
<1>2. CASE CaptureCall
  BY <1>1, <1>2 DEF CaptureCall, Capture!StartCapture, Capture!LaunchCapture, Capture!ProbeCapture, Capture!StopCapture,
              Capture!ForgetCapture, Capture!AdoptExternalCapture, Capture!ReconcileStatus, Capture!ReconcileLook,
              Capture!ReconcileRemove
<1>3. CASE Capture!StartScreenRecord
  <2>1. PICK r \in Capture!Recs : /\ starts' = starts \cup {r}
                          /\ recRow' = [recRow EXCEPT ![r] = "running"]
                          /\ twins' = IF starts = {} THEN twins ELSE twins \cup starts'
    BY <1>3 DEF Capture!StartScreenRecord
  <2>2. captureEntry = 0 /\ UNCHANGED <<captureEntry, stops>> BY <1>3 DEF Capture!StartScreenRecord
  <2>3. RecordTypes' BY <2>1, <2>2
  <2>4. RecordAloneInv' BY <2>1, <2>2
  <2>5. Capture!RecordingIsReachable'
    <3>1. ASSUME NEW q \in Capture!Recs \ twins', recRow'[q] = "running", q \notin starts' \cup stops'
          PROVE  FALSE
      <4>1. q # r /\ q \notin twins /\ q \notin starts \cup stops BY <2>1, <2>2, <3>1
      <4>2. recRow[q] = "running" BY <2>1, <3>1, <4>1
      <4>3. captureEntry = q BY <3>1, <4>1, <4>2
      <4> QED BY <1>0, <2>2, <4>3
    <3> QED BY <3>1
  <2> QED BY <2>3, <2>4, <2>5
<1>4. CASE Capture!SpawnRecorder
  <2>1. UNCHANGED <<captureEntry, stops, twins>> BY <1>4 DEF Capture!SpawnRecorder
  <2>2. CASE UNCHANGED <<starts, recRow>> BY <1>1, <2>1, <2>2
  <2>3. ASSUME NEW r \in starts, starts' = starts \ {r}, recRow' = [recRow EXCEPT ![r] = "err"]
        PROVE  RecordInv'
    BY <2>1, <2>3
  <2> QED BY <1>4, <2>2, <2>3 DEF Capture!SpawnRecorder
<1>5. CASE Capture!EnterRecording
  <2>1. PICK r \in starts : captureEntry' = r /\ starts' = starts \ {r} BY <1>5 DEF Capture!EnterRecording
  <2>2. UNCHANGED <<stops, recRow, twins>> BY <1>5 DEF Capture!EnterRecording
  <2>3. RecordTypes' BY <2>1, <2>2
  <2>4. RecordAloneInv' BY <2>1, <2>2
  <2>5. Capture!RecordingIsReachable'
    <3>1. ASSUME NEW q \in Capture!Recs \ twins', recRow'[q] = "running", q \notin starts' \cup stops', q # r
          PROVE  FALSE
      <4>1. q \notin twins /\ q \notin starts \cup stops /\ recRow[q] = "running" BY <2>1, <2>2, <3>1
      <4>2. captureEntry = q BY <3>1, <4>1
      <4>3. captureEntry # 0 /\ starts # {} BY <1>0, <3>1, <4>2
      <4> QED BY <4>1, <4>2, <4>3
    <3> QED BY <2>1, <3>1
  <2> QED BY <2>3, <2>4, <2>5
<1>6. CASE Capture!StopScreenRecord
  BY <1>0, <1>6 DEF Capture!StopScreenRecord
<1>7. CASE Capture!FinishRecording
  <2>1. PICK r \in stops : /\ stops' = stops \ {r}
                           /\ \/ recRow' = [recRow EXCEPT ![r] = "ok"]
                              \/ recRow' = [recRow EXCEPT ![r] = "err"]
    BY <1>7 DEF Capture!FinishRecording
  <2>2. UNCHANGED <<captureEntry, starts, twins>> BY <1>7 DEF Capture!FinishRecording
  <2> QED BY <2>1, <2>2
<1>8. CASE Capture!RecorderEnds \/ Capture!ReconcileRecording \/ Capture!SaveEnds \/ CaptureIdles
  BY <1>1, <1>8 DEF Capture!RecorderEnds, Capture!ReconcileRecording, Capture!SaveEnds, CaptureIdles, Capture!DeviceLeaves,
              Capture!DeviceReturns, Capture!vars
<1>9. CASE Capture!Crash BY <1>9 DEF Capture!Crash
<1> QED BY <1>2, <1>3, <1>4, <1>5, <1>6, <1>7, <1>8, <1>9, CaptureSteps DEF RecordingCall

-----------------------------------------------------------------------------
(* The theorems.                                                           *)

CapturesInv == SavedInv /\ CaptureInv /\ RecordInv

LEMMA CaptureInit == Capture!Init => CapturesInv
BY DEF Capture!Init, CapturesInv, SavedInv, CaptureInv, RecordInv, RecordTypes, RecordAloneInv, Capture!RecordingIsReachable

\* The inductive invariant holds in every reachable state.
THEOREM CaptureInvariant == Capture!Spec => []CapturesInv
<1>1. CapturesInv /\ [Capture!Next]_Capture!vars => CapturesInv' BY SavedStep, CaptureStep, RecordStep DEF CapturesInv
<1> QED BY CaptureInit, <1>1, PTL DEF Capture!Spec

\* A file capture that runs while no call is about it has its session in the store, and
\* on disk once the save is through, over any crash; unless the device did not answer the
\* panel, a crash cut a call or tore a save, or reconcileSessions acted on a status that
\* was no answer or that the capture began after (sessions.go; StartCapture to
\* AdoptExternalCapture and reconcileSessions, app.go).
THEOREM CaptureKnown == Capture!Spec => []Capture!CaptureIsKnown
<1>1. CapturesInv => Capture!CaptureIsKnown BY DEF CapturesInv, SavedInv, CaptureInv, Capture!CaptureIsKnown
<1> QED BY CaptureInvariant, <1>1, PTL

\* A recording of this launch whose row runs is the entry's, or a call is about it: only
\* starts that overlap hide one another (StartScreenRecord, StopScreenRecord, app.go).
THEOREM RecordingReachable == Capture!Spec => []Capture!RecordingIsReachable
<1>1. CapturesInv => Capture!RecordingIsReachable BY DEF CapturesInv, RecordInv
<1> QED BY CaptureInvariant, <1>1, PTL
-----------------------------------------------------------------------------
(* Profiles.                                                               *)

Files == {"profiles", "devices"}

\* What a call may still have to write (saveProfilesLocked, saveDevicesLocked).
Todos == {<<>>, <<"profiles">>, <<"devices">>, <<"profiles", "devices">>}

ShapeInv ==
  /\ profileTodo \in Todos
  /\ profileDisk = [profiles |-> profileDisk.profiles, devices |-> profileDisk.devices]
  /\ profileFaults \in Nat

\* The lock is held from the change to the rename, so the copy that is written beside a
\* file is what the store holds until it is in place.
TempInv ==
  temp # Profile!NoTemp => profileTodo # <<>> /\ temp.file = Head(profileTodo) /\ temp.what = Profile!Held(temp.file)

\* A call that saves a profile has that file alone to write.
SavingInv == saving # 0 /\ profileTodo # <<>> => profileTodo = <<"profiles">> /\ saving \in DOMAIN profiles

\* What a caller was told is kept, in memory and on disk: a crash between any two steps
\* finds it.
IsIn(told_, kept) == \A id \in DOMAIN told_ : id \in DOMAIN kept /\ kept[id].birth = told_[id]
ToldInv == IsIn(told, profiles) /\ IsIn(told, profileDisk.profiles)

\* A file that differs from the store is one a call is about to write, or one the disk refused.
FileInv == profileFaults = 0 => \A f \in Files : profileDisk[f] = Profile!Held(f) \/ \E i \in DOMAIN profileTodo : profileTodo[i] = f

ProfilesInv == ShapeInv /\ TempInv /\ SavingInv /\ ToldInv /\ FileInv

LEMMA Todo ==
  ASSUME NEW s \in Todos, s # <<>>
  PROVE  /\ Head(s) \in Files /\ Tail(s) \in Todos
         /\ \A f \in Files : (\E i \in DOMAIN s : s[i] = f)
              => f = Head(s) \/ \E i \in DOMAIN Tail(s) : Tail(s)[i] = f
         /\ s = <<"profiles">> => Head(s) = "profiles" /\ Tail(s) = <<>>
<1>1. CASE s = <<"profiles">> BY <1>1 DEF Todos, Files
<1>2. CASE s = <<"devices">> BY <1>2 DEF Todos, Files
<1>3. CASE s = <<"profiles", "devices">>
  <2>1. Head(s) = "profiles" /\ Tail(s) = <<"devices">> BY <1>3
  <2>2. Tail(s)[1] = "devices" /\ 1 \in DOMAIN Tail(s)
    <3>1. <<"devices">>[1] = "devices" /\ 1 \in DOMAIN <<"devices">> OBVIOUS
    <3> QED BY <2>1, <3>1, Zenon
  <2>3. \A f \in Files : f = "profiles" \/ f = "devices" BY DEF Files
  <2>4. \A f \in Files : f = Head(s) \/ \E i \in DOMAIN Tail(s) : Tail(s)[i] = f BY <2>1, <2>2, <2>3
  <2> QED BY <1>3, <2>1, <2>4 DEF Todos, Files
<1> QED BY <1>1, <1>2, <1>3 DEF Todos

\* What every call writes is named by the list it leaves.
LEMMA Writes ==
  /\ <<"profiles">>[1] = "profiles" /\ DOMAIN <<"profiles">> = {1}
  /\ <<"devices">>[1] = "devices" /\ DOMAIN <<"devices">> = {1}
  /\ <<"profiles", "devices">>[1] = "profiles" /\ <<"profiles", "devices">>[2] = "devices"
  /\ DOMAIN <<"profiles", "devices">> = {1, 2}
OBVIOUS

LEMMA ProfileInit == Profile!Init => ProfilesInv
<1> SUFFICES ASSUME Profile!Init PROVE ProfilesInv OBVIOUS
<1>1. ShapeInv /\ TempInv /\ SavingInv BY DEF Profile!Init, ShapeInv, Todos, TempInv, SavingInv
<1>2. ToldInv BY DEF Profile!Init, ToldInv, IsIn, Profile!Nothing
<1>3. FileInv BY DEF Profile!Init, FileInv, Files, Profile!Held
<1> QED BY <1>1, <1>2, <1>3 DEF ProfilesInv

\* A call begins: it changes the store and leaves what it has to write.
LEMMA BeginStep ==
  ASSUME ProfilesInv, profileTodo = <<>>, temp' = temp, profileDisk' = profileDisk, profileFaults' = profileFaults,
         profileTodo' \in Todos, profileTodo' # <<>>,
         saving' # 0 => profileTodo' = <<"profiles">> /\ saving' \in DOMAIN profiles',
         profiles' # profiles => \E i \in DOMAIN profileTodo' : profileTodo'[i] = "profiles",
         profileBound' # profileBound => \E i \in DOMAIN profileTodo' : profileTodo'[i] = "devices",
         IsIn(told', profiles'), IsIn(told', profileDisk.profiles)
  PROVE  ProfilesInv'
<1> USE DEF ProfilesInv
<1>1. ShapeInv' BY DEF ShapeInv
<1>2. TempInv' BY DEF TempInv
<1>3. SavingInv' BY DEF SavingInv
<1>4. ToldInv' BY DEF ToldInv
<1>5. FileInv'
  <2> SUFFICES ASSUME profileFaults = 0, NEW f \in Files
               PROVE  profileDisk[f] = Profile!Held(f)' \/ \E i \in DOMAIN profileTodo' : profileTodo'[i] = f
    BY DEF FileInv
  <2>1. profileDisk[f] = Profile!Held(f) BY DEF FileInv
  <2> QED BY <2>1 DEF Files, Profile!Held
<1> QED BY <1>1, <1>2, <1>3, <1>4, <1>5

LEMMA SaveProfileStep ==
  ASSUME ProfilesInv, NEW id, NEW steps, Profile!SaveProfile(id, steps)
  PROVE  ProfilesInv'
<1> DEFINE its == IF id = 0 THEN seq' ELSE id
<1> DEFINE birth == IF its \in DOMAIN profiles THEN profiles[its].birth ELSE born + 1
<1>1. /\ profileTodo = <<>> /\ profileTodo' = <<"profiles">> /\ saving' = its
      /\ UNCHANGED <<profileBound, told, profileDisk, temp, profileFaults>>
      /\ profiles' = [i \in DOMAIN profiles \cup {its} |->
                        IF i = its THEN [steps |-> steps, birth |-> birth] ELSE profiles[i]]
  BY DEF Profile!SaveProfile, Profile!Free, Profile!Still
<1> HIDE DEF its
<1>2. IsIn(told, profiles) /\ IsIn(told, profileDisk.profiles) BY DEF ProfilesInv, ToldInv
<1>3. DOMAIN profiles' = DOMAIN profiles \cup {its} BY <1>1
<1>4. \A i \in DOMAIN profiles : profiles'[i].birth = profiles[i].birth BY <1>1
<1>5. IsIn(told', profiles') BY <1>1, <1>2, <1>3, <1>4 DEF IsIn
<1> QED BY <1>1, <1>2, <1>3, <1>5, Writes, BeginStep DEF Todos

LEMMA DeleteProfileStep ==
  ASSUME ProfilesInv, NEW id, Profile!DeleteProfile(id)
  PROVE  ProfilesInv'
<1>1. /\ profileTodo = <<>> /\ profileTodo' = <<"profiles", "devices">> /\ saving' = 0
      /\ UNCHANGED <<profileDisk, temp, profileFaults>>
      /\ profiles' = Profile!Restrict(profiles, DOMAIN profiles \ {id})
      /\ told' = Profile!Restrict(told, DOMAIN told \ {id})
  BY DEF Profile!DeleteProfile, Profile!Free, Profile!Still, Profile!Forgets
<1>2. IsIn(told, profiles) /\ IsIn(told, profileDisk.profiles) BY DEF ProfilesInv, ToldInv
<1>3. IsIn(told', profiles') /\ IsIn(told', profileDisk.profiles) BY <1>1, <1>2 DEF IsIn, Profile!Restrict
<1> QED BY <1>1, <1>3, Writes, BeginStep DEF Todos

\* UpsertDeviceSeen, BindProfile and the end of ApplyProfile.
LEMMA BindsStep ==
  ASSUME ProfilesInv, profileTodo = <<>>, profileTodo' = <<"devices">>, saving' = 0,
         UNCHANGED <<profiles, told, profileDisk, temp, profileFaults>>
  PROVE  ProfilesInv'
<1>1. IsIn(told', profiles') /\ IsIn(told', profileDisk.profiles) BY DEF ProfilesInv, ToldInv
<1> QED BY <1>1, Writes, BeginStep DEF Todos

LEMMA WriteStep ==
  ASSUME ProfilesInv, Profile!WriteTemp \/ Profile!FillTemp
  PROVE  ProfilesInv'
<1>1. UNCHANGED <<profiles, profileBound, profileDisk, profileTodo, saving, told, profileFaults>> BY DEF Profile!WriteTemp, Profile!FillTemp
<1>2. TempInv'
  <2>1. CASE Profile!WriteTemp BY <2>1 DEF Profile!WriteTemp, TempInv, Profile!Held
  <2>2. CASE Profile!FillTemp
    <3>1. temp'.file = temp.file /\ temp'.what = temp.what /\ temp # Profile!NoTemp
      BY <2>2 DEF Profile!FillTemp, Profile!NoTemp
    <3> QED BY <1>1, <3>1 DEF ProfilesInv, TempInv, Profile!Held
  <2> QED BY <2>1, <2>2
<1> QED BY <1>1, <1>2 DEF ProfilesInv, ShapeInv, SavingInv, ToldInv, IsIn, FileInv, Profile!Held

\* A file in place is what the store holds; only then is a caller told.
LEMMA RenameStep ==
  ASSUME ProfilesInv, Profile!Rename
  PROVE  ProfilesInv'
<1> USE DEF ProfilesInv
<1>1. /\ temp' = Profile!NoTemp /\ profileTodo' = Tail(profileTodo)
      /\ profileDisk' = [profileDisk EXCEPT ![temp.file] = temp.what]
      /\ UNCHANGED <<profiles, profileBound, saving, profileFaults>>
  BY DEF Profile!Rename
<1>2. profileTodo # <<>> /\ temp.file = Head(profileTodo) /\ temp.what = Profile!Held(temp.file)
  BY DEF Profile!Rename, TempInv
<1>3. temp.file \in Files BY <1>2, Todo DEF ShapeInv
<1>4. DOMAIN profileDisk = Files BY DEF ShapeInv, Files
<1>5. \A f \in Files : profileDisk'[f] = IF f = temp.file THEN Profile!Held(f) ELSE profileDisk[f]
  BY <1>1, <1>2, <1>4
<1>6. profileDisk'.profiles = profileDisk'["profiles"] /\ profileDisk.profiles = profileDisk["profiles"] OBVIOUS
<1>7. ShapeInv'
  <2>1. profileDisk' = [profiles |-> profileDisk'.profiles, devices |-> profileDisk'.devices]
    BY <1>1, <1>3, <1>4 DEF ShapeInv, Files
  <2> QED BY <1>1, <1>2, <2>1, Todo DEF ShapeInv
<1>8. TempInv' BY <1>1 DEF TempInv
<1>9. SavingInv' BY <1>1, <1>2, Todo DEF SavingInv, ShapeInv
<1>10. IsIn(told, profiles) /\ IsIn(told, profileDisk'.profiles)
  BY <1>5, <1>6 DEF ToldInv, Files, Profile!Held
<1>11. ToldInv'
  <2>1. CASE saving = 0
    <3>1. told' = told BY <2>1 DEF Profile!Rename
    <3> QED BY <1>1, <1>10, <3>1 DEF ToldInv
  <2>2. CASE saving # 0
    <3>1. temp.file = "profiles" /\ saving \in DOMAIN profiles
      BY <1>2, <2>2, Todo DEF SavingInv, ShapeInv
    <3>2. profileDisk'.profiles = profiles BY <1>3, <1>5, <1>6, <3>1 DEF Profile!Held
    <3>3. told' = [i \in DOMAIN told \cup {saving} |-> IF i = saving THEN profiles[i].birth ELSE told[i]]
      BY <2>2 DEF Profile!Rename
    <3>4. IsIn(told', profiles) BY <1>10, <3>1, <3>3 DEF IsIn
    <3> QED BY <1>1, <3>2, <3>4 DEF ToldInv
  <2> QED BY <2>1, <2>2
<1>12. FileInv'
  <2> SUFFICES ASSUME profileFaults = 0, NEW f \in Files
               PROVE  profileDisk'[f] = Profile!Held(f) \/ \E i \in DOMAIN profileTodo' : profileTodo'[i] = f
    BY <1>1 DEF FileInv, Profile!Held
  <2>1. profileDisk[f] = Profile!Held(f) \/ \E i \in DOMAIN profileTodo : profileTodo[i] = f BY DEF FileInv
  <2>2. CASE f = temp.file BY <1>5, <2>2
  <2>3. CASE f # temp.file BY <1>1, <1>2, <1>5, <2>1, <2>3, Todo DEF ShapeInv
  <2> QED BY <2>2, <2>3
<1> QED BY <1>7, <1>8, <1>9, <1>11, <1>12

LEMMA FailStep ==
  ASSUME ProfilesInv, Profile!SaveFails
  PROVE  ProfilesInv'
<1>1. /\ temp' = Profile!NoTemp /\ profileTodo' = <<>> /\ profileFaults' = profileFaults + 1
      /\ UNCHANGED <<profiles, profileBound, profileDisk, saving, told>>
  BY DEF Profile!SaveFails
<1>2. profileFaults' \in Nat /\ profileFaults' # 0 BY <1>1 DEF ProfilesInv, ShapeInv
<1> QED BY <1>1, <1>2 DEF ProfilesInv, ShapeInv, Todos, TempInv, SavingInv, ToldInv, IsIn, FileInv

\* The next launch reads the two files, whatever was under way.
LEMMA RestartStep ==
  ASSUME ProfilesInv, Profile!Restart
  PROVE  ProfilesInv'
<1>1. /\ profiles' = profileDisk.profiles /\ profileBound' = profileDisk.devices /\ profileDisk' = profileDisk /\ told' = told
      /\ profileTodo' = <<>> /\ temp' = Profile!NoTemp /\ saving' = 0 /\ profileFaults' = profileFaults
  BY DEF Profile!Restart
<1>2. FileInv' BY <1>1 DEF FileInv, Files, Profile!Held
<1> QED BY <1>1, <1>2 DEF ProfilesInv, ShapeInv, Todos, TempInv, SavingInv, ToldInv, IsIn

LEMMA ProfilesNextInv ==
  ASSUME ProfilesInv, [Profile!Next]_Profile!vars
  PROVE  ProfilesInv'
<1>1. ASSUME NEW id, NEW steps, Profile!SaveProfile(id, steps) PROVE ProfilesInv' BY <1>1, SaveProfileStep
<1>2. ASSUME NEW id, Profile!DeleteProfile(id) PROVE ProfilesInv' BY <1>2, DeleteProfileStep
<1>3. ASSUME NEW k, Profile!UpsertDeviceSeen(k) PROVE ProfilesInv'
  BY <1>3, BindsStep DEF Profile!UpsertDeviceSeen, Profile!Free, Profile!Still
<1>4. ASSUME NEW k, NEW id, Profile!BindProfile(k, id) PROVE ProfilesInv'
  BY <1>4, BindsStep DEF Profile!BindProfile, Profile!Binds, Profile!Free, Profile!Still
<1>5. ASSUME UNCHANGED <<profiles, profileBound, profileDisk, profileTodo, temp, saving, told, profileFaults>> PROVE ProfilesInv'
  BY <1>5 DEF ProfilesInv, ShapeInv, TempInv, SavingInv, ToldInv, IsIn, FileInv, Profile!Held
<1>6. ASSUME NEW k, NEW id, Profile!ApplyProfile(k, id) PROVE ProfilesInv' BY <1>5, <1>6 DEF Profile!ApplyProfile
<1>7. ASSUME NEW status, Profile!Step(status) PROVE ProfilesInv' BY <1>5, <1>7 DEF Profile!Step
<1>8. CASE Profile!Adopt
  <2>1. CASE Profile!Adopts BY <1>8, <2>1, BindsStep DEF Profile!Adopt, Profile!Binds
  <2>2. CASE ~Profile!Adopts BY <1>5, <1>8, <2>2 DEF Profile!Adopt
  <2> QED BY <2>1, <2>2
<1>9. CASE UNCHANGED Profile!vars BY <1>5, <1>9 DEF Profile!vars
<1> QED BY <1>1, <1>2, <1>3, <1>4, <1>6, <1>7, <1>8, <1>9, WriteStep, RenameStep, FailStep,
           RestartStep DEF Profile!Next

\* The inductive invariant holds in every reachable state; with it, what a caller was
\* told is kept is in the file at every moment (atomicWriteJSON, profiles.go).
THEOREM ProfileInvariant == Profile!Spec => []ProfilesInv
<1>1. ProfilesInv /\ [Profile!Next]_Profile!vars => ProfilesInv' BY ProfilesNextInv
<1> QED BY ProfileInit, <1>1, PTL DEF Profile!Spec

\* A profile whose saving a caller was told of is there after any crash until it is
\* deleted, and when no call is under way and the disk refused nothing the two files say
\* what the store does (profiles.go).
THEOREM Kept == Profile!Spec => []Profile!NothingLost
<1>1. ProfilesInv => Profile!NothingLost
  <2> SUFFICES ASSUME ProfilesInv PROVE Profile!NothingLost OBVIOUS
  <2>1. \A id \in DOMAIN told : id \in DOMAIN profiles /\ profiles[id].birth = told[id]
    BY DEF ProfilesInv, ToldInv, IsIn
  <2>2. ASSUME profileTodo = <<>>, profileFaults = 0 PROVE profileDisk = [profiles |-> profiles, devices |-> profileBound]
    <3>1. DOMAIN profileTodo = {} BY <2>2
    <3>2. profileDisk["profiles"] = Profile!Held("profiles") /\ profileDisk["devices"] = Profile!Held("devices")
      BY <2>2, <3>1 DEF ProfilesInv, FileInv, Files
    <3>3. profileDisk.profiles = profiles /\ profileDisk.devices = profileBound BY <3>2 DEF Profile!Held
    <3> QED BY <3>3 DEF ProfilesInv, ShapeInv
  <2> QED BY <2>1, <2>2 DEF Profile!NothingLost
<1> QED BY ProfileInvariant, <1>1, PTL
-----------------------------------------------------------------------------
(* The tcpdump that is put on the device.                                  *)

\* An automatic install has verified its build before it pushes (fetchTcpdumpBlob).
DumpABI == Head(Dump!tcpdumpBuildFor)
AutoJob == [pc : {"fetch", "download", "push", "pushing", "chmod", "check"}, of : {"auto"},
            abi : {DumpABI}, is : {"whole"}]
PickedJob == [pc : {"push", "pushing", "chmod", "check"}, of : {"picked"}, is : {"whole", "wrong"}]
PushedFile == [is : {"part", "whole", "wrong"}, of : {"auto", "picked"}, exec : BOOLEAN]

DumpTypes ==
  /\ job \in [Jobs -> {Dump!Idle} \cup AutoJob \cup PickedJob]
  /\ file \in {Dump!NoFile} \cup PushedFile

\* An answer on its way is the device's, unless the device changed since or gave none
\* (cachedRead keeps it when it arrives).
IsAnswer(r) ==
  \E a, w : r = [is |-> "read", answer |-> a, why |-> w] /\ (w = {} => a = Dump!probeTcpdumpUncached)
AskedInv == DOMAIN asks = Askers /\ \A p \in Askers : asks[p] = Dump!NoAsk \/ IsAnswer(asks[p])

\* Every install that ends drops the answer that is kept, and nothing else of adbq
\* changes the file: the answer is the device's when none is under way.
DumpInv == DumpTypes /\ AskedInv /\ Dump!PushedIsVerified /\ Dump!ProbeIsTrue

LEMMA AskedStays ==
  ASSUME AskedInv, UNCHANGED <<asks, system, file>> PROVE AskedInv'
BY DEF AskedInv, IsAnswer, Dump!probeTcpdumpUncached

LEMMA AskedIsOvertaken ==
  ASSUME AskedInv, NEW by, Dump!Overtakes(by) PROVE AskedInv'
<1>1. DOMAIN asks' = Askers BY DEF Dump!Overtakes
<1>2. ASSUME NEW p \in Askers
      PROVE  \/ asks'[p] = Dump!NoAsk
             \/ \E a, w : asks'[p] = [is |-> "read", answer |-> a, why |-> w] /\ w # {}
  <2>1. asks'[p] = IF asks[p] = Dump!NoAsk THEN Dump!NoAsk ELSE [asks[p] EXCEPT !.why = @ \cup {by}]
    BY DEF Dump!Overtakes
  <2>2. CASE asks[p] # Dump!NoAsk
    <3>0. IsAnswer(asks[p]) BY <2>2 DEF AskedInv
    <3>1. PICK a, w : asks[p] = [is |-> "read", answer |-> a, why |-> w] BY <3>0 DEF IsAnswer
    <3>2. asks'[p] = [is |-> "read", answer |-> a, why |-> w \cup {by}] BY <2>1, <2>2, <3>1
    <3>3. w \cup {by} # {} OBVIOUS
    <3> QED BY <3>2, <3>3
  <2> QED BY <2>1, <2>2
<1>3. ASSUME NEW p \in Askers PROVE (asks[p] = Dump!NoAsk \/ IsAnswer(asks[p]))' BY <1>2 DEF IsAnswer
<1> QED BY <1>1, <1>3 DEF AskedInv

LEMMA DumpJobs ==
  ASSUME NEW r \in AutoJob \cup PickedJob, NEW pc \in {"push", "pushing", "chmod", "check"}
  PROVE  [r EXCEPT !.pc = pc] \in AutoJob \cup PickedJob
<1>1. CASE r \in AutoJob BY <1>1 DEF AutoJob
<1>2. CASE r \in PickedJob BY <1>2 DEF PickedJob
<1> QED BY <1>1, <1>2

LEMMA BusyIsNotIdle ==
  ASSUME NEW r \in AutoJob \cup PickedJob PROVE r # Dump!Idle
BY DEF AutoJob, PickedJob, Dump!Idle

\* The steps of an install that goes on: the answer may be wrong meanwhile.
LEMMA DumpGoesOn ==
  ASSUME DumpInv, NEW j \in Jobs, NEW r \in AutoJob \cup PickedJob, job' = [job EXCEPT ![j] = r],
         file' \in {Dump!NoFile} \cup PushedFile, Dump!PushedIsVerified', AskedInv'
  PROVE  DumpInv'
<1>1. job'[j] = r /\ r # Dump!Idle BY BusyIsNotIdle DEF DumpInv, DumpTypes
<1>2. DumpTypes' BY DEF DumpInv, DumpTypes
<1>3. Dump!ProbeIsTrue' BY <1>1 DEF Dump!ProbeIsTrue
<1> QED BY <1>2, <1>3 DEF DumpInv

LEMMA DumpInstalls ==
  ASSUME DumpInv, NEW j \in Jobs,
         \/ Dump!InstallTcpdumpAuto(j) \/ Dump!InstallTcpdumpWithPicker(j) \/ Dump!FetchCached(j)
         \/ Dump!FetchRemoves(j) \/ Dump!Downloaded(j)
  PROVE  DumpInv'
<1> USE DEF Dump!Device, Dump!Kept
<1>000. UNCHANGED <<asks, system, file>>
  BY DEF Dump!InstallTcpdumpAuto, Dump!InstallTcpdumpWithPicker, Dump!FetchCached, Dump!FetchRemoves,
         Dump!Downloaded
<1>a. AskedInv' BY <1>000, AskedStays DEF DumpInv
<1>0. UNCHANGED file /\ Dump!PushedIsVerified'
  BY DEF DumpInv, Dump!PushedIsVerified, Dump!InstallTcpdumpAuto, Dump!InstallTcpdumpWithPicker,
         Dump!FetchCached, Dump!FetchRemoves, Dump!Downloaded
<1>00. file' \in {Dump!NoFile} \cup PushedFile BY <1>0 DEF DumpInv, DumpTypes
<1>1. CASE Dump!InstallTcpdumpAuto(j)
  <2>1. [pc |-> "fetch", of |-> "auto", abi |-> DumpABI, is |-> "whole"] \in AutoJob
    BY DEF AutoJob
  <2> QED BY <1>a, <1>0, <1>00, <1>1, <2>1, DumpGoesOn DEF Dump!InstallTcpdumpAuto, Dump!To, Dump!PlanTcpdumpAutoInstall, DumpABI
<1>2. CASE Dump!InstallTcpdumpWithPicker(j)
  <2>1. PICK is \in {"whole", "wrong"} : job' = [job EXCEPT ![j] = [pc |-> "push", of |-> "picked", is |-> is]]
    BY <1>2 DEF Dump!InstallTcpdumpWithPicker, Dump!To
  <2>2. [pc |-> "push", of |-> "picked", is |-> is] \in PickedJob BY DEF PickedJob
  <2> QED BY <1>a, <1>0, <1>00, <2>1, <2>2, DumpGoesOn
<1>3. ASSUME NEW pc \in {"push", "download"}, Dump!At(j, "fetch") \/ Dump!At(j, "download"), Dump!Goes(j, pc)
      PROVE  DumpInv'
  <2>1. job[j] \in AutoJob
    BY <1>3 DEF Dump!At, DumpInv, DumpTypes, PickedJob, Dump!Idle
  <2>2. [job[j] EXCEPT !.pc = pc] \in AutoJob BY <2>1 DEF AutoJob
  <2> QED BY <1>a, <1>0, <1>00, <1>3, <2>2, DumpGoesOn DEF Dump!Goes
<1> QED BY <1>1, <1>2, <1>3 DEF Dump!FetchCached, Dump!FetchRemoves, Dump!Downloaded

LEMMA DumpPushes ==
  ASSUME DumpInv, NEW j \in Jobs, Dump!PushOpens(j) \/ Dump!Pushed(j) \/ Dump!Chmod(j)
  PROVE  DumpInv'
<1>1. job[j] \in AutoJob \cup PickedJob
  BY DEF DumpInv, DumpTypes, Dump!Idle, Dump!At, Dump!PushOpens, Dump!Pushed, Dump!Chmod
<1>2. job[j].of \in {"auto", "picked"} /\ (job[j].of = "auto" => job[j].is = "whole")
      /\ job[j].is \in {"whole", "wrong"}
  BY <1>1 DEF AutoJob, PickedJob
<1>3. file \in {Dump!NoFile} \cup PushedFile /\ Dump!PushedIsVerified BY DEF DumpInv, DumpTypes
<1>4. \E pc \in {"pushing", "chmod", "check"} : job' = [job EXCEPT ![j] = [job[j] EXCEPT !.pc = pc]]
  BY DEF Dump!Goes, Dump!PushOpens, Dump!Pushed, Dump!Chmod
<1>5. file' \in PushedFile /\ Dump!PushedIsVerified'
  <2>1. CASE Dump!PushOpens(j)
    <3>1. file' = [is |-> "part", of |-> job[j].of, exec |-> file # Dump!NoFile /\ file.exec]
      BY <2>1 DEF Dump!PushOpens
    <3>2. (file # Dump!NoFile /\ file.exec) \in BOOLEAN BY <1>3 DEF PushedFile
    <3> QED BY <1>2, <3>1, <3>2 DEF PushedFile, Dump!PushedIsVerified
  <2>2. CASE Dump!Pushed(j)
    <3>1. file \in PushedFile /\ file' = [file EXCEPT !.is = job[j].is, !.of = job[j].of]
      BY <1>3, <2>2 DEF Dump!Pushed
    <3>2. file' \in PushedFile /\ file'.is = job[j].is /\ file'.of = job[j].of BY <1>2, <3>1 DEF PushedFile
    <3> QED BY <1>2, <3>2 DEF Dump!PushedIsVerified
  <2>3. CASE Dump!Chmod(j)
    <3>1. file \in PushedFile /\ file' = [file EXCEPT !.exec = TRUE] /\ file # Dump!NoFile
      BY <1>3, <2>3 DEF Dump!Chmod
    <3>2. file' \in PushedFile /\ file'.is = file.is /\ file'.of = file.of BY <3>1 DEF PushedFile
    <3> QED BY <1>3, <3>1, <3>2 DEF Dump!PushedIsVerified
  <2> QED BY <2>1, <2>2, <2>3
<1>6. AskedInv'
  BY AskedIsOvertaken DEF DumpInv, Dump!PushOpens, Dump!Pushed, Dump!Chmod
<1> QED BY <1>1, <1>4, <1>5, <1>6, DumpJobs, DumpGoesOn

LEMMA AsksStep ==
  ASSUME DumpInv, NEW p \in Askers, Dump!AskPage(p) \/ Dump!KeepAnswer(p)
  PROVE  DumpInv'
<1> USE DEF Dump!Device, Dump!Host
<1>1. UNCHANGED <<job, system, file>> BY DEF Dump!AskPage, Dump!KeepAnswer
<1>2. DumpTypes' /\ Dump!PushedIsVerified' /\ Dump!probeTcpdumpUncached' = Dump!probeTcpdumpUncached
  BY <1>1 DEF DumpInv, DumpTypes, Dump!PushedIsVerified, Dump!probeTcpdumpUncached
<1>3. CASE Dump!AskPage(p)
  <2>1. PICK a, w : /\ asks' = [asks EXCEPT ![p] = [is |-> "read", answer |-> a, why |-> w]]
                    /\ w = {} => a = Dump!probeTcpdumpUncached
    BY <1>3 DEF Dump!AskPage
  <2>2. AskedInv' BY <1>2, <2>1 DEF DumpInv, AskedInv, IsAnswer
  <2>3. Dump!ProbeIsTrue' BY <1>1, <1>2, <1>3 DEF Dump!ProbeIsTrue, Dump!AskPage
  <2> QED BY <1>2, <2>2, <2>3 DEF DumpInv
<1>4. CASE Dump!KeepAnswer(p)
  <2>1. PICK a, w : /\ asks[p] = [is |-> "read", answer |-> a, why |-> w]
                    /\ w = {} => a = Dump!probeTcpdumpUncached
    <3>1. IsAnswer(asks[p]) BY <1>4 DEF DumpInv, AskedInv, Dump!KeepAnswer
    <3> QED BY <3>1 DEF IsAnswer
  <2>2. dumpFact' = a /\ why' = w /\ asks' = [asks EXCEPT ![p] = Dump!NoAsk]
    BY <1>4, <2>1 DEF Dump!KeepAnswer
  <2>3. AskedInv' BY <1>2, <2>2 DEF DumpInv, AskedInv, IsAnswer
  <2>4. Dump!ProbeIsTrue' BY <1>2, <2>1, <2>2 DEF Dump!ProbeIsTrue
  <2> QED BY <1>2, <2>3, <2>4 DEF DumpInv
<1> QED BY <1>3, <1>4

LEMMA DumpStep ==
  ASSUME DumpInv, [Dump!Next]_Dump!vars
  PROVE  DumpInv'
<1> USE DEF Dump!Device, Dump!Host
<1>2. ASSUME dumpFact' = Dump!Unknown, UNCHANGED file, DumpTypes', AskedInv' PROVE DumpInv'
  BY <1>2 DEF DumpInv, Dump!PushedIsVerified, Dump!ProbeIsTrue
<1>3. CASE Dump!Expires
  <2>1. AskedInv' BY <1>3, AskedStays DEF DumpInv, Dump!Expires, Dump!touch
  <2> QED BY <1>2, <1>3, <2>1 DEF DumpInv, DumpTypes, Dump!Expires, Dump!touch
<1>4. CASE Dump!Crash
  <2>1. AskedInv' BY <1>4 DEF AskedInv, Dump!Crash
  <2> QED BY <1>2, <1>4, <2>1 DEF DumpInv, DumpTypes, Dump!Crash
<1>5. CASE Dump!Outside
  <2>1. AskedInv' BY <1>5, AskedIsOvertaken DEF DumpInv, Dump!Outside
  <2>2. why' # {} BY <1>5 DEF Dump!Outside
  <2> QED BY <1>5, <2>1, <2>2 DEF DumpInv, DumpTypes, Dump!PushedIsVerified, Dump!ProbeIsTrue, Dump!Outside
<1>6. ASSUME NEW j \in Jobs, Dump!InstallEnds(j) \/ Dump!InstallFails(j) PROVE DumpInv'
  <2>1. dumpFact' = Dump!Unknown /\ UNCHANGED <<asks, system, file>> /\ job' = [job EXCEPT ![j] = Dump!Idle]
    BY <1>6 DEF Dump!InstallEnds, Dump!InstallFails, Dump!touch, Dump!To
  <2>2. DumpTypes' BY <2>1 DEF DumpInv, DumpTypes
  <2>3. AskedInv' BY <2>1, AskedStays DEF DumpInv
  <2> QED BY <1>2, <2>1, <2>2, <2>3
<1>7. CASE UNCHANGED Dump!vars
  <2>1. AskedInv' BY <1>7, AskedStays DEF DumpInv, Dump!vars
  <2> QED BY <1>7, <2>1 DEF DumpInv, DumpTypes, Dump!PushedIsVerified, Dump!ProbeIsTrue,
                            Dump!probeTcpdumpUncached, Dump!vars
<1> QED BY <1>3, <1>4, <1>5, <1>6, <1>7, AsksStep, DumpInstalls, DumpPushes DEF Dump!Next

\* What an automatic install leaves on the device is of the pinned build, whatever the
\* cache held and whoever installs beside it; and with none under way the kept answer is
\* what the device holds, unless a shell changed it, the device gave no answer or an
\* install came between the answer and its keeping (tcpdump.go, strategy.go).
THEOREM DumpIsTrue == Dump!Spec => [](Dump!PushedIsVerified /\ Dump!ProbeIsTrue)
<1>1. Dump!Init => DumpInv
  BY DEF Dump!Init, DumpInv, DumpTypes, AskedInv, Dump!PushedIsVerified, Dump!ProbeIsTrue
<1>2. DumpInv /\ [Dump!Next]_Dump!vars => DumpInv' BY DumpStep
<1>3. DumpInv => Dump!PushedIsVerified /\ Dump!ProbeIsTrue BY DEF DumpInv
<1> QED BY <1>1, <1>2, <1>3, PTL DEF Dump!Spec

-----------------------------------------------------------------------------
(* The certificates.                                                       *)

CertFiles == [Suffixes -> Certs \cup {"none"}]
Layers == {<<>>} \cup [1 .. 1 -> CertFiles]
PlacedJob == [pc : {"try", "verify", "overlay", "apex", "check"}, cert : Certs, at : 1 .. 4, name : Suffixes,
              blind : BOOLEAN]
SaidCert == [cert : Certs, name : Suffixes, persistent : BOOLEAN, covered : BOOLEAN, blind : BOOLEAN, up : BOOLEAN,
             strategy : {"direct", "magisk-remount", "remount-root", "remount-system", "tmpfs-overlay"}]

CertTypes ==
  /\ certDisk \in CertFiles /\ apex \in BOOLEAN
  /\ over \in [system : Layers, apex : Layers]
  /\ stage \in Certs \cup {"none"}
  /\ certJob \in [Jobs -> {Cert!Idle} \cup [pc : {"pick", "user"}, cert : Certs] \cup PlacedJob]
  /\ said \subseteq SaidCert

LEMMA OneLayer ==
  ASSUME NEW f \in CertFiles
  PROVE  <<f>> \in Layers /\ <<f>>[1] = f /\ <<f>> # <<>>
BY DEF Layers

LEMMA LayerFiles ==
  ASSUME NEW l \in Layers, l # <<>> PROVE l[1] \in CertFiles
BY DEF Layers

LEMMA LayerAgain ==
  ASSUME NEW l \in Layers, l # <<>>, NEW f \in CertFiles
  PROVE  /\ [l EXCEPT ![1] = f] \in Layers /\ [l EXCEPT ![1] = f][1] = f /\ [l EXCEPT ![1] = f] # <<>>
<1>1. l \in [1 .. 1 -> CertFiles] BY DEF Layers
<1>2. [l EXCEPT ![1] = f] \in [1 .. 1 -> CertFiles] /\ [l EXCEPT ![1] = f][1] = f BY <1>1
<1>3. [l EXCEPT ![1] = f] # <<>>
  <2>1. DOMAIN [l EXCEPT ![1] = f] = 1 .. 1 BY <1>2
  <2>2. 1 \in 1 .. 1 /\ 1 \notin DOMAIN <<>> OBVIOUS
  <2> QED BY <2>1, <2>2
<1> QED BY <1>1, <1>2, <1>3 DEF Layers

LEMMA LeastIsLeast ==
  ASSUME NEW S \in SUBSET Nat, S # {}
  PROVE  Cert!Min(S) \in S /\ \A m \in S : Cert!Min(S) <= m
<1>1. \E n \in S : \A m \in S : n <= m
  <2>1. PICK n \in S : \A m \in S : ~ (<<m, n>> \in OpToRel(<, Nat)) BY NatLessThanWellFounded, WFMin
  <2>2. ASSUME NEW m \in S PROVE n <= m
    <3>1. ~ (m < n) BY <2>1 DEF OpToRel
    <3> QED BY <3>1
  <2> QED BY <2>2
<1> QED BY <1>1 DEF Cert!Min

-----------------------------------------------------------------------------
\* The names of a store are taken from the lowest on, and a certificate has one.
Tidy(f) ==
  \A n, m \in Suffixes : f[n] # "none" => (f[m] = f[n] => m = n) /\ (m < n => f[m] # "none")
\* The name an install has chosen for its certificate.
Chosen(f, n, c) ==
  /\ f[n] \in {"none", c}
  /\ \A m \in Suffixes : (m < n => f[m] # "none") /\ (m # n => f[m] # c)

LEMMA TidyPut ==
  ASSUME NEW f \in CertFiles, NEW n \in Suffixes, NEW c \in Certs, NEW g,
         Tidy(f), Chosen(f, n, c), g = [f EXCEPT ![n] = c]
  PROVE  g \in CertFiles /\ Tidy(g) /\ Chosen(g, n, c) /\ g[n] = c
<1>1. g \in CertFiles /\ g[n] = c /\ \A m \in Suffixes \ {n} : g[m] = f[m] BY DEF CertFiles
<1>2. c # "none" BY CertsAssumption
<1>3. Chosen(g, n, c) BY <1>1 DEF Chosen
<1>4. Tidy(g)
  <2> SUFFICES ASSUME NEW a \in Suffixes, NEW b \in Suffixes, g[a] # "none"
               PROVE  (g[b] = g[a] => b = a) /\ (b < a => g[b] # "none")
    BY DEF Tidy
  <2>0. Suffixes \subseteq Nat BY SuffixesAssumption
  <2>1. CASE a = n BY <1>1, <1>2, <2>0, <2>1 DEF Chosen
  <2>2. CASE a # n BY <1>1, <1>2, <2>0, <2>2 DEF Chosen, Tidy
  <2> QED BY <2>1, <2>2
<1> QED BY <1>1, <1>3, <1>4

LEMMA TwoShare ==
  ASSUME NEW S, NEW T, IsFiniteSet(S), IsFiniteSet(T), Cardinality(T) < Cardinality(S), NEW f \in [S -> T]
  PROVE  \E x, y \in S : x # y /\ f[x] = f[y]
BY FS_PigeonHole

\* There is a name for every certificate (pickCacertFileName).
LEMMA NameIsChosen ==
  ASSUME NEW f \in CertFiles, Tidy(f), NEW c \in Certs, NEW free, free = {n \in Suffixes : f[n] \in {"none", c}}
  PROVE  free # {} /\ Cert!Min(free) \in Suffixes /\ Chosen(f, Cert!Min(free), c)
<1>0. Suffixes \subseteq Nat /\ c # "none" BY SuffixesAssumption, CertsAssumption
<1>1. free # {}
  <2> SUFFICES ASSUME free = {} PROVE FALSE OBVIOUS
  <2>1. f \in [Suffixes -> Certs \ {c}] /\ \A n \in Suffixes : f[n] # "none" BY DEF CertFiles
  <2>2. IsFiniteSet(Certs \ {c}) /\ Cardinality(Certs \ {c}) < Cardinality(Suffixes)
    <3>1. IsFiniteSet(Certs) /\ Cardinality(Certs) \in Nat /\ Cardinality(Certs) <= Cardinality(Suffixes)
          /\ Cardinality(Suffixes) \in Nat
      BY CertsAssumption, SuffixesAssumption, FS_CardinalityType
    <3>2. IsFiniteSet(Certs \ {c}) /\ Cardinality(Certs \ {c}) = Cardinality(Certs) - 1
      BY <3>1, FS_RemoveElement
    <3> QED BY <3>1, <3>2
  <2> DEFINE taken == Certs \ {c}
  <2>3. IsFiniteSet(taken) /\ Cardinality(taken) < Cardinality(Suffixes) /\ f \in [Suffixes -> taken]
        /\ IsFiniteSet(Suffixes)
    BY <2>1, <2>2, SuffixesAssumption
  <2> HIDE DEF taken
  <2>4. \E n, m \in Suffixes : n # m /\ f[n] = f[m] BY <2>3, TwoShare
  <2> QED BY <2>1, <2>4 DEF Tidy
<1>2. free \in SUBSET Nat BY <1>0
<1> DEFINE n == Cert!Min(free)
<1>3. n \in free /\ \A m \in free : n <= m BY <1>1, <1>2, LeastIsLeast
<1>4. n \in Suffixes /\ f[n] \in {"none", c} BY <1>3
<1>5. ASSUME NEW m \in Suffixes, m < n PROVE f[m] \notin {"none", c}
  <2>1. n \in Nat /\ m \in Nat BY <1>0, <1>4
  <2> QED BY <1>3, <1>5, <2>1
<1>6. ASSUME NEW m \in Suffixes, f[m] = c PROVE m = n
  <2>1. n \in Nat /\ m \in Nat BY <1>0, <1>4
  <2>2. ~ (m < n) BY <1>5, <1>6
  <2>3. n < m => f[n] # "none" BY <1>0, <1>4, <1>6 DEF Tidy
  <2>4. n < m => f[n] = f[m] BY <1>4, <1>6, <2>3
  <2> QED BY <1>0, <1>4, <1>6, <2>1, <2>2, <2>4 DEF Tidy
<1> QED BY <1>1, <1>4, <1>5, <1>6 DEF Chosen

-----------------------------------------------------------------------------
\* Of installs that do not overlap, and whose device answers: the stage is the one
\* install's, the files of a store are tidy, and an install that has reached its overlay
\* met nothing over the store, nor its certificate in it.
Fine == ~overlapped /\ ~unanswered
Laid(s) == s.up /\ s.strategy = "tmpfs-overlay"
CertAlone == \A j, k \in Jobs : certJob[j] # Cert!Idle /\ certJob[k] # Cert!Idle => j = k
CertStaged == \A j \in Jobs : certJob[j] # Cert!Idle => stage = certJob[j].cert
CertTidy == Tidy(certDisk) /\ Tidy(Cert!Store)
PlacedWell(r) ==
  /\ Chosen(Cert!Store, r.name, r.cert)
  /\ r.pc = "verify" /\ over.system # <<>> => Cert!Store[r.name] = r.cert
  /\ r.pc = "overlay" => over.system = <<>>
  /\ r.pc \in {"overlay", "apex", "check"} => certDisk[r.name] # r.cert
  /\ r.pc = "apex" => \A s \in said : ~Laid(s)
  /\ r.pc = "check" /\ apex /\ ~r.blind => over.apex # <<>> /\ over.apex[1][r.name] = r.cert
CertPlaced == \A j \in Jobs : certJob[j] \in PlacedJob => PlacedWell(certJob[j])
SaidWell(s) ==
  /\ s.up => Cert!Store[s.name] = s.cert
  /\ s.persistent /\ ~s.covered => certDisk[s.name] = s.cert
  /\ Laid(s) => over.system # <<>>
  /\ Laid(s) /\ apex /\ ~s.blind => over.apex # <<>> /\ over.apex[1][s.name] = s.cert
CertSaid == \A s \in said : SaidWell(s)

CertInv == CertTypes /\ (Fine => CertAlone /\ CertStaged /\ CertTidy /\ CertPlaced /\ CertSaid)

LEMMA StoreType ==
  ASSUME CertTypes PROVE Cert!Store \in CertFiles
BY DEF CertTypes, Cert!Store, Layers

LEMMA CertJobs ==
  ASSUME CertTypes, NEW j \in Jobs
  PROVE  /\ certJob[j].pc \in {"try", "verify", "overlay", "apex", "check"} => certJob[j] \in PlacedJob
         /\ certJob[j].pc \in {"pick", "user"} => certJob[j] \in [pc : {"pick", "user"}, cert : Certs]
         /\ certJob[j] \in PlacedJob =>
              /\ certJob[j].pc \in {"try", "verify", "overlay", "apex", "check"}
              /\ certJob[j].name \in Suffixes /\ certJob[j].cert \in Certs /\ certJob[j].at \in 1 .. 4
         /\ certJob[j] = Cert!Idle <=> certJob[j].pc = "idle"
BY DEF CertTypes, PlacedJob, Cert!Idle

\* An install that goes on alone.
LEMMA CertGoesOn ==
  ASSUME CertInv, CertTypes', NEW j \in Jobs, \A k \in Jobs : k # j => certJob'[k] = certJob[k],
         certJob[j] # Cert!Idle, Fine' => Fine,
         Fine' => /\ certJob'[j] # Cert!Idle => stage' = certJob'[j].cert
                  /\ certJob'[j] \in PlacedJob => PlacedWell(certJob[j])'
                  /\ CertTidy' /\ CertSaid'
  PROVE  CertInv'
<1> SUFFICES ASSUME Fine' PROVE CertAlone' /\ CertStaged' /\ CertTidy' /\ CertPlaced' /\ CertSaid'
  BY DEF CertInv
<1>1. \A k \in Jobs : k # j => certJob[k] = Cert!Idle BY DEF CertInv, CertAlone
<1>2. \A k \in Jobs : k # j => certJob'[k] = Cert!Idle BY <1>1
<1>3. Cert!Idle \notin PlacedJob BY DEF Cert!Idle, PlacedJob
<1>4. CertAlone' BY <1>2 DEF CertAlone
<1>5. CertStaged' BY <1>2 DEF CertStaged
<1>6. CertPlaced'
  <2> SUFFICES ASSUME NEW k \in Jobs, certJob'[k] \in PlacedJob PROVE PlacedWell(certJob[k])'
    BY DEF CertPlaced
  <2>1. k = j BY <1>2, <1>3
  <2> QED BY <2>1
<1> QED BY <1>4, <1>5, <1>6

LEMMA CertBegins ==
  ASSUME CertInv, NEW j \in Jobs, NEW c \in Certs, Cert!InstallSystemCert(j, c)
  PROVE  CertInv'
<1> DEFINE r == [pc |-> IF rooted THEN "pick" ELSE "user", cert |-> c]
<1>1. /\ certJob[j].pc = "idle" /\ certJob' = [certJob EXCEPT ![j] = r] /\ stage' = c
      /\ overlapped' = (overlapped \/ \E k \in Jobs \ {j} : certJob[k] # Cert!Idle)
      /\ UNCHANGED <<rooted, apex, reach, certDisk, over, said, unanswered>>
  BY DEF Cert!InstallSystemCert, Cert!Goes, Cert!At, Cert!Others, Cert!device
<1>2. r \in [pc : {"pick", "user"}, cert : Certs] /\ r # Cert!Idle /\ r \notin PlacedJob /\ r.cert = c
  BY DEF PlacedJob, Cert!Idle
<1> HIDE DEF r
<1>3. CertTypes' BY <1>1, <1>2 DEF CertInv, CertTypes
<1>4. ASSUME Fine' PROVE CertAlone' /\ CertStaged' /\ CertTidy' /\ CertPlaced' /\ CertSaid'
  <2>1. Fine /\ \A k \in Jobs : k # j => certJob[k] = Cert!Idle BY <1>1, <1>4 DEF Fine
  <2>2. certJob'[j] = r /\ \A k \in Jobs : k # j => certJob'[k] = Cert!Idle
    BY <1>1, <2>1 DEF CertInv, CertTypes
  <2>3. Cert!Idle \notin PlacedJob BY DEF Cert!Idle, PlacedJob
  <2>4. CertAlone' /\ CertStaged' BY <1>1, <1>2, <2>2 DEF CertAlone, CertStaged
  <2>5. CertPlaced' BY <1>2, <2>2, <2>3 DEF CertPlaced
  <2>6. CertTidy' /\ CertSaid'
    BY <1>1, <2>1 DEF CertInv, CertTidy, CertSaid, SaidWell, Laid, Cert!Store
  <2> QED BY <2>4, <2>5, <2>6
<1> QED BY <1>3, <1>4 DEF CertInv

LEMMA CertPicks ==
  ASSUME CertInv, NEW j \in Jobs, Cert!pickCacertFileName(j)
  PROVE  CertInv'
<1> DEFINE c == certJob[j].cert
<1>1. PICK n \in Suffixes :
        /\ certJob[j].pc = "pick" /\ unanswered' = (unanswered \/ n # Cert!LeastFit(c))
        /\ certJob' = [certJob EXCEPT ![j] = [pc |-> "try", cert |-> c, at |-> 1, name |-> n, blind |-> FALSE]]
        /\ UNCHANGED <<rooted, apex, reach, certDisk, over, stage, said, overlapped>>
  BY DEF Cert!pickCacertFileName, Cert!Goes, Cert!At, Cert!device
<1> DEFINE r == [pc |-> "try", cert |-> c, at |-> 1, name |-> n, blind |-> FALSE]
<1>2. /\ c \in Certs /\ certJob[j] # Cert!Idle /\ CertTypes /\ (Fine' => Fine /\ n = Cert!LeastFit(c))
  BY <1>1, CertJobs DEF CertInv, Fine
<1>3. Fine' => Chosen(Cert!Store, n, c)
  <2> SUFFICES ASSUME Fine' PROVE Chosen(Cert!Store, n, c) OBVIOUS
  <2>1. Cert!Fits(c) = {m \in Suffixes : Cert!Store[m] \in {"none", c}} BY DEF Cert!Fits, Cert!None
  <2>2. Tidy(Cert!Store) /\ Cert!Store \in CertFiles BY <1>2, StoreType DEF CertInv, CertTidy
  <2>3. Cert!Fits(c) # {} /\ Chosen(Cert!Store, Cert!Min(Cert!Fits(c)), c) BY <1>2, <2>1, <2>2, NameIsChosen
  <2> QED BY <1>2, <2>3 DEF Cert!LeastFit
<1>4. r \in PlacedJob /\ r.pc = "try" /\ r.cert = c /\ r.name = n BY <1>2 DEF PlacedJob
<1> HIDE DEF r
<1>5. certJob'[j] = r /\ \A k \in Jobs : k # j => certJob'[k] = certJob[k] BY <1>1, <1>2 DEF CertTypes, r
<1>6. CertTypes' BY <1>1, <1>2, <1>4 DEF CertTypes, r
<1>7. ASSUME Fine' PROVE stage' = certJob'[j].cert /\ PlacedWell(certJob[j])' /\ CertTidy' /\ CertSaid'
  <2>1. stage' = certJob'[j].cert BY <1>1, <1>2, <1>4, <1>5, <1>7 DEF CertInv, CertStaged
  <2>2. PlacedWell(certJob[j])' BY <1>1, <1>3, <1>4, <1>5, <1>7 DEF PlacedWell, Cert!Store
  <2>3. CertTidy' /\ CertSaid' BY <1>1, <1>2, <1>7 DEF CertInv, CertTidy, CertSaid, SaidWell, Laid, Cert!Store
  <2> QED BY <2>1, <2>2, <2>3
<1> QED BY <1>1, <1>2, <1>5, <1>6, <1>7, CertGoesOn

LEMMA CertTries ==
  ASSUME CertInv, NEW j \in Jobs, Cert!Try(j)
  PROVE  CertInv'
<1> DEFINE n == certJob[j].name
<1>1. /\ certJob[j].pc = "try" /\ certJob' = [certJob EXCEPT ![j] = [certJob[j] EXCEPT !.pc = "verify"]]
      /\ UNCHANGED <<rooted, apex, reach, stage, said, overlapped>>
  BY DEF Cert!Try, Cert!Goes, Cert!At, Cert!device
<1>2. certJob[j] \in PlacedJob /\ certJob[j] # Cert!Idle /\ n \in Suffixes /\ certJob[j].cert \in Certs /\ CertTypes
  BY <1>1, CertJobs DEF CertInv
<1>3. /\ certJob'[j] \in PlacedJob /\ certJob'[j].pc = "verify" /\ certJob'[j].name = n
      /\ certJob'[j].cert = certJob[j].cert
      /\ \A k \in Jobs : k # j => certJob'[k] = certJob[k]
  BY <1>1, <1>2 DEF CertTypes, PlacedJob
<1>4. \/ UNCHANGED <<certDisk, over>> /\ unanswered' = (unanswered \/ over.system # <<>>)
      \/ /\ stage # "none" /\ over.system # <<>> /\ UNCHANGED <<certDisk, unanswered>>
         /\ over' = [over EXCEPT !.system = [over.system EXCEPT ![1] = [over.system[1] EXCEPT ![n] = stage]]]
      \/ /\ stage # "none" /\ over.system = <<>> /\ UNCHANGED <<over, unanswered>>
         /\ certDisk' = [certDisk EXCEPT ![n] = stage]
  BY DEF Cert!Try, Cert!None
<1> HIDE DEF n
<1>5. CertTypes' /\ (over'.apex = over.apex) /\ (over'.system # <<>> <=> over.system # <<>>)
      /\ (over'.system # <<>> => over.system # <<>> /\ Cert!Store' \in CertFiles)
  <2>1. CASE UNCHANGED <<certDisk, over>> BY <1>1, <1>3, <2>1, StoreType, <1>2 DEF CertTypes, Cert!Store
  <2>2. CASE /\ stage # "none" /\ over.system # <<>> /\ UNCHANGED certDisk
             /\ over' = [over EXCEPT !.system = [over.system EXCEPT ![1] = [over.system[1] EXCEPT ![n] = stage]]]
    <3>1. over.system \in Layers /\ over \in [system : Layers, apex : Layers] /\ stage \in Certs \cup {"none"}
      BY <1>2 DEF CertTypes
    <3>2. over.system[1] \in CertFiles BY <2>2, <3>1, LayerFiles
    <3>3. PICK g \in CertFiles : g = [over.system[1] EXCEPT ![n] = stage] BY <1>2, <3>1, <3>2 DEF CertFiles
    <3>4. PICK l \in Layers : l = [over.system EXCEPT ![1] = g] /\ l[1] = g /\ l # <<>>
      BY <2>2, <3>1, <3>3, LayerAgain
    <3>5. over' = [over EXCEPT !.system = l] BY <2>2, <3>3, <3>4
    <3>6. over' \in [system : Layers, apex : Layers] /\ over'.apex = over.apex /\ over'.system = l
      BY <3>1, <3>4, <3>5
    <3>7. CertTypes' BY <1>1, <1>2, <1>3, <2>2, <3>6 DEF CertTypes
    <3> QED BY <2>2, <3>4, <3>6, <3>7 DEF Cert!Store
  <2>3. CASE /\ stage # "none" /\ over.system = <<>> /\ UNCHANGED over
             /\ certDisk' = [certDisk EXCEPT ![n] = stage]
    <3>1. certDisk' \in CertFiles BY <1>2, <2>3 DEF CertTypes, CertFiles
    <3>2. CertTypes' BY <1>1, <1>2, <1>3, <2>3, <3>1 DEF CertTypes
    <3> QED BY <2>3, <3>2 DEF Cert!Store
  <2> QED BY <1>4, <2>1, <2>2, <2>3
<1>6. Fine' => Fine /\ (UNCHANGED <<certDisk, over>> => over.system = <<>> \/ UNCHANGED unanswered)
  BY <1>1, <1>4 DEF Fine
<1>7. ASSUME Fine'
      PROVE  /\ stage' = certJob'[j].cert /\ PlacedWell(certJob[j])' /\ CertTidy' /\ CertSaid'
  <2> DEFINE c == certJob[j].cert
  <2>1. stage = c /\ c \in Certs /\ c # "none" BY <1>2, <1>7, <1>6, CertsAssumption DEF CertInv, CertStaged
  <2>2. /\ Chosen(Cert!Store, n, c) /\ Cert!Store \in CertFiles /\ Tidy(Cert!Store) /\ Tidy(certDisk)
    BY <1>2, <1>7, <1>6, StoreType DEF CertInv, CertPlaced, PlacedWell, CertTidy, n
  <2>3. \A s \in said : SaidWell(s) /\ s.name \in Suffixes /\ s.cert \in Certs
    BY <1>7, <1>6 DEF CertInv, CertTypes, CertSaid, SaidCert
  <2>4. \/ UNCHANGED <<certDisk, over>> /\ over.system = <<>> /\ Cert!Store' = Cert!Store
        \/ /\ Cert!Store' = [Cert!Store EXCEPT ![n] = c]
           /\ \/ over.system # <<>> /\ UNCHANGED certDisk
              \/ over.system = <<>> /\ certDisk = Cert!Store /\ certDisk' = Cert!Store'
    <3>1. CASE UNCHANGED <<certDisk, over>> /\ unanswered' = (unanswered \/ over.system # <<>>)
      BY <1>7, <3>1 DEF Cert!Store, Fine
    <3>2. CASE /\ over.system # <<>> /\ UNCHANGED certDisk
               /\ over' = [over EXCEPT !.system = [over.system EXCEPT ![1] = [over.system[1] EXCEPT ![n] = stage]]]
      <4>1. over \in [system : Layers, apex : Layers] /\ over.system \in Layers BY <1>2 DEF CertTypes
      <4>2. over.system[1] \in CertFiles BY <3>2, <4>1, LayerFiles
      <4>3. PICK g \in CertFiles : g = [over.system[1] EXCEPT ![n] = stage] BY <1>2, <2>1, <4>2 DEF CertFiles
      <4>4. PICK l \in Layers : l = [over.system EXCEPT ![1] = g] /\ l[1] = g /\ l # <<>>
        BY <3>2, <4>1, <4>3, LayerAgain
      <4>5. over'.system = l BY <3>2, <4>1, <4>3, <4>4
      <4>6. Cert!Store = over.system[1] /\ Cert!Store' = g BY <3>2, <4>4, <4>5 DEF Cert!Store
      <4> QED BY <2>1, <3>2, <4>3, <4>6
    <3>3. CASE over.system = <<>> /\ UNCHANGED over /\ certDisk' = [certDisk EXCEPT ![n] = stage]
      BY <2>1, <3>3 DEF Cert!Store
    <3> QED BY <1>4, <3>1, <3>2, <3>3
  <2>5. stage' = certJob'[j].cert /\ certJob'[j].name = n /\ certJob'[j].pc = "verify" /\ certJob'[j].cert = c
    BY <1>1, <1>3, <2>1
  <2>6. /\ Cert!Store' \in CertFiles /\ Tidy(Cert!Store') /\ Chosen(Cert!Store', n, c)
        /\ (over.system # <<>> => Cert!Store'[n] = c)
        /\ \A m \in Suffixes : Cert!Store[m] \in Certs => Cert!Store'[m] = Cert!Store[m]
    <3>1. CASE Cert!Store' = Cert!Store /\ over.system = <<>> BY <2>2, <3>1
    <3>2. CASE Cert!Store' = [Cert!Store EXCEPT ![n] = c]
      <4>1. PICK f \in CertFiles : f = Cert!Store BY <2>2
      <4>2. PICK d \in Certs : d = c BY <2>1
      <4>3. PICK m \in Suffixes : m = n BY <1>2
      <4>4. PICK g : g = [f EXCEPT ![m] = d] OBVIOUS
      <4>5. Tidy(f) /\ Chosen(f, m, d) BY <2>2, <4>1, <4>2, <4>3
      <4>6. g \in CertFiles /\ Tidy(g) /\ Chosen(g, m, d) /\ g[m] = d BY <4>4, <4>5, TidyPut, ZenonT(40)
      <4>9. \A i \in Suffixes : f[i] \in Certs => g[i] = f[i]
        BY <4>4, <4>5, CertsAssumption DEF Chosen, CertFiles
      <4>7. Cert!Store' = g BY <3>2, <4>1, <4>2, <4>3, <4>4
      <4>8. /\ g[n] = c /\ Tidy(g) /\ g \in CertFiles /\ Chosen(g, n, c)
            /\ \A i \in Suffixes : Cert!Store[i] \in Certs => g[i] = Cert!Store[i]
        BY <4>1, <4>2, <4>3, <4>6, <4>9
      <4> QED BY <4>7, <4>8
    <3> QED BY <2>4, <3>1, <3>2
  <2>7. PlacedWell(certJob[j])' BY <1>5, <2>5, <2>6 DEF PlacedWell
  <2>8. Tidy(certDisk') BY <2>2, <2>4, <2>6
  <2>9. CertTidy' BY <1>5, <2>6, <2>8 DEF CertTidy, Tidy
  <2>10. ASSUME NEW s \in said PROVE SaidWell(s)'
    <3>1. SaidWell(s) /\ s.name \in Suffixes /\ s.cert \in Certs BY <2>3
    <3>2. s.up => Cert!Store'[s.name] = s.cert BY <2>6, <3>1 DEF SaidWell
    <3>3. s.persistent /\ ~s.covered => certDisk'[s.name] = s.cert BY <2>4, <2>6, <3>1 DEF SaidWell
    <3> QED BY <1>1, <1>5, <3>1, <3>2, <3>3 DEF SaidWell, Laid
  <2>11. CertSaid' BY <1>1, <2>10 DEF CertSaid
  <2> QED BY <2>5, <2>7, <2>9, <2>11
<1> QED BY <1>1, <1>2, <1>3, <1>5, <1>7, <1>6, CertGoesOn

\* An install that ends well says what it checked.
LEMMA CertSays ==
  ASSUME CertInv, NEW j \in Jobs, certJob[j] \in PlacedJob,
         NEW how \in {"direct", "magisk-remount", "remount-root", "remount-system", "tmpfs-overlay"},
         NEW lasts \in BOOLEAN, Cert!Says(j, how, lasts),
         UNCHANGED <<rooted, apex, certDisk, over, overlapped, unanswered>>,
         Cert!cacertMatches(j), how = "tmpfs-overlay" => ~lasts,
         how = "tmpfs-overlay" /\ Fine =>
           /\ over.system # <<>>
           /\ apex /\ ~certJob[j].blind => over.apex # <<>> /\ over.apex[1][certJob[j].name] = certJob[j].cert
  PROVE  CertInv'
<1> DEFINE s == [cert |-> certJob[j].cert, name |-> certJob[j].name, strategy |-> how, persistent |-> lasts,
                 covered |-> over.system # <<>>, blind |-> certJob[j].blind, up |-> TRUE]
<1>1. certJob' = [certJob EXCEPT ![j] = Cert!Idle] /\ stage' = "none" /\ said' = said \cup {s}
  BY DEF Cert!Says, Cert!Goes, Cert!None
<1>2. CertTypes /\ certJob[j] # Cert!Idle /\ certJob[j].cert \in Certs /\ certJob[j].name \in Suffixes
      /\ certJob[j].blind \in BOOLEAN
  BY CertJobs DEF CertInv, PlacedJob, Cert!Idle
<1>3. s \in SaidCert
  <2>1. (over.system # <<>>) \in BOOLEAN OBVIOUS
  <2> QED BY <1>2, <2>1 DEF SaidCert
<1>4. CertTypes' BY <1>1, <1>2, <1>3 DEF CertTypes
<1>5. certJob'[j] = Cert!Idle /\ (\A k \in Jobs : k # j => certJob'[k] = certJob[k]) /\ Cert!Idle \notin PlacedJob
  BY <1>1, <1>2 DEF CertTypes, PlacedJob, Cert!Idle
<1>6. ASSUME Fine' PROVE CertTidy' /\ CertSaid'
  <2>0. Fine BY <1>6 DEF Fine
  <2>1. CertTidy' BY <2>0 DEF CertInv, CertTidy, Cert!Store
  <2>2. ASSUME NEW t \in said PROVE SaidWell(t)'
    BY <2>0, <2>2 DEF CertInv, CertSaid, SaidWell, Laid, Cert!Store
  <2>3. /\ s.up /\ s.name = certJob[j].name /\ s.cert = certJob[j].cert /\ s.strategy = how
        /\ (s.persistent <=> lasts) /\ (s.covered <=> over.system # <<>>) /\ s.blind = certJob[j].blind
    OBVIOUS
  <2>4. Cert!Store[certJob[j].name] = certJob[j].cert BY DEF Cert!cacertMatches
  <2>5. ASSUME NEW t, t = s PROVE SaidWell(t)'
    <3>1. Cert!Store'[t.name] = t.cert BY <2>3, <2>4, <2>5 DEF Cert!Store
    <3>2. ~t.covered => certDisk'[t.name] = t.cert BY <2>3, <2>4, <2>5 DEF Cert!Store
    <3>3. t.strategy = "tmpfs-overlay" =>
            /\ over.system # <<>>
            /\ apex /\ ~t.blind => over.apex # <<>> /\ over.apex[1][t.name] = t.cert
      BY <2>0, <2>3, <2>5
    <3> QED BY <3>1, <3>2, <3>3 DEF SaidWell, Laid
  <2>6. CertSaid' BY <1>1, <2>2, <2>5 DEF CertSaid
  <2> QED BY <2>1, <2>6
<1>7. Fine' => Fine BY DEF Fine
<1> QED BY <1>2, <1>4, <1>5, <1>6, <1>7, CertGoesOn

LEMMA CertVerifies ==
  ASSUME CertInv, NEW j \in Jobs, Cert!Verify(j)
  PROVE  CertInv'
<1>1. certJob[j].pc = "verify" /\ UNCHANGED <<rooted, apex, reach, certDisk, over, overlapped>>
  BY DEF Cert!Verify, Cert!At, Cert!device
<1>2. /\ certJob[j] \in PlacedJob /\ certJob[j] # Cert!Idle /\ CertTypes /\ certJob[j].at \in 1 .. 4
      /\ certJob[j].name \in Suffixes /\ certJob[j].cert \in Certs
  BY <1>1, CertJobs DEF CertInv
<1>3. CASE Cert!cacertMatches(j) /\ Cert!Says(j, Cert!cacertStrategies[certJob[j].at], TRUE) /\ UNCHANGED unanswered
  <2>1. PICK how \in {"direct", "magisk-remount", "remount-root", "remount-system"} :
          how = Cert!cacertStrategies[certJob[j].at]
    BY <1>2 DEF Cert!cacertStrategies
  <2>2. Cert!Says(j, how, TRUE) BY <1>3, <2>1
  <2> QED BY <1>1, <1>2, <1>3, <2>1, <2>2, CertSays
<1>4. CASE /\ UNCHANGED <<stage, said>> /\ unanswered' = (unanswered \/ Cert!cacertMatches(j))
           /\ Cert!Goes(j, IF certJob[j].at < Len(Cert!cacertStrategies)
                           THEN [certJob[j] EXCEPT !.pc = "try", !.at = certJob[j].at + 1]
                           ELSE [certJob[j] EXCEPT !.pc = "overlay"])
  <2>1. /\ UNCHANGED <<stage, said>>
        /\ \/ certJob[j].at < 4 /\ certJob' = [certJob EXCEPT ![j] = [certJob[j] EXCEPT !.pc = "try", !.at = certJob[j].at + 1]]
           \/ certJob' = [certJob EXCEPT ![j] = [certJob[j] EXCEPT !.pc = "overlay"]]
    BY <1>4 DEF Cert!Goes, Cert!cacertStrategies
  <2>2. /\ certJob'[j] \in PlacedJob /\ certJob'[j].pc \in {"try", "overlay"}
        /\ certJob'[j].name = certJob[j].name /\ certJob'[j].cert = certJob[j].cert
        /\ \A k \in Jobs : k # j => certJob'[k] = certJob[k]
    <3>1. CASE certJob[j].at < 4 /\ certJob' = [certJob EXCEPT ![j] = [certJob[j] EXCEPT !.pc = "try", !.at = certJob[j].at + 1]]
      <4>1. certJob[j].at + 1 \in 1 .. 4 BY <1>2, <3>1
      <4>2. [certJob[j] EXCEPT !.pc = "try", !.at = certJob[j].at + 1] \in PlacedJob BY <1>2, <4>1 DEF PlacedJob
      <4> QED BY <1>2, <3>1, <4>2 DEF CertTypes, PlacedJob
    <3>2. CASE certJob' = [certJob EXCEPT ![j] = [certJob[j] EXCEPT !.pc = "overlay"]]
      BY <1>2, <3>2 DEF CertTypes, PlacedJob
    <3> QED BY <2>1, <3>1, <3>2
  <2>3. CertTypes' BY <1>1, <1>2, <2>1, <2>2 DEF CertTypes
  <2>4. Fine' => Fine /\ ~Cert!cacertMatches(j) BY <1>1, <1>4 DEF Fine
  <2>5. ASSUME Fine'
        PROVE  stage' = certJob'[j].cert /\ PlacedWell(certJob[j])' /\ CertTidy' /\ CertSaid'
    <3>1. stage' = certJob'[j].cert BY <1>2, <2>1, <2>2, <2>4, <2>5 DEF CertInv, CertStaged
    <3>2. PlacedWell(certJob[j]) BY <1>2, <2>4, <2>5 DEF CertInv, CertPlaced
    <3>3. over.system = <<>> /\ certDisk[certJob[j].name] # certJob[j].cert
      BY <1>1, <2>4, <2>5, <3>2 DEF PlacedWell, Cert!cacertMatches, Cert!Store
    <3>4. PlacedWell(certJob[j])' BY <1>1, <2>2, <3>2, <3>3 DEF PlacedWell, Cert!Store
    <3>5. CertTidy' /\ CertSaid' BY <1>1, <2>1, <2>4, <2>5 DEF CertInv, CertTidy, CertSaid, SaidWell, Laid, Cert!Store
    <3> QED BY <3>1, <3>4, <3>5
  <2> QED BY <1>1, <1>2, <2>2, <2>3, <2>4, <2>5, CertGoesOn
<1> QED BY <1>3, <1>4 DEF Cert!Verify

\* What is laid over a store holds the staged certificate.
LEMMA WithStage ==
  ASSUME NEW f \in CertFiles, NEW n \in Suffixes, stage \in Certs \cup {"none"}
  PROVE  /\ Cert!With(f, n) \in CertFiles
         /\ stage # "none" => Cert!With(f, n) = [f EXCEPT ![n] = stage] /\ Cert!With(f, n)[n] = stage
BY DEF Cert!With, Cert!None, CertFiles

LEMMA CertOverlays ==
  ASSUME CertInv, NEW j \in Jobs, Cert!Overlay(j)
  PROVE  CertInv'
<1> DEFINE n == certJob[j].name
           c == certJob[j].cert
           g == Cert!With(certDisk, n)
<1>1. /\ certJob[j].pc = "overlay" /\ UNCHANGED <<rooted, apex, certDisk, stage, said, overlapped, unanswered>>
      /\ \/ /\ over' = [over EXCEPT !.system = <<g>>] \/ over' = [over EXCEPT !.system = <<>>]
            /\ certJob' = [certJob EXCEPT ![j] = [certJob[j] EXCEPT !.pc = "apex"]]
         \/ over' = over /\ certJob' = [certJob EXCEPT ![j] = [certJob[j] EXCEPT !.pc = "check", !.blind = apex]]
  BY DEF Cert!Overlay, Cert!At, Cert!Goes, Cert!device
<1>2. /\ certJob[j] \in PlacedJob /\ certJob[j] # Cert!Idle /\ CertTypes /\ n \in Suffixes /\ c \in Certs
      /\ stage \in Certs \cup {"none"} /\ certDisk \in CertFiles /\ over \in [system : Layers, apex : Layers]
      /\ apex \in BOOLEAN
  BY <1>1, CertJobs DEF CertInv, CertTypes
<1>3. /\ certJob'[j] \in PlacedJob /\ certJob'[j].pc \in {"apex", "check"} /\ certJob'[j].name = n
      /\ certJob'[j].cert = c /\ (certJob'[j].pc = "check" => certJob'[j].blind = apex)
      /\ \A k \in Jobs : k # j => certJob'[k] = certJob[k]
      /\ certJob' \in [Jobs -> {Cert!Idle} \cup [pc : {"pick", "user"}, cert : Certs] \cup PlacedJob]
  <2>1. PICK r \in PlacedJob :
          /\ certJob' = [certJob EXCEPT ![j] = r] /\ r.pc \in {"apex", "check"}
          /\ r.name = n /\ r.cert = c /\ (r.pc = "check" => r.blind = apex)
    <3>1. CASE certJob' = [certJob EXCEPT ![j] = [certJob[j] EXCEPT !.pc = "apex"]]
      BY <1>2, <3>1 DEF PlacedJob
    <3>2. CASE certJob' = [certJob EXCEPT ![j] = [certJob[j] EXCEPT !.pc = "check", !.blind = apex]]
      <4> DEFINE r0 == [certJob[j] EXCEPT !.pc = "check", !.blind = apex]
      <4>1. r0 \in PlacedJob /\ r0.pc = "check" /\ r0.blind = apex /\ r0.name = n /\ r0.cert = c BY <1>2 DEF PlacedJob
      <4>2. certJob' = [certJob EXCEPT ![j] = r0] BY <3>2
      <4> HIDE DEF r0
      <4> QED BY <4>1, <4>2
    <3> QED BY <1>1, <3>1, <3>2
  <2>2. certJob'[j] = r /\ \A k \in Jobs : k # j => certJob'[k] = certJob[k] BY <1>2, <2>1 DEF CertTypes
  <2>3. certJob' \in [Jobs -> {Cert!Idle} \cup [pc : {"pick", "user"}, cert : Certs] \cup PlacedJob]
    BY <1>2, <2>1 DEF CertTypes
  <2> QED BY <2>1, <2>2, <2>3
<1>4. g \in CertFiles /\ <<g>> \in Layers /\ <<g>>[1] = g /\ <<g>> # <<>> /\ <<>> \in Layers
  BY <1>2, WithStage, OneLayer DEF Layers
<1> HIDE DEF n, c, g
<1>5. /\ over' \in [system : Layers, apex : Layers] /\ over'.apex = over.apex
      /\ over'.system \in {<<g>>, <<>>, over.system}
  <2>1. PICK l \in Layers : l \in {<<g>>, <<>>, over.system} /\ over' = [over EXCEPT !.system = l]
    BY <1>1, <1>2, <1>4
  <2> QED BY <1>2, <2>1
<1>6. CertTypes' BY <1>1, <1>2, <1>3, <1>5 DEF CertTypes
<1>7. Fine' => Fine BY <1>1 DEF Fine
<1>8. ASSUME Fine'
      PROVE  stage' = certJob'[j].cert /\ PlacedWell(certJob[j])' /\ CertTidy' /\ CertSaid'
  <2>1. stage = c /\ stage # "none"
    BY <1>2, <1>7, <1>8, CertsAssumption DEF CertInv, CertStaged, c
  <2>2. PlacedWell(certJob[j]) /\ CertTidy /\ CertSaid BY <1>2, <1>7, <1>8 DEF CertInv, CertPlaced
  <2>3. over.system = <<>> /\ Cert!Store = certDisk /\ certDisk[n] # c
    BY <1>1, <2>2 DEF PlacedWell, Cert!Store, n, c
  <2>4. Chosen(certDisk, n, c) /\ Tidy(certDisk) BY <2>2, <2>3 DEF PlacedWell, CertTidy, n, c
  <2>5. /\ Tidy(g) /\ Chosen(g, n, c)
        /\ \A i \in Suffixes : certDisk[i] \in Certs => g[i] = certDisk[i]
    <3>1. g = [certDisk EXCEPT ![n] = c] BY <1>2, <2>1, WithStage DEF g
    <3>2. Tidy(g) /\ Chosen(g, n, c) BY <1>2, <2>4, <3>1, TidyPut, ZenonT(40)
    <3>3. \A i \in Suffixes : certDisk[i] \in Certs => g[i] = certDisk[i]
      BY <1>2, <2>4, <3>1, CertsAssumption DEF Chosen, CertFiles
    <3> QED BY <3>2, <3>3
  <2>6. Cert!Store' \in {certDisk, g}
    BY <1>1, <1>4, <1>5, <2>3 DEF Cert!Store
  <2>7. \A s \in said : ~Laid(s) /\ SaidWell(s) /\ s.name \in Suffixes /\ s.cert \in Certs
    BY <1>2, <2>2, <2>3 DEF CertSaid, SaidWell, CertTypes, SaidCert
  <2>8. PlacedWell(certJob[j])' BY <1>1, <1>2, <1>3, <2>3, <2>4, <2>5, <2>6, <2>7 DEF PlacedWell, Laid
  <2>9. CertTidy' BY <1>1, <2>4, <2>5, <2>6 DEF CertTidy, Tidy
  <2>10. ASSUME NEW s \in said PROVE SaidWell(s)'
    <3>1. s.up => Cert!Store'[s.name] = s.cert BY <2>3, <2>5, <2>6, <2>7 DEF SaidWell
    <3> QED BY <1>1, <2>7, <3>1 DEF SaidWell, Laid
  <2>11. CertSaid' BY <1>1, <2>10 DEF CertSaid
  <2> QED BY <1>1, <1>3, <2>1, <2>8, <2>9, <2>11
<1> QED BY <1>2, <1>3, <1>6, <1>7, <1>8, CertGoesOn

LEMMA CertApexes ==
  ASSUME CertInv, NEW j \in Jobs, Cert!OverlayApex(j)
  PROVE  CertInv'
<1> DEFINE n == certJob[j].name
           c == certJob[j].cert
           h == Cert!With([f \in Suffixes |-> "none"], n)
<1>1. /\ certJob[j].pc = "apex" /\ UNCHANGED <<rooted, apex, certDisk, stage, said, overlapped, unanswered>>
      /\ \/ /\ ~apex /\ UNCHANGED over
            /\ certJob' = [certJob EXCEPT ![j] = [certJob[j] EXCEPT !.pc = "check"]]
         \/ /\ over' = [over EXCEPT !.apex = <<h>>]
            /\ certJob' = [certJob EXCEPT ![j] = [certJob[j] EXCEPT !.pc = "check"]]
         \/ /\ over' \in {over, [over EXCEPT !.apex = <<>>]}
            /\ certJob' = [certJob EXCEPT ![j] = [certJob[j] EXCEPT !.pc = "check", !.blind = TRUE]]
  BY DEF Cert!OverlayApex, Cert!At, Cert!Goes, Cert!device, Cert!None
<1>2. /\ certJob[j] \in PlacedJob /\ certJob[j] # Cert!Idle /\ CertTypes /\ n \in Suffixes /\ c \in Certs
      /\ stage \in Certs \cup {"none"} /\ over \in [system : Layers, apex : Layers]
  BY <1>1, CertJobs DEF CertInv, CertTypes
<1>3. /\ certJob'[j] \in PlacedJob /\ certJob'[j].pc = "check" /\ certJob'[j].name = n
      /\ certJob'[j].cert = c /\ \A k \in Jobs : k # j => certJob'[k] = certJob[k]
      /\ certJob' \in [Jobs -> {Cert!Idle} \cup [pc : {"pick", "user"}, cert : Certs] \cup PlacedJob]
  <2>1. PICK r \in PlacedJob :
          certJob' = [certJob EXCEPT ![j] = r] /\ r.pc = "check" /\ r.name = n /\ r.cert = c
    <3>1. CASE certJob' = [certJob EXCEPT ![j] = [certJob[j] EXCEPT !.pc = "check"]]
      <4> DEFINE r0 == [certJob[j] EXCEPT !.pc = "check"]
      <4>1. r0 \in PlacedJob /\ r0.pc = "check" /\ r0.name = n /\ r0.cert = c BY <1>2 DEF PlacedJob
      <4>2. certJob' = [certJob EXCEPT ![j] = r0] BY <3>1
      <4> HIDE DEF r0
      <4> QED BY <4>1, <4>2
    <3>2. CASE certJob' = [certJob EXCEPT ![j] = [certJob[j] EXCEPT !.pc = "check", !.blind = TRUE]]
      <4> DEFINE r0 == [certJob[j] EXCEPT !.pc = "check", !.blind = TRUE]
      <4>1. r0 \in PlacedJob /\ r0.pc = "check" /\ r0.name = n /\ r0.cert = c BY <1>2 DEF PlacedJob
      <4>2. certJob' = [certJob EXCEPT ![j] = r0] BY <3>2
      <4> HIDE DEF r0
      <4> QED BY <4>1, <4>2
    <3> QED BY <1>1, <3>1, <3>2
  <2>2. certJob'[j] = r /\ \A k \in Jobs : k # j => certJob'[k] = certJob[k] BY <1>2, <2>1 DEF CertTypes
  <2>3. certJob' \in [Jobs -> {Cert!Idle} \cup [pc : {"pick", "user"}, cert : Certs] \cup PlacedJob]
    BY <1>2, <2>1 DEF CertTypes
  <2> QED BY <2>1, <2>2, <2>3
<1>4. /\ h \in CertFiles /\ <<h>> \in Layers /\ <<h>>[1] = h /\ <<h>> # <<>> /\ <<>> \in Layers
      /\ stage # "none" => h[n] = stage
  <2>1. [f \in Suffixes |-> "none"] \in CertFiles BY DEF CertFiles
  <2> QED BY <1>2, <2>1, WithStage, OneLayer DEF Layers
<1>5. /\ over' \in [system : Layers, apex : Layers] /\ over'.system = over.system
      /\ apex /\ ~certJob'[j].blind => over'.apex # <<>> /\ over'.apex[1] = h
  <2>1. certJob[j].blind \in BOOLEAN BY <1>2 DEF PlacedJob
  <2>2. CASE ~apex /\ UNCHANGED over BY <1>2, <2>2
  <2>3. CASE over' = [over EXCEPT !.apex = <<h>>] BY <1>2, <1>4, <2>3
  <2>4. CASE /\ over' \in {over, [over EXCEPT !.apex = <<>>]}
             /\ certJob' = [certJob EXCEPT ![j] = [certJob[j] EXCEPT !.pc = "check", !.blind = TRUE]]
    <3>1. certJob'[j].blind = TRUE BY <1>2, <2>4 DEF CertTypes, PlacedJob
    <3> QED BY <1>2, <1>4, <2>4, <3>1
  <2> QED BY <1>1, <2>2, <2>3, <2>4
<1> HIDE DEF n, c, h
<1>6. CertTypes' BY <1>1, <1>2, <1>3, <1>5 DEF CertTypes
<1>7. Fine' => Fine BY <1>1 DEF Fine
<1>8. ASSUME Fine'
      PROVE  stage' = certJob'[j].cert /\ PlacedWell(certJob[j])' /\ CertTidy' /\ CertSaid'
  <2>1. stage = c /\ stage # "none" BY <1>2, <1>7, <1>8, CertsAssumption DEF CertInv, CertStaged, c
  <2>2. PlacedWell(certJob[j]) /\ CertTidy /\ CertSaid BY <1>2, <1>7, <1>8 DEF CertInv, CertPlaced
  <2>3. Cert!Store' = Cert!Store BY <1>1, <1>5 DEF Cert!Store
  <2>4. \A s \in said : ~Laid(s) BY <1>1, <2>2 DEF PlacedWell
  <2>5. PlacedWell(certJob[j])'
    BY <1>1, <1>3, <1>4, <1>5, <2>1, <2>2, <2>3 DEF PlacedWell, n, c
  <2>6. CertTidy' BY <1>1, <2>2, <2>3 DEF CertTidy
  <2>7. CertSaid' BY <1>1, <2>2, <2>3, <2>4 DEF CertSaid, SaidWell, Laid
  <2> QED BY <1>1, <1>3, <2>1, <2>5, <2>6, <2>7
<1> QED BY <1>2, <1>3, <1>6, <1>7, <1>8, CertGoesOn

LEMMA CertChecks ==
  ASSUME CertInv, NEW j \in Jobs, Cert!OverlayChecked(j)
  PROVE  CertInv'
<1>1. certJob[j].pc = "check" /\ UNCHANGED <<rooted, apex, certDisk, over, overlapped, unanswered>>
  BY DEF Cert!OverlayChecked, Cert!At, Cert!device
<1>2. certJob[j] \in PlacedJob /\ certJob[j] # Cert!Idle /\ CertTypes BY <1>1, CertJobs DEF CertInv
<1>3. CASE Cert!cacertMatches(j) /\ Cert!Says(j, "tmpfs-overlay", FALSE)
  <2>1. Fine => /\ over.system # <<>>
                /\ apex /\ ~certJob[j].blind => over.apex # <<>> /\ over.apex[1][certJob[j].name] = certJob[j].cert
    BY <1>1, <1>2, <1>3 DEF CertInv, CertPlaced, PlacedWell, Cert!cacertMatches, Cert!Store
  <2> QED BY <1>1, <1>2, <1>3, <2>1, CertSays
<1>4. CASE Cert!Goes(j, Cert!Idle) /\ UNCHANGED <<stage, said>>
  <2>1. certJob' = [certJob EXCEPT ![j] = Cert!Idle] /\ UNCHANGED <<stage, said>>
    BY <1>4 DEF Cert!Goes
  <2>2. certJob'[j] = Cert!Idle /\ (\A k \in Jobs : k # j => certJob'[k] = certJob[k]) /\ CertTypes'
    BY <1>1, <1>2, <2>1 DEF CertTypes
  <2>3. Cert!Idle \notin PlacedJob BY DEF Cert!Idle, PlacedJob
  <2>4. (Fine' => Fine) /\ (Fine' => CertTidy' /\ CertSaid')
    BY <1>1, <2>1 DEF Fine, CertInv, CertTidy, CertSaid, SaidWell, Laid, Cert!Store
  <2> QED BY <1>1, <1>2, <2>2, <2>3, <2>4, CertGoesOn
<1> QED BY <1>3, <1>4 DEF Cert!OverlayChecked

LEMMA CertLeaves ==
  ASSUME CertInv, NEW j \in Jobs, Cert!installUserCertFallback(j)
  PROVE  CertInv'
<1>1. /\ certJob[j].pc = "user" /\ certJob' = [certJob EXCEPT ![j] = Cert!Idle] /\ stage' = "none"
      /\ UNCHANGED <<rooted, apex, certDisk, over, said, overlapped, unanswered>>
  BY DEF Cert!installUserCertFallback, Cert!At, Cert!Goes, Cert!device, Cert!None
<1>2. certJob[j] # Cert!Idle /\ CertTypes BY <1>1, CertJobs DEF CertInv
<1>3. certJob'[j] = Cert!Idle /\ (\A k \in Jobs : k # j => certJob'[k] = certJob[k]) /\ CertTypes'
  BY <1>1, <1>2 DEF CertTypes
<1>4. Cert!Idle \notin PlacedJob BY DEF Cert!Idle, PlacedJob
<1>5. (Fine' => Fine) /\ (Fine' => CertTidy' /\ CertSaid')
  BY <1>1 DEF Fine, CertInv, CertTidy, CertSaid, SaidWell, Laid, Cert!Store
<1> QED BY <1>1, <1>2, <1>3, <1>4, <1>5, CertGoesOn

LEMMA CertReboots ==
  ASSUME CertInv, Cert!Reboot
  PROVE  CertInv'
<1>1. /\ \A k \in Jobs : certJob[k] = Cert!Idle
      /\ over' = [system |-> <<>>, apex |-> <<>>] /\ said' = {[s EXCEPT !.up = FALSE] : s \in said}
      /\ UNCHANGED <<rooted, apex, certDisk, stage, certJob, overlapped, unanswered>>
  BY DEF Cert!Reboot, Cert!NoCover, Cert!device
<1>2. Cert!Idle \notin PlacedJob BY DEF Cert!Idle, PlacedJob
<1>3. ASSUME NEW t \in said'
      PROVE  /\ t \in SaidCert /\ t.up = FALSE
             /\ \E s \in said : t.name = s.name /\ t.cert = s.cert /\ t.persistent = s.persistent /\ t.covered = s.covered
  <2>1. PICK s \in said : t = [s EXCEPT !.up = FALSE] BY <1>1, <1>3
  <2>2. s \in SaidCert BY DEF CertInv, CertTypes
  <2> QED BY <2>1, <2>2 DEF SaidCert
<1>4. CertTypes'
  <2>1. over' \in [system : Layers, apex : Layers] BY <1>1 DEF Layers
  <2> QED BY <1>1, <1>3, <2>1 DEF CertInv, CertTypes
<1>5. ASSUME Fine' PROVE CertAlone' /\ CertStaged' /\ CertTidy' /\ CertPlaced' /\ CertSaid'
  <2>0. Fine BY <1>1, <1>5 DEF Fine
  <2>1. CertAlone' /\ CertStaged' /\ CertPlaced' BY <1>1, <1>2 DEF CertAlone, CertStaged, CertPlaced
  <2>2. CertTidy' BY <1>1, <2>0 DEF CertInv, CertTidy, Cert!Store
  <2>3. ASSUME NEW t \in said' PROVE SaidWell(t)'
    <3>1. PICK s \in said : t.name = s.name /\ t.cert = s.cert /\ t.persistent = s.persistent /\ t.covered = s.covered
      BY <1>3, <2>3
    <3>2. t.up = FALSE BY <1>3, <2>3
    <3>3. SaidWell(s) BY <2>0 DEF CertInv, CertSaid
    <3> QED BY <1>1, <3>1, <3>2, <3>3 DEF SaidWell, Laid
  <2>4. CertSaid' BY <2>3 DEF CertSaid
  <2> QED BY <2>1, <2>2, <2>4
<1> QED BY <1>1, <1>4, <1>5 DEF CertInv

\* Of installs that do not overlap, and whose device answers, one that ended well is in
\* the store until the device restarts, for good where it says so and nothing lay over
\* the store, and in the layer over the APEX too where that was mounted (certs.go).
THEOREM CertTrusted == Cert!Spec => []Cert!CertIsTrusted
<1>1. Cert!Init => CertInv
  <2> SUFFICES ASSUME Cert!Init PROVE CertInv OBVIOUS
  <2>1. /\ certDisk = [f \in Suffixes |-> "none"] /\ over = [system |-> <<>>, apex |-> <<>>] /\ stage = "none"
        /\ certJob = [j \in Jobs |-> Cert!Idle] /\ said = {} /\ apex \in BOOLEAN
    BY DEF Cert!Init, Cert!None, Cert!NoCover
  <2>2. CertTypes BY <2>1 DEF CertTypes, CertFiles, Layers
  <2>3. CertAlone /\ CertStaged /\ CertSaid BY <2>1 DEF CertAlone, CertStaged, CertSaid
  <2>4. CertTidy BY <2>1 DEF CertTidy, Tidy, Cert!Store
  <2>5. CertPlaced BY <2>1 DEF CertPlaced, PlacedJob, Cert!Idle
  <2> QED BY <2>2, <2>3, <2>4, <2>5 DEF CertInv
<1>2. CertInv /\ [Cert!Next]_Cert!vars => CertInv'
  <2> SUFFICES ASSUME CertInv, [Cert!Next]_Cert!vars PROVE CertInv' OBVIOUS
  <2>1. CASE UNCHANGED Cert!vars
    BY <2>1 DEF CertInv, CertTypes, CertAlone, CertStaged, CertTidy, CertPlaced, PlacedWell, CertSaid, SaidWell,
                Fine, Laid, Cert!Store, Cert!vars, Cert!device
  <2> QED BY <2>1, CertBegins, CertPicks, CertTries, CertVerifies, CertOverlays, CertApexes, CertChecks, CertLeaves,
             CertReboots DEF Cert!Next
<1>3. CertInv => Cert!CertIsTrusted BY DEF CertInv, CertSaid, SaidWell, Fine, Laid, Cert!CertIsTrusted
<1> QED BY <1>1, <1>2, <1>3, PTL DEF Cert!Spec

-----------------------------------------------------------------------------
(* The hosts file.                                                         *)

WritingJob == [pc : {"try", "verify", "module"}, of : Texts, at : 1 .. 5]

HostsTypes ==
  /\ inode \in Seq(Texts) /\ name \in 0 .. Len(inode)
  /\ hostsJob \in [Jobs -> {Hosts!Idle} \cup WritingJob]

\* Of calls that do not overlap: what is staged is what the one call writes, and of a
\* bind mount it is the stage that is mounted when the file is looked at.
HostsAlone ==
  /\ \A j, k \in Jobs : hostsJob[j] # Hosts!Idle /\ hostsJob[k] # Hosts!Idle => j = k
  /\ \A j \in Jobs : hostsJob[j] # Hosts!Idle => hostsSaid = Hosts!Idle
HostsStaged ==
  \A j \in Jobs : hostsJob[j] # Hosts!Idle => name # 0 /\ inode[name] = hostsJob[j].of
HostsBound ==
  \A j \in Jobs : hostsJob[j] # Hosts!Idle /\ hostsJob[j].pc = "verify" /\ hostsJob[j].at = 5 => bound = name

\* What was said, and that a file said to be open to all has nothing mounted on it.
Strategy == {"direct", "magisk-remount", "remount-root", "remount-system", "bind-mount", "magisk-module"}
Said == [pc : {"done"}, of : Texts, strategy : Strategy, covered : BOOLEAN, up : BOOLEAN]
HostsSaid ==
  /\ hostsSaid = Hosts!Idle \/ hostsSaid \in Said
  /\ ~hostsOverlapped /\ hostsSaid # Hosts!Idle /\ ~hostsSaid.covered => bound = 0

HostsInv ==
  /\ HostsTypes /\ HostsSaid /\ Hosts!HostsAreShown
  /\ ~hostsOverlapped => HostsAlone /\ HostsStaged /\ HostsBound

LEMMA HostsJobs ==
  ASSUME HostsTypes, NEW j \in Jobs
  PROVE  /\ hostsJob[j].pc \in {"try", "verify", "module"} => hostsJob[j] \in WritingJob
         /\ hostsJob[j] \in WritingJob => hostsJob[j] # Hosts!Idle /\ hostsJob[j].of \in Texts /\ hostsJob[j].at \in 1 .. 5
         /\ hostsJob[j].pc = "idle" => hostsJob[j] = Hosts!Idle
BY DEF HostsTypes, WritingJob, Hosts!Idle

LEMMA StageStep ==
  ASSUME HostsInv, NEW j \in Jobs, NEW c \in Texts, Hosts!Stage(j, c)
  PROVE  HostsInv'
<1> DEFINE r == [pc |-> "try", of |-> c, at |-> 1]
<1>1. /\ hostsJob' = [hostsJob EXCEPT ![j] = r] /\ hostsSaid' = Hosts!Idle
      /\ hostsOverlapped' = (hostsOverlapped \/ \E k \in Jobs \ {j} : hostsJob[k] # Hosts!Idle)
  BY DEF Hosts!Stage, Hosts!Goes
<1>2. r \in WritingJob /\ r # Hosts!Idle /\ r.of = c /\ r.pc = "try" BY DEF WritingJob, Hosts!Idle
<1> HIDE DEF r
<1>3. inode' \in Seq(Texts) /\ name' \in 0 .. Len(inode') /\ name' # 0 /\ inode'[name'] = c
  <2>0. inode \in Seq(Texts) /\ name \in 0 .. Len(inode) BY DEF HostsInv, HostsTypes
  <2>1. CASE name # 0
    <3>1. inode' = [inode EXCEPT ![name] = c] /\ name' = name BY <2>1 DEF Hosts!Stage, Hosts!Staged
    <3> QED BY <2>0, <2>1, <3>1
  <2>2. CASE name = 0
    <3>1. inode' = Append(inode, c) /\ name' = Len(inode') BY <2>2 DEF Hosts!Stage, Hosts!Staged
    <3>2. inode' \in Seq(Texts) /\ Len(inode') = Len(inode) + 1 /\ inode'[Len(inode) + 1] = c BY <2>0, <3>1
    <3> QED BY <2>0, <3>1, <3>2
  <2> QED BY <2>1, <2>2
<1>4. HostsTypes' BY <1>1, <1>2, <1>3 DEF HostsInv, HostsTypes
<1>5. HostsSaid' /\ Hosts!HostsAreShown' BY <1>1 DEF HostsSaid, Hosts!HostsAreShown, Hosts!Idle
<1>6. ASSUME ~hostsOverlapped' PROVE HostsAlone' /\ HostsStaged' /\ HostsBound'
  <2>1. \A k \in Jobs : k # j => hostsJob[k] = Hosts!Idle BY <1>1, <1>6
  <2>2. hostsJob'[j] = r /\ \A k \in Jobs : k # j => hostsJob'[k] = Hosts!Idle
    BY <1>1, <2>1 DEF HostsInv, HostsTypes
  <2>3. HostsAlone' BY <1>1, <2>2 DEF HostsAlone, Hosts!Idle
  <2>4. HostsStaged' BY <1>2, <1>3, <2>2 DEF HostsStaged, Hosts!Idle
  <2>5. HostsBound' BY <1>2, <2>2 DEF HostsBound, Hosts!Idle
  <2> QED BY <2>3, <2>4, <2>5
<1> QED BY <1>4, <1>5, <1>6 DEF HostsInv

\* A write that goes on, or gives up: nothing has been said of it.
LEMMA HostsGoesOn ==
  ASSUME HostsInv, NEW j \in Jobs, hostsJob[j] \in WritingJob, HostsTypes',
         \A k \in Jobs : k # j => hostsJob'[k] = hostsJob[k],
         UNCHANGED <<hostsSaid, hostsOverlapped, name>>,
         hostsJob'[j] # Hosts!Idle => hostsJob'[j].of = hostsJob[j].of,
         name # 0 => inode'[name] = inode[name],
         hostsJob'[j] # Hosts!Idle /\ hostsJob'[j].pc = "verify" /\ hostsJob'[j].at = 5 => bound' = name
  PROVE  HostsInv'
<1>1. hostsJob[j] # Hosts!Idle BY HostsJobs DEF HostsInv
<1>2. ASSUME ~hostsOverlapped PROVE HostsAlone' /\ HostsStaged' /\ HostsBound' /\ hostsSaid' = Hosts!Idle
  <2>1. HostsAlone /\ HostsStaged BY <1>2 DEF HostsInv
  <2>2. \A k \in Jobs : k # j => hostsJob[k] = Hosts!Idle /\ hostsJob'[k] = Hosts!Idle BY <1>1, <2>1 DEF HostsAlone
  <2>3. hostsSaid' = Hosts!Idle BY <1>1, <2>1 DEF HostsAlone
  <2>4. HostsAlone' BY <2>2, <2>3 DEF HostsAlone, Hosts!Idle
  <2>5. HostsStaged' BY <1>1, <2>1, <2>2 DEF HostsStaged, Hosts!Idle
  <2>6. HostsBound' BY <2>2 DEF HostsBound, Hosts!Idle
  <2> QED BY <2>3, <2>4, <2>5, <2>6
<1>3. HostsSaid' /\ Hosts!HostsAreShown'
  BY <1>2 DEF HostsInv, HostsSaid, Hosts!HostsAreShown, Hosts!Idle
<1> QED BY <1>2, <1>3 DEF HostsInv

LEMMA NextWrite ==
  ASSUME NEW j \in Jobs, hostsJob[j] \in WritingJob
  PROVE  /\ Hosts!Following(j) \in WritingJob
         /\ Hosts!Following(j).of = hostsJob[j].of /\ Hosts!Following(j).pc # "verify"
<1>1. CASE hostsJob[j].at < 5
  <2>1. Hosts!Following(j) = [hostsJob[j] EXCEPT !.pc = "try", !.at = hostsJob[j].at + 1]
    BY <1>1 DEF Hosts!Following, Hosts!hostsStrategies
  <2>2. hostsJob[j].at + 1 \in 1 .. 5 BY <1>1 DEF WritingJob
  <2> QED BY <2>1, <2>2 DEF WritingJob
<1>2. CASE ~(hostsJob[j].at < 5)
  <2>1. Hosts!Following(j) = [hostsJob[j] EXCEPT !.pc = "module"]
    BY <1>2 DEF Hosts!Following, Hosts!hostsStrategies
  <2> QED BY <2>1 DEF WritingJob
<1> QED BY <1>1, <1>2

LEMMA CopyStep ==
  ASSUME HostsInv, NEW j \in Jobs, Hosts!TryCopy(j)
  PROVE  HostsInv'
<1> DEFINE s == Hosts!hostsStrategies[hostsJob[j].at]
<1>1. /\ hostsJob[j].pc = "try" /\ s # "bind-mount" /\ (Hosts!Copy(s) \/ UNCHANGED inode)
      /\ hostsJob' = [hostsJob EXCEPT ![j] = Hosts!Following(j)]
         \/ hostsJob' = [hostsJob EXCEPT ![j] = [hostsJob[j] EXCEPT !.pc = "verify"]]
      /\ UNCHANGED <<name, bound, hostsSaid, hostsOverlapped>>
  BY DEF Hosts!TryCopy, Hosts!At, Hosts!Goes
<1>2. hostsJob[j] \in WritingJob /\ HostsTypes /\ hostsJob[j].at \in 1 .. 5 BY <1>1, HostsJobs DEF HostsInv
<1>3. hostsJob[j].at # 5
  <2>1. Hosts!hostsStrategies[5] = "bind-mount" BY DEF Hosts!hostsStrategies
  <2> QED BY <1>1, <2>1
<1>4. inode' \in Seq(Texts) /\ Len(inode') = Len(inode) /\ (name # 0 => inode'[name] = inode[name])
  <2>1. inode \in Seq(Texts) /\ name \in 0 .. Len(inode) BY <1>2 DEF HostsTypes
  <2>2. \/ UNCHANGED inode
        \/ name # 0 /\ bound # name /\ inode' = [inode EXCEPT ![bound] = inode[name]]
    BY <1>1 DEF Hosts!Copy, Hosts!Copies, Hosts!Staged
  <2>3. CASE UNCHANGED inode BY <2>1, <2>3
  <2>4. CASE name # 0 /\ bound # name /\ inode' = [inode EXCEPT ![bound] = inode[name]]
    <3>1. inode \in [1 .. Len(inode) -> Texts] /\ name \in 1 .. Len(inode) BY <2>1, <2>4
    <3>2. inode' \in [1 .. Len(inode) -> Texts] /\ inode'[name] = inode[name] BY <2>4, <3>1
    <3>3. Len(inode) \in Nat BY <2>1
    <3> QED BY <3>2, <3>3
  <2> QED BY <2>2, <2>3, <2>4
<1>5. /\ hostsJob'[j] \in WritingJob /\ hostsJob'[j].of = hostsJob[j].of
      /\ hostsJob'[j].pc = "verify" => hostsJob'[j].at # 5
      /\ \A k \in Jobs : k # j => hostsJob'[k] = hostsJob[k]
      /\ hostsJob' \in [Jobs -> {Hosts!Idle} \cup WritingJob]
  <2>1. CASE hostsJob' = [hostsJob EXCEPT ![j] = Hosts!Following(j)]
    BY <1>2, <2>1, NextWrite DEF HostsTypes
  <2>2. CASE hostsJob' = [hostsJob EXCEPT ![j] = [hostsJob[j] EXCEPT !.pc = "verify"]]
    <3>1. /\ [hostsJob[j] EXCEPT !.pc = "verify"] \in WritingJob
          /\ [hostsJob[j] EXCEPT !.pc = "verify"].of = hostsJob[j].of
          /\ [hostsJob[j] EXCEPT !.pc = "verify"].at = hostsJob[j].at
      BY <1>2 DEF WritingJob
    <3> QED BY <1>2, <1>3, <2>2, <3>1 DEF HostsTypes
  <2> QED BY <1>1, <2>1, <2>2
<1>6. HostsTypes' BY <1>1, <1>2, <1>4, <1>5 DEF HostsTypes
<1> QED BY <1>1, <1>2, <1>4, <1>5, <1>6, HostsGoesOn

LEMMA BindStep ==
  ASSUME HostsInv, NEW j \in Jobs, Hosts!TryBind(j)
  PROVE  HostsInv'
<1>1. /\ hostsJob[j].pc = "try"
      /\ \/ /\ bound' = name
            /\ hostsJob' = [hostsJob EXCEPT ![j] = [hostsJob[j] EXCEPT !.pc = "verify"]]
         \/ hostsJob' = [hostsJob EXCEPT ![j] = Hosts!Following(j)]
      /\ UNCHANGED <<inode, name, hostsSaid, hostsOverlapped>>
  BY DEF Hosts!TryBind, Hosts!At, Hosts!Goes
<1>2. hostsJob[j] \in WritingJob /\ HostsTypes BY <1>1, HostsJobs DEF HostsInv
<1>3. /\ hostsJob'[j] \in WritingJob /\ hostsJob'[j].of = hostsJob[j].of
      /\ hostsJob'[j].pc = "verify" => bound' = name
      /\ \A k \in Jobs : k # j => hostsJob'[k] = hostsJob[k]
      /\ hostsJob' \in [Jobs -> {Hosts!Idle} \cup WritingJob]
  <2>1. CASE hostsJob' = [hostsJob EXCEPT ![j] = Hosts!Following(j)]
    BY <1>2, <2>1, NextWrite DEF HostsTypes
  <2>2. CASE bound' = name /\ hostsJob' = [hostsJob EXCEPT ![j] = [hostsJob[j] EXCEPT !.pc = "verify"]]
    <3>1. /\ [hostsJob[j] EXCEPT !.pc = "verify"] \in WritingJob
          /\ [hostsJob[j] EXCEPT !.pc = "verify"].of = hostsJob[j].of
      BY <1>2 DEF WritingJob
    <3> QED BY <1>2, <2>2, <3>1 DEF HostsTypes
  <2> QED BY <1>1, <2>1, <2>2
<1>4. HostsTypes' BY <1>1, <1>2, <1>3 DEF HostsTypes
<1> QED BY <1>1, <1>2, <1>3, <1>4, HostsGoesOn

\* A call that ends well is alone, so that no other writes what it has said.
LEMMA HostsEnds ==
  ASSUME HostsInv, NEW j \in Jobs, hostsJob[j] \in WritingJob, NEW how, Hosts!Ends(j, how),
         how \in Strategy, UNCHANGED <<inode, bound, hostsOverlapped>>, Hosts!HostsAreShown'
  PROVE  HostsInv'
<1>1. /\ hostsJob' = [hostsJob EXCEPT ![j] = Hosts!Idle] /\ name' \in {0, name}
      /\ hostsSaid' \in Said /\ hostsSaid'.covered = (bound # 0)
  BY DEF Hosts!Ends, Hosts!Goes, Said, WritingJob
<1>2. hostsJob'[j] = Hosts!Idle /\ \A k \in Jobs : k # j => hostsJob'[k] = hostsJob[k]
  BY <1>1 DEF HostsInv, HostsTypes
<1>3. HostsTypes' BY <1>1 DEF HostsInv, HostsTypes
<1>4. ASSUME ~hostsOverlapped PROVE \A k \in Jobs : hostsJob'[k] = Hosts!Idle
  BY <1>2, <1>4, HostsJobs DEF HostsInv, HostsAlone
<1>5. ~hostsOverlapped' => HostsAlone' /\ HostsStaged' /\ HostsBound'
  BY <1>4 DEF HostsAlone, HostsStaged, HostsBound, Hosts!Idle
<1>6. HostsSaid' BY <1>1 DEF HostsSaid
<1> QED BY <1>3, <1>5, <1>6 DEF HostsInv

LEMMA VerifyStep ==
  ASSUME HostsInv, NEW j \in Jobs, Hosts!Verify(j)
  PROVE  HostsInv'
<1>1. hostsJob[j].pc = "verify" /\ UNCHANGED <<hostsPart, inode, bound, hostsOverlapped>>
  BY DEF Hosts!Verify, Hosts!At
<1>2. hostsJob[j] \in WritingJob /\ HostsTypes /\ hostsJob[j].at \in 1 .. 5 BY <1>1, HostsJobs DEF HostsInv
<1> DEFINE how == Hosts!hostsStrategies[hostsJob[j].at]
<1>3. CASE Hosts!Hosts = hostsJob[j].of /\ Hosts!Ends(j, how)
  <2>1. Hosts!Ends(j, how) BY <1>3
  <2>2. how # "magisk-module" /\ (how = "bind-mount" => hostsJob[j].at = 5) /\ how \in Strategy
    BY <1>2 DEF Hosts!hostsStrategies, Strategy
  <2>3. /\ hostsSaid' = [pc |-> "done", of |-> hostsJob[j].of, strategy |-> how, covered |-> bound # 0, up |-> TRUE]
        /\ (how = "bind-mount" => name' = name)
    BY <2>1 DEF Hosts!Ends
  <2> HIDE DEF how
  <2>4. hostsSaid'.of = hostsJob[j].of /\ hostsSaid'.strategy = how BY <2>3
  <2>5. ~hostsOverlapped /\ how = "bind-mount" => bound = name
    BY <1>1, <1>2, <2>2, HostsJobs DEF HostsInv, HostsBound
  <2>6. Hosts!Hosts' = hostsJob[j].of BY <1>1, <1>3 DEF Hosts!Hosts
  <2>7. Hosts!HostsAreShown' BY <1>1, <2>2, <2>3, <2>4, <2>5, <2>6 DEF Hosts!HostsAreShown, Hosts!InModule
  <2> QED BY <1>1, <1>2, <2>1, <2>2, <2>7, HostsEnds
<1>4. CASE Hosts!Goes(j, Hosts!Following(j)) /\ UNCHANGED <<name, hostsSaid>>
  <2>1. hostsJob' = [hostsJob EXCEPT ![j] = Hosts!Following(j)] /\ UNCHANGED <<name, hostsSaid>>
    BY <1>4 DEF Hosts!Goes
  <2>2. /\ hostsJob'[j] \in WritingJob /\ hostsJob'[j].of = hostsJob[j].of /\ hostsJob'[j].pc # "verify"
        /\ \A k \in Jobs : k # j => hostsJob'[k] = hostsJob[k]
    BY <1>2, <2>1, NextWrite DEF HostsTypes
  <2>3. HostsTypes' BY <1>1, <1>2, <2>1, NextWrite DEF HostsTypes
  <2> QED BY <1>1, <1>2, <2>1, <2>2, <2>3, HostsGoesOn
<1> QED BY <1>3, <1>4 DEF Hosts!Verify

LEMMA ModuleStep ==
  ASSUME HostsInv, NEW j \in Jobs, Hosts!hostsMagiskModule(j)
  PROVE  HostsInv'
<1>1. hostsJob[j].pc = "module" /\ UNCHANGED <<hostsPart, inode, bound, hostsOverlapped>>
  BY DEF Hosts!hostsMagiskModule, Hosts!At
<1>2. hostsJob[j] \in WritingJob /\ HostsTypes BY <1>1, HostsJobs DEF HostsInv
<1>3. CASE module' = inode[name] /\ Hosts!Ends(j, "magisk-module")
  <2>1. Hosts!Ends(j, "magisk-module") /\ module' = inode[name] BY <1>3
  <2>2. hostsSaid' = [pc |-> "done", of |-> hostsJob[j].of, strategy |-> "magisk-module", covered |-> bound # 0, up |-> TRUE]
    BY <2>1 DEF Hosts!Ends
  <2>3. hostsSaid'.of = hostsJob[j].of /\ hostsSaid'.strategy = "magisk-module" BY <2>2
  <2>4. ~hostsOverlapped => module' = hostsJob[j].of BY <1>2, <2>1, HostsJobs DEF HostsInv, HostsStaged
  <2>5. Hosts!HostsAreShown' BY <1>1, <2>3, <2>4 DEF Hosts!HostsAreShown, Hosts!InModule
  <2>6. "magisk-module" \in Strategy BY DEF Strategy
  <2> QED BY <1>1, <1>2, <2>1, <2>5, <2>6, HostsEnds
<1>4. CASE Hosts!Goes(j, Hosts!Idle) /\ UNCHANGED <<name, hostsSaid>>
  <2>1. hostsJob' = [hostsJob EXCEPT ![j] = Hosts!Idle] /\ UNCHANGED <<name, hostsSaid>>
    BY <1>4 DEF Hosts!Goes
  <2>2. hostsJob'[j] = Hosts!Idle /\ \A k \in Jobs : k # j => hostsJob'[k] = hostsJob[k]
    BY <1>2, <2>1 DEF HostsTypes
  <2>3. HostsTypes' BY <1>1, <1>2, <2>1 DEF HostsTypes
  <2> QED BY <1>1, <1>2, <2>1, <2>2, <2>3, HostsGoesOn
<1> QED BY <1>3, <1>4 DEF Hosts!hostsMagiskModule

\* A restart unmounts: what was not covered is in the file itself.
LEMMA HostsRestart ==
  ASSUME HostsInv, Hosts!Reboot
  PROVE  HostsInv'
<1>1. /\ UNCHANGED <<hostsPart, inode, name, module, hostsJob, hostsOverlapped>> /\ bound' = 0
      /\ \A j \in Jobs : hostsJob[j] = Hosts!Idle
      /\ hostsSaid' = IF hostsSaid = Hosts!Idle THEN hostsSaid ELSE [hostsSaid EXCEPT !.up = FALSE]
  BY DEF Hosts!Reboot
<1>2. CASE hostsSaid = Hosts!Idle
  BY <1>1, <1>2 DEF HostsInv, HostsTypes, HostsSaid, HostsAlone, HostsStaged, HostsBound, Hosts!HostsAreShown
<1>3. CASE hostsSaid # Hosts!Idle
  <2>1. /\ hostsSaid' \in Said /\ hostsSaid \in Said /\ ~hostsSaid'.up /\ hostsSaid'.of = hostsSaid.of
        /\ hostsSaid'.strategy = hostsSaid.strategy /\ hostsSaid'.covered = hostsSaid.covered
    BY <1>1, <1>3 DEF HostsInv, HostsSaid, Said
  <2>2. HostsSaid' BY <1>1, <2>1 DEF HostsSaid
  <2>3. Hosts!HostsAreShown'
    BY <1>1, <1>3, <2>1 DEF HostsInv, HostsSaid, Hosts!HostsAreShown, Hosts!Hosts, Hosts!InModule, Hosts!Lasts
  <2> QED BY <1>1, <2>2, <2>3 DEF HostsInv, HostsTypes, HostsAlone, HostsStaged, HostsBound
<1> QED BY <1>2, <1>3

\* Of calls that do not overlap, what the last one that ended well wrote is the file that
\* apps read, after a restart too when nothing was mounted on the file; and a stage that
\* is mounted keeps its name (hosts.go).
THEOREM HostsShown == Hosts!Spec => []Hosts!HostsAreShown
<1>1. Hosts!Init => HostsInv
  BY DEF Hosts!Init, HostsInv, HostsTypes, HostsSaid, HostsAlone, HostsStaged, HostsBound, Hosts!HostsAreShown
<1>2. HostsInv /\ [Hosts!Next]_Hosts!vars => HostsInv'
  <2> SUFFICES ASSUME HostsInv, [Hosts!Next]_Hosts!vars PROVE HostsInv' OBVIOUS
  <2>1. CASE UNCHANGED Hosts!vars
    BY <2>1 DEF HostsInv, HostsTypes, HostsSaid, HostsAlone, HostsStaged, HostsBound, Hosts!HostsAreShown,
                Hosts!Hosts, Hosts!InModule, Hosts!Lasts, Hosts!vars, Hosts!files
  <2> QED BY <2>1, HostsRestart, StageStep, CopyStep, BindStep, VerifyStep, ModuleStep DEF Hosts!Next
<1>3. HostsInv => Hosts!HostsAreShown BY DEF HostsInv
<1> QED BY <1>1, <1>2, <1>3, PTL DEF Hosts!Spec

-----------------------------------------------------------------------------
(* Root.                                                                   *)

Forms == {"unknown", "none", "bare", "su"}
\* A call before its scan, or without one, and a call that has taken one.
AskingJob == [pc : {"run", "id", "latch", "scan", "eligible", "restart", "granted", "forms"}, form : Forms,
              late : BOOLEAN]
ScannedJob == [pc : {"run", "keep", "eligible", "restart", "granted", "forms"}, form : Forms, late : BOOLEAN,
               seen : {"shell", "root"}]
RootJob == AskingJob \cup ScannedJob

RootTypes ==
  /\ adbd \in {"shell", "root"} /\ style \in {"unknown", "bare", "su"}
  /\ rootJob \in [Jobs -> {Root!Idle} \cup RootJob]

\* What a call that saw no change of the device is about to keep is true of it.
CallWell(r) ==
  /\ r.pc = "granted" /\ ~r.late => adbd = "root"
  /\ r.pc = "keep" /\ ~r.late => r.seen = adbd
CallsWell == \A j \in Jobs : rootJob[j] # Root!Idle => CallWell(rootJob[j])

\* What is kept of root, and of the scan, is the device's at every moment, and not at
\* rest only, unless it is behind.
KeptWell ==
  /\ "root" \notin behind => /\ style # "unknown" => Root!Works(style)
                             /\ failed => ~su \/ "unheard" \in behind
                             /\ latch = "granted" => adbd = "root"
  /\ "caps" \notin behind => rootCaps \in {"none", adbd}

RootInv == RootTypes /\ CallsWell /\ KeptWell

LEMMA RootJobs ==
  ASSUME RootTypes, NEW j \in Jobs
  PROVE  /\ rootJob[j].pc \in {"id", "latch", "scan"} => rootJob[j] \in AskingJob
         /\ rootJob[j].pc = "keep" => rootJob[j] \in ScannedJob
         /\ rootJob[j].pc \in {"run", "eligible", "restart", "granted", "forms"} => rootJob[j] \in RootJob
         /\ rootJob[j] \in RootJob => /\ rootJob[j] # Root!Idle /\ rootJob[j].late \in BOOLEAN
                                      /\ rootJob[j].form \in Forms
BY DEF RootTypes, RootJob, AskingJob, ScannedJob, Root!Idle

Onwards == {"run", "eligible", "restart", "granted", "forms"}
LEMMA RootMoves ==
  ASSUME NEW r \in RootJob, NEW pc \in Onwards
  PROVE  /\ [r EXCEPT !.pc = pc] \in RootJob /\ [r EXCEPT !.pc = pc].pc = pc
         /\ [r EXCEPT !.pc = pc].late = r.late
<1>1. CASE r \in AskingJob BY <1>1 DEF AskingJob, RootJob, Onwards
<1>2. CASE r \in ScannedJob BY <1>2 DEF ScannedJob, RootJob, Onwards
<1> QED BY <1>1, <1>2 DEF RootJob

LEMMA RootForms ==
  ASSUME NEW r \in RootJob, NEW form \in Forms
  PROVE  /\ [r EXCEPT !.pc = "run", !.form = form] \in RootJob /\ [r EXCEPT !.pc = "run", !.form = form].pc = "run"
<1>1. CASE r \in AskingJob BY <1>1 DEF AskingJob, RootJob
<1>2. CASE r \in ScannedJob BY <1>2 DEF ScannedJob, RootJob
<1> QED BY <1>1, <1>2 DEF RootJob

LEMMA RootLate ==
  ASSUME NEW r \in RootJob
  PROVE  [r EXCEPT !.late = TRUE] \in RootJob /\ [r EXCEPT !.late = TRUE].late = TRUE
<1>1. CASE r \in AskingJob BY <1>1 DEF AskingJob, RootJob
<1>2. CASE r \in ScannedJob BY <1>2 DEF ScannedJob, RootJob
<1> QED BY <1>1, <1>2 DEF RootJob

\* A step of one call, with the device as it was.
LEMMA OneCall ==
  ASSUME RootInv, NEW j \in Jobs, NEW r \in RootJob \cup {Root!Idle}, rootJob' = [rootJob EXCEPT ![j] = r],
         UNCHANGED <<su, adbd>>, style' \in {"unknown", "bare", "su"}, KeptWell',
         r.pc = "granted" => rootJob[j].pc = "granted" /\ r.late = rootJob[j].late,
         r.pc = "keep" => r.seen = adbd
  PROVE  RootInv'
<1>1. RootTypes' BY DEF RootInv, RootTypes
<1>2. ASSUME NEW k \in Jobs, rootJob'[k] # Root!Idle PROVE CallWell(rootJob[k])'
  <2>1. CASE k = j
    <3>1. rootJob'[k] = r BY <2>1 DEF RootInv, RootTypes
    <3>2. r.pc = "granted" /\ ~r.late => adbd = "root"
      <4>1. rootJob[j].pc = "granted" => CallWell(rootJob[j]) BY DEF RootInv, CallsWell, Root!Idle
      <4> QED BY <4>1 DEF CallWell
    <3> QED BY <3>1, <3>2 DEF CallWell
  <2>2. CASE k # j
    <3>1. rootJob'[k] = rootJob[k] BY <2>2 DEF RootInv, RootTypes
    <3> QED BY <1>2, <3>1 DEF RootInv, CallsWell, CallWell
  <2> QED BY <2>1, <2>2
<1> QED BY <1>1, <1>2 DEF RootInv, CallsWell
LEMMA ShellSUStep ==
  ASSUME RootInv, NEW j \in Jobs, Root!ShellSU(j)
  PROVE  RootInv'
<1>1. UNCHANGED <<su, adbd, style, failed, latch, rootCaps, behind>>
  BY DEF Root!ShellSU, Root!device, Root!probe
<1>2. KeptWell' /\ style' \in {"unknown", "bare", "su"} BY <1>1 DEF RootInv, RootTypes, KeptWell, Root!Works
<1>3. CASE UNCHANGED rootJob BY <1>1, <1>2, <1>3 DEF RootInv, RootTypes, CallsWell, CallWell
<1>4. CASE rootJob' = [rootJob EXCEPT ![j] = [pc |-> "run", form |-> style, late |-> FALSE]]
  <2>1. [pc |-> "run", form |-> style, late |-> FALSE] \in RootJob
    BY DEF RootInv, RootTypes, RootJob, AskingJob, Forms
  <2> QED BY <1>1, <1>2, <1>4, <2>1, OneCall
<1>5. CASE rootJob' = [rootJob EXCEPT ![j] = [pc |-> "id", form |-> "unknown", late |-> FALSE]]
  <2>1. [pc |-> "id", form |-> "unknown", late |-> FALSE] \in RootJob BY DEF RootJob, AskingJob, Forms
  <2> QED BY <1>1, <1>2, <1>5, <2>1, OneCall
<1> QED BY <1>3, <1>4, <1>5 DEF Root!ShellSU

\* A form is kept that works now; what was behind stays behind.
LEMMA FormIsKept ==
  ASSUME RootInv, NEW j \in Jobs, NEW form \in {"bare", "su"}, rootJob[j] \in RootJob,
         Root!setSuStyle(j, form), UNCHANGED <<su, adbd, rootCaps>>,
         "root" \notin behind => Root!Works(form)
  PROVE  RootInv'
<1>1. /\ style' = form /\ rootJob' = [rootJob EXCEPT ![j] = [rootJob[j] EXCEPT !.pc = "run", !.form = form]]
      /\ UNCHANGED <<failed, latch>> /\ behind' \in {behind, behind \cup {"root"}}
  BY DEF Root!setSuStyle, Root!Kept, RootInv, RootTypes
<1>2. KeptWell' BY <1>1 DEF RootInv, KeptWell, Root!Works
<1>3. PICK f \in Forms : f = form BY DEF Forms
<1>4. [rootJob[j] EXCEPT !.pc = "run", !.form = form] \in RootJob
      /\ [rootJob[j] EXCEPT !.pc = "run", !.form = form].pc = "run"
  BY <1>3, RootForms
<1> QED BY <1>1, <1>2, <1>4, OneCall

LEMMA AskIDStep ==
  ASSUME RootInv, NEW j \in Jobs, Root!AskID(j)
  PROVE  RootInv'
<1>1. rootJob[j] \in AskingJob /\ rootJob[j] \in RootJob /\ UNCHANGED <<su, adbd, rootCaps>>
  BY RootJobs DEF RootInv, Root!AskID, Root!At, Root!device, RootJob
<1>2. CASE adbd = "root" /\ Root!setSuStyle(j, "bare")
  <2>1. Root!setSuStyle(j, "bare") /\ Root!Works("bare") BY <1>2 DEF Root!Works
  <2> QED BY <1>1, <2>1, FormIsKept
<1>3. CASE ~(adbd = "root" /\ Root!setSuStyle(j, "bare"))
  <2>1. rootJob' = [rootJob EXCEPT ![j] = [rootJob[j] EXCEPT !.pc = "latch"]] /\ UNCHANGED <<style, failed, latch, behind>>
    BY <1>3 DEF Root!AskID, Root!Goes, Root!probe
  <2>2. [rootJob[j] EXCEPT !.pc = "latch"] \in RootJob /\ [rootJob[j] EXCEPT !.pc = "latch"].pc = "latch"
    BY <1>1 DEF RootJob, AskingJob
  <2>3. KeptWell' /\ style' \in {"unknown", "bare", "su"} BY <1>1, <2>1 DEF RootInv, RootTypes, KeptWell, Root!Works
  <2> QED BY <1>1, <2>1, <2>2, <2>3, OneCall
<1> QED BY <1>2, <1>3

LEMMA AskLatchStep ==
  ASSUME RootInv, NEW j \in Jobs, Root!AskLatch(j)
  PROVE  RootInv'
<1>1. rootJob[j] \in AskingJob /\ rootJob[j] \in RootJob /\ UNCHANGED <<su, adbd, rootCaps>>
  BY RootJobs DEF RootInv, Root!AskLatch, Root!At, Root!device, RootJob
<1>2. CASE latch = "granted"
  <2>1. Root!setSuStyle(j, "bare") BY <1>2 DEF Root!AskLatch
  <2>2. "root" \notin behind => Root!Works("bare") BY <1>2 DEF RootInv, KeptWell, Root!Works
  <2> QED BY <1>1, <2>1, <2>2, FormIsKept
<1>3. CASE latch # "granted"
  <2>1. /\ \E pc \in {"forms", "restart", "eligible", "scan"} :
             rootJob' = [rootJob EXCEPT ![j] = [rootJob[j] EXCEPT !.pc = pc]]
        /\ UNCHANGED <<style, failed, latch, behind>>
    BY <1>3 DEF Root!AskLatch, Root!Goes, Root!probe
  <2>2. PICK pc \in {"forms", "restart", "eligible", "scan"} :
          rootJob' = [rootJob EXCEPT ![j] = [rootJob[j] EXCEPT !.pc = pc]]
    BY <2>1
  <2>3. [rootJob[j] EXCEPT !.pc = pc] \in RootJob /\ [rootJob[j] EXCEPT !.pc = pc].pc = pc
    BY <1>1 DEF RootJob, AskingJob
  <2>4. KeptWell' /\ style' \in {"unknown", "bare", "su"} BY <1>1, <2>1 DEF RootInv, RootTypes, KeptWell, Root!Works
  <2> QED BY <1>1, <2>2, <2>3, <2>4, OneCall
<1> QED BY <1>2, <1>3

LEMMA EligibleStep ==
  ASSUME RootInv, NEW j \in Jobs, Root!Eligible(j)
  PROVE  RootInv'
<1>1. rootJob[j] \in RootJob /\ UNCHANGED <<su, adbd, rootCaps, style, failed>>
  BY RootJobs DEF RootInv, Root!Eligible, Root!At, Root!device
<1>2. PICK pc \in {"restart", "forms"} : rootJob' = [rootJob EXCEPT ![j] = [rootJob[j] EXCEPT !.pc = pc]]
  BY DEF Root!Eligible, Root!Goes
<1>0. pc \in Onwards BY DEF Onwards
<1>3. latch' \in {latch, "ineligible"} /\ behind' \in {behind, behind \cup {"root"}} BY DEF Root!Eligible
<1>4. KeptWell' /\ style' \in {"unknown", "bare", "su"} BY <1>1, <1>3 DEF RootInv, RootTypes, KeptWell, Root!Works
<1>5. [rootJob[j] EXCEPT !.pc = pc] \in RootJob /\ [rootJob[j] EXCEPT !.pc = pc].pc = pc
  BY <1>1, <1>0, RootMoves
<1> QED BY <1>1, <1>2, <1>4, <1>5, OneCall

\* adbd comes back as root: every other call under way began before, and the scan too.
LEMMA RestartAdbdStep ==
  ASSUME RootInv, NEW j \in Jobs, Root!RestartAdbd(j)
  PROVE  RootInv'
<1>1. rootJob[j] \in RootJob /\ UNCHANGED <<su, rootCaps, style, failed>>
  BY RootJobs DEF RootInv, Root!RestartAdbd, Root!At
<1>2. PICK answers \in BOOLEAN, root \in BOOLEAN :
        /\ answers => root
        /\ adbd' = IF root THEN "root" ELSE adbd
        /\ rootJob' = [k \in Jobs |-> IF k = j THEN [rootJob[j] EXCEPT !.pc = IF answers THEN "granted" ELSE "forms"]
                                ELSE IF adbd' # adbd /\ rootJob[k] # Root!Idle THEN [rootJob[k] EXCEPT !.late = TRUE]
                                ELSE rootJob[k]]
        /\ latch' = IF answers THEN latch ELSE "refused"
        /\ behind' = behind \cup (IF adbd' # adbd THEN {"caps"} ELSE {})
                             \cup (IF ~answers /\ rootJob[j].late THEN {"root"} ELSE {})
  BY DEF Root!RestartAdbd
<1>3. PICK pc \in {"granted", "forms"} : pc = IF answers THEN "granted" ELSE "forms" OBVIOUS
<1>0. pc \in Onwards BY DEF Onwards
<1>4. [rootJob[j] EXCEPT !.pc = pc] \in RootJob /\ [rootJob[j] EXCEPT !.pc = pc].pc = pc
  BY <1>1, <1>0, RootMoves
<1>5. rootJob'[j] = [rootJob[j] EXCEPT !.pc = pc] BY <1>2, <1>3
<1>6. ASSUME NEW k \in Jobs, k # j
      PROVE  \/ rootJob'[k] = rootJob[k] /\ (rootJob[k] = Root!Idle \/ adbd' = adbd)
             \/ rootJob'[k] \in RootJob /\ rootJob'[k].late = TRUE
  BY <1>2, <1>6, RootLate DEF RootInv, RootTypes
<1>7. RootTypes'
  <2>1. rootJob' \in [Jobs -> {Root!Idle} \cup RootJob]
    <3>1. ASSUME NEW k \in Jobs PROVE rootJob'[k] \in {Root!Idle} \cup RootJob
      BY <1>4, <1>5, <1>6 DEF RootInv, RootTypes
    <3> QED BY <1>2, <3>1
  <2> QED BY <1>1, <1>2, <2>1 DEF RootInv, RootTypes
<1>8. ASSUME NEW k \in Jobs, rootJob'[k] # Root!Idle PROVE CallWell(rootJob[k])'
  <2>1. CASE k = j BY <1>2, <1>3, <1>4, <1>5, <2>1 DEF CallWell
  <2>2. CASE k # j
    <3>1. CASE rootJob'[k] = rootJob[k] /\ adbd' = adbd BY <1>8, <3>1 DEF RootInv, CallsWell, CallWell
    <3>2. CASE rootJob'[k] \in RootJob /\ rootJob'[k].late = TRUE BY <3>2 DEF CallWell
    <3> QED BY <1>6, <1>8, <2>2, <3>1, <3>2
  <2> QED BY <2>1, <2>2
<1>9. KeptWell' BY <1>1, <1>2 DEF RootInv, RootTypes, KeptWell, Root!Works
<1> QED BY <1>7, <1>8, <1>9 DEF RootInv, CallsWell
LEMMA GrantedStep ==
  ASSUME RootInv, NEW j \in Jobs, Root!Granted(j)
  PROVE  RootInv'
<1>1. rootJob[j] \in RootJob /\ rootJob[j].pc = "granted" /\ UNCHANGED <<su, adbd, failed>>
  BY RootJobs DEF RootInv, Root!Granted, Root!At, Root!device
<1>2. rootJob' = [rootJob EXCEPT ![j] = [rootJob[j] EXCEPT !.pc = "run", !.form = "bare"]]
  BY DEF Root!Granted, RootInv, RootTypes
<1>3. [rootJob[j] EXCEPT !.pc = "run", !.form = "bare"] \in RootJob
      /\ [rootJob[j] EXCEPT !.pc = "run", !.form = "bare"].pc = "run"
  BY <1>1, RootForms DEF Forms
<1>4. ~rootJob[j].late => adbd = "root" BY <1>1, RootJobs DEF RootInv, CallsWell, CallWell
<1>5. /\ rootCaps' = "none" /\ latch' = "granted" /\ style' = "bare"
      /\ "root" \notin behind' => "root" \notin behind /\ ~rootJob[j].late
      /\ "unheard" \in behind => "unheard" \in behind'
  BY DEF Root!Granted
<1>6. KeptWell' BY <1>1, <1>4, <1>5 DEF RootInv, KeptWell, Root!Works
<1> QED BY <1>1, <1>2, <1>3, <1>5, <1>6, OneCall

LEMMA TryFormsStep ==
  ASSUME RootInv, NEW j \in Jobs, Root!TryForms(j)
  PROVE  RootInv'
<1>1. rootJob[j] \in RootJob /\ UNCHANGED <<su, adbd, rootCaps>>
  BY RootJobs DEF RootInv, Root!TryForms, Root!At, Root!device
<1>2. CASE su /\ Root!setSuStyle(j, "su")
  <2>1. Root!Works("su") BY <1>2 DEF Root!Works
  <2> QED BY <1>1, <1>2, <2>1, FormIsKept
<1>3. CASE ~(su /\ Root!setSuStyle(j, "su"))
  <2>1. /\ rootJob' = [rootJob EXCEPT ![j] = Root!Idle] /\ failed' = TRUE /\ UNCHANGED <<style, latch>>
        /\ behind \subseteq behind' /\ ("caps" \in behind' => "caps" \in behind)
        /\ su => "unheard" \in behind'
    BY <1>3 DEF Root!TryForms, Root!Ends
  <2>2. KeptWell' /\ style' \in {"unknown", "bare", "su"}
    BY <1>1, <2>1 DEF RootInv, RootTypes, KeptWell, Root!Works
  <2> QED BY <1>1, <2>1, <2>2, OneCall DEF Root!Idle
<1> QED BY <1>2, <1>3

LEMMA RunStep ==
  ASSUME RootInv, NEW j \in Jobs, Root!RunCommand(j)
  PROVE  RootInv'
<1>1. /\ rootJob' = [rootJob EXCEPT ![j] = Root!Idle] /\ UNCHANGED <<su, adbd, rootCaps>>
      /\ \/ UNCHANGED <<style, failed, latch, behind>>
         \/ /\ style' = "unknown" /\ failed' = FALSE /\ latch' = "untried"
            /\ behind' = behind \ {"root", "unheard"}
  BY DEF Root!RunCommand, Root!Ends, Root!device, Root!probe, Root!ForgetRootProbe
<1>2. KeptWell' /\ style' \in {"unknown", "bare", "su"}
  BY <1>1 DEF RootInv, RootTypes, KeptWell, Root!Works
<1> QED BY <1>1, <1>2, OneCall DEF Root!Idle

LEMMA CapabilitiesStep ==
  ASSUME RootInv, NEW j \in Jobs, Root!Capabilities(j)
  PROVE  RootInv'
<1>1. /\ rootJob' = [rootJob EXCEPT ![j] = [pc |-> "scan", form |-> "none", late |-> FALSE]]
      /\ UNCHANGED <<su, adbd, style, failed, latch, rootCaps, behind>>
  BY DEF Root!Capabilities, Root!device, Root!probe
<1>2. [pc |-> "scan", form |-> "none", late |-> FALSE] \in RootJob BY DEF RootJob, AskingJob, Forms
<1>3. KeptWell' /\ style' \in {"unknown", "bare", "su"} BY <1>1 DEF RootInv, RootTypes, KeptWell, Root!Works
<1> QED BY <1>1, <1>2, <1>3, OneCall

LEMMA ScanStep ==
  ASSUME RootInv, NEW j \in Jobs, Root!Scan(j)
  PROVE  RootInv'
<1> DEFINE r == [pc |-> "keep", form |-> rootJob[j].form, late |-> rootJob[j].late, seen |-> adbd]
<1>1. /\ rootJob' = [rootJob EXCEPT ![j] = r] /\ rootJob[j] \in AskingJob /\ adbd \in {"shell", "root"}
      /\ UNCHANGED <<su, adbd, style, failed, latch, rootCaps, behind>>
  BY RootJobs DEF RootInv, RootTypes, Root!Scan, Root!At, Root!device, Root!probe
<1>2. r \in RootJob /\ r.pc = "keep" /\ r.seen = adbd BY <1>1 DEF RootJob, ScannedJob, AskingJob
<1>3. KeptWell' /\ style' \in {"unknown", "bare", "su"} BY <1>1 DEF RootInv, RootTypes, KeptWell, Root!Works
<1> HIDE DEF r
<1> QED BY <1>1, <1>2, <1>3, OneCall

LEMMA ScanFailsStep ==
  ASSUME RootInv, NEW j \in Jobs, Root!ScanFails(j)
  PROVE  RootInv'
<1>1. /\ rootJob[j] \in RootJob /\ UNCHANGED <<su, adbd, style, failed, rootCaps, behind>>
      /\ latch' \in {latch, "ineligible"}
  BY RootJobs DEF RootInv, RootTypes, Root!ScanFails, Root!At, Root!device, RootJob
<1>2. KeptWell' /\ style' \in {"unknown", "bare", "su"}
  BY <1>1 DEF RootInv, RootTypes, KeptWell, Root!Works
<1>3. \/ rootJob' = [rootJob EXCEPT ![j] = Root!Idle]
      \/ rootJob' = [rootJob EXCEPT ![j] = [rootJob[j] EXCEPT !.pc = "forms"]]
  BY DEF Root!ScanFails, Root!Ends, Root!Goes
<1>4. CASE rootJob' = [rootJob EXCEPT ![j] = Root!Idle] BY <1>1, <1>2, <1>4, OneCall DEF Root!Idle
<1>5. CASE rootJob' = [rootJob EXCEPT ![j] = [rootJob[j] EXCEPT !.pc = "forms"]]
  <2>0. "forms" \in Onwards BY DEF Onwards
  <2>1. [rootJob[j] EXCEPT !.pc = "forms"] \in RootJob /\ [rootJob[j] EXCEPT !.pc = "forms"].pc = "forms"
    BY <1>1, <2>0, RootMoves
  <2> QED BY <1>1, <1>2, <1>5, <2>1, OneCall
<1> QED BY <1>3, <1>4, <1>5

LEMMA KeepScanStep ==
  ASSUME RootInv, NEW j \in Jobs, Root!KeepScan(j)
  PROVE  RootInv'
<1>1. /\ rootJob[j] \in RootJob /\ rootJob[j] \in ScannedJob /\ rootJob[j].pc = "keep"
      /\ UNCHANGED <<su, adbd, style, failed, latch>>
  BY RootJobs DEF RootInv, Root!KeepScan, Root!At, Root!device, Root!probe, RootJob
<1>2. ~rootJob[j].late => rootJob[j].seen = adbd BY <1>1, RootJobs DEF RootInv, CallsWell, CallWell
<1>3. rootCaps' = rootJob[j].seen /\ behind' = IF rootJob[j].late THEN behind \cup {"caps"} ELSE behind
  BY DEF Root!KeepScan
<1>4. KeptWell' /\ style' \in {"unknown", "bare", "su"}
  BY <1>1, <1>2, <1>3 DEF RootInv, RootTypes, KeptWell, Root!Works
<1>5. \/ rootJob' = [rootJob EXCEPT ![j] = Root!Idle]
      \/ rootJob' = [rootJob EXCEPT ![j] = [rootJob[j] EXCEPT !.pc = "eligible"]]
  BY DEF Root!KeepScan, Root!Ends, Root!Goes
<1>6. CASE rootJob' = [rootJob EXCEPT ![j] = Root!Idle] BY <1>1, <1>4, <1>6, OneCall DEF Root!Idle
<1>7. CASE rootJob' = [rootJob EXCEPT ![j] = [rootJob[j] EXCEPT !.pc = "eligible"]]
  <2>0. "eligible" \in Onwards BY DEF Onwards
  <2>1. [rootJob[j] EXCEPT !.pc = "eligible"] \in RootJob /\ [rootJob[j] EXCEPT !.pc = "eligible"].pc = "eligible"
    BY <1>1, <2>0, RootMoves
  <2> QED BY <1>1, <1>4, <1>7, <2>1, OneCall
<1> QED BY <1>5, <1>6, <1>7

\* The device changes: what is kept of it, and every call under way, is behind.
LEMMA DeviceChanges ==
  ASSUME RootInv, Root!Grant \/ Root!Restart
  PROVE  RootInv'
<1>1. /\ rootJob' = [k \in Jobs |-> IF rootJob[k] = Root!Idle THEN Root!Idle ELSE [rootJob[k] EXCEPT !.late = TRUE]]
      /\ UNCHANGED <<style, failed, latch, rootCaps>> /\ "root" \in behind'
      /\ \/ UNCHANGED adbd /\ behind \subseteq behind'
         \/ adbd' = "shell" /\ "caps" \in behind'
  BY DEF Root!Grant, Root!Restart, Root!Late, Root!probe
<1>2. ASSUME NEW k \in Jobs
      PROVE  \/ rootJob'[k] = Root!Idle
             \/ rootJob'[k] \in RootJob /\ rootJob'[k].late = TRUE
  BY <1>1, RootLate DEF RootInv, RootTypes
<1>3. RootTypes' BY <1>1, <1>2 DEF RootInv, RootTypes
<1>4. CallsWell' BY <1>2 DEF CallsWell, CallWell
<1>5. KeptWell' BY <1>1 DEF RootInv, KeptWell
<1> QED BY <1>3, <1>4, <1>5 DEF RootInv

LEMMA RootStep ==
  ASSUME RootInv, [Root!Next]_Root!vars
  PROVE  RootInv'
<1>1. CASE Root!Expire
  BY <1>1 DEF RootInv, RootTypes, CallsWell, CallWell, KeptWell, Root!Works, Root!Expire, Root!device
<1>2. CASE Root!ForgetDevice
  BY <1>2 DEF RootInv, RootTypes, CallsWell, CallWell, KeptWell, Root!Works, Root!ForgetDevice,
              Root!ForgetRootProbe, Root!device
<1>3. CASE UNCHANGED Root!vars
  BY <1>3 DEF RootInv, RootTypes, CallsWell, CallWell, KeptWell, Root!Works, Root!vars, Root!device, Root!probe
<1> QED BY <1>1, <1>2, <1>3, ShellSUStep, AskIDStep, AskLatchStep, EligibleStep, RestartAdbdStep, GrantedStep,
           TryFormsStep, RunStep, CapabilitiesStep, ScanStep, ScanFailsStep, KeepScanStep, DeviceChanges DEF Root!Next

\* What is kept of root and of the scan is the device's, unless the device changed and no
\* command was refused since, or a call from before the change kept it; and a failure that
\* is kept is a refusal, unless the device did not answer (adb.go, capabilities.go).
THEOREM RootKnown == Root!Spec => []Root!RootIsKnown
<1>1. Root!Init => RootInv
  BY DEF Root!Init, RootInv, RootTypes, CallsWell, KeptWell
<1>2. RootInv /\ [Root!Next]_Root!vars => RootInv' BY RootStep
<1>3. RootInv => Root!RootIsKnown BY DEF RootInv, KeptWell, Root!RootIsKnown
<1> QED BY <1>1, <1>2, <1>3, PTL DEF Root!Spec

-----------------------------------------------------------------------------
(* The whole: one component moves at a time.                               *)

LEMMA CapturesRun == AllSpec => Capture!Spec
<1>1. AllInit => Capture!Init BY DEF AllInit
<1>2. [AllNext]_all => [Capture!Next]_Capture!vars BY DEF AllNext, all, CaptureVars, Capture!vars
<1> QED BY <1>1, <1>2, PTL DEF AllSpec, Capture!Spec

LEMMA ProfilesRun == AllSpec => Profile!Spec
<1>1. AllInit => Profile!Init BY DEF AllInit
<1>2. [AllNext]_all => [Profile!Next]_Profile!vars BY DEF AllNext, all, ProfileVars, Profile!vars
<1> QED BY <1>1, <1>2, PTL DEF AllSpec, Profile!Spec

LEMMA DumpsRun == AllSpec => Dump!Spec
<1>1. AllInit => Dump!Init BY DEF AllInit
<1>2. [AllNext]_all => [Dump!Next]_Dump!vars BY DEF AllNext, all, DumpVars, Dump!vars
<1> QED BY <1>1, <1>2, PTL DEF AllSpec, Dump!Spec

LEMMA CertsRun == AllSpec => Cert!Spec
<1>1. AllInit => Cert!Init BY DEF AllInit
<1>2. [AllNext]_all => [Cert!Next]_Cert!vars BY DEF AllNext, all, CertVars, Cert!vars, Cert!device
<1> QED BY <1>1, <1>2, PTL DEF AllSpec, Cert!Spec

LEMMA HostsRun == AllSpec => Hosts!Spec
<1>1. AllInit => Hosts!Init BY DEF AllInit
<1>2. [AllNext]_all => [Hosts!Next]_Hosts!vars BY DEF AllNext, all, HostsVars, Hosts!vars, Hosts!device, Hosts!files
<1> QED BY <1>1, <1>2, PTL DEF AllSpec, Hosts!Spec

LEMMA RootRuns == AllSpec => Root!Spec
<1>1. AllInit => Root!Init BY DEF AllInit
<1>2. [AllNext]_all => [Root!Next]_Root!vars BY DEF AllNext, all, RootVars, Root!vars, Root!device, Root!probe
<1> QED BY <1>1, <1>2, PTL DEF AllSpec, Root!Spec

\* A profile that was saved is there after any crash (profiles.go), in the run of all.
THEOREM ProfilesKept == AllSpec => []NothingLost
<1>1. Profile!NothingLost => NothingLost BY DEF NothingLost
<1> QED BY <1>1, ProfilesRun, Kept, PTL

\* What runs on a device, what was put on it and what is kept of its root is what the
\* device holds, in the run of all.
THEOREM DeviceKnown == AllSpec => []DeviceIsKnown
<1>1. /\ Capture!CaptureIsKnown /\ Capture!RecordingIsReachable /\ Dump!PushedIsVerified /\ Dump!ProbeIsTrue
      /\ Cert!CertIsTrusted /\ Hosts!HostsAreShown /\ Root!RootIsKnown
      => DeviceIsKnown
  BY DEF DeviceIsKnown
<1> QED BY <1>1, CapturesRun, CaptureKnown, RecordingReachable, DumpsRun, DumpIsTrue, CertsRun, CertTrusted,
           HostsRun, HostsShown, RootRuns, RootKnown, PTL
=============================================================================
