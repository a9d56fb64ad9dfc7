--------------------------- MODULE IptablesProofs ---------------------------
(***************************************************************************)
(* Every behaviour of Iptables is one of UndoLog, for any families,        *)
(* rulesets, depth and number of calls.  The refinement needs to know that *)
(* as long as no gap was noted a call of the watched family that is under  *)
(* way is alone (AloneInv), so that its steps are those of the one hand of *)
(* the abstract log, and that nobody has overwritten what it staged        *)
(* (StagedInv).                                                            *)
(***************************************************************************)
EXTENDS Iptables, TLAPS, SequenceTheorems

\* What is asked of the constants.
Constants ==
  /\ Watched \in Families /\ Drops \subseteq Rulesets
  /\ Depth \in Nat /\ MaxTogether \in Nat

Ops == {"change", "policy", "import", "undo"}
Record == [op : Ops \cup {"none"}, fam : Families \cup {"none"}, to : Rulesets \cup {"none"},
           at : {"begin", "run", "staged", "done", "over"}, blob : Rulesets \cup {"none"}, auto : BOOLEAN]

\* A call that is under way has a family, something to change to or, once it was
\* popped, something to restore; only restores are staged.
CallOK(c) ==
  c.at # "over" =>
    /\ c.op \in Ops /\ c.fam \in Families
    /\ c.op # "undo" => c.to \in Rulesets
    /\ c.op = "undo" /\ c.at \in {"run", "staged"} => c.blob \in Rulesets
    /\ c.at = "staged" => c.op \in {"undo", "import"}

TypeInv ==
  /\ rules \in [Families -> Rulesets]
  /\ ring \in [Families -> Seq(Rulesets)] /\ \A f \in Families : Len(ring[f]) <= Depth
  /\ staged \in [Files -> Rulesets \cup {"none"}]
  /\ calls \in [Ids -> Record] /\ \A i \in Ids : CallOK(calls[i])
  /\ timer \in Families \cup {"off"}
  /\ gap \in [Families -> BOOLEAN]

\* Until a gap is noted, a call of the watched family is the only one under way, ...
AloneInv == ~gap[Watched] => \A i, j \in Open : Of(i) = Watched => j = i

\* ... and what it staged is still what it will restore.
StagedInv ==
  ~gap[Watched] => \A i \in Open : Of(i) = Watched /\ calls[i].at = "staged" => staged[FileOf(i)] = Blob(i)

IInv == TypeInv /\ AloneInv /\ StagedInv

-----------------------------------------------------------------------------
\* Dropping the oldest keeps a ring a sequence of rulesets, and short enough.
LEMMA NewestIsShort ==
  ASSUME Constants, NEW s \in Seq(Rulesets), NEW r \in Rulesets, Len(s) <= Depth
  PROVE  Newest(Append(s, r)) \in Seq(Rulesets) /\ Len(Newest(Append(s, r))) <= Depth
<1>1. Append(s, r) \in Seq(Rulesets) /\ Len(Append(s, r)) = Len(s) + 1
  OBVIOUS
<1>2. CASE Len(Append(s, r)) > Depth
  <2>1. Append(s, r) # <<>>
    BY <1>1
  <2>2. Tail(Append(s, r)) \in Seq(Rulesets) /\ Len(Tail(Append(s, r))) = Len(s)
    BY <1>1, <2>1
  <2> QED BY <1>2, <2>2 DEF Newest, Constants
<1>3. CASE ~(Len(Append(s, r)) > Depth)
  BY <1>1, <1>3 DEF Newest, Constants
<1> QED BY <1>2, <1>3

\* What is left of a ring after its last ruleset was taken.
LEMMA ButLastIsRing ==
  ASSUME NEW s \in Seq(Rulesets), s # <<>>, Constants, Len(s) <= Depth
  PROVE  /\ s[Len(s)] \in Rulesets
         /\ SubSeq(s, 1, Len(s) - 1) \in Seq(Rulesets) /\ Len(SubSeq(s, 1, Len(s) - 1)) <= Depth
<1>1. Len(s) \in Nat \ {0}
  BY EmptySeq
<1>2. s[Len(s)] \in Rulesets
  BY <1>1
<1>3. \A k \in 1 .. Len(s) - 1 : s[k] \in Rulesets
  BY <1>1
<1>4. SubSeq(s, 1, Len(s) - 1) \in Seq(Rulesets) /\ Len(SubSeq(s, 1, Len(s) - 1)) = Len(s) - 1
  <2> DEFINE n == Len(s) - 1
  <2>1. n \in Nat /\ \A k \in 1 .. n : s[k] \in Rulesets
    BY <1>1, <1>3
  <2> HIDE DEF n
  <2>2. SubSeq(s, 1, n) \in Seq(Rulesets) /\ Len(SubSeq(s, 1, n)) = IF 1 <= n THEN n - 1 + 1 ELSE 0
    BY <2>1, SubSeqProperties
  <2>3. Len(SubSeq(s, 1, n)) = n
    BY <2>1, <2>2
  <2> QED BY <2>2, <2>3 DEF n
<1> QED BY <1>1, <1>2, <1>4 DEF Constants

\* The initial state.
LEMMA InitInv == ASSUME Constants PROVE Init => IInv
<1> SUFFICES ASSUME Init PROVE IInv
  OBVIOUS
<1>1. TypeInv
  BY DEF Init, TypeInv, Constants, Record, CallOK, NoCall, Ops, Files
<1>2. Open = {}
  BY DEF Init, Open, NoCall
<1> QED BY <1>1, <1>2 DEF IInv, AloneInv, StagedInv

-----------------------------------------------------------------------------
\* A new call.
NewCall(op, f, to, auto) ==
  [op |-> op, fam |-> f, to |-> to, at |-> "begin", blob |-> "none", auto |-> auto]

\* A call that enters takes an idle slot, and nothing else of the calls changes.
LEMMA EnterTakes ==
  ASSUME TypeInv, NEW op, NEW f, NEW to, NEW auto, Enter(op, f, to, auto)
  PROVE  \E i \in Ids : /\ calls[i] = NoCall /\ i \notin Open
                        /\ calls' = [calls EXCEPT ![i] = NewCall(op, f, to, auto)]
                        /\ Open' = Open \cup {i}
<1>1. PICK i \in Ids : calls[i] = NoCall /\ calls' = [calls EXCEPT ![i] = NewCall(op, f, to, auto)]
  BY DEF Enter, NewCall
<1>2. i \notin Open
  BY <1>1 DEF Open, NoCall
<1>3. Open' = Open \cup {i}
  BY <1>1 DEF Open, NewCall, TypeInv
<1> QED BY <1>1, <1>2, <1>3

\* Entering keeps the types of the calls and of the gaps.
LEMMA EnterTypes ==
  ASSUME TypeInv, NEW op \in Ops, NEW f \in Families, NEW to \in Rulesets \cup {"none"}, NEW auto \in BOOLEAN,
         op # "undo" => to \in Rulesets, Enter(op, f, to, auto)
  PROVE  /\ calls' \in [Ids -> Record] /\ \A i \in Ids : CallOK(calls'[i])
         /\ gap' \in [Families -> BOOLEAN]
<1>1. PICK i \in Ids : calls' = [calls EXCEPT ![i] = NewCall(op, f, to, auto)]
  BY EnterTakes
<1>2. NewCall(op, f, to, auto) \in Record /\ CallOK(NewCall(op, f, to, auto))
  BY DEF NewCall, Record, CallOK, Ops
<1>3. calls' \in [Ids -> Record] /\ \A j \in Ids : CallOK(calls'[j])
  BY <1>1, <1>2 DEF TypeInv
<1>4. gap' \in [Families -> BOOLEAN]
  BY DEF Enter, TypeInv
<1> QED BY <1>3, <1>4

\* A call that goes on keeps them when its next step is one it may come to, ...
LEMMA GoTypes ==
  ASSUME TypeInv, NEW i \in Open, NEW at \in {"run", "staged", "done"}, Go(i, at),
         calls[i].op = "undo" => at = "staged" /\ calls[i].at = "run",
         at = "staged" => calls[i].op \in {"undo", "import"}
  PROVE  calls' \in [Ids -> Record] /\ \A j \in Ids : CallOK(calls'[j])
<1> DEFINE c == [calls[i] EXCEPT !.at = at]
<1>1. i \in Ids /\ calls[i] \in Record /\ CallOK(calls[i]) /\ calls[i].at # "over"
  BY DEF Open, TypeInv
<1>2. c \in Record /\ CallOK(c)
  BY <1>1 DEF Record, CallOK
<1>3. calls' = [calls EXCEPT ![i] = c]
  BY <1>1 DEF Go, TypeInv
<1> HIDE DEF c
<1> QED BY <1>1, <1>2, <1>3 DEF TypeInv

\* ... and one that ends leaves an idle slot.
LEMMA EndTypes ==
  ASSUME TypeInv, NEW i \in Ids, End(i)
  PROVE  calls' \in [Ids -> Record] /\ \A j \in Ids : CallOK(calls'[j])
<1>1. NoCall \in Record /\ CallOK(NoCall)
  BY DEF NoCall, Record, CallOK
<1> HIDE DEF NoCall
<1> QED BY <1>1 DEF End, TypeInv

\* Every step keeps the types.
LEMMA NextTypes == ASSUME Constants, TypeInv, [Next]_vars PROVE TypeInv'
<1> USE DEF TypeInv
<1>1. CASE Mutate
  <2>1. PICK f \in Families, to \in Rulesets, op \in {"change", "policy", "import"} : Enter(op, f, to, FALSE)
    BY <1>1 DEF Mutate
  <2>2. calls' \in [Ids -> Record] /\ (\A i \in Ids : CallOK(calls'[i])) /\ gap' \in [Families -> BOOLEAN]
    BY <2>1, EnterTypes DEF Ops
  <2> QED BY <1>1, <2>2 DEF Mutate
<1>2. CASE UndoIptables
  <2>1. PICK f \in Families : Enter("undo", f, "none", FALSE)
    BY <1>2 DEF UndoIptables, Undo
  <2>2. calls' \in [Ids -> Record] /\ (\A i \in Ids : CallOK(calls'[i])) /\ gap' \in [Families -> BOOLEAN]
    BY <2>1, EnterTypes DEF Ops
  <2> QED BY <1>2, <2>2 DEF UndoIptables
<1>3. CASE TimerFires
  <2>1. timer \in Families /\ Enter("undo", timer, "none", TRUE)
    BY <1>3 DEF TimerFires, Undo
  <2>2. calls' \in [Ids -> Record] /\ (\A i \in Ids : CallOK(calls'[i])) /\ gap' \in [Families -> BOOLEAN]
    BY <2>1, EnterTypes DEF Ops
  <2> QED BY <1>3, <2>2 DEF TimerFires
<1>4. CASE SnapshotForUndo
  <2>1. PICK i \in Open :
          /\ calls[i].at = "begin" /\ calls[i].op # "undo"
          /\ \/ ring' = [ring EXCEPT ![Of(i)] = Newest(Append(@, rules[Of(i)]))] /\ UNCHANGED gap
             \/ gap' = [gap EXCEPT ![Of(i)] = TRUE] /\ UNCHANGED ring
          /\ Go(i, "run") /\ UNCHANGED <<rules, staged, timer>>
    BY <1>4 DEF SnapshotForUndo
  <2>2. i \in Ids /\ Of(i) \in Families
    BY <2>1 DEF Open, Of, CallOK
  <2>3. calls' \in [Ids -> Record] /\ \A j \in Ids : CallOK(calls'[j])
    BY <2>1, <2>2, GoTypes
  <2>4. ring' \in [Families -> Seq(Rulesets)] /\ \A f \in Families : Len(ring'[f]) <= Depth
    <3> DEFINE r == Newest(Append(ring[Of(i)], rules[Of(i)]))
    <3>1. r \in Seq(Rulesets) /\ Len(r) <= Depth
      BY <2>2, NewestIsShort
    <3>2. ring' = [ring EXCEPT ![Of(i)] = r] \/ ring' = ring
      BY <2>1
    <3> HIDE DEF r
    <3> QED BY <2>2, <3>1, <3>2
  <2> QED BY <2>1, <2>2, <2>3, <2>4
<1>5. CASE RunChange
  <2>1. PICK i \in Open :
          /\ calls[i].at = "run" /\ calls[i].op \in {"change", "policy"}
          /\ rules' = [rules EXCEPT ![Of(i)] = calls[i].to] \/ rules' = rules
          /\ Go(i, "done") \/ End(i)
          /\ UNCHANGED <<ring, staged, timer, gap>>
    BY <1>5 DEF RunChange
  <2>2. i \in Ids /\ Of(i) \in Families /\ calls[i].to \in Rulesets
    BY <2>1 DEF Open, Of, CallOK
  <2>3. calls' \in [Ids -> Record] /\ \A j \in Ids : CallOK(calls'[j])
    BY <2>1, <2>2, GoTypes, EndTypes
  <2> QED BY <2>1, <2>2, <2>3
<1>6. CASE PopUndo
  <2>1. PICK i \in Open :
          /\ calls[i].op = "undo" /\ calls[i].at = "begin"
          /\ IF ring[Of(i)] = <<>> THEN End(i) /\ UNCHANGED ring
             ELSE /\ calls' = [calls EXCEPT ![i].at = "run", ![i].blob = ring[Of(i)][Len(ring[Of(i)])]]
                  /\ ring' = [ring EXCEPT ![Of(i)] = SubSeq(ring[Of(i)], 1, Len(ring[Of(i)]) - 1)]
          /\ UNCHANGED <<rules, staged, timer, gap>>
    BY <1>6 DEF PopUndo
  <2>2. i \in Ids /\ Of(i) \in Families
    BY <2>1 DEF Open, Of, CallOK
  <2>3. CASE ring[Of(i)] = <<>>
    <3>1. calls' \in [Ids -> Record] /\ \A j \in Ids : CallOK(calls'[j])
      BY <2>1, <2>2, <2>3, EndTypes
    <3> QED BY <2>1, <2>3, <3>1
  <2>4. CASE ring[Of(i)] # <<>>
    <3> DEFINE r == ring[Of(i)]
    <3>1. r[Len(r)] \in Rulesets /\ SubSeq(r, 1, Len(r) - 1) \in Seq(Rulesets) /\ Len(SubSeq(r, 1, Len(r) - 1)) <= Depth
      BY <2>2, <2>4, ButLastIsRing
    <3> DEFINE b == r[Len(r)]
               rest == SubSeq(r, 1, Len(r) - 1)
               c == [calls[i] EXCEPT !.at = "run", !.blob = b]
    <3>2. calls' = [calls EXCEPT ![i] = c] /\ ring' = [ring EXCEPT ![Of(i)] = rest]
      BY <2>1, <2>2, <2>4
    <3>3. c \in Record /\ CallOK(c)
      BY <2>1, <2>2, <3>1, ZenonT(40) DEF Record, CallOK, Ops
    <3> HIDE DEF b, rest, c
    <3>4. calls' \in [Ids -> Record] /\ \A j \in Ids : CallOK(calls'[j])
      BY <3>2, <3>3
    <3>5. ring' \in [Families -> Seq(Rulesets)] /\ \A f \in Families : Len(ring'[f]) <= Depth
      BY <2>2, <3>1, <3>2 DEF rest
    <3> QED BY <2>1, <3>4, <3>5
  <2> QED BY <2>3, <2>4
<1>7. CASE PushBlob
  <2>1. PICK i \in Open :
          /\ calls[i].op \in {"undo", "import"} /\ calls[i].at = "run"
          /\ \/ staged' = [staged EXCEPT ![FileOf(i)] = Blob(i)] /\ Go(i, "staged")
             \/ End(i) /\ UNCHANGED staged
          /\ UNCHANGED <<rules, ring, timer, gap>>
    BY <1>7 DEF PushBlob
  <2>2. i \in Ids /\ Blob(i) \in Rulesets /\ FileOf(i) \in Files
    BY <2>1 DEF Open, CallOK, Blob, FileOf, Files
  <2>3. calls' \in [Ids -> Record] /\ \A j \in Ids : CallOK(calls'[j])
    BY <2>1, <2>2, GoTypes, EndTypes
  <2> QED BY <2>1, <2>2, <2>3
<1>8. CASE Restore
  <2>1. PICK i \in Open :
          /\ calls[i].at = "staged"
          /\ \/ /\ staged[FileOf(i)] # "none"
                /\ rules' = [rules EXCEPT ![Of(i)] = staged[FileOf(i)]]
                /\ staged' = [staged EXCEPT ![FileOf(i)] = "none"]
             \/ UNCHANGED <<rules, staged>>
          /\ End(i) /\ UNCHANGED <<ring, timer, gap>>
    BY <1>8 DEF Restore
  <2>2. i \in Ids /\ FileOf(i) \in Files
    BY <2>1 DEF Open, FileOf, Files
  <2>3. calls' \in [Ids -> Record] /\ \A j \in Ids : CallOK(calls'[j])
    BY <2>1, <2>2, EndTypes
  <2> QED BY <2>1, <2>2, <2>3
<1>9. CASE ArmTimer
  <2>1. PICK i \in Ids : calls[i].at = "done" /\ End(i) /\ timer' = Of(i) /\ UNCHANGED <<rules, ring, staged, gap>>
    BY <1>9 DEF ArmTimer
  <2>2. Of(i) \in Families
    BY <2>1 DEF Of, CallOK
  <2>3. calls' \in [Ids -> Record] /\ \A j \in Ids : CallOK(calls'[j])
    BY <2>1, EndTypes
  <2> QED BY <2>1, <2>2, <2>3
<1>10. CASE CancelSafety
  BY <1>10 DEF CancelSafety
<1>11. CASE Reconnect
  BY <1>11 DEF Reconnect
<1>12. CASE UNCHANGED vars
  BY <1>12 DEF vars
<1> QED BY <1>1, <1>2, <1>3, <1>4, <1>5, <1>6, <1>7, <1>8, <1>9, <1>10, <1>11, <1>12 DEF Next

-----------------------------------------------------------------------------
\* A gap stays.
LEMMA GapStays == ASSUME Constants, TypeInv, [Next]_vars PROVE gap[Watched] => gap'[Watched]
<1> USE DEF Constants, TypeInv
<1>1. ASSUME NEW op, NEW f, NEW to, NEW auto, Enter(op, f, to, auto) PROVE gap[Watched] => gap'[Watched]
  BY <1>1 DEF Enter
<1>2. CASE Mutate \/ UndoIptables \/ TimerFires
  BY <1>1, <1>2 DEF Mutate, UndoIptables, TimerFires, Undo
<1>3. CASE SnapshotForUndo
  BY <1>3 DEF SnapshotForUndo
<1>4. CASE RunChange \/ PopUndo \/ PushBlob \/ Restore \/ ArmTimer \/ CancelSafety \/ Reconnect
  BY <1>4 DEF RunChange, PopUndo, PushBlob, Restore, ArmTimer, CancelSafety, Reconnect
<1>5. CASE UNCHANGED vars
  BY <1>5 DEF vars
<1> QED BY <1>2, <1>3, <1>4, <1>5 DEF Next

\* What the steps of one call change of the calls: that call, which stays of its family as
\* long as it is open.
Moves(i) ==
  /\ i \in Ids /\ calls' \in [Ids -> Record] /\ \A j \in Ids \ {i} : calls'[j] = calls[j]
  /\ calls'[i].at \notin {"done", "over"} => i \in Open /\ calls'[i].fam = calls[i].fam

\* A call may go on or end.
LEMMA GoMoves ==
  ASSUME TypeInv, NEW i \in Open, NEW at \in {"run", "staged", "done"}, Go(i, at)
  PROVE  Moves(i) /\ calls'[i] = [calls[i] EXCEPT !.at = at]
<1>1. i \in Ids
  BY DEF Open
<1> QED BY <1>1, ZenonT(40) DEF Moves, Go, TypeInv, Record, Open

LEMMA EndMoves ==
  ASSUME TypeInv, NEW i \in Ids, End(i)
  PROVE  Moves(i) /\ calls'[i] = NoCall
<1>1. NoCall \in Record /\ NoCall.at = "over"
  BY DEF NoCall, Record
<1> HIDE DEF NoCall
<1> QED BY <1>1 DEF Moves, End, TypeInv

\* Such a step opens no call and lets none change its family.
LEMMA MovesOpen ==
  ASSUME NEW i, Moves(i)
  PROVE  /\ Open' \subseteq Open /\ Open' \ {i} = Open \ {i}
         /\ \A j \in Open' : calls'[j].fam = calls[j].fam
         /\ \A j \in Open \ {i} : calls'[j] = calls[j]
BY DEF Moves, Open

\* A call of the watched family remains alone.
LEMMA NextAlone == ASSUME Constants, IInv, [Next]_vars PROVE AloneInv'
<1> SUFFICES ASSUME ~gap'[Watched] PROVE \A i, j \in Open' : calls'[i].fam = Watched => j = i
  BY DEF AloneInv, Of
<1> USE DEF IInv
<1>0. ~gap[Watched] /\ \A i, j \in Open : calls[i].fam = Watched => j = i
  BY GapStays DEF AloneInv, Of
<1>1. ASSUME NEW op, NEW f, NEW to, NEW auto, Enter(op, f, to, auto)
      PROVE  \A i, j \in Open' : calls'[i].fam = Watched => j = i
  <2>1. PICK k \in Ids : /\ k \notin Open /\ Open' = Open \cup {k}
                         /\ calls' = [calls EXCEPT ![k] = NewCall(op, f, to, auto)]
    BY <1>1, EnterTakes
  <2>2. Open = {} \/ (Watched # f /\ \A i \in Open : calls[i].fam # Watched)
    BY <1>1 DEF Enter, Overlaps, Of, Constants
  <2>3. calls'[k].fam = f /\ \A i \in Open : calls'[i] = calls[i]
    BY <2>1 DEF NewCall, TypeInv, Open
  <2> QED BY <2>1, <2>2, <2>3
<1>2. ASSUME NEW i, Moves(i) PROVE \A j, k \in Open' : calls'[j].fam = Watched => k = j
  BY <1>0, <1>2, MovesOpen
<1>3. ASSUME UNCHANGED calls PROVE \A i, j \in Open' : calls'[i].fam = Watched => j = i
  BY <1>0, <1>3 DEF Open
<1>4. CASE Mutate \/ UndoIptables \/ TimerFires
  BY <1>1, <1>4 DEF Mutate, UndoIptables, TimerFires, Undo
<1>5. CASE SnapshotForUndo
  BY <1>2, <1>5, GoMoves DEF SnapshotForUndo
<1>6. CASE RunChange
  <2>1. PICK i \in Open : Go(i, "done") \/ End(i)
    BY <1>6 DEF RunChange
  <2> QED BY <1>2, <2>1, GoMoves, EndMoves DEF Open
<1>7. CASE PopUndo
  <2>1. PICK i \in Open :
          End(i) \/ calls' = [calls EXCEPT ![i].at = "run", ![i].blob = ring[Of(i)][Len(ring[Of(i)])]]
    BY <1>7 DEF PopUndo
  <2>2. i \in Ids /\ calls' \in [Ids -> Record]
    BY <1>7, <2>1, NextTypes DEF Open, TypeInv
  <2>3. Moves(i)
    BY <2>1, <2>2, EndMoves DEF Moves, TypeInv, Record, Open
  <2> QED BY <1>2, <2>3
<1>8. CASE PushBlob
  <2>1. PICK i \in Open : Go(i, "staged") \/ End(i)
    BY <1>8 DEF PushBlob
  <2> QED BY <1>2, <2>1, GoMoves, EndMoves DEF Open
<1>9. CASE Restore
  BY <1>2, <1>9, EndMoves DEF Restore, Open
<1>10. CASE ArmTimer
  BY <1>2, <1>10, EndMoves DEF ArmTimer
<1>11. CASE CancelSafety \/ Reconnect \/ UNCHANGED vars
  BY <1>3, <1>11 DEF CancelSafety, Reconnect, vars
<1> QED BY <1>4, <1>5, <1>6, <1>7, <1>8, <1>9, <1>10, <1>11 DEF Next

-----------------------------------------------------------------------------
\* What a call of the watched family staged remains.
LEMMA NextStaged == ASSUME Constants, IInv, [Next]_vars PROVE StagedInv'
<1> SUFFICES ASSUME ~gap'[Watched], NEW i \in Open', calls'[i].fam = Watched, calls'[i].at = "staged"
             PROVE  staged'[FileOf(i)'] = Blob(i)'
  BY DEF StagedInv, Of
<1> USE DEF IInv
<1>0. /\ ~gap[Watched] /\ \A j, k \in Open : calls[j].fam = Watched => k = j
      /\ \A j \in Open : calls[j].fam = Watched /\ calls[j].at = "staged" => staged[FileOf(j)] = Blob(j)
  BY GapStays DEF AloneInv, StagedInv, Of
<1>1. ASSUME i \in Open, calls'[i] = calls[i], staged' = staged PROVE staged'[FileOf(i)'] = Blob(i)'
  BY <1>0, <1>1 DEF FileOf, Blob
<1>2. ASSUME NEW op, NEW f, NEW to, NEW auto, Enter(op, f, to, auto), staged' = staged
      PROVE  staged'[FileOf(i)'] = Blob(i)'
  <2>1. PICK k \in Ids : /\ k \notin Open /\ Open' = Open \cup {k}
                         /\ calls' = [calls EXCEPT ![k] = NewCall(op, f, to, auto)]
    BY <1>2, EnterTakes
  <2>2. calls'[k].at = "begin" /\ \A j \in Open : calls'[j] = calls[j]
    BY <2>1 DEF NewCall, TypeInv, Open
  <2> QED BY <1>1, <1>2, <2>1, <2>2
<1>3. ASSUME NEW k, Moves(k), calls'[k].at # "staged", staged' = staged PROVE staged'[FileOf(i)'] = Blob(i)'
  BY <1>1, <1>3, MovesOpen
<1>4. CASE Mutate \/ UndoIptables \/ TimerFires
  BY <1>2, <1>4 DEF Mutate, UndoIptables, TimerFires, Undo
<1>5. CASE SnapshotForUndo
  <2>1. PICK k \in Open : Go(k, "run") /\ staged' = staged
    BY <1>5 DEF SnapshotForUndo
  <2>2. Moves(k) /\ calls'[k].at # "staged"
    BY <2>1, GoMoves, ZenonT(40) DEF TypeInv, Record, Open
  <2> QED BY <1>3, <2>1, <2>2
<1>6. CASE RunChange
  <2>1. PICK k \in Open : (Go(k, "done") \/ End(k)) /\ staged' = staged
    BY <1>6 DEF RunChange
  <2>2. Moves(k) /\ calls'[k].at # "staged"
    <3>1. ASSUME Go(k, "done") PROVE Moves(k) /\ calls'[k].at # "staged"
      BY <3>1, GoMoves DEF TypeInv, Record, Open
    <3>2. ASSUME End(k) PROVE Moves(k) /\ calls'[k].at # "staged"
      BY <3>2, EndMoves DEF Open, NoCall
    <3> QED BY <2>1, <3>1, <3>2
  <2> QED BY <1>3, <2>1, <2>2
<1>7. CASE PopUndo
  <2>1. PICK k \in Open :
          /\ End(k) \/ calls' = [calls EXCEPT ![k].at = "run", ![k].blob = ring[Of(k)][Len(ring[Of(k)])]]
          /\ staged' = staged
    BY <1>7 DEF PopUndo
  <2>2. calls'[k].at # "staged"
    BY <2>1, EndMoves DEF TypeInv, Record, Open, NoCall
  <2>3. \A j \in Ids \ {k} : calls'[j] = calls[j]
    BY <2>1 DEF End, TypeInv
  <2>4. i \in Ids \ {k} /\ i \in Open
    BY <2>2, <2>3 DEF Open
  <2> QED BY <1>1, <2>1, <2>3, <2>4
<1>8. CASE PushBlob
  <2>1. PICK k \in Open :
          \/ staged' = [staged EXCEPT ![FileOf(k)] = Blob(k)] /\ Go(k, "staged")
          \/ End(k) /\ UNCHANGED staged
    BY <1>8 DEF PushBlob
  <2>2. CASE End(k) /\ UNCHANGED staged
    <3>1. Moves(k) /\ calls'[k].at # "staged"
      BY <2>2, EndMoves DEF Open, NoCall
    <3> QED BY <1>3, <2>2, <3>1
  <2>3. CASE staged' = [staged EXCEPT ![FileOf(k)] = Blob(k)] /\ Go(k, "staged")
    <3>1. Moves(k) /\ calls'[k] = [calls[k] EXCEPT !.at = "staged"]
      BY <2>3, GoMoves
    <3>2. i \in Open /\ calls[i].fam = Watched
      BY <3>1, MovesOpen
    <3>3. i = k
      BY <1>0, <3>2
    <3>4. calls[i] \in Record /\ FileOf(i)' = FileOf(i) /\ Blob(i)' = Blob(i)
      BY <3>1, <3>2, <3>3 DEF FileOf, Blob, TypeInv, Record, Open
    <3>5. FileOf(i) \in Files
      BY DEF FileOf, Files
    <3> QED BY <2>3, <3>3, <3>4, <3>5 DEF TypeInv
  <2> QED BY <2>1, <2>2, <2>3
<1>9. CASE Restore
  <2>1. PICK k \in Open : End(k)
    BY <1>9 DEF Restore
  <2>2. Moves(k) /\ calls'[k].at = "over"
    BY <2>1, EndMoves DEF Open, NoCall
  <2>3. i # k /\ i \in Open /\ calls[i].fam = Watched
    BY <2>2, MovesOpen
  <2> QED BY <1>0, <2>3
<1>10. CASE ArmTimer
  <2>1. PICK k \in Ids : End(k) /\ staged' = staged
    BY <1>10 DEF ArmTimer
  <2>2. Moves(k) /\ calls'[k].at # "staged"
    BY <2>1, EndMoves DEF NoCall
  <2> QED BY <1>3, <2>1, <2>2
<1>11. CASE CancelSafety \/ Reconnect \/ UNCHANGED vars
  BY <1>1, <1>11 DEF CancelSafety, Reconnect, vars, Open
<1> QED BY <1>4, <1>5, <1>6, <1>7, <1>8, <1>9, <1>10, <1>11 DEF Next

\* The inductive invariant of the refinement holds throughout.
THEOREM Invariant == ASSUME Constants PROVE Spec => []IInv
<1>1. Init => IInv
  BY InitInv
<1>2. IInv /\ [Next]_vars => IInv'
  BY NextTypes, NextAlone, NextStaged DEF IInv
<1> QED BY <1>1, <1>2, PTL DEF Spec

\* TypeOK holds throughout: the rings hold rulesets, never more than Depth of them
\* (iptablesUndoDepth), and a staged file is a ruleset or gone.
THEOREM TypeCorrect == ASSUME Constants PROVE Spec => []TypeOK
<1>1. IInv => TypeOK
  BY DEF IInv, TypeInv, TypeOK
<1> QED BY <1>1, Invariant, PTL

-----------------------------------------------------------------------------
\* The calls of the watched family whose ruleset is in the hand of the log.
Busy == {i \in Open : calls[i].fam = Watched /\ calls[i].at \in {"run", "staged"}}
InHand(c) == IF c.op = "undo" THEN Log!Restoring(c.blob) ELSE Log!Changing
LogStep == [Log!Next]_<<rules[Watched], ring[Watched], Hand, gap[Watched]>>

\* What Hand is, now and after a step, when at most one call is busy.
LEMMA HandIs ==
  /\ Busy = {} => Hand = Log!Nothing
  /\ \A i : Busy = {i} => Hand = InHand(calls[i])
<1>1. ASSUME Busy = {} PROVE Hand = Log!Nothing
  BY <1>1 DEF Hand, Busy, Of, Log!Nothing
<1>2. ASSUME NEW i, Busy = {i} PROVE Hand = InHand(calls[i])
  <2>1. (CHOOSE j \in {i} : TRUE) = i
    OBVIOUS
  <2> QED BY <1>2, <2>1 DEF Hand, Busy, Of, InHand, Log!Restoring, Log!Changing
<1> QED BY <1>1, <1>2

LEMMA HandBecomes ==
  /\ Busy' = {} => Hand' = Log!Nothing
  /\ \A i : Busy' = {i} => Hand' = InHand(calls'[i])
<1>1. ASSUME Busy' = {} PROVE Hand' = Log!Nothing
  BY <1>1 DEF Hand, Busy, Of, Log!Nothing
<1>2. ASSUME NEW i, Busy' = {i} PROVE Hand' = InHand(calls'[i])
  <2>1. (CHOOSE j \in {i} : TRUE) = i
    OBVIOUS
  <2> QED BY <1>2, <2>1 DEF Hand, Busy, Of, InHand, Log!Restoring, Log!Changing
<1> QED BY <1>1, <1>2

\* A call of the watched family that is under way is alone, and in the hand once it runs.
LEMMA Mine ==
  ASSUME IInv, ~gap[Watched], NEW i \in Open, calls[i].fam = Watched, Moves(i)
  PROVE  /\ Open = {i} /\ Open' \subseteq {i}
         /\ calls[i].at = "begin" => Hand = Log!Nothing
         /\ calls[i].at \in {"run", "staged"} => Hand = InHand(calls[i])
         /\ calls'[i].at \in {"run", "staged"} => Hand' = InHand(calls'[i])
         /\ calls'[i].at \notin {"run", "staged"} => Hand' = Log!Nothing
<1>1. Open = {i} /\ Open' \subseteq {i}
  BY MovesOpen DEF IInv, AloneInv, Of
<1>2. /\ calls[i].at = "begin" => Busy = {}
      /\ calls[i].at \in {"run", "staged"} => Busy = {i}
      /\ calls'[i].at \notin {"run", "staged"} => Busy' = {}
  BY <1>1 DEF Busy
<1>3. ASSUME calls'[i].at \in {"run", "staged"} PROVE Busy' = {i}
  <2>1. i \in Open' /\ calls'[i].fam = Watched
    BY <1>3 DEF Moves, Open
  <2> QED BY <1>1, <1>3, <2>1 DEF Busy
<1> QED BY <1>1, <1>2, <1>3, HandIs, HandBecomes

\* A call of another family moves nothing of the log.
LEMMA Other ==
  ASSUME IInv, ~gap[Watched], NEW i \in Open, calls[i].fam # Watched, Moves(i)
  PROVE  Hand' = Hand
<1>1. \A j \in Open : calls[j].fam # Watched
  BY DEF IInv, AloneInv, Of
<1>2. Busy = {} /\ Busy' = {}
  BY <1>1, MovesOpen DEF Busy
<1> QED BY <1>2, HandIs, HandBecomes

\* Neither does a call that enters next to no other, ...
LEMMA EnterKeepsHand ==
  ASSUME Constants, IInv, ~gap'[Watched], NEW op, NEW f, NEW to, NEW auto, Enter(op, f, to, auto)
  PROVE  Hand' = Hand
<1> USE DEF IInv
<1>1. PICK k \in Ids : /\ k \notin Open /\ Open' = Open \cup {k}
                       /\ calls' = [calls EXCEPT ![k] = NewCall(op, f, to, auto)]
  BY EnterTakes
<1>2. \A i \in Open : calls[i].fam # Watched
  BY DEF Enter, Overlaps, Of, Constants
<1>3. calls'[k].at = "begin" /\ \A i \in Open : calls'[i] = calls[i]
  BY <1>1 DEF NewCall, TypeInv, Open
<1>4. Busy = {} /\ Busy' = {}
  BY <1>1, <1>2, <1>3 DEF Busy
<1> QED BY <1>4, HandIs, HandBecomes

\* ... nor one that is done.
LEMMA DoneKeepsHand ==
  ASSUME IInv, ~gap[Watched], NEW i \in Ids, calls[i].at = "done", End(i)
  PROVE  Hand' = Hand
<1>1. i \notin Open /\ Moves(i) /\ calls'[i].at = "over"
  BY EndMoves DEF Open, IInv, NoCall
<1>2. Open' = Open /\ \A j \in Open : calls'[j] = calls[j]
  BY <1>1 DEF Moves, Open
<1>3. Busy' = Busy
  BY <1>2 DEF Busy
<1>4. Busy = {} \/ \E j \in Open : Busy = {j}
  BY DEF IInv, AloneInv, Busy, Of
<1> QED BY <1>2, <1>3, <1>4, HandIs, HandBecomes

\* ... nor a step that leaves the calls alone.
LEMMA Unmoved == ASSUME UNCHANGED calls PROVE Hand' = Hand
<1>1. Open' = Open
  BY DEF Open
<1> DEFINE busy == {i \in Open : Of(i) = Watched /\ calls[i].at \in {"run", "staged"}}
<1>2. busy' = busy
  BY <1>1 DEF Of
<1> HIDE DEF busy
<1>3. (CHOOSE i \in busy' : TRUE) = (CHOOSE i \in busy : TRUE)
  BY <1>2
<1> QED BY <1>2, <1>3 DEF Hand, busy

\* Every step is a step of the log or a stutter.
LEMMA StepRefines == ASSUME Constants, IInv, [Next]_vars PROVE LogStep
<1> USE DEF IInv, TypeInv, Constants
<1>1. CASE gap'[Watched]
  BY <1>1 DEF LogStep, Log!Next, Log!Lapse
<1> SUFFICES ASSUME ~gap'[Watched] PROVE LogStep
  BY <1>1
<1>0. gap[Watched] = FALSE /\ gap'[Watched] = FALSE
  BY GapStays, NextTypes
<1>2. ASSUME UNCHANGED <<rules, ring>>, Hand' = Hand PROVE LogStep
  BY <1>0, <1>2 DEF LogStep
<1>3. CASE Mutate \/ UndoIptables \/ TimerFires
  BY <1>2, <1>3, EnterKeepsHand DEF Mutate, UndoIptables, TimerFires, Undo
<1>4. CASE SnapshotForUndo
  <2>1. PICK i \in Open :
          /\ calls[i].at = "begin" /\ calls[i].op # "undo" /\ Go(i, "run") /\ rules' = rules
          /\ \/ ring' = [ring EXCEPT ![Of(i)] = Newest(Append(@, rules[Of(i)]))]
             \/ gap' = [gap EXCEPT ![Of(i)] = TRUE] /\ UNCHANGED ring
    BY <1>4 DEF SnapshotForUndo
  <2>2. Moves(i) /\ calls'[i] = [calls[i] EXCEPT !.at = "run"] /\ calls[i] \in Record
    BY <2>1, GoMoves DEF Open
  <2>3. CASE calls[i].fam # Watched
    <3>1. Hand' = Hand /\ ring'[Watched] = ring[Watched]
      BY <1>0, <2>1, <2>2, <2>3, Other DEF Of
    <3> QED BY <1>0, <2>1, <3>1 DEF LogStep
  <2>4. CASE calls[i].fam = Watched
    <3>1. ring'[Watched] = Newest(Append(ring[Watched], rules[Watched]))
      BY <1>0, <2>1, <2>4 DEF Of
    <3>2. calls'[i].at = "run" /\ InHand(calls'[i]) = Log!Changing
      BY <2>1, <2>2 DEF Record, InHand
    <3>3. Hand = Log!Nothing /\ Hand' = Log!Changing
      BY <1>0, <2>1, <2>2, <2>4, <3>2, Mine
    <3>4. Log!Save
      BY <1>0, <2>1, <3>1, <3>3 DEF Log!Save, Log!Newest, Newest
    <3> QED BY <3>4 DEF LogStep, Log!Next
  <2> QED BY <2>3, <2>4
<1>5. CASE RunChange
  <2>1. PICK i \in Open :
          /\ calls[i].at = "run" /\ calls[i].op \in {"change", "policy"} /\ ring' = ring
          /\ rules' = [rules EXCEPT ![Of(i)] = calls[i].to] \/ rules' = rules
          /\ Go(i, "done") \/ End(i)
    BY <1>5 DEF RunChange
  <2>2. Moves(i) /\ calls'[i].at \notin {"run", "staged"}
    <3>1. ASSUME Go(i, "done") PROVE Moves(i) /\ calls'[i].at = "done"
      BY <3>1, GoMoves DEF Record, Open
    <3>2. ASSUME End(i) PROVE Moves(i) /\ calls'[i].at = "over"
      BY <3>2, EndMoves DEF Open, NoCall
    <3> QED BY <2>1, <3>1, <3>2
  <2>3. CASE calls[i].fam # Watched
    <3>1. Hand' = Hand /\ rules'[Watched] = rules[Watched]
      BY <1>0, <2>1, <2>2, <2>3, Other DEF Of
    <3> QED BY <1>0, <2>1, <3>1 DEF LogStep
  <2>4. CASE calls[i].fam = Watched
    <3>1. Hand = Log!Changing /\ Hand' = Log!Nothing
      BY <1>0, <2>1, <2>2, <2>4, Mine DEF InHand
    <3>2. rules'[Watched] \in Rulesets
      BY NextTypes
    <3>3. Log!Change
      BY <1>0, <2>1, <3>1, <3>2 DEF Log!Change
    <3> QED BY <3>3 DEF LogStep, Log!Next
  <2> QED BY <2>3, <2>4
<1>6. CASE PopUndo
  <2>1. PICK i \in Open :
          /\ calls[i].op = "undo" /\ calls[i].at = "begin" /\ rules' = rules
          /\ IF ring[Of(i)] = <<>> THEN End(i) /\ UNCHANGED ring
             ELSE /\ calls' = [calls EXCEPT ![i].at = "run", ![i].blob = ring[Of(i)][Len(ring[Of(i)])]]
                  /\ ring' = [ring EXCEPT ![Of(i)] = SubSeq(ring[Of(i)], 1, Len(ring[Of(i)]) - 1)]
    BY <1>6 DEF PopUndo
  <2>2. i \in Ids /\ calls[i] \in Record /\ calls' \in [Ids -> Record]
    BY <2>1, NextTypes DEF Open
  <2>3. CASE ring[Of(i)] = <<>>
    <3>1. Moves(i) /\ calls'[i].at = "over" /\ UNCHANGED <<rules, ring>>
      BY <2>1, <2>2, <2>3, EndMoves DEF NoCall
    <3>2. Hand' = Hand
      BY <1>0, <2>1, <3>1, Other, Mine
    <3> QED BY <1>2, <3>1, <3>2
  <2>4. CASE ring[Of(i)] # <<>>
    <3> DEFINE b == ring[Of(i)][Len(ring[Of(i)])]
               rest == SubSeq(ring[Of(i)], 1, Len(ring[Of(i)]) - 1)
    <3>1. calls' = [calls EXCEPT ![i].at = "run", ![i].blob = b] /\ ring' = [ring EXCEPT ![Of(i)] = rest]
      BY <2>1, <2>4
    <3> HIDE DEF b, rest
    <3>2. Moves(i)
      BY <2>2, <3>1 DEF Moves, Open, Record
    <3>3. calls'[i].op = "undo" /\ calls'[i].at = "run" /\ calls'[i].blob = b
      BY <2>1, <2>2, <3>1 DEF Record
    <3>4. CASE calls[i].fam # Watched
      <4>1. Hand' = Hand /\ ring'[Watched] = ring[Watched]
        BY <1>0, <3>1, <3>2, <3>4, Other DEF Of
      <4> QED BY <1>0, <2>1, <4>1 DEF LogStep
    <3>5. CASE calls[i].fam = Watched
      <4>1. Hand = Log!Nothing /\ Hand' = Log!Restoring(b)
        BY <1>0, <2>1, <3>2, <3>3, <3>5, Mine DEF InHand
      <4>2. ring'[Watched] = rest
        BY <3>1, <3>5 DEF Of
      <4>3. /\ ring[Watched] # <<>> /\ b = Log!LastOf(ring[Watched])
            /\ rest = Log!ButLast(ring[Watched])
        BY <2>4, <3>5 DEF Of, b, rest, Log!LastOf, Log!ButLast
      <4>4. Log!Take
        BY <1>0, <2>1, <4>1, <4>2, <4>3 DEF Log!Take
      <4> QED BY <4>4 DEF LogStep, Log!Next
    <3> QED BY <3>4, <3>5
  <2> QED BY <2>3, <2>4
<1>7. ASSUME NEW i \in Open, calls[i].op = "undo" \/ calls[i].op = "import",
             calls[i].at \in {"run", "staged"}, calls[i].fam = Watched, End(i), ring' = ring,
             \/ rules'[Watched] = rules[Watched]
             \/ calls[i].op = "undo" => rules'[Watched] = calls[i].blob
      PROVE  LogStep
  <2>1. Moves(i) /\ calls'[i].at = "over"
    BY <1>7, EndMoves DEF Open, NoCall
  <2>2. Hand = InHand(calls[i]) /\ Hand' = Log!Nothing
    BY <1>0, <1>7, <2>1, Mine
  <2>3. CASE calls[i].op = "undo"
    <3>1. Hand = Log!Restoring(calls[i].blob)
      BY <2>2, <2>3 DEF InHand
    <3>2. Hand.is = "restoring" /\ Hand.to = calls[i].blob
      BY <3>1 DEF Log!Restoring
    <3>3. Log!Restore
      BY <1>0, <1>7, <2>2, <2>3, <3>2 DEF Log!Restore
    <3> QED BY <3>3 DEF LogStep, Log!Next
  <2>4. CASE calls[i].op # "undo"
    <3>1. rules'[Watched] \in Rulesets
      BY NextTypes
    <3>2. Log!Change
      BY <1>0, <1>7, <2>2, <2>4, <3>1 DEF Log!Change, InHand
    <3> QED BY <3>2 DEF LogStep, Log!Next
  <2> QED BY <2>3, <2>4
<1>8. CASE PushBlob
  <2>1. PICK i \in Open :
          /\ calls[i].op \in {"undo", "import"} /\ calls[i].at = "run" /\ UNCHANGED <<rules, ring>>
          /\ Go(i, "staged") \/ End(i)
    BY <1>8 DEF PushBlob
  <2>2. CASE End(i)
    <3>1. Moves(i)
      BY <2>2, EndMoves DEF Open
    <3>2. CASE calls[i].fam # Watched
      BY <1>0, <1>2, <2>1, <3>1, <3>2, Other
    <3> QED BY <1>7, <2>1, <2>2, <3>2
  <2>3. CASE Go(i, "staged")
    <3>1. Moves(i) /\ calls'[i] = [calls[i] EXCEPT !.at = "staged"] /\ calls[i] \in Record
      BY <2>3, GoMoves DEF Open
    <3>2. calls'[i].at = "staged" /\ InHand(calls'[i]) = InHand(calls[i])
      BY <3>1 DEF Record, InHand
    <3>3. CASE calls[i].fam # Watched
      BY <1>0, <1>2, <2>1, <3>1, <3>3, Other
    <3>4. CASE calls[i].fam = Watched
      <4>1. Hand = InHand(calls[i]) /\ Hand' = InHand(calls'[i])
        BY <1>0, <2>1, <3>1, <3>2, <3>4, Mine
      <4> QED BY <1>2, <2>1, <3>2, <4>1
    <3> QED BY <3>3, <3>4
  <2> QED BY <2>1, <2>2, <2>3
<1>9. CASE Restore
  <2>1. PICK i \in Open :
          /\ calls[i].at = "staged" /\ End(i) /\ ring' = ring
          /\ rules' = [rules EXCEPT ![Of(i)] = staged[FileOf(i)]] \/ rules' = rules
    BY <1>9 DEF Restore
  <2>2. i \in Ids /\ calls[i].op \in {"undo", "import"} /\ Moves(i)
    BY <2>1, EndMoves DEF Open, CallOK
  <2>3. CASE calls[i].fam # Watched
    <3>1. Hand' = Hand /\ rules'[Watched] = rules[Watched]
      BY <1>0, <2>1, <2>2, <2>3, Other DEF Of
    <3> QED BY <1>0, <2>1, <3>1 DEF LogStep
  <2>4. CASE calls[i].fam = Watched
    <3>1. staged[FileOf(i)] = Blob(i)
      BY <1>0, <2>1, <2>4 DEF StagedInv, Of
    <3>2. \/ rules'[Watched] = rules[Watched]
          \/ calls[i].op = "undo" => rules'[Watched] = calls[i].blob
      BY <2>1, <2>4, <3>1 DEF Of, Blob
    <3> QED BY <1>7, <2>1, <2>2, <2>4, <3>2
  <2> QED BY <2>3, <2>4
<1>10. CASE ArmTimer
  BY <1>0, <1>2, <1>10, DoneKeepsHand DEF ArmTimer
<1>11. CASE CancelSafety \/ Reconnect \/ UNCHANGED vars
  <2>1. UNCHANGED <<rules, ring, calls>>
    BY <1>11 DEF CancelSafety, Reconnect, vars
  <2>2. Hand' = Hand
    BY <2>1, Unmoved
  <2> QED BY <1>2, <2>1, <2>2
<1> QED BY <1>3, <1>4, <1>5, <1>6, <1>8, <1>9, <1>10, <1>11 DEF Next

\* A family's ring is an undo log (UndoIptables brings back what the last remembered
\* change replaced), for any rulesets, depth of the ring and calls of the page.
THEOREM RefinesUndoLog == ASSUME Constants PROVE Spec => UndoIsALog
<1>1. Init => Log!Init
  <2> SUFFICES ASSUME Init PROVE Log!Init
    OBVIOUS
  <2>1. Busy = {}
    BY DEF Init, Busy, Open, NoCall
  <2> QED BY <2>1, HandIs DEF Init, Log!Init, Constants
<1>2. IInv /\ [Next]_vars => LogStep
  BY StepRefines
<1> QED BY <1>1, <1>2, Invariant, PTL DEF Spec, UndoIsALog, Log!Spec, LogStep

=============================================================================
