----------------------------- MODULE Iptables -----------------------------
(***************************************************************************)
(* Rule changes, the undo ring and the safety timer (iptables.go and       *)
(* Iptables.tsx).  A ruleset is a member of Rulesets; those of Drops have  *)
(* a DROP policy that may cut adbq off.  Every change exports the ruleset  *)
(* onto the ring of its family, then runs; a restore is staged in a file   *)
(* both families share.  `gap` is a ghost: a change whose export failed,   *)
(* or that ran while another call was under way, is not in its place in    *)
(* the ring.                                                               *)
(***************************************************************************)
EXTENDS Naturals, Sequences

CONSTANTS Families, Rulesets, Drops,
          Watched,    \* the family whose ring the refinement is about
          Depth,      \* iptablesUndoDepth
          MaxCalls,   \* bound: calls of the page
          MaxTogether \* bound: calls under way at once

VARIABLES rules,      \* family -> the ruleset of the device
          ring,       \* family -> iptablesState.undos
          staged,     \* the files restores read: blob or "none"
          calls,      \* calls under way, by slot
          made,       \* calls made so far
          reach,      \* the device can be reached
          timer,      \* safetyTimer: "off" or the family it will undo
          gap

vars == <<rules, ring, staged, calls, made, reach, timer, gap>>

Files == {"restore", "undo"}
Ids == 1 .. MaxTogether
NoCall == [op |-> "none", fam |-> "none", to |-> "none", at |-> "over", blob |-> "none", auto |-> FALSE]

Init ==
  /\ rules \in [Families -> Rulesets \ Drops]
  /\ ring = [f \in Families |-> <<>>] /\ staged = [x \in Files |-> "none"]
  /\ calls = [i \in Ids |-> NoCall] /\ made = 0 /\ reach = TRUE
  /\ timer = "off" /\ gap = [f \in Families |-> FALSE]

Newest(s) == IF Len(s) > Depth THEN Tail(s) ELSE s
Open == {i \in Ids : calls[i].at \notin {"done", "over"}}
Of(i) == calls[i].fam
Go(i, at) == calls' = [calls EXCEPT ![i].at = at]
End(i) == calls' = [calls EXCEPT ![i] = NoCall]

\* Calls that overlap leave no order between the ring and the device; those that
\* restore share a staged file whatever their family.
Overlaps(f) == {g \in Families : \E i \in Open : Of(i) = g \/ calls[i].op \in {"undo", "import"}}
Enter(op, f, to, auto) ==
  /\ \E i \in Ids :
       /\ calls[i] = NoCall /\ \A j \in 1 .. i - 1 : calls[j] # NoCall
       /\ calls' = [calls EXCEPT ![i] = [op |-> op, fam |-> f, to |-> to, at |-> "begin",
                                         blob |-> "none", auto |-> auto]]
  /\ gap' = [g \in Families |-> gap[g] \/ (Open # {} /\ g \in Overlaps(f) \cup {f})]

UserCalls == made < MaxCalls /\ made' = made + 1

---------------------------------------------------------------------------
(* Changes                                                                 *)

\* Append, Insert, Delete, Flush, a chain or a policy: validated on the host,
\* refused on a device whose rules are read-only.
Mutate ==
  /\ UserCalls
  /\ \E f \in Families, to \in Rulesets, op \in {"change", "policy", "import"} :
       (op = "policy") = (to \in Drops) /\ Enter(op, f, to, FALSE)
  /\ UNCHANGED <<rules, ring, staged, reach, timer>>

\* its slip: the ring keeps what the change makes, not what it replaces
SnapshotAfter ==
  \E i \in Open :
    /\ calls[i].at = "begin" /\ calls[i].op # "undo"
    /\ ring' = [ring EXCEPT ![Of(i)] = Newest(Append(@, calls[i].to))]
    /\ Go(i, "run") /\ UNCHANGED <<gap, rules, staged, made, reach, timer>>

\* snapshotForUndo: an export that fails does not stop the change.
SnapshotForUndo ==
  \E i \in Open :
    /\ calls[i].at = "begin" /\ calls[i].op # "undo"
    /\ \/ reach /\ ring' = [ring EXCEPT ![Of(i)] = Newest(Append(@, rules[Of(i)]))] /\ UNCHANGED gap
       \/ gap' = [gap EXCEPT ![Of(i)] = TRUE] /\ UNCHANGED ring
    /\ Go(i, "run")
    /\ UNCHANGED <<rules, staged, made, reach, timer>>

\* The command, with the list that follows it; the device may refuse it.  A DROP
\* policy may cut the device off: the call then ends in an error.
RunChange ==
  \E i \in Open :
    /\ calls[i].at = "run" /\ calls[i].op \in {"change", "policy"}
    /\ \/ /\ reach /\ rules' = [rules EXCEPT ![Of(i)] = calls[i].to]
          /\ reach' \in IF calls[i].to \in Drops THEN BOOLEAN ELSE {TRUE}
          /\ IF reach' /\ calls[i].op = "policy" THEN Go(i, "done") ELSE End(i)
       \/ UNCHANGED <<rules, reach>> /\ End(i)
    /\ UNCHANGED <<ring, staged, made, timer, gap>>

---------------------------------------------------------------------------
(* Restores: ImportIptables and UndoIptables                               *)

Undo(f, auto) == Enter("undo", f, "none", auto)

UndoIptables ==
  /\ UserCalls
  /\ \E f \in Families : Undo(f, FALSE)
  /\ UNCHANGED <<rules, ring, staged, reach, timer>>

\* its slip: the blob is read, and stays on the ring
PeekUndo ==
  \E i \in Open :
    /\ calls[i].op = "undo" /\ calls[i].at = "begin"
    /\ LET r == ring[Of(i)] IN
       calls' = IF r = <<>> THEN [calls EXCEPT ![i] = NoCall]
                ELSE [calls EXCEPT ![i].at = "run", ![i].blob = r[Len(r)]]
    /\ UNCHANGED <<ring, rules, staged, made, reach, timer, gap>>

\* popUndo: the blob leaves the ring before it is restored
PopUndo ==
  \E i \in Open :
    /\ calls[i].op = "undo" /\ calls[i].at = "begin"
    /\ LET r == ring[Of(i)] IN
       IF r = <<>>
       THEN End(i) /\ UNCHANGED ring
       ELSE /\ calls' = [calls EXCEPT ![i].at = "run", ![i].blob = r[Len(r)]]
            /\ ring' = [ring EXCEPT ![Of(i)] = SubSeq(r, 1, Len(r) - 1)]
    /\ UNCHANGED <<rules, staged, made, reach, timer, gap>>

FileOf(i) == IF calls[i].op = "undo" THEN "undo" ELSE "restore"
Blob(i) == IF calls[i].op = "undo" THEN calls[i].blob ELSE calls[i].to

\* pushBlob: the blob of an import is the page's text
PushBlob ==
  \E i \in Open :
    /\ calls[i].op \in {"undo", "import"} /\ calls[i].at = "run"
    /\ \/ reach /\ staged' = [staged EXCEPT ![FileOf(i)] = Blob(i)] /\ Go(i, "staged")
       \/ End(i) /\ UNCHANGED staged
    /\ UNCHANGED <<rules, ring, made, reach, timer, gap>>

\* iptables-restore reads whatever is staged now, then the file is removed; a
\* restore that fails leaves it.
Restore ==
  \E i \in Open :
    /\ calls[i].at = "staged"
    /\ \/ /\ reach /\ staged[FileOf(i)] # "none"
          /\ rules' = [rules EXCEPT ![Of(i)] = staged[FileOf(i)]]
          /\ staged' = [staged EXCEPT ![FileOf(i)] = "none"]
       \/ UNCHANGED <<rules, staged>>
    /\ End(i)
    /\ UNCHANGED <<ring, made, reach, timer, gap>>

---------------------------------------------------------------------------
(* The page: the safety timer of a DROP policy                             *)

\* changePolicy arms the timer once the call and the refresh have returned.
ArmTimer ==
  \E i \in Ids :
    /\ calls[i].at = "done" /\ End(i)
    /\ timer' = Of(i)
    /\ UNCHANGED <<rules, ring, staged, made, reach, gap>>

CancelSafety ==
  /\ timer # "off" /\ timer' = "off"
  /\ UNCHANGED <<rules, ring, staged, calls, made, reach, gap>>

\* The timer undoes the newest snapshot of the family, whichever it is now.
TimerFires ==
  /\ timer # "off" /\ timer' = "off" /\ Undo(timer, TRUE)
  /\ UNCHANGED <<rules, ring, staged, made, reach>>

Reconnect ==
  /\ ~reach /\ reach' = TRUE
  /\ UNCHANGED <<rules, ring, staged, calls, made, timer, gap>>

Next ==
  \/ Mutate \/ SnapshotForUndo \/ RunChange
  \/ UndoIptables \/ PopUndo \/ PushBlob \/ Restore
  \/ ArmTimer \/ CancelSafety \/ TimerFires \/ Reconnect

Spec == Init /\ [][Next]_vars
---------------------------------------------------------------------------
TypeOK ==
  /\ rules \in [Families -> Rulesets]
  /\ \A f \in Families : ring[f] \in Seq(Rulesets) /\ Len(ring[f]) <= Depth
  /\ \A x \in Files : staged[x] \in Rulesets \cup {"none"}
  /\ timer \in Families \cup {"off"}

\* What the call of the watched family that is under way does to its ruleset.
Hand ==
  LET busy == {i \in Open : Of(i) = Watched /\ calls[i].at \in {"run", "staged"}} IN
  IF busy = {} THEN [is |-> "nothing"]
  ELSE LET i == CHOOSE i \in busy : TRUE IN
       IF calls[i].op = "undo" THEN [is |-> "restoring", to |-> calls[i].blob] ELSE [is |-> "changing"]

Log == INSTANCE UndoLog
       WITH cur <- rules[Watched], past <- ring[Watched], hand <- Hand, gap <- gap[Watched]

\* A family's ring is an undo log: an undo brings back the ruleset its last
\* remembered change replaced, through failed exports, refused changes, failed
\* restores, imports and the timer, until two calls overlap.
UndoIsALog == Log!Spec
===========================================================================
