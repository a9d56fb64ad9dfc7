------------------------------ MODULE UndoLog ------------------------------
(***************************************************************************)
(* What an undo button promises, for one ruleset: a change remembers what  *)
(* it replaced, an undo brings back the ruleset that the last remembered   *)
(* change replaced, and no more than Depth of them are remembered.  Once a *)
(* change could not be remembered in its place (`gap`) nothing more is     *)
(* promised.  Iptables implements it.                                      *)
(***************************************************************************)
EXTENDS Naturals, Sequences

CONSTANTS Rulesets, Depth

VARIABLES cur,    \* the ruleset in force
          past,   \* the rulesets remembered, oldest first
          hand,   \* the change or the undo under way
          gap     \* a change was not remembered in its place

Newest(s) == IF Len(s) > Depth THEN Tail(s) ELSE s
LastOf(s) == s[Len(s)]
ButLast(s) == SubSeq(s, 1, Len(s) - 1)

Nothing == [is |-> "nothing"]
Changing == [is |-> "changing"]
Restoring(r) == [is |-> "restoring", to |-> r]

Init == cur \in Rulesets /\ past = <<>> /\ hand = Nothing /\ gap = FALSE

\* what is about to be replaced is remembered first ...
Save == hand = Nothing /\ past' = Newest(Append(past, cur)) /\ hand' = Changing /\ UNCHANGED <<cur, gap>>
\* ... and then the ruleset changes, or the change is refused
Change == hand = Changing /\ cur' \in Rulesets /\ hand' = Nothing /\ UNCHANGED <<past, gap>>
\* an undo takes what was remembered last ...
Take == /\ hand = Nothing /\ past # <<>>
        /\ hand' = Restoring(LastOf(past)) /\ past' = ButLast(past) /\ UNCHANGED <<cur, gap>>
\* ... and brings it back, or loses it
Restore == /\ hand.is = "restoring" /\ cur' \in {hand.to, cur}
           /\ hand' = Nothing /\ UNCHANGED <<past, gap>>
Lapse == gap' = TRUE
Free == gap /\ gap' = TRUE

Next == Save \/ Change \/ Take \/ Restore \/ Lapse \/ Free

Spec == Init /\ [][Next]_<<cur, past, hand, gap>>
============================================================================
