---------------------------- MODULE MCLogcatFeed ----------------------------
(***************************************************************************)
(* Instances of LogcatFeed small enough for TLC.                           *)
(***************************************************************************)
EXTENDS LogcatFeed, TLC

CONSTANTS c1, c2

\* Two bindings may be in flight at once: the filter is changed while the
\* screen is being left, or React mounts twice.
TwoCalls == {c1, c2}
OneCall  == {c1}

AllOnly  == {"all"}
AppOnly  == {"app"}
BothFilters == {"all", "app"}

CallSymmetry == Permutations(Calls)
=============================================================================
