--------------------------- MODULE MCLiveCapture ---------------------------
(***************************************************************************)
(* Instances of LiveCapture small enough for TLC.                          *)
(***************************************************************************)
EXTENDS LiveCapture

OneStart  == {1}
TwoStarts == {1, 2}

\* The mirror holds a header and one packet, with room for another head when the
\* body is of size one.
Either == {1, 2}
=============================================================================
