--------------------------- MODULE MCDeviceWatch ---------------------------
(***************************************************************************)
(* Instances of DeviceWatch small enough for TLC.                          *)
(***************************************************************************)
EXTENDS DeviceWatch

CONSTANTS d1, d2

OneDevice  == {d1}
TwoDevices == {d1, d2}

\* A server that tracks and a user who quits; one that must be polled, with changes it
\* does not announce and a page that asks for the list; and one device that stays.
Push  == [trackable |-> TRUE, quits |-> TRUE, plugs |-> 2, details |-> 0, kills |-> 1, reads |-> 0]
Poll  == [trackable |-> FALSE, quits |-> FALSE, plugs |-> 1, details |-> 1, kills |-> 1, reads |-> 1]
Still == [trackable |-> TRUE, quits |-> FALSE, plugs |-> 0, details |-> 0, kills |-> 0, reads |-> 0]
PushOrPoll == {Push, Poll}
JustStill  == {Still}
=============================================================================
