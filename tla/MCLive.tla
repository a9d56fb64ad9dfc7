------------------------------ MODULE MCLive -------------------------------
(***************************************************************************)
(* What must come to an end while a page is open: a stale fact, a refresh, *)
(* the boot of an emulator and its task. One of the two runs in each       *)
(* behaviour, the other stays in an initial state.                         *)
(***************************************************************************)
EXTENDS FactCache, TLC

CONSTANTS m1, page, home, cafe, cmd, User

OneMutator == {m1}
PageOnly   == {page}
TwoLinks   == {home, cafe}

\* net.ssid: the Wi-Fi shell service, which needs cmd, then the service dump.
\* Both are costly.
Two       == {1, 2}
SSIDNeeds == 1 :> {cmd} @@ 2 :> {}
OnlyCmd   == {cmd}
First     == {1}

VARIABLES
  part,     \* the component that runs
  status, ctxDone, hand, cpc, chand, removing, row, listing, asked, overtaken, child, reap, procs,
  wpc, target, kpc, ktgt, stops, quit, qtgt, doubled, emuLate

\* The boot of one emulator, with a stop or a listing beside it.
Emu == INSTANCE Emulators WITH Starts <- {1}, Cancelled <- {1}, MaxLists <- 1, MaxStops <- 1, User <- User,
                               late <- emuLate
EmuVars == <<status, ctxDone, hand, cpc, chand, removing, row, listing, asked, overtaken, child,
             reap, procs, wpc, target, kpc, ktgt, stops, quit, qtgt, doubled, emuLate>>

all == <<part, vars, EmuVars>>

AllInit ==
  /\ part \in {"facts", "task"}
  /\ Init /\ Emu!Init
  /\ (part # "facts" => device.link = home /\ refused = {})

AllNext ==
  \/ part = "facts" /\ Next /\ UNCHANGED <<part, EmuVars>>
  \/ part = "task" /\ Emu!Next /\ ~(asked' > 0 /\ stops' > 0) /\ UNCHANGED <<part, vars>>

AllSpec == AllInit /\ [][AllNext]_all /\ Fairness /\ Emu!Fairness
-----------------------------------------------------------------------------
\* A stale answer goes away and a refresh under way ends.
CacheSettles == StaleExpires /\ LoadingEnds

\* A cancel reaches its task, and its row ends: never before the task has.
TaskSettles == Emu!CancelReaches /\ Emu!RowSettles /\ []Emu!NoFalseEnd
=============================================================================
