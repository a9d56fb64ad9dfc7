---------------------------- MODULE FridaProofs -----------------------------
(***************************************************************************)
(* Frida, for any jobs, sessions, scripts, applications, crashes and       *)
(* bounds: what is ready on the host is whole, a session leaves nothing    *)
(* behind and its console is its log, the library's bindings name its      *)
(* scripts and a launch loads what it was bound to.  Each is proved of its *)
(* own component, and a step of MCLaunches is a step of one of them.       *)
(***************************************************************************)
EXTENDS MCLaunches, Integers, Sequences, FiniteSetTheorems, WellFoundedInduction, TLAPS

-----------------------------------------------------------------------------
(* Frida's host: what is ready is whole.                                   *)

StepsOf == [venv    |-> {"probe", "clear", "create", "get", "fetch", "pip", "check"},
            bridges |-> {"stamped", "get", "fetch", "extract", "write", "stamp"},
            server  |-> {"listed", "get", "fetch", "unpack", "unpacking", "verify", "push", "chmod"}]
HostSteps == {"probe", "clear", "create", "get", "fetch", "pip", "check", "stamped", "extract", "write", "stamp",
              "listed", "unpack", "unpacking", "verify", "push", "chmod"}
\* A job is at a step of what it makes.
HostTypes ==
  /\ kind \in [Jobs -> Host!Kinds] /\ pc \in [Jobs -> HostSteps \cup Host!Ended] /\ remote \in [Jobs -> {"none", "part", "whole"}]
  /\ \A j \in Jobs : pc[j] \in Host!Ended \cup StepsOf[kind[j]]
  /\ bin \in {"none", "part", "whole"}

UnderWay(j) == pc[j] \notin Host!Ended
\* A job that nothing came in the way of has its files to itself.
Apart == \A j \in Jobs : UnderWay(j) /\ j \notin mixed => Host!Rivals(j) = {}

\* Next to a whole venv, another job sees that it is whole.
VenvReady ==
  \A j \in Jobs : kind[j] = "venv" /\ j \notin mixed /\ pc[j] = "ok" =>
    venv = "whole" /\ \A i \in Jobs : kind[i] = "venv" /\ UnderWay(i) => pc[i] = "probe"
\* The stamp is set next to whole bridges, and is not set while they are made.
BridgesReady ==
  Host!BridgesApart =>
    /\ stamp = "current" => bridge = "whole"
    /\ \A j \in Jobs : kind[j] = "bridges" =>
         /\ pc[j] \in {"get", "fetch", "extract", "write"} => stamp # "current"
         /\ pc[j] = "stamp" => bridge = "whole"
         /\ pc[j] = "ok" => stamp = "current"
\* What is verified is the whole server, and so is what was pushed of it.
ServerReady ==
  /\ \A j \in Jobs : kind[j] = "server" /\ j \notin mixed =>
       /\ pc[j] \in {"verify", "push"} => bin = "whole"
       /\ pc[j] = "chmod" => remote[j] = "whole"
       /\ pc[j] = "ok" => j \in runnable
  /\ \A j \in runnable \ mixed : remote[j] = "whole"
  /\ runnable \subseteq Jobs
HostInv == HostTypes /\ Apart /\ VenvReady /\ BridgesReady /\ ServerReady

LEMMA HostStart == Host!Init => HostInv
<1> SUFFICES ASSUME Host!Init PROVE HostInv OBVIOUS
<1>1. \A j \in Jobs : pc[j] = "idle" /\ ~UnderWay(j) BY DEF Host!Init, UnderWay, Host!Ended
<1>2. HostTypes
  <2>1. kind \in [Jobs -> Host!Kinds] /\ bin = "none" BY DEF Host!Init
  <2>2. pc \in [Jobs -> HostSteps \cup Host!Ended] BY DEF Host!Init, Host!Ended
  <2>3. remote \in [Jobs -> {"none", "part", "whole"}] BY DEF Host!Init
  <2> QED BY <1>1, <2>1, <2>2, <2>3 DEF HostTypes, Host!Ended
<1>3. Apart BY <1>1 DEF Apart
<1>4. VenvReady BY <1>1 DEF VenvReady
<1>5. BridgesReady BY <1>1 DEF BridgesReady, Host!Init
<1>6. ServerReady BY <1>1 DEF ServerReady, Host!Init
<1> QED BY <1>2, <1>3, <1>4, <1>5, <1>6 DEF HostInv

LEMMA HostInvIsWhole == HostInv => Host!ReadyIsWhole /\ Host!CacheHeals /\ Host!NothingHalfRuns
<1> SUFFICES ASSUME HostInv PROVE Host!ReadyIsWhole /\ Host!CacheHeals /\ Host!NothingHalfRuns OBVIOUS
<1>1. Host!CacheHeals /\ Host!NothingHalfRuns BY DEF HostInv, BridgesReady, ServerReady, Host!CacheHeals, Host!NothingHalfRuns
<1>2. ASSUME NEW j \in Jobs, pc[j] = "ok", j \notin mixed
      PROVE  /\ kind[j] = "venv" => venv = "whole"
             /\ kind[j] = "bridges" => (Host!BridgesApart => bridge = "whole" /\ stamp = "current")
             /\ kind[j] = "server" => remote[j] = "whole" /\ j \in runnable
  BY <1>2 DEF HostInv, VenvReady, BridgesReady, ServerReady
<1>3. \A j \in Jobs : kind[j] \in {"venv", "bridges", "server"} BY DEF HostInv, HostTypes, Host!Kinds
<1>4. Host!ReadyIsWhole BY <1>2, <1>3 DEF Host!ReadyIsWhole
<1> QED BY <1>1, <1>4

\* A step of job j, which starts nothing.
JobStep(j) == Host!Download(j) \/ Host!Venv(j) \/ Host!Bridges(j) \/ Host!Server(j) \/ \E here \in Host!Failing : Host!Fail(j, here)
\* What such a step does to the steps of the jobs, the venv, the bridges and the server.
MovesOn(j) ==
  /\ UNCHANGED <<kind, mixed>> /\ UnderWay(j) /\ HostTypes'
  /\ \A i \in Jobs \ {j} : pc'[i] = pc[i]
VenvMoves(j) ==
  /\ kind[j] # "venv" => venv' = venv
  /\ kind[j] = "venv" /\ pc[j] = "probe" => venv' = venv /\ (venv = "whole" => pc'[j] \in Host!Ended)
  /\ kind[j] = "venv" /\ pc'[j] = "ok" => venv = "whole" /\ venv' = venv
BridgesMoves(j) ==
  /\ kind[j] # "bridges" => UNCHANGED <<bridge, stamp>>
  /\ kind[j] = "bridges" =>
       /\ pc[j] = "stamped" => /\ UNCHANGED <<bridge, stamp>>
                               /\ \/ pc'[j] = "err"
                                  \/ pc'[j] = "ok" /\ stamp = "current"
                                  \/ pc'[j] = "get" /\ (bridge = "none" \/ stamp # "current")
       /\ pc[j] \in {"get", "fetch"} => UNCHANGED <<bridge, stamp>> /\ pc'[j] \in {"fetch", "extract", "err"}
       /\ pc[j] = "extract" => stamp' = stamp /\ (pc'[j] = "write" \/ (pc'[j] = "err" /\ bridge' = bridge))
       /\ pc[j] = "write" => stamp' = stamp /\ pc'[j] = "stamp" /\ bridge' = "whole"
       /\ pc[j] = "stamp" => bridge' = bridge /\ ((pc'[j] = "ok" /\ stamp' = "current") \/ (pc'[j] = "err" /\ stamp' = stamp))
ServerMoves(j) ==
  /\ runnable' \subseteq runnable \cup {j}
  /\ kind[j] # "server" => UNCHANGED <<bin, remote, runnable>>
  /\ \A i \in Jobs \ {j} : remote'[i] = remote[i] /\ (i \in runnable' <=> i \in runnable)
  /\ kind[j] = "server" =>
       /\ pc[j] \in {"listed", "get", "fetch", "unpack"} => UNCHANGED <<remote, runnable>> /\ pc'[j] \in {"get", "fetch", "unpack", "unpacking", "err"}
       /\ pc[j] = "unpacking" => UNCHANGED <<remote, runnable>> /\ (pc'[j] = "err" \/ (pc'[j] = "verify" /\ bin' = "whole"))
       /\ pc[j] = "verify" => UNCHANGED <<remote, runnable>> /\ (pc'[j] = "err" \/ (pc'[j] = "push" /\ bin' = bin))
       /\ pc[j] = "push" => \/ pc'[j] = "chmod" /\ remote'[j] = bin /\ j \notin runnable'
                            \/ pc'[j] = "err" /\ (j \notin runnable' \/ (j \in runnable /\ remote'[j] = remote[j]))
       /\ pc[j] = "chmod" => remote' = remote /\ ((pc'[j] = "err" /\ runnable' = runnable) \/ (pc'[j] = "ok" /\ j \in runnable'))

\* A step of a job from here to next, where one of its kind goes.
LEMMA GoesOn ==
  ASSUME HostTypes, NEW j \in Jobs, NEW here, NEW next, Host!Go(j, here, next), here \notin Host!Ended,
         next \in Host!Ended \cup StepsOf[kind[j]], UNCHANGED <<kind, mixed>>,
         remote' \in [Jobs -> {"none", "part", "whole"}], bin' \in {"none", "part", "whole"}
  PROVE  MovesOn(j) /\ pc[j] = here /\ pc'[j] = next
<1>1. kind[j] \in {"venv", "bridges", "server"} BY DEF HostTypes, Host!Kinds
<1>2. next \in HostSteps \cup Host!Ended BY <1>1 DEF StepsOf, HostSteps
<1>3. pc[j] = here /\ pc'[j] = next /\ (\A i \in Jobs \ {j} : pc'[i] = pc[i]) /\ pc' \in [Jobs -> HostSteps \cup Host!Ended]
  BY <1>2 DEF HostTypes, Host!Go
<1>4. \A i \in Jobs : pc'[i] \in Host!Ended \cup StepsOf[kind[i]] BY <1>3 DEF HostTypes
<1> QED BY <1>3, <1>4 DEF MovesOn, HostTypes, UnderWay

LEMMA DownloadMoves ==
  ASSUME HostTypes, NEW j \in Jobs, Host!Download(j)
  PROVE  MovesOn(j) /\ VenvMoves(j) /\ BridgesMoves(j) /\ ServerMoves(j)
<1>1. kind[j] \in {"venv", "bridges", "server"} BY DEF HostTypes, Host!Kinds
<1>2. UNCHANGED <<kind, mixed, bridge, stamp, bin, remote, runnable>>
  BY DEF Host!Download, Host!GetCached, Host!GetFresh, Host!FetchRename, Host!FetchFails, Host!Same, Host!fileVars
<1>3. venv' = venv \/ (kind[j] = "venv" /\ pc[j] = "fetch" /\ pc'[j] = "err")
  BY DEF Host!Download, Host!GetCached, Host!GetFresh, Host!FetchRename, Host!FetchFails, Host!Same, Host!fileVars, Host!Go, HostTypes
<1>4. PICK here \in {"get", "fetch"}, next \in {"fetch", "err", Host!After[kind[j]]} : Host!Go(j, here, next)
  BY DEF Host!Download, Host!GetCached, Host!GetFresh, Host!FetchRename, Host!FetchFails
<1>5. next \in {"fetch", "err"} \cup {Host!After[kind[j]]} /\ Host!After[kind[j]] \in StepsOf[kind[j]] /\ "fetch" \in StepsOf[kind[j]]
  BY <1>1 DEF Host!After, StepsOf
<1>6. next \in Host!Ended \cup StepsOf[kind[j]] BY <1>5 DEF Host!Ended
<1>7. here \notin Host!Ended BY DEF Host!Ended
<1>8. MovesOn(j) /\ pc[j] = here /\ pc'[j] = next BY <1>2, <1>4, <1>6, <1>7, GoesOn DEF HostTypes
<1>9. VenvMoves(j) BY <1>1, <1>3, <1>5, <1>8 DEF VenvMoves, Host!After
<1>10. BridgesMoves(j) BY <1>1, <1>2, <1>5, <1>8 DEF BridgesMoves, Host!After
<1>11. ServerMoves(j) BY <1>1, <1>2, <1>5, <1>8 DEF ServerMoves, Host!After
<1> QED BY <1>8, <1>9, <1>10, <1>11

LEMMA FailMoves ==
  ASSUME HostTypes, NEW j \in Jobs, NEW here \in Host!Failing, Host!Fail(j, here)
  PROVE  MovesOn(j) /\ VenvMoves(j) /\ BridgesMoves(j) /\ ServerMoves(j)
<1>1. UNCHANGED <<kind, mixed, bridge, stamp, bin, remote, runnable>> BY DEF Host!Fail, Host!Same
<1>2. Host!Go(j, here, "err") /\ (kind[j] # "venv" \/ here = "probe" => venv' = venv) BY DEF Host!Fail
<1>3. here \notin Host!Ended /\ "err" \in Host!Ended BY DEF Host!Ended, Host!Failing
<1>4. MovesOn(j) /\ pc[j] = here /\ pc'[j] = "err" BY <1>1, <1>2, <1>3, GoesOn DEF HostTypes
<1>5. VenvMoves(j) BY <1>2, <1>4 DEF VenvMoves, Host!Ended
<1>6. BridgesMoves(j) BY <1>1, <1>4 DEF BridgesMoves, Host!Failing
<1>7. ServerMoves(j) BY <1>1, <1>4 DEF ServerMoves, Host!Failing
<1> QED BY <1>4, <1>5, <1>6, <1>7

LEMMA VenvStepMoves ==
  ASSUME HostTypes, NEW j \in Jobs, Host!Venv(j)
  PROVE  MovesOn(j) /\ VenvMoves(j) /\ BridgesMoves(j) /\ ServerMoves(j)
<1>1. kind[j] \in {"venv", "bridges", "server"} BY DEF HostTypes, Host!Kinds
<1>2. UNCHANGED <<kind, mixed, bridge, stamp, bin, remote, runnable>>
  BY DEF Host!Venv, Host!VenvProbe, Host!VenvClear, Host!VenvCreate, Host!VenvInstall, Host!VenvCheck, Host!VenvReject,
         Host!VenvSkipsDep, Host!Same, Host!fileVars, Host!Others
<1>3. pc[j] \in Host!Ended \cup StepsOf[kind[j]] BY DEF HostTypes
<1>4. CASE kind[j] = "venv" /\ Host!VenvSkipsDep(j)
  <2>1. UNCHANGED <<pc, venv>> /\ pc[j] = "pip" BY <1>4 DEF Host!VenvSkipsDep, Host!Same, Host!fileVars
  <2>2. MovesOn(j) BY <1>2, <2>1 DEF MovesOn, HostTypes, UnderWay, Host!Ended
  <2>3. VenvMoves(j) BY <1>4, <2>1 DEF VenvMoves
  <2>4. BridgesMoves(j) /\ ServerMoves(j) BY <1>2, <1>4 DEF BridgesMoves, ServerMoves
  <2> QED BY <2>2, <2>3, <2>4
<1>5. ASSUME NEW here \in {"probe", "clear", "create", "pip", "check"}, NEW next \in StepsOf["venv"] \cup {"ok", "err"}, Host!Go(j, here, next),
             here = "probe" => venv' = venv /\ next = (IF venv = "whole" THEN "ok" ELSE "clear"),
             next = "ok" => venv = "whole" /\ venv' = venv
      PROVE  MovesOn(j) /\ VenvMoves(j) /\ BridgesMoves(j) /\ ServerMoves(j)
  <2>1. here \notin Host!Ended BY DEF Host!Ended
  <2>2. pc[j] = here BY <1>5 DEF Host!Go
  <2>3. kind[j] = "venv" BY <1>1, <1>3, <2>1, <2>2 DEF StepsOf
  <2>4. next \in Host!Ended \cup StepsOf[kind[j]] BY <2>3 DEF Host!Ended
  <2>5. MovesOn(j) /\ pc'[j] = next BY <1>2, <1>5, <2>1, <2>4, GoesOn DEF HostTypes
  <2>6. VenvMoves(j) BY <1>5, <2>2, <2>3, <2>5 DEF VenvMoves, Host!Ended
  <2>7. BridgesMoves(j) /\ ServerMoves(j) BY <1>2, <2>3 DEF BridgesMoves, ServerMoves
  <2> QED BY <2>5, <2>6, <2>7
<1>6. "clear" \in StepsOf["venv"] /\ "create" \in StepsOf["venv"] /\ "get" \in StepsOf["venv"] /\ "check" \in StepsOf["venv"] BY DEF StepsOf
<1>7. CASE Host!VenvProbe(j)
  <2>1. Host!Go(j, "probe", IF venv = "whole" THEN "ok" ELSE "clear") /\ venv' = venv BY <1>7 DEF Host!VenvProbe, Host!Same, Host!fileVars
  <2> QED BY <1>5, <1>6, <2>1
<1>8. CASE Host!VenvClear(j) \/ Host!VenvCreate(j) \/ Host!VenvInstall(j) \/ Host!VenvReject(j)
  <2>1. \/ Host!Go(j, "clear", "create") \/ Host!Go(j, "create", "get") \/ Host!Go(j, "pip", "check") \/ Host!Go(j, "check", "err")
    BY <1>8 DEF Host!VenvClear, Host!VenvCreate, Host!VenvInstall, Host!VenvReject
  <2> QED BY <1>5, <1>6, <2>1
<1>9. CASE Host!VenvCheck(j)
  <2>1. Host!Go(j, "check", "ok") /\ venv = "whole" /\ venv' = venv BY <1>9 DEF Host!VenvCheck, Host!Same, Host!fileVars
  <2> QED BY <1>5, <2>1
<1> QED BY <1>4, <1>7, <1>8, <1>9 DEF Host!Venv

LEMMA BridgesStepMoves ==
  ASSUME HostTypes, NEW j \in Jobs, Host!Bridges(j)
  PROVE  MovesOn(j) /\ VenvMoves(j) /\ BridgesMoves(j) /\ ServerMoves(j)
<1>1. kind[j] \in {"venv", "bridges", "server"} BY DEF HostTypes, Host!Kinds
<1>2. UNCHANGED <<kind, mixed, venv, bin, remote, runnable>>
  BY DEF Host!Bridges, Host!BridgesCached, Host!BridgesStale, Host!BridgesOpen, Host!BridgesWrite, Host!BridgesStamp, Host!Same,
         Host!fileVars, Host!BridgeOthers
<1>3. pc[j] \in Host!Ended \cup StepsOf[kind[j]] BY DEF HostTypes
<1>4. PICK here \in {"stamped", "extract", "write", "stamp"}, next \in {"ok", "get", "write", "stamp"} :
        /\ Host!Go(j, here, next)
        /\ \/ here = "stamped" /\ next = "ok" /\ stamp = "current" /\ UNCHANGED <<bridge, stamp>>
           \/ here = "stamped" /\ next = "get" /\ (bridge = "none" \/ stamp # "current") /\ UNCHANGED <<bridge, stamp>>
           \/ here = "extract" /\ next = "write" /\ stamp' = stamp
           \/ here = "write" /\ next = "stamp" /\ bridge' = "whole" /\ stamp' = stamp
           \/ here = "stamp" /\ next = "ok" /\ stamp' = "current" /\ bridge' = bridge
  BY DEF Host!Bridges, Host!BridgesCached, Host!BridgesStale, Host!BridgesOpen, Host!BridgesWrite, Host!BridgesStamp, Host!Same,
         Host!fileVars
<1>5. here \notin Host!Ended BY DEF Host!Ended
<1>6. pc[j] = here BY <1>4 DEF Host!Go
<1>7. kind[j] = "bridges" BY <1>1, <1>3, <1>5, <1>6 DEF StepsOf
<1>8. next \in Host!Ended \cup StepsOf[kind[j]] BY <1>7 DEF Host!Ended, StepsOf
<1>9. MovesOn(j) /\ pc'[j] = next BY <1>2, <1>4, <1>5, <1>8, GoesOn DEF HostTypes
<1>10. BridgesMoves(j) BY <1>4, <1>6, <1>7, <1>9 DEF BridgesMoves
<1>11. VenvMoves(j) /\ ServerMoves(j) BY <1>2, <1>7 DEF VenvMoves, ServerMoves
<1> QED BY <1>9, <1>10, <1>11

LEMMA ServerStepMoves ==
  ASSUME HostTypes, NEW j \in Jobs, Host!Server(j)
  PROVE  MovesOn(j) /\ VenvMoves(j) /\ BridgesMoves(j) /\ ServerMoves(j)
<1> USE DEF Host!ServerListed, Host!ServerUnpack, Host!ServerUnpacked, Host!ServerCorrupt, Host!ServerVerify, Host!ServerReject,
            Host!ServerPush, Host!ServerPushFails, Host!ServerChmod
<1>1. kind[j] \in {"venv", "bridges", "server"} BY DEF HostTypes, Host!Kinds
<1>2. UNCHANGED <<kind, mixed, venv, bridge, stamp>> BY DEF Host!Server, Host!Same, Host!fileVars, Host!ServerOthers
<1>3. pc[j] \in Host!Ended \cup StepsOf[kind[j]] BY DEF HostTypes
<1>4. bin' \in {"none", "part", "whole"} BY DEF Host!Server, Host!Same, Host!fileVars, HostTypes
<1>5. /\ remote' \in [Jobs -> {"none", "part", "whole"}]
      /\ \A i \in Jobs \ {j} : remote'[i] = remote[i]
  <2>1. remote' = remote \/ remote' = [remote EXCEPT ![j] = bin] \/ remote' = [remote EXCEPT ![j] = "part"]
    BY DEF Host!Server, Host!Same, Host!fileVars, Host!Left
  <2> QED BY <2>1 DEF HostTypes
<1>6. /\ runnable' \subseteq runnable \cup {j}
      /\ \A i \in Jobs \ {j} : i \in runnable' <=> i \in runnable
  <2>1. runnable' = runnable \/ runnable' = runnable \ {j} \/ runnable' = runnable \cup {j}
    BY DEF Host!Server, Host!Same, Host!fileVars, Host!Left
  <2> QED BY <2>1
<1>7. PICK here \in {"listed", "unpack", "unpacking", "verify", "push", "chmod"}, next \in {"get", "unpacking", "verify", "push", "chmod", "ok", "err"} :
        /\ Host!Go(j, here, next)
        /\ \/ here \in {"listed", "unpack"} /\ next \in {"get", "unpacking"} /\ UNCHANGED <<remote, runnable>>
           \/ here = "unpacking" /\ UNCHANGED <<remote, runnable>> /\ (next = "err" \/ (next = "verify" /\ bin' = "whole"))
           \/ here = "verify" /\ UNCHANGED <<remote, runnable>> /\ (next = "err" \/ (next = "push" /\ bin' = bin))
           \/ here = "push" /\ next = "chmod" /\ remote' = [remote EXCEPT ![j] = bin] /\ runnable' = runnable \ {j}
           \/ here = "push" /\ next = "err" /\ (runnable' = runnable \ {j} \/ UNCHANGED <<remote, runnable>>)
           \/ here = "chmod" /\ next = "ok" /\ remote' = remote /\ runnable' = runnable \cup {j}
  BY DEF Host!Server, Host!Same, Host!fileVars, Host!Left
<1>8. here \notin Host!Ended BY DEF Host!Ended
<1>9. pc[j] = here BY <1>7 DEF Host!Go
<1>10. kind[j] = "server" BY <1>1, <1>3, <1>8, <1>9 DEF StepsOf
<1>11. next \in Host!Ended \cup StepsOf[kind[j]] BY <1>10 DEF Host!Ended, StepsOf
<1>12. MovesOn(j) /\ pc'[j] = next BY <1>2, <1>4, <1>5, <1>7, <1>8, <1>11, GoesOn
<1>13. ServerMoves(j)
  <2>1. CASE here = "push"
    <3>1. \/ next = "chmod" /\ remote'[j] = bin /\ j \notin runnable'
          \/ next = "err" /\ (j \notin runnable' \/ (runnable' = runnable /\ remote' = remote))
      BY <1>7, <2>1 DEF HostTypes
    <3>2. next = "err" /\ runnable' = runnable /\ remote' = remote => j \notin runnable' \/ (j \in runnable /\ remote'[j] = remote[j]) OBVIOUS
    <3>3. \/ next = "chmod" /\ remote'[j] = bin /\ j \notin runnable'
          \/ next = "err" /\ (j \notin runnable' \/ (j \in runnable /\ remote'[j] = remote[j]))
      BY <3>1, <3>2
    <3> QED BY <1>5, <1>6, <1>9, <1>10, <1>12, <2>1, <3>3 DEF ServerMoves
  <2>2. CASE here = "chmod" BY <1>5, <1>6, <1>7, <1>9, <1>10, <1>12, <2>2 DEF ServerMoves
  <2>3. CASE here \in {"listed", "unpack"} BY <1>5, <1>6, <1>7, <1>9, <1>10, <1>12, <2>3 DEF ServerMoves
  <2>4. CASE here \in {"unpacking", "verify"} BY <1>5, <1>6, <1>7, <1>9, <1>10, <1>12, <2>4 DEF ServerMoves
  <2> QED BY <2>1, <2>2, <2>3, <2>4
<1>14. VenvMoves(j) /\ BridgesMoves(j) BY <1>2, <1>10 DEF VenvMoves, BridgesMoves
<1> QED BY <1>12, <1>13, <1>14

LEMMA JobMoves ==
  ASSUME HostTypes, NEW j \in Jobs, JobStep(j)
  PROVE  MovesOn(j) /\ VenvMoves(j) /\ BridgesMoves(j) /\ ServerMoves(j)
BY DownloadMoves, VenvStepMoves, BridgesStepMoves, ServerStepMoves, FailMoves DEF JobStep

\* What the other steps do: a job starts or begins again, adbq stops, the runtime is removed.
LEMMA HostNext ==
  ASSUME HostTypes, Host!Next
  PROVE  \/ \E j \in Jobs : JobStep(j) \/ Host!Start(j) \/ Host!Again(j)
         \/ Host!Crash \/ Host!RemoveRuntime
BY DEF Host!Next, JobStep

\* What a job needs to start, begin again, and what a crash or a removal leaves alone.
LEMMA Starting ==
  ASSUME HostTypes, NEW j \in Jobs, Host!Start(j)
  PROVE  /\ UNCHANGED <<kind, venv, bridge, stamp, bin, remote, runnable>> /\ HostTypes'
         /\ pc[j] = "idle" /\ pc'[j] \in {"probe", "stamped", "listed"} /\ (kind[j] = "venv" => pc'[j] = "probe")
         /\ \A i \in Jobs \ {j} : pc'[i] = pc[i]
         /\ mixed' = mixed \cup Host!Rivals(j) \cup (IF Host!Rivals(j) = {} THEN {} ELSE {j})
<1>1. kind[j] \in {"venv", "bridges", "server"} BY DEF HostTypes, Host!Kinds
<1>2. UNCHANGED <<kind, venv, bridge, stamp, bin, remote, runnable>> BY DEF Host!Start, Host!fileVars
<1>3. PICK next : next = Host!StartPc[kind[j]] OBVIOUS
<1>4. next \in {"probe", "stamped", "listed"} /\ (kind[j] = "venv" => next = "probe") BY <1>1, <1>3 DEF Host!StartPc
<1>5. next \in StepsOf[kind[j]] BY <1>1, <1>3 DEF Host!StartPc, StepsOf
<1>6. pc[j] = "idle" /\ pc' = [pc EXCEPT ![j] = next] BY <1>3 DEF Host!Start, Host!Go
<1>7. pc'[j] = next /\ \A i \in Jobs \ {j} : pc'[i] = pc[i] BY <1>6 DEF HostTypes
<1>8. next \in HostSteps BY <1>4 DEF HostSteps
<1>9. pc' \in [Jobs -> HostSteps \cup Host!Ended] BY <1>6, <1>8 DEF HostTypes
<1>10. HostTypes' BY <1>2, <1>5, <1>7, <1>9 DEF HostTypes
<1>11. mixed' = mixed \cup Host!Rivals(j) \cup (IF Host!Rivals(j) = {} THEN {} ELSE {j}) BY DEF Host!Start
<1> QED BY <1>2, <1>4, <1>6, <1>7, <1>10, <1>11

\* Other steps that only end jobs, or take a venv away from all of them.
LEMMA Ending ==
  ASSUME HostTypes, Host!Crash \/ Host!RemoveRuntime \/ \E j \in Jobs : Host!Again(j)
  PROVE  /\ UNCHANGED <<kind, bridge, stamp, bin, remote, runnable>> /\ HostTypes' /\ mixed \subseteq mixed'
         /\ \A i \in Jobs : pc'[i] = pc[i] \/ pc'[i] \in {"idle", "err"}
         /\ venv' = venv \/ \A i \in Jobs : kind[i] = "venv" => i \in mixed'
         /\ \A i \in Jobs : kind[i] # "venv" => (i \in mixed' <=> i \in mixed)
<1>1. CASE Host!Crash
  <2>1. UNCHANGED <<kind, venv, bridge, stamp, bin, remote, runnable, mixed>> BY <1>1 DEF Host!Crash, Host!fileVars
  <2>2. pc' = [j \in Jobs |-> IF pc[j] \in Host!Ended THEN pc[j] ELSE "err"] BY <1>1 DEF Host!Crash
  <2>3. HostTypes' BY <2>1, <2>2 DEF HostTypes, Host!Ended
  <2> QED BY <2>1, <2>2, <2>3
<1>2. CASE Host!RemoveRuntime
  <2>1. UNCHANGED <<kind, pc, bridge, stamp, bin, remote, runnable>> BY <1>2 DEF Host!RemoveRuntime, Host!Others
  <2>2. mixed' = mixed \cup {j \in Jobs : kind[j] = "venv"} BY <1>2 DEF Host!RemoveRuntime
  <2> QED BY <2>1, <2>2 DEF HostTypes
<1>3. ASSUME NEW j \in Jobs, Host!Again(j)
      PROVE  /\ UNCHANGED <<kind, bridge, stamp, bin, remote, runnable, venv, mixed>> /\ HostTypes'
             /\ \A i \in Jobs : pc'[i] = pc[i] \/ pc'[i] \in {"idle", "err"}
  <2>1. UNCHANGED <<kind, bridge, stamp, bin, remote, runnable, venv, mixed>> BY <1>3 DEF Host!Again, Host!Same, Host!fileVars
  <2>2. pc' = [pc EXCEPT ![j] = "idle"] BY <1>3 DEF Host!Again, Host!Go
  <2> QED BY <2>1, <2>2 DEF HostTypes, Host!Ended
<1> QED BY <1>1, <1>2, <1>3

LEMMA ApartStays ==
  ASSUME HostTypes, HostTypes', Apart, UNCHANGED kind, mixed \subseteq mixed',
         \A i \in Jobs : UnderWay(i)' => UnderWay(i)
  PROVE  Apart'
<1> SUFFICES ASSUME NEW j \in Jobs, UnderWay(j)', j \notin mixed' PROVE Host!Rivals(j)' = {} BY DEF Apart
<1>1. Host!Rivals(j) = {} BY DEF Apart
<1>2. Host!Rivals(j)' \subseteq Host!Rivals(j) BY DEF Host!Rivals, UnderWay
<1> QED BY <1>1, <1>2

LEMMA HostTypesStep == HostTypes /\ [Host!Next]_Host!vars => HostTypes'
<1> SUFFICES ASSUME HostTypes, [Host!Next]_Host!vars PROVE HostTypes' OBVIOUS
<1>1. CASE UNCHANGED Host!vars BY <1>1 DEF Host!vars, Host!jobVars, Host!fileVars, HostTypes
<1>2. CASE Host!Next BY <1>2, HostNext, JobMoves, Starting, Ending DEF MovesOn
<1> QED BY <1>1, <1>2

LEMMA ApartStep == HostTypes /\ Apart /\ [Host!Next]_Host!vars => Apart'
<1> SUFFICES ASSUME HostTypes, Apart, [Host!Next]_Host!vars PROVE Apart' OBVIOUS
<1>1. HostTypes' BY HostTypesStep
<1>2. CASE UNCHANGED Host!vars BY <1>1, <1>2, ApartStays DEF Host!vars, Host!jobVars, UnderWay
<1>3. ASSUME NEW j \in Jobs, JobStep(j) PROVE Apart'
  <2>1. MovesOn(j) BY <1>3, JobMoves
  <2> QED BY <1>1, <2>1, ApartStays DEF MovesOn, UnderWay
<1>4. CASE Host!Crash \/ Host!RemoveRuntime \/ \E j \in Jobs : Host!Again(j)
  <2>1. UNCHANGED kind /\ mixed \subseteq mixed' /\ \A i \in Jobs : pc'[i] = pc[i] \/ pc'[i] \in {"idle", "err"} BY <1>4, Ending
  <2> QED BY <1>1, <2>1, ApartStays DEF UnderWay, Host!Ended
<1>5. ASSUME NEW j \in Jobs, Host!Start(j) PROVE Apart'
  <2>1. /\ UNCHANGED kind /\ \A i \in Jobs \ {j} : pc'[i] = pc[i]
        /\ mixed' = mixed \cup Host!Rivals(j) \cup (IF Host!Rivals(j) = {} THEN {} ELSE {j})
    BY <1>5, Starting
  <2> SUFFICES ASSUME NEW i \in Jobs, UnderWay(i)', i \notin mixed' PROVE Host!Rivals(i)' = {} BY DEF Apart
  <2>2. CASE i = j
    <3>1. Host!Rivals(j) = {} BY <2>1, <2>2
    <3>2. Host!Rivals(j)' \subseteq Host!Rivals(j) BY <2>1 DEF Host!Rivals
    <3> QED BY <2>2, <3>1, <3>2
  <2>3. CASE i # j
    <3>1. UnderWay(i) /\ i \notin mixed /\ i \notin Host!Rivals(j) BY <2>1, <2>3 DEF UnderWay
    <3>2. Host!Rivals(i) = {} BY <3>1 DEF Apart
    <3>3. kind[i] # kind[j] BY <2>3, <3>1 DEF Host!Rivals, UnderWay
    <3>4. Host!Rivals(i)' \subseteq Host!Rivals(i) BY <2>1, <3>3 DEF Host!Rivals
    <3> QED BY <3>2, <3>4
  <2> QED BY <2>2, <2>3
<1> QED BY <1>2, <1>3, <1>4, <1>5, HostNext

LEMMA VenvReadyStep == HostTypes /\ Apart /\ VenvReady /\ [Host!Next]_Host!vars => VenvReady'
<1> SUFFICES ASSUME HostTypes, Apart, VenvReady, [Host!Next]_Host!vars PROVE VenvReady' OBVIOUS
<1>1. CASE UNCHANGED Host!vars BY <1>1 DEF Host!vars, Host!jobVars, Host!fileVars, VenvReady, UnderWay
<1>2. ASSUME NEW j \in Jobs, JobStep(j) PROVE VenvReady'
  <2>1. MovesOn(j) /\ VenvMoves(j) BY <1>2, JobMoves
  <2> SUFFICES ASSUME NEW k \in Jobs, kind[k] = "venv", k \notin mixed, pc'[k] = "ok"
               PROVE  venv' = "whole" /\ \A i \in Jobs : kind[i] = "venv" /\ UnderWay(i)' => pc'[i] = "probe"
    BY <2>1 DEF VenvReady, MovesOn
  <2>2. CASE k = j
    <3>1. venv' = "whole" BY <2>1, <2>2 DEF VenvMoves
    <3>2. Host!Rivals(j) = {} BY <2>1, <2>2 DEF Apart, MovesOn
    <3>3. \A i \in Jobs \ {j} : kind[i] = "venv" => ~UnderWay(i)' BY <2>1, <2>2, <3>2 DEF MovesOn, Host!Rivals, UnderWay
    <3>4. ~UnderWay(j)' BY <2>2 DEF UnderWay, Host!Ended
    <3> QED BY <3>1, <3>3, <3>4
  <2>3. CASE k # j
    <3>1. pc[k] = "ok" BY <2>1, <2>3 DEF MovesOn
    <3>2. venv = "whole" /\ \A i \in Jobs : kind[i] = "venv" /\ UnderWay(i) => pc[i] = "probe" BY <3>1 DEF VenvReady
    <3>3. venv' = venv /\ (kind[j] = "venv" => ~UnderWay(j)') BY <2>1, <3>2 DEF VenvMoves, MovesOn, UnderWay
    <3> QED BY <2>1, <3>2, <3>3 DEF MovesOn, UnderWay
  <2> QED BY <2>2, <2>3
<1>3. CASE Host!Crash \/ Host!RemoveRuntime \/ \E j \in Jobs : Host!Again(j)
  <2>1. /\ UNCHANGED kind /\ mixed \subseteq mixed' /\ \A i \in Jobs : pc'[i] = pc[i] \/ pc'[i] \in {"idle", "err"}
        /\ venv' = venv \/ \A i \in Jobs : kind[i] = "venv" => i \in mixed'
    BY <1>3, Ending
  <2> QED BY <2>1 DEF VenvReady, UnderWay, Host!Ended
<1>4. ASSUME NEW j \in Jobs, Host!Start(j) PROVE VenvReady'
  <2>1. /\ UNCHANGED <<kind, venv>> /\ mixed \subseteq mixed' /\ \A i \in Jobs \ {j} : pc'[i] = pc[i]
        /\ pc'[j] \in {"probe", "stamped", "listed"} /\ (kind[j] = "venv" => pc'[j] = "probe")
    BY <1>4, Starting
  <2> QED BY <2>1 DEF VenvReady, UnderWay
<1> QED BY <1>1, <1>2, <1>3, <1>4, HostNext

\* What BridgesReady says of one job.
BridgesAt(j) ==
  /\ pc[j] \in {"get", "fetch", "extract", "write"} => stamp # "current"
  /\ pc[j] = "stamp" => bridge = "whole"
  /\ pc[j] = "ok" => stamp = "current"

LEMMA BridgesReadyStep == HostTypes /\ Apart /\ BridgesReady /\ [Host!Next]_Host!vars => BridgesReady'
<1> SUFFICES ASSUME HostTypes, Apart, BridgesReady, [Host!Next]_Host!vars, Host!BridgesApart'
             PROVE  /\ stamp' = "current" => bridge' = "whole"
                    /\ \A j \in Jobs : kind'[j] = "bridges" => BridgesAt(j)'
  BY DEF BridgesReady, BridgesAt
<1>1. CASE UNCHANGED Host!vars BY <1>1 DEF Host!vars, Host!jobVars, Host!fileVars, BridgesReady, BridgesAt, Host!BridgesApart
<1>2. ASSUME NEW j \in Jobs, JobStep(j)
      PROVE  /\ stamp' = "current" => bridge' = "whole"
             /\ \A i \in Jobs : kind'[i] = "bridges" => BridgesAt(i)'
  <2>1. MovesOn(j) /\ BridgesMoves(j) BY <1>2, JobMoves
  <2>2. Host!BridgesApart /\ UNCHANGED <<kind, mixed>> BY <2>1 DEF MovesOn, Host!BridgesApart
  <2>3. (stamp = "current" => bridge = "whole") /\ \A i \in Jobs : kind[i] = "bridges" => BridgesAt(i)
    BY <2>2 DEF BridgesReady, BridgesAt
  <2>4. CASE kind[j] # "bridges" BY <2>1, <2>2, <2>3, <2>4 DEF MovesOn, BridgesMoves, BridgesAt
  <2>5. CASE kind[j] = "bridges"
    <3>1. UnderWay(j) /\ j \notin mixed BY <2>1, <2>2, <2>5 DEF MovesOn, Host!BridgesApart
    <3>2. \A i \in Jobs \ {j} : kind[i] = "bridges" => pc[i] \in Host!Ended /\ pc'[i] = pc[i]
      BY <2>1, <2>5, <3>1 DEF Apart, Host!Rivals, MovesOn
    <3>3. pc[j] \in {"stamped", "get", "fetch", "extract", "write", "stamp"} BY <2>5, <3>1 DEF HostTypes, StepsOf, UnderWay
    <3>4. stamp' = "current" => bridge' = "whole" BY <2>1, <2>3, <2>5, <3>3 DEF BridgesMoves, BridgesAt
    <3>5. BridgesAt(j)' BY <2>1, <2>3, <2>5, <3>3 DEF BridgesMoves, BridgesAt
    <3>6. stamp = "current" => stamp' = "current" BY <2>1, <2>5, <3>3 DEF BridgesMoves
    <3>7. ASSUME NEW i \in Jobs \ {j}, kind[i] = "bridges" PROVE BridgesAt(i)'
      BY <2>3, <3>2, <3>6, <3>7 DEF BridgesAt, Host!Ended
    <3> QED BY <2>2, <3>4, <3>5, <3>7
  <2> QED BY <2>4, <2>5
<1>3. CASE Host!Crash \/ Host!RemoveRuntime \/ \E j \in Jobs : Host!Again(j)
  <2>1. /\ UNCHANGED <<kind, bridge, stamp>> /\ mixed \subseteq mixed'
        /\ \A i \in Jobs : pc'[i] = pc[i] \/ pc'[i] \in {"idle", "err"}
    BY <1>3, Ending
  <2>2. Host!BridgesApart BY <2>1 DEF Host!BridgesApart
  <2> QED BY <2>1, <2>2 DEF BridgesReady, BridgesAt
<1>4. ASSUME NEW j \in Jobs, Host!Start(j)
      PROVE  /\ stamp' = "current" => bridge' = "whole"
             /\ \A i \in Jobs : kind'[i] = "bridges" => BridgesAt(i)'
  <2>1. /\ UNCHANGED <<kind, bridge, stamp>> /\ mixed \subseteq mixed' /\ \A i \in Jobs \ {j} : pc'[i] = pc[i]
        /\ pc'[j] \in {"probe", "stamped", "listed"}
    BY <1>4, Starting
  <2>2. Host!BridgesApart BY <2>1 DEF Host!BridgesApart
  <2> QED BY <2>1, <2>2 DEF BridgesReady, BridgesAt
<1> QED BY <1>1, <1>2, <1>3, <1>4, HostNext

\* What ServerReady says of one job.
ServerAt(j) ==
  /\ pc[j] \in {"verify", "push"} => bin = "whole"
  /\ pc[j] = "chmod" => remote[j] = "whole"
  /\ pc[j] = "ok" => j \in runnable

LEMMA RunnableStep == HostTypes /\ runnable \subseteq Jobs /\ [Host!Next]_Host!vars => runnable' \subseteq Jobs
<1> SUFFICES ASSUME HostTypes, runnable \subseteq Jobs, [Host!Next]_Host!vars PROVE runnable' \subseteq Jobs OBVIOUS
<1>1. CASE UNCHANGED Host!vars BY <1>1 DEF Host!vars, Host!fileVars
<1>2. ASSUME NEW j \in Jobs, JobStep(j) PROVE runnable' \subseteq Jobs BY <1>2, JobMoves DEF ServerMoves
<1>3. CASE \E j \in Jobs : Host!Start(j) BY <1>3, Starting
<1>4. CASE Host!Crash \/ Host!RemoveRuntime \/ \E j \in Jobs : Host!Again(j) BY <1>4, Ending
<1> QED BY <1>1, <1>2, <1>3, <1>4, HostNext

LEMMA ServerReadyStep == HostTypes /\ Apart /\ ServerReady /\ [Host!Next]_Host!vars => ServerReady'
<1> SUFFICES ASSUME HostTypes, Apart, ServerReady, [Host!Next]_Host!vars, NEW i \in Jobs, i \notin mixed'
             PROVE  /\ kind'[i] = "server" => ServerAt(i)'
                    /\ i \in runnable' => remote'[i] = "whole"
  BY RunnableStep DEF ServerReady, ServerAt
<1>0. i \notin mixed => (kind[i] = "server" => ServerAt(i)) /\ (i \in runnable => remote[i] = "whole")
  BY DEF ServerReady, ServerAt
<1>1. CASE UNCHANGED Host!vars BY <1>0, <1>1 DEF Host!vars, Host!jobVars, Host!fileVars, ServerAt
<1>2. ASSUME NEW j \in Jobs, JobStep(j)
      PROVE  /\ kind'[i] = "server" => ServerAt(i)'
             /\ i \in runnable' => remote'[i] = "whole"
  <2>1. MovesOn(j) /\ ServerMoves(j) BY <1>2, JobMoves
  <2>2. UNCHANGED <<kind, mixed>> /\ i \notin mixed BY <2>1 DEF MovesOn
  <2>3. CASE kind[j] # "server"
    <3>1. UNCHANGED <<bin, remote, runnable>> BY <2>1, <2>3 DEF ServerMoves
    <3>2. kind[i] = "server" => pc'[i] = pc[i] BY <2>1, <2>3 DEF MovesOn
    <3> QED BY <1>0, <2>2, <3>1, <3>2 DEF ServerAt
  <2>4. CASE kind[j] = "server" /\ i # j
    <3>1. remote'[i] = remote[i] /\ (i \in runnable' <=> i \in runnable) /\ pc'[i] = pc[i] BY <2>1, <2>4 DEF ServerMoves, MovesOn
    <3>2. kind[i] = "server" => pc[i] \in Host!Ended
      <4>1. kind[i] = "server" => j \in Host!Rivals(i) BY <2>1, <2>4 DEF MovesOn, Host!Rivals, UnderWay
      <4> QED BY <2>2, <4>1 DEF Apart, UnderWay
    <3>3. kind[i] = "server" => ServerAt(i)' BY <1>0, <2>2, <3>1, <3>2 DEF ServerAt, Host!Ended
    <3> QED BY <1>0, <2>2, <3>1, <3>3
  <2>5. CASE kind[j] = "server" /\ i = j
    <3>1. pc[j] \in {"listed", "get", "fetch", "unpack", "unpacking", "verify", "push", "chmod"}
      BY <2>1, <2>5 DEF HostTypes, StepsOf, MovesOn, UnderWay
    <3>2. ServerAt(j) /\ (j \in runnable => remote[j] = "whole") BY <1>0, <2>2, <2>5
    <3>3. CASE pc[j] \in {"listed", "get", "fetch", "unpack"} BY <2>1, <2>5, <3>2, <3>3 DEF ServerMoves, ServerAt
    <3>4. CASE pc[j] \in {"unpacking", "verify"} BY <2>1, <2>5, <3>2, <3>4 DEF ServerMoves, ServerAt
    <3>5. CASE pc[j] \in {"push", "chmod"} BY <2>1, <2>5, <3>2, <3>5 DEF ServerMoves, ServerAt
    <3> QED BY <3>1, <3>3, <3>4, <3>5
  <2> QED BY <2>3, <2>4, <2>5
<1>3. CASE Host!Crash \/ Host!RemoveRuntime \/ \E j \in Jobs : Host!Again(j)
  <2>1. /\ UNCHANGED <<kind, bin, remote, runnable>> /\ mixed \subseteq mixed'
        /\ pc'[i] = pc[i] \/ pc'[i] \in {"idle", "err"}
    BY <1>3, Ending
  <2> QED BY <1>0, <2>1 DEF ServerAt
<1>4. ASSUME NEW j \in Jobs, Host!Start(j)
      PROVE  /\ kind'[i] = "server" => ServerAt(i)'
             /\ i \in runnable' => remote'[i] = "whole"
  <2>1. /\ UNCHANGED <<kind, bin, remote, runnable>> /\ mixed \subseteq mixed'
        /\ pc'[i] = pc[i] \/ pc'[i] \in {"probe", "stamped", "listed"}
    BY <1>4, Starting
  <2> QED BY <1>0, <2>1 DEF ServerAt
<1> QED BY <1>1, <1>2, <1>3, <1>4, HostNext

\* What a job reports ready is whole, the stamp of the bridges tells the truth and an
\* executable server was verified, over any jobs, failures and crashes
\* (frida_tools.go, frida_install.go).
THEOREM HostIsReady == Host!Spec => [](Host!ReadyIsWhole /\ Host!CacheHeals /\ Host!NothingHalfRuns)
<1>1. Host!Init => HostInv BY HostStart
<1>2. HostInv /\ [Host!Next]_Host!vars => HostInv'
  BY HostTypesStep, ApartStep, VenvReadyStep, BridgesReadyStep, ServerReadyStep DEF HostInv
<1>3. HostInv => Host!ReadyIsWhole /\ Host!CacheHeals /\ Host!NothingHalfRuns BY HostInvIsWhole
<1> QED BY <1>1, <1>2, <1>3, PTL DEF Host!Spec

-----------------------------------------------------------------------------
(* Frida's sessions: what they leave behind.                               *)

\* What the stages of one session say of each other: a session is stopped once it is open
\* and in the map, its driver runs from its registration on, and what it holds is released
\* once the driver has gone.
Staged(s) ==
  /\ s \in fridaSess \/ stop[s] # "no" => sessionCall[s] = "open"
  /\ sessionCall[s] = "open" => s \in fridaSess \/ stop[s] # "no"
  /\ driver[s] # "none" => sessionCall[s] \in {"register", "open"}
  /\ s \in done => driver[s] = "gone"
  /\ stop[s] = "done" => s \in done /\ s \notin tmp \cup sessionFwd
  /\ s \in tmp \cup sessionFwd => sessionCall[s] \in {"forward", "spawn", "register", "open"}
  /\ app = "gone" /\ s \in fridaSess => stop[s] = "done"
SessionStages == Session!TypeOK /\ \A s \in Sessions : Staged(s)

LEMMA SessionTypes == Session!Init => Session!TypeOK
<1> SUFFICES ASSUME Session!Init PROVE Session!TypeOK OBVIOUS
<1>1. 0 \in 0 .. MaxMsgs /\ 0 \in 0 .. Session!Over BY SessionAssumption DEF Session!Over
<1>2. sessionSeq \in [Sessions -> 0 .. MaxMsgs] /\ last \in [Sessions -> 0 .. Session!Over] BY <1>1 DEF Session!Init
<1> QED BY <1>2 DEF Session!TypeOK, Session!Init

LEMMA StagesStart == Session!Init => SessionStages
<1> SUFFICES ASSUME Session!Init PROVE SessionStages OBVIOUS
<1>1. \A s \in Sessions : Staged(s) BY DEF Session!Init, Staged
<1> QED BY <1>1, SessionTypes DEF SessionStages

LEMMA StagesLeaveNothing == SessionStages => Session!NothingLeftBehind
<1> SUFFICES ASSUME SessionStages, NEW s \in Sessions, s \in tmp \cup sessionFwd \/ driver[s] \in {"up", "told"}
             PROVE  \/ sessionCall[s] \in {"forward", "spawn", "register"}
                    \/ app # "gone" /\ s \in fridaSess
                    \/ stop[s] = "wait" /\ (app # "gone" \/ s \notin fridaSess)
  BY DEF Session!NothingLeftBehind
<1>1. Staged(s) /\ stop[s] \in {"no", "wait", "done"} BY DEF SessionStages, Session!TypeOK
<1> QED BY <1>1 DEF Staged

\* The steps of a start.
LEMMA StartTypes ==
  ASSUME SessionStages, NEW s \in Sessions, Session!Start(s) \/ Session!StartAppWithFrida(s)
  PROVE  Session!TypeOK'
<1>1. Session!TypeOK BY DEF SessionStages
<1> USE DEF Session!Go, Session!host, Session!page, Session!server_vars
<1>2. UNCHANGED <<ended, sub, overtook, last, stop, app, done>> /\ {server', runtime', managed'} \subseteq BOOLEAN
  BY <1>1 DEF Session!Start, Session!StartAppWithFrida, Session!EnsureRunning, Session!EnsureStart, Session!EnsureFails, Session!Prepare,
              Session!Launch, Session!ForwardFridaPort, Session!Spawn, Session!Register, Session!TypeOK
<1>3. tmp' \subseteq tmp \cup {s} /\ sessionFwd' \subseteq sessionFwd \cup {s} /\ fridaSess' \subseteq fridaSess \cup {s}
  BY DEF Session!Start, Session!StartAppWithFrida, Session!EnsureRunning, Session!EnsureStart, Session!EnsureFails, Session!Prepare,
         Session!Launch, Session!ForwardFridaPort, Session!Spawn, Session!Register, Session!CleanUp
<1>4. \E next \in {"server", "wait", "runtime", "launch", "forward", "spawn", "register", "open", "failed"} :
        sessionCall' = [sessionCall EXCEPT ![s] = next]
  BY DEF Session!Start, Session!StartAppWithFrida, Session!EnsureRunning, Session!EnsureStart, Session!EnsureFails, Session!Prepare,
         Session!Launch, Session!ForwardFridaPort, Session!Spawn, Session!Register
<1>5. driver' = driver \/ driver' = [driver EXCEPT ![s] = "up"]
  BY DEF Session!Start, Session!StartAppWithFrida, Session!EnsureRunning, Session!EnsureStart, Session!EnsureFails, Session!Prepare,
         Session!Launch, Session!ForwardFridaPort, Session!Spawn, Session!Register
<1>6. sessionSeq' = sessionSeq \/ \E n \in 0 .. MaxMsgs : sessionSeq' = [sessionSeq EXCEPT ![s] = n]
  BY SessionAssumption
     DEF Session!Start, Session!StartAppWithFrida, Session!EnsureRunning, Session!EnsureStart, Session!EnsureFails, Session!Prepare,
         Session!Launch, Session!ForwardFridaPort, Session!Spawn, Session!Register
<1>7. sessionSeq' \in [Sessions -> 0 .. MaxMsgs] BY <1>1, <1>6 DEF Session!TypeOK
<1>8. driver' \in [Sessions -> {"none", "up", "told", "gone"}] BY <1>1, <1>5 DEF Session!TypeOK
<1>9. sessionCall' \in [Sessions -> {"idle", "server", "wait", "runtime", "launch", "forward", "spawn", "register", "open", "failed"}]
  BY <1>1, <1>4 DEF Session!TypeOK
<1>10. tmp' \cup sessionFwd' \cup fridaSess' \cup done' \cup ended' \cup sub' \cup overtook' \subseteq Sessions
  BY <1>1, <1>2, <1>3 DEF Session!TypeOK
<1> QED BY <1>1, <1>2, <1>7, <1>8, <1>9, <1>10 DEF Session!TypeOK

\* A step of one session is none of another's.
Elsewhere(s) ==
  /\ app' = app
  /\ \A t \in Sessions \ {s} :
       /\ sessionCall'[t] = sessionCall[t] /\ driver'[t] = driver[t] /\ stop'[t] = stop[t]
       /\ (t \in fridaSess' <=> t \in fridaSess) /\ (t \in done' <=> t \in done)
       /\ (t \in tmp' <=> t \in tmp) /\ (t \in sessionFwd' <=> t \in sessionFwd)
StaysStaged(s) == Elsewhere(s) /\ Staged(s)'

LEMMA StagedElsewhere ==
  ASSUME SessionStages, NEW s \in Sessions, StaysStaged(s)
  PROVE  \A t \in Sessions : Staged(t)'
<1>1. ASSUME NEW t \in Sessions \ {s} PROVE Staged(t)'
  <2>1. Staged(t) BY DEF SessionStages
  <2> QED BY <2>1 DEF StaysStaged, Elsewhere, Staged
<1> QED BY <1>1 DEF StaysStaged

LEMMA StartStaged ==
  ASSUME SessionStages, NEW s \in Sessions, Session!Start(s) \/ Session!StartAppWithFrida(s)
  PROVE  StaysStaged(s)
<1>1. Session!TypeOK /\ Staged(s) BY DEF SessionStages
<1> USE DEF Session!Go, Session!host, Session!page, Session!server_vars
<1>2. CASE \/ Session!StartAppWithFrida(s) \/ Session!EnsureRunning(s) \/ Session!EnsureStart(s) \/ Session!EnsureFails(s) \/ Session!Prepare(s)
  <2>1. UNCHANGED <<driver, tmp, sessionFwd, fridaSess, done, stop, app>>
    BY <1>2 DEF Session!StartAppWithFrida, Session!EnsureRunning, Session!EnsureStart, Session!EnsureFails, Session!Prepare
  <2>2. \E next \in {"server", "wait", "runtime", "launch", "failed"} : sessionCall' = [sessionCall EXCEPT ![s] = next]
    BY <1>2 DEF Session!StartAppWithFrida, Session!EnsureRunning, Session!EnsureStart, Session!EnsureFails, Session!Prepare
  <2>3. sessionCall[s] \in {"idle", "server", "wait", "runtime"}
    BY <1>2 DEF Session!StartAppWithFrida, Session!EnsureRunning, Session!EnsureStart, Session!EnsureFails, Session!Prepare
  <2>4. Elsewhere(s) BY <1>1, <2>1, <2>2 DEF Elsewhere, Session!TypeOK
  <2>5. sessionCall'[s] \in {"server", "wait", "runtime", "launch", "failed"} BY <1>1, <2>2 DEF Session!TypeOK
  <2> QED BY <1>1, <2>1, <2>3, <2>4, <2>5 DEF StaysStaged, Staged
<1>3. CASE Session!Launch(s) \/ Session!ForwardFridaPort(s)
  <2>1. UNCHANGED <<driver, fridaSess, done, stop, app>> BY <1>3 DEF Session!Launch, Session!ForwardFridaPort
  <2>2. \E next \in {"forward", "spawn", "failed"} :
          /\ sessionCall' = [sessionCall EXCEPT ![s] = next]
          /\ next = "failed" => s \notin tmp' \cup sessionFwd'
    BY <1>1, <1>3 DEF Session!Launch, Session!ForwardFridaPort, Session!CleanUp, Staged
  <2>3. sessionCall[s] \in {"launch", "forward"} BY <1>3 DEF Session!Launch, Session!ForwardFridaPort
  <2>4. tmp' \in {tmp, tmp \cup {s}, tmp \ {s}} /\ sessionFwd' \in {sessionFwd, sessionFwd \cup {s}, sessionFwd \ {s}}
    BY <1>3 DEF Session!Launch, Session!ForwardFridaPort, Session!CleanUp
  <2>5. Elsewhere(s) BY <1>1, <2>1, <2>2, <2>4 DEF Elsewhere, Session!TypeOK
  <2>6. sessionCall'[s] \in {"forward", "spawn", "failed"} /\ (sessionCall'[s] = "failed" => s \notin tmp' \cup sessionFwd')
    BY <1>1, <2>2 DEF Session!TypeOK
  <2>7. s \notin fridaSess /\ stop[s] = "no" /\ s \notin done /\ driver[s] = "none" BY <1>1, <2>3 DEF Staged, Session!TypeOK
  <2> QED BY <2>1, <2>5, <2>6, <2>7 DEF StaysStaged, Staged
<1>4. CASE Session!Spawn(s)
  <2>1. UNCHANGED <<fridaSess, done, stop, app>> /\ sessionCall[s] = "spawn" BY <1>4 DEF Session!Spawn
  <2>2. \/ sessionCall' = [sessionCall EXCEPT ![s] = "register"] /\ driver' = [driver EXCEPT ![s] = "up"] /\ UNCHANGED <<tmp, sessionFwd>>
        \/ sessionCall' = [sessionCall EXCEPT ![s] = "failed"] /\ driver' = driver /\ tmp' = tmp \ {s} /\ sessionFwd' = sessionFwd \ {s}
    BY <1>4 DEF Session!Spawn, Session!CleanUp
  <2>3. s \notin fridaSess /\ stop[s] = "no" /\ s \notin done /\ driver[s] = "none"
    <3>1. stop[s] = "no" /\ driver[s] = "none" BY <1>1, <2>1 DEF Staged
    <3> QED BY <1>1, <2>1, <3>1 DEF Staged
  <2>4. Elsewhere(s) BY <1>1, <2>1, <2>2 DEF Elsewhere, Session!TypeOK
  <2>5. \/ sessionCall'[s] = "register"
        \/ sessionCall'[s] = "failed" /\ driver'[s] = "none" /\ s \notin tmp' \cup sessionFwd'
    BY <1>1, <2>2, <2>3 DEF Session!TypeOK
  <2> QED BY <2>1, <2>3, <2>4, <2>5 DEF StaysStaged, Staged
<1>5. CASE app = "up" /\ Session!Register(s)
  <2>1. UNCHANGED <<driver, tmp, sessionFwd, done, stop, app>> /\ fridaSess' = fridaSess \cup {s}
        /\ sessionCall' = [sessionCall EXCEPT ![s] = "open"] /\ sessionCall[s] = "register"
    BY <1>5 DEF Session!Register
  <2>2. Elsewhere(s) BY <1>1, <2>1 DEF Elsewhere, Session!TypeOK
  <2>3. sessionCall'[s] = "open" BY <1>1, <2>1 DEF Session!TypeOK
  <2> QED BY <1>1, <1>5, <2>1, <2>2, <2>3 DEF StaysStaged, Staged
<1> QED BY <1>2, <1>3, <1>4, <1>5 DEF Session!Start

\* The steps of a driver, of those that follow it and of those that stop it.
DriverSteps(s) ==
  \/ Session!Pump(s) \/ Session!DriverSays(s) \/ Session!DriverExits(s) \/ Session!Release(s)
  \/ Session!StopFridaSession(s) \/ Session!RemoveFridaSession(s) \/ Session!Closing(s)

LEMMA DriverTypes ==
  ASSUME SessionStages, NEW s \in Sessions, DriverSteps(s)
  PROVE  Session!TypeOK'
<1>1. Session!TypeOK BY DEF SessionStages
<1> USE DEF DriverSteps, Session!Pump, Session!PumpEnds, Session!Flush, Session!FlushDone, Session!DriverSays, Session!DriverExits,
            Session!Release, Session!StopKill, Session!StopRelease, Session!StopFridaSession, Session!RemoveFridaSession,
            Session!Closing, Session!ShutdownStop, Session!Tell, Session!CleanUp, Session!host, Session!page, Session!server_vars
<1>2. UNCHANGED <<server, runtime, managed, sessionCall, ended, overtook, app>> OBVIOUS
<1>3. tmp' \subseteq tmp /\ sessionFwd' \subseteq sessionFwd /\ fridaSess' \subseteq fridaSess /\ sub' \subseteq sub /\ done' \subseteq done \cup {s}
  OBVIOUS
<1>4. driver' = driver \/ \E d \in {"told", "gone", driver[s]} : driver' = [driver EXCEPT ![s] = d] OBVIOUS
<1>5. stop' = stop \/ \E d \in {"wait", "done"} : stop' = [stop EXCEPT ![s] = d] OBVIOUS
<1>6. sessionSeq' = sessionSeq \/ (sessionSeq[s] < MaxMsgs /\ sessionSeq' = [sessionSeq EXCEPT ![s] = sessionSeq[s] + 1]) OBVIOUS
<1>7. last' = last \/ last' = [last EXCEPT ![s] = sessionSeq[s]] \/ last' = [last EXCEPT ![s] = Session!Over] OBVIOUS
<1> HIDE DEF DriverSteps
<1>8. driver' \in [Sessions -> {"none", "up", "told", "gone"}] BY <1>1, <1>4 DEF Session!TypeOK
<1>9. stop' \in [Sessions -> {"no", "wait", "done"}] BY <1>1, <1>5 DEF Session!TypeOK
<1>10. sessionSeq' \in [Sessions -> 0 .. MaxMsgs]
  <2>1. sessionSeq[s] \in 0 .. MaxMsgs BY <1>1 DEF Session!TypeOK
  <2>2. sessionSeq[s] < MaxMsgs => sessionSeq[s] + 1 \in 0 .. MaxMsgs BY <2>1, SessionAssumption
  <2> QED BY <1>1, <1>6, <2>2 DEF Session!TypeOK
<1>11. last' \in [Sessions -> 0 .. Session!Over]
  <2>1. sessionSeq[s] \in 0 .. MaxMsgs BY <1>1 DEF Session!TypeOK
  <2>2. sessionSeq[s] \in 0 .. Session!Over /\ Session!Over \in 0 .. Session!Over BY <2>1, SessionAssumption DEF Session!Over
  <2> QED BY <1>1, <1>7, <2>2 DEF Session!TypeOK
<1>12. tmp' \cup sessionFwd' \cup fridaSess' \cup done' \cup ended' \cup sub' \cup overtook' \subseteq Sessions
  BY <1>1, <1>2, <1>3 DEF Session!TypeOK
<1> QED BY <1>1, <1>2, <1>8, <1>9, <1>10, <1>11, <1>12 DEF Session!TypeOK

LEMMA DriverStaged ==
  ASSUME SessionStages, NEW s \in Sessions, DriverSteps(s)
  PROVE  StaysStaged(s)
<1>1. Session!TypeOK /\ Staged(s) BY DEF SessionStages
<1> USE DEF Session!host, Session!page, Session!server_vars
<1>2. driver[s] \in {"none", "up", "told", "gone"} /\ stop[s] \in {"no", "wait", "done"} BY <1>1 DEF Session!TypeOK
<1>3. CASE Session!Flush(s) \/ Session!FlushDone(s) \/ Session!DriverSays(s)
  <2>1. UNCHANGED <<sessionCall, driver, stop, fridaSess, done, tmp, sessionFwd, app>>
    BY <1>3 DEF Session!Flush, Session!FlushDone, Session!DriverSays
  <2> QED BY <1>1, <2>1 DEF StaysStaged, Elsewhere, Staged
<1>4. CASE Session!PumpEnds(s)
  <2>1. UNCHANGED <<sessionCall, driver, stop, fridaSess, tmp, sessionFwd, app>> /\ done' = done \cup {s} /\ driver[s] = "gone"
    BY <1>4 DEF Session!PumpEnds
  <2> QED BY <1>1, <2>1 DEF StaysStaged, Elsewhere, Staged
<1>5. CASE Session!DriverExits(s) \/ Session!StopKill(s)
  <2>1. UNCHANGED <<sessionCall, stop, fridaSess, done, tmp, sessionFwd, app>> /\ driver' = [driver EXCEPT ![s] = "gone"]
        /\ driver[s] \in {"up", "told"}
    BY <1>5 DEF Session!DriverExits, Session!StopKill
  <2>2. driver'[s] = "gone" /\ Elsewhere(s) BY <1>1, <2>1 DEF Session!TypeOK, Elsewhere
  <2> QED BY <1>1, <2>1, <2>2 DEF StaysStaged, Staged
<1>6. CASE Session!StopRelease(s)
  <2>1. UNCHANGED <<sessionCall, driver, fridaSess, done, app>> /\ stop' = [stop EXCEPT ![s] = "done"] /\ stop[s] = "wait" /\ s \in done
        /\ tmp' = tmp \ {s} /\ sessionFwd' = sessionFwd \ {s}
    BY <1>6 DEF Session!StopRelease, Session!CleanUp
  <2>2. stop'[s] = "done" /\ Elsewhere(s) BY <1>1, <2>1 DEF Session!TypeOK, Elsewhere
  <2> QED BY <1>1, <2>1, <2>2 DEF StaysStaged, Staged
<1>7. ASSUME Session!Tell(s)
      PROVE  /\ stop[s] = "no" /\ stop'[s] = "wait" /\ driver'[s] = (IF driver[s] = "up" THEN "told" ELSE driver[s])
             /\ \A t \in Sessions \ {s} : stop'[t] = stop[t] /\ driver'[t] = driver[t]
  BY <1>1, <1>7 DEF Session!Tell, Session!TypeOK
<1>8. CASE Session!StopFridaSession(s) \/ Session!Closing(s)
  <2>1. UNCHANGED <<sessionCall, fridaSess, done, tmp, sessionFwd, app>> /\ s \in fridaSess /\ Session!Tell(s) /\ app # "gone"
    BY <1>8 DEF Session!StopFridaSession, Session!Closing, Session!ShutdownStop
  <2>2. Elsewhere(s) BY <1>7, <2>1 DEF Elsewhere
  <2>3. stop'[s] = "wait" /\ driver'[s] = (IF driver[s] = "up" THEN "told" ELSE driver[s]) BY <1>7, <2>1
  <2> QED BY <1>1, <2>1, <2>2, <2>3 DEF StaysStaged, Staged
<1>9. CASE Session!RemoveFridaSession(s)
  <2>1. UNCHANGED <<sessionCall, done, tmp, sessionFwd, app>> /\ s \in fridaSess /\ fridaSess' = fridaSess \ {s} /\ app # "gone"
    BY <1>9 DEF Session!RemoveFridaSession
  <2>2. CASE Session!Tell(s)
    <3>1. Elsewhere(s) BY <1>7, <2>1, <2>2 DEF Elsewhere
    <3>2. stop'[s] = "wait" /\ driver'[s] = (IF driver[s] = "up" THEN "told" ELSE driver[s]) BY <1>7, <2>2
    <3> QED BY <1>1, <2>1, <3>1, <3>2 DEF StaysStaged, Staged
  <2>3. CASE stop[s] # "no" /\ UNCHANGED <<stop, driver>> BY <1>1, <2>1, <2>3 DEF StaysStaged, Elsewhere, Staged
  <2> QED BY <1>9, <2>2, <2>3 DEF Session!RemoveFridaSession
<1> QED BY <1>3, <1>4, <1>5, <1>6, <1>8, <1>9 DEF DriverSteps, Session!Pump, Session!Release

\* The steps of the page.
PageSteps(s) == Session!Page(s) \/ Session!Adopt(s)

LEMMA PageStages ==
  ASSUME SessionStages, NEW s \in Sessions, PageSteps(s)
  PROVE  SessionStages'
<1>1. Session!TypeOK BY DEF SessionStages
<1> USE DEF PageSteps, Session!Page, Session!Adopt, Session!GetFridaSessionLog, Session!Backfilled, Session!Arrives, Session!host, Session!server_vars
<1>2. UNCHANGED <<server, runtime, managed, sessionCall, driver, tmp, sessionFwd, fridaSess, sessionSeq, done, stop, last, app>> OBVIOUS
<1>3. sub' \subseteq sub \cup {s} /\ ended' \subseteq ended \cup {s} /\ overtook' \subseteq overtook \cup {s} OBVIOUS
<1> HIDE DEF PageSteps
<1>4. Session!TypeOK' BY <1>1, <1>2, <1>3 DEF Session!TypeOK
<1>5. \A t \in Sessions : Staged(t)' BY <1>2 DEF SessionStages, Staged
<1> QED BY <1>4, <1>5 DEF SessionStages

\* The steps of no session.
HostTurns == Session!ServerTurns \/ Session!RemoveRuntime \/ Session!Shutdown \/ Session!Exit

LEMMA SessionNext ==
  ASSUME Session!Next
  PROVE  \/ HostTurns
         \/ \E s \in Sessions : Session!Start(s) \/ Session!StartAppWithFrida(s) \/ DriverSteps(s) \/ PageSteps(s)
BY DEF Session!Next, HostTurns, DriverSteps, PageSteps, Session!User

LEMMA StagesStep == SessionStages /\ [Session!Next]_Session!vars => SessionStages'
<1> SUFFICES ASSUME SessionStages, [Session!Next]_Session!vars PROVE SessionStages' OBVIOUS
<1>1. CASE UNCHANGED Session!vars
  BY <1>1 DEF Session!vars, Session!server_vars, Session!host, Session!page, SessionStages, Session!TypeOK, Staged
<1>2. ASSUME NEW s \in Sessions, Session!Start(s) \/ Session!StartAppWithFrida(s) PROVE SessionStages'
  BY <1>2, StartTypes, StartStaged, StagedElsewhere DEF SessionStages
<1>3. ASSUME NEW s \in Sessions, DriverSteps(s) PROVE SessionStages'
  BY <1>3, DriverTypes, DriverStaged, StagedElsewhere DEF SessionStages
<1>4. ASSUME NEW s \in Sessions, PageSteps(s) PROVE SessionStages' BY <1>4, PageStages
<1>5. CASE HostTurns
  <2>1. UNCHANGED <<sessionCall, driver, tmp, sessionFwd, fridaSess, sessionSeq, done, stop, last, ended, sub, overtook>>
    BY <1>5 DEF HostTurns, Session!ServerTurns, Session!RemoveRuntime, Session!Shutdown, Session!Exit, Session!host, Session!page
  <2>2. {server', runtime', managed'} \subseteq BOOLEAN
    BY <1>5 DEF HostTurns, Session!ServerTurns, Session!RemoveRuntime, Session!Shutdown, Session!Exit, Session!server_vars, SessionStages, Session!TypeOK
  <2>3. app' = app \/ app' = "closing" \/ (app' = "gone" /\ \A s \in fridaSess : stop[s] = "done")
    BY <1>5 DEF HostTurns, Session!ServerTurns, Session!RemoveRuntime, Session!Shutdown, Session!Exit
  <2>4. Session!TypeOK' BY <2>1, <2>2, <2>3 DEF SessionStages, Session!TypeOK
  <2>5. \A t \in Sessions : Staged(t)' BY <2>1, <2>3 DEF SessionStages, Staged
  <2> QED BY <2>4, <2>5 DEF SessionStages
<1> QED BY <1>1, <1>2, <1>3, <1>4, <1>5, SessionNext

-----------------------------------------------------------------------------
(* Frida's sessions: the console.                                          *)

LEMMA LeastNumber ==
  ASSUME NEW S \in SUBSET Nat, S # {}
  PROVE  \E n \in S : \A m \in S : n <= m
<1>1. PICK n \in S : \A m \in S : ~ (<<m, n>> \in OpToRel(<, Nat)) BY NatLessThanWellFounded, WFMin
<1>2. ASSUME NEW m \in S PROVE n <= m
  <2>1. ~ (m < n) BY <1>1 DEF OpToRel
  <2> QED BY <2>1
<1> QED BY <1>2

LEMMA SessionCardinality == ASSUME NEW S PROVE Session!Cardinality(S) = Cardinality(S)
BY DEF Session!Cardinality, Cardinality

Upwards(q) == \A i, j \in DOMAIN q : i < j => q[i] < q[j]
Lists(q, S) == \A m \in S : \E i \in DOMAIN q : q[i] = m
Sorted(S, q) == q \in [1 .. Cardinality(S) -> S] /\ Upwards(q)

\* Every finite set of numbers can be put in order.
LEMMA SortedExists == \A n \in Nat : \A S \in SUBSET (1 .. n) : \E q : Sorted(S, q)
<1> DEFINE Bad == {n \in Nat : \E S \in SUBSET (1 .. n) : ~ \E q : Sorted(S, q)}
<1> SUFFICES ASSUME Bad # {} PROVE FALSE OBVIOUS
<1>1. PICK n \in Bad : \A m \in Bad : n <= m BY LeastNumber
<1>2. PICK S \in SUBSET (1 .. n) : ~ \E q : Sorted(S, q) BY <1>1
<1>3. n \in Nat /\ IsFiniteSet(S)
  <2>1. n \in Nat BY <1>1
  <2>2. IsFiniteSet(1 .. n) BY <2>1, FS_Interval
  <2> QED BY <2>1, <2>2, FS_Subset
<1>5. CASE n = 0
  <2>1. S = {} BY <1>5
  <2>2. Cardinality(S) = 0 BY <2>1, FS_EmptySet
  <2>3. [i \in 1 .. 0 |-> i] \in [1 .. Cardinality(S) -> S] BY <2>2
  <2>4. Sorted(S, [i \in 1 .. 0 |-> i]) BY <2>3 DEF Sorted, Upwards
  <2> QED BY <1>2, <2>4
<1>6. CASE n # 0
  <2>1. n - 1 \in Nat /\ n - 1 \notin Bad BY <1>1, <1>3, <1>6
  <2>2. \A T \in SUBSET (1 .. n - 1) : \E q : Sorted(T, q) BY <2>1
  <2>3. S \ {n} \in SUBSET (1 .. n - 1) BY <1>3, <1>6
  <2>4. PICK q : Sorted(S \ {n}, q) BY <2>2, <2>3
  <2>5. n \in S
    <3>1. CASE n \notin S
      <4>1. S \ {n} = S BY <3>1
      <4> QED BY <1>2, <2>4, <4>1
    <3> QED BY <3>1
  <2>6. Cardinality(S \ {n}) = Cardinality(S) - 1 /\ Cardinality(S) \in Nat BY <1>3, <2>5, FS_RemoveElement, FS_CardinalityType
  <2>7. PICK c \in Nat : c = Cardinality(S) BY <2>6
  <2>8. q \in [1 .. c - 1 -> S \ {n}] /\ \A i, j \in 1 .. c - 1 : i < j => q[i] < q[j] BY <2>4, <2>6, <2>7 DEF Sorted, Upwards
  <2>9. \A i \in 1 .. c - 1 : q[i] < n /\ q[i] \in S
    <3>1. \A m \in S \ {n} : m < n /\ m \in S BY <1>3, <2>3
    <3>2. \A i \in 1 .. c - 1 : q[i] \in S \ {n} BY <2>8
    <3> QED BY <3>1, <3>2
  <2>10. PICK p : p = [i \in 1 .. c |-> IF i < c THEN q[i] ELSE n] OBVIOUS
  <2>11. p \in [1 .. c -> S] BY <2>5, <2>9, <2>10
  <2>12. \A i, j \in 1 .. c : i < j => p[i] < p[j]
    <3>1. ASSUME NEW i \in 1 .. c, NEW j \in 1 .. c, i < j PROVE p[i] < p[j]
      <4>1. i \in 1 .. c - 1 /\ p[i] = q[i] BY <2>10, <3>1
      <4>2. CASE j = c BY <2>9, <2>10, <4>1, <4>2
      <4>3. CASE j < c
        <5>1. j \in 1 .. c - 1 /\ p[j] = q[j] BY <2>10, <4>3
        <5> QED BY <2>8, <3>1, <4>1, <5>1
      <4> QED BY <4>2, <4>3
    <3> QED BY <3>1
  <2>13. Sorted(S, p) BY <2>7, <2>11, <2>12 DEF Sorted, Upwards
  <2> QED BY <1>2, <2>13
<1> QED BY <1>5, <1>6

\* What such an order is of: all of the set.
LEMMA SortedIsAll ==
  ASSUME NEW n \in Nat, NEW S \in SUBSET (1 .. n), NEW q, Sorted(S, q)
  PROVE  /\ q \in Seq(S) /\ Upwards(q) /\ Cardinality(S) \in Nat /\ Len(q) = Cardinality(S)
         /\ Lists(q, S)
<1>1. IsFiniteSet(S)
  <2>1. IsFiniteSet(1 .. n) BY FS_Interval
  <2> QED BY <2>1, FS_Subset
<1>2. PICK c \in Nat : c = Cardinality(S) BY <1>1, FS_CardinalityType
<1>3. q \in [1 .. c -> S] BY <1>2 DEF Sorted
<1>4. q \in Seq(S) /\ Len(q) = c BY <1>3
<1>5. ASSUME NEW i \in 1 .. c, NEW j \in 1 .. c, q[i] = q[j] PROVE i = j
  <2>1. q[i] \in S /\ q[j] \in S BY <1>3
  <2>2. q[i] \in Nat /\ q[j] \in Nat
    <3>1. \A m \in S : m \in Nat OBVIOUS
    <3> QED BY <2>1, <3>1
  <2>3. DOMAIN q = 1 .. c BY <1>3
  <2>4. (i < j => q[i] < q[j]) /\ (j < i => q[j] < q[i]) BY <2>3 DEF Sorted, Upwards
  <2> QED BY <1>5, <2>2, <2>4
<1>6. ASSUME NEW m \in S, \A i \in 1 .. c : q[i] # m PROVE FALSE
  <2>1. IsFiniteSet(S \ {m}) /\ Cardinality(S \ {m}) = c - 1 BY <1>1, <1>2, FS_RemoveElement
  <2>2. IsFiniteSet(1 .. c) /\ Cardinality(1 .. c) = c BY FS_Interval
  <2>3. q \in [1 .. c -> S \ {m}] BY <1>3, <1>6
  <2>4. Cardinality(S \ {m}) < Cardinality(1 .. c) BY <2>1, <2>2
  <2>5. \E i, j \in 1 .. c : i # j /\ q[i] = q[j] BY <2>1, <2>2, <2>3, <2>4, FS_PigeonHole
  <2> QED BY <1>5, <2>5
<1>7. \A m \in S : \E i \in DOMAIN q : q[i] = m BY <1>3, <1>6
<1> QED BY <1>2, <1>4, <1>7 DEF Sorted, Lists

LEMMA InOrderIsSorted ==
  ASSUME NEW S \in SUBSET (1 .. MaxMsgs)
  PROVE  /\ Session!InOrder(S) \in Seq(S) /\ Upwards(Session!InOrder(S))
         /\ Lists(Session!InOrder(S), S)
<1>1. \E q : Sorted(S, q) BY SortedExists, SessionAssumption
<1>2. Session!InOrder(S) = CHOOSE q \in [1 .. Cardinality(S) -> S] : Upwards(q)
  BY SessionCardinality DEF Session!InOrder, Upwards
<1>3. Sorted(S, Session!InOrder(S)) BY <1>1, <1>2 DEF Sorted
<1>4. PICK q : q = Session!InOrder(S) OBVIOUS
<1>5. Sorted(S, q) BY <1>3, <1>4
<1>6. MaxMsgs \in Nat /\ S \in SUBSET (1 .. MaxMsgs) BY SessionAssumption
<1>7. q \in Seq(S) /\ Upwards(q) /\ Lists(q, S) BY <1>5, <1>6, SortedIsAll
<1> QED BY <1>4, <1>7

Messages == 1 .. MaxMsgs
Holds(w, m) == \E i \in DOMAIN w : w[i] = m
LastOf(w) == IF w = <<>> THEN 0 ELSE w[Len(w)]
\* What mergeFridaMsgs makes of the console w and the messages B.
Merge(w, B) == w \o Session!InOrder({m \in B : m > LastOf(w)})

LEMMA LastIsGreatest ==
  ASSUME NEW w \in Seq(Messages), Upwards(w), NEW m, Holds(w, m)
  PROVE  m \in Nat /\ m <= LastOf(w) /\ LastOf(w) \in Messages
<1>1. PICK i \in 1 .. Len(w) : w[i] = m BY DEF Holds
<1>2. Len(w) \in 1 .. Len(w) /\ w # <<>> /\ w[i] \in Messages /\ w[Len(w)] \in Messages BY <1>1
<1>3. i < Len(w) => w[i] < w[Len(w)]
  <2>1. i \in DOMAIN w /\ Len(w) \in DOMAIN w BY <1>2
  <2> QED BY <2>1 DEF Upwards
<1>4. \A k \in Messages : k \in Nat BY DEF Messages
<1>5. w[i] \in Nat /\ w[Len(w)] \in Nat BY <1>2, <1>4
<1>6. w[i] <= w[Len(w)]
  <2>1. CASE i < Len(w) BY <1>3, <1>5, <2>1
  <2>2. CASE i = Len(w) BY <1>5, <2>2
  <2> QED BY <2>1, <2>2
<1> QED BY <1>1, <1>2, <1>5, <1>6 DEF LastOf

\* Of two lists in order, the second behind the first.
LEMMA JoinUpwards ==
  ASSUME NEW w \in Seq(Messages), Upwards(w), NEW v \in Seq(Messages), Upwards(v),
         \A i \in DOMAIN v : v[i] > LastOf(w)
  PROVE  /\ w \o v \in Seq(Messages) /\ Upwards(w \o v)
         /\ \A m : Holds(w \o v, m) <=> Holds(w, m) \/ Holds(v, m)
         /\ LastOf(w \o v) = IF v = <<>> THEN LastOf(w) ELSE v[Len(v)]
<1> DEFINE u == w \o v
<1>1. u \in Seq(Messages) /\ Len(u) = Len(w) + Len(v) /\ Len(w) \in Nat /\ Len(v) \in Nat OBVIOUS
<1>2. DOMAIN u = 1 .. Len(w) + Len(v) /\ DOMAIN w = 1 .. Len(w) /\ DOMAIN v = 1 .. Len(v) BY <1>1
<1>3. \A i \in 1 .. Len(w) : u[i] = w[i] OBVIOUS
<1>4. \A i \in 1 .. Len(v) : u[Len(w) + i] = v[i] OBVIOUS
<1>5. ASSUME NEW m PROVE Holds(u, m) <=> Holds(w, m) \/ Holds(v, m)
  <2>1. ASSUME Holds(u, m) PROVE Holds(w, m) \/ Holds(v, m)
    <3>1. PICK i \in 1 .. Len(w) + Len(v) : u[i] = m BY <1>2, <2>1 DEF Holds
    <3>2. CASE i <= Len(w) BY <1>1, <1>2, <1>3, <3>1, <3>2 DEF Holds
    <3>3. CASE i > Len(w)
      <4>1. i - Len(w) \in 1 .. Len(v) /\ Len(w) + (i - Len(w)) = i BY <1>1, <3>3
      <4> QED BY <1>2, <1>4, <3>1, <4>1 DEF Holds
    <3> QED BY <1>1, <3>2, <3>3
  <2>2. ASSUME Holds(w, m) PROVE Holds(u, m)
    <3>1. PICK i \in 1 .. Len(w) : w[i] = m BY <1>2, <2>2 DEF Holds
    <3>2. i \in DOMAIN u BY <1>1, <1>2
    <3> QED BY <1>3, <3>1, <3>2 DEF Holds
  <2>3. ASSUME Holds(v, m) PROVE Holds(u, m)
    <3>1. PICK i \in 1 .. Len(v) : v[i] = m BY <1>2, <2>3 DEF Holds
    <3>2. Len(w) + i \in DOMAIN u BY <1>1, <1>2
    <3> QED BY <1>4, <3>1, <3>2 DEF Holds
  <2> QED BY <2>1, <2>2, <2>3
<1>6. Upwards(u)
  <2> SUFFICES ASSUME NEW i \in 1 .. Len(w) + Len(v), NEW j \in 1 .. Len(w) + Len(v), i < j PROVE u[i] < u[j] BY <1>2 DEF Upwards
  <2>1. CASE j <= Len(w)
    <3>1. i \in 1 .. Len(w) /\ j \in 1 .. Len(w) BY <1>1, <2>1
    <3>2. w[i] < w[j] BY <1>2, <3>1 DEF Upwards
    <3> QED BY <1>3, <3>1, <3>2
  <2>2. CASE i <= Len(w) /\ j > Len(w)
    <3>1. i \in 1 .. Len(w) /\ j - Len(w) \in 1 .. Len(v) /\ Len(w) + (j - Len(w)) = j BY <1>1, <2>2
    <3>2. u[i] = w[i] /\ u[j] = v[j - Len(w)] BY <1>3, <1>4, <3>1
    <3>3. Holds(w, w[i]) BY <1>2, <3>1 DEF Holds
    <3>4. w[i] \in Nat /\ w[i] <= LastOf(w) /\ LastOf(w) \in Messages BY <3>3, LastIsGreatest
    <3>5. v[j - Len(w)] > LastOf(w) /\ v[j - Len(w)] \in Messages BY <1>2, <3>1
    <3> QED BY <3>2, <3>4, <3>5, SessionAssumption DEF Messages
  <2>3. CASE i > Len(w)
    <3>1. i - Len(w) \in 1 .. Len(v) /\ Len(w) + (i - Len(w)) = i /\ j - Len(w) \in 1 .. Len(v) /\ Len(w) + (j - Len(w)) = j
          /\ i - Len(w) < j - Len(w)
      BY <1>1, <2>3
    <3>2. v[i - Len(w)] < v[j - Len(w)] BY <1>2, <3>1 DEF Upwards
    <3>3. u[i] = v[i - Len(w)] /\ u[j] = v[j - Len(w)] BY <1>4, <3>1
    <3> QED BY <3>2, <3>3
  <2> QED BY <1>1, <2>1, <2>2, <2>3
<1>7. LastOf(u) = IF v = <<>> THEN LastOf(w) ELSE v[Len(v)]
  <2>1. CASE v = <<>>
    <3>1. u = w BY <2>1
    <3> QED BY <2>1, <3>1
  <2>2. CASE v # <<>>
    <3>1. Len(v) \in 1 .. Len(v) /\ Len(u) # 0 BY <1>1, <2>2
    <3>2. u # <<>> /\ u[Len(u)] = v[Len(v)] BY <1>1, <1>4, <3>1
    <3> QED BY <2>2, <3>2 DEF LastOf
  <2> QED BY <2>1, <2>2
<1> QED BY <1>1, <1>5, <1>6, <1>7

LEMMA Merging ==
  ASSUME NEW w \in Seq(Messages), Upwards(w), NEW B \in SUBSET Messages
  PROVE  /\ Merge(w, B) \in Seq(Messages) /\ Upwards(Merge(w, B))
         /\ \A m : Holds(Merge(w, B), m) <=> Holds(w, m) \/ (m \in B /\ m > LastOf(w))
         /\ LastOf(Merge(w, B)) = LastOf(w) \/ LastOf(Merge(w, B)) \in B
         /\ Merge(w, B) = <<>> => w = <<>> /\ B = {}
<1> DEFINE C == {m \in B : m > LastOf(w)}
<1>1. C \in SUBSET (1 .. MaxMsgs) BY DEF Messages
<1>2. PICK v : v = Session!InOrder(C) OBVIOUS
<1>3. v \in Seq(C) /\ Upwards(v) /\ Lists(v, C) BY <1>1, <1>2, InOrderIsSorted
<1>4. DOMAIN v = 1 .. Len(v) /\ \A i \in DOMAIN v : v[i] \in C BY <1>3
<1>5. v \in Seq(Messages)
  <2>1. C \subseteq Messages OBVIOUS
  <2> HIDE DEF C
  <2>2. Len(v) \in Nat /\ v \in [1 .. Len(v) -> Messages] BY <1>3, <2>1
  <2> QED BY <2>2
<1>6. \A i \in DOMAIN v : v[i] > LastOf(w) BY <1>4
<1>7. /\ w \o v \in Seq(Messages) /\ Upwards(w \o v)
      /\ \A m : Holds(w \o v, m) <=> Holds(w, m) \/ Holds(v, m)
      /\ LastOf(w \o v) = IF v = <<>> THEN LastOf(w) ELSE v[Len(v)]
  BY <1>3, <1>5, <1>6, JoinUpwards
<1>8. \A m : Holds(v, m) <=> m \in C
  <2>1. ASSUME NEW m, Holds(v, m) PROVE m \in C BY <1>4, <2>1 DEF Holds
  <2>2. ASSUME NEW m \in C PROVE Holds(v, m) BY <1>3, <2>2 DEF Lists, Holds
  <2> QED BY <2>1, <2>2
<1>9. v # <<>> => v[Len(v)] \in B
  <2>1. v # <<>> => Len(v) \in DOMAIN v BY <1>3, <1>4
  <2> QED BY <1>4, <2>1
<1>10. w \o v = <<>> => w = <<>> /\ B = {}
  <2> SUFFICES ASSUME w \o v = <<>> PROVE w = <<>> /\ B = {} OBVIOUS
  <2>1. w = <<>> /\ v = <<>>
    <3>1. Len(w \o v) = Len(w) + Len(v) /\ Len(w) \in Nat /\ Len(v) \in Nat BY <1>5
    <3>2. Len(w \o v) = 0 OBVIOUS
    <3>3. Len(w) = 0 /\ Len(v) = 0 BY <3>1, <3>2
    <3> QED BY <1>5, <3>3
  <2>2. \A m \in B : m > LastOf(w)
    <3>1. LastOf(w) = 0 BY <2>1 DEF LastOf
    <3>2. \A m \in B : m > 0 BY SessionAssumption DEF Messages
    <3> QED BY <3>1, <3>2
  <2>3. \A m \in B : Holds(v, m) BY <1>8, <2>2
  <2>4. \A m : ~Holds(v, m) BY <2>1 DEF Holds
  <2> QED BY <2>1, <2>3, <2>4
<1> HIDE DEF C
<1>11. Merge(w, B) = w \o v BY <1>2 DEF Merge, C
<1>12. \A m : m \in C <=> m \in B /\ m > LastOf(w) BY DEF C
<1> QED BY <1>7, <1>8, <1>9, <1>10, <1>11, <1>12

Events == [kind : {"batch", "done"}, msgs : SUBSET Messages]
On(w, m) == \E i \in DOMAIN w : m \in w[i].msgs
\* The batches of a wire follow one another, and an end brings nothing.
InSequence(w) ==
  /\ \A i, j \in DOMAIN w : i < j => \A m \in w[i].msgs, n \in w[j].msgs : m < n
  /\ \A i \in DOMAIN w : w[i].kind = "done" => w[i].msgs = {}

LEMMA WireAdd ==
  ASSUME NEW w \in Seq(Events), InSequence(w), NEW e \in Events,
         \A m \in Messages, n \in e.msgs : On(w, m) => m < n, e.kind = "done" => e.msgs = {}
  PROVE  /\ Append(w, e) \in Seq(Events) /\ InSequence(Append(w, e))
         /\ \A m : On(Append(w, e), m) <=> On(w, m) \/ m \in e.msgs
<1> DEFINE u == Append(w, e)
<1>1. u \in Seq(Events) /\ Len(w) \in Nat /\ DOMAIN u = 1 .. Len(w) + 1 /\ DOMAIN w = 1 .. Len(w) OBVIOUS
<1>2. (\A i \in 1 .. Len(w) : u[i] = w[i]) /\ u[Len(w) + 1] = e OBVIOUS
<1>3. \A i \in DOMAIN w : w[i] \in Events OBVIOUS
<1> HIDE DEF u
<1>4. ASSUME NEW m PROVE On(u, m) <=> On(w, m) \/ m \in e.msgs
  <2>1. ASSUME On(u, m) PROVE On(w, m) \/ m \in e.msgs
    <3>1. PICK i \in 1 .. Len(w) + 1 : m \in u[i].msgs BY <1>1, <2>1 DEF On
    <3>2. CASE i <= Len(w)
      <4>1. i \in DOMAIN w /\ u[i] = w[i] BY <1>1, <1>2, <3>2
      <4> QED BY <3>1, <4>1 DEF On
    <3>3. CASE i = Len(w) + 1 BY <1>2, <3>1, <3>3
    <3> QED BY <1>1, <3>2, <3>3
  <2>2. ASSUME On(w, m) PROVE On(u, m)
    <3>1. PICK i \in 1 .. Len(w) : m \in w[i].msgs BY <1>1, <2>2 DEF On
    <3>2. i \in DOMAIN u BY <1>1
    <3> QED BY <1>2, <3>1, <3>2 DEF On
  <2>3. ASSUME m \in e.msgs PROVE On(u, m)
    <3>1. Len(w) + 1 \in DOMAIN u BY <1>1
    <3> QED BY <1>2, <2>3, <3>1 DEF On
  <2> QED BY <2>1, <2>2, <2>3
<1>5. ASSUME NEW i \in DOMAIN u, NEW j \in DOMAIN u, i < j, NEW m \in u[i].msgs, NEW n \in u[j].msgs PROVE m < n
  <2>1. i \in DOMAIN w /\ u[i] = w[i] /\ m \in w[i].msgs
    <3>1. i \in 1 .. Len(w) BY <1>1, <1>5
    <3>2. u[i] = w[i] BY <1>2, <3>1
    <3> QED BY <1>1, <3>1, <3>2
  <2>2. CASE j <= Len(w)
    <3>1. j \in 1 .. Len(w) BY <1>1, <2>2
    <3>2. j \in DOMAIN w /\ u[j] = w[j] BY <1>1, <1>2, <3>1
    <3> QED BY <1>5, <2>1, <3>2 DEF InSequence
  <2>3. CASE j = Len(w) + 1
    <3>1. On(w, m) /\ w[i] \in Events BY <1>3, <2>1 DEF On
    <3>2. m \in Messages /\ n \in e.msgs BY <1>2, <2>1, <2>3, <3>1 DEF Events
    <3> QED BY <3>1, <3>2
  <2> QED BY <1>1, <2>2, <2>3
<1>6. \A i \in DOMAIN u : u[i].kind = "done" => u[i].msgs = {}
  <2> SUFFICES ASSUME NEW i \in DOMAIN u, u[i].kind = "done" PROVE u[i].msgs = {} OBVIOUS
  <2>1. CASE i <= Len(w)
    <3>1. i \in DOMAIN w /\ u[i] = w[i] BY <1>1, <1>2, <2>1
    <3> QED BY <3>1 DEF InSequence
  <2>2. CASE i = Len(w) + 1 BY <1>2, <2>2
  <2> QED BY <1>1, <2>1, <2>2
<1>7. InSequence(u) BY <1>5, <1>6 DEF InSequence
<1> QED BY <1>1, <1>4, <1>7 DEF u

LEMMA WireTail ==
  ASSUME NEW w \in Seq(Events), InSequence(w), w # <<>>
  PROVE  /\ Tail(w) \in Seq(Events) /\ InSequence(Tail(w)) /\ Head(w) \in Events
         /\ \A m : On(w, m) <=> m \in Head(w).msgs \/ On(Tail(w), m)
         /\ \A m, n : m \in Head(w).msgs /\ On(Tail(w), n) => m < n
         /\ Head(w).kind = "done" => Head(w).msgs = {}
<1> DEFINE u == Tail(w)
<1>1. u \in Seq(Events) /\ Len(w) \in Nat /\ Len(w) > 0 /\ DOMAIN u = 1 .. Len(w) - 1 /\ DOMAIN w = 1 .. Len(w) OBVIOUS
<1>2. (\A i \in 1 .. Len(w) - 1 : u[i] = w[i + 1]) /\ Head(w) = w[1] /\ Head(w) \in Events OBVIOUS
<1>3. 1 \in DOMAIN w BY <1>1
<1>4. \A i \in DOMAIN u : i + 1 \in DOMAIN w /\ u[i] = w[i + 1] BY <1>1, <1>2
<1> HIDE DEF u
<1>5. InSequence(u)
  <2>1. ASSUME NEW i \in DOMAIN u, NEW j \in DOMAIN u, i < j, NEW m \in u[i].msgs, NEW n \in u[j].msgs PROVE m < n
    <3>1. i + 1 \in DOMAIN w /\ j + 1 \in DOMAIN w /\ i + 1 < j + 1 /\ m \in w[i + 1].msgs /\ n \in w[j + 1].msgs
      BY <1>1, <1>4, <2>1
    <3> QED BY <3>1 DEF InSequence
  <2>2. \A i \in DOMAIN u : u[i].kind = "done" => u[i].msgs = {} BY <1>4 DEF InSequence
  <2> QED BY <2>1, <2>2 DEF InSequence
<1>6. ASSUME NEW m PROVE On(w, m) <=> m \in Head(w).msgs \/ On(u, m)
  <2>1. ASSUME On(w, m), m \notin Head(w).msgs PROVE On(u, m)
    <3>1. PICK i \in 1 .. Len(w) : m \in w[i].msgs BY <1>1, <2>1 DEF On
    <3>2. i # 1 BY <1>2, <2>1, <3>1
    <3>3. i - 1 \in DOMAIN u /\ (i - 1) + 1 = i BY <1>1, <3>2
    <3>4. u[i - 1] = w[i] BY <1>4, <3>3
    <3> QED BY <3>1, <3>3, <3>4 DEF On
  <2>2. ASSUME On(u, m) PROVE On(w, m) BY <1>4, <2>2 DEF On
  <2>3. ASSUME m \in Head(w).msgs PROVE On(w, m) BY <1>2, <1>3, <2>3 DEF On
  <2> QED BY <2>1, <2>2, <2>3
<1>7. ASSUME NEW m \in Head(w).msgs, NEW n, On(u, n) PROVE m < n
  <2>1. PICK i \in DOMAIN u : n \in u[i].msgs BY <1>7 DEF On
  <2>2. i + 1 \in DOMAIN w /\ n \in w[i + 1].msgs /\ 1 < i + 1 BY <1>1, <1>4, <2>1
  <2>3. m \in w[1].msgs BY <1>2
  <2> QED BY <1>3, <2>2, <2>3 DEF InSequence
<1>8. Head(w).kind = "done" => Head(w).msgs = {} BY <1>2, <1>3 DEF InSequence
<1> QED BY <1>1, <1>2, <1>5, <1>6, <1>7, <1>8 DEF u

LEMMA NothingOn ==
  /\ <<>> \in Seq(Events) /\ InSequence(<<>>) /\ (\A m : ~On(<<>>, m))
  /\ <<>> \in Seq(Messages) /\ Upwards(<<>>) /\ (\A m : ~Holds(<<>>, m)) /\ LastOf(<<>>) = 0
<1>1. DOMAIN <<>> = {} OBVIOUS
<1>2. <<>> \in Seq(Events) /\ <<>> \in Seq(Messages) OBVIOUS
<1> QED BY <1>1, <1>2 DEF InSequence, On, Upwards, Holds, LastOf

-----------------------------------------------------------------------------
\* What has been emitted of a session, and what the page is still to be sent.
Emitted(s) == IF last[s] = Session!Over THEN sessionSeq[s] ELSE last[s]
Coming(s, m) == On(wire[s], m) \/ m > Emitted(s)
Window(s) == Session!LogSince(s, 0)

Wired(s) ==
  /\ InSequence(wire[s]) /\ \A m \in Messages : On(wire[s], m) => m <= Emitted(s)
  /\ last[s] # Session!Over => last[s] <= sessionSeq[s]
  /\ last[s] = Session!Over => s \in done
  /\ s \notin sub => wire[s] = <<>>
Console(s) ==
  /\ Upwards(shown[s]) /\ \A m \in Messages : Holds(shown[s], m) => m <= sessionSeq[s]
  /\ reply[s][1] = "answer" => \A m \in reply[s][2] : m <= sessionSeq[s]
\* Before it is open, a session has emitted and shown nothing.
Unopened(s) ==
  sessionCall[s] # "open" => last[s] = 0 /\ wire[s] = <<>> /\ shown[s] = <<>> /\ reply[s] = <<"none">> /\ s \notin sub
\* While the page follows the session, what the ring holds is shown or comes behind what is.
Backfill(s) ==
  s \in sub =>
    /\ reply[s] = <<"over">> /\ s \notin overtook =>
         \A m \in Window(s) : Holds(shown[s], m) \/ (m > LastOf(shown[s]) /\ Coming(s, m))
    /\ reply[s][1] = "answer" /\ shown[s] = <<>> =>
         \A m \in Window(s) : m \in reply[s][2] \/ ((\A a \in reply[s][2] : a < m) /\ Coming(s, m))
Faithful(s) == Wired(s) /\ Console(s) /\ Unopened(s) /\ Backfill(s)

ConsoleTypes ==
  /\ wire \in [Sessions -> Seq(Events)] /\ shown \in [Sessions -> Seq(Messages)]
  /\ reply \in [Sessions -> {<<"none">>, <<"asked">>, <<"over">>} \cup ({"answer"} \X SUBSET Messages)]
SessionInv == SessionStages /\ ConsoleTypes /\ \A s \in Sessions : Faithful(s)

LEMMA ConsoleIsWhole == SessionInv => Session!ConsoleIsTheLog
<1> SUFFICES ASSUME SessionInv, NEW s \in Sessions
             PROVE  /\ \A i, j \in DOMAIN shown[s] : i < j => shown[s][i] < shown[s][j]
                    /\ /\ s \in sub /\ reply[s] = <<"over">> /\ wire[s] = <<>> /\ last[s] = Session!Over
                       /\ s \notin overtook
                       => Session!LogSince(s, 0) \subseteq {shown[s][i] : i \in DOMAIN shown[s]}
  BY DEF Session!ConsoleIsTheLog
<1>1. Wired(s) /\ Console(s) /\ Backfill(s) BY DEF SessionInv, Faithful
<1>2. \A i, j \in DOMAIN shown[s] : i < j => shown[s][i] < shown[s][j] BY <1>1 DEF Console, Upwards
<1>3. ASSUME s \in sub, reply[s] = <<"over">>, wire[s] = <<>>, last[s] = Session!Over, s \notin overtook, NEW m \in Session!LogSince(s, 0)
      PROVE  m \in {shown[s][i] : i \in DOMAIN shown[s]}
  <2>1. m <= sessionSeq[s] /\ m \in Nat /\ sessionSeq[s] \in Nat
    BY SessionAssumption DEF Session!LogSince, Session!Range0, SessionInv, SessionStages, Session!TypeOK
  <2>2. ~Coming(s, m) BY <1>3, <2>1, NothingOn DEF Coming, Emitted
  <2>3. Holds(shown[s], m) BY <1>1, <1>3, <2>2 DEF Backfill, Window
  <2> QED BY <2>3 DEF Holds
<1> QED BY <1>2, <1>3

LEMMA ConsoleStart == Session!Init => SessionInv
<1> SUFFICES ASSUME Session!Init PROVE SessionInv OBVIOUS
<1>1. SessionStages BY StagesStart
<1>2. ConsoleTypes BY NothingOn DEF ConsoleTypes, Session!Init
<1>3. ASSUME NEW s \in Sessions PROVE Faithful(s)
  <2>1. sub = {} /\ last[s] = 0 /\ sessionSeq[s] = 0 /\ wire[s] = <<>> /\ reply[s] = <<"none">> /\ shown[s] = <<>> BY DEF Session!Init
  <2>2. 0 # Session!Over BY SessionAssumption DEF Session!Over
  <2>3. reply[s][1] = "none" BY <2>1
  <2>4. Wired(s) BY <2>1, <2>2, NothingOn DEF Wired
  <2>5. Console(s) BY <2>1, <2>3, NothingOn DEF Console
  <2> QED BY <2>1, <2>4, <2>5 DEF Faithful, Unopened, Backfill
<1> QED BY <1>1, <1>2, <1>3 DEF SessionInv

\* A step of one session leaves the console of another.
ConsoleElsewhere(s) ==
  \A t \in Sessions \ {s} :
    /\ sessionCall'[t] = sessionCall[t] /\ sessionSeq'[t] = sessionSeq[t] /\ last'[t] = last[t]
    /\ wire'[t] = wire[t] /\ reply'[t] = reply[t] /\ shown'[t] = shown[t]
    /\ (t \in done' <=> t \in done) /\ (t \in sub' <=> t \in sub) /\ (t \in overtook' <=> t \in overtook)

LEMMA FaithfulElsewhere ==
  ASSUME SessionInv, NEW s \in Sessions, ConsoleElsewhere(s), Faithful(s)'
  PROVE  \A t \in Sessions : Faithful(t)'
<1>1. ASSUME NEW t \in Sessions \ {s} PROVE Faithful(t)'
  <2>1. Faithful(t) BY DEF SessionInv
  <2>2. /\ sessionCall'[t] = sessionCall[t] /\ sessionSeq'[t] = sessionSeq[t] /\ last'[t] = last[t]
        /\ wire'[t] = wire[t] /\ reply'[t] = reply[t] /\ shown'[t] = shown[t]
    BY DEF ConsoleElsewhere
  <2>3. (t \in done' <=> t \in done) /\ (t \in sub' <=> t \in sub) /\ (t \in overtook' <=> t \in overtook) BY DEF ConsoleElsewhere
  <2>4. Emitted(t)' = Emitted(t) /\ Window(t)' = Window(t)
    BY <2>2 DEF Emitted, Window, Session!LogSince, Session!Over
  <2>5. Wired(t)' BY <2>1, <2>2, <2>3, <2>4 DEF Faithful, Wired, Session!Over
  <2>6. Console(t)' BY <2>1, <2>2 DEF Faithful, Console
  <2>7. Unopened(t)' BY <2>1, <2>2, <2>3 DEF Faithful, Unopened
  <2>8. Backfill(t)' BY <2>1, <2>2, <2>3, <2>4 DEF Faithful, Backfill, Coming
  <2> QED BY <2>5, <2>6, <2>7, <2>8 DEF Faithful
<1> QED BY <1>1

\* Nothing of the console changes but the end of the pump.
LEMMA FaithfulStays ==
  ASSUME SessionInv, UNCHANGED <<sessionCall, sessionSeq, last, wire, reply, shown, sub, overtook>>, done \subseteq done'
  PROVE  ConsoleTypes' /\ \A t \in Sessions : Faithful(t)'
<1>1. ConsoleTypes' BY DEF SessionInv, ConsoleTypes
<1>2. ASSUME NEW t \in Sessions PROVE Faithful(t)'
  <2>1. Faithful(t) BY DEF SessionInv
  <2>2. Emitted(t)' = Emitted(t) /\ Window(t)' = Window(t) BY DEF Emitted, Window, Session!LogSince, Session!Over
  <2>3. Wired(t)' BY <2>1, <2>2 DEF Faithful, Wired, Session!Over
  <2>4. Console(t)' BY <2>1 DEF Faithful, Console
  <2>5. Unopened(t)' BY <2>1 DEF Faithful, Unopened
  <2>6. Backfill(t)' BY <2>1, <2>2 DEF Faithful, Backfill, Coming
  <2> QED BY <2>3, <2>4, <2>5, <2>6 DEF Faithful
<1> QED BY <1>1, <1>2

LEMMA StartFaithful ==
  ASSUME SessionInv, NEW s \in Sessions, Session!Start(s) \/ Session!StartAppWithFrida(s)
  PROVE  ConsoleTypes' /\ \A t \in Sessions : Faithful(t)'
<1>1. Session!TypeOK /\ Faithful(s) BY DEF SessionInv, SessionStages
<1> USE DEF Session!Go, Session!host, Session!page, Session!server_vars
<1>2. UNCHANGED <<last, wire, reply, shown, sub, overtook, done>>
  BY DEF Session!Start, Session!StartAppWithFrida, Session!EnsureRunning, Session!EnsureStart, Session!EnsureFails, Session!Prepare,
         Session!Launch, Session!ForwardFridaPort, Session!Spawn, Session!Register
<1>3. sessionCall[s] # "open" /\ \E next : sessionCall' = [sessionCall EXCEPT ![s] = next]
  BY DEF Session!Start, Session!StartAppWithFrida, Session!EnsureRunning, Session!EnsureStart, Session!EnsureFails, Session!Prepare,
         Session!Launch, Session!ForwardFridaPort, Session!Spawn, Session!Register
<1>4. sessionSeq' = sessionSeq \/ \E n \in {0, 1} : sessionSeq' = [sessionSeq EXCEPT ![s] = n]
  BY DEF Session!Start, Session!StartAppWithFrida, Session!EnsureRunning, Session!EnsureStart, Session!EnsureFails, Session!Prepare,
         Session!Launch, Session!ForwardFridaPort, Session!Spawn, Session!Register
<1>5. ConsoleTypes' BY <1>2 DEF SessionInv, ConsoleTypes
<1>6. \A t \in Sessions \ {s} : sessionCall'[t] = sessionCall[t] /\ sessionSeq'[t] = sessionSeq[t] BY <1>1, <1>3, <1>4 DEF Session!TypeOK
<1>7. ConsoleElsewhere(s) BY <1>2, <1>6 DEF ConsoleElsewhere
<1>8. last[s] = 0 /\ wire[s] = <<>> /\ shown[s] = <<>> /\ reply[s] = <<"none">> /\ s \notin sub BY <1>1, <1>3 DEF Faithful, Unopened
<1>9. reply[s][1] = "none" /\ 0 # Session!Over BY <1>8, SessionAssumption DEF Session!Over
<1>10. 0 <= sessionSeq'[s]
  <2>1. sessionSeq[s] \in Nat BY <1>1, SessionAssumption DEF Session!TypeOK
  <2> QED BY <1>1, <1>4, <2>1 DEF Session!TypeOK
<1>11. Wired(s)' BY <1>2, <1>8, <1>9, <1>10, NothingOn DEF Wired, Session!Over
<1>12. Console(s)' BY <1>2, <1>8, <1>9, NothingOn DEF Console
<1>13. Unopened(s)' /\ Backfill(s)' BY <1>2, <1>8 DEF Unopened, Backfill
<1> QED BY <1>5, <1>7, <1>11, <1>12, <1>13, FaithfulElsewhere DEF Faithful

\* The numbers of a session.
LEMMA Numbers ==
  ASSUME SessionInv, NEW s \in Sessions
  PROVE  /\ sessionSeq[s] \in Nat /\ last[s] \in Nat /\ Emitted(s) \in Nat /\ sessionSeq[s] < Session!Over
         /\ Emitted(s) <= sessionSeq[s]
         /\ \A m \in Messages : m \in Nat
         /\ \A m : m \in Window(s) <=> m \in Messages /\ 0 < m /\ m <= sessionSeq[s] /\ m > sessionSeq[s] - Ring
         /\ LastOf(shown[s]) \in Nat /\ LastOf(shown[s]) <= sessionSeq[s]
<1>1. sessionSeq[s] \in 0 .. MaxMsgs /\ last[s] \in 0 .. Session!Over BY DEF SessionInv, SessionStages, Session!TypeOK
<1>2. sessionSeq[s] \in Nat /\ last[s] \in Nat /\ sessionSeq[s] < Session!Over BY <1>1, SessionAssumption DEF Session!Over
<1>3. Emitted(s) \in Nat /\ Emitted(s) <= sessionSeq[s] BY <1>2 DEF Emitted, SessionInv, Faithful, Wired
<1>4. \A m \in Messages : m \in Nat BY SessionAssumption DEF Messages
<1>5. \A m : m \in Window(s) <=> m \in Messages /\ 0 < m /\ m <= sessionSeq[s] /\ m > sessionSeq[s] - Ring
  BY DEF Window, Session!LogSince, Session!Range0, Messages
<1>6. LastOf(shown[s]) \in Nat /\ LastOf(shown[s]) <= sessionSeq[s]
  <2>1. CASE shown[s] = <<>> BY <1>2, <2>1 DEF LastOf
  <2>2. CASE shown[s] # <<>>
    <3>1. shown[s] \in Seq(Messages) /\ Console(s) BY DEF SessionInv, ConsoleTypes, Faithful
    <3>2. Len(shown[s]) \in DOMAIN shown[s] /\ shown[s][Len(shown[s])] \in Messages BY <2>2, <3>1
    <3>3. Holds(shown[s], LastOf(shown[s])) /\ LastOf(shown[s]) \in Messages BY <2>2, <3>2 DEF Holds, LastOf
    <3> QED BY <1>4, <3>1, <3>3 DEF Console
  <2> QED BY <2>1, <2>2
<1> QED BY <1>2, <1>3, <1>4, <1>5, <1>6

LEMMA ReplyType ==
  ASSUME ConsoleTypes, NEW s \in Sessions, reply[s][1] = "answer"
  PROVE  reply[s][2] \in SUBSET Messages /\ reply[s] = <<"answer", reply[s][2]>>
<1>1. PICK r : r = reply[s] OBVIOUS
<1>2. r \in {<<"none">>, <<"asked">>, <<"over">>} \/ r \in {"answer"} \X SUBSET Messages BY <1>1 DEF ConsoleTypes
<1>3. r \notin {<<"none">>, <<"asked">>, <<"over">>} BY <1>1
<1>4. r \in {"answer"} \X SUBSET Messages BY <1>2, <1>3
<1> QED BY <1>1, <1>4

LEMMA SaysFaithful ==
  ASSUME SessionInv, NEW s \in Sessions, Session!DriverSays(s)
  PROVE  ConsoleTypes' /\ \A t \in Sessions : Faithful(t)'
<1>1. Session!TypeOK /\ Faithful(s) /\ Staged(s) BY DEF SessionInv, SessionStages
<1>2. UNCHANGED <<sessionCall, last, wire, reply, shown, sub, overtook, done>> /\ sessionSeq[s] < MaxMsgs
      /\ sessionSeq' = [sessionSeq EXCEPT ![s] = sessionSeq[s] + 1] /\ driver[s] # "gone"
  BY DEF Session!DriverSays, Session!page
<1>3. ConsoleTypes' BY <1>2 DEF SessionInv, ConsoleTypes
<1>4. sessionSeq'[s] = sessionSeq[s] + 1 /\ \A t \in Sessions \ {s} : sessionSeq'[t] = sessionSeq[t] BY <1>1, <1>2 DEF Session!TypeOK
<1>5. ConsoleElsewhere(s) BY <1>2, <1>4 DEF ConsoleElsewhere
<1>6. last[s] # Session!Over BY <1>1, <1>2 DEF Faithful, Wired, Staged
<1>7. Emitted(s)' = Emitted(s) /\ Emitted(s) = last[s] BY <1>2, <1>6 DEF Emitted, Session!Over
<1>8. /\ sessionSeq[s] \in Nat /\ Emitted(s) \in Nat /\ Emitted(s) <= sessionSeq[s]
      /\ \A m \in Messages : m \in Nat
      /\ \A m : m \in Window(s) <=> m \in Messages /\ 0 < m /\ m <= sessionSeq[s] /\ m > sessionSeq[s] - Ring
      /\ LastOf(shown[s]) \in Nat /\ LastOf(shown[s]) <= sessionSeq[s]
  BY Numbers
<1>9. \A m : m \in Window(s)' <=> m \in Messages /\ 0 < m /\ m <= sessionSeq[s] + 1 /\ m > sessionSeq[s] + 1 - Ring
  <2>1. PICK k : k = sessionSeq'[s] OBVIOUS
  <2>2. Window(s)' = {m \in 1 .. MaxMsgs : 0 < m /\ m <= k /\ m > k - Ring}
    BY <2>1 DEF Window, Session!LogSince, Session!Range0
  <2>3. k = sessionSeq[s] + 1 BY <1>4, <2>1
  <2>4. \A m : m \in Window(s)' <=> m \in Messages /\ 0 < m /\ m <= k /\ m > k - Ring BY <2>2 DEF Messages
  <2>5. k \in Nat /\ sessionSeq[s] \in Nat /\ Ring \in Nat BY <1>8, <2>3, SessionAssumption
  <2>6. \A m : m \in Window(s)' => m \in Messages /\ m \in Nat BY <1>8, <2>4
  <2> QED BY <1>8, <2>3, <2>4, <2>5, <2>6
<1>10. ASSUME NEW m \in Window(s)' PROVE m \in Window(s) \/ m = sessionSeq[s] + 1
  BY <1>8, <1>9, SessionAssumption
<1>11. Wired(s)'
  <2>1. last[s] <= sessionSeq'[s] BY <1>4, <1>7, <1>8
  <2> QED BY <1>1, <1>2, <1>6, <1>7, <2>1 DEF Wired, Faithful, Session!Over
<1>12. Console(s)'
  <2>1. \A m \in Messages : m <= sessionSeq[s] => m <= sessionSeq'[s] BY <1>4, <1>8
  <2>2. reply[s][1] = "answer" => reply[s][2] \subseteq Messages BY ReplyType DEF SessionInv
  <2> QED BY <1>1, <1>2, <2>1, <2>2 DEF Console, Faithful
<1>13. Unopened(s)' BY <1>1, <1>2 DEF Faithful, Unopened
<1>14. \A m : Coming(s, m)' <=> Coming(s, m) BY <1>2, <1>7 DEF Coming
<1>15. Coming(s, sessionSeq[s] + 1) /\ sessionSeq[s] + 1 > LastOf(shown[s]) BY <1>7, <1>8 DEF Coming
<1>16. reply[s][1] = "answer" => \A a \in reply[s][2] : a < sessionSeq[s] + 1
  <2>1. reply[s][1] = "answer" => reply[s][2] \subseteq Messages BY ReplyType DEF SessionInv
  <2> QED BY <1>1, <1>8, <2>1 DEF Console, Faithful
<1>17. Backfill(s)'
  <2> SUFFICES ASSUME s \in sub
               PROVE  /\ reply[s] = <<"over">> /\ s \notin overtook =>
                           \A m \in Window(s)' : Holds(shown[s], m) \/ (m > LastOf(shown[s]) /\ Coming(s, m))
                      /\ reply[s][1] = "answer" /\ shown[s] = <<>> =>
                           \A m \in Window(s)' : m \in reply[s][2] \/ ((\A a \in reply[s][2] : a < m) /\ Coming(s, m))
    BY <1>2, <1>14 DEF Backfill
  <2>1. Backfill(s) BY <1>1 DEF Faithful
  <2>2. ASSUME reply[s] = <<"over">>, s \notin overtook, NEW m \in Window(s)'
        PROVE  Holds(shown[s], m) \/ (m > LastOf(shown[s]) /\ Coming(s, m))
    BY <1>10, <1>15, <2>1, <2>2 DEF Backfill
  <2>3. ASSUME reply[s][1] = "answer", shown[s] = <<>>, NEW m \in Window(s)'
        PROVE  m \in reply[s][2] \/ ((\A a \in reply[s][2] : a < m) /\ Coming(s, m))
    BY <1>10, <1>15, <1>16, <2>1, <2>3 DEF Backfill
  <2> QED BY <2>2, <2>3
<1> QED BY <1>3, <1>5, <1>11, <1>12, <1>13, <1>17, FaithfulElsewhere DEF Faithful

\* An event e on its way, after which the last that was emitted is n.
LEMMA EmitFaithful ==
  ASSUME SessionInv, NEW s \in Sessions, NEW e \in Events, NEW n \in 0 .. Session!Over,
         sessionCall[s] = "open", last' = [last EXCEPT ![s] = n], Session!Send(s, e),
         UNCHANGED <<sessionCall, sessionSeq, reply, shown, sub, overtook, done>>,
         n = sessionSeq[s] \/ (n = Session!Over /\ s \in done /\ last[s] = sessionSeq[s]),
         \A m \in e.msgs : m > Emitted(s) /\ m <= sessionSeq[s], e.kind = "done" => e.msgs = {},
         \A m \in Window(s) : m > Emitted(s) => m \in e.msgs
  PROVE  ConsoleTypes' /\ \A t \in Sessions : Faithful(t)'
<1>1. Session!TypeOK /\ Faithful(s) /\ ConsoleTypes BY DEF SessionInv, SessionStages
<1>2. last'[s] = n /\ \A t \in Sessions \ {s} : last'[t] = last[t] BY <1>1 DEF Session!TypeOK
<1>3. wire' = IF s \in sub THEN [wire EXCEPT ![s] = Append(wire[s], e)] ELSE wire BY DEF Session!Send
<1>4. wire[s] \in Seq(Events) /\ wire \in [Sessions -> Seq(Events)] BY <1>1 DEF ConsoleTypes
<1>5. Append(wire[s], e) \in Seq(Events) BY <1>4
<1>6. wire' \in [Sessions -> Seq(Events)] /\ (\A t \in Sessions \ {s} : wire'[t] = wire[t])
      /\ wire'[s] = IF s \in sub THEN Append(wire[s], e) ELSE wire[s]
  BY <1>3, <1>4, <1>5
<1>7. ConsoleTypes' BY <1>1, <1>6 DEF ConsoleTypes
<1>8. ConsoleElsewhere(s) BY <1>2, <1>6 DEF ConsoleElsewhere
<1>9. /\ sessionSeq[s] \in Nat /\ Emitted(s) \in Nat /\ Emitted(s) <= sessionSeq[s] /\ sessionSeq[s] < Session!Over
      /\ \A m \in Messages : m \in Nat
      /\ \A m : m \in Window(s) <=> m \in Messages /\ 0 < m /\ m <= sessionSeq[s] /\ m > sessionSeq[s] - Ring
  BY Numbers
<1>10. Emitted(s)' = sessionSeq[s] BY <1>2, <1>9 DEF Emitted, Session!Over
<1>11. e.msgs \subseteq Messages BY DEF Events
<1>12. /\ InSequence(wire'[s])
       /\ \A m : On(wire'[s], m) <=> On(wire[s], m) \/ (s \in sub /\ m \in e.msgs)
  <2>1. CASE s \notin sub BY <1>1, <1>6, <2>1 DEF Faithful, Wired
  <2>2. CASE s \in sub
    <3>1. InSequence(wire[s]) BY <1>1 DEF Faithful, Wired
    <3>2. \A m \in Messages : On(wire[s], m) => m <= Emitted(s) BY <1>1 DEF Faithful, Wired
    <3>3. \A m \in Messages, k \in e.msgs : On(wire[s], m) => m < k BY <1>9, <1>11, <3>2
    <3>4. InSequence(Append(wire[s], e)) /\ \A m : On(Append(wire[s], e), m) <=> On(wire[s], m) \/ m \in e.msgs
      BY <1>4, <3>1, <3>3, WireAdd
    <3> QED BY <1>6, <2>2, <3>4
  <2> QED BY <2>1, <2>2
<1>13. Wired(s)'
  <2>1. \A m \in Messages : On(wire'[s], m) => m <= sessionSeq[s]
    <3>1. \A m \in Messages : On(wire[s], m) => m <= Emitted(s) BY <1>1 DEF Faithful, Wired
    <3> QED BY <1>9, <1>12, <3>1
  <2>2. n # Session!Over => n <= sessionSeq[s] BY <1>9
  <2>3. n = Session!Over => s \in done BY <1>9
  <2>4. s \notin sub => wire'[s] = <<>> BY <1>1, <1>6 DEF Faithful, Wired
  <2> QED BY <1>2, <1>10, <1>12, <2>1, <2>2, <2>3, <2>4 DEF Wired, Session!Over
<1>14. Console(s)' BY <1>1 DEF Faithful, Console
<1>15. Unopened(s)' BY DEF Unopened
<1>16. ASSUME s \in sub, NEW m \in Window(s), Coming(s, m) PROVE Coming(s, m)'
  <2>1. On(wire[s], m) => On(wire'[s], m) BY <1>12
  <2>2. m > Emitted(s) => On(wire'[s], m) BY <1>12, <1>16
  <2> QED BY <1>16, <2>1, <2>2 DEF Coming
<1>17. Window(s)' = Window(s) BY DEF Window, Session!LogSince
<1>18. Backfill(s)'
  <2>1. Backfill(s) BY <1>1 DEF Faithful
  <2> QED BY <1>16, <1>17, <2>1 DEF Backfill
<1> QED BY <1>7, <1>8, <1>13, <1>14, <1>15, <1>18, FaithfulElsewhere DEF Faithful

LEMMA FlushFaithful ==
  ASSUME SessionInv, NEW s \in Sessions, Session!Flush(s) \/ Session!FlushDone(s)
  PROVE  ConsoleTypes' /\ \A t \in Sessions : Faithful(t)'
<1>1. /\ sessionSeq[s] \in Nat /\ last[s] \in Nat /\ Emitted(s) \in Nat /\ sessionSeq[s] < Session!Over
      /\ \A m \in Messages : m \in Nat
      /\ \A m : m \in Window(s) <=> m \in Messages /\ 0 < m /\ m <= sessionSeq[s] /\ m > sessionSeq[s] - Ring
  BY Numbers
<1>2. Session!Over \in Nat BY SessionAssumption DEF Session!Over
<1>3. CASE Session!Flush(s)
  <2> DEFINE B == Session!LogSince(s, last[s])
  <2>1. PICK e : e = [kind |-> "batch", msgs |-> B] OBVIOUS
  <2>2. /\ sessionCall[s] = "open" /\ last[s] < sessionSeq[s] /\ last' = [last EXCEPT ![s] = sessionSeq[s]] /\ Session!Send(s, e)
        /\ UNCHANGED <<sessionCall, sessionSeq, reply, shown, sub, overtook, done>>
    BY <1>3, <2>1 DEF Session!Flush, Session!host
  <2>3. Emitted(s) = last[s] BY <1>1, <2>2 DEF Emitted
  <2>4. B \subseteq Messages /\ \A m : m \in B <=> m \in Messages /\ last[s] < m /\ m <= sessionSeq[s] /\ m > sessionSeq[s] - Ring
    BY DEF Session!LogSince, Session!Range0, Messages
  <2> HIDE DEF B
  <2>5. e \in Events /\ e.msgs = B /\ e.kind = "batch" BY <2>1, <2>4 DEF Events
  <2>6. \A m \in e.msgs : m > Emitted(s) /\ m <= sessionSeq[s] BY <1>1, <2>3, <2>4, <2>5
  <2>7. \A m \in Window(s) : m > Emitted(s) => m \in e.msgs BY <1>1, <2>3, <2>4, <2>5
  <2>8. sessionSeq[s] \in 0 .. Session!Over BY <1>1, <1>2
  <2>9. e.kind = "done" => e.msgs = {} BY <2>5
  <2>10. PICK n \in 0 .. Session!Over : n = sessionSeq[s] BY <2>8
  <2> QED BY <2>2, <2>5, <2>6, <2>7, <2>9, <2>10, EmitFaithful
<1>4. CASE Session!FlushDone(s)
  <2>1. PICK e : e = [kind |-> "done", msgs |-> {}] OBVIOUS
  <2>2. /\ sessionCall[s] = "open" /\ last[s] = sessionSeq[s] /\ s \in done /\ last' = [last EXCEPT ![s] = Session!Over] /\ Session!Send(s, e)
        /\ UNCHANGED <<sessionCall, sessionSeq, reply, shown, sub, overtook, done>>
    BY <1>4, <2>1 DEF Session!FlushDone, Session!host
  <2>3. Emitted(s) = sessionSeq[s] BY <1>1, <2>2 DEF Emitted
  <2>4. e \in Events /\ e.msgs = {} BY <2>1 DEF Events
  <2>5. \A m \in Window(s) : m > Emitted(s) => m \in e.msgs BY <1>1, <2>3
  <2>6. PICK n \in 0 .. Session!Over : n = Session!Over BY <1>2
  <2>7. \A m \in e.msgs : m > Emitted(s) /\ m <= sessionSeq[s] BY <2>4
  <2> QED BY <2>2, <2>4, <2>5, <2>6, <2>7, EmitFaithful
<1> QED BY <1>3, <1>4

LEMMA DriverFaithful ==
  ASSUME SessionInv, NEW s \in Sessions, DriverSteps(s)
  PROVE  ConsoleTypes' /\ \A t \in Sessions : Faithful(t)'
<1>1. CASE \/ Session!PumpEnds(s) \/ Session!DriverExits(s) \/ Session!Release(s) \/ Session!StopFridaSession(s) \/ Session!Closing(s)
  <2>1. UNCHANGED <<sessionCall, sessionSeq, last, wire, reply, shown, sub, overtook>> /\ done \subseteq done'
    BY <1>1 DEF Session!PumpEnds, Session!DriverExits, Session!Release, Session!StopKill, Session!StopRelease, Session!StopFridaSession,
                Session!Closing, Session!ShutdownStop, Session!page
  <2> QED BY <2>1, FaithfulStays
<1>2. CASE Session!RemoveFridaSession(s)
  <2>1. UNCHANGED <<sessionCall, sessionSeq, last, reply, shown, overtook, done>> /\ sub' = sub \ {s} /\ wire' = [wire EXCEPT ![s] = <<>>]
    BY <1>2 DEF Session!RemoveFridaSession
  <2>2. ConsoleTypes /\ Faithful(s) BY DEF SessionInv
  <2>3. wire' \in [Sessions -> Seq(Events)] /\ wire'[s] = <<>> /\ \A t \in Sessions \ {s} : wire'[t] = wire[t]
    BY <2>1, <2>2, NothingOn DEF ConsoleTypes
  <2>4. ConsoleTypes' BY <2>1, <2>2, <2>3 DEF ConsoleTypes
  <2>5. ConsoleElsewhere(s) BY <2>1, <2>3 DEF ConsoleElsewhere
  <2>6. Wired(s)' BY <2>1, <2>2, <2>3, NothingOn DEF Wired, Faithful, Session!Over
  <2>7. Console(s)' BY <2>1, <2>2 DEF Console, Faithful
  <2>8. Unopened(s)' BY <2>1, <2>2, <2>3 DEF Unopened, Faithful
  <2>9. Backfill(s)' BY <2>1 DEF Backfill
  <2> QED BY <2>4, <2>5, <2>6, <2>7, <2>8, <2>9, FaithfulElsewhere DEF Faithful
<1> QED BY <1>1, <1>2, SaysFaithful, FlushFaithful DEF DriverSteps, Session!Pump

LEMMA AdoptFaithful ==
  ASSUME SessionInv, NEW s \in Sessions, Session!Adopt(s) \/ Session!GetFridaSessionLog(s)
  PROVE  ConsoleTypes' /\ \A t \in Sessions : Faithful(t)'
<1>1. ConsoleTypes /\ Faithful(s) BY DEF SessionInv
<1>2. UNCHANGED <<sessionCall, sessionSeq, last, wire, shown, overtook, done>>
  BY DEF Session!Adopt, Session!GetFridaSessionLog, Session!host
<1>3. Window(s) \in SUBSET Messages BY DEF Window, Session!LogSince, Session!Range0, Messages
<1>4. PICK r \in {<<"asked">>, <<"answer", Window(s)>>} : reply' = [reply EXCEPT ![s] = r]
  BY DEF Session!Adopt, Session!GetFridaSessionLog, Window
<1>5. r = <<"asked">> \/ r \in {"answer"} \X SUBSET Messages BY <1>3, <1>4
<1>6. reply' \in [Sessions -> {<<"none">>, <<"asked">>, <<"over">>} \cup ({"answer"} \X SUBSET Messages)]
  BY <1>1, <1>4, <1>5 DEF ConsoleTypes
<1>7. reply'[s] = r /\ \A t \in Sessions \ {s} : reply'[t] = reply[t] BY <1>1, <1>4 DEF ConsoleTypes
<1>8. ConsoleTypes' BY <1>1, <1>2, <1>6 DEF ConsoleTypes
<1>9. sub \subseteq sub' /\ (\A t \in Sessions \ {s} : t \in sub' <=> t \in sub) BY DEF Session!Adopt, Session!GetFridaSessionLog
<1>10. sessionCall[s] = "open"
  <2>1. reply[s] # <<"none">> => sessionCall[s] = "open" BY <1>1 DEF Faithful, Unopened
  <2>2. <<"asked">> # <<"none">> OBVIOUS
  <2> QED BY <2>1, <2>2 DEF Session!Adopt, Session!GetFridaSessionLog
<1>11. ConsoleElsewhere(s) BY <1>2, <1>7, <1>9 DEF ConsoleElsewhere
<1>12. Emitted(s)' = Emitted(s) /\ Window(s)' = Window(s) BY <1>2 DEF Emitted, Window, Session!LogSince, Session!Over
<1>13. Wired(s)' BY <1>1, <1>2, <1>9, <1>12 DEF Faithful, Wired, Session!Over
<1>14. Console(s)'
  <2>1. r[1] = "answer" => r[2] = Window(s) BY <1>4
  <2>2. \A m \in Window(s) : m <= sessionSeq[s] BY Numbers
  <2> QED BY <1>1, <1>2, <1>7, <2>1, <2>2 DEF Faithful, Console
<1>15. Unopened(s)' BY <1>2, <1>10 DEF Unopened
<1>16. Backfill(s)'
  <2>1. r # <<"over">> /\ (r[1] = "answer" => r[2] = Window(s)) BY <1>4
  <2>2. reply'[s] # <<"over">> /\ (reply'[s][1] = "answer" => reply'[s][2] = Window(s)) BY <1>7, <2>1
  <2> QED BY <1>12, <2>2 DEF Backfill
<1> QED BY <1>8, <1>11, <1>13, <1>14, <1>15, <1>16, FaithfulElsewhere DEF Faithful

\* The page has what was shown and B.
LEMMA MergedFaithful ==
  ASSUME SessionInv, NEW s \in Sessions, NEW B \in SUBSET Messages, \A m \in B : m <= sessionSeq[s]
  PROVE  /\ Session!Merged(s, B) \in [Sessions -> Seq(Messages)]
         /\ Session!Merged(s, B)[s] = Merge(shown[s], B) /\ \A t \in Sessions \ {s} : Session!Merged(s, B)[t] = shown[t]
         /\ Upwards(Merge(shown[s], B)) /\ \A m \in Messages : Holds(Merge(shown[s], B), m) => m <= sessionSeq[s]
<1>1. ConsoleTypes /\ Console(s) BY DEF SessionInv, Faithful
<1>2. shown[s] \in Seq(Messages) /\ Upwards(shown[s]) /\ shown \in [Sessions -> Seq(Messages)] BY <1>1 DEF ConsoleTypes, Console
<1>3. Session!LastSeq(s) = LastOf(shown[s]) BY DEF Session!LastSeq, LastOf
<1>4. Session!Merged(s, B) = [shown EXCEPT ![s] = Merge(shown[s], B)] BY <1>3 DEF Session!Merged, Merge
<1>5. Merge(shown[s], B) \in Seq(Messages) /\ Upwards(Merge(shown[s], B)) BY <1>2, Merging
<1>6. \A m : Holds(Merge(shown[s], B), m) <=> Holds(shown[s], m) \/ (m \in B /\ m > LastOf(shown[s])) BY <1>2, Merging
<1>7. \A m \in Messages : Holds(Merge(shown[s], B), m) => m <= sessionSeq[s] BY <1>1, <1>6 DEF Console
<1> QED BY <1>2, <1>4, <1>5, <1>7

LEMMA BackfilledFaithful ==
  ASSUME SessionInv, NEW s \in Sessions, Session!Backfilled(s)
  PROVE  ConsoleTypes' /\ \A t \in Sessions : Faithful(t)'
<1>1. ConsoleTypes /\ Faithful(s) BY DEF SessionInv
<1>2. UNCHANGED <<sessionCall, sessionSeq, last, wire, sub, done>> /\ s \in sub /\ reply[s][1] = "answer"
      /\ reply' = [reply EXCEPT ![s] = <<"over">>] /\ overtook' = IF shown[s] = <<>> THEN overtook ELSE overtook \cup {s}
  BY DEF Session!Backfilled, Session!host
<1>3. PICK B \in SUBSET Messages : B = reply[s][2] BY <1>1, <1>2, ReplyType
<1>4. \A m \in B : m <= sessionSeq[s] BY <1>1, <1>2, <1>3 DEF Faithful, Console
<1>5. shown' = Session!Merged(s, B) BY <1>3 DEF Session!Backfilled
<1>6. /\ shown' \in [Sessions -> Seq(Messages)] /\ shown'[s] = Merge(shown[s], B) /\ \A t \in Sessions \ {s} : shown'[t] = shown[t]
      /\ Upwards(shown'[s]) /\ \A m \in Messages : Holds(shown'[s], m) => m <= sessionSeq[s]
  BY <1>4, <1>5, MergedFaithful
<1>7. reply'[s] = <<"over">> /\ \A t \in Sessions \ {s} : reply'[t] = reply[t] BY <1>1, <1>2 DEF ConsoleTypes
<1>8. ConsoleTypes'
  <2>1. reply' \in [Sessions -> {<<"none">>, <<"asked">>, <<"over">>} \cup ({"answer"} \X SUBSET Messages)]
    BY <1>1, <1>2 DEF ConsoleTypes
  <2> QED BY <1>1, <1>2, <1>6, <2>1 DEF ConsoleTypes
<1>9. ConsoleElsewhere(s)
  <2>1. \A t \in Sessions \ {s} : t \in overtook' <=> t \in overtook BY <1>2
  <2> QED BY <1>2, <1>6, <1>7, <2>1 DEF ConsoleElsewhere
<1>10. Emitted(s)' = Emitted(s) /\ Window(s)' = Window(s) BY <1>2 DEF Emitted, Window, Session!LogSince, Session!Over
<1>11. Wired(s)' BY <1>1, <1>2, <1>10 DEF Faithful, Wired, Session!Over
<1>12. reply'[s][1] = "over" BY <1>7
<1>13. Console(s)' BY <1>2, <1>6, <1>12 DEF Console
<1>14. Unopened(s)' BY <1>1, <1>2 DEF Faithful, Unopened
<1>15. Backfill(s)'
  <2> SUFFICES ASSUME s \notin overtook', NEW m \in Window(s)
               PROVE  Holds(shown'[s], m) \/ (m > LastOf(shown'[s]) /\ Coming(s, m)')
    BY <1>10, <1>12 DEF Backfill
  <2>1. shown[s] = <<>> BY <1>2
  <2>2. m \in B \/ ((\A a \in B : a < m) /\ Coming(s, m)) BY <1>1, <1>2, <1>3, <2>1 DEF Faithful, Backfill
  <2>3. m \in Messages /\ m \in Nat /\ 0 < m /\ \A a \in Messages : a \in Nat BY Numbers
  <2>4. shown[s] \in Seq(Messages) /\ Upwards(shown[s]) /\ LastOf(shown[s]) = 0 BY <1>1, <2>1, NothingOn DEF ConsoleTypes, Faithful, Console
  <2>5. /\ Holds(shown'[s], m) <=> Holds(shown[s], m) \/ (m \in B /\ m > LastOf(shown[s]))
        /\ LastOf(shown'[s]) = LastOf(shown[s]) \/ LastOf(shown'[s]) \in B
    BY <1>6, <2>4, Merging
  <2>6. Coming(s, m) => Coming(s, m)' BY <1>2, <1>10 DEF Coming
  <2>7. CASE m \in B BY <2>3, <2>4, <2>5, <2>7
  <2>8. CASE (\A a \in B : a < m) /\ Coming(s, m) BY <2>3, <2>4, <2>5, <2>6, <2>8
  <2> QED BY <2>2, <2>7, <2>8
<1> QED BY <1>8, <1>9, <1>11, <1>13, <1>14, <1>15, FaithfulElsewhere DEF Faithful

\* An event arrives: a batch is merged, an end brings nothing.
LEMMA ArrivesFaithful ==
  ASSUME SessionInv, NEW s \in Sessions, Session!Arrives(s)
  PROVE  ConsoleTypes' /\ \A t \in Sessions : Faithful(t)'
<1>1. ConsoleTypes /\ Faithful(s) BY DEF SessionInv
<1>2. UNCHANGED <<sessionCall, sessionSeq, last, reply, sub, overtook, done>> /\ s \in sub /\ wire[s] # <<>>
      /\ wire' = [wire EXCEPT ![s] = Tail(wire[s])]
  BY DEF Session!Arrives, Session!host
<1>3. wire[s] \in Seq(Events) /\ InSequence(wire[s]) /\ shown[s] \in Seq(Messages) /\ Upwards(shown[s])
  BY <1>1 DEF ConsoleTypes, Faithful, Wired, Console
<1>4. PICK e \in Events : e = Head(wire[s]) BY <1>2, <1>3, WireTail
<1>5. /\ Tail(wire[s]) \in Seq(Events) /\ InSequence(Tail(wire[s]))
      /\ \A m : On(wire[s], m) <=> m \in e.msgs \/ On(Tail(wire[s]), m)
      /\ \A m, n : m \in e.msgs /\ On(Tail(wire[s]), n) => m < n
      /\ e.kind = "done" => e.msgs = {}
  BY <1>2, <1>3, <1>4, WireTail
<1>6. wire' \in [Sessions -> Seq(Events)] /\ wire'[s] = Tail(wire[s]) /\ \A t \in Sessions \ {s} : wire'[t] = wire[t]
  BY <1>1, <1>2, <1>5 DEF ConsoleTypes
<1>7. PICK B \in SUBSET Messages : B = e.msgs BY DEF Events
<1>8. \A m \in B : m <= Emitted(s) /\ m <= sessionSeq[s]
  <2>1. \A m \in B : m \in Messages /\ On(wire[s], m) BY <1>5, <1>7
  <2>2. \A m \in B : m <= Emitted(s) BY <1>1, <2>1 DEF Faithful, Wired
  <2>3. Emitted(s) \in Nat /\ sessionSeq[s] \in Nat /\ Emitted(s) <= sessionSeq[s] /\ \A m \in Messages : m \in Nat BY Numbers
  <2> QED BY <2>2, <2>3
<1>9. /\ shown' \in [Sessions -> Seq(Messages)] /\ \A t \in Sessions \ {s} : shown'[t] = shown[t]
      /\ Upwards(shown'[s]) /\ \A m \in Messages : Holds(shown'[s], m) => m <= sessionSeq[s]
      /\ \A m : Holds(shown'[s], m) <=> Holds(shown[s], m) \/ (m \in B /\ m > LastOf(shown[s]))
      /\ LastOf(shown'[s]) = LastOf(shown[s]) \/ LastOf(shown'[s]) \in B
      /\ shown'[s] = <<>> => shown[s] = <<>> /\ B = {}
  <2>1. CASE e.kind = "batch" /\ shown' = Session!Merged(s, B)
    <3>1. /\ shown' \in [Sessions -> Seq(Messages)] /\ shown'[s] = Merge(shown[s], B) /\ \A t \in Sessions \ {s} : shown'[t] = shown[t]
          /\ Upwards(shown'[s]) /\ \A m \in Messages : Holds(shown'[s], m) => m <= sessionSeq[s]
      BY <1>8, <2>1, MergedFaithful
    <3>2. \A m : Holds(shown'[s], m) <=> Holds(shown[s], m) \/ (m \in B /\ m > LastOf(shown[s])) BY <1>3, <3>1, Merging
    <3>3. LastOf(shown'[s]) = LastOf(shown[s]) \/ LastOf(shown'[s]) \in B BY <1>3, <3>1, Merging
    <3>4. shown'[s] = <<>> => shown[s] = <<>> /\ B = {} BY <1>3, <3>1, Merging
    <3> QED BY <3>1, <3>2, <3>3, <3>4
  <2>2. CASE e.kind = "done" /\ shown' = shown
    <3>1. B = {} BY <1>5, <1>7, <2>2
    <3>2. Console(s) BY <1>1 DEF Faithful
    <3> QED BY <1>1, <1>3, <2>2, <3>1, <3>2 DEF ConsoleTypes, Console
  <2>3. \/ e.kind = "batch" /\ shown' = Session!Merged(s, B)
        \/ e.kind = "done" /\ shown' = shown
    BY <1>4, <1>7 DEF Session!Arrives
  <2> QED BY <2>1, <2>2, <2>3
<1>10. ConsoleTypes' BY <1>1, <1>2, <1>6, <1>9 DEF ConsoleTypes
<1>11. ConsoleElsewhere(s) BY <1>2, <1>6, <1>9 DEF ConsoleElsewhere
<1>12. Emitted(s)' = Emitted(s) /\ Window(s)' = Window(s) BY <1>2 DEF Emitted, Window, Session!LogSince, Session!Over
<1>13. Wired(s)'
  <2>1. \A m \in Messages : On(wire'[s], m) => m <= Emitted(s) BY <1>1, <1>5, <1>6 DEF Faithful, Wired
  <2> QED BY <1>1, <1>2, <1>5, <1>6, <1>12, <2>1 DEF Faithful, Wired, Session!Over
<1>14. Console(s)' BY <1>1, <1>2, <1>9 DEF Faithful, Console
<1>15. Unopened(s)' BY <1>1, <1>2 DEF Faithful, Unopened
\* A message behind what was shown is in the batch, or still behind what is shown now.
<1>16. ASSUME NEW m \in Messages, Coming(s, m), m \notin B
       PROVE  Coming(s, m)' /\ \A b \in B : b < m
  <2>1. Emitted(s) \in Nat /\ \A k \in Messages : k \in Nat BY Numbers
  <2>2. CASE On(wire[s], m)
    <3>1. On(Tail(wire[s]), m) BY <1>5, <1>7, <1>16, <2>2
    <3>2. \A b \in B : b < m BY <1>5, <1>7, <3>1
    <3> QED BY <1>6, <3>1, <3>2 DEF Coming
  <2>3. CASE m > Emitted(s)
    <3>1. \A b \in B : b < m BY <1>8, <2>1, <2>3
    <3> QED BY <1>12, <2>3, <3>1 DEF Coming
  <2> QED BY <1>16, <2>2, <2>3 DEF Coming
<1>17. Backfill(s)'
  <2>1. Backfill(s) BY <1>1 DEF Faithful
  <2>2. ASSUME reply[s] = <<"over">>, s \notin overtook, NEW m \in Window(s)
        PROVE  Holds(shown'[s], m) \/ (m > LastOf(shown'[s]) /\ Coming(s, m)')
    <3>1. m \in Messages BY Numbers
    <3>2. Holds(shown[s], m) \/ (m > LastOf(shown[s]) /\ Coming(s, m)) BY <1>2, <2>1, <2>2 DEF Backfill
    <3>3. CASE Holds(shown[s], m) BY <1>9, <3>3
    <3>4. CASE m \in B /\ m > LastOf(shown[s]) BY <1>9, <3>4
    <3>5. CASE m \notin B /\ m > LastOf(shown[s]) /\ Coming(s, m)
      <4>1. Coming(s, m)' /\ \A b \in B : b < m BY <1>16, <3>1, <3>5
      <4>2. LastOf(shown[s]) \in Nat /\ \A k \in Messages : k \in Nat BY Numbers
      <4>3. m > LastOf(shown'[s]) BY <1>9, <3>1, <3>5, <4>1, <4>2
      <4> QED BY <4>1, <4>3
    <3> QED BY <3>2, <3>3, <3>4, <3>5
  <2>3. ASSUME reply[s][1] = "answer", shown'[s] = <<>>, NEW m \in Window(s)
        PROVE  m \in reply[s][2] \/ ((\A a \in reply[s][2] : a < m) /\ Coming(s, m)')
    <3>1. shown[s] = <<>> /\ B = {} BY <1>9, <2>3
    <3>2. m \in Messages BY Numbers
    <3>3. m \in reply[s][2] \/ ((\A a \in reply[s][2] : a < m) /\ Coming(s, m)) BY <1>2, <2>1, <2>3, <3>1 DEF Backfill
    <3> QED BY <1>16, <3>1, <3>2, <3>3
  <2> QED BY <1>2, <1>12, <2>2, <2>3 DEF Backfill
<1> QED BY <1>10, <1>11, <1>13, <1>14, <1>15, <1>17, FaithfulElsewhere DEF Faithful

LEMMA SessionStep == SessionInv /\ [Session!Next]_Session!vars => SessionInv'
<1> SUFFICES ASSUME SessionInv, [Session!Next]_Session!vars PROVE SessionInv' OBVIOUS
<1>1. SessionStages' BY StagesStep DEF SessionInv
<1>2. CASE UNCHANGED Session!vars
  <2>1. UNCHANGED <<sessionCall, sessionSeq, last, wire, reply, shown, sub, overtook, done>> BY <1>2 DEF Session!vars, Session!host, Session!page
  <2> QED BY <1>1, <2>1, FaithfulStays DEF SessionInv
<1>3. CASE HostTurns
  <2>1. UNCHANGED <<sessionCall, sessionSeq, last, wire, reply, shown, sub, overtook, done>>
    BY <1>3 DEF HostTurns, Session!ServerTurns, Session!RemoveRuntime, Session!Shutdown, Session!Exit, Session!host, Session!page
  <2> QED BY <1>1, <2>1, FaithfulStays DEF SessionInv
<1>4. ASSUME NEW s \in Sessions, Session!Start(s) \/ Session!StartAppWithFrida(s) \/ DriverSteps(s) \/ PageSteps(s)
      PROVE  ConsoleTypes' /\ \A t \in Sessions : Faithful(t)'
  BY <1>4, StartFaithful, DriverFaithful, AdoptFaithful, BackfilledFaithful, ArrivesFaithful DEF PageSteps, Session!Page
<1> QED BY <1>1, <1>2, <1>3, <1>4, SessionNext DEF SessionInv

\* No session leaves a forward, a directory or a driver behind, and its console is its log,
\* over any sessions, rings and shutdowns (frida_session.go, store.tsx).
THEOREM SessionIsWhole == Session!Spec => [](Session!TypeOK /\ Session!NothingLeftBehind /\ Session!ConsoleIsTheLog)
<1>1. SessionInv => Session!TypeOK /\ Session!NothingLeftBehind /\ Session!ConsoleIsTheLog
  BY StagesLeaveNothing, ConsoleIsWhole DEF SessionInv, SessionStages
<1> QED BY <1>1, ConsoleStart, SessionStep, PTL DEF Session!Spec

-----------------------------------------------------------------------------
(* Frida's library: what a deletion keeps of a binding.                    *)

KeptOf(ids, id, n, g) ==
  g = [i \in 0 .. n |-> IF i = 0 THEN <<>> ELSE IF ids[i] # id THEN Append(g[i - 1], ids[i]) ELSE g[i - 1]]

LEMMA KeptExists == ASSUME NEW ids \in Seq(Nat), NEW id \in Nat PROVE \A n \in 0 .. Len(ids) : \E g : KeptOf(ids, id, n, g)
<1> DEFINE Bad == {n \in 0 .. Len(ids) : ~ \E g : KeptOf(ids, id, n, g)}
<1> SUFFICES ASSUME Bad # {} PROVE FALSE OBVIOUS
<1>1. PICK n \in Bad : \A m \in Bad : n <= m
  <2>1. Bad \in SUBSET Nat OBVIOUS
  <2> QED BY <2>1, LeastNumber
<1>2. n \in 0 .. Len(ids) /\ n \in Nat /\ ~ \E g : KeptOf(ids, id, n, g) BY <1>1
<1>3. CASE n = 0
  <2>1. KeptOf(ids, id, 0, [i \in 0 .. 0 |-> <<>>]) BY DEF KeptOf
  <2> QED BY <1>2, <1>3, <2>1
<1>4. CASE n # 0
  <2>1. n - 1 \in 0 .. Len(ids) /\ n - 1 \notin Bad BY <1>1, <1>2, <1>4
  <2>2. PICK g : KeptOf(ids, id, n - 1, g) BY <2>1
  <2> DEFINE h == [i \in 0 .. n |-> IF i < n THEN g[i] ELSE IF ids[n] # id THEN Append(g[n - 1], ids[n]) ELSE g[n - 1]]
  <2>3. ASSUME NEW i \in 0 .. n
        PROVE  h[i] = IF i = 0 THEN <<>> ELSE IF ids[i] # id THEN Append(h[i - 1], ids[i]) ELSE h[i - 1]
    <3>1. CASE i = n
      <4>1. h[i] = IF ids[n] # id THEN Append(g[n - 1], ids[n]) ELSE g[n - 1] BY <1>2, <3>1
      <4>2. h[i - 1] = g[n - 1] BY <1>2, <1>4, <3>1
      <4> QED BY <1>4, <3>1, <4>1, <4>2
    <3>2. CASE i # n
      <4>1. i \in 0 .. n - 1 /\ h[i] = g[i] BY <1>2, <3>2
      <4>2. g[i] = IF i = 0 THEN <<>> ELSE IF ids[i] # id THEN Append(g[i - 1], ids[i]) ELSE g[i - 1]
        BY <2>2, <4>1 DEF KeptOf
      <4>3. i # 0 => h[i - 1] = g[i - 1] BY <1>2, <4>1
      <4> QED BY <4>1, <4>2, <4>3
    <3> QED BY <3>1, <3>2
  <2> HIDE DEF h
  <2>4. h = [i \in 0 .. n |-> h[i]] BY DEF h
  <2>5. KeptOf(ids, id, n, h) BY <2>3, <2>4 DEF KeptOf
  <2> QED BY <1>2, <2>5
<1> QED BY <1>3, <1>4

\* What is kept of the first n ids, and what it says of the kept ones.
Left(ids, id, n) == {ids[k] : k \in 1 .. n} \ {id}
IsLeft(ids, id, n, q) == q \in Seq(Nat) /\ Len(q) <= n /\ Range(q) = Left(ids, id, n)

LEMMA AppendLeft ==
  ASSUME NEW ids \in Seq(Nat), NEW id \in Nat, NEW n \in 1 .. Len(ids), NEW q, IsLeft(ids, id, n - 1, q)
  PROVE  IsLeft(ids, id, n, IF ids[n] # id THEN Append(q, ids[n]) ELSE q)
<1>1. ids[n] \in Nat /\ n \in Nat /\ q \in Seq(Nat) /\ Len(q) <= n - 1 BY DEF IsLeft
<1>2. {ids[k] : k \in 1 .. n} = {ids[k] : k \in 1 .. n - 1} \cup {ids[n]} BY <1>1
<1>3. CASE ids[n] = id
  <2>1. Left(ids, id, n) = Left(ids, id, n - 1) BY <1>2, <1>3 DEF Left
  <2> QED BY <1>1, <1>3, <2>1 DEF IsLeft
<1>4. CASE ids[n] # id
  <2> DEFINE r == Append(q, ids[n])
  <2>1. Left(ids, id, n) = Left(ids, id, n - 1) \cup {ids[n]} BY <1>2, <1>4 DEF Left
  <2>2. r \in Seq(Nat) /\ Len(r) = Len(q) + 1 /\ r[Len(q) + 1] = ids[n] /\ \A i \in 1 .. Len(q) : r[i] = q[i] BY <1>1
  <2> HIDE DEF r
  <2>3. DOMAIN r = 1 .. Len(q) + 1 /\ DOMAIN q = 1 .. Len(q) /\ Len(q) \in Nat BY <1>1, <2>2
  <2>4. Range(r) \subseteq Range(q) \cup {ids[n]}
    <3> SUFFICES ASSUME NEW i \in DOMAIN r PROVE r[i] \in Range(q) \cup {ids[n]} BY DEF Range
    <3>1. i = Len(q) + 1 \/ i \in 1 .. Len(q) BY <2>3
    <3> QED BY <2>2, <2>3, <3>1 DEF Range
  <2>5. Range(q) \cup {ids[n]} \subseteq Range(r)
    <3>1. \A i \in DOMAIN q : i \in DOMAIN r /\ r[i] = q[i] BY <2>2, <2>3
    <3>2. Len(q) + 1 \in DOMAIN r BY <2>3
    <3> QED BY <2>2, <3>1, <3>2 DEF Range
  <2>6. Range(r) = Left(ids, id, n) BY <2>1, <2>4, <2>5 DEF IsLeft
  <2>7. Len(r) <= n BY <1>1, <2>2
  <2>8. IsLeft(ids, id, n, r) BY <2>2, <2>6, <2>7 DEF IsLeft
  <2> QED BY <1>4, <2>8 DEF r
<1> QED BY <1>3, <1>4

LEMMA KeptIsLeft ==
  ASSUME NEW ids \in Seq(Nat), NEW id \in Nat, NEW g, KeptOf(ids, id, Len(ids), g)
  PROVE  \A n \in 0 .. Len(ids) : IsLeft(ids, id, n, g[n])
<1> DEFINE Bad == {n \in 0 .. Len(ids) : ~ IsLeft(ids, id, n, g[n])}
<1> SUFFICES ASSUME Bad # {} PROVE FALSE OBVIOUS
<1>1. PICK n \in Bad : \A m \in Bad : n <= m
  <2>1. Bad \in SUBSET Nat OBVIOUS
  <2> QED BY <2>1, LeastNumber
<1>2. n \in 0 .. Len(ids) /\ n \in Nat /\ ~ IsLeft(ids, id, n, g[n]) BY <1>1
<1>3. g[n] = IF n = 0 THEN <<>> ELSE IF ids[n] # id THEN Append(g[n - 1], ids[n]) ELSE g[n - 1] BY <1>2 DEF KeptOf
<1>4. CASE n = 0
  <2>1. g[n] = <<>> BY <1>3, <1>4
  <2>2. Left(ids, id, 0) = {} /\ Range(<<>>) = {} BY DEF Left, Range
  <2> QED BY <1>2, <1>4, <2>1, <2>2 DEF IsLeft
<1>5. CASE n # 0
  <2>1. n - 1 \in 0 .. Len(ids) /\ n - 1 \notin Bad /\ n \in 1 .. Len(ids) BY <1>1, <1>2, <1>5
  <2>2. IsLeft(ids, id, n - 1, g[n - 1]) BY <2>1
  <2>3. IsLeft(ids, id, n, IF ids[n] # id THEN Append(g[n - 1], ids[n]) ELSE g[n - 1]) BY <2>1, <2>2, AppendLeft
  <2> QED BY <1>2, <1>3, <1>5, <2>3
<1> QED BY <1>4, <1>5

LEMMA WithoutKeeps ==
  ASSUME NEW ids \in Seq(Nat), NEW id \in Nat
  PROVE  /\ Library!Without(ids, id) \in Seq(Nat)
         /\ Len(Library!Without(ids, id)) <= Len(ids)
         /\ Library!ToSet(Library!Without(ids, id)) = Library!ToSet(ids) \ {id}
<1>1. Library!Without(ids, id) = (CHOOSE g : KeptOf(ids, id, Len(ids), g))[Len(ids)] BY Zenon DEF Library!Without, KeptOf
<1>2. \E g : KeptOf(ids, id, Len(ids), g) BY KeptExists
<1>3. PICK g : KeptOf(ids, id, Len(ids), g) /\ Library!Without(ids, id) = g[Len(ids)] BY <1>1, <1>2
<1>4. IsLeft(ids, id, Len(ids), g[Len(ids)])
  <2>1. \A n \in 0 .. Len(ids) : IsLeft(ids, id, n, g[n]) BY <1>3, KeptIsLeft
  <2> QED BY <2>1
<1>5. Left(ids, id, Len(ids)) = Library!ToSet(ids) \ {id} BY DEF Left, Library!ToSet
<1>6. Library!ToSet(g[Len(ids)]) = Range(g[Len(ids)]) BY DEF Library!ToSet, Range
<1> QED BY <1>3, <1>4, <1>5, <1>6 DEF IsLeft

\* The scripts a binding names when a launch reads the array of which `kept` is the head.
LEMMA OverwrittenIs ==
  ASSUME NEW ids \in Seq(Nat), NEW kept \in Seq(Nat), Len(kept) <= Len(ids), Library!ToSet(kept) \subseteq Library!ToSet(ids)
  PROVE  /\ Library!Overwritten(ids, kept) \in Seq(Nat)
         /\ Len(Library!Overwritten(ids, kept)) = Len(ids)
         /\ Library!ToSet(Library!Overwritten(ids, kept)) \subseteq Library!ToSet(ids)
         /\ Library!ToSet(kept) \subseteq Library!ToSet(Library!Overwritten(ids, kept))
<1> DEFINE tail == SubSeq(ids, Len(kept) + 1, Len(ids))
           o == kept \o tail
<1>1. Len(kept) \in Nat /\ Len(ids) \in Nat OBVIOUS
<1>2. tail \in Seq(Nat) /\ Len(tail) = Len(ids) - Len(kept) /\ \A i \in 1 .. Len(tail) : tail[i] = ids[Len(kept) + i] BY <1>1
<1>3. o = Library!Overwritten(ids, kept) BY DEF Library!Overwritten
<1> HIDE DEF tail
<1>4. o \in Seq(Nat) /\ Len(o) = Len(kept) + Len(tail) BY <1>2
<1>5. \A i \in 1 .. Len(o) : o[i] = IF i <= Len(kept) THEN kept[i] ELSE tail[i - Len(kept)] BY <1>2
<1> HIDE DEF o
<1>6. Len(o) = Len(ids) BY <1>1, <1>2, <1>4
<1>9. DOMAIN o = 1 .. Len(ids) /\ DOMAIN kept = 1 .. Len(kept) BY <1>4, <1>6
<1>7. Library!ToSet(o) \subseteq Library!ToSet(ids)
  <2> SUFFICES ASSUME NEW i \in 1 .. Len(ids) PROVE o[i] \in Library!ToSet(ids) BY ZenonT(30), <1>9 DEF Library!ToSet
  <2>1. CASE i <= Len(kept)
    <3>1. kept[i] \in Library!ToSet(kept) BY <1>1, <2>1 DEF Library!ToSet
    <3> QED BY <1>5, <1>6, <2>1, <3>1
  <2>2. CASE ~ (i <= Len(kept))
    <3>1. i - Len(kept) \in 1 .. Len(tail) BY <1>1, <1>2, <2>2
    <3>2. tail[i - Len(kept)] = ids[i] BY <1>1, <1>2, <3>1
    <3>3. o[i] = ids[i] BY <1>5, <1>6, <2>2, <3>2
    <3> QED BY <3>3 DEF Library!ToSet
  <2> QED BY <2>1, <2>2
<1>8. Library!ToSet(kept) \subseteq Library!ToSet(o)
  <2> SUFFICES ASSUME NEW i \in 1 .. Len(kept) PROVE kept[i] \in Library!ToSet(o) BY DEF Library!ToSet
  <2>1. i \in DOMAIN o /\ i <= Len(kept) BY <1>1, <1>9
  <2>2. o[i] = kept[i] BY <1>5, <1>6, <1>9, <2>1
  <2> QED BY <2>1, <2>2 DEF Library!ToSet
<1> QED BY <1>3, <1>4, <1>6, <1>7, <1>8

\* A set of numbers with a bound has a largest one.
LEMMA HighestIs ==
  ASSUME NEW n \in Nat, NEW S \in SUBSET (1 .. n)
  PROVE  Library!Highest(S) \in Nat /\ S \subseteq 1 .. Library!Highest(S)
<1>1. CASE S = {} BY <1>1 DEF Library!Highest
<1>2. CASE S # {}
  <2> DEFINE Down == {n - k : k \in S}
  <2>1. Down \in SUBSET Nat /\ Down # {}
    <3>1. \A k \in S : n - k \in Nat OBVIOUS
    <3> QED BY <1>2, <3>1
  <2>2. PICK d \in Down : \A e \in Down : d <= e BY <2>1, LeastNumber
  <2>3. PICK m \in S : d = n - m BY <2>2
  <2>4. ASSUME NEW k \in S PROVE k <= m
    <3>1. n - k \in Down OBVIOUS
    <3>2. n - m <= n - k BY <2>2, <2>3, <3>1
    <3>3. n \in Nat /\ k \in Nat /\ m \in Nat OBVIOUS
    <3> QED BY <3>2, <3>3
  <2>5. \E x \in S : \A k \in S : k <= x BY <2>4
  <2>6. Library!Highest(S) = CHOOSE x \in S : \A k \in S : k <= x BY <1>2 DEF Library!Highest
  <2>7. Library!Highest(S) \in S /\ \A k \in S : k <= Library!Highest(S) BY <2>5, <2>6
  <2> HIDE DEF Down
  <2>8. ASSUME NEW k \in S PROVE k \in 1 .. Library!Highest(S) BY <2>7
  <2>9. Library!Highest(S) \in Nat
    <3>1. \A k \in S : k \in Nat OBVIOUS
    <3> QED BY <2>7, <3>1
  <2> QED BY <2>8, <2>9
<1> QED BY <1>1, <1>2

-----------------------------------------------------------------------------
(* Frida's library: the invariant.                                         *)

Script == [id : Nat, slug : Slugs \cup {"local"}, of : Bodies, trusted : BOOLEAN, born : Nat]

\* The call that holds the lock: none, a save that has written the body, a deletion that
\* has not written the bindings, or not the index.
CallForms ==
  \/ libraryCall = [op |-> "none"]
  \/ \E id \in 1 .. seq, s \in Script : libraryCall = [op |-> "save", id |-> id, s |-> s] /\ s.id = id
  \/ \E id \in 1 .. seq, op \in {"detach", "unlist"} : libraryCall = [op |-> op, id |-> id]

Indexed(m) == DOMAIN m \subseteq 1 .. seq /\ \A i \in DOMAIN m : m[i] \in Script
Binds(a, m) == \A p \in DOMAIN a : a[p] \in Seq(Nat) /\ Library!ToSet(a[p]) \subseteq DOMAIN m

LibraryTypes ==
  /\ seq \in Nat /\ births \in Nat /\ imports \subseteq Script /\ CallForms
  /\ Indexed(scripts) /\ Indexed(disk.scripts)
  /\ disk = [scripts |-> disk.scripts, apps |-> disk.apps, hist |-> disk.hist, bodies |-> disk.bodies]

\* The index of the scripts is behind in a deletion only, by the script that goes.
IndexHolds ==
  IF libraryCall.op \in {"detach", "unlist"}
  THEN scripts = Library!Drop(disk.scripts, {libraryCall.id}) ELSE scripts = disk.scripts

\* A body is the one its script's metadata, or those about to be written, are about.
BodyOf(i) == i \in DOMAIN disk.bodies /\ disk.bodies[i] = scripts[i].of
BodiesHold ==
  /\ \A i \in DOMAIN scripts \ torn : (libraryCall.op = "save" => libraryCall.id # i) => BodyOf(i)
  /\ libraryCall.op = "save" =>
       libraryCall.id \in DOMAIN disk.bodies /\ disk.bodies[libraryCall.id] = libraryCall.s.of

\* A binding names scripts of the library, on disk those on disk.
BindingsHold ==
  /\ Binds(apps, scripts) /\ Binds(disk.apps, disk.scripts)
  /\ libraryCall.op # "detach" =>
       \A p \in DOMAIN disk.apps : p \in DOMAIN apps /\ Library!ToSet(disk.apps[p]) \subseteq Library!ToSet(apps[p])

\* A launch's list is as long as the binding it read, and a script it names is one it was
\* bound to, or was deleted.
LaunchForm ==
  /\ launch = [at |-> launch.at, app |-> launch.app, ids |-> launch.ids, shares |-> launch.shares,
               loaded |-> launch.loaded, bound |-> launch.bound]
  /\ launch.at \in {"prepare", "running"} /\ launch.shares \in BOOLEAN
  /\ launch.ids \in Seq(Nat) /\ launch.loaded \in Seq(Script) /\ launch.bound \in Seq(Nat)
  /\ Library!ToSet(launch.ids) \subseteq 1 .. seq /\ Len(launch.ids) = Len(launch.bound)
LaunchHolds ==
  launch = [at |-> "none"] \/
    /\ LaunchForm
    /\ \A i \in Library!ToSet(launch.ids) \cap DOMAIN scripts : scripts[i].born \in Library!ToSet(launch.bound)
    /\ \A i \in DOMAIN launch.loaded : launch.loaded[i].born \in Library!ToSet(launch.bound)
    /\ launch.shares => /\ launch.app \in DOMAIN apps
                        /\ Library!ToSet(apps[launch.app]) \subseteq Library!ToSet(launch.ids)
                        /\ Len(apps[launch.app]) <= Len(launch.ids)
    /\ launch.at = "running" => Len(launch.loaded) = Len(launch.bound)
    /\ libraryCall.op = "save" /\ libraryCall.id \in Library!ToSet(launch.ids) =>
         libraryCall.s.born \in Library!ToSet(launch.bound)

LibraryInv == LibraryTypes /\ IndexHolds /\ BodiesHold /\ BindingsHold /\ LaunchHolds

\* The invariant at the start, in a step that changes nothing, and what it implies.
LEMMA LibraryStart == Library!Init => LibraryInv
<1> SUFFICES ASSUME Library!Init PROVE LibraryInv OBVIOUS
<1> USE DEF Library!Init, Library!None, Library!Idle, Library!NoLaunch
<1>1. LibraryTypes BY DEF LibraryTypes, CallForms, Indexed
<1>2. IndexHolds BY DEF IndexHolds
<1>3. BodiesHold BY DEF BodiesHold
<1>4. BindingsHold BY DEF BindingsHold, Binds
<1>5. LaunchHolds BY DEF LaunchHolds
<1> QED BY <1>1, <1>2, <1>3, <1>4, <1>5 DEF LibraryInv

LEMMA LibraryInvIsWhole == LibraryInv => Library!LibraryHolds /\ Library!LaunchIsWhole
<1> SUFFICES ASSUME LibraryInv PROVE Library!LibraryHolds /\ Library!LaunchIsWhole OBVIOUS
<1>1. Library!LibraryHolds
  BY DEF LibraryInv, Library!LibraryHolds, Library!Idle, BodiesHold, BodyOf, BindingsHold, Binds
<1>2. Library!LaunchIsWhole
  <2> SUFFICES ASSUME launch.at = "running"
               PROVE  Len(launch.loaded) = Len(launch.bound) /\ {s.born : s \in Library!ToSet(launch.loaded)} \subseteq Library!ToSet(launch.bound)
    BY DEF Library!LaunchIsWhole
  <2>1. launch # [at |-> "none"] OBVIOUS
  <2>2. /\ Len(launch.loaded) = Len(launch.bound)
        /\ \A i \in DOMAIN launch.loaded : launch.loaded[i].born \in Library!ToSet(launch.bound)
    BY <2>1 DEF LibraryInv, LaunchHolds
  <2>3. ASSUME NEW s \in Library!ToSet(launch.loaded) PROVE s.born \in Library!ToSet(launch.bound)
    <3>1. PICK i \in DOMAIN launch.loaded : s = launch.loaded[i] BY DEF Library!ToSet
    <3> QED BY <2>2, <3>1
  <2> QED BY <2>2, <2>3
<1> QED BY <1>1, <1>2

LEMMA LibraryStays == LibraryInv /\ UNCHANGED Library!vars => LibraryInv'
<1> SUFFICES ASSUME LibraryInv, UNCHANGED Library!vars PROVE LibraryInv' OBVIOUS
<1> USE DEF Library!vars
<1>1. LibraryTypes' BY DEF LibraryInv, LibraryTypes, CallForms, Indexed
<1>2. IndexHolds' BY DEF LibraryInv, IndexHolds
<1>3. BodiesHold' BY DEF LibraryInv, BodiesHold, BodyOf
<1>4. BindingsHold' BY DEF LibraryInv, BindingsHold, Binds
<1>5. LaunchHolds' BY DEF LibraryInv, LaunchHolds, LaunchForm
<1> QED BY <1>1, <1>2, <1>3, <1>4, <1>5 DEF LibraryInv

\* A save.
LEMMA SavedIs ==
  ASSUME LibraryTypes, NEW in \in Script, in.id # 0 => in.id \in DOMAIN scripts
  PROVE  /\ Library!Saved(in) \in Script
         /\ Library!Saved(in).id = IF in.id = 0 THEN seq + 1 ELSE in.id
         /\ Library!Saved(in).of = in.of
         /\ in.id # 0 => Library!Saved(in).born = scripts[in.id].born
<1>1. seq \in Nat /\ births \in Nat BY DEF LibraryTypes
<1>2. CASE in.id = 0
  <2>1. Library!Saved(in) = [id |-> seq + 1, slug |-> in.slug, of |-> in.of, trusted |-> in.trusted, born |-> births + 1]
    BY <1>2 DEF Library!Saved
  <2> QED BY <1>1, <1>2, <2>1 DEF Script
<1>3. CASE in.id # 0
  <2>1. scripts[in.id] \in Script BY <1>3 DEF LibraryTypes, Indexed
  <2>2. Library!Saved(in) = [in EXCEPT !.slug = IF in.slug = "local" THEN scripts[in.id].slug ELSE in.slug, !.born = scripts[in.id].born]
    BY <1>3 DEF Library!Saved
  <2> QED BY <1>3, <2>1, <2>2 DEF Script
<1> QED BY <1>2, <1>3

LEMMA SaveStep ==
  ASSUME LibraryInv, libraryCall = Library!Idle, NEW in \in Script, Library!SaveScript(in), imports' \subseteq imports
  PROVE  LibraryInv'
<1> DEFINE s == Library!Saved(in)
<1>1. PICK t : /\ t = s /\ seq' = (IF in.id = 0 THEN t.id ELSE seq) /\ births' = (IF in.id = 0 THEN births + 1 ELSE births)
               /\ disk' = [disk EXCEPT !.bodies = Library!Put(disk.bodies, t.id, t.of)]
               /\ libraryCall' = [op |-> "save", id |-> t.id, s |-> t]
               /\ UNCHANGED <<scripts, apps, hist, launch, torn>>
               /\ in.id # 0 => in.id \in DOMAIN scripts
  BY DEF Library!SaveScript
<1>2. LibraryTypes /\ IndexHolds /\ BodiesHold /\ BindingsHold /\ LaunchHolds BY DEF LibraryInv
<1>3. /\ t \in Script /\ t.id = (IF in.id = 0 THEN seq + 1 ELSE in.id) /\ t.of = in.of
      /\ in.id # 0 => t.born = scripts[in.id].born
  BY <1>1, <1>2, SavedIs
<1> HIDE DEF s
<1>4. seq \in Nat /\ births \in Nat BY <1>2 DEF LibraryTypes
<1>5. seq' \in Nat /\ births' \in Nat /\ seq <= seq' /\ t.id \in 1 .. seq'
  <2>1. in.id # 0 => in.id \in 1 .. seq BY <1>1, <1>2 DEF LibraryTypes, Indexed
  <2> QED BY <1>1, <1>3, <1>4, <2>1
<1>6. /\ disk'.scripts = disk.scripts /\ disk'.apps = disk.apps /\ disk'.hist = disk.hist
      /\ disk'.bodies = Library!Put(disk.bodies, t.id, t.of)
      /\ disk' = [scripts |-> disk'.scripts, apps |-> disk'.apps, hist |-> disk'.hist, bodies |-> disk'.bodies]
  BY <1>1, <1>2 DEF LibraryTypes
<1>7. LibraryTypes'
  <2>1. CallForms' BY <1>1, <1>3, <1>5 DEF CallForms
  <2>2. Indexed(scripts)' /\ Indexed(disk.scripts)' BY <1>1, <1>2, <1>4, <1>5, <1>6 DEF LibraryTypes, Indexed
  <2> QED BY <1>2, <1>5, <1>6, <2>1, <2>2 DEF LibraryTypes
<1>8. IndexHolds' BY <1>1, <1>2, <1>6 DEF IndexHolds, Library!Idle
<1>9. BodiesHold' BY <1>1, <1>2, <1>6 DEF BodiesHold, BodyOf, Library!Idle, Library!Put
<1>10. BindingsHold' BY <1>1, <1>2, <1>6 DEF BindingsHold, Binds, Library!Idle
<1>11. LaunchHolds'
  <2>1. CASE launch = [at |-> "none"] BY <1>1, <2>1 DEF LaunchHolds
  <2>2. CASE launch # [at |-> "none"]
    <3>1. LaunchForm' BY <1>1, <1>2, <1>4, <1>5, <2>2 DEF LaunchHolds, LaunchForm
    <3>2. t.id \in Library!ToSet(launch.ids) => t.born \in Library!ToSet(launch.bound)
      <4>1. CASE in.id = 0
        <5>1. t.id \notin 1 .. seq BY <1>3, <1>4, <4>1
        <5> QED BY <1>2, <2>2, <5>1 DEF LaunchHolds, LaunchForm
      <4>2. CASE in.id # 0 BY <1>1, <1>2, <1>3, <2>2, <4>2 DEF LaunchHolds
      <4> QED BY <4>1, <4>2
    <3> QED BY <1>1, <1>2, <2>2, <3>1, <3>2 DEF LaunchHolds
  <2> QED BY <2>1, <2>2
<1> QED BY <1>7, <1>8, <1>9, <1>10, <1>11 DEF LibraryInv

LEMMA SaveIndexStep == ASSUME LibraryInv, Library!SaveIndex PROVE LibraryInv'
<1>1. LibraryTypes /\ IndexHolds /\ BodiesHold /\ BindingsHold /\ LaunchHolds BY DEF LibraryInv
<1>2. PICK id \in 1 .. seq, s \in Script : libraryCall = [op |-> "save", id |-> id, s |-> s] /\ s.id = id
  BY <1>1 DEF Library!SaveIndex, LibraryTypes, CallForms
<1>3. /\ scripts' = Library!Put(scripts, id, s) /\ libraryCall' = [op |-> "none"]
      /\ disk' = [disk EXCEPT !.scripts = scripts']
      /\ UNCHANGED <<seq, apps, hist, imports, launch, births, torn>>
  BY <1>2 DEF Library!SaveIndex, Library!Idle
<1>4. /\ disk'.scripts = scripts' /\ disk'.apps = disk.apps /\ disk'.hist = disk.hist /\ disk'.bodies = disk.bodies
      /\ disk' = [scripts |-> disk'.scripts, apps |-> disk'.apps, hist |-> disk'.hist, bodies |-> disk'.bodies]
  BY <1>1, <1>3 DEF LibraryTypes
<1>5. DOMAIN scripts' = DOMAIN scripts \cup {id} /\ \A i \in DOMAIN scripts' : scripts'[i] = IF i = id THEN s ELSE scripts[i]
  BY <1>3 DEF Library!Put
<1>6. LibraryTypes'
  <2>1. CallForms' BY <1>3 DEF CallForms
  <2>2. Indexed(scripts)' /\ Indexed(disk.scripts)' BY <1>1, <1>2, <1>3, <1>4, <1>5 DEF LibraryTypes, Indexed
  <2> QED BY <1>1, <1>3, <1>4, <2>1, <2>2 DEF LibraryTypes
<1>7. IndexHolds' BY <1>3, <1>4 DEF IndexHolds
<1>8. BodiesHold' BY <1>1, <1>2, <1>3, <1>4, <1>5 DEF BodiesHold, BodyOf
<1>9. BindingsHold'
  <2>1. Binds(apps, scripts)' BY <1>1, <1>3, <1>5 DEF BindingsHold, Binds
  <2>2. scripts = disk.scripts BY <1>1, <1>2 DEF IndexHolds
  <2>3. Binds(disk.apps, disk.scripts)' BY <1>1, <1>4, <1>5, <2>2 DEF BindingsHold, Binds
  <2> QED BY <1>1, <1>2, <1>3, <1>4, <2>1, <2>3 DEF BindingsHold
<1>10. LaunchHolds'
  <2>1. CASE launch = [at |-> "none"] BY <1>3, <2>1 DEF LaunchHolds
  <2>2. CASE launch # [at |-> "none"]
    <3>1. LaunchForm' BY <1>1, <1>3, <2>2 DEF LaunchHolds, LaunchForm
    <3>2. \A i \in Library!ToSet(launch.ids) \cap DOMAIN scripts' : scripts'[i].born \in Library!ToSet(launch.bound)
      BY <1>1, <1>2, <1>5, <2>2 DEF LaunchHolds
    <3> QED BY <1>1, <1>3, <2>2, <3>1, <3>2 DEF LaunchHolds
  <2> QED BY <2>1, <2>2
<1> QED BY <1>6, <1>7, <1>8, <1>9, <1>10 DEF LibraryInv

LEMMA ImportStep == ASSUME LibraryInv, Library!ImportCodeshare PROVE LibraryInv'
<1>1. LibraryTypes /\ IndexHolds /\ BodiesHold /\ BindingsHold /\ LaunchHolds BY DEF LibraryInv
<1>2. UNCHANGED <<scripts, seq, apps, hist, disk, libraryCall, launch, births, torn>> BY DEF Library!ImportCodeshare
<1>3. PICK slug \in Slugs, b \in Bodies :
        \E id \in IF \E i \in DOMAIN scripts : scripts[i].slug = slug
                  THEN {i \in DOMAIN scripts : scripts[i].slug = slug} ELSE {0} :
          imports' = imports \cup {[id |-> id, slug |-> slug, of |-> b, trusted |-> FALSE, born |-> 0]}
  BY DEF Library!ImportCodeshare
<1>4. PICK id \in Nat : imports' = imports \cup {[id |-> id, slug |-> slug, of |-> b, trusted |-> FALSE, born |-> 0]}
  <2>1. DOMAIN scripts \subseteq 1 .. seq BY <1>1 DEF LibraryTypes, Indexed
  <2> QED BY <1>3, <2>1
<1>5. imports' \subseteq Script
  <2>1. [id |-> id, slug |-> slug, of |-> b, trusted |-> FALSE, born |-> 0] \in Script BY DEF Script
  <2> QED BY <1>1, <1>4, <2>1 DEF LibraryTypes
<1>6. LibraryTypes' BY <1>1, <1>2, <1>5 DEF LibraryTypes, CallForms, Indexed
<1>7. IndexHolds' BY <1>1, <1>2 DEF IndexHolds
<1>8. BodiesHold' BY <1>1, <1>2 DEF BodiesHold, BodyOf
<1>9. BindingsHold' BY <1>1, <1>2 DEF BindingsHold, Binds
<1>10. LaunchHolds' BY <1>1, <1>2 DEF LaunchHolds, LaunchForm
<1> QED BY <1>6, <1>7, <1>8, <1>9, <1>10 DEF LibraryInv

\* A deletion.
LEMMA DeleteUnlistStep == ASSUME LibraryInv, Library!DeleteUnlist PROVE LibraryInv'
<1>1. LibraryTypes /\ IndexHolds /\ BodiesHold /\ BindingsHold /\ LaunchHolds BY DEF LibraryInv
<1>2. /\ libraryCall.op = "unlist" /\ libraryCall' = [op |-> "none"] /\ disk' = [disk EXCEPT !.scripts = scripts]
      /\ UNCHANGED <<scripts, seq, apps, hist, imports, launch, births, torn>>
  BY DEF Library!DeleteUnlist, Library!Idle
<1>3. /\ disk'.scripts = scripts /\ disk'.apps = disk.apps /\ disk'.hist = disk.hist /\ disk'.bodies = disk.bodies
      /\ disk' = [scripts |-> disk'.scripts, apps |-> disk'.apps, hist |-> disk'.hist, bodies |-> disk'.bodies]
  BY <1>1, <1>2 DEF LibraryTypes
<1>4. LibraryTypes'
  <2>1. CallForms' BY <1>2 DEF CallForms
  <2>2. Indexed(scripts)' /\ Indexed(disk.scripts)' BY <1>1, <1>2, <1>3 DEF LibraryTypes, Indexed
  <2> QED BY <1>1, <1>2, <1>3, <2>1, <2>2 DEF LibraryTypes
<1>5. IndexHolds' BY <1>2, <1>3 DEF IndexHolds
<1>6. BodiesHold' BY <1>1, <1>2, <1>3 DEF BodiesHold, BodyOf
<1>7. BindingsHold'
  <2>1. Binds(apps, scripts)' BY <1>1, <1>2 DEF BindingsHold, Binds
  <2>2. Binds(disk.apps, disk.scripts)'
    <3> SUFFICES ASSUME NEW p \in DOMAIN disk.apps
                 PROVE  disk.apps[p] \in Seq(Nat) /\ Library!ToSet(disk.apps[p]) \subseteq DOMAIN scripts
      BY <1>3 DEF Binds
    <3>1. disk.apps[p] \in Seq(Nat) BY <1>1 DEF BindingsHold, Binds
    <3>2. p \in DOMAIN apps /\ Library!ToSet(disk.apps[p]) \subseteq Library!ToSet(apps[p]) BY <1>1, <1>2 DEF BindingsHold
    <3>3. Library!ToSet(apps[p]) \subseteq DOMAIN scripts BY <1>1, <3>2 DEF BindingsHold, Binds
    <3> QED BY <3>1, <3>2, <3>3
  <2> QED BY <1>1, <1>2, <1>3, <2>1, <2>2 DEF BindingsHold
<1>8. LaunchHolds' BY <1>1, <1>2 DEF LaunchHolds, LaunchForm
<1> QED BY <1>4, <1>5, <1>6, <1>7, <1>8 DEF LibraryInv

LEMMA DeleteDetachStep == ASSUME LibraryInv, Library!DeleteDetach PROVE LibraryInv'
<1>1. LibraryTypes /\ IndexHolds /\ BodiesHold /\ BindingsHold /\ LaunchHolds BY DEF LibraryInv
<1>2. PICK id \in 1 .. seq : libraryCall = [op |-> "detach", id |-> id]
  BY <1>1 DEF Library!DeleteDetach, LibraryTypes, CallForms
<1>3. /\ libraryCall' = [op |-> "unlist", id |-> id] /\ disk' = [disk EXCEPT !.apps = apps]
      /\ UNCHANGED <<scripts, seq, apps, hist, imports, launch, births, torn>>
  BY <1>2 DEF Library!DeleteDetach
<1>4. /\ disk'.scripts = disk.scripts /\ disk'.apps = apps /\ disk'.hist = disk.hist /\ disk'.bodies = disk.bodies
      /\ disk' = [scripts |-> disk'.scripts, apps |-> disk'.apps, hist |-> disk'.hist, bodies |-> disk'.bodies]
  BY <1>1, <1>3 DEF LibraryTypes
<1>5. LibraryTypes'
  <2>1. CallForms' BY <1>3 DEF CallForms
  <2>2. Indexed(scripts)' /\ Indexed(disk.scripts)' BY <1>1, <1>3, <1>4 DEF LibraryTypes, Indexed
  <2> QED BY <1>1, <1>3, <1>4, <2>1, <2>2 DEF LibraryTypes
<1>6. IndexHolds' BY <1>1, <1>2, <1>3, <1>4 DEF IndexHolds
<1>7. BodiesHold' BY <1>1, <1>2, <1>3, <1>4 DEF BodiesHold, BodyOf
<1>8. BindingsHold'
  <2>1. DOMAIN scripts \subseteq DOMAIN disk.scripts BY <1>1, <1>2 DEF IndexHolds, Library!Drop
  <2>2. Binds(apps, scripts)' BY <1>1, <1>3 DEF BindingsHold, Binds
  <2>3. Binds(disk.apps, disk.scripts)' BY <1>1, <1>4, <2>1 DEF BindingsHold, Binds
  <2> QED BY <1>3, <1>4, <2>2, <2>3 DEF BindingsHold
<1>9. LaunchHolds' BY <1>1, <1>2, <1>3 DEF LaunchHolds, LaunchForm
<1> QED BY <1>5, <1>6, <1>7, <1>8, <1>9 DEF LibraryInv

\* A binding is replaced, or forgotten.
LEMMA SetAppScriptsStep == ASSUME LibraryInv, Library!SetAppScripts PROVE LibraryInv'
<1>1. LibraryTypes /\ IndexHolds /\ BodiesHold /\ BindingsHold /\ LaunchHolds BY DEF LibraryInv
<1>2. libraryCall = [op |-> "none"] BY DEF Library!SetAppScripts, Library!Enter, Library!Idle
<1>3. PICK p \in Apps, ids \in Library!SeqOf(DOMAIN scripts, MaxIds) :
        /\ apps' = IF ids = <<>> THEN Library!Drop(apps, {p}) ELSE Library!Put(apps, p, ids)
        /\ launch' = IF launch.at # "none" /\ launch.app = p THEN [launch EXCEPT !.shares = FALSE] ELSE launch
  BY DEF Library!SetAppScripts
<1>4. disk' = [disk EXCEPT !.apps = apps'] /\ UNCHANGED <<scripts, seq, hist, libraryCall, imports, births, torn>>
  BY DEF Library!SetAppScripts
<1>5. /\ disk'.scripts = disk.scripts /\ disk'.apps = apps' /\ disk'.hist = disk.hist /\ disk'.bodies = disk.bodies
      /\ disk' = [scripts |-> disk'.scripts, apps |-> disk'.apps, hist |-> disk'.hist, bodies |-> disk'.bodies]
  BY <1>1, <1>4 DEF LibraryTypes
<1>6. ids \in Seq(Nat) /\ Library!ToSet(ids) \subseteq DOMAIN scripts
  <2>1. PICK m \in 0 .. MaxIds : ids \in [1 .. m -> DOMAIN scripts] BY DEF Library!SeqOf
  <2>2. DOMAIN scripts \subseteq Nat BY <1>1 DEF LibraryTypes, Indexed
  <2>3. m \in Nat OBVIOUS
  <2>4. \A i \in 1 .. m : ids[i] \in DOMAIN scripts BY <2>1
  <2>5. ids \in Seq(Nat) BY <2>1, <2>2, <2>3
  <2> QED BY <2>1, <2>4, <2>5 DEF Library!ToSet
<1>7. \A x \in DOMAIN apps' : apps'[x] \in Seq(Nat) /\ Library!ToSet(apps'[x]) \subseteq DOMAIN scripts
  <2> SUFFICES ASSUME NEW x \in DOMAIN apps' PROVE apps'[x] \in Seq(Nat) /\ Library!ToSet(apps'[x]) \subseteq DOMAIN scripts OBVIOUS
  <2>1. apps'[x] = ids \/ (x \in DOMAIN apps /\ apps'[x] = apps[x]) BY <1>3 DEF Library!Drop, Library!Put
  <2> QED BY <1>1, <1>6, <2>1 DEF BindingsHold, Binds
<1>8. LibraryTypes'
  <2>1. CallForms' BY <1>2, <1>4 DEF CallForms
  <2>2. Indexed(scripts)' /\ Indexed(disk.scripts)' BY <1>1, <1>4, <1>5 DEF LibraryTypes, Indexed
  <2> QED BY <1>1, <1>4, <1>5, <2>1, <2>2 DEF LibraryTypes
<1>9. IndexHolds' BY <1>1, <1>2, <1>4, <1>5 DEF IndexHolds
<1>10. BodiesHold' BY <1>1, <1>2, <1>4, <1>5 DEF BodiesHold, BodyOf
<1>11. BindingsHold'
  <2>1. disk.scripts = scripts BY <1>1, <1>2 DEF IndexHolds
  <2>2. Binds(apps, scripts)' BY <1>4, <1>7 DEF Binds
  <2>3. Binds(disk.apps, disk.scripts)' BY <1>5, <1>7, <2>1 DEF Binds
  <2> QED BY <1>5, <2>2, <2>3 DEF BindingsHold
<1>12. LaunchHolds'
  <2>1. CASE launch = [at |-> "none"] BY <1>3, <2>1 DEF LaunchHolds
  <2>2. CASE launch # [at |-> "none"]
    <3>1. LaunchForm BY <1>1, <2>2 DEF LaunchHolds
    <3>2. /\ launch'.at = launch.at /\ launch'.app = launch.app /\ launch'.ids = launch.ids
          /\ launch'.loaded = launch.loaded /\ launch'.bound = launch.bound
          /\ launch'.shares \in BOOLEAN /\ (launch'.shares => launch.shares /\ launch.app # p)
          /\ launch' = [at |-> launch'.at, app |-> launch'.app, ids |-> launch'.ids, shares |-> launch'.shares,
                        loaded |-> launch'.loaded, bound |-> launch'.bound]
      BY <1>3, <3>1 DEF LaunchForm
    <3>3. LaunchForm' BY <1>4, <3>1, <3>2 DEF LaunchForm
    <3>4. \A x \in DOMAIN apps : x # p => x \in DOMAIN apps' /\ apps'[x] = apps[x] BY <1>3 DEF Library!Drop, Library!Put
    <3> QED BY <1>1, <1>2, <1>4, <2>2, <3>2, <3>3, <3>4 DEF LaunchHolds
  <2> QED BY <2>1, <2>2
<1> QED BY <1>8, <1>9, <1>10, <1>11, <1>12 DEF LibraryInv

\* The bindings of a deletion, and the list of a launch that shares one of their arrays.
LEMMA DeletedLaunch ==
  ASSUME LibraryInv, launch # [at |-> "none"], NEW id \in Nat,
         apps' = [p \in DOMAIN apps |-> Library!Without(apps[p], id)],
         launch' = IF launch.at # "none" /\ launch.shares /\ launch.app \in {p \in DOMAIN apps : id \in Library!ToSet(apps[p])}
                   THEN [launch EXCEPT !.ids = Library!Overwritten(launch.ids, apps'[launch.app])] ELSE launch,
         seq' = seq
  PROVE  /\ LaunchForm'
         /\ Library!ToSet(launch'.ids) \subseteq Library!ToSet(launch.ids)
         /\ UNCHANGED <<launch.at, launch.loaded, launch.bound>>
         /\ launch'.shares => /\ launch'.app \in DOMAIN apps'
                              /\ Library!ToSet(apps'[launch'.app]) \subseteq Library!ToSet(launch'.ids)
                              /\ Len(apps'[launch'.app]) <= Len(launch'.ids)
<1>1. LaunchForm /\ BindingsHold BY DEF LibraryInv, LaunchHolds
<1>2. launch.shares => /\ launch.app \in DOMAIN apps
                       /\ Library!ToSet(apps[launch.app]) \subseteq Library!ToSet(launch.ids)
                       /\ Len(apps[launch.app]) <= Len(launch.ids)
  BY DEF LibraryInv, LaunchHolds
<1>3. launch.shares => /\ apps'[launch.app] = Library!Without(apps[launch.app], id) /\ launch.app \in DOMAIN apps'
                       /\ apps[launch.app] \in Seq(Nat) /\ apps'[launch.app] \in Seq(Nat)
                       /\ Len(apps'[launch.app]) <= Len(launch.ids)
                       /\ Library!ToSet(apps'[launch.app]) \subseteq Library!ToSet(launch.ids)
  <2> SUFFICES ASSUME launch.shares
               PROVE  /\ apps'[launch.app] = Library!Without(apps[launch.app], id) /\ launch.app \in DOMAIN apps'
                      /\ apps[launch.app] \in Seq(Nat) /\ apps'[launch.app] \in Seq(Nat)
                      /\ Len(apps'[launch.app]) <= Len(launch.ids)
                      /\ Library!ToSet(apps'[launch.app]) \subseteq Library!ToSet(launch.ids)
    OBVIOUS
  <2>1. apps[launch.app] \in Seq(Nat) /\ launch.app \in DOMAIN apps BY <1>1, <1>2 DEF BindingsHold, Binds
  <2>2. apps'[launch.app] = Library!Without(apps[launch.app], id) /\ launch.app \in DOMAIN apps' BY <2>1
  <2>3. PICK a, b : a = apps[launch.app] /\ b = apps'[launch.app] OBVIOUS
  <2>4. b \in Seq(Nat) /\ Len(b) <= Len(a) /\ Library!ToSet(b) = Library!ToSet(a) \ {id} BY <2>1, <2>2, <2>3, WithoutKeeps
  <2>5. Len(a) <= Len(launch.ids) /\ Library!ToSet(a) \subseteq Library!ToSet(launch.ids) BY <1>2, <2>3
  <2>6. Len(a) \in Nat /\ Len(b) \in Nat /\ Len(launch.ids) \in Nat BY <1>1, <2>1, <2>3, <2>4 DEF LaunchForm
  <2>7. Len(b) <= Len(launch.ids) BY <2>4, <2>5, <2>6
  <2>8. Library!ToSet(b) \subseteq Library!ToSet(launch.ids) BY <2>4, <2>5
  <2> QED BY <2>1, <2>2, <2>3, <2>4, <2>7, <2>8
<1>4. CASE launch' = launch BY <1>1, <1>3, <1>4 DEF LaunchForm
<1>5. CASE launch' # launch
  <2>1. launch.shares /\ launch' = [launch EXCEPT !.ids = Library!Overwritten(launch.ids, apps'[launch.app])] BY <1>5
  <2>2. PICK b, o : b = apps'[launch.app] /\ o = Library!Overwritten(launch.ids, apps'[launch.app]) OBVIOUS
  <2>3. launch.ids \in Seq(Nat) /\ Library!ToSet(launch.ids) \subseteq 1 .. seq /\ Len(launch.ids) = Len(launch.bound)
    BY <1>1 DEF LaunchForm
  <2>4. /\ o \in Seq(Nat) /\ Len(o) = Len(launch.ids) /\ Library!ToSet(o) \subseteq Library!ToSet(launch.ids)
        /\ Library!ToSet(b) \subseteq Library!ToSet(o)
    <3>1. PICK ids : ids = launch.ids OBVIOUS
    <3>2. ids \in Seq(Nat) /\ b \in Seq(Nat) /\ Len(b) <= Len(ids) /\ Library!ToSet(b) \subseteq Library!ToSet(ids) /\ o = Library!Overwritten(ids, b)
      BY <1>3, <2>1, <2>2, <2>3, <3>1
    <3> HIDE <2>1, <2>2
    <3> QED BY <3>1, <3>2, OverwrittenIs
  <2>5. /\ launch'.ids = o /\ launch'.app = launch.app /\ UNCHANGED <<launch.at, launch.shares, launch.loaded, launch.bound>>
        /\ launch' = [at |-> launch'.at, app |-> launch'.app, ids |-> launch'.ids, shares |-> launch'.shares,
                      loaded |-> launch'.loaded, bound |-> launch'.bound]
    BY <1>1, <2>1, <2>2 DEF LaunchForm
  <2>6. LaunchForm' BY <1>1, <2>3, <2>4, <2>5 DEF LaunchForm
  <2> QED BY <1>3, <2>1, <2>2, <2>4, <2>5, <2>6
<1> QED BY <1>4, <1>5

LEMMA DeleteStep == ASSUME LibraryInv, Library!DeleteScript PROVE LibraryInv'
<1>1. LibraryTypes /\ IndexHolds /\ BodiesHold /\ BindingsHold /\ LaunchHolds BY DEF LibraryInv
<1>2. libraryCall = [op |-> "none"] BY DEF Library!DeleteScript, Library!Enter, Library!Idle
<1>3. PICK id \in DOMAIN scripts :
        /\ scripts' = Library!Drop(scripts, {id})
        /\ disk' = [disk EXCEPT !.bodies = Library!Drop(disk.bodies, {id})]
        /\ apps' = [p \in DOMAIN apps |-> Library!Without(apps[p], id)]
        /\ launch' = IF launch.at # "none" /\ launch.shares /\ launch.app \in {p \in DOMAIN apps : id \in Library!ToSet(apps[p])}
                     THEN [launch EXCEPT !.ids = Library!Overwritten(launch.ids, apps'[launch.app])] ELSE launch
        /\ libraryCall' = [op |-> IF {p \in DOMAIN apps : id \in Library!ToSet(apps[p])} # {} THEN "detach" ELSE "unlist", id |-> id]
  BY DEF Library!DeleteScript
<1>4. UNCHANGED <<seq, hist, imports, births, torn>> BY DEF Library!DeleteScript
<1>5. /\ disk'.scripts = disk.scripts /\ disk'.apps = disk.apps /\ disk'.hist = disk.hist
      /\ disk'.bodies = Library!Drop(disk.bodies, {id})
      /\ disk' = [scripts |-> disk'.scripts, apps |-> disk'.apps, hist |-> disk'.hist, bodies |-> disk'.bodies]
  BY <1>1, <1>3 DEF LibraryTypes
<1>6. DOMAIN scripts' = DOMAIN scripts \ {id} /\ \A i \in DOMAIN scripts' : scripts'[i] = scripts[i] BY <1>3 DEF Library!Drop
<1>7. id \in 1 .. seq /\ id \in Nat BY <1>1 DEF LibraryTypes, Indexed
<1>8. libraryCall'.op \in {"detach", "unlist"} /\ libraryCall'.id = id /\ libraryCall' = [op |-> libraryCall'.op, id |-> id] BY <1>3
<1>9. DOMAIN apps' = DOMAIN apps BY <1>3
<1>10. \A p \in DOMAIN apps : apps'[p] \in Seq(Nat) /\ Library!ToSet(apps'[p]) = Library!ToSet(apps[p]) \ {id}
  <2> SUFFICES ASSUME NEW p \in DOMAIN apps
               PROVE  apps'[p] \in Seq(Nat) /\ Library!ToSet(apps'[p]) = Library!ToSet(apps[p]) \ {id}
    OBVIOUS
  <2>1. PICK a, b : a = apps[p] /\ b = apps'[p] OBVIOUS
  <2>2. a \in Seq(Nat) /\ b = Library!Without(a, id) BY <1>1, <1>3, <2>1 DEF BindingsHold, Binds
  <2>3. b \in Seq(Nat) /\ Library!ToSet(b) = Library!ToSet(a) \ {id} BY <1>7, <2>2, WithoutKeeps
  <2> QED BY <2>1, <2>3
<1>11. LibraryTypes'
  <2>1. CallForms' BY <1>4, <1>7, <1>8 DEF CallForms
  <2>2. Indexed(scripts)' /\ Indexed(disk.scripts)' BY <1>1, <1>4, <1>5, <1>6 DEF LibraryTypes, Indexed
  <2> QED BY <1>1, <1>4, <1>5, <2>1, <2>2 DEF LibraryTypes
<1>12. IndexHolds'
  <2>1. scripts = disk.scripts BY <1>1, <1>2 DEF IndexHolds
  <2> QED BY <1>3, <1>5, <1>8, <2>1 DEF IndexHolds
<1>13. BodiesHold'
  <2>1. \A i \in DOMAIN scripts' \ torn : BodyOf(i) BY <1>1, <1>2, <1>6 DEF BodiesHold
  <2>2. \A i \in DOMAIN scripts' \ torn : BodyOf(i)' BY <1>5, <1>6, <2>1 DEF BodyOf, Library!Drop
  <2> QED BY <1>4, <1>8, <2>2 DEF BodiesHold
<1>14. BindingsHold'
  <2>1. Binds(apps, scripts)'
    <3> SUFFICES ASSUME NEW p \in DOMAIN apps PROVE apps'[p] \in Seq(Nat) /\ Library!ToSet(apps'[p]) \subseteq DOMAIN scripts'
      BY <1>9 DEF Binds
    <3>1. Library!ToSet(apps[p]) \subseteq DOMAIN scripts BY <1>1 DEF BindingsHold, Binds
    <3> QED BY <1>6, <1>10, <3>1
  <2>2. Binds(disk.apps, disk.scripts)' BY <1>1, <1>5 DEF BindingsHold, Binds
  <2>3. ASSUME libraryCall'.op # "detach", NEW p \in DOMAIN disk.apps
        PROVE  p \in DOMAIN apps' /\ Library!ToSet(disk.apps[p]) \subseteq Library!ToSet(apps'[p])
    <3>1. p \in DOMAIN apps /\ Library!ToSet(disk.apps[p]) \subseteq Library!ToSet(apps[p]) BY <1>1, <1>2 DEF BindingsHold
    <3>2. id \notin Library!ToSet(apps[p]) BY <1>3, <2>3, <3>1
    <3> QED BY <1>9, <1>10, <3>1, <3>2
  <2> QED BY <1>5, <2>1, <2>2, <2>3 DEF BindingsHold
<1>15. LaunchHolds'
  <2>1. CASE launch = [at |-> "none"] BY <1>3, <2>1 DEF LaunchHolds
  <2>2. CASE launch # [at |-> "none"]
    <3>1. /\ LaunchForm'
          /\ Library!ToSet(launch'.ids) \subseteq Library!ToSet(launch.ids)
          /\ UNCHANGED <<launch.at, launch.loaded, launch.bound>>
          /\ launch'.shares => /\ launch'.app \in DOMAIN apps'
                               /\ Library!ToSet(apps'[launch'.app]) \subseteq Library!ToSet(launch'.ids)
                               /\ Len(apps'[launch'.app]) <= Len(launch'.ids)
      BY <1>3, <1>4, <1>7, <2>2, DeletedLaunch
    <3>2. \A i \in Library!ToSet(launch'.ids) \cap DOMAIN scripts' : scripts'[i].born \in Library!ToSet(launch'.bound)
      BY <1>1, <1>6, <2>2, <3>1 DEF LaunchHolds
    <3>3. \A i \in DOMAIN launch'.loaded : launch'.loaded[i].born \in Library!ToSet(launch'.bound)
      BY <1>1, <2>2, <3>1 DEF LaunchHolds
    <3>4. launch'.at = "running" => Len(launch'.loaded) = Len(launch'.bound) BY <1>1, <2>2, <3>1 DEF LaunchHolds
    <3> QED BY <1>8, <3>1, <3>2, <3>3, <3>4 DEF LaunchHolds
  <2> QED BY <2>1, <2>2
<1> QED BY <1>11, <1>12, <1>13, <1>14, <1>15 DEF LibraryInv

\* A change of the recents says nothing of the scripts.
LEMMA RecentsStep ==
  ASSUME LibraryInv, UNCHANGED <<scripts, seq, apps, libraryCall, imports, births, torn>>,
         disk' = [disk EXCEPT !.hist = hist'], LaunchHolds'
  PROVE  LibraryInv'
<1>1. LibraryTypes /\ IndexHolds /\ BodiesHold /\ BindingsHold BY DEF LibraryInv
<1>2. /\ disk'.scripts = disk.scripts /\ disk'.apps = disk.apps /\ disk'.hist = hist' /\ disk'.bodies = disk.bodies
      /\ disk' = [scripts |-> disk'.scripts, apps |-> disk'.apps, hist |-> disk'.hist, bodies |-> disk'.bodies]
  BY <1>1 DEF LibraryTypes
<1>3. LibraryTypes'
  <2>1. CallForms' BY <1>1 DEF LibraryTypes, CallForms
  <2>2. Indexed(scripts)' /\ Indexed(disk.scripts)' BY <1>1, <1>2 DEF LibraryTypes, Indexed
  <2> QED BY <1>1, <1>2, <2>1, <2>2 DEF LibraryTypes
<1>4. IndexHolds' BY <1>1, <1>2 DEF IndexHolds
<1>5. BodiesHold' BY <1>1, <1>2 DEF BodiesHold, BodyOf
<1>6. BindingsHold' BY <1>1, <1>2 DEF BindingsHold, Binds
<1> QED BY <1>3, <1>4, <1>5, <1>6 DEF LibraryInv

LEMMA RemoveHistoryStep == ASSUME LibraryInv, Library!RemoveHistory PROVE LibraryInv'
<1>1. /\ UNCHANGED <<scripts, seq, apps, libraryCall, imports, launch, births, torn>>
      /\ disk' = [disk EXCEPT !.hist = hist']
  BY DEF Library!RemoveHistory
<1>2. LaunchHolds' BY <1>1 DEF LibraryInv, LaunchHolds, LaunchForm
<1> QED BY <1>1, <1>2, RecentsStep

LEMMA RecordHistoryStep == ASSUME LibraryInv, Library!RecordHistory PROVE LibraryInv'
<1>1. /\ UNCHANGED <<scripts, seq, apps, libraryCall, imports, births, torn>>
      /\ disk' = [disk EXCEPT !.hist = hist'] /\ launch' = [launch EXCEPT !.at = "running"]
      /\ launch # [at |-> "none"] /\ Len(launch.loaded) = Len(launch.ids)
  BY DEF Library!RecordHistory
<1>2. LaunchForm BY <1>1 DEF LibraryInv, LaunchHolds
<1>3. /\ launch'.at = "running" /\ launch'.app = launch.app
      /\ UNCHANGED <<launch.ids, launch.shares, launch.loaded, launch.bound>>
      /\ launch' = [at |-> launch'.at, app |-> launch'.app, ids |-> launch'.ids, shares |-> launch'.shares,
                    loaded |-> launch'.loaded, bound |-> launch'.bound]
  BY <1>1, <1>2 DEF LaunchForm
<1>4. LaunchForm' BY <1>1, <1>2, <1>3 DEF LaunchForm
<1>5. Len(launch'.loaded) = Len(launch'.bound) BY <1>1, <1>2, <1>3 DEF LaunchForm
<1>6. LaunchHolds' BY <1>1, <1>3, <1>4, <1>5 DEF LibraryInv, LaunchHolds
<1> QED BY <1>1, <1>6, RecentsStep

\* A launch reads a binding, then the scripts it names.
LEMMA LaunchStep ==
  ASSUME LibraryInv, UNCHANGED <<scripts, seq, apps, disk, libraryCall, imports, births, torn>>, LaunchHolds'
  PROVE  LibraryInv'
<1>1. LibraryTypes /\ IndexHolds /\ BodiesHold /\ BindingsHold BY DEF LibraryInv
<1>2. LibraryTypes' BY <1>1 DEF LibraryTypes, CallForms, Indexed
<1>3. IndexHolds' BY <1>1 DEF IndexHolds
<1>4. BodiesHold' BY <1>1 DEF BodiesHold, BodyOf
<1>5. BindingsHold' BY <1>1 DEF BindingsHold, Binds
<1> QED BY <1>2, <1>3, <1>4, <1>5 DEF LibraryInv

LEMMA StartAppStep == ASSUME LibraryInv, Library!StartAppWithFrida PROVE LibraryInv'
<1>1. UNCHANGED <<scripts, seq, apps, hist, disk, libraryCall, imports, births, torn>> /\ libraryCall = [op |-> "none"]
  BY DEF Library!StartAppWithFrida, Library!Idle
<1>2. PICK p \in DOMAIN apps :
        launch' = [at |-> "prepare", app |-> p, ids |-> apps[p], shares |-> TRUE, loaded |-> <<>>,
                   bound |-> [i \in DOMAIN apps[p] |-> scripts[apps[p][i]].born]]
  BY DEF Library!StartAppWithFrida
<1>3. LibraryTypes /\ BindingsHold BY DEF LibraryInv
<1>4. PICK ids : ids = apps[p] OBVIOUS
<1>5. ids \in Seq(Nat) /\ Library!ToSet(ids) \subseteq DOMAIN scripts BY <1>3, <1>4 DEF BindingsHold, Binds
<1>6. DOMAIN scripts \subseteq 1 .. seq /\ \A i \in DOMAIN scripts : scripts[i].born \in Nat BY <1>3 DEF LibraryTypes, Indexed, Script
<1> DEFINE bound == [i \in DOMAIN ids |-> scripts[ids[i]].born]
<1>7. bound \in Seq(Nat) /\ Len(bound) = Len(ids)
  <2>1. \A i \in DOMAIN ids : ids[i] \in DOMAIN scripts BY <1>5 DEF Library!ToSet
  <2>2. \A i \in DOMAIN ids : scripts[ids[i]].born \in Nat BY <1>6, <2>1
  <2>3. DOMAIN ids = 1 .. Len(ids) /\ Len(ids) \in Nat BY <1>5
  <2>4. bound \in [1 .. Len(ids) -> Nat] BY <2>2, <2>3
  <2> HIDE DEF bound
  <2> QED BY <2>3, <2>4
<1>8. \A i \in Library!ToSet(ids) : scripts[i].born \in Library!ToSet(bound)
  <2> SUFFICES ASSUME NEW k \in DOMAIN ids PROVE scripts[ids[k]].born \in Library!ToSet(bound) BY DEF Library!ToSet
  <2>1. DOMAIN bound = DOMAIN ids /\ bound[k] = scripts[ids[k]].born OBVIOUS
  <2> HIDE DEF bound
  <2> QED BY <2>1 DEF Library!ToSet
<1>9. launch' = [at |-> "prepare", app |-> p, ids |-> ids, shares |-> TRUE, loaded |-> <<>>, bound |-> bound] BY <1>2, <1>4
<1> HIDE DEF bound
<1>10. LaunchForm' BY <1>1, <1>5, <1>6, <1>7, <1>9 DEF LaunchForm
<1>11. LaunchHolds'
  <2>1. \A i \in DOMAIN launch'.loaded : launch'.loaded[i].born \in Library!ToSet(launch'.bound) BY <1>9
  <2>2. \A i \in Library!ToSet(launch'.ids) \cap DOMAIN scripts' : scripts'[i].born \in Library!ToSet(launch'.bound) BY <1>1, <1>8, <1>9
  <2>3. /\ launch'.app \in DOMAIN apps' /\ Library!ToSet(apps'[launch'.app]) \subseteq Library!ToSet(launch'.ids)
        /\ Len(apps'[launch'.app]) <= Len(launch'.ids)
    BY <1>1, <1>4, <1>5, <1>9
  <2> QED BY <1>1, <1>9, <1>10, <2>1, <2>2, <2>3 DEF LaunchHolds
<1> QED BY <1>1, <1>11, LaunchStep

LEMMA CollectStep == ASSUME LibraryInv, Library!CollectScript PROVE LibraryInv'
<1>1. UNCHANGED <<scripts, seq, apps, hist, disk, libraryCall, imports, births, torn>> BY DEF Library!CollectScript
<1>2. launch.at = "prepare" /\ launch # [at |-> "none"] /\ libraryCall = [op |-> "none"] BY DEF Library!CollectScript, Library!Idle
<1>3. LibraryTypes /\ LaunchHolds /\ LaunchForm BY <1>2 DEF LibraryInv, LaunchHolds
<1>4. PICK n : /\ n = Len(launch.loaded) + 1 /\ n <= Len(launch.ids)
               /\ launch' = IF launch.ids[n] \in DOMAIN scripts
                            THEN [launch EXCEPT !.loaded = Append(launch.loaded, scripts[launch.ids[n]])] ELSE [at |-> "none"]
  BY DEF Library!CollectScript, Library!NoLaunch
<1>5. CASE launch.ids[n] \notin DOMAIN scripts
  <2>1. LaunchHolds' BY <1>4, <1>5 DEF LaunchHolds
  <2> QED BY <1>1, <2>1, LaunchStep
<1>6. CASE launch.ids[n] \in DOMAIN scripts
  <2>1. PICK s : s = scripts[launch.ids[n]] OBVIOUS
  <2>2. s \in Script BY <1>3, <1>6, <2>1 DEF LibraryTypes, Indexed
  <2>3. n \in DOMAIN launch.ids BY <1>3, <1>4 DEF LaunchForm
  <2>4. launch.ids[n] \in Library!ToSet(launch.ids) BY <2>3 DEF Library!ToSet
  <2>5. s.born \in Library!ToSet(launch.bound) BY <1>2, <1>3, <1>6, <2>1, <2>4 DEF LaunchHolds
  <2>6. PICK old, new : old = launch.loaded /\ new = Append(launch.loaded, s) OBVIOUS
  <2>7. old \in Seq(Script) /\ new = Append(old, s) BY <1>3, <2>6 DEF LaunchForm
  <2>8. new \in Seq(Script) /\ \A i \in DOMAIN new : new[i] = s \/ (i \in DOMAIN old /\ new[i] = old[i]) BY <2>2, <2>7
  <2>9. /\ launch'.loaded = new /\ launch'.app = launch.app
        /\ UNCHANGED <<launch.at, launch.ids, launch.shares, launch.bound>>
        /\ launch' = [at |-> launch'.at, app |-> launch'.app, ids |-> launch'.ids, shares |-> launch'.shares,
                      loaded |-> launch'.loaded, bound |-> launch'.bound]
    BY <1>3, <1>4, <1>6, <2>1, <2>6 DEF LaunchForm
  <2>10. LaunchForm' BY <1>1, <1>3, <2>8, <2>9 DEF LaunchForm
  <2>11. \A i \in DOMAIN launch'.loaded : launch'.loaded[i].born \in Library!ToSet(launch'.bound)
    <3>1. \A i \in DOMAIN old : old[i].born \in Library!ToSet(launch.bound) BY <1>2, <1>3, <2>6 DEF LaunchHolds
    <3>2. \A i \in DOMAIN new : new[i].born \in Library!ToSet(launch.bound) BY <2>5, <2>8, <3>1
    <3> QED BY <2>9, <3>2
  <2>12. LaunchHolds' BY <1>1, <1>2, <1>3, <2>9, <2>10, <2>11 DEF LaunchHolds
  <2> QED BY <1>1, <2>12, LaunchStep
<1> QED BY <1>5, <1>6

\* The next run of the program reads the three indices.
LEMMA CrashStep == ASSUME LibraryInv, Library!Crash PROVE LibraryInv'
<1>1. LibraryTypes /\ IndexHolds /\ BodiesHold /\ BindingsHold BY DEF LibraryInv
<1>2. /\ scripts' = disk.scripts /\ apps' = disk.apps /\ seq' = Library!Highest(DOMAIN disk.scripts)
      /\ libraryCall' = [op |-> "none"] /\ imports' = {} /\ launch' = [at |-> "none"]
      /\ torn' = torn \cup (IF libraryCall = [op |-> "none"] THEN {} ELSE {libraryCall.id})
      /\ UNCHANGED <<disk, births>>
  BY DEF Library!Crash, Library!Idle, Library!NoLaunch
<1>3. seq' \in Nat /\ DOMAIN disk.scripts \subseteq 1 .. seq'
  <2>1. PICK S : S = DOMAIN disk.scripts OBVIOUS
  <2>2. seq \in Nat /\ S \in SUBSET (1 .. seq) BY <1>1, <2>1 DEF LibraryTypes, Indexed
  <2>3. Library!Highest(S) \in Nat /\ S \subseteq 1 .. Library!Highest(S) BY <2>2, HighestIs
  <2> QED BY <1>2, <2>1, <2>3
<1>4. LibraryTypes'
  <2>1. CallForms' BY <1>2 DEF CallForms
  <2>2. Indexed(scripts)' /\ Indexed(disk.scripts)' BY <1>1, <1>2, <1>3 DEF LibraryTypes, Indexed
  <2> QED BY <1>1, <1>2, <1>3, <2>1, <2>2 DEF LibraryTypes
<1>5. IndexHolds' BY <1>2 DEF IndexHolds
<1>6. BodiesHold'
  <2> SUFFICES ASSUME NEW i \in DOMAIN disk.scripts \ torn' PROVE i \in DOMAIN disk.bodies /\ disk.bodies[i] = disk.scripts[i].of
    BY <1>2 DEF BodiesHold, BodyOf
  <2>1. i \notin torn BY <1>2
  <2>2. CASE libraryCall = [op |-> "none"] BY <1>1, <2>1, <2>2 DEF IndexHolds, BodiesHold, BodyOf
  <2>3. CASE libraryCall # [op |-> "none"]
    <3>1. i # libraryCall.id BY <1>2, <2>3
    <3>2. i \in DOMAIN scripts /\ scripts[i] = disk.scripts[i] BY <1>1, <3>1 DEF IndexHolds, Library!Drop
    <3> QED BY <1>1, <2>1, <3>1, <3>2 DEF BodiesHold, BodyOf
  <2> QED BY <2>2, <2>3
<1>7. BindingsHold' BY <1>1, <1>2 DEF BindingsHold, Binds
<1>8. LaunchHolds' BY <1>2 DEF LaunchHolds
<1> QED BY <1>4, <1>5, <1>6, <1>7, <1>8 DEF LibraryInv

\* The two calls that save.
LEMMA SavesStep == ASSUME LibraryInv, Library!SaveFridaScript \/ Library!ImportSave PROVE LibraryInv'
<1>1. CASE Library!SaveFridaScript
  <2>1. PICK id \in {0} \cup DOMAIN scripts, b \in Bodies, t \in BOOLEAN :
          Library!SaveScript([id |-> id, slug |-> "local", of |-> b, trusted |-> t, born |-> 0])
    BY <1>1 DEF Library!SaveFridaScript
  <2>2. libraryCall = Library!Idle /\ imports' = imports BY <1>1 DEF Library!SaveFridaScript, Library!Enter
  <2>3. id \in Nat BY DEF LibraryInv, LibraryTypes, Indexed
  <2>4. [id |-> id, slug |-> "local", of |-> b, trusted |-> t, born |-> 0] \in Script BY <2>3 DEF Script
  <2> QED BY <2>1, <2>2, <2>4, SaveStep
<1>2. CASE Library!ImportSave
  <2>1. PICK in \in imports :
          /\ imports' = imports \ {in}
          /\ IF in.id # 0 /\ in.id \notin DOMAIN scripts
             THEN UNCHANGED <<scripts, seq, apps, hist, disk, libraryCall, launch, births, libraryCrashes, torn>>
             ELSE Library!SaveScript(in)
    BY <1>2 DEF Library!ImportSave
  <2>2. libraryCall = Library!Idle BY <1>2 DEF Library!ImportSave
  <2>3. in \in Script /\ imports' \subseteq imports BY <2>1 DEF LibraryInv, LibraryTypes
  <2>4. CASE Library!SaveScript(in) BY <2>2, <2>3, <2>4, SaveStep
  <2>5. CASE UNCHANGED <<scripts, seq, apps, hist, disk, libraryCall, launch, births, libraryCrashes, torn>>
    <3>1. LibraryTypes /\ IndexHolds /\ BodiesHold /\ BindingsHold /\ LaunchHolds BY DEF LibraryInv
    <3>2. LibraryTypes' BY <2>3, <2>5, <3>1 DEF LibraryTypes, CallForms, Indexed
    <3>3. IndexHolds' BY <2>5, <3>1 DEF IndexHolds
    <3>4. BodiesHold' BY <2>5, <3>1 DEF BodiesHold, BodyOf
    <3>5. BindingsHold' BY <2>5, <3>1 DEF BindingsHold, Binds
    <3>6. LaunchHolds' BY <2>5, <3>1 DEF LaunchHolds, LaunchForm
    <3> QED BY <3>2, <3>3, <3>4, <3>5, <3>6 DEF LibraryInv
  <2> QED BY <2>1, <2>4, <2>5
<1> QED BY <1>1, <1>2

\* Between two calls bindings name scripts and metadata is about its body, and a launch that
\* runs has every script it was bound to, over any calls and crashes (frida_scripts.go, app.go).
THEOREM LibraryIsWhole == Library!Spec => [](Library!LibraryHolds /\ Library!LaunchIsWhole)
<1>1. Library!Init => LibraryInv BY LibraryStart
<1>2. LibraryInv /\ [Library!Next]_Library!vars => LibraryInv'
  <2> SUFFICES ASSUME LibraryInv, [Library!Next]_Library!vars PROVE LibraryInv' OBVIOUS
  <2>1. CASE UNCHANGED Library!vars BY <2>1, LibraryStays
  <2>2. CASE Library!SaveFridaScript \/ Library!ImportSave BY <2>2, SavesStep
  <2>3. CASE Library!SaveIndex BY <2>3, SaveIndexStep
  <2>4. CASE Library!ImportCodeshare BY <2>4, ImportStep
  <2>5. CASE Library!DeleteScript BY <2>5, DeleteStep
  <2>6. CASE Library!DeleteDetach BY <2>6, DeleteDetachStep
  <2>7. CASE Library!DeleteUnlist BY <2>7, DeleteUnlistStep
  <2>8. CASE Library!SetAppScripts BY <2>8, SetAppScriptsStep
  <2>9. CASE Library!RemoveHistory BY <2>9, RemoveHistoryStep
  <2>10. CASE Library!StartAppWithFrida BY <2>10, StartAppStep
  <2>11. CASE Library!CollectScript BY <2>11, CollectStep
  <2>12. CASE Library!RecordHistory BY <2>12, RecordHistoryStep
  <2>13. CASE Library!Crash BY <2>13, CrashStep
  <2> QED BY <2>1, <2>2, <2>3, <2>4, <2>5, <2>6, <2>7, <2>8, <2>9, <2>10, <2>11, <2>12, <2>13 DEF Library!Next
<1>3. LibraryInv => Library!LibraryHolds /\ Library!LaunchIsWhole BY LibraryInvIsWhole
<1> QED BY <1>1, <1>2, <1>3, PTL DEF Library!Spec

LEMMA HostRuns == AllSpec => Host!Spec
<1>1. AllInit => Host!Init BY DEF AllInit
<1>2. [AllNext]_all => [Host!Next]_Host!vars
  BY DEF AllNext, all, HostVars, Host!vars, Host!jobVars, Host!fileVars
<1> QED BY <1>1, <1>2, PTL DEF AllSpec, Host!Spec

LEMMA SessionRuns == AllSpec => Session!Spec
<1>1. AllInit => Session!Init BY DEF AllInit
<1>2. [AllNext]_all => [Session!Next]_Session!vars
  BY DEF AllNext, all, SessionVars, Session!vars, Session!server_vars, Session!host, Session!page
<1> QED BY <1>1, <1>2, PTL DEF AllSpec, Session!Spec

LEMMA LibraryRuns == AllSpec => Library!Spec
<1>1. AllInit => Library!Init BY DEF AllInit
<1>2. [AllNext]_all => [Library!Next]_Library!vars BY DEF AllNext, all, LibraryVars, Library!vars
<1> QED BY <1>1, <1>2, PTL DEF AllSpec, Library!Spec

\* What is ready on the host is whole, a launch loads the scripts it was bound to, no
\* session leaves anything behind, and its console is its log (frida_tools.go,
\* frida_scripts.go, frida_session.go), in the run of all.
THEOREM FridaIsKept == AllSpec => []FridaKept
<1>1. /\ Session!TypeOK /\ Session!NothingLeftBehind /\ Session!ConsoleIsTheLog
      /\ Host!ReadyIsWhole /\ Host!CacheHeals /\ Host!NothingHalfRuns
      /\ Library!LibraryHolds /\ Library!LaunchIsWhole
      => FridaKept
  BY DEF FridaKept
<1> QED BY <1>1, HostRuns, HostIsReady, SessionRuns, SessionIsWhole, LibraryRuns, LibraryIsWhole, PTL
=============================================================================
