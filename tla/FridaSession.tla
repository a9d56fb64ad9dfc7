----------------------------- MODULE FridaSession -----------------------------
(***************************************************************************)
(* Instrumenting an application of one device: StartAppWithFrida and the   *)
(* session it opens (app.go, internal/adb/frida_session.go), from the      *)
(* server on the device and the runtime on the host, over the driver, a    *)
(* Python child with a temporary directory and perhaps an adb forward, to  *)
(* the console of the page, which joins events with a backfill.            *)
(*                                                                         *)
(* Each session is the one its start may open. Messages of a session are   *)
(* its numbers 1, 2, ..; the ring, of Ring messages, holds the last ones.  *)
(***************************************************************************)
EXTENDS Integers, Sequences, FiniteSets

CONSTANTS Sessions,   \* the calls of StartAppWithFrida
          Ring,       \* fridaSessionRing
          MaxMsgs,    \* messages of one driver
          MaxTurns,   \* servers started or stopped behind adbq's back
          Forwarded   \* the server listens on a port that is not Frida's own

VARIABLES
  server,   \* whether a frida-server runs on the device
  turns,    \* servers started or stopped by somebody else
  runtime,  \* whether the host has a runtime that matches it
  managed,  \* FridaStore.managed
  call,     \* where each start stands
  driver,   \* the session's Python child: none, up, told, gone
  tmp,      \* sessions whose temporary directory exists
  fwd,      \* sessions whose forward the adb server holds
  fridaSess,\* App.fridaSess
  seq,      \* FridaSession.seq
  done,     \* the pump has closed done
  last,     \* the flusher: the last message emitted, or the session is over
  stop,     \* stopOnce: no, wait, clean, done
  wire,     \* events on their way to the page
  reply,    \* the backfill asked for: none, asked, or its messages
  shown,    \* the page: messages of the console, in order
  ended,    \* the page shows the session as ended
  sub,      \* the page has subscribed to the session
  app,      \* the process: up, closing, gone
  overtook  \* history: a batch reached the page before the backfill

server_vars == <<server, turns, runtime, managed>>
host  == <<driver, tmp, fwd, fridaSess, seq, done, stop>>
page  == <<wire, reply, shown, ended, sub, overtook>>
vars  == <<server_vars, call, host, last, page, app>>

Over == MaxMsgs + 1
Range0(a, b) == {n \in 1 .. MaxMsgs : a < n /\ n <= b}

Init ==
  /\ server \in BOOLEAN /\ runtime \in BOOLEAN /\ managed \in BOOLEAN /\ turns = 0
  /\ call = [s \in Sessions |-> "idle"]
  /\ driver = [s \in Sessions |-> "none"]
  /\ tmp = {} /\ fwd = {} /\ fridaSess = {}
  /\ seq = [s \in Sessions |-> 0]
  /\ done = {}
  /\ last = [s \in Sessions |-> 0]
  /\ stop = [s \in Sessions |-> "no"]
  /\ wire = [s \in Sessions |-> <<>>]
  /\ reply = [s \in Sessions |-> <<"none">>]
  /\ shown = [s \in Sessions |-> <<>>]
  /\ ended = {} /\ sub = {} /\ overtook = {}
  /\ app = "up"

Go(s, here, next) == call[s] = here /\ call' = [call EXCEPT ![s] = next]
Running == app # "gone"

-----------------------------------------------------------------------------
\* The device and the host.

\* Somebody starts or stops a server; StopFrida does the latter.
ServerTurns == /\ turns < MaxTurns
               /\ turns' = turns + 1
               /\ server' = ~server
               /\ UNCHANGED <<runtime, managed, call, host, last, page, app>>

StartAppWithFrida(s) == /\ app = "up"
                        /\ Go(s, "idle", "server")
                        /\ UNCHANGED <<server_vars, host, last, page, app>>

\* ensureDeviceFridaServer: a server that runs is taken, or else the one picked
\* is started; what came up is read back ten times.
EnsureRunning(s) == /\ server /\ Running
                    /\ \E here \in {"server", "wait"} : Go(s, here, "runtime")
                    /\ UNCHANGED <<server_vars, host, last, page, app>>
EnsureStart(s) == /\ ~server /\ Running
                  /\ Go(s, "server", "wait")
                  /\ server' \in BOOLEAN
                  /\ UNCHANGED <<turns, runtime, managed, host, last, page, app>>
EnsureFails(s) == /\ ~server /\ Running
                  /\ \E here \in {"server", "wait"} : Go(s, here, "failed")
                  /\ UNCHANGED <<server_vars, host, last, page, app>>

\* A runtime that matches, or a venv made for it when adbq may make one.
Prepare(s) == /\ Running
              /\ \/ runtime /\ Go(s, "runtime", "launch") /\ UNCHANGED runtime
                 \/ ~runtime /\ managed /\ Go(s, "runtime", "launch") /\ runtime' = TRUE
                 \/ ~runtime /\ Go(s, "runtime", "failed") /\ UNCHANGED runtime
              /\ UNCHANGED <<server, turns, managed, host, last, page, app>>
RemoveRuntime == /\ runtime /\ app = "up"
                 /\ runtime' = FALSE
                 /\ UNCHANGED <<server, turns, managed, call, host, last, page, app>>

-----------------------------------------------------------------------------
\* StartFridaSession.

\* The binding resolves the runtime again and reads the scripts, and the
\* session gets its directory, its driver and its bridges.
Launch(s) ==
  /\ Running
  /\ \/ runtime /\ Go(s, "launch", "forward") /\ tmp' = tmp \cup {s}
     \/ Go(s, "launch", "failed") /\ UNCHANGED tmp
  /\ UNCHANGED <<server_vars, driver, fwd, fridaSess, seq, done, stop, last, page, app>>

\* What a failure takes back: the forward, if there is one, and the directory.
CleanUp(s) == fwd' = fwd \ {s} /\ tmp' = tmp \ {s}

ForwardFridaPort(s) ==
  /\ Running
  /\ \/ Go(s, "forward", "spawn") /\ fwd' = (IF Forwarded THEN fwd \cup {s} ELSE fwd) /\ UNCHANGED tmp
     \/ Forwarded /\ Go(s, "forward", "failed") /\ CleanUp(s)
  /\ UNCHANGED <<server_vars, driver, fridaSess, seq, done, stop, last, page, app>>

\* A slip: the forward stays when the driver cannot be started.
SpawnLeaky(s) ==
  /\ Running
  /\ \/ /\ Go(s, "spawn", "register")
        /\ driver' = [driver EXCEPT ![s] = "up"]
        /\ \E n \in {0, 1} : n <= MaxMsgs /\ seq' = [seq EXCEPT ![s] = n]
        /\ UNCHANGED <<fwd, tmp>>
     \/ /\ Go(s, "spawn", "failed") /\ tmp' = tmp \ {s}
        /\ UNCHANGED <<driver, seq, fwd>>
  /\ UNCHANGED <<server_vars, fridaSess, done, stop, last, page, app>>

\* The driver starts; without bridges, the session's first message says so.
Spawn(s) ==
  /\ Running
  /\ \/ /\ Go(s, "spawn", "register")
        /\ driver' = [driver EXCEPT ![s] = "up"]
        /\ \E n \in {0, 1} : n <= MaxMsgs /\ seq' = [seq EXCEPT ![s] = n]
        /\ UNCHANGED <<fwd, tmp>>
     \/ /\ Go(s, "spawn", "failed") /\ CleanUp(s)
        /\ UNCHANGED <<driver, seq>>
  /\ UNCHANGED <<server_vars, fridaSess, done, stop, last, page, app>>


Register(s) == /\ Running
               /\ Go(s, "register", "open")
               /\ fridaSess' = fridaSess \cup {s}
               /\ UNCHANGED <<server_vars, driver, tmp, fwd, seq, done, stop, last, page, app>>

-----------------------------------------------------------------------------
\* The driver, the pump and the flusher.

DriverSays(s) == /\ driver[s] \in {"up", "told"} /\ seq[s] < MaxMsgs /\ Running
                 /\ seq' = [seq EXCEPT ![s] = @ + 1]
                 /\ UNCHANGED <<server_vars, call, driver, tmp, fwd, fridaSess, done, stop, last, page, app>>
\* It ends by itself (detached, a fatal error) or because it was told to.
DriverExits(s) == /\ driver[s] \in {"up", "told"}
                  /\ driver' = [driver EXCEPT ![s] = "gone"]
                  /\ UNCHANGED <<server_vars, call, tmp, fwd, fridaSess, seq, done, stop, last, page, app>>
PumpEnds(s) == /\ driver[s] = "gone" /\ s \notin done /\ Running
               /\ done' = done \cup {s}
               /\ UNCHANGED <<server_vars, call, driver, tmp, fwd, fridaSess, seq, stop, last, page, app>>

\* LogSince: the messages the ring still holds.
LogSince(s, n) == {m \in Range0(n, seq[s]) : m > seq[s] - Ring}

\* One tick of the flusher; an event nobody is subscribed to is lost.
Send(s, event) == wire' = IF s \in sub THEN [wire EXCEPT ![s] = Append(@, event)] ELSE wire
Flush(s) == /\ call[s] = "open" /\ last[s] < seq[s] /\ Running
            /\ last' = [last EXCEPT ![s] = seq[s]]
            /\ Send(s, [kind |-> "batch", msgs |-> LogSince(s, last[s])])
            /\ UNCHANGED <<server_vars, call, host, reply, shown, ended, sub, overtook, app>>
\* A slip: the end is signalled without draining the ring.
FlushDoneEarly(s) == /\ call[s] = "open" /\ s \in done /\ last[s] # Over /\ Running
                     /\ last' = [last EXCEPT ![s] = Over]
                     /\ Send(s, [kind |-> "done", msgs |-> {}])
                     /\ UNCHANGED <<server_vars, call, host, reply, shown, ended, sub, overtook, app>>

\* After Done, once more, and the end.
FlushDone(s) == /\ call[s] = "open" /\ s \in done /\ last[s] = seq[s] /\ Running
                /\ last' = [last EXCEPT ![s] = Over]
                /\ Send(s, [kind |-> "done", msgs |-> {}])
                /\ UNCHANGED <<server_vars, call, host, reply, shown, ended, sub, overtook, app>>


-----------------------------------------------------------------------------
\* FridaSession.Stop, by a binding or by shutdown: told, killed after a while,
\* and what it holds is released once the pump is done.

Tell(s) == stop[s] = "no" /\ stop' = [stop EXCEPT ![s] = "wait"]
           /\ driver' = [driver EXCEPT ![s] = IF @ = "up" THEN "told" ELSE @]
StopFridaSession(s) == /\ s \in fridaSess /\ app = "up" /\ Tell(s)
                       /\ UNCHANGED <<server_vars, call, tmp, fwd, fridaSess, seq, done, last, page, app>>
\* The entry goes first, whoever stops it.
RemoveFridaSession(s) ==
  /\ s \in fridaSess /\ app = "up"
  /\ fridaSess' = fridaSess \ {s}
  /\ Tell(s) \/ (stop[s] # "no" /\ UNCHANGED <<stop, driver>>)
  /\ sub' = sub \ {s}
  /\ wire' = [wire EXCEPT ![s] = <<>>]
  /\ UNCHANGED <<server_vars, call, tmp, fwd, seq, done, last, reply, shown, ended, overtook, app>>
StopKill(s) == /\ stop[s] = "wait" /\ driver[s] = "told"
               /\ driver' = [driver EXCEPT ![s] = "gone"]
               /\ UNCHANGED <<server_vars, call, tmp, fwd, fridaSess, seq, done, stop, last, page, app>>
\* A slip: the release is left to a driver that obeys.
StopReleaseAtOnce(s) == /\ stop[s] = "wait" /\ s \in done /\ Running
                        /\ stop' = [stop EXCEPT ![s] = "done"]
                        /\ UNCHANGED <<server_vars, call, driver, tmp, fwd, fridaSess, seq, done, last, page, app>>


StopRelease(s) == /\ stop[s] = "wait" /\ s \in done /\ Running
                  /\ stop' = [stop EXCEPT ![s] = "done"]
                  /\ CleanUp(s)
                  /\ UNCHANGED <<server_vars, call, driver, fridaSess, seq, done, last, page, app>>


\* shutdown stops the sessions of the map under fridaMu, so none is entered
\* or removed meanwhile, and the process ends with the last of them.
Shutdown == /\ app = "up" /\ app' = "closing"
            /\ UNCHANGED <<server_vars, call, host, last, page>>
ShutdownStop(s) == /\ app = "closing" /\ s \in fridaSess /\ Tell(s)
                   /\ UNCHANGED <<server_vars, call, tmp, fwd, fridaSess, seq, done, last, page, app>>
Exit == /\ app = "closing"
        /\ \A s \in fridaSess : stop[s] = "done"
        /\ app' = "gone"
        /\ UNCHANGED <<server_vars, call, host, last, page>>

-----------------------------------------------------------------------------
\* The page's console (store.tsx).

\* adoptFridaSession, when the start has answered: subscribe, then backfill.
Adopt(s) == /\ call[s] = "open" /\ s \in fridaSess /\ s \notin sub /\ reply[s] = <<"none">> /\ app = "up"
            /\ sub' = sub \cup {s}
            /\ reply' = [reply EXCEPT ![s] = <<"asked">>]
            /\ UNCHANGED <<server_vars, call, host, last, wire, shown, ended, overtook, app>>
GetFridaSessionLog(s) == /\ reply[s] = <<"asked">> /\ app = "up"
                         /\ reply' = [reply EXCEPT ![s] = <<"answer", LogSince(s, 0)>>]
                         /\ UNCHANGED <<server_vars, call, host, last, wire, shown, ended, sub, overtook, app>>

LastSeq(s) == IF shown[s] = <<>> THEN 0 ELSE shown[s][Len(shown[s])]
InOrder(S) == CHOOSE q \in [1 .. Cardinality(S) -> S] : \A i, j \in DOMAIN q : i < j => q[i] < q[j]
\* A slip: overlapping messages are appended again.
MergedAll(s, msgs) == [shown EXCEPT ![s] = @ \o InOrder(msgs)]

\* mergeFridaMsgs: what is newer than the last one held is appended.
Merged(s, msgs) == [shown EXCEPT ![s] = @ \o InOrder({m \in msgs : m > LastSeq(s)})]

Backfilled(s) == /\ reply[s][1] = "answer" /\ s \in sub /\ app = "up"
                 /\ shown' = Merged(s, reply[s][2])
                 /\ reply' = [reply EXCEPT ![s] = <<"over">>]
                 /\ overtook' = IF shown[s] = <<>> THEN overtook ELSE overtook \cup {s}
                 /\ UNCHANGED <<server_vars, call, host, last, wire, ended, sub, app>>
Arrives(s) == /\ wire[s] # <<>> /\ s \in sub /\ app = "up"
              /\ wire' = [wire EXCEPT ![s] = Tail(@)]
              /\ \/ Head(wire[s]).kind = "batch" /\ shown' = Merged(s, Head(wire[s]).msgs) /\ UNCHANGED ended
                 \/ Head(wire[s]).kind = "done" /\ ended' = ended \cup {s} /\ UNCHANGED shown
              /\ UNCHANGED <<server_vars, call, host, last, reply, sub, overtook, app>>

-----------------------------------------------------------------------------
Start(s) == \/ EnsureRunning(s) \/ EnsureStart(s) \/ EnsureFails(s) \/ Prepare(s)
            \/ Launch(s) \/ ForwardFridaPort(s) \/ Spawn(s)
            \/ (app = "up" /\ Register(s))
Pump(s)  == PumpEnds(s) \/ Flush(s) \/ FlushDone(s)
Release(s) == StopKill(s) \/ StopRelease(s)
Page(s)  == GetFridaSessionLog(s) \/ Backfilled(s) \/ Arrives(s)
User(s)  == StartAppWithFrida(s) \/ StopFridaSession(s) \/ RemoveFridaSession(s)
Closing(s) == ShutdownStop(s)
Next == \/ ServerTurns \/ RemoveRuntime \/ Shutdown \/ Exit
        \/ \E s \in Sessions : \/ Start(s) \/ Pump(s) \/ Release(s) \/ Page(s) \/ User(s)
                               \/ Closing(s) \/ DriverSays(s) \/ DriverExits(s) \/ Adopt(s)
Spec == Init /\ [][Next]_vars

\* Goroutines run, a killed driver is gone, events and replies are delivered and a
\* page that is told of a session adopts it; nothing makes a driver speak or
\* end, or a user act.
Fairness == /\ WF_vars(Exit)
            /\ \A s \in Sessions : /\ WF_vars(Start(s)) /\ WF_vars(Release(s)) /\ WF_vars(Pump(s))
                                   /\ WF_vars(Closing(s)) /\ WF_vars(Adopt(s)) /\ WF_vars(Page(s))
FairSpec == Spec /\ Fairness

-----------------------------------------------------------------------------
TypeOK ==
  /\ {server, runtime, managed} \subseteq BOOLEAN
  /\ call \in [Sessions -> {"idle", "server", "wait", "runtime", "launch", "forward", "spawn",
                            "register", "open", "failed"}]
  /\ driver \in [Sessions -> {"none", "up", "told", "gone"}]
  /\ tmp \cup fwd \cup fridaSess \cup done \cup ended \cup sub \cup overtook \subseteq Sessions
  /\ seq \in [Sessions -> 0 .. MaxMsgs] /\ last \in [Sessions -> 0 .. Over]
  /\ stop \in [Sessions -> {"no", "wait", "done"}]
  /\ app \in {"up", "closing", "gone"}

\* A forward, a directory or a driver belongs to a start on its way, to a session
\* that can still be stopped, or to one being stopped (frida_session.go:57, "the adb forward
\* opened for a non-default frida-server port"). When adbq has gone, only a
\* start or a removal that overlapped the shutdown has left any: neither is in the map.
NothingLeftBehind ==
  \A s \in Sessions :
    s \in tmp \cup fwd \/ driver[s] \in {"up", "told"} =>
      \/ call[s] \in {"forward", "spawn", "register"}
      \/ app # "gone" /\ s \in fridaSess
      \/ stop[s] = "wait" /\ (app # "gone" \/ s \notin fridaSess)

\* The console shows a session's messages in their order and each once, whatever
\* the overlap of events and backfill (store.tsx, mergeFridaMsgs); and when both have
\* arrived it misses only what the ring dropped, unless a batch overtook the backfill.
ConsoleIsTheLog ==
  \A s \in Sessions :
    /\ \A i, j \in DOMAIN shown[s] : i < j => shown[s][i] < shown[s][j]
    /\ /\ s \in sub /\ reply[s] = <<"over">> /\ wire[s] = <<>> /\ last[s] = Over
       /\ s \notin overtook
       => LogSince(s, 0) \subseteq {shown[s][i] : i \in DOMAIN shown[s]}

\* A session that is stopped gives back its forward and its directory, even when
\* the driver ignores the request (Stop kills it after four seconds).
StopReleases ==
  \A s \in Sessions : stop[s] = "wait" ~> (s \notin tmp \cup fwd /\ driver[s] = "gone") \/ app = "gone"
=============================================================================
