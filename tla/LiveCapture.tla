----------------------------- MODULE LiveCapture -----------------------------
(***************************************************************************)
(* A live capture of one device (internal/adb/pcap_live.go, packetring.go):*)
(* a tcpdump child whose pcap stream a pump mirrors to a file on the host, *)
(* decodes, keeps in a ring and hands to the page in batches, which a      *)
(* timer flushes as well.  Stop, a new Start and Save act on it meanwhile. *)
(*                                                                         *)
(* A session is named after the call that starts it, 0 is none.  A stream  *)
(* is its header, then a head and a body per packet; packets are numbered  *)
(* per session.  All sessions of the device mirror to one path.            *)
(***************************************************************************)
EXTENDS Naturals, Sequences, FiniteSets

CONSTANTS
  Starts,       \* calls of StartLiveCapture, numbered from 1
  RingCap,      \* packets the ring holds
  BatchCap,     \* packets the pump collects before it emits them
  MirrorCap,    \* size at which the mirror is rotated; header and head have size 1
  BodySizes,    \* sizes a body may have
  MaxPackets,   \* bound: packets a session captures when no other Start is called
  MaxShared,    \* bound: packets it captures before, or after, another is called
  MaxSaves      \* bound: calls of SaveLivePcap

ASSUME StartsAssumption == Starts \subseteq Nat \ {0}
ASSUME CapsAssumption == {RingCap, BatchCap, MirrorCap} \cup BodySizes \subseteq Nat \ {0}
ASSUME BoundsAssumption == {MaxPackets, MaxShared, MaxSaves} \subseteq Nat /\ MaxShared <= MaxPackets

VARIABLES
  live, spc, active, doubled,          \* the registry and the calls of Start
  child,                               \* each session's tcpdump
  pump, counter,                       \* where its pump stands, packets it read
  batch, pout, tout, emitted,          \* collected; detached by pump, by timer; sent
  first, count, slots,                 \* packetRing
  buf, size, disk, shut, since, split, \* the mirror, see Write
  file,                                \* the session that created what the path holds
  kpc, ktgt,                           \* a call of Stop
  save, saves                          \* a call of Save

startVars == <<live, spc, active, doubled>>
pageVars  == <<batch, pout, tout, emitted>>
ringVars  == <<first, count, slots>>
fileVars  == <<buf, size, disk, shut, since, split, file>>
stopVars  == <<kpc, ktgt>>
saveVars  == <<save, saves>>
vars == <<startVars, child, pump, counter, pageVars, ringVars, fileVars, stopVars, saveVars>>

Header     == <<"header", 0>>
RecHead(n) == <<"head", n>>
RecBody(n) == <<"body", n>>
NoSave     == [step |-> "none", of |-> 0, seen |-> 0]

Init ==
  /\ live = 0 /\ doubled = FALSE
  /\ spc = [c \in Starts |-> "idle"]
  /\ active = [c \in Starts |-> FALSE]
  /\ child = [c \in Starts |-> "none"]
  /\ pump = [c \in Starts |-> "off"]
  /\ counter = [c \in Starts |-> 0]
  /\ batch = [c \in Starts |-> {}] /\ emitted = [c \in Starts |-> {}]
  /\ pout = [c \in Starts |-> {}] /\ tout = [c \in Starts |-> {}]
  /\ first = [c \in Starts |-> 1] /\ count = [c \in Starts |-> 0]
  /\ slots = [c \in Starts |-> [i \in 0 .. RingCap - 1 |-> 0]]
  /\ buf = [c \in Starts |-> <<>>] /\ size = [c \in Starts |-> 0]
  /\ disk = [c \in Starts |-> <<>>] /\ shut = [c \in Starts |-> FALSE]
  /\ since = [c \in Starts |-> 1] /\ split = [c \in Starts |-> FALSE]
  /\ file = 0
  /\ kpc = "off" /\ ktgt = 0
  /\ save = NoSave /\ saves = 0

-----------------------------------------------------------------------------
(* StartLiveCapture.                                                       *)

\* The bounds on the packets of a session.
Alone(c)  == \A d \in Starts \ {c} : spc[d] = "idle"
Packets(c) == IF Alone(c) THEN MaxPackets ELSE MaxShared
Few       == \A c \in Starts : counter[c] <= MaxShared

Goes(c, from, to) ==
  /\ spc[c] = from
  /\ spc' = [spc EXCEPT ![c] = to]

\* Another call of Start is past its check and has not registered.
Overlap(c) == \E d \in Starts \ {c} : spc[d] \in {"probe", "spawn"}

NotTheFile == <<buf, size, disk, since, split, file>>
Untouched  == <<child, pump, counter, pageVars, ringVars, stopVars, saveVars>>

\* Mutant: the previous capture's file is left open.
StartCheckLeavesOpen(c) ==
  /\ Few /\ (live # 0 => ~active[live])
  /\ Goes(c, "idle", "probe")
  /\ live' = 0
  /\ doubled' = (doubled \/ Overlap(c))
  /\ UNCHANGED <<active, Untouched, fileVars>>

\* Mutant: a capture that runs is replaced.
StartCheckReplaces(c) ==
  /\ Few
  /\ Goes(c, "idle", "probe")
  /\ live' = 0
  /\ doubled' = (doubled \/ Overlap(c))
  /\ shut' = [d \in Starts |-> shut[d] \/ d = live]
  /\ UNCHANGED <<active, Untouched, NotTheFile>>

\* Nothing runs: the file of an inactive capture is closed, its entry deleted.
StartCheck(c) ==
  /\ Few /\ (live # 0 => ~active[live])
  /\ Goes(c, "idle", "probe")
  /\ live' = 0
  /\ doubled' = (doubled \/ Overlap(c))
  /\ shut' = [d \in Starts |-> shut[d] \/ d = live]
  /\ UNCHANGED <<active, Untouched, NotTheFile>>

\* "A live capture is already running", or a device round trip or the spawn fails.
StartFail(c) ==
  /\ \/ Few /\ live # 0 /\ active[live] /\ Goes(c, "idle", "failed")
     \/ Goes(c, "probe", "failed")
     \/ Goes(c, "spawn", "failed")
  /\ shut' = [shut EXCEPT ![c] = @ \/ spc[c] = "spawn"]
  /\ UNCHANGED <<live, active, doubled, Untouched, NotTheFile>>

\* tcpdump, the interface and root are there: os.Create truncates the mirror.
OpenMirror(c) ==
  /\ Goes(c, "probe", "spawn")
  /\ file' = c
  /\ UNCHANGED <<live, active, doubled, Untouched, buf, size, disk, shut, since, split>>

\* tcpdump starts; the entry is written, whatever it held; the pump starts.
SpawnTcpdump(c) ==
  /\ Goes(c, "spawn", "started")
  /\ child' = [child EXCEPT ![c] = "up"]
  /\ active' = [active EXCEPT ![c] = TRUE]
  /\ live' = c
  /\ pump' = [pump EXCEPT ![c] = "header"]
  /\ UNCHANGED <<doubled, counter, pageVars, ringVars, fileVars, stopVars, saveVars>>

\* tcpdump ends: the device or adb is gone.
ChildExit(c) ==
  /\ child[c] = "up"
  /\ child' = [child EXCEPT ![c] = "gone"]
  /\ UNCHANGED <<startVars, pump, counter, pageVars, ringVars, fileVars, stopVars, saveVars>>

-----------------------------------------------------------------------------
(* The mirror: disk is what the session wrote to its file since it last    *)
(* truncated it, since the packet it was truncated at, split whether that  *)
(* fell between the packet's head and its body.                            *)

\* mirror.Flush, which fails once the file was closed.
Flush(c) ==
  /\ buf' = [buf EXCEPT ![c] = <<>>]
  /\ disk' = [disk EXCEPT ![c] = IF shut[c] THEN @ ELSE @ \o buf[c]]

\* Mutant: what is buffered outlives the truncation.
RotateNoFlush(c) == Append(buf[c], Header)

\* rotateMirrorLocked: what the buffer holds once it was flushed, the file
\* truncated and the header replayed.
Rotate(c) == <<Header>>

\* mirrorWriter.Write of packet n's head or body, of size w: past the cap the
\* mirror is rotated first.  A full buffer goes to the file.
Write(c, n, x, w) ==
  LET over == size[c] + w > MirrorCap
      held == IF over THEN Rotate(c) ELSE buf[c]
      kept == IF over THEN <<>> ELSE disk[c]
  IN  /\ size' = [size EXCEPT ![c] = IF over THEN 1 + w ELSE @ + w]
      /\ since' = [since EXCEPT ![c] = IF over THEN n ELSE @]
      /\ split' = [split EXCEPT ![c] = IF over THEN x = RecBody(n) ELSE @]
      /\ \/ buf' = [buf EXCEPT ![c] = Append(held, x)] /\ disk' = [disk EXCEPT ![c] = kept]
         \/ buf' = [buf EXCEPT ![c] = <<x>>] /\ disk' = [disk EXCEPT ![c] = kept \o held]

-----------------------------------------------------------------------------
(* pump, and the goroutine that flushes its batch on a ticker.             *)

Moves(c, from, to) ==
  /\ pump[c] = from
  /\ pump' = [pump EXCEPT ![c] = to]

\* The 24 bytes a pcap begins with, buffered and kept for a rotation.
PumpHeader(c) ==
  /\ Moves(c, "header", "head")
  /\ buf' = [buf EXCEPT ![c] = <<Header>>]
  /\ size' = [size EXCEPT ![c] = 1]
  /\ UNCHANGED <<startVars, child, counter, pageVars, ringVars, disk, shut, since, split, file,
                 stopVars, saveVars>>

\* They are not a pcap's.
PumpNoHeader(c) ==
  /\ Moves(c, "header", "flush")
  /\ active' = [active EXCEPT ![c] = FALSE]
  /\ buf' = [buf EXCEPT ![c] = <<Header>>]
  /\ UNCHANGED <<live, spc, doubled, child, counter, pageVars, ringVars, size, disk, shut, since,
                 split, file, stopVars, saveVars>>

\* The stream ended before them: the child is awaited, and the device asked for what
\* tcpdump had to say ...
PumpNoStream(c) ==
  /\ child[c] = "gone"
  /\ Moves(c, "header", "ask")
  /\ UNCHANGED <<startVars, child, counter, pageVars, ringVars, fileVars, stopVars, saveVars>>

\* ... which it answers, or fails to, when it does.
failWith(c) ==
  /\ Moves(c, "ask", "flush")
  /\ active' = [active EXCEPT ![c] = FALSE]
  /\ UNCHANGED <<live, spc, doubled, child, counter, pageVars, ringVars, fileVars, stopVars, saveVars>>

\* readPcapRecord through the tee: a record's head ...
PumpHead(c) ==
  /\ counter[c] < Packets(c)
  /\ Moves(c, "head", "body")
  /\ Write(c, counter[c] + 1, RecHead(counter[c] + 1), 1)
  /\ UNCHANGED <<startVars, child, counter, pageVars, ringVars, shut, file, stopVars, saveVars>>

\* ... and its body.
PumpBody(c) ==
  /\ Moves(c, "body", "add")
  /\ \E w \in BodySizes : Write(c, counter[c] + 1, RecBody(counter[c] + 1), w)
  /\ UNCHANGED <<startVars, child, counter, pageVars, ringVars, shut, file, stopVars, saveVars>>

\* The read fails: the stream ended ...
PumpEnd(c) ==
  /\ child[c] = "gone"
  /\ Moves(c, "head", "last") \/ Moves(c, "body", "last")
  /\ UNCHANGED <<startVars, child, counter, pageVars, ringVars, fileVars, stopVars, saveVars>>

\* ... or a record is oversized, or the mirror cannot be written.
PumpBroken(c) ==
  /\ Moves(c, "head", "last") \/ Moves(c, "body", "last")
  /\ UNCHANGED <<startVars, child, counter, pageVars, ringVars, fileVars, stopVars, saveVars>>

\* Mutant: the window does not move on.
RingAddStays(c, n) ==
  /\ slots' = [slots EXCEPT ![c][(n - 1) % RingCap] = n]
  /\ count' = [count EXCEPT ![c] = IF @ < RingCap THEN @ + 1 ELSE @]
  /\ UNCHANGED first

\* Mutant: the count grows past the capacity.
RingAddCountsOn(c, n) ==
  /\ slots' = [slots EXCEPT ![c][(n - 1) % RingCap] = n]
  /\ count' = [count EXCEPT ![c] = @ + 1]
  /\ first' = [first EXCEPT ![c] = IF n > RingCap THEN n - RingCap + 1 ELSE @]

\* packetRing.Add.
RingAdd(c, n) ==
  LET moved == IF count[c] < RingCap THEN first[c] ELSE first[c] + 1
  IN  /\ slots' = [slots EXCEPT ![c][(n - 1) % RingCap] = n]
      /\ count' = [count EXCEPT ![c] = IF @ < RingCap THEN @ + 1 ELSE @]
      /\ first' = [first EXCEPT ![c] = IF n >= RingCap /\ moved < n - RingCap + 1
                                         THEN n - RingCap + 1 ELSE moved]

\* packetRing.at: the packet found under number n, 0 when it aged out.
RingAt(c, n) ==
  IF n = 0 \/ n < first[c] \/ n >= first[c] + count[c] THEN 0
  ELSE IF slots[c][(n - 1) % RingCap] = n THEN n ELSE 0

\* To the ring and to the batch, which is detached when it is full.
PumpAdd(c) ==
  LET n == counter[c] + 1
      b == batch[c] \cup {n}
      full == Cardinality(b) >= BatchCap
  IN  /\ Moves(c, "add", IF full THEN "emit" ELSE "head")
      /\ counter' = [counter EXCEPT ![c] = n]
      /\ RingAdd(c, n)
      /\ batch' = [batch EXCEPT ![c] = IF full THEN {} ELSE b]
      /\ pout' = [pout EXCEPT ![c] = IF full THEN b ELSE {}]
      /\ UNCHANGED <<startVars, child, tout, emitted, fileVars, stopVars, saveVars>>

\* Mutant: what has accumulated at the end stays where it is.
PumpLastNot(c) ==
  /\ Moves(c, "last", "lastemit")
  /\ UNCHANGED <<startVars, child, counter, pageVars, ringVars, fileVars, stopVars, saveVars>>

\* After the loop: what has accumulated.
PumpLast(c) ==
  /\ Moves(c, "last", "lastemit")
  /\ pout' = [pout EXCEPT ![c] = batch[c]]
  /\ batch' = [batch EXCEPT ![c] = {}]
  /\ UNCHANGED <<startVars, child, counter, tout, emitted, ringVars, fileVars, stopVars, saveVars>>

\* s.emit, outside the lock.
PumpEmit(c) ==
  /\ Moves(c, "emit", "head") \/ Moves(c, "lastemit", "mark")
  /\ emitted' = [emitted EXCEPT ![c] = @ \cup pout[c]]
  /\ pout' = [pout EXCEPT ![c] = {}]
  /\ UNCHANGED <<startVars, child, counter, batch, tout, ringVars, fileVars, stopVars, saveVars>>

\* markInactive.
MarkInactive(c) ==
  /\ Moves(c, "mark", "flush")
  /\ active' = [active EXCEPT ![c] = FALSE]
  /\ UNCHANGED <<live, spc, doubled, child, counter, pageVars, ringVars, fileVars, stopVars, saveVars>>

\* The deferred flush, then stdout is closed and done too.
PumpDone(c) ==
  /\ Moves(c, "flush", "done")
  /\ Flush(c)
  /\ UNCHANGED <<startVars, child, counter, pageVars, ringVars, size, shut, since, split, file,
                 stopVars, saveVars>>

\* Mutant: the batch is copied and not emptied.
TimerTakeKeeps(c) ==
  /\ pump[c] \notin {"off", "header", "ask", "done"}
  /\ tout[c] = {} /\ batch[c] # {}
  /\ tout' = [tout EXCEPT ![c] = batch[c]]
  /\ UNCHANGED <<startVars, child, pump, counter, batch, pout, emitted, ringVars, fileVars,
                 stopVars, saveVars>>

\* A tick: the timer's goroutine detaches the batch ...
TimerTake(c) ==
  /\ pump[c] \notin {"off", "header", "ask", "done"}
  /\ tout[c] = {} /\ batch[c] # {}
  /\ tout' = [tout EXCEPT ![c] = batch[c]]
  /\ batch' = [batch EXCEPT ![c] = {}]
  /\ UNCHANGED <<startVars, child, pump, counter, pout, emitted, ringVars, fileVars, stopVars, saveVars>>

\* ... and emits it, whatever the pump did meanwhile.
TimerEmit(c) ==
  /\ tout[c] # {}
  /\ emitted' = [emitted EXCEPT ![c] = @ \cup tout[c]]
  /\ tout' = [tout EXCEPT ![c] = {}]
  /\ UNCHANGED <<startVars, child, pump, counter, batch, pout, ringVars, fileVars, stopVars, saveVars>>

-----------------------------------------------------------------------------
(* Stop, and SaveLivePcap.                                                 *)

StopCall ==
  /\ kpc = "off" /\ live # 0
  /\ kpc' = "kill" /\ ktgt' = live
  /\ UNCHANGED <<startVars, child, pump, counter, pageVars, ringVars, fileVars, saveVars>>

\* Mutant: the child is left to end by itself.
StopKillNot ==
  /\ kpc = "kill"
  /\ kpc' = "wait"
  /\ UNCHANGED <<startVars, child, pump, counter, pageVars, ringVars, fileVars, ktgt, saveVars>>

\* Process.Kill; what the pipe holds is still read.
StopKill ==
  /\ kpc = "kill"
  /\ kpc' = "wait"
  /\ child' = [child EXCEPT ![ktgt] = "gone"]
  /\ UNCHANGED <<startVars, pump, counter, pageVars, ringVars, fileVars, ktgt, saveVars>>

\* <-s.done, and the mirror is flushed.
StopReturn ==
  /\ kpc = "wait" /\ pump[ktgt] = "done"
  /\ Flush(ktgt)
  /\ active' = [active EXCEPT ![ktgt] = FALSE]
  /\ kpc' = "off" /\ ktgt' = 0
  /\ UNCHANGED <<live, spc, doubled, child, pump, counter, pageVars, ringVars, size, shut, since,
                 split, file, saveVars>>

\* Status gives the path; seen is what the session had captured by then.
SaveCall ==
  /\ save = NoSave /\ live # 0 /\ saves < MaxSaves
  /\ save' = [step |-> "flush", of |-> live, seen |-> counter[live]]
  /\ saves' = saves + 1
  /\ UNCHANGED <<startVars, child, pump, counter, pageVars, ringVars, fileVars, stopVars>>

\* Mutant: the file is copied as it is.
SaveFlushNot ==
  /\ save.step = "flush"
  /\ save' = [save EXCEPT !.step = "dialog"]
  /\ UNCHANGED <<startVars, child, pump, counter, pageVars, ringVars, fileVars, stopVars, saves>>

\* FlushMirror of the session registered by now, if any.
SaveFlush ==
  /\ save.step = "flush"
  /\ save' = [save EXCEPT !.step = "dialog"]
  /\ IF live = 0 THEN UNCHANGED <<buf, disk>> ELSE Flush(live)
  /\ UNCHANGED <<startVars, child, pump, counter, pageVars, ringVars, size, shut, since, split,
                 file, stopVars, saves>>

\* The user chose a name, or none: what the path holds by now is copied.
SaveCopy ==
  /\ save.step = "dialog"
  /\ save' = NoSave
  /\ UNCHANGED <<startVars, child, pump, counter, pageVars, ringVars, fileVars, stopVars, saves>>

StartStep(c) == StartCheck(c) \/ StartFail(c) \/ OpenMirror(c) \/ SpawnTcpdump(c)

\* The pump's steps that wait for nothing but, to end, the child's end: failWith is not
\* one of them.
PumpStep(c) == PumpEnd(c) \/ PumpAdd(c) \/ PumpLast(c) \/ PumpEmit(c) \/ MarkInactive(c)
               \/ PumpDone(c) \/ PumpNoStream(c)

Next ==
  \/ \E c \in Starts :
       \/ StartStep(c) \/ ChildExit(c)
       \/ PumpHeader(c) \/ PumpNoHeader(c) \/ PumpNoStream(c) \/ failWith(c)
       \/ PumpHead(c) \/ PumpBody(c) \/ PumpEnd(c)
       \/ PumpBroken(c) \/ PumpAdd(c) \/ PumpLast(c) \/ PumpEmit(c) \/ MarkInactive(c)
       \/ PumpDone(c) \/ TimerTake(c) \/ TimerEmit(c)
  \/ StopCall \/ StopKill \/ StopReturn
  \/ SaveCall \/ SaveFlush \/ SaveCopy

Spec == Init /\ [][Next]_vars

\* Goroutines run, ticks come, a killed child ends and its pipe with it.  A device that
\* answers, and packets, are not promised.
Fairness ==
  /\ \A c \in Starts : WF_vars(PumpStep(c)) /\ WF_vars(TimerTake(c)) /\ WF_vars(TimerEmit(c))
  /\ WF_vars(StopKill) /\ WF_vars(StopReturn)

FairSpec == Spec /\ Fairness

-----------------------------------------------------------------------------
(* Properties.                                                             *)

\* Every variable has its type.
TypeOK ==
  /\ {live, file, ktgt, save.of} \subseteq Starts \cup {0} /\ doubled \in BOOLEAN
  /\ spc \in [Starts -> {"idle", "probe", "spawn", "started", "failed"}]
  /\ active \in [Starts -> BOOLEAN]
  /\ child \in [Starts -> {"none", "up", "gone"}]
  /\ pump \in [Starts -> {"off", "header", "ask", "head", "body", "add", "emit", "last", "lastemit",
                          "mark", "flush", "done"}]
  /\ counter \in [Starts -> Nat] /\ \A c \in Starts : counter[c] <= MaxPackets
  /\ {batch, pout, tout, emitted} \subseteq [Starts -> SUBSET (Nat \ {0})]
  /\ {first, size, since} \subseteq [Starts -> Nat] /\ count \in [Starts -> 0 .. RingCap]
  /\ slots \in [Starts -> [0 .. RingCap - 1 -> Nat]]
  /\ {buf, disk} \subseteq [Starts -> Seq({"header", "head", "body"} \X Nat)]
  /\ {shut, split} \subseteq [Starts -> BOOLEAN]
  /\ kpc \in {"off", "kill", "wait"}
  /\ save \in [step : {"none", "flush", "dialog"}, of : Starts \cup {0}, seen : Nat]
  /\ saves \in 0 .. MaxSaves

\* Every packet is in exactly one of: the batch, what the pump is about to send,
\* what the timer is about to send, what was sent.  Two emitters detach the same
\* batch and send it outside the lock.
EachOnce ==
  \A c \in Starts :
    LET parts == <<batch[c], pout[c], tout[c], emitted[c]>>
    IN  /\ UNION {parts[i] : i \in 1 .. 4} = 1 .. counter[c]
        /\ \A i, j \in 1 .. 4 : i # j => parts[i] \cap parts[j] = {}

\* "The stored number is re-checked because the slot is reused": packet n is
\* found exactly while it is among the RingCap last ones.
RingFindsRecent ==
  \A c \in Starts : \A n \in 1 .. MaxPackets + 1 :
    RingAt(c, n) = IF n <= counter[c] /\ counter[c] < n + RingCap THEN n ELSE 0

\* A pcap as far as it goes.
IsPcap(d) ==
  /\ d # <<>> => d[1] = Header
  /\ \A i \in 2 .. Len(d) :
       IF i % 2 = 0 THEN d[i][1] = "head" ELSE d[i] = RecBody(d[i - 1][2])

\* "It stays a valid pcap (just losing the older records)": the mirror does.
MirrorIsPcap == \A c \in Starts : IsPcap(disk[c])

\* It does, but for one that was rotated between a packet's head and its body:
\* nothing that was buffered before a rotation follows the replayed header.
MirrorIsPcapUnlessSplit == \A c \in Starts : split[c] \/ IsPcap(disk[c])

\* Flushing, closing and creating follow each other in the right order: a session
\* that may still write has the path for itself, unless two Starts overlapped.
OneWriter ==
  \A c \in Starts :
    spc[c] \in {"spawn", "started"} /\ pump[c] # "done" /\ ~shut[c] => file = c \/ doubled

\* "A live capture is already running": a tcpdump that is read can be stopped,
\* unless two Starts overlapped.
ReadIsKnown ==
  \A c \in Starts :
    child[c] = "up" /\ pump[c] \in {"header", "head", "body", "add", "emit"} => live = c \/ doubled

\* "Saving without this quietly drops the tail of the capture": what Save copies
\* has every packet captured when it was asked for and not lost to a rotation,
\* unless a new Start discarded the capture meanwhile.
SaveHasSeen ==
  save.step = "dialog" /\ live = save.of /\ ~doubled =>
    \A n \in since[file] .. save.seen : \E i \in DOMAIN disk[file] : disk[file][i] = RecBody(n)

\* A packet is in one place, and a recent one is found by its number.
PacketsAreWhole == TypeOK /\ EachOnce /\ RingFindsRecent

\* The mirror is a pcap unless a rotation came between a head and its body, and one
\* session at a time writes it.
MirrorIsSound == MirrorIsPcapUnlessSplit /\ OneWriter

\* A tcpdump that is read can be stopped, and a saved file has what was captured
\* when the save was asked for.
ReadsAreSound == ReadIsKnown /\ SaveHasSeen

\* A packet that was read is shown in the end, whoever flushes it.
ReadIsShown ==
  \A c \in Starts : \A n \in 1 .. MaxPackets : (n <= counter[c]) ~> (n \in emitted[c])

\* Stop returns, as the kill ends the stream and the end ends the pump: unless the stream
\* never began, and the device does not answer why.
Asking == kpc = "wait" /\ pump[ktgt] = "ask"
StopReturns == kpc # "off" ~> kpc = "off" \/ Asking
=============================================================================
