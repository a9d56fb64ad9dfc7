------------------------- MODULE LiveCaptureProofs -------------------------
(***************************************************************************)
(* The live capture for any number of sessions, ring, batch and mirror     *)
(* sizes: where a packet is, what the mirror holds, who writes it and what *)
(* Save copies.                                                            *)
(***************************************************************************)
EXTENDS LiveCapture, SequenceTheorems, FiniteSetTheorems, TLAPS

-----------------------------------------------------------------------------
(* Types.  A packet is only read while the bound leaves room for it.       *)

RegistryTypes ==
  /\ live \in Starts \cup {0} /\ doubled \in BOOLEAN
  /\ spc \in [Starts -> {"idle", "probe", "spawn", "started", "failed"}]
  /\ active \in [Starts -> BOOLEAN]
  /\ child \in [Starts -> {"none", "up", "gone"}]
  /\ kpc \in {"off", "kill", "wait"} /\ ktgt \in Starts \cup {0}

PumpTypes ==
  /\ pump \in [Starts -> {"off", "header", "head", "body", "add", "emit", "last", "lastemit",
                          "ask", "mark", "flush", "done"}]
  /\ counter \in [Starts -> Nat]
  /\ \A c \in Starts : counter[c] <= MaxPackets
  /\ \A c \in Starts : pump[c] \in {"body", "add"} => counter[c] < MaxPackets

PageTypes ==
  /\ batch \in [Starts -> SUBSET (Nat \ {0})] /\ pout \in [Starts -> SUBSET (Nat \ {0})]
  /\ tout \in [Starts -> SUBSET (Nat \ {0})] /\ emitted \in [Starts -> SUBSET (Nat \ {0})]

RingTypes ==
  /\ first \in [Starts -> Nat] /\ count \in [Starts -> 0 .. RingCap]
  /\ slots \in [Starts -> [0 .. RingCap - 1 -> Nat]]

Item == {"header", "head", "body"} \X Nat

FileTypes ==
  /\ buf \in [Starts -> Seq(Item)] /\ disk \in [Starts -> Seq(Item)]
  /\ size \in [Starts -> Nat] /\ since \in [Starts -> Nat]
  /\ shut \in [Starts -> BOOLEAN] /\ split \in [Starts -> BOOLEAN]
  /\ file \in Starts \cup {0}

SaveTypes ==
  /\ save \in [step : {"none", "flush", "dialog"}, of : Starts \cup {0}, seen : Nat]
  /\ saves \in 0 .. MaxSaves

TypeInv == RegistryTypes /\ PumpTypes /\ PageTypes /\ RingTypes /\ FileTypes /\ SaveTypes

\* The registered session runs and its file is open.  A session has a pump and a
\* child once it started, and is active, with its file open, until the pump ends.
StartInv ==
  /\ live # 0 => spc[live] = "started" /\ ~shut[live]
  /\ \A c \in Starts :
       /\ spc[c] \in {"idle", "probe", "spawn"} => ~shut[c]
       /\ spc[c] = "started" <=> pump[c] # "off"
       /\ child[c] # "none" => spc[c] = "started"
       /\ spc[c] = "started" /\ (shut[c] \/ ~active[c]) => pump[c] \in {"flush", "done"}
  /\ kpc # "off" => ktgt \in Starts /\ spc[ktgt] = "started"

LEMMA Caps == /\ RingCap \in Nat /\ RingCap >= 1 /\ BatchCap \in Nat /\ BatchCap >= 1
              /\ MirrorCap \in Nat /\ MirrorCap >= 1 /\ BodySizes \subseteq Nat
BY CapsAssumption

LEMMA Bounds == /\ MaxPackets \in Nat /\ MaxShared \in Nat /\ MaxSaves \in Nat
                /\ MaxShared <= MaxPackets
BY BoundsAssumption

LEMMA InitTypes == Init => TypeInv
<1> SUFFICES ASSUME Init PROVE TypeInv
  OBVIOUS
<1>1. RegistryTypes
  BY DEF Init, RegistryTypes
<1>2. PumpTypes
  BY Bounds DEF Init, PumpTypes
<1>3. PageTypes
  BY DEF Init, PageTypes
<1>4. RingTypes
  BY Caps DEF Init, RingTypes
<1>5. FileTypes
  BY DEF Init, FileTypes
<1>6. SaveTypes
  BY Bounds DEF Init, SaveTypes, NoSave
<1> QED BY <1>1, <1>2, <1>3, <1>4, <1>5, <1>6 DEF TypeInv

LEMMA RegistryStep == TypeInv /\ [Next]_vars => RegistryTypes'
<1> SUFFICES ASSUME TypeInv, [Next]_vars PROVE RegistryTypes'
  OBVIOUS
<1> USE DEF TypeInv, RegistryTypes
<1>1. CASE UNCHANGED vars
  BY <1>1 DEF vars, startVars, stopVars
<1>2. ASSUME NEW c \in Starts, StartStep(c) PROVE RegistryTypes'
  <2>1. CASE StartCheck(c)
    BY <2>1 DEF StartCheck, Goes, Untouched, stopVars
  <2>2. CASE StartFail(c)
    BY <2>2 DEF StartFail, Goes, Untouched, stopVars
  <2>3. CASE OpenMirror(c)
    BY <2>3 DEF OpenMirror, Goes, Untouched, stopVars
  <2>4. CASE SpawnTcpdump(c)
    BY <2>4 DEF SpawnTcpdump, Goes, stopVars
  <2> QED BY <1>2, <2>1, <2>2, <2>3, <2>4 DEF StartStep
<1>3. ASSUME NEW c \in Starts,
             ChildExit(c) \/ PumpNoHeader(c) \/ PumpNoStream(c) \/ failWith(c) \/ MarkInactive(c)
      PROVE RegistryTypes'
  BY <1>3 DEF ChildExit, PumpNoHeader, PumpNoStream, failWith, MarkInactive, startVars, stopVars
<1>4. ASSUME NEW c \in Starts,
             \/ PumpHeader(c) \/ PumpHead(c) \/ PumpBody(c) \/ PumpEnd(c)
             \/ PumpBroken(c) \/ PumpAdd(c) \/ PumpLast(c) \/ PumpEmit(c)
             \/ PumpDone(c) \/ TimerTake(c) \/ TimerEmit(c)
      PROVE RegistryTypes'
  <2>1. UNCHANGED <<startVars, child, stopVars>>
    BY <1>4 DEF PumpHeader, PumpHead, PumpBody, PumpEnd, PumpBroken, PumpAdd, PumpLast, PumpEmit,
                PumpDone, TimerTake, TimerEmit
  <2> QED BY <2>1 DEF startVars, stopVars
<1>5. CASE StopCall \/ StopKill \/ StopReturn
  BY <1>5 DEF StopCall, StopKill, StopReturn, startVars
<1>6. CASE SaveCall \/ SaveFlush \/ SaveCopy
  BY <1>6 DEF SaveCall, SaveFlush, SaveCopy, startVars, stopVars
<1> QED BY <1>1, <1>2, <1>3, <1>4, <1>5, <1>6 DEF Next

LEMMA PumpStays ==
  ASSUME TypeInv, UNCHANGED <<pump, counter>> PROVE PumpTypes'
BY DEF TypeInv, PumpTypes

LEMMA PumpTypesStep == TypeInv /\ [Next]_vars => PumpTypes'
<1> SUFFICES ASSUME TypeInv, [Next]_vars PROVE PumpTypes'
  OBVIOUS
<1>1. CASE UNCHANGED vars
  BY <1>1, PumpStays DEF vars
<1>2. ASSUME NEW c \in Starts, StartStep(c) PROVE PumpTypes'
  <2>1. CASE SpawnTcpdump(c)
    BY <2>1 DEF SpawnTcpdump, TypeInv, PumpTypes
  <2>2. CASE StartCheck(c) \/ StartFail(c) \/ OpenMirror(c)
    BY <2>2, PumpStays DEF StartCheck, StartFail, OpenMirror, Untouched
  <2> QED BY <1>2, <2>1, <2>2 DEF StartStep
<1>3. ASSUME NEW c \in Starts, ChildExit(c) \/ TimerTake(c) \/ TimerEmit(c) PROVE PumpTypes'
  BY <1>3, PumpStays DEF ChildExit, TimerTake, TimerEmit
<1>4. ASSUME NEW c \in Starts,
             \/ PumpHeader(c) \/ PumpNoHeader(c) \/ PumpNoStream(c) \/ failWith(c) \/ PumpBody(c) \/ PumpEnd(c) \/ PumpBroken(c)
             \/ PumpLast(c) \/ PumpEmit(c) \/ MarkInactive(c) \/ PumpDone(c)
      PROVE PumpTypes'
  BY <1>4 DEF PumpHeader, PumpNoHeader, PumpNoStream, failWith, PumpBody, PumpEnd, PumpBroken, PumpLast, PumpEmit,
              MarkInactive, PumpDone, Moves, TypeInv, PumpTypes
<1>5. ASSUME NEW c \in Starts, PumpHead(c) PROVE PumpTypes'
  <2>1. counter[c] \in Nat /\ counter[c] < MaxPackets
    BY <1>5, Bounds DEF PumpHead, Packets, TypeInv, PumpTypes
  <2> QED BY <1>5, <2>1 DEF PumpHead, Moves, TypeInv, PumpTypes
<1>6. ASSUME NEW c \in Starts, PumpAdd(c) PROVE PumpTypes'
  <2>1. counter[c] \in Nat /\ counter[c] + 1 <= MaxPackets
    BY <1>6, Bounds DEF PumpAdd, Moves, TypeInv, PumpTypes
  <2>2. counter' = [counter EXCEPT ![c] = counter[c] + 1]
    BY <1>6 DEF PumpAdd
  <2>3. PICK t \in {"emit", "head"} : pump' = [pump EXCEPT ![c] = t]
    BY <1>6 DEF PumpAdd, Moves
  <2> QED BY <2>1, <2>2, <2>3, Bounds DEF TypeInv, PumpTypes
<1>7. CASE StopCall \/ StopKill \/ StopReturn \/ SaveCall \/ SaveFlush \/ SaveCopy
  BY <1>7, PumpStays DEF StopCall, StopKill, StopReturn, SaveCall, SaveFlush, SaveCopy
<1> QED BY <1>1, <1>2, <1>3, <1>4, <1>5, <1>6, <1>7 DEF Next, StartStep

LEMMA PageTypesStep == TypeInv /\ [Next]_vars => PageTypes'
<1> SUFFICES ASSUME TypeInv, [Next]_vars PROVE PageTypes'
  OBVIOUS
<1>1. CASE UNCHANGED pageVars
  BY <1>1 DEF pageVars, TypeInv, PageTypes
<1>2. ASSUME NEW c \in Starts, PumpLast(c) \/ PumpEmit(c) \/ TimerTake(c) \/ TimerEmit(c)
      PROVE PageTypes'
  BY <1>2 DEF PumpLast, PumpEmit, TimerTake, TimerEmit, TypeInv, PageTypes
<1>3. ASSUME NEW c \in Starts, PumpAdd(c) PROVE PageTypes'
  <2>1. /\ batch[c] \cup {counter[c] + 1} \subseteq Nat \ {0}
    BY <1>3 DEF TypeInv, PageTypes, PumpTypes
  <2>2. /\ tout' = tout /\ emitted' = emitted
        /\ \E b, p \in SUBSET (Nat \ {0}) :
             batch' = [batch EXCEPT ![c] = b] /\ pout' = [pout EXCEPT ![c] = p]
    BY <1>3, <2>1 DEF PumpAdd
  <2> QED BY <2>2 DEF TypeInv, PageTypes
<1>4. ASSUME NEW c \in Starts,
             \/ StartStep(c) \/ ChildExit(c) \/ PumpHeader(c) \/ PumpNoHeader(c) \/ PumpNoStream(c) \/ failWith(c) \/ PumpHead(c)
             \/ PumpBody(c) \/ PumpEnd(c) \/ PumpBroken(c) \/ MarkInactive(c) \/ PumpDone(c)
      PROVE UNCHANGED pageVars
  BY <1>4 DEF StartStep, StartCheck, StartFail, OpenMirror, SpawnTcpdump, Untouched, ChildExit,
              PumpHeader, PumpNoHeader, PumpNoStream, failWith, PumpHead, PumpBody, PumpEnd, PumpBroken, MarkInactive,
              PumpDone
<1>5. CASE StopCall \/ StopKill \/ StopReturn \/ SaveCall \/ SaveFlush \/ SaveCopy
  BY <1>1, <1>5 DEF StopCall, StopKill, StopReturn, SaveCall, SaveFlush, SaveCopy
<1> QED BY <1>1, <1>2, <1>3, <1>4, <1>5 DEF Next, vars

LEMMA Slot == ASSUME NEW n \in Nat PROVE n % RingCap \in 0 .. RingCap - 1
BY Caps

\* The number of the oldest packet the ring holds once packet n was added.
NextFirst(c, n) ==
  LET moved == IF count[c] < RingCap THEN first[c] ELSE first[c] + 1
  IN  IF n >= RingCap /\ moved < n - RingCap + 1 THEN n - RingCap + 1 ELSE moved

LEMMA RingAddFirst ==
  ASSUME NEW c, NEW n, RingAdd(c, n) PROVE first' = [first EXCEPT ![c] = NextFirst(c, n)]
BY Zenon DEF RingAdd, NextFirst

LEMMA RingTypesStep == TypeInv /\ [Next]_vars => RingTypes'
<1> SUFFICES ASSUME TypeInv, [Next]_vars PROVE RingTypes'
  OBVIOUS
<1>1. CASE UNCHANGED ringVars
  BY <1>1 DEF ringVars, TypeInv, RingTypes
<1>2. ASSUME NEW c \in Starts, PumpAdd(c) PROVE RingTypes'
  <2>1. counter[c] \in Nat /\ (counter[c] + 1) - 1 = counter[c]
    BY DEF TypeInv, PumpTypes
  <2>2. RingAdd(c, counter[c] + 1)
    BY <1>2 DEF PumpAdd
  <2>3. counter[c] % RingCap \in 0 .. RingCap - 1
    BY <2>1, Slot
  <2>4. slots' = [slots EXCEPT ![c][counter[c] % RingCap] = counter[c] + 1]
    BY <2>1, <2>2 DEF RingAdd
  <2>5. slots' \in [Starts -> [0 .. RingCap - 1 -> Nat]]
    BY <2>1, <2>3, <2>4 DEF TypeInv, RingTypes
  <2>6. first[c] \in Nat /\ count[c] \in 0 .. RingCap
    BY DEF TypeInv, RingTypes
  <2>7. count' = [count EXCEPT ![c] = IF count[c] < RingCap THEN count[c] + 1 ELSE count[c]]
    BY <2>2 DEF RingAdd
  <2>8. count' \in [Starts -> 0 .. RingCap]
    BY <2>6, <2>7, Caps DEF TypeInv, RingTypes
  <2>9. first' \in [Starts -> Nat]
    <3>1. first' = [first EXCEPT ![c] = NextFirst(c, counter[c] + 1)]
      BY <2>2, RingAddFirst
    <3>2. counter[c] + 1 >= RingCap => counter[c] + 1 - RingCap + 1 \in Nat
      BY <2>1, Caps
    <3>3. NextFirst(c, counter[c] + 1) \in Nat
      BY <2>1, <2>6, <3>2, Caps DEF NextFirst
    <3> QED BY <3>1, <3>3 DEF TypeInv, RingTypes
  <2> QED BY <2>5, <2>8, <2>9 DEF RingTypes
<1>3. ASSUME NEW c \in Starts,
             \/ StartStep(c) \/ ChildExit(c) \/ PumpHeader(c) \/ PumpNoHeader(c) \/ PumpNoStream(c) \/ failWith(c) \/ PumpHead(c)
             \/ PumpBody(c) \/ PumpEnd(c) \/ PumpBroken(c) \/ MarkInactive(c) \/ PumpDone(c)
             \/ PumpLast(c) \/ PumpEmit(c) \/ TimerTake(c) \/ TimerEmit(c)
      PROVE UNCHANGED ringVars
  BY <1>3 DEF StartStep, StartCheck, StartFail, OpenMirror, SpawnTcpdump, Untouched, ChildExit,
              PumpHeader, PumpNoHeader, PumpNoStream, failWith, PumpHead, PumpBody, PumpEnd, PumpBroken, MarkInactive,
              PumpDone, PumpLast, PumpEmit, TimerTake, TimerEmit
<1>4. CASE StopCall \/ StopKill \/ StopReturn \/ SaveCall \/ SaveFlush \/ SaveCopy
  BY <1>1, <1>4 DEF StopCall, StopKill, StopReturn, SaveCall, SaveFlush, SaveCopy
<1> QED BY <1>1, <1>2, <1>3, <1>4 DEF Next, vars

LEMMA SaveTypesStep == TypeInv /\ [Next]_vars => SaveTypes'
<1> SUFFICES ASSUME TypeInv, [Next]_vars PROVE SaveTypes'
  OBVIOUS
<1>1. CASE UNCHANGED saveVars
  BY <1>1 DEF saveVars, TypeInv, SaveTypes
<1>2. CASE SaveCall
  <2>1. live \in Starts /\ counter[live] \in Nat
    BY <1>2 DEF SaveCall, TypeInv, RegistryTypes, PumpTypes
  <2> QED BY <1>2, <2>1, Bounds DEF SaveCall, TypeInv, SaveTypes
<1>3. CASE SaveFlush \/ SaveCopy
  BY <1>3 DEF SaveFlush, SaveCopy, NoSave, TypeInv, SaveTypes
<1>4. ASSUME NEW c \in Starts,
             \/ StartStep(c) \/ ChildExit(c) \/ PumpHeader(c) \/ PumpNoHeader(c) \/ PumpNoStream(c) \/ failWith(c) \/ PumpHead(c)
             \/ PumpBody(c) \/ PumpEnd(c) \/ PumpBroken(c) \/ MarkInactive(c) \/ PumpDone(c)
             \/ PumpLast(c) \/ PumpEmit(c) \/ TimerTake(c) \/ TimerEmit(c) \/ PumpAdd(c)
      PROVE UNCHANGED saveVars
  BY <1>4 DEF StartStep, StartCheck, StartFail, OpenMirror, SpawnTcpdump, Untouched, ChildExit,
              PumpHeader, PumpNoHeader, PumpNoStream, failWith, PumpHead, PumpBody, PumpEnd, PumpBroken, MarkInactive,
              PumpDone, PumpLast, PumpEmit, TimerTake, TimerEmit, PumpAdd
<1>5. CASE StopCall \/ StopKill \/ StopReturn
  BY <1>1, <1>5 DEF StopCall, StopKill, StopReturn
<1> QED BY <1>1, <1>2, <1>3, <1>4, <1>5 DEF Next, vars

-----------------------------------------------------------------------------
(* What a session wrote since the mirror was last truncated is what its    *)
(* file holds and what is still buffered.                                  *)

Stream(c) == disk[c] \o buf[c]

Over(c, w) == size[c] + w > MirrorCap

\* What a write adds its item to.
Held(c, w) == IF Over(c, w) THEN <<Header>> ELSE buf[c]
Kept(c, w) == IF Over(c, w) THEN <<>> ELSE disk[c]

LEMMA Items ==
  /\ Header \in Item
  /\ \A n \in Nat : RecHead(n) \in Item /\ RecBody(n) \in Item
  /\ \A m, n \in Nat : RecHead(m) # RecBody(n)
BY DEF Header, Item, RecHead, RecBody

\* A write concerns its own session only.
Wrote(c, x, w) ==
  \/ /\ buf' = [buf EXCEPT ![c] = Append(Held(c, w), x)]
     /\ disk' = [disk EXCEPT ![c] = Kept(c, w)]
  \/ /\ buf' = [buf EXCEPT ![c] = <<x>>]
     /\ disk' = [disk EXCEPT ![c] = Kept(c, w) \o Held(c, w)]

Noted(c, n, x, w) ==
  /\ size' = [size EXCEPT ![c] = IF Over(c, w) THEN 1 + w ELSE size[c] + w]
  /\ since' = [since EXCEPT ![c] = IF Over(c, w) THEN n ELSE since[c]]
  /\ split' = [split EXCEPT ![c] = IF Over(c, w) THEN x = RecBody(n) ELSE split[c]]

LEMMA WriteShape ==
  ASSUME NEW c, NEW n, NEW x, NEW w, Write(c, n, x, w)
  PROVE  Wrote(c, x, w) /\ Noted(c, n, x, w)
BY Zenon DEF Write, Over, Held, Kept, Rotate, Wrote, Noted

LEMMA WriteTypes ==
  ASSUME NEW c \in Starts, NEW n \in Nat, NEW x \in Item, NEW w \in Nat, FileTypes,
         Write(c, n, x, w), UNCHANGED <<shut, file>>
  PROVE  FileTypes'
<1>1. Held(c, w) \in Seq(Item) /\ Kept(c, w) \in Seq(Item)
  BY Items DEF Held, Kept, FileTypes
<1>2. buf' \in [Starts -> Seq(Item)] /\ disk' \in [Starts -> Seq(Item)]
  <2>1. /\ Append(Held(c, w), x) \in Seq(Item) /\ <<x>> \in Seq(Item)
        /\ Kept(c, w) \o Held(c, w) \in Seq(Item)
    BY <1>1
  <2>2. Wrote(c, x, w)
    BY WriteShape
  <2> QED BY <1>1, <2>1, <2>2, ZenonT(40) DEF Wrote, FileTypes
<1>3. size' \in [Starts -> Nat] /\ since' \in [Starts -> Nat]
  <2>1. Noted(c, n, x, w)
    BY WriteShape
  <2>2. 1 + w \in Nat /\ size[c] + w \in Nat /\ since[c] \in Nat
    BY DEF FileTypes
  <2> QED BY <2>1, <2>2 DEF Noted, FileTypes
<1>4. split' \in [Starts -> BOOLEAN]
  <2>1. (IF Over(c, w) THEN x = RecBody(n) ELSE split[c]) \in BOOLEAN
    BY DEF FileTypes
  <2>2. PICK s \in BOOLEAN : split' = [split EXCEPT ![c] = s]
    BY <2>1, WriteShape, Zenon DEF Noted
  <2> QED BY <2>2 DEF FileTypes
<1> QED BY <1>2, <1>3, <1>4 DEF FileTypes

\* What is written ends the session's stream, or begins it after the header.
LEMMA WriteStream ==
  ASSUME NEW c \in Starts, NEW n \in Nat, NEW x \in Item, NEW w \in Nat, FileTypes,
         Write(c, n, x, w)
  PROVE  /\ Stream(c)' = Append(IF Over(c, w) THEN <<Header>> ELSE Stream(c), x)
         /\ \A d \in Starts \ {c} :
              disk'[d] = disk[d] /\ buf'[d] = buf[d] /\ since'[d] = since[d] /\ split'[d] = split[d]
         /\ since'[c] = IF Over(c, w) THEN n ELSE since[c]
         /\ split'[c] <=> IF Over(c, w) THEN x = RecBody(n) ELSE split[c]
<1>1. Held(c, w) \in Seq(Item) /\ Kept(c, w) \in Seq(Item)
  BY Items DEF Held, Kept, FileTypes
<1>0. Wrote(c, x, w) /\ Noted(c, n, x, w)
  BY WriteShape
<1>2. Kept(c, w) \o Held(c, w) = IF Over(c, w) THEN <<Header>> ELSE Stream(c)
  <2>1. <<>> \o <<Header>> = <<Header>>
    BY Items
  <2> QED BY <2>1 DEF Held, Kept, Stream
<1>3. disk'[c] \o buf'[c] = Append(Kept(c, w) \o Held(c, w), x)
  <2>1. CASE /\ buf' = [buf EXCEPT ![c] = Append(Held(c, w), x)]
             /\ disk' = [disk EXCEPT ![c] = Kept(c, w)]
    <3>1. buf'[c] = Append(Held(c, w), x) /\ disk'[c] = Kept(c, w)
      BY <2>1 DEF FileTypes
    <3> QED BY <1>1, <3>1
  <2>2. CASE /\ buf' = [buf EXCEPT ![c] = <<x>>]
             /\ disk' = [disk EXCEPT ![c] = Kept(c, w) \o Held(c, w)]
    <3>1. buf'[c] = <<x>> /\ disk'[c] = Kept(c, w) \o Held(c, w)
      BY <2>2 DEF FileTypes
    <3> QED BY <1>1, <3>1
  <2> QED BY <1>0, <2>1, <2>2 DEF Wrote
<1>4. \A d \in Starts \ {c} :
        disk'[d] = disk[d] /\ buf'[d] = buf[d] /\ since'[d] = since[d] /\ split'[d] = split[d]
  BY <1>0 DEF Wrote, Noted, FileTypes
<1>5. since'[c] = IF Over(c, w) THEN n ELSE since[c]
  BY <1>0 DEF Noted, FileTypes
<1>6. split'[c] <=> IF Over(c, w) THEN x = RecBody(n) ELSE split[c]
  BY <1>0, Zenon DEF Noted, FileTypes
<1> QED BY <1>2, <1>3, <1>4, <1>5, <1>6 DEF Stream

\* A flush empties the buffer into the file, or nowhere once that was closed.
LEMMA FlushTypes ==
  ASSUME NEW c \in Starts, FileTypes, Flush(c), UNCHANGED <<size, since, shut, split, file>>
  PROVE  FileTypes'
<1>1. <<>> \in Seq(Item) /\ disk[c] \o buf[c] \in Seq(Item) /\ disk[c] \in Seq(Item)
  BY DEF FileTypes
<1>2. disk' \in [Starts -> Seq(Item)]
  BY <1>1 DEF FileTypes, Flush
<1>3. buf' \in [Starts -> Seq(Item)]
  BY <1>1 DEF FileTypes, Flush
<1> QED BY <1>2, <1>3 DEF FileTypes

LEMMA FlushStream ==
  ASSUME NEW c \in Starts, FileTypes, Flush(c)
  PROVE  /\ Stream(c)' = IF shut[c] THEN disk[c] ELSE Stream(c)
         /\ disk'[c] = IF shut[c] THEN disk[c] ELSE Stream(c)
         /\ \A d \in Starts \ {c} : disk'[d] = disk[d] /\ buf'[d] = buf[d]
<1>1. disk'[c] \in Seq(Item) /\ disk'[c] = IF shut[c] THEN disk[c] ELSE Stream(c)
  <2>1. disk[c] \in Seq(Item) /\ Stream(c) \in Seq(Item)
    BY DEF FileTypes, Stream
  <2>2. disk'[c] = IF shut[c] THEN disk[c] ELSE Stream(c)
    BY DEF Flush, FileTypes, Stream
  <2> QED BY <2>1, <2>2
<1>2. buf'[c] = <<>> /\ \A d \in Starts \ {c} : disk'[d] = disk[d] /\ buf'[d] = buf[d]
  BY DEF Flush, FileTypes
<1> QED BY <1>1, <1>2 DEF Stream

LEMMA FileStays ==
  ASSUME FileTypes, UNCHANGED fileVars PROVE FileTypes'
BY DEF FileTypes, fileVars

LEMMA FileTypesStep == TypeInv /\ StartInv /\ [Next]_vars => FileTypes'
<1> SUFFICES ASSUME TypeInv, StartInv, [Next]_vars PROVE FileTypes'
  OBVIOUS
<1>0. FileTypes
  BY DEF TypeInv
<1>1. CASE UNCHANGED vars
  BY <1>0, <1>1, FileStays DEF vars
<1>2. ASSUME NEW c \in Starts, StartStep(c) PROVE FileTypes'
  <2>1. CASE StartCheck(c)
    <3>1. /\ shut' = [d \in Starts |-> shut[d] \/ d = live]
          /\ UNCHANGED <<buf, size, disk, since, split, file>>
      BY <2>1 DEF StartCheck, NotTheFile
    <3>2. shut' \in [Starts -> BOOLEAN]
      BY <3>1
    <3> QED BY <1>0, <3>1, <3>2 DEF FileTypes
  <2>2. CASE StartFail(c)
    <3>1. /\ shut' = [shut EXCEPT ![c] = shut[c] \/ spc[c] = "spawn"]
          /\ UNCHANGED <<buf, size, disk, since, split, file>>
      BY <2>2 DEF StartFail, NotTheFile
    <3>2. (shut[c] \/ spc[c] = "spawn") \in BOOLEAN
      OBVIOUS
    <3>3. shut' \in [Starts -> BOOLEAN]
      BY <1>0, <3>1, <3>2, Zenon DEF FileTypes
    <3> QED BY <1>0, <3>1, <3>3 DEF FileTypes
  <2>3. CASE OpenMirror(c)
    BY <1>0, <2>3 DEF OpenMirror, FileTypes
  <2>4. CASE SpawnTcpdump(c)
    BY <1>0, <2>4, FileStays DEF SpawnTcpdump
  <2> QED BY <1>2, <2>1, <2>2, <2>3, <2>4 DEF StartStep
<1>3. ASSUME NEW c \in Starts, PumpHeader(c) PROVE FileTypes'
  <2>1. <<Header>> \in Seq(Item)
    BY Items
  <2> QED BY <1>0, <1>3, <2>1 DEF PumpHeader, FileTypes
<1>4. ASSUME NEW c \in Starts, PumpNoHeader(c) \/ PumpNoStream(c) \/ failWith(c) PROVE FileTypes'
  <2>1. <<Header>> \in Seq(Item)
    BY Items
  <2> QED BY <1>0, <1>4, <2>1 DEF PumpNoHeader, PumpNoStream, failWith, fileVars, FileTypes
<1>5. ASSUME NEW c \in Starts, PumpHead(c) PROVE FileTypes'
  <2>1. counter[c] + 1 \in Nat /\ RecHead(counter[c] + 1) \in Item
    BY Items DEF TypeInv, PumpTypes
  <2>2. Write(c, counter[c] + 1, RecHead(counter[c] + 1), 1) /\ UNCHANGED <<shut, file>>
    BY <1>5 DEF PumpHead
  <2> QED BY <1>0, <2>1, <2>2, WriteTypes
<1>6. ASSUME NEW c \in Starts, PumpBody(c) PROVE FileTypes'
  <2>1. counter[c] + 1 \in Nat /\ RecBody(counter[c] + 1) \in Item
    BY Items DEF TypeInv, PumpTypes
  <2>2. PICK w \in BodySizes : Write(c, counter[c] + 1, RecBody(counter[c] + 1), w)
    BY <1>6 DEF PumpBody
  <2>3. w \in Nat /\ UNCHANGED <<shut, file>>
    BY <1>6, Caps DEF PumpBody
  <2> QED BY <1>0, <2>1, <2>2, <2>3, WriteTypes
<1>7. ASSUME NEW c \in Starts, PumpDone(c) PROVE FileTypes'
  BY <1>0, <1>7, FlushTypes DEF PumpDone
<1>8. CASE StopReturn
  <2>1. ktgt \in Starts
    BY <1>8 DEF StopReturn, StartInv
  <2> QED BY <1>0, <1>8, <2>1, FlushTypes DEF StopReturn
<1>9. CASE SaveFlush
  <2>1. CASE live = 0
    BY <1>0, <1>9, <2>1 DEF SaveFlush, FileTypes
  <2>2. CASE live # 0
    <3>1. live \in Starts
      BY <2>2 DEF TypeInv, RegistryTypes
    <3> QED BY <1>0, <1>9, <2>2, <3>1, FlushTypes DEF SaveFlush
  <2> QED BY <2>1, <2>2
<1>10. ASSUME NEW c \in Starts,
              \/ ChildExit(c) \/ PumpEnd(c) \/ PumpBroken(c) \/ MarkInactive(c) \/ PumpAdd(c)
              \/ PumpLast(c) \/ PumpEmit(c) \/ TimerTake(c) \/ TimerEmit(c)
       PROVE FileTypes'
  BY <1>0, <1>10, FileStays DEF ChildExit, PumpEnd, PumpBroken, MarkInactive, PumpAdd, PumpLast,
                               PumpEmit, TimerTake, TimerEmit
<1>11. CASE StopCall \/ StopKill \/ SaveCall \/ SaveCopy
  BY <1>0, <1>11, FileStays DEF StopCall, StopKill, SaveCall, SaveCopy
<1> QED BY <1>1, <1>2, <1>3, <1>4, <1>5, <1>6, <1>7, <1>8, <1>9, <1>10, <1>11 DEF Next

LEMMA TypeStep == TypeInv /\ StartInv /\ [Next]_vars => TypeInv'
BY RegistryStep, PumpTypesStep, PageTypesStep, RingTypesStep, FileTypesStep, SaveTypesStep
   DEF TypeInv

-----------------------------------------------------------------------------
(* The registry, and who may write the file.                               *)

LEMMA StartInit == Init => StartInv
<1> SUFFICES ASSUME Init PROVE StartInv
  OBVIOUS
<1> QED BY DEF Init, StartInv

\* What StartInv speaks of.
startedVars == <<live, spc, active, child, pump, shut, kpc, ktgt>>

LEMMA StartStays ==
  ASSUME StartInv, UNCHANGED startedVars PROVE StartInv'
BY DEF StartInv, startedVars

LEMMA StartInvStep == TypeInv /\ StartInv /\ [Next]_vars => StartInv'
<1> SUFFICES ASSUME TypeInv, StartInv, [Next]_vars PROVE StartInv'
  OBVIOUS
<1> USE DEF TypeInv, RegistryTypes
<1>0. pump \in [Starts -> {"off", "header", "head", "body", "add", "emit", "last", "lastemit",
                           "ask", "mark", "flush", "done"}] /\ shut \in [Starts -> BOOLEAN]
  BY DEF PumpTypes, FileTypes
<1>1. CASE UNCHANGED vars
  BY <1>1, StartStays DEF vars, startVars, fileVars, stopVars, startedVars
<1>2. ASSUME NEW c \in Starts, StartStep(c) PROVE StartInv'
  <2>1. CASE StartCheck(c)
    <3>1. \A d \in Starts : shut'[d] <=> shut[d] \/ d = live
      BY <2>1, Zenon DEF StartCheck
    <3>2. /\ spc[c] = "idle" /\ spc' = [spc EXCEPT ![c] = "probe"] /\ live' = 0
          /\ live # 0 => ~active[live]
          /\ UNCHANGED <<active, child, pump, kpc, ktgt>>
      BY <2>1 DEF StartCheck, Goes, Untouched, stopVars
    <3> QED BY <1>0, <3>1, <3>2, StartsAssumption DEF StartInv
  <2>2. CASE StartFail(c)
    <3>1. shut'[c] <=> shut[c] \/ spc[c] = "spawn"
      BY <1>0, <2>2, Zenon DEF StartFail
    <3>2. \A d \in Starts \ {c} : shut'[d] = shut[d]
      BY <1>0, <2>2, Zenon DEF StartFail
    <3>3. spc[c] # "started" /\ spc' = [spc EXCEPT ![c] = "failed"]
      BY <2>2 DEF StartFail, Goes
    <3>4. UNCHANGED <<live, active, child, pump, kpc, ktgt>>
      BY <2>2 DEF StartFail, Untouched, stopVars
    <3> QED BY <1>0, <3>1, <3>2, <3>3, <3>4 DEF StartInv
  <2>3. CASE OpenMirror(c)
    BY <1>0, <2>3 DEF OpenMirror, Goes, Untouched, stopVars, StartInv
  <2>4. CASE SpawnTcpdump(c)
    BY <1>0, <2>4 DEF SpawnTcpdump, Goes, stopVars, fileVars, StartInv
  <2> QED BY <1>2, <2>1, <2>2, <2>3, <2>4 DEF StartStep
<1>3. ASSUME NEW c \in Starts, ChildExit(c) PROVE StartInv'
  BY <1>0, <1>3 DEF ChildExit, startVars, stopVars, fileVars, StartInv
<1>4. ASSUME NEW c \in Starts,
             \/ PumpHeader(c) \/ PumpHead(c) \/ PumpBody(c) \/ PumpEnd(c) \/ PumpBroken(c)
             \/ PumpAdd(c) \/ PumpLast(c) \/ PumpEmit(c)
      PROVE StartInv'
  <2>1. /\ pump[c] \in {"header", "head", "body", "add", "emit", "last", "lastemit"}
        /\ \E t \in {"head", "body", "add", "emit", "last", "lastemit", "mark"} :
             pump' = [pump EXCEPT ![c] = t]
        /\ UNCHANGED <<live, spc, active, child, shut, kpc, ktgt>>
    BY <1>4 DEF PumpHeader, PumpHead, PumpBody, PumpEnd, PumpBroken, PumpAdd, PumpLast, PumpEmit,
                Moves, startVars, fileVars, stopVars
  <2> QED BY <1>0, <2>1 DEF StartInv
<1>5. ASSUME NEW c \in Starts, PumpNoHeader(c) \/ PumpNoStream(c) \/ failWith(c) \/ MarkInactive(c) \/ PumpDone(c) PROVE StartInv'
  <2>1. /\ pump[c] \in {"header", "ask", "mark", "flush"}
        /\ \E t \in {"ask", "flush", "done"} : pump' = [pump EXCEPT ![c] = t]
        /\ pump'[c] = "ask" => active' = active /\ pump[c] = "header"
        /\ \A d \in Starts \ {c} : active'[d] = active[d]
        /\ UNCHANGED <<live, spc, child, shut, kpc, ktgt>>
    BY <1>0, <1>5 DEF PumpNoHeader, PumpNoStream, failWith, MarkInactive, PumpDone, Moves, startVars, fileVars, stopVars
  <2> QED BY <1>0, <2>1 DEF StartInv
<1>6. ASSUME NEW c \in Starts, TimerTake(c) \/ TimerEmit(c) PROVE StartInv'
  BY <1>6, StartStays DEF TimerTake, TimerEmit, startVars, fileVars, stopVars, startedVars
<1>7. CASE StopCall \/ StopKill \/ StopReturn
  BY <1>0, <1>7 DEF StopCall, StopKill, StopReturn, startVars, fileVars, StartInv
<1>8. CASE SaveCall \/ SaveFlush \/ SaveCopy
  BY <1>8, StartStays DEF SaveCall, SaveFlush, SaveCopy, startVars, fileVars, stopVars, startedVars
<1> QED BY <1>1, <1>2, <1>3, <1>4, <1>5, <1>6, <1>7, <1>8 DEF Next

\* While no two Starts overlapped: one is under way at a time, and registers none
\* meanwhile; a session that is not the registered one was shut; a file that may
\* still be written is the one its session created.
OverlapInv ==
  doubled \/
    /\ \A c, d \in Starts : {spc[c], spc[d]} \subseteq {"probe", "spawn"} => c = d
    /\ \A c \in Starts : spc[c] \in {"probe", "spawn"} => live = 0
    /\ \A c \in Starts : spc[c] = "started" /\ live # c => shut[c]
    /\ \A c \in Starts : spc[c] \in {"spawn", "started"} /\ ~shut[c] => file = c

LEMMA OverlapInit == Init => OverlapInv
BY DEF Init, OverlapInv

LEMMA OverlapStep == TypeInv /\ StartInv /\ OverlapInv /\ [Next]_vars => OverlapInv'
<1> SUFFICES ASSUME TypeInv, StartInv, OverlapInv, [Next]_vars PROVE OverlapInv'
  OBVIOUS
<1>0. /\ spc \in [Starts -> {"idle", "probe", "spawn", "started", "failed"}]
      /\ shut \in [Starts -> BOOLEAN] /\ live \in Starts \cup {0} /\ doubled \in BOOLEAN
  BY DEF TypeInv, RegistryTypes, FileTypes
<1>1. ASSUME UNCHANGED <<live, spc, doubled, shut, file>> PROVE OverlapInv'
  BY <1>1 DEF OverlapInv
<1>2. CASE UNCHANGED vars
  BY <1>1, <1>2 DEF vars, startVars, fileVars
<1>3. ASSUME NEW c \in Starts, StartStep(c) PROVE OverlapInv'
  <2> SUFFICES ASSUME ~doubled' PROVE OverlapInv'
    BY DEF OverlapInv
  <2>1. CASE StartCheck(c)
    <3>1. \A d \in Starts : shut'[d] <=> shut[d] \/ d = live
      BY <2>1, Zenon DEF StartCheck
    <3>2. ~doubled /\ ~Overlap(c)
      BY <2>1, Zenon DEF StartCheck
    <3>3. \A d \in Starts \ {c} : spc[d] \notin {"probe", "spawn"}
      BY <3>2 DEF Overlap
    <3>4. /\ spc' = [spc EXCEPT ![c] = "probe"] /\ live' = 0 /\ file' = file
      BY <2>1 DEF StartCheck, Goes, NotTheFile
    <3> QED BY <1>0, <3>1, <3>2, <3>3, <3>4 DEF OverlapInv
  <2>2. CASE StartFail(c)
    <3>1. \A d \in Starts \ {c} : shut'[d] = shut[d]
      BY <1>0, <2>2, Zenon DEF StartFail
    <3>2. /\ spc' = [spc EXCEPT ![c] = "failed"] /\ UNCHANGED <<live, doubled, file>>
      BY <2>2 DEF StartFail, Goes, NotTheFile
    <3> QED BY <1>0, <3>1, <3>2 DEF OverlapInv
  <2>3. CASE OpenMirror(c)
    BY <1>0, <2>3, StartsAssumption DEF OpenMirror, Goes, OverlapInv
  <2>4. CASE SpawnTcpdump(c)
    <3>1. /\ spc[c] = "spawn" /\ spc' = [spc EXCEPT ![c] = "started"] /\ live' = c
          /\ UNCHANGED <<doubled, shut, file>>
      BY <2>4 DEF SpawnTcpdump, Goes, fileVars
    <3> QED BY <1>0, <3>1, StartsAssumption DEF OverlapInv
  <2> QED BY <1>3, <2>1, <2>2, <2>3, <2>4 DEF StartStep
<1>4. ASSUME NEW c \in Starts,
             \/ PumpHeader(c) \/ PumpHead(c) \/ PumpBody(c) \/ PumpEnd(c) \/ PumpBroken(c)
             \/ PumpAdd(c) \/ PumpLast(c) \/ PumpEmit(c) \/ PumpNoHeader(c) \/ PumpNoStream(c) \/ failWith(c) \/ MarkInactive(c)
             \/ PumpDone(c) \/ ChildExit(c) \/ TimerTake(c) \/ TimerEmit(c)
      PROVE OverlapInv'
  BY <1>1, <1>4 DEF PumpHeader, PumpHead, PumpBody, PumpEnd, PumpBroken, PumpAdd, PumpLast,
       PumpEmit, PumpNoHeader, PumpNoStream, failWith, MarkInactive, PumpDone, ChildExit, TimerTake, TimerEmit, startVars,
       fileVars
<1>5. CASE StopCall \/ StopKill \/ StopReturn \/ SaveCall \/ SaveFlush \/ SaveCopy
  BY <1>1, <1>5 DEF StopCall, StopKill, StopReturn, SaveCall, SaveFlush, SaveCopy, startVars,
       fileVars
<1> QED BY <1>2, <1>3, <1>4, <1>5 DEF Next

LEMMA WriterIsKnown == TypeInv /\ StartInv /\ OverlapInv => OneWriter /\ ReadIsKnown
<1> SUFFICES ASSUME TypeInv, StartInv, OverlapInv PROVE OneWriter /\ ReadIsKnown
  OBVIOUS
<1>1. OneWriter
  BY DEF OneWriter, OverlapInv
<1>2. ReadIsKnown
  BY DEF ReadIsKnown, OverlapInv, StartInv
<1> QED BY <1>1, <1>2

-----------------------------------------------------------------------------
(* The batch: every packet is in one place.                                *)

OnePlace(c) ==
  /\ batch[c] \cup pout[c] \cup tout[c] \cup emitted[c] = 1 .. counter[c]
  /\ batch[c] \cap pout[c] = {} /\ batch[c] \cap tout[c] = {} /\ batch[c] \cap emitted[c] = {}
  /\ pout[c] \cap tout[c] = {} /\ pout[c] \cap emitted[c] = {} /\ tout[c] \cap emitted[c] = {}
  /\ pump[c] \notin {"emit", "lastemit"} => pout[c] = {}

PlaceInv == \A c \in Starts : OnePlace(c)

LEMMA PlaceInit == Init => PlaceInv
<1> SUFFICES ASSUME Init, NEW c \in Starts PROVE OnePlace(c)
  BY DEF PlaceInv
<1> QED BY DEF Init, OnePlace

LEMMA PlaceStep == TypeInv /\ StartInv /\ PlaceInv /\ [Next]_vars => PlaceInv'
<1> SUFFICES ASSUME TypeInv, StartInv, PlaceInv, [Next]_vars, NEW d \in Starts PROVE OnePlace(d)'
  BY DEF PlaceInv
<1>0. /\ OnePlace(d) /\ PageTypes /\ PumpTypes
  BY DEF PlaceInv, TypeInv
<1>1. CASE UNCHANGED <<counter, pageVars>> /\ pump'[d] = pump[d]
  BY <1>0, <1>1 DEF pageVars, OnePlace
<1>2. CASE UNCHANGED vars
  BY <1>1, <1>2 DEF vars
<1>3. ASSUME NEW c \in Starts, StartStep(c) PROVE OnePlace(d)'
  <2>1. /\ UNCHANGED <<counter, pageVars>>
        /\ pump' = pump \/ (spc[c] = "spawn" /\ pump' = [pump EXCEPT ![c] = "header"])
    BY <1>3 DEF StartStep, StartCheck, StartFail, OpenMirror, SpawnTcpdump, Goes, Untouched
  <2>2. spc[c] = "spawn" => pump[c] = "off"
    BY DEF StartInv
  <2> QED BY <1>0, <2>1, <2>2 DEF pageVars, OnePlace, PumpTypes
<1>4. ASSUME NEW c \in Starts,
             \/ PumpHeader(c) \/ PumpNoHeader(c) \/ PumpNoStream(c) \/ failWith(c) \/ PumpHead(c) \/ PumpBody(c) \/ PumpEnd(c)
             \/ PumpBroken(c) \/ MarkInactive(c) \/ PumpDone(c)
      PROVE OnePlace(d)'
  <2>1. /\ UNCHANGED <<counter, pageVars>> /\ pump[c] \notin {"emit", "lastemit"}
        /\ \E t \in {"ask", "flush", "head", "body", "add", "last", "done"} : pump' = [pump EXCEPT ![c] = t]
    BY <1>4 DEF PumpHeader, PumpNoHeader, PumpNoStream, failWith, PumpHead, PumpBody, PumpEnd, PumpBroken, MarkInactive,
                PumpDone, Moves
  <2> QED BY <1>0, <2>1 DEF pageVars, OnePlace, PumpTypes
<1>5. ASSUME NEW c \in Starts, PumpAdd(c) PROVE OnePlace(d)'
  <2>1. CASE c = d
    <3>1. counter[d] \in Nat /\ counter'[d] = counter[d] + 1 /\ tout'[d] = tout[d]
          /\ emitted'[d] = emitted[d] /\ pump[d] = "add"
      BY <1>0, <1>5, <2>1 DEF PumpAdd, Moves, PumpTypes
    <3>2. pout[d] = {} /\ 1 .. counter'[d] = (1 .. counter[d]) \cup {counter[d] + 1}
      BY <1>0, <3>1 DEF OnePlace
    <3>3. counter[d] + 1 \notin batch[d] \cup tout[d] \cup emitted[d]
      BY <1>0, <3>1 DEF OnePlace
    <3>4. \/ /\ batch'[d] = {} /\ pout'[d] = batch[d] \cup {counter[d] + 1} /\ pump'[d] = "emit"
          \/ /\ batch'[d] = batch[d] \cup {counter[d] + 1} /\ pout'[d] = {}
      BY <1>0, <1>5, <2>1 DEF PumpAdd, Moves, PageTypes, PumpTypes
    <3> QED BY <1>0, <3>1, <3>2, <3>3, <3>4 DEF OnePlace
  <2>2. CASE c # d
    <3>1. UNCHANGED <<counter[d], pump[d], batch[d], pout[d], tout[d], emitted[d]>>
      BY <1>0, <1>5, <2>2 DEF PumpAdd, Moves, PageTypes, PumpTypes
    <3> QED BY <1>0, <3>1 DEF OnePlace
  <2> QED BY <2>1, <2>2
<1>6. ASSUME NEW c \in Starts, PumpLast(c) PROVE OnePlace(d)'
  BY <1>0, <1>6 DEF PumpLast, Moves, OnePlace, PageTypes, PumpTypes
<1>7. ASSUME NEW c \in Starts, PumpEmit(c) PROVE OnePlace(d)'
  BY <1>0, <1>7 DEF PumpEmit, Moves, OnePlace, PageTypes, PumpTypes
<1>8. ASSUME NEW c \in Starts, TimerTake(c) PROVE OnePlace(d)'
  BY <1>0, <1>8 DEF TimerTake, OnePlace, PageTypes, PumpTypes
<1>9. ASSUME NEW c \in Starts, TimerEmit(c) PROVE OnePlace(d)'
  BY <1>0, <1>9 DEF TimerEmit, OnePlace, PageTypes, PumpTypes
<1>10. ASSUME NEW c \in Starts, ChildExit(c) PROVE OnePlace(d)'
  BY <1>1, <1>10 DEF ChildExit
<1>11. CASE StopCall \/ StopKill \/ StopReturn \/ SaveCall \/ SaveFlush \/ SaveCopy
  BY <1>1, <1>11 DEF StopCall, StopKill, StopReturn, SaveCall, SaveFlush, SaveCopy
<1> QED BY <1>2, <1>3, <1>4, <1>5, <1>6, <1>7, <1>8, <1>9, <1>10, <1>11 DEF Next

LEMMA OnePlaceIsOnce == PlaceInv => EachOnce
<1> SUFFICES ASSUME PlaceInv, NEW c \in Starts
    PROVE  /\ UNION {<<batch[c], pout[c], tout[c], emitted[c]>>[i] : i \in 1 .. 4}
                = 1 .. counter[c]
           /\ \A i, j \in 1 .. 4 : i # j =>
                <<batch[c], pout[c], tout[c], emitted[c]>>[i]
                  \cap <<batch[c], pout[c], tout[c], emitted[c]>>[j] = {}
  BY DEF EachOnce
<1> DEFINE p == <<batch[c], pout[c], tout[c], emitted[c]>>
<1>1. p[1] = batch[c] /\ p[2] = pout[c] /\ p[3] = tout[c] /\ p[4] = emitted[c]
  OBVIOUS
<1>2. OnePlace(c)
  BY DEF PlaceInv
<1> HIDE DEF p
<1>3. \A i \in 1 .. 4 : i = 1 \/ i = 2 \/ i = 3 \/ i = 4
  OBVIOUS
<1>4. UNION {p[i] : i \in 1 .. 4} = batch[c] \cup pout[c] \cup tout[c] \cup emitted[c]
  BY <1>1, <1>3
<1>5. \A i, j \in 1 .. 4 : i # j => p[i] \cap p[j] = {}
  BY <1>1, <1>2, <1>3 DEF OnePlace
<1> QED BY <1>2, <1>4, <1>5 DEF OnePlace, p

-----------------------------------------------------------------------------
(* The ring: the last RingCap packets, each in the slot of its number.     *)

\* Two numbers less than a ring apart have slots of their own.
LEMMA SlotsDiffer ==
  ASSUME NEW R \in Nat \ {0}, NEW m \in Nat, NEW n \in Nat, n < m, m < n + R
  PROVE  m % R # n % R
<1> DEFINE a == m \div R
           b == n \div R
           r == m % R
           q == n % R
<1>1. m = R * a + r /\ a \in Nat /\ r \in 0 .. R - 1
  OBVIOUS
<1>2. n = R * b + q /\ b \in Nat /\ q \in 0 .. R - 1
  OBVIOUS
<1> HIDE DEF a, b, r, q
<1> SUFFICES ASSUME r = q PROVE FALSE
  BY DEF r, q
<1>3. m - n = R * a - R * b
  BY <1>1, <1>2
<1>4. R * a - R * b = R * (a - b)
  BY <1>1, <1>2
<1>5. a - b >= 1 => R * (a - b) >= R
  BY <1>1, <1>2
<1>6. a - b <= 0 => R * (a - b) <= 0
  BY <1>1, <1>2
<1> QED BY <1>1, <1>2, <1>3, <1>4, <1>5, <1>6

Recent(n, m) == n \in Nat \ {0} /\ n <= m /\ m < n + RingCap

Window(c) ==
  /\ count[c] = IF counter[c] < RingCap THEN counter[c] ELSE RingCap
  /\ first[c] = IF counter[c] < RingCap THEN 1 ELSE counter[c] - RingCap + 1
  /\ \A n \in Nat \ {0} : Recent(n, counter[c]) => slots[c][(n - 1) % RingCap] = n

WindowInv == \A c \in Starts : Window(c)

LEMMA WindowInit == Init => WindowInv
<1> SUFFICES ASSUME Init, NEW c \in Starts PROVE Window(c)
  BY DEF WindowInv
<1> QED BY Caps DEF Init, Window, Recent

LEMMA WindowStep == TypeInv /\ WindowInv /\ [Next]_vars => WindowInv'
<1> SUFFICES ASSUME TypeInv, WindowInv, [Next]_vars, NEW d \in Starts PROVE Window(d)'
  BY DEF WindowInv
<1>0. Window(d) /\ RingTypes /\ PumpTypes
  BY DEF WindowInv, TypeInv
<1>1. CASE UNCHANGED <<counter, ringVars>>
  BY <1>0, <1>1 DEF ringVars, Window, Recent
<1>2. ASSUME NEW c \in Starts, PumpAdd(c) PROVE Window(d)'
  <2>1. counter' = [counter EXCEPT ![c] = counter[c] + 1] /\ RingAdd(c, counter[c] + 1)
    BY <1>2 DEF PumpAdd
  <2>2. slots' = [slots EXCEPT ![c][((counter[c] + 1) - 1) % RingCap] = counter[c] + 1]
    BY <2>1 DEF RingAdd
  <2>3. count' = [count EXCEPT ![c] = IF count[c] < RingCap THEN count[c] + 1 ELSE count[c]]
    BY <2>1 DEF RingAdd
  <2>4. first' = [first EXCEPT ![c] = NextFirst(c, counter[c] + 1)]
    BY <2>1, RingAddFirst
  <2>5. CASE c # d
    <3>1. UNCHANGED <<counter[d], slots[d], count[d], first[d]>>
      BY <1>0, <2>1, <2>2, <2>3, <2>4, <2>5 DEF RingTypes, PumpTypes
    <3> QED BY <1>0, <3>1 DEF Window, Recent
  <2>6. CASE c = d
    <3> DEFINE m == counter[d]
    <3>1. m \in Nat /\ (m + 1) - 1 = m /\ counter'[d] = m + 1 /\ m % RingCap \in 0 .. RingCap - 1
      BY <1>0, <2>1, <2>6, Slot DEF PumpTypes
    <3>2. count'[d] = IF m + 1 < RingCap THEN m + 1 ELSE RingCap
      BY <1>0, <2>3, <2>6, <3>1, Caps, SMTT(20) DEF Window, RingTypes
    <3>3. first'[d] = IF m + 1 < RingCap THEN 1 ELSE m + 1 - RingCap + 1
      <4>1. first'[d] = NextFirst(d, m + 1)
        BY <1>0, <2>4, <2>6 DEF RingTypes
      <4>2. CASE m < RingCap
        <5>1. count[d] = m /\ first[d] = 1
          BY <1>0, <4>2 DEF Window
        <5> QED BY <3>1, <4>1, <4>2, <5>1, Caps DEF NextFirst
      <4>3. CASE ~(m < RingCap)
        <5>1. count[d] = RingCap /\ first[d] = m - RingCap + 1
          BY <1>0, <4>3 DEF Window
        <5> QED BY <3>1, <4>1, <4>3, <5>1, Caps DEF NextFirst
      <4> QED BY <4>2, <4>3
    <3>4. ASSUME NEW n \in Nat \ {0}, Recent(n, m + 1) PROVE slots'[d][(n - 1) % RingCap] = n
      <4>1. n - 1 \in Nat /\ (n - 1) % RingCap \in 0 .. RingCap - 1
        BY Slot
      <4>2. slots[d] \in [0 .. RingCap - 1 -> Nat] /\ slots' = [slots EXCEPT ![d][m % RingCap] = m + 1]
        BY <1>0, <2>2, <2>6, <3>1 DEF RingTypes
      <4>3. slots'[d] = [slots[d] EXCEPT ![m % RingCap] = m + 1]
        BY <1>0, <4>2 DEF RingTypes
      <4>4. CASE n = m + 1
        BY <3>1, <4>2, <4>3, <4>4
      <4>5. CASE n # m + 1
        <5>0. n <= m + 1 /\ m + 1 < n + RingCap
          BY <3>4 DEF Recent
        <5> HIDE DEF m
        <5>1. n <= m /\ m < (n - 1) + RingCap /\ n - 1 < m /\ RingCap \in Nat \ {0}
          BY <3>1, <4>5, <5>0, Caps
        <5>2. m % RingCap # (n - 1) % RingCap
          BY <3>1, <4>1, <5>1, SlotsDiffer
        <5>3. slots[d][(n - 1) % RingCap] = n
          BY <1>0, <3>1, <5>1, Caps DEF Window, Recent, m
        <5> QED BY <4>1, <4>2, <4>3, <5>2, <5>3
      <4> QED BY <4>4, <4>5
    <3>5. \A n \in Nat \ {0} : Recent(n, counter'[d]) => slots'[d][(n - 1) % RingCap] = n
      BY <3>1, <3>4
    <3> HIDE DEF m
    <3>6. /\ count'[d] = IF counter'[d] < RingCap THEN counter'[d] ELSE RingCap
          /\ first'[d] = IF counter'[d] < RingCap THEN 1 ELSE counter'[d] - RingCap + 1
      BY <3>1, <3>2, <3>3, Caps
    <3> QED BY <3>5, <3>6 DEF Window, Recent
  <2> QED BY <2>5, <2>6
<1>3. ASSUME NEW c \in Starts,
             \/ StartStep(c) \/ ChildExit(c) \/ PumpHeader(c) \/ PumpNoHeader(c) \/ PumpNoStream(c) \/ failWith(c) \/ PumpHead(c)
             \/ PumpBody(c) \/ PumpEnd(c) \/ PumpBroken(c) \/ MarkInactive(c) \/ PumpDone(c)
             \/ PumpLast(c) \/ PumpEmit(c) \/ TimerTake(c) \/ TimerEmit(c)
      PROVE UNCHANGED <<counter, ringVars>>
  BY <1>3 DEF StartStep, StartCheck, StartFail, OpenMirror, SpawnTcpdump, Untouched, ChildExit,
              PumpHeader, PumpNoHeader, PumpNoStream, failWith, PumpHead, PumpBody, PumpEnd, PumpBroken, MarkInactive,
              PumpDone, PumpLast, PumpEmit, TimerTake, TimerEmit
<1>4. CASE StopCall \/ StopKill \/ StopReturn \/ SaveCall \/ SaveFlush \/ SaveCopy
  BY <1>1, <1>4 DEF StopCall, StopKill, StopReturn, SaveCall, SaveFlush, SaveCopy
<1> QED BY <1>1, <1>2, <1>3, <1>4 DEF Next, vars

LEMMA WindowFinds == TypeInv /\ WindowInv => RingFindsRecent
<1> SUFFICES ASSUME TypeInv, WindowInv, NEW c \in Starts, NEW n \in 1 .. MaxPackets + 1
    PROVE  RingAt(c, n) = IF n <= counter[c] /\ counter[c] < n + RingCap THEN n ELSE 0
  BY DEF RingFindsRecent
<1>1. Window(c) /\ counter[c] \in Nat /\ n \in Nat \ {0}
  BY Bounds DEF WindowInv, TypeInv, PumpTypes
<1>2. CASE Recent(n, counter[c])
  <2>1. slots[c][(n - 1) % RingCap] = n
    BY <1>1, <1>2 DEF Window
  <2>2. ~(n = 0 \/ n < first[c] \/ n >= first[c] + count[c])
    BY <1>1, <1>2, Caps DEF Window, Recent
  <2> QED BY <1>1, <1>2, <2>1, <2>2 DEF RingAt, Recent
<1>3. CASE ~Recent(n, counter[c])
  <2>1. n < first[c] \/ n >= first[c] + count[c]
    BY <1>1, <1>3, Caps DEF Window, Recent
  <2> QED BY <1>1, <1>3, <2>1 DEF RingAt, Recent
<1> QED BY <1>2, <1>3

-----------------------------------------------------------------------------
(* The mirror: a session's stream is a pcap, and has every body since it   *)
(* was truncated.                                                          *)

Has(s, x) == \E i \in DOMAIN s : s[i] = x

LEMMA HasMore ==
  ASSUME NEW s \in Seq(Item), NEW x \in Item, NEW y \in Item
  PROVE  /\ Has(s, x) => Has(Append(s, y), x)
         /\ Has(Append(s, x), x)
<1>1. Has(s, x) => Has(Append(s, y), x)
  BY DEF Has
<1>2. Has(Append(s, x), x)
  <2>1. Len(s) + 1 \in DOMAIN Append(s, x) /\ Append(s, x)[Len(s) + 1] = x
    OBVIOUS
  <2> QED BY <2>1 DEF Has
<1> QED BY <1>1, <1>2

LEMMA HasLonger ==
  ASSUME NEW s \in Seq(Item), NEW t \in Seq(Item)
  PROVE  \A y \in Item : Has(s, y) => Has(s \o t, y)
<1> SUFFICES ASSUME NEW y \in Item, NEW i \in DOMAIN s, s[i] = y PROVE Has(s \o t, y)
  BY DEF Has
<1>1. i \in DOMAIN (s \o t) /\ (s \o t)[i] = y
  OBVIOUS
<1> QED BY <1>1 DEF Has

LEMMA AppendLen ==
  ASSUME NEW s \in Seq(Item), NEW x \in Item
  PROVE  Append(s, x) # <<>> /\ Len(Append(s, x)) = Len(s) + 1
<1>1. Len(Append(s, x)) = Len(s) + 1 /\ Len(s) \in Nat
  OBVIOUS
<1>2. Len(<<>>) = 0
  OBVIOUS
<1> QED BY <1>1, <1>2

\* What is cut off a pcap leaves a pcap.
LEMMA PcapPrefix ==
  ASSUME NEW s \in Seq(Item), NEW t \in Seq(Item), IsPcap(s \o t) PROVE IsPcap(s)
<1>1. /\ Len(s) \in Nat /\ Len(s) <= Len(s \o t)
      /\ \A i \in 1 .. Len(s) : (s \o t)[i] = s[i]
  OBVIOUS
<1>2. s # <<>> => s[1] = Header
  <2>1. s # <<>> => Len(s) >= 1 /\ s \o t # <<>>
    OBVIOUS
  <2> QED BY <1>1, <2>1 DEF IsPcap
<1>3. ASSUME NEW i \in 2 .. Len(s)
      PROVE  IF i % 2 = 0 THEN s[i][1] = "head" ELSE s[i] = RecBody(s[i - 1][2])
  <2>1. i \in 2 .. Len(s \o t) /\ i \in 1 .. Len(s) /\ i - 1 \in 1 .. Len(s)
    BY <1>1
  <2>2. (s \o t)[i] = s[i] /\ (s \o t)[i - 1] = s[i - 1]
    BY <1>1, <2>1
  <2>3. IF i % 2 = 0 THEN (s \o t)[i][1] = "head" ELSE (s \o t)[i] = RecBody((s \o t)[i - 1][2])
    BY <2>1 DEF IsPcap
  <2> QED BY <2>2, <2>3
<1> QED BY <1>2, <1>3 DEF IsPcap

LEMMA PcapAppend ==
  ASSUME NEW s \in Seq(Item), NEW x \in Item, s # <<>>, IsPcap(s),
         IF (Len(s) + 1) % 2 = 0 THEN x[1] = "head" ELSE x = RecBody(s[Len(s)][2])
  PROVE  IsPcap(Append(s, x))
<1> DEFINE a == Append(s, x)
<1>1. /\ Len(s) \in Nat /\ Len(s) >= 1 /\ Len(a) = Len(s) + 1
      /\ a[Len(s) + 1] = x /\ \A i \in 1 .. Len(s) : a[i] = s[i]
  OBVIOUS
<1> HIDE DEF a
<1>2. a[1] = Header
  BY <1>1 DEF IsPcap
<1>3. ASSUME NEW i \in 2 .. Len(a)
      PROVE  IF i % 2 = 0 THEN a[i][1] = "head" ELSE a[i] = RecBody(a[i - 1][2])
  <2>1. CASE i \in 2 .. Len(s)
    <3>1. a[i] = s[i] /\ a[i - 1] = s[i - 1]
      BY <1>1, <2>1
    <3>2. IF i % 2 = 0 THEN s[i][1] = "head" ELSE s[i] = RecBody(s[i - 1][2])
      BY <2>1 DEF IsPcap
    <3> QED BY <3>1, <3>2
  <2>2. CASE i = Len(s) + 1
    <3>1. a[i] = x /\ a[i - 1] = s[Len(s)]
      BY <1>1, <2>2
    <3> QED BY <2>2, <3>1
  <2> QED BY <1>1, <2>1, <2>2
<1>4. IsPcap(a)
  BY <1>2, <1>3 DEF IsPcap
<1> QED BY <1>4 DEF a

LEMMA PcapHeader == IsPcap(<<>>) /\ IsPcap(<<Header>>)
BY Items DEF IsPcap

\* A stream holds whole records while its pump is between two, and ends with a
\* record's head while the body is awaited.
Whole(c) == Stream(c) # <<>> /\ Len(Stream(c)) % 2 = 1
HalfRead(c) ==
  LET s == Stream(c)
  IN  s # <<>> /\ Len(s) % 2 = 0 /\ s[Len(s)] = RecHead(counter[c] + 1)

\* The packets whose body was written.
Written(c) == IF pump[c] = "add" THEN counter[c] + 1 ELSE counter[c]

Recorded(c) ==
  /\ pump[c] \in {"off", "header", "ask"} => disk[c] = <<>> /\ buf[c] = <<>> /\ counter[c] = 0
  /\ ~split[c] =>
       /\ IsPcap(Stream(c))
       /\ pump[c] \in {"head", "add", "emit"} => Whole(c)
       /\ pump[c] = "body" => HalfRead(c)
  /\ since[c] >= 1
  /\ ~shut[c] => \A n \in Nat : since[c] <= n /\ n <= Written(c) => Has(Stream(c), RecBody(n))

RecordInv == \A c \in Starts : Recorded(c)

LEMMA RecordInit == Init => RecordInv
<1> SUFFICES ASSUME Init, NEW c \in Starts PROVE Recorded(c)
  BY DEF RecordInv
<1>1. /\ disk[c] = <<>> /\ buf[c] = <<>> /\ counter[c] = 0 /\ pump[c] = "off" /\ since[c] = 1
  BY DEF Init
<1>2. Stream(c) = <<>>
  BY <1>1 DEF Stream
<1> QED BY <1>1, <1>2, PcapHeader DEF Recorded, Written

LEMMA StreamType == ASSUME FileTypes, NEW c \in Starts PROVE Stream(c) \in Seq(Item)
BY DEF FileTypes, Stream

\* A step that leaves a session's stream, pump and marks alone.
LEMMA RecordStays ==
  ASSUME NEW c \in Starts, Recorded(c), disk'[c] = disk[c], buf'[c] = buf[c],
         pump'[c] = pump[c], counter'[c] = counter[c], since'[c] = since[c],
         split'[c] = split[c], shut[c] => shut'[c]
  PROVE  Recorded(c)'
<1>1. Stream(c)' = Stream(c)
  BY DEF Stream
<1> QED BY <1>1 DEF Recorded, Whole, HalfRead, Written

\* A flush keeps the stream, but of a session that was shut, whose pump is done
\* or about to be.
LEMMA RecordFlush ==
  ASSUME TypeInv, StartInv, NEW c \in Starts, Recorded(c), Flush(c), spc[c] = "started",
         UNCHANGED <<counter, since, split, shut>>,
         pump'[c] = pump[c] \/ (pump[c] = "flush" /\ pump'[c] = "done")
  PROVE  Recorded(c)'
<1>0. FileTypes /\ disk[c] \in Seq(Item) /\ buf[c] \in Seq(Item)
  BY DEF TypeInv, FileTypes
<1>1. /\ Stream(c)' = IF shut[c] THEN disk[c] ELSE Stream(c)
      /\ disk'[c] = IF shut[c] THEN disk[c] ELSE Stream(c)
  BY <1>0, FlushStream
<1>2. buf'[c] = <<>>
  BY <1>0 DEF Flush, FileTypes
<1>3. pump[c] \in {"header", "ask"} => disk[c] = <<>> /\ Stream(c) = <<>> /\ counter[c] = 0
  BY DEF Recorded, Stream
<1>4. pump[c] # "off" /\ pump'[c] # "off"
  BY DEF StartInv
<1>5. pump'[c] \in {"off", "header", "ask"} => disk'[c] = <<>> /\ buf'[c] = <<>> /\ counter'[c] = 0
  BY <1>1, <1>2, <1>3, <1>4
<1>6. ASSUME shut[c] PROVE Recorded(c)'
  <2>1. pump'[c] \in {"flush", "done"} /\ Stream(c)' = disk[c]
    BY <1>1, <1>6 DEF StartInv
  <2>2. ~split[c] => IsPcap(disk[c])
    BY <1>0, PcapPrefix DEF Recorded, Stream
  <2>3. since'[c] >= 1 /\ shut'[c] /\ split'[c] = split[c]
    BY <1>6 DEF Recorded
  <2> QED BY <2>1, <2>2, <2>3, Zenon DEF Recorded
<1>7. ASSUME ~shut[c] PROVE Recorded(c)'
  <2>1. Stream(c)' = Stream(c) /\ UNCHANGED <<counter[c], since[c], split[c], shut[c]>>
    BY <1>1, <1>7
  <2> QED BY <1>5, <2>1 DEF Recorded, Whole, HalfRead, Written
<1> QED BY <1>6, <1>7

\* A record's head.
LEMMA RecordHead ==
  ASSUME TypeInv, NEW c \in Starts, Recorded(c), PumpHead(c)
  PROVE  Recorded(c)'
<1> DEFINE n == counter[c] + 1
           s == Stream(c)
           over == Over(c, 1)
<1>0. /\ FileTypes /\ n \in Nat /\ RecHead(n) \in Item /\ s \in Seq(Item)
      /\ counter[c] \in Nat /\ since[c] \in Nat
  BY Items, StreamType DEF TypeInv, PumpTypes, FileTypes
<1>1. Write(c, n, RecHead(n), 1)
  BY DEF PumpHead
<1>2. /\ Stream(c)' = Append(IF over THEN <<Header>> ELSE s, RecHead(n))
      /\ since'[c] = IF over THEN n ELSE since[c]
      /\ split'[c] <=> IF over THEN RecHead(n) = RecBody(n) ELSE split[c]
  BY <1>0, <1>1, WriteStream
<1>3. /\ pump[c] = "head" /\ pump'[c] = "body" /\ counter'[c] = counter[c] /\ shut'[c] = shut[c]
  BY DEF PumpHead, Moves, TypeInv, PumpTypes
<1>4. RecHead(n) # RecBody(n) /\ RecHead(n)[1] = "head" /\ n >= 1
  BY <1>0, Items DEF RecHead
<1>5. since'[c] >= 1
  BY <1>0, <1>2, <1>4 DEF Recorded
<1> HIDE DEF n, s, over
<1>6. ASSUME ~split'[c] PROVE IsPcap(Stream(c)') /\ HalfRead(c)'
  <2>1. PICK t \in Seq(Item) : /\ t # <<>> /\ IsPcap(t) /\ Len(t) % 2 = 1
                             /\ Stream(c)' = Append(t, RecHead(n))
    <3>1. CASE over
      <4>1. <<Header>> \in Seq(Item) /\ <<Header>> # <<>> /\ Len(<<Header>>) % 2 = 1
        BY Items
      <4> QED BY <1>2, <3>1, <4>1, PcapHeader
    <3>2. CASE ~over
      <4>1. ~split[c] /\ Stream(c)' = Append(s, RecHead(n))
        BY <1>2, <1>6, <3>2
      <4>2. IsPcap(s) /\ s # <<>> /\ Len(s) % 2 = 1
        BY <1>3, <4>1 DEF Recorded, Whole, s
      <4> QED BY <1>0, <4>1, <4>2
    <3> QED BY <3>1, <3>2
  <2>2. Len(t) \in Nat /\ (Len(t) + 1) % 2 = 0
    BY <2>1
  <2>3. IsPcap(Append(t, RecHead(n)))
    BY <1>0, <1>4, <2>1, <2>2, PcapAppend
  <2>4. /\ Append(t, RecHead(n)) # <<>> /\ Len(Append(t, RecHead(n))) = Len(t) + 1
        /\ Append(t, RecHead(n))[Len(t) + 1] = RecHead(n)
    BY <1>0, <2>1
  <2>5. RecHead(counter[c] + 1)' = RecHead(n)
    BY <1>3 DEF n, RecHead
  <2>6. HalfRead(c)'
    BY <1>3, <2>1, <2>2, <2>4 DEF HalfRead, RecHead, n
  <2> QED BY <2>1, <2>3, <2>6
<1>7. ASSUME ~shut'[c], NEW m \in Nat, since'[c] <= m, m <= counter[c]
      PROVE  Has(Stream(c)', RecBody(m))
  <2>1. ~over /\ Stream(c)' = Append(s, RecHead(n)) /\ since[c] <= m
    BY <1>0, <1>2, <1>7 DEF n
  <2>2. Has(s, RecBody(m))
    BY <1>3, <1>7, <2>1 DEF Recorded, Written, s
  <2> QED BY <1>0, <2>1, <2>2, Items, HasMore
<1> QED BY <1>3, <1>5, <1>6, <1>7 DEF Recorded, Written

\* A record's body.
LEMMA RecordBody ==
  ASSUME TypeInv, NEW c \in Starts, Recorded(c), PumpBody(c)
  PROVE  Recorded(c)'
<1> DEFINE n == counter[c] + 1
           s == Stream(c)
<1>0. /\ FileTypes /\ n \in Nat /\ RecBody(n) \in Item /\ s \in Seq(Item)
      /\ counter[c] \in Nat /\ since[c] \in Nat
  BY Items, StreamType DEF TypeInv, PumpTypes, FileTypes
<1>1. PICK w \in BodySizes : Write(c, n, RecBody(n), w)
  BY DEF PumpBody
<1> DEFINE over == Over(c, w)
<1>2. /\ Stream(c)' = Append(IF over THEN <<Header>> ELSE s, RecBody(n))
      /\ since'[c] = IF over THEN n ELSE since[c]
      /\ split'[c] <=> IF over THEN RecBody(n) = RecBody(n) ELSE split[c]
  <2>1. w \in Nat
    BY Caps
  <2> QED BY <1>0, <1>1, <2>1, WriteStream
<1>3. /\ pump[c] = "body" /\ pump'[c] = "add" /\ counter'[c] = counter[c] /\ shut'[c] = shut[c]
  BY DEF PumpBody, Moves, TypeInv, PumpTypes
<1>4. since'[c] >= 1
  BY <1>0, <1>2 DEF Recorded
<1> HIDE DEF n, s, over
<1>5. ASSUME ~split'[c] PROVE IsPcap(Stream(c)') /\ Whole(c)'
  <2>1. ~split[c] /\ Stream(c)' = Append(s, RecBody(n))
    BY <1>2, <1>5
  <2>2. IsPcap(s) /\ s # <<>> /\ Len(s) % 2 = 0 /\ s[Len(s)] = RecHead(n)
    BY <1>3, <2>1 DEF Recorded, HalfRead, s, n
  <2>3. Len(s) \in Nat /\ (Len(s) + 1) % 2 = 1 /\ RecBody(n) = RecBody(s[Len(s)][2])
    BY <1>0, <2>2 DEF RecHead
  <2>4. IsPcap(Append(s, RecBody(n)))
    BY <1>0, <2>2, <2>3, PcapAppend
  <2>5. Append(s, RecBody(n)) # <<>> /\ Len(Append(s, RecBody(n))) = Len(s) + 1
    BY <1>0, AppendLen
  <2> QED BY <2>1, <2>3, <2>4, <2>5 DEF Whole
<1>6. ASSUME ~shut'[c], NEW m \in Nat, since'[c] <= m, m <= n
      PROVE  Has(Stream(c)', RecBody(m))
  <2>1. CASE m = n
    <3>1. PICK t \in Seq(Item) : Stream(c)' = Append(t, RecBody(n))
      <4>1. <<Header>> \in Seq(Item)
        BY Items
      <4> QED BY <1>0, <1>2, <4>1
    <3> QED BY <1>0, <2>1, <3>1, HasMore
  <2>2. CASE m # n
    <3>1. ~over /\ Stream(c)' = Append(s, RecBody(n)) /\ since[c] <= m /\ m <= counter[c]
      BY <1>0, <1>2, <1>6, <2>2 DEF n
    <3>2. Has(s, RecBody(m))
      BY <1>3, <1>6, <3>1 DEF Recorded, Written, s
    <3> QED BY <1>0, <3>1, <3>2, Items, HasMore
  <2> QED BY <2>1, <2>2
<1> QED BY <1>3, <1>4, <1>5, <1>6 DEF Recorded, Written, n

LEMMA RecordStep == TypeInv /\ StartInv /\ RecordInv /\ [Next]_vars => RecordInv'
<1> SUFFICES ASSUME TypeInv, StartInv, RecordInv, [Next]_vars, NEW d \in Starts
             PROVE  Recorded(d)'
  BY DEF RecordInv
<1>0. /\ Recorded(d) /\ FileTypes /\ PumpTypes /\ RegistryTypes
  BY DEF RecordInv, TypeInv
<1>1. ASSUME UNCHANGED <<pump, counter, buf, disk, since, split>>, shut[d] => shut'[d]
      PROVE  Recorded(d)'
  BY <1>0, <1>1, RecordStays
<1>2. CASE UNCHANGED vars
  BY <1>1, <1>2 DEF vars, fileVars
<1>3. ASSUME NEW c \in Starts, StartStep(c) PROVE Recorded(d)'
  <2>1. CASE StartCheck(c)
    <3>1. UNCHANGED <<pump, counter, buf, disk, since, split>>
      BY <2>1 DEF StartCheck, NotTheFile, Untouched
    <3>2. shut[d] => shut'[d]
      BY <2>1, Zenon DEF StartCheck
    <3> QED BY <1>1, <3>1, <3>2
  <2>2. CASE StartFail(c)
    <3>1. UNCHANGED <<pump, counter, buf, disk, since, split>>
      BY <2>2 DEF StartFail, NotTheFile, Untouched
    <3>2. shut[d] => shut'[d]
      BY <1>0, <2>2, Zenon DEF StartFail, FileTypes
    <3> QED BY <1>1, <3>1, <3>2
  <2>3. CASE OpenMirror(c)
    BY <1>1, <2>3 DEF OpenMirror, Untouched
  <2>4. CASE SpawnTcpdump(c)
    <3>1. /\ UNCHANGED <<counter, buf, disk, since, split, shut>>
          /\ pump' = [pump EXCEPT ![c] = "header"] /\ pump[c] = "off"
      BY <2>4 DEF SpawnTcpdump, Goes, fileVars, StartInv
    <3>2. Stream(d)' = Stream(d)
      BY <3>1 DEF Stream
    <3> QED BY <1>0, <3>1, <3>2 DEF Recorded, Whole, HalfRead, Written, PumpTypes
  <2> QED BY <1>3, <2>1, <2>2, <2>3, <2>4 DEF StartStep
<1>4. ASSUME NEW c \in Starts, c # d,
             \/ PumpHeader(c) \/ PumpNoHeader(c) \/ PumpNoStream(c) \/ failWith(c) \/ PumpHead(c) \/ PumpBody(c) \/ PumpEnd(c)
             \/ PumpBroken(c) \/ PumpAdd(c) \/ PumpLast(c) \/ PumpEmit(c) \/ MarkInactive(c)
             \/ PumpDone(c)
      PROVE Recorded(d)'
  <2>1. pump'[d] = pump[d] /\ counter'[d] = counter[d] /\ shut' = shut
    BY <1>0, <1>4 DEF PumpHeader, PumpNoHeader, PumpNoStream, failWith, PumpHead, PumpBody, PumpEnd, PumpBroken, PumpAdd,
            PumpLast, PumpEmit, MarkInactive, PumpDone, Moves, fileVars, PumpTypes
  <2>2. buf'[d] = buf[d] /\ disk'[d] = disk[d] /\ since'[d] = since[d] /\ split'[d] = split[d]
    <3>1. CASE PumpHead(c)
      <4>1. Write(c, counter[c] + 1, RecHead(counter[c] + 1), 1) /\ counter[c] + 1 \in Nat
        BY <1>0, <3>1 DEF PumpHead, PumpTypes
      <4> QED BY <1>0, <1>4, <4>1, Items, WriteStream
    <3>2. CASE PumpBody(c)
      <4>1. PICK w \in BodySizes : Write(c, counter[c] + 1, RecBody(counter[c] + 1), w)
        BY <3>2 DEF PumpBody
      <4>2. w \in Nat /\ counter[c] + 1 \in Nat
        BY <1>0, Caps DEF PumpTypes
      <4> QED BY <1>0, <1>4, <4>1, <4>2, Items, WriteStream
    <3>3. CASE PumpDone(c)
      BY <1>0, <1>4, <3>3, FlushStream DEF PumpDone
    <3>4. CASE PumpHeader(c) \/ PumpNoHeader(c) \/ PumpNoStream(c) \/ failWith(c)
      BY <1>0, <1>4, <3>4 DEF PumpHeader, PumpNoHeader, PumpNoStream, failWith, fileVars, FileTypes
    <3>5. CASE \/ PumpEnd(c) \/ PumpBroken(c) \/ PumpAdd(c) \/ PumpLast(c) \/ PumpEmit(c)
               \/ MarkInactive(c)
      BY <3>5 DEF PumpEnd, PumpBroken, PumpAdd, PumpLast, PumpEmit, MarkInactive, fileVars
    <3> QED BY <1>4, <3>1, <3>2, <3>3, <3>4, <3>5
  <2> QED BY <1>0, <2>1, <2>2, RecordStays
<1>5. CASE PumpHeader(d) \/ PumpNoHeader(d) \/ PumpNoStream(d) \/ failWith(d)
  <2>1. /\ pump[d] \in {"header", "ask"} /\ pump'[d] \in {"head", "ask", "flush"}
        /\ UNCHANGED <<disk, since, split, shut, counter>>
        /\ (buf'[d] = <<Header>> /\ pump'[d] \in {"head", "flush"}) \/ (buf'[d] = buf[d] /\ pump'[d] \in {"ask", "flush"})
    BY <1>0, <1>5 DEF PumpHeader, PumpNoHeader, PumpNoStream, failWith, Moves, fileVars, PumpTypes, FileTypes
  <2>2. disk[d] = <<>> /\ buf[d] = <<>> /\ counter[d] = 0 /\ since[d] >= 1 /\ since[d] \in Nat
    BY <1>0, <2>1 DEF Recorded, FileTypes
  <2>3. \/ Stream(d)' = <<Header>>
        \/ Stream(d)' = <<>> /\ buf'[d] = <<>> /\ pump'[d] \in {"ask", "flush"}
    <3>1. <<>> \o <<Header>> = <<Header>> /\ <<>> \o <<>> = <<>>
      BY Items
    <3> QED BY <2>1, <2>2, <3>1 DEF Stream
  <2>4. <<Header>> # <<>> /\ Len(<<Header>>) % 2 = 1
    BY Items
  <2>5. \A n \in Nat : ~(since'[d] <= n /\ n <= counter'[d])
    BY <2>1, <2>2
  <2> QED BY <2>1, <2>2, <2>3, <2>4, <2>5, PcapHeader DEF Recorded, Whole, Written
<1>6. CASE PumpEnd(d) \/ PumpBroken(d) \/ PumpLast(d) \/ PumpEmit(d) \/ MarkInactive(d)
  <2>1. /\ UNCHANGED <<counter, buf, disk, since, split, shut>>
        /\ \/ pump'[d] \in {"last", "lastemit", "mark", "flush"} /\ pump[d] # "add"
           \/ pump[d] = "emit" /\ pump'[d] = "head"
    BY <1>0, <1>6 DEF PumpEnd, PumpBroken, PumpLast, PumpEmit, MarkInactive, Moves, fileVars,
                      PumpTypes
  <2>2. Stream(d)' = Stream(d)
    BY <2>1 DEF Stream
  <2> QED BY <1>0, <2>1, <2>2 DEF Recorded, Whole, Written
<1>7. CASE PumpAdd(d)
  <2>1. /\ UNCHANGED <<buf, disk, since, split, shut>> /\ counter'[d] = counter[d] + 1
        /\ pump[d] = "add" /\ pump'[d] \in {"emit", "head"}
    BY <1>0, <1>7 DEF PumpAdd, Moves, fileVars, PumpTypes
  <2>2. Stream(d)' = Stream(d)
    BY <2>1 DEF Stream
  <2> QED BY <1>0, <2>1, <2>2 DEF Recorded, Whole, Written
<1>8. CASE PumpDone(d)
  <2>1. spc[d] = "started" /\ Flush(d) /\ UNCHANGED <<counter, since, split, shut>>
        /\ pump[d] = "flush" /\ pump'[d] = "done"
    BY <1>0, <1>8 DEF PumpDone, Moves, StartInv, PumpTypes
  <2> QED BY <1>0, <2>1, RecordFlush
<1>9. ASSUME NEW c \in Starts, spc[c] = "started", Flush(c),
             UNCHANGED <<pump, counter, since, split, shut>>
      PROVE  Recorded(d)'
  <2>1. CASE c = d
    BY <1>0, <1>9, <2>1, RecordFlush
  <2>2. CASE c # d
    <3>1. disk'[d] = disk[d] /\ buf'[d] = buf[d]
      BY <1>0, <1>9, <2>2, FlushStream
    <3> QED BY <1>0, <1>9, <3>1, RecordStays
  <2> QED BY <2>1, <2>2
<1>10. CASE StopReturn
  <2>1. /\ ktgt \in Starts /\ spc[ktgt] = "started" /\ Flush(ktgt)
        /\ UNCHANGED <<pump, counter, since, split, shut>>
    BY <1>10 DEF StopReturn, StartInv
  <2> QED BY <1>9, <2>1
<1>11. CASE SaveFlush
  <2>1. CASE live = 0
    BY <1>1, <1>11, <2>1 DEF SaveFlush
  <2>2. CASE live # 0
    <3>1. /\ live \in Starts /\ spc[live] = "started" /\ Flush(live)
          /\ UNCHANGED <<pump, counter, since, split, shut>>
      BY <1>0, <1>11, <2>2 DEF SaveFlush, StartInv, RegistryTypes
    <3> QED BY <1>9, <3>1
  <2> QED BY <2>1, <2>2
<1>12. ASSUME NEW c \in Starts, ChildExit(c) \/ TimerTake(c) \/ TimerEmit(c) PROVE Recorded(d)'
  BY <1>1, <1>12 DEF ChildExit, TimerTake, TimerEmit, fileVars
<1>13. CASE StopCall \/ StopKill \/ SaveCall \/ SaveCopy
  BY <1>1, <1>13 DEF StopCall, StopKill, SaveCall, SaveCopy, fileVars
<1>14. ASSUME PumpHead(d) \/ PumpBody(d) PROVE Recorded(d)'
  BY <1>0, <1>14, RecordHead, RecordBody
<1> QED BY <1>2, <1>3, <1>4, <1>5, <1>6, <1>7, <1>8, <1>10, <1>11, <1>12, <1>13, <1>14 DEF Next

LEMMA RecordIsPcap == TypeInv /\ RecordInv => MirrorIsPcapUnlessSplit
<1> SUFFICES ASSUME TypeInv, RecordInv, NEW c \in Starts, ~split[c] PROVE IsPcap(disk[c])
  BY DEF MirrorIsPcapUnlessSplit
<1>1. disk[c] \in Seq(Item) /\ buf[c] \in Seq(Item)
  BY DEF TypeInv, FileTypes
<1>2. IsPcap(disk[c] \o buf[c])
  BY DEF RecordInv, Recorded, Stream
<1> QED BY <1>1, <1>2, PcapPrefix

-----------------------------------------------------------------------------
(* Save: what was captured when it was asked for is in the file by the     *)
(* time the user is asked for a name, while the session is the registered. *)

SaveInv ==
  save.step # "none" =>
    /\ save.of \in Starts /\ spc[save.of] = "started" /\ save.seen <= counter[save.of]
    /\ save.step = "dialog" /\ live = save.of =>
         \A n \in Nat : since[save.of] <= n /\ n <= save.seen => Has(disk[save.of], RecBody(n))

LEMMA SaveInit == Init => SaveInv
BY DEF Init, SaveInv, NoSave

\* The file only gets longer until a rotation, which begins after what was seen.
LEMMA WriteKeeps ==
  ASSUME FileTypes, NEW c \in Starts, NEW n \in Nat, NEW x \in Item, NEW w \in Nat,
         Write(c, n, x, w), NEW m \in Nat, m < n, since'[c] <= m
  PROVE  since[c] <= m /\ \A y \in Item : Has(disk[c], y) => Has(disk'[c], y)
<1>1. since'[c] = IF Over(c, w) THEN n ELSE since[c]
  BY WriteStream
<1>2. ~Over(c, w) /\ since[c] <= m
  BY <1>1 DEF FileTypes
<1>3. disk[c] \in Seq(Item) /\ buf[c] \in Seq(Item)
  BY DEF FileTypes
<1>4. Wrote(c, x, w)
  BY WriteShape
<1>5. disk'[c] = disk[c] \/ disk'[c] = disk[c] \o buf[c]
  BY <1>2, <1>4 DEF Wrote, Held, Kept, FileTypes
<1>6. \A y \in Item : Has(disk[c], y) => Has(disk[c] \o buf[c], y)
  BY <1>3, HasLonger
<1> QED BY <1>2, <1>5, <1>6

LEMMA FlushKeeps ==
  ASSUME FileTypes, NEW c \in Starts, Flush(c), NEW d \in Starts
  PROVE  \A y \in Item : Has(disk[d], y) => Has(disk'[d], y)
<1>1. disk[c] \in Seq(Item) /\ buf[c] \in Seq(Item)
  BY DEF FileTypes
<1>2. /\ disk'[c] = disk[c] \/ disk'[c] = disk[c] \o buf[c]
      /\ c # d => disk'[d] = disk[d]
  BY FlushStream DEF Stream
<1>3. \A y \in Item : Has(disk[c], y) => Has(disk[c] \o buf[c], y)
  BY <1>1, HasLonger
<1> QED BY <1>2, <1>3

\* A step between the parts of a save.
LEMMA SaveStays ==
  ASSUME TypeInv, TypeInv', SaveInv, save' = save,
         \A d \in Starts : spc[d] = "started" => spc'[d] = "started",
         \A d \in Starts : counter[d] <= counter'[d],
         \A d \in Starts : live' = d /\ spc[d] = "started" => live = d,
         \A d \in Starts, m \in Nat : m <= counter[d] /\ since'[d] <= m =>
            since[d] <= m /\ \A y \in Item : Has(disk[d], y) => Has(disk'[d], y)
  PROVE  SaveInv'
<1> SUFFICES ASSUME save.step # "none"
    PROVE  /\ save.of \in Starts /\ spc'[save.of] = "started" /\ save.seen <= counter'[save.of]
           /\ save.step = "dialog" /\ live' = save.of =>
                \A n \in Nat : since'[save.of] <= n /\ n <= save.seen =>
                  Has(disk'[save.of], RecBody(n))
  BY DEF SaveInv
<1> DEFINE d == save.of
<1>1. d \in Starts /\ spc[d] = "started" /\ save.seen <= counter[d] /\ save.seen \in Nat
  BY DEF SaveInv, TypeInv, SaveTypes
<1>2. counter[d] \in Nat
  BY <1>1 DEF TypeInv, PumpTypes
<1>3. ASSUME save.step = "dialog", live' = d, NEW n \in Nat, since'[d] <= n, n <= save.seen
      PROVE  Has(disk'[d], RecBody(n))
  <2>1. n <= counter[d]
    BY <1>1, <1>2, <1>3
  <2>2. since[d] <= n /\ \A y \in Item : Has(disk[d], y) => Has(disk'[d], y)
    BY <1>1, <1>3, <2>1
  <2>3. Has(disk[d], RecBody(n))
    BY <1>1, <1>3, <2>2 DEF SaveInv
  <2> QED BY <2>2, <2>3, Items
<1>4. save.seen <= counter'[d]
  <2>1. counter[d] <= counter'[d] /\ counter'[d] \in Nat
    BY <1>1 DEF TypeInv, PumpTypes
  <2> QED BY <1>1, <1>2, <2>1
<1> QED BY <1>1, <1>3, <1>4

LEMMA SaveStep == TypeInv /\ StartInv /\ RecordInv /\ SaveInv /\ [Next]_vars => SaveInv'
<1> SUFFICES ASSUME TypeInv, StartInv, RecordInv, SaveInv, [Next]_vars PROVE SaveInv'
  OBVIOUS
<1>0. FileTypes /\ PumpTypes /\ RegistryTypes /\ SaveTypes /\ TypeInv'
  BY TypeStep DEF TypeInv
<1>1. \A d \in Starts : counter[d] \in Nat /\ since[d] \in Nat
  BY <1>0 DEF PumpTypes, FileTypes
<1>2. ASSUME UNCHANGED <<live, spc, counter, save, since>>,
             \A d \in Starts : \A y \in Item : Has(disk[d], y) => Has(disk'[d], y)
      PROVE  SaveInv'
  BY <1>0, <1>1, <1>2, SaveStays
<1>3. ASSUME UNCHANGED <<live, spc, counter, save, since, disk>> PROVE SaveInv'
  BY <1>2, <1>3
<1>4. CASE UNCHANGED vars
  BY <1>3, <1>4 DEF vars, startVars, fileVars, saveVars
<1>5. ASSUME NEW c \in Starts, StartStep(c) PROVE SaveInv'
  <2>1. /\ UNCHANGED <<save, counter, since, disk>>
        /\ spc[c] \in {"idle", "probe", "spawn"} /\ \E t : spc' = [spc EXCEPT ![c] = t]
        /\ live' \in {0, c, live}
    BY <1>5 DEF StartStep, StartCheck, StartFail, OpenMirror, SpawnTcpdump, Goes, Untouched,
                NotTheFile, saveVars, fileVars
  <2>2. \A d \in Starts : spc[d] = "started" => spc'[d] = "started"
    BY <1>0, <2>1 DEF RegistryTypes
  <2>3. \A d \in Starts : live' = d /\ spc[d] = "started" => live = d
    BY <2>1, StartsAssumption
  <2> QED BY <1>0, <1>1, <2>1, <2>2, <2>3, SaveStays
<1>6. ASSUME NEW c \in Starts, PumpHead(c) \/ PumpBody(c) PROVE SaveInv'
  <2>1. PICK x \in Item, w \in Nat : Write(c, counter[c] + 1, x, w)
    <3>1. CASE PumpHead(c)
      BY <1>0, <1>1, <3>1, Items DEF PumpHead
    <3>2. CASE PumpBody(c)
      <4>1. RecBody(counter[c] + 1) \in Item
        BY <1>1, Items
      <4> QED BY <3>2, <4>1, Caps DEF PumpBody
    <3> QED BY <1>6, <3>1, <3>2
  <2>2. UNCHANGED <<live, spc, counter, save>>
    BY <1>6 DEF PumpHead, PumpBody, startVars, saveVars
  <2>3. ASSUME NEW d \in Starts, NEW m \in Nat, m <= counter[d], since'[d] <= m
        PROVE  since[d] <= m /\ \A y \in Item : Has(disk[d], y) => Has(disk'[d], y)
    <3>1. CASE d = c
      <4>1. m < counter[c] + 1 /\ counter[c] + 1 \in Nat
        BY <1>1, <2>3, <3>1
      <4> QED BY <1>0, <2>1, <2>3, <3>1, <4>1, WriteKeeps
    <3>2. CASE d # c
      <4>1. disk'[d] = disk[d] /\ since'[d] = since[d]
        BY <1>0, <1>1, <2>1, <3>2, WriteStream
      <4> QED BY <2>3, <4>1
    <3> QED BY <3>1, <3>2
  <2> QED BY <1>0, <1>1, <2>2, <2>3, SaveStays
<1>7. ASSUME NEW c \in Starts, PumpAdd(c) PROVE SaveInv'
  <2>1. /\ UNCHANGED <<live, spc, save, since, disk>>
        /\ counter' = [counter EXCEPT ![c] = counter[c] + 1]
    BY <1>7 DEF PumpAdd, startVars, fileVars, saveVars
  <2>2. \A d \in Starts : counter[d] <= counter'[d]
    BY <1>0, <1>1, <2>1 DEF PumpTypes
  <2> QED BY <1>0, <2>1, <2>2, SaveStays
<1>8. ASSUME NEW c \in Starts, PumpDone(c) PROVE SaveInv'
  <2>1. UNCHANGED <<live, spc, counter, save, since>> /\ Flush(c)
    BY <1>8 DEF PumpDone, startVars, saveVars
  <2> QED BY <1>0, <1>2, <2>1, FlushKeeps
<1>9. CASE StopReturn
  <2>1. UNCHANGED <<live, spc, counter, save, since>> /\ Flush(ktgt) /\ ktgt \in Starts
    BY <1>9 DEF StopReturn, StartInv, saveVars
  <2> QED BY <1>0, <1>2, <2>1, FlushKeeps
<1>10. ASSUME NEW c \in Starts,
              \/ ChildExit(c) \/ PumpHeader(c) \/ PumpNoHeader(c) \/ PumpNoStream(c) \/ failWith(c) \/ PumpEnd(c) \/ PumpBroken(c)
              \/ PumpLast(c) \/ PumpEmit(c) \/ MarkInactive(c) \/ TimerTake(c) \/ TimerEmit(c)
       PROVE SaveInv'
  BY <1>3, <1>10 DEF ChildExit, PumpHeader, PumpNoHeader, PumpNoStream, failWith, PumpEnd, PumpBroken, PumpLast, PumpEmit,
                    MarkInactive, TimerTake, TimerEmit, startVars, fileVars, saveVars
<1>11. CASE StopCall \/ StopKill
  BY <1>3, <1>11 DEF StopCall, StopKill, startVars, fileVars, saveVars
<1>12. CASE SaveCall
  <2>1. live \in Starts /\ spc[live] = "started" /\ UNCHANGED <<spc, counter>>
    BY <1>0, <1>12 DEF SaveCall, StartInv, RegistryTypes, startVars
  <2>2. save'.step = "flush" /\ save'.of = live /\ save'.seen = counter[live]
    BY <1>12 DEF SaveCall
  <2> QED BY <1>1, <2>1, <2>2 DEF SaveInv
<1>13. CASE SaveFlush
  <2>1. /\ save.step = "flush" /\ save'.step = "dialog" /\ save'.of = save.of
        /\ save'.seen = save.seen /\ save.seen \in Nat
        /\ UNCHANGED <<live, spc, counter, since>>
    BY <1>0, <1>13 DEF SaveFlush, startVars, SaveTypes
  <2>2. save.of \in Starts /\ spc[save.of] = "started" /\ save.seen <= counter[save.of]
    BY <2>1 DEF SaveInv
  <2>3. ASSUME live = save.of, NEW n \in Nat, since[save.of] <= n, n <= save.seen
        PROVE  Has(disk'[save.of], RecBody(n))
    <3>1. live # 0 /\ Flush(live) /\ ~shut[live]
      BY <1>13, <2>2, <2>3, StartsAssumption DEF SaveFlush, StartInv
    <3>2. disk'[live] = Stream(live)
      BY <1>0, <2>2, <2>3, <3>1, FlushStream
    <3>3. n <= Written(live)
      BY <1>1, <2>1, <2>2, <2>3 DEF Written
    <3> QED BY <2>2, <2>3, <3>1, <3>2, <3>3 DEF RecordInv, Recorded
  <2> QED BY <2>1, <2>2, <2>3 DEF SaveInv
<1>14. CASE SaveCopy
  BY <1>14 DEF SaveCopy, SaveInv, NoSave
<1> QED BY <1>4, <1>5, <1>6, <1>7, <1>8, <1>9, <1>10, <1>11, <1>12, <1>13, <1>14 DEF Next

LEMMA SaveIsWhole == TypeInv /\ StartInv /\ OverlapInv /\ RecordInv /\ SaveInv => SaveHasSeen
<1> SUFFICES ASSUME TypeInv, StartInv, OverlapInv, RecordInv, SaveInv,
                    save.step = "dialog", live = save.of, ~doubled, NEW n \in since[file] .. save.seen
             PROVE  \E i \in DOMAIN disk[file] : disk[file][i] = RecBody(n)
  BY DEF SaveHasSeen
<1>1. save.of \in Starts /\ spc[save.of] = "started" /\ save.seen \in Nat
  BY DEF SaveInv, TypeInv, SaveTypes
<1>2. live # 0 /\ ~shut[live]
  BY <1>1, StartsAssumption DEF StartInv
<1>3. file = save.of
  BY <1>1, <1>2 DEF OverlapInv
<1>4. since[file] \in Nat /\ n \in Nat /\ since[file] <= n /\ n <= save.seen
  BY <1>1, <1>3 DEF TypeInv, FileTypes
<1>5. Has(disk[file], RecBody(n))
  BY <1>1, <1>3, <1>4 DEF SaveInv
<1> QED BY <1>5 DEF Has

-----------------------------------------------------------------------------
(* The theorems.                                                           *)

IInv == TypeInv /\ StartInv /\ OverlapInv /\ PlaceInv /\ WindowInv /\ RecordInv /\ SaveInv

\* The inductive invariant: what each session's registration, batch, ring, mirror
\* and save promise the others.
THEOREM Invariant == Spec => []IInv
<1>1. Init => IInv
  BY InitTypes, StartInit, OverlapInit, PlaceInit, WindowInit, RecordInit, SaveInit DEF IInv
<1>2. IInv /\ [Next]_vars => IInv'
  BY TypeStep, StartInvStep, OverlapStep, PlaceStep, WindowStep, RecordStep, SaveStep DEF IInv
<1> QED BY <1>1, <1>2, PTL DEF Spec

LEMMA TypesAreTypeOK == TypeInv => TypeOK
<1> SUFFICES ASSUME TypeInv PROVE TypeOK
  OBVIOUS
<1>1. /\ {live, file, ktgt, save.of} \subseteq Starts \cup {0} /\ doubled \in BOOLEAN
      /\ spc \in [Starts -> {"idle", "probe", "spawn", "started", "failed"}]
      /\ active \in [Starts -> BOOLEAN] /\ child \in [Starts -> {"none", "up", "gone"}]
      /\ kpc \in {"off", "kill", "wait"}
  BY DEF TypeInv, RegistryTypes, FileTypes, SaveTypes
<1>2. /\ pump \in [Starts -> {"off", "header", "head", "body", "add", "emit", "last", "lastemit",
                              "ask", "mark", "flush", "done"}]
      /\ counter \in [Starts -> Nat] /\ \A c \in Starts : counter[c] <= MaxPackets
  BY DEF TypeInv, PumpTypes
<1>3. {batch, pout, tout, emitted} \subseteq [Starts -> SUBSET (Nat \ {0})]
  BY DEF TypeInv, PageTypes
<1>4. /\ {first, size, since} \subseteq [Starts -> Nat] /\ count \in [Starts -> 0 .. RingCap]
      /\ slots \in [Starts -> [0 .. RingCap - 1 -> Nat]]
  BY DEF TypeInv, RingTypes, FileTypes
<1>5. /\ {buf, disk} \subseteq [Starts -> Seq({"header", "head", "body"} \X Nat)]
      /\ {shut, split} \subseteq [Starts -> BOOLEAN]
  BY DEF TypeInv, FileTypes, Item
<1>6. /\ save \in [step : {"none", "flush", "dialog"}, of : Starts \cup {0}, seen : Nat]
      /\ saves \in 0 .. MaxSaves
  BY DEF TypeInv, SaveTypes
<1> QED BY <1>1, <1>2, <1>3, <1>4, <1>5, <1>6 DEF TypeOK

\* The pump and the timer detach the same batch and emit it outside the lock: every
\* packet is in exactly one of their hands, and a recent one is found by its number.
THEOREM PacketsWhole == Spec => []PacketsAreWhole
<1>1. IInv => PacketsAreWhole
  BY TypesAreTypeOK, OnePlaceIsOnce, WindowFinds DEF IInv, PacketsAreWhole
<1> QED BY <1>1, Invariant, PTL

\* The mirror is a pcap unless a rotation came between a head and its body, and no
\* two sessions write the path at a time, unless two Starts overlapped.
THEOREM MirrorSound == Spec => []MirrorIsSound
<1>1. IInv => MirrorIsSound
  BY RecordIsPcap, WriterIsKnown DEF IInv, MirrorIsSound
<1> QED BY <1>1, Invariant, PTL

\* Unless two Starts overlapped, a tcpdump that is read can be stopped, and a saved
\* file has every packet captured when the save was asked for.
THEOREM ReadsSound == Spec => []ReadsAreSound
<1>1. IInv => ReadsAreSound
  BY SaveIsWhole, WriterIsKnown DEF IInv, ReadsAreSound
<1> QED BY <1>1, Invariant, PTL
=============================================================================
