-------------------------- MODULE LaunchesProofs ----------------------------
(***************************************************************************)
(* A terminal, the logcat page and the mirror, for any filters, lines,     *)
(* chunks, bounds and calls: the log of a shell is the newest of what its  *)
(* terminal shows, the feed is set as the page is, the badge tells whether *)
(* a window is up.  Each is proved of its own component, and a step of     *)
(* MCLaunches is a step of one of them.                                    *)
(***************************************************************************)
EXTENDS MCLaunches, Integers, Sequences, FiniteSetTheorems, TLAPS

-----------------------------------------------------------------------------
(* The shell: what the terminal is all_sent.                                   *)

ShellTypes ==
  /\ chunks \in Nat
  /\ pump.at = "reopen" \/ pump \in [at : {"over", "read", "trim"}] \cup [at : {"send", "tee"}, c : Nat]
  /\ queue \in Seq(Nat) /\ shellBatch \in Seq(Nat) /\ shellShown \in Seq(Nat)
  /\ shellDone \in BOOLEAN

\* A chunk that is in the pump's hands, if one is.
Held == IF pump.at = "send" THEN 1 ELSE 0

\* The chunk before the first that the terminal was ever all_sent.
Sent == Len(shellShown) + Len(shellBatch) + Len(queue) + Held
Base == chunks - Sent

\* Each sequence holds the numbers that follow those of the one before it.
InTurn ==
  /\ \A i \in 1 .. Len(shellShown) : shellShown[i] = Base + i
  /\ \A i \in 1 .. Len(shellBatch) : shellBatch[i] = Base + Len(shellShown) + i
  /\ \A i \in 1 .. Len(queue) : queue[i] = Base + Len(shellShown) + Len(shellBatch) + i

TerminalInv ==
  /\ ShellTypes /\ InTurn
  /\ pump.at \in {"send", "tee"} => pump.c = chunks
  /\ sess = "none" => ~shellDone /\ pump.at = "over"
  /\ shellDone => shellBatch = <<>> /\ queue = <<>> /\ pump.at = "over"

\* Two sequences that follow one another.
LEMMA JoinedLength ==
  ASSUME NEW s \in Seq(Nat), NEW t \in Seq(Nat)
  PROVE  s \o t \in Seq(Nat) /\ Len(s \o t) = Len(s) + Len(t)
OBVIOUS

LEMMA Joined ==
  ASSUME NEW s \in Seq(Nat), NEW t \in Seq(Nat)
  PROVE  /\ s \o t \in Seq(Nat) /\ Len(s \o t) = Len(s) + Len(t)
         /\ \A i \in 1 .. Len(s) : (s \o t)[i] = s[i]
         /\ \A i \in 1 .. Len(t) : (s \o t)[Len(s) + i] = t[i]
         /\ \A i \in Len(s) + 1 .. Len(s) + Len(t) : (s \o t)[i] = t[i - Len(s)]
OBVIOUS

LEMMA Consecutive ==
  ASSUME NEW b \in Int, NEW s \in Seq(Nat), NEW t \in Seq(Nat), NEW k \in Int,
         \A i \in 1 .. Len(s) : s[i] = b + i,
         k = b + Len(s), \A i \in 1 .. Len(t) : t[i] = k + i
  PROVE  \A i \in 1 .. Len(s \o t) : (s \o t)[i] = b + i
BY Joined

LEMMA InTurnIsWhole == TerminalInv => Shell!TerminalIsWhole
<1> SUFFICES ASSUME TerminalInv PROVE Shell!TerminalIsWhole OBVIOUS
<1> USE DEF TerminalInv, ShellTypes
<1> DEFINE end == IF pump.at = "send" THEN <<pump.c>> ELSE <<>>
           all_sent == shellShown \o shellBatch \o queue \o end
<1>1. end \in Seq(Nat) /\ Len(end) = Held /\ \A i \in 1 .. Len(end) : end[i] = chunks BY DEF Held
<1> HIDE DEF end
<1>2. Base \in Int /\ Sent \in Nat BY DEF Base, Sent, Held
<1>3. /\ shellShown \o shellBatch \in Seq(Nat)
      /\ Len(shellShown \o shellBatch) = Len(shellShown) + Len(shellBatch)
  BY Joined
<1>4. /\ (shellShown \o shellBatch) \o queue \in Seq(Nat)
      /\ Len((shellShown \o shellBatch) \o queue) = Len(shellShown) + Len(shellBatch) + Len(queue)
  BY <1>3, Joined
<1>5. all_sent \in Seq(Nat) /\ Len(all_sent) = Sent BY <1>1, <1>4, JoinedLength DEF Sent
<1>6. \A i \in 1 .. Len(shellShown \o shellBatch) : (shellShown \o shellBatch)[i] = Base + i
  <2>1. Base + Len(shellShown) \in Int BY <1>2
  <2> QED BY <1>2, <2>1, Consecutive DEF InTurn
<1>7. \A i \in 1 .. Len((shellShown \o shellBatch) \o queue) : ((shellShown \o shellBatch) \o queue)[i] = Base + i
  <2>1. Base + Len(shellShown) + Len(shellBatch) \in Int BY <1>2
  <2>2. Base + Len(shellShown) + Len(shellBatch) = Base + Len(shellShown \o shellBatch) BY <1>2, <1>3
  <2> QED BY <1>2, <1>3, <1>6, <2>1, <2>2, Consecutive DEF InTurn
<1>8. \A i \in 1 .. Len(all_sent) : all_sent[i] = Base + i
  <2> DEFINE k == Base + Len((shellShown \o shellBatch) \o queue)
  <2>1. k \in Int /\ \A i \in 1 .. Len(end) : end[i] = k + i BY <1>1, <1>2, <1>4 DEF Base, Sent, Held
  <2> QED BY <1>1, <1>2, <1>4, <1>7, <2>1, Consecutive
<1> HIDE DEF all_sent
<1>9. all_sent # <<>> => all_sent[Len(all_sent)] = chunks /\ \A n \in 1 .. Len(all_sent) - 1 : all_sent[n + 1] = all_sent[n] + 1
  <2> SUFFICES ASSUME all_sent # <<>> PROVE all_sent[Len(all_sent)] = chunks /\ \A n \in 1 .. Len(all_sent) - 1 : all_sent[n + 1] = all_sent[n] + 1
    OBVIOUS
  <2>1. Len(all_sent) \in 1 .. Len(all_sent) BY <1>5
  <2>2. all_sent[Len(all_sent)] = chunks BY <1>2, <1>5, <1>8, <2>1 DEF Base
  <2>3. ASSUME NEW n \in 1 .. Len(all_sent) - 1 PROVE all_sent[n + 1] = all_sent[n] + 1
    <3>1. n \in 1 .. Len(all_sent) /\ n + 1 \in 1 .. Len(all_sent) BY <1>5
    <3> QED BY <1>2, <1>8, <3>1
  <2> QED BY <2>2, <2>3
<1> QED BY <1>9 DEF Shell!TerminalIsWhole, Shell!Last, all_sent, end

LEMMA TerminalStep ==
  ASSUME TerminalInv, [Shell!Next]_Shell!vars
  PROVE  TerminalInv'
<1> USE DEF TerminalInv, ShellTypes, Shell!log, Shell!ui, Shell!Rest
<1> DEFINE Out == <<pump, queue, shellBatch, shellShown, shellDone, chunks>>
<1>1. CASE UNCHANGED Out /\ (sess' = "none" => sess = "none")
  BY <1>1 DEF InTurn, Base, Sent, Held
<1>2. CASE Shell!StartShell BY <1>2 DEF Shell!StartShell, InTurn, Base, Sent, Held
<1>3. CASE Shell!PumpReads BY <1>3 DEF Shell!PumpReads, InTurn, Base, Sent, Held
<1>4. CASE Shell!PumpSends
  <2>1. Len(queue') = Len(queue) + 1 /\ queue' \in Seq(Nat) BY <1>4 DEF Shell!PumpSends
  <2>2. Sent' = Sent /\ Base' = Base /\ Base \in Int /\ pump' \in [at : {"tee"}, c : Nat] /\ pump'.c = chunks
    <3>1. pump.at = "send" /\ pump.c = chunks /\ pump' = [pump EXCEPT !.at = "tee"] BY <1>4 DEF Shell!PumpSends
    <3>2. pump' \in [at : {"tee"}, c : Nat] /\ pump'.c = chunks BY <3>1
    <3> QED BY <1>4, <2>1, <3>1, <3>2 DEF Shell!PumpSends, Base, Sent, Held
  <2>3. \A i \in 1 .. Len(queue') : queue'[i] = Base + Len(shellShown) + Len(shellBatch) + i
    <3>1. /\ pump.at = "send" /\ pump.c = chunks /\ queue' = Append(queue, chunks) /\ chunks \in Nat
      BY <1>4 DEF Shell!PumpSends
    <3>2. Base + Len(shellShown) + Len(shellBatch) + Len(queue) + 1 = chunks BY <3>1 DEF Base, Sent, Held
    <3>3. \A i \in 1 .. Len(queue) : queue'[i] = queue[i] BY <3>1
    <3>4. queue'[Len(queue) + 1] = chunks BY <3>1
    <3>5. ASSUME NEW i \in 1 .. Len(queue') PROVE queue'[i] = Base + Len(shellShown) + Len(shellBatch) + i
      <4>1. CASE i \in 1 .. Len(queue) BY <3>3, <4>1 DEF InTurn
      <4>2. CASE i = Len(queue) + 1 BY <2>2, <3>2, <3>4, <4>2
      <4> QED BY <2>1, <4>1, <4>2
    <3> QED BY <3>5
  <2> QED BY <1>4, <2>1, <2>2, <2>3 DEF Shell!PumpSends, InTurn
<1>5. CASE Shell!PumpEnds BY <1>5 DEF Shell!PumpEnds, InTurn, Base, Sent, Held
<1>6. CASE Shell!PumpTees
  <2>1. UNCHANGED <<queue, shellBatch, shellShown, shellDone, chunks, sess>> /\ pump.at = "tee"
        /\ pump' \in [at : {"read", "trim"}]
    BY <1>6 DEF Shell!PumpTees
  <2> QED BY <2>1 DEF InTurn, Base, Sent, Held
<1>7. CASE Shell!Gather
  <2>1. /\ queue # <<>> /\ shellBatch' = Append(shellBatch, Head(queue)) /\ queue' = Tail(queue)
        /\ UNCHANGED <<sess, pump, shellShown, shellDone, chunks>>
    BY <1>7 DEF Shell!Gather
  <2>2. /\ Len(queue) > 0 /\ Len(queue') = Len(queue) - 1 /\ Len(shellBatch') = Len(shellBatch) + 1
        /\ queue' \in Seq(Nat) /\ shellBatch' \in Seq(Nat) /\ Head(queue) = queue[1]
    BY <2>1
  <2>3. Sent' = Sent /\ Base' = Base /\ Base \in Int BY <2>1, <2>2 DEF Base, Sent, Held
  <2>4. \A i \in 1 .. Len(shellBatch') : shellBatch'[i] = Base + Len(shellShown) + i
    <3>1. queue[1] = Base + Len(shellShown) + Len(shellBatch) + 1 BY <2>2 DEF InTurn
    <3>2. shellBatch' = Append(shellBatch, queue[1]) BY <2>1, <2>2
    <3>3. ASSUME NEW i \in 1 .. Len(shellBatch') PROVE shellBatch'[i] = Base + Len(shellShown) + i
      <4>1. CASE i \in 1 .. Len(shellBatch) BY <3>2, <4>1 DEF InTurn
      <4>2. CASE i = Len(shellBatch) + 1
        <5>1. shellBatch'[i] = queue[1] BY <2>2, <3>2, <4>2
        <5> QED BY <2>3, <3>1, <4>2, <5>1
      <4> QED BY <2>2, <4>1, <4>2
    <3> QED BY <3>3
  <2>5. \A i \in 1 .. Len(queue') : queue'[i] = Base + Len(shellShown) + Len(shellBatch') + i
    <3>1. \A i \in 1 .. Len(queue') : queue'[i] = queue[i + 1] /\ i + 1 \in 1 .. Len(queue) BY <2>1, <2>2
    <3> QED BY <3>1, <2>2, <2>3 DEF InTurn
  <2>6. InTurn' BY <2>1, <2>2, <2>3, <2>4, <2>5 DEF InTurn
  <2> QED BY <2>1, <2>2, <2>6
<1>8. CASE shellShown' = shellShown \o shellBatch /\ shellBatch' = <<>> /\ UNCHANGED <<sess, pump, queue, chunks>>
           /\ (UNCHANGED shellDone \/ (shellDone' = TRUE /\ pump.at = "over" /\ queue = <<>> /\ sess # "none"))
  <2>1. shellShown' \in Seq(Nat) /\ Len(shellShown') = Len(shellShown) + Len(shellBatch) BY <1>8, Joined
  <2>2. Len(shellBatch') = 0 /\ shellBatch' \in Seq(Nat) BY <1>8
  <2>3. Sent' = Sent /\ Base' = Base /\ Base \in Int BY <1>8, <2>1, <2>2 DEF Base, Sent, Held
  <2>4. \A i \in 1 .. Len(shellShown') : shellShown'[i] = Base + i
    <3>1. Base + Len(shellShown) \in Int BY <2>3
    <3> QED BY <1>8, <2>3, <3>1, Consecutive DEF InTurn
  <2>5. InTurn' BY <1>8, <2>2, <2>3, <2>4 DEF InTurn
  <2>6. ShellTypes' BY <1>8, <2>1, <2>2
  <2>7. shellDone' => shellBatch' = <<>> /\ queue' = <<>> /\ pump'.at = "over" BY <1>8
  <2> QED BY <1>8, <2>5, <2>6, <2>7
<1>9. CASE Shell!Emit BY <1>9, <1>8 DEF Shell!Emit
<1>10. CASE Shell!Done BY <1>10, <1>8 DEF Shell!Done, Shell!Drains
<1>11. CASE Shell!Trim \/ Shell!TrimReopens
  <2>1. UNCHANGED <<queue, shellBatch, shellShown, shellDone, chunks, sess>> /\ pump.at \in {"trim", "reopen"}
    BY <1>11 DEF Shell!Trim, Shell!TrimReopens
  <2>2. pump' = [at |-> "read"] \/ pump'.at = "reopen" BY <1>11 DEF Shell!Trim, Shell!TrimReopens
  <2>3. Held' = Held BY <2>1, <2>2 DEF Held
  <2>4. InTurn' BY <2>1, <2>3 DEF InTurn, Base, Sent
  <2> QED BY <2>1, <2>2, <2>4
<1>12. CASE Shell!OpenScrollbackWriter \/ Shell!Register \/ Shell!Exits \/ Shell!CloseShell \/ Shell!StopReturns \/ Shell!ClearShellHistory
            \/ UNCHANGED Shell!vars
  BY <1>12, <1>1 DEF Shell!OpenScrollbackWriter, Shell!Register, Shell!Exits, Shell!CloseShell, Shell!StopReturns, Shell!ClearShellHistory, Shell!vars
<1>13. CASE \E r \in Readers : Shell!ReadShellHistory(r) \/ Shell!FlushTee(r) \/ Shell!FlushEnds(r) \/ Shell!ReadScrollback(r)
  BY <1>13, <1>1 DEF Shell!ReadShellHistory, Shell!FlushTee, Shell!FlushEnds, Shell!ReadScrollback
<1> QED BY <1>2, <1>3, <1>4, <1>5, <1>6, <1>7, <1>9, <1>10, <1>11, <1>12, <1>13 DEF Shell!Next

-----------------------------------------------------------------------------
(* The shell: what the log keeps.                                          *)

\* The file d and the buffer b are the end of what was handed over, t: all of it, or the
\* file alone has as much as a trim keeps.
Newest(d, b, t) ==
  /\ Len(d) + Len(b) <= Len(t)
  /\ Len(d) + Len(b) = Len(t) \/ Len(d) >= Cap
  /\ \A i \in 1 .. Len(d) : d[i] = t[Len(t) - (Len(d) + Len(b)) + i]
  /\ \A i \in 1 .. Len(b) : b[i] = t[Len(t) - Len(b) + i]
Rising(t) == \A i, j \in 1 .. Len(t) : i < j => t[i] < t[j]
\* What a reader waits for, n, is in s.
Reaches(n, s) == n = 0 \/ (s # <<>> /\ n <= s[Len(s)])

LEMMA NewestAppend ==
  ASSUME NEW d \in Seq(Nat), NEW b \in Seq(Nat), NEW t \in Seq(Nat), NEW c \in Nat, Newest(d, b, t)
  PROVE  Newest(d, Append(b, c), Append(t, c))
<1>1. /\ Len(Append(t, c)) = Len(t) + 1 /\ Len(Append(b, c)) = Len(b) + 1
      /\ \A i \in 1 .. Len(t) : Append(t, c)[i] = t[i]
      /\ Append(t, c)[Len(t) + 1] = c
  OBVIOUS
<1>2. \A i \in 1 .. Len(b) : Append(b, c)[i] = b[i] OBVIOUS
<1>3. Append(b, c)[Len(b) + 1] = c OBVIOUS
<1>4. \A i \in 1 .. Len(d) : d[i] = Append(t, c)[Len(t) + 1 - (Len(d) + Len(b) + 1) + i]
  <2> SUFFICES ASSUME NEW i \in 1 .. Len(d) PROVE d[i] = Append(t, c)[Len(t) + 1 - (Len(d) + Len(b) + 1) + i] OBVIOUS
  <2>1. Len(t) - (Len(d) + Len(b)) + i \in 1 .. Len(t) BY DEF Newest
  <2>2. Len(t) + 1 - (Len(d) + Len(b) + 1) + i = Len(t) - (Len(d) + Len(b)) + i OBVIOUS
  <2> QED BY <1>1, <2>1, <2>2 DEF Newest
<1>5. \A i \in 1 .. Len(b) + 1 : Append(b, c)[i] = Append(t, c)[Len(t) + 1 - (Len(b) + 1) + i]
  <2> SUFFICES ASSUME NEW i \in 1 .. Len(b) + 1 PROVE Append(b, c)[i] = Append(t, c)[Len(t) + 1 - (Len(b) + 1) + i] OBVIOUS
  <2>1. Len(t) + 1 - (Len(b) + 1) + i = Len(t) - Len(b) + i OBVIOUS
  <2>2. CASE i = Len(b) + 1 BY <1>1, <1>3, <2>1, <2>2
  <2>3. CASE i \in 1 .. Len(b)
    <3>1. Len(t) - Len(b) + i \in 1 .. Len(t) BY <2>3 DEF Newest
    <3> QED BY <1>1, <1>2, <2>1, <2>3, <3>1 DEF Newest
  <2>4. i = Len(b) + 1 \/ i \in 1 .. Len(b) OBVIOUS
  <2> QED BY <2>2, <2>3, <2>4
<1>6. Len(d) + Len(b) + 1 <= Len(t) + 1 /\ (Len(d) + Len(b) + 1 = Len(t) + 1 \/ Len(d) >= Cap)
  BY CapAssumption DEF Newest
<1> DEFINE more == Append(b, c)
           all_of == Append(t, c)
<1>8. /\ Len(all_of) = Len(t) + 1 /\ Len(more) = Len(b) + 1
      /\ \A i \in 1 .. Len(d) : d[i] = all_of[Len(t) + 1 - (Len(d) + Len(b) + 1) + i]
      /\ \A i \in 1 .. Len(b) + 1 : more[i] = all_of[Len(t) + 1 - (Len(b) + 1) + i]
  BY <1>1, <1>4, <1>5
<1> HIDE DEF more, all_of
<1>9. Newest(d, more, all_of)
  <2>1. Len(d) + Len(more) = Len(d) + Len(b) + 1 BY <1>8
  <2>2. \A i \in 1 .. Len(d) : d[i] = all_of[Len(all_of) - (Len(d) + Len(more)) + i] BY <1>8, <2>1
  <2>3. \A i \in 1 .. Len(more) : more[i] = all_of[Len(all_of) - Len(more) + i] BY <1>8
  <2>4. Len(d) + Len(more) <= Len(all_of) /\ (Len(d) + Len(more) = Len(all_of) \/ Len(d) >= Cap)
    BY <1>6, <1>8, <2>1
  <2> QED BY <2>2, <2>3, <2>4 DEF Newest
<1> QED BY <1>9 DEF more, all_of

LEMMA NewestFlush ==
  ASSUME NEW d \in Seq(Nat), NEW b \in Seq(Nat), NEW t \in Seq(Nat), Newest(d, b, t)
  PROVE  Newest(d \o b, <<>>, t)
<1>1. Len(d \o b) = Len(d) + Len(b) /\ Len(<<>>) = 0 BY JoinedLength
<1>2. ASSUME NEW i \in 1 .. Len(d \o b) PROVE (d \o b)[i] = t[Len(t) - Len(d \o b) + i]
  <2>1. CASE i \in 1 .. Len(d) BY <1>1, <2>1, Joined DEF Newest
  <2>2. CASE i \in Len(d) + 1 .. Len(d) + Len(b)
    <3>1. (d \o b)[i] = b[i - Len(d)] /\ i - Len(d) \in 1 .. Len(b) BY <2>2, Joined
    <3>2. b[i - Len(d)] = t[Len(t) - Len(b) + (i - Len(d))] BY <3>1 DEF Newest
    <3>3. Len(t) - Len(b) + (i - Len(d)) = Len(t) - Len(d \o b) + i BY <1>1
    <3> QED BY <3>1, <3>2, <3>3
  <2> QED BY <1>1, <2>1, <2>2
<1>3. Len(d \o b) + Len(<<>>) <= Len(t) /\ (Len(d \o b) + Len(<<>>) = Len(t) \/ Len(d \o b) >= Cap)
  BY <1>1, CapAssumption DEF Newest
<1>4. \A i \in 1 .. Len(d \o b) : (d \o b)[i] = t[Len(t) - (Len(d \o b) + Len(<<>>)) + i] BY <1>1, <1>2
<1>5. \A i \in 1 .. Len(<<>>) : <<>>[i] = t[Len(t) - Len(<<>>) + i] BY <1>1
<1> QED BY <1>3, <1>4, <1>5 DEF Newest

LEMMA Tails ==
  ASSUME NEW d \in Seq(Nat), Len(d) >= Cap
  PROVE  /\ Shell!TailOf(d, Cap) \in Seq(Nat) /\ Len(Shell!TailOf(d, Cap)) = Cap
         /\ \A i \in 1 .. Cap : Shell!TailOf(d, Cap)[i] = d[Len(d) - Cap + i]
<1>1. CASE Len(d) = Cap BY <1>1, CapAssumption DEF Shell!TailOf
<1>2. CASE Len(d) > Cap
  <2>1. Shell!TailOf(d, Cap) = SubSeq(d, Len(d) - Cap + 1, Len(d)) BY <1>2, CapAssumption DEF Shell!TailOf
  <2>2. Len(d) - Cap + 1 \in 1 .. Len(d) BY <1>2, CapAssumption
  <2> QED BY <2>1, <2>2, CapAssumption
<1>3. Len(d) = Cap \/ Len(d) > Cap BY CapAssumption
<1> QED BY <1>1, <1>2, <1>3

LEMMA NewestTail ==
  ASSUME NEW d \in Seq(Nat), NEW t \in Seq(Nat), Newest(d, <<>>, t), Len(d) >= Cap
  PROVE  Newest(Shell!TailOf(d, Cap), <<>>, t)
<1> DEFINE tail == Shell!TailOf(d, Cap)
<1>1. tail \in Seq(Nat) /\ Len(tail) = Cap /\ \A i \in 1 .. Cap : tail[i] = d[Len(d) - Cap + i] BY Tails
<1> HIDE DEF tail
<1>2. ASSUME NEW i \in 1 .. Cap PROVE tail[i] = t[Len(t) - (Cap + Len(<<>>)) + i]
  <2>1. Len(d) - Cap + i \in 1 .. Len(d) BY CapAssumption
  <2>2. d[Len(d) - Cap + i] = t[Len(t) - (Len(d) + Len(<<>>)) + (Len(d) - Cap + i)] BY <2>1 DEF Newest
  <2>3. Len(t) - (Len(d) + Len(<<>>)) + (Len(d) - Cap + i) = Len(t) - (Cap + Len(<<>>)) + i BY CapAssumption
  <2> QED BY <1>1, <2>2, <2>3
<1>3. Newest(tail, <<>>, t) BY <1>1, <1>2, CapAssumption DEF Newest
<1> QED BY <1>3 DEF tail

LEMMA NewestIsSuffix ==
  ASSUME NEW d \in Seq(Nat), NEW t \in Seq(Nat), Newest(d, <<>>, t)
  PROVE  Shell!IsSuffix(d, t)
<1> DEFINE u == Shell!Reverse(d)
           v == Shell!Reverse(t)
<1>1. u \in Seq(Nat) /\ Len(u) = Len(d) /\ \A i \in 1 .. Len(d) : u[i] = d[Len(d) - i + 1] BY DEF Shell!Reverse
<1>2. v \in Seq(Nat) /\ Len(v) = Len(t) /\ \A i \in 1 .. Len(t) : v[i] = t[Len(t) - i + 1] BY DEF Shell!Reverse
<1> HIDE DEF u, v
<1>3. Len(d) <= Len(t) BY DEF Newest
<1>4. ASSUME NEW i \in 1 .. Len(d) PROVE u[i] = v[i]
  <2>1. Len(d) - i + 1 \in 1 .. Len(d) /\ i \in 1 .. Len(t) BY <1>3
  <2>2. d[Len(d) - i + 1] = t[Len(t) - (Len(d) + Len(<<>>)) + (Len(d) - i + 1)] BY <2>1 DEF Newest
  <2>3. Len(t) - (Len(d) + Len(<<>>)) + (Len(d) - i + 1) = Len(t) - i + 1 OBVIOUS
  <2> QED BY <1>1, <1>2, <2>1, <2>2, <2>3
<1>5. SubSeq(u, 1, Len(u)) = SubSeq(v, 1, Len(u)) BY <1>1, <1>2, <1>3, <1>4
<1> QED BY <1>1, <1>2, <1>3, <1>5 DEF Shell!IsSuffix, Shell!IsPrefix, u, v

LEMMA ReachesAll ==
  ASSUME NEW d \in Seq(Nat), NEW b \in Seq(Nat), NEW t \in Seq(Nat), Newest(d, b, t), NEW n \in Nat, Reaches(n, t)
  PROVE  Reaches(n, d \o b)
<1> SUFFICES ASSUME n # 0 PROVE d \o b # <<>> /\ n <= (d \o b)[Len(d \o b)] BY DEF Reaches
<1>1. t # <<>> /\ n <= t[Len(t)] BY DEF Reaches
<1>2. Len(t) > 0 BY <1>1
<1>3. Newest(d \o b, <<>>, t) /\ d \o b \in Seq(Nat) /\ Len(d \o b) = Len(d) + Len(b) BY NewestFlush, JoinedLength
<1>4. Len(d \o b) > 0 BY <1>2, <1>3, CapAssumption DEF Newest
<1>5. (d \o b)[Len(d \o b)] = t[Len(t) - (Len(d \o b) + Len(<<>>)) + Len(d \o b)] BY <1>3, <1>4, SMTT(30) DEF Newest
<1>6. Len(t) - (Len(d \o b) + Len(<<>>)) + Len(d \o b) = Len(t) BY <1>3
<1> QED BY <1>1, <1>3, <1>4, <1>5, <1>6

LEMMA ReachesMore ==
  ASSUME NEW d \in Seq(Nat), NEW b \in Seq(Nat), NEW t \in Seq(Nat), Newest(d, b, t), Rising(t), NEW n \in Nat, Reaches(n, d)
  PROVE  Reaches(n, d \o b)
<1> SUFFICES ASSUME n # 0 PROVE Reaches(n, d \o b) BY DEF Reaches
<1>1. d # <<>> /\ n <= d[Len(d)] /\ Len(d) > 0 BY DEF Reaches
<1>2. d[Len(d)] = t[Len(t) - (Len(d) + Len(b)) + Len(d)] BY <1>1 DEF Newest
<1>3. Len(t) - (Len(d) + Len(b)) + Len(d) \in 1 .. Len(t) /\ Len(t) \in 1 .. Len(t) BY <1>1 DEF Newest
<1>4. d[Len(d)] <= t[Len(t)]
  <2>1. ASSUME NEW x \in 1 .. Len(t) PROVE t[x] <= t[Len(t)]
    <3>1. t[x] \in Nat /\ t[Len(t)] \in Nat BY <1>3
    <3>2. CASE x = Len(t) BY <3>1, <3>2
    <3>3. CASE x < Len(t)
      <4>1. t[x] < t[Len(t)] BY <1>3, <3>3 DEF Rising
      <4> QED BY <3>1, <4>1
    <3> QED BY <3>2, <3>3
  <2> QED BY <1>2, <1>3, <2>1
<1>5. d[Len(d)] \in Nat /\ t[Len(t)] \in Nat BY <1>1, <1>3
<1>6. Reaches(n, t) BY <1>1, <1>3, <1>4, <1>5 DEF Reaches
<1> QED BY <1>6, ReachesAll

LEMMA ReachesTail ==
  ASSUME NEW d \in Seq(Nat), NEW n \in Nat, Reaches(n, d)
  PROVE  Reaches(n, Shell!TailOf(d, Cap))
<1>1. CASE Len(d) < Cap BY <1>1, CapAssumption DEF Shell!TailOf
<1>2. CASE Len(d) >= Cap
  <2>1. /\ Shell!TailOf(d, Cap) \in Seq(Nat) /\ Len(Shell!TailOf(d, Cap)) = Cap
        /\ Shell!TailOf(d, Cap)[Cap] = d[Len(d) - Cap + Cap]
    BY <1>2, Tails, CapAssumption
  <2> QED BY <1>2, <2>1, CapAssumption DEF Reaches
<1> QED BY <1>1, <1>2, CapAssumption

LogTypes ==
  /\ shellDisk \in Seq(Nat) /\ shellBuf \in Seq(Nat) /\ teed \in Seq(Nat)
  /\ Len(shellBuf) <= BufCap
  /\ damaged \in BOOLEAN /\ err \in BOOLEAN /\ linked \in BOOLEAN
  /\ fd \in {"none", "open", "closed"}
  /\ sess \in {"none", "started", "logged", "open", "closing", "closed"}
  /\ reader \in [Readers -> [pc : {"idle"}] \cup [pc : {"look", "read"}, need : Nat]
                            \cup [pc : {"flush", "read"}, need : Nat, n : Nat]]
  /\ pump.at = "reopen" => pump.tail \in Seq(Nat)
  /\ read.need \in Nat

\* What was handed to the log came in order.
TeedInv ==
  /\ Rising(teed)
  /\ \A i \in 1 .. Len(teed) : teed[i] <= chunks /\ (pump.at \in {"send", "tee"} => teed[i] < chunks)

\* The buffer, but for one that a flush has written already.
Buffered == IF Shell!Flushing THEN <<>> ELSE shellBuf

\* Until something damages it, the log is open from the time the session is entered and
\* the file with its buffer is the end of the output; a reader that flushes is alone.
FileInv ==
  /\ ~err /\ fd # "closed"
  /\ fd = "none" <=> sess \in {"none", "started"}
  /\ fd = "none" => /\ shellBuf = <<>> /\ teed = shellDisk /\ (linked \/ shellDisk = <<>>)
                    /\ pump.at \notin {"trim", "reopen"}
  /\ fd = "open" => linked
  /\ pump.at = "reopen" => /\ shellBuf = <<>> /\ Len(shellDisk) >= 2 * Cap
                           /\ pump.tail = Shell!TailOf(shellDisk, Cap)
  /\ Newest(shellDisk, Buffered, teed)
FlushInv ==
  \A r \in Readers : reader[r].pc = "flush" =>
    /\ fd = "open" /\ reader[r].n = Len(shellBuf)
    /\ \A q \in Readers : reader[q].pc = "flush" => q = r

\* What a reader waits for was handed over, and once it flushed, is in the file.
ReaderInv ==
  /\ \A r \in Readers :
       /\ reader[r].pc = "look" => fd = "open" /\ Reaches(reader[r].need, teed)
       /\ reader[r].pc \in {"flush", "read"} =>
            Reaches(reader[r].need, shellDisk) /\ (reader[r].need # 0 => fd = "open")
  /\ read.need = 0 \/ (read.seq # <<>> /\ Shell!Last(read.seq) >= read.need)

Undamaged == FileInv /\ FlushInv /\ ReaderInv
LogInv == TerminalInv /\ LogTypes /\ TeedInv /\ (~damaged => Undamaged)

LogVars == <<shellBuf, fd, err, shellDisk, linked, teed, damaged, reader, read>>

\* Steps that leave the log and its readers alone.
LEMMA LogRests ==
  ASSUME LogInv, UNCHANGED LogVars, UNCHANGED sess \/ (fd # "none" /\ sess # "none" /\ sess # "started" /\ sess' \in {"open", "closing", "closed"})
                 \/ (sess = "none" /\ sess' = "started"),
         TerminalInv', UNCHANGED <<pump, chunks>> \/ (chunks' >= chunks /\ pump'.at \notin {"reopen", "trim"} /\ TeedInv')
  PROVE  LogInv'
<1> USE DEF LogInv, LogVars
<1>1. LogTypes' BY DEF LogTypes
<1>2. TeedInv' BY DEF TeedInv, Rising
<1>3. ASSUME ~damaged' PROVE Undamaged'
  <2>1. Undamaged BY <1>3
  <2>2. Buffered' = Buffered BY DEF Buffered, Shell!Flushing
  <2>3. FileInv' BY <2>1, <2>2 DEF Undamaged, FileInv, Newest
  <2>4. FlushInv' BY <2>1 DEF Undamaged, FlushInv
  <2>5. ReaderInv' BY <2>1 DEF Undamaged, ReaderInv, Reaches
  <2> QED BY <2>3, <2>4, <2>5 DEF Undamaged
<1> QED BY <1>1, <1>2, <1>3

LEMMA ReadStep ==
  ASSUME LogInv, TerminalInv', NEW r \in Readers,
         Shell!ReadShellHistory(r) \/ Shell!ReadScrollback(r)
  PROVE  LogInv'
<1> USE DEF LogInv
<1>1. /\ UNCHANGED <<sess, pump, chunks, shellBuf, fd, err, shellDisk, linked, teed, damaged>>
      /\ reader[r].pc # "flush"
  BY DEF Shell!ReadShellHistory, Shell!ReadScrollback, Shell!log, Shell!Idle
<1>2. CASE Shell!ReadShellHistory(r)
  <2> DEFINE need == IF sess = "open" /\ teed # <<>> THEN teed[Len(teed)] ELSE 0
             at == IF sess = "open" /\ fd # "none" THEN "look" ELSE "read"
  <2>1. /\ reader' = [reader EXCEPT ![r] = [pc |-> at, need |-> need]] /\ read' = [seq |-> <<>>, need |-> 0]
    BY <1>2 DEF Shell!ReadShellHistory, Shell!NothingRead, Shell!Last
  <2>2. need \in Nat /\ Reaches(need, teed) BY DEF LogTypes, Reaches
  <2>3. LogTypes' BY <1>1, <2>1, <2>2 DEF LogTypes
  <2>4. TeedInv' BY <1>1 DEF TeedInv, Rising
  <2>5. ASSUME ~damaged' PROVE Undamaged'
    <3>1. Undamaged BY <1>1, <2>5
    <3>2. at = "read" => need = 0 BY <3>1 DEF Undamaged, FileInv
    <3>3. at = "look" => fd = "open" BY <3>1 DEF Undamaged, FileInv, LogTypes
    <3> HIDE DEF need, at
    <3>4. reader' \in [Readers -> [pc : {"idle"}] \cup [pc : {"look", "read"}, need : Nat] \cup [pc : {"flush", "read"}, need : Nat, n : Nat]]
          /\ \A q \in Readers : reader'[q] = IF q = r THEN [pc |-> at, need |-> need] ELSE reader[q]
      BY <2>1, <2>3 DEF LogTypes
    <3>5. at \in {"look", "read"} BY DEF at
    <3>6. Buffered' = Buffered BY <1>1, <3>4, <3>5 DEF Buffered, Shell!Flushing
    <3>7. FileInv' BY <1>1, <3>1, <3>6 DEF Undamaged, FileInv, Newest
    <3>8. FlushInv' BY <1>1, <3>1, <3>4, <3>5 DEF Undamaged, FlushInv
    <3>9. ReaderInv' BY <1>1, <2>1, <2>2, <3>1, <3>2, <3>3, <3>4, <3>5 DEF Undamaged, ReaderInv, Reaches
    <3> QED BY <3>7, <3>8, <3>9 DEF Undamaged
  <2> QED BY <2>3, <2>4, <2>5
<1>3. CASE Shell!ReadScrollback(r)
  <2>1. /\ reader[r].pc = "read" /\ reader' = [reader EXCEPT ![r] = [pc |-> "idle"]]
        /\ read' = [seq |-> IF linked THEN Shell!TailOf(shellDisk, Cap) ELSE <<>>, need |-> reader[r].need]
    BY <1>3 DEF Shell!ReadScrollback, Shell!Idle
  <2>2. reader[r].need \in Nat BY <2>1 DEF LogTypes
  <2>3. LogTypes' BY <1>1, <2>1, <2>2 DEF LogTypes
  <2>4. TeedInv' BY <1>1 DEF TeedInv, Rising
  <2>5. ASSUME ~damaged' PROVE Undamaged'
    <3>1. Undamaged BY <1>1, <2>5
    <3>2. \A q \in Readers : reader'[q] = IF q = r THEN [pc |-> "idle"] ELSE reader[q] BY <2>1 DEF LogTypes
    <3>3. Buffered' = Buffered BY <1>1, <3>2 DEF Buffered, Shell!Flushing
    <3>4. FileInv' BY <1>1, <3>1, <3>3 DEF Undamaged, FileInv, Newest
    <3>5. FlushInv' BY <1>1, <3>1, <3>2 DEF Undamaged, FlushInv
    <3>6. Reaches(reader[r].need, shellDisk) /\ (reader[r].need # 0 => linked)
      BY <2>1, <3>1 DEF Undamaged, ReaderInv, FileInv
    <3>7. Reaches(reader[r].need, Shell!TailOf(shellDisk, Cap)) BY <2>2, <3>6, ReachesTail DEF LogTypes
    <3>8. read'.need = 0 \/ (read'.seq # <<>> /\ Shell!Last(read'.seq) >= read'.need)
      <4> SUFFICES ASSUME reader[r].need # 0 PROVE read'.seq # <<>> /\ Shell!Last(read'.seq) >= read'.need BY <2>1
      <4>1. read'.seq = Shell!TailOf(shellDisk, Cap) /\ read'.need = reader[r].need BY <2>1, <3>6
      <4>2. Shell!TailOf(shellDisk, Cap) # <<>> /\ reader[r].need <= Shell!TailOf(shellDisk, Cap)[Len(Shell!TailOf(shellDisk, Cap))]
        BY <3>7 DEF Reaches
      <4>3. Shell!TailOf(shellDisk, Cap) \in Seq(Nat) BY CapAssumption DEF Shell!TailOf, LogTypes
      <4>4. Shell!TailOf(shellDisk, Cap)[Len(Shell!TailOf(shellDisk, Cap))] \in Nat BY <4>2, <4>3
      <4> QED BY <2>2, <4>1, <4>2, <4>4 DEF Shell!Last
    <3>9. ReaderInv' BY <1>1, <2>1, <3>1, <3>2, <3>8 DEF Undamaged, ReaderInv
    <3> QED BY <3>4, <3>5, <3>9 DEF Undamaged
  <2> QED BY <2>3, <2>4, <2>5
<1> QED BY <1>2, <1>3

LEMMA FlushTeeStep ==
  ASSUME LogInv, TerminalInv', NEW r \in Readers, Shell!FlushTee(r)
  PROVE  LogInv'
<1> USE DEF LogInv
<1>1. /\ UNCHANGED <<sess, pump, chunks, shellBuf, fd, linked, teed, read>>
      /\ reader[r].pc = "look" /\ damaged' = (damaged \/ Shell!Flushing)
      /\ \/ (err \/ shellBuf = <<>>) /\ reader' = [reader EXCEPT ![r].pc = "read"] /\ UNCHANGED <<err, shellDisk>>
         \/ fd # "open" /\ err' = TRUE /\ reader' = [reader EXCEPT ![r].pc = "read"] /\ UNCHANGED shellDisk
         \/ ~err /\ shellDisk' = shellDisk \o shellBuf /\ UNCHANGED err
            /\ reader' = [reader EXCEPT ![r] = [pc |-> "flush", need |-> reader[r].need, n |-> Len(shellBuf)]]
  BY DEF Shell!FlushTee, Shell!log, Shell!ui, LogTypes
<1>2. reader[r] \in [pc : {"look"}, need : Nat] BY <1>1 DEF LogTypes
<1>3. LogTypes'
  <2>1. damaged' \in BOOLEAN BY <1>1 DEF LogTypes, Shell!Flushing
  <2>2. shellDisk \o shellBuf \in Seq(Nat) /\ Len(shellBuf) \in Nat BY JoinedLength DEF LogTypes
  <2>3. shellDisk' \in Seq(Nat) /\ err' \in BOOLEAN BY <1>1, <2>2 DEF LogTypes
  <2>4. [reader[r] EXCEPT !.pc = "read"] \in [pc : {"look", "read"}, need : Nat] BY <1>2
  <2>5. [pc |-> "flush", need |-> reader[r].need, n |-> Len(shellBuf)] \in [pc : {"flush", "read"}, need : Nat, n : Nat]
    BY <1>2, <2>2
  <2>6. reader' \in [Readers -> [pc : {"idle"}] \cup [pc : {"look", "read"}, need : Nat] \cup [pc : {"flush", "read"}, need : Nat, n : Nat]]
    BY <1>1, <2>4, <2>5 DEF LogTypes
  <2> QED BY <1>1, <2>1, <2>3, <2>6 DEF LogTypes
<1>4. TeedInv' BY <1>1 DEF TeedInv, Rising
<1>5. ASSUME ~damaged' PROVE Undamaged'
  <2>1. Undamaged /\ ~Shell!Flushing BY <1>1, <1>5
  <2>2. Buffered = shellBuf /\ \A q \in Readers : reader[q].pc # "flush" BY <2>1 DEF Buffered, Shell!Flushing
  <2>3. ~err /\ fd = "open" /\ linked /\ Reaches(reader[r].need, teed) /\ Newest(shellDisk, shellBuf, teed)
    BY <1>1, <2>1, <2>2 DEF Undamaged, FileInv, ReaderInv
  <2>4. Newest(shellDisk \o shellBuf, <<>>, teed) /\ Reaches(reader[r].need, shellDisk \o shellBuf)
    BY <1>2, <2>3, NewestFlush, ReachesAll DEF LogTypes
  <2>5. CASE shellBuf = <<>> /\ reader' = [reader EXCEPT ![r].pc = "read"] /\ UNCHANGED <<err, shellDisk>>
    <3>1. shellDisk \o shellBuf = shellDisk BY <2>5 DEF LogTypes
    <3>2. \A q \in Readers : reader'[q] = IF q = r THEN [pc |-> "read", need |-> reader[r].need] ELSE reader[q]
      BY <1>2, <2>5 DEF LogTypes
    <3>3. Buffered' = shellBuf BY <1>1, <2>2, <3>2 DEF Buffered, Shell!Flushing
    <3>4. FileInv' BY <1>1, <2>1, <2>2, <2>5, <3>3 DEF Undamaged, FileInv, Newest
    <3>5. FlushInv' BY <2>2, <3>2 DEF FlushInv
    <3>6. ReaderInv' BY <1>1, <2>1, <2>3, <2>4, <2>5, <3>1, <3>2 DEF Undamaged, ReaderInv, Reaches
    <3> QED BY <3>4, <3>5, <3>6 DEF Undamaged
  <2>6. CASE shellDisk' = shellDisk \o shellBuf /\ UNCHANGED err
             /\ reader' = [reader EXCEPT ![r] = [pc |-> "flush", need |-> reader[r].need, n |-> Len(shellBuf)]]
    <3>2. \A q \in Readers : reader'[q] = IF q = r THEN [pc |-> "flush", need |-> reader[r].need, n |-> Len(shellBuf)] ELSE reader[q]
      BY <1>2, <2>6 DEF LogTypes
    <3>3. Buffered' = <<>> BY <3>2 DEF Buffered, Shell!Flushing
    <3>4. pump.at = "reopen" => shellDisk' = shellDisk BY <2>1, <2>6 DEF Undamaged, FileInv, LogTypes
    <3>5. Newest(shellDisk', Buffered', teed') BY <1>1, <2>4, <2>6, <3>3
    <3>6. FileInv' BY <1>1, <2>1, <2>3, <2>6, <3>4, <3>5 DEF Undamaged, FileInv
    <3>7. FlushInv' BY <1>1, <2>2, <2>3, <3>2 DEF FlushInv
    <3>8. ASSUME NEW q \in Readers, q # r, reader[q].pc = "read" PROVE Reaches(reader[q].need, shellDisk \o shellBuf)
      <4>1. reader[q].need \in Nat /\ Reaches(reader[q].need, shellDisk) BY <2>1, <3>8 DEF Undamaged, ReaderInv, LogTypes
      <4> QED BY <2>3, <4>1, ReachesMore DEF LogTypes, TeedInv
    <3>9. ReaderInv' BY <1>1, <2>1, <2>2, <2>3, <2>4, <2>6, <3>2, <3>8 DEF Undamaged, ReaderInv
    <3> QED BY <3>6, <3>7, <3>9 DEF Undamaged
  <2> QED BY <1>1, <2>3, <2>5, <2>6
<1> QED BY <1>3, <1>4, <1>5

LEMMA FlushEndsStep ==
  ASSUME LogInv, TerminalInv', NEW r \in Readers, Shell!FlushEnds(r)
  PROVE  LogInv'
<1> USE DEF LogInv
<1>1. /\ UNCHANGED <<sess, pump, chunks, fd, linked, shellDisk, teed, damaged, read>>
      /\ reader[r].pc = "flush" /\ reader' = [reader EXCEPT ![r].pc = "read"]
      /\ IF Len(shellBuf) > reader[r].n THEN err' = TRUE /\ shellBuf' = SubSeq(shellBuf, reader[r].n + 1, Len(shellBuf))
         ELSE shellBuf' = <<>> /\ UNCHANGED err
  BY DEF Shell!FlushEnds, Shell!log, Shell!ui
<1>2. reader[r] \in [pc : {"flush", "read"}, need : Nat, n : Nat] BY <1>1 DEF LogTypes
<1>3. LogTypes'
  <2>1. shellBuf' \in Seq(Nat)
    <3>1. CASE Len(shellBuf) > reader[r].n
      <4>1. \A i \in reader[r].n + 1 .. Len(shellBuf) : shellBuf[i] \in Nat BY <1>2 DEF LogTypes
      <4>2. SubSeq(shellBuf, reader[r].n + 1, Len(shellBuf)) \in Seq(Nat) BY <1>2, <3>1, <4>1 DEF LogTypes
      <4> QED BY <1>1, <3>1, <4>2
    <3>2. CASE ~(Len(shellBuf) > reader[r].n)
      <4>1. shellBuf' = <<>> BY <1>1, <3>2
      <4>2. <<>> \in Seq(Nat) OBVIOUS
      <4> QED BY <4>1, <4>2
    <3> QED BY <3>1, <3>2
  <2>2. [reader[r] EXCEPT !.pc = "read"] \in [pc : {"flush", "read"}, need : Nat, n : Nat] BY <1>2
  <2>3. reader' \in [Readers -> [pc : {"idle"}] \cup [pc : {"look", "read"}, need : Nat] \cup [pc : {"flush", "read"}, need : Nat, n : Nat]]
    BY <1>1, <2>2 DEF LogTypes
  <2>4. Len(shellBuf') <= BufCap
    <3>1. CASE Len(shellBuf) > reader[r].n
      <4>1. Len(SubSeq(shellBuf, reader[r].n + 1, Len(shellBuf))) <= Len(shellBuf) BY <1>2, <3>1 DEF LogTypes
      <4>2. Len(shellBuf') <= Len(shellBuf) BY <1>1, <3>1, <4>1
      <4>3. Len(shellBuf') \in Nat /\ Len(shellBuf) \in Nat /\ Len(shellBuf) <= BufCap BY <2>1 DEF LogTypes
      <4> QED BY <4>2, <4>3, BufAssumption
    <3>2. CASE ~(Len(shellBuf) > reader[r].n) BY <1>1, <3>2, BufAssumption
    <3> QED BY <3>1, <3>2
  <2> QED BY <1>1, <2>1, <2>3, <2>4 DEF LogTypes
<1>4. TeedInv' BY <1>1 DEF TeedInv, Rising
<1>5. ASSUME ~damaged' PROVE Undamaged'
  <2>1. Undamaged /\ Shell!Flushing BY <1>1, <1>5 DEF Shell!Flushing
  <2>2. Buffered = <<>> BY <2>1 DEF Buffered
  <2>3. fd = "open" /\ reader[r].n = Len(shellBuf) /\ \A q \in Readers : reader[q].pc = "flush" => q = r
    BY <1>1, <2>1 DEF Undamaged, FlushInv
  <2>4. shellBuf' = <<>> /\ UNCHANGED err BY <1>1, <1>2, <2>3
  <2>5. \A q \in Readers : reader'[q] = IF q = r THEN [reader[r] EXCEPT !.pc = "read"] ELSE reader[q] BY <1>1 DEF LogTypes
  <2>6. reader'[r].pc = "read" /\ reader'[r].need = reader[r].need BY <1>2, <2>5
  <2>7. Buffered' = <<>> BY <2>4 DEF Buffered
  <2>8. FileInv' BY <1>1, <2>1, <2>2, <2>4, <2>7 DEF Undamaged, FileInv, Newest
  <2>9. FlushInv' BY <2>3, <2>5, <2>6 DEF FlushInv
  <2>10. ReaderInv' BY <1>1, <2>1, <2>5, <2>6 DEF Undamaged, ReaderInv, Reaches
  <2> QED BY <2>8, <2>9, <2>10 DEF Undamaged
<1> QED BY <1>3, <1>4, <1>5

\* What the pump hands over is the newest.
LEMMA TeedAppend ==
  ASSUME LogInv, TerminalInv', pump.at = "tee", chunks' = chunks, teed' = Append(teed, pump.c), pump'.at \in {"read", "trim"}
  PROVE  TeedInv' /\ teed' \in Seq(Nat)
<1> USE DEF LogInv
<1>1. pump.c = chunks /\ chunks \in Nat /\ teed \in Seq(Nat) BY DEF TerminalInv, ShellTypes, LogTypes
<1>2. Len(teed') = Len(teed) + 1 /\ teed' \in Seq(Nat) /\ teed'[Len(teed) + 1] = chunks /\ \A i \in 1 .. Len(teed) : teed'[i] = teed[i]
  BY <1>1
<1>3. \A i \in 1 .. Len(teed) : teed[i] < chunks BY DEF TeedInv
<1>4. Rising(teed')
  <2> SUFFICES ASSUME NEW i \in 1 .. Len(teed'), NEW j \in 1 .. Len(teed'), i < j PROVE teed'[i] < teed'[j] BY DEF Rising
  <2>1. i \in 1 .. Len(teed) BY <1>1, <1>2
  <2>2. CASE j = Len(teed) + 1 BY <1>2, <1>3, <2>1, <2>2
  <2>3. CASE j \in 1 .. Len(teed) BY <1>2, <2>1, <2>3 DEF TeedInv, Rising
  <2> QED BY <1>1, <1>2, <2>2, <2>3
<1>5. \A i \in 1 .. Len(teed') : teed'[i] <= chunks
  <2> SUFFICES ASSUME NEW i \in 1 .. Len(teed') PROVE teed'[i] <= chunks OBVIOUS
  <2>1. CASE i = Len(teed) + 1 BY <1>1, <1>2, <2>1
  <2>2. CASE i \in 1 .. Len(teed) BY <1>1, <1>2, <2>2 DEF TeedInv
  <2> QED BY <1>1, <1>2, <2>1, <2>2
<1> QED BY <1>2, <1>4, <1>5 DEF TeedInv

LEMMA PumpTeesStep ==
  ASSUME LogInv, TerminalInv', Shell!PumpTees
  PROVE  LogInv'
<1> USE DEF LogInv
<1>1. /\ UNCHANGED <<sess, chunks, reader, read, fd, linked>> /\ pump.at = "tee" /\ pump' \in [at : {"read", "trim"}]
      /\ \/ UNCHANGED LogVars /\ pump' = [at |-> "read"]
         \/ /\ fd # "none" /\ teed' = Append(teed, pump.c) /\ damaged' = (damaged \/ Shell!Flushing)
            /\ IF err THEN UNCHANGED <<shellBuf, err, shellDisk>>
               ELSE IF Len(shellBuf) < BufCap THEN shellBuf' = Append(shellBuf, pump.c) /\ UNCHANGED <<err, shellDisk>>
               ELSE IF fd # "open" THEN err' = TRUE /\ UNCHANGED <<shellBuf, shellDisk>>
               ELSE shellDisk' = shellDisk \o shellBuf /\ shellBuf' = <<pump.c>> /\ UNCHANGED err
  BY DEF Shell!PumpTees, Shell!log, Shell!ui, Shell!Rest, LogVars
<1>2. CASE UNCHANGED LogVars /\ pump' = [at |-> "read"]
  <2>1. TeedInv' BY <1>1, <1>2 DEF TeedInv, Rising, LogVars
  <2> QED BY <1>1, <1>2, <2>1, LogRests DEF TerminalInv, ShellTypes
<1>3. CASE fd # "none" /\ teed' = Append(teed, pump.c)
           /\ damaged' = (damaged \/ Shell!Flushing)
           /\ IF err THEN UNCHANGED <<shellBuf, err, shellDisk>>
              ELSE IF Len(shellBuf) < BufCap THEN shellBuf' = Append(shellBuf, pump.c) /\ UNCHANGED <<err, shellDisk>>
              ELSE IF fd # "open" THEN err' = TRUE /\ UNCHANGED <<shellBuf, shellDisk>>
              ELSE shellDisk' = shellDisk \o shellBuf /\ shellBuf' = <<pump.c>> /\ UNCHANGED err
  <2>1. pump.c = chunks /\ chunks \in Nat BY <1>1 DEF TerminalInv, ShellTypes
  <2>2. TeedInv' /\ teed' \in Seq(Nat) BY <1>1, <1>3, TeedAppend
  <2>3. shellDisk \o shellBuf \in Seq(Nat) /\ <<pump.c>> \in Seq(Nat) /\ Append(shellBuf, pump.c) \in Seq(Nat)
    BY <2>1, JoinedLength DEF LogTypes
  <2>4. shellDisk' \in Seq(Nat) /\ shellBuf' \in Seq(Nat) /\ err' \in BOOLEAN BY <1>3, <2>3 DEF LogTypes
  <2>5. damaged' \in BOOLEAN BY <1>3 DEF LogTypes, Shell!Flushing
  <2>6. LogTypes'
    <3>1. Len(shellBuf) \in Nat /\ Len(shellBuf) <= BufCap /\ Len(Append(shellBuf, pump.c)) = Len(shellBuf) + 1 /\ Len(<<pump.c>>) = 1
      BY <2>1 DEF LogTypes
    <3>2. Len(shellBuf') <= BufCap
      <4>1. CASE UNCHANGED shellBuf BY <3>1, <4>1
      <4>2. CASE Len(shellBuf) < BufCap /\ shellBuf' = Append(shellBuf, pump.c)
        <5>1. Len(shellBuf') = Len(shellBuf) + 1 BY <3>1, <4>2
        <5> QED BY <3>1, <4>2, <5>1, BufAssumption
      <4>3. CASE shellBuf' = <<pump.c>>
        <5>1. Len(shellBuf') = 1 BY <3>1, <4>3
        <5> QED BY <5>1, BufAssumption
      <4> QED BY <1>3, <4>1, <4>2, <4>3
    <3> QED BY <1>1, <2>2, <2>4, <2>5, <3>2 DEF LogTypes
  <2>7. ASSUME ~damaged' PROVE Undamaged'
    <3>1. Undamaged /\ ~Shell!Flushing BY <1>3, <2>7
    <3>2. ~Shell!Flushing' BY <1>1, <3>1 DEF Shell!Flushing
    <3>3. ~err /\ fd = "open" /\ linked /\ Newest(shellDisk, shellBuf, teed) BY <1>3, <3>1 DEF Undamaged, FileInv, Buffered, LogTypes
    <3>4. \/ shellBuf' = Append(shellBuf, pump.c) /\ UNCHANGED <<err, shellDisk>>
          \/ shellDisk' = shellDisk \o shellBuf /\ shellBuf' = <<pump.c>> /\ UNCHANGED err
      BY <1>3, <3>3
    <3>5. Newest(shellDisk', shellBuf', teed')
      <4>1. CASE shellBuf' = Append(shellBuf, pump.c) /\ UNCHANGED <<err, shellDisk>>
        BY <1>3, <2>1, <3>3, <4>1, NewestAppend DEF LogTypes
      <4>2. CASE shellDisk' = shellDisk \o shellBuf /\ shellBuf' = <<pump.c>> /\ UNCHANGED err
        <5>1. Newest(shellDisk \o shellBuf, <<>>, teed) BY <3>3, NewestFlush DEF LogTypes
        <5>2. Newest(shellDisk \o shellBuf, Append(<<>>, pump.c), Append(teed, pump.c))
          <6>1. <<>> \in Seq(Nat) /\ teed \in Seq(Nat) BY DEF LogTypes
          <6> QED BY <2>1, <2>3, <5>1, <6>1, NewestAppend
        <5>3. Append(<<>>, pump.c) = <<pump.c>> OBVIOUS
        <5> QED BY <1>3, <4>2, <5>2, <5>3
      <4> QED BY <3>4, <4>1, <4>2
    <3>6. FileInv' BY <1>1, <3>1, <3>2, <3>3, <3>4, <3>5 DEF Undamaged, FileInv, Buffered
    <3>7. FlushInv' BY <3>2 DEF FlushInv, Shell!Flushing
    <3>8. ASSUME NEW q \in Readers, reader[q].pc = "look" PROVE Reaches(reader[q].need, teed')
      <4>1. reader[q].need \in Nat /\ Reaches(reader[q].need, teed) BY <3>1, <3>8 DEF Undamaged, ReaderInv, LogTypes
      <4> SUFFICES ASSUME reader[q].need # 0 PROVE Reaches(reader[q].need, teed') BY DEF Reaches
      <4>2. teed # <<>> /\ reader[q].need <= teed[Len(teed)] /\ teed \in Seq(Nat) BY <4>1 DEF Reaches, LogTypes
      <4>3. Len(teed) \in 1 .. Len(teed) /\ teed[Len(teed)] \in Nat BY <4>2
      <4>4. teed[Len(teed)] < chunks BY <1>1, <4>3 DEF TeedInv
      <4>5. Len(teed') = Len(teed) + 1 /\ teed'[Len(teed) + 1] = chunks /\ teed' # <<>> BY <1>3, <2>1, <4>2
      <4> QED BY <2>1, <4>1, <4>2, <4>3, <4>4, <4>5 DEF Reaches
    <3>9. ASSUME NEW q \in Readers, reader[q].pc = "read" PROVE Reaches(reader[q].need, shellDisk')
      <4>1. reader[q].need \in Nat /\ Reaches(reader[q].need, shellDisk) BY <3>1, <3>9 DEF Undamaged, ReaderInv, LogTypes
      <4>2. Reaches(reader[q].need, shellDisk \o shellBuf) BY <3>3, <4>1, ReachesMore DEF LogTypes, TeedInv
      <4> QED BY <3>4, <4>1, <4>2
    <3>10. \A q \in Readers : reader[q].pc # "flush" BY <3>1 DEF Shell!Flushing
    <3>11. ReaderInv' BY <1>1, <3>1, <3>3, <3>8, <3>9, <3>10 DEF Undamaged, ReaderInv
    <3> QED BY <3>6, <3>7, <3>11 DEF Undamaged
  <2> QED BY <2>2, <2>6, <2>7
<1> QED BY <1>1, <1>2, <1>3

LEMMA TrimStep ==
  ASSUME LogInv, TerminalInv', Shell!Trim
  PROVE  LogInv'
<1> USE DEF LogInv
<1>1. /\ UNCHANGED <<sess, chunks, reader, read, fd, linked, teed>> /\ pump.at = "trim" /\ damaged' = (damaged \/ Shell!Flushing)
      /\ \/ (err \/ shellBuf = <<>>) /\ UNCHANGED <<shellBuf, err, shellDisk>>
         \/ fd # "open" /\ err' = TRUE /\ UNCHANGED <<shellBuf, shellDisk>>
         \/ ~err /\ shellDisk' = shellDisk \o shellBuf /\ shellBuf' = <<>> /\ UNCHANGED err
      /\ pump' = IF linked /\ ~err' /\ Len(shellDisk') >= 2 * Cap
                 THEN [at |-> "reopen", tail |-> Shell!TailOf(shellDisk', Cap)] ELSE [at |-> "read"]
  BY DEF Shell!Trim, Shell!Flush, Shell!log, Shell!ui, Shell!Rest
<1>2. shellDisk \o shellBuf \in Seq(Nat) BY JoinedLength DEF LogTypes
<1>3. shellDisk' \in Seq(Nat) /\ shellBuf' \in Seq(Nat) /\ err' \in BOOLEAN
  <2>1. <<>> \in Seq(Nat) OBVIOUS
  <2> QED BY <1>1, <1>2, <2>1 DEF LogTypes
<1>4. Shell!TailOf(shellDisk', Cap) \in Seq(Nat) BY <1>3, CapAssumption DEF Shell!TailOf
<1>5. LogTypes'
  <2>1. damaged' \in BOOLEAN BY <1>1 DEF LogTypes, Shell!Flushing
  <2>2. pump'.at = "reopen" => pump'.tail \in Seq(Nat) BY <1>1, <1>4
  <2>3. Len(shellBuf') <= BufCap BY <1>1, BufAssumption DEF LogTypes
  <2> QED BY <1>1, <1>3, <2>1, <2>2, <2>3 DEF LogTypes
<1>6. TeedInv'
  <2>1. pump'.at \in {"reopen", "read"} BY <1>1
  <2> QED BY <1>1, <2>1 DEF TeedInv, Rising
<1>7. ASSUME ~damaged' PROVE Undamaged'
  <2>1. Undamaged /\ ~Shell!Flushing BY <1>1, <1>7
  <2>2. ~Shell!Flushing' BY <1>1, <2>1 DEF Shell!Flushing
  <2>3. ~err /\ fd = "open" /\ linked /\ Newest(shellDisk, shellBuf, teed)
    BY <1>1, <2>1 DEF Undamaged, FileInv, Buffered, LogTypes
  <2>4. Newest(shellDisk \o shellBuf, <<>>, teed) BY <2>3, NewestFlush DEF LogTypes
  <2>5. shellBuf = <<>> => shellDisk \o shellBuf = shellDisk BY DEF LogTypes
  <2>6. shellDisk' = shellDisk \o shellBuf /\ shellBuf' = <<>> /\ UNCHANGED err BY <1>1, <2>3, <2>5
  <2>7. FileInv'
    <3>1. pump'.at = "reopen" => Len(shellDisk') >= 2 * Cap /\ pump'.tail = Shell!TailOf(shellDisk', Cap) BY <1>1
    <3> QED BY <1>1, <2>1, <2>2, <2>3, <2>4, <2>6, <3>1 DEF Undamaged, FileInv, Buffered
  <2>8. FlushInv' BY <2>2 DEF FlushInv, Shell!Flushing
  <2>9. ASSUME NEW q \in Readers, reader[q].pc = "read" PROVE Reaches(reader[q].need, shellDisk')
    <3>1. reader[q].need \in Nat /\ Reaches(reader[q].need, shellDisk) BY <2>1, <2>9 DEF Undamaged, ReaderInv, LogTypes
    <3> QED BY <2>3, <2>6, <3>1, ReachesMore DEF LogTypes, TeedInv
  <2>10. \A q \in Readers : reader[q].pc # "flush" BY <2>1 DEF Shell!Flushing
  <2>11. ReaderInv' BY <1>1, <2>1, <2>9, <2>10 DEF Undamaged, ReaderInv, Reaches
  <2> QED BY <2>7, <2>8, <2>11 DEF Undamaged
<1> QED BY <1>5, <1>6, <1>7

LEMMA TrimReopensStep ==
  ASSUME LogInv, TerminalInv', Shell!TrimReopens
  PROVE  LogInv'
<1> USE DEF LogInv
<1>1. /\ UNCHANGED <<sess, chunks, reader, read, teed>> /\ pump.at = "reopen" /\ pump' = [at |-> "read"]
      /\ \/ shellDisk' = pump.tail /\ shellBuf' = <<>> /\ linked' = TRUE /\ fd' = "open" /\ err' = FALSE
            /\ damaged' = (damaged \/ Shell!Flushing)
         \/ fd' = "closed" /\ shellDisk' \in {shellDisk, <<>>} /\ damaged' = TRUE /\ UNCHANGED <<shellBuf, linked, err>>
  BY DEF Shell!TrimReopens, Shell!log, Shell!ui, Shell!Rest
<1>2. LogTypes'
  <2>1. <<>> \in Seq(Nat) OBVIOUS
  <2>2. shellDisk' \in Seq(Nat) /\ shellBuf' \in Seq(Nat) BY <1>1, <2>1 DEF LogTypes
  <2>3. damaged' \in BOOLEAN BY <1>1 DEF LogTypes, Shell!Flushing
  <2>4. Len(shellBuf') <= BufCap BY <1>1, BufAssumption DEF LogTypes
  <2> QED BY <1>1, <2>2, <2>3, <2>4 DEF LogTypes
<1>3. TeedInv' BY <1>1 DEF TeedInv, Rising
<1>4. ASSUME ~damaged' PROVE Undamaged'
  <2>1. Undamaged /\ ~Shell!Flushing BY <1>1, <1>4
  <2>2. shellDisk' = pump.tail /\ shellBuf' = <<>> /\ linked' = TRUE /\ fd' = "open" /\ err' = FALSE BY <1>1, <1>4
  <2>3. /\ shellBuf = <<>> /\ Len(shellDisk) >= 2 * Cap /\ pump.tail = Shell!TailOf(shellDisk, Cap) /\ fd # "none"
        /\ Newest(shellDisk, <<>>, teed)
    BY <1>1, <2>1 DEF Undamaged, FileInv, Buffered
  <2>4. Newest(shellDisk', <<>>, teed)
    <3>1. Len(shellDisk) >= Cap BY <2>3, CapAssumption DEF LogTypes
    <3> QED BY <2>2, <2>3, <3>1, NewestTail DEF LogTypes
  <2>5. FileInv' BY <1>1, <2>1, <2>2, <2>3, <2>4 DEF Undamaged, FileInv, Buffered
  <2>6. \A q \in Readers : reader[q].pc # "flush" BY <2>1 DEF Shell!Flushing
  <2>7. FlushInv' BY <1>1, <2>6 DEF FlushInv
  <2>8. ASSUME NEW q \in Readers, reader[q].pc = "read" PROVE Reaches(reader[q].need, shellDisk')
    <3>1. reader[q].need \in Nat /\ Reaches(reader[q].need, shellDisk) BY <2>1, <2>8 DEF Undamaged, ReaderInv, LogTypes
    <3> QED BY <2>2, <2>3, <3>1, ReachesTail DEF LogTypes
  <2>9. ReaderInv' BY <1>1, <2>1, <2>2, <2>6, <2>8 DEF Undamaged, ReaderInv
  <2> QED BY <2>5, <2>7, <2>9 DEF Undamaged
<1> QED BY <1>2, <1>3, <1>4

LEMMA LogStep ==
  ASSUME LogInv, [Shell!Next]_Shell!vars
  PROVE  LogInv'
<1> USE DEF LogVars
<1>0. TerminalInv' BY TerminalStep DEF LogInv
<1>1. CASE Shell!StartShell
  <2>1. UNCHANGED LogVars /\ sess = "none" /\ sess' = "started" /\ chunks' = chunks /\ pump' = [at |-> "read"]
    BY <1>1 DEF Shell!StartShell, Shell!log, Shell!Rest
  <2>2. TeedInv' BY <2>1 DEF LogInv, TeedInv, Rising
  <2> QED BY <1>0, <2>1, <2>2, LogRests DEF LogInv, TerminalInv, ShellTypes
<1>2. CASE Shell!OpenScrollbackWriter
  <2>1. /\ sess = "started" /\ sess' = "logged" /\ UNCHANGED <<pump, chunks, shellBuf, err, teed, reader, read>>
        /\ \/ fd' = "open" /\ linked' = TRUE /\ shellDisk' = (IF linked THEN shellDisk ELSE <<>>) /\ UNCHANGED damaged
           \/ damaged' = TRUE /\ UNCHANGED <<fd, linked, shellDisk>>
    BY <1>2 DEF Shell!OpenScrollbackWriter
  <2>2. LogTypes'
    <3>1. <<>> \in Seq(Nat) OBVIOUS
    <3> QED BY <2>1, <3>1 DEF LogInv, LogTypes
  <2>3. TeedInv' BY <2>1 DEF LogInv, TeedInv, Rising
  <2>4. ASSUME ~damaged' PROVE Undamaged'
    <3>1. Undamaged /\ fd' = "open" /\ linked' = TRUE /\ shellDisk' = (IF linked THEN shellDisk ELSE <<>>) BY <2>1, <2>4 DEF LogInv
    <3>2. fd = "none" /\ (linked \/ shellDisk = <<>>) BY <2>1, <3>1 DEF Undamaged, FileInv
    <3>3. shellDisk' = shellDisk BY <3>1, <3>2
    <3>4. Buffered' = Buffered BY <2>1 DEF Buffered, Shell!Flushing
    <3>5. FileInv' BY <2>1, <3>1, <3>2, <3>3, <3>4 DEF Undamaged, FileInv, Newest
    <3>6. FlushInv' BY <2>1, <3>1 DEF Undamaged, FlushInv
    <3>7. ReaderInv' BY <2>1, <3>1, <3>3 DEF Undamaged, ReaderInv, Reaches
    <3> QED BY <3>5, <3>6, <3>7 DEF Undamaged
  <2> QED BY <1>0, <2>2, <2>3, <2>4 DEF LogInv
<1>3. CASE Shell!Register \/ Shell!CloseShell \/ Shell!StopReturns
  <2>1. /\ UNCHANGED LogVars /\ UNCHANGED <<pump, chunks>>
        /\ sess \in {"logged", "open", "closing"} /\ sess' \in {"open", "closing", "closed"}
    BY <1>3 DEF Shell!Register, Shell!CloseShell, Shell!StopReturns, Shell!log
  <2>2. LogTypes' BY <2>1 DEF LogInv, LogTypes
  <2>3. TeedInv' BY <2>1 DEF LogInv, TeedInv, Rising
  <2>4. ASSUME ~damaged' PROVE Undamaged'
    <3>1. Undamaged BY <2>1, <2>4 DEF LogInv
    <3>2. Buffered' = Buffered BY <2>1 DEF Buffered, Shell!Flushing
    <3>3. FileInv' BY <2>1, <3>1, <3>2 DEF Undamaged, FileInv, Newest
    <3>4. FlushInv' BY <2>1, <3>1 DEF Undamaged, FlushInv
    <3>5. ReaderInv' BY <2>1, <3>1 DEF Undamaged, ReaderInv, Reaches
    <3> QED BY <3>3, <3>4, <3>5 DEF Undamaged
  <2> QED BY <1>0, <2>2, <2>3, <2>4 DEF LogInv
<1>4. CASE Shell!PumpReads
  <2>1. UNCHANGED LogVars /\ UNCHANGED sess /\ chunks' = chunks + 1 /\ pump' = [at |-> "send", c |-> chunks']
    BY <1>4 DEF Shell!PumpReads, Shell!log
  <2>2. chunks \in Nat BY DEF LogInv, TerminalInv, ShellTypes
  <2>3. TeedInv'
    <3>1. \A i \in 1 .. Len(teed) : teed[i] \in Nat /\ teed[i] <= chunks BY DEF LogInv, LogTypes, TeedInv
    <3>2. \A i \in 1 .. Len(teed) : teed[i] < chunks + 1 BY <2>2, <3>1
    <3> QED BY <2>1, <2>2, <3>1, <3>2 DEF LogInv, TeedInv, Rising
  <2> QED BY <1>0, <2>1, <2>2, <2>3, LogRests
<1>5. CASE Shell!PumpSends \/ Shell!PumpEnds
  <2>1. UNCHANGED LogVars /\ UNCHANGED <<sess, chunks>> /\ pump'.at \in {"tee", "over"} /\ (pump'.at = "tee" => pump.at = "send")
    <3>1. CASE Shell!PumpSends
      <4>1. pump.at = "send" /\ pump' = [pump EXCEPT !.at = "tee"] /\ UNCHANGED LogVars /\ UNCHANGED <<sess, chunks>>
        BY <3>1 DEF Shell!PumpSends, Shell!log
      <4>2. pump'.at = "tee" BY <4>1 DEF LogInv, TerminalInv, ShellTypes
      <4> QED BY <4>1, <4>2
    <3>2. CASE Shell!PumpEnds BY <3>2 DEF Shell!PumpEnds, Shell!log
    <3> QED BY <1>5, <3>1, <3>2
  <2>2. TeedInv' BY <2>1 DEF LogInv, TeedInv, Rising
  <2> QED BY <1>0, <2>1, <2>2, LogRests DEF LogInv, TerminalInv, ShellTypes
<1>6. CASE Shell!Gather \/ Shell!Emit \/ Shell!Done \/ Shell!Exits \/ UNCHANGED Shell!vars
  <2>1. UNCHANGED LogVars /\ UNCHANGED <<sess, chunks, pump>>
    BY <1>6 DEF Shell!Gather, Shell!Emit, Shell!Done, Shell!Exits, Shell!vars, Shell!log
  <2> QED BY <1>0, <2>1, LogRests
<1>7. CASE Shell!ClearShellHistory
  <2>1. linked' = FALSE /\ damaged' = TRUE /\ UNCHANGED <<sess, chunks, pump, shellBuf, fd, err, shellDisk, teed, reader, read>>
    BY <1>7 DEF Shell!ClearShellHistory
  <2>2. LogTypes' BY <2>1 DEF LogInv, LogTypes
  <2>3. TeedInv' BY <2>1 DEF LogInv, TeedInv, Rising
  <2> QED BY <1>0, <2>1, <2>2, <2>3 DEF LogInv
<1> QED
  BY <1>0, <1>1, <1>2, <1>3, <1>4, <1>5, <1>6, <1>7, PumpTeesStep, TrimStep, TrimReopensStep, ReadStep, FlushTeeStep, FlushEndsStep
  DEF Shell!Next

LEMMA ShellStart == Shell!Init => LogInv
<1> SUFFICES ASSUME Shell!Init PROVE LogInv OBVIOUS
<1> USE DEF Shell!Init
<1>1. <<>> \in Seq(Nat) /\ <<1>> \in Seq(Nat) OBVIOUS
<1>2. shellDisk \in Seq(Nat) /\ Len(shellDisk) \in Nat /\ chunks = Len(shellDisk) /\ teed = shellDisk BY <1>1
<1>3. TerminalInv
  <2>1. ShellTypes BY <1>1, <1>2 DEF ShellTypes
  <2>2. InTurn BY <1>2 DEF InTurn, Base, Sent, Held
  <2> QED BY <2>1, <2>2 DEF TerminalInv
<1>4. LogTypes
  <2>1. Len(shellBuf) <= BufCap BY BufAssumption
  <2> QED BY <1>1, <1>2, <2>1 DEF LogTypes, Shell!Idle, Shell!NothingRead
<1>5. TeedInv
  <2>1. CASE shellDisk = <<>> BY <2>1 DEF TeedInv, Rising
  <2>2. CASE shellDisk = <<1>> BY <2>2 DEF TeedInv, Rising
  <2> QED BY <2>1, <2>2
<1>6. FileInv
  <2>1. Buffered = <<>> BY DEF Buffered
  <2>2. Newest(shellDisk, <<>>, shellDisk) BY <1>2 DEF Newest
  <2> QED BY <1>2, <2>1, <2>2 DEF FileInv
<1>7. FlushInv /\ ReaderInv BY DEF FlushInv, ReaderInv, Shell!Idle, Shell!NothingRead
<1> QED BY <1>3, <1>4, <1>5, <1>6, <1>7 DEF LogInv, Undamaged

\* What was handed to the log, but for what is still in its buffer.
LEMMA NewestWritten ==
  ASSUME NEW d \in Seq(Nat), NEW b \in Seq(Nat), NEW t \in Seq(Nat), Newest(d, b, t)
  PROVE  /\ SubSeq(t, 1, Len(t) - Len(b)) \in Seq(Nat)
         /\ Newest(d, <<>>, SubSeq(t, 1, Len(t) - Len(b)))
<1> DEFINE k == Len(t) - Len(b)
           u == SubSeq(t, 1, k)
<1>1. k \in 0 .. Len(t) BY DEF Newest
<1>2. u \in Seq(Nat) /\ Len(u) = k /\ \A i \in 1 .. k : u[i] = t[i] BY <1>1
<1> HIDE DEF u
<1>3. ASSUME NEW i \in 1 .. Len(d) PROVE d[i] = u[Len(u) - (Len(d) + Len(<<>>)) + i]
  <2>1. d[i] = t[Len(t) - (Len(d) + Len(b)) + i] BY DEF Newest
  <2>2. Len(t) - (Len(d) + Len(b)) + i \in 1 .. k BY DEF Newest
  <2>3. Len(t) - (Len(d) + Len(b)) + i = Len(u) - (Len(d) + Len(<<>>)) + i BY <1>2
  <2> QED BY <1>2, <2>1, <2>2, <2>3
<1>4. Len(d) + Len(<<>>) <= Len(u) /\ (Len(d) + Len(<<>>) = Len(u) \/ Len(d) >= Cap) BY <1>2 DEF Newest
<1>5. Newest(d, <<>>, u) BY <1>3, <1>4 DEF Newest
<1> QED BY <1>2, <1>5 DEF u

LEMMA LogIsKept == LogInv => Shell!LogIsNewest
<1> SUFFICES ASSUME LogInv, ~damaged PROVE Shell!LogIsNewest BY DEF Shell!LogIsNewest
<1> DEFINE upTo == SubSeq(teed, 1, Len(teed) - Len(Buffered))
<1>1. Undamaged BY DEF LogInv
<1>2. Newest(shellDisk, Buffered, teed) BY <1>1 DEF Undamaged, FileInv
<1>3. shellDisk \in Seq(Nat) /\ Buffered \in Seq(Nat) /\ teed \in Seq(Nat) /\ Len(Buffered) <= BufCap
  <2>1. <<>> \in Seq(Nat) /\ Len(<<>>) = 0 OBVIOUS
  <2> QED BY <2>1, BufAssumption DEF LogInv, LogTypes, Buffered
<1>4. Shell!IsSuffix(shellDisk \o Buffered, teed)
  <2>1. Newest(shellDisk \o Buffered, <<>>, teed) BY <1>2, <1>3, NewestFlush
  <2>2. shellDisk \o Buffered \in Seq(Nat) BY <1>3, JoinedLength
  <2> QED BY <1>3, <2>1, <2>2, NewestIsSuffix
<1>5. Shell!IsSuffix(shellDisk, upTo) /\ (Len(shellDisk) = Len(upTo) \/ Len(shellDisk) >= Cap)
  <2>1. upTo \in Seq(Nat) /\ Newest(shellDisk, <<>>, upTo) BY <1>2, <1>3, NewestWritten
  <2> HIDE DEF upTo
  <2>2. Shell!IsSuffix(shellDisk, upTo) BY <1>3, <2>1, NewestIsSuffix
  <2>3. Len(<<>>) = 0 OBVIOUS
  <2> QED BY <1>3, <2>1, <2>2, <2>3 DEF Newest
<1>6. read.need = 0 \/ (read.seq # <<>> /\ Shell!Last(read.seq) >= read.need) BY <1>1 DEF Undamaged, ReaderInv
<1>7. Shell!Unwritten = Buffered BY DEF Shell!Unwritten, Buffered
<1> QED BY <1>3, <1>4, <1>5, <1>6, <1>7 DEF Shell!LogIsNewest

\* A terminal misses nothing of its shell, and until the log is cleared, fails or is
\* flushed by two at once it keeps the newest of it, where a reader finds all that had
\* been printed when it asked; of a session that is over the file alone keeps it, without
\* what was in the buffer at the end (shell.go, scrollback.go).
THEOREM ShellIsKept == Shell!Init /\ [][Shell!Next]_Shell!vars => [](Shell!TerminalIsWhole /\ Shell!LogIsNewest)
<1>1. LogInv /\ [Shell!Next]_Shell!vars => LogInv' BY LogStep
<1>2. LogInv => Shell!TerminalIsWhole /\ Shell!LogIsNewest BY LogIsKept, InTurnIsWhole DEF LogInv
<1> QED BY ShellStart, <1>1, <1>2, PTL

-----------------------------------------------------------------------------
(* The page: its calls and the lines of the feed.                          *)

PaneCall == [op : {"ensure", "system", "quiet", "clear"}, filter : PaneFilters, on : BOOLEAN, no : Nat,
             pc : {"sent", "start", "reply"}]
PaneSwitches == [filter : PaneFilters, sys : BOOLEAN, quiet : BOOLEAN]
PaneTypes ==
  /\ visible \in BOOLEAN /\ showSystem \in BOOLEAN /\ paneFilter \in PaneFilters
  /\ issued \in Nat /\ paneCalls \subseteq PaneCall
  /\ \A x \in paneCalls : x.no <= issued /\ \A y \in paneCalls : x.no = y.no => x = y
  /\ feed # Pane!None => feed = <<feed[1]>> /\ feed[1] \in PaneSwitches

\* A call that is still to have its effect, and the last of its kind.
Unhandled(x, ops) == x \in paneCalls /\ x.pc # "reply" /\ x.op \in ops
Followed(x, ops) == \E y \in paneCalls : Unhandled(y, ops) /\ y.no > x.no
Awaited(ops) == \E y \in paneCalls : Unhandled(y, ops)

\* What a switch of the feed is, or is about to become once the calls are handled.
SystemSwitch ==
  /\ \A x \in paneCalls : Unhandled(x, {"ensure", "system"}) => x.on = showSystem \/ Followed(x, {"ensure", "system"})
  /\ feed # Pane!None => feed[1].sys = showSystem \/ Awaited({"ensure", "system"})
FilterSwitch ==
  /\ \A x \in paneCalls : Unhandled(x, {"ensure"}) => x.filter = paneFilter \/ Followed(x, {"ensure"})
  /\ feed # Pane!None => feed[1].filter = paneFilter \/ Awaited({"ensure"})
QuietSwitch ==
  /\ \A x \in paneCalls : Unhandled(x, {"quiet"}) => x.on = ~visible \/ Followed(x, {"quiet"})
  /\ \A x \in paneCalls : Unhandled(x, {"ensure"}) => visible \/ Followed(x, {"quiet"})
  /\ feed # Pane!None /\ ~missed => feed[1].quiet = ~visible \/ Awaited({"quiet"})
\* The calls are handled one after another: a restart comes before what has not begun.
OneByOne == \A x \in paneCalls : x.pc = "start" => x.op = "ensure" /\ \A y \in paneCalls : y.pc # "reply" => y.no >= x.no
InOrderSwitches == ~crossed => OneByOne /\ SystemSwitch /\ FilterSwitch /\ QuietSwitch
SwitchInv == PaneTypes /\ InOrderSwitches

\* What a call of the page is.
Call(op, f, on, n) == [op |-> op, filter |-> f, on |-> on, no |-> n, pc |-> "sent"]

LEMMA IssuedOne ==
  ASSUME NEW x, Pane!Issue(<<x>>), issued \in Nat
  PROVE  /\ issued' = issued + 1 /\ paneCalls' = paneCalls \cup {Call(x.op, x.filter, x.on, issued + 1)}
         /\ UNCHANGED <<lcMu, feed, buf, logged, got, gone, crossed, missed>>
<1>1. Len(<<x>>) = 1 /\ DOMAIN <<x>> = {1} /\ <<x>>[1] = x OBVIOUS
<1> QED BY <1>1 DEF Pane!Issue, Pane!past, Call

LEMMA IssuedTwo ==
  ASSUME NEW x, NEW y, Pane!Issue(<<x, y>>), issued \in Nat
  PROVE  /\ issued' = issued + 2
         /\ paneCalls' = paneCalls \cup {Call(x.op, x.filter, x.on, issued + 1), Call(y.op, y.filter, y.on, issued + 2)}
         /\ UNCHANGED <<lcMu, feed, buf, logged, got, gone, crossed, missed>>
<1>1. Len(<<x, y>>) = 2 /\ DOMAIN <<x, y>> = {1, 2} /\ <<x, y>>[1] = x /\ <<x, y>>[2] = y OBVIOUS
<1> QED BY <1>1 DEF Pane!Issue, Pane!past, Call

\* A call that the page adds comes after all the others.
LEMMA AddedCall ==
  ASSUME PaneTypes, NEW op \in {"ensure", "system", "quiet", "clear"}, NEW f \in PaneFilters, NEW on \in BOOLEAN, NEW k \in {1, 2}
  PROVE  /\ Call(op, f, on, issued + k) \in PaneCall
         /\ Call(op, f, on, issued + k).op = op /\ Call(op, f, on, issued + k).filter = f /\ Call(op, f, on, issued + k).on = on
         /\ Call(op, f, on, issued + k).no = issued + k /\ Call(op, f, on, issued + k).pc = "sent"
         /\ \A x \in paneCalls : x.no \in Nat /\ x.no < issued + k
BY DEF PaneTypes, PaneCall, Call

LEMMA MountStep == ASSUME SwitchInv, Pane!Mount PROVE SwitchInv'
<1>1. /\ visible' = TRUE /\ issued' = issued + 2
      /\ paneCalls' = paneCalls \cup {Call("ensure", paneFilter, showSystem, issued + 1), Call("quiet", paneFilter, FALSE, issued + 2)}
      /\ UNCHANGED <<showSystem, paneFilter, ring, lcMu, feed, buf, logged, got, gone, crossed, missed>>
  <2> DEFINE x == [op |-> "ensure", filter |-> paneFilter, on |-> showSystem]
             y == [op |-> "quiet", filter |-> paneFilter, on |-> FALSE]
  <2>1. /\ visible' = TRUE /\ Pane!Issue(<<x, y>>) /\ UNCHANGED <<showSystem, paneFilter, ring>> /\ issued \in Nat
    BY DEF Pane!Mount, Pane!Ensure, Pane!Switch, SwitchInv, PaneTypes
  <2>2. /\ x.op = "ensure" /\ x.filter = paneFilter /\ x.on = showSystem
        /\ y.op = "quiet" /\ y.filter = paneFilter /\ y.on = FALSE
    OBVIOUS
  <2> HIDE DEF x, y
  <2> QED BY <2>1, <2>2, IssuedTwo
<1>2. PICK e \in PaneCall, q \in PaneCall :
         /\ paneCalls' = paneCalls \cup {e, q}
         /\ e.op = "ensure" /\ e.filter = paneFilter /\ e.on = showSystem /\ e.no = issued + 1 /\ e.pc = "sent"
         /\ q.op = "quiet" /\ q.on = FALSE /\ q.no = issued + 2 /\ q.pc = "sent"
         /\ \A x \in paneCalls : x.no \in Nat /\ x.no < issued + 1
  <2> DEFINE a == Call("ensure", paneFilter, showSystem, issued + 1)
             b == Call("quiet", paneFilter, FALSE, issued + 2)
  <2>1. a \in PaneCall /\ a.op = "ensure" /\ a.filter = paneFilter /\ a.on = showSystem /\ a.no = issued + 1 /\ a.pc = "sent"
    BY DEF SwitchInv, PaneTypes, PaneCall, Call
  <2>2. b \in PaneCall /\ b.op = "quiet" /\ b.filter = paneFilter /\ b.on = FALSE /\ b.no = issued + 2 /\ b.pc = "sent"
    BY DEF SwitchInv, PaneTypes, PaneCall, Call
  <2>3. paneCalls' = paneCalls \cup {a, b} BY <1>1
  <2>4. \A x \in paneCalls : x.no \in Nat /\ x.no < issued + 1 BY DEF SwitchInv, PaneTypes, PaneCall
  <2> HIDE DEF a, b
  <2> QED BY <2>1, <2>2, <2>3, <2>4
<1>3. issued \in Nat /\ issued + 1 \in Nat /\ issued + 2 \in Nat BY DEF SwitchInv, PaneTypes
<1>4. e \in paneCalls' /\ q \in paneCalls' /\ \A x \in paneCalls' : x \in paneCalls \/ x = e \/ x = q BY <1>2
<1>5. PaneTypes'
  <2>1. paneCalls' \subseteq PaneCall BY <1>2 DEF SwitchInv, PaneTypes
  <2>2. \A x \in paneCalls' : x.no <= issued'
    <3>1. e.no <= issued' /\ q.no <= issued' BY <1>1, <1>2, <1>3
    <3>2. \A x \in paneCalls : x.no <= issued' BY <1>1, <1>2, <1>3
    <3> QED BY <1>4, <3>1, <3>2
  <2>3. \A x \in paneCalls' : \A y \in paneCalls' : x.no = y.no => x = y
    <3>1. e.no # q.no BY <1>2, <1>3
    <3>2. \A x \in paneCalls : x.no # e.no /\ x.no # q.no BY <1>2, <1>3
    <3> QED BY <1>4, <3>1, <3>2 DEF SwitchInv, PaneTypes
  <2>4. visible' \in BOOLEAN BY <1>1
  <2> QED BY <1>1, <1>3, <2>1, <2>2, <2>3, <2>4 DEF SwitchInv, PaneTypes
<1>6. ASSUME ~crossed PROVE OneByOne' /\ SystemSwitch' /\ FilterSwitch' /\ QuietSwitch'
  <2>1. OneByOne'
    <3>1. ASSUME NEW x \in paneCalls', x.pc = "start", NEW y \in paneCalls', y.pc # "reply"
          PROVE  x.op = "ensure" /\ y.no >= x.no
      <4>1. x \in paneCalls BY <1>2, <1>4, <3>1
      <4>2. CASE y \in paneCalls BY <1>6, <3>1, <4>1, <4>2 DEF SwitchInv, InOrderSwitches, OneByOne
      <4>3. CASE y = e \/ y = q
        <5>1. x.op = "ensure" BY <1>6, <3>1, <4>1 DEF SwitchInv, InOrderSwitches, OneByOne
        <5>2. y.no >= x.no BY <1>2, <1>3, <4>1, <4>3
        <5> QED BY <5>1, <5>2
      <4> QED BY <1>4, <4>2, <4>3
    <3>2. ASSUME NEW x \in paneCalls', x.pc = "start" PROVE x.op = "ensure"
      BY <1>2, <1>4, <1>6, <3>2 DEF SwitchInv, InOrderSwitches, OneByOne
    <3> QED BY <3>1, <3>2 DEF OneByOne
  <2>2. \A x \in paneCalls' : Unhandled(x, {"ensure", "system"})' => x.on = showSystem' \/ Followed(x, {"ensure", "system"})'
    BY <1>1, <1>2, <1>3, <1>4 DEF Unhandled, Followed
  <2>3. SystemSwitch' BY <1>2, <1>4, <2>2 DEF SystemSwitch, Unhandled, Awaited
  <2>4. \A x \in paneCalls' : Unhandled(x, {"ensure"})' => x.filter = paneFilter' \/ Followed(x, {"ensure"})'
    BY <1>1, <1>2, <1>3, <1>4 DEF Unhandled, Followed
  <2>5. FilterSwitch' BY <1>2, <1>4, <2>4 DEF FilterSwitch, Unhandled, Awaited
  <2>6. Unhandled(q, {"quiet"})' BY <1>2, <1>4 DEF Unhandled
  <2>7. q.on = ~visible'
    <3>1. FALSE = ~TRUE OBVIOUS
    <3> QED BY <1>1, <1>2, <3>1, Zenon
  <2>8. ASSUME NEW x \in paneCalls', Unhandled(x, {"quiet"})' PROVE x.on = ~visible' \/ Followed(x, {"quiet"})'
    <3>1. CASE x = q BY <2>7, <3>1
    <3>2. CASE x # q
      <4>1. x.no < q.no BY <1>2, <1>3, <1>4, <3>2
      <4> QED BY <1>2, <1>3, <1>4, <2>6, <4>1 DEF Followed
    <3> QED BY <3>1, <3>2
  <2>9. Awaited({"quiet"})' BY <1>4, <2>6 DEF Awaited
  <2>10. QuietSwitch' BY <1>1, <2>8, <2>9 DEF QuietSwitch
  <2> QED BY <2>1, <2>3, <2>5, <2>10
<1> QED BY <1>1, <1>5, <1>6 DEF SwitchInv, InOrderSwitches

\* A call that is alone: the switches that it is about are as the page wants them, the
\* others as they were.
LEMMA OneCallStep ==
  ASSUME SwitchInv, NEW op \in {"ensure", "system", "quiet", "clear"}, NEW f \in PaneFilters, NEW on \in BOOLEAN,
         paneCalls' = paneCalls \cup {Call(op, f, on, issued + 1)}, issued' = issued + 1,
         UNCHANGED <<feed, crossed, missed>>,
         visible' \in BOOLEAN, showSystem' \in BOOLEAN, paneFilter' \in PaneFilters,
         op \in {"ensure", "system"} => on = showSystem', showSystem' # showSystem => op \in {"ensure", "system"},
         op = "ensure" => f = paneFilter', paneFilter' # paneFilter => op = "ensure",
         op = "quiet" => on = ~visible', visible' # visible => op = "quiet",
         op = "ensure" => visible'
  PROVE  SwitchInv'
<1> DEFINE e == Call(op, f, on, issued + 1)
<1>1. /\ e \in PaneCall /\ e.op = op /\ e.filter = f /\ e.on = on /\ e.no = issued + 1 /\ e.pc = "sent"
      /\ \A x \in paneCalls : x.no \in Nat /\ x.no < issued + 1
  BY AddedCall DEF SwitchInv
<1>2. paneCalls' = paneCalls \cup {e} OBVIOUS
<1> HIDE DEF e
<1>3. PaneTypes' BY <1>1, <1>2 DEF SwitchInv, PaneTypes
<1>4. ASSUME ~crossed PROVE OneByOne' /\ SystemSwitch' /\ FilterSwitch' /\ QuietSwitch'
  <2>1. issued \in Nat /\ issued + 1 \in Nat BY DEF SwitchInv, PaneTypes
  <2>2. OneByOne' BY <1>1, <1>2, <1>4, <2>1 DEF SwitchInv, InOrderSwitches, OneByOne
  <2>3. SystemSwitch' BY <1>1, <1>2, <1>4, <2>1 DEF SwitchInv, InOrderSwitches, SystemSwitch, Unhandled, Followed, Awaited
  <2>4. FilterSwitch' BY <1>1, <1>2, <1>4, <2>1 DEF SwitchInv, InOrderSwitches, FilterSwitch, Unhandled, Followed, Awaited
  <2>5. QuietSwitch' BY <1>1, <1>2, <1>4, <2>1 DEF SwitchInv, InOrderSwitches, QuietSwitch, Unhandled, Followed, Awaited
  <2> QED BY <2>2, <2>3, <2>4, <2>5
<1> QED BY <1>3, <1>4 DEF SwitchInv, InOrderSwitches

LEMMA PageStep ==
  ASSUME SwitchInv, Pane!Unmount \/ Pane!setShowSystem \/ Pane!clear \/ \E f \in PaneFilters : Pane!setFilter(f)
  PROVE  SwitchInv'
<1> USE DEF SwitchInv, PaneTypes
<1>1. CASE Pane!Unmount
  <2>1. /\ paneCalls' = paneCalls \cup {Call("quiet", paneFilter, TRUE, issued + 1)} /\ issued' = issued + 1
        /\ visible' = FALSE /\ UNCHANGED <<showSystem, paneFilter, feed, crossed, missed>>
    <3> DEFINE x == [op |-> "quiet", filter |-> paneFilter, on |-> TRUE]
    <3>1. visible' = FALSE /\ Pane!Issue(<<x>>) /\ UNCHANGED <<showSystem, paneFilter>> BY <1>1 DEF Pane!Unmount, Pane!Switch
    <3>2. x.op = "quiet" /\ x.filter = paneFilter /\ x.on = TRUE OBVIOUS
    <3> HIDE DEF x
    <3> QED BY <3>1, <3>2, IssuedOne
  <2> QED BY <2>1, OneCallStep
<1>2. CASE Pane!setShowSystem
  <2>1. /\ paneCalls' = paneCalls \cup {Call("system", paneFilter, ~showSystem, issued + 1)} /\ issued' = issued + 1
        /\ showSystem' = ~showSystem /\ UNCHANGED <<visible, paneFilter, feed, crossed, missed>>
    BY <1>2, IssuedOne DEF Pane!setShowSystem, Pane!Switch
  <2>2. (~showSystem) \in BOOLEAN OBVIOUS
  <2> QED BY <2>1, <2>2, OneCallStep
<1>3. CASE Pane!clear
  <2>1. /\ paneCalls' = paneCalls \cup {Call("clear", paneFilter, TRUE, issued + 1)} /\ issued' = issued + 1
        /\ UNCHANGED <<visible, showSystem, paneFilter, feed, crossed, missed>>
    <3> DEFINE x == [op |-> "clear", filter |-> paneFilter, on |-> TRUE]
    <3>1. Pane!Issue(<<x>>) /\ UNCHANGED <<visible, showSystem, paneFilter>> BY <1>3 DEF Pane!clear, Pane!Switch, Pane!page
    <3>2. x.op = "clear" /\ x.filter = paneFilter /\ x.on = TRUE OBVIOUS
    <3> HIDE DEF x
    <3> QED BY <3>1, <3>2, IssuedOne
  <2> QED BY <2>1, OneCallStep
<1>4. ASSUME NEW f \in PaneFilters, Pane!setFilter(f) PROVE SwitchInv'
  <2>1. /\ paneCalls' = paneCalls \cup {Call("ensure", f, showSystem, issued + 1)} /\ issued' = issued + 1
        /\ paneFilter' = f /\ visible = TRUE /\ UNCHANGED <<visible, showSystem, feed, crossed, missed>>
    BY <1>4, IssuedOne DEF Pane!setFilter, Pane!Ensure
  <2> QED BY <2>1, OneCallStep
<1> QED BY <1>1, <1>2, <1>3, <1>4

\* A call that is handled leaves the others as they are: it goes, or has a step to come.
LEMMA HandledTypes ==
  ASSUME PaneTypes, NEW c \in paneCalls,
         Pane!Done(c) \/ \E pc0 \in {"start", "reply"} : Pane!Step(c, pc0),
         UNCHANGED <<visible, showSystem, paneFilter, issued>>,
         feed' # Pane!None => feed' = <<feed'[1]>> /\ feed'[1] \in PaneSwitches
  PROVE  PaneTypes'
<1>1. CASE Pane!Done(c) BY <1>1 DEF PaneTypes, Pane!Done
<1>2. CASE \E pc0 \in {"start", "reply"} : Pane!Step(c, pc0)
  <2>1. PICK pc0 \in {"start", "reply"} : Pane!Step(c, pc0) BY <1>2
  <2>2. PICK d \in PaneCall : d.no = c.no /\ paneCalls' = (paneCalls \ {c}) \cup {d}
    <3>1. [c EXCEPT !.pc = pc0] \in PaneCall /\ [c EXCEPT !.pc = pc0].no = c.no BY DEF PaneTypes, PaneCall
    <3> QED BY <2>1, <3>1 DEF Pane!Step
  <2>3. paneCalls' \subseteq PaneCall BY <2>2 DEF PaneTypes
  <2>4. \A x \in paneCalls' : x.no <= issued' BY <2>2 DEF PaneTypes
  <2>5. \A x \in paneCalls' : \A y \in paneCalls' : x.no = y.no => x = y BY <2>2 DEF PaneTypes
  <2> QED BY <2>3, <2>4, <2>5 DEF PaneTypes
<1> QED BY <1>1, <1>2

\* In its turn: nothing before it is left.
LEMMA InItsTurn ==
  ASSUME PaneTypes, NEW c \in paneCalls, Pane!Crosses(c), ~crossed'
  PROVE  ~crossed /\ \A y \in paneCalls : y.pc # "reply" => y.no >= c.no
<1>1. ~crossed /\ ~(\E d \in paneCalls : d.no < c.no /\ d.pc # "reply") BY Zenon DEF Pane!Crosses
<1> QED BY <1>1 DEF PaneTypes, PaneCall

\* Without the call, its switches are those it carried, or those of a later one.
LEMMA WithoutIt ==
  ASSUME PaneTypes, NEW c \in paneCalls, paneCalls' = paneCalls \ {c} \/ (Pane!Step(c, "reply")),
         \A y \in paneCalls : y.pc # "reply" => y.no >= c.no, NEW ops
  PROVE  /\ \A x \in paneCalls' : Unhandled(x, ops)' => Unhandled(x, ops) /\ (Followed(x, ops) => Followed(x, ops)')
         /\ Unhandled(c, ops) /\ Followed(c, ops) => Awaited(ops)'
         /\ ~Unhandled(c, ops) /\ Awaited(ops) => Awaited(ops)'
<1>1. \A y \in paneCalls : y.pc # "reply" /\ y # c => y \in paneCalls'
  BY DEF Pane!Step
<1>2. \A x \in paneCalls' : x.pc # "reply" => x \in paneCalls /\ x # c
  <2>1. CASE paneCalls' = paneCalls \ {c} BY <2>1
  <2>2. CASE Pane!Step(c, "reply")
    <3>1. [c EXCEPT !.pc = "reply"].pc = "reply" BY DEF PaneTypes, PaneCall
    <3> QED BY <2>2, <3>1 DEF Pane!Step
  <2> QED BY <2>1, <2>2
<1>3. \A x \in paneCalls : x.pc # "reply" => x.no >= c.no /\ x.no \in Nat BY DEF PaneTypes, PaneCall
<1>4. c.no \in Nat BY DEF PaneTypes, PaneCall
<1> QED BY <1>1, <1>2, <1>3, <1>4 DEF Unhandled, Followed, Awaited

\* A call that takes its place among the switches and leaves the feed with what it carried.
LEMMA TakesEffect ==
  ASSUME PaneTypes, OneByOne, SystemSwitch, FilterSwitch, QuietSwitch,
         NEW c \in paneCalls, c.pc # "reply", paneCalls' = paneCalls \ {c} \/ Pane!Step(c, "reply"),
         \A y \in paneCalls : y.pc # "reply" => y.no >= c.no,
         UNCHANGED <<visible, showSystem, paneFilter>>,
         feed' # Pane!None /\ c.op \in {"ensure", "system"} => feed'[1].sys = c.on,
         feed' # Pane!None /\ c.op \notin {"ensure", "system"} => feed # Pane!None /\ feed'[1].sys = feed[1].sys,
         feed' # Pane!None /\ c.op = "ensure" => feed'[1].filter = c.filter,
         feed' # Pane!None /\ c.op # "ensure" => feed # Pane!None /\ feed'[1].filter = feed[1].filter,
         feed' # Pane!None /\ ~missed' /\ c.op = "quiet" => feed'[1].quiet = c.on,
         feed' # Pane!None /\ ~missed' /\ c.op # "quiet" =>
           \/ c.op = "ensure" /\ feed'[1].quiet = FALSE
           \/ feed # Pane!None /\ ~missed /\ feed'[1].quiet = feed[1].quiet
  PROVE  OneByOne' /\ SystemSwitch' /\ FilterSwitch' /\ QuietSwitch'
<1> DEFINE system == {"ensure", "system"}
           ensure == {"ensure"}
           silence == {"quiet"}
<1>1. OneByOne'
  <2>1. \A x \in paneCalls' : x.pc # "reply" => x \in paneCalls
    <3>1. [c EXCEPT !.pc = "reply"].pc = "reply" BY DEF PaneTypes, PaneCall
    <3> QED BY <3>1 DEF Pane!Step
  <2> QED BY <2>1 DEF OneByOne
<1>2. SystemSwitch'
  <2>1. /\ \A x \in paneCalls' : Unhandled(x, system)' => Unhandled(x, system) /\ (Followed(x, system) => Followed(x, system)')
        /\ Unhandled(c, system) /\ Followed(c, system) => Awaited(system)'
        /\ ~Unhandled(c, system) /\ Awaited(system) => Awaited(system)'
    BY WithoutIt, Zenon
  <2>2. \A x \in paneCalls' : Unhandled(x, system)' => x.on = showSystem' \/ Followed(x, system)'
    BY <2>1 DEF SystemSwitch, Unhandled
  <2>3. ASSUME feed' # Pane!None PROVE feed'[1].sys = showSystem' \/ Awaited(system)'
    <3>1. CASE c.op \in system BY <2>1, <2>3, <3>1 DEF SystemSwitch, Unhandled
    <3>2. CASE c.op \notin system BY <2>1, <2>3, <3>2 DEF SystemSwitch, Unhandled
    <3> QED BY <3>1, <3>2
  <2> QED BY <2>2, <2>3 DEF SystemSwitch
<1>3. FilterSwitch'
  <2>1. /\ \A x \in paneCalls' : Unhandled(x, ensure)' => Unhandled(x, ensure) /\ (Followed(x, ensure) => Followed(x, ensure)')
        /\ Unhandled(c, ensure) /\ Followed(c, ensure) => Awaited(ensure)'
        /\ ~Unhandled(c, ensure) /\ Awaited(ensure) => Awaited(ensure)'
    BY WithoutIt, Zenon
  <2>2. \A x \in paneCalls' : Unhandled(x, ensure)' => x.filter = paneFilter' \/ Followed(x, ensure)'
    BY <2>1 DEF FilterSwitch, Unhandled
  <2>3. ASSUME feed' # Pane!None PROVE feed'[1].filter = paneFilter' \/ Awaited(ensure)'
    <3>1. CASE c.op = "ensure" BY <2>1, <2>3, <3>1 DEF FilterSwitch, Unhandled
    <3>2. CASE c.op # "ensure" BY <2>1, <2>3, <3>2 DEF FilterSwitch, Unhandled
    <3> QED BY <3>1, <3>2
  <2> QED BY <2>2, <2>3 DEF FilterSwitch
<1>4. QuietSwitch'
  <2>1. /\ \A x \in paneCalls' : Unhandled(x, silence)' => Unhandled(x, silence) /\ (Followed(x, silence) => Followed(x, silence)')
        /\ Unhandled(c, silence) /\ Followed(c, silence) => Awaited(silence)'
        /\ ~Unhandled(c, silence) /\ Awaited(silence) => Awaited(silence)'
    BY WithoutIt, Zenon
  <2>2. \A x \in paneCalls' : Unhandled(x, silence)' => x.on = ~visible' \/ Followed(x, silence)'
    BY <2>1 DEF QuietSwitch, Unhandled
  <2>3. \A x \in paneCalls' : x.pc # "reply" => x \in paneCalls /\ x # c
    <3>1. [c EXCEPT !.pc = "reply"].pc = "reply" BY DEF PaneTypes, PaneCall
    <3> QED BY <3>1 DEF Pane!Step
  <2>4. ASSUME NEW x \in paneCalls', Unhandled(x, ensure)' PROVE visible' \/ Followed(x, silence)'
    <3>1. x \in paneCalls /\ x # c /\ Unhandled(x, ensure) BY <2>3, <2>4 DEF Unhandled
    <3>2. CASE visible BY <3>2
    <3>3. CASE Followed(x, silence)
      <4>1. PICK y \in paneCalls : Unhandled(y, silence) /\ y.no > x.no BY <3>3 DEF Followed
      <4>2. y # c
        <5>1. x.no >= c.no /\ x.no \in Nat /\ y.no \in Nat /\ c.no \in Nat BY <3>1, <4>1 DEF Unhandled, PaneTypes, PaneCall
        <5> QED BY <4>1, <5>1
      <4>3. y \in paneCalls' BY <4>2 DEF Pane!Step
      <4> QED BY <4>1, <4>3 DEF Followed, Unhandled
    <3> QED BY <3>1, <3>2, <3>3 DEF QuietSwitch
  <2>5. ASSUME feed' # Pane!None, ~missed' PROVE feed'[1].quiet = ~visible' \/ Awaited(silence)'
    <3>1. CASE c.op = "quiet" BY <2>1, <2>5, <3>1 DEF QuietSwitch, Unhandled
    <3>2. CASE c.op = "ensure" /\ feed'[1].quiet = FALSE
      <4>1. CASE Followed(c, silence)
        <5>1. Awaited(silence) /\ ~Unhandled(c, silence) BY <3>2, <4>1 DEF Awaited, Followed, Unhandled
        <5> QED BY <2>1, <5>1
      <4>2. CASE visible
        <5>1. (~visible') = FALSE BY <4>2, Zenon
        <5> QED BY <3>2, <5>1, Zenon
      <4>3. visible \/ Followed(c, silence) BY <3>2 DEF QuietSwitch, Unhandled
      <4> QED BY <4>1, <4>2, <4>3
    <3>3. CASE c.op # "quiet" /\ feed # Pane!None /\ ~missed /\ feed'[1].quiet = feed[1].quiet
      BY <2>1, <3>3 DEF QuietSwitch, Unhandled
    <3> QED BY <2>5, <3>1, <3>2, <3>3
  <2> QED BY <2>2, <2>4, <2>5 DEF QuietSwitch
<1> QED BY <1>1, <1>2, <1>3, <1>4

\* A call that has its effect, in its turn or not.
LEMMA EffectStep ==
  ASSUME SwitchInv, NEW c \in paneCalls, c.pc # "reply", Pane!Done(c) \/ Pane!Step(c, "reply"),
         UNCHANGED <<visible, showSystem, paneFilter, issued>>,
         feed' # Pane!None => feed' = <<feed'[1]>> /\ feed'[1] \in PaneSwitches,
         ~crossed' => ~crossed /\ \A y \in paneCalls : y.pc # "reply" => y.no >= c.no,
         feed' # Pane!None /\ c.op \in {"ensure", "system"} => feed'[1].sys = c.on,
         feed' # Pane!None /\ c.op \notin {"ensure", "system"} => feed # Pane!None /\ feed'[1].sys = feed[1].sys,
         feed' # Pane!None /\ c.op = "ensure" => feed'[1].filter = c.filter,
         feed' # Pane!None /\ c.op # "ensure" => feed # Pane!None /\ feed'[1].filter = feed[1].filter,
         feed' # Pane!None /\ ~missed' /\ c.op = "quiet" => feed'[1].quiet = c.on,
         feed' # Pane!None /\ ~missed' /\ c.op # "quiet" =>
           \/ c.op = "ensure" /\ feed'[1].quiet = FALSE
           \/ feed # Pane!None /\ ~missed /\ feed'[1].quiet = feed[1].quiet
  PROVE  SwitchInv'
<1>1. PaneTypes'
  <2>1. Pane!Done(c) \/ \E pc0 \in {"start", "reply"} : Pane!Step(c, pc0) OBVIOUS
  <2> QED BY <2>1, HandledTypes DEF SwitchInv
<1>2. ASSUME ~crossed' PROVE OneByOne' /\ SystemSwitch' /\ FilterSwitch' /\ QuietSwitch'
  <2>1. paneCalls' = paneCalls \ {c} \/ Pane!Step(c, "reply") BY DEF Pane!Done
  <2>2. OneByOne /\ SystemSwitch /\ FilterSwitch /\ QuietSwitch /\ \A y \in paneCalls : y.pc # "reply" => y.no >= c.no
    BY <1>2 DEF SwitchInv, InOrderSwitches
  <2>3. UNCHANGED <<visible, showSystem, paneFilter>> OBVIOUS
  <2> QED BY <2>1, <2>2, <2>3, TakesEffect DEF SwitchInv
<1> QED BY <1>1, <1>2 DEF SwitchInv, InOrderSwitches

\* A restart holds lcMu, and there is no feed meanwhile.
Restarting ==
  /\ \A x \in paneCalls : x.no # 0
  /\ \A x \in paneCalls : x.pc = "start" => x.op = "ensure" /\ lcMu = x.no /\ feed = Pane!None
  /\ \A x \in paneCalls : x.pc = "reply" => x.op = "ensure"

\* A feed that was given a switch.
LEMMA FeedWith ==
  ASSUME NEW f \in PaneSwitches, NEW on \in BOOLEAN
  PROVE  /\ <<[f EXCEPT !.sys = on]>> # Pane!None /\ <<[f EXCEPT !.sys = on]>>[1] = [f EXCEPT !.sys = on]
         /\ [f EXCEPT !.sys = on] \in PaneSwitches /\ [f EXCEPT !.sys = on].sys = on
         /\ [f EXCEPT !.sys = on].filter = f.filter /\ [f EXCEPT !.sys = on].quiet = f.quiet
         /\ <<[f EXCEPT !.quiet = on]>> # Pane!None /\ <<[f EXCEPT !.quiet = on]>>[1] = [f EXCEPT !.quiet = on]
         /\ [f EXCEPT !.quiet = on] \in PaneSwitches /\ [f EXCEPT !.quiet = on].quiet = on
         /\ [f EXCEPT !.quiet = on].filter = f.filter /\ [f EXCEPT !.quiet = on].sys = f.sys
BY DEF PaneSwitches, Pane!None

LEMMA EnsureStep ==
  ASSUME SwitchInv, Restarting, NEW c \in paneCalls, Pane!EnsureHealthy(c) \/ Pane!EnsureStarts(c) \/ Pane!EnsureFails(c)
  PROVE  SwitchInv'
<1>0. c.on \in BOOLEAN /\ c.filter \in PaneFilters BY DEF SwitchInv, PaneTypes, PaneCall
<1>1. CASE Pane!EnsureHealthy(c)
  <2>1. /\ c.op = "ensure" /\ c.pc = "sent" /\ feed # Pane!None /\ feed[1].filter = c.filter
        /\ feed' = <<[feed[1] EXCEPT !.sys = c.on]>> /\ Pane!Done(c) /\ Pane!Crosses(c)
        /\ UNCHANGED <<visible, showSystem, paneFilter, issued, missed>>
    BY <1>1 DEF Pane!EnsureHealthy, Pane!Sent, Pane!page
  <2>2. feed[1] \in PaneSwitches BY <2>1 DEF SwitchInv, PaneTypes
  <2>3. /\ feed'[1] \in PaneSwitches /\ feed' = <<feed'[1]>> /\ feed'[1].sys = c.on /\ feed'[1].filter = c.filter /\ feed'[1].quiet = feed[1].quiet
    <3> DEFINE f == feed[1]
               g == [f EXCEPT !.sys = c.on]
    <3>1. f \in PaneSwitches /\ feed' = <<g>> /\ f.filter = c.filter BY <2>1, <2>2
    <3>2. g \in PaneSwitches /\ g.sys = c.on /\ g.filter = f.filter /\ g.quiet = f.quiet
      <4>1. f \in PaneSwitches BY <3>1
      <4> HIDE DEF f
      <4> QED BY <1>0, <4>1 DEF PaneSwitches
    <3> HIDE DEF g
    <3>3. feed'[1] = g BY <3>1
    <3> QED BY <3>1, <3>2, <3>3
  <2>4. ~crossed' => ~crossed /\ \A y \in paneCalls : y.pc # "reply" => y.no >= c.no BY <2>1, InItsTurn DEF SwitchInv
  <2> QED BY <2>1, <2>3, <2>4, EffectStep
<1>2. CASE Pane!EnsureStarts(c)
  <2>1. /\ c.op = "ensure" /\ c.pc = "start" /\ feed' = <<[filter |-> c.filter, sys |-> c.on, quiet |-> FALSE]>>
        /\ Pane!Step(c, "reply") /\ UNCHANGED <<visible, showSystem, paneFilter, issued, crossed, missed>>
    BY <1>2 DEF Pane!EnsureStarts, Pane!page
  <2>2. /\ feed'[1] \in PaneSwitches /\ feed' = <<feed'[1]>> /\ feed'[1].sys = c.on /\ feed'[1].filter = c.filter /\ feed'[1].quiet = FALSE
    BY <1>0, <2>1 DEF PaneSwitches
  <2>3. ~crossed => \A y \in paneCalls : y.pc # "reply" => y.no >= c.no BY <2>1 DEF SwitchInv, InOrderSwitches, OneByOne
  <2> QED BY <2>1, <2>2, <2>3, EffectStep
<1>3. CASE Pane!EnsureFails(c)
  <2>1. /\ c.op = "ensure" /\ c.pc = "start" /\ Pane!Done(c) /\ UNCHANGED <<visible, showSystem, paneFilter, issued, feed, crossed, missed>>
    BY <1>3 DEF Pane!EnsureFails, Pane!page, Pane!past
  <2>2. feed' = Pane!None BY <2>1 DEF Restarting
  <2>3. ~crossed => \A y \in paneCalls : y.pc # "reply" => y.no >= c.no BY <2>1 DEF SwitchInv, InOrderSwitches, OneByOne
  <2> QED BY <2>1, <2>2, <2>3, EffectStep
<1> QED BY <1>1, <1>2, <1>3

\* A call that has the feed stopped goes on as it was.
LEMMA EnsureStopsStep ==
  ASSUME SwitchInv, NEW c \in paneCalls, Pane!EnsureStops(c)
  PROVE  SwitchInv'
<1>1. /\ c.op = "ensure" /\ c.pc = "sent" /\ feed' = Pane!None /\ Pane!Step(c, "start") /\ Pane!Crosses(c)
      /\ UNCHANGED <<visible, showSystem, paneFilter, issued, missed>>
  BY DEF Pane!EnsureStops, Pane!Sent, Pane!page
<1>2. PaneTypes'
  <2>1. Pane!Done(c) \/ \E pc0 \in {"start", "reply"} : Pane!Step(c, pc0) BY <1>1
  <2> QED BY <1>1, <2>1, HandledTypes DEF SwitchInv
<1>3. PICK d \in PaneCall : /\ d.op = c.op /\ d.filter = c.filter /\ d.on = c.on /\ d.no = c.no /\ d.pc = "start"
                           /\ paneCalls' = (paneCalls \ {c}) \cup {d}
  <2>1. c \in PaneCall BY DEF SwitchInv, PaneTypes
  <2> DEFINE e == [c EXCEPT !.pc = "start"]
  <2>2. e \in PaneCall /\ e.op = c.op /\ e.filter = c.filter /\ e.on = c.on /\ e.no = c.no /\ e.pc = "start"
    BY <2>1 DEF PaneCall
  <2> QED BY <1>1, <2>2 DEF Pane!Step
<1>4. ASSUME ~crossed' PROVE OneByOne' /\ SystemSwitch' /\ FilterSwitch' /\ QuietSwitch'
  <2>1. ~crossed /\ \A y \in paneCalls : y.pc # "reply" => y.no >= c.no BY <1>1, <1>4, InItsTurn DEF SwitchInv
  <2>2. OneByOne /\ SystemSwitch /\ FilterSwitch /\ QuietSwitch BY <2>1 DEF SwitchInv, InOrderSwitches
  <2>3. \A x \in paneCalls' : x # d => x \in paneCalls /\ x # c BY <1>3
  <2>4. \A x \in paneCalls : x # c => x \in paneCalls' BY <1>3
  <2>5. OneByOne'
    <3>1. ASSUME NEW x \in paneCalls', x.pc = "start" PROVE x = d
      <4>1. CASE x # d
        <5>1. x \in paneCalls /\ x # c /\ x.no <= c.no BY <1>1, <2>2, <2>3, <3>1, <4>1 DEF OneByOne
        <5>2. x.no >= c.no BY <2>1, <3>1, <5>1
        <5>3. x.no = c.no BY <5>1, <5>2 DEF SwitchInv, PaneTypes, PaneCall
        <5> QED BY <5>1, <5>3 DEF SwitchInv, PaneTypes
      <4> QED BY <4>1
    <3>2. \A y \in paneCalls' : y.pc # "reply" => y.no >= d.no BY <1>3, <2>1, <2>3 DEF PaneCall
    <3> QED BY <1>1, <1>3, <3>1, <3>2 DEF OneByOne
  <2>6. \A x \in paneCalls' : \E y \in paneCalls : y.op = x.op /\ y.filter = x.filter /\ y.on = x.on /\ y.no = x.no /\ (x.pc # "reply" => y.pc # "reply")
    BY <1>1, <1>3, <2>3
  <2>7. \A x \in paneCalls : \E y \in paneCalls' : y.op = x.op /\ y.filter = x.filter /\ y.on = x.on /\ y.no = x.no /\ (x.pc # "reply" => y.pc # "reply")
    BY <1>3, <2>4
  <2>8. SystemSwitch' BY <1>1, <2>2, <2>6, <2>7 DEF SystemSwitch, Unhandled, Followed, Awaited
  <2>9. FilterSwitch' BY <1>1, <2>2, <2>6, <2>7 DEF FilterSwitch, Unhandled, Followed, Awaited
  <2>10. QuietSwitch'
    <3>1. \A x \in paneCalls' : Unhandled(x, {"quiet"})' => x.on = ~visible' \/ Followed(x, {"quiet"})'
      BY <1>1, <2>2, <2>6, <2>7 DEF QuietSwitch, Unhandled, Followed
    <3>2. \A x \in paneCalls' : Unhandled(x, {"ensure"})' => visible' \/ Followed(x, {"quiet"})'
      BY <1>1, <2>2, <2>6, <2>7 DEF QuietSwitch, Unhandled, Followed
    <3> QED BY <1>1, <3>1, <3>2 DEF QuietSwitch
  <2> QED BY <2>5, <2>8, <2>9, <2>10
<1> QED BY <1>2, <1>4 DEF SwitchInv, InOrderSwitches

\* A call that sets a switch of its own sets it on the feed, if there is one.
LEMMA SetStep ==
  ASSUME SwitchInv, NEW c \in paneCalls, Pane!SetLogcatSystem(c) \/ Pane!SetLogcatQuiet(c) \/ Pane!ClearLogcat(c)
  PROVE  SwitchInv'
<1>0. c.on \in BOOLEAN /\ c.filter \in PaneFilters BY DEF SwitchInv, PaneTypes, PaneCall
<1>1. /\ c.op \in {"system", "quiet", "clear"} /\ c.pc = "sent" /\ Pane!Done(c) /\ Pane!Crosses(c)
      /\ UNCHANGED <<visible, showSystem, paneFilter, issued>>
  BY DEF Pane!SetLogcatSystem, Pane!SetLogcatQuiet, Pane!ClearLogcat, Pane!Sent, Pane!page
<1>2. ~crossed' => ~crossed /\ \A y \in paneCalls : y.pc # "reply" => y.no >= c.no BY <1>1, InItsTurn DEF SwitchInv
<1>3. feed # Pane!None => feed[1] \in PaneSwitches /\ feed = <<feed[1]>> BY DEF SwitchInv, PaneTypes
<1> DEFINE f == feed[1]
           g == [f EXCEPT !.sys = c.on]
           h == [f EXCEPT !.quiet = c.on]
<1>4. ASSUME feed # Pane!None
      PROVE  /\ g \in PaneSwitches /\ g.sys = c.on /\ g.filter = f.filter /\ g.quiet = f.quiet
             /\ h \in PaneSwitches /\ h.quiet = c.on /\ h.filter = f.filter /\ h.sys = f.sys
  <2>1. f \in PaneSwitches BY <1>3, <1>4
  <2> HIDE DEF f
  <2> QED BY <1>0, <2>1, FeedWith
<1>5. \A x : <<x>>[1] = x OBVIOUS
<1>6. CASE Pane!SetLogcatSystem(c)
  <2>1. c.op = "system" /\ feed' = (IF feed = Pane!None THEN Pane!None ELSE <<g>>) /\ UNCHANGED missed BY <1>6 DEF Pane!SetLogcatSystem, Pane!Sent
  <2> HIDE DEF g, h
  <2>2. feed' # Pane!None => feed # Pane!None /\ feed' = <<g>> /\ feed'[1] = g BY <1>5, <2>1
  <2> QED BY <1>1, <1>2, <1>4, <2>1, <2>2, EffectStep
<1>7. CASE Pane!SetLogcatQuiet(c)
  <2>1. c.op = "quiet" /\ feed' = (IF feed = Pane!None THEN Pane!None ELSE <<h>>) BY <1>7 DEF Pane!SetLogcatQuiet, Pane!Sent
  <2> HIDE DEF g, h
  <2>2. feed' # Pane!None => feed # Pane!None /\ feed' = <<h>> /\ feed'[1] = h BY <1>5, <2>1
  <2> QED BY <1>1, <1>2, <1>4, <2>1, <2>2, EffectStep
<1>8. CASE Pane!ClearLogcat(c)
  <2>1. c.op = "clear" /\ UNCHANGED <<feed, missed>> BY <1>8 DEF Pane!ClearLogcat, Pane!Sent
  <2> QED BY <1>1, <1>2, <1>3, <2>1, EffectStep
<1> QED BY <1>6, <1>7, <1>8

LEMMA RestartingStep ==
  ASSUME SwitchInv, Restarting, [Pane!Next]_Pane!vars
  PROVE  Restarting'
<1> USE DEF Restarting
<1>0. /\ issued \in Nat /\ paneCalls \subseteq PaneCall /\ \A x \in paneCalls : x.no \in Nat /\ x.no <= issued
  BY DEF SwitchInv, PaneTypes, PaneCall
<1>1. ASSUME NEW new, paneCalls' = paneCalls \cup new, \A x \in new : x.pc = "sent" /\ x.no # 0, UNCHANGED <<lcMu, feed>>
      PROVE  Restarting'
  BY <1>1
<1>2. CASE Pane!Mount \/ Pane!Unmount \/ Pane!setShowSystem \/ Pane!clear \/ \E f \in PaneFilters : Pane!setFilter(f)
  <2>1. ASSUME NEW cs, Pane!Issue(cs), Len(cs) \in Nat, DOMAIN cs = 1 .. Len(cs) PROVE Restarting'
    <3> DEFINE new == {[op |-> cs[i].op, filter |-> cs[i].filter, on |-> cs[i].on, no |-> issued + i, pc |-> "sent"] : i \in DOMAIN cs}
    <3>1. paneCalls' = paneCalls \cup new /\ UNCHANGED <<lcMu, feed>> BY <2>1 DEF Pane!Issue
    <3>2. \A x \in new : x.pc = "sent" /\ x.no # 0 BY <1>0, <2>1
    <3> HIDE DEF new
    <3> QED BY <1>1, <3>1, <3>2
  <2>2. \A x, y : Len(<<x>>) = 1 /\ DOMAIN <<x>> = 1 .. 1 /\ Len(<<x, y>>) = 2 /\ DOMAIN <<x, y>> = 1 .. 2 OBVIOUS
  <2>3. CASE Pane!Mount BY <2>1, <2>2, <2>3 DEF Pane!Mount
  <2>4. CASE Pane!Unmount BY <2>1, <2>2, <2>4 DEF Pane!Unmount
  <2>5. CASE Pane!setShowSystem BY <2>1, <2>2, <2>5 DEF Pane!setShowSystem
  <2>6. CASE Pane!clear BY <2>1, <2>2, <2>6 DEF Pane!clear
  <2>7. CASE \E f \in PaneFilters : Pane!setFilter(f) BY <2>1, <2>2, <2>7 DEF Pane!setFilter
  <2> QED BY <1>2, <2>3, <2>4, <2>5, <2>6, <2>7
<1>3. ASSUME NEW c \in paneCalls, Pane!EnsureHealthy(c) \/ Pane!EnsureStops(c) PROVE Restarting'
  <2>1. lcMu = 0 /\ \A x \in paneCalls : x.pc # "start"
    BY <1>3 DEF Pane!EnsureHealthy, Pane!EnsureStops
  <2>2. CASE Pane!EnsureHealthy(c) BY <2>1, <2>2 DEF Pane!EnsureHealthy, Pane!Done
  <2>3. CASE Pane!EnsureStops(c)
    <3>1. [c EXCEPT !.pc = "start"].no = c.no /\ [c EXCEPT !.pc = "start"].op = c.op BY <1>0 DEF PaneCall
    <3>2. c.op = "ensure" /\ lcMu' = c.no /\ feed' = Pane!None /\ paneCalls' = (paneCalls \ {c}) \cup {[c EXCEPT !.pc = "start"]}
      BY <2>3 DEF Pane!EnsureStops, Pane!Sent, Pane!Step
    <3> QED BY <2>1, <3>1, <3>2
  <2> QED BY <1>3, <2>2, <2>3
<1>4. ASSUME NEW c \in paneCalls, Pane!EnsureStarts(c) \/ Pane!EnsureFails(c) PROVE Restarting'
  <2>1. c.op = "ensure" /\ c.pc = "start" /\ (paneCalls' = paneCalls \ {c} \/ paneCalls' = (paneCalls \ {c}) \cup {[c EXCEPT !.pc = "reply"]})
    BY <1>4 DEF Pane!EnsureStarts, Pane!EnsureFails, Pane!Done, Pane!Step
  <2>2. \A x \in paneCalls : x.pc = "start" => x = c BY <2>1 DEF SwitchInv, PaneTypes
  <2>3. [c EXCEPT !.pc = "reply"].no = c.no /\ [c EXCEPT !.pc = "reply"].pc = "reply" /\ [c EXCEPT !.pc = "reply"].op = c.op
    BY <1>0 DEF PaneCall
  <2> QED BY <2>1, <2>2, <2>3
<1>5. ASSUME NEW c \in paneCalls, Pane!Restarted(c) PROVE Restarting'
  BY <1>5 DEF Pane!Restarted, Pane!Done
<1>6. ASSUME NEW c \in paneCalls, Pane!SetLogcatSystem(c) \/ Pane!SetLogcatQuiet(c) \/ Pane!ClearLogcat(c) PROVE Restarting'
  <2>1. paneCalls' \subseteq paneCalls /\ (feed = Pane!None => feed' = Pane!None) /\ UNCHANGED lcMu
    BY <1>6 DEF Pane!SetLogcatSystem, Pane!SetLogcatQuiet, Pane!ClearLogcat, Pane!Done
  <2> QED BY <2>1
<1>7. CASE Pane!Log \/ Pane!Flush \/ UNCHANGED Pane!vars
  BY <1>7 DEF Pane!Log, Pane!Flush, Pane!vars
<1> QED BY <1>2, <1>3, <1>4, <1>5, <1>6, <1>7 DEF Pane!Next

LEMMA SwitchStep ==
  ASSUME SwitchInv, Restarting, [Pane!Next]_Pane!vars
  PROVE  SwitchInv'
<1>1. ASSUME NEW c \in paneCalls, Pane!Restarted(c) PROVE SwitchInv'
  <2>1. c.pc = "reply" /\ paneCalls' = paneCalls \ {c} /\ UNCHANGED <<visible, showSystem, paneFilter, issued, feed, crossed, missed>>
    BY <1>1 DEF Pane!Restarted, Pane!Done, Pane!page
  <2>2. PaneTypes' BY <2>1 DEF SwitchInv, PaneTypes
  <2>3. \A x \in paneCalls : x.pc # "reply" => x \in paneCalls' BY <2>1
  <2>4. ASSUME ~crossed PROVE OneByOne' /\ SystemSwitch' /\ FilterSwitch' /\ QuietSwitch'
    <3>1. OneByOne /\ SystemSwitch /\ FilterSwitch /\ QuietSwitch BY <2>4 DEF SwitchInv, InOrderSwitches
    <3>2. OneByOne' BY <2>1, <3>1 DEF OneByOne
    <3>3. SystemSwitch' BY <2>1, <2>3, <3>1 DEF SystemSwitch, Unhandled, Followed, Awaited
    <3>4. FilterSwitch' BY <2>1, <2>3, <3>1 DEF FilterSwitch, Unhandled, Followed, Awaited
    <3>5. QuietSwitch' BY <2>1, <2>3, <3>1 DEF QuietSwitch, Unhandled, Followed, Awaited
    <3> QED BY <3>2, <3>3, <3>4, <3>5
  <2> QED BY <2>1, <2>2, <2>4 DEF SwitchInv, InOrderSwitches
<1>2. CASE Pane!Log \/ Pane!Flush \/ UNCHANGED Pane!vars
  <2>1. UNCHANGED <<visible, showSystem, paneFilter, paneCalls, issued, feed, crossed, missed>>
    BY <1>2 DEF Pane!Log, Pane!Flush, Pane!vars, Pane!page, Pane!past
  <2> QED BY <2>1 DEF SwitchInv, PaneTypes, InOrderSwitches, OneByOne, SystemSwitch, FilterSwitch, QuietSwitch, Unhandled, Followed, Awaited
<1> QED BY <1>1, <1>2, MountStep, PageStep, EnsureStep, EnsureStopsStep, SetStep DEF Pane!Next

LEMMA SwitchesAreHeld == SwitchInv => Pane!SwitchesHold
<1> SUFFICES ASSUME SwitchInv, paneCalls = {}, ~crossed, feed # Pane!None
             PROVE  feed[1].sys = showSystem /\ feed[1].filter = paneFilter /\ (~missed => feed[1].quiet = ~visible)
  BY DEF Pane!SwitchesHold, Pane!Settled
<1> QED BY DEF SwitchInv, InOrderSwitches, SystemSwitch, FilterSwitch, QuietSwitch, Unhandled, Awaited

LEMMA SwitchStart == Pane!Init => SwitchInv /\ Restarting
<1> SUFFICES ASSUME Pane!Init PROVE SwitchInv /\ Restarting OBVIOUS
<1>1. visible = FALSE /\ showSystem = FALSE /\ paneFilter \in PaneFilters /\ paneCalls = {} /\ issued = 0 /\ feed = Pane!None BY DEF Pane!Init
<1>2. PaneTypes BY <1>1 DEF PaneTypes
<1>3. OneByOne /\ SystemSwitch /\ FilterSwitch /\ QuietSwitch BY <1>1 DEF OneByOne, SystemSwitch, FilterSwitch, QuietSwitch
<1> QED BY <1>1, <1>2, <1>3 DEF SwitchInv, InOrderSwitches, Restarting

-----------------------------------------------------------------------------
(* The lines of the page.                                                  *)

Rises(s) == \A i, j \in 1 .. Len(s) : i < j => s[i] < s[j]
UpTo(s, n) == \A i \in 1 .. Len(s) : s[i] <= n

LEMMA JoinedLines ==
  ASSUME NEW s \in Seq(Nat), NEW t \in Seq(Nat)
  PROVE  Pane!Lines(s \o t) = Pane!Lines(s) \cup Pane!Lines(t)
<1>1. ASSUME NEW x \in Pane!Lines(s \o t) PROVE x \in Pane!Lines(s) \cup Pane!Lines(t)
  <2>1. PICK i \in 1 .. Len(s) + Len(t) : x = (s \o t)[i] BY <1>1 DEF Pane!Lines
  <2>2. CASE i \in 1 .. Len(s) BY <2>1, <2>2, Joined DEF Pane!Lines
  <2>3. CASE i \in Len(s) + 1 .. Len(s) + Len(t)
    <3>1. x = t[i - Len(s)] /\ i - Len(s) \in 1 .. Len(t) BY <2>1, <2>3, Joined
    <3> QED BY <3>1 DEF Pane!Lines
  <2> QED BY <2>1, <2>2, <2>3
<1>2. ASSUME NEW x \in Pane!Lines(s) PROVE x \in Pane!Lines(s \o t)
  <2>1. PICK i \in 1 .. Len(s) : x = s[i] BY <1>2 DEF Pane!Lines
  <2>2. i \in DOMAIN (s \o t) /\ (s \o t)[i] = s[i] BY <2>1
  <2> QED BY <2>1, <2>2 DEF Pane!Lines
<1>3. ASSUME NEW x \in Pane!Lines(t) PROVE x \in Pane!Lines(s \o t)
  <2>1. PICK i \in 1 .. Len(t) : x = t[i] BY <1>3 DEF Pane!Lines
  <2>2. Len(s) + i \in DOMAIN (s \o t) /\ (s \o t)[Len(s) + i] = t[i] BY <2>1
  <2> QED BY <2>1, <2>2 DEF Pane!Lines
<1> QED BY <1>1, <1>2, <1>3

LEMMA AddedLine ==
  ASSUME NEW s \in Seq(Nat), NEW n \in Nat, UpTo(s, n)
  PROVE  /\ s \o <<n + 1>> \in Seq(Nat) /\ UpTo(s \o <<n + 1>>, n + 1)
         /\ Rises(s) => Rises(s \o <<n + 1>>)
<1>1. <<n + 1>> \in Seq(Nat) /\ Len(<<n + 1>>) = 1 /\ <<n + 1>>[1] = n + 1 OBVIOUS
<1>2. /\ s \o <<n + 1>> \in Seq(Nat) /\ Len(s \o <<n + 1>>) = Len(s) + 1
      /\ \A i \in 1 .. Len(s) : (s \o <<n + 1>>)[i] = s[i] /\ s[i] \in Nat
      /\ (s \o <<n + 1>>)[Len(s) + 1] = n + 1
  OBVIOUS
<1> DEFINE t == s \o <<n + 1>>
<1>3. t \in Seq(Nat) /\ Len(t) = Len(s) + 1 /\ (\A i \in 1 .. Len(s) : t[i] = s[i] /\ s[i] \in Nat) /\ t[Len(s) + 1] = n + 1 BY <1>2
<1> HIDE DEF t
<1>4. UpTo(t, n + 1) BY <1>3 DEF UpTo
<1>5. ASSUME Rises(s) PROVE Rises(t)
  <2>1. ASSUME NEW i \in 1 .. Len(t), NEW j \in 1 .. Len(t), i < j PROVE t[i] < t[j]
    <3>1. i \in 1 .. Len(s) /\ t[i] = s[i] /\ s[i] \in Nat BY <1>3, <2>1
    <3>2. CASE j \in 1 .. Len(s) BY <1>3, <1>5, <2>1, <3>1, <3>2 DEF Rises
    <3>3. CASE j = Len(s) + 1
      <4>1. t[j] = n + 1 /\ s[i] <= n BY <1>3, <3>1, <3>3 DEF UpTo
      <4> QED BY <3>1, <4>1
    <3> QED BY <1>3, <3>2, <3>3
  <2> QED BY <2>1 DEF Rises
<1> QED BY <1>3, <1>4, <1>5 DEF t

LEMMA LaterLines ==
  ASSUME NEW s \in Seq(Nat), NEW n \in Nat, UpTo(s, n)
  PROVE  UpTo(s, n + 1)
BY DEF UpTo

LEMMA PartRises ==
  ASSUME NEW s \in Seq(Nat), NEW t \in Seq(Nat), Rises(s \o t)
  PROVE  Rises(s)
<1>1. s \o t \in Seq(Nat) /\ Len(s \o t) = Len(s) + Len(t) /\ \A i \in 1 .. Len(s) : (s \o t)[i] = s[i] OBVIOUS
<1> QED BY <1>1 DEF Rises

LEMMA JoinedUpTo ==
  ASSUME NEW s \in Seq(Nat), NEW t \in Seq(Nat), NEW n \in Nat, UpTo(s, n), UpTo(t, n)
  PROVE  s \o t \in Seq(Nat) /\ UpTo(s \o t, n)
<1>1. s \o t \in Seq(Nat) BY Joined
<1>2. ASSUME NEW i \in 1 .. Len(s \o t) PROVE (s \o t)[i] <= n
  <2>1. i \in 1 .. Len(s) \/ i \in Len(s) + 1 .. Len(s) + Len(t) BY Joined
  <2>2. CASE i \in 1 .. Len(s) BY <2>2, Joined DEF UpTo
  <2>3. CASE i \in Len(s) + 1 .. Len(s) + Len(t)
    <3>1. (s \o t)[i] = t[i - Len(s)] /\ i - Len(s) \in 1 .. Len(t) BY <2>3, Joined
    <3> QED BY <3>1 DEF UpTo
  <2> QED BY <2>1, <2>2, <2>3
<1> QED BY <1>1, <1>2 DEF UpTo

\* What a stream begins with.
LEMMA TailLines ==
  ASSUME logged \in Nat, NEW on
  PROVE  Pane!LogTail(on) \in Seq(Nat) /\ Rises(Pane!LogTail(on)) /\ UpTo(Pane!LogTail(on), logged)
<1> DEFINE half == (logged + 1) \div 2
           odd == [i \in 1 .. half |-> 2 * i - 1]
           every == [i \in 1 .. logged |-> i]
<1>1. half \in Nat /\ 2 * half <= logged + 1 OBVIOUS
<1>2. every \in Seq(Nat) /\ Len(every) = logged /\ \A i \in 1 .. logged : every[i] = i OBVIOUS
<1>3. odd \in Seq(Nat) /\ Len(odd) = half /\ \A i \in 1 .. half : odd[i] = 2 * i - 1
  <2> HIDE DEF half
  <2>1. \A i \in 1 .. half : 2 * i - 1 \in Nat BY <1>1
  <2> QED BY <1>1, <2>1
<1> HIDE DEF half, odd, every
<1>4. Rises(every) /\ UpTo(every, logged) BY <1>2 DEF Rises, UpTo
<1>5. Rises(odd) /\ UpTo(odd, logged) BY <1>1, <1>3 DEF Rises, UpTo
<1>6. Pane!LogTail(on) = IF on THEN every ELSE odd BY DEF Pane!LogTail, every, odd, half
<1> QED BY <1>2, <1>3, <1>4, <1>5, <1>6

LineTypes ==
  /\ logged \in Nat /\ ring \in Seq(Nat) /\ buf \in Seq(Nat) /\ UpTo(ring, logged) /\ UpTo(buf, logged)
  /\ feed = Pane!None => buf = <<>> /\ got = {}
Clearing == \E x \in paneCalls : x.op = "clear"
Answering == \E x \in paneCalls : x.pc = "reply"
\* The page misses nothing but what a clear is about to take back, and has no line twice
\* but in front of an answer that drops it.
LineInv ==
  /\ LineTypes /\ Rises(buf)
  /\ Clearing \/ got \subseteq Pane!Lines(ring) \cup Pane!Lines(buf) \cup gone
  /\ Answering \/ Rises(ring \o buf)

LEMMA LineInvIsWhole == LineInv => Pane!PaneIsWhole
<1> SUFFICES ASSUME LineInv, paneCalls = {}
             PROVE  /\ got \subseteq Pane!Lines(ring) \cup Pane!Lines(buf) \cup gone
                    /\ \A i, j \in DOMAIN ring : i < j => ring[i] < ring[j]
  BY DEF Pane!PaneIsWhole, Pane!Settled
<1>1. Rises(ring) BY PartRises DEF LineInv, LineTypes, Answering
<1>2. got \subseteq Pane!Lines(ring) \cup Pane!Lines(buf) \cup gone BY DEF LineInv, Clearing
<1>3. \A i, j \in DOMAIN ring : i < j => ring[i] < ring[j] BY <1>1, SMTT(30) DEF LineInv, LineTypes, Rises
<1> QED BY <1>2, <1>3

LEMMA NoLines ==
  /\ <<>> \in Seq(Nat) /\ Rises(<<>>) /\ Pane!Lines(<<>>) = {} /\ \A n \in Nat : UpTo(<<>>, n)
  /\ \A s \in Seq(Nat) : s \o <<>> = s /\ <<>> \o s = s
<1>1. <<>> \in Seq(Nat) /\ Len(<<>>) = 0 OBVIOUS
<1> QED BY <1>1 DEF Rises, UpTo, Pane!Lines

\* A step that adds calls and keeps the lines, or empties the page.
LEMMA PageLines ==
  ASSUME LineInv, Pane!Mount \/ Pane!Unmount \/ Pane!setShowSystem \/ Pane!clear \/ \E f \in PaneFilters : Pane!setFilter(f)
  PROVE  LineInv'
<1>1. ASSUME NEW cs, Pane!Issue(cs)
      PROVE  paneCalls \subseteq paneCalls' /\ UNCHANGED <<feed, buf, logged, got, gone>>
             /\ \A i \in DOMAIN cs : cs[i].op = "clear" => Clearing'
  <2> DEFINE new(i) == [op |-> cs[i].op, filter |-> cs[i].filter, on |-> cs[i].on, no |-> issued + i, pc |-> "sent"]
  <2>1. /\ paneCalls' = paneCalls \cup {new(i) : i \in DOMAIN cs} /\ UNCHANGED <<feed, buf, logged, got, gone>>
    BY <1>1 DEF Pane!Issue, Pane!past
  <2>2. \A i \in DOMAIN cs : new(i) \in paneCalls' /\ new(i).op = cs[i].op BY <2>1
  <2> HIDE DEF new
  <2> QED BY <2>1, <2>2 DEF Clearing
<1>2. CASE UNCHANGED ring
  <2>1. paneCalls \subseteq paneCalls' /\ UNCHANGED <<feed, buf, logged, got, gone>>
    BY <1>1 DEF Pane!Mount, Pane!Unmount, Pane!setShowSystem, Pane!clear, Pane!setFilter
  <2> QED BY <1>2, <2>1 DEF LineInv, LineTypes, Clearing, Answering
<1>3. CASE Pane!clear
  <2> DEFINE cs == <<Pane!Switch("clear", TRUE)>>
  <2>1. 1 \in DOMAIN cs /\ cs[1].op = "clear" BY DEF Pane!Switch
  <2>2. Pane!Issue(cs) /\ ring' = <<>> BY <1>3 DEF Pane!clear
  <2> HIDE DEF cs
  <2>3. Clearing' /\ UNCHANGED <<feed, buf, logged, got, gone>> BY <1>1, <2>1, <2>2
  <2>4. ring' \o buf' = buf' BY <2>2, <2>3, NoLines DEF LineInv, LineTypes
  <2> QED BY <2>2, <2>3, <2>4, NoLines DEF LineInv, LineTypes
<1> QED BY <1>2, <1>3 DEF Pane!Mount, Pane!Unmount, Pane!setShowSystem, Pane!setFilter

LEMMA RestartLines ==
  ASSUME LineInv, SwitchInv, Restarting, NEW c \in paneCalls,
         Pane!EnsureStops(c) \/ Pane!EnsureStarts(c) \/ Pane!EnsureFails(c) \/ Pane!Restarted(c)
  PROVE  LineInv'
<1>0. c \in PaneCall BY DEF SwitchInv, PaneTypes
<1>1. CASE Pane!EnsureStops(c)
  <2>1. /\ feed' = Pane!None /\ buf' = <<>> /\ got' = {} /\ UNCHANGED <<ring, logged>>
        /\ paneCalls' = (paneCalls \ {c}) \cup {[c EXCEPT !.pc = "start"]} /\ c.pc = "sent"
    BY <1>1 DEF Pane!EnsureStops, Pane!Step, Pane!Sent
  <2>2. Answering => Answering' BY <2>1 DEF Answering
  <2>3. Rises(ring \o buf) => Rises(ring' \o buf') BY <2>1, PartRises, NoLines DEF LineInv, LineTypes
  <2> QED BY <2>1, <2>2, <2>3, NoLines DEF LineInv, LineTypes
<1>2. CASE Pane!EnsureStarts(c)
  <2>1. /\ feed' = <<[filter |-> c.filter, sys |-> c.on, quiet |-> FALSE]>> /\ buf' = Pane!LogTail(c.on)
        /\ got' = Pane!Lines(buf') /\ UNCHANGED <<ring, logged>>
        /\ paneCalls' = (paneCalls \ {c}) \cup {[c EXCEPT !.pc = "reply"]}
    BY <1>2 DEF Pane!EnsureStarts, Pane!Step
  <2>2. feed' # Pane!None BY <2>1 DEF Pane!None
  <2>3. [c EXCEPT !.pc = "reply"].pc = "reply" BY <1>0 DEF PaneCall
  <2>4. Answering' BY <2>1, <2>3 DEF Answering
  <2>5. buf' \in Seq(Nat) /\ Rises(buf') /\ UpTo(buf', logged) BY <2>1, TailLines DEF LineInv, LineTypes
  <2> QED BY <2>1, <2>2, <2>4, <2>5 DEF LineInv, LineTypes
<1>3. CASE Pane!EnsureFails(c)
  <2>1. UNCHANGED <<ring, feed, buf, logged, got, gone>> /\ paneCalls' = paneCalls \ {c} /\ c.pc = "start" /\ c.op = "ensure"
    BY <1>3 DEF Pane!EnsureFails, Pane!Done, Pane!past
  <2>2. (Clearing => Clearing') /\ (Answering => Answering') BY <2>1 DEF Clearing, Answering
  <2> QED BY <2>1, <2>2 DEF LineInv, LineTypes
<1>4. CASE Pane!Restarted(c)
  <2>1. /\ ring' = <<>> /\ gone' = gone \cup (Pane!Lines(ring) \cap got) /\ UNCHANGED <<feed, buf, logged, got>>
        /\ paneCalls' = paneCalls \ {c} /\ c.pc = "reply"
    BY <1>4 DEF Pane!Restarted, Pane!Done
  <2>2. ring' \o buf' = buf BY <2>1, NoLines DEF LineInv, LineTypes
  <2>3. c.op = "ensure" BY <2>1 DEF Restarting
  <2>4. Clearing => Clearing' BY <2>1, <2>3 DEF Clearing
  <2> QED BY <2>1, <2>2, <2>4, NoLines DEF LineInv, LineTypes
<1> QED BY <1>1, <1>2, <1>3, <1>4

LEMMA SwitchLines ==
  ASSUME LineInv, NEW c \in paneCalls,
         Pane!EnsureHealthy(c) \/ Pane!SetLogcatSystem(c) \/ Pane!SetLogcatQuiet(c) \/ Pane!ClearLogcat(c)
  PROVE  LineInv'
<1>1. CASE Pane!EnsureHealthy(c) \/ Pane!SetLogcatSystem(c) \/ Pane!SetLogcatQuiet(c)
  <2>1. /\ UNCHANGED <<ring, buf, logged, got, gone>> /\ paneCalls' = paneCalls \ {c} /\ c.op # "clear" /\ c.pc # "reply"
        /\ feed' = Pane!None => feed = Pane!None
    BY <1>1 DEF Pane!EnsureHealthy, Pane!SetLogcatSystem, Pane!SetLogcatQuiet, Pane!Done, Pane!Sent, Pane!None
  <2>2. (Clearing => Clearing') /\ (Answering => Answering') BY <2>1 DEF Clearing, Answering
  <2> QED BY <2>1, <2>2 DEF LineInv, LineTypes
<1>2. CASE Pane!ClearLogcat(c)
  <2>1. UNCHANGED <<ring, logged, feed>> /\ paneCalls' = paneCalls \ {c} /\ c.op = "clear" /\ c.pc # "reply"
        /\ \/ feed = Pane!None /\ UNCHANGED <<buf, got, gone>>
           \/ buf' = <<>> /\ got' = {}
    BY <1>2 DEF Pane!ClearLogcat, Pane!Done, Pane!Sent
  <2>2. buf' = <<>> /\ got' = {} BY <2>1 DEF LineInv, LineTypes
  <2>3. Answering => Answering' BY <2>1 DEF Answering
  <2>4. Rises(ring \o buf) => Rises(ring' \o buf') BY <2>1, <2>2, PartRises, NoLines DEF LineInv, LineTypes
  <2> QED BY <2>1, <2>2, <2>3, <2>4, NoLines DEF LineInv, LineTypes
<1> QED BY <1>1, <1>2

LEMMA LogLines == ASSUME LineInv, Pane!Log PROVE LineInv'
<1>1. /\ logged' = logged + 1 /\ UNCHANGED <<ring, paneCalls, feed, gone>>
      /\ \/ feed = Pane!None /\ UNCHANGED <<buf, got>>
         \/ /\ feed # Pane!None /\ buf' = buf \o Pane!Classified(logged', feed[1].sys)
            /\ got' = got \cup (Pane!Lines(buf') \ Pane!Lines(buf))
  BY DEF Pane!Log
<1>2. logged \in Nat /\ ring \in Seq(Nat) /\ buf \in Seq(Nat) /\ UpTo(ring, logged) /\ UpTo(buf, logged) BY DEF LineInv, LineTypes
<1>3. logged' \in Nat /\ UpTo(ring, logged') /\ UpTo(buf, logged') BY <1>1, <1>2, LaterLines
<1>4. (Clearing' = Clearing) /\ (Answering' = Answering) BY <1>1 DEF Clearing, Answering
<1>5. CASE UNCHANGED <<buf, got>> BY <1>1, <1>2, <1>3, <1>4, <1>5 DEF LineInv, LineTypes
<1>6. CASE /\ feed # Pane!None /\ buf' = buf \o <<logged + 1>> /\ got' = got \cup (Pane!Lines(buf') \ Pane!Lines(buf))
  <2>1. buf' \in Seq(Nat) /\ UpTo(buf', logged') /\ Rises(buf') BY <1>1, <1>2, <1>6, AddedLine DEF LineInv
  <2>2. ring \o buf \in Seq(Nat) /\ UpTo(ring \o buf, logged) BY <1>2, JoinedUpTo
  <2>3. Rises(ring \o buf) => Rises((ring \o buf) \o <<logged + 1>>) BY <1>2, <2>2, AddedLine
  <2>4. (ring \o buf) \o <<logged + 1>> = ring \o (buf \o <<logged + 1>>) BY <1>2
  <2>5. Pane!Lines(buf) \subseteq Pane!Lines(buf')
    <3>1. <<logged + 1>> \in Seq(Nat) BY <1>2
    <3> QED BY <1>2, <1>6, <3>1, JoinedLines
  <2> QED BY <1>1, <1>2, <1>3, <1>4, <1>6, <2>1, <2>3, <2>4, <2>5 DEF LineInv, LineTypes
<1>7. feed # Pane!None => Pane!Classified(logged', feed[1].sys) \in {<<>>, <<logged + 1>>} BY <1>1 DEF Pane!Classified
<1>8. CASE /\ feed # Pane!None /\ buf' = buf \o <<>> /\ got' = got \cup (Pane!Lines(buf') \ Pane!Lines(buf))
  <2>1. buf' = buf BY <1>2, <1>8, NoLines
  <2> QED BY <1>5, <1>8, <2>1
<1> QED BY <1>1, <1>5, <1>6, <1>7, <1>8

LEMMA FlushLines == ASSUME LineInv, Pane!Flush PROVE LineInv'
<1>1. /\ buf # <<>> /\ buf' = <<>> /\ UNCHANGED <<logged, paneCalls, feed, got>>
      /\ \/ gone' = gone \cup Pane!Lines(buf) /\ UNCHANGED ring
         \/ ring' = ring \o buf /\ UNCHANGED gone
  BY DEF Pane!Flush
<1>2. logged \in Nat /\ ring \in Seq(Nat) /\ buf \in Seq(Nat) /\ UpTo(ring, logged) /\ UpTo(buf, logged) BY DEF LineInv, LineTypes
<1>3. (Clearing' = Clearing) /\ (Answering' = Answering) BY <1>1 DEF Clearing, Answering
<1>4. ring' \o buf' = ring' /\ ring' \in Seq(Nat) /\ UpTo(ring', logged)
  <2>1. ring' \in Seq(Nat) /\ UpTo(ring', logged) BY <1>1, <1>2, JoinedUpTo
  <2> QED BY <1>1, <2>1, NoLines
<1>5. Rises(ring \o buf) => Rises(ring') BY <1>1, <1>2, PartRises
<1>6. Pane!Lines(ring) \cup Pane!Lines(buf) \cup gone \subseteq Pane!Lines(ring') \cup gone' BY <1>1, <1>2, JoinedLines
<1> QED BY <1>1, <1>2, <1>3, <1>4, <1>5, <1>6, NoLines DEF LineInv, LineTypes

LEMMA LineStep ==
  ASSUME LineInv, SwitchInv, Restarting, [Pane!Next]_Pane!vars
  PROVE  LineInv'
<1>1. CASE UNCHANGED Pane!vars
  <2>1. UNCHANGED <<ring, buf, logged, got, gone, feed, paneCalls>> BY <1>1 DEF Pane!vars, Pane!past
  <2> QED BY <2>1 DEF LineInv, LineTypes, Clearing, Answering
<1> QED BY <1>1, PageLines, RestartLines, SwitchLines, LogLines, FlushLines DEF Pane!Next

LEMMA LineStart == Pane!Init => LineInv
<1> SUFFICES ASSUME Pane!Init PROVE LineInv OBVIOUS
<1>1. ring = <<>> /\ buf = <<>> /\ logged = 0 /\ got = {} /\ feed = Pane!None BY DEF Pane!Init
<1>2. <<>> \o <<>> = <<>> OBVIOUS
<1> QED BY <1>1, <1>2, NoLines DEF LineInv, LineTypes

PaneInv == SwitchInv /\ Restarting /\ LineInv

\* Once its calls are handled, the feed is set as the page shows it, and the page has all of its lines.
THEOREM PaneIsKept == Pane!Spec => [](Pane!SwitchesHold /\ Pane!PaneIsWhole)
<1>1. Pane!Init => PaneInv BY SwitchStart, LineStart DEF PaneInv
<1>2. PaneInv /\ [Pane!Next]_Pane!vars => PaneInv' BY RestartingStep, SwitchStep, LineStep DEF PaneInv
<1>3. PaneInv => Pane!SwitchesHold /\ Pane!PaneIsWhole BY SwitchesAreHeld, LineInvIsWhole DEF PaneInv
<1> QED BY <1>1, <1>2, <1>3, PTL DEF Pane!Spec

-----------------------------------------------------------------------------
(* The mirror: its processes, and what the badge shows of them.            *)

MirrorSteps ==
  [pc : {"idle", "binary", "up", "down"}] \cup [pc : {"spawn"}, v2 : BOOLEAN] \cup [pc : {"track", "grace"}, p : Scrcpy!Procs]
    \cup [pc : {"kill"}, p : Scrcpy!Procs \cup {0}] \cup [pc : {"answer"}, active : BOOLEAN]
MirrorTypes ==
  /\ scrcpyProc \in [Scrcpy!Procs -> [state : {"none", "up", "exited", "waited", "reaped", "told"}, v2 : BOOLEAN]]
  /\ tracked \in Scrcpy!Procs \cup {0} /\ call \in [MirrorCalls -> MirrorSteps]
  /\ badge \in BOOLEAN /\ ver \in 0 .. 2 /\ major \in 0 .. 2 /\ quit \in BOOLEAN /\ swaps \in Nat
  /\ late \in BOOLEAN /\ twice \in BOOLEAN

IsUp(p) == scrcpyProc[p].state = "up"
\* A call that is about to kill the process, or to track it.
Kills(p) == \E c \in MirrorCalls : call[c].pc = "kill" /\ call[c].p = p
Tracks(c, p) == call[c].pc = "track" /\ call[c].p = p
\* A window that is up is known, or is about to be known or killed. One start at a time is
\* on its way to the map, and nothing else is up then but what is about to be killed.
Placed ==
  /\ \A p \in Scrcpy!Procs : IsUp(p) => tracked = p \/ Kills(p) \/ \E c \in MirrorCalls : Tracks(c, p)
  /\ \A c, d \in MirrorCalls : Scrcpy!Starting(c) /\ Scrcpy!Starting(d) => c = d
  /\ \A c \in MirrorCalls : call[c].pc \in {"binary", "spawn"} => \A p \in Scrcpy!Procs : IsUp(p) => Kills(p)
  /\ \A c \in MirrorCalls : call[c].pc = "track" => \A p \in Scrcpy!Procs : IsUp(p) => p = call[c].p \/ Kills(p)
  /\ quit => tracked = 0
Known == ~twice => Placed
\* The flags of version 2, while the version stays as it was.
Flags ==
  swaps = 0 => /\ major # 0 => major = ver
               /\ \A c \in MirrorCalls : call[c].pc = "spawn" /\ call[c].v2 => ver >= 2
               /\ \A p \in Scrcpy!Procs : scrcpyProc[p].v2 => ver >= 2
\* Somebody is still to tell of a change.
ToTell ==
  \/ \E p \in Scrcpy!Procs : scrcpyProc[p].state \in {"exited", "waited", "reaped"}
  \/ \E c \in MirrorCalls : call[c].pc = "up" \/ (call[c].pc \in {"track", "grace"} /\ IsUp(call[c].p))
Told == ~quit /\ ~late => badge = Scrcpy!Up \/ ToTell
MirrorInv == MirrorTypes /\ Known /\ Flags /\ Told

LEMMA MirrorCardinality == ASSUME NEW S PROVE Scrcpy!Cardinality(S) = Cardinality(S)
BY DEF Scrcpy!Cardinality, Cardinality

LEMMA MirrorInvIsTrue == MirrorInv => MirrorIsTrue
<1> SUFFICES ASSUME MirrorInv PROVE Scrcpy!BadgeIsTrue /\ Scrcpy!OneWindow BY DEF MirrorIsTrue, Scrcpy!MirrorIsTrue
<1>1. Scrcpy!BadgeIsTrue
  <2>1. ASSUME Scrcpy!Settled PROVE ~ToTell
    <3>1. \A c \in MirrorCalls : call[c].pc = "idle" BY <2>1 DEF Scrcpy!Settled, Scrcpy!Idle
    <3> QED BY <2>1, <3>1 DEF Scrcpy!Settled, ToTell
  <2> QED BY <2>1 DEF Scrcpy!BadgeIsTrue, MirrorInv, Told
<1>2. ASSUME ~twice PROVE Scrcpy!Cardinality({p \in Scrcpy!Procs : scrcpyProc[p].state = "up"} \ Scrcpy!Doomed) <= 1
  <2> DEFINE W == {p \in Scrcpy!Procs : scrcpyProc[p].state = "up"} \ Scrcpy!Doomed
  <2>1. Placed BY <1>2 DEF MirrorInv, Known
  <2>2. \A p \in W : p \in Scrcpy!Procs /\ IsUp(p) /\ ~Kills(p) BY DEF IsUp, Kills, Scrcpy!Doomed
  <2> HIDE DEF W
  <2>3. ASSUME NEW p \in W, NEW q \in W PROVE p = q
    <3>1. p \in Scrcpy!Procs /\ q \in Scrcpy!Procs /\ IsUp(p) /\ IsUp(q) /\ ~Kills(p) /\ ~Kills(q) BY <2>2
    <3>2. tracked = p \/ \E c \in MirrorCalls : Tracks(c, p) BY <2>1, <3>1 DEF Placed
    <3>3. tracked = q \/ \E c \in MirrorCalls : Tracks(c, q) BY <2>1, <3>1 DEF Placed
    <3>4. ASSUME NEW c \in MirrorCalls, Tracks(c, p) \/ Tracks(c, q) PROVE p = q
      BY <2>1, <3>1, <3>4 DEF Placed, Tracks
    <3> QED BY <3>2, <3>3, <3>4
  <2>4. ASSUME W = {} PROVE Cardinality(W) <= 1 BY <2>4, FS_EmptySet
  <2>5. ASSUME W # {} PROVE Cardinality(W) <= 1
    <3>1. PICK p : p \in W BY <2>5
    <3>2. W = {p} BY <2>3, <3>1
    <3> QED BY <3>2, FS_Singleton
  <2>6. Scrcpy!Cardinality(W) <= 1 BY <2>4, <2>5, MirrorCardinality
  <2> QED BY <2>6 DEF W
<1>3. ~twice /\ quit => \A p \in Scrcpy!Procs : scrcpyProc[p].state = "up" => \E c \in MirrorCalls : call[c].pc \in {"track", "kill"} /\ call[c].p = p
  <2>1. 0 \notin Scrcpy!Procs BY MirrorAssumption DEF Scrcpy!Procs
  <2> QED BY <2>1 DEF MirrorInv, Known, Placed, IsUp, Kills, Tracks
<1>4. swaps = 0 => \A p \in Scrcpy!Procs : scrcpyProc[p].v2 => ver >= 2 BY DEF MirrorInv, Flags
<1> QED BY <1>1, <1>2, <1>3, <1>4 DEF Scrcpy!OneWindow

LEMMA MirrorStart == Scrcpy!Init => MirrorInv
<1> SUFFICES ASSUME Scrcpy!Init PROVE MirrorInv OBVIOUS
<1>1. /\ scrcpyProc = [p \in Scrcpy!Procs |-> [state |-> "none", v2 |-> FALSE]] /\ tracked = 0
      /\ call = [c \in MirrorCalls |-> [pc |-> "idle"]] /\ badge = FALSE /\ ver \in 0 .. 2 /\ major = 0
      /\ quit = FALSE /\ swaps = 0 /\ late = FALSE /\ twice = FALSE
  BY DEF Scrcpy!Init, Scrcpy!Idle
<1>2. \A p \in Scrcpy!Procs : scrcpyProc[p].state = "none" /\ scrcpyProc[p].v2 = FALSE BY <1>1
<1>3. \A c \in MirrorCalls : call[c] = [pc |-> "idle"] /\ call[c].pc = "idle" BY <1>1
<1>4. MirrorTypes
  <2>1. scrcpyProc \in [Scrcpy!Procs -> [state : {"none", "up", "exited", "waited", "reaped", "told"}, v2 : BOOLEAN]] BY <1>1
  <2>2. call \in [MirrorCalls -> MirrorSteps] BY <1>1 DEF MirrorSteps
  <2>3. badge \in BOOLEAN /\ quit \in BOOLEAN /\ late \in BOOLEAN /\ twice \in BOOLEAN BY <1>1
  <2>4. tracked \in Scrcpy!Procs \cup {0} /\ ver \in 0 .. 2 /\ major \in 0 .. 2 /\ swaps \in Nat BY <1>1
  <2> QED BY <2>1, <2>2, <2>3, <2>4 DEF MirrorTypes
<1>6. Known BY <1>1, <1>2, <1>3 DEF Known, Placed, IsUp, Scrcpy!Starting
<1>7. Flags BY <1>1, <1>2, <1>3 DEF Flags
<1>8. Told
  <2>1. Scrcpy!Up = FALSE BY <1>2 DEF Scrcpy!Up
  <2> QED BY <1>1, <2>1 DEF Told
<1> QED BY <1>4, <1>6, <1>7, <1>8 DEF MirrorInv

\* What the steps of a call come to.
LEMMA CallMoves ==
  ASSUME MirrorTypes, NEW c \in MirrorCalls,
         \/ Scrcpy!StartScrcpy(c) \/ Scrcpy!NoBinary(c) \/ Scrcpy!majorVersion(c) \/ Scrcpy!Spawn(c) \/ Scrcpy!SpawnFails(c) \/ Scrcpy!Track(c)
         \/ Scrcpy!GraceFails(c) \/ Scrcpy!GraceOver(c) \/ Scrcpy!TellUp(c)
         \/ Scrcpy!StopScrcpy(c) \/ Scrcpy!Kill(c) \/ Scrcpy!TellDown(c) \/ Scrcpy!ScrcpyActive(c) \/ Scrcpy!Answered(c)
  PROVE  /\ ~quit
         /\ \E step \in MirrorSteps : call' = [call EXCEPT ![c] = step]
<1> USE DEF Scrcpy!Goes, Scrcpy!Idle, Scrcpy!Begin
<1>0. /\ [pc |-> "idle"] \in MirrorSteps /\ [pc |-> "binary"] \in MirrorSteps /\ [pc |-> "up"] \in MirrorSteps
      /\ [pc |-> "down"] \in MirrorSteps /\ [pc |-> "idle"].pc = "idle"
      /\ \A v \in BOOLEAN : [pc |-> "spawn", v2 |-> v] \in MirrorSteps /\ [pc |-> "answer", active |-> v] \in MirrorSteps
      /\ \A q \in Scrcpy!Procs : [pc |-> "track", p |-> q] \in MirrorSteps /\ [pc |-> "grace", p |-> q] \in MirrorSteps
      /\ \A q \in Scrcpy!Procs \cup {0} : [pc |-> "kill", p |-> q] \in MirrorSteps
  BY DEF MirrorSteps
<1>1. CASE Scrcpy!StartScrcpy(c)
  <2>1. call' = [call EXCEPT ![c] = [pc |-> IF Scrcpy!IsActive THEN "up" ELSE "binary"]] BY <1>1 DEF Scrcpy!StartScrcpy
  <2> QED BY <1>0, <1>1, <2>1 DEF Scrcpy!StartScrcpy
<1>2. CASE Scrcpy!NoBinary(c) \/ Scrcpy!SpawnFails(c) \/ Scrcpy!GraceFails(c) \/ Scrcpy!GraceOver(c) \/ Scrcpy!TellUp(c) \/ Scrcpy!Kill(c)
           \/ Scrcpy!TellDown(c) \/ Scrcpy!Answered(c)
  BY <1>0, <1>2 DEF Scrcpy!NoBinary, Scrcpy!SpawnFails, Scrcpy!GraceFails, Scrcpy!GraceOver, Scrcpy!TellUp, Scrcpy!Kill,
                    Scrcpy!TellDown, Scrcpy!Answered
<1>3. CASE Scrcpy!majorVersion(c)
  <2>1. /\ ~quit /\ call[c].pc = "binary" /\ \E m \in 0 .. 2 : call' = [call EXCEPT ![c] = [pc |-> "spawn", v2 |-> m >= 2]]
    BY <1>3 DEF Scrcpy!majorVersion, Scrcpy!filterUnsupportedArgs, MirrorTypes
  <2>2. PICK m \in 0 .. 2 : call' = [call EXCEPT ![c] = [pc |-> "spawn", v2 |-> m >= 2]] BY <2>1
  <2>3. (m >= 2) \in BOOLEAN OBVIOUS
  <2> QED BY <1>0, <2>1, <2>2, <2>3
<1>4. CASE Scrcpy!Spawn(c) BY <1>0, <1>4 DEF Scrcpy!Spawn
<1>5. CASE Scrcpy!Track(c)
  <2>1. call[c].p \in Scrcpy!Procs BY <1>5 DEF Scrcpy!Track, MirrorTypes, MirrorSteps
  <2> QED BY <1>0, <1>5, <2>1 DEF Scrcpy!Track
<1>6. CASE Scrcpy!StopScrcpy(c) BY <1>0, <1>6 DEF Scrcpy!StopScrcpy, MirrorTypes
<1>7. CASE Scrcpy!ScrcpyActive(c)
  <2>1. call' = [call EXCEPT ![c] = [pc |-> "answer", active |-> Scrcpy!IsActive]] BY <1>7 DEF Scrcpy!ScrcpyActive
  <2>2. Scrcpy!IsActive \in BOOLEAN BY DEF Scrcpy!IsActive
  <2> QED BY <1>0, <1>7, <2>1, <2>2 DEF Scrcpy!ScrcpyActive
<1> QED BY <1>1, <1>2, <1>3, <1>4, <1>5, <1>6, <1>7

\* Of the steps of a process and of the app, none is a call's.
LEMMA ProcessMoves ==
  ASSUME \/ \E p \in Scrcpy!Procs : Scrcpy!Waited(p) \/ Scrcpy!Reap(p) \/ Scrcpy!OnExit(p) \/ Scrcpy!Exit(p)
         \/ Scrcpy!StopAll \/ Scrcpy!Replace \/ UNCHANGED Scrcpy!vars
  PROVE  UNCHANGED call
BY DEF Scrcpy!Waited, Scrcpy!Reap, Scrcpy!OnExit, Scrcpy!Exit, Scrcpy!StopAll, Scrcpy!Replace, Scrcpy!vars

LEMMA MirrorCallTypes ==
  ASSUME MirrorTypes, [Scrcpy!Next]_Scrcpy!vars
  PROVE  call' \in [MirrorCalls -> MirrorSteps]
<1>1. CASE UNCHANGED call
  <2>1. call \in [MirrorCalls -> MirrorSteps] BY DEF MirrorTypes
  <2> QED BY <1>1, <2>1, Zenon
<1>2. ASSUME NEW c \in MirrorCalls, NEW step \in MirrorSteps, call' = [call EXCEPT ![c] = step]
      PROVE  call' \in [MirrorCalls -> MirrorSteps]
  BY <1>2 DEF MirrorTypes
<1> QED BY <1>1, <1>2, CallMoves, ProcessMoves DEF Scrcpy!Next

\* What each step leaves of a process's state.
LEMMA ProcTypes ==
  ASSUME MirrorTypes, [Scrcpy!Next]_Scrcpy!vars
  PROVE  scrcpyProc' \in [Scrcpy!Procs -> [state : {"none", "up", "exited", "waited", "reaped", "told"}, v2 : BOOLEAN]]
<1> USE DEF MirrorTypes
<1>1. CASE UNCHANGED scrcpyProc BY <1>1
<1>2. ASSUME NEW c \in MirrorCalls, Scrcpy!Spawn(c) PROVE scrcpyProc' \in [Scrcpy!Procs -> [state : {"none", "up", "exited", "waited", "reaped", "told"}, v2 : BOOLEAN]]
  <2>1. call[c].v2 \in BOOLEAN BY <1>2 DEF Scrcpy!Spawn, MirrorSteps
  <2>2. PICK p \in Scrcpy!Procs : scrcpyProc' = [scrcpyProc EXCEPT ![p] = [state |-> IF call[c].v2 /\ ver < 2 THEN "exited" ELSE "up", v2 |-> call[c].v2]]
    BY <1>2 DEF Scrcpy!Spawn
  <2> DEFINE new == [state |-> IF call[c].v2 /\ ver < 2 THEN "exited" ELSE "up", v2 |-> call[c].v2]
  <2>3. new \in [state : {"none", "up", "exited", "waited", "reaped", "told"}, v2 : BOOLEAN] BY <2>1
  <2> HIDE DEF new
  <2> QED BY <2>2, <2>3 DEF new
<1>3. ASSUME NEW p \in Scrcpy!Procs, NEW state \in {"exited", "waited", "reaped", "told"}, Scrcpy!Becomes(p, state)
      PROVE  scrcpyProc' \in [Scrcpy!Procs -> [state : {"none", "up", "exited", "waited", "reaped", "told"}, v2 : BOOLEAN]]
  BY <1>3 DEF Scrcpy!Becomes
<1>4. ASSUME NEW q, scrcpyProc' = [p \in Scrcpy!Procs |-> IF p = q /\ scrcpyProc[p].state = "up" THEN [scrcpyProc[p] EXCEPT !.state = "exited"] ELSE scrcpyProc[p]]
      PROVE  scrcpyProc' \in [Scrcpy!Procs -> [state : {"none", "up", "exited", "waited", "reaped", "told"}, v2 : BOOLEAN]]
  BY <1>4
<1>5. ASSUME NEW c \in MirrorCalls, Scrcpy!Kill(c) PROVE scrcpyProc' \in [Scrcpy!Procs -> [state : {"none", "up", "exited", "waited", "reaped", "told"}, v2 : BOOLEAN]]
  BY <1>4, <1>5 DEF Scrcpy!Kill
<1>6. CASE Scrcpy!StopAll BY <1>4, <1>6 DEF Scrcpy!StopAll
<1>7. ASSUME NEW c \in MirrorCalls,
             \/ Scrcpy!StartScrcpy(c) \/ Scrcpy!NoBinary(c) \/ Scrcpy!majorVersion(c) \/ Scrcpy!SpawnFails(c) \/ Scrcpy!Track(c)
             \/ Scrcpy!GraceFails(c) \/ Scrcpy!GraceOver(c) \/ Scrcpy!TellUp(c)
             \/ Scrcpy!StopScrcpy(c) \/ Scrcpy!TellDown(c) \/ Scrcpy!ScrcpyActive(c) \/ Scrcpy!Answered(c)
      PROVE  UNCHANGED scrcpyProc
  BY <1>7 DEF Scrcpy!StartScrcpy, Scrcpy!NoBinary, Scrcpy!majorVersion, Scrcpy!SpawnFails, Scrcpy!Track, Scrcpy!GraceFails,
              Scrcpy!GraceOver, Scrcpy!TellUp, Scrcpy!StopScrcpy, Scrcpy!TellDown, Scrcpy!ScrcpyActive, Scrcpy!Answered
<1>8. ASSUME NEW p \in Scrcpy!Procs, Scrcpy!Waited(p) \/ Scrcpy!Reap(p) \/ Scrcpy!OnExit(p) \/ Scrcpy!Exit(p)
      PROVE  \E state \in {"exited", "waited", "reaped", "told"} : Scrcpy!Becomes(p, state)
  BY <1>8 DEF Scrcpy!Waited, Scrcpy!Reap, Scrcpy!OnExit, Scrcpy!Exit
<1>9. CASE Scrcpy!Replace \/ UNCHANGED Scrcpy!vars BY <1>9 DEF Scrcpy!Replace, Scrcpy!vars
<1> QED BY <1>1, <1>2, <1>3, <1>5, <1>6, <1>7, <1>8, <1>9 DEF Scrcpy!Next

\* Only a start sees whether it crosses another.
LEMMA TwiceSet ==
  ASSUME [Scrcpy!Next]_Scrcpy!vars
  PROVE  UNCHANGED twice \/ \E c \in MirrorCalls : Scrcpy!StartScrcpy(c)
<1>1. ASSUME NEW c \in MirrorCalls,
             \/ Scrcpy!NoBinary(c) \/ Scrcpy!majorVersion(c) \/ Scrcpy!Spawn(c) \/ Scrcpy!SpawnFails(c) \/ Scrcpy!Track(c)
             \/ Scrcpy!GraceFails(c) \/ Scrcpy!GraceOver(c) \/ Scrcpy!TellUp(c)
             \/ Scrcpy!StopScrcpy(c) \/ Scrcpy!Kill(c) \/ Scrcpy!TellDown(c) \/ Scrcpy!ScrcpyActive(c) \/ Scrcpy!Answered(c)
      PROVE  UNCHANGED twice
  BY <1>1 DEF Scrcpy!NoBinary, Scrcpy!majorVersion, Scrcpy!Spawn, Scrcpy!SpawnFails, Scrcpy!Track, Scrcpy!GraceFails,
              Scrcpy!GraceOver, Scrcpy!TellUp, Scrcpy!StopScrcpy, Scrcpy!Kill, Scrcpy!TellDown, Scrcpy!ScrcpyActive, Scrcpy!Answered
<1>2. ASSUME NEW p \in Scrcpy!Procs, Scrcpy!Waited(p) \/ Scrcpy!Reap(p) \/ Scrcpy!OnExit(p) \/ Scrcpy!Exit(p) PROVE UNCHANGED twice
  BY <1>2 DEF Scrcpy!Waited, Scrcpy!Reap, Scrcpy!OnExit, Scrcpy!Exit
<1>3. CASE Scrcpy!StopAll \/ Scrcpy!Replace \/ UNCHANGED Scrcpy!vars BY <1>3 DEF Scrcpy!StopAll, Scrcpy!Replace, Scrcpy!vars
<1> QED BY <1>1, <1>2, <1>3 DEF Scrcpy!Next

LEMMA MirrorTypesStep ==
  ASSUME MirrorTypes, [Scrcpy!Next]_Scrcpy!vars
  PROVE  MirrorTypes'
<1>1. tracked' \in Scrcpy!Procs \cup {0}
  <2> USE DEF MirrorTypes
  <2>1. CASE UNCHANGED tracked BY <2>1
  <2>2. ASSUME NEW c \in MirrorCalls, Scrcpy!Track(c) PROVE tracked' \in Scrcpy!Procs \cup {0}
    BY <2>2 DEF Scrcpy!Track, MirrorSteps
  <2>3. ASSUME NEW c \in MirrorCalls, Scrcpy!StartScrcpy(c) \/ Scrcpy!StopScrcpy(c) \/ Scrcpy!ScrcpyActive(c) PROVE tracked' \in Scrcpy!Procs \cup {0}
    BY <2>3 DEF Scrcpy!StartScrcpy, Scrcpy!StopScrcpy, Scrcpy!ScrcpyActive, Scrcpy!Asked
  <2>4. ASSUME NEW c \in MirrorCalls,
               \/ Scrcpy!NoBinary(c) \/ Scrcpy!majorVersion(c) \/ Scrcpy!Spawn(c) \/ Scrcpy!SpawnFails(c)
               \/ Scrcpy!GraceFails(c) \/ Scrcpy!GraceOver(c) \/ Scrcpy!TellUp(c) \/ Scrcpy!Kill(c) \/ Scrcpy!TellDown(c) \/ Scrcpy!Answered(c)
        PROVE  UNCHANGED tracked
    BY <2>4 DEF Scrcpy!NoBinary, Scrcpy!majorVersion, Scrcpy!Spawn, Scrcpy!SpawnFails, Scrcpy!GraceFails,
                Scrcpy!GraceOver, Scrcpy!TellUp, Scrcpy!Kill, Scrcpy!TellDown, Scrcpy!Answered
  <2>5. ASSUME NEW p \in Scrcpy!Procs, Scrcpy!Waited(p) \/ Scrcpy!Reap(p) \/ Scrcpy!OnExit(p) \/ Scrcpy!Exit(p) PROVE tracked' \in {tracked, 0}
    BY <2>5 DEF Scrcpy!Waited, Scrcpy!Reap, Scrcpy!OnExit, Scrcpy!Exit
  <2>6. CASE Scrcpy!StopAll \/ Scrcpy!Replace \/ UNCHANGED Scrcpy!vars BY <2>6 DEF Scrcpy!StopAll, Scrcpy!Replace, Scrcpy!vars
  <2> QED BY <2>1, <2>2, <2>3, <2>4, <2>5, <2>6 DEF Scrcpy!Next
<1>2. badge' \in BOOLEAN /\ late' \in BOOLEAN
  <2> USE DEF MirrorTypes
  <2>1. ASSUME NEW a \in BOOLEAN, Scrcpy!Emits(a) PROVE badge' \in BOOLEAN /\ late' \in BOOLEAN
    <3>1. (late \/ a # Scrcpy!Up) \in BOOLEAN OBVIOUS
    <3> QED BY <2>1, <3>1 DEF Scrcpy!Emits
  <2>2. ASSUME NEW c \in MirrorCalls, Scrcpy!Answered(c) PROVE badge' \in BOOLEAN /\ late' \in BOOLEAN
    <3>1. call[c].active \in BOOLEAN BY <2>2 DEF Scrcpy!Answered, MirrorSteps
    <3> QED BY <2>1, <2>2, <3>1 DEF Scrcpy!Answered
  <2>3. ASSUME NEW c \in MirrorCalls, Scrcpy!TellUp(c) \/ Scrcpy!TellDown(c) PROVE badge' \in BOOLEAN /\ late' \in BOOLEAN
    <3>1. TRUE \in BOOLEAN /\ FALSE \in BOOLEAN OBVIOUS
    <3> QED BY <2>1, <2>3, <3>1 DEF Scrcpy!TellUp, Scrcpy!TellDown
  <2>4. ASSUME NEW p \in Scrcpy!Procs, Scrcpy!OnExit(p) PROVE badge' \in BOOLEAN /\ late' \in BOOLEAN
    <3>1. FALSE \in BOOLEAN OBVIOUS
    <3> QED BY <2>1, <2>4, <3>1 DEF Scrcpy!OnExit
  <2>5. ASSUME NEW c \in MirrorCalls,
               \/ Scrcpy!StartScrcpy(c) \/ Scrcpy!NoBinary(c) \/ Scrcpy!majorVersion(c) \/ Scrcpy!Spawn(c) \/ Scrcpy!SpawnFails(c) \/ Scrcpy!Track(c)
               \/ Scrcpy!GraceFails(c) \/ Scrcpy!GraceOver(c) \/ Scrcpy!StopScrcpy(c) \/ Scrcpy!Kill(c) \/ Scrcpy!ScrcpyActive(c)
        PROVE  UNCHANGED <<badge, late>>
    BY <2>5 DEF Scrcpy!StartScrcpy, Scrcpy!NoBinary, Scrcpy!majorVersion, Scrcpy!Spawn, Scrcpy!SpawnFails, Scrcpy!Track,
                Scrcpy!GraceFails, Scrcpy!GraceOver, Scrcpy!StopScrcpy, Scrcpy!Kill, Scrcpy!ScrcpyActive
  <2>6. ASSUME NEW p \in Scrcpy!Procs, Scrcpy!Waited(p) \/ Scrcpy!Reap(p) \/ Scrcpy!Exit(p) PROVE UNCHANGED <<badge, late>>
    BY <2>6 DEF Scrcpy!Waited, Scrcpy!Reap, Scrcpy!Exit
  <2>7. CASE Scrcpy!StopAll \/ Scrcpy!Replace \/ UNCHANGED Scrcpy!vars BY <2>7 DEF Scrcpy!StopAll, Scrcpy!Replace, Scrcpy!vars
  <2> QED BY <2>2, <2>3, <2>4, <2>5, <2>6, <2>7 DEF Scrcpy!Next
<1>3. ver' \in 0 .. 2 /\ major' \in 0 .. 2 /\ quit' \in BOOLEAN /\ swaps' \in Nat
  <2> USE DEF MirrorTypes
  <2>1. ASSUME NEW c \in MirrorCalls, Scrcpy!majorVersion(c) PROVE major' \in 0 .. 2 /\ UNCHANGED <<ver, quit, swaps>>
    BY <2>1 DEF Scrcpy!majorVersion
  <2>2. ASSUME NEW c \in MirrorCalls,
               \/ Scrcpy!StartScrcpy(c) \/ Scrcpy!NoBinary(c) \/ Scrcpy!Spawn(c) \/ Scrcpy!SpawnFails(c) \/ Scrcpy!Track(c)
               \/ Scrcpy!GraceFails(c) \/ Scrcpy!GraceOver(c) \/ Scrcpy!TellUp(c)
               \/ Scrcpy!StopScrcpy(c) \/ Scrcpy!Kill(c) \/ Scrcpy!TellDown(c) \/ Scrcpy!ScrcpyActive(c) \/ Scrcpy!Answered(c)
        PROVE  UNCHANGED <<ver, major, quit, swaps>>
    BY <2>2 DEF Scrcpy!StartScrcpy, Scrcpy!NoBinary, Scrcpy!Spawn, Scrcpy!SpawnFails, Scrcpy!Track, Scrcpy!GraceFails,
                Scrcpy!GraceOver, Scrcpy!TellUp, Scrcpy!StopScrcpy, Scrcpy!Kill, Scrcpy!TellDown, Scrcpy!ScrcpyActive, Scrcpy!Answered
  <2>3. ASSUME NEW p \in Scrcpy!Procs, Scrcpy!Waited(p) \/ Scrcpy!Reap(p) \/ Scrcpy!OnExit(p) \/ Scrcpy!Exit(p) PROVE UNCHANGED <<ver, major, quit, swaps>>
    BY <2>3 DEF Scrcpy!Waited, Scrcpy!Reap, Scrcpy!OnExit, Scrcpy!Exit
  <2>4. CASE Scrcpy!StopAll BY <2>4 DEF Scrcpy!StopAll
  <2>5. CASE Scrcpy!Replace BY <2>5 DEF Scrcpy!Replace
  <2>6. CASE UNCHANGED Scrcpy!vars BY <2>6 DEF Scrcpy!vars
  <2> QED BY <2>1, <2>2, <2>3, <2>4, <2>5, <2>6 DEF Scrcpy!Next
<1>4. twice' \in BOOLEAN
  <2>1. ASSUME NEW c \in MirrorCalls, Scrcpy!StartScrcpy(c) PROVE twice' \in BOOLEAN
    <3>1. (twice \/ (~Scrcpy!IsActive /\ \E d \in MirrorCalls : Scrcpy!Starting(d))) \in BOOLEAN OBVIOUS
    <3> QED BY <2>1, <3>1 DEF Scrcpy!StartScrcpy, Scrcpy!Overlaps
  <2> QED BY <2>1, TwiceSet DEF MirrorTypes
<1>5. call' \in [MirrorCalls -> MirrorSteps] BY MirrorCallTypes
<1>6. scrcpyProc' \in [Scrcpy!Procs -> [state : {"none", "up", "exited", "waited", "reaped", "told"}, v2 : BOOLEAN]] BY ProcTypes
<1> QED BY <1>1, <1>2, <1>3, <1>4, <1>5, <1>6, Zenon DEF MirrorTypes

\* A step of a call leaves the others.
LEMMA CallOnly ==
  ASSUME MirrorTypes, NEW c \in MirrorCalls, NEW step, call' = [call EXCEPT ![c] = step]
  PROVE  /\ call'[c] = step
         /\ \A d \in MirrorCalls : d # c => call'[d] = call[d]
BY DEF MirrorTypes

\* What is up when the map has nothing that answers.
LEMMA NothingUp ==
  ASSUME Placed, ~Scrcpy!IsActive, \A d \in MirrorCalls : ~Scrcpy!Starting(d)
  PROVE  \A p \in Scrcpy!Procs : IsUp(p) => Kills(p)
<1>1. 0 \notin Scrcpy!Procs BY MirrorAssumption DEF Scrcpy!Procs
<1>2. \A p \in Scrcpy!Procs : IsUp(p) => tracked = p \/ Kills(p) BY DEF Placed, Tracks, Scrcpy!Starting
<1> QED BY <1>1, <1>2 DEF Scrcpy!IsActive, IsUp

\* The steps of a call that neither start nor stop anything.
LEMMA PlacedCalls ==
  ASSUME MirrorTypes, Placed, NEW c \in MirrorCalls, NEW step, call' = [call EXCEPT ![c] = step],
         call[c].pc \notin {"track", "kill"}, step.pc \notin {"track", "kill"},
         step.pc \in {"binary", "spawn"} =>
           \/ call[c].pc \in {"binary", "spawn"}
           \/ /\ \A p \in Scrcpy!Procs : IsUp(p) => Kills(p)
              /\ \A d \in MirrorCalls : ~Scrcpy!Starting(d),
         tracked' = tracked \/ (tracked' = 0 /\ ~IsUp(tracked)), UNCHANGED <<scrcpyProc, quit>>
  PROVE  Placed'
<1>1. call'[c] = step /\ \A d \in MirrorCalls : d # c => call'[d] = call[d] BY CallOnly
<1>2. \A p : IsUp(p)' <=> IsUp(p) BY DEF IsUp
<1>3. \A p : Kills(p)' <=> Kills(p) BY <1>1 DEF Kills
<1>4. \A d \in MirrorCalls, p \in Scrcpy!Procs : Tracks(d, p)' <=> Tracks(d, p) BY <1>1 DEF Tracks
<1>5. \A p \in Scrcpy!Procs : IsUp(p)' => tracked' = p \/ Kills(p)' \/ \E d \in MirrorCalls : Tracks(d, p)'
  BY <1>2, <1>3, <1>4 DEF Placed
<1>6. \A d \in MirrorCalls : Scrcpy!Starting(d)' => Scrcpy!Starting(d) \/ (d = c /\ \A e \in MirrorCalls : ~Scrcpy!Starting(e))
  BY <1>1 DEF Scrcpy!Starting
<1>7. \A d, e \in MirrorCalls : Scrcpy!Starting(d)' /\ Scrcpy!Starting(e)' => d = e BY <1>6 DEF Placed
<1>8. \A d \in MirrorCalls : call'[d].pc \in {"binary", "spawn"} => \A p \in Scrcpy!Procs : IsUp(p)' => Kills(p)'
  BY <1>1, <1>2, <1>3 DEF Placed
<1>9. \A d \in MirrorCalls : call'[d].pc = "track" => \A p \in Scrcpy!Procs : IsUp(p)' => p = call'[d].p \/ Kills(p)'
  BY <1>1, <1>2, <1>3 DEF Placed
<1>10. quit' => tracked' = 0 BY DEF Placed
<1> QED BY <1>5, <1>7, <1>8, <1>9, <1>10 DEF Placed

\* The steps that take nothing up and leave the calls.
LEMMA PlacedExits ==
  ASSUME Placed, UNCHANGED call, \A p \in Scrcpy!Procs : IsUp(p)' => IsUp(p) /\ (tracked = p => tracked' = p),
         quit' => tracked' = 0
  PROVE  Placed'
<1>1. \A p : Kills(p)' <=> Kills(p) BY DEF Kills
<1>2. \A d \in MirrorCalls, p \in Scrcpy!Procs : Tracks(d, p)' <=> Tracks(d, p) BY DEF Tracks
<1>3. \A d \in MirrorCalls : Scrcpy!Starting(d)' <=> Scrcpy!Starting(d) BY DEF Scrcpy!Starting
<1>4. \A p \in Scrcpy!Procs : IsUp(p)' => tracked' = p \/ Kills(p)' \/ \E d \in MirrorCalls : Tracks(d, p)'
  BY <1>1, <1>2 DEF Placed
<1>5. \A d, e \in MirrorCalls : Scrcpy!Starting(d)' /\ Scrcpy!Starting(e)' => d = e BY <1>3 DEF Placed
<1>6. \A d \in MirrorCalls : call'[d].pc \in {"binary", "spawn"} => \A p \in Scrcpy!Procs : IsUp(p)' => Kills(p)'
  BY <1>1 DEF Placed
<1>7. \A d \in MirrorCalls : call'[d].pc = "track" => \A p \in Scrcpy!Procs : IsUp(p)' => p = call'[d].p \/ Kills(p)'
  BY <1>1 DEF Placed
<1> QED BY <1>4, <1>5, <1>6, <1>7 DEF Placed

LEMMA KnownStep ==
  ASSUME MirrorTypes, Known, [Scrcpy!Next]_Scrcpy!vars
  PROVE  Known'
<1> USE DEF Scrcpy!Goes
<1> SUFFICES ASSUME ~twice' PROVE Placed' BY DEF Known
<1>0. 0 \notin Scrcpy!Procs BY MirrorAssumption DEF Scrcpy!Procs
<1>1. ~twice /\ Placed
  <2>1. ASSUME NEW c \in MirrorCalls, Scrcpy!StartScrcpy(c) PROVE ~twice
    <3>1. twice' = (twice \/ (~Scrcpy!IsActive /\ \E d \in MirrorCalls : Scrcpy!Starting(d))) BY <2>1 DEF Scrcpy!StartScrcpy, Scrcpy!Overlaps
    <3> QED BY <3>1, Zenon
  <2>2. ~twice BY <2>1, TwiceSet, Zenon
  <2> QED BY <2>2 DEF Known
<1>2. ASSUME NEW c \in MirrorCalls, Scrcpy!StartScrcpy(c) PROVE Placed'
  <2> DEFINE step == [pc |-> IF Scrcpy!IsActive THEN "up" ELSE "binary"]
  <2>1. /\ call' = [call EXCEPT ![c] = step] /\ tracked' = (IF Scrcpy!IsActive THEN tracked ELSE 0) /\ UNCHANGED <<scrcpyProc, quit>>
        /\ call[c].pc = "idle"
    BY <1>2 DEF Scrcpy!StartScrcpy, Scrcpy!Asked, Scrcpy!Begin, Scrcpy!Idle
  <2>2. Scrcpy!IsActive \/ \A d \in MirrorCalls : ~Scrcpy!Starting(d) BY <1>2 DEF Scrcpy!StartScrcpy, Scrcpy!Overlaps
  <2>3. step.pc \in {"up", "binary"} /\ (step.pc = "binary" => ~Scrcpy!IsActive) OBVIOUS
  <2>4. step.pc = "binary" => /\ \A p \in Scrcpy!Procs : IsUp(p) => Kills(p)
                              /\ \A d \in MirrorCalls : ~Scrcpy!Starting(d)
    BY <1>1, <2>2, <2>3, NothingUp
  <2>5. tracked' = tracked \/ (tracked' = 0 /\ ~IsUp(tracked)) BY <2>1 DEF Scrcpy!IsActive, IsUp
  <2> HIDE DEF step
  <2> QED BY <1>1, <2>1, <2>3, <2>4, <2>5, PlacedCalls
<1>3. ASSUME NEW c \in MirrorCalls, Scrcpy!ScrcpyActive(c) PROVE Placed'
  <2> DEFINE step == [pc |-> "answer", active |-> Scrcpy!IsActive]
  <2>1. /\ call' = [call EXCEPT ![c] = step] /\ tracked' = (IF Scrcpy!IsActive THEN tracked ELSE 0) /\ UNCHANGED <<scrcpyProc, quit>>
        /\ call[c].pc = "idle"
    BY <1>3 DEF Scrcpy!ScrcpyActive, Scrcpy!Asked, Scrcpy!Begin, Scrcpy!Idle
  <2>2. step.pc = "answer" OBVIOUS
  <2>3. tracked' = tracked \/ (tracked' = 0 /\ ~IsUp(tracked)) BY <2>1 DEF Scrcpy!IsActive, IsUp
  <2> HIDE DEF step
  <2> QED BY <1>1, <2>1, <2>2, <2>3, PlacedCalls
<1>4. ASSUME NEW c \in MirrorCalls,
             \/ Scrcpy!NoBinary(c) \/ Scrcpy!SpawnFails(c) \/ Scrcpy!GraceFails(c) \/ Scrcpy!GraceOver(c) \/ Scrcpy!TellUp(c)
             \/ Scrcpy!TellDown(c) \/ Scrcpy!Answered(c) \/ Scrcpy!majorVersion(c)
      PROVE  Placed'
  <2>1. PICK step : /\ call' = [call EXCEPT ![c] = step] /\ UNCHANGED <<scrcpyProc, tracked, quit>>
                    /\ call[c].pc \in {"binary", "spawn", "grace", "up", "down", "answer"}
                    /\ step.pc \in {"idle", "up"} \/ (step.pc = "spawn" /\ call[c].pc = "binary")
    <3>1. CASE Scrcpy!majorVersion(c)
      <4>1. PICK m : call' = [call EXCEPT ![c] = [pc |-> "spawn", v2 |-> m >= 2]] BY <3>1 DEF Scrcpy!majorVersion, Scrcpy!filterUnsupportedArgs
      <4>2. [pc |-> "spawn", v2 |-> m >= 2].pc = "spawn" OBVIOUS
      <4> QED BY <3>1, <4>1, <4>2 DEF Scrcpy!majorVersion
    <3>2. [pc |-> "idle"].pc = "idle" /\ [pc |-> "up"].pc = "up" OBVIOUS
    <3> QED BY <1>4, <3>1, <3>2 DEF Scrcpy!NoBinary, Scrcpy!SpawnFails, Scrcpy!GraceFails, Scrcpy!GraceOver, Scrcpy!TellUp,
                  Scrcpy!TellDown, Scrcpy!Answered, Scrcpy!Idle
  <2> QED BY <1>1, <2>1, PlacedCalls
<1>5. ASSUME NEW c \in MirrorCalls, Scrcpy!Spawn(c) PROVE Placed'
  <2>1. PICK p \in Scrcpy!Procs :
          /\ scrcpyProc' = [scrcpyProc EXCEPT ![p] = [state |-> IF call[c].v2 /\ ver < 2 THEN "exited" ELSE "up", v2 |-> call[c].v2]]
          /\ call' = [call EXCEPT ![c] = [pc |-> "track", p |-> p]]
    BY <1>5 DEF Scrcpy!Spawn
  <2>2. call[c].pc = "spawn" /\ UNCHANGED <<tracked, quit>> BY <1>5 DEF Scrcpy!Spawn
  <2>3. call'[c] = [pc |-> "track", p |-> p] /\ \A d \in MirrorCalls : d # c => call'[d] = call[d] BY <2>1, CallOnly
  <2>4. call'[c].pc = "track" /\ call'[c].p = p BY <2>3
  <2>5. \A q \in Scrcpy!Procs : IsUp(q)' => q = p \/ Kills(q) BY <1>1, <2>1, <2>2 DEF Placed, IsUp, MirrorTypes
  <2>6. \A q : Kills(q) => Kills(q)' BY <2>2, <2>3 DEF Kills
  <2>7. \A d \in MirrorCalls : Scrcpy!Starting(d)' => Scrcpy!Starting(d) BY <2>2, <2>3 DEF Scrcpy!Starting
  <2>8. \A d \in MirrorCalls : Scrcpy!Starting(d)' => d = c BY <1>1, <2>2, <2>7 DEF Placed, Scrcpy!Starting
  <2>9. \A q \in Scrcpy!Procs : IsUp(q)' => tracked' = q \/ Kills(q)' \/ \E d \in MirrorCalls : Tracks(d, q)'
    BY <2>4, <2>5, <2>6 DEF Tracks
  <2>10. \A d \in MirrorCalls : call'[d].pc = "track" => \A q \in Scrcpy!Procs : IsUp(q)' => q = call'[d].p \/ Kills(q)'
    BY <2>4, <2>5, <2>6, <2>8 DEF Scrcpy!Starting
  <2>11. \A d \in MirrorCalls : call'[d].pc \notin {"binary", "spawn"} BY <2>4, <2>8 DEF Scrcpy!Starting
  <2> QED BY <1>1, <2>2, <2>8, <2>9, <2>10, <2>11 DEF Placed
<1>6. ASSUME NEW c \in MirrorCalls, Scrcpy!Track(c) PROVE Placed'
  <2>1. /\ call[c].pc = "track" /\ tracked' = call[c].p /\ call' = [call EXCEPT ![c] = [pc |-> "grace", p |-> call[c].p]]
        /\ UNCHANGED <<scrcpyProc, quit>> /\ ~quit
    BY <1>6 DEF Scrcpy!Track
  <2>2. call'[c] = [pc |-> "grace", p |-> call[c].p] /\ \A d \in MirrorCalls : d # c => call'[d] = call[d] BY <2>1, CallOnly
  <2>3. call'[c].pc = "grace" BY <2>2
  <2>4. \A q : IsUp(q)' <=> IsUp(q) BY <2>1 DEF IsUp
  <2>5. \A q : Kills(q) => Kills(q)' BY <2>1, <2>2 DEF Kills
  <2>6. \A d \in MirrorCalls : ~Scrcpy!Starting(d)' BY <1>1, <2>1, <2>2, <2>3 DEF Placed, Scrcpy!Starting
  <2>7. \A q \in Scrcpy!Procs : IsUp(q)' => tracked' = q \/ Kills(q)' BY <1>1, <2>1, <2>4, <2>5 DEF Placed
  <2>8. \A d \in MirrorCalls : call'[d].pc \notin {"binary", "spawn", "track"} BY <2>6 DEF Scrcpy!Starting
  <2> QED BY <2>1, <2>6, <2>7, <2>8 DEF Placed
<1>7. ASSUME NEW c \in MirrorCalls, Scrcpy!StopScrcpy(c) PROVE Placed'
  <2>1. /\ ~quit /\ call[c].pc = "idle"
        /\ call' = [call EXCEPT ![c] = [pc |-> "kill", p |-> tracked]] /\ tracked' = 0 /\ UNCHANGED <<scrcpyProc, quit>>
    BY <1>7 DEF Scrcpy!StopScrcpy, Scrcpy!Begin, Scrcpy!Idle
  <2>2. call'[c] = [pc |-> "kill", p |-> tracked] /\ \A d \in MirrorCalls : d # c => call'[d] = call[d] BY <2>1, CallOnly
  <2>3. call'[c].pc = "kill" /\ call'[c].p = tracked BY <2>2
  <2>4. \A q : IsUp(q)' <=> IsUp(q) BY <2>1 DEF IsUp
  <2>5. \A q : Kills(q) => Kills(q)' BY <2>1, <2>2 DEF Kills
  <2>6. \A q : q = tracked => Kills(q)' BY <2>3 DEF Kills
  <2>7. \A d \in MirrorCalls : Scrcpy!Starting(d)' => Scrcpy!Starting(d) /\ call'[d] = call[d] BY <2>2, <2>3 DEF Scrcpy!Starting
  <2>8. \A d \in MirrorCalls, q \in Scrcpy!Procs : Tracks(d, q) => Tracks(d, q)' BY <2>1, <2>2 DEF Tracks
  <2>9. \A q \in Scrcpy!Procs : IsUp(q)' => tracked' = q \/ Kills(q)' \/ \E d \in MirrorCalls : Tracks(d, q)'
    BY <1>1, <2>4, <2>5, <2>6, <2>8 DEF Placed
  <2>10. \A d \in MirrorCalls : call'[d].pc \in {"binary", "spawn"} => \A q \in Scrcpy!Procs : IsUp(q)' => Kills(q)'
    BY <1>1, <2>4, <2>5, <2>7 DEF Placed, Scrcpy!Starting
  <2>11. \A d \in MirrorCalls : call'[d].pc = "track" => \A q \in Scrcpy!Procs : IsUp(q)' => q = call'[d].p \/ Kills(q)'
    BY <1>1, <2>4, <2>5, <2>7 DEF Placed, Scrcpy!Starting
  <2>12. \A d, e \in MirrorCalls : Scrcpy!Starting(d)' /\ Scrcpy!Starting(e)' => d = e BY <1>1, <2>7 DEF Placed
  <2> QED BY <2>1, <2>9, <2>10, <2>11, <2>12 DEF Placed
<1>8. ASSUME NEW c \in MirrorCalls, Scrcpy!Kill(c) PROVE Placed'
  <2>1. /\ call[c].pc = "kill" /\ call' = [call EXCEPT ![c] = [pc |-> "down"]] /\ UNCHANGED <<tracked, quit>>
        /\ scrcpyProc' = [p \in Scrcpy!Procs |-> IF p = call[c].p /\ scrcpyProc[p].state = "up" THEN [scrcpyProc[p] EXCEPT !.state = "exited"] ELSE scrcpyProc[p]]
    BY <1>8 DEF Scrcpy!Kill
  <2>2. call'[c] = [pc |-> "down"] /\ \A d \in MirrorCalls : d # c => call'[d] = call[d] BY <2>1, CallOnly
  <2>3. call'[c].pc = "down" BY <2>2
  <2>4. \A q \in Scrcpy!Procs : IsUp(q)' => IsUp(q) /\ q # call[c].p BY <2>1 DEF IsUp, MirrorTypes
  <2>5. \A q : Kills(q) /\ q # call[c].p => Kills(q)' BY <2>2 DEF Kills
  <2>6. \A d \in MirrorCalls : Scrcpy!Starting(d)' => Scrcpy!Starting(d) /\ call'[d] = call[d] BY <2>2, <2>3 DEF Scrcpy!Starting
  <2>7. \A d \in MirrorCalls, q \in Scrcpy!Procs : Tracks(d, q) => Tracks(d, q)' BY <2>1, <2>2 DEF Tracks
  <2>8. \A q \in Scrcpy!Procs : IsUp(q)' => tracked' = q \/ Kills(q)' \/ \E d \in MirrorCalls : Tracks(d, q)'
    BY <1>1, <2>1, <2>4, <2>5, <2>7 DEF Placed
  <2>9. \A d \in MirrorCalls : call'[d].pc \in {"binary", "spawn"} => \A q \in Scrcpy!Procs : IsUp(q)' => Kills(q)'
    BY <1>1, <2>4, <2>5, <2>6 DEF Placed, Scrcpy!Starting
  <2>10. \A d \in MirrorCalls : call'[d].pc = "track" => \A q \in Scrcpy!Procs : IsUp(q)' => q = call'[d].p \/ Kills(q)'
    BY <1>1, <2>4, <2>5, <2>6 DEF Placed, Scrcpy!Starting
  <2>11. \A d, e \in MirrorCalls : Scrcpy!Starting(d)' /\ Scrcpy!Starting(e)' => d = e BY <1>1, <2>6 DEF Placed
  <2> QED BY <1>1, <2>1, <2>8, <2>9, <2>10, <2>11 DEF Placed
<1>9. ASSUME NEW p \in Scrcpy!Procs, Scrcpy!Waited(p) \/ Scrcpy!Reap(p) \/ Scrcpy!OnExit(p) \/ Scrcpy!Exit(p) PROVE Placed'
  <2>1. UNCHANGED <<call, quit>> /\ (tracked' = tracked \/ (tracked' = 0 /\ ~IsUp(tracked)))
    BY <1>9 DEF Scrcpy!Waited, Scrcpy!Reap, Scrcpy!OnExit, Scrcpy!Exit, IsUp
  <2>2. \A q \in Scrcpy!Procs : IsUp(q)' => IsUp(q)
    BY <1>9 DEF Scrcpy!Waited, Scrcpy!Reap, Scrcpy!OnExit, Scrcpy!Exit, Scrcpy!Becomes, IsUp, MirrorTypes
  <2>3. quit' => tracked' = 0 BY <1>1, <2>1 DEF Placed
  <2> QED BY <1>1, <2>1, <2>2, <2>3, PlacedExits
<1>10. CASE Scrcpy!StopAll
  <2>1. \A q \in Scrcpy!Procs : IsUp(q)' => IsUp(q) /\ q # tracked BY <1>10 DEF Scrcpy!StopAll, IsUp, MirrorTypes
  <2>2. tracked' = 0 /\ UNCHANGED call BY <1>10 DEF Scrcpy!StopAll
  <2> QED BY <1>1, <2>1, <2>2, PlacedExits
<1>11. CASE Scrcpy!Replace \/ UNCHANGED Scrcpy!vars
  <2>1. UNCHANGED <<scrcpyProc, tracked, call, quit>> BY <1>11 DEF Scrcpy!Replace, Scrcpy!vars
  <2>2. \A q \in Scrcpy!Procs : IsUp(q)' => IsUp(q) /\ (tracked = q => tracked' = q) BY <2>1 DEF IsUp
  <2>3. quit' => tracked' = 0 BY <1>1, <2>1 DEF Placed
  <2> QED BY <1>1, <2>1, <2>2, <2>3, PlacedExits
<1> QED BY <1>2, <1>3, <1>4, <1>5, <1>6, <1>7, <1>8, <1>9, <1>10, <1>11 DEF Scrcpy!Next

LEMMA FlagsStep ==
  ASSUME MirrorTypes, Flags, [Scrcpy!Next]_Scrcpy!vars
  PROVE  Flags'
<1> USE DEF Scrcpy!Goes
\* A call that takes no flags on.
<1>1. ASSUME NEW c \in MirrorCalls, NEW step, call' = [call EXCEPT ![c] = step], step.pc # "spawn",
             UNCHANGED <<swaps, major, ver>>, \A p \in Scrcpy!Procs : scrcpyProc'[p].v2 => scrcpyProc[p].v2
      PROVE  Flags'
  BY <1>1 DEF Flags, MirrorTypes
<1>2. ASSUME UNCHANGED <<call, swaps, major, ver>>, \A p \in Scrcpy!Procs : scrcpyProc'[p].v2 => scrcpyProc[p].v2
      PROVE  Flags'
  BY <1>2 DEF Flags
<1>3. ASSUME NEW c \in MirrorCalls, Scrcpy!majorVersion(c) PROVE Flags'
  <2>1. PICK m \in 0 .. 2 : /\ m \in (IF major # 0 THEN {major} ELSE {0, ver}) /\ major' = m
                            /\ call' = [call EXCEPT ![c] = [pc |-> "spawn", v2 |-> m >= 2]]
    BY <1>3 DEF Scrcpy!majorVersion, Scrcpy!filterUnsupportedArgs, MirrorTypes
  <2>2. UNCHANGED <<scrcpyProc, ver, swaps>> BY <1>3 DEF Scrcpy!majorVersion
  <2>3. call'[c] = [pc |-> "spawn", v2 |-> m >= 2] /\ \A d \in MirrorCalls : d # c => call'[d] = call[d] BY <2>1 DEF MirrorTypes
  <2>4. call'[c].v2 = (m >= 2) BY <2>3
  <2>5. ASSUME swaps = 0 PROVE (m # 0 => m = ver) BY <2>1, <2>5 DEF Flags
  <2>6. ASSUME swaps = 0, call'[c].v2 PROVE ver >= 2
    <3>1. m >= 2 BY <2>4, <2>6, Zenon
    <3> QED BY <2>5, <2>6, <3>1
  <2> QED BY <2>1, <2>2, <2>3, <2>5, <2>6 DEF Flags
<1>4. ASSUME NEW c \in MirrorCalls, Scrcpy!Spawn(c) PROVE Flags'
  <2>1. PICK p \in Scrcpy!Procs :
          /\ scrcpyProc' = [scrcpyProc EXCEPT ![p] = [state |-> IF call[c].v2 /\ ver < 2 THEN "exited" ELSE "up", v2 |-> call[c].v2]]
          /\ call' = [call EXCEPT ![c] = [pc |-> "track", p |-> p]]
    BY <1>4 DEF Scrcpy!Spawn
  <2>2. call[c].pc = "spawn" /\ UNCHANGED <<ver, major, swaps>> BY <1>4 DEF Scrcpy!Spawn
  <2>3. scrcpyProc'[p].v2 = call[c].v2 /\ \A q \in Scrcpy!Procs : q # p => scrcpyProc'[q] = scrcpyProc[q] BY <2>1 DEF MirrorTypes
  <2>4. call'[c].pc = "track" /\ \A d \in MirrorCalls : d # c => call'[d] = call[d] BY <2>1 DEF MirrorTypes
  <2>5. ASSUME swaps = 0, NEW q \in Scrcpy!Procs, scrcpyProc'[q].v2 PROVE ver >= 2
    BY <2>2, <2>3, <2>5 DEF Flags
  <2> QED BY <2>2, <2>4, <2>5 DEF Flags
<1>5. ASSUME NEW c \in MirrorCalls,
             \/ Scrcpy!StartScrcpy(c) \/ Scrcpy!NoBinary(c) \/ Scrcpy!SpawnFails(c) \/ Scrcpy!Track(c)
             \/ Scrcpy!GraceFails(c) \/ Scrcpy!GraceOver(c) \/ Scrcpy!TellUp(c)
             \/ Scrcpy!StopScrcpy(c) \/ Scrcpy!TellDown(c) \/ Scrcpy!ScrcpyActive(c) \/ Scrcpy!Answered(c)
      PROVE  Flags'
  <2>1. UNCHANGED <<scrcpyProc, swaps, major, ver>>
    BY <1>5 DEF Scrcpy!StartScrcpy, Scrcpy!NoBinary, Scrcpy!SpawnFails, Scrcpy!Track, Scrcpy!GraceFails,
                Scrcpy!GraceOver, Scrcpy!TellUp, Scrcpy!StopScrcpy, Scrcpy!TellDown, Scrcpy!ScrcpyActive, Scrcpy!Answered
  <2>2. \E step : call' = [call EXCEPT ![c] = step] /\ step.pc # "spawn"
    <3>1. /\ [pc |-> "idle"].pc = "idle" /\ [pc |-> "up"].pc = "up"
          /\ \A q : [pc |-> "grace", p |-> q].pc = "grace" /\ [pc |-> "kill", p |-> q].pc = "kill" /\ [pc |-> "answer", active |-> q].pc = "answer"
          /\ [pc |-> IF Scrcpy!IsActive THEN "up" ELSE "binary"].pc \in {"up", "binary"}
      OBVIOUS
    <3>2. CASE Scrcpy!StartScrcpy(c)
      <4> DEFINE step == [pc |-> IF Scrcpy!IsActive THEN "up" ELSE "binary"]
      <4>1. call' = [call EXCEPT ![c] = step] /\ step.pc # "spawn" BY <3>1, <3>2 DEF Scrcpy!StartScrcpy
      <4> HIDE DEF step
      <4> QED BY <4>1
    <3>3. CASE Scrcpy!ScrcpyActive(c)
      <4> DEFINE step == [pc |-> "answer", active |-> Scrcpy!IsActive]
      <4>1. call' = [call EXCEPT ![c] = step] /\ step.pc # "spawn" BY <3>3 DEF Scrcpy!ScrcpyActive
      <4> HIDE DEF step
      <4> QED BY <4>1
    <3> QED BY <1>5, <3>1, <3>2, <3>3 DEF Scrcpy!NoBinary, Scrcpy!SpawnFails, Scrcpy!Track, Scrcpy!GraceFails,
                Scrcpy!GraceOver, Scrcpy!TellUp, Scrcpy!StopScrcpy, Scrcpy!TellDown, Scrcpy!Answered, Scrcpy!Idle
  <2> QED BY <1>1, <2>1, <2>2
<1>6. ASSUME NEW c \in MirrorCalls, Scrcpy!Kill(c) PROVE Flags'
  <2>1. \A p \in Scrcpy!Procs : scrcpyProc'[p].v2 = scrcpyProc[p].v2 BY <1>6 DEF Scrcpy!Kill, MirrorTypes
  <2>2. call' = [call EXCEPT ![c] = [pc |-> "down"]] /\ UNCHANGED <<swaps, major, ver>> BY <1>6 DEF Scrcpy!Kill
  <2>3. [pc |-> "down"].pc # "spawn" OBVIOUS
  <2> QED BY <1>1, <2>1, <2>2, <2>3
<1>7. ASSUME NEW p \in Scrcpy!Procs, Scrcpy!Waited(p) \/ Scrcpy!Reap(p) \/ Scrcpy!OnExit(p) \/ Scrcpy!Exit(p) PROVE Flags'
  <2>1. \A q \in Scrcpy!Procs : scrcpyProc'[q].v2 = scrcpyProc[q].v2
    BY <1>7, ZenonT(40) DEF Scrcpy!Waited, Scrcpy!Reap, Scrcpy!OnExit, Scrcpy!Exit, Scrcpy!Becomes, MirrorTypes
  <2>2. UNCHANGED <<call, swaps, major, ver>> BY <1>7 DEF Scrcpy!Waited, Scrcpy!Reap, Scrcpy!OnExit, Scrcpy!Exit
  <2> QED BY <1>2, <2>1, <2>2
<1>8. CASE Scrcpy!StopAll
  <2>1. \A q \in Scrcpy!Procs : scrcpyProc'[q].v2 = scrcpyProc[q].v2 BY <1>8 DEF Scrcpy!StopAll, MirrorTypes
  <2>2. UNCHANGED <<call, swaps, major, ver>> BY <1>8 DEF Scrcpy!StopAll
  <2> QED BY <1>2, <2>1, <2>2
<1>9. CASE Scrcpy!Replace BY <1>9 DEF Scrcpy!Replace, Flags, MirrorTypes
<1>10. CASE UNCHANGED Scrcpy!vars BY <1>10 DEF Scrcpy!vars, Flags
<1> QED BY <1>3, <1>4, <1>5, <1>6, <1>7, <1>8, <1>9, <1>10 DEF Scrcpy!Next

\* What reached the UI is true, when it does not come late.
LEMMA EmitsTruth ==
  ASSUME NEW a, Scrcpy!Emits(a), UNCHANGED Scrcpy!Up
  PROVE  ~late' => badge' = Scrcpy!Up'
BY Zenon DEF Scrcpy!Emits

LEMMA ToldStep ==
  ASSUME MirrorTypes, Told, [Scrcpy!Next]_Scrcpy!vars
  PROVE  Told'
<1> USE DEF Scrcpy!Goes
<1>1. ASSUME UNCHANGED <<badge, late, quit>>, ~quit /\ ~late => ToTell' \/ (UNCHANGED Scrcpy!Up /\ ~ToTell) PROVE Told'
  BY <1>1 DEF Told
<1>2. UNCHANGED scrcpyProc => UNCHANGED Scrcpy!Up /\ \A p : IsUp(p)' = IsUp(p) BY DEF Scrcpy!Up, IsUp
<1>3. ASSUME NEW c \in MirrorCalls, NEW step, call' = [call EXCEPT ![c] = step], UNCHANGED scrcpyProc,
             \/ call[c].pc \notin {"track", "grace", "up"}
             \/ call[c].pc = "grace" /\ ~IsUp(call[c].p)
             \/ step.pc = "up"
             \/ step.pc = "grace" /\ step.p = call[c].p /\ call[c].pc = "track"
      PROVE  ToTell => ToTell'
  <2>1. call'[c] = step /\ \A d \in MirrorCalls : d # c => call'[d] = call[d] BY <1>3, CallOnly
  <2> QED BY <1>2, <1>3, <2>1 DEF ToTell
<1>4. ASSUME NEW c \in MirrorCalls,
             \/ Scrcpy!StartScrcpy(c) \/ Scrcpy!NoBinary(c) \/ Scrcpy!majorVersion(c) \/ Scrcpy!SpawnFails(c) \/ Scrcpy!Track(c)
             \/ Scrcpy!GraceFails(c) \/ Scrcpy!GraceOver(c) \/ Scrcpy!StopScrcpy(c) \/ Scrcpy!ScrcpyActive(c)
      PROVE  Told'
  <2>1. UNCHANGED <<scrcpyProc, badge, late, quit>>
    BY <1>4 DEF Scrcpy!StartScrcpy, Scrcpy!NoBinary, Scrcpy!majorVersion, Scrcpy!SpawnFails, Scrcpy!Track, Scrcpy!GraceFails,
                Scrcpy!GraceOver, Scrcpy!StopScrcpy, Scrcpy!ScrcpyActive
  <2>2. \E s \in MirrorSteps : call' = [call EXCEPT ![c] = s] BY <1>4, CallMoves
  <2>3. CASE Scrcpy!StartScrcpy(c) \/ Scrcpy!StopScrcpy(c) \/ Scrcpy!ScrcpyActive(c)
    <3>1. call[c].pc = "idle" BY <2>3 DEF Scrcpy!StartScrcpy, Scrcpy!StopScrcpy, Scrcpy!ScrcpyActive, Scrcpy!Begin, Scrcpy!Idle
    <3> QED BY <1>1, <1>2, <1>3, <2>1, <2>2, <3>1
  <2>4. CASE Scrcpy!NoBinary(c) \/ Scrcpy!majorVersion(c) \/ Scrcpy!SpawnFails(c)
    <3>1. call[c].pc \in {"binary", "spawn"} BY <2>4 DEF Scrcpy!NoBinary, Scrcpy!majorVersion, Scrcpy!SpawnFails
    <3> QED BY <1>1, <1>2, <1>3, <2>1, <2>2, <3>1
  <2>5. CASE Scrcpy!Track(c)
    <3> DEFINE step == [pc |-> "grace", p |-> call[c].p]
    <3>1. call[c].pc = "track" /\ call' = [call EXCEPT ![c] = step] BY <2>5 DEF Scrcpy!Track
    <3>2. step.pc = "grace" /\ step.p = call[c].p OBVIOUS
    <3> HIDE DEF step
    <3>3. ToTell => ToTell' BY <1>3, <2>1, <2>2, <3>1, <3>2
    <3> QED BY <1>1, <1>2, <2>1, <3>3
  <2>6. CASE Scrcpy!GraceFails(c)
    <3>1. call[c].pc = "grace" /\ ~IsUp(call[c].p) BY <2>6 DEF Scrcpy!GraceFails, IsUp
    <3>2. ToTell => ToTell' BY <1>3, <2>1, <2>2, <3>1
    <3> QED BY <1>1, <1>2, <2>1, <3>2
  <2>7. CASE Scrcpy!GraceOver(c)
    <3>1. call[c].pc = "grace" /\ call' = [call EXCEPT ![c] = [pc |-> "up"]] BY <2>7 DEF Scrcpy!GraceOver
    <3>2. [pc |-> "up"].pc = "up" OBVIOUS
    <3>3. ToTell => ToTell' BY <1>3, <2>1, <2>2, <3>1, <3>2
    <3> QED BY <1>1, <1>2, <2>1, <3>3
  <2> QED BY <1>4, <2>3, <2>4, <2>5, <2>6, <2>7
<1>5. ASSUME NEW c \in MirrorCalls, Scrcpy!TellUp(c) \/ Scrcpy!TellDown(c) \/ Scrcpy!Answered(c) PROVE Told'
  <2>1. (\E a : Scrcpy!Emits(a)) /\ UNCHANGED scrcpyProc BY <1>5 DEF Scrcpy!TellUp, Scrcpy!TellDown, Scrcpy!Answered
  <2> QED BY <1>2, <2>1, EmitsTruth DEF Told
<1>6. ASSUME NEW p \in Scrcpy!Procs, Scrcpy!OnExit(p) PROVE Told'
  <2>1. /\ scrcpyProc[p].state = "reaped" /\ scrcpyProc' = [scrcpyProc EXCEPT ![p].state = "told"] /\ Scrcpy!Emits(FALSE)
    BY <1>6 DEF Scrcpy!OnExit, Scrcpy!Becomes
  <2>2. \A q \in Scrcpy!Procs : scrcpyProc'[q].state = "up" <=> scrcpyProc[q].state = "up" BY <2>1 DEF MirrorTypes
  <2>3. UNCHANGED Scrcpy!Up BY <2>2 DEF Scrcpy!Up
  <2> QED BY <2>1, <2>3, EmitsTruth DEF Told
<1>7. ASSUME NEW c \in MirrorCalls, Scrcpy!Spawn(c) PROVE Told'
  <2>1. PICK p \in Scrcpy!Procs :
          /\ scrcpyProc' = [scrcpyProc EXCEPT ![p] = [state |-> IF call[c].v2 /\ ver < 2 THEN "exited" ELSE "up", v2 |-> call[c].v2]]
          /\ call' = [call EXCEPT ![c] = [pc |-> "track", p |-> p]]
    BY <1>7 DEF Scrcpy!Spawn
  <2>2. scrcpyProc'[p].state \in {"exited", "up"} BY <2>1 DEF MirrorTypes
  <2>3. call'[c] = [pc |-> "track", p |-> p] BY <2>1 DEF MirrorTypes
  <2>4. ToTell' BY <2>2, <2>3 DEF ToTell, IsUp
  <2> QED BY <1>1, <1>7, <2>4 DEF Scrcpy!Spawn
<1>8. ASSUME NEW c \in MirrorCalls, Scrcpy!Kill(c) PROVE Told'
  <2>1. /\ call[c].pc = "kill" /\ call' = [call EXCEPT ![c] = [pc |-> "down"]] /\ UNCHANGED <<badge, late, quit>>
        /\ scrcpyProc' = [p \in Scrcpy!Procs |-> IF p = call[c].p /\ scrcpyProc[p].state = "up" THEN [scrcpyProc[p] EXCEPT !.state = "exited"] ELSE scrcpyProc[p]]
    BY <1>8 DEF Scrcpy!Kill
  <2>2. CASE call[c].p \in Scrcpy!Procs /\ scrcpyProc[call[c].p].state = "up"
    <3>1. scrcpyProc'[call[c].p].state = "exited" BY <2>1, <2>2 DEF MirrorTypes
    <3>2. ToTell' BY <2>2, <3>1 DEF ToTell
    <3> QED BY <1>1, <2>1, <3>2
  <2>3. CASE ~(call[c].p \in Scrcpy!Procs /\ scrcpyProc[call[c].p].state = "up")
    <3>1. scrcpyProc' = scrcpyProc BY <2>1, <2>3 DEF MirrorTypes
    <3>2. ToTell => ToTell' BY <1>3, <2>1, <3>1
    <3> QED BY <1>1, <1>2, <2>1, <3>1, <3>2
  <2> QED BY <2>2, <2>3
<1>9. ASSUME NEW p \in Scrcpy!Procs, Scrcpy!Waited(p) \/ Scrcpy!Reap(p) \/ Scrcpy!Exit(p) PROVE Told'
  <2>1. UNCHANGED <<badge, late, quit>> /\ \E s \in {"exited", "waited", "reaped"} : Scrcpy!Becomes(p, s)
    BY <1>9 DEF Scrcpy!Waited, Scrcpy!Reap, Scrcpy!Exit
  <2>2. scrcpyProc'[p].state \in {"exited", "waited", "reaped"} BY <2>1 DEF Scrcpy!Becomes, MirrorTypes
  <2>3. ToTell' BY <2>2 DEF ToTell
  <2> QED BY <1>1, <2>1, <2>3
<1>10. CASE Scrcpy!StopAll BY <1>10 DEF Scrcpy!StopAll, Told
<1>11. CASE Scrcpy!Replace \/ UNCHANGED Scrcpy!vars
  <2>1. UNCHANGED <<scrcpyProc, call, badge, late, quit>> BY <1>11 DEF Scrcpy!Replace, Scrcpy!vars
  <2> QED BY <2>1 DEF Told, ToTell, IsUp, Scrcpy!Up
<1> QED BY <1>4, <1>5, <1>6, <1>7, <1>8, <1>9, <1>10, <1>11 DEF Scrcpy!Next

\* Over any starts, stops and exits, however they cross: the badge ends as the window does,
\* unless the last event was overtaken, and there is one window, known to the map, unless two
\* starts overlapped on their way to it.
THEOREM MirrorIsKept == Scrcpy!Spec => []Scrcpy!MirrorIsTrue
<1>1. Scrcpy!Init => MirrorInv BY MirrorStart
<1>2. MirrorInv /\ [Scrcpy!Next]_Scrcpy!vars => MirrorInv'
  BY MirrorTypesStep, KnownStep, FlagsStep, ToldStep DEF MirrorInv
<1>3. MirrorInv => Scrcpy!MirrorIsTrue BY MirrorInvIsTrue DEF MirrorIsTrue
<1> QED BY <1>1, <1>2, <1>3, PTL DEF Scrcpy!Spec

-----------------------------------------------------------------------------
(* The run of all: a step of the whole is a step of one component.         *)

LEMMA ShellRuns ==
  /\ AllInit => Shell!Init
  /\ [AllNext]_all => [Shell!Next]_Shell!vars
<1>1. AllInit => Shell!Init BY DEF AllInit
<1>2. [AllNext]_all => [Shell!Next]_Shell!vars
  BY DEF AllNext, all, ShellVars, Shell!vars, Shell!ui, Shell!log
<1> QED BY <1>1, <1>2

LEMMA PaneRuns == AllSpec => Pane!Spec
<1>1. AllInit => Pane!Init BY DEF AllInit
<1>2. [AllNext]_all => [Pane!Next]_Pane!vars
  BY DEF AllNext, all, PaneVars, Pane!vars, Pane!page, Pane!past
<1> QED BY <1>1, <1>2, PTL DEF AllSpec, Pane!Spec

LEMMA MirrorRuns == AllSpec => Scrcpy!Spec
<1>1. AllInit => Scrcpy!Init BY DEF AllInit
<1>2. [AllNext]_all => [Scrcpy!Next]_Scrcpy!vars BY DEF AllNext, all, ScrcpyVars, Scrcpy!vars
<1> QED BY <1>1, <1>2, PTL DEF AllSpec, Scrcpy!Spec

\* A terminal misses nothing of its shell, and the log keeps the newest of it
\* (shell.go, scrollback.go), in the run of all.
THEOREM ShellKept == AllSpec => []ShellKeeps
<1>1. Shell!TerminalIsWhole /\ Shell!LogIsNewest => ShellKeeps BY DEF ShellKeeps
<1> QED BY <1>1, ShellRuns, ShellIsKept, PTL DEF AllSpec

\* The switches of the feed are the page's, which has the feed's lines (LogcatPane.tsx,
\* logcat_feed.go), in the run of all.
THEOREM PaneKept == AllSpec => []PaneHolds
<1>1. Pane!SwitchesHold /\ Pane!PaneIsWhole => PaneHolds BY DEF PaneHolds
<1> QED BY <1>1, PaneRuns, PaneIsKept, PTL

\* The badge tells whether the window is up, of which there is one at most (scrcpy.go), in
\* the run of all.
THEOREM MirrorKept == AllSpec => []MirrorIsTrue
<1>1. Scrcpy!MirrorIsTrue => MirrorIsTrue BY DEF MirrorIsTrue
<1> QED BY <1>1, MirrorRuns, MirrorIsKept, PTL
=============================================================================
