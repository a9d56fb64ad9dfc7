------------------------------ MODULE CertStore ------------------------------
(***************************************************************************)
(* Installing a CA on a device (certs.go): the certificate is staged, then *)
(* one write after another is tried and read back, the last of them a      *)
(* tmpfs laid over the store of the system and, on Android 14, over that   *)
(* of the Conscrypt APEX.  Without root it is left on the sdcard.          *)
(*                                                                         *)
(* A file of the store is named by the hash of its subject and a suffix.   *)
(* The certificates here have subjects of one hash, so a name is a suffix. *)
(***************************************************************************)
EXTENDS Naturals, Sequences, FiniteSetsExt

CONSTANTS Certs, Jobs,          \* the certificates, and the installs under way
          Suffixes,             \* the suffixes tried (bound: ten in the code)
          MaxCalls, MaxReboots  \* bounds

VARIABLES
  rooted, apex,  \* the device: root is granted, there is an APEX store
  reach,         \* the writes that reach the partition of the store
  disk,          \* the files of that partition
  over,          \* what is laid over each store, if anything is
  stage,         \* the staged certificate
  sdcard,        \* what was left for the user to install
  job, said,     \* the installs, and what those that ended said
  calls, reboots,
  overlapped,    \* history: two installs were under way at once
  unanswered     \* history: what the device was not asked, or did not say, misled an install

device == <<rooted, apex, reach>>
vars == <<device, disk, over, stage, sdcard, job, said, calls, reboots, overlapped,
          unanswered>>

Idle == [pc |-> "idle"]
None == "none"
NoCover == [system |-> <<>>, apex |-> <<>>]
cacertStrategies == <<"direct", "magisk-remount", "remount-root", "remount-system">>
Init == /\ rooted \in BOOLEAN /\ apex \in BOOLEAN /\ reach \in {{}, {"magisk-remount"}, {"remount-root", "remount-system"}}
        /\ disk = [f \in Suffixes |-> None] /\ over = NoCover /\ stage = None /\ sdcard = None
        /\ job = [j \in Jobs |-> Idle] /\ said = {} /\ calls = 0 /\ reboots = 0
        /\ overlapped = FALSE /\ unanswered = FALSE

-----------------------------------------------------------------------------
\* What a read of the system's store finds.
Store == IF over.system # <<>> THEN over.system[1] ELSE disk
At(j, pc) == job[j].pc = pc
Goes(j, rec) == job' = [job EXCEPT ![j] = rec]
Others(j) == \E k \in Jobs \ {j} : job[k] # Idle
\* The file is removed, and the caller told.
Says(j, how, lasts) ==
  /\ Goes(j, Idle) /\ stage' = None
  /\ said' = said \cup {[cert |-> job[j].cert, name |-> job[j].name, strategy |-> how, persistent |-> lasts,
                         covered |-> over.system # <<>>, blind |-> job[j].blind, up |-> TRUE]}

\* InstallSystemCert: the file staged is the same for every install.
InstallSystemCert(j, c) ==
  /\ At(j, "idle") /\ calls < MaxCalls /\ calls' = calls + 1
  /\ stage' = c /\ Goes(j, [pc |-> IF rooted THEN "pick" ELSE "user", cert |-> c])
  /\ overlapped' = (overlapped \/ Others(j))
  /\ UNCHANGED <<device, disk, over, sdcard, said, reboots, unanswered>>

installUserCertFallback(j) ==
  /\ At(j, "user") /\ sdcard' = stage
  /\ Goes(j, Idle) /\ stage' = None
  /\ UNCHANGED <<device, disk, over, said, calls, reboots, overlapped, unanswered>>

\* The lowest suffix that is free, or holds this certificate already; the first when all
\* are taken. A name the device does not answer for passes for a free one.
Fits(c) == {n \in Suffixes : Store[n] \in {None, c}}
LeastFit(c) == IF Fits(c) = {} THEN Min(Suffixes) ELSE Min(Fits(c))
pickCacertFileName(j) ==
  /\ At(j, "pick")
  /\ LET c == job[j].cert
     IN \E n \in Suffixes :
          /\ n = LeastFit(c) \/ \A f \in Fits(c) : n < f
          /\ unanswered' = (unanswered \/ n # LeastFit(c))
          /\ Goes(j, [pc |-> "try", cert |-> c, at |-> 1, name |-> n, blind |-> FALSE])
  /\ UNCHANGED <<device, disk, over, stage, sdcard, said, calls, reboots, overlapped>>

\* One write.  What covers the store takes it, whatever the partition allows; a shell
\* that fails is passed over.
Try(j) ==
  /\ At(j, "try") /\ Goes(j, [job[j] EXCEPT !.pc = "verify"])
  /\ \/ UNCHANGED <<disk, over>> /\ unanswered' = (unanswered \/ over.system # <<>>)
     \/ /\ stage # None /\ UNCHANGED unanswered
        /\ IF over.system # <<>> THEN over' = [over EXCEPT !.system[1][job[j].name] = stage] /\ UNCHANGED disk
           ELSE /\ cacertStrategies[job[j].at] \in reach
                /\ disk' = [disk EXCEPT ![job[j].name] = stage] /\ UNCHANGED over
  /\ UNCHANGED <<device, stage, sdcard, said, calls, reboots, overlapped>>

cacertMatches(j) == Store[job[j].name] = job[j].cert
\* A slip: the command ends with echo OK, and that is taken for success.
VerifyTrusts(j) ==
  /\ At(j, "verify") /\ Says(j, cacertStrategies[job[j].at], TRUE)
  /\ UNCHANGED <<device, disk, over, sdcard, calls, reboots, overlapped, unanswered>>
\* The file is read back; a read that fails is a write that did.
Verify(j) ==
  /\ At(j, "verify")
  /\ \/ cacertMatches(j) /\ Says(j, cacertStrategies[job[j].at], TRUE) /\ UNCHANGED unanswered
     \/ /\ UNCHANGED <<stage, said>> /\ unanswered' = (unanswered \/ cacertMatches(j))
        /\ Goes(j, IF job[j].at < Len(cacertStrategies) THEN [job[j] EXCEPT !.pc = "try", !.at = @ + 1]
                   ELSE [job[j] EXCEPT !.pc = "overlay"])
  /\ UNCHANGED <<device, disk, over, sdcard, calls, reboots, overlapped>>

\* overlayOneDir, of the system's store: what lay over it is unmounted first, so the new
\* layer holds the files of the partition and the staged one. A mount that is refused
\* leaves the store bare; a shell that fails leaves it as it was, and ends the script.
With(files, name) == IF stage = None THEN files ELSE [files EXCEPT ![name] = stage]
Overlay(j) ==
  /\ At(j, "overlay")
  /\ \/ over' = [over EXCEPT !.system = <<With(disk, job[j].name)>>] /\ Goes(j, [job[j] EXCEPT !.pc = "apex"])
     \/ over' = [over EXCEPT !.system = <<>>] /\ Goes(j, [job[j] EXCEPT !.pc = "apex"])
     \/ UNCHANGED over /\ Goes(j, [job[j] EXCEPT !.pc = "check", !.blind = apex])
  /\ UNCHANGED <<device, disk, stage, sdcard, said, calls, reboots, overlapped, unanswered>>
\* ... and of the APEX's, when there is one. It has none of ours.
OverlayApex(j) ==
  /\ At(j, "apex")
  /\ \/ ~apex /\ UNCHANGED over /\ Goes(j, [job[j] EXCEPT !.pc = "check"])
     \/ /\ apex /\ over' = [over EXCEPT !.apex = <<With([f \in Suffixes |-> None], job[j].name)>>]
        /\ Goes(j, [job[j] EXCEPT !.pc = "check"])
     \/ /\ apex /\ over' \in {over, [over EXCEPT !.apex = <<>>]}
        /\ Goes(j, [job[j] EXCEPT !.pc = "check", !.blind = TRUE])
  /\ UNCHANGED <<device, disk, stage, sdcard, said, calls, reboots, overlapped, unanswered>>
\* The system's store is read back, the APEX's is not. An install that failed leaves its
\* stage.
OverlayChecked(j) ==
  /\ At(j, "check")
  /\ \/ cacertMatches(j) /\ Says(j, "tmpfs-overlay", FALSE)
     \/ Goes(j, Idle) /\ UNCHANGED <<stage, said>>
  /\ UNCHANGED <<device, disk, over, sdcard, calls, reboots, overlapped, unanswered>>

\* External: the device restarts; no install survives it.
Reboot ==
  /\ reboots < MaxReboots /\ reboots' = reboots + 1 /\ \A j \in Jobs : job[j] = Idle
  /\ over' = NoCover /\ said' = {[s EXCEPT !.up = FALSE] : s \in said}
  /\ UNCHANGED <<device, disk, stage, sdcard, job, calls, overlapped, unanswered>>

Next == \/ Reboot
        \/ \E j \in Jobs : \/ \E c \in Certs : InstallSystemCert(j, c)
                           \/ installUserCertFallback(j) \/ pickCacertFileName(j)
                           \/ Try(j) \/ Verify(j) \/ Overlay(j) \/ OverlayApex(j)
                           \/ OverlayChecked(j)
Spec == Init /\ [][Next]_vars

-----------------------------------------------------------------------------
\* Of installs that do not overlap, and whose device answers, one that ended well is in
\* the store until the device restarts, and for good when it says so and nothing lay over
\* the store; on Android 14 the layer that makes it trusted lies over the APEX too, unless
\* that second mount failed, which no install looks at.
CertIsTrusted ==
  ~overlapped /\ ~unanswered => \A s \in said :
    /\ s.up => Store[s.name] = s.cert
    /\ s.persistent /\ ~s.covered => disk[s.name] = s.cert
    /\ s.up /\ s.strategy = "tmpfs-overlay" /\ apex /\ ~s.blind
         => over.apex # <<>> /\ over.apex[1][s.name] = s.cert

\* What certs.go:22 and :270-271 say of the result: persistent means that a reboot keeps the
\* certificate.
PersistentIsKept == \A s \in said : s.persistent => disk[s.name] = s.cert
=============================================================================
