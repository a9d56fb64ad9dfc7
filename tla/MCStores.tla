----------------------------- MODULE MCStores ------------------------------
(***************************************************************************)
(* What adbq remembers of a device, and must not remember wrongly: its     *)
(* facts, the captures that run on it, the tcpdump, the hosts file and the *)
(* certificates it was given, its root, the profiles it is bound to and    *)
(* the rulesets an undo brings back. One of them runs in each behaviour,   *)
(* the others stay in an initial state.                                    *)
(***************************************************************************)
EXTENDS FactCache, TLC

CONSTANTS
  m1, page, other, home, cmd,
  Jobs,                                     \* the calls at once of one component
  MaxCrashes, MaxFaults, MaxReboots,        \* bounds: what goes wrong
  MaxCaptures, MaxRecs,                     \* Sessions
  ABIList, Pinned, Askers, MaxDumps,        \* Tcpdump
  Certs, Suffixes, MaxCerts,                \* CertStore
  Texts, MaxInodes, MaxHosts,               \* HostsFile
  MaxProbes, MaxChanges,                    \* RootProbe
  Keys, Rooted, Contents, MaxIds, MaxSaves, \* Profiles
  Families, Rulesets, Drops, OpenTable, Watched, Depth, MaxTables, MaxTogether  \* Iptables

OneMutator == {m1}
TwoReaders == {page, other}
OneLink    == {home}

\* net.ssid: the Wi-Fi shell service, which needs cmd, then the service dump.
\* Both are costly.
Two       == {1, 2}
SSIDNeeds == 1 :> {cmd} @@ 2 :> {}
OnlyCmd   == {cmd}
First     == {1}

\* The names of a store are numbered; no more certificates share a hash than there are
\* names for it (ten in the code, certs.go), and none is the mark of a free name.
ASSUME SuffixesAssumption == Suffixes \subseteq Nat /\ IsFiniteSet(Suffixes)
ASSUME CertsAssumption ==
  /\ IsFiniteSet(Certs) /\ Cardinality(Certs) <= Cardinality(Suffixes)
  /\ "none" \notin Certs

\* A device of two ABIs.
TwoABIs == <<"x86", "arm">>

\* A profile that sets two things, and one that sets none.
TwoContents == {{"hosts", "proxy"}, {}}

VARIABLES
  part,     \* the component that runs
  up, tcp, pcap, store, disk, writing, captureCall, todo, rows, recon, misled, recs, captureEntry, starts, stops,
  recRow, twins, slip, captureCalls, faults, crashes,
  blob, system, file, dumpFact, asks, job, dumpCalls, dumpCrashes, why,
  rooted, apex, reach, certDisk, over, stage, sdcard, certJob, said, certCalls, reboots, overlapped,
  unanswered, hostsRooted, hostsReach, binds, magisk, hostsPart, inode, name, bound, module, hostsJob,
  hostsSaid, hostsCalls, hostsReboots, hostsOverlapped,
  su, adbd, emulator, yields, style, failed, latch, rootCaps, rootJob, rootCalls, changes, behind,
  profiles, profileBound, seq, profileDisk, profileTodo, temp, apply, saving, told, born,
  profileCalls, profileCrashes, profileFaults,
  rules, ring, staged, tableCalls, made, tableReach, timer, gap

\* Two capture calls and two recordings, over a crash and a device that leaves.
Capture == INSTANCE Sessions WITH MaxCalls <- MaxCaptures, call <- captureCall, entry <- captureEntry,
                                  calls <- captureCalls
CaptureVars == <<up, tcp, pcap, store, disk, writing, captureCall, todo, rows, recon, misled, recs, captureEntry,
                 starts, stops, recRow, twins, slip, captureCalls, faults, crashes>>

\* A device of two ABIs, of which the second has a pinned build.
Dump == INSTANCE Tcpdump WITH MaxCalls <- MaxDumps, fact <- dumpFact, calls <- dumpCalls,
                              crashes <- dumpCrashes
DumpVars == <<blob, system, file, dumpFact, asks, job, dumpCalls, dumpCrashes, why>>

\* Two certificates of one subject, over a restart.
Cert == INSTANCE CertStore WITH MaxCalls <- MaxCerts, disk <- certDisk, job <- certJob, calls <- certCalls
CertVars == <<rooted, apex, reach, certDisk, over, stage, sdcard, certJob, said, certCalls, reboots,
              overlapped, unanswered>>

\* Two files to write, over a restart.
Hosts == INSTANCE HostsFile WITH Contents <- Texts, MaxCalls <- MaxHosts, rooted <- hostsRooted, reach <- hostsReach,
                                 part <- hostsPart, job <- hostsJob, said <- hostsSaid, calls <- hostsCalls,
                                 reboots <- hostsReboots, overlapped <- hostsOverlapped
HostsVars == <<hostsRooted, hostsReach, binds, magisk, hostsPart, inode, name, bound, module,
               hostsJob, hostsSaid, hostsCalls, hostsReboots, hostsOverlapped>>

\* Two calls at once, and a grant that comes and goes.
Root == INSTANCE RootProbe WITH MaxCalls <- MaxProbes, caps <- rootCaps, job <- rootJob, calls <- rootCalls
RootVars == <<su, adbd, emulator, yields, style, failed, latch, rootCaps, rootJob, rootCalls,
              changes, behind>>

\* Two profiles of a device without root, over a crash and a disk that refuses a write.
Profile == INSTANCE Profiles WITH MaxCalls <- MaxSaves, bound <- profileBound, disk <- profileDisk, todo <- profileTodo, calls <- profileCalls,
                                  crashes <- profileCrashes, faults <- profileFaults
ProfileVars == <<profiles, profileBound, seq, profileDisk, profileTodo, temp, apply, saving, told,
                 born, profileCalls, profileCrashes, profileFaults>>

\* Calls on both families, of which the ring of one is watched.
Table == INSTANCE Iptables WITH MaxCalls <- MaxTables, calls <- tableCalls, reach <- tableReach
TableVars == <<rules, ring, staged, tableCalls, made, tableReach, timer, gap>>

all == <<part, vars, CaptureVars, DumpVars, CertVars, HostsVars, RootVars, ProfileVars,
         TableVars>>

AllInit ==
  /\ part \in {"facts", "captures", "tcpdump", "certs", "hosts", "root", "profiles",
               "iptables"}
  /\ Init /\ Capture!Init /\ Dump!Init /\ Cert!Init /\ Hosts!Init /\ Root!Init /\ Profile!Init /\ Table!Init
  /\ (part # "facts" => device.link = home /\ refused = {})
  /\ (part # "captures" => tcp = {})
  /\ (part # "tcpdump" => blob = [x \in Pinned |-> "none"] /\ system = "none")
  /\ (part # "certs" => rooted /\ apex /\ reach = {})
  /\ (part # "hosts" => ~hostsRooted)
  /\ (part # "root" => su /\ emulator /\ yields)
  /\ (part # "iptables" => rules = [f \in Families |-> OpenTable])

AllNext ==
  \/ part = "facts" /\ Next /\ UNCHANGED <<part, CaptureVars, DumpVars, CertVars, HostsVars, RootVars, ProfileVars, TableVars>>
  \/ part = "captures" /\ Capture!Next /\ UNCHANGED <<part, vars, DumpVars, CertVars, HostsVars, RootVars, ProfileVars, TableVars>>
  \/ part = "tcpdump" /\ Dump!Next /\ UNCHANGED <<part, vars, CaptureVars, CertVars, HostsVars, RootVars, ProfileVars, TableVars>>
  \/ part = "certs" /\ Cert!Next /\ UNCHANGED <<part, vars, CaptureVars, DumpVars, HostsVars, RootVars, ProfileVars, TableVars>>
  \/ part = "hosts" /\ Hosts!Next /\ UNCHANGED <<part, vars, CaptureVars, DumpVars, CertVars, RootVars, ProfileVars, TableVars>>
  \/ part = "root" /\ Root!Next /\ UNCHANGED <<part, vars, CaptureVars, DumpVars, CertVars, HostsVars, ProfileVars, TableVars>>
  \/ part = "profiles" /\ Profile!Next /\ UNCHANGED <<part, vars, CaptureVars, DumpVars, CertVars, HostsVars, RootVars, TableVars>>
  \/ part = "iptables" /\ Table!Next /\ UNCHANGED <<part, vars, CaptureVars, DumpVars, CertVars, HostsVars, RootVars, ProfileVars>>

AllSpec == AllInit /\ [][AllNext]_all
-----------------------------------------------------------------------------
\* A capture or a recorder that runs is known, a tcpdump that was put on the device is
\* the verified one, a certificate is trusted and a hosts file shown where they were said
\* to be, and what is kept of root and of the tools is what the device holds.
DeviceIsKnown == /\ Capture!CaptureIsKnown /\ Capture!RecordingIsReachable
                 /\ Dump!PushedIsVerified /\ Dump!ProbeIsTrue
                 /\ Cert!CertIsTrusted /\ Hosts!HostsAreShown /\ Root!RootIsKnown

\* A profile that was saved is there after any crash.
NothingLost == Profile!NothingLost

\* The ring of a family implements an undo log.
UndoIsALog == Table!UndoIsALog
=============================================================================
