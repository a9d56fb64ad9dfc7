------------------------------ MODULE HostsFile ------------------------------
(***************************************************************************)
(* Writing the hosts file of a device (hosts.go): the content is staged,   *)
(* then one write after another is tried and read back, from a plain copy  *)
(* to a bind mount of the stage itself, and a Magisk module when none of   *)
(* them shows.                                                             *)
(*                                                                         *)
(* A bind mount holds the file, not its name: the stage is an inode, which *)
(* a removal of the name leaves mounted.                                   *)
(***************************************************************************)
EXTENDS Naturals, Sequences

CONSTANTS Contents, Jobs,                  \* what is written, and the calls under way
          MaxInodes, MaxCalls, MaxReboots  \* bounds

VARIABLES
  rooted,                \* the device: whether a root shell runs at all
  reach, binds, magisk,  \* the device: the writes that reach the partition, whether the
                         \* stage can be mounted, whether there are modules
  part,    \* the file of the partition
  inode,   \* the content of each stage there has been
  name,    \* the inode the stage's name has, 0 when it is gone
  bound,   \* the inode mounted on the hosts file, 0 when none is
  module,  \* the file of the module
  job, said, calls, reboots,
  overlapped  \* history: two calls were under way at once

device == <<rooted, reach, binds, magisk>>
files == <<part, inode, name, bound, module>>
vars == <<device, files, job, said, calls, reboots, overlapped>>

Idle == [pc |-> "idle"]
None == "none"
Init == /\ reach \in {{}, {"direct"}, {"magisk-remount"}, {"remount-root", "remount-system"}}
        /\ rooted \in BOOLEAN /\ binds \in BOOLEAN /\ magisk \in BOOLEAN
        /\ ~rooted => reach = {} /\ ~binds /\ ~magisk
        /\ part = "stock" /\ inode = <<>> /\ name = 0 /\ bound = 0 /\ module = None
        /\ job = [j \in Jobs |-> Idle] /\ said = Idle /\ calls = 0 /\ reboots = 0 /\ overlapped = FALSE

-----------------------------------------------------------------------------
\* hostsStrategies; those of the first group end the command at the first failure, so
\* that the next one follows without a look at the file.
hostsStrategies == <<"direct", "magisk-remount", "remount-root", "remount-system", "bind-mount">>
Loud == {"direct", "magisk-remount", "bind-mount"}
\* What an app reads.
Hosts == IF bound # 0 THEN inode[bound] ELSE part
Staged == name # 0

At(j, pc) == job[j].pc = pc
Goes(j, rec) == job' = [job EXCEPT ![j] = rec]
Following(j) == IF job[j].at < Len(hostsStrategies) THEN [job[j] EXCEPT !.pc = "try", !.at = @ + 1]
            ELSE [job[j] EXCEPT !.pc = "module"]

\* The stage is written through its name: a new file when the name is gone.
Stage(j, c) ==
  /\ At(j, "idle") /\ calls < MaxCalls /\ calls' = calls + 1
  /\ IF Staged THEN inode' = [inode EXCEPT ![name] = c] /\ UNCHANGED name
     ELSE Len(inode) < MaxInodes /\ inode' = Append(inode, c) /\ name' = Len(inode')
  /\ Goes(j, [pc |-> "try", of |-> c, at |-> 1])
  /\ said' = Idle /\ overlapped' = (overlapped \/ \E k \in Jobs \ {j} : job[k] # Idle)
  /\ UNCHANGED <<device, part, bound, module, reboots>>

\* cp: a file is not copied onto itself, and what is mounted takes the copy.
Copies == Staged /\ bound # name
Copy(s) ==
  IF ~(rooted /\ Copies) THEN UNCHANGED <<part, inode>>
  ELSE IF bound # 0 THEN inode' = [inode EXCEPT ![bound] = inode[name]] /\ UNCHANGED part
  ELSE IF s \in reach THEN part' = inode[name] /\ UNCHANGED inode
  ELSE UNCHANGED <<part, inode>>
Copied(s) == rooted /\ Copies /\ (bound # 0 \/ s \in reach)

\* A shell that fails, before its command or after it, is passed over.
TryCopy(j) ==
  /\ At(j, "try")
  /\ LET s == hostsStrategies[job[j].at]
     IN /\ s # "bind-mount"
        /\ \/ Copy(s) /\ Goes(j, IF (s \in Loud \/ ~rooted) /\ ~Copied(s) THEN Following(j)
                                ELSE [job[j] EXCEPT !.pc = "verify"])
           \/ (Copy(s) \/ UNCHANGED <<part, inode>>) /\ Goes(j, Following(j))
  /\ UNCHANGED <<device, name, bound, module, said, calls, reboots, overlapped>>
TryBind(j) ==
  /\ At(j, "try") /\ hostsStrategies[job[j].at] = "bind-mount"
  /\ \/ binds /\ Staged /\ bound' = name /\ Goes(j, [job[j] EXCEPT !.pc = "verify"])
     \/ (UNCHANGED bound \/ (binds /\ Staged /\ bound' = name)) /\ Goes(j, Following(j))
  /\ UNCHANGED <<device, part, inode, name, module, said, calls, reboots, overlapped>>

\* The stage is removed, but for a bind mount, which lives on it.
Ends(j, how) ==
  /\ Goes(j, Idle) /\ name' = IF how = "bind-mount" THEN name ELSE 0
  /\ said' = [pc |-> "done", of |-> job[j].of, strategy |-> how, covered |-> bound # 0, up |-> TRUE]
\* A slip: a command that did not fail is believed.
VerifyTrusts(j) ==
  /\ At(j, "verify") /\ Ends(j, hostsStrategies[job[j].at])
  /\ UNCHANGED <<device, part, inode, bound, module, calls, reboots, overlapped>>
Verify(j) ==
  /\ At(j, "verify")
  /\ \/ Hosts = job[j].of /\ Ends(j, hostsStrategies[job[j].at])
     \/ Goes(j, Following(j)) /\ UNCHANGED <<name, said>>
  /\ UNCHANGED <<device, part, inode, bound, module, calls, reboots, overlapped>>

\* hostsMagiskModuleCmd: it needs the folder of the modules, and the stage.
Scaffolds == magisk /\ Staged
\* The last resort; a call that fails here leaves its stage.
hostsMagiskModule(j) ==
  /\ At(j, "module")
  /\ \/ Scaffolds /\ module' = inode[name] /\ Ends(j, "magisk-module")
     \/ (UNCHANGED module \/ (Scaffolds /\ module' = inode[name])) /\ Goes(j, Idle) /\ UNCHANGED <<name, said>>
  /\ UNCHANGED <<device, part, inode, bound, calls, reboots, overlapped>>

\* External: the device restarts, and nothing is mounted: Magisk mounts no file of a
\* module that is marked skip_mount, as this one is.
Reboot ==
  /\ reboots < MaxReboots /\ reboots' = reboots + 1 /\ \A j \in Jobs : job[j] = Idle
  /\ bound' = 0 /\ said' = IF said = Idle THEN said ELSE [said EXCEPT !.up = FALSE]
  /\ UNCHANGED <<device, part, inode, name, module, job, calls, overlapped>>

Next == \/ Reboot
        \/ \E j \in Jobs : \/ \E c \in Contents : Stage(j, c)
                           \/ TryCopy(j) \/ TryBind(j) \/ Verify(j) \/ hostsMagiskModule(j)
Spec == Init /\ [][Next]_vars

-----------------------------------------------------------------------------
\* Of calls that do not overlap, what the last one that ended well wrote is the file that
\* apps read: until the device restarts, and from then on too when it went to the file
\* itself, with nothing mounted on it.  A stage that is mounted is never removed under the
\* name of the write that mounted it.  A module is left holding the content, which no
\* restart shows.
InModule == said.strategy = "magisk-module"
Lasts    == ~said.covered
HostsAreShown ==
  ~overlapped /\ said # Idle =>
    /\ InModule => module = said.of
    /\ ~InModule /\ (said.up \/ Lasts) => Hosts = said.of
    /\ said.up /\ said.strategy = "bind-mount" => bound = name
=============================================================================
