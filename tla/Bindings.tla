------------------------------ MODULE Bindings ------------------------------
(***************************************************************************)
(* What the screens keep of a device, and what the bindings say they       *)
(* changed (app.go, app_invalidate.go, cachedomain.go, cache.tsx). Every   *)
(* binding that changes the device defers touch with the domains it        *)
(* dirties; touch drops what both caches keep of those domains. A row here *)
(* is a binding: the domains it touches, the kept views its work changes,  *)
(* and whether that work goes on in the background after it has returned.  *)
(***************************************************************************)
EXTENDS Naturals, FiniteSets

CONSTANTS MaxCalls,   \* the bindings called in a behaviour
          MaxSteps    \* the steps a profile enables

VARIABLES
  stale,    \* the kept views that no longer tell the truth, and who changed them
  call,     \* the binding under way
  worked,   \* and whether it has changed the device
  pending,  \* what goes on in the background after its binding returned
  calls

vars == <<stale, call, worked, pending, calls>>

-----------------------------------------------------------------------------
\* What is kept, and the domains that drop it. The pages' keys begin with the
\* domain, as the names of the backend's facts do; root drops the scan too.
Domains ==
  [appList |-> {"apps"}, appDetail |-> {"apps"}, procTable |-> {"apps"},
   stats |-> {"storage"}, dir |-> {"files"}, netInfo |-> {"net"}, ssid |-> {"net"},
   forwards |-> {"forwards"}, releases |-> {"frida"}, ruleset |-> {"iptables"},
   backend |-> {"iptables"}, tcpdump |-> {"tcpdump"}, caps |-> {"props", "root"}, su |-> {"root"}]
Views == DOMAIN Domains
AllDomains == UNION {Domains[v] : v \in Views} \cup {"certs", "hosts", "proxy"}

Doing(names, touches, changes) ==
  [name : names, touches : {touches}, changes : {changes}, after : {FALSE}]
InBackground(names, touches, changes) ==
  [name : names, touches : {touches}, changes : {changes}, after : {TRUE}]

-----------------------------------------------------------------------------
\* The bindings, screen by screen.
AppBindings ==
  LET App == {"apps", "storage"}
      Everything == {"appList", "appDetail", "procTable", "stats"}
  IN  Doing({"ForceStopApp", "LaunchApp"}, {"apps"}, {"procTable"})
      \cup Doing({"ClearApp"}, App, {"appDetail", "procTable", "stats"})
      \cup Doing({"InstallAPKFromPath"}, App, Everything)
      \cup InBackground({"UninstallApp", "InstallApkBundleFromPath"}, App, Everything)

\* What is deleted, moved, written over or given another mode may be the tcpdump,
\* or a server, that a probe has found.
Binaries == {"tcpdump", "releases"}
FileBindings ==
  Doing({"DeleteFile", "PushFileWithPicker"}, {"files", "storage"}, {"dir", "stats"} \cup Binaries)
  \cup Doing({"ChmodFile", "MoveFile"}, {"files"}, {"dir"} \cup Binaries)
  \cup Doing({"Mkdir", "ChownFile"}, {"files"}, {"dir"})

PushFileWithOptions ==
  InBackground({"PushFileWithOptions"}, {"files", "storage"}, {"dir", "stats"} \cup Binaries)

ForwardBindings ==
  Doing({"AddForward", "AddReverse", "RemoveForward", "RemoveReverse"}, {"forwards"}, {"forwards"})

InstallFridaServer ==
  Doing({"InstallFridaServer"}, {"frida", "files", "storage"}, {"releases", "dir", "stats"})
PushFridaBinaryWithPicker ==
  Doing({"PushFridaBinaryWithPicker"}, {"frida", "files", "storage"}, {"releases", "dir", "stats"})
FridaBindings == Doing({"StartFrida", "StopFrida"}, {"frida"}, {})

\* A session on another port than frida's own holds a forward open.
StartFridaSession == Doing({"StartFridaSession"}, {}, {"forwards"})
StopFridaSession == Doing({"StopFridaSession"}, {}, {"forwards"})
\* It may have a server to start first, which no kept view shows.
StartAppWithFrida == Doing({"StartAppWithFrida"}, {}, {"forwards"})

IptablesBindings ==
  Doing({"AppendIptablesRule", "InsertIptablesRule", "DeleteIptablesRule", "FlushIptables",
         "SetIptablesPolicy", "CreateIptablesChain", "DeleteIptablesChain", "ImportIptables",
         "UndoIptables"}, {"iptables"}, {"ruleset"})

HostsBindings ==
  Doing({"SaveHostsConfig"}, {"hosts"}, {})
  \cup Doing({"ApplyHostsConfig"}, {"hosts", "net"}, {})
  \cup Doing({"FlushDeviceDNS"}, {"net"}, {})

SetProxy == Doing({"SetProxy"}, {"proxy", "net"}, {"netInfo"})
TcpipMode == Doing({"TcpipMode"}, {"net"}, {})

\* The capture's file grows on the device while it runs.
CaptureBindings == Doing({"StartCapture", "StopCapture"}, {"tcpdump"}, {"dir", "stats"})
KillExternalCapture == Doing({"KillExternalCapture"}, {}, {"dir", "stats"})
TcpdumpBindings ==
  Doing({"InstallTcpdumpAuto", "InstallTcpdumpWithPicker"}, {"tcpdump", "files", "storage"},
        {"tcpdump", "dir", "stats"})
RecordBindings ==
  Doing({"StartScreenRecord", "StopScreenRecord", "ScreenRecord"}, {}, {"dir", "stats"})

\* Without root the certificate is left in the downloads.
InstallSystemCertWithPicker == Doing({"InstallSystemCertWithPicker"}, {"certs"}, {"dir", "stats"})

\* A device that comes back may be another one.
LinkBindings == Doing({"ConnectTCP", "DisconnectDevice"}, AllDomains, Views)
PowerBindings == Doing({"Reboot", "PowerOffDevice", "RestartAdbd"}, AllDomains, Views)

-----------------------------------------------------------------------------
\* A profile: the steps it enables, and a proxy of which the host is looked up
\* as it is applied.
Profiles == {p \in [steps : SUBSET {"iptables", "hosts", "cert", "frida", "forwards", "proxy"}, auto : BOOLEAN] :
               /\ Cardinality(p.steps) \in 1 .. MaxSteps
               /\ p.auto => "proxy" \in p.steps}

ProfileDomains(p) ==
  UNION {CASE s = "iptables" -> {"iptables"}
           [] s = "hosts"    -> {"hosts", "net"}
           [] s = "cert"     -> {"certs"}
           [] s = "frida"    -> {"frida", "files", "storage"}
           [] s = "forwards" -> {"forwards"}
           [] s = "proxy"    -> {"proxy", "net"} : s \in p.steps}

\* What the steps change, and the reverse that reaches this computer over USB.
applyIptables == {"ruleset"}
applyHosts == {}
applyCert == {"dir", "stats"}
applyFrida == {"releases", "dir", "stats"}
applyForwards == {"forwards"}
applyProxy(auto) == {"netInfo"} \cup (IF auto THEN {"forwards"} ELSE {})

ApplyProfile ==
  {[name |-> "ApplyProfile", touches |-> ProfileDomains(p), after |-> FALSE,
    changes |-> UNION {CASE s = "iptables" -> applyIptables [] s = "hosts" -> applyHosts
                         [] s = "cert" -> applyCert [] s = "frida" -> applyFrida
                         [] s = "forwards" -> applyForwards [] s = "proxy" -> applyProxy(p.auto) :
                         s \in p.steps}] : p \in Profiles}

Bindings ==
  UNION {AppBindings, FileBindings, PushFileWithOptions, ForwardBindings, InstallFridaServer,
         PushFridaBinaryWithPicker, FridaBindings, StartFridaSession, StopFridaSession,
         StartAppWithFrida, IptablesBindings, HostsBindings, SetProxy, TcpipMode, CaptureBindings,
         KillExternalCapture, TcpdumpBindings, RecordBindings, InstallSystemCertWithPicker,
         LinkBindings, PowerBindings, ApplyProfile}

-----------------------------------------------------------------------------
None == [name |-> "none"]
Init == stale = {} /\ call = None /\ worked = FALSE /\ pending = {} /\ calls = 0

Call(b) ==
  /\ call = None /\ calls < MaxCalls
  /\ call' = b /\ worked' = FALSE /\ calls' = calls + 1
  /\ UNCHANGED <<stale, pending>>

ChangedBy(b) == [view : b.changes, by : {b.name}]
Work ==
  /\ call # None /\ ~call.after /\ ~worked
  /\ worked' = TRUE /\ stale' = stale \cup ChangedBy(call)
  /\ UNCHANGED <<call, pending, calls>>

\* InvalidateDomains by the names of the facts, invalidateDomains by the keys:
\* what is on the screen is read again at once, the rest when it is next shown.
touch(domains) == stale' = {s \in stale : Domains[s.view] \cap domains = {}}

\* Deferred: it runs whether the work was done or failed, and for what goes on in
\* the background before any of it is done.
Return ==
  /\ call # None
  /\ touch(call.touches) /\ call' = None
  /\ pending' = IF call.after THEN pending \cup {call} ELSE pending
  /\ UNCHANGED <<worked, calls>>

TaskEnds(b) ==
  /\ pending' = pending \ {b} /\ stale' = stale \cup ChangedBy(b)
  /\ UNCHANGED <<call, worked, calls>>

\* A screen reads what it shows: it is asked to, or what is kept is too old.
Screens == {{"appList", "appDetail", "procTable"}, {"stats", "caps", "su"}, {"dir"}, {"netInfo", "ssid"},
            {"forwards"}, {"releases"}, {"ruleset", "backend"}, {"tcpdump"}}
Refresh(shown) ==
  /\ \E s \in stale : s.view \in shown
  /\ stale' = {s \in stale : s.view \notin shown}
  /\ UNCHANGED <<call, worked, pending, calls>>

Next == \/ \E b \in Bindings : Call(b)
        \/ Work
        \/ Return
        \/ \E b \in pending : TaskEnds(b)
        \/ \E shown \in Screens : Refresh(shown)

Spec == Init /\ [][Next]_vars

-----------------------------------------------------------------------------
AtRest == call = None /\ pending = {}

\* "the user uninstalls an app and watches it sit in the list for ten minutes" is
\* what app_invalidate.go says touch is there to prevent: once nothing is under
\* way, an application that was uninstalled is not in the list that is kept. The
\* code breaks this: the binding returns, and touches, before pm has begun.
UninstallIsShown == AtRest => [view |-> "appList", by |-> "UninstallApp"] \notin stale
=============================================================================
