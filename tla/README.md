# adbq in TLA+

adbq is a desktop front end for `adb`: a Go backend (`app.go`, `internal/adb/`) and a
React page (`frontend/src/`) joined by Wails, which turns every exported method of `App`
into a call the page makes from its own goroutine and every `EventsEmit` into a message to
the page. This directory holds TLA+ modules of the parts of it whose behaviour depends on
the order in which goroutines, processes, replies, events and crashes meet, and of the
choices it makes; the TLC configurations that check them on small instances; and TLAPS
proofs for every instance.

Paths below are relative to the repository. A name in `code` that starts with a capital
letter is a TLA+ definition.

## Inventory

adbq's state is in memory, in a few JSON files, in trees it unpacks on the host and in
processes and files it leaves on devices. Its hard cases are concurrency, children that
die, replies that overtake events, and a process that ends between two writes.

| Component | State it keeps | Operations | Talks to | What is hard | What makes it correct | Modelled in |
|---|---|---|---|---|---|---|
| Logcat feed (`app.go`, `logcat_feed.go`, `internal/adb/logcat.go`) | `App.logcats`, per feed the current stream, pid, process table, dead flag, batch | `EnsureLogcat`, `StartLogcat`, `StopLogcat`, attach, forward, recover, pollProcs, batch | adb children, the page | three goroutines swap the stream across device round trips, bindings race, retries | one live feed per device, no leaked child, no line of an old feed in a new view, a silent feed says so | LogcatFeed |
| Logcat switches and page store (`logcatStore.ts`) | the filter, quiet and system flags, lines | `EnsureLogcat`, `SetLogcatQuiet`, `SetLogcatSystem`, `ClearLogcat` | feed | a switch set while the feed restarts; an answer that overtakes lines | the feed obeys the switches shown, the page has its lines | LogcatPane |
| Device tracker, device watcher (`internal/adb/track.go`, `device_watcher.go`) | socket, bounded channel; the last published list | session, retry, stop; refresh, enrich, publish, `Devices` | adb server, page | server restarts, a full channel, aliased slices, polls racing pushes, shutdown | the last event names the devices attached, with their details | DeviceWatch |
| Fact cache and resolver (`internal/adb/strategy.go`, `frontend/src/cache.tsx`) | remembered values with key and age, ruled-out strategies, the page's entries | `Resolve`, `cachedRead`, `Invalidate*`, `touch`, revalidate, mutate | device, page | a read overtaken by an invalidation, one request joined by many, reply against event | nothing older than the last change is shown for long | FactCache |
| Invalidation (`app_invalidate.go`, `cachedomain.go`, the bindings of `app.go`) | the domain table | every binding that changes a device | both caches | a domain left out, a touch before the work is done | what a change makes stale is dropped after the change | Bindings |
| Task manager (`internal/adb/tasks.go`, `frontend/src/tasks.tsx`) | tasks, their cancel functions, the tray's rows | `Create`, `Update`, `Finish`, `Cancel`, `Remove`, `List` | every long operation, the page | emits outside the lock, a cancel racing a finish | the tray ends up with what the manager holds | Tasks, Emulators |
| Emulators and AVDs (`internal/adb/avd*.go`) | running children by AVD; the files of an AVD | `Start`, `WaitForBoot`, `Stop`, `StopAll`; create, edit, delete | emulator children, tasks, disk | check then act across a spawn, cancel during a boot, a shared temporary file | one child per AVD, none left behind; an edit changes what it says | Emulators, AvdFiles |
| SDK (`internal/adb/sdk*.go`, `host_store.go`) | the probe that is kept, the catalogue, the settings | `Info`, `Recheck`, `SetSDKRoot`; list, install, uninstall | sdkmanager, disk | probes of many seconds with no lock, a cache refilled after its invalidation | what is chosen takes effect; what is listed is there | HostTools, SdkImages |
| rootAVD, jadx, staged APKs (`rootavd.go`, `jadx*.go`, `apk_stage.go`) | trees and stages on the host | install, verify, stage, open | network, device, disk | a crash inside an extraction or a pull | what is taken for installed is whole | HostCaches |
| Choices of the host (`jadx.go`, `avd_create.go`, `avd_cmd.go`) and of packages (`apks.go`, `apps.go`) | none | `resolveJava`, `PlanJadxOpen`, `classifyDeviceProfiles`, `selectApkEntries`, `ExportApks`, .. | | ties, empty lists, names cut short | the choice fits | HostPick, PackagePick |
| Live capture, packet ring (`internal/adb/pcap_live.go`, `packetring.go`) | a session per device: tcpdump child, mirror file and its buffer, ring, batch | start, pump, rotate, flush, stop, save | tcpdump children, page | check then act across round trips, two emitters, a file rotated under its readers | a packet is shown once, found while recent, saved; the mirror is a pcap | LiveCapture |
| Device capture, screen recording, session store (`system.go`, `sessions.go`, `app.go`) | processes on the device, a JSON file, the recordings' entries | start, stop, status, pull, `reconcileSessions` | device, tasks | a crash between the device and the file | what runs on a device is known | Sessions |
| tcpdump (`tcpdump.go`, `tcpdump_bin.go`) | a cached build, a file on the device, a probe that is kept | find, download, push | network, device | partial downloads and pushes, a stale probe | what runs is the verified build | Tcpdump |
| Scrcpy (`internal/adb/scrcpy*.go`, `lib/scrcpy.ts`) | children by device; the badge | start, stop, stop all | page | double start, an exit around the grace window | one window, and a badge that tells the truth | Mirror |
| Shells and scrollback (`internal/adb/shell.go`, `scrollback.go`) | sessions, a bounded channel, a buffered log | open, pump, trim, read, clear, close | page | a flush from another goroutine, a trim that fails half way | the terminal gets every byte once, the log the newest | ShellLog |
| Iptables (`internal/adb/iptables.go`) | an undo ring per family, a staged file, a timer | change, undo, export, import, timer | device | a restore that fails after its pop, a timer behind everything | undo restores what the last change replaced | Iptables, UndoLog |
| Frida (`internal/adb/frida*.go`) | a session, its driver and messages; venvs, bridges, servers; scripts, bindings, history | launch, attach, stop; install; save, delete, import | a Python child, device, network | the driver dies between request and reply; jobs that share files; three index files | nothing is left behind; what is ready is whole; a binding names what the user trusts | FridaSession, FridaHost, FridaLibrary, FridaPick |
| Profiles (`internal/adb/profiles.go`, `profiles_app.go`) | two files | save, delete, bind, apply | every setting | a crash between two files, steps that fail | what was saved is there | Profiles |
| Root and the adb layer (`adb.go`, `adb_root.go`, `capabilities.go`) | the su style, the failed probe, the latch, the scan | `suStyleFor`, `tryAdbRoot`, `ShellSU`, `Capabilities` | device | a probe overtaken by a change | what is kept of root is what the device grants | RootProbe |
| Certificates, hosts file (`certs.go`, `hosts.go`) | the device's store, mounts and stages | install, apply | device | one escalation after another, mounts over stores, a shared stage | what is said to be installed is | CertStore, HostsFile |
| DNS sniffer, processes and stats, filter language, other screens | see `PROJECT.json` | | | | | - |

`PROJECT.json` lists every component with its files, and under `hazards` what is hard to
test in this code, each at its line, with the properties that catch it or why none does.

## Modules

Every component has one module, its state and one action per step that other actors can
come between; `MC*` modules give the constants values and join components into runs, and
`*Proofs` hold the theorems. Ghost variables, which the program does not have, are named in
the comments of the modules that use them: they mark the values or calls that a race
separated from the rest, so that a property can say what holds of all the others.

### LogcatFeed

One device. `Calls` are the goroutines Wails runs bindings on; `holder` is `lcMu`,
`logcats` is the entry of `App.logcats`. `EnsureBegin` .. `Started` and `StopBegin` follow
`EnsureLogcat`, `stopLogcatFeed`, `logcatFeed.Stop` and `startLogcatFeed` statement by
statement, because each of them waits for something: a batcher, a killed client, a device
round trip. A feed's goroutines are `poll` (pollProcs), `batch`, and per stream `fwd`, which
is forward and then, in the same goroutine, recover. All three callers of `attach` run the
same steps (`Spawn`, `Check`, `Install`, `Retire`, or `SpawnFail`, `Abort`), one activation
each in `att`. `proc` is the adb client: up, killed (told to die), down. What the lines say is
left out: a feed "speaks" (`lines`, `notices`) on the event it shares with its successors.
`StartLogcat` is `EnsureLogcat` without the health test, shutdown is `StopLogcat`.

### DeviceWatch

The adb server (`server`, `Plug`, `ServerGoes`), the tracker's socket and session, its
channel of `Slots` lists, the watcher's loop (`pc`), and the page. A list is a function
from serials to what is known of them. `publish` keeps the slice its caller goes on
writing; the flag `aliased` says when the kept list and the one being enriched are the same
array, so `Enrich` writes both. Reads of the page (`ReadList`, `ReadDone`) are two steps:
the reply is computed, and later applied. The framing of the adb protocol is one list per
frame. `NilTracker` is a defect kept as it is: when quitting closes the tracker's channel
and the loop sees that first, it evaluates a nil tracker (`device_watcher.go:104`) and
panics, where its comment (`:106-108`) has the ticker go on. It fires in the run `DeviceWatch`.

### FactCache

One fact of one device through both caches. The fact's value is `[link, ver]`: the network
the device is on, which is also the freshness key, and a version that adbq's own changes
move. A reader runs `Resolve`: `Lookup`, `Pick` (the capability scan and the eligible
strategies), then one strategy after the other, and `Remember`. A mutating binding changes
the device and runs the deferred `touch`: drop the facts, then emit; its reply may put a
snapshot into the page's store. The page's cache is `entry` and `inflight`, with mount,
unmount, refresh, expiry and the event. `cachedRead` is the same with one strategy that is
always eligible and one link.

Four history variables (`late`, `mlate`, `factLate`, `pageLate`) mark values that were
already under way when they were invalidated: the code has no defence against those but the
TTL, so `ServedIsTrue` and `ShownIsTrue` say what holds for all others and `StaleExpires`
that the TTL ends the rest (`CacheSettles` in the run `Live`).

### Tasks and Emulators

`Tasks` is the task manager and the tray. It has no specification of its own: a module whose
workers run tasks extends it, and `Emulators` is the first. A change of a task and its copy are
one step under the lock (`UpdateTask`, `Finish`, `CancelMark`), the event is a later one
(`Emit`, `CancelEmit`), so copies overtake one another; `Create` emits the task itself and
not a copy, hence `Emitted`. The tray starts from a listing (`List`) whose reply (`Listed`)
may be overtaken. A task keeps its status only; the detail line and the output are left out.

`Emulators` is one AVD. A process has the number of the `StartAVD` call that spawned it.
`wpc` follows `StartAVD`, `EmulatorManager.Start` and, in the goroutine the binding leaves
behind, `WaitForBoot`: `Check`, `Spawn` and `Register` are apart because the lock is
released between them. `kpc` follows `Stop`, called by the user or by a cancelled start;
`reap` is the goroutine that waits for the child and deletes its entry; `quit` is shutdown.
An emulator that was asked to close may hang, one that was killed dies. `Alive` is true of a
child that exited and was not yet waited for, as a signal still reaches it. A second
emulator of an AVD is spawned like the first; that it usually exits at once is one of the
outcomes of `Exit`.

### LiveCapture

One device; a session is named after the `StartLiveCapture` call that makes it. `StartCheck`
and `SpawnTcpdump` are the two ends of that call, with the round trips and `os.Create`
(`OpenMirror`) between them and no lock across. `pump` is where the session's pump stands: a
record is read, and through the tee mirrored, in two steps, `PumpHead` and `PumpBody`, as
`readPcapRecord` reads it in two. `buf` is the mirror's `bufio.Writer`, which `Write` may or
may not spill, `disk` what the session has written since it last truncated its file, `size`
is `pcapBytes`; a header and a head have size one and a body one or two. `PumpAdd` is the
section under the lock: the ring, the counter and the batch; the batch is detached by the
pump (`pout`) or by the timer (`tout`) and emitted outside the lock. `StopCall` ..
`StopReturn` and `SaveCall` .. `SaveCopy` follow `Stop` and `SaveLivePcap`, whose dialog may
stay open while the capture goes on. A stream that ends before its header sends the pump to the
device for tcpdump's own words (`PumpNoStream`, `failWith`), a round trip without a timeout. The
reads that make up one body are one write here: a rotation between two of them leaves what
one before the body leaves, a body without its head. `since` and `split` are history: the packet
the file begins with, and whether it begins inside it; `doubled` says that two starts overlapped.

### LogcatPane

The page's filter, switches and lines, and the feed as far as the switches see it. A binding
is a member of `calls` and may be handled in any order with the others (`crossed` marks that
it was); those that take `lcMu` wait for a restart (`EnsureStops`, `EnsureStarts`), and
`SetLogcatQuiet` does not, so it may find no feed (`missed`). `gone` are the lines that went
out quiet or before the answer that empties the ring.

### Bindings

One row per binding of `app.go` that changes a device: the domains its `touch` names, the
kept views its work changes, and whether the work goes on in a goroutine after the binding
has returned. A row is one binding's, read from it; the property is about when the touch comes
(`UninstallIsShown`), and no property compares the rows with one another. What the rows show by
themselves, that a domain is left out, is listed under Runs. Commands that the user types, in
the terminal or as an arbitrary adb command, may change anything and touch nothing; they have
no row.

### Sessions, Tcpdump

`Sessions` is one device with the tcpdump processes that run on it, the JSON store with its
save (which a crash may tear), the file capture, the interactive recording and
`reconcileSessions`, with a crash at any step. A reconciled capture takes three steps, its
status, a second look at its file, and the removal of its entry (`ReconcileStatus`,
`ReconcileLook`, `ReconcileRemove`), between which the panel acts and the connection comes and
goes. `Tcpdump` is the way of the binary: the pinned build of an ABI, the verified cache, the
push, the probe kept as a fact. A probe and the keeping of its answer are two steps (`AskPage`,
`KeepAnswer`), as in `cachedRead`; `why` collects what may make the kept answer wrong.

### CertStore, HostsFile

Both stage a file and try one write after another, each read back (`Verify`). The store and
the hosts file are what lies uppermost: the disk, or a mount over it, which a restart of the
device removes. The certificate's two stores are mounted one after the other (`Overlay`,
`OverlayApex`), and either mount may fail. Every command may be lost, before or after it did its
work, and its answer with it: `unanswered` marks the installs such a loss misled, since the code
takes a read-back that failed for a write that did. In `HostsFile` a bind mount holds an inode
and not a name, so what a later write does to the staged file shows at once; what a caller was
told (`said`) is remembered over a restart of the device.

### RootProbe

Each call runs the probe for itself: what is kept, `id`, `adb root`, the forms of `su`, and
the command. The device may gain or lose its grant, be rebooted, or restart adbd between any
two round trips, and may leave any of them unanswered, which the probe takes for a refusal;
`behind` collects what was kept across a change or of a device that did not answer.

### Mirror, ShellLog

`Mirror` follows one window from spawn to the exit that is told, with the grace window of a
start, the filter of arguments by version and the badge, which is set by answers and events
only. Starts, stops and questions cross; `twice` marks that a start asked for a window while
another was between its own question and the map, where the code starts two.
`ShellLog` follows a chunk of output from the PTY through the terminal's channel and
the log's buffer to the file, with the trims, the readers who flush from their own goroutine,
and a failed reopening (`fd`). A session that is closed leaves its buffer as it is: from then on
only the file counts as its log.

### FridaSession, FridaHost, FridaLibrary, FridaPick

`FridaSession` is the launch (server, runtime, driver, attach), the driver's messages through
the ring and the events to the console with its backfill, stop, and the driver's own end.
`FridaHost` are jobs that install a virtual environment, bridges or a server, over failures
and a crash. What it says of bridges is said while no two jobs wrote them at once
(`BridgesApart`): of two that did, a crash may leave the current stamp next to parts of
bridges, which a third job, alone by then, trusts and reports as ready. `FridaLibrary` is
scripts, bindings and history with one file each.
`FridaPick` are the choices, as operators on small records.

### HostTools, HostCaches, HostPick, PackagePick, SdkImages, AvdFiles

The toolchain's probe and its cache, with the setters that write all settings back
(`HostTools`); trees and stages with the mark by which each is taken for complete
(`HostCaches`); the choices among Javas, device forms, archives and package records
(`HostPick`, `PackagePick`), checked against what a fitting answer is, by the inputs that
`MCPicks` enumerates; the catalogue and its cache (`SdkImages`); the files of an AVD, with
the temporary file that edits share (`AvdFiles`).

### Profiles

The two maps of the store, their two files, each written beside itself and renamed, and an
apply of ordered steps, some of which need root and some of which fail.

### Iptables and UndoLog

`UndoLog` is the abstract specification: a ruleset, the rulesets that undo brings back, and
the change under way. `Iptables` is two families that share one staged file, with exports
that fail, changes that are refused, imports, the timer, and a connection that a DROP policy
may cut. `Log == INSTANCE UndoLog WITH ..` maps the ring of one family to `past`, and
`UndoIsALog` says that every behaviour of `Iptables` is one of `UndoLog`. `gap` is part of
both: the code's promise ends when an export failed or two calls overlapped.

## Runs

A run that has several components moves one of them in each behaviour (`part`) and leaves the
others in one initial state, so that it costs the sum of their states and not the product.
The components are joined there because they share a question, not because they interact;
those that do interact are joined in one module (`Emulators` with `Tasks`, `FactCache` with
both caches, `FridaSession` with the console, `Sessions` with store, capture and recording).

| Run | Question | Result |
|---|---|---|
| `Streams` | Two bindings and two whole-device feeds whose clients die; a shell that is opened, logged and closed; a Frida session: is there a second live feed, an unregistered one, a line of the old one, a feed that went silent unnoticed; is everything given back and silence resolved (`FeedsEnd`, `SessionsEnd`)? | holds |
| `Launches` | A feed that follows an application through its restarts; the page's switches and lines; scrcpy; Frida's files, scripts and session; a shell's log; every choice: is a client leaked or forwarded twice, a feed silent unnoticed, a line or a chunk lost, a badge wrong, a half-made file used, a script run that is not the bound one, a misfit chosen? | holds, but for the exemptions each property names |
| `DeviceWatch` | Two devices, pushed or polled, server restarts, quitting: is the channel closed early, the page blanked, the last word wrong, the quit stuck? | holds |
| `Stores` | Facts read across a change; captures and recordings over a crash; tcpdump, certificates, hosts file, root; profiles; the undo ring: does adbq say of a device what is not so? | only where a property says so |
| `Live` | The page and the device's network; the boot of an emulator with its task and its row: is what is shown true; do stale values expire, loads, cancels and rows end? | holds |
| `Emulators` | Two starts of an AVD, one cancelled, and quitting; the files of an AVD; images, SDK, trees and stages: what does shutdown leave, which emulator does a cancel reach, does the tray say a running task is over, is a half-written file used? | only what two races leave |
| `LiveCapture` | A capture with a timer, stops, a save and a second start: is a packet lost, sent twice, found under another's number, missing from a save; is the mirror a pcap; are there ever two writers or a child nobody can stop; does Stop return? | holds, but for a rotation inside a record, for starts that overlap, and for a stop that waits for the device to say why there was no stream |
| `LogcatFeedPoll` | Is an app that stays away long picked up when it returns, as `logcat_feed.go:278` says? | no: recover marks the feed dead and the poller exits |
| `DeviceWatchDetails` | Are a pushed device's details published in the end? | no: the published array is the one being enriched, so the second publish compares it with itself |
| `LiveCaptureMirror` | Does a rotated mirror stay a valid pcap, as `pcap_live.go:669` says? | no: each of a record's two writes may rotate, and the second one leaves a body without its head |
| `BindingsTasks` | Is an uninstalled application gone from the kept list, as `app_invalidate.go:9` asks? | no: the binding touches when it returns, before `pm` has run |
| `CertStoreReboot` | Does a certificate called persistent survive a restart, as `certs.go:22` and `:270` say? | no: a second install over the tmpfs of the first is read back from the tmpfs |

A property of a joined run is the conjunction of what its components promise, each part named
and commented in its own module (`DeviceIsKnown` is `CaptureIsKnown`, `RecordingIsReachable`,
`PushedIsVerified`, `ProbeIsTrue`, `CertIsTrusted`, `HostsAreShown` and `RootIsKnown`). Every
property of a passing run has a mutant, an operator that changes one definition the way a
plausible slip in that code would, under which the property fails in the same run. Several
modules keep slips of other definitions too, written "a slip" or "its slip", for the other
parts of a conjunction.

What the runs meet and do not single out:

* A start of an AVD that overlaps another, or the shutdown, leaves an emulator nobody stops,
  although StopAll is there "so we don't leave orphaned VMs behind" (`avd_launch.go:460`).
* Two overlapping starts of a live capture run tcpdump into one file; of two overlapping
  recordings the first is hidden.
* `procTableViaPS` requires a binary `ps` (`logcat_procs.go:76`) that the capability scan does
  not look for (`capabilities.go:56-62`), so the process table never takes its preferred way.
* `PullCapture` pulls `/sdcard/adbq-capture.pcap` (`app.go:953-962`), while the capture is
  written to `/data/local/tmp` (`system.go:341`).
* An export of a safety snapshot that a DROP cuts off leaves the timer unarmed.
* The log of a shell is buffered, and neither `CloseShell` (`app.go:1498-1506`) nor `shutdown`
  (`app.go:991-995`) flushes it: up to 32 KB of a session's newest output never reach the file,
  although `app.go:1363-1364` and `shell.go:180-181` say that it survives a restart. `LogIsNewest`
  says what is left: the file lacks no more than one buffer of the end.
* `reconcileSessions` means to keep the entry of a capture whose device is offline
  (`app.go:153`), but a status that gets no answer is idle and no error: the entry is dropped
  while the capture may run. It is dropped as well when the capture was started again between the
  first status and the removal (`app.go:166`). `CaptureIsKnown` exempts both (`misled`).
* A tcpdump probe that an install overtook is kept for ten minutes, and so is the "not
  available" of a device that did not answer, although `strategy.go:243-245` says that a failed
  read is not cached: the probe does not report the failure.
* An install of a certificate reads back the system's store only. On Android 14, where the store
  in the APEX counts, it is called installed when that one's mount failed, or when it was a direct
  write, which never reaches the APEX.
* The Magisk module of the hosts file is to take effect after the next boot (`hosts.go:45-47`,
  `:88-89`, `:185-186`), but it is marked `skip_mount`, so Magisk mounts none of its files:
  `HostsAreShown` says of it only that it holds the content.
* A root probe that the device did not answer is kept for five minutes as a refusal
  (`adb.go:271-283`).
* Two overlapping starts of scrcpy open two windows, although `scrcpy.go:166-167` says that a
  running one is left as it is.
* Domains that bindings leave out: captures, recordings and certificates change files on the device
  and touch neither `files` nor `storage`; a Frida session changes the forwards; `DeleteFile`,
  `MoveFile`, `ChmodFile` and the pushes of a file may change the tcpdump or the frida-server a
  kept probe describes; `ApplyProfile` touches what the profile names and not the forwards and
  files that its steps change. The list is what the rows of `Bindings` show, and may not be all.
* A profile's id is given again after a restart when the highest one was deleted
  (`profiles.go:210-216`), and a device may still be bound to it: after a crash between the two
  files of the delete, or when an apply under way bound it to the deleted profile. `NothingLost`
  does not cover this.
* `adb.go:206-208` says that any privileged call still really tries su; within five minutes of
  a failed probe none does.

### Bounds, and why they are enough

* What a run bounds is a CONSTANT that its `.cfg` gives a value, and the proofs leave open; the
  assumptions on it are in the module that declares it.
* Two bindings, jobs or starts: races here are between two check-then-act sequences, or one
  and an event. One crash, at any step: a second one finds what the first left, or a state
  the first launch repaired. Two or three calls after one another: the second meets what
  the first left.
* `Streams`, `Launches`: two feeds give an old one and its successor; the second stream is
  either a reconnect of the first feed or the first of the second; the pid changes once. A
  shell's channel and log of one chunk fill with two or three chunks, its buffer of two grows
  while a reader flushes it; a ring of two messages overflows with three; three calls
  of the mirror are a start that two others cross. The proofs cover every number of feeds,
  streams, pids.
* `DeviceWatch*`: two devices so that one can go as the other comes, which keeps the
  length of the list; a channel of one list is full at once, where the code's two take
  one push more; one server restart; two plugs; one read.
* `Stores`, `Live`: one mutation of a fact, two strategies of which the first may be refused,
  two networks (one in `Stores`). Certificates: two of them, two installs, at once or one over the
  other; hosts: two contents, two calls at once, three in all; both with one restart of the device,
  every subset of the escalations that work and any command lost. One probe of tcpdump under way at
  a time, in any order with two installs.
* `Emulators`: two starts, the first of which may be cancelled; in `Live` one start and all of
  the tray. Two starts with all of that are beyond TLC, and tasks meet only in the map of
  children. AVD files: two edits at once and three calls; two SDK roots, two probes at once.
* `LiveCapture`: three packets wrap a ring of two and leave one over in a batch of two; a
  mirror of size four is full after a packet with a body of size two, which rotates it between
  packets, or after the second packet's head, which rotates it inside one. A second start
  comes before the first packet, or finds a capture that ended before it, so the state it
  can meet (a session probing, spawning, reading, flushing, done) is all there.
* The choices: every list of a few candidates that differ in what the code looks at (order,
  version, ABI, density, name), enumerated in `MCPicks`.

### Fairness

* Goroutines run: every step of a binding, of attach, of forward, recover and pollProcs,
  of the tracker and the watcher is weakly fair. Timers and tickers fire (`RecoverTimer`,
  `Backoff`, `Tick`, `FactExpire`).
* A Go `select` with several ready cases picks one at random, so a case that is ready
  again and again is not passed over for ever: strong fairness for `Pushed`, `Tick` and
  `Done`/`PushClosed`.
* The live capture's ticker ticks, and a killed tcpdump's, shell's or driver's pipe ends.
  Packets, output, and device round trips that answer, are not promised: the question of `failWith`
  has no fairness, so `StopReturns` says that a stop returns or waits for the answer to it.
* Boots and user actions are not fair, so `CancelReaches` holds for an emulator that never
  boots, and for a tray nobody touches.
* A killed client or emulator exits; the adb server is started again by the next adb command;
  replies and events are delivered. Nothing obliges a healthy client to exit, a device to be
  plugged, a line to arrive or a user to act.
* The modules with a crash have no fairness: a process may end at any step, and their
  properties are about what it leaves.

## Proofs

`LogcatFeedProofs` proves, for any number of bindings, feeds, streams, pids and reconnect
delays, from `NoCallAssumption`, `FiltersAssumption` and `BoundsAssumption` alone:

* `TypeCorrect`, `OneLive`, `Registered`, `NoOrphan`, `OneForward`: the type invariant and
  four safety invariants of the runs.
* They follow from `Invariant`: `Spec => []IInv`, by `InitInv` and `NextInv`.
* `NoSilence` (`NoSilentFeed`): a live feed whose clients all ended has somebody left to say so.
  `AnswerInv` holds of every feed, also of one that is being started: its current stream has
  somebody to notice its end, and its poller goes on (`AnswerFeed`); a binding that has no stream
  yet is one of an application's feed (`AnswerCall`); and a recovery that is through has put
  another stream in the place of its own (`AnswerRec`).
* `OneFeedsLines`: `LinesOfOneFeed`, for feeds of the whole device (its hypothesis, which the
  run `Streams` meets). Under a package filter it is false: `pollProcs` may attach while the
  start of its feed fails, and nobody waits for that feed's batcher.

None of the four is inductive alone. `OneLiveFeed` needs to know who may create a feed
(`LockInv`: a binding past its first step holds `lcMu` and no feed is registered meanwhile)
and where that binding stands with the feed it works on (`CallFeedInv`, `FeedInv`: a live
feed is the registered one, or the one a binding is starting or about to stop).
`NoOrphanStream` needs that an attach runs only while its caller waits for it
(`AttachInv`), and that an attach which holds a stream is alone to hold it, for its own feed,
before anybody forwards it (`StreamInv`). The proof that a step keeps `IInv` goes conjunct by
conjunct; for the streams it first sums up each group of actions by its effect
(`CallEffect`, `StreamEffect`, `PollEffect`, `AttachFrame`), so that the argument is made
once per effect and not once per action.

`LinesOfOneFeed` has an invariant of its own beside `IInv`: a feed whose batcher runs and which
ever forwarded a client is the registered one, or a binding is about to wait for its batcher
(`SpeakInv`), and a start whose attach has not succeeded has shown nothing (`StartInv`), so the
batcher that a failed start leaves behind has nothing to show.

`StoresProofs` proves of `FactCache`, for any readers, bindings, strategies and networks:

* `Served`: `ServedIsTrue`. It is not inductive, since a value is stored by a step that does
  not look at the device. `ReadInv` follows the value from where it comes from: a call that
  has not run a strategy yet holds the network it set out on as its key, or was overtaken;
  one that is about to remember holds a value current for that key, or a change is still to be
  touched, or it was overtaken. `FactInv` says the same of what is remembered.
* `Preferred`: `PreferredWhenItWorks`, from one assumption, `ScanSeesNeeds`: what a strategy
  needs and the device has is something the capability scan looks for. It is what the
  process table's strategy lacks, so the proof says that nothing else is wrong with the choice.
  `PickInv` is the loop's invariant (every strategy passed over failed, is refused or cannot
  work here), and `TurnIsLeast` that the loop takes the candidates in order.
* `Shown`: `ShownIsTrue`. A value on its way to the page, in its own request (`AnswerInv`) or in
  the snapshot a binding will answer with (`SnapInv`), is the device's, or a change is still to
  be told, or it is marked late; and an entry that was deleted holds nothing (`GoneInv`).

`EmulatorsProofs` proves, for any number of starts, cancels and stops, and from the
assumptions on the constants alone, `TypeCorrect`, `NoneLeft` (`NoneLeftBehind`),
`CancelTakesDown` (`TookDown`), `RowTrue` (`NoFalseEnd`) and `OwnEntry` (the action property
`ReapsOwn`). `RowTrue` rests on what no step of the manager does: make a task run that ended.
So whoever holds a copy that says it ended (`SaidOver`: the worker, Cancel, the listing's
reply, the row) says what is still so, and of a task not yet created nobody holds any
(`Unheard`). For the others the
invariant has four parts beside the types: who awaits an emulator awaits one that is
registered and reaped (`LifeInv`); until shutdown, an emulator that is up is in the map,
about to be entered, or was overwritten (`MapInv`); after StopAll took the map, it is the
one taken, or one of the two races happened (`QuitInv`); and the stop of a cancelled start
is about to act on the very emulator awaited (`StopInv`, which rests on `MapInv`: it is
because a live emulator does not leave the map that Stop finds the right one). `Turns`
groups the steps into those that touch no child but to close it (`StopEffect`, `MapEffect`),
those of a start that touch none (`WorkEffect`), and the four that matter.

It also proves, of the components that the run `Emulators` joins to it:

* `AvdsKept`, for any settings, calls and crashes, while no two calls crossed: who writes is
  the one call under way, and its edit keeps every key it does not name (`AvdInv`).
* `ListingTrue`, for any finite set of images, because every finite set of rows can be put in the
  order that the listing has; what was removed stays gone (`GoneInv`).
* `ToolsServed`: while calls do not overlap, what is kept describes the folder chosen, or the
  call under way is about to drop it (`ServedInv`); and what a caller is told is there, unless
  the disk changed since it asked (`ToldInv`).
* `CachesWhole`, for any jobs, crashes and builds: a tree that nothing came across is written
  by one install, which began because the tool was not there and, of jadx, has extracted
  whole files so far (`TreeInv`); a code is staged by one call, and only the file being pulled
  is not whole (`StageInv`); what is staged under
  a code is of the build that has it (`BuildInv`), while no two builds share a code.
* `BootIsKept`, `AvdIsKept`, `ToolsAreKept`: all of it for `AllSpec`, the specification of the run.

They assume that the edits and the specs of an AVD are settings (`SettingsAssumption`), that
images are finitely many and have a version (`ImagesAssumption`), that no folder is the mark of
none (`RootsAssumption`) and that there is a build (`BuildsAssumption`).

`IptablesProofs` proves, for any families, rulesets, depth of the ring and number of calls at
once, `RefinesUndoLog`: every behaviour of `Iptables` is one of `UndoLog` (`UndoIsALog`). The
assumptions (`Constants`) are part of the theorem. The invariant has two parts beside the
types (`TypeCorrect`): until a gap is noted, a call of the watched family that is under way
is alone, so that its steps are those of the one hand of the log (`AloneInv`); and what it
staged is still what it will restore, which is false as soon as two calls share the file
(`StagedInv`). `Mine` and `Other` say what a step of a call does to the hand when the call is
of the watched family and when it is not; `StepRefines` then maps the export to `Save`, the
command to `Change`, the pop to `Take`, the end of a restore to `Restore` (of an import, to
`Change`), and the rest to stutters.

`LiveCaptureProofs` proves, for any number of sessions and any sizes of ring, batch, mirror and
records, the parts of three properties of the run `LiveCapture`: `PacketsWhole`
(`PacketsAreWhole`), `MirrorSound` (`MirrorIsSound`) and `ReadsSound` (`ReadsAreSound`). Its
`Invariant` has seven parts. `StartInv` and `OverlapInv` say which sessions may run, and that
until two starts overlap the one file belongs to the one session still writing it. `PlaceInv`:
a packet read is in exactly one of the batch, the pump's hand, the timer's hand and what was
sent. `WindowInv` is the arithmetic of the ring: of `counter` packets the last `RingCap` are
there, number `n` in slot `(n - 1) % RingCap`. `RecordInv` follows the tee: what the file and
its buffer hold together is a pcap that begins with packet `since`, whole but for the head that
a half-read record left last, unless a rotation came between a head and its body. `SaveInv`: the
packets counted when the save was asked for are past the buffer, in the file, when its dialog
opens, since a rotation after that begins the file later than they.

`DeviceWatchProofs` proves, for any devices, capacity of the channel and number of plugs,
changes, restarts and reads, `ListsSound` (`ListsAreSound`) and `ToldTrue` (the action property
`ToldWhatWas`). What the page is told was published, enriched, received, buffered, framed or
read before; `SeenInv` says of every place a list can wait in that it names a set of devices
there was, also while the array it is kept in is written again.

`StoresProofs` also proves, for any number of calls, crashes and changes of the device:

* `CaptureKnown` (`CaptureIsKnown`), from what memory and file owe each other (`SavedInv`) and
  where a call that forgets a capture stands, `reconcileSessions` between its steps included
  (`CaptureInv`): what it is about to drop does not run, or it is known to be misled; and
  `RecordingReachable` (`RecordingIsReachable`), for which a start that is alone finds no entry
  (`RecordInv`).
* `Kept` (`NothingLost`), also for any refused writes. The invariant says more than the property,
  which only looks at what is in memory: `ToldInv` has what a caller was told on disk as well,
  at every moment, which is why a restart finds it; `SavingInv` and `TempInv`, that what is
  renamed is whole and is the store's content of now; and `FileInv`, that a file differs from
  the store only while a call is about to write it.
* `DumpIsTrue`: an automatic install pushes what it verified, and each install that ends drops the
  probe's answer; an answer on its way to being kept is the device's, or marked as overtaken or
  as none (`AskedInv`). So what is kept is the device's while none is under way (`DumpInv`).
* `CertTrusted`, while no two installs overlapped and the device answered: one job holds the stage,
  which has its certificate (`CertAlone`, `CertStaged`); disk and mount over it hold each
  certificate in one form (`CertTidy`); a job past its placement has placed well, and who was told
  has it (`CertPlaced`, `CertSaid`). Without the third, an escalation that is read back could find
  what another one left.
* `HostsShown`, over a restart of the device and lost answers, while no two calls overlapped: what
  is staged is what the one call writes (`HostsStaged`), and what a bind mount shows when it is
  read back is the inode that has the stage's name (`HostsBound`).
* `RootKnown`: what a call learnt is the device's, or was overtaken or unheard (`behind`), and so is
  what was kept of it.
* `ProfilesKept`, `DeviceKnown`: these for `AllSpec`, the specification of the run
  `Stores`. A step of it is a step of one component or leaves that component alone.

They assume of the constants that the suffixes of certificates are finitely many numbers
(`SuffixesAssumption`) and what `CertsAssumption` says of the certificates.

`LaunchesProofs` proves, for the components themselves and for the `AllSpec` of the run `Launches`:

* `ShellIsKept`, `ShellKept` (`ShellKeeps`), for any chunks and capacities: what was shown, the
  channel, the pump's hand and what the PTY still owes are all of the output, in order
  (`TerminalInv`); what was teed came in order (`TeedInv`), and file and buffer are a
  suffix of it (`FileInv`), also while a reader is half way through a flush (`FlushInv`,
  `ReaderInv`), until a flush raced or failed. Of a closed session the file alone is the log, and it
  lacks no more than one buffer of the end, which is what `LogIsNewest` says.
* `PaneIsKept`, `PaneKept` (`PaneHolds`), for any filters, calls and lines. `SwitchInv` follows a
  switch from the page through the calls in flight to the feed, `Restarting` the feed that an
  `EnsureLogcat` replaces, `LineInv` the lines from a feed to the page.
* `MirrorIsKept`, `MirrorKept` (`MirrorIsTrue`), for any number of calls that cross: unless two
  starts met (`twice`), a window that is up is the registered one or the one a call is about
  (`Placed`), and one start at a time is on its way to the map; flags that need version 2 go to it
  alone (`Flags`); and the badge lags behind by no more than an event or an answer that is on its
  way (`Told`).

A trim keeps something of the log (`CapAssumption`), the log is buffered (`BufAssumption`), and
processes of scrcpy and messages of a session can be counted (`MirrorAssumption`,
`SessionAssumption`).

`FridaProofs` proves, likewise, `HostIsReady`, `SessionIsWhole`, `LibraryIsWhole`, and of the run
`FridaIsKept` (`FridaKept`):

* `HostInv`: a job that never mixed with another has its files to itself (`Apart`), so that
  where it stands says what they hold (`VenvReady`, `BridgesReady`, `ServerReady`).
* `SessionInv`: each forward, directory and driver has its place in a start, a session or a stop
  (`SessionStages`), and console, ring and events on their way make up one log (`Faithful`).
* `LibraryInv`: of the three files, which may name what of the others at each point between two
  writes (`IndexHolds`, `BodiesHold`, `BindingsHold`), and that a launch runs what was bound
  when it read (`LaunchHolds`). What its list operators keep is shown by the least position
  at which they would fail, which needs no induction.

Only model-checked: liveness (`FeedsEnd`, `SessionsEnd`, `TopicConverges`, `QuitEnds`,
`CacheSettles`, `TaskSettles`, `ReadIsShown`, `StopReturns`), which rests on fairness and
ENABLED; what the choices compute (`PicksFit`, `FridaFits`), which are folds and sorts of lists
and would need induction over data; and FactCache's `TypeOK`. A theorem of a component is about its own
specification; where a run joins several, the theorem of the run is stated of `AllSpec` in
`StoresProofs`, `LaunchesProofs`, `FridaProofs` and `EmulatorsProofs`, and the other
runs check a proved component through INSTANCE or EXTENDS.

## What is not modelled, and why

* DNS sniffer: its loop (a child, a reader, a map under a lock) repeats the feed's, and the
  rest parses packets. Processes and stats: parsers of text and one previous sample.
* The packet filter language (`captureFilter.ts`): a parser and an evaluator over strings,
  with a table-driven test of its own; a model would restate it character by character.
* Parsers of device output, the manifest decoder and icons (`apk_binaries.go`, `icons.go`),
  the packet decoder, the adb protocol's framing, quoting and the text of commands: pure
  functions of bytes, tested by the repository's own tests. A command is an atomic step
  that may fail wherever a module uses it.
* The screens' layout and wording. Where a screen keeps state that races with the backend
  (the device list, the log, the tray, the cache, the badge, Frida's console, the terminal),
  it is part of the module of that component.
* Several devices: maps by serial are independent of one another, but for files that devices
  share on the host, which the modules of those files have.
* Fact prefixes, the counter of dropped lines, the names of log files, licences and progress.

## Plan

1. An abstract log of which only the last packets are kept, implemented by the packet ring;
   an abstract store of profiles, implemented by two files.
2. What `PROJECT.json` calls partly: the pull of a recording, the counter of dropped lines,
   the uninstallers of Frida, the capture screen's list.
3. Theorems about the choices that look for one candidate and need no fold.
