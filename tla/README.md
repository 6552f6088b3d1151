# TizenOS: TLA+ models, checks and proofs

TLA+ models of the parts of TizenOS that hold state, run concurrently or can
fail half-way, the TLC runs that check them on small instances, and TLAPS proofs
of their main properties for every value of the constants. `PROJECT.json` maps
each definition to the source lines it stands for.

Running it, in this directory:

    tlc -workers 2 -config Launchpad.cfg MCLaunchpad
    tlapm LaunchpadProofs.tla

## 1. Inventory

| Component | State | Operations | What is hard |
|---|---|---|---|
| **Launchpad** `app-framework/launchpad` | pool of worker slots (pid, socket, busy), the daemon's descriptor table, the workers and the sockets they inherit | D-Bus `LaunchApp`; fork of a worker; a worker reads a path, loads it, runs it, leaves; systemd restarts | workers run beside the daemon; `fork()` and `socketpair()` fail; descriptor numbers are reused; crashes of either side |
| **Installer** `installer/tizenos-installer` | wizard page, widgets, the `InstallerApp` on the heap; disks, mount table, live system | wizard buttons, `run_installation` and its commands, close, reboot | the event loop is turned inside the installation; no result is looked at; the window frees what a timer uses; a killed installer leaves mounts; nothing keeps a second installer from running beside the first |
| **GPU detection** `base/gpu/scripts/tizenos-gpu-detect.sh` and units | `/run/tizenos/gpu-info.env` | one probe at boot, one per hotplug line | written in two steps without a lock while others read it |
| **Display fallback** `tizenos-display-fallback.sh` | sourced variables, attempts, state file | early check, decision, compositor retries, X11 | reads a file another script rewrites; `set -eu` |
| **Compositor GPU backend** `shell/compositor/src/gpu-backend.c` | the configuration parsed from `gpu-info.env`, the environment for wlroots | detect, select renderer, apply environment | decides again, in C, what the display script decided in shell, from a file that may have changed; not called yet |
| **X11 session** `shell/session-x11`, `app-framework/app-core` | the window manager's event queue and its unanswered requests, windows, focus, `_NET_ACTIVE_WINDOW`; the main loop of each application | `wm_init`, `handle_map_request`, launch, `app_main`, `app_exit`, show, hide, end | clients and window manager are interleaved by the server; any X error ends the window manager, and with it the session |
| **Cynara** `security/cynara` | policy table on disk or in memory | start, `CheckPrivilege`, crash and restart | locked or missing database; policies that change while calls wait |
| **tizen-auth** `security/tizen-auth` | calls waiting for one main loop, one PAM conversation | `AuthenticateUser`, `RequestPermissionConsent`, crash and restart | PAM blocks the loop; clients time out; a handle to close on each exit |
| **Signing** `core/libtizen-core` (`signature.c`, `checksum.c`), `tools/signFile` | data, signature and key files; each process's key, context, buffer | sign, verify, checksum, keygen | nothing is locked; writes are unchecked and in place; some thirty exits; two copies of the code |
| NVIDIA setup `tizenos-nvidia-setup.sh` | files under /etc, services | setup steps, verification, rollback | half-done setups |
| Multimedia `multimedia` | player and camera states | set_uri, play, pause, stop | states left or re-entered by out-of-order calls |
| Archive and ISO tools `tools/archive-mount` | extracted files, loop mounts | extract, mount, unmount | failed entries; leaked loop devices |
| Build pipeline `build/scripts`, `.github/workflows` | build directories, packages, checksums, ISO | the stages | order of stages; `set -e` |
| Shell, themes, boot artwork, generators, Smack, keyring, package manager | widgets, assets, stubs | – | no behaviour of their own |

How they interact. The launchpad is called by the shell and by the benchmark over
D-Bus, talks to its workers over socket pairs and is restarted by systemd. The
installer drives `parted`, `mkfs`, `mount`, `rsync`, `chroot` and `grub-install`
through `system()`; disks and mount table are its shared state with any other
installer, later or beside it (`boot-welcome.c:8` starts one with `&`, `bootstrap.sh`
autostarts both programs). The detection script and the display script share only the file
`gpu-info.env`; systemd orders the first detection before the display manager and
the hotplug monitor after it, and nothing orders later ones. The compositor's GPU
backend reads that file a second time and inherits the environment the display
script exported. Cynara and tizen-auth are called over the system bus by any
process; the bus refuses calls while the name has no owner, and systemd restarts
both. The window manager and the applications meet only in the X server. The
library and the `signFile` tool meet only in the files they read and write; and the
library's half is built by nothing: `libtizen-core/CMakeLists.txt:15-19` names neither
`signature.c` nor `checksum.c`, and line 81 of the first does not compile against OpenSSL 3.

What makes each correct:

- Launchpad: an idle slot leads to its own, unused worker; a worker runs what it
  was handed, once; no descriptor or worker is lost; every failure costs exactly
  one slot; the service comes back until systemd's start limit; all of it implements an abstract worker life.
- Installer: only the disk shown when the user confirmed is erased; nothing else is
  written unless a mount failed or another installer was at work; a run in which every
  command succeeded and nobody else's came between ends in a complete installation; an
  installer does not begin twice or reboot meanwhile; it ends.
- Detection and display: the file catches up with the hardware; a login ends in a
  display or for a known reason; the state file names the session that runs.
- Compositor GPU backend: from the file the script decided from, it comes to the same
  environment, and never renders in software what was judged capable.
- X11 session: a window that is asked for gets on the screen; the window that is named
  active has the focus; the window manager dies of nothing but a window that is taken
  away while a request for it is on its way.
- Cynara and tizen-auth: every call ends; no call is lost or answered twice; an answer
  was right, by the documents and not by the code's own lookup, at some moment while the
  client waited, with three exceptions that have names; a failure of PAM lets nobody in;
  no restart changes a policy.
- Signing: what a command answers is true of the files when nobody else wrote them;
  nothing verifies that was not signed; no success over an old signature; no exit leaks.

`PROJECT.json` lists the hazards behind these, each at its line.

## 2. Modules

| Module | Role |
|---|---|
| `WorkerLifecycle` | abstract promise of the pool: unborn, idle, given, running, over |
| `Launchpad` | the detailed launcher |
| `LaunchpadRefinement` | refinement mapping `LifeOf`, `Lifecycle == INSTANCE WorkerLifecycle WITH ...` |
| `LaunchpadProofs` | TLAPS proofs |
| `MCLaunchpad` | constants for TLC |
| `DiskInstallation` | abstract promise of the installer: agree, begin, write, finish, reboot |
| `Installer`, `MCInstaller` | wizard, installation, disks |
| `InstallerRefinement` | refinement mapping, `Installation == INSTANCE DiskInstallation WITH ...` |
| `InstallerProofs` | TLAPS proofs |
| `GpuDetect` | the detection and decision scripts as operators on a machine |
| `DisplaySession` | boot detection, monitor, logins; composes `GpuDetect` with the scripts' interleaving |
| `CompositorGpu`, `MCDisplaySession` | `gpu-backend.c` as operators, compared with the script in every state of `DisplaySession` |
| `DisplaySessionProofs` | TLAPS proofs about both |
| `Signing`, `MCSigning`, `SigningProofs` | library and tool on shared files; proofs |
| `BusCalls` | abstract promise of a service to its callers: one answer, to this question, right meanwhile |
| `SystemServices`, `MCSystemServices` | Cynara, tizen-auth, their clients, the bus and systemd |
| `SystemServicesRefinement` | refinement mapping, `Calls == INSTANCE BusCalls WITH ...` |
| `SystemServicesProofs`, `SystemServicesRefinementProofs` | TLAPS proofs |
| `Desktop` | abstract promise of the X11 session: windows presented one after the other |
| `AppSession`, `MCAppSession` | window manager, applications and X server |
| `AppSessionRefinement` | refinement mapping, `UserSees == INSTANCE Desktop WITH ...` |
| `AppSessionProofs` | TLAPS proofs |
| `Descent` | the rule by which the liveness proofs end: a number that keeps falling comes to its end |

Operators marked `Mutant:` in a comment are plausible wrong versions of the
definition that follows them, one per property; `PROJECT.json` "mutants" pairs them.
They are not part of any specification.

### 2.1 Launchpad

`launchpad_init_pool` is one `InitPool` step per turn of its loop, `LaunchApp(a)`
the whole D-Bus handler: choose the first idle slot, write, close, mark busy, spawn
the replacement, answer. It is one step because the daemon has one thread and the
steps of a worker commute with the inside of a call: a worker only reads its own
socket, which no later line of the same call touches. `launchpad_spawn_worker` has
its three outcomes, `SocketpairFails`, `ForkFails` (which leaves two descriptors
open), `ForkSucceeds`. A worker is `WorkerRuns` (read, then load or reject, or
end-of-file), `AppReturns`, `WorkerDies`.

Descriptor tables are explicit because `fork()` copies them. The kernel hands out
the two lowest free numbers, so the number a slot remembers can come to lead
elsewhere; and a worker forked later holds the daemon's ends of other slots, which
delays the end-of-file of those workers. GIO ignores SIGPIPE, so a write to a dead
worker is EPIPE, and the path is lost while the caller is told `true`. Nobody calls
`waitpid()`: a zombie keeps its pid, which is why pids are unique per daemon (the
worker on the c-th channel has pid c) and zombies count towards `ProcLimit`. systemd
empties the control group before it restarts (`ServiceStop`, then `ServiceStart`). The
unit sets no start limit, so systemd's default holds: `starts` counts the starts of the
present interval, the clock may end the interval before any start, and a start that is one
too many leaves the service `"failed"`, for good.

`WorkerLifecycle` is what the pool promises of its workers: forked, given at most one
path, that one run and only if it loads, over for good; and one path given per call.
It replaces properties of single variables: "a worker runs what it was handed" and "no
worker is handed two paths" are steps it does not have.

### 2.2 Installer

The wizard's pages are `step`, its buttons `Back`, `NextPage`, `Start`; `Start` arms
the 100 ms timer. `run_installation` is cut where `force_ui_update` turns the event
loop (`Announced`), where clicks are handled, and between commands, where it may be
killed. Each command succeeds, fails because of what is there (a disk that is
mounted, a missing partition, an empty root), or fails on its own (bounded by
`MaxFaults`). A failure that leaves something half done does so in the model: a partition
table may end up with a part of `Parts` (`PartialTables`), and as `parted` writes tables
only, the file systems of the old table are still found at the same numbers until
`Format`. Mounts stack on `/mnt/target`; `Here` is what the directory leads to.

The module follows one installer. Any other, started beside it by the welcome window, by
the session's autostart or as a second window of the same process, is `Another`: one
command of `AnotherCommand` (erase, make a file system, mount, write files, bind, install a
loader, unmount, on any disk), or the reboot of its dialog, between any two steps of the one
that is followed. `disturbed` remembers that one came during this run. Every property that
speaks of what this installer does is restricted to its own steps (`Own`), so each of two
overlapping installers has it when it is the one followed. What the two shells of one
`system()` line each do to one another in the middle of a line is finer than the model.

`CloseWindow` frees the `InstallerApp` while the timer or the installation may
still use it. Reading freed memory is undefined: the process crashes, or the widgets
are gone or something else by now; the disk may then be any, and the account, host name
and autologin may fail. Nondeterminism covers these.

After line 263 of `installer-ui.c` no line makes Next sensitive again, so the branch
that reboots from the progress page (265-266) is unreachable; the model has its
guard, and that no reboot comes before the end depends on it. Back stays sensitive on the
progress page but its handler tests the page.

`DiskInstallation` is what all this promises the owner of the disks: nothing is written
before the user agreed to the disk shown, then only that disk, by one installation, and
no reboot of its own comes before its end; the exceptions (a closed window, a failed mount,
another installer: `Disturb`) are in it by name. `InstallerRefinement` reads the phase off process, timer and stage, and
counts the BIOS loader to the partitions and the EFI one to the files.

Left out: keyboard, time zone, user fields, the LUKS stub, the swap partition. The
two rsync attempts are one copy that succeeds or stops half-way.

### 2.3 Detection and display

`GpuDetect` computes what `tizenos-gpu-detect.sh` writes for a machine (cards in
order, vendors and PCI classes, loaded modules, NVIDIA version, modeset parameter,
render nodes) and what `tizenos-display-fallback.sh` decides. `DisplaySession` adds
time: `Probe`, `Truncate` and `Fill` are three steps (the redirection truncates, one
write of `cat` fills); the reader sources the file in `EarlyCheck` and again in
`TakeDecision`. Under `set -u`, sourcing an empty file ends the script.

The units are modelled as systemd runs them. `tizenos-gpu-detect.service` may write
only to `/run/tizenos` and fails (`BootFails`) when the directory is not there yet:
only `tizenos-hardware-detect.sh` makes it, and nothing orders that before. Its
`ConditionPathIsDirectory` is in the wrong section and has no effect. The monitor
requires the detection, is wanted again by the udev rule of a card that comes, and
may die with its script half-way (`MonitorDies`); `lost` records a change that no line
and no later probe tells of. One hotplug prints two lines, the kernel's and udev's.

Each file the fallback script writes may fail to be written. `launch_wayland` is called as
the condition of an `if`, where `set -e` is suspended, so there a state file that cannot be
written is passed over (`NoteWayland`) and the session starts with an older mode on record;
where Wayland is forced, and in `launch_x11`, the failure ends the login (`NoteX11`,
`WriteXinitrc`). `unwritten` records it. The mode is written before the session starts, in a
step of its own, so `StateFileIsTrue` has that interval, and the crashes after it, to fail in.

Notes on the code the model follows: virtual GPUs are always judged capable, so the
pixman branch (268-275) is never taken; `exec startx || ...` replaces the shell, so
the lines after `||` never run; the comment at 229 speaks of the integrated GPU but
the render node there is the primary (NVIDIA) one. Left out: notifications and log
rotation.

`CompositorGpu` adds no state. `ReadConfig` is `tizen_gpu_detect` (a truncated file
parses to the configuration `memset` left), `SelectRenderer` and `ApplyEnv` its other
two functions, `ScriptEnv` what the display script exported before. `TreesAgree` and
`NoSoftwareRendering` quantify over nothing: they speak of the machine, the file and
the decision in every state a session reaches, where the file is still the one the
script read (`Undisturbed`).

### 2.4 Signing

Each `job` is one process that runs one command. `pc` names the call of the code it
is about to make, `held` what it must free, `read` the pieces it has digested. Files
are shared and unlocked: a piece of the data may be rewritten between two `fread`s, a
signature or key file may be truncated by one process while another reads it, and
`Killed` may come anywhere. Every call that can fail has its failing branch; `fault`
records an input or output error, which the code mostly does not see. A signature is
the record of key, bytes and padding, so that forging is impossible by construction
and the properties are about what the code does with its files. Every OpenSSL call that can
fail has that exit, the second `EVP_DigestSignFinal` with its buffer allocated and the
updates and finals of both files included. Library and tool share
the steps in which they do the same and differ where they do: `CreateSignature`
(the library returns true when the file cannot be opened) and `Digest`. `Padding` is EVP's
default: `signature.c:80-85` would set PSS through a `pctx` that nothing writes. An Ed25519
key, which the documentation makes the default, fails at its first `EVP_*Update`, because the
code streams and OpenSSL signs with it in one call only; `OneShot` names such types. The
library's functions are modelled as they read, although no build file has them.

`alone` is a history variable: the processes that wrote every file written since
they started. It is what "nobody interfered" means in the properties.

### 2.5 Bus services

One module, because both daemons have the same shape and one client may use both: a
GLib main loop that takes calls in order, so `Dispatch` is one step for a call that is
answered at once; PAM is external and slow, so `AuthenticateUser` is cut at
`pam_start`, `pam_authenticate` and `pam_acct_mgmt`, and nothing is dispatched between
them. `serial` tells a client's calls apart: a client that has timed out may call again
while its first call is still queued, and the late answer to that one reaches nobody.

systemd is `Start` with its start limit, counted as in 2.1, the bus is the part of `Call` that refuses
and of `Crash` that answers with an error. Cynara's database may be missing, fail to
open (the daemon goes on with a table in memory), or be locked by another process: at
start this ends the daemon, later it makes a check fall through to the answer of a
missing row. SQLite's two stages of a writing transaction are `Begin` and `Flush`.

What is right does not come from the code. `Right` follows the documents: a rule is on a
label, a user or every user, and a privilege (`default-policy.conf`, `schema.sql`,
`cynara_check_privilege`), and where two such rules disagree both answers are right; a login
is right with a finger, a token or the password, as `config/pam/tizen-auth` stacks them, on
an account that is valid; a consent is what its user answers to the prompt
(`README-auth.md:18`). What the code does is beside it: `RowsFor`, whose query leaves the user
out; `HandleConsent`, which asks nobody; `NoRow`, which answers while the file is locked or
in memory. `excused` says which of these decided an answer that need not be right.
`truth` is a history variable: the verdicts that were right at some moment since the
call, under the policies and the account as they were then.

`BusCalls` knows neither daemons nor queues: a client asks one thing at a time and is
answered what it is asking now, rightly at some moment of its wait, or learns that no
answer will come. Its exceptions are the code's: the built-in answer while the policies cannot
be read (`blind`), a rule on another user (`foreign`), a refusal, a consent granted unasked.
The two of them that let a client have what a rule denies it are findings (section 6), each
with a run that shows it. `right`, `foreign` and `blind` are computed by the mapping
from files, table, lock and account.

### 2.6 X11 session

`WmInit`, `HandleMapRequest` (the whole of `handle_map_request`, with its four
requests in their order) and the server's `ServerTakes`, which takes one request of
the window manager at a time while applications hide, destroy or crash with their
windows. A handler waits for nothing: `_NET_ACTIVE_WINDOW` was interned in `wm_init`, so
`XInternAtom` at `wm-x11.c:42` answers from Xlib's cache, and the requests of any number of
handlers may be on their way (`sent`; `turn` is the next request of the first of them).
Xlib's default error handler is in place: a refused request ends the window
manager when it reads the error (`ErrorIsRead`), until when the server goes on taking
requests. Applications follow `app_main` and `app_exit`; those of `Early` are started by
the launcher before there is a window manager and map their windows directly.
`raced` is a history variable: a window went away while something about it was queued.

`Desktop` is the session without the protocol: a queue of windows, each presented in one
moment that shows it, gives it the keyboard and names it active. The mapping puts that
moment where the server takes the map request: from there on, `Keyboard` and `Front` are
what the rest of that handler will make of focus and name; the windows of the handlers behind
it are still waiting to be presented (`Asked`).

## 3. Runs

| Run | Constants | Checks |
|---|---|---|
| `launchpad` | 2 slots, 3 descriptors, 3 children, 5 channels, start limit 2, 2 faults | type, `IdleSlotWired`, `NoDescriptorLost`, `SlotAccounting`, `NoOrphanWorker`; `ImplementsLifecycle` (refinement); `RefusalIsFinal`; `PathIsRead`, `ServiceComesBack` |
| `launchpad_pool_promise` | 3 channels, 1 fault | `PoolIsMaintained` is violated (finding) |
| `installer` | 2 disks, 2 launches, 1 fault, nobody else | type, `CleanRunInstalls`, `OnlyTheConfirmedDiskIsErased`, `LiveSystemIsSpared`; `ImplementsInstallation` (refinement); `InstallationEnds` |
| `installer_overlap` | 2 disks, 1 launch, 2 commands of other installers | `OnlyTheConfirmedDiskIsErased`, `RebootOnlyWhenFinished`; `ImplementsInstallation` |
| `display` | 5 machines, 2 changes, 2 logins, 2 retries | type, `InfoIsCurrent`, `FailureHasAReason`, `StateFileIsTrue`, `TreesAgree`, `NoSoftwareRendering`; `LoginEnds`, `EventsAreHandled` |
| `display_gbm_version` | the NVIDIA machines | `GbmSince495` is violated (finding) |
| `signing` | 2 processes, 2 RSA pairs and an Ed25519 pair, 8 commands, 2 pieces, 2 rewrites | type, `NothingIsLeaked`, `AnswerIsTrue`, `AcceptedWasSigned`, `NoStaleSignature` |
| `signing_default` | signFile's keygen and sign with Ed25519, 1 piece, no rewrite | `DefaultKeySigns` is violated (finding) |
| `services` | 2 clients with 2 and 1 calls, 3 policies, 6 requests, start limit 1, 2 faults, 1 change | type, `NoCallIsLost`, `PoliciesSurvive`; `ImplementsBusCalls` (refinement); `EveryCallEnds` |
| `services_user` | 1 change, no fault | `PoliciesArePerUser` is violated (finding) |
| `services_memory` | 2 changes, no fault | `InternetByDefault` is violated (finding) |
| `app_session` | the panel and an application, which ask for their windows 2 and 3 times | type, `FocusIsActive`; `ImplementsDesktop` (refinement); `EveryWindowIsShown` |

Why the bounds are enough:

- Launchpad: with 2 slots one can be refilled or lost while the other serves, which
  is what two slots can do to each other; 5 channels let both be filled, used and
  refilled, or a daemon crash and restart with launches on both sides; a pool of 2 needs
  at most 3 descriptors at a time, so numbers are reused, and the two that a failed fork
  leaves open meet the limit; 3 children let the process limit be met; 2 faults allow a
  failure followed by a crash, or two crashes, which meet the start limit. Sockets past the
  fifth fail as a real one would, so the bound only prunes longer histories.
- Installer: the default disk and one with an earlier installation tell "chosen",
  "default" and "other" apart; a second launch meets what a killed one left; one
  failure at each of the twelve commands, next to the ones that follow from it. About
  970,000 states. The other installers have a run of their own, as the two products do not
  fit in one: two of their commands, or one and their reboot, are a mount and what is done
  through it. About 640,000 states.
- Display: a machine for each end of the decision, one of them known to `lspci` only; two
  hotplug changes overlap with one running detection and one queued; two logins show stale
  state from an earlier one; each of the script's files may be unwritable. About 500,000
  states.
- Signing: two processes are a writer and a reader, two writers or two readers of each
  file, and every property compares one process with the files; two pieces have a
  moment between them, two rewrites leave a mixture and its undoing. The eight commands
  are those whose code differs. About 2,070,000 states.
- Services: the client with two calls times out and calls again while its first call is
  queued or in PAM; the other stands in its way. Two rows for one label and privilege,
  one with the user `*`, make the order of rows matter, and one is asked about for a user it
  is not on. Two faults are a crash and a file that does not open, or a start too many. A
  machine has one of the two services in these runs (`MCPackages`): no code, file or call
  joins the two daemons, and a client that waits for one cannot call the other. About
  180,000 states.
- X11 session: the window that was there before the window manager and one that comes
  and goes twice: up to five handlers on their way, each able to lose its window or its
  focus to another. About 202,000 states.

The runs that check liveness use no symmetry; `signing` checks none and permutes the
processes and the RSA pairs, which no definition tells apart. Deadlock is not checked:
the pool without clients or after systemd has given it up, an installer that ended, a user
who stays logged in, processes that returned, clients without calls left and a session that
ended are legitimate ends.

## 4. Fairness

- Launchpad: weak fairness of `InitPool` (a for loop), `ServiceStart` and
  `ServiceStop` (`Restart=always`), and of each worker's `WorkerRuns` (the scheduler).
  Clients need not call; `app_main` need not return; nothing need fail. `ServiceStart` is
  fair as systemd is: at the start limit its step may be to give up, and
  `ServiceComesBack` says so.
- Installer: weak fairness of the timer and of the commands of this installer. Nobody need
  click, and the others need do nothing. That commands end is assumed: none has a
  time-out in the code.
- Display: weak fairness of the detection service, of systemd starting a wanted
  monitor, and of the display script. `CompositorCrash`, `MonitorDies`, `Hotplug`,
  `Login` need not occur; retries are bounded by the
  code itself, so no strong fairness is needed.
- Services: weak fairness of each daemon's own steps (its main loop runs, PAM's modules
  return) and of systemd starting what is down (`Restart=`, within its limit). That PAM
  returns is assumed: `auth-daemon.c` sets it no time limit. Nobody need call, time out,
  commit or crash; `EveryCallEnds` therefore does not lean on the client's time-out.
- X11 session: weak fairness of `wm_init`, of the handler loop, of the server and of the
  window manager's reading an error. Nothing is assumed of the applications.
- Signing has no liveness property and states no fairness.

## 5. Proofs

`LaunchpadProofs` proves, for every `PoolSize`, `FdLimit`, `ProcLimit`, number of
channels and faults and every set of applications, from `LaunchpadAssumption`
alone: the invariant `LaunchpadInv`, and from it `TypeOK`, `IdleSlotWired`,
`NoDescriptorLost`, `NoOrphanWorker`; the action property `RefusalIsFinal`; and
`ImplementsLifecycle`, that every step of the launcher is a step of `WorkerLifecycle`.
`RunsWhatItWasHanded`, `OneLaunchPerWorker` and `DescriptorBound` are theorems that no
run repeats: the first two are in the refinement, the last follows from the account
below.

Why the invariant is stronger than the properties. `IdleSlotWired` alone says
nothing of the descriptors the kernel will give out next, so it is not kept by a
spawn. `LaunchpadInv` adds that every open descriptor has an owner (`Owned`), that
numbers of channels not yet made are untouched (`FreshChannels`: a new socket cannot
be one a slot has), that a daemon that is down has no memory (`DaemonPhase`), and
that a path in a socket, handed or running is the same path (`PathsMatch`). The two
halves `Wired` and `Owned` take the slots and the table as parameters, because
`LaunchApp` passes an intermediate pair (slot busy, socket closed) to
`launchpad_spawn_worker`; one lemma per outcome of the spawn is proved on these and
used for both callers.

`SlotAccounting` and `DescriptorBound` count, and follow from a second invariant,
`CountInv`: the idle slots and the failures of this daemon add up to the slots it has
tried to fill, and no more descriptors are open than one for each idle slot and two for
each failure. `SpawnCounts` says what each outcome of `launchpad_spawn_worker` adds to
the two accounts; a launch first takes the picked slot and its descriptor out of both,
which needs `Wired` (the descriptor was open). The bound is then arithmetic: since
idle slots and failures are at most `PoolSize` together, at most `2 * PoolSize`
descriptors are open.

`InstallerProofs` proves, from `InstallerAssumption` alone (any set of disks, any
number of launches and failures), the invariant `InstallerInv`, and from it `TypeOK`
and five action properties: `OnlyTheConfirmedDiskIsErased`, `LiveSystemIsSpared`,
`RebootOnlyWhenFinished`, and, repeated by no run because the refinement says them too,
`OtherDisksAreSpared`, `DoneIsFinal`. They hold beside any number of commands of other
installers (`MaxOthers` is a natural, no more): what `Another` can disturb is named in
`disturbed`, and it touches nothing of the followed installer's own state.
The argument is a chain from the click to the disk, and each link is a part of the
invariant: the summary shows the selected disk (`PagesAgree`), the timer and the
installation exist only on the progress page, where nothing can be selected and one
installation has disarmed the timer (`OneInstallation`), so the disk read 100 ms later
is the confirmed one or, after a close, any (`RightDisk`); and between the
mount and the last file written, unless the mount failed or another installer came between,
`/mnt/target` leads to that disk, however many layers earlier installers left below it
(`TargetMounted`).
One lemma (`GoingOn`) covers what all twelve commands share; `WritingStep` and
`MountingStep` cover those that write files and those that change what is mounted.
`CleanRunInstalls` needs to know how far a run has come: `CleanInv` says, of a run
without a failure and without another's command, that exactly one layer, the chosen disk, lies on the mounts it found
and that the disk holds what the earlier stages wrote (`Written`).

It also proves `ImplementsInstallation`: each action maps to one
step of `DiskInstallation` or to a stutter, `Begin` being where the disk is read and
`Write` every command, whether it succeeds, fails or is killed. `InstallerInv` is not
enough: that files go nowhere else needs that what was mounted stays mounted until its
unmount (`StaysMounted`, which with it makes `RefinementInv`). `Another` is `Disturb`.

`AppSessionProofs` (from `SessionAssumption`): `SessionInv`, and from it `TypeOK`,
`FocusIsActive` and `OnlyARaceEndsTheSession`, which no run repeats. Nothing bounds the
handlers on their way, so the invariant says of all of them only that their windows were made
(`Made`) and, unless there was a race, are still there (`Awaited`); and of the first one,
request by request, what `Handing` says: between two handlers the window that is named active
has the focus if it is on the screen; before the focus is given the window that is about to
get it is on the screen (or `raced`); from then on it agrees with the focus, and the request
that names it is still to come. `FocusIsActive` is the case in which nothing is left.
`ImplementsDesktop` is proved request by request: of the server's steps that are not refused
only the map request is a step of `Desktop`, the others stutter, because `Keyboard` and
`Front` are already what they will make of focus and name; and reading a MapRequest moves a
window from one part of `Asked` to the other.

`SigningProofs` (from `SigningAssumption`: any number of processes, keys and pieces):
`SigningInv`, and from it `TypeOK`, `NothingIsLeaked`, `AnswerIsTrue`,
`NoStaleSignature`, `AcceptedWasSigned`; `NothingIsLeaked` so holds over every exit named in
2.4. The invariant is layered. `Local` is what a
process knows of itself and no other step can change: where it may be, what it holds
there (`Holding`, which makes every exit free everything), which key it has, what it has
digested. `View` is what it may say of the shared files, and is claimed only for the
processes in `alone`; a step of another process that writes a file takes everyone else
out of `alone`, so only the writer's own view has to be kept. `Known` is where every
signature in a file or a buffer comes from.

`DisplaySessionProofs` (from `DisplayAssumption`: any set of machines and any bounds):
`DisplayInv`, and from it `TypeOK`, `InfoIsCurrent`, `FailureHasAReason`,
`StateFileIsTrue`, and the two comparisons of `CompositorGpu`, `TreesAgree` and
`NoSoftwareRendering`, which so hold for every machine and not only the seven of the run.
`Heard` strengthens `InfoIsCurrent` with the detection that is under way; `Planned` says
that the compositor is tried only after a decision taken from a complete file, which
gives the comparisons the file they speak of; `Written` what is on record between the
note and the start of a session. What detection and decision compute is in
lemmas (`DetectFacts`, `DecideFacts`) that know nothing of time.

`SystemServicesProofs` (from `ServicesAssumption`: any number of clients, calls,
faults, changes and policies): `ServicesInv`, and from it `TypeOK`, `NoCallIsLost`,
`PoliciesSurvive` and `AnswersAreTimely` (part of the refinement, so in no run). Of a client that waits the invariant says
where its latest call is (`Kept`: once in a queue or on PAM's desk), that what is there
is what it asked (`Meant`), and that the answers that are right now are among those it may
be given (`Truthful`). An answer is then right, or excused by what the daemon found when it
gave it, because it is computed from the request that is meant and the table that is now. `Kept` needs that no call in a queue is newer than its
client's latest (`Queued`), else the next call could meet one of its own number. How a
queue changes is in five lemmas about sequences (`AppendedIt`, `TailOther`, ...), how an
answer changes the clients in `Replied`, and `DispatchReply` and `DeskReply` cover every
answer of both daemons. `SystemServicesRefinementProofs` proves `ImplementsBusCalls`. Of
every step it says who speaks: at most one client asks or is answered, and in a step that
changes what is right nobody does (`HeadIsMeant`, `DeskIsMeant`: what is answered is what
is being asked); a crash and its lost calls are the step in which several move.

The named assumptions hold what the proofs need and no more: bounds are naturals, `Root`
is no application, and the values that stand for nothing (`Missing`, `Broken`, `Empty`,
`Nothing`, `NoFile`, `Nobody`) differ from the data they stand beside. TLC evaluates
them in every run.

Every liveness property a run checks is proved too, for every value of the constants,
from the specification with its fairness and one premise:

| Theorem | Premise | Conclusion |
|---|---|---|
| `PathsAreRead` | `[]WorkersCanRead` | `PathIsRead` |
| `TheServiceComesBack` | `[]RestartCanGoOn` | `ServiceComesBack` |
| `InstallationsEnd` | `[]CommandsCanRun` | `InstallationEnds` |
| `LoginsEnd` | `[]ScriptsCanRun` | `LoginEnds` |
| `LinesAreHandled` | `[]ScriptsCanRun` | `EventsAreHandled` |
| `EveryWindowComesUp` | `[]SomeoneCanGoOn` | `EveryWindowIsShown` |
| `CallsEnd` | `[]NobodyHoldsUp` | `EveryCallEnds` |

Weak fairness says nothing of an action that is not enabled, and ENABLED is what the
prover has no rules for. The premise says just that: whenever the system owes a step, an
action with fairness can take it. The premises are defined beside the theorems, are what the
guards of the actions say, and are no properties of the code: no run checks them, since each
run checks the conclusion itself. What a proof adds is the temporal
argument, for any number of workers, disks, machines, windows, callers and failures.

For two of them the argument is a fixed number of stages. A worker whose socket holds a
path stays ready until it goes (`ReadyStays`), and going leaves the state
(`ReadingLeaves`); the stages of an installation are a finite chain, whatever fails on
its way. The other five are inductions over a number that the steps lower, and end with
the rule of `Descent`: if `rank[c]` is a natural number while `busy[c]`, and from each
value it comes to a smaller one or to the end, then what is busy rests. The library's
induction theorems take a predicate as a parameter, and here it would be a temporal one;
so `Descent` proves the rule itself. The numbers from which an end is reached
are made the elements of a set (`EndsAsFunction`); if it lacked any it would lack a least
one, since `<` on the naturals is well-founded, and no number is that. The rule is proved once,
over two variables, and each component instantiates it with its own state functions:

- `ServiceComesBack` (`StepsToBeUp`). A restart of the launcher is at most `PoolSize + 2`
  steps (`StepsToServe`, `EveryRestartIsFinite`); each turn of `launchpad_init_pool` counts
  whether its spawn succeeds or not. Only another crash undoes one, and it takes a
  failure of the finite number, so a failure left weighs more than a whole restart. It ends in
  a service that serves or in one that systemd has given up, which is at the start limit
  (`AtTheLimit`).
- `LoginEnds` (`StepsLeft`, `EveryLoginIsFinite`). Each step of the fallback script
  lowers it, from at most `2 * Retries + 6`; a compositor that ran and crashed goes back into
  the loop of `launch_wayland` but gives no try back.
- `EventsAreHandled` (`LinesLeft`). The lines the monitor has to read and the
  detection that is under way, with the changes that may still add lines.
- `EveryWindowIsShown` (`Distance`). The window's place in the queue of map requests,
  twelve for each place, and the requests the window manager and the server still
  have to take for the one being handled. `NobodyIsEverForgotten`, that whoever asked for
  its window and does not see it is in that queue, is proved over the steps of `Desktop`
  that the refinement maps each action to.
- `EveryCallEnds` (`StepsAhead`, `CallsComeForward`). The main loop's steps before a
  client's answer: its place in the queue, three steps for each call of `tizen-auth`
  before it, and what PAM has to do for the call on its desk. It never grows while the
  client waits, and every step of the service it asked lowers it. The proof takes from
  `Kept` that the call is once in the queue before and after the step; that a queue loses
  its head, grows at its end or stays (`QueueSteps`) gives the place.

So every safety property that a passing run checks is proved from the assumptions on the
constants alone. The liveness properties are proved from the premises above; what a fair
action that is never enabled would do to them is seen by the runs only, which check them
without a premise.

## 6. Findings

1. **The pool shrinks.** `launchpad-loader.c:11` promises that the number of waiting
   workers is kept. A `socketpair()` or `fork()` that fails loses its slot until the
   daemon restarts (`PoolIsMaintained`); `SlotAccounting` says exactly how many are
   left and `RefusalIsFinal` that the refusal is permanent.
2. **Driver 495.** `version_ge 495.44 495` is false (`GbmSince495`).
3. **The default key cannot sign.** `README-signFile.md` makes an Ed25519 pair and signs
   with it; `do_sign` streams the file, which OpenSSL refuses for such a key
   (`DefaultKeySigns`). `AnswerIsTrue` speaks of the keys the code can work with (`Usable`).
4. **A rule on one user is a rule on all.** The query of `cynara-daemon.c:83` leaves the
   user out (`PoliciesArePerUser`).
5. **A denied internet is granted.** While the policy file is locked, or once the daemon
   has fallen back to a table in memory, what a rule denies is answered by the default
   (`InternetByDefault`).

Met while modelling, and shown by no run:

- `installer-ui.c:240` and :60 announce a successful installation although no result was
  looked at; `CleanRunInstalls` says when the message is true.
- `amd|ati|radeon` (`tizenos-gpu-detect.sh:120`) matches "VGA compatible controller" and
  "Corporation": a VirtualBox adapter is taken for an AMD card. The model has it, in
  `LspciVendor`.
- `TIZENOS_FORCE_WAYLAND=1` does not skip the early check (`tizenos-display-fallback.sh:184`),
  though `base/gpu/README.md:37` says so.
- `signature.h:13` and `main.c:4` of signFile announce RSA-PSS; nothing sets it
  (`Padding`).
- `RequestPermissionConsent` grants without the prompt of `README-auth.md:18`
  (`HandleConsent`, the excuse `"prompt"`).

Passing properties whose exceptions are worth knowing: a window closed in the loop
iteration in which the timer fires installs on a disk nobody chose
(`OnlyTheConfirmedDiskIsErased`); after a failed mount, or when another installer unmounts,
the copy goes to the live system (`LiveSystemIsSpared`), and another installer's dialog
reboots the machine whatever this one is doing (`RebootOnlyWhenFinished`); a hotplug while no
monitor listens (between the boot detection and its start, after it died, after the boot
detection failed) is not noticed (`InfoIsCurrent`); the library, unlike
the tool, may report success over an older signature (`NoStaleSignature`); a window
hidden or destroyed at the wrong moment ends the X11 session for everyone
(`OnlyARaceEndsTheSession`).

## 7. Not modelled, and why

What is left is sequential code that keeps no state between its calls, or stubs.

- **NVIDIA setup**: one shell script run by an administrator that edits files of other
  packages; each step prints and goes on. (`rollback` at 31 removes three configuration
  files; the kernel parameter, `prime-run`, the sleep hook and `nvidia-powerd` stay.) A
  model would list its commands again.
- **Player and camera**: setters of a state field, used by one caller from one thread.
  (`set_uri` while playing forgets the previous URI; `stop` returns the player to READY.)
- **Archive and ISO tools**: one loop over libarchive that returns true whatever an entry
  returned, and `mount`/`umount` through `system()`.
- **Build pipeline**: fixed lists of commands. (`build-iso.yml` makes checksums at 47,
  before the ISO at 52; `((success++))` of `build-packages.sh` is 0, and so false under
  `set -e`, the first time.)
- **boot-welcome** and `third-party.c` of the installer: a menu that starts the installer,
  which `Launch` and `Another` stand for; a file nobody calls.
- **Hardware detection**: `modprobe` calls whose results are ignored.
- **Smack utilities, security manager, keyring, package manager, app installer, media
  scanner, launcher, compositor, Cynara's client**: they print and return, or write a
  constant.
- **Panel and other shell widgets, themes, boot artwork, code generators**: layout and
  assets without behaviour a property could be about.

Left out inside what is modelled, beyond what section 2 names: errors of SQLite other than a
file that does not open, BUSY and a statement that cannot be prepared; what two installers'
shells do to one another within one `system()` line; the state of library locks
at the moment of `fork()`; the exit status of a command that a signal killed, which
`WEXITSTATUS` reads as 0 (a command that "succeeds" although it was killed is in the
installer's model a failure nobody looks at, as all its failures are); `ConfigureRequest`,
which `wm-x11.c` drops; D-Bus payloads, log lines and messages to the user.
