--------------------------- MODULE DisplaySession ----------------------------
(***************************************************************************)
(* GPU detection and the start of a graphical session, base/gpu: the       *)
(* one-shot tizenos-gpu-detect.service at boot, the hotplug monitor that   *)
(* runs the same script again (tizenos-gpu-monitor.service), and           *)
(* tizenos-display-fallback.sh, which reads what they wrote to choose      *)
(* between the Wayland compositor and X11.                                 *)
(*                                                                         *)
(* The file is opened for truncation by the shell and filled by one write  *)
(* of cat; the reader sources it twice. Nothing locks it.                  *)
(***************************************************************************)
EXTENDS GpuDetect

CONSTANTS
    Machines,    \* the hardware and drivers the machine may have
    MaxChanges,  \* bound of the model: hotplug changes
    MaxLogins,   \* bound of the model: sessions started
    Retries,     \* MAX_COMPOSITOR_RETRIES
    Missing,     \* the file does not exist
    Empty,       \* it has been truncated
    Nothing      \* no variable of it has been read

\* What a completed detection may leave in the file.
Infos == {Detect(m) : m \in Machines}

ASSUME DisplayAssumption ==
    /\ Retries \in Nat \ {0}
    /\ MaxChanges \in Nat
    /\ MaxLogins \in Nat
    /\ {Missing, Empty, Nothing} \cap Infos = {}

VARIABLES
    hardware,   \* the machine as it is
    file,       \* /run/tizenos/gpu-info.env: Missing, Empty or what Detect wrote
    detector,   \* "boot", "failed", "probed", "truncated" or "idle"
    probed,     \* the machine the running detection saw
    monitor,    \* tizenos-gpu-monitor.service: "off", "wanted" or "on"
    events,     \* lines of udevadm monitor not read yet
    lost,       \* a change since the last probe that no line tells of
    booted,     \* the boot detection is over: the display manager starts
    session,    \* the login: "out", "begun", "checked", "trying", "starting",
                \* "falling", "noted", "ready", "wayland", "x11" or "failed"
    env,        \* the variables the script sourced
    force,      \* TIZENOS_FORCE_X11, TIZENOS_FORCE_WAYLAND or neither
    plan,       \* what the script decided
    attempt,    \* compositor starts of this login
    noted,      \* DISPLAY_MODE in display-fallback-state
    unwritten,  \* the script of this login could not write one of its files
    changes,    \* hotplug changes so far
    logins      \* logins so far

detectVars == <<file, detector, probed, monitor, events, booted>>
sessionVars == <<session, env, force, plan, attempt, noted, unwritten, logins>>
vars == <<hardware, lost, changes, detectVars, sessionVars>>

-----------------------------------------------------------------------------
(* Detection. *)

\* A card comes or goes, with its driver; a listening udevadm monitor prints a line
\* for the kernel's event and one for udev's. The udev rule of a card that comes
\* wants the monitor, and so the detection the monitor requires.
Hotplug(m) ==
    /\ changes < MaxChanges /\ m # hardware
    /\ hardware' = m
    /\ changes' = changes + 1
    /\ events' = IF monitor = "on" THEN events + 2 ELSE events
    /\ lost' = (lost \/ monitor # "on")
    /\ LET wanted == m.cards # <<>> /\ monitor = "off" IN
       /\ monitor' = IF wanted THEN "wanted" ELSE monitor
       /\ detector' = IF wanted /\ detector = "failed" THEN "boot" ELSE detector
    /\ UNCHANGED <<file, probed, booted, sessionVars>>

\* enumerate_gpus to find_render_node: reading sysfs.
Probe ==
    /\ detector' = "probed"
    /\ probed' = hardware
    /\ lost' = FALSE

\* ReadWritePaths=/run/tizenos: where nothing has made the directory yet the unit
\* fails, its own mkdir included, and the monitor that requires it with it. (The
\* Condition in its [Service] section is no key of that section.)
BootFails ==
    /\ detector = "boot"
    /\ detector' = "failed" /\ monitor' = "off" /\ booted' = TRUE
    /\ UNCHANGED <<hardware, lost, changes, file, probed, events, sessionVars>>

BootProbe ==
    /\ detector = "boot"
    /\ Probe
    /\ UNCHANGED <<hardware, changes, file, monitor, events, booted, sessionVars>>

\* The monitor is started after the boot detection.
StartMonitor ==
    /\ monitor = "wanted" /\ detector = "idle"
    /\ monitor' = "on"
    /\ UNCHANGED <<hardware, lost, changes, file, detector, probed, events, booted,
                   sessionVars>>

\* The monitor's processes die, the script they run included: Restart=on-failure
\* brings it back, unless the shell ended with status 0. Its lines are gone.
MonitorDies ==
    /\ monitor = "on"
    /\ monitor' \in {"off", "wanted"}
    /\ detector' = "idle"
    /\ events' = 0
    /\ lost' = (lost \/ events > 0 \/ detector # "idle")
    /\ UNCHANGED <<hardware, changes, file, probed, booted, sessionVars>>

\* Mutant: the script runs only if it has not run yet.
MonitorOnce ==
    /\ detector = "idle" /\ monitor = "on" /\ events > 0
    /\ file = Missing
    /\ events' = events - 1
    /\ Probe
    /\ UNCHANGED <<hardware, changes, file, monitor, booted, sessionVars>>

\* The monitor reads a line and, two seconds later, runs the script.
MonitorProbe ==
    /\ detector = "idle" /\ monitor = "on" /\ events > 0
    /\ events' = events - 1
    /\ Probe
    /\ UNCHANGED <<hardware, changes, file, monitor, booted, sessionVars>>

\* write_results: cat > gpu-info.env, the redirection
Truncate ==
    /\ detector = "probed"
    /\ detector' = "truncated"
    /\ file' = Empty
    /\ UNCHANGED <<hardware, lost, changes, probed, monitor, events, booted, sessionVars>>

\* Mutant: lines that arrived while the script ran are thrown away.
FillAndDrain ==
    /\ detector = "truncated"
    /\ detector' = "idle"
    /\ file' = Detect(probed)
    /\ events' = 0 /\ booted' = TRUE
    /\ UNCHANGED <<hardware, lost, changes, probed, monitor, sessionVars>>

\* write_results: the text
Fill ==
    /\ detector = "truncated"
    /\ detector' = "idle"
    /\ file' = Detect(probed)
    /\ booted' = TRUE
    /\ UNCHANGED <<hardware, lost, changes, probed, monitor, events, sessionVars>>

-----------------------------------------------------------------------------
(* tizenos-display-fallback.sh. *)

\* The display manager starts the script; it is ordered after the boot detection.
Login ==
    /\ session = "out" /\ booted
    /\ logins < MaxLogins
    /\ logins' = logins + 1
    /\ session' = "begun"
    /\ force' \in {"none", "x11", "wayland"}
    /\ env' = Nothing /\ attempt' = 0 /\ plan' = X11("none") /\ unwritten' = FALSE
    /\ UNCHANGED <<hardware, lost, changes, detectVars, noted>>

Sourced == IF file \in {Missing, Empty} THEN env ELSE file

\* The early check: a virtual GPU whose render node is not there gets X11.
EarlyCheck ==
    /\ session = "begun"
    /\ env' = Sourced
    /\ IF env' # Nothing /\ env'.virtual /\ 1 \notin hardware.nodes
       THEN session' = "falling" /\ plan' = X11("none")
       ELSE session' = "checked" /\ UNCHANGED plan
    /\ UNCHANGED <<hardware, lost, changes, detectVars, force, attempt, noted, unwritten, logins>>

\* The file is sourced again and the decision taken; $GPU_VENDOR unset under
\* set -u ends the script.
TakeDecision ==
    /\ session = "checked"
    /\ env' = Sourced
    /\ IF file = Missing THEN plan' = X11("none")
       ELSE IF env' = Nothing THEN UNCHANGED plan
       ELSE plan' = Decide(env', force)
    /\ session' = IF file # Missing /\ env' = Nothing THEN "failed"
                  ELSE IF plan'.mode = "x11" THEN "falling" ELSE "trying"
    /\ UNCHANGED <<hardware, lost, changes, detectVars, force, attempt, noted, unwritten, logins>>

\* write_fallback_state; when the directory or the file cannot be written, or not to
\* the end, what was there before is left, or nothing.
Note(mode) == noted' = mode /\ UNCHANGED unwritten
NoteFails == noted' \in {noted, "nothing"} /\ unwritten' = TRUE

\* set -e is suspended in a function that is the condition of an if: only where Wayland
\* is forced does a state that cannot be written end the script.
NoteWayland ==
    \/ Note("wayland") /\ session' = "starting"
    \/ NoteFails /\ session' = IF plan.xorg = "never" THEN "failed" ELSE "starting"

\* Mutant: [ $attempt -le $MAX_COMPOSITOR_RETRIES ].
OneTryTooMany ==
    /\ session = "trying" /\ attempt <= Retries
    /\ attempt' = attempt + 1
    /\ NoteWayland
    /\ UNCHANGED <<hardware, lost, changes, detectVars, env, force, plan, logins>>

\* Mutant: the state is written only where there is none yet.
NoteOnce ==
    /\ session = "trying" /\ attempt < Retries
    /\ attempt' = attempt + 1
    /\ IF noted = "nothing" THEN NoteWayland
       ELSE session' = "starting" /\ UNCHANGED <<noted, unwritten>>
    /\ UNCHANGED <<hardware, lost, changes, detectVars, env, force, plan, logins>>

\* launch_wayland: one turn of the loop, up to the start of the compositor
TryWayland ==
    /\ session = "trying" /\ attempt < Retries
    /\ attempt' = attempt + 1
    /\ NoteWayland
    /\ UNCHANGED <<hardware, lost, changes, detectVars, env, force, plan, logins>>

\* The compositor runs, or ends at once with an error.
StartCompositor ==
    /\ session = "starting"
    /\ session' \in {"wayland", "trying"}
    /\ UNCHANGED <<hardware, lost, changes, detectVars, env, force, plan, attempt, noted,
                   unwritten, logins>>

\* Mutant: X11 is not tried.
GiveUpAtOnce ==
    /\ session = "trying" /\ attempt = Retries
    /\ session' = "failed"
    /\ UNCHANGED <<hardware, lost, changes, detectVars, env, force, plan, attempt, noted,
                   unwritten, logins>>

\* Mutant: the script is started over.
StartOver ==
    /\ session = "trying" /\ attempt = Retries
    /\ session' = "begun" /\ attempt' = 0
    /\ UNCHANGED <<hardware, lost, changes, detectVars, env, force, plan, noted, unwritten, logins>>

\* launch_wayland returned 1. A forced Wayland has nothing to fall back to: set
\* -e ends the script.
GiveUpWayland ==
    /\ session = "trying" /\ attempt = Retries
    /\ session' = IF plan.xorg = "never" THEN "failed" ELSE "falling"
    /\ UNCHANGED <<hardware, lost, changes, detectVars, env, force, plan, attempt, noted,
                   unwritten, logins>>

\* launch_x11 is never a condition: set -e ends the script when the mode cannot be
\* noted,
NoteX11 ==
    /\ session = "falling"
    /\ \/ Note("x11") /\ session' = "noted"
       \/ NoteFails /\ session' = "failed"
    /\ UNCHANGED <<hardware, lost, changes, detectVars, env, force, plan, attempt, logins>>

\* when /tmp/tizenos-xinitrc cannot be written or made executable,
WriteXinitrc ==
    /\ session = "noted"
    /\ \/ session' = "ready" /\ UNCHANGED unwritten
       \/ session' = "failed" /\ unwritten' = TRUE
    /\ UNCHANGED <<hardware, lost, changes, detectVars, env, force, plan, attempt, noted, logins>>

\* and after exec startx the shell is gone, and the lines after || never run.
LaunchX11 ==
    /\ session = "ready"
    /\ session' \in {"x11", "failed"}
    /\ UNCHANGED <<hardware, lost, changes, detectVars, env, force, plan, attempt, noted,
                   unwritten, logins>>

\* A running compositor crashes: the loop goes on.
CompositorCrash ==
    /\ session = "wayland"
    /\ session' = "trying"
    /\ UNCHANGED <<hardware, lost, changes, detectVars, env, force, plan, attempt, noted,
                   unwritten, logins>>

\* The user logs out, or the display manager is back after a failure.
Logout ==
    /\ session \in {"wayland", "x11", "failed"}
    /\ session' = "out"
    /\ UNCHANGED <<hardware, lost, changes, detectVars, env, force, plan, attempt, noted,
                   unwritten, logins>>

-----------------------------------------------------------------------------

Init ==
    /\ hardware \in Machines
    /\ file = Missing
    /\ detector = "boot" /\ probed = hardware /\ monitor = "wanted" /\ events = 0
    /\ lost = FALSE /\ booted = FALSE
    /\ session = "out" /\ env = Nothing /\ force = "none"
    /\ plan = X11("none") /\ attempt = 0 /\ noted = "nothing" /\ unwritten = FALSE
    /\ changes = 0 /\ logins = 0

Script ==
    \/ EarlyCheck \/ TakeDecision
    \/ TryWayland \/ StartCompositor \/ GiveUpWayland
    \/ NoteX11 \/ WriteXinitrc \/ LaunchX11

Detection == BootProbe \/ BootFails \/ StartMonitor \/ MonitorProbe \/ Truncate \/ Fill

Next ==
    \/ Detection
    \/ \E m \in Machines : Hotplug(m)
    \/ Script
    \/ MonitorDies
    \/ Login \/ CompositorCrash \/ Logout

\* Both scripts run on once started, and systemd starts what is wanted; hotplug,
\* logins, crashes and logouts need not happen.
Fairness == WF_vars(Detection) /\ WF_vars(Script)

Spec == Init /\ [][Next]_vars /\ Fairness

-----------------------------------------------------------------------------
(* Properties. *)

Sessions == {"out", "begun", "checked", "trying", "starting", "falling", "noted", "ready",
             "wayland", "x11", "failed"}
Plans == [mode : {"wayland", "x11"}, renderer : {"auto", "pixman", "none"},
          xorg : {"nvidia", "modesetting", "none", "never"}]

\* Every variable has its type, and no login tries the compositor more often
\* than MAX_COMPOSITOR_RETRIES.
TypeOK ==
    /\ {hardware, probed} \subseteq Machines
    /\ file \in {Missing, Empty} \cup Infos
    /\ detector \in {"boot", "failed", "probed", "truncated", "idle"}
    /\ monitor \in {"off", "wanted", "on"} /\ events \in 0 .. 2 * MaxChanges
    /\ lost \in BOOLEAN /\ booted \in BOOLEAN
    /\ session \in Sessions
    /\ env \in {Nothing} \cup Infos
    /\ force \in {"none", "x11", "wayland"}
    /\ plan \in Plans
    /\ attempt \in 0 .. Retries
    /\ noted \in {"nothing", "wayland", "x11"} /\ unwritten \in BOOLEAN
    /\ changes \in 0 .. MaxChanges /\ logins \in 0 .. MaxLogins

\* When every line of the monitor has been handled the file describes the
\* hardware, however changes and detections overlapped and however often the
\* monitor died, unless a change came while nobody listened.
InfoIsCurrent ==
    detector = "idle" /\ events = 0 /\ ~lost /\ file # Missing =>
        file = Detect(hardware)

\* A login that ends without a display had Wayland forced on it and the
\* compositor crashed every time, or both its reads fell between the truncation
\* and the write (or a write that never came), or a file of the script itself could
\* not be written, or X11 was tried and could not be started.
FailureHasAReason ==
    session = "failed" =>
        \/ force = "wayland" /\ attempt = Retries
        \/ env = Nothing
        \/ unwritten
        \/ noted = "x11"

\* What the state file says of the session is what is running, also after an
\* earlier login ran something else; only a Wayland session goes on when the file
\* could not be written.
StateFileIsTrue ==
    session \in {"wayland", "x11"} => noted = session \/ (session = "wayland" /\ unwritten)

\* Every login comes to a display or to an end: no retry goes on for ever.
LoginEnds == session = "begun" ~> session \in {"wayland", "x11", "failed"}

\* The monitor's lines are all read in the end.
EventsAreHandled == events > 0 ~> events = 0

LoggingIn == session \in {"begun", "checked", "trying", "starting", "falling", "noted", "ready"}

\* tizenos-gpu-detect.sh: "GBM support: NVIDIA >= 495". Whatever follows the
\* major number of the version, the file says so.
GbmSince495 ==
    detector = "idle" /\ file \notin {Missing, Empty} =>
        (file.driver = "nvidia" /\ probed.version[1] >= 495 => file.gbm)

=============================================================================
