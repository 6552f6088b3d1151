------------------------ MODULE DisplaySessionProofs -------------------------
(***************************************************************************)
(* Proofs about GPU detection and the graphical session, for every set of  *)
(* machines, every number of changes, logins and retries. Heard and        *)
(* Planned strengthen InfoIsCurrent, FailureHasAReason and the agreement   *)
(* of the two decision trees to an inductive invariant.                    *)
(***************************************************************************)
EXTENDS CompositorGpu, TLAPS

Typed ==
    /\ {hardware, probed} \subseteq Machines
    /\ file \in {Missing, Empty} \cup Infos
    /\ detector \in {"boot", "failed", "probed", "truncated", "idle"}
    /\ monitor \in {"off", "wanted", "on"}
    /\ lost \in BOOLEAN /\ booted \in BOOLEAN

Counted ==
    /\ events \in Nat /\ changes \in 0 .. MaxChanges /\ events <= 2 * changes
    /\ logins \in 0 .. MaxLogins /\ attempt \in 0 .. Retries

Shown ==
    /\ session \in Sessions /\ unwritten \in BOOLEAN
    /\ env \in {Nothing} \cup Infos
    /\ force \in {"none", "x11", "wayland"}
    /\ plan \in Plans
    /\ noted \in {"nothing", "wayland", "x11"}

\* Nothing is left to be heard of a change: the detection that runs, or the file, tells
\* of the hardware as it is.
Heard ==
    events = 0 /\ ~lost =>
        /\ detector \in {"probed", "truncated"} => probed = hardware
        /\ detector = "idle" /\ file # Missing => file = Detect(hardware)

\* The compositor is started only by a decision taken from a complete file.
Planned ==
    /\ plan.xorg = "never" => force = "wayland"
    /\ session \in {"trying", "starting", "wayland"} =>
         env \in Infos /\ plan = Decide(env, force) /\ plan.mode = "wayland"

\* What is to run has been noted first, or could not be.
Written ==
    /\ session \in {"noted", "ready", "x11"} => noted = "x11"
    /\ session \in {"starting", "wayland"} => noted = "wayland" \/ unwritten

DisplayInv == Typed /\ Counted /\ Shown /\ Heard /\ Planned /\ Written /\ FailureHasAReason

-----------------------------------------------------------------------------
(* What the scripts write and decide.                                      *)

LEMMA DetectFacts ==
    ASSUME NEW info \in Infos
    PROVE  /\ info.capable \in BOOLEAN /\ info.virtual \in BOOLEAN
           /\ info.capable \/ info.virtual => info.vendor \in KnownIds
           /\ info.virtual <=> info.vendor = "virtual"
           /\ info.capable /\ info.vendor = "nvidia" /\ info.driver = "nvidia"
                => info.gbm
           /\ info.capable /\ info.vendor = "nvidia" => info.accel
<1>1. PICK m \in Machines : info = Detect(m)
  BY DEF Infos
<1>2. CASE m.cards = <<>>
  <2>1. info = NoGpu
    BY <1>1, <1>2 DEF Detect
  <2>2. QED
    BY <2>1 DEF NoGpu
<1>3. CASE m.cards # <<>>
  <2>1. /\ info.vendor = Vendor(m) /\ info.driver = Driver(m)
        /\ info.virtual = (Vendor(m) = "virtual")
        /\ info.gbm = Gbm(m) /\ info.capable = Capable(m) /\ info.accel = XwaylandAccel(m)
    BY <1>1, <1>3 DEF Detect
  <2>2. Capable(m) \in BOOLEAN /\ info.virtual \in BOOLEAN
    BY <2>1 DEF Capable
  <2>3. Vendor(m) \notin KnownIds => Driver(m) = "unknown"
    BY DEF Driver, KnownIds
  <2>4. Capable(m) => Vendor(m) \in KnownIds
    BY <2>3 DEF Capable, Mesa, KnownIds
  <2>5. Capable(m) /\ Driver(m) = "nvidia" /\ Vendor(m) = "nvidia" => Gbm(m)
    BY DEF Capable, Mesa, Gbm
  <2>6. Capable(m) /\ Vendor(m) = "nvidia" => XwaylandAccel(m)
    BY DEF XwaylandAccel
  <2>7. QED
    BY <2>1, <2>2, <2>4, <2>5, <2>6 DEF KnownIds
<1>4. QED
  BY <1>2, <1>3

LEMMA DecideFacts ==
    ASSUME NEW info \in Infos, NEW f \in {"none", "x11", "wayland"}
    PROVE  /\ Decide(info, f) \in Plans
           /\ Decide(info, f).xorg = "never" => f = "wayland"
           /\ f = "none" /\ Decide(info, f).mode = "wayland" =>
                /\ info.capable \/ info.virtual
                /\ Decide(info, f).renderer = "pixman" <=> ~info.capable
<1>1. info.capable \in BOOLEAN /\ info.virtual \in BOOLEAN
  BY DetectFacts
<1>2. XorgFor(info) \in {"nvidia", "modesetting", "none"}
  BY DEF XorgFor
<1>3. CASE f = "x11"
  BY <1>3 DEF Decide, X11, Plans
<1>4. CASE f = "wayland"
  BY <1>4 DEF Decide, Wayland, Plans
<1>5. CASE f = "none" /\ info.capable
  BY <1>2, <1>5 DEF Decide, Wayland, Plans
<1>6. CASE f = "none" /\ ~info.capable /\ info.virtual
  BY <1>6 DEF Decide, Wayland, Plans
<1>7. CASE f = "none" /\ ~info.capable /\ ~info.virtual
  BY <1>7 DEF Decide, X11, Plans
<1>8. QED
  BY <1>1, <1>3, <1>4, <1>5, <1>6, <1>7

LEMMA X11Plan == X11("none") \in Plans /\ X11("none").xorg = "none" /\ X11("none").mode = "x11"
BY DEF X11, Plans

LEMMA Machine == \A m \in Machines : Detect(m) \in Infos
BY DEF Infos

LEMMA InitDisplay == Init => DisplayInv
<1> SUFFICES ASSUME Init PROVE DisplayInv
  OBVIOUS
<1>1. Typed
  BY DEF Init, Typed
<1>2. Counted
  BY DisplayAssumption DEF Init, Counted
<1>3. Shown
  BY X11Plan DEF Init, Shown, Sessions
<1>4. Heard /\ Planned /\ Written /\ FailureHasAReason
  BY X11Plan DEF Init, Heard, Planned, Written, FailureHasAReason
<1>5. QED
  BY <1>1, <1>2, <1>3, <1>4 DEF DisplayInv

\* What concerns the session only, and what concerns the detection only.
LEMMA SessionFrame ==
    ASSUME DisplayInv, UNCHANGED <<hardware, lost, changes, detectVars>>
    PROVE  Typed' /\ Heard' /\ events' \in Nat /\ changes' \in 0 .. MaxChanges
           /\ events' <= 2 * changes'
BY DEF DisplayInv, Typed, Heard, Counted, detectVars

LEMMA DetectionFrame ==
    ASSUME DisplayInv, UNCHANGED sessionVars
    PROVE  Shown' /\ Planned' /\ Written' /\ FailureHasAReason'
           /\ logins' \in 0 .. MaxLogins /\ attempt' \in 0 .. Retries
BY DEF DisplayInv, Shown, Planned, Written, FailureHasAReason, Counted, sessionVars

LEMMA DetectionStep ==
    ASSUME DisplayInv, Detection \/ MonitorDies \/ (\E m \in Machines : Hotplug(m))
    PROVE  DisplayInv'
<1> USE DisplayAssumption
<1>0. UNCHANGED sessionVars
  BY DEF Detection, BootProbe, BootFails, StartMonitor, MonitorProbe, Truncate, Fill,
         MonitorDies, Hotplug
<1>1. ASSUME NEW m \in Machines, Hotplug(m) PROVE Typed' /\ Heard' /\ Counted'
  <2>1. Typed'
    BY <1>1 DEF DisplayInv, Typed, Hotplug
  <2>2. Counted'
    BY <1>0, <1>1, DetectionFrame DEF DisplayInv, Counted, Hotplug
  <2>3. Heard'
    <3>1. events' # 0 \/ lost'
      <4>1. CASE monitor = "on"
        <5>1. events \in Nat /\ events' = events + 2
          BY <1>1, <4>1 DEF DisplayInv, Counted, Hotplug
        <5>2. QED
          BY <5>1
      <4>2. CASE monitor # "on"
        BY <1>1, <4>2 DEF Hotplug
      <4>3. QED
        BY <4>1, <4>2
    <3>2. QED
      BY <3>1 DEF Heard
  <2>4. QED
    BY <2>1, <2>2, <2>3
<1>2. CASE BootProbe \/ MonitorProbe
  <2>1. Typed'
    BY <1>2 DEF DisplayInv, Typed, BootProbe, MonitorProbe, Probe
  <2>2. Counted'
    BY <1>0, <1>2, DetectionFrame DEF DisplayInv, Counted, BootProbe, MonitorProbe
  <2>3. Heard'
    BY <1>2 DEF Heard, BootProbe, MonitorProbe, Probe
  <2>4. QED
    BY <1>0, <2>1, <2>2, <2>3, DetectionFrame DEF DisplayInv
<1>3. CASE BootFails \/ StartMonitor \/ Truncate
  BY <1>0, <1>3, DetectionFrame
     DEF DisplayInv, Typed, Heard, Counted, BootFails, StartMonitor, Truncate
<1>4. CASE Fill
  BY <1>0, <1>4, DetectionFrame, Machine DEF DisplayInv, Typed, Heard, Counted, Fill
<1>5. CASE MonitorDies
  <2>1. Typed'
    BY <1>5 DEF DisplayInv, Typed, MonitorDies
  <2>2. Counted'
    BY <1>0, <1>5, DetectionFrame DEF DisplayInv, Counted, MonitorDies
  <2>3. Heard'
    <3>1. ~lost' => events = 0 /\ ~lost /\ detector = "idle"
      <4>1. lost \in BOOLEAN /\ events \in Nat
        BY DEF DisplayInv, Typed, Counted
      <4>2. lost' = (lost \/ events > 0 \/ detector # "idle")
        BY <1>5 DEF MonitorDies
      <4>3. CASE events > 0 \/ detector # "idle" \/ lost
        <5>1. (lost \/ events > 0 \/ detector # "idle") = TRUE
          BY <4>3
        <5>2. QED
          BY <4>2, <5>1
      <4>4. QED
        BY <4>1, <4>3
    <3>2. UNCHANGED <<hardware, file>> /\ detector' = "idle"
      BY <1>5 DEF MonitorDies
    <3>3. QED
      BY <3>1, <3>2 DEF Heard, DisplayInv
  <2>4. QED
    BY <1>0, <2>1, <2>2, <2>3, DetectionFrame DEF DisplayInv
<1>6. QED
  BY <1>0, <1>1, <1>2, <1>3, <1>4, <1>5, DetectionFrame DEF Detection, DisplayInv

LEMMA SessionStep ==
    ASSUME DisplayInv, Script \/ Login \/ CompositorCrash \/ Logout
    PROVE  DisplayInv'
<1> USE DisplayAssumption
<1>0. UNCHANGED <<hardware, lost, changes, detectVars>>
  BY DEF Script, EarlyCheck, TakeDecision, TryWayland, StartCompositor, GiveUpWayland, NoteX11,
         WriteXinitrc, LaunchX11, Login, CompositorCrash, Logout
<1> DEFINE Rest == Counted /\ Shown /\ Planned /\ Written /\ FailureHasAReason
<1>1. CASE Login
  <2>1. /\ session' = "begun" /\ force' \in {"none", "x11", "wayland"} /\ env' = Nothing
        /\ attempt' = 0 /\ plan' = X11("none") /\ unwritten' = FALSE /\ noted' = noted
    BY <1>1 DEF Login
  <2>2. Counted'
    BY <1>0, <1>1, <2>1, SessionFrame DEF DisplayInv, Counted, Login
  <2>3. Shown' /\ Planned'
    BY <2>1, X11Plan DEF DisplayInv, Shown, Sessions, Planned
  <2>4. Written' /\ FailureHasAReason'
    BY <2>1 DEF Written, FailureHasAReason
  <2>5. QED
    BY <1>0, <2>2, <2>3, <2>4, SessionFrame DEF DisplayInv
<1>2. CASE EarlyCheck
  <2>1. env' \in {Nothing} \cup Infos /\ UNCHANGED <<force, attempt, noted, unwritten, logins>>
    BY <1>2 DEF EarlyCheck, Sourced, DisplayInv, Shown, Typed
  <2>2. session' \in {"falling", "checked"} /\ plan' \in {plan, X11("none")}
    BY <1>2 DEF EarlyCheck
  <2>3. QED
    BY <1>0, <2>1, <2>2, SessionFrame, X11Plan
       DEF DisplayInv, Counted, Shown, Sessions, Planned, Written, FailureHasAReason
<1>3. CASE TakeDecision
  <2>1. env' \in {Nothing} \cup Infos /\ UNCHANGED <<force, attempt, noted, unwritten, logins>>
    BY <1>3 DEF TakeDecision, Sourced, DisplayInv, Shown, Typed
  <2>2. CASE file = Missing
    BY <1>0, <1>3, <2>1, <2>2, SessionFrame, X11Plan
       DEF DisplayInv, Counted, Shown, Sessions, Planned, Written, FailureHasAReason,
           TakeDecision
  <2>3. CASE file # Missing /\ env' = Nothing
    BY <1>0, <1>3, <2>1, <2>3, SessionFrame
       DEF DisplayInv, Counted, Shown, Sessions, Planned, Written, FailureHasAReason,
           TakeDecision
  <2>4. CASE file # Missing /\ env' # Nothing
    <3>1. /\ plan' = Decide(env', force) /\ env' \in Infos
          /\ session' = IF plan'.mode = "x11" THEN "falling" ELSE "trying"
      BY <1>3, <2>1, <2>4 DEF TakeDecision
    <3>2. plan' \in Plans /\ (plan'.xorg = "never" => force = "wayland")
      BY <3>1, DecideFacts DEF DisplayInv, Shown
    <3>3. plan'.mode # "x11" => plan'.mode = "wayland"
      BY <3>2 DEF Plans
    <3>4. QED
      BY <1>0, <2>1, <3>1, <3>2, <3>3, SessionFrame
         DEF DisplayInv, Counted, Shown, Sessions, Planned, Written, FailureHasAReason
  <2>5. QED
    BY <2>2, <2>3, <2>4
<1> DEFINE Written1 == noted' \in {"nothing", "wayland", "x11"} /\ unwritten' \in BOOLEAN
<1>4. CASE TryWayland
  <2>1. /\ attempt' \in 0 .. Retries /\ UNCHANGED <<env, force, plan, logins>>
        /\ session' \in {"starting", "failed"} /\ session = "trying"
    BY <1>4 DEF TryWayland, NoteWayland, DisplayInv, Counted
  <2>2. Written1 /\ (session' = "failed" => unwritten') /\ (noted' = "wayland" \/ unwritten')
    BY <1>4 DEF TryWayland, NoteWayland, Note, NoteFails, DisplayInv, Shown
  <2>3. QED
    BY <1>0, <2>1, <2>2, SessionFrame
       DEF DisplayInv, Counted, Shown, Sessions, Planned, Written, FailureHasAReason
<1>5. CASE StartCompositor \/ GiveUpWayland \/ LaunchX11
  BY <1>0, <1>5, SessionFrame
     DEF DisplayInv, Counted, Shown, Sessions, Planned, Written, FailureHasAReason,
         StartCompositor, GiveUpWayland, LaunchX11
<1>6. CASE NoteX11 \/ WriteXinitrc
  <2>1. /\ UNCHANGED <<env, force, plan, attempt, logins>>
        /\ session' \in {"noted", "ready", "failed"} /\ session \in {"falling", "noted"}
    BY <1>6 DEF NoteX11, WriteXinitrc
  <2>2. /\ Written1
        /\ session' = "failed" => unwritten'
        /\ session' \in {"noted", "ready"} => noted' = "x11"
    BY <1>6 DEF NoteX11, WriteXinitrc, Note, NoteFails, DisplayInv, Shown, Written
  <2>3. QED
    BY <1>0, <2>1, <2>2, SessionFrame
       DEF DisplayInv, Counted, Shown, Sessions, Planned, Written, FailureHasAReason
<1>7. CASE CompositorCrash \/ Logout
  BY <1>0, <1>7, SessionFrame
     DEF DisplayInv, Counted, Shown, Sessions, Planned, Written, FailureHasAReason,
         CompositorCrash, Logout
<1>8. QED
  BY <1>1, <1>2, <1>3, <1>4, <1>5, <1>6, <1>7 DEF Script

LEMMA NextDisplay == DisplayInv /\ [Next]_vars => DisplayInv'
<1> SUFFICES ASSUME DisplayInv, [Next]_vars PROVE DisplayInv'
  OBVIOUS
<1>1. CASE Detection \/ MonitorDies \/ \E m \in Machines : Hotplug(m)
  BY <1>1, DetectionStep
<1>2. CASE Script \/ Login \/ CompositorCrash \/ Logout
  BY <1>2, SessionStep
<1>3. CASE UNCHANGED vars
  BY <1>3, SessionFrame, DetectionFrame DEF vars, DisplayInv, Counted
<1>4. QED
  BY <1>1, <1>2, <1>3 DEF Next

\* The invariant holds of every execution, however changes, detections and logins overlap.
THEOREM DisplayInvariant == Spec => []DisplayInv
<1>1. Init => DisplayInv
  BY InitDisplay
<1>2. DisplayInv /\ [Next]_vars => DisplayInv'
  BY NextDisplay
<1>3. QED
  BY <1>1, <1>2, PTL DEF Spec

\* The variables keep their types and no login exceeds MAX_COMPOSITOR_RETRIES
\* (launch_wayland).
THEOREM DisplayTypeCorrect == Spec => []TypeOK
<1>1. DisplayInv => TypeOK
  BY DisplayAssumption DEF DisplayInv, TypeOK, Typed, Counted, Shown
<1>2. QED
  BY <1>1, DisplayInvariant, PTL

\* When all the monitor's lines are handled gpu-info.env describes the hardware.
THEOREM InfoStaysCurrent == Spec => []InfoIsCurrent
<1>1. DisplayInv => InfoIsCurrent
  BY DEF DisplayInv, Heard, InfoIsCurrent
<1>2. QED
  BY <1>1, DisplayInvariant, PTL

\* A login ends without a display only for one of four reasons, of which one is a
\* state file or an xinitrc that cannot be written (set -e).
THEOREM FailuresHaveReasons == Spec => []FailureHasAReason
<1>1. DisplayInv => FailureHasAReason
  BY DEF DisplayInv
<1>2. QED
  BY <1>1, DisplayInvariant, PTL

\* The state file names the session that runs, also when its write failed in an earlier try or
\* login; only a Wayland session survives a write of its own login that failed.
THEOREM StateFileStaysTrue == Spec => []StateFileIsTrue
<1>1. DisplayInv => StateFileIsTrue
  BY DEF DisplayInv, Written, StateFileIsTrue
<1>2. QED
  BY <1>1, DisplayInvariant, PTL

-----------------------------------------------------------------------------
(* The decision trees of the script and of the compositor.                 *)

\* The file parses to what was written.
LEMMA Parsed ==
    ASSUME NEW info \in Infos, info.vendor \in KnownIds
    PROVE  ReadConfig(info) = [config |-> info, result |-> "ok"]
<1>1. [info EXCEPT !.vendor = info.vendor] = info
  <2>1. PICK m \in Machines : info = Detect(m)
    BY DEF Infos
  <2>2. CASE m.cards = <<>>
    BY <2>1, <2>2 DEF Detect, NoGpu
  <2>3. CASE m.cards # <<>>
    BY <2>1, <2>3 DEF Detect
  <2>4. QED
    BY <2>2, <2>3
<1>2. ParseVendor(info.vendor) = info.vendor /\ info.vendor # "unknown"
  BY DEF ParseVendor, KnownIds
<1>3. info \notin {Missing, Empty}
  BY DisplayAssumption
<1>4. QED
  BY <1>1, <1>2, <1>3 DEF ReadConfig

LEMMA Decided ==
    ASSUME DisplayInv, Undisturbed
    PROVE  /\ env \in Infos /\ ReadConfig(file) = [config |-> env, result |-> "ok"]
           /\ env.capable \in BOOLEAN /\ env.virtual \in BOOLEAN
           /\ env.capable \/ env.virtual
           /\ plan.renderer = "pixman" <=> ~env.capable
<1>1. env \in Infos /\ plan = Decide(env, "none") /\ plan.mode = "wayland" /\ file = env
  BY DEF DisplayInv, Planned, Undisturbed
<1>2. /\ env.capable \in BOOLEAN /\ env.virtual \in BOOLEAN
      /\ env.capable \/ env.virtual => env.vendor \in KnownIds
  BY <1>1, DetectFacts
<1>3. (env.capable \/ env.virtual) /\ (plan.renderer = "pixman" <=> ~env.capable)
  BY <1>1, DecideFacts
<1>4. QED
  BY <1>1, <1>2, <1>3, Parsed

\* A variable that is set again leaves nothing of what it was.
LEMMA Overridden ==
    ASSUME NEW old, NEW new, \A v \in old : \E w \in new : w[1] = v[1]
    PROVE  SetEnv(old, new) = SetEnv({}, new)
BY DEF SetEnv

\* The compositor sets by itself all that the script exported (launch_wayland and
\* tizen_gpu_apply_env), whatever the machine.
THEOREM BothTreesAgree == Spec => []TreesAgree
<1>1. ASSUME DisplayInv, Undisturbed
      PROVE  LET config == ReadConfig(file).config
             IN ApplyEnv(config, ScriptEnv(plan, env, force)) = ApplyEnv(config, {})
  <2>1. /\ env \in Infos /\ ReadConfig(file).config = env
        /\ env.capable \in BOOLEAN /\ env.virtual \in BOOLEAN
        /\ env.capable \/ env.virtual
        /\ plan.renderer = "pixman" <=> ~env.capable
    BY <1>1, Decided
  <2>2. PICK renderer : renderer = SelectRenderer(env)
    OBVIOUS
  <2>3. PICK nvidia \in BOOLEAN : nvidia = (env.vendor = "nvidia" /\ env.driver = "nvidia")
    OBVIOUS
  <2>4. PICK new : new =
         {v \in {<<"WLR_RENDERER", renderer>>} : renderer # "gles2"} \cup
         {v \in {<<"GBM_BACKEND", "nvidia-drm">>} : nvidia /\ env.gbm} \cup
         {v \in {<<"__GLX_VENDOR_LIBRARY_NAME", "nvidia">>} : nvidia /\ env.accel} \cup
         {v \in {<<"NVIDIA_EXPLICIT_SYNC", "1">>} : nvidia /\ env.sync} \cup
         {v \in {<<"WLR_DRM_DEVICES", env.node>>} : env.prime /\ env.node # 0}
    OBVIOUS
  <2>5. \A old : ApplyEnv(env, old) = SetEnv(old, new)
    BY <2>2, <2>3, <2>4 DEF ApplyEnv
  <2>6. ASSUME NEW v \in ScriptEnv(plan, env, force) PROVE \E w \in new : w[1] = v[1]
    <3>1. CASE v = <<"WLR_RENDERER", "pixman">> /\ plan.renderer = "pixman"
      <4>1. renderer = "pixman"
        BY <2>1, <2>2, <3>1 DEF SelectRenderer
      <4>2. <<"WLR_RENDERER", renderer>> \in new
        BY <2>4, <4>1
      <4>3. QED
        BY <3>1, <4>2
    <3>2. CASE /\ env.capable /\ env.vendor = "nvidia" /\ env.driver = "nvidia"
               /\ v \in {<<"GBM_BACKEND", "nvidia-drm">>,
                         <<"__GLX_VENDOR_LIBRARY_NAME", "nvidia">>}
      <4>1. env.gbm /\ env.accel
        BY <2>1, <3>2, DetectFacts
      <4>2. v \in new
        BY <2>3, <2>4, <3>2, <4>1
      <4>3. QED
        BY <4>2
    <3>3. CASE v = <<"WLR_DRM_DEVICES", env.node>> /\ env.prime /\ env.node # 0
      <4>1. v \in new
        BY <2>4, <3>3
      <4>2. QED
        BY <4>1
    <3>4. QED
      BY <1>1, <2>6, <3>1, <3>2, <3>3 DEF ScriptEnv, Undisturbed
  <2>7. QED
    BY <2>1, <2>5, <2>6, Overridden
<1>2. DisplayInv => TreesAgree
  BY <1>1 DEF TreesAgree
<1>3. QED
  BY <1>2, DisplayInvariant, PTL

\* A session that the script sent to Wayland is rendered in software only on a virtual
\* GPU (make_display_decision and tizen_gpu_select_renderer).
THEOREM NotInSoftware == Spec => []NoSoftwareRendering
<1>1. ASSUME DisplayInv, Undisturbed
      PROVE  /\ ReadConfig(file).result = "ok"
             /\ SelectRenderer(ReadConfig(file).config) = "pixman" <=> env.virtual
  <2>1. /\ ReadConfig(file).config = env /\ ReadConfig(file).result = "ok"
        /\ env.capable \in BOOLEAN /\ env.virtual \in BOOLEAN
        /\ env.capable \/ env.virtual
    BY <1>1, Decided
  <2>2. env.virtual => SelectRenderer(env) = "pixman"
    BY <2>1 DEF SelectRenderer
  <2>3. env.capable /\ ~env.virtual => SelectRenderer(env) # "pixman"
    BY <2>1 DEF SelectRenderer
  <2>4. QED
    BY <2>1, <2>2, <2>3
<1>2. DisplayInv => NoSoftwareRendering
  BY <1>1 DEF NoSoftwareRendering
<1>3. QED
  BY <1>2, DisplayInvariant, PTL

-----------------------------------------------------------------------------
(* Why a login ends: what a fair schedule of the script needs.             *)

\* A login that has just begun, or waits for its second look at the file, has not tried
\* the compositor; one that starts it has.
Fresh ==
    /\ session \in {"begun", "checked"} => attempt = 0
    /\ session = "starting" => attempt > 0

\* The most steps the script may still take in this login, restarts of a compositor that
\* ran and crashed included.
StepsLeft ==
    CASE session = "begun"                  -> 2 * Retries + 6
      [] session = "checked"                -> 2 * Retries + 5
      [] session = "starting"               -> 2 * (Retries - attempt) + 5
      [] session \in {"trying", "wayland"}  -> 2 * (Retries - attempt) + 4
      [] session = "falling"                -> 3
      [] session = "noted"                  -> 2
      [] session = "ready"                  -> 1
      [] OTHER                              -> 0

LEMMA StepsLeftType == ASSUME DisplayInv PROVE StepsLeft \in Nat
<1>1. Retries \in Nat /\ attempt \in 0 .. Retries
  BY DisplayAssumption DEF DisplayInv, Counted
<1>2. QED
  BY <1>1 DEF StepsLeft

\* The detection and the world do not touch the session.
LEMMA Elsewhere ==
    ASSUME Detection \/ MonitorDies \/ \E m \in Machines : Hotplug(m)
    PROVE  UNCHANGED <<session, attempt>>
BY DEF Detection, BootProbe, BootFails, StartMonitor, MonitorProbe, Truncate, Fill,
       MonitorDies, Hotplug, sessionVars

\* Every step of tizenos-display-fallback.sh brings its login nearer to its end, a crash of
\* the compositor gives none of its tries back, and only another login starts the count
\* again: launch_wayland's loop, with the crashes that send the script back into it, makes
\* no login longer than 2 * MAX_COMPOSITOR_RETRIES + 6 steps.
TakesAStep ==
    /\ Script => StepsLeft' < StepsLeft
    /\ StepsLeft' > StepsLeft => session = "out" /\ StepsLeft' = 2 * Retries + 6

LoginsAreFinite == [][TakesAStep]_vars

THEOREM EveryLoginIsFinite == Spec => LoginsAreFinite
<1> USE DisplayAssumption
<1>1. Init => Fresh
  BY DEF Init, Fresh
<1>2. DisplayInv /\ Fresh /\ [Next]_vars => Fresh'
  <2> SUFFICES ASSUME DisplayInv, Fresh, [Next]_vars PROVE Fresh'
    OBVIOUS
  <2>0. attempt \in Nat
    BY DEF DisplayInv, Counted
  <2>1. CASE UNCHANGED <<session, attempt>>
    BY <2>1 DEF Fresh
  <2>2. CASE Script \/ Login \/ CompositorCrash \/ Logout
    BY <2>0, <2>2 DEF Fresh, Script, EarlyCheck, TakeDecision, TryWayland, NoteWayland,
       StartCompositor, GiveUpWayland, NoteX11, WriteXinitrc, LaunchX11, Login, CompositorCrash,
       Logout
  <2>3. QED
    BY <2>1, <2>2, Elsewhere DEF Next, vars, sessionVars
<1>3. ASSUME DisplayInv, Fresh, [Next]_vars
      PROVE  TakesAStep
  <2> USE DEF TakesAStep
  <2>0. /\ Retries \in Nat \ {0} /\ attempt \in 0 .. Retries
        /\ StepsLeft \in Nat /\ (session = "starting" => attempt > 0)
    BY <1>3, StepsLeftType DEF DisplayInv, Counted, Fresh
  <2>1. CASE EarlyCheck
    <3>1. session = "begun" /\ session' \in {"falling", "checked"}
      BY <2>1 DEF EarlyCheck
    <3>2. QED
      BY <2>0, <3>1 DEF StepsLeft
  <2>2. CASE TakeDecision
    <3>1. /\ session = "checked" /\ attempt = 0 /\ attempt' = attempt
          /\ session' \in {"failed", "falling", "trying"}
      BY <1>3, <2>2 DEF TakeDecision, Fresh
    <3>2. QED
      BY <2>0, <3>1 DEF StepsLeft
  <2>3. CASE TryWayland
    <3>1. /\ session = "trying" /\ attempt' = attempt + 1 /\ attempt < Retries
          /\ session' \in {"starting", "failed"}
      BY <2>3 DEF TryWayland, NoteWayland
    <3>2. QED
      BY <2>0, <3>1 DEF StepsLeft
  <2>4. CASE StartCompositor \/ GiveUpWayland
    <3>1. /\ attempt' = attempt
          /\ \/ session = "starting" /\ session' \in {"wayland", "trying"}
             \/ session = "trying" /\ session' \in {"failed", "falling"}
      BY <2>4 DEF StartCompositor, GiveUpWayland
    <3>2. QED
      BY <2>0, <3>1 DEF StepsLeft
  <2>5. CASE NoteX11 \/ WriteXinitrc \/ LaunchX11
    <3>1. \/ session = "falling" /\ session' \in {"noted", "failed"}
          \/ session = "noted" /\ session' \in {"ready", "failed"}
          \/ session = "ready" /\ session' \in {"x11", "failed"}
      BY <2>5 DEF NoteX11, WriteXinitrc, LaunchX11
    <3>2. QED
      BY <2>0, <3>1 DEF StepsLeft
  <2>6. CASE Login \/ CompositorCrash \/ Logout
    <3>1. CASE Login
      <4>1. session = "out" /\ session' = "begun"
        BY <3>1 DEF Login
      <4>2. ~Script
        BY <4>1 DEF Script, EarlyCheck, TakeDecision, TryWayland, NoteWayland, StartCompositor,
           GiveUpWayland, NoteX11, WriteXinitrc, LaunchX11
      <4>3. QED
        BY <4>1, <4>2 DEF StepsLeft
    <3>2. CASE CompositorCrash \/ Logout
      <4>1. /\ session \in {"wayland", "x11", "failed"} /\ attempt' = attempt
            /\ session' = "out" \/ (session = "wayland" /\ session' = "trying")
        BY <3>2 DEF CompositorCrash, Logout
      <4>2. ~Script
        BY <4>1 DEF Script, EarlyCheck, TakeDecision, TryWayland, NoteWayland, StartCompositor,
           GiveUpWayland, NoteX11, WriteXinitrc, LaunchX11
      <4>3. StepsLeft' <= StepsLeft
        BY <2>0, <4>1 DEF StepsLeft
      <4>4. StepsLeft' \in Nat
        BY <2>0, <4>1 DEF StepsLeft
      <4>5. QED
        BY <2>0, <4>2, <4>3, <4>4
    <3>3. QED
      BY <2>6, <3>1, <3>2
  <2>7. CASE UNCHANGED <<session, attempt>>
    <3>1. StepsLeft' = StepsLeft
      BY <2>7 DEF StepsLeft
    <3>2. ~Script
      BY <2>0, <2>7 DEF Script, EarlyCheck, TakeDecision, TryWayland, NoteWayland, StartCompositor,
           GiveUpWayland, NoteX11, WriteXinitrc, LaunchX11
    <3>3. QED
      BY <2>0, <3>1, <3>2
  <2>8. QED
    BY <1>3, <2>1, <2>2, <2>3, <2>4, <2>5, <2>6, <2>7, Elsewhere DEF Next, Script, vars, sessionVars
<1>4. QED
  BY <1>1, <1>2, <1>3, DisplayInvariant, PTL DEF Spec, LoginsAreFinite

\* What weak fairness asks of the two scripts: the one can go on while a login needs it, the
\* other while there are lines. It is what their guards say, but says so with ENABLED, which is
\* outside of what is proved here.
ScriptsCanRun ==
    /\ LoggingIn => ENABLED <<Script>>_vars
    /\ events > 0 => ENABLED <<Detection>>_vars

\* What LoginEnds is proved of: the script is fair, and can go on while a login needs it.
LoginFlow ==
    /\ []DisplayInv /\ [][Next]_vars /\ LoginsAreFinite
    /\ WF_vars(Script) /\ []ScriptsCanRun

\* Three steps for each line, those left of the detection that runs, and the lines that
\* changes still to come may add.
LinesLeft ==
    7 * (MaxChanges - changes) + 3 * events
      + (CASE detector = "probed" -> 2 [] detector = "truncated" -> 1 [] OTHER -> 0)

Heeding == events > 0

\* What comes to its end: a login, and the lines the monitor has to read.
StepsOf == [login |-> StepsLeft, lines |-> LinesLeft]
GoesOn == [login |-> LoggingIn, lines |-> Heeding]

Both == INSTANCE Descent WITH rank <- StepsOf, busy <- GoesOn

LEMMA WhatGoesOn ==
    /\ GoesOn["login"] = LoggingIn /\ StepsOf["login"] = StepsLeft
    /\ GoesOn["lines"] = Heeding /\ StepsOf["lines"] = LinesLeft
BY DEF GoesOn, StepsOf

Ended == session \in {"wayland", "x11", "failed"}

\* Only a display or a failure ends a login.
LEMMA LoginLeaves ==
    ASSUME LoggingIn, [Next]_vars PROVE LoggingIn' \/ Ended'
<1>1. CASE UNCHANGED session
  BY <1>1 DEF LoggingIn
<1>2. CASE Script \/ Login \/ CompositorCrash \/ Logout
  BY <1>2 DEF LoggingIn, Ended, Script, EarlyCheck, TakeDecision, TryWayland, NoteWayland,
              StartCompositor, GiveUpWayland, NoteX11, WriteXinitrc, LaunchX11, Login,
              CompositorCrash, Logout
<1>3. QED
  BY <1>1, <1>2, Elsewhere DEF Next, vars, sessionVars

\* While it lasts the other steps leave its rank alone, or lower it.
LEMMA LoginFalls ==
    ASSUME NEW n \in Nat PROVE LoginFlow => Both!Falls("login", n)
<1>1. ASSUME DisplayInv, DisplayInv', LoggingIn, StepsLeft = n, [TakesAStep]_vars
      PROVE  (StepsLeft = n \/ StepsLeft < n)'
  <2>1. StepsLeft' \in Nat
    <3>1. Retries \in Nat /\ attempt' \in 0 .. Retries
      BY <1>1, DisplayAssumption DEF DisplayInv, Counted
    <3>2. QED
      BY <3>1 DEF StepsLeft
  <2>2. CASE TakesAStep
    BY <1>1, <2>1, <2>2 DEF TakesAStep, LoggingIn
  <2>3. CASE UNCHANGED vars
    BY <1>1, <2>3 DEF vars, sessionVars, StepsLeft
  <2>4. QED
    BY <1>1, <2>2, <2>3
<1>2. StepsLeft = n /\ [TakesAStep]_vars /\ <<Script>>_vars => (StepsLeft < n)'
  BY DEF TakesAStep
<1>3. ScriptsCanRun /\ LoggingIn => ENABLED <<Script>>_vars
  BY DEF ScriptsCanRun
<1>4. LoginFlow => [](LoggingIn /\ StepsLeft = n => <>(~LoggingIn \/ StepsLeft < n))
  BY <1>1, <1>2, <1>3, PTL DEF LoginFlow, LoginsAreFinite
<1>5. /\ GoesOn["login"] <=> LoggingIn
      /\ StepsOf["login"] = n <=> StepsLeft = n
      /\ StepsOf["login"] < n <=> StepsLeft < n
  BY WhatGoesOn
<1>6. QED
  BY <1>4, <1>5, PTL DEF Both!Falls

\* LoginEnds: whatever the file says and however often the compositor crashes, a login comes
\* to a display or to an end, as long as the script is scheduled while it can go on
\* (tizenos-display-fallback.sh).
THEOREM LoginsEnd == Spec /\ []ScriptsCanRun => LoginEnds
<1>1. Spec /\ []ScriptsCanRun => LoginFlow
  BY DisplayInvariant, EveryLoginIsFinite, PTL DEF Spec, Fairness, LoginFlow
<1>2. LoginFlow => Both!Descends("login")
  <2>1. DisplayInv => (GoesOn["login"] => StepsOf["login"] \in Nat)
    BY StepsLeftType, DisplayAssumption, WhatGoesOn
  <2>2. LoginFlow => Both!Ranked("login")
    BY <2>1, PTL DEF LoginFlow, Both!Ranked
  <2>3. QED
    BY <2>2, LoginFalls DEF Both!Descends
<1>3. LoginFlow => Both!Descending("login")
  BY <1>2, PTL DEF LoginFlow, LoginsAreFinite, Both!Descending
<1>4. LoginFlow => (LoggingIn ~> ~LoggingIn)
  <2>1. Both!Descending("login") => Both!Rests("login")
    BY Both!Descent
  <2>2. GoesOn["login"] <=> LoggingIn
    BY WhatGoesOn
  <2>3. QED
    BY <1>3, <2>1, <2>2, PTL DEF Both!Rests
<1>5. LoggingIn /\ [Next]_vars => LoggingIn' \/ Ended'
  BY LoginLeaves
<1>6. session = "begun" => LoggingIn
  BY DEF LoggingIn
<1>7. LoginFlow => (session = "begun" ~> Ended)
  BY <1>4, <1>5, <1>6, PTL DEF LoginFlow
<1>8. QED
  BY <1>1, <1>7 DEF LoginEnds, Ended

-----------------------------------------------------------------------------
(* Why the monitor's lines are read: while a detection runs another change *)
(* may add two.                                                            *)

\* Lines are there only while the monitor is, and it is started only after the boot
\* detection.
Listening ==
    /\ events > 0 => monitor = "on"
    /\ monitor = "on" => detector \in {"idle", "probed", "truncated"}

LEMMA AlwaysListening == Spec => []Listening
<1>1. Init => Listening
  BY DEF Init, Listening
<1>2. ASSUME DisplayInv, Listening, [Next]_vars PROVE Listening'
  <2>0. events \in Nat
    BY <1>2 DEF DisplayInv, Counted
  <2>1. CASE Detection
    BY <1>2, <2>0, <2>1 DEF Listening, Detection, BootProbe, BootFails, StartMonitor,
       MonitorProbe, Truncate, Fill, Probe
  <2>2. CASE MonitorDies \/ \E m \in Machines : Hotplug(m)
    BY <1>2, <2>0, <2>2 DEF Listening, MonitorDies, Hotplug
  <2>3. CASE UNCHANGED detectVars
    BY <1>2, <2>3 DEF Listening, detectVars
  <2>4. QED
    BY <1>2, <2>1, <2>2, <2>3 DEF Next, Script, EarlyCheck, TakeDecision, TryWayland,
       StartCompositor, GiveUpWayland, NoteX11, WriteXinitrc, LaunchX11, Login,
       CompositorCrash, Logout, vars
<1>3. QED
  BY <1>1, <1>2, DisplayInvariant, PTL DEF Spec

ReadsOn ==
    /\ Detection => LinesLeft' < LinesLeft
    /\ LinesLeft' <= LinesLeft \/ ~Heeding'

\* While there are lines, the detection lowers what is left, a change pays for the lines it
\* adds, and the monitor's death takes them all.
LEMMA LinesSteps ==
    ASSUME DisplayInv, Listening, Heeding, [Next]_vars PROVE ReadsOn
<1>0. /\ MaxChanges \in Nat /\ changes \in Nat /\ events \in Nat /\ events > 0
      /\ changes <= MaxChanges /\ monitor = "on"
      /\ detector \in {"idle", "probed", "truncated"}
  BY DisplayAssumption DEF DisplayInv, Counted, Listening, Heeding
<1>1. CASE Detection
  <2>1. /\ changes' = changes
        /\ \/ detector = "idle" /\ detector' = "probed" /\ events' = events - 1
           \/ detector = "probed" /\ detector' = "truncated" /\ events' = events
           \/ detector = "truncated" /\ detector' = "idle" /\ events' = events
    BY <1>0, <1>1 DEF Detection, BootProbe, BootFails, StartMonitor, MonitorProbe, Truncate,
       Fill, Probe
  <2>2. QED
    BY <1>0, <2>1 DEF LinesLeft, ReadsOn
<1>2. CASE \E m \in Machines : Hotplug(m)
  <2>1. changes' = changes + 1 /\ events' = events + 2 /\ detector' = detector
    BY <1>0, <1>2 DEF Hotplug
  <2>2. ~Detection
    BY <2>1 DEF Detection, BootProbe, BootFails, StartMonitor, MonitorProbe, Truncate, Fill
  <2>3. QED
    BY <1>0, <2>1, <2>2 DEF LinesLeft, ReadsOn
<1>3. CASE MonitorDies
  <2>1. events' = 0 /\ changes' = changes /\ detector' = "idle"
    BY <1>3 DEF MonitorDies
  <2>2. QED
    BY <1>0, <2>1 DEF LinesLeft, ReadsOn, Heeding
<1>4. CASE UNCHANGED <<changes, detectVars>>
  <2>1. ~Detection
    BY <1>0, <1>4 DEF Detection, BootProbe, BootFails, StartMonitor, MonitorProbe, Truncate,
       Fill, Probe, detectVars
  <2>2. QED
    BY <1>4, <2>1, <1>0 DEF LinesLeft, ReadsOn, detectVars
<1>5. QED
  BY <1>1, <1>2, <1>3, <1>4 DEF Next, Script, EarlyCheck, TakeDecision, TryWayland,
     StartCompositor, GiveUpWayland, NoteX11, WriteXinitrc, LaunchX11, Login,
     CompositorCrash, Logout, vars

MonitorFlow ==
    /\ []DisplayInv /\ []Listening /\ [][Next]_vars
    /\ WF_vars(Detection) /\ []ScriptsCanRun

LEMMA LinesNumber == DisplayInv => LinesLeft \in Nat
<1>1. DisplayInv => /\ MaxChanges \in Nat /\ changes \in Nat /\ events \in Nat
                    /\ changes <= MaxChanges
  BY DisplayAssumption DEF DisplayInv, Counted
<1>2. QED
  BY <1>1 DEF LinesLeft

LEMMA LinesFall ==
    ASSUME NEW n \in Nat PROVE MonitorFlow => Both!Falls("lines", n)
<1>1. /\ DisplayInv /\ DisplayInv' /\ Listening /\ Heeding /\ LinesLeft = n /\ [Next]_vars
         => (Heeding /\ LinesLeft = n)' \/ (~Heeding)' \/ (LinesLeft < n)'
      /\ DisplayInv /\ Listening /\ Heeding /\ LinesLeft = n /\ <<Detection>>_vars /\ [Next]_vars
         => (LinesLeft < n)'
  <2>1. (DisplayInv => LinesLeft \in Nat)'
    BY LinesNumber, PTL
  <2>2. QED
    BY <2>1, LinesSteps DEF ReadsOn
<1>2. ScriptsCanRun /\ Heeding => ENABLED <<Detection>>_vars
  BY DEF ScriptsCanRun, Heeding
<1>3. MonitorFlow => [](Heeding /\ LinesLeft = n => <>(~Heeding \/ LinesLeft < n))
  BY <1>1, <1>2, PTL DEF MonitorFlow
<1>4. /\ GoesOn["lines"] <=> Heeding
      /\ StepsOf["lines"] = n <=> LinesLeft = n
      /\ StepsOf["lines"] < n <=> LinesLeft < n
  BY WhatGoesOn
<1>5. QED
  BY <1>3, <1>4, PTL DEF Both!Falls

\* EventsAreHandled: the loop of tizenos-gpu-monitor.service comes to the end of its lines,
\* whatever arrives while it sleeps or runs the script, or dies with them.
THEOREM LinesAreHandled == Spec /\ []ScriptsCanRun => EventsAreHandled
<1>1. Spec /\ []ScriptsCanRun => MonitorFlow
  BY DisplayInvariant, AlwaysListening, PTL DEF Spec, Fairness, MonitorFlow
<1>2. MonitorFlow => Both!Descends("lines")
  <2>1. DisplayInv => (GoesOn["lines"] => StepsOf["lines"] \in Nat)
    BY LinesNumber, WhatGoesOn
  <2>2. MonitorFlow => Both!Ranked("lines")
    BY <2>1, PTL DEF MonitorFlow, Both!Ranked
  <2>3. QED
    BY <2>2, LinesFall DEF Both!Descends
<1>3. MonitorFlow => Both!Descending("lines")
  BY <1>2, PTL DEF MonitorFlow, Both!Descending
<1>4. MonitorFlow => (Heeding ~> ~Heeding)
  <2>1. Both!Descending("lines") => Both!Rests("lines")
    BY Both!Descent
  <2>2. GoesOn["lines"] <=> Heeding
    BY WhatGoesOn
  <2>3. QED
    BY <1>3, <2>1, <2>2, PTL DEF Both!Rests
<1>5. DisplayInv => (~Heeding => events = 0)
  BY DEF DisplayInv, Counted, Heeding
<1>6. events > 0 => Heeding
  BY DEF Heeding
<1>7. MonitorFlow => (events > 0 ~> events = 0)
  BY <1>4, <1>5, <1>6, PTL DEF MonitorFlow
<1>8. QED
  BY <1>1, <1>7 DEF EventsAreHandled

=============================================================================
