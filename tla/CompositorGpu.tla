---------------------------- MODULE CompositorGpu ----------------------------
(***************************************************************************)
(* shell/compositor/src/gpu-backend.c: what the compositor reads from      *)
(* gpu-info.env, the renderer it selects and the environment it leaves to  *)
(* wlroots, next to what tizenos-display-fallback.sh exported before it    *)
(* started the compositor. An environment is a set of <<name, value>>.     *)
(*                                                                         *)
(* compositor.c does not call this code yet: the functions are modelled,   *)
(* and compared with the script's decisions in every state of a session.   *)
(***************************************************************************)
EXTENDS DisplaySession

\* setenv(..., 1): the variables of new replace those of old.
SetEnv(old, new) == {v \in old : \A w \in new : w[1] # v[1]} \cup new

\* launch_wayland and case 1a: what the script exports. (Its case for pixman and the
\* renderers no caller names are left out: nothing comes from "auto".)
ScriptEnv(decision, info, forced) ==
    IF forced # "none" THEN {}
    ELSE {v \in {<<"WLR_RENDERER", "pixman">>} : decision.renderer = "pixman"} \cup
         IF ~info.capable \/ info.vendor # "nvidia" \/ info.driver # "nvidia" THEN {}
         ELSE {<<"GBM_BACKEND", "nvidia-drm">>, <<"__GLX_VENDOR_LIBRARY_NAME", "nvidia">>} \cup
              {v \in {<<"WLR_DRM_DEVICES", info.node>>} : info.prime /\ info.node # 0}

\* parse_vendor and the enum it fills
ParseVendor(vendor) == IF vendor \in KnownIds THEN vendor ELSE "unknown"

\* tizen_gpu_detect: the configuration, and what the call returned. A file that has
\* been truncated parses to the configuration memset left.
ReadConfig(text) ==
    LET config == IF text \in {Missing, Empty} THEN NoGpu
                  ELSE [text EXCEPT !.vendor = ParseVendor(@)]
    IN [config |-> config,
        result |-> IF text = Missing THEN "no file"
                   ELSE IF config.count = 0 /\ config.vendor = "unknown" THEN "no gpu" ELSE "ok"]

\* Mutant: the proprietary driver is tested by its vendor alone, and a GPU without
\* explicit sync gets the last renderer of the chain.
SelectWithoutSync(config) ==
    CASE config.virtual \/ ~config.capable          -> "pixman"
      [] config.vendor = "nvidia" /\ ~config.sync   -> "pixman"
      [] OTHER                                      -> "vulkan"

\* tizen_gpu_select_renderer
SelectRenderer(config) ==
    CASE config.virtual \/ ~config.capable -> "pixman"
      [] config.capable /\ ~config.virtual /\ config.vendor = "nvidia" ->
             IF config.driver = "nvidia" /\ ~config.sync THEN "gles2" ELSE "vulkan"
      [] config.capable /\ ~config.virtual /\ config.vendor \in {"amd", "intel"} -> "vulkan"
      [] OTHER -> "gles2"

\* Mutant: the acceleration of XWayland waits for explicit sync.
ApplyWithSync(config, environment) ==
    LET renderer == SelectRenderer(config)
        nvidia == config.vendor = "nvidia" /\ config.driver = "nvidia"
    IN SetEnv(environment,
         {v \in {<<"WLR_RENDERER", renderer>>} : renderer # "gles2"} \cup
         {v \in {<<"GBM_BACKEND", "nvidia-drm">>} : nvidia /\ config.gbm} \cup
         {v \in {<<"__GLX_VENDOR_LIBRARY_NAME", "nvidia">>, <<"NVIDIA_EXPLICIT_SYNC", "1">>} :
                nvidia /\ config.sync} \cup
         {v \in {<<"WLR_DRM_DEVICES", config.node>>} : config.prime /\ config.node # 0})

\* tizen_gpu_apply_env: GLES2 sets no renderer, so an inherited one stays.
ApplyEnv(config, environment) ==
    LET renderer == SelectRenderer(config)
        nvidia == config.vendor = "nvidia" /\ config.driver = "nvidia"
    IN SetEnv(environment,
         {v \in {<<"WLR_RENDERER", renderer>>} : renderer # "gles2"} \cup
         {v \in {<<"GBM_BACKEND", "nvidia-drm">>} : nvidia /\ config.gbm} \cup
         {v \in {<<"__GLX_VENDOR_LIBRARY_NAME", "nvidia">>} : nvidia /\ config.accel} \cup
         {v \in {<<"NVIDIA_EXPLICIT_SYNC", "1">>} : nvidia /\ config.sync} \cup
         {v \in {<<"WLR_DRM_DEVICES", config.node>>} : config.prime /\ config.node # 0})

-----------------------------------------------------------------------------
(* Properties, of a compositor that starts in a session nobody forced and   *)
(* reads the file the script decided from.                                  *)

Undisturbed == session = "wayland" /\ force = "none" /\ file = env

\* The two decision trees agree: the compositor would have set by itself, with the
\* same values, all that the script exported to it.
TreesAgree ==
    Undisturbed =>
        LET config == ReadConfig(file).config
        IN ApplyEnv(config, ScriptEnv(plan, env, force)) = ApplyEnv(config, {})

\* A session the script sent to Wayland is not rendered in software, unless its GPU
\* is virtual, and the compositor finds the GPU the script saw.
NoSoftwareRendering ==
    Undisturbed =>
        /\ ReadConfig(file).result = "ok"
        /\ SelectRenderer(ReadConfig(file).config) = "pixman" <=> env.virtual

=============================================================================
