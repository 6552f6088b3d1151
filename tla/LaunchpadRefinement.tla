------------------------- MODULE LaunchpadRefinement -------------------------
(***************************************************************************)
(* The launcher implements WorkerLifecycle: the life of a worker is read   *)
(* off its process and off whether a LaunchApp has picked it.              *)
(***************************************************************************)
EXTENDS Launchpad

LifeOf(c) ==
    CASE proc[c] = "none"                               -> "unborn"
      [] proc[c] = "waiting" /\ handed[c] = NoApp       -> "idle"
      [] proc[c] = "waiting" /\ handed[c] # NoApp       -> "given"
      [] proc[c] = "app"                                -> "running"
      [] OTHER                                          -> "over"

Lifecycle == INSTANCE WorkerLifecycle WITH
    Workers <- Channels,
    life <- [c \in Channels |-> LifeOf(c)],
    app <- handed

\* Every step of the daemon, of systemd and of the workers is a step of the
\* promised worker life: at most one path per worker and per call, that path run
\* and only if it loads, and no worker comes back.
ImplementsLifecycle == Lifecycle!Spec

=============================================================================
