--------------------------- MODULE WorkerLifecycle ---------------------------
(***************************************************************************)
(* What the pre-fork pool promises of its workers, without slots, sockets  *)
(* or descriptors (the description at the top of launchpad-loader.c): a    *)
(* worker is forked idle, is given at most one application path in its     *)
(* life, runs that one if it loads, and leaves. Only one worker is given a *)
(* path per call. Several workers may move in one step: a call also forks, *)
(* and a service stop ends them all. A path given to a worker that is      *)
(* already gone is lost.                                                   *)
(***************************************************************************)
CONSTANTS Workers, Apps, Loadable, NoApp

VARIABLES
    life,   \* life[w]: "unborn", "idle", "given", "running" or "over"
    app,    \* app[w]: the path w was given
    ran     \* ran[w]: the path whose app_main w called

Init ==
    /\ life = [w \in Workers |-> "unborn"]
    /\ app = [w \in Workers |-> NoApp] /\ ran = app

Keeps(w) == app'[w] = app[w] /\ ran'[w] = ran[w]

Fork(w) == life[w] = "unborn" /\ life'[w] = "idle" /\ Keeps(w)

Give(w) ==
    /\ app[w] = NoApp
    /\ app'[w] \in Apps /\ ran'[w] = ran[w]
    /\ \/ life[w] = "idle" /\ life'[w] = "given"
       \/ life[w] = "over" /\ life'[w] = "over"

Run(w) ==
    /\ life[w] = "given" /\ life'[w] = "running"
    /\ app[w] \in Loadable
    /\ app'[w] = app[w] /\ ran'[w] = app[w]

Leave(w) ==
    /\ life[w] \in {"idle", "given", "running"} /\ life'[w] = "over"
    /\ Keeps(w)

Stay(w) == life'[w] = life[w] /\ Keeps(w)

Next ==
    /\ \A w \in Workers : Fork(w) \/ Give(w) \/ Run(w) \/ Leave(w) \/ Stay(w)
    /\ \A v, w \in Workers : Give(v) /\ Give(w) => v = w

Spec == Init /\ [][Next]_<<life, app, ran>>

=============================================================================
