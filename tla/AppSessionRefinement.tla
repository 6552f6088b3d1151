------------------------ MODULE AppSessionRefinement -------------------------
(***************************************************************************)
(* The X11 session implements Desktop. A window is presented when the      *)
(* server takes the map request of its handler: the focus and the name     *)
(* are from then on what the requests still on their way will make them.   *)
(***************************************************************************)
EXTENDS AppSession

\* For the user the session is over once the server has refused a request.
Over == wm \in {"refused", "ended"}

Asked == (IF turn = "map" THEN sent ELSE Tail(sent)) \o events

OnScreen == {a \in App : win[a] = "shown"}

\* The next request gives the focus.
Keyboard ==
    CASE turn # "focus"                                      -> focus
      [] turn = "focus" /\ Head(sent) \in OnScreen           -> Head(sent)
      [] turn = "focus" /\ Head(sent) \notin OnScreen        -> Root

Front == IF turn = "map" THEN active ELSE Head(sent)

UserSees == INSTANCE Desktop WITH
    session <- IF Over THEN "ended" ELSE wm,
    queue <- IF Over THEN <<>> ELSE Asked,
    shown <- IF Over THEN {} ELSE OnScreen,
    focus <- IF Over THEN Root ELSE Keyboard,
    front <- IF Over THEN Root ELSE Front,
    torn <- raced

\* However many handlers are on their way and whatever the server takes of the applications'
\* requests in between, the four requests of each handler amount to one presentation, in
\* the order in which the windows were asked for, and only a window that is taken away
\* meanwhile ends the session.
ImplementsDesktop == UserSees!Spec

=============================================================================
