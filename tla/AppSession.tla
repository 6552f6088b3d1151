----------------------------- MODULE AppSession ------------------------------
(***************************************************************************)
(* The X11 session of shell/session-x11: its window manager (wm-x11.c) and *)
(* the applications of app-framework/app-core (app-main.c), which are      *)
(* clients of one X server. The server takes the requests of a client in   *)
(* their order and interleaves the clients. It and the applications'       *)
(* callbacks are external. An application has at most one window.          *)
(***************************************************************************)
EXTENDS Naturals, Sequences

CONSTANTS
    App,        \* the applications
    Early,      \* those the launcher starts before there is a window manager
    Root,       \* the root window, or PointerRoot: no application's window
    MaxMaps     \* bound of the model: how often each application asks for its window

ASSUME SessionAssumption ==
    /\ Early \subseteq App
    /\ Root \notin App
    /\ MaxMaps \in [App -> Nat]

VARIABLES
    wm,         \* "starting", "running", "refused" (an X error is on its way to it) or
                \* "ended": the X session ends with it
    app,        \* an application: "off", "creating", "looping", "leaving" or "ended"
    win,        \* its window: "none", "hidden", "shown" or "destroyed"
    wish,       \* it has asked for its window and not hidden it since
    maps,       \* how often it has asked
    events,     \* MapRequests the window manager has not read
    sent,       \* the windows whose handler has run, while the server has to take of it
    turn,       \* the next request, of the handler for the first of them
    focus,      \* the server's input focus
    active,     \* _NET_ACTIVE_WINDOW of the root window
    raced       \* a window went away while a request for it was on its way

clientVars == <<app, win, wish, maps>>
serverVars == <<focus, active>>
wmVars == <<events, sent, turn>>
vars == <<wm, clientVars, wmVars, serverVars, raced>>

\* What handle_map_request sends for its window, in its order. After the first time, the
\* name of the property comes from Xlib's cache, so a handler never waits for the server:
\* any number of them may be on their way.
Requests == {"map", "focus", "raise", "active"}
RequestAfter == [map |-> "focus", focus |-> "raise", raise |-> "active", active |-> "map"]

\* The requests the server refuses when the window is gone. Changing a property of the
\* root window to the name of any window is always accepted.
NeedsWindow == {"map", "focus", "raise"}
Pending(a) ==
    \/ \E i \in 1 .. Len(events) : events[i] = a
    \/ \E i \in 1 .. Len(sent) : sent[i] = a /\ (i > 1 \/ turn \in NeedsWindow)

Init ==
    /\ wm = "starting"
    /\ app = [a \in App |-> "off"]
    /\ win = [a \in App |-> "none"]
    /\ wish = [a \in App |-> FALSE]
    /\ maps = [a \in App |-> 0]
    /\ events = <<>> /\ sent = <<>> /\ turn = "map"
    /\ focus = Root /\ active = Root
    /\ raced = FALSE

-----------------------------------------------------------------------------
(* The window manager. *)

\* session-x11.c's main and wm_init: from XSelectInput on, the server redirects the
\* MapRequests. wm_init asks about no window that is there already.
WmInit ==
    /\ wm = "starting"
    /\ wm' = "running"
    /\ UNCHANGED <<clientVars, wmVars, serverVars, raced>>

\* Mutant of HandleMapRequest: wm_run compresses the MapRequests it has into the latest.
HandleLatest ==
    /\ wm \in {"running", "refused"}
    /\ events # <<>>
    /\ events' = <<>>
    /\ sent' = Append(sent, events[Len(events)])
    /\ UNCHANGED <<wm, turn, clientVars, serverVars, raced>>

\* wm_run reads the next event. Events of other types change nothing.
HandleMapRequest ==
    /\ wm \in {"running", "refused"}
    /\ events # <<>>
    /\ events' = Tail(events)
    /\ sent' = Append(sent, Head(events))
    /\ UNCHANGED <<wm, turn, clientVars, serverVars, raced>>

\* Mutant of Given: a window gets the focus only when no application's window has it.
GivenIfFree(a) == focus = Root

\* handle_map_request gives its window the focus whoever has it.
Given(a) == TRUE

\* External: BadWindow for a window that is gone, BadMatch for the focus to a window
\* that is not viewable.
Refused(a) ==
    \/ turn \in NeedsWindow /\ win[a] = "destroyed"
    \/ turn = "focus" /\ win[a] # "shown"

\* The server takes the next request. An error it answers with is on its way.
ServerTakes ==
    /\ wm \in {"running", "refused"}
    /\ sent # <<>>
    /\ LET a == Head(sent) IN
         /\ wm' = IF Refused(a) THEN "refused" ELSE wm
         /\ win' = IF turn = "map" /\ win[a] = "hidden"
                   THEN [win EXCEPT ![a] = "shown"]
                   ELSE win
         /\ focus' = IF turn = "focus" /\ ~Refused(a) /\ Given(a) THEN a ELSE focus
         /\ active' = IF turn = "active" THEN a ELSE active
    /\ turn' = RequestAfter[turn]
    /\ sent' = IF turn = "active" THEN Tail(sent) ELSE sent
    /\ UNCHANGED <<app, wish, maps, events, raced>>

\* Xlib reads the error, and its error handler, which wm-x11.c leaves in place, exits: main
\* never reaches wm_cleanup, and xinit stops the server. Xlib reads ahead of wm_run, so
\* events that came before the error may be lost with the process.
ErrorIsRead ==
    /\ wm = "refused"
    /\ wm' = "ended"
    /\ UNCHANGED <<clientVars, wmVars, serverVars, raced>>

-----------------------------------------------------------------------------
(* The applications. The launcher's spawn starts those of Early at once. *)

Launch(a) ==
    /\ wm = "running" \/ (wm = "starting" /\ a \in Early)
    /\ app[a] = "off"
    /\ app' = [app EXCEPT ![a] = "creating"]
    /\ UNCHANGED <<wm, win, wish, maps, wmVars, serverVars, raced>>

\* app_main, after the create callback: the loop starts, whatever create asked for.
\* (app_exit in create finds no loop yet and does nothing.)
RunLoop(a) ==
    /\ wm # "ended"
    /\ app[a] = "creating"
    /\ app' = [app EXCEPT ![a] = "looping"]
    /\ UNCHANGED <<wm, win, wish, maps, wmVars, serverVars, raced>>

\* app_exit in a callback of the loop: app_main goes on to the terminate callback.
AppExit(a) ==
    /\ wm # "ended"
    /\ app[a] = "looping"
    /\ app' = [app EXCEPT ![a] = "leaving"]
    /\ UNCHANGED <<wm, win, wish, maps, wmVars, serverVars, raced>>

\* A callback shows the window: mapped at once before wm_init, a MapRequest after. One that
\* comes after an error is not read any more.
AskForWindow(a) ==
    /\ wm # "ended"
    /\ app[a] \in {"creating", "looping"}
    /\ win[a] \in {"none", "hidden"} /\ ~wish[a]
    /\ maps[a] < MaxMaps[a]
    /\ wish' = [wish EXCEPT ![a] = TRUE]
    /\ maps' = [maps EXCEPT ![a] = @ + 1]
    /\ IF wm = "starting"
       THEN win' = [win EXCEPT ![a] = "shown"] /\ events' = events
       ELSE /\ win' = [win EXCEPT ![a] = "hidden"]
            /\ events' = IF wm = "running" THEN Append(events, a) ELSE events
    /\ UNCHANGED <<wm, app, sent, turn, serverVars, raced>>

\* External: a window that stops being viewable gives the focus back (RevertToPointerRoot).
LosesFocus(a) == focus' = IF focus = a THEN Root ELSE focus

\* A callback hides the window. The server ignores it when it has not been mapped yet.
HideWindow(a) ==
    /\ wm # "ended"
    /\ app[a] \in {"looping", "leaving"}
    /\ wish[a]
    /\ wish' = [wish EXCEPT ![a] = FALSE]
    /\ win' = [win EXCEPT ![a] = "hidden"]
    /\ LosesFocus(a)
    /\ raced' = (raced \/ Pending(a))
    /\ UNCHANGED <<wm, app, maps, wmVars, active>>

\* Mutant of AppEnds: the window of a process that crashed stays.
WindowStays(a) ==
    /\ wm # "ended"
    /\ app[a] \in {"creating", "looping", "leaving"}
    /\ app' = [app EXCEPT ![a] = "ended"]
    /\ UNCHANGED <<wm, win, wish, maps, wmVars, serverVars, raced>>

\* The process ends, after the terminate callback or by a crash, and its window with it.
AppEnds(a) ==
    /\ wm # "ended"
    /\ app[a] \in {"creating", "looping", "leaving"}
    /\ app' = [app EXCEPT ![a] = "ended"]
    /\ wish' = [wish EXCEPT ![a] = FALSE]
    /\ win' = [win EXCEPT ![a] = IF @ = "none" THEN @ ELSE "destroyed"]
    /\ LosesFocus(a)
    /\ raced' = (raced \/ Pending(a))
    /\ UNCHANGED <<wm, maps, wmVars, active>>

Next ==
    \/ WmInit \/ HandleMapRequest \/ ServerTakes \/ ErrorIsRead
    \/ \E a \in App : Launch(a) \/ RunLoop(a) \/ AppExit(a) \/ AskForWindow(a)
                      \/ HideWindow(a) \/ AppEnds(a)

\* The window manager and the server keep running; nothing is assumed of the
\* applications.
Fairness ==
    /\ WF_vars(WmInit) /\ WF_vars(HandleMapRequest) /\ WF_vars(ErrorIsRead)
    /\ WF_vars(ServerTakes)

Spec == Init /\ [][Next]_vars /\ Fairness

-----------------------------------------------------------------------------
(* Properties. *)

\* Types, and what an application that has ended leaves: no window and no wish for one.
TypeOK ==
    /\ wm \in {"starting", "running", "refused", "ended"}
    /\ app \in [App -> {"off", "creating", "looping", "leaving", "ended"}]
    /\ win \in [App -> {"none", "hidden", "shown", "destroyed"}]
    /\ wish \in [App -> BOOLEAN]
    /\ maps \in [App -> Nat] /\ \A a \in App : maps[a] <= MaxMaps[a]
    /\ \A a \in App : app[a] = "ended" => win[a] \in {"none", "destroyed"} /\ ~wish[a]
    /\ events \in Seq(App) /\ sent \in Seq(App)
    /\ turn \in Requests /\ (turn # "map" => sent # <<>>)
    /\ focus \in App \cup {Root} /\ active \in App \cup {Root}
    /\ raced \in BOOLEAN

\* Once the window manager has nothing left to do, the window the panel is told is active
\* has the keyboard, if it is on the screen at all: the handlers of handle_map_request give
\* the focus and the name in the same order, however many are on their way and however
\* windows come and go in between.
FocusIsActive ==
    (wm = "running" /\ events = <<>> /\ sent = <<>>) =>
        \A a \in App : active = a /\ win[a] = "shown" => focus = a

\* handle_map_request alone never ends the session: with the order map, focus, raise the
\* server has something to refuse only when the application takes the window away
\* between its MapRequest and the last of the three.
OnlyARaceEndsTheSession == wm \in {"refused", "ended"} => raced

\* An application that has asked for its window and goes on wanting it gets it on the
\* screen, unless the session ends: wm_run answers each MapRequest.
EveryWindowIsShown ==
    \A a \in App : wish[a] ~> win[a] = "shown" \/ ~wish[a] \/ wm = "ended"

=============================================================================
