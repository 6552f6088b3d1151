------------------------------- MODULE Desktop -------------------------------
(***************************************************************************)
(* What the X11 session promises its user, without requests, events and    *)
(* processes. Windows are presented one after the other, in the order in   *)
(* which their applications asked. A presentation is one moment: the       *)
(* window gets on the screen, has the keyboard and is the one named        *)
(* active. Nothing else shows a window, gives the keyboard away or changes *)
(* the name, except that a window taken away loses the keyboard. Nothing   *)
(* but a window that was taken away while it was being presented, or       *)
(* waited for it, can end the session.                                     *)
(***************************************************************************)
EXTENDS Naturals, Sequences

CONSTANTS App, Root

VARIABLES
    session,   \* "starting", "running" or "ended"
    queue,     \* the windows waiting to be presented
    shown,     \* the windows on the screen
    focus,     \* the one that has the keyboard
    front,     \* the one named active
    torn       \* a window was taken away that was still to be presented, or at the front

vars == <<session, queue, shown, focus, front, torn>>

Init ==
    /\ session = "starting" /\ queue = <<>> /\ shown = {}
    /\ focus = Root /\ front = Root /\ torn = FALSE

Manage ==
    /\ session = "starting" /\ session' = "running"
    /\ UNCHANGED <<queue, shown, focus, front, torn>>

\* Until there is a window manager a window is on the screen at once.
Ask(a) ==
    /\ a \notin shown
    /\ \/ session = "starting" /\ shown' = shown \cup {a} /\ queue' = queue
       \/ session = "running" /\ queue' = Append(queue, a) /\ shown' = shown
    /\ UNCHANGED <<session, focus, front, torn>>

Present ==
    /\ session = "running" /\ queue # <<>>
    /\ LET a == Head(queue) IN shown' = shown \cup {a} /\ focus' = a /\ front' = a
    /\ queue' = Tail(queue)
    /\ UNCHANGED <<session, torn>>

Withdraw(a) ==
    /\ session # "ended"
    /\ shown' = shown \ {a}
    /\ focus' = IF focus = a THEN Root ELSE focus
    /\ \/ torn' = torn
       \/ torn' = TRUE /\ (front = a \/ \E i \in 1 .. Len(queue) : queue[i] = a)
    /\ UNCHANGED <<session, queue, front>>

End ==
    /\ session = "running" /\ torn
    /\ session' = "ended" /\ queue' = <<>> /\ shown' = {}
    /\ focus' = Root /\ front' = Root /\ torn' = torn

Next ==
    \/ Manage \/ Present \/ End
    \/ \E a \in App : Ask(a) \/ Withdraw(a)

Spec == Init /\ [][Next]_vars

=============================================================================
