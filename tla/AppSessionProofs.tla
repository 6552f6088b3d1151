-------------------------- MODULE AppSessionProofs ---------------------------
(***************************************************************************)
(* Proofs about the X11 session, for every set of applications and every   *)
(* bound. SessionInv says of the handlers on their way that their windows  *)
(* are there unless there was a race, and that the focus and the name are  *)
(* the same window's between two handlers.                                 *)
(***************************************************************************)
EXTENDS AppSessionRefinement, SequenceTheorems, WellFoundedInduction, TLAPS

\* The window has neither been destroyed nor never been there.
Here(a) == win[a] \in {"hidden", "shown"}

\* If the window is on the screen it has the focus.
Agree(a) == a \in App /\ win[a] = "shown" => focus = a

\* A window that a MapRequest or a handler is about.
OnTheWay(a) ==
    \/ \E i \in 1 .. Len(events) : events[i] = a
    \/ \E i \in 1 .. Len(sent) : sent[i] = a

Beginning == wm = "starting" => events = <<>> /\ sent = <<>> /\ active = Root
Made == \A a \in App : OnTheWay(a) => win[a] # "none"
Awaited == raced \/ \A a \in App : Pending(a) => Here(a)

\* Before the focus is given nothing is said of the window that is about to get it but
\* that it is on the screen; from then on it agrees.
Handing ==
    /\ turn = "map" => Agree(active)
    /\ turn = "focus" => raced \/ win[Head(sent)] = "shown"
    /\ turn \in {"raise", "active"} => Agree(Head(sent))

SessionInv ==
    /\ TypeOK
    /\ Beginning
    /\ Made
    /\ Awaited
    /\ IF Over THEN raced ELSE Handing

-----------------------------------------------------------------------------

LEMMA InitSession == Init => SessionInv
<1> SUFFICES ASSUME Init PROVE SessionInv
  OBVIOUS
<1> USE SessionAssumption
<1>1. TypeOK
  <2>1. /\ wm \in {"starting", "running", "refused", "ended"} /\ raced \in BOOLEAN
        /\ app \in [App -> {"off", "creating", "looping", "leaving", "ended"}]
        /\ win \in [App -> {"none", "hidden", "shown", "destroyed"}]
        /\ wish \in [App -> BOOLEAN]
        /\ \A a \in App : app[a] # "ended"
    BY DEF Init
  <2>2. maps \in [App -> Nat] /\ \A a \in App : maps[a] <= MaxMaps[a]
    BY DEF Init
  <2>3. /\ events \in Seq(App) /\ sent \in Seq(App)
        /\ turn \in Requests /\ (turn # "map" => sent # <<>>)
    BY DEF Init, Requests
  <2>4. focus \in App \cup {Root} /\ active \in App \cup {Root}
    BY DEF Init
  <2>5. QED
    BY <2>1, <2>2, <2>3, <2>4 DEF TypeOK
<1>2. /\ Beginning /\ Made /\ Awaited /\ ~Over /\ Handing
  BY DEF Init, Beginning, Made, OnTheWay, Awaited, Pending, Over, Handing, Agree
<1>3. QED
  BY <1>1, <1>2 DEF SessionInv

\* What is read of the events and appended to what was sent.
LEMMA ReadOne ==
    ASSUME SessionInv, HandleMapRequest
    PROVE  /\ events' \in Seq(App) /\ sent' \in Seq(App) /\ sent' # <<>>
           /\ \A a \in App : /\ OnTheWay(a)' => OnTheWay(a)
                             /\ Pending(a)' => Pending(a)
           /\ turn # "map" => Head(sent') = Head(sent)
<1>1. /\ events \in Seq(App) /\ events # <<>> /\ sent \in Seq(App) /\ turn' = turn
      /\ events' = Tail(events) /\ sent' = Append(sent, Head(events))
      /\ turn # "map" => sent # <<>>
  BY DEF HandleMapRequest, SessionInv, TypeOK
<1>2. /\ Head(events) \in App /\ Head(events) = events[1] /\ 1 \in 1 .. Len(events)
      /\ events' \in Seq(App) /\ Len(events) \in Nat /\ Len(events') = Len(events) - 1
      /\ \A i \in 1 .. Len(events') : events'[i] = events[i + 1]
  BY <1>1, HeadTailProperties, EmptySeq, LenProperties
<1>3. /\ sent' \in Seq(App) /\ sent' # <<>> /\ Len(sent) \in Nat
      /\ Len(sent') = Len(sent) + 1
      /\ \A i \in 1 .. Len(sent) : sent'[i] = sent[i]
      /\ sent'[Len(sent) + 1] = events[1]
  BY <1>1, <1>2, AppendProperties, LenProperties
<1>4. turn # "map" => Head(sent') = Head(sent)
  BY <1>1, <1>2, HeadTailAppend
<1>5. \A i \in 1 .. Len(events') : i + 1 \in 1 .. Len(events)
  BY <1>2
<1>6. \A i \in 1 .. Len(sent') : i \in 1 .. Len(sent) \/ sent'[i] = events[1]
  BY <1>3
<1>7. ASSUME NEW a \in App PROVE OnTheWay(a)' => OnTheWay(a)
  BY <1>2, <1>3, <1>5, <1>6 DEF OnTheWay
<1>8. ASSUME NEW a \in App PROVE Pending(a)' => Pending(a)
  BY <1>1, <1>2, <1>3, <1>5, <1>6 DEF Pending
<1>9. QED
  BY <1>2, <1>3, <1>4, <1>7, <1>8

LEMMA HandleKeeps ==
    ASSUME SessionInv, HandleMapRequest
    PROVE  SessionInv'
<1> USE SessionAssumption
<1>1. /\ wm \in {"running", "refused"} /\ wm' = wm /\ turn' = turn /\ win' = win
      /\ focus' = focus /\ active' = active /\ raced' = raced
      /\ app' = app /\ wish' = wish /\ maps' = maps
  BY DEF HandleMapRequest, clientVars, serverVars
<1>2. TypeOK'
  BY <1>1, ReadOne DEF SessionInv, TypeOK
<1>3. Made' /\ Awaited' /\ Beginning'
  BY <1>1, ReadOne DEF SessionInv, Made, Awaited, Here, Beginning
<1>4. IF Over' THEN raced' ELSE Handing'
  <2>1. Handing => Handing'
    BY <1>1, ReadOne DEF Handing, Agree
  <2>2. QED
    BY <1>1, <2>1 DEF SessionInv, Over
<1>5. QED
  BY <1>2, <1>3, <1>4 DEF SessionInv

\* The handler whose requests the server takes next.
LEMMA TakeOne ==
    ASSUME SessionInv, ServerTakes
    PROVE  /\ Head(sent) \in App /\ OnTheWay(Head(sent)) /\ sent' \in Seq(App)
           /\ turn # "active" => sent' = sent
           /\ turn \in NeedsWindow => Pending(Head(sent))
           /\ \A a \in App : /\ OnTheWay(a)' => OnTheWay(a)
                             /\ Pending(a)' => Pending(a)
<1>1. /\ sent \in Seq(App) /\ sent # <<>> /\ events' = events /\ turn \in Requests
      /\ turn' = RequestAfter[turn]
      /\ sent' = IF turn = "active" THEN Tail(sent) ELSE sent
  BY DEF ServerTakes, SessionInv, TypeOK
<1>2. /\ Head(sent) \in App /\ Head(sent) = sent[1] /\ 1 \in 1 .. Len(sent)
      /\ Len(sent) \in Nat /\ Tail(sent) \in Seq(App) /\ Len(Tail(sent)) = Len(sent) - 1
      /\ \A i \in 1 .. Len(Tail(sent)) : Tail(sent)[i] = sent[i + 1]
  BY <1>1, HeadTailProperties, EmptySeq, LenProperties
<1>3. OnTheWay(Head(sent)) /\ (turn \in NeedsWindow => Pending(Head(sent)))
  BY <1>2 DEF OnTheWay, Pending
<1>4. CASE turn = "active"
  <2>1. sent' = Tail(sent) /\ turn' = "map"
    BY <1>1, <1>4 DEF RequestAfter
  <2>2. \A i \in 1 .. Len(sent') : i + 1 \in 1 .. Len(sent) /\ i + 1 > 1
    BY <1>2, <2>1
  <2>3. ASSUME NEW a \in App PROVE OnTheWay(a)' => OnTheWay(a)
    BY <1>1, <1>2, <2>1, <2>2 DEF OnTheWay
  <2>4. ASSUME NEW a \in App PROVE Pending(a)' => Pending(a)
    BY <1>1, <1>2, <2>1, <2>2 DEF Pending
  <2>5. QED
    BY <1>2, <1>3, <1>4, <2>1, <2>3, <2>4
<1>5. CASE turn # "active"
  <2>1. sent' = sent /\ turn \in NeedsWindow
    BY <1>1, <1>5 DEF Requests, NeedsWindow
  <2>2. QED
    BY <1>1, <1>2, <1>3, <1>5, <2>1 DEF OnTheWay, Pending
<1>6. QED
  BY <1>4, <1>5

LEMMA ServeKeeps ==
    ASSUME SessionInv, ServerTakes
    PROVE  SessionInv'
<1> USE SessionAssumption
<1>1. PICK a \in App :
      /\ a = Head(sent) /\ sent # <<>> /\ OnTheWay(a)
      /\ turn \in NeedsWindow => Pending(a)
      /\ wm \in {"running", "refused"}
      /\ app' = app /\ wish' = wish /\ maps' = maps /\ events' = events /\ raced' = raced
      /\ wm' = IF Refused(a) THEN "refused" ELSE wm
      /\ win' = IF turn = "map" /\ win[a] = "hidden"
                THEN [win EXCEPT ![a] = "shown"] ELSE win
      /\ focus' = IF turn = "focus" /\ ~Refused(a) THEN a ELSE focus
      /\ active' = IF turn = "active" THEN a ELSE active
      /\ turn' = RequestAfter[turn]
  BY TakeOne DEF ServerTakes, Given
<1>2. /\ win \in [App -> {"none", "hidden", "shown", "destroyed"}] /\ turn \in Requests
      /\ focus \in App \cup {Root} /\ active \in App \cup {Root} /\ win[a] # "none"
  BY <1>1 DEF SessionInv, TypeOK, Made
<1>3. TypeOK'
  <2>1. win' \in [App -> {"none", "hidden", "shown", "destroyed"}]
    BY <1>1, <1>2
  <2>2. focus' \in App \cup {Root} /\ active' \in App \cup {Root}
    BY <1>1, <1>2
  <2>3. turn' \in Requests /\ sent' \in Seq(App) /\ (turn' # "map" => sent' # <<>>)
    BY <1>1, <1>2, TakeOne DEF Requests, RequestAfter
  <2>4. \A b \in App : app[b] = "ended" => win'[b] \in {"none", "destroyed"}
    BY <1>1, <1>2 DEF SessionInv, TypeOK
  <2>5. wm' \in {"starting", "running", "refused", "ended"}
    BY <1>1
  <2>6. QED
    BY <1>1, <2>1, <2>2, <2>3, <2>4, <2>5 DEF SessionInv, TypeOK
<1>4. \A b \in App : /\ Here(b) => Here(b)'
                     /\ win[b] # "none" => win'[b] # "none"
  BY <1>1, <1>2 DEF Here
<1>5. Made' /\ Awaited' /\ Beginning'
  BY <1>1, <1>4, TakeOne DEF SessionInv, Made, Awaited, Beginning
<1>6. CASE Over
  <2>1. wm = "refused" /\ wm' = "refused" /\ raced
    BY <1>1, <1>6 DEF Over, SessionInv
  <2>2. QED
    BY <1>1, <1>3, <1>5, <2>1 DEF SessionInv, Over
<1>7. CASE ~Over
  <2>1. Handing /\ (raced \/ (turn \in NeedsWindow => Here(a)))
    BY <1>1, <1>7 DEF SessionInv, Awaited
  <2>2. Refused(a) => raced
    BY <1>1, <2>1 DEF Refused, Handing, Here
  <2>3. ~Refused(a) => Handing'
    <3>1. CASE turn = "map"
      <4>1. turn' = "focus" /\ (raced \/ win'[a] = "shown") /\ Head(sent') = a
        BY <1>1, <1>2, <2>1, <3>1, TakeOne DEF RequestAfter, NeedsWindow, Here
      <4>2. QED
        BY <1>1, <4>1 DEF Handing
    <3>2. CASE turn = "focus"
      <4>1. turn' = "raise" /\ Head(sent') = a /\ (~Refused(a) => focus' = a)
        BY <1>1, <3>2, TakeOne DEF RequestAfter
      <4>2. QED
        BY <4>1 DEF Handing, Agree
    <3>3. CASE turn = "raise"
      <4>1. turn' = "active" /\ Head(sent') = a /\ focus' = focus /\ win' = win
        BY <1>1, <3>3, TakeOne DEF RequestAfter
      <4>2. QED
        BY <1>1, <2>1, <3>3, <4>1 DEF Handing, Agree
    <3>4. CASE turn = "active"
      <4>1. turn' = "map" /\ active' = a /\ focus' = focus /\ win' = win
        BY <1>1, <3>4 DEF RequestAfter
      <4>2. QED
        BY <1>1, <2>1, <3>4, <4>1 DEF Handing, Agree
    <3>5. QED
      BY <1>2, <3>1, <3>2, <3>3, <3>4 DEF Requests
  <2>4. wm' = IF Refused(a) THEN "refused" ELSE "running"
    BY <1>1, <1>7 DEF Over
  <2>5. IF Over' THEN raced' ELSE Handing'
    BY <1>1, <2>2, <2>3, <2>4 DEF Over
  <2>6. QED
    BY <1>3, <1>5, <2>5 DEF SessionInv
<1>8. QED
  BY <1>6, <1>7

-----------------------------------------------------------------------------
(* The applications. What is on its way does not change. *)

\* A step of an application that changes at most its own window, of which nothing is on
\* its way unless it is a race, and that takes the focus from no other.
LEMMA HandingGoesOn ==
    ASSUME SessionInv, NEW a \in App,
           wm' = wm, sent' = sent, turn' = turn, active' = active,
           raced => raced',
           \A b \in App \ {a} : win'[b] = win[b] /\ (focus = b => focus' = b),
           wm = "starting" \/ win'[a] # "shown" \/ (win'[a] = win[a] /\ focus' = focus),
           raced' \/ ~Pending(a) \/ win'[a] = win[a] \/ win[a] # "shown"
    PROVE  IF Over' THEN raced' ELSE Handing'
<1> USE SessionAssumption
<1>1. CASE Over
  BY <1>1 DEF Over, SessionInv
<1>2. CASE ~Over
  <2>1. ~Over' /\ Handing /\ turn \in Requests
    BY <1>2 DEF Over, SessionInv, TypeOK
  <2>2. wm = "starting" => sent = <<>> /\ active = Root /\ turn = "map"
    BY DEF SessionInv, Beginning, TypeOK
  <2>3. ASSUME wm # "starting", NEW b, Agree(b) PROVE Agree(b)'
    BY <2>3 DEF Agree
  <2>4. ASSUME turn = "focus" PROVE raced' \/ win'[Head(sent)] = "shown"
    <3>1. sent # <<>> /\ sent \in Seq(App)
      BY <2>4 DEF SessionInv, TypeOK
    <3>2. Head(sent) = sent[1] /\ 1 \in 1 .. Len(sent) /\ Head(sent) \in App
      BY <3>1, HeadTailProperties, EmptySeq
    <3>3. Pending(Head(sent))
      BY <2>4, <3>2 DEF Pending, NeedsWindow
    <3>4. raced \/ win[Head(sent)] = "shown"
      BY <2>1, <2>4 DEF Handing
    <3>5. QED
      BY <3>2, <3>3, <3>4
  <2>5. CASE wm = "starting"
    BY <2>1, <2>2, <2>5 DEF Handing, Agree
  <2>6. CASE wm # "starting"
    <3>1. turn = "map" => Agree(active)'
      BY <2>1, <2>3, <2>6 DEF Handing, Agree
    <3>2. turn \in {"raise", "active"} => Agree(Head(sent))'
      BY <2>1, <2>3, <2>6 DEF Handing, Agree
    <3>3. QED
      BY <2>1, <2>4, <3>1, <3>2 DEF Handing
  <2>7. QED
    BY <2>5, <2>6
<1>3. QED
  BY <1>1, <1>2

LEMMA AskKeeps ==
    ASSUME SessionInv, NEW a \in App, AskForWindow(a)
    PROVE  SessionInv'
<1> USE SessionAssumption
<1>1. /\ wm # "ended" /\ wm' = wm /\ app' = app /\ sent' = sent /\ turn' = turn
      /\ focus' = focus /\ active' = active /\ raced' = raced
      /\ win[a] \in {"none", "hidden"} /\ app[a] \in {"creating", "looping"}
      /\ win' = [win EXCEPT ![a] = IF wm = "starting" THEN "shown" ELSE "hidden"]
      /\ events' = events \/ (wm = "running" /\ events' = Append(events, a))
      /\ wish' = [wish EXCEPT ![a] = TRUE] /\ maps' = [maps EXCEPT ![a] = @ + 1]
      /\ maps[a] < MaxMaps[a]
  BY DEF AskForWindow, serverVars
<1>2. /\ win \in [App -> {"none", "hidden", "shown", "destroyed"}]
      /\ events \in Seq(App) /\ sent \in Seq(App)
  BY DEF SessionInv, TypeOK
<1>3. /\ events' \in Seq(App)
      /\ \A i \in 1 .. Len(events') :
            events'[i] = a \/ (i \in 1 .. Len(events) /\ events'[i] = events[i])
  <2>1. CASE events' = events
    BY <1>2, <2>1
  <2>2. CASE events' = Append(events, a)
    BY <1>2, <2>2, AppendProperties, LenProperties
  <2>3. QED
    BY <1>1, <2>1, <2>2
<1>4. TypeOK'
  <2>1. win' \in [App -> {"none", "hidden", "shown", "destroyed"}]
    BY <1>1, <1>2
  <2>2. /\ wish' \in [App -> BOOLEAN]
        /\ maps' \in [App -> Nat] /\ \A b \in App : maps'[b] <= MaxMaps[b]
    BY <1>1 DEF SessionInv, TypeOK
  <2>3. \A b \in App : app'[b] = "ended" => win'[b] \in {"none", "destroyed"} /\ ~wish'[b]
    BY <1>1 DEF SessionInv, TypeOK
  <2>4. QED
    BY <1>1, <1>3, <2>1, <2>2, <2>3 DEF SessionInv, TypeOK
<1>5. /\ \A b \in App : Here(b) => Here(b)'
      /\ Here(a)' /\ \A b \in App : win[b] # "none" => win'[b] # "none"
  BY <1>1, <1>2 DEF Here
<1>6. \A b \in App \ {a} : /\ OnTheWay(b)' => OnTheWay(b)
                           /\ Pending(b)' => Pending(b)
  BY <1>1, <1>3 DEF OnTheWay, Pending
<1>7. Made' /\ Awaited'
  BY <1>1, <1>5, <1>6 DEF SessionInv, Made, Awaited, Here
<1>8. Beginning'
  BY <1>1 DEF SessionInv, Beginning
<1>9. IF Over' THEN raced' ELSE Handing'
  BY <1>1, <1>2, HandingGoesOn
<1>10. QED
  BY <1>4, <1>7, <1>8, <1>9 DEF SessionInv

LEMMA WithdrawalKeeps ==
    ASSUME SessionInv, NEW a \in App, HideWindow(a) \/ AppEnds(a)
    PROVE  SessionInv'
<1> USE SessionAssumption
<1>1. /\ wm # "ended" /\ wm' = wm /\ maps' = maps /\ events' = events /\ sent' = sent
      /\ turn' = turn /\ active' = active /\ raced' = (raced \/ Pending(a))
      /\ LosesFocus(a)
  BY DEF HideWindow, AppEnds, wmVars
<1>2. /\ win' \in [App -> {"none", "hidden", "shown", "destroyed"}]
      /\ win'[a] # "shown" /\ (win[a] # "none" => win'[a] # "none")
      /\ \A b \in App \ {a} : win'[b] = win[b]
      /\ wish' \in [App -> BOOLEAN]
      /\ app' \in [App -> {"off", "creating", "looping", "leaving", "ended"}]
  BY DEF HideWindow, AppEnds, SessionInv, TypeOK
<1>3. \A b \in App : app'[b] = "ended" => win'[b] \in {"none", "destroyed"} /\ ~wish'[b]
  <2>1. CASE HideWindow(a)
    BY <2>1 DEF HideWindow, SessionInv, TypeOK
  <2>2. CASE AppEnds(a)
    BY <2>2 DEF AppEnds, SessionInv, TypeOK
  <2>3. QED
    BY <2>1, <2>2
<1>4. /\ focus' \in App \cup {Root}
      /\ \A b \in App \ {a} : focus = b => focus' = b
  BY <1>1 DEF LosesFocus, SessionInv, TypeOK
<1>5. raced' \in BOOLEAN
  BY <1>1
<1>6. TypeOK'
  BY <1>1, <1>2, <1>3, <1>4, <1>5 DEF SessionInv, TypeOK
<1>7. Made' /\ Awaited' /\ Beginning'
  <2>1. \A b \in App : (OnTheWay(b)' <=> OnTheWay(b)) /\ (Pending(b)' <=> Pending(b))
    BY <1>1 DEF OnTheWay, Pending
  <2>2. QED
    BY <1>1, <1>2, <2>1 DEF SessionInv, Made, Awaited, Here, Beginning
<1>8. IF Over' THEN raced' ELSE Handing'
  BY <1>1, <1>2, <1>4, HandingGoesOn
<1>9. QED
  BY <1>6, <1>7, <1>8 DEF SessionInv

\* The applications' steps keep the invariant.
LEMMA ApplicationKeeps ==
    ASSUME SessionInv, NEW a \in App,
           Launch(a) \/ RunLoop(a) \/ AppExit(a) \/ AskForWindow(a) \/ HideWindow(a)
             \/ AppEnds(a)
    PROVE  SessionInv'
<1>1. CASE Launch(a) \/ RunLoop(a) \/ AppExit(a)
  <2>1. /\ wm # "ended" /\ wm' = wm /\ win' = win /\ wish' = wish /\ maps' = maps
        /\ events' = events /\ sent' = sent /\ turn' = turn /\ focus' = focus
        /\ active' = active /\ raced' = raced
    BY <1>1 DEF Launch, RunLoop, AppExit, serverVars, wmVars
  <2>2. /\ app' \in [App -> {"off", "creating", "looping", "leaving", "ended"}]
        /\ \A b \in App : app'[b] = "ended" => app[b] = "ended"
    BY <1>1 DEF Launch, RunLoop, AppExit, SessionInv, TypeOK
  <2>3. TypeOK'
    BY <2>1, <2>2 DEF SessionInv, TypeOK
  <2>4. Beginning' /\ Made' /\ Awaited' /\ (IF Over' THEN raced' ELSE Handing')
    BY <2>1 DEF SessionInv, Beginning, Made, OnTheWay, Awaited, Pending, Handing, Here,
                Agree, Over
  <2>5. QED
    BY <2>3, <2>4 DEF SessionInv
<1>2. QED
  BY <1>1, AskKeeps, WithdrawalKeeps

-----------------------------------------------------------------------------

\* SessionInv is inductive.
THEOREM SessionInvariant == Spec => []SessionInv
<1>1. SessionInv /\ [Next]_vars => SessionInv'
  <2> SUFFICES ASSUME SessionInv, [Next]_vars PROVE SessionInv'
    OBVIOUS
  <2>1. CASE WmInit \/ ErrorIsRead
    <3>1. /\ UNCHANGED <<clientVars, wmVars, serverVars, raced>>
          /\ \/ wm = "starting" /\ wm' = "running"
             \/ wm = "refused" /\ wm' = "ended"
      BY <2>1 DEF WmInit, ErrorIsRead
    <3>2. /\ TypeOK' /\ Beginning' /\ Made' /\ Awaited'
      BY <3>1 DEF SessionInv, TypeOK, Beginning, Made, OnTheWay, Awaited, Pending, Here,
                  clientVars, wmVars, serverVars
    <3>3. IF Over' THEN raced' ELSE Handing'
      BY <3>1 DEF SessionInv, Handing, Agree, Over, clientVars, wmVars, serverVars
    <3>4. QED
      BY <3>2, <3>3 DEF SessionInv
  <2>2. CASE HandleMapRequest
    BY <2>2, HandleKeeps
  <2>3. CASE ServerTakes
    BY <2>3, ServeKeeps
  <2>4. ASSUME NEW a \in App,
               Launch(a) \/ RunLoop(a) \/ AppExit(a) \/ AskForWindow(a) \/ HideWindow(a)
                 \/ AppEnds(a)
        PROVE  SessionInv'
    BY <2>4, ApplicationKeeps
  <2>5. CASE UNCHANGED vars
    BY <2>5 DEF vars, SessionInv, TypeOK, Beginning, Made, OnTheWay, Awaited, Pending, Here,
                Handing, Agree, Over, clientVars, wmVars, serverVars
  <2>6. QED
    BY <2>1, <2>2, <2>3, <2>4, <2>5 DEF Next
<1>2. QED
  BY <1>1, InitSession, PTL DEF Spec

\* Types, and what an application that has ended leaves behind.
THEOREM SessionTypeCorrect == Spec => []TypeOK
<1>1. SessionInv => TypeOK
  BY DEF SessionInv
<1>2. QED
  BY <1>1, SessionInvariant, PTL

\* A session without a race does not end (handle_map_request's order of requests).
THEOREM OnlyRacesEndTheSession == Spec => []OnlyARaceEndsTheSession
<1>1. SessionInv => OnlyARaceEndsTheSession
  BY DEF SessionInv, OnlyARaceEndsTheSession, Over
<1>2. QED
  BY <1>1, SessionInvariant, PTL

\* The focus and _NET_ACTIVE_WINDOW name the same window when nothing is on its way
\* (handle_map_request), however many handlers were on their way at once.
THEOREM FocusAndNameAgree == Spec => []FocusIsActive
<1>1. SessionInv => FocusIsActive
  <2> SUFFICES ASSUME SessionInv, wm = "running", sent = <<>> PROVE Agree(active)
    BY DEF FocusIsActive, Agree
  <2>1. turn = "map" /\ ~Over
    BY DEF SessionInv, TypeOK, Over
  <2>2. QED
    BY <2>1 DEF SessionInv, Handing
<1>2. QED
  BY <1>1, SessionInvariant, PTL

-----------------------------------------------------------------------------
(* The refinement of Desktop.                                              *)

\* The handlers that have still to map their window.
ToMap == IF turn = "map" THEN sent ELSE Tail(sent)

\* Reading an event from the front of the one queue to the end of the other changes
\* nothing for the two together.
LEMMA MovedOver ==
    ASSUME NEW S, NEW s \in Seq(S), NEW t \in Seq(S), t # <<>>
    PROVE  Append(s, Head(t)) \o Tail(t) = s \o t
<1>1. /\ Head(t) \in S /\ Tail(t) \in Seq(S) /\ <<Head(t)>> \in Seq(S)
  BY HeadTailProperties
<1>2. Append(s, Head(t)) = s \o <<Head(t)>>
  BY <1>1, AppendIsConcat
<1>3. (s \o <<Head(t)>>) \o Tail(t) = s \o (<<Head(t)>> \o Tail(t))
  BY <1>1, ConcatAssociative
<1>4. <<Head(t)>> \o Tail(t) = t
  <2>1. /\ Len(<<Head(t)>>) = 1 /\ <<Head(t)>>[1] = t[1]
        /\ Len(t) \in Nat /\ Len(Tail(t)) = Len(t) - 1
        /\ \A i \in 1 .. Len(Tail(t)) : Tail(t)[i] = t[i + 1]
    BY HeadTailProperties, LenProperties
  <2>2. /\ <<Head(t)>> \o Tail(t) \in Seq(S)
        /\ Len(<<Head(t)>> \o Tail(t)) = Len(t)
        /\ \A i \in 1 .. Len(t) : (<<Head(t)>> \o Tail(t))[i] =
               IF i <= 1 THEN t[1] ELSE Tail(t)[i - 1]
    BY <1>1, <2>1, ConcatProperties
  <2>3. \A i \in 1 .. Len(t) : (<<Head(t)>> \o Tail(t))[i] = t[i]
    <3>1. ASSUME NEW i \in 1 .. Len(t), i > 1 PROVE Tail(t)[i - 1] = t[i]
      <4>1. i - 1 \in 1 .. Len(Tail(t)) /\ (i - 1) + 1 = i
        BY <2>1, <3>1
      <4>2. QED
        BY <2>1, <4>1
    <3>2. QED
      BY <2>1, <2>2, <3>1
  <2>4. QED
    BY <2>2, <2>3, SeqEqual
<1>5. QED
  BY <1>2, <1>3, <1>4

LEMMA FrontOfTwo ==
    ASSUME NEW S, NEW s \in Seq(S), NEW t \in Seq(S), s # <<>>
    PROVE  s \o t # <<>> /\ Head(s \o t) = Head(s) /\ Tail(s \o t) = Tail(s) \o t
<1>1. /\ Len(s) \in Nat \ {0} /\ Len(t) \in Nat
      /\ s \o t \in Seq(S) /\ Len(s \o t) = Len(s) + Len(t)
      /\ \A i \in 1 .. Len(s) + Len(t) : (s \o t)[i] =
             IF i <= Len(s) THEN s[i] ELSE t[i - Len(s)]
      /\ Tail(s) \in Seq(S) /\ Len(Tail(s)) = Len(s) - 1
      /\ \A i \in 1 .. Len(Tail(s)) : Tail(s)[i] = s[i + 1]
  BY ConcatProperties, EmptySeq, HeadTailProperties, LenProperties
<1>2. s \o t # <<>> /\ Head(s \o t) = Head(s)
  BY <1>1, EmptySeq
<1>3. /\ Tail(s \o t) \in Seq(S) /\ Len(Tail(s \o t)) = Len(s) + Len(t) - 1
      /\ \A i \in 1 .. Len(s) + Len(t) - 1 : Tail(s \o t)[i] = (s \o t)[i + 1]
  BY <1>1, <1>2, HeadTailProperties
<1>4. /\ Tail(s) \o t \in Seq(S) /\ Len(Tail(s) \o t) = Len(s) + Len(t) - 1
      /\ \A i \in 1 .. Len(s) + Len(t) - 1 : (Tail(s) \o t)[i] =
             IF i <= Len(s) - 1 THEN Tail(s)[i] ELSE t[i - (Len(s) - 1)]
  BY <1>1, ConcatProperties
<1>5. \A i \in 1 .. Len(s) + Len(t) - 1 : Tail(s \o t)[i] = (Tail(s) \o t)[i]
  <2>1. ASSUME NEW i \in 1 .. Len(s) + Len(t) - 1
        PROVE  Tail(s \o t)[i] = (Tail(s) \o t)[i]
    <3>1. i + 1 \in 1 .. Len(s) + Len(t) /\ (i + 1) - Len(s) = i - (Len(s) - 1)
      BY <1>1, <2>1
    <3>2. CASE i <= Len(s) - 1
      <4>1. i \in 1 .. Len(Tail(s))
        BY <1>1, <3>2
      <4>2. QED
        BY <1>1, <1>3, <1>4, <2>1, <3>1, <3>2, <4>1
    <3>3. CASE ~(i <= Len(s) - 1)
      BY <1>1, <1>3, <1>4, <2>1, <3>1, <3>3
    <3>4. QED
      BY <3>2, <3>3
  <2>2. QED
    BY <2>1
<1>6. QED
  BY <1>2, <1>3, <1>4, <1>5, SeqEqual

LEMMA AppendedToTwo ==
    ASSUME NEW S, NEW s \in Seq(S), NEW t \in Seq(S), NEW x \in S
    PROVE  s \o Append(t, x) = Append(s \o t, x)
<1>1. PICK u \in Seq(S) : u = <<x>>
  <2>1. <<x>> \in Seq(S)
    OBVIOUS
  <2>2. QED
    BY <2>1
<1>2. Append(t, x) = t \o u
  BY <1>1, AppendIsConcat
<1>3. s \o t \in Seq(S) /\ (s \o t) \o u = s \o (t \o u)
  BY ConcatProperties, ConcatAssociative
<1>4. Append(s \o t, x) = (s \o t) \o u
  BY <1>1, <1>3, AppendIsConcat
<1>5. QED
  BY <1>2, <1>3, <1>4

LEMMA AskedType ==
    ASSUME SessionInv
    PROVE  /\ events \in Seq(App) /\ sent \in Seq(App) /\ ToMap \in Seq(App)
           /\ Asked = ToMap \o events /\ Asked \in Seq(App)
           /\ turn \in Requests /\ (turn # "map" => sent # <<>>)
<1>1. /\ events \in Seq(App) /\ sent \in Seq(App)
      /\ turn \in Requests /\ (turn # "map" => sent # <<>>)
  BY DEF SessionInv, TypeOK
<1>2. ToMap \in Seq(App)
  BY <1>1, HeadTailProperties DEF ToMap
<1>3. Asked = ToMap \o events
  BY DEF Asked, ToMap
<1>4. QED
  BY <1>1, <1>2, <1>3, ConcatProperties

LEMMA SameView ==
    ASSUME UNCHANGED <<win, events, sent, turn, focus, active>>
    PROVE  Asked' = Asked /\ OnScreen' = OnScreen /\ Keyboard' = Keyboard /\ Front' = Front
BY DEF Asked, OnScreen, Keyboard, Front

LEMMA InitSeen == Init => UserSees!Init
<1> SUFFICES ASSUME Init PROVE UserSees!Init
  OBVIOUS
<1>1. /\ wm = "starting" /\ sent = <<>> /\ events = <<>> /\ turn = "map"
      /\ focus = Root /\ active = Root /\ raced = FALSE /\ OnScreen = {} /\ ~Over
  BY DEF Init, OnScreen, Over
<1>2. Asked = <<>> /\ Keyboard = Root /\ Front = Root
  <2>1. <<>> \o <<>> = <<>>
    BY EmptySeq, ConcatEmptySeq
  <2>2. QED
    BY <1>1, <2>1 DEF Asked, Keyboard, Front
<1>3. QED
  BY <1>1, <1>2 DEF UserSees!Init

\* Once the session is over nothing is seen any more.
LEMMA NothingIsSeen ==
    ASSUME Over, Over', raced' = raced
    PROVE  UNCHANGED UserSees!vars
BY DEF UserSees!vars

LEMMA HandlerUnseen ==
    ASSUME SessionInv, HandleMapRequest
    PROVE  Asked' = Asked /\ UNCHANGED UserSees!vars
<1>1. /\ wm' = wm /\ win' = win /\ focus' = focus /\ active' = active /\ turn' = turn
      /\ raced' = raced /\ events # <<>>
      /\ events' = Tail(events) /\ sent' = Append(sent, Head(events))
  BY DEF HandleMapRequest, clientVars, serverVars
<1>2. Asked' = Asked
  <2>1. ToMap' = Append(ToMap, Head(events))
    <3>1. CASE turn = "map"
      BY <1>1, <3>1 DEF ToMap
    <3>2. CASE turn # "map"
      BY <1>1, <3>2, AskedType, HeadTailAppend DEF ToMap
    <3>3. QED
      BY <3>1, <3>2
  <2>2. Append(ToMap, Head(events)) \o Tail(events) = ToMap \o events
    BY <1>1, AskedType, MovedOver
  <2>3. QED
    BY <1>1, <2>1, <2>2 DEF Asked, ToMap
<1>3. Front' = Front /\ OnScreen' = OnScreen
  BY <1>1, ReadOne DEF Front, OnScreen
<1>4. Keyboard' = Keyboard
  BY <1>1, <1>3, ReadOne DEF Keyboard
<1>5. Over' <=> Over
  BY <1>1 DEF Over
<1>6. QED
  BY <1>1, <1>2, <1>3, <1>4, <1>5 DEF UserSees!vars

\* The server takes a window that waits from the front of the others, or none.
LEMMA ServedAsked ==
    ASSUME SessionInv, ServerTakes
    PROVE  /\ turn # "map" => Asked' = Asked
           /\ turn = "map" => /\ Asked # <<>> /\ Head(Asked) = Head(sent)
                              /\ Asked' = Tail(Asked) /\ turn' = "focus" /\ sent' = sent
<1>1. /\ events' = events /\ sent # <<>> /\ turn' = RequestAfter[turn]
      /\ sent' = IF turn = "active" THEN Tail(sent) ELSE sent
  BY DEF ServerTakes
<1>2. CASE turn = "map"
  <2>1. turn' = "focus" /\ sent' = sent
    BY <1>1, <1>2 DEF RequestAfter
  <2>2. Asked = sent \o events /\ Asked' = Tail(sent) \o events
    BY <1>1, <1>2, <2>1 DEF Asked
  <2>3. QED
    BY <1>1, <1>2, <2>1, <2>2, AskedType, FrontOfTwo
<1>3. CASE turn # "map"
  <2>1. ToMap' = ToMap
    BY <1>1, <1>3, AskedType DEF ToMap, RequestAfter, Requests
  <2>2. QED
    BY <1>1, <1>3, <2>1 DEF Asked, ToMap
<1>4. QED
  BY <1>2, <1>3

LEMMA ServedIsSeen ==
    ASSUME SessionInv, ServerTakes
    PROVE  UserSees!Present \/ UserSees!End \/ UNCHANGED UserSees!vars
<1>1. PICK a \in App :
      /\ a = Head(sent) /\ OnTheWay(a) /\ wm \in {"running", "refused"} /\ raced' = raced
      /\ wm' = IF Refused(a) THEN "refused" ELSE wm
      /\ win' = IF turn = "map" /\ win[a] = "hidden"
                THEN [win EXCEPT ![a] = "shown"] ELSE win
      /\ focus' = IF turn = "focus" /\ ~Refused(a) THEN a ELSE focus
      /\ active' = IF turn = "active" THEN a ELSE active
      /\ turn' = RequestAfter[turn] /\ (turn # "active" => sent' = sent)
  BY TakeOne DEF ServerTakes, Given
<1>2. CASE Over
  <2>1. Over'
    BY <1>1, <1>2 DEF Over
  <2>2. QED
    BY <1>1, <1>2, <2>1, NothingIsSeen
<1>3. CASE ~Over /\ Refused(a)
  <2>1. wm = "running" /\ wm' = "refused" /\ raced /\ Over'
    BY <1>1, <1>3, ServeKeeps DEF Over, SessionInv
  <2>2. QED
    BY <1>1, <1>3, <2>1 DEF UserSees!End
<1>4. CASE ~Over /\ ~Refused(a)
  <2>1. wm = "running" /\ wm' = wm /\ ~Over'
    BY <1>1, <1>4 DEF Over
  <2>2. win \in [App -> {"none", "hidden", "shown", "destroyed"}] /\ win[a] # "none"
    BY <1>1 DEF SessionInv, TypeOK, Made
  <2>3. CASE turn = "map"
    <3>1. win[a] \in {"hidden", "shown"}
      BY <1>4, <2>2, <2>3 DEF Refused, NeedsWindow
    <3>2. OnScreen' = OnScreen \cup {a} /\ a \in OnScreen'
      BY <1>1, <2>2, <2>3, <3>1 DEF OnScreen
    <3>3. /\ Asked # <<>> /\ Head(Asked) = a /\ Asked' = Tail(Asked)
          /\ turn' = "focus" /\ Head(sent') = a
      BY <1>1, <2>3, ServedAsked
    <3>4. Keyboard' = a /\ Front' = a
      BY <3>2, <3>3 DEF Keyboard, Front
    <3>5. QED
      BY <1>1, <1>4, <2>1, <3>2, <3>3, <3>4 DEF UserSees!Present
  <2>4. CASE turn # "map"
    <3>1. OnScreen' = OnScreen /\ Asked' = Asked
      BY <1>1, <2>4, ServedAsked DEF OnScreen
    <3>2. Keyboard' = Keyboard
      <4>1. CASE turn = "focus"
        <5>1. a \in OnScreen /\ focus' = a /\ turn' = "raise"
          BY <1>1, <1>4, <4>1 DEF Refused, OnScreen, RequestAfter
        <5>2. QED
          BY <1>1, <4>1, <5>1 DEF Keyboard
      <4>2. CASE turn # "focus"
        <5>1. turn' # "focus" /\ focus' = focus
          BY <1>1, <2>4, <4>2, AskedType DEF RequestAfter, Requests
        <5>2. QED
          BY <4>2, <5>1 DEF Keyboard
      <4>3. QED
        BY <4>1, <4>2
    <3>3. Front' = Front
      <4>1. CASE turn = "active"
        BY <1>1, <4>1 DEF Front, RequestAfter
      <4>2. CASE turn # "active"
        <5>1. turn' # "map" /\ sent' = sent
          BY <1>1, <2>4, <4>2, AskedType DEF RequestAfter, Requests
        <5>2. QED
          BY <2>4, <5>1 DEF Front
      <4>3. QED
        BY <4>1, <4>2
    <3>4. QED
      BY <1>1, <1>4, <2>1, <3>1, <3>2, <3>3 DEF UserSees!vars
  <2>5. QED
    BY <2>3, <2>4
<1>5. QED
  BY <1>2, <1>3, <1>4

\* A request for a window, seen by whoever waits for the session.
LEMMA AskIsSeen ==
    ASSUME SessionInv, NEW a \in App, AskForWindow(a)
    PROVE  /\ Over => Asked' = Asked /\ UNCHANGED UserSees!vars
           /\ ~Over => UserSees!Ask(a) /\ ~Over'
           /\ Asked' = Asked \/ Asked' = Append(Asked, a)
<1> USE SessionAssumption
<1>1. /\ wm # "ended" /\ wm' = wm /\ sent' = sent /\ turn' = turn /\ focus' = focus
      /\ active' = active /\ raced' = raced /\ win[a] # "shown"
      /\ a \notin OnScreen
  BY DEF AskForWindow, serverVars, OnScreen
<1>2. Front' = Front /\ (Over' <=> Over)
  BY <1>1 DEF Front, Over
<1>3. CASE Over
  <2>1. events' = events /\ Over'
    BY <1>1, <1>3 DEF AskForWindow, Over
  <2>2. QED
    BY <1>1, <1>3, <2>1, NothingIsSeen DEF Asked
<1>4. CASE wm = "starting"
  <2>1. /\ win' = [win EXCEPT ![a] = "shown"] /\ events' = events /\ turn = "map"
        /\ ~Over
    BY <1>4 DEF AskForWindow, SessionInv, Beginning, TypeOK, Over
  <2>2. OnScreen' = OnScreen \cup {a}
    BY <2>1 DEF OnScreen, SessionInv, TypeOK
  <2>3. Asked' = Asked /\ Keyboard' = Keyboard
    BY <1>1, <2>1 DEF Asked, Keyboard
  <2>4. QED
    BY <1>1, <1>2, <1>4, <2>1, <2>2, <2>3 DEF UserSees!Ask
<1>5. CASE wm = "running"
  <2>1. win' = [win EXCEPT ![a] = "hidden"] /\ events' = Append(events, a) /\ ~Over
    BY <1>5 DEF AskForWindow, Over
  <2>2. OnScreen' = OnScreen
    BY <1>1, <2>1 DEF OnScreen, SessionInv, TypeOK
  <2>3. Keyboard' = Keyboard
    BY <1>1, <2>2 DEF Keyboard
  <2>4. Asked' = Append(Asked, a)
    <3>1. ToMap \o Append(events, a) = Append(ToMap \o events, a)
      <4>1. ToMap \in Seq(App) /\ events \in Seq(App)
        BY AskedType
      <4>2. QED
        BY <4>1, AppendedToTwo
    <3>2. QED
      BY <1>1, <2>1, <3>1 DEF Asked, ToMap
  <2>5. QED
    BY <1>1, <1>2, <1>5, <2>1, <2>2, <2>3, <2>4 DEF UserSees!Ask
<1>6. QED
  BY <1>1, <1>3, <1>4, <1>5 DEF SessionInv, TypeOK, Over

\* What a handler is still needed for is at the front, or among the windows asked for.
LEMMA PendingIsSeen ==
    ASSUME SessionInv, NEW a \in App, Pending(a)
    PROVE  Front = a \/ \E i \in 1 .. Len(Asked) : Asked[i] = a
<1>1. /\ Len(Asked) = Len(ToMap) + Len(events) /\ Len(ToMap) \in Nat /\ Len(events) \in Nat
      /\ \A i \in 1 .. Len(ToMap) + Len(events) : Asked[i] =
             IF i <= Len(ToMap) THEN ToMap[i] ELSE events[i - Len(ToMap)]
  BY AskedType, ConcatProperties, LenProperties
<1>2. ASSUME NEW i \in 1 .. Len(events), events[i] = a
      PROVE  \E j \in 1 .. Len(Asked) : Asked[j] = a
  <2>1. /\ Len(ToMap) + i \in 1 .. Len(Asked) /\ ~(Len(ToMap) + i <= Len(ToMap))
        /\ (Len(ToMap) + i) - Len(ToMap) = i
    BY <1>1, <1>2
  <2>2. Asked[Len(ToMap) + i] = a
    BY <1>1, <1>2, <2>1
  <2>3. QED
    BY <2>1, <2>2
<1>3. ASSUME NEW i \in 1 .. Len(ToMap), ToMap[i] = a
      PROVE  \E j \in 1 .. Len(Asked) : Asked[j] = a
  <2>1. i \in 1 .. Len(Asked) /\ Asked[i] = a
    BY <1>1, <1>3
  <2>2. QED
    BY <2>1
<1>4. ASSUME NEW i \in 1 .. Len(sent), sent[i] = a
      PROVE  Front = a \/ \E j \in 1 .. Len(Asked) : Asked[j] = a
  <2>1. CASE turn = "map"
    BY <1>3, <1>4, <2>1 DEF ToMap
  <2>2. CASE turn # "map" /\ i = 1
    BY <1>4, <2>2 DEF Front
  <2>3. CASE turn # "map" /\ i # 1
    <3>1. /\ ToMap = Tail(sent) /\ Len(sent) \in Nat /\ Len(Tail(sent)) = Len(sent) - 1
          /\ \A k \in 1 .. Len(Tail(sent)) : Tail(sent)[k] = sent[k + 1]
      BY <2>3, AskedType, HeadTailProperties, LenProperties DEF ToMap
    <3>2. i - 1 \in 1 .. Len(ToMap) /\ (i - 1) + 1 = i
      BY <1>4, <2>3, <3>1
    <3>3. ToMap[i - 1] = a
      BY <1>4, <3>1, <3>2
    <3>4. QED
      BY <1>3, <3>2, <3>3
  <2>4. QED
    BY <2>1, <2>2, <2>3
<1>5. QED
  BY <1>2, <1>4 DEF Pending

LEMMA WithdrawalIsSeen ==
    ASSUME SessionInv, NEW a \in App, HideWindow(a) \/ AppEnds(a)
    PROVE  /\ Asked' = Asked
           /\ Over => UNCHANGED UserSees!vars
           /\ ~Over => UserSees!Withdraw(a) /\ ~Over'
<1> USE SessionAssumption
<1>1. /\ wm # "ended" /\ wm' = wm /\ events' = events /\ sent' = sent /\ turn' = turn
      /\ active' = active /\ raced' = (raced \/ Pending(a))
      /\ focus' = IF focus = a THEN Root ELSE focus
  BY DEF HideWindow, AppEnds, LosesFocus, wmVars
<1>2. /\ win'[a] # "shown" /\ \A b \in App \ {a} : win'[b] = win[b]
  BY DEF HideWindow, AppEnds, SessionInv, TypeOK
<1>3. OnScreen' = OnScreen \ {a}
  BY <1>2 DEF OnScreen
<1>4. Asked' = Asked /\ Front' = Front /\ (Over' <=> Over)
  BY <1>1 DEF Asked, Front, Over
<1>5. Keyboard' = IF Keyboard = a THEN Root ELSE Keyboard
  <2>1. CASE turn # "focus"
    BY <1>1, <2>1 DEF Keyboard
  <2>2. CASE turn = "focus"
    <3>1. Keyboard = IF Head(sent) \in OnScreen THEN Head(sent) ELSE Root
      BY <2>2 DEF Keyboard
    <3>2. Keyboard' = IF Head(sent) \in OnScreen' THEN Head(sent) ELSE Root
      BY <1>1, <2>2 DEF Keyboard
    <3>3. QED
      BY <1>3, <3>1, <3>2
  <2>3. QED
    BY <2>1, <2>2
<1>6. raced' = raced \/ (raced' = TRUE /\ Pending(a))
  <2>1. CASE Pending(a)
    <3>1. (raced \/ Pending(a)) = TRUE
      BY <2>1
    <3>2. QED
      BY <1>1, <2>1, <3>1
  <2>2. CASE ~Pending(a)
    <3>1. (raced \/ Pending(a)) = raced
      BY <2>2 DEF SessionInv, TypeOK
    <3>2. QED
      BY <1>1, <3>1
  <2>3. QED
    BY <2>1, <2>2
<1>7. \/ raced' = raced
      \/ raced' = TRUE /\ (Front = a \/ \E i \in 1 .. Len(Asked) : Asked[i] = a)
  BY <1>6, PendingIsSeen
<1>8. CASE Over
  <2>1. (raced \/ Pending(a)) = TRUE /\ raced = TRUE
    BY <1>8 DEF SessionInv, TypeOK
  <2>2. raced' = raced
    BY <1>1, <2>1
  <2>3. QED
    BY <1>4, <1>8, <2>2, NothingIsSeen
<1>9. CASE ~Over
  BY <1>1, <1>3, <1>4, <1>5, <1>7, <1>9 DEF UserSees!Withdraw, Over
<1>10. QED
  BY <1>4, <1>8, <1>9

LEMMA SessionStepIsSeen ==
    ASSUME SessionInv, [Next]_vars
    PROVE  [UserSees!Next]_UserSees!vars
<1>1. CASE WmInit
  <2>1. /\ wm = "starting" /\ wm' = "running" /\ ~Over /\ ~Over' /\ raced' = raced
        /\ UNCHANGED <<win, events, sent, turn, focus, active>>
    BY <1>1 DEF WmInit, clientVars, serverVars, wmVars, Over
  <2>2. UserSees!Manage
    BY <2>1, SameView DEF UserSees!Manage
  <2>3. QED
    BY <2>2 DEF UserSees!Next
<1>2. CASE UNCHANGED vars \/ \E a \in App : Launch(a) \/ RunLoop(a) \/ AppExit(a)
  <2>1. UNCHANGED <<wm, win, events, sent, turn, focus, active, raced>>
    BY <1>2 DEF vars, Launch, RunLoop, AppExit, clientVars, serverVars, wmVars
  <2>2. UNCHANGED UserSees!vars
    BY <2>1, SameView DEF UserSees!vars, Over
  <2>3. QED
    BY <2>2
<1>3. CASE HandleMapRequest
  BY <1>3, HandlerUnseen
<1>4. CASE ServerTakes
  BY <1>4, ServedIsSeen DEF UserSees!Next
<1>5. CASE ErrorIsRead
  <2>1. Over /\ Over' /\ raced' = raced
    BY <1>5 DEF ErrorIsRead, Over
  <2>2. QED
    BY <2>1, NothingIsSeen
<1>6. ASSUME NEW a \in App, AskForWindow(a) PROVE [UserSees!Next]_UserSees!vars
  BY <1>6, AskIsSeen DEF UserSees!Next
<1>7. ASSUME NEW a \in App, HideWindow(a) \/ AppEnds(a)
      PROVE  [UserSees!Next]_UserSees!vars
  BY <1>7, WithdrawalIsSeen DEF UserSees!Next
<1>8. QED
  BY <1>1, <1>2, <1>3, <1>4, <1>5, <1>6, <1>7 DEF Next

\* The four requests of handle_map_request, which the server interleaves with those of
\* the applications, amount to one presentation of the window, in the order in which
\* wm_run was asked, however many handlers wm_run is ahead of the server.
THEOREM SessionImplementsDesktop == Spec => ImplementsDesktop
<1>1. SessionInv /\ [Next]_vars => [UserSees!Next]_UserSees!vars
  BY SessionStepIsSeen
<1>2. QED
  BY <1>1, InitSeen, SessionInvariant, PTL DEF Spec, ImplementsDesktop, UserSees!Spec

-----------------------------------------------------------------------------
(* Nobody is forgotten: the safety that EveryWindowIsShown rests on.       *)

\* An application that has asked for its window, goes on wanting it and does not see it is
\* among those that wm_run is still going to serve: no MapRequest is dropped between the
\* event, the handler and the server.
NobodyIsForgotten ==
    ~Over =>
        \A a \in App : wish[a] /\ win[a] # "shown" => \E i \in 1 .. Len(Asked) : Asked[i] = a

LEMMA ForgottenInit == Init => NobodyIsForgotten
BY DEF Init, NobodyIsForgotten

LEMMA ForgottenKept ==
    ASSUME SessionInv, NobodyIsForgotten, [Next]_vars
    PROVE  NobodyIsForgotten'
<1>1. SUFFICES ASSUME ~Over', NEW b \in App, wish'[b], win'[b] # "shown"
               PROVE  \E i \in 1 .. Len(Asked') : Asked'[i] = b
  BY DEF NobodyIsForgotten
<1>2. /\ win \in [App -> {"none", "hidden", "shown", "destroyed"}]
      /\ wish \in [App -> BOOLEAN] /\ Asked \in Seq(App)
  BY AskedType DEF SessionInv, TypeOK
<1>3. ASSUME Asked' = Asked, ~Over, wish[b], win[b] # "shown"
      PROVE  \E i \in 1 .. Len(Asked') : Asked'[i] = b
  BY <1>3 DEF NobodyIsForgotten
<1>4. CASE UNCHANGED vars \/ WmInit \/ \E a \in App : Launch(a) \/ RunLoop(a) \/ AppExit(a)
  <2>1. UNCHANGED <<wish, win, events, sent, turn, focus, active>> /\ ~Over
    BY <1>1, <1>4 DEF vars, WmInit, Launch, RunLoop, AppExit, clientVars, serverVars, wmVars,
                      Over
  <2>2. QED
    BY <1>1, <1>3, <2>1, SameView
<1>5. CASE HandleMapRequest
  <2>1. win' = win /\ wish' = wish /\ ~Over
    BY <1>1, <1>5 DEF HandleMapRequest, clientVars, Over
  <2>2. QED
    BY <1>1, <1>3, <1>5, <2>1, HandlerUnseen
<1>6. CASE ErrorIsRead
  BY <1>1, <1>6 DEF ErrorIsRead, Over
<1>7. CASE ServerTakes
  <2>1. wish' = wish /\ ~Over
    BY <1>1, <1>7 DEF ServerTakes, Over
  <2>2. UserSees!Present \/ UserSees!End \/ UNCHANGED UserSees!vars
    BY <1>7, ServedIsSeen
  <2>3. CASE UNCHANGED UserSees!vars
    <3>1. OnScreen' = OnScreen /\ Asked' = Asked
      BY <1>1, <2>1, <2>3 DEF UserSees!vars
    <3>2. win[b] # "shown"
      BY <1>1, <3>1 DEF OnScreen
    <3>3. QED
      BY <1>1, <1>3, <2>1, <3>1, <3>2
  <2>4. CASE UserSees!Present
    <3>1. /\ Asked # <<>> /\ Asked' = Tail(Asked)
          /\ OnScreen' = OnScreen \cup {Head(Asked)}
      BY <1>1, <2>1, <2>4 DEF UserSees!Present
    <3>2. win[b] # "shown" /\ b # Head(Asked)
      BY <1>1, <3>1 DEF OnScreen
    <3>3. PICK i \in 1 .. Len(Asked) : Asked[i] = b
      BY <1>1, <2>1, <3>2 DEF NobodyIsForgotten
    <3>4. /\ Head(Asked) = Asked[1] /\ Len(Asked) \in Nat
          /\ Len(Asked') = Len(Asked) - 1
          /\ \A k \in 1 .. Len(Asked') : Asked'[k] = Asked[k + 1]
      BY <1>2, <3>1, HeadTailProperties, LenProperties
    <3>5. i # 1
      BY <3>2, <3>3, <3>4
    <3>6. i - 1 \in 1 .. Len(Asked') /\ Asked'[i - 1] = Asked[i]
      BY <3>3, <3>4, <3>5
    <3>7. QED
      BY <3>3, <3>6
  <2>5. ~UserSees!End
    BY <1>1 DEF UserSees!End, Over
  <2>6. QED
    BY <2>2, <2>3, <2>4, <2>5
<1>8. ASSUME NEW a \in App, AskForWindow(a)
      PROVE  \E i \in 1 .. Len(Asked') : Asked'[i] = b
  <2>1. ~Over /\ UserSees!Ask(a)
    <3>1. ~Over
      BY <1>1, <1>8 DEF AskForWindow, Over
    <3>2. QED
      BY <1>8, <3>1, AskIsSeen
  <2>2. wish' = [wish EXCEPT ![a] = TRUE]
    BY <1>8 DEF AskForWindow
  <2>3. CASE Asked' = Asked /\ OnScreen' = OnScreen \cup {a}
    <3>1. b # a /\ win[b] # "shown"
      BY <1>1, <2>3 DEF OnScreen
    <3>2. wish[b]
      BY <1>1, <1>2, <2>2, <3>1
    <3>3. QED
      BY <1>3, <2>1, <2>3, <3>1, <3>2
  <2>4. CASE Asked' = Append(Asked, a) /\ OnScreen' = OnScreen
    <3>1. /\ Len(Asked) \in Nat /\ Len(Asked') = Len(Asked) + 1
          /\ Asked'[Len(Asked) + 1] = a
          /\ \A i \in 1 .. Len(Asked) : Asked'[i] = Asked[i]
      BY <1>2, <1>8, <2>4, AppendProperties, LenProperties
    <3>2. CASE b = a
      BY <3>1, <3>2
    <3>3. CASE b # a
      <4>1. wish[b] /\ win[b] # "shown"
        BY <1>1, <1>2, <2>2, <2>4, <3>3 DEF OnScreen
      <4>2. PICK i \in 1 .. Len(Asked) : Asked[i] = b
        BY <2>1, <4>1 DEF NobodyIsForgotten
      <4>3. i \in 1 .. Len(Asked') /\ Asked'[i] = b
        BY <3>1, <4>2
      <4>4. QED
        BY <4>3
    <3>4. QED
      BY <3>2, <3>3
  <2>5. QED
    BY <1>1, <2>1, <2>3, <2>4 DEF UserSees!Ask
<1>9. ASSUME NEW a \in App, HideWindow(a) \/ AppEnds(a)
      PROVE  \E i \in 1 .. Len(Asked') : Asked'[i] = b
  <2>1. ~Over /\ UserSees!Withdraw(a)
    <3>1. ~Over
      BY <1>1, <1>9 DEF HideWindow, AppEnds, Over
    <3>2. QED
      BY <1>9, <3>1, WithdrawalIsSeen
  <2>2. wish' = [wish EXCEPT ![a] = FALSE]
    BY <1>9 DEF HideWindow, AppEnds
  <2>3. Asked' = Asked /\ OnScreen' = OnScreen \ {a}
    BY <1>1, <2>1 DEF UserSees!Withdraw
  <2>4. b # a /\ wish[b]
    BY <1>1, <1>2, <2>2
  <2>5. win[b] # "shown"
    BY <1>1, <2>3, <2>4 DEF OnScreen
  <2>6. QED
    BY <1>3, <2>1, <2>3, <2>4, <2>5
<1>10. QED
  BY <1>4, <1>5, <1>6, <1>7, <1>8, <1>9 DEF Next

\* Whoever wants its window and does not see it is still going to be served (wm_run,
\* handle_map_request).
THEOREM NobodyIsEverForgotten == Spec => []NobodyIsForgotten
<1>1. SessionInv /\ NobodyIsForgotten /\ [Next]_vars => NobodyIsForgotten'
  BY ForgottenKept
<1>2. QED
  BY <1>1, ForgottenInit, SessionInvariant, PTL DEF Spec

-----------------------------------------------------------------------------
(* Every window is shown: a place in Asked comes to its head.              *)

\* The place of the first request for a's window.
Place(s, a) == CHOOSE i \in 1 .. Len(s) : s[i] = a /\ \A j \in 1 .. i - 1 : s[j] # a

LEMMA PlaceIs ==
    ASSUME NEW s, NEW a, Len(s) \in Nat, NEW i \in 1 .. Len(s), s[i] = a,
           \A j \in 1 .. i - 1 : s[j] # a
    PROVE  Place(s, a) = i
<1>1. ASSUME NEW k \in 1 .. Len(s), s[k] = a, \A j \in 1 .. k - 1 : s[j] # a
      PROVE  k = i
  <2>1. ~(k < i) /\ ~(i < k)
    BY <1>1
  <2>2. QED
    BY <2>1
<1>2. QED
  BY <1>1 DEF Place

LEMMA PlaceThere ==
    ASSUME NEW s \in Seq(App), NEW a, \E i \in 1 .. Len(s) : s[i] = a
    PROVE  /\ Place(s, a) \in 1 .. Len(s) /\ s[Place(s, a)] = a
           /\ \A j \in 1 .. Place(s, a) - 1 : s[j] # a
<1> DEFINE T == {i \in Nat : i \in 1 .. Len(s) /\ s[i] = a}
<1>1. Len(s) \in Nat
  BY LenProperties
<1>2. PICK i \in T : \A j \in T : ~ (<<j, i>> \in OpToRel(<, Nat))
  <2>1. T # {} /\ T \subseteq Nat
    BY <1>1
  <2>2. QED
    BY <2>1, NatLessThanWellFounded, WFMin, Zenon
<1>3. ASSUME NEW j \in 1 .. i - 1, s[j] = a PROVE FALSE
  <2>1. j \in T /\ i \in Nat /\ j \in Nat /\ j < i
    BY <1>1, <1>3
  <2>2. <<j, i>> \in OpToRel(<, Nat)
    BY <2>1 DEF OpToRel
  <2>3. QED
    BY <1>2, <2>1, <2>2
<1>4. Place(s, a) = i
  BY <1>1, <1>3, PlaceIs
<1>5. QED
  BY <1>3, <1>4

LEMMA PlaceInTail ==
    ASSUME NEW s \in Seq(App), NEW a, \E i \in 1 .. Len(s) : s[i] = a, Head(s) # a
    PROVE  Place(Tail(s), a) = Place(s, a) - 1
<1>1. PICK p \in 1 .. Len(s) : p = Place(s, a) /\ s[p] = a /\ \A j \in 1 .. p - 1 : s[j] # a
  BY PlaceThere
<1>2. PICK t \in Seq(App) : t = Tail(s)
  <2>1. s # <<>>
    BY <1>1, EmptySeq
  <2>2. QED
    BY <2>1, HeadTailProperties
<1>3. /\ Head(s) = s[1] /\ Len(t) = Len(s) - 1 /\ Len(s) \in Nat
      /\ \A j \in 1 .. Len(t) : t[j] = s[j + 1]
  BY <1>1, <1>2, HeadTailProperties, LenProperties, EmptySeq
<1>4. p # 1
  BY <1>1, <1>3
<1>5. p - 1 \in 1 .. Len(t) /\ Len(t) \in Nat /\ t[p - 1] = a
  BY <1>1, <1>3, <1>4
<1>6. \A j \in 1 .. (p - 1) - 1 : t[j] # a
  BY <1>1, <1>3
<1>7. Place(t, a) = p - 1
  BY <1>5, <1>6, PlaceIs
<1>8. QED
  BY <1>1, <1>2, <1>7

LEMMA PlaceInLonger ==
    ASSUME NEW s \in Seq(App), NEW a, \E i \in 1 .. Len(s) : s[i] = a, NEW b \in App
    PROVE  Place(Append(s, b), a) = Place(s, a)
<1>1. PICK p \in 1 .. Len(s) : p = Place(s, a) /\ s[p] = a /\ \A j \in 1 .. p - 1 : s[j] # a
  BY PlaceThere
<1>2. PICK t \in Seq(App) : t = Append(s, b)
  BY AppendProperties
<1>3. Len(t) = Len(s) + 1 /\ Len(s) \in Nat /\ \A j \in 1 .. Len(s) : t[j] = s[j]
  BY <1>2, AppendProperties, LenProperties
<1>4. /\ p \in 1 .. Len(t) /\ Len(t) \in Nat /\ t[p] = a
      /\ \A j \in 1 .. p - 1 : t[j] # a
  BY <1>1, <1>3
<1>5. Place(t, a) = p
  BY <1>4, PlaceIs
<1>6. QED
  BY <1>1, <1>2, <1>5

\* a waits for its window.
WaitsFor(a) == wish[a] /\ win[a] # "shown" /\ ~Over

\* What comes before the next map request: the rest of a handler that has mapped its
\* window, or a handler that has not run.
Before ==
    CASE turn = "map" /\ sent # <<>> -> 0
      [] turn = "map" /\ sent = <<>> -> 1
      [] turn = "active"             -> 2
      [] turn = "raise"              -> 3
      [] turn = "focus"              -> 4

\* How far it is to a's window: the places before it, and what comes before the first.
Distance(a) == 5 * Place(Asked, a) + Before

LEMMA DistanceType ==
    ASSUME SessionInv, NobodyIsForgotten, NEW a \in App, WaitsFor(a)
    PROVE  /\ Distance(a) \in Nat /\ Place(Asked, a) \in Nat /\ Before \in 0 .. 4
           /\ Asked \in Seq(App) /\ \E i \in 1 .. Len(Asked) : Asked[i] = a
<1>1. Asked \in Seq(App) /\ \E i \in 1 .. Len(Asked) : Asked[i] = a
  BY AskedType DEF WaitsFor, NobodyIsForgotten
<1>2. Place(Asked, a) \in 1 .. Len(Asked) /\ Len(Asked) \in Nat
  BY <1>1, PlaceThere, LenProperties
<1>3. Before \in 0 .. 4
  BY AskedType DEF Before, Requests
<1>4. QED
  BY <1>1, <1>2, <1>3 DEF Distance

\* A handler that reads the next window when the server has taken everything, or does not
\* matter.
LEMMA HandlerNears ==
    ASSUME SessionInv, NobodyIsForgotten, NEW a \in App, WaitsFor(a), HandleMapRequest
    PROVE  /\ sent = <<>> => Distance(a)' < Distance(a)
           /\ sent # <<>> => Distance(a)' = Distance(a) /\ sent' # <<>>
<1>1. Asked' = Asked /\ sent' # <<>> /\ turn' = turn
  BY HandlerUnseen, ReadOne DEF HandleMapRequest
<1>2. sent = <<>> => turn = "map"
  BY AskedType
<1>3. Before' = IF sent = <<>> THEN Before - 1 ELSE Before
  BY <1>1, <1>2, AskedType DEF Before, Requests
<1>4. QED
  BY <1>1, <1>3, DistanceType DEF Distance

\* The server takes a request: the map request of the window at the head, or one that comes
\* before it.
LEMMA ServerNears ==
    ASSUME SessionInv, NobodyIsForgotten, NEW a \in App, WaitsFor(a),
           ServerTakes, WaitsFor(a)'
    PROVE  Distance(a)' < Distance(a)
<1>1. CASE turn = "map"
  <2>1. /\ Asked # <<>> /\ Head(Asked) = Head(sent) /\ Asked' = Tail(Asked)
        /\ turn' = "focus" /\ sent # <<>>
    BY <1>1, ServedAsked DEF ServerTakes
  <2>2. Before' = 4 /\ Before = 0
    BY <1>1, <2>1 DEF Before
  <2>3. Head(Asked) # a
    <3>1. Head(sent) \in App /\ win[Head(sent)] # "none"
      BY TakeOne DEF SessionInv, Made
    <3>2. win'[Head(sent)] = "shown" \/ wm' = "refused"
      BY <1>1, <3>1 DEF ServerTakes, Refused, NeedsWindow, SessionInv, TypeOK
    <3>3. QED
      BY <2>1, <3>2 DEF WaitsFor, Over
  <2>4. Place(Asked', a) = Place(Asked, a) - 1
    BY <2>1, <2>3, DistanceType, PlaceInTail
  <2>5. QED
    BY <2>2, <2>4, DistanceType DEF Distance
<1>2. CASE turn # "map"
  <2>1. Asked' = Asked /\ turn' = RequestAfter[turn]
    BY <1>2, ServedAsked DEF ServerTakes
  <2>2. Before' < Before /\ Before' \in 0 .. 4
    BY <1>2, <2>1, AskedType DEF Before, RequestAfter, Requests
  <2>3. QED
    BY <2>1, <2>2, DistanceType DEF Distance
<1>3. QED
  BY <1>1, <1>2

\* Nothing the applications do takes a waiting window further away.
LEMMA OthersLeaveIt ==
    ASSUME SessionInv, NobodyIsForgotten, NEW a \in App, WaitsFor(a),
           [Next]_vars, ~HandleMapRequest, ~ServerTakes, WaitsFor(a)'
    PROVE  Distance(a)' = Distance(a) /\ sent' = sent
<1>1. CASE UNCHANGED vars \/ WmInit \/ ErrorIsRead
             \/ \E b \in App : Launch(b) \/ RunLoop(b) \/ AppExit(b)
  <2>1. UNCHANGED <<win, events, sent, turn, focus, active>>
    BY <1>1 DEF vars, WmInit, ErrorIsRead, Launch, RunLoop, AppExit, clientVars, serverVars,
                wmVars
  <2>2. QED
    BY <2>1, SameView DEF Distance, Before
<1>2. ASSUME NEW b \in App, AskForWindow(b) PROVE Distance(a)' = Distance(a) /\ sent' = sent
  <2>1. sent' = sent /\ turn' = turn /\ (Asked' = Asked \/ Asked' = Append(Asked, b))
    BY <1>2, AskIsSeen DEF AskForWindow
  <2>2. Place(Asked', a) = Place(Asked, a)
    BY <2>1, DistanceType, PlaceInLonger
  <2>3. QED
    BY <2>1, <2>2 DEF Distance, Before
<1>3. ASSUME NEW b \in App, HideWindow(b) \/ AppEnds(b)
      PROVE  Distance(a)' = Distance(a) /\ sent' = sent
  <2>1. sent' = sent /\ turn' = turn /\ Asked' = Asked
    BY <1>3, WithdrawalIsSeen DEF HideWindow, AppEnds, wmVars
  <2>2. QED
    BY <2>1 DEF Distance, Before
<1>4. QED
  BY <1>1, <1>2, <1>3 DEF Next

\* What weak fairness asks of the window manager and of the server: as long as the session
\* goes on, whoever has something to do can do it. It is what the guards of the three actions
\* say, but says so with ENABLED, which is outside of what is proved here.
SomeoneCanGoOn ==
    /\ wm = "refused" => ENABLED <<ErrorIsRead>>_vars
    /\ wm = "running" =>
          /\ sent # <<>> => ENABLED <<ServerTakes>>_vars
          /\ events # <<>> => ENABLED <<HandleMapRequest>>_vars

\* What EveryWindowIsShown is proved of.
SessionFlow ==
    /\ []SessionInv /\ []NobodyIsForgotten /\ [][Next]_vars
    /\ WF_vars(HandleMapRequest) /\ WF_vars(ServerTakes) /\ WF_vars(ErrorIsRead)
    /\ []SomeoneCanGoOn

Distances == [a \in App |-> Distance(a)]
Waiters == [a \in App |-> WaitsFor(a)]

Windows == INSTANCE Descent WITH rank <- Distances, busy <- Waiters

\* A window that waits is with the server or, when the server has taken everything, next.
LEMMA WhoHelps ==
    ASSUME SessionInv, NobodyIsForgotten, NEW a \in App, WaitsFor(a), SomeoneCanGoOn
    PROVE  /\ sent # <<>> => ENABLED <<ServerTakes>>_vars
           /\ sent = <<>> => ENABLED <<HandleMapRequest>>_vars
<1>1. PICK i \in 1 .. Len(Asked) : Asked[i] = a
  BY DistanceType
<1>2. sent # <<>> \/ events # <<>>
  <2>1. ASSUME sent = <<>>, events = <<>> PROVE FALSE
    <3>1. turn = "map" /\ Asked = <<>> \o <<>>
      BY <2>1, AskedType DEF Asked
    <3>2. Len(Asked) = 0
      BY <3>1, EmptySeq, ConcatEmptySeq
    <3>3. QED
      BY <1>1, <3>2
  <2>2. QED
    BY <2>1
<1>3. wm = "running"
  BY <1>2 DEF SessionInv, TypeOK, Beginning, WaitsFor, Over
<1>4. QED
  BY <1>2, <1>3 DEF SomeoneCanGoOn

\* What a step makes of the distance.
LEMMA DistanceSteps ==
    ASSUME SessionInv, NobodyIsForgotten, NEW a \in App, WaitsFor(a), [Next]_vars,
           WaitsFor(a)'
    PROVE  /\ ServerTakes \/ (sent = <<>> /\ HandleMapRequest)
                => Distance(a)' < Distance(a)
           /\ \/ Distance(a)' < Distance(a)
              \/ Distance(a)' = Distance(a) /\ (sent' = <<>> <=> sent = <<>>)
BY HandlerNears, ServerNears, OthersLeaveIt

LEMMA WindowFalls ==
    ASSUME NEW a \in App, NEW n \in Nat PROVE SessionFlow => Windows!Falls(a, n)
<1> DEFINE Good == SessionInv /\ NobodyIsForgotten
<1> DEFINE At == WaitsFor(a) /\ Distance(a) = n
<1> DEFINE Done == ~WaitsFor(a) \/ Distance(a) < n
<1> DEFINE Free == sent = <<>>
<1>1. Good /\ At /\ [Next]_vars => (At' /\ (Free' <=> Free)) \/ Done'
  BY DistanceSteps
<1>2. Good /\ At /\ [Next]_vars /\ ((Free /\ HandleMapRequest) \/ ServerTakes) => Done'
  BY DistanceSteps
<1>3. Good /\ At /\ SomeoneCanGoOn => /\ ~Free => ENABLED <<ServerTakes>>_vars
                                      /\ Free => ENABLED <<HandleMapRequest>>_vars
  BY WhoHelps
<1> HIDE DEF Good, At, Done, Free
<1>4. SessionFlow => [](At => <>Done)
  <2>1. SessionFlow => []Good
    BY PTL DEF SessionFlow, Good
  <2>2. QED
    BY <1>1, <1>2, <1>3, <2>1, PTL DEF SessionFlow
<1>5. /\ Waiters[a] <=> WaitsFor(a)
      /\ Distances[a] = n <=> Distance(a) = n
      /\ Distances[a] < n <=> Distance(a) < n
  BY DEF Waiters, Distances
<1>6. QED
  BY <1>4, <1>5, PTL DEF At, Done, Windows!Falls

\* A refused request ends the session.
LEMMA RefusalEnds == SessionFlow => (Over ~> wm = "ended")
<1>1. wm = "refused" /\ [Next]_vars => (wm = "refused" \/ wm = "ended")'
  <2> SUFFICES ASSUME wm = "refused", [Next]_vars PROVE wm' \in {"refused", "ended"}
    OBVIOUS
  <2>1. CASE UNCHANGED vars \/ WmInit \/ HandleMapRequest \/ ServerTakes \/ ErrorIsRead
    BY <2>1 DEF vars, WmInit, HandleMapRequest, ServerTakes, ErrorIsRead
  <2>2. CASE \E a \in App : Launch(a) \/ RunLoop(a) \/ AppExit(a) \/ AskForWindow(a)
                              \/ HideWindow(a) \/ AppEnds(a)
    BY <2>2 DEF Launch, RunLoop, AppExit, AskForWindow, HideWindow, AppEnds
  <2>3. QED
    BY <2>1, <2>2 DEF Next
<1>2. <<ErrorIsRead>>_vars => (wm = "ended")'
  BY DEF ErrorIsRead
<1>3. Over => wm = "refused" \/ wm = "ended"
  BY DEF Over
<1>4. wm = "refused" /\ SomeoneCanGoOn => ENABLED <<ErrorIsRead>>_vars
  BY DEF SomeoneCanGoOn
<1>5. QED
  BY <1>1, <1>2, <1>3, <1>4, PTL DEF SessionFlow

\* EveryWindowIsShown: whatever the applications do meanwhile, the window manager and the
\* server come to the map request of every window, as long as both are scheduled (wm_run,
\* handle_map_request).
THEOREM EveryWindowComesUp == Spec /\ []SomeoneCanGoOn => EveryWindowIsShown
<1>1. Spec /\ []SomeoneCanGoOn => SessionFlow
  BY SessionInvariant, NobodyIsEverForgotten, PTL DEF Spec, Fairness, SessionFlow
<1>2. ASSUME NEW a \in App
      PROVE  SessionFlow => (wish[a] ~> win[a] = "shown" \/ ~wish[a] \/ wm = "ended")
  <2>1. /\ Waiters[a] <=> WaitsFor(a)
        /\ Distances[a] = Distance(a)
    BY DEF Waiters, Distances
  <2>2. SessionFlow => Windows!Ranked(a)
    <3>1. SessionInv /\ NobodyIsForgotten => (Waiters[a] => Distances[a] \in Nat)
      BY <2>1, DistanceType
    <3>2. QED
      BY <3>1, PTL DEF SessionFlow, Windows!Ranked
  <2>3. SessionFlow => Windows!Descends(a)
    BY <2>2, WindowFalls DEF Windows!Descends
  <2>4. SessionFlow => Windows!Descending(a)
    BY <2>3, PTL DEF SessionFlow, Windows!Descending
  <2>5. Windows!Descending(a) => Windows!Rests(a)
    BY Windows!Descent
  <2>6. SessionFlow => (WaitsFor(a) ~> ~WaitsFor(a))
    BY <2>1, <2>4, <2>5, PTL DEF Windows!Rests
  <2>7. ~WaitsFor(a) => win[a] = "shown" \/ ~wish[a] \/ Over
    BY DEF WaitsFor
  <2>8. wish[a] => WaitsFor(a) \/ win[a] = "shown" \/ Over
    BY DEF WaitsFor
  <2>9. QED
    BY <2>6, <2>7, <2>8, RefusalEnds, PTL
<1>3. QED
  BY <1>1, <1>2 DEF EveryWindowIsShown

=============================================================================
