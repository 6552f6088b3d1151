------------------- MODULE SystemServicesRefinementProofs --------------------
(***************************************************************************)
(* Proof that the two bus services implement BusCalls. What a client sees  *)
(* of a step is one of the five steps of BusCalls (Staying, Watching,      *)
(* Losing, Asking, Hearing); a step of the services lets at most one       *)
(* client speak, and does not change what is right when it does.           *)
(***************************************************************************)
EXTENDS SystemServicesProofs, SystemServicesRefinement

Seen(c) ==
    Calls!Ask(c) \/ Calls!Refused(c) \/ Calls!Answered(c) \/ Calls!Lost(c) \/ Calls!Stays(c)

\* A client of whom nothing changes: what is right for it is among its truths already.
LEMMA Staying ==
    ASSUME ServicesInv', NEW c \in Client,
           call'[c] = call[c], request'[c] = request[c], truth'[c] = truth[c]
    PROVE  Calls!Stays(c)
<1>1. CASE call[c] = "waiting"
  <2>1. request'[c] \in Request /\ Truthful(c)'
    BY <1>1 DEF ServicesInv, Awaited
  <2>2. [q \in Request |-> Right(q, file', valid')][request[c]] \subseteq truth[c]
    BY <2>1 DEF Truthful
  <2>3. QED
    BY <1>1, <2>2 DEF Calls!Stays
<1>2. CASE call[c] # "waiting"
  BY <1>2 DEF Calls!Stays
<1>3. QED
  BY <1>1, <1>2

\* A client who waits while what is right changes.
LEMMA Watching ==
    ASSUME ServicesInv, Witness(file', valid'), UNCHANGED <<call, request>>, NEW c \in Client
    PROVE  Calls!Stays(c)
<1>1. /\ call[c] = "waiting" => truth'[c] = truth[c] \cup Right(request[c], file', valid')
      /\ call[c] # "waiting" => truth'[c] = truth[c]
  BY DEF Witness
<1>2. call[c] = "waiting" => request[c] \in Request
  BY DEF ServicesInv, Awaited
<1>3. QED
  BY <1>1, <1>2 DEF Calls!Stays

LEMMA ForeignFacts ==
    \A q : Foreign(q) \subseteq Verdict /\ Foreign(q)' \subseteq Verdict
BY DEF Foreign, Says, Verdict

\* A step of BusCalls from what the clients see.
LEMMA Together ==
    ASSUME \A c \in Client : Seen(c),
           \A c, d \in Client :
             /\ call'[c] # call[c] /\ call'[c] # "error"
             /\ call'[d] # call[d] /\ call'[d] # "error"
             => c = d,
           UNCHANGED <<file, valid>> \/ \A c \in Client : Calls!Stays(c)
    PROVE  Calls!Next
<1>1. \A c \in Client : Calls!Speaks(c) => call'[c] # call[c] /\ call'[c] # "error"
  BY DEF Calls!Speaks, Calls!Ask, Calls!Answered, Verdict
<1>2. /\ [q \in Request |-> Right(q, file', valid')] \in [Request -> SUBSET Verdict]
      /\ [q \in Request |-> Foreign(q)'] \in [Request -> SUBSET Verdict]
  BY RightFacts, ForeignFacts
<1>3. [q \in Request |-> Right(q, file', valid')] # [q \in Request |-> Right(q, file, valid)]
        => \A c \in Client : Calls!Stays(c)
  OBVIOUS
<1>4. Blind' \in BOOLEAN
  BY DEF Blind
<1>5. QED
  BY <1>1, <1>2, <1>3, <1>4 DEF Calls!Next, Seen

\* Nothing happens to any client.
LEMMA AllStay ==
    ASSUME ServicesInv', UNCHANGED <<call, request, truth>>
    PROVE  Calls!Next
<1>1. \A c \in Client : Calls!Stays(c)
  BY Staying
<1>2. QED
  BY <1>1, Together DEF Seen

\* What is right changes.
LEMMA AllWatch ==
    ASSUME ServicesInv, Witness(file', valid'), UNCHANGED <<call, request>>
    PROVE  Calls!Next
<1>1. \A c \in Client : Calls!Stays(c)
  BY Watching
<1>2. QED
  BY <1>1, Together DEF Seen

LEMMA TimeoutIsSeen ==
    ASSUME ServicesInv, ServicesInv', NEW c \in Client, Timeout(c)
    PROVE  Calls!Next
<1>1. /\ call[c] = "waiting" /\ call'[c] = "timeout"
      /\ request'[c] = Nothing /\ truth'[c] = {}
      /\ UNCHANGED <<file, valid>>
      /\ \A d \in Client : d # c => call'[d] = call[d] /\ request'[d] = request[d]
                                    /\ truth'[d] = truth[d]
  BY DEF Timeout, Drop, worldVars, ServicesInv, CallsOK
<1>2. Calls!Lost(c)
  BY <1>1 DEF Calls!Lost
<1>3. \A d \in Client : d # c => Calls!Stays(d)
  BY <1>1, Staying
<1>4. QED
  BY <1>1, <1>2, <1>3, Together DEF Seen

LEMMA CrashIsSeen ==
    ASSUME ServicesInv, ServicesInv', NEW s \in Service, Crash(s)
    PROVE  Calls!Next
<1>1. /\ UNCHANGED <<file, valid>>
      /\ \A c \in Client : Waits(c, s) => call[c] = "waiting" /\ call'[c] = "error"
                                          /\ request'[c] = Nothing /\ truth'[c] = {}
      /\ \A c \in Client : ~Waits(c, s) => call'[c] = call[c] /\ request'[c] = request[c]
                                           /\ truth'[c] = truth[c]
  BY DEF Crash, Drop, Waits
<1>2. \A c \in Client : Waits(c, s) => Calls!Lost(c)
  BY <1>1 DEF Calls!Lost
<1>3. \A c \in Client : ~Waits(c, s) => Calls!Stays(c)
  BY <1>1, Staying
<1>4. QED
  BY <1>1, <1>2, <1>3, Together DEF Seen

LEMMA CallIsSeen ==
    ASSUME ServicesInv, ServicesInv', NEW c \in Client, NEW q \in Request, Call(c, q)
    PROVE  Calls!Next
<1>1. /\ call[c] # "waiting" /\ UNCHANGED <<file, valid>>
      /\ \/ /\ call'[c] = "waiting" /\ request'[c] = q
            /\ truth'[c] = Right(q, file, valid)
         \/ call'[c] = "error" /\ request'[c] = Nothing /\ truth'[c] = {}
      /\ \A d \in Client : d # c => call'[d] = call[d] /\ request'[d] = request[d]
                                    /\ truth'[d] = truth[d]
  BY DEF Call, Drop, worldVars, ServicesInv, CallsOK
<1>2. Calls!Ask(c) \/ Calls!Refused(c)
  BY <1>1 DEF Calls!Ask, Calls!Refused
<1>3. \A d \in Client : d # c => Calls!Stays(d)
  BY <1>1, Staying
<1>4. QED
  BY <1>1, <1>2, <1>3, Together DEF Seen

\* An answer is heard, or nobody waits for it any more.
LEMMA ReplyIsSeen ==
    ASSUME ServicesInv, ServicesInv', UNCHANGED <<file, valid>>,
           NEW m \in Messages, NEW v \in Verdict, NEW e, Reply(m, v, e),
           call[m.client] = "waiting" /\ serial[m.client] = m.serial =>
             \/ v \in truth[m.client]
             \/ /\ Blind /\ request[m.client] \in Of("CheckPrivilege")
                /\ v = BuiltIn(request[m.client])
             \/ request[m.client] \in Request /\ v \in Foreign(request[m.client])
             \/ /\ v = "no"
                /\ request[m.client] \in Of("CheckPrivilege") \cup Of("AuthenticateUser")
             \/ v = "yes" /\ request[m.client] \in Of("RequestPermissionConsent")
    PROVE  Calls!Next
<1>1. PICK c \in Client : c = m.client
  BY DEF Messages
<1>2. CASE call[c] = "waiting" /\ serial[c] = m.serial
  <2>1. /\ call'[c] = v /\ request'[c] = Nothing /\ truth' = truth
        /\ \A d \in Client : d # c => call'[d] = call[d] /\ request'[d] = request[d]
    BY <1>1, <1>2 DEF Reply, ServicesInv, CallsOK
  <2>2. Calls!Answered(c)
    <3>1. /\ call[c] = "waiting" /\ call'[c] \in Verdict
          /\ request'[c] = Nothing /\ truth'[c] = truth[c]
      BY <1>2, <2>1
    <3>2. \/ v \in truth[c]
          \/ Blind /\ request[c] \in Of("CheckPrivilege") /\ v = BuiltIn(request[c])
          \/ request[c] \in Request /\ v \in Foreign(request[c])
          \/ v = "no" /\ request[c] \in Of("CheckPrivilege") \cup Of("AuthenticateUser")
          \/ v = "yes" /\ request[c] \in Of("RequestPermissionConsent")
      BY <1>1, <1>2
    <3>3. /\ \A q \in Of("CheckPrivilege") : [r \in Request |-> BuiltIn(r)][q] = BuiltIn(q)
          /\ \A q \in Request : [r \in Request |-> Foreign(r)][q] = Foreign(q)
      BY DEF Of
    <3>4. \/ call'[c] \in truth[c]
          \/ /\ Blind /\ request[c] \in Of("CheckPrivilege")
             /\ call'[c] = [q \in Request |-> BuiltIn(q)][request[c]]
          \/ call'[c] \in [q \in Request |-> Foreign(q)][request[c]]
          \/ /\ call'[c] = "no"
             /\ request[c] \in Of("CheckPrivilege") \cup Of("AuthenticateUser")
          \/ call'[c] = "yes" /\ request[c] \in Of("RequestPermissionConsent")
      BY <2>1, <3>2, <3>3
    <3>5. QED
      BY <3>1, <3>4 DEF Calls!Answered
  <2>3. \A d \in Client : d # c => Calls!Stays(d)
    BY <2>1, Staying
  <2>4. QED
    BY <2>1, <2>2, <2>3, Together DEF Seen
<1>3. CASE ~(call[c] = "waiting" /\ serial[c] = m.serial)
  BY <1>1, <1>3, AllStay DEF Reply
<1>4. QED
  BY <1>2, <1>3

\* The answer of cynara-daemon.c, and of auth-daemon.c when PAM is not needed.
LEMMA DispatchIsSeen ==
    ASSUME ServicesInv, ServicesInv', NEW s \in Service, unit[s] = "named", queue[s] # <<>>,
           UNCHANGED <<file, valid>>, NEW m, m = Head(queue[s]),
           NEW v \in Verdict, NEW e, Reply(m, v, e),
           \/ v \in Right(m.q, file, valid)
           \/ Blind /\ m.q.method = "CheckPrivilege" /\ v = BuiltIn(m.q)
           \/ v \in Foreign(m.q)
           \/ v = "no" /\ m.q.method \in {"CheckPrivilege", "AuthenticateUser"}
           \/ v = "yes" /\ m.q.method = "RequestPermissionConsent"
    PROVE  Calls!Next
<1>1. m \in Messages
  BY Tails DEF ServicesInv, Queued
<1>2. m.q \in Request
  BY <1>1 DEF Messages
<1>3. QED
  BY <1>1, <1>2, HeadIsMeant, ReplyIsSeen DEF Of

LEMMA CheckIsSeen == ServicesInv /\ ServicesInv' /\ HandleCheck => Calls!Next
<1> SUFFICES ASSUME ServicesInv, ServicesInv', HandleCheck PROVE Calls!Next
  OBVIOUS
<1>1. PICK m : m = Head(queue["cynara"])
  OBVIOUS
<1>2. /\ unit["cynara"] = "named" /\ queue["cynara"] # <<>>
      /\ m.q.method = "CheckPrivilege" /\ UNCHANGED <<file, valid>> /\ "cynara" \in Service
  BY <1>1 DEF HandleCheck, Dispatch, worldVars, Service
<1>3. m \in Messages /\ m.q \in Request
  BY <1>1, <1>2, Tails DEF ServicesInv, Queued, Messages
<1>4. PICK v, e :
        /\ Reply(m, v, e) /\ v \in Verdict
        /\ \/ v = IF Busy THEN BuiltIn(m.q)
                  ELSE CheckPrivilege(IF db = "memory" THEN Seeded(Empty) ELSE file, m.q)
           \/ v = "no"
  BY <1>1, <1>3, CheckVerdict DEF HandleCheck
<1>5. CASE v = "no"
  BY <1>1, <1>2, <1>4, <1>5, DispatchIsSeen
<1>6. CASE (Busy \/ db = "memory") /\ v = BuiltIn(m.q)
  BY <1>1, <1>2, <1>4, <1>6, DispatchIsSeen DEF Blind, Busy
<1>7. CASE ~Busy /\ db # "memory" /\ v = CheckPrivilege(file, m.q)
  <2>1. file # NoFile
    BY <1>2, <1>7 DEF ServicesInv, UnitsOK
  <2>2. v \in Right(m.q, file, valid) \/ v \in Foreign(m.q)
    <3>1. CASE Trusted(m.q)
      BY <1>2, <1>3, <1>7, <3>1, CheckFacts
    <3>2. CASE ~Trusted(m.q) /\ RowsFor(file, m.q) # {}
      BY <1>2, <1>3, <1>7, <2>1, <3>2, CheckFacts DEF Foreign
    <3>3. CASE ~Trusted(m.q) /\ RowsFor(file, m.q) = {}
      BY <1>2, <1>7, <2>1, <3>3 DEF CheckPrivilege, Right, Policy, RulesOn
    <3>4. QED
      BY <3>1, <3>2, <3>3
  <2>3. QED
    BY <1>1, <1>2, <1>4, <2>2, DispatchIsSeen
<1>8. CheckPrivilege(Seeded(Empty), m.q) = BuiltIn(m.q)
  BY <1>2, <1>3, CheckFacts
<1>9. QED
  BY <1>4, <1>5, <1>6, <1>7, <1>8

LEMMA ConsentIsSeen == ServicesInv /\ ServicesInv' /\ HandleConsent => Calls!Next
<1> SUFFICES ASSUME ServicesInv, ServicesInv', HandleConsent PROVE Calls!Next
  OBVIOUS
<1>1. PICK m : m = Head(queue["auth"])
  OBVIOUS
<1>2. /\ unit["auth"] = "named" /\ queue["auth"] # <<>> /\ UNCHANGED <<file, valid>>
      /\ m.q.method = "RequestPermissionConsent" /\ Reply(m, "yes", "prompt")
      /\ "auth" \in Service /\ "yes" \in Verdict
  BY <1>1 DEF HandleConsent, Dispatch, worldVars, Service, Verdict
<1>3. QED
  BY <1>1, <1>2, DispatchIsSeen

LEMMA PamStartIsSeen == ServicesInv /\ ServicesInv' /\ PamStart => Calls!Next
<1> SUFFICES ASSUME ServicesInv, ServicesInv', PamStart PROVE Calls!Next
  OBVIOUS
<1>1. PICK m : m = Head(queue["auth"])
  OBVIOUS
<1>2. /\ unit["auth"] = "named" /\ queue["auth"] # <<>> /\ UNCHANGED <<file, valid>>
      /\ m.q.method = "AuthenticateUser" /\ "auth" \in Service /\ "no" \in Verdict
  BY <1>1 DEF PamStart, Dispatch, worldVars, Service, Verdict
<1>3. CASE UNCHANGED clientVars
  BY <1>3, AllStay DEF clientVars
<1>4. CASE Reply(m, "no", "refused")
  BY <1>1, <1>2, <1>4, DispatchIsSeen
<1>5. QED
  BY <1>1, <1>3, <1>4 DEF PamStart

\* The exits of perform_pam_auth.
LEMMA PamIsSeen == ServicesInv /\ ServicesInv' /\ (PamAuthenticate \/ PamAccount) => Calls!Next
<1> SUFFICES ASSUME ServicesInv, ServicesInv', PamAuthenticate \/ PamAccount PROVE Calls!Next
  OBVIOUS
<1>1. PICK m : m = handling
  OBVIOUS
<1>2. /\ m # Nobody /\ m \in Messages /\ m.q \in Request /\ m.q.method = "AuthenticateUser"
      /\ stage = "account" => Accepted(m.q)
      /\ UNCHANGED <<file, valid>>
  BY <1>1 DEF PamAuthenticate, PamAccount, ServicesInv, Desked, Messages, worldVars
<1>3. \/ UNCHANGED clientVars
      \/ Reply(m, "no", "none") \/ Reply(m, "no", "refused")
      \/ valid /\ Accepted(m.q) /\ Reply(m, "yes", "none")
  BY <1>1, <1>2 DEF PamAuthenticate, PamAccount, PamEnd
<1>4. "yes" \in Verdict /\ "no" \in Verdict
  BY DEF Verdict
<1>5. call[m.client] = "waiting" /\ serial[m.client] = m.serial =>
        /\ request[m.client] \in Of("AuthenticateUser")
        /\ valid /\ Accepted(m.q) => "yes" \in truth[m.client]
  BY <1>1, <1>2, DeskIsMeant DEF Of, Right
<1>6. CASE UNCHANGED clientVars
  BY <1>6, AllStay DEF clientVars
<1>7. CASE \E e : Reply(m, "no", e)
  BY <1>2, <1>4, <1>5, <1>7, ReplyIsSeen
<1>8. CASE valid /\ Accepted(m.q) /\ Reply(m, "yes", "none")
  BY <1>2, <1>4, <1>5, <1>8, ReplyIsSeen
<1>9. QED
  BY <1>3, <1>6, <1>7, <1>8

LEMMA WorldIsSeen ==
    ASSUME ServicesInv, ServicesInv',
           MakeFile \/ Expire \/ \E r \in Row, v \in {"none", "allow", "deny"} : Commit(r, v)
    PROVE  Calls!Next
<1>1. Witness(file', valid') /\ UNCHANGED <<call, request>>
  BY DEF MakeFile, Expire, Commit, Witness
<1>2. QED
  BY <1>1, AllWatch

\* The services implement the calls they promise (handle_method_call of both daemons,
\* perform_pam_auth, the bus).
THEOREM ServicesImplementBusCalls == Spec => ImplementsBusCalls
<1>1. Init => Calls!Init
  <2>1. /\ [q \in Request |-> Right(q, file, valid)] \in [Request -> SUBSET Verdict]
        /\ [q \in Request |-> Foreign(q)] \in [Request -> SUBSET Verdict]
    BY RightFacts, ForeignFacts
  <2>2. QED
    BY <2>1 DEF Init, Calls!Init, Blind
<1>2. ServicesInv /\ ServicesInv' /\ [Next]_vars => Calls!Next
  <2> SUFFICES ASSUME ServicesInv, ServicesInv', [Next]_vars PROVE Calls!Next
    OBVIOUS
  <2>1. ASSUME NEW s \in Service, Daemon(s) PROVE Calls!Next
    BY <2>1, AllStay DEF Daemon, Start, OnBusAcquired, NameAcquired, clientVars
  <2>2. ASSUME NEW s \in Service, Crash(s) PROVE Calls!Next
    BY <2>2, CrashIsSeen
  <2>3. CASE Cynara
    BY <2>3, AllStay, CheckIsSeen DEF Cynara, InitDatabase, clientVars
  <2>4. CASE Auth
    BY <2>4, AllStay, ConsentIsSeen, PamStartIsSeen, PamIsSeen DEF Auth, InitAuth, clientVars
  <2>5. ASSUME NEW c \in Client, Timeout(c) PROVE Calls!Next
    BY <2>5, TimeoutIsSeen
  <2>6. ASSUME NEW c \in Client, NEW q \in Request, Call(c, q) PROVE Calls!Next
    BY <2>6, CallIsSeen
  <2>7. CASE Begin \/ Flush
    BY <2>7, AllStay DEF Begin, Flush, clientVars
  <2>8. CASE \/ MakeFile \/ Expire
             \/ \E r \in Row, v \in {"none", "allow", "deny"} : Commit(r, v)
    BY <2>8, WorldIsSeen
  <2>9. CASE UNCHANGED vars
    BY <2>9, AllStay DEF vars, clientVars
  <2>10. QED
    BY <2>1, <2>2, <2>3, <2>4, <2>5, <2>6, <2>7, <2>8, <2>9 DEF Next
<1>3. QED
  BY <1>1, <1>2, ServicesInvariant, PTL DEF Spec, ImplementsBusCalls, Calls!Spec

=============================================================================
