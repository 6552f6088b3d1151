------------------------ MODULE SystemServicesProofs -------------------------
(***************************************************************************)
(* Proofs about the two bus services, for any number of clients, calls,    *)
(* faults and policies. Kept says where the call of a waiting client is,   *)
(* Meant that it is the call it waits for, and Awaited that the answer     *)
(* which is right now is among those it may be given.                      *)
(***************************************************************************)
EXTENDS SystemServices, SequenceTheorems, NaturalsInduction, WellFoundedInduction, TLAPS

\* How often a call is in a queue.
Once(s, c, n) ==
    \E i \in 1 .. Len(s) :
        /\ s[i].client = c /\ s[i].serial = n
        /\ \A k \in 1 .. Len(s) : s[k].client = c /\ s[k].serial = n => k = i
Never(s, c, n) == \A k \in 1 .. Len(s) : ~(s[k].client = c /\ s[k].serial = n)

UnitsOK ==
    /\ unit \in [Service ->
                   {"absent", "down", "opening", "registering", "owning", "named", "failed"}]
    /\ starts \in [Service -> 0 .. StartLimit]
    /\ db \in {"none", "file", "memory"}
    /\ file \in {NoFile} \cup Table
    /\ unit["cynara"] \in {"registering", "owning", "named"} => db \in {"file", "memory"}
    /\ db = "file" => file # NoFile

WorldOK ==
    /\ lock \in {"free", "reserved", "exclusive"} /\ valid \in BOOLEAN
    /\ faults \in 0 .. MaxFaults /\ changes \in 0 .. MaxChanges
    /\ lock # "free" => file # NoFile

CallsOK ==
    /\ call \in [Client -> {"idle", "waiting", "error", "timeout"} \cup Verdict]
    /\ serial \in [Client -> Nat] /\ \A c \in Client : serial[c] <= MaxCalls[c]
    /\ request \in [Client -> {Nothing} \cup Request]
    /\ truth \in [Client -> SUBSET Verdict]
    /\ excused \in [Client -> Excuses]

\* A queue holds calls of its service, none of them newer than its client's latest.
Queued ==
    /\ queue \in [Service -> Seq(Messages)]
    /\ \A s \in Service : unit[s] # "named" => queue[s] = <<>>
    /\ \A s \in Service : \A i \in 1 .. Len(queue[s]) :
         /\ ServiceOf(queue[s][i].q) = s
         /\ queue[s][i].serial <= serial[queue[s][i].client]

\* The state of tizen-auth: a call is on PAM's desk while a handle is open.
Desked ==
    /\ handling \in {Nobody} \cup Messages
    /\ stage \in {"idle", "authenticate", "account"}
    /\ stage = "idle" <=> handling = Nobody
    /\ pam = IF handling = Nobody THEN 0 ELSE 1
    /\ handling # Nobody =>
         /\ unit["auth"] = "named"
         /\ handling.serial <= serial[handling.client]
         /\ handling.q.method = "AuthenticateUser"
    /\ stage = "account" => Accepted(handling.q)

Kept(c) ==
    \E s \in Service :
        /\ s = ServiceOf(request[c]) /\ unit[s] = "named"
        /\ \/ Once(queue[s], c, serial[c]) /\ ~Desk(c)
           \/ s = "auth" /\ Desk(c) /\ Never(queue[s], c, serial[c])

Meant(c) ==
    /\ \A s \in Service : \A i \in 1 .. Len(queue[s]) :
         queue[s][i].client = c /\ queue[s][i].serial = serial[c]
           => queue[s][i].q = request[c]
    /\ Desk(c) => handling.q = request[c]

Truthful(c) == Right(request[c], file, valid) \subseteq truth[c]

Awaited ==
    \A c \in Client : call[c] = "waiting" =>
        request[c] \in Request /\ Kept(c) /\ Meant(c) /\ Truthful(c)

ServicesInv ==
    UnitsOK /\ WorldOK /\ CallsOK /\ Queued /\ Desked /\ Awaited /\ AnswersAreTimely

-----------------------------------------------------------------------------
(* Queues.                                                                 *)

LEMMA AppendedOther ==
    ASSUME NEW s \in Seq(Messages), NEW m \in Messages, NEW c, NEW n,
           ~(m.client = c /\ m.serial = n)
    PROVE  /\ Once(s, c, n) => Once(Append(s, m), c, n)
           /\ Never(s, c, n) => Never(Append(s, m), c, n)
<1>1. /\ Len(s) \in Nat /\ Len(Append(s, m)) = Len(s) + 1
      /\ \A i \in 1 .. Len(s) : Append(s, m)[i] = s[i]
      /\ Append(s, m)[Len(s) + 1] = m
  BY AppendProperties, LenProperties
<1>2. \A i \in 1 .. Len(Append(s, m)) : i \in 1 .. Len(s) \/ i = Len(s) + 1
  BY <1>1
<1>3. \A i \in 1 .. Len(s) : i \in 1 .. Len(Append(s, m))
  BY <1>1
<1>4. Never(s, c, n) => Never(Append(s, m), c, n)
  BY <1>1, <1>2 DEF Never
<1>5. ASSUME Once(s, c, n) PROVE Once(Append(s, m), c, n)
  <2>1. PICK i \in 1 .. Len(s) :
          /\ s[i].client = c /\ s[i].serial = n
          /\ \A k \in 1 .. Len(s) : s[k].client = c /\ s[k].serial = n => k = i
    BY <1>5 DEF Once
  <2>2. i \in 1 .. Len(Append(s, m)) /\ Append(s, m)[i] = s[i]
    BY <1>1, <1>3
  <2>3. ASSUME NEW k \in 1 .. Len(Append(s, m)), Append(s, m)[k].client = c,
               Append(s, m)[k].serial = n
        PROVE  k = i
    BY <1>1, <1>2, <2>1, <2>3
  <2>4. QED
    BY <2>1, <2>2, <2>3 DEF Once
<1>6. QED
  BY <1>4, <1>5

LEMMA AppendedIt ==
    ASSUME NEW s \in Seq(Messages), NEW m \in Messages, Never(s, m.client, m.serial)
    PROVE  Once(Append(s, m), m.client, m.serial)
<1>1. /\ Len(s) \in Nat /\ Len(Append(s, m)) = Len(s) + 1
      /\ \A i \in 1 .. Len(s) : Append(s, m)[i] = s[i]
      /\ Append(s, m)[Len(s) + 1] = m
  BY AppendProperties, LenProperties
<1>2. \A i \in 1 .. Len(Append(s, m)) : i \in 1 .. Len(s) \/ i = Len(s) + 1
  BY <1>1
<1>3. Len(s) + 1 \in 1 .. Len(Append(s, m))
  BY <1>1
<1>4. QED
  BY <1>1, <1>2, <1>3 DEF Once, Never

LEMMA Tails ==
    ASSUME NEW s \in Seq(Messages), s # <<>>
    PROVE  /\ Head(s) \in Messages /\ Tail(s) \in Seq(Messages) /\ Head(s) = s[1]
           /\ 1 \in 1 .. Len(s) /\ Len(Tail(s)) = Len(s) - 1 /\ Len(s) \in Nat
           /\ \A i \in 1 .. Len(Tail(s)) : i + 1 \in 1 .. Len(s) /\ Tail(s)[i] = s[i + 1]
           /\ \A i \in 1 .. Len(s) : i # 1 => i - 1 \in 1 .. Len(Tail(s))
<1>1. Len(s) \in Nat \ {0}
  BY EmptySeq
<1>2. /\ Head(s) \in Messages /\ Tail(s) \in Seq(Messages) /\ Len(Tail(s)) = Len(s) - 1
      /\ \A i \in 1 .. Len(Tail(s)) : Tail(s)[i] = s[i + 1]
  BY HeadTailProperties
<1>3. Head(s) = s[1]
  OBVIOUS
<1>4. QED
  BY <1>1, <1>2, <1>3

LEMMA TailOther ==
    ASSUME NEW s \in Seq(Messages), s # <<>>, NEW c, NEW n,
           ~(Head(s).client = c /\ Head(s).serial = n)
    PROVE  /\ Once(s, c, n) => Once(Tail(s), c, n)
           /\ Never(s, c, n) => Never(Tail(s), c, n)
<1>1. Never(s, c, n) => Never(Tail(s), c, n)
  BY Tails DEF Never
<1>2. ASSUME Once(s, c, n) PROVE Once(Tail(s), c, n)
  <2>1. PICK i \in 1 .. Len(s) :
          /\ s[i].client = c /\ s[i].serial = n
          /\ \A k \in 1 .. Len(s) : s[k].client = c /\ s[k].serial = n => k = i
    BY <1>2 DEF Once
  <2>2. i # 1
    BY <2>1, Tails
  <2>3. i - 1 \in 1 .. Len(Tail(s)) /\ Tail(s)[i - 1] = s[i]
    BY <2>2, Tails
  <2>4. ASSUME NEW k \in 1 .. Len(Tail(s)), Tail(s)[k].client = c, Tail(s)[k].serial = n
        PROVE  k = i - 1
    <3>1. k + 1 \in 1 .. Len(s) /\ Tail(s)[k] = s[k + 1]
      BY Tails
    <3>2. k + 1 = i
      BY <2>1, <2>4, <3>1
    <3>3. QED
      BY <3>2
  <2>5. QED
    BY <2>1, <2>3, <2>4 DEF Once
<1>3. QED
  BY <1>1, <1>2

LEMMA TailIt ==
    ASSUME NEW s \in Seq(Messages), s # <<>>, NEW c, NEW n,
           Head(s).client = c, Head(s).serial = n
    PROVE  /\ ~Never(s, c, n)
           /\ Once(s, c, n) => Never(Tail(s), c, n)
<1>1. ~Never(s, c, n)
  BY Tails DEF Never
<1>2. ASSUME Once(s, c, n) PROVE Never(Tail(s), c, n)
  <2>1. PICK i \in 1 .. Len(s) :
          /\ s[i].client = c /\ s[i].serial = n
          /\ \A k \in 1 .. Len(s) : s[k].client = c /\ s[k].serial = n => k = i
    BY <1>2 DEF Once
  <2>2. i = 1
    BY <2>1, Tails
  <2>3. ASSUME NEW k \in 1 .. Len(Tail(s)), Tail(s)[k].client = c, Tail(s)[k].serial = n
        PROVE  FALSE
    <3>1. k + 1 \in 1 .. Len(s) /\ Tail(s)[k] = s[k + 1]
      BY Tails
    <3>2. k + 1 = 1
      BY <2>1, <2>2, <2>3, <3>1
    <3>3. QED
      BY <3>2
  <2>4. QED
    BY <2>3 DEF Never
<1>3. QED
  BY <1>1, <1>2

-----------------------------------------------------------------------------
(* Answers.                                                                *)

LEMMA RequestFacts ==
    ASSUME NEW q \in Request
    PROVE  /\ q.method \in {"CheckPrivilege", "AuthenticateUser", "RequestPermissionConsent"}
           /\ q.method = "RequestPermissionConsent" => q.user \in Verdict
BY ServicesAssumption

LEMMA RightFacts ==
    ASSUME NEW q \in Request, NEW table, NEW ok
    PROVE  /\ Right(q, table, ok) \subseteq Verdict
           /\ CheckPrivilege(table, q) \in Verdict /\ BuiltIn(q) \in Verdict
           /\ q.method # "CheckPrivilege" => \A t : Right(q, t, ok) = Right(q, table, ok)
<1>1. BuiltIn(q) \in Verdict /\ \A t : \A r : Says(t, r) \in Verdict
  BY DEF BuiltIn, NoRow, Says, Verdict
<1>2. \A t : CheckPrivilege(t, q) \in Verdict /\ Policy(t, q) \subseteq Verdict
  BY <1>1 DEF CheckPrivilege, Policy
<1>3. Right(q, table, ok) \subseteq Verdict
  BY <1>2, RequestFacts DEF Right, Verdict
<1>4. q.method # "CheckPrivilege" => \A t : Right(q, t, ok) = Right(q, table, ok)
  BY DEF Right
<1>5. QED
  BY <1>1, <1>2, <1>3, <1>4

LEMMA TableFacts ==
    /\ Empty \in Table
    /\ \A t \in Table : Seeded(t) \in Table
    /\ \A t \in Table, r \in Row : t[r] # "none" => Seeded(t)[r] = t[r]
<1> USE ServicesAssumption
<1>1. Empty \in Table
  BY DEF Empty, Table
<1>2. \A t \in Table : Seeded(t) \in Table
  BY DEF Seeded, Table
<1>3. \A t \in Table, r \in Row : t[r] # "none" => Seeded(t)[r] = t[r]
  BY DEF Seeded, Table
<1>4. QED
  BY <1>1, <1>2, <1>3

-----------------------------------------------------------------------------
(* Steps of the world: the answers that become right join the others.      *)

LEMMA WorldStep ==
    ASSUME ServicesInv, Witness(file', valid'),
           UNCHANGED <<processVars, call, serial, request, excused>>,
           file' \in {NoFile} \cup Table, file # NoFile => file' # NoFile, WorldOK'
    PROVE  ServicesInv'
<1>0. UNCHANGED <<unit, starts, queue, handling, pam, stage, db, call, serial, request,
                  excused>>
  BY DEF processVars
<1>1. \A c \in Client : /\ call[c] = "waiting" => truth'[c] = truth[c] \cup
                                                   Right(request[c], file', valid')
                        /\ call[c] # "waiting" => truth'[c] = truth[c]
  BY DEF Witness
<1>2. truth' \in [Client -> SUBSET Verdict]
  <2>1. \A c \in Client : call[c] = "waiting" => Right(request[c], file', valid') \subseteq Verdict
    BY RightFacts DEF ServicesInv, Awaited
  <2>2. \A c \in Client : truth[c] \in SUBSET Verdict
    BY DEF ServicesInv, CallsOK
  <2>3. QED
    BY <2>1, <2>2 DEF Witness
<1>3. UnitsOK' /\ CallsOK' /\ Queued' /\ Desked'
  BY <1>0, <1>2 DEF ServicesInv, UnitsOK, CallsOK, Queued, Desked
<1>4. Awaited'
  <2>1. SUFFICES ASSUME NEW c \in Client, call'[c] = "waiting"
                 PROVE  request'[c] \in Request /\ Kept(c)' /\ Meant(c)' /\ Truthful(c)'
    BY DEF Awaited
  <2>2. request[c] \in Request /\ Kept(c) /\ Meant(c)
    BY <1>0, <2>1 DEF ServicesInv, Awaited
  <2>3. Kept(c)' /\ Meant(c)'
    BY <1>0, <2>2 DEF Kept, Meant, Desk
  <2>4. Truthful(c)'
    BY <1>0, <1>1, <2>1 DEF Truthful
  <2>5. QED
    BY <1>0, <2>2, <2>3, <2>4
<1>5. AnswersAreTimely'
  BY <1>0, <1>1 DEF ServicesInv, AnswersAreTimely, Verdict
<1>6. QED
  BY <1>3, <1>4, <1>5 DEF ServicesInv

LEMMA MakeFileStep == ServicesInv /\ MakeFile => ServicesInv'
<1> SUFFICES ASSUME ServicesInv, MakeFile PROVE ServicesInv'
  OBVIOUS
<1>1. WorldOK'
  BY ServicesAssumption DEF ServicesInv, WorldOK, MakeFile
<1>2. file' = Empty /\ valid' = valid
      /\ UNCHANGED <<processVars, call, serial, request, excused>>
  BY DEF MakeFile
<1>3. file' \in Table /\ file' # NoFile
  BY <1>2, TableFacts, ServicesAssumption
<1>4. Witness(file', valid')
  BY <1>2 DEF MakeFile, Witness
<1>5. QED
  BY <1>1, <1>2, <1>3, <1>4, WorldStep

LEMMA CommitStep ==
    ASSUME ServicesInv, NEW r \in Row, NEW v \in {"none", "allow", "deny"}, Commit(r, v)
    PROVE  ServicesInv'
<1>1. file \in Table /\ file # NoFile
  BY DEF ServicesInv, WorldOK, UnitsOK, Commit
<1>2. /\ file' = [file EXCEPT ![r] = v] /\ valid' = valid /\ lock' = "free"
      /\ changes' = changes /\ faults' = faults
      /\ UNCHANGED <<processVars, call, serial, request, excused>>
  BY DEF Commit
<1>3. file' \in Table /\ file' # NoFile
  BY <1>1, <1>2, ServicesAssumption DEF Table
<1>4. Witness(file', valid')
  BY <1>2 DEF Commit, Witness
<1>5. WorldOK'
  BY <1>1, <1>2 DEF ServicesInv, WorldOK
<1>6. QED
  BY <1>2, <1>3, <1>4, <1>5, WorldStep

LEMMA ExpireStep == ServicesInv /\ Expire => ServicesInv'
<1> SUFFICES ASSUME ServicesInv, Expire PROVE ServicesInv'
  OBVIOUS
<1>1. /\ file' = file /\ valid' = FALSE /\ UNCHANGED <<lock, faults>>
      /\ changes < MaxChanges /\ changes' = changes + 1
      /\ UNCHANGED <<processVars, call, serial, request, excused>>
  BY DEF Expire
<1>2. WorldOK' /\ file' \in {NoFile} \cup Table
  <2>1. changes' \in 0 .. MaxChanges
    BY <1>1, ServicesAssumption DEF ServicesInv, WorldOK
  <2>2. valid' \in BOOLEAN
    BY <1>1
  <2>3. QED
    BY <1>1, <2>1, <2>2 DEF ServicesInv, WorldOK, UnitsOK
<1>3. Witness(file', valid')
  BY <1>1 DEF Expire, Witness
<1>4. QED
  BY <1>1, <1>2, <1>3, WorldStep

\* Nothing of the clients and of the queues changes, and no service with the name loses it.
LEMMA LifeStep ==
    ASSUME ServicesInv, UNCHANGED <<queue, handling, pam, stage, clientVars, valid>>,
           \A s \in Service : unit[s] = "named" => unit'[s] = "named",
           file' = file \/ unit["cynara"] # "named",
           UnitsOK', WorldOK'
    PROVE  ServicesInv'
<1>0. UNCHANGED <<call, serial, request, truth, excused>>
  BY DEF clientVars
<1>1. CallsOK' /\ Queued' /\ Desked'
  BY <1>0 DEF ServicesInv, CallsOK, Queued, Desked, Service
<1>2. Awaited'
  <2>1. SUFFICES ASSUME NEW c \in Client, call'[c] = "waiting"
                 PROVE  request'[c] \in Request /\ Kept(c)' /\ Meant(c)' /\ Truthful(c)'
    BY DEF Awaited
  <2>2. request[c] \in Request /\ Kept(c) /\ Meant(c) /\ Truthful(c)
    BY <1>0, <2>1 DEF ServicesInv, Awaited
  <2>3. Kept(c)'
    BY <1>0, <2>2 DEF Kept, Desk
  <2>4. Meant(c)'
    BY <1>0, <2>2 DEF Meant, Desk
  <2>5. Truthful(c)'
    <3>1. CASE file' = file
      BY <1>0, <2>2, <3>1 DEF Truthful
    <3>2. CASE unit["cynara"] # "named"
      <4>1. ServiceOf(request[c]) # "cynara"
        BY <2>2, <3>2 DEF Kept
      <4>2. Right(request[c], file', valid) = Right(request[c], file, valid)
        BY <2>2, <4>1, RightFacts DEF ServiceOf
      <4>3. QED
        BY <1>0, <2>2, <4>2 DEF Truthful
    <3>3. QED
      BY <3>1, <3>2
  <2>6. QED
    BY <1>0, <2>2, <2>3, <2>4, <2>5
<1>3. AnswersAreTimely'
  BY <1>0 DEF ServicesInv, AnswersAreTimely
<1>4. QED
  BY <1>1, <1>2, <1>3 DEF ServicesInv

LEMMA LockStep == ServicesInv /\ (Begin \/ Flush) => ServicesInv'
<1> SUFFICES ASSUME ServicesInv, Begin \/ Flush PROVE ServicesInv'
  OBVIOUS
<1>1. UNCHANGED <<processVars, clientVars, file, valid, faults>>
  BY DEF Begin, Flush
<1>2. WorldOK'
  BY ServicesAssumption DEF ServicesInv, WorldOK, Begin, Flush
<1>3. UnitsOK'
  BY <1>1 DEF ServicesInv, UnitsOK, processVars
<1>4. QED
  BY <1>1, <1>2, <1>3, LifeStep DEF processVars

LEMMA StartStep ==
    ASSUME ServicesInv, NEW s \in Service, Start(s) \/ OnBusAcquired(s) \/ NameAcquired(s)
    PROVE  ServicesInv'
<1> USE ServicesAssumption
<1>1. /\ UNCHANGED <<queue, handling, pam, stage, db, clientVars, worldVars>>
      /\ unit' \in [Service ->
                   {"absent", "down", "opening", "registering", "owning", "named", "failed"}]
      /\ \A t \in Service : unit[t] = "named" => unit'[t] = "named"
  BY DEF Start, OnBusAcquired, NameAcquired, ServicesInv, UnitsOK
<1>2. starts' \in [Service -> 0 .. StartLimit]
  BY DEF Start, OnBusAcquired, NameAcquired, ServicesInv, UnitsOK
<1>3. unit'["cynara"] \in {"registering", "owning", "named"}
        => unit["cynara"] \in {"registering", "owning", "named"}
  BY DEF Start, OnBusAcquired, NameAcquired, ServicesInv, UnitsOK, Service
<1>4. UNCHANGED <<file, valid, lock, faults, changes>>
  BY <1>1 DEF worldVars
<1>5. UnitsOK' /\ WorldOK'
  BY <1>1, <1>2, <1>3, <1>4 DEF ServicesInv, UnitsOK, WorldOK
<1>6. QED
  BY <1>1, <1>4, <1>5, LifeStep

LEMMA InitDatabaseStep == ServicesInv /\ InitDatabase => ServicesInv'
<1> SUFFICES ASSUME ServicesInv, InitDatabase PROVE ServicesInv'
  OBVIOUS
<1> USE ServicesAssumption
<1>1. /\ UNCHANGED <<starts, queue, handling, pam, stage, clientVars, lock, valid, changes>>
      /\ unit["cynara"] = "opening"
      /\ \A t \in Service : t # "cynara" => unit'[t] = unit[t]
      /\ unit' \in [Service ->
                   {"absent", "down", "opening", "registering", "owning", "named", "failed"}]
  BY DEF InitDatabase, ServicesInv, UnitsOK
<1>2. CASE file # NoFile /\ UNCHANGED faults /\ lock = "free"
           /\ unit' = [unit EXCEPT !["cynara"] = "registering"]
           /\ db' = "file" /\ file' = Seeded(file)
  <2>1. file' \in Table
    BY <1>2, TableFacts DEF ServicesInv, UnitsOK
  <2>2. file' # NoFile
    BY <2>1
  <2>3. UnitsOK' /\ WorldOK'
    BY <1>1, <1>2, <2>1, <2>2 DEF ServicesInv, UnitsOK, WorldOK
  <2>4. QED
    BY <1>1, <2>3, LifeStep
<1>3. CASE UNCHANGED <<faults, db, file>> /\ unit' = [unit EXCEPT !["cynara"] = "down"]
  <2>1. unit'["cynara"] = "down"
    BY <1>3 DEF ServicesInv, UnitsOK, Service
  <2>2. UnitsOK' /\ WorldOK'
    BY <1>1, <1>3, <2>1 DEF ServicesInv, UnitsOK, WorldOK
  <2>3. QED
    BY <1>1, <1>3, <2>2, LifeStep
<1>4. CASE /\ file = NoFile \/ faults < MaxFaults
           /\ db' = "memory" /\ file' = file
           /\ faults' = IF file = NoFile THEN faults ELSE faults + 1
  <2>1. UnitsOK' /\ WorldOK'
    BY <1>1, <1>4 DEF ServicesInv, UnitsOK, WorldOK
  <2>2. QED
    BY <1>1, <1>4, <2>1, LifeStep
<1>5. QED
  BY <1>2, <1>3, <1>4 DEF InitDatabase

LEMMA InitAuthStep == ServicesInv /\ InitAuth => ServicesInv'
<1> SUFFICES ASSUME ServicesInv, InitAuth PROVE ServicesInv'
  OBVIOUS
<1>1. /\ UNCHANGED <<starts, queue, handling, pam, stage, db, clientVars>>
      /\ UNCHANGED <<file, lock, valid, faults, changes>>
      /\ unit["auth"] = "opening" /\ unit' = [unit EXCEPT !["auth"] = "registering"]
  BY DEF InitAuth, worldVars
<1>2. UnitsOK' /\ WorldOK'
  BY <1>1 DEF ServicesInv, UnitsOK, WorldOK, Service
<1>3. \A s \in Service : unit[s] = "named" => unit'[s] = "named"
  BY <1>1 DEF ServicesInv, UnitsOK, Service
<1>4. QED
  BY <1>1, <1>2, <1>3, LifeStep

-----------------------------------------------------------------------------
(* Calls come, are given up, or die with their service.                    *)

LEMMA TimeoutStep ==
    ASSUME ServicesInv, NEW c \in Client, Timeout(c)
    PROVE  ServicesInv'
<1>1. /\ UNCHANGED <<unit, starts, queue, handling, pam, stage, db, serial, excused,
                     file, lock, valid, faults, changes>>
      /\ call[c] = "waiting" /\ call' = [call EXCEPT ![c] = "timeout"]
      /\ request' = [d \in Client |-> IF d = c THEN Nothing ELSE request[d]]
      /\ truth' = [d \in Client |-> IF d = c THEN {} ELSE truth[d]]
  BY DEF Timeout, Drop, processVars, worldVars
<1>2. UnitsOK' /\ WorldOK' /\ Queued' /\ Desked'
  BY <1>1 DEF ServicesInv, UnitsOK, WorldOK, Queued, Desked
<1>3. CallsOK'
  BY <1>1 DEF ServicesInv, CallsOK
<1>4. call'[c] = "timeout"
      /\ \A d \in Client : d # c => call'[d] = call[d] /\ request'[d] = request[d]
                                    /\ truth'[d] = truth[d]
  BY <1>1 DEF ServicesInv, CallsOK
<1>5. Awaited'
  <2>1. SUFFICES ASSUME NEW d \in Client, call'[d] = "waiting"
                 PROVE  request'[d] \in Request /\ Kept(d)' /\ Meant(d)' /\ Truthful(d)'
    BY DEF Awaited
  <2>2. call[d] = "waiting" /\ request'[d] = request[d] /\ truth'[d] = truth[d]
    BY <1>4, <2>1
  <2>3. request[d] \in Request /\ Kept(d) /\ Meant(d) /\ Truthful(d)
    BY <2>2 DEF ServicesInv, Awaited
  <2>4. Kept(d)' /\ Meant(d)' /\ Truthful(d)'
    BY <1>1, <2>2, <2>3 DEF Kept, Meant, Truthful, Desk
  <2>5. QED
    BY <2>2, <2>3, <2>4
<1>6. AnswersAreTimely'
  BY <1>1, <1>4 DEF ServicesInv, AnswersAreTimely, Verdict
<1>7. QED
  BY <1>2, <1>3, <1>5, <1>6 DEF ServicesInv

LEMMA CrashStep ==
    ASSUME ServicesInv, NEW s \in Service, Crash(s)
    PROVE  ServicesInv'
<1> USE ServicesAssumption
<1>1. /\ UNCHANGED <<starts, serial, excused, file, lock, valid, changes>>
      /\ faults < MaxFaults /\ faults' = faults + 1
      /\ unit' = [unit EXCEPT ![s] = "down"]
      /\ queue' = [queue EXCEPT ![s] = <<>>]
      /\ call' = [c \in Client |-> IF Waits(c, s) THEN "error" ELSE call[c]]
      /\ request' = [c \in Client |-> IF c \in {d \in Client : Waits(d, s)} THEN Nothing
                                      ELSE request[c]]
      /\ truth' = [c \in Client |-> IF c \in {d \in Client : Waits(d, s)} THEN {}
                                    ELSE truth[c]]
  BY DEF Crash, Drop
<1>2. /\ s = "auth" => handling' = Nobody /\ pam' = 0 /\ stage' = "idle" /\ db' = db
      /\ s # "auth" => db' = "none" /\ UNCHANGED <<handling, pam, stage>>
  BY DEF Crash
<1>3. /\ unit'[s] = "down" /\ queue'[s] = <<>>
      /\ \A t \in Service : t # s => unit'[t] = unit[t] /\ queue'[t] = queue[t]
      /\ unit' \in [Service ->
                   {"absent", "down", "opening", "registering", "owning", "named", "failed"}]
      /\ queue' \in [Service -> Seq(Messages)]
  BY <1>1, EmptySeq DEF ServicesInv, UnitsOK, Queued
<1>4. UnitsOK'
  BY <1>1, <1>2, <1>3 DEF ServicesInv, UnitsOK, Service
<1>5. WorldOK'
  BY <1>1 DEF ServicesInv, WorldOK
<1>6. CallsOK'
  BY <1>1 DEF ServicesInv, CallsOK
<1>7. Queued'
  <2>1. \A t \in Service : unit'[t] # "named" => queue'[t] = <<>>
    BY <1>3 DEF ServicesInv, Queued
  <2>2. \A t \in Service : \A i \in 1 .. Len(queue'[t]) :
          /\ ServiceOf(queue'[t][i].q) = t
          /\ queue'[t][i].serial <= serial'[queue'[t][i].client]
    <3>1. ASSUME NEW t \in Service, t # s
          PROVE  \A i \in 1 .. Len(queue'[t]) :
                   /\ ServiceOf(queue'[t][i].q) = t
                   /\ queue'[t][i].serial <= serial'[queue'[t][i].client]
      BY <1>1, <1>3, <3>1 DEF ServicesInv, Queued
    <3>2. Len(queue'[s]) = 0
      BY <1>3, EmptySeq
    <3>3. \A i \in 1 .. Len(queue'[s]) : FALSE
      BY <3>2
    <3>4. QED
      BY <3>1, <3>3
  <2>3. QED
    BY <1>3, <2>1, <2>2 DEF Queued
<1>8. Desked'
  <2>1. CASE s = "auth"
    BY <1>2, <2>1 DEF Desked
  <2>2. CASE s # "auth"
    <3>1. unit'["auth"] = unit["auth"]
      BY <1>3, <2>2 DEF Service
    <3>2. QED
      BY <1>1, <1>2, <2>2, <3>1 DEF ServicesInv, Desked
  <2>3. QED
    BY <2>1, <2>2
<1>9. \A c \in Client :
        /\ Waits(c, s) => call'[c] = "error"
        /\ ~Waits(c, s) => call'[c] = call[c] /\ request'[c] = request[c] /\ truth'[c] = truth[c]
  BY <1>1
<1>10. Awaited'
  <2>1. SUFFICES ASSUME NEW c \in Client, call'[c] = "waiting"
                 PROVE  request'[c] \in Request /\ Kept(c)' /\ Meant(c)' /\ Truthful(c)'
    BY DEF Awaited
  <2>2. call[c] = "waiting" /\ ServiceOf(request[c]) # s
        /\ request'[c] = request[c] /\ truth'[c] = truth[c]
    BY <1>9, <2>1 DEF Waits
  <2>3. request[c] \in Request /\ Kept(c) /\ Meant(c) /\ Truthful(c)
    BY <2>2 DEF ServicesInv, Awaited
  <2>4. Truthful(c)'
    BY <1>1, <2>2, <2>3 DEF Truthful
  <2>5. PICK t \in Service :
          /\ t = ServiceOf(request[c]) /\ unit[t] = "named"
          /\ \/ Once(queue[t], c, serial[c]) /\ ~Desk(c)
             \/ t = "auth" /\ Desk(c) /\ Never(queue[t], c, serial[c])
    BY <2>3 DEF Kept
  <2>6. unit'[t] = "named" /\ queue'[t] = queue[t]
    BY <1>3, <2>2, <2>5
  <2>7. /\ ~Desk(c) => ~Desk(c)'
        /\ t = "auth" /\ Desk(c) => Desk(c)'
    BY <1>1, <1>2, <2>2, <2>5 DEF Desk
  <2>8. Kept(c)'
    BY <1>1, <2>2, <2>5, <2>6, <2>7 DEF Kept
  <2>9. Meant(c)'
    <3>1. ASSUME NEW u \in Service, u # s
          PROVE  \A i \in 1 .. Len(queue'[u]) :
                   queue'[u][i].client = c /\ queue'[u][i].serial = serial'[c]
                     => queue'[u][i].q = request'[c]
      BY <1>1, <1>3, <2>2, <2>3, <3>1 DEF Meant
    <3>2. Len(queue'[s]) = 0
      BY <1>3, EmptySeq
    <3>3. \A i \in 1 .. Len(queue'[s]) : FALSE
      BY <3>2
    <3>4. Desk(c)' => handling' = handling /\ Desk(c)
      BY <1>1, <1>2 DEF Desk
    <3>5. Desk(c)' => handling'.q = request'[c]
      BY <2>2, <2>3, <3>4 DEF Meant
    <3>6. QED
      BY <3>1, <3>3, <3>5 DEF Meant
  <2>10. QED
    BY <2>2, <2>3, <2>4, <2>8, <2>9
<1>11. AnswersAreTimely'
  BY <1>1, <1>9 DEF ServicesInv, AnswersAreTimely, Verdict
<1>12. QED
  BY <1>4, <1>5, <1>6, <1>7, <1>8, <1>10, <1>11 DEF ServicesInv

LEMMA CallStep ==
    ASSUME ServicesInv, NEW c \in Client, NEW q \in Request, Call(c, q)
    PROVE  ServicesInv'
<1> USE ServicesAssumption
<1>1. PICK s \in Service : s = ServiceOf(q)
  BY DEF ServiceOf, Service
<1>2. /\ call[c] # "waiting" /\ serial[c] < MaxCalls[c]
      /\ serial' = [serial EXCEPT ![c] = @ + 1]
      /\ excused' = [excused EXCEPT ![c] = "none"]
      /\ UNCHANGED <<unit, starts, handling, pam, stage, db, file, lock, valid, faults, changes>>
  BY DEF Call, worldVars
<1>3. PICK m : m = [client |-> c, serial |-> serial[c] + 1, q |-> q]
  OBVIOUS
<1>4. serial[c] \in Nat /\ m \in Messages /\ m.client = c /\ m.serial = serial[c] + 1 /\ m.q = q
  BY <1>3 DEF ServicesInv, CallsOK, Messages
<1>5. /\ serial'[c] = serial[c] + 1
      /\ \A d \in Client : d # c => serial'[d] = serial[d]
      /\ \A d \in Client : serial[d] <= serial'[d] /\ serial[d] \in Nat /\ serial'[d] \in Nat
  BY <1>2 DEF ServicesInv, CallsOK
<1>6. \/ /\ unit[s] = "named"
         /\ call' = [call EXCEPT ![c] = "waiting"]
         /\ request' = [request EXCEPT ![c] = q]
         /\ truth' = [truth EXCEPT ![c] = Right(q, file, valid)]
         /\ queue' = [queue EXCEPT ![s] = Append(@, m)]
      \/ /\ call' = [call EXCEPT ![c] = "error"] /\ queue' = queue
         /\ request' = [d \in Client |-> IF d = c THEN Nothing ELSE request[d]]
         /\ truth' = [d \in Client |-> IF d = c THEN {} ELSE truth[d]]
  BY <1>1, <1>3 DEF Call, Drop
<1>7. \A d \in Client : d # c =>
        call'[d] = call[d] /\ request'[d] = request[d] /\ truth'[d] = truth[d]
        /\ excused'[d] = excused[d]
  BY <1>2, <1>6 DEF ServicesInv, CallsOK
<1>8. UnitsOK' /\ WorldOK'
  BY <1>2 DEF ServicesInv, UnitsOK, WorldOK
<1>9. CallsOK'
  <2>1. serial' \in [Client -> Nat] /\ \A d \in Client : serial'[d] <= MaxCalls[d]
    BY <1>2, <1>5 DEF ServicesInv, CallsOK
  <2>2. /\ request' \in [Client -> {Nothing} \cup Request]
        /\ truth' \in [Client -> SUBSET Verdict]
    <3>1. Right(q, file, valid) \subseteq Verdict
      BY RightFacts
    <3>2. Right(q, file, valid) \in SUBSET Verdict /\ {} \in SUBSET Verdict
      BY <3>1
    <3>3. request' \in [Client -> {Nothing} \cup Request]
      BY <1>6 DEF ServicesInv, CallsOK
    <3>4. truth' \in [Client -> SUBSET Verdict]
      BY <1>6, <3>2 DEF ServicesInv, CallsOK
    <3>5. QED
      BY <3>3, <3>4
  <2>3. /\ call' \in [Client -> {"idle", "waiting", "error", "timeout"} \cup Verdict]
        /\ excused' \in [Client -> Excuses]
    BY <1>2, <1>6 DEF ServicesInv, CallsOK, Excuses
  <2>4. QED
    BY <2>1, <2>2, <2>3 DEF CallsOK
<1>10. /\ queue' \in [Service -> Seq(Messages)]
       /\ \A t \in Service : queue'[t] = queue[t]
                             \/ (t = s /\ unit[s] = "named" /\ queue'[t] = Append(queue[t], m))
  <2>1. queue \in [Service -> Seq(Messages)] /\ Append(queue[s], m) \in Seq(Messages)
    BY <1>4, AppendProperties DEF ServicesInv, Queued
  <2>2. CASE queue' = queue
    <3>1. \A t \in Service : queue'[t] = queue[t]
      BY <2>2
    <3>2. queue' \in [Service -> Seq(Messages)]
      BY <2>1, <2>2
    <3>3. QED
      BY <3>1, <3>2
  <2>3. CASE unit[s] = "named" /\ queue' = [queue EXCEPT ![s] = Append(@, m)]
    <3>1. queue' \in [Service -> Seq(Messages)]
      BY <2>1, <2>3
    <3>2. queue'[s] = Append(queue[s], m) /\ \A t \in Service : t # s => queue'[t] = queue[t]
      BY <2>1, <2>3
    <3>3. ASSUME NEW t \in Service
          PROVE  queue'[t] = queue[t]
                 \/ (t = s /\ unit[s] = "named" /\ queue'[t] = Append(queue[t], m))
      <4>1. CASE t = s
        BY <2>3, <3>2, <4>1
      <4>2. CASE t # s
        <5>1. queue'[t] = queue[t]
          BY <3>2, <4>2
        <5>2. QED
          BY <5>1
      <4>3. QED
        BY <4>1, <4>2
    <3>4. QED
      BY <3>1, <3>3
  <2>4. QED
    BY <1>6, <2>2, <2>3
<1>11. \A t \in Service : \A i \in 1 .. Len(queue'[t]) :
          \/ i \in 1 .. Len(queue[t]) /\ queue'[t][i] = queue[t][i]
          \/ t = s /\ queue'[t][i] = m
  <2>1. SUFFICES ASSUME NEW t \in Service, NEW i \in 1 .. Len(queue'[t])
                 PROVE  \/ i \in 1 .. Len(queue[t]) /\ queue'[t][i] = queue[t][i]
                        \/ t = s /\ queue'[t][i] = m
    OBVIOUS
  <2>2. CASE queue'[t] = queue[t]
    BY <2>2
  <2>3. CASE t = s /\ queue'[t] = Append(queue[t], m)
    <3>1. queue[t] \in Seq(Messages)
      BY DEF ServicesInv, Queued
    <3>2. /\ Len(queue[t]) \in Nat /\ Len(queue'[t]) = Len(queue[t]) + 1
          /\ \A k \in 1 .. Len(queue[t]) : queue'[t][k] = queue[t][k]
          /\ queue'[t][Len(queue[t]) + 1] = m
      BY <1>4, <2>3, <3>1, AppendProperties, LenProperties
    <3>3. QED
      BY <2>3, <3>2
  <2>4. QED
    BY <1>10, <2>2, <2>3
<1>12. \A t \in Service : \A i : i \in 1 .. Len(queue[t]) =>
          /\ ServiceOf(queue[t][i].q) = t
          /\ queue[t][i].serial <= serial[queue[t][i].client]
          /\ queue[t][i] \in Messages
  <2>1. \A t \in Service : queue[t] \in [1 .. Len(queue[t]) -> Messages]
    BY LenProperties DEF ServicesInv, Queued
  <2>2. QED
    BY <2>1 DEF ServicesInv, Queued
<1>13. Queued'
  <2>1. \A t \in Service : unit'[t] # "named" => queue'[t] = <<>>
    BY <1>2, <1>10 DEF ServicesInv, Queued
  <2>2. ASSUME NEW t \in Service, NEW i \in 1 .. Len(queue'[t])
        PROVE  /\ ServiceOf(queue'[t][i].q) = t
               /\ queue'[t][i].serial <= serial'[queue'[t][i].client]
    <3>1. CASE i \in 1 .. Len(queue[t]) /\ queue'[t][i] = queue[t][i]
      <4>1. queue[t][i].client \in Client /\ queue[t][i].serial \in Nat
        BY <1>12, <3>1 DEF Messages
      <4>2. PICK k : k = queue[t][i]
        OBVIOUS
      <4>3. /\ k.client \in Client /\ k.serial \in Nat /\ k.serial <= serial[k.client]
            /\ ServiceOf(k.q) = t
        BY <1>12, <3>1, <4>1, <4>2
      <4>4. k.serial <= serial'[k.client]
        BY <1>5, <4>3
      <4>5. QED
        BY <3>1, <4>2, <4>3, <4>4
    <3>2. CASE t = s /\ queue'[t][i] = m
      BY <1>1, <1>4, <1>5, <3>2
    <3>3. QED
      BY <1>11, <3>1, <3>2
  <2>3. QED
    BY <1>10, <2>1, <2>2 DEF Queued
<1>14. handling # Nobody => handling.client \in Client /\ handling.serial \in Nat
  BY DEF ServicesInv, Desked, Messages
<1>15. Desked'
  <2>1. handling # Nobody => handling.serial <= serial'[handling.client]
    BY <1>5, <1>14 DEF ServicesInv, Desked
  <2>2. QED
    BY <1>2, <2>1 DEF ServicesInv, Desked
<1>16. ~Desk(c)'
  BY <1>2, <1>5, <1>14 DEF Desk, ServicesInv, Desked
<1>17. \A t \in Service : Never(queue[t], c, serial'[c])
  <2>1. ASSUME NEW t \in Service, NEW i \in 1 .. Len(queue[t]), queue[t][i].client = c,
               queue[t][i].serial = serial[c] + 1
        PROVE  FALSE
    BY <1>4, <1>12, <2>1
  <2>2. QED
    BY <1>5, <2>1 DEF Never
<1>18. Awaited'
  <2>1. SUFFICES ASSUME NEW d \in Client, call'[d] = "waiting"
                 PROVE  request'[d] \in Request /\ Kept(d)' /\ Meant(d)' /\ Truthful(d)'
    BY DEF Awaited
  <2>2. CASE d = c
    <3>1. /\ unit[s] = "named" /\ request'[c] = q /\ truth'[c] = Right(q, file, valid)
          /\ queue'[s] = Append(queue[s], m)
      <4>1. call'[c] = "waiting"
        BY <2>1, <2>2
      <4>2. call' # [call EXCEPT ![c] = "error"]
        BY <4>1 DEF ServicesInv, CallsOK
      <4>3. QED
        BY <1>6, <4>2 DEF ServicesInv, CallsOK, Queued
    <3>2. Truthful(c)'
      BY <1>2, <3>1 DEF Truthful
    <3>3. Once(queue'[s], c, serial'[c])
      <4>1. queue[s] \in Seq(Messages) /\ Never(queue[s], m.client, m.serial)
        BY <1>4, <1>5, <1>17 DEF ServicesInv, Queued
      <4>2. Once(Append(queue[s], m), m.client, m.serial)
        BY <1>4, <4>1, AppendedIt
      <4>3. QED
        BY <1>4, <1>5, <3>1, <4>2
    <3>4. Kept(c)'
      BY <1>1, <1>2, <1>16, <3>1, <3>3 DEF Kept
    <3>5. ASSUME NEW t \in Service, NEW i \in 1 .. Len(queue'[t]),
                 queue'[t][i].client = c, queue'[t][i].serial = serial'[c]
          PROVE  queue'[t][i].q = q
      BY <1>4, <1>11, <1>17, <3>5 DEF Never
    <3>6. Meant(c)'
      BY <1>16, <3>1, <3>5 DEF Meant
    <3>7. QED
      BY <2>2, <3>1, <3>2, <3>4, <3>6
  <2>3. CASE d # c
    <3>1. /\ call[d] = "waiting" /\ request'[d] = request[d] /\ truth'[d] = truth[d]
          /\ serial'[d] = serial[d]
      BY <1>5, <1>7, <2>1, <2>3
    <3>2. request[d] \in Request /\ Kept(d) /\ Meant(d) /\ Truthful(d)
      BY <3>1 DEF ServicesInv, Awaited
    <3>3. Truthful(d)'
      BY <1>2, <3>1, <3>2 DEF Truthful
    <3>4. Desk(d)' <=> Desk(d)
      BY <1>2, <3>1 DEF Desk
    <3>5. PICK t \in Service :
            /\ t = ServiceOf(request[d]) /\ unit[t] = "named"
            /\ \/ Once(queue[t], d, serial[d]) /\ ~Desk(d)
               \/ t = "auth" /\ Desk(d) /\ Never(queue[t], d, serial[d])
      BY <3>2 DEF Kept
    <3>6. /\ Once(queue[t], d, serial[d]) => Once(queue'[t], d, serial[d])
          /\ Never(queue[t], d, serial[d]) => Never(queue'[t], d, serial[d])
      <4>1. queue[t] \in Seq(Messages) /\ ~(m.client = d /\ m.serial = serial[d])
        BY <1>4, <2>3 DEF ServicesInv, Queued
      <4>2. /\ Once(queue[t], d, serial[d]) => Once(Append(queue[t], m), d, serial[d])
            /\ Never(queue[t], d, serial[d]) => Never(Append(queue[t], m), d, serial[d])
        BY <1>4, <4>1, AppendedOther
      <4>3. QED
        BY <1>10, <4>2
    <3>7. Kept(d)'
      BY <1>2, <3>1, <3>4, <3>5, <3>6 DEF Kept
    <3>8. ASSUME NEW u \in Service, NEW i \in 1 .. Len(queue'[u]),
                 queue'[u][i].client = d, queue'[u][i].serial = serial'[d]
          PROVE  queue'[u][i].q = request'[d]
      <4>1. CASE u = s /\ queue'[u][i] = m
        BY <1>4, <2>3, <3>8, <4>1
      <4>2. CASE i \in 1 .. Len(queue[u]) /\ queue'[u][i] = queue[u][i]
        BY <3>1, <3>2, <3>8, <4>2 DEF Meant
      <4>3. QED
        BY <1>11, <4>1, <4>2
    <3>9. Desk(d)' => handling'.q = request'[d]
      BY <1>2, <3>1, <3>2, <3>4 DEF Meant
    <3>10. Meant(d)'
      BY <3>8, <3>9 DEF Meant
    <3>11. QED
      BY <3>1, <3>2, <3>3, <3>7, <3>10
  <2>4. QED
    BY <2>2, <2>3
<1>19. AnswersAreTimely'
  <2>1. call'[c] \notin Verdict
    BY <1>6 DEF ServicesInv, CallsOK, Verdict
  <2>2. QED
    BY <1>7, <2>1 DEF ServicesInv, AnswersAreTimely
<1>20. QED
  BY <1>8, <1>9, <1>13, <1>15, <1>18, <1>19 DEF ServicesInv

-----------------------------------------------------------------------------
(* Answers to calls.                                                       *)

\* What dispatching the head of a queue leaves of the queues.
LEMMA Dequeued ==
    ASSUME ServicesInv, NEW s \in Service, unit[s] = "named", queue[s] # <<>>,
           queue' = [queue EXCEPT ![s] = Tail(@)], unit' = unit, serial' = serial
    PROVE  /\ Head(queue[s]) \in Messages
           /\ ServiceOf(Head(queue[s]).q) = s
           /\ Head(queue[s]).serial <= serial[Head(queue[s]).client]
           /\ Queued'
           /\ \A t \in Service : \A i \in 1 .. Len(queue'[t]) :
                \E k \in 1 .. Len(queue[t]) : queue'[t][i] = queue[t][k]
           /\ queue'[s] = Tail(queue[s]) /\ \A t \in Service : t # s => queue'[t] = queue[t]
<1>1. queue \in [Service -> Seq(Messages)] /\ queue[s] \in Seq(Messages)
  BY DEF ServicesInv, Queued
<1>2. /\ Head(queue[s]) \in Messages /\ Tail(queue[s]) \in Seq(Messages)
      /\ Head(queue[s]) = queue[s][1] /\ 1 \in 1 .. Len(queue[s])
      /\ \A i \in 1 .. Len(Tail(queue[s])) :
           i + 1 \in 1 .. Len(queue[s]) /\ Tail(queue[s])[i] = queue[s][i + 1]
  BY <1>1, Tails
<1>3. queue'[s] = Tail(queue[s]) /\ \A t \in Service : t # s => queue'[t] = queue[t]
  BY <1>1
<1>4. queue' \in [Service -> Seq(Messages)]
  BY <1>1, <1>2
<1>5. ASSUME NEW t \in Service, NEW i \in 1 .. Len(queue'[t])
      PROVE  \E k \in 1 .. Len(queue[t]) : queue'[t][i] = queue[t][k]
  <2>1. CASE t = s
    <3>1. i \in 1 .. Len(Tail(queue[s])) /\ queue'[t][i] = Tail(queue[s])[i]
      BY <1>3, <2>1
    <3>2. QED
      BY <1>2, <2>1, <3>1
  <2>2. CASE t # s
    BY <1>3, <2>2
  <2>3. QED
    BY <2>1, <2>2
<1>6. \A t \in Service : \A i \in 1 .. Len(queue[t]) :
        /\ ServiceOf(queue[t][i].q) = t
        /\ queue[t][i].serial <= serial[queue[t][i].client]
  BY DEF ServicesInv, Queued
<1>7. \A t \in Service : \A i \in 1 .. Len(queue'[t]) :
        /\ ServiceOf(queue'[t][i].q) = t
        /\ queue'[t][i].serial <= serial'[queue'[t][i].client]
  <2>1. SUFFICES ASSUME NEW t \in Service, NEW i \in 1 .. Len(queue'[t])
                 PROVE  /\ ServiceOf(queue'[t][i].q) = t
                        /\ queue'[t][i].serial <= serial[queue'[t][i].client]
    OBVIOUS
  <2>2. PICK k \in 1 .. Len(queue[t]) : queue'[t][i] = queue[t][k]
    BY <1>5
  <2>3. QED
    BY <1>6, <2>2
<1>8. \A t \in Service : unit[t] # "named" => queue[t] = <<>> /\ t # s
  BY DEF ServicesInv, Queued
<1>9. Queued'
  BY <1>3, <1>4, <1>7, <1>8 DEF Queued
<1>10. QED
  BY <1>2, <1>3, <1>5, <1>6, <1>9

\* What an answer changes: the state of one client, if it still waits for it.
LEMMA Replied ==
    ASSUME ServicesInv, NEW m \in Messages, NEW v \in Verdict,
           NEW e \in Excuses, Reply(m, v, e)
    PROVE  /\ CallsOK' /\ serial' = serial /\ truth' = truth
           /\ \A c \in Client : call'[c] = "waiting" =>
                call[c] = "waiting" /\ request'[c] = request[c]
                /\ ~(m.client = c /\ m.serial = serial[c])
           /\ \A c \in Client : call'[c] \in Verdict =>
                \/ call'[c] = call[c] /\ excused'[c] = excused[c]
                \/ /\ m.client = c /\ m.serial = serial[c] /\ call[c] = "waiting"
                   /\ call'[c] = v /\ excused'[c] = e
<1>1. PICK d \in Client : d = m.client
  BY DEF Messages
<1>2. CASE call[d] = "waiting" /\ serial[d] = m.serial
  <2>1. /\ call' = [call EXCEPT ![d] = v] /\ excused' = [excused EXCEPT ![d] = e]
        /\ request' = [request EXCEPT ![d] = Nothing]
        /\ serial' = serial /\ truth' = truth
    BY <1>1, <1>2 DEF Reply
  <2>2. CallsOK'
    BY <2>1 DEF ServicesInv, CallsOK
  <2>3. /\ call'[d] = v /\ excused'[d] = e
        /\ \A c \in Client : c # d =>
             call'[c] = call[c] /\ excused'[c] = excused[c] /\ request'[c] = request[c]
    BY <2>1 DEF ServicesInv, CallsOK
  <2>4. call'[d] # "waiting"
    BY <2>3 DEF Verdict
  <2>5. QED
    BY <1>1, <1>2, <2>1, <2>2, <2>3, <2>4
<1>3. CASE ~(call[d] = "waiting" /\ serial[d] = m.serial)
  <2>1. UNCHANGED <<call, excused, request, serial, truth>>
    BY <1>1, <1>3 DEF Reply
  <2>2. CallsOK'
    BY <2>1 DEF ServicesInv, CallsOK
  <2>3. QED
    BY <1>1, <1>3, <2>1, <2>2
<1>4. QED
  BY <1>2, <1>3

LEMMA ReplyIsTimely ==
    ASSUME ServicesInv, NEW m \in Messages, NEW v \in Verdict,
           NEW e \in Excuses, Reply(m, v, e),
           call[m.client] = "waiting" /\ m.serial = serial[m.client] /\ e = "none"
             => v \in truth[m.client],
           e = "refused" => v = "no"
    PROVE  AnswersAreTimely'
<1>1. SUFFICES ASSUME NEW c \in Client, call'[c] \in Verdict
               PROVE  /\ excused'[c] = "none" => call'[c] \in truth[c]
                      /\ excused'[c] = "refused" => call'[c] = "no"
  BY Replied DEF AnswersAreTimely
<1>3. CASE call'[c] = call[c] /\ excused'[c] = excused[c]
  BY <1>1, <1>3 DEF ServicesInv, AnswersAreTimely
<1>4. CASE /\ m.client = c /\ m.serial = serial[c] /\ call[c] = "waiting"
           /\ call'[c] = v /\ excused'[c] = e
  BY <1>4
<1>5. \/ call'[c] = call[c] /\ excused'[c] = excused[c]
      \/ /\ m.client = c /\ m.serial = serial[c] /\ call[c] = "waiting"
         /\ call'[c] = v /\ excused'[c] = e
  BY ONLY <1>1, Replied, ServicesInv, Reply(m, v, e), m \in Messages, v \in Verdict,
          e \in Excuses, c \in Client
<1>6. QED
  BY <1>3, <1>4, <1>5

\* A client whose call was not the one dispatched waits on as before.
LEMMA StillAwaited ==
    ASSUME ServicesInv, NEW s \in Service, unit[s] = "named", queue[s] # <<>>,
           queue' = [queue EXCEPT ![s] = Tail(@)],
           UNCHANGED <<unit, serial, truth, file, valid>>,
           NEW c \in Client, call[c] = "waiting", request'[c] = request[c],
           ~(Head(queue[s]).client = c /\ Head(queue[s]).serial = serial[c]),
           Desk(c)' <=> Desk(c), Desk(c) => handling' = handling
    PROVE  request'[c] \in Request /\ Kept(c)' /\ Meant(c)' /\ Truthful(c)'
<1>1. request[c] \in Request /\ Kept(c) /\ Meant(c) /\ Truthful(c)
  BY DEF ServicesInv, Awaited
<1>2. Truthful(c)'
  BY <1>1 DEF Truthful
<1>3. /\ queue'[s] = Tail(queue[s]) /\ \A t \in Service : t # s => queue'[t] = queue[t]
      /\ \A t \in Service : \A i \in 1 .. Len(queue'[t]) :
                \E k \in 1 .. Len(queue[t]) : queue'[t][i] = queue[t][k]
  BY Dequeued
<1>4. PICK t \in Service :
        /\ t = ServiceOf(request[c]) /\ unit[t] = "named"
        /\ \/ Once(queue[t], c, serial[c]) /\ ~Desk(c)
           \/ t = "auth" /\ Desk(c) /\ Never(queue[t], c, serial[c])
  BY <1>1 DEF Kept
<1>5. /\ Once(queue[t], c, serial[c]) => Once(queue'[t], c, serial[c])
      /\ Never(queue[t], c, serial[c]) => Never(queue'[t], c, serial[c])
  <2>1. CASE t = s
    <3>1. queue[s] \in Seq(Messages)
      BY DEF ServicesInv, Queued
    <3>2. /\ Once(queue[s], c, serial[c]) => Once(Tail(queue[s]), c, serial[c])
          /\ Never(queue[s], c, serial[c]) => Never(Tail(queue[s]), c, serial[c])
      BY <3>1, TailOther
    <3>3. QED
      BY <1>3, <2>1, <3>2
  <2>2. CASE t # s
    BY <1>3, <2>2
  <2>3. QED
    BY <2>1, <2>2
<1>6. Kept(c)'
  BY <1>4, <1>5 DEF Kept
<1>7. ASSUME NEW u \in Service, NEW i \in 1 .. Len(queue'[u]),
             queue'[u][i].client = c, queue'[u][i].serial = serial'[c]
      PROVE  queue'[u][i].q = request'[c]
  <2>1. PICK k \in 1 .. Len(queue[u]) : queue'[u][i] = queue[u][k]
    BY <1>3
  <2>2. queue[u][k].client = c /\ queue[u][k].serial = serial[c]
    BY <1>7, <2>1
  <2>3. queue[u][k].q = request[c]
    BY <1>1, <2>2 DEF Meant
  <2>4. QED
    BY <2>1, <2>3
<1>8. Desk(c)' => handling'.q = request'[c]
  BY <1>1 DEF Meant
<1>9. Meant(c)'
  BY <1>7, <1>8 DEF Meant
<1>10. QED
  BY <1>1, <1>2, <1>6, <1>9

\* The call at the head of a queue, or on PAM's desk, is what its client waits for,
\* unless it waits for a later one or no more.
LEMMA HeadIsMeant ==
    ASSUME ServicesInv, NEW s \in Service, unit[s] = "named", queue[s] # <<>>,
           NEW m, m = Head(queue[s]),
           call[m.client] = "waiting", m.serial = serial[m.client]
    PROVE  m.q = request[m.client] /\ Right(m.q, file, valid) \subseteq truth[m.client]
<1>1. /\ m \in Messages /\ queue[s][1] = m /\ 1 \in 1 .. Len(queue[s])
  BY Tails DEF ServicesInv, Queued
<1>2. PICK d \in Client : d = m.client
  BY <1>1 DEF Messages
<1>3. Meant(d) /\ Truthful(d)
  BY <1>2 DEF ServicesInv, Awaited
<1>4. m.q = request[d]
  BY <1>1, <1>2, <1>3 DEF Meant
<1>5. QED
  BY <1>2, <1>3, <1>4 DEF Truthful

LEMMA DeskIsMeant ==
    ASSUME ServicesInv, handling # Nobody, NEW m, m = handling,
           call[m.client] = "waiting", m.serial = serial[m.client]
    PROVE  m.q = request[m.client] /\ Right(m.q, file, valid) \subseteq truth[m.client]
<1>1. PICK d \in Client : d = m.client
  BY DEF ServicesInv, Desked, Messages
<1>2. Meant(d) /\ Truthful(d)
  BY <1>1 DEF ServicesInv, Awaited
<1>3. m.q = request[d]
  BY <1>1, <1>2 DEF Meant, Desk
<1>4. QED
  BY <1>1, <1>2, <1>3 DEF Truthful

\* A call is taken out of its queue and answered at once.
LEMMA DispatchReply ==
    ASSUME ServicesInv, NEW s \in Service, unit[s] = "named", queue[s] # <<>>,
           queue' = [queue EXCEPT ![s] = Tail(@)],
           NEW m, m = Head(queue[s]), NEW v \in Verdict,
           NEW e \in Excuses, Reply(m, v, e),
           e = "none" => v \in Right(m.q, file, valid), e = "refused" => v = "no",
           UNCHANGED <<unit, starts, handling, pam, stage, db, file, lock, valid, changes>>,
           faults' \in 0 .. MaxFaults
    PROVE  ServicesInv'
<1>0. UNCHANGED <<unit, starts, handling, pam, stage, db, file, lock, valid, changes>>
  OBVIOUS
<1>1. /\ m \in Messages
      /\ CallsOK' /\ serial' = serial /\ truth' = truth
      /\ \A c \in Client : call'[c] = "waiting" =>
           call[c] = "waiting" /\ request'[c] = request[c]
           /\ ~(m.client = c /\ m.serial = serial[c])
  <2>1. queue[s] \in Seq(Messages)
    BY DEF ServicesInv, Queued
  <2>2. m \in Messages
    BY <2>1, Tails
  <2>3. QED
    BY <2>2, Replied
<1>2. Queued'
  BY <1>0, <1>1, Dequeued
<1>3. UnitsOK' /\ WorldOK' /\ Desked'
  BY <1>0, <1>1 DEF ServicesInv, UnitsOK, WorldOK, Desked
<1>4. Awaited'
  <2>1. SUFFICES ASSUME NEW c \in Client, call'[c] = "waiting"
                 PROVE  request'[c] \in Request /\ Kept(c)' /\ Meant(c)' /\ Truthful(c)'
    BY DEF Awaited
  <2>2. /\ call[c] = "waiting" /\ request'[c] = request[c]
        /\ ~(Head(queue[s]).client = c /\ Head(queue[s]).serial = serial[c])
    BY <1>1, <2>1
  <2>3. (Desk(c)' <=> Desk(c)) /\ (Desk(c) => handling' = handling)
    BY <1>0, <1>1 DEF Desk
  <2>4. QED
    BY <1>0, <1>1, <2>2, <2>3, StillAwaited
<1>5. call[m.client] = "waiting" /\ m.serial = serial[m.client] /\ e = "none"
        => v \in truth[m.client]
  BY HeadIsMeant
<1>6. AnswersAreTimely'
  BY <1>1, <1>5, ReplyIsTimely
<1>7. QED
  BY <1>1, <1>2, <1>3, <1>4, <1>6 DEF ServicesInv

\* The call on PAM's desk is answered, or only its stage changes.
LEMMA DeskReply ==
    ASSUME ServicesInv, stage # "idle", NEW m, m = handling, NEW v \in Verdict,
           NEW e \in {"none", "refused"}, Reply(m, v, e),
           e = "none" => v \in Right(m.q, file, valid), e = "refused" => v = "no",
           pam' = pam - 1, stage' = "idle", handling' = Nobody,
           UNCHANGED <<unit, starts, queue, db, worldVars>>
    PROVE  ServicesInv'
<1>0. UNCHANGED <<unit, starts, queue, db, file, lock, valid, faults, changes>>
  BY DEF worldVars
<1>1. m \in Messages /\ m.serial <= serial[m.client] /\ handling # Nobody /\ pam = 1
  BY DEF ServicesInv, Desked
<1>2. /\ CallsOK' /\ serial' = serial /\ truth' = truth
      /\ \A c \in Client : call'[c] = "waiting" =>
           call[c] = "waiting" /\ request'[c] = request[c]
           /\ ~(m.client = c /\ m.serial = serial[c])
  BY <1>1, Replied DEF Excuses
<1>3. UnitsOK' /\ WorldOK' /\ Queued'
  BY <1>0, <1>2 DEF ServicesInv, UnitsOK, WorldOK, Queued
<1>4. Desked'
  BY <1>1 DEF Desked
<1>5. Awaited'
  <2>1. SUFFICES ASSUME NEW c \in Client, call'[c] = "waiting"
                 PROVE  request'[c] \in Request /\ Kept(c)' /\ Meant(c)' /\ Truthful(c)'
    BY DEF Awaited
  <2>2. /\ call[c] = "waiting" /\ request'[c] = request[c]
        /\ ~(handling.client = c /\ handling.serial = serial[c])
    BY <1>2, <2>1
  <2>3. request[c] \in Request /\ Kept(c) /\ Meant(c) /\ Truthful(c)
    BY <2>2 DEF ServicesInv, Awaited
  <2>4. ~Desk(c) /\ ~Desk(c)'
    BY <2>2 DEF Desk
  <2>5. Kept(c)'
    BY <1>0, <1>2, <2>2, <2>3, <2>4 DEF Kept
  <2>6. Meant(c)'
    BY <1>0, <1>2, <2>2, <2>3, <2>4 DEF Meant
  <2>7. Truthful(c)'
    BY <1>0, <1>2, <2>2, <2>3 DEF Truthful
  <2>8. QED
    BY <2>2, <2>3, <2>5, <2>6, <2>7
<1>6. call[m.client] = "waiting" /\ m.serial = serial[m.client] /\ e = "none"
        => v \in truth[m.client]
  BY <1>1, DeskIsMeant
<1>7. AnswersAreTimely'
  BY <1>1, <1>6, ReplyIsTimely DEF Excuses
<1>8. QED
  BY <1>2, <1>3, <1>4, <1>5, <1>7 DEF ServicesInv

\* Some row is the first, in the order of the users.
LEMMA FirstRowIsOne ==
    ASSUME NEW rows \in SUBSET Row, rows # {}
    PROVE  FirstRow(rows) \in rows
<1> DEFINE users == {r[2] : r \in rows}
<1> DEFINE less == OpToRel(<, Nat)
<1>1. \A r \in Row : r[2] \in Nat
  BY ServicesAssumption
<1>2. users \subseteq Nat /\ users # {}
  BY <1>1
<1>3. \E n \in users : \A k \in users : ~(<<k, n>> \in less)
  <2>1. IsWellFoundedOn(less, Nat)
    BY NatLessThanWellFounded
  <2> HIDE DEF less, users
  <2>2. QED
    BY <1>2, <2>1, WFMin
<1>4. PICK n \in users : \A k \in users : n <= k
  <2>1. \A k, n \in Nat : <<k, n>> \in less <=> k < n
    BY DEF OpToRel
  <2> HIDE DEF less, users
  <2>2. PICK n \in users : \A k \in users : ~(<<k, n>> \in less)
    BY <1>3
  <2>3. ASSUME NEW k \in users PROVE n <= k
    <3>1. k \in Nat /\ n \in Nat
      BY <1>2
    <3>2. ~(<<k, n>> \in less)
      BY <2>2
    <3>3. ~(k < n)
      BY <2>1, <3>1, <3>2
    <3>4. QED
      BY <3>1, <3>3
  <2>4. QED
    BY <2>3
<1>5. PICK r \in rows : r[2] = n
  BY <1>4
<1>6. \A s \in rows : r[2] <= s[2]
  BY <1>4, <1>5
<1>7. QED
  BY <1>6 DEF FirstRow

\* With the table that init_database makes in memory the answer is the built-in one, and
\* what the file says is right unless the rule is on another user.
LEMMA CheckFacts ==
    ASSUME NEW q \in Request, q.method = "CheckPrivilege", NEW ok
    PROVE  /\ CheckPrivilege(Seeded(Empty), q) = BuiltIn(q)
           /\ ~Busy /\ db # "memory" /\ file # NoFile /\ Excuse(q) = "none"
                => CheckPrivilege(file, q) \in Right(q, file, ok)
           /\ Trusted(q) => \A t : CheckPrivilege(t, q) = BuiltIn(q)
                                   /\ BuiltIn(q) \in Right(q, t, ok)
           /\ ~Trusted(q) /\ RowsFor(file, q) # {}
                => \E r \in RowsFor(file, q) : CheckPrivilege(file, q) = Says(file, r)
<1>1. \A t : RowsFor(t, q) \in SUBSET Row
  BY DEF RowsFor
<1>2. CheckPrivilege(Seeded(Empty), q) = BuiltIn(q)
  <2>1. CASE RowsFor(Seeded(Empty), q) = {} \/ Trusted(q)
    BY <2>1 DEF CheckPrivilege
  <2>2. CASE RowsFor(Seeded(Empty), q) # {} /\ ~Trusted(q)
    <3>1. FirstRow(RowsFor(Seeded(Empty), q)) \in RowsFor(Seeded(Empty), q)
      BY <1>1, <2>2, FirstRowIsOne
    <3>2. Seeded(Empty) = [Empty EXCEPT ![Default] = "allow"]
      BY ServicesAssumption DEF Seeded, Empty
    <3>3. \A r \in RowsFor(Seeded(Empty), q) : r = Default /\ q.privilege = "internet"
      BY <3>2, ServicesAssumption DEF RowsFor, Empty
    <3>4. Seeded(Empty)[Default] = "allow"
      BY <3>2, ServicesAssumption DEF Empty
    <3>5. QED
      BY <2>2, <3>1, <3>3, <3>4 DEF CheckPrivilege, BuiltIn, NoRow, Says
  <2>3. QED
    BY <2>1, <2>2
<1>3. Trusted(q) => \A t : CheckPrivilege(t, q) = BuiltIn(q) /\ BuiltIn(q) \in Right(q, t, ok)
  BY DEF CheckPrivilege, Right, Policy
<1>4. ASSUME ~Busy, db # "memory", file # NoFile, Excuse(q) = "none"
      PROVE  CheckPrivilege(file, q) \in Right(q, file, ok)
  <2>1. Right(q, file, ok) = Policy(file, q)
    BY <1>4 DEF Right
  <2>2. CASE Trusted(q)
    BY <1>3, <2>2
  <2>3. CASE ~Trusted(q) /\ RowsFor(file, q) = {}
    BY <2>1, <2>3 DEF CheckPrivilege, Policy, RulesOn
  <2>4. CASE ~Trusted(q) /\ RowsFor(file, q) # {}
    <3>1. FirstRow(RowsFor(file, q)) \in RulesOn(file, q)
      BY <1>4, <2>4 DEF Excuse
    <3>2. QED
      BY <2>1, <2>4, <3>1 DEF CheckPrivilege, Policy
  <2>5. QED
    BY <2>2, <2>3, <2>4
<1>5. ~Trusted(q) /\ RowsFor(file, q) # {}
        => \E r \in RowsFor(file, q) : CheckPrivilege(file, q) = Says(file, r)
  BY <1>1, FirstRowIsOne DEF CheckPrivilege
<1>6. QED
  BY <1>2, <1>3, <1>4, <1>5

\* The answer of handle_method_call is a verdict, with one of the excuses or none.
LEMMA CheckVerdict ==
    ASSUME NEW m \in Messages
    PROVE  /\ (IF Busy THEN BuiltIn(m.q)
               ELSE CheckPrivilege(IF db = "memory" THEN Seeded(Empty) ELSE file, m.q)) \in Verdict
           /\ "no" \in Verdict /\ "refused" \in Excuses
           /\ Excuse(m.q) \in Excuses \ {"refused", "prompt"}
<1>1. m.q \in Request
  BY DEF Messages
<1>2. Excuse(m.q) \in {"none", "policy", "user"}
  BY DEF Excuse
<1>3. "no" \in Verdict /\ "refused" \in Excuses
  BY DEF Verdict, Excuses
<1>4. QED
  BY <1>1, <1>2, <1>3, RightFacts DEF Excuses

LEMMA CheckStep == ServicesInv /\ HandleCheck => ServicesInv'
<1> SUFFICES ASSUME ServicesInv, HandleCheck PROVE ServicesInv'
  OBVIOUS
<1>1. PICK m : m = Head(queue["cynara"])
  OBVIOUS
<1>2. /\ unit["cynara"] = "named" /\ queue["cynara"] # <<>>
      /\ m.q.method = "CheckPrivilege"
      /\ queue' = [queue EXCEPT !["cynara"] = Tail(@)]
      /\ UNCHANGED <<unit, starts, handling, pam, stage, db, file, lock, valid, changes>>
      /\ faults' \in 0 .. MaxFaults
  BY <1>1, ServicesAssumption DEF HandleCheck, Dispatch, ServicesInv, WorldOK
<1>3. m.q \in Request /\ "cynara" \in Service
  BY <1>1, <1>2, Tails DEF ServicesInv, Queued, Messages, Service
<1>4. PICK v, e :
        /\ Reply(m, v, e)
        /\ \/ /\ v = IF Busy THEN BuiltIn(m.q)
                      ELSE CheckPrivilege(IF db = "memory" THEN Seeded(Empty) ELSE file, m.q)
              /\ e = Excuse(m.q)
           \/ v = "no" /\ e = "refused"
  BY <1>1 DEF HandleCheck
<1>5. v \in Verdict
  <2>1. "no" \in Verdict
    BY DEF Verdict
  <2>2. QED
    BY <1>3, <1>4, <2>1, RightFacts
<1>6. Excuse(m.q) \in {"none", "policy", "user"}
  BY DEF Excuse
<1>7. e \in Excuses /\ (e = "refused" => v = "no")
  BY <1>4, <1>6 DEF Excuses
<1>8. e = "none" => v \in Right(m.q, file, valid)
  <2>1. SUFFICES ASSUME e = "none" PROVE v \in Right(m.q, file, valid)
    OBVIOUS
  <2>2. Trusted(m.q) \/ (~Busy /\ db # "memory")
    BY <1>4, <2>1 DEF Excuse
  <2>3. CASE Trusted(m.q)
    BY <1>2, <1>3, <1>4, <2>1, <2>3, CheckFacts
  <2>4. CASE ~Busy /\ db # "memory"
    <3>1. file # NoFile
      BY <1>2, <2>4 DEF ServicesInv, UnitsOK
    <3>2. QED
      BY <1>2, <1>3, <1>4, <2>1, <2>4, <3>1, CheckFacts
  <2>5. QED
    BY <2>2, <2>3, <2>4
<1>9. QED
  BY <1>1, <1>2, <1>3, <1>4, <1>5, <1>7, <1>8, DispatchReply

LEMMA ConsentStep == ServicesInv /\ HandleConsent => ServicesInv'
<1> SUFFICES ASSUME ServicesInv, HandleConsent PROVE ServicesInv'
  OBVIOUS
<1>1. PICK m : m = Head(queue["auth"])
  OBVIOUS
<1>2. /\ unit["auth"] = "named" /\ queue["auth"] # <<>>
      /\ m.q.method = "RequestPermissionConsent"
      /\ queue' = [queue EXCEPT !["auth"] = Tail(@)]
      /\ UNCHANGED <<unit, starts, handling, pam, stage, db, worldVars>>
      /\ Reply(m, "yes", "prompt")
  BY <1>1 DEF HandleConsent, Dispatch
<1>3. "yes" \in Verdict /\ "auth" \in Service /\ "prompt" \in Excuses /\ faults \in 0 .. MaxFaults
  BY DEF Excuses, Verdict, Service, ServicesInv, WorldOK
<1>4. UNCHANGED <<file, lock, valid, faults, changes>>
  BY <1>2 DEF worldVars
<1>5. QED
  BY <1>1, <1>2, <1>3, <1>4, DispatchReply

\* pam_start: the call leaves the queue for the desk, or is refused.
LEMMA PamStartStep == ServicesInv /\ PamStart => ServicesInv'
<1> SUFFICES ASSUME ServicesInv, PamStart PROVE ServicesInv'
  OBVIOUS
<1>1. PICK m : m = Head(queue["auth"])
  OBVIOUS
<1>2. /\ unit["auth"] = "named" /\ queue["auth"] # <<>> /\ handling = Nobody
      /\ m.q.method = "AuthenticateUser"
      /\ queue' = [queue EXCEPT !["auth"] = Tail(@)]
      /\ UNCHANGED <<unit, starts, db, worldVars>>
      /\ "auth" \in Service
  BY <1>1 DEF PamStart, Dispatch, Service
<1>3. CASE Reply(m, "no", "refused") /\ UNCHANGED <<handling, pam, stage>>
  <2>1. /\ UNCHANGED <<unit, starts, handling, pam, stage, db, file, lock, valid, changes>>
        /\ "no" \in Verdict /\ "refused" \in Excuses /\ faults' \in 0 .. MaxFaults
    BY <1>2, <1>3 DEF Verdict, Excuses, worldVars, ServicesInv, WorldOK
  <2>2. QED
    BY <1>1, <1>2, <1>3, <2>1, DispatchReply
<1>4. CASE /\ handling' = m /\ pam' = pam + 1 /\ stage' = "authenticate"
           /\ UNCHANGED clientVars
  <2>0. /\ UNCHANGED <<unit, starts, db, file, lock, valid, faults, changes>>
        /\ UNCHANGED <<call, serial, request, truth, excused>>
    BY <1>2, <1>4 DEF worldVars, clientVars
  <2>1. /\ m \in Messages /\ ServiceOf(m.q) = "auth" /\ m.serial <= serial[m.client]
        /\ Queued' /\ queue'["auth"] = Tail(queue["auth"])
        /\ \A t \in Service : \A i \in 1 .. Len(queue'[t]) :
             \E k \in 1 .. Len(queue[t]) : queue'[t][i] = queue[t][k]
    BY <1>1, <1>2, <2>0, Dequeued
  <2>2. m # Nobody
    BY <2>1, ServicesAssumption
  <2>3. UnitsOK' /\ WorldOK' /\ CallsOK' /\ AnswersAreTimely'
    BY <2>0 DEF ServicesInv, UnitsOK, WorldOK, CallsOK, AnswersAreTimely
  <2>4. Desked'
    <3>1. pam = 0
      BY <1>2 DEF ServicesInv, Desked
    <3>2. QED
      BY <1>2, <1>4, <2>0, <2>1, <2>2, <3>1 DEF Desked
  <2>5. SUFFICES ASSUME NEW c \in Client, call'[c] = "waiting"
                 PROVE  request'[c] \in Request /\ Kept(c)' /\ Meant(c)' /\ Truthful(c)'
    BY <2>1, <2>3, <2>4 DEF ServicesInv, Awaited
  <2>6. /\ call[c] = "waiting" /\ request'[c] = request[c] /\ serial'[c] = serial[c]
        /\ request[c] \in Request /\ Kept(c) /\ Meant(c) /\ Truthful(c) /\ ~Desk(c)
    BY <1>2, <2>0, <2>5 DEF ServicesInv, Awaited, Desk
  <2>7. CASE ~(m.client = c /\ m.serial = serial[c])
    <3>1. ~Desk(c)'
      BY <1>4, <2>6, <2>7 DEF Desk
    <3>2. QED
      BY <1>1, <1>2, <2>0, <2>6, <2>7, <3>1, StillAwaited
  <2>8. CASE m.client = c /\ m.serial = serial[c]
    <3>1. Desk(c)'
      BY <1>4, <2>2, <2>6, <2>8 DEF Desk
    <3>2. queue["auth"] \in Seq(Messages)
      BY <1>2 DEF ServicesInv, Queued
    <3>3. queue["auth"][1] = m /\ 1 \in 1 .. Len(queue["auth"])
      BY <1>1, <1>2, <3>2, Tails
    <3>4. m.q = request[c]
      BY <1>2, <2>6, <2>8, <3>3 DEF Meant
    <3>5. Once(queue["auth"], c, serial[c])
      BY <2>1, <2>6, <3>4 DEF Kept
    <3>6. Never(Tail(queue["auth"]), c, serial[c])
      BY <1>1, <1>2, <2>8, <3>2, <3>5, TailIt
    <3>7. Kept(c)'
      BY <1>2, <2>0, <2>1, <2>6, <3>1, <3>4, <3>6 DEF Kept
    <3>8. ASSUME NEW u \in Service, NEW i \in 1 .. Len(queue'[u]),
                 queue'[u][i].client = c, queue'[u][i].serial = serial'[c]
          PROVE  queue'[u][i].q = request'[c]
      <4>1. PICK k \in 1 .. Len(queue[u]) : queue'[u][i] = queue[u][k]
        BY <2>1
      <4>2. queue[u][k].client = c /\ queue[u][k].serial = serial[c]
        BY <2>6, <3>8, <4>1
      <4>3. queue[u][k].q = request[c]
        BY <2>6, <4>2 DEF Meant
      <4>4. QED
        BY <2>6, <4>1, <4>3
    <3>9. Meant(c)'
      BY <1>4, <2>6, <3>4, <3>8 DEF Meant
    <3>10. Truthful(c)'
      BY <2>0, <2>6 DEF Truthful
    <3>11. QED
      BY <2>6, <3>7, <3>9, <3>10
  <2>9. QED
    BY <2>7, <2>8
<1>5. QED
  BY <1>1, <1>3, <1>4 DEF PamStart

LEMMA PamStep == ServicesInv /\ (PamAuthenticate \/ PamAccount) => ServicesInv'
<1> SUFFICES ASSUME ServicesInv, PamAuthenticate \/ PamAccount PROVE ServicesInv'
  OBVIOUS
<1>1. PICK m : m = handling
  OBVIOUS
<1>2. /\ stage \in {"authenticate", "account"} /\ m # Nobody /\ m \in Messages
      /\ m.q.method = "AuthenticateUser"
      /\ stage = "account" => Accepted(m.q)
      /\ UNCHANGED <<unit, starts, queue, db, worldVars>>
  BY <1>1 DEF PamAuthenticate, PamAccount, ServicesInv, Desked
<1>3. CASE /\ stage = "authenticate" /\ Accepted(m.q) /\ stage' = "account"
           /\ UNCHANGED <<handling, pam, clientVars>>
  <2>0. /\ UNCHANGED <<unit, starts, queue, db, handling, pam, file, lock, valid, faults,
                       changes>>
        /\ UNCHANGED <<call, serial, request, truth, excused>>
    BY <1>2, <1>3 DEF worldVars, clientVars
  <2>1. UnitsOK' /\ WorldOK' /\ CallsOK' /\ Queued' /\ AnswersAreTimely'
    BY <2>0 DEF ServicesInv, UnitsOK, WorldOK, CallsOK, Queued, AnswersAreTimely
  <2>2. Desked'
    BY <1>1, <1>2, <1>3, <2>0 DEF ServicesInv, Desked
  <2>3. Awaited'
    BY <2>0 DEF ServicesInv, Awaited, Kept, Meant, Desk, Truthful
  <2>4. QED
    BY <2>1, <2>2, <2>3 DEF ServicesInv
<1>4. CASE \E v, e : /\ Reply(m, v, e) /\ pam' = pam - 1 /\ stage' = "idle" /\ handling' = Nobody
                     /\ \/ v = "no" /\ e = "refused"
                        \/ v = "no" /\ e = "none" /\ ~Accepted(m.q)
                        \/ /\ v = (IF valid THEN "yes" ELSE "no")
                           /\ e = "none" /\ Accepted(m.q)
  <2>1. PICK v, e : /\ Reply(m, v, e) /\ pam' = pam - 1 /\ stage' = "idle" /\ handling' = Nobody
                    /\ \/ v = "no" /\ e = "refused"
                       \/ v = "no" /\ e = "none" /\ ~Accepted(m.q)
                       \/ /\ v = (IF valid THEN "yes" ELSE "no")
                          /\ e = "none" /\ Accepted(m.q)
    BY <1>4
  <2>2. v \in Verdict /\ e \in {"none", "refused"} /\ (e = "refused" => v = "no")
    BY <2>1 DEF Verdict
  <2>3. e = "none" => v \in Right(m.q, file, valid)
    BY <1>2, <2>1 DEF Right
  <2>4. stage # "idle"
    BY <1>2
  <2>5. QED
    BY <1>1, <1>2, <2>1, <2>2, <2>3, <2>4, DeskReply
<1>5. QED
  <2>1. CASE PamAuthenticate
    BY <1>1, <1>3, <1>4, <2>1 DEF PamAuthenticate, PamEnd
  <2>2. CASE PamAccount
    BY <1>1, <1>2, <1>4, <2>2 DEF PamAccount, PamEnd
  <2>3. QED
    BY <2>1, <2>2

-----------------------------------------------------------------------------
(* The invariant.                                                          *)

LEMMA InitServices == Init => ServicesInv
<1> USE ServicesAssumption
<1> SUFFICES ASSUME Init PROVE ServicesInv
  OBVIOUS
<1>1. UnitsOK
  BY TableFacts DEF Init, UnitsOK, Service
<1>2. WorldOK
  BY DEF Init, WorldOK
<1>3. CallsOK
  BY DEF Init, CallsOK, Verdict, Excuses
<1>4. Queued
  <2>1. \A s \in Service : queue[s] = <<>>
    BY DEF Init
  <2>2. \A s \in Service : Len(queue[s]) = 0
    BY <2>1, EmptySeq
  <2>3. \A s \in Service : \A i \in 1 .. Len(queue[s]) : FALSE
    BY <2>2
  <2>4. queue \in [Service -> Seq(Messages)]
    BY EmptySeq DEF Init
  <2>5. QED
    BY <2>1, <2>3, <2>4 DEF Queued
<1>5. Desked
  BY DEF Init, Desked
<1>6. \A c \in Client : call[c] = "idle"
  BY DEF Init
<1>7. Awaited /\ AnswersAreTimely
  BY <1>6 DEF Awaited, AnswersAreTimely, Verdict
<1>8. QED
  BY <1>1, <1>2, <1>3, <1>4, <1>5, <1>7 DEF ServicesInv

LEMMA NextServices == ServicesInv /\ [Next]_vars => ServicesInv'
<1> SUFFICES ASSUME ServicesInv, [Next]_vars PROVE ServicesInv'
  OBVIOUS
<1>1. ASSUME NEW s \in Service, Daemon(s) PROVE ServicesInv'
  BY <1>1, StartStep DEF Daemon
<1>2. ASSUME NEW s \in Service, Crash(s) PROVE ServicesInv'
  BY <1>2, CrashStep
<1>3. CASE Cynara
  BY <1>3, InitDatabaseStep, CheckStep DEF Cynara
<1>4. CASE Auth
  BY <1>4, InitAuthStep, ConsentStep, PamStartStep, PamStep DEF Auth
<1>5. ASSUME NEW c \in Client, Timeout(c) PROVE ServicesInv'
  BY <1>5, TimeoutStep
<1>6. ASSUME NEW c \in Client, NEW q \in Request, Call(c, q) PROVE ServicesInv'
  BY <1>6, CallStep
<1>7. CASE MakeFile \/ Begin \/ Flush \/ Expire
  BY <1>7, MakeFileStep, LockStep, ExpireStep
<1>8. ASSUME NEW r \in Row, NEW v \in {"none", "allow", "deny"}, Commit(r, v)
      PROVE  ServicesInv'
  BY <1>8, CommitStep
<1>9. CASE UNCHANGED vars
  <2>1. UNCHANGED <<processVars, clientVars, file, lock, valid, faults, changes>>
    BY <1>9 DEF vars, worldVars
  <2>2. UNCHANGED <<unit, starts, db, queue, handling, pam, stage>>
    BY <2>1 DEF processVars
  <2>3. UnitsOK' /\ WorldOK'
    BY <2>1, <2>2 DEF ServicesInv, UnitsOK, WorldOK
  <2>4. QED
    BY <2>1, <2>2, <2>3, LifeStep
<1>10. QED
  BY <1>1, <1>2, <1>3, <1>4, <1>5, <1>6, <1>7, <1>8, <1>9 DEF Next

\* The inductive invariant holds in every state.
THEOREM ServicesInvariant == Spec => []ServicesInv
<1>1. QED
  BY InitServices, NextServices, PTL DEF Spec

\* Types, and at most one PAM handle (perform_pam_auth, auth-daemon.c).
THEOREM ServicesTypeCorrect == Spec => []TypeOK
<1>1. ServicesInv => TypeOK
  BY DEF ServicesInv, UnitsOK, WorldOK, CallsOK, Queued, Desked, TypeOK
<1>2. QED
  BY <1>1, ServicesInvariant, PTL

\* A call a client waits for is exactly once in the queue of its service or on
\* PAM's desk (handle_method_call of both daemons, and the bus).
THEOREM NoWaitingCallIsLost == Spec => []NoCallIsLost
<1>1. ASSUME ServicesInv, NEW c \in Client, call[c] = "waiting"
      PROVE  LET s == ServiceOf(request[c]) IN
             /\ unit[s] = "named"
             /\ \/ \E i \in DOMAIN queue[s] : Holds(s, c) = {i} /\ ~Desk(c)
                \/ s = "auth" /\ Desk(c) /\ Holds(s, c) = {}
  <2>1. PICK s \in Service :
          /\ s = ServiceOf(request[c]) /\ unit[s] = "named"
          /\ \/ Once(queue[s], c, serial[c]) /\ ~Desk(c)
             \/ s = "auth" /\ Desk(c) /\ Never(queue[s], c, serial[c])
    BY <1>1 DEF ServicesInv, Awaited, Kept
  <2>2. DOMAIN queue[s] = 1 .. Len(queue[s])
    BY <1>1, LenProperties DEF ServicesInv, Queued
  <2>3. CASE Once(queue[s], c, serial[c]) /\ ~Desk(c)
    <3>1. PICK i \in 1 .. Len(queue[s]) :
            /\ queue[s][i].client = c /\ queue[s][i].serial = serial[c]
            /\ \A k \in 1 .. Len(queue[s]) :
                 queue[s][k].client = c /\ queue[s][k].serial = serial[c] => k = i
      BY <2>3 DEF Once
    <3>2. Holds(s, c) = {i}
      BY <2>2, <3>1 DEF Holds
    <3>3. QED
      BY <2>1, <2>2, <2>3, <3>2
  <2>4. CASE s = "auth" /\ Desk(c) /\ Never(queue[s], c, serial[c])
    <3>1. Holds(s, c) = {}
      BY <2>2, <2>4 DEF Holds, Never
    <3>2. QED
      BY <2>1, <2>4, <3>1
  <2>5. QED
    BY <2>1, <2>3, <2>4
<1>2. ServicesInv => NoCallIsLost
  BY <1>1 DEF NoCallIsLost
<1>3. QED
  BY <1>2, ServicesInvariant, PTL

\* An answer was right, by the documents, between the call and itself, unless it has one of
\* the named excuses; a failure of PAM or of the lookup lets nobody in (handle_method_call,
\* perform_pam_auth).
THEOREM EveryAnswerIsTimely == Spec => []AnswersAreTimely
<1>1. ServicesInv => AnswersAreTimely
  BY DEF ServicesInv
<1>2. QED
  BY <1>1, ServicesInvariant, PTL

\* No step but a change by hand changes a policy that is on disk (init_database).
THEOREM NoStartChangesPolicies == Spec => PoliciesSurvive
<1>1. ASSUME ServicesInv, [Next]_vars, file # NoFile, lock' = lock,
             NEW r \in Row, file[r] # "none"
      PROVE  file'[r] = file[r]
  <2>1. CASE InitDatabase
    <3>1. file' = file \/ file' = Seeded(file)
      BY <2>1 DEF InitDatabase
    <3>2. Seeded(file)[r] = file[r]
      BY <1>1, TableFacts DEF ServicesInv, UnitsOK
    <3>3. QED
      BY <3>1, <3>2
  <2>2. CASE MakeFile
    BY <1>1, <2>2 DEF MakeFile
  <2>3. ASSUME NEW p \in Row, NEW v \in {"none", "allow", "deny"}, Commit(p, v)
        PROVE  FALSE
    <3>1. lock = "exclusive" /\ lock' = "free"
      BY <2>3 DEF Commit
    <3>2. QED
      BY <1>1, <3>1
  <2>4. CASE file' = file
    BY <2>4
  <2>5. \/ InitDatabase \/ MakeFile \/ file' = file
        \/ \E p \in Row, v \in {"none", "allow", "deny"} : Commit(p, v)
    BY <1>1 DEF Next, vars, worldVars, Daemon, Start, OnBusAcquired, NameAcquired, Crash, Cynara,
             HandleCheck, Auth, InitAuth, HandleConsent, PamStart, PamAuthenticate, PamAccount,
             Timeout, Call, Begin, Flush, Expire
  <2>6. QED
    BY <2>1, <2>2, <2>3, <2>4, <2>5
<1>2. ServicesInv /\ [Next]_vars =>
        (file # NoFile /\ lock' = lock =>
           \A r \in Row : file[r] # "none" => file'[r] = file[r])
  BY <1>1
<1>3. QED
  BY <1>2, ServicesInvariant, PTL DEF Spec, PoliciesSurvive

-----------------------------------------------------------------------------
(* Nobody overtakes: what a waiting client is ahead of.                    *)

\* Where in a queue a call is.
At(s, c, n) == CHOOSE i \in 1 .. Len(s) : s[i].client = c /\ s[i].serial = n

LEMMA AtIt ==
    ASSUME NEW s \in Seq(Messages), NEW c, NEW n, Once(s, c, n)
    PROVE  /\ At(s, c, n) \in 1 .. Len(s)
           /\ s[At(s, c, n)].client = c /\ s[At(s, c, n)].serial = n
           /\ \A k \in 1 .. Len(s) : s[k].client = c /\ s[k].serial = n => k = At(s, c, n)
<1>1. PICK i \in 1 .. Len(s) :
        /\ s[i].client = c /\ s[i].serial = n
        /\ \A k \in 1 .. Len(s) : s[k].client = c /\ s[k].serial = n => k = i
  BY DEF Once
<1>2. /\ At(s, c, n) \in 1 .. Len(s)
      /\ s[At(s, c, n)].client = c /\ s[At(s, c, n)].serial = n
  BY <1>1 DEF At
<1>3. QED
  BY <1>1, <1>2

\* A later call does not move an earlier one.
LEMMA AppendedAt ==
    ASSUME NEW s \in Seq(Messages), NEW m \in Messages, NEW c, NEW n,
           Once(s, c, n), Once(Append(s, m), c, n)
    PROVE  At(Append(s, m), c, n) = At(s, c, n)
<1>1. /\ Len(s) \in Nat /\ Len(Append(s, m)) = Len(s) + 1
      /\ \A i \in 1 .. Len(s) : Append(s, m)[i] = s[i]
      /\ Append(s, m) \in Seq(Messages)
  BY AppendProperties, LenProperties
<1>2. /\ At(s, c, n) \in 1 .. Len(s)
      /\ s[At(s, c, n)].client = c /\ s[At(s, c, n)].serial = n
  BY AtIt
<1>3. At(s, c, n) \in 1 .. Len(Append(s, m)) /\ Append(s, m)[At(s, c, n)] = s[At(s, c, n)]
  BY <1>1, <1>2
<1>4. \A t \in Seq(Messages) : Once(t, c, n) =>
        \A k \in 1 .. Len(t) : t[k].client = c /\ t[k].serial = n => k = At(t, c, n)
  BY AtIt
<1>5. QED
  BY <1>1, <1>2, <1>3, <1>4

\* A call that is taken out brings those behind it one place forward.
LEMMA TailAt ==
    ASSUME NEW s \in Seq(Messages), s # <<>>, NEW c, NEW n,
           Once(s, c, n), Once(Tail(s), c, n)
    PROVE  /\ At(Tail(s), c, n) = At(s, c, n) - 1
           /\ At(s, c, n) \in Nat /\ At(s, c, n) >= 2
<1>1. /\ Tail(s) \in Seq(Messages) /\ Len(s) \in Nat /\ Len(Tail(s)) = Len(s) - 1
      /\ \A i \in 1 .. Len(Tail(s)) : i + 1 \in 1 .. Len(s) /\ Tail(s)[i] = s[i + 1]
  BY Tails
<1>2. /\ At(Tail(s), c, n) \in 1 .. Len(Tail(s))
      /\ Tail(s)[At(Tail(s), c, n)].client = c /\ Tail(s)[At(Tail(s), c, n)].serial = n
  <2>1. \A t \in Seq(Messages) : Once(t, c, n) =>
          At(t, c, n) \in 1 .. Len(t) /\ t[At(t, c, n)].client = c /\ t[At(t, c, n)].serial = n
    BY AtIt
  <2>2. QED
    BY <1>1, <2>1
<1>3. /\ At(Tail(s), c, n) + 1 \in 1 .. Len(s)
      /\ Tail(s)[At(Tail(s), c, n)] = s[At(Tail(s), c, n) + 1]
  BY <1>1, <1>2
<1>4. At(Tail(s), c, n) + 1 = At(s, c, n)
  BY <1>2, <1>3, AtIt
<1>5. QED
  BY <1>1, <1>2, <1>4

\* What PAM has still to do for the call on its desk.
PamSteps == CASE stage = "authenticate" -> 2 [] stage = "account" -> 1 [] OTHER -> 0

\* The main loop's steps until the call of a waiting client is answered, at the most: those
\* for itself and those for the calls before it, three for each of tizen-auth's.
StepsAhead(c) ==
    LET s == ServiceOf(request[c]) IN
    IF Desk(c) THEN PamSteps
    ELSE IF s = "auth" THEN 3 * At(queue[s], c, serial[c]) + PamSteps
    ELSE At(queue[s], c, serial[c])

\* The steps of the main loop of a service that answer calls.
Serves(s) ==
    \/ s = "cynara" /\ HandleCheck
    \/ s = "auth" /\ (HandleConsent \/ PamStart \/ PamAuthenticate \/ PamAccount)

\* A client that waits never falls back, whatever the others call, give up, edit or crash,
\* and each step of the service it asked brings it nearer to its answer: on one thread
\* that PAM may hold, no call is overtaken.
NobodyOvertakes ==
    [][\A c \in Client : call[c] = "waiting" /\ call'[c] = "waiting" =>
         /\ StepsAhead(c)' <= StepsAhead(c)
         /\ Serves(ServiceOf(request[c])) => StepsAhead(c)' < StepsAhead(c)]_vars

\* A client that goes on waiting waits for the same call.
LEMMA SameCall ==
    ASSUME ServicesInv, [Next]_vars, NEW c \in Client, call[c] = "waiting",
           call'[c] = "waiting"
    PROVE  serial'[c] = serial[c] /\ request'[c] = request[c]
<1>1. ASSUME NEW m \in Messages, NEW v \in Verdict, NEW e \in Excuses,
             Reply(m, v, e)
      PROVE  serial'[c] = serial[c] /\ request'[c] = request[c]
  BY <1>1, Replied
<1>2. CASE HandleCheck
  <2>1. PICK m \in Messages, v \in Verdict, e \in Excuses : Reply(m, v, e)
    <3>1. Head(queue["cynara"]) \in Messages
      BY <1>2, Tails DEF HandleCheck, Dispatch, ServicesInv, Queued, Service
    <3>2. QED
      BY <1>2, <3>1, CheckVerdict DEF HandleCheck
  <2>2. QED
    BY <1>1, <2>1
<1>3. CASE HandleConsent \/ PamStart
  <2>1. Head(queue["auth"]) \in Messages
    BY <1>3, Tails DEF HandleConsent, PamStart, Dispatch, ServicesInv, Queued, Service
  <2>2. UNCHANGED clientVars \/ \E v \in Verdict, e \in Excuses :
                                   Reply(Head(queue["auth"]), v, e)
    BY <1>3 DEF HandleConsent, PamStart, Verdict, Excuses
  <2>3. QED
    BY <1>1, <2>1, <2>2 DEF clientVars
<1>4. CASE PamAuthenticate \/ PamAccount
  <2>1. handling \in Messages
    BY <1>4 DEF PamAuthenticate, PamAccount, ServicesInv, Desked
  <2>2. UNCHANGED clientVars \/ \E v \in Verdict, e \in Excuses :
                                   Reply(handling, v, e)
    BY <1>4 DEF PamAuthenticate, PamAccount, PamEnd, Verdict, Excuses
  <2>3. QED
    BY <1>1, <2>1, <2>2 DEF clientVars
<1>5. ASSUME NEW d \in Client, NEW q \in Request, Call(d, q)
      PROVE  serial'[c] = serial[c] /\ request'[c] = request[c]
  <2>1. d # c
    BY <1>5 DEF Call
  <2>2. serial'[c] = serial[c]
    BY <1>5, <2>1 DEF Call, ServicesInv, CallsOK
  <2>3. request' = [request EXCEPT ![d] = q] \/ Drop({d})
    BY <1>5 DEF Call
  <2>4. request'[c] = request[c]
    BY <2>1, <2>3 DEF Drop, ServicesInv, CallsOK
  <2>5. QED
    BY <2>2, <2>4
<1>6. ASSUME NEW d \in Client, Timeout(d)
      PROVE  serial'[c] = serial[c] /\ request'[c] = request[c]
  <2>1. d # c
    BY <1>6 DEF Timeout, ServicesInv, CallsOK
  <2>2. QED
    BY <1>6, <2>1 DEF Timeout, Drop
<1>7. ASSUME NEW t \in Service, Crash(t)
      PROVE  serial'[c] = serial[c] /\ request'[c] = request[c]
  <2>1. ~Waits(c, t)
    BY <1>7 DEF Crash
  <2>2. QED
    BY <1>7, <2>1 DEF Crash, Drop
<1>8. \/ UNCHANGED <<serial, request>>
      \/ HandleCheck \/ HandleConsent \/ PamStart \/ PamAuthenticate \/ PamAccount
      \/ \E d \in Client : Timeout(d) \/ \E q \in Request : Call(d, q)
      \/ \E t \in Service : Crash(t)
  BY DEF Next, Daemon, Start, OnBusAcquired, NameAcquired, Cynara, InitDatabase, Auth, InitAuth,
         MakeFile, Begin, Flush, Expire, Commit, vars, clientVars
<1>9. QED
  BY <1>2, <1>3, <1>4, <1>5, <1>6, <1>7, <1>8

\* The queue of a service loses its head, gains a call at its end or stays as it is.
LEMMA QueueSteps ==
    ASSUME ServicesInv, [Next]_vars, NEW c \in Client, call[c] = "waiting",
           call'[c] = "waiting", NEW s \in Service, s = ServiceOf(request[c]),
           NEW served, served <=> (s = "cynara" /\ HandleCheck)
                                  \/ (s = "auth" /\ (HandleConsent \/ PamStart))
    PROVE  /\ served => queue[s] # <<>> /\ queue'[s] = Tail(queue[s])
           /\ ~served => \/ queue'[s] = queue[s]
                         \/ \E m \in Messages : queue'[s] = Append(queue[s], m)
<1>0. queue \in [Service -> Seq(Messages)] /\ "cynara" \in Service /\ "auth" \in Service
  BY DEF ServicesInv, Queued, Service
<1>1. CASE HandleCheck
  <2>1. queue["cynara"] # <<>> /\ queue' = [queue EXCEPT !["cynara"] = Tail(@)]
    BY <1>1 DEF HandleCheck, Dispatch
  <2>2. s = "cynara" \/ (s = "auth" /\ queue'[s] = queue[s])
    BY <1>0, <2>1 DEF Service
  <2>3. s = "auth" => ~(HandleConsent \/ PamStart)
    <3>1. SUFFICES ASSUME HandleConsent \/ PamStart PROVE FALSE
      OBVIOUS
    <3>2. queue["auth"] # <<>> /\ queue' = [queue EXCEPT !["auth"] = Tail(@)]
      BY <3>1 DEF HandleConsent, PamStart, Dispatch
    <3>3. queue'["cynara"] = Tail(queue["cynara"]) /\ queue'["cynara"] = queue["cynara"]
      BY <1>0, <2>1, <3>2
    <3>4. \A q \in Seq(Messages) : q # <<>> => Tail(q) # q
      <4>1. SUFFICES ASSUME NEW q \in Seq(Messages), q # <<>>, NEW t, t = Tail(q) PROVE t # q
        OBVIOUS
      <4>2. Len(t) = Len(q) - 1 /\ Len(q) \in Nat
        BY <4>1, Tails
      <4>3. QED
        BY <4>2
    <3>5. QED
      BY <1>0, <2>1, <3>3, <3>4
  <2>4. QED
    BY <1>0, <1>1, <2>1, <2>2, <2>3
<1>2. CASE HandleConsent \/ PamStart
  <2>1. queue["auth"] # <<>> /\ queue' = [queue EXCEPT !["auth"] = Tail(@)]
    BY <1>2 DEF HandleConsent, PamStart, Dispatch
  <2>2. s = "auth" \/ (s = "cynara" /\ queue'[s] = queue[s])
    BY <1>0, <2>1 DEF Service
  <2>3. CASE HandleCheck
    BY <1>1, <2>3
  <2>4. QED
    BY <1>0, <1>2, <2>1, <2>2, <2>3
<1>3. CASE ~(HandleCheck \/ HandleConsent \/ PamStart)
  <2>1. CASE UNCHANGED queue
    BY <1>3, <2>1
  <2>2. ASSUME NEW d \in Client, NEW q \in Request, Call(d, q)
        PROVE  \/ queue'[s] = queue[s]
               \/ \E m \in Messages : queue'[s] = Append(queue[s], m)
    <3>1. CASE UNCHANGED queue
      BY <3>1
    <3>2. CASE queue' = [queue EXCEPT ![ServiceOf(q)] =
                           Append(@, [client |-> d, serial |-> serial[d] + 1, q |-> q])]
      <4>1. [client |-> d, serial |-> serial[d] + 1, q |-> q] \in Messages
        BY DEF Messages, ServicesInv, CallsOK
      <4>2. QED
        BY <1>0, <3>2, <4>1
    <3>3. QED
      BY <2>2, <3>1, <3>2 DEF Call
  <2>3. ASSUME NEW t \in Service, Crash(t) PROVE queue'[s] = queue[s]
    <3>1. t # s
      BY <2>3 DEF Crash, Waits
    <3>2. QED
      BY <1>0, <2>3, <3>1 DEF Crash
  <2>4. \/ UNCHANGED queue
        \/ \E d \in Client, q \in Request : Call(d, q)
        \/ \E t \in Service : Crash(t)
    BY <1>3 DEF Next, Daemon, Start, OnBusAcquired, NameAcquired, Cynara, InitDatabase, Auth,
           InitAuth, PamAuthenticate, PamAccount, Timeout, MakeFile, Begin, Flush, Expire, Commit,
           vars, processVars
  <2>5. QED
    BY <1>3, <2>1, <2>2, <2>3, <2>4
<1>4. QED
  BY <1>1, <1>2, <1>3

\* What happens on PAM's desk while a client of tizen-auth waits.
LEMMA DeskSteps ==
    ASSUME ServicesInv, [Next]_vars, NEW c \in Client, call[c] = "waiting",
           call'[c] = "waiting", ServiceOf(request[c]) = "auth"
    PROVE  \/ UNCHANGED <<handling, stage>> /\ ~(HandleConsent \/ PamStart)
              /\ ~(PamAuthenticate \/ PamAccount)
           \/ HandleConsent /\ handling = Nobody /\ UNCHANGED <<handling, stage>>
           \/ PamStart /\ handling = Nobody
              /\ (UNCHANGED <<handling, stage>> \/ stage' = "authenticate")
           \/ /\ PamAuthenticate \/ PamAccount
              /\ stage # "idle" /\ UNCHANGED queue
              /\ \/ stage = "authenticate" /\ stage' = "account" /\ UNCHANGED handling
                 \/ stage' = "idle" /\ ~Desk(c)
<1>1. CASE HandleConsent
  BY <1>1 DEF HandleConsent, Dispatch
<1>2. CASE PamStart
  BY <1>2 DEF PamStart, Dispatch
<1>3. CASE PamAuthenticate \/ PamAccount
  <2>1. CASE stage = "authenticate" /\ stage' = "account" /\ UNCHANGED <<handling, queue>>
    BY <1>3, <2>1
  <2>2. ASSUME NEW v \in Verdict, NEW e \in Excuses, PamEnd(v, e)
        PROVE  stage' = "idle" /\ ~Desk(c)
    <3>1. stage' = "idle" /\ Reply(handling, v, e)
      BY <2>2 DEF PamEnd
    <3>2. handling \in Messages
      BY <1>3 DEF PamAuthenticate, PamAccount, ServicesInv, Desked
    <3>3. ~(handling.client = c /\ handling.serial = serial[c])
      BY <3>1, <3>2, Replied
    <3>4. QED
      BY <3>1, <3>3 DEF Desk
  <2>3. \/ stage = "authenticate" /\ stage' = "account" /\ UNCHANGED <<handling, queue>>
        \/ \E v \in Verdict, e \in Excuses : PamEnd(v, e)
    BY <1>3 DEF PamAuthenticate, PamAccount, Verdict, Excuses
  <2>4. stage # "idle" /\ UNCHANGED queue
    BY <1>3 DEF PamAuthenticate, PamAccount
  <2>5. QED
    BY <1>3, <2>1, <2>2, <2>3, <2>4
<1>4. CASE ~(HandleConsent \/ PamStart \/ PamAuthenticate \/ PamAccount)
  <2>1. ASSUME NEW t \in Service, Crash(t) PROVE UNCHANGED <<handling, stage>>
    <3>1. t # "auth"
      BY <2>1 DEF Crash, Waits
    <3>2. QED
      BY <2>1, <3>1 DEF Crash
  <2>2. UNCHANGED <<handling, stage>> \/ \E t \in Service : Crash(t)
    BY <1>4 DEF Next, Daemon, Start, OnBusAcquired, NameAcquired, Cynara, InitDatabase,
           HandleCheck, Auth, InitAuth, Timeout, Call, MakeFile, Begin, Flush, Expire, Commit,
           vars, processVars
  <2>3. QED
    BY <1>4, <2>1, <2>2
<1>5. QED
  BY <1>1, <1>2, <1>3, <1>4

LEMMA ComingForward ==
    ASSUME ServicesInv, ServicesInv', [Next]_vars, NEW c \in Client, call[c] = "waiting",
           call'[c] = "waiting"
    PROVE  /\ StepsAhead(c)' <= StepsAhead(c)
           /\ Serves(ServiceOf(request[c])) => StepsAhead(c)' < StepsAhead(c)
<1> DEFINE n == serial[c]  s == ServiceOf(request[c])  old == queue[s]  new == queue'[s]
<1>1. serial'[c] = n /\ request'[c] = request[c]
  BY SameCall
<1>2. /\ s \in Service /\ old \in Seq(Messages) /\ new \in Seq(Messages)
      /\ \/ Once(old, c, n) /\ ~Desk(c)
         \/ s = "auth" /\ Desk(c) /\ Never(old, c, n)
      /\ \/ Once(new, c, n) /\ ~Desk(c)'
         \/ s = "auth" /\ Desk(c)' /\ Never(new, c, n)
  <2>1. Kept(c)
    BY DEF ServicesInv, Awaited
  <2>2. Kept(c)'
    BY DEF ServicesInv, Awaited
  <2>3. old \in Seq(Messages) /\ new \in Seq(Messages) /\ s \in Service
    BY <2>1 DEF ServicesInv, Queued, Kept
  <2>4. \/ Once(old, c, n) /\ ~Desk(c)
        \/ s = "auth" /\ Desk(c) /\ Never(old, c, n)
    BY <2>1 DEF Kept
  <2>5. \/ Once(new, c, n) /\ ~Desk(c)'
        \/ s = "auth" /\ Desk(c)' /\ Never(new, c, n)
    BY <1>1, <2>2 DEF Kept
  <2>6. QED
    BY <2>3, <2>4, <2>5
<1> DEFINE served == (s = "cynara" /\ HandleCheck)
                     \/ (s = "auth" /\ (HandleConsent \/ PamStart))
<1>3. /\ served => old # <<>> /\ new = Tail(old)
      /\ ~served => new = old \/ \E m \in Messages : new = Append(old, m)
  BY <1>2, QueueSteps
<1>4. /\ Once(old, c, n) => At(old, c, n) \in Nat /\ At(old, c, n) >= 1
      /\ Once(old, c, n) /\ Once(new, c, n) =>
           At(new, c, n) = IF served THEN At(old, c, n) - 1 ELSE At(old, c, n)
  <2>1. Once(old, c, n) => At(old, c, n) \in 1 .. Len(old) /\ Len(old) \in Nat
    BY <1>2, AtIt, LenProperties
  <2>2. CASE served
    BY <1>2, <1>3, <2>1, <2>2, TailAt
  <2>3. CASE ~served
    <3>1. CASE new = old
      BY <2>1, <2>3, <3>1
    <3>2. ASSUME NEW m \in Messages, new = Append(old, m), Once(old, c, n), Once(new, c, n)
          PROVE  At(new, c, n) = At(old, c, n)
      <4>1. Once(Append(old, m), c, n)
        BY <3>2
      <4>2. QED
        BY <1>2, <3>2, <4>1, AppendedAt
    <3>3. QED
      BY <1>3, <2>1, <2>3, <3>1, <3>2
  <2>4. QED
    BY <2>1, <2>2, <2>3
<1>5. /\ StepsAhead(c) = IF Desk(c) THEN PamSteps
                         ELSE IF s = "auth" THEN 3 * At(old, c, n) + PamSteps
                         ELSE At(old, c, n)
      /\ StepsAhead(c)' = IF Desk(c)' THEN PamSteps'
                          ELSE IF s = "auth" THEN 3 * At(new, c, n) + PamSteps'
                          ELSE At(new, c, n)
  BY <1>1 DEF StepsAhead
<1>6. Serves(s) <=> served \/ (s = "auth" /\ (PamAuthenticate \/ PamAccount))
  BY DEF Serves
<1>7. PamSteps \in 0 .. 2 /\ PamSteps' \in 0 .. 2
  BY DEF PamSteps
<1> HIDE DEF served, n, old, new
<1>8. CASE s = "cynara"
  BY <1>2, <1>4, <1>5, <1>6, <1>8
<1>9. CASE s = "auth"
  <2>1. CASE UNCHANGED <<handling, stage>> /\ ~(HandleConsent \/ PamStart)
             /\ ~(PamAuthenticate \/ PamAccount)
    <3>1. PamSteps' = PamSteps /\ (Desk(c)' <=> Desk(c))
      BY <1>1, <2>1 DEF PamSteps, Desk, n
    <3>2. ~served /\ ~Serves(s)
      BY <1>6, <1>9, <2>1 DEF served
    <3>3. QED
      BY <1>2, <1>4, <1>5, <1>7, <1>9, <3>1, <3>2
  <2>2. CASE (HandleConsent \/ PamStart) /\ handling = Nobody /\ UNCHANGED <<handling, stage>>
    <3>1. PamSteps' = PamSteps /\ ~Desk(c)' /\ ~Desk(c)
      BY <2>2 DEF PamSteps, Desk
    <3>2. served
      BY <1>9, <2>2 DEF served
    <3>3. QED
      BY <1>2, <1>4, <1>5, <1>7, <1>9, <3>1, <3>2
  <2>3. CASE PamStart /\ handling = Nobody /\ stage' = "authenticate"
    <3>1. PamSteps' = 2 /\ ~Desk(c)
      BY <2>3 DEF PamSteps, Desk
    <3>2. PamSteps = 0
      BY <2>3 DEF PamSteps, ServicesInv, Desked
    <3>3. served
      BY <1>9, <2>3 DEF served
    <3>4. QED
      BY <1>2, <1>4, <1>5, <1>9, <3>1, <3>2, <3>3
  <2>4. CASE /\ PamAuthenticate \/ PamAccount
             /\ stage # "idle" /\ UNCHANGED queue
             /\ \/ stage = "authenticate" /\ stage' = "account" /\ UNCHANGED handling
                \/ stage' = "idle" /\ ~Desk(c)
    <3>1. new = old
      BY <2>4 DEF new, old
    <3>2. CASE stage = "authenticate" /\ stage' = "account" /\ UNCHANGED handling
      <4>1. PamSteps = 2 /\ PamSteps' = 1 /\ (Desk(c)' <=> Desk(c))
        BY <1>1, <3>2 DEF PamSteps, Desk, n
      <4>2. QED
        BY <1>2, <1>4, <1>5, <1>9, <3>1, <4>1
    <3>3. CASE stage' = "idle" /\ ~Desk(c)
      <4>1. PamSteps' = 0 /\ ~Desk(c)'
        BY <3>3 DEF PamSteps, ServicesInv, Desked, Desk
      <4>2. PamSteps \in 1 .. 2
        BY <2>4 DEF PamSteps, ServicesInv, Desked
      <4>3. QED
        BY <1>2, <1>4, <1>5, <1>9, <3>1, <3>3, <4>1, <4>2
    <3>4. QED
      BY <2>4, <3>2, <3>3
  <2>5. QED
    BY <1>9, <2>1, <2>2, <2>3, <2>4, DeskSteps
<1>10. QED
  BY <1>2, <1>8, <1>9 DEF Service

\* Nobody overtakes in either service (the bus's delivery, handle_method_call and
\* perform_pam_auth of both daemons).
THEOREM CallsComeForward == Spec => NobodyOvertakes
<1>1. ServicesInv /\ ServicesInv' /\ [Next]_vars =>
        \A c \in Client : call[c] = "waiting" /\ call'[c] = "waiting" =>
          /\ StepsAhead(c)' <= StepsAhead(c)
          /\ Serves(ServiceOf(request[c])) => StepsAhead(c)' < StepsAhead(c)
  BY ComingForward
<1>2. QED
  BY <1>1, ServicesInvariant, PTL DEF Spec, NobodyOvertakes

-----------------------------------------------------------------------------
(* Every call ends.                                                        *)

\* A premise, which speaks of ENABLED and so is not proved here: while a client waits the
\* service it asked has a step to take.
NobodyHoldsUp ==
    \A c \in Client :
        /\ Waits(c, "cynara") => ENABLED <<Cynara>>_vars
        /\ Waits(c, "auth") => ENABLED <<Auth>>_vars

\* What EveryCallEnds is proved of: both main loops are fair and can go on while they have
\* a call.
ServiceFlow ==
    /\ []ServicesInv /\ [][Next]_vars /\ WF_vars(Cynara) /\ WF_vars(Auth) /\ []NobodyHoldsUp

StepsOf == [c \in Client |-> StepsAhead(c)]
GoesOn == [c \in Client |-> call[c] = "waiting"]

Callers == INSTANCE Descent WITH rank <- StepsOf, busy <- GoesOn

LEMMA StepsNumber ==
    ASSUME ServicesInv, NEW c \in Client, call[c] = "waiting"
    PROVE  StepsAhead(c) \in Nat /\ ServiceOf(request[c]) \in Service
<1> DEFINE s == ServiceOf(request[c])
<1>1. s \in Service /\ (Once(queue[s], c, serial[c]) \/ Desk(c)) /\ queue[s] \in Seq(Messages)
  BY DEF ServicesInv, Awaited, Kept, Queued
<1>2. PamSteps \in Nat
  BY DEF PamSteps
<1>3. Once(queue[s], c, serial[c]) => At(queue[s], c, serial[c]) \in Nat
  <2>1. Len(queue[s]) \in Nat
    BY <1>1, LenProperties
  <2>2. QED
    BY <1>1, <2>1, AtIt
<1>4. QED
  BY <1>1, <1>2, <1>3 DEF StepsAhead

LEMMA StepsNumbers ==
    \A d \in Client : ServicesInv /\ call[d] = "waiting" => StepsAhead(d) \in Nat
BY StepsNumber

\* While a client waits its service is up, and a step of it answers calls.
LEMMA StepsServe ==
    ASSUME ServicesInv, NEW c \in Client, call[c] = "waiting", NEW s \in Service,
           s = ServiceOf(request[c]),
           (s = "cynara" /\ Cynara) \/ (s = "auth" /\ Auth)
    PROVE  Serves(s)
<1>1. unit[s] = "named"
  BY DEF ServicesInv, Awaited, Kept
<1>2. QED
  BY <1>1 DEF Serves, Cynara, Auth, InitDatabase, InitAuth

LEMMA CallFalls ==
    ASSUME NEW c \in Client, NEW n \in Nat PROVE ServiceFlow => Callers!Falls(c, n)
<1> DEFINE Here(s) == call[c] = "waiting" /\ ServiceOf(request[c]) = s /\ StepsAhead(c) = n
<1> DEFINE Done == call[c] # "waiting" \/ StepsAhead(c) < n
<1>1. ASSUME NEW s \in Service, ServicesInv, ServicesInv', [Next]_vars, Here(s)
      PROVE  /\ Here(s)' \/ Done'
             /\ (s = "cynara" /\ Cynara) \/ (s = "auth" /\ Auth) => Done'
  <2>1. SUFFICES ASSUME call'[c] = "waiting"
                 PROVE  /\ Here(s)' \/ Done'
                        /\ (s = "cynara" /\ Cynara) \/ (s = "auth" /\ Auth) => Done'
    OBVIOUS
  <2>2. ServiceOf(request[c])' = s
    BY <1>1, <2>1, SameCall DEF ServiceOf
  <2>3. PICK k \in Nat : k = StepsAhead(c)'
    <3>1. (\A d \in Client : ServicesInv /\ call[d] = "waiting" => StepsAhead(d) \in Nat)'
      BY StepsNumbers, PTL
    <3>2. QED
      BY <1>1, <2>1, <3>1
  <2>4. k <= n /\ (Serves(s) => k < n)
    BY <1>1, <2>1, <2>3, ComingForward
  <2>5. (s = "cynara" /\ Cynara) \/ (s = "auth" /\ Auth) => Serves(s)
    BY <1>1, StepsServe
  <2>6. k = n \/ k < n
    BY <2>4
  <2>7. QED
    BY <2>1, <2>2, <2>3, <2>4, <2>5, <2>6
<1>2. /\ Here("cynara") /\ NobodyHoldsUp => ENABLED <<Cynara>>_vars
      /\ Here("auth") /\ NobodyHoldsUp => ENABLED <<Auth>>_vars
  BY DEF NobodyHoldsUp, Waits
<1>3. ServicesInv =>
        (GoesOn[c] /\ StepsOf[c] = n => Here("cynara") \/ Here("auth"))
  BY StepsNumber DEF GoesOn, StepsOf, Service
<1>4. /\ Done <=> ~GoesOn[c] \/ StepsOf[c] < n
      /\ "cynara" \in Service /\ "auth" \in Service
  BY DEF GoesOn, StepsOf, Service
<1>5. /\ ServicesInv /\ ServicesInv' /\ [Next]_vars /\ Here("cynara")
           => (Here("cynara")' \/ Done') /\ (Cynara => Done')
      /\ ServicesInv /\ ServicesInv' /\ [Next]_vars /\ Here("auth")
           => (Here("auth")' \/ Done') /\ (Auth => Done')
  BY <1>1, <1>4
<1> HIDE DEF Here, Done
<1>6. ServiceFlow => [](Here("cynara") => <>Done)
  BY <1>2, <1>5, PTL DEF ServiceFlow
<1>7. ServiceFlow => [](Here("auth") => <>Done)
  BY <1>2, <1>5, PTL DEF ServiceFlow
<1>8. QED
  BY <1>3, <1>4, <1>6, <1>7, PTL DEF ServiceFlow, Callers!Falls

\* EveryCallEnds: whoever else calls, gives up, edits or crashes, the call of a client comes
\* to its answer or to an error, as long as both main loops run and, the premise, a loop with
\* a call has a step to take (handle_method_call of both daemons, perform_pam_auth).
THEOREM CallsEnd == Spec /\ []NobodyHoldsUp => EveryCallEnds
<1>1. Spec /\ []NobodyHoldsUp => ServiceFlow
  BY ServicesInvariant, PTL DEF Spec, Fairness, ServiceFlow
<1>2. ASSUME NEW c \in Client
      PROVE  ServiceFlow => (call[c] = "waiting" ~> call[c] # "waiting")
  <2>1. ServiceFlow => Callers!Descending(c)
    <3>1. ServicesInv => (GoesOn[c] => StepsOf[c] \in Nat)
      BY StepsNumber DEF GoesOn, StepsOf
    <3>2. ServiceFlow => Callers!Ranked(c)
      BY <3>1, PTL DEF ServiceFlow, Callers!Ranked
    <3>3. ServiceFlow => Callers!Descends(c)
      BY <3>2, CallFalls DEF Callers!Descends
    <3>4. QED
      BY <3>3, PTL DEF ServiceFlow, Callers!Descending
  <2>2. Callers!Descending(c) => Callers!Rests(c)
    BY Callers!Descent
  <2>3. /\ call[c] = "waiting" <=> GoesOn[c]
        /\ call[c] # "waiting" <=> ~GoesOn[c]
    BY DEF GoesOn
  <2>4. QED
    BY <2>1, <2>2, <2>3, PTL DEF Callers!Rests
<1>3. QED
  BY <1>1, <1>2 DEF EveryCallEnds

=============================================================================
