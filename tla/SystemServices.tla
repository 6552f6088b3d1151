--------------------------- MODULE SystemServices ----------------------------
(***************************************************************************)
(* The two services of the system bus, security/cynara/cynara-daemon.c and *)
(* security/tizen-auth/src/auth-daemon.c: each one process with one GLib   *)
(* main loop that takes the calls one after the other, so that a call      *)
(* waits while PAM works for another. The bus, systemd, PAM, SQLite and    *)
(* whoever edits the policies are external.                                *)
(***************************************************************************)
EXTENDS Naturals, Sequences

CONSTANTS
    Client,       \* processes that call the services
    Row,          \* keys of the policy table, <<label, user, privilege>>: users are
                  \* numbered in the order of their names, 0 is "*"
    Default,      \* the row init_database inserts
    Request,      \* what the clients ask
    Packages,     \* the sets of daemons a machine may have
    StartLimit,   \* external: starts systemd allows a unit in its interval
    MaxCalls,     \* bound of the model: calls of each client
    MaxFaults,    \* bound of the model: crashes and files that do not open
    MaxChanges,   \* bound of the model: changes of the policy file and the account
    NoFile,       \* /var/lib/cynara does not exist
    Nobody,       \* no call is being handled
    Nothing       \* nothing is being asked

Service == {"cynara", "auth"}
Table == [Row -> {"none", "allow", "deny"}]
Verdict == {"yes", "no"}
Excuses == {"none", "policy", "user", "prompt", "refused"}

\* What the bus delivers to a service.
Messages == [client : Client, serial : Nat \ {0}, q : Request]

ASSUME ServicesAssumption ==
    /\ Row \subseteq STRING \X Nat \X STRING
    /\ Default \in Row /\ Default[2] = 0 /\ Default[3] = "internet"
    /\ Request \subseteq
         [method : {"CheckPrivilege"}, label : STRING, user : Nat, privilege : STRING]
         \cup [method : {"AuthenticateUser"}, password : {"right", "wrong"}, token : BOOLEAN]
         \cup [method : {"RequestPermissionConsent"}, user : Verdict]
    /\ Packages \subseteq SUBSET Service
    /\ StartLimit \in Nat \ {0}
    /\ MaxCalls \in [Client -> Nat]
    /\ {MaxFaults, MaxChanges} \subseteq Nat
    /\ NoFile \notin Table /\ Nobody \notin Messages

VARIABLES
    unit,      \* a service: "absent", "down", "opening", "registering", "owning", "named" or
               \* "failed" (systemd has given up)
    starts,    \* its starts in the present interval of systemd
    queue,     \* calls delivered to it, not dispatched yet
    handling,  \* the client whose password PAM is looking at
    pam,       \* PAM handles open in tizen-auth
    stage,     \* what perform_pam_auth does next: "idle", "authenticate", "account"
    call,      \* a client: "idle", "waiting", "yes", "no", "error" or "timeout"
    serial,    \* its latest call
    request,   \* what it waits for, or Nothing
    truth,     \* the verdicts that were right at some moment since, until it failed
    excused,   \* why the answer need not be right: "policy", the daemon had the table in
               \* memory or found the file locked; "user", it used a rule on another user;
               \* "prompt", the user was not asked; "refused", PAM or the lookup failed; "none"
    file,      \* the policy table on disk
    db,        \* what the daemon has opened: "none", "file" or "memory"
    lock,      \* the administrator's transaction: "free", "reserved", "exclusive"
    valid,     \* the account is neither expired nor disabled
    faults, changes

processVars == <<unit, starts, queue, handling, pam, stage, db>>
clientVars == <<call, serial, request, truth, excused>>
worldVars == <<file, lock, valid, faults, changes>>
vars == <<processVars, clientVars, worldVars>>

-----------------------------------------------------------------------------
(* Cynara's decision. *)

Empty == [r \in Row |-> "none"]

\* init_database's INSERT OR IGNORE. (The row of label System is never looked up.)
Seeded(table) == IF table[Default] = "none" THEN [table EXCEPT ![Default] = "allow"] ELSE table

\* WHERE client_label = ? AND privilege = ?, which does not look at the user: the code
\* reads the first of these rows, in the order of the key.
RowsFor(table, q) ==
    {r \in Row : table[r] # "none" /\ r[1] = q.label /\ r[3] = q.privilege}
FirstRow(rows) == CHOOSE r \in rows : \A s \in rows : r[2] <= s[2]
Says(table, r) == IF table[r] = "allow" THEN "yes" ELSE "no"

Trusted(q) == q.label \in {"System", "root"}

\* Without a row, or when the step returns anything but a row
NoRow(q) == IF q.privilege = "internet" THEN "yes" ELSE "no"
BuiltIn(q) == IF Trusted(q) THEN "yes" ELSE NoRow(q)

CheckPrivilege(table, q) ==
    IF Trusted(q) \/ RowsFor(table, q) = {} THEN BuiltIn(q)
    ELSE Says(table, FirstRow(RowsFor(table, q)))

ServiceOf(q) == IF q.method = "CheckPrivilege" THEN "cynara" ELSE "auth"

-----------------------------------------------------------------------------
(* What the answers should be: external, from the documents. *)

\* default-policy.conf, schema.sql and cynara_check_privilege: a rule is on a label, a user
\* or every user, and a privilege. Which of two rules wins is not said: either is right.
RulesOn(table, q) == {r \in RowsFor(table, q) : r[2] \in {0, q.user}}
Policy(table, q) ==
    IF Trusted(q) \/ RulesOn(table, q) = {} THEN {BuiltIn(q)}
    ELSE {Says(table, r) : r \in RulesOn(table, q)}

\* A finger or a FIDO2 key first, else the password (config/pam/tizen-auth).
Accepted(q) == q.token \/ q.password = "right"

\* The verdicts that are right when the policies are table and the account is as ok says;
\* to a consent, the user's own answer to the prompt (README-auth.md).
Right(q, table, ok) ==
    CASE q.method = "CheckPrivilege" ->
             Policy(IF table = NoFile THEN Seeded(Empty) ELSE table, q)
      [] q.method = "AuthenticateUser" ->
             {IF Accepted(q) /\ ok THEN "yes" ELSE "no"}
      [] OTHER -> {q.user}

-----------------------------------------------------------------------------
(* The life of a daemon. *)

\* ExecStart, unless the unit has used up its starts; whether the interval they count in
\* is over is the clock's choice.
Start(s) ==
    /\ unit[s] = "down"
    /\ \/ unit' = [unit EXCEPT ![s] = "opening"] /\ starts' = [starts EXCEPT ![s] = 1]
       \/ /\ starts[s] < StartLimit
          /\ unit' = [unit EXCEPT ![s] = "opening"]
          /\ starts' = [starts EXCEPT ![s] = @ + 1]
       \/ /\ starts[s] = StartLimit
          /\ unit' = [unit EXCEPT ![s] = "failed"] /\ UNCHANGED starts
    /\ UNCHANGED <<queue, handling, pam, stage, db, clientVars, worldVars>>

\* Mutant: INSERT OR REPLACE, and the lock is not noticed.
InitAnyway ==
    /\ unit["cynara"] = "opening"
    /\ unit' = [unit EXCEPT !["cynara"] = "registering"]
    /\ db' = IF file = NoFile THEN "memory" ELSE "file"
    /\ file' = IF file = NoFile THEN file ELSE [file EXCEPT ![Default] = "allow"]
    /\ UNCHANGED <<starts, queue, handling, pam, stage, clientVars, lock, valid, faults,
                   changes>>

\* init_database: a file that does not open, its directory missing or by a fault, is
\* replaced by a table in memory; a locked one ends the daemon with EXIT_FAILURE.
InitDatabase ==
    /\ unit["cynara"] = "opening"
    /\ \/ /\ file # NoFile
          /\ IF lock = "free"
             THEN /\ unit' = [unit EXCEPT !["cynara"] = "registering"]
                  /\ db' = "file" /\ file' = Seeded(file)
             ELSE /\ unit' = [unit EXCEPT !["cynara"] = "down"]
                  /\ UNCHANGED <<db, file>>
          /\ UNCHANGED faults
       \/ /\ file = NoFile \/ faults < MaxFaults
          /\ unit' = [unit EXCEPT !["cynara"] = "registering"]
          /\ db' = "memory"
          /\ faults' = IF file = NoFile THEN faults ELSE faults + 1
          /\ UNCHANGED file
    /\ UNCHANGED <<starts, queue, handling, pam, stage, clientVars, lock, valid, changes>>

\* auth-daemon.c opens nothing before g_bus_own_name.
InitAuth ==
    /\ unit["auth"] = "opening"
    /\ unit' = [unit EXCEPT !["auth"] = "registering"]
    /\ UNCHANGED <<starts, queue, handling, pam, stage, db, clientVars, worldVars>>

\* on_bus_acquired: the object is there before the name is asked for.
OnBusAcquired(s) ==
    /\ unit[s] = "registering"
    /\ unit' = [unit EXCEPT ![s] = "owning"]
    /\ UNCHANGED <<starts, queue, handling, pam, stage, db, clientVars, worldVars>>

\* The bus gives the name: calls are delivered from here on.
NameAcquired(s) ==
    /\ unit[s] = "owning"
    /\ unit' = [unit EXCEPT ![s] = "named"]
    /\ UNCHANGED <<starts, queue, handling, pam, stage, db, clientVars, worldVars>>

Waits(c, s) == call[c] = "waiting" /\ ServiceOf(request[c]) = s
Drop(cs) ==
    /\ request' = [c \in Client |-> IF c \in cs THEN Nothing ELSE request[c]]
    /\ truth' = [c \in Client |-> IF c \in cs THEN {} ELSE truth[c]]

\* The process dies (Restart=always, Restart=on-failure); the bus answers the calls
\* it had with an error.
Crash(s) ==
    /\ unit[s] \notin {"absent", "down", "failed"}
    /\ faults < MaxFaults
    /\ faults' = faults + 1
    /\ unit' = [unit EXCEPT ![s] = "down"]
    /\ queue' = [queue EXCEPT ![s] = <<>>]
    /\ IF s = "auth" THEN handling' = Nobody /\ pam' = 0 /\ stage' = "idle" /\ UNCHANGED db
       ELSE db' = "none" /\ UNCHANGED <<handling, pam, stage>>
    /\ call' = [c \in Client |-> IF Waits(c, s) THEN "error" ELSE call[c]]
    /\ Drop({c \in Client : Waits(c, s)})
    /\ UNCHANGED <<starts, serial, excused, file, lock, valid, changes>>

-----------------------------------------------------------------------------
(* Calls. *)

\* A client calls. The bus refuses when nobody has the name.
Call(c, q) ==
    LET s == ServiceOf(q) IN
    /\ call[c] # "waiting" /\ serial[c] < MaxCalls[c]
    /\ serial' = [serial EXCEPT ![c] = @ + 1]
    /\ excused' = [excused EXCEPT ![c] = "none"]
    /\ IF unit[s] = "named"
       THEN /\ call' = [call EXCEPT ![c] = "waiting"]
            /\ request' = [request EXCEPT ![c] = q]
            /\ truth' = [truth EXCEPT ![c] = Right(q, file, valid)]
            /\ queue' = [queue EXCEPT ![s] = Append(@, [client |-> c, serial |-> serial[c] + 1,
                                                        q |-> q])]
       ELSE /\ call' = [call EXCEPT ![c] = "error"] /\ Drop({c})
            /\ UNCHANGED queue
    /\ UNCHANGED <<unit, starts, handling, pam, stage, db, worldVars>>

\* The client's 25 seconds are over; the call stays where it is.
Timeout(c) ==
    /\ call[c] = "waiting"
    /\ call' = [call EXCEPT ![c] = "timeout"]
    /\ Drop({c})
    /\ UNCHANGED <<processVars, serial, excused, worldVars>>

\* Mutant: the answer goes to the caller, whatever it is asking by now.
ReplyToCaller(m, verdict, excuse) ==
    LET heard == call[m.client] = "waiting" IN
    /\ call' = IF heard THEN [call EXCEPT ![m.client] = verdict] ELSE call
    /\ excused' = IF heard THEN [excused EXCEPT ![m.client] = excuse] ELSE excused
    /\ request' = IF heard THEN [request EXCEPT ![m.client] = Nothing] ELSE request
    /\ UNCHANGED <<serial, truth>>

\* g_dbus_method_invocation_return_value: nobody waits for the answer to a call that
\* timed out.
Reply(m, verdict, excuse) ==
    LET heard == call[m.client] = "waiting" /\ serial[m.client] = m.serial IN
    /\ call' = IF heard THEN [call EXCEPT ![m.client] = verdict] ELSE call
    /\ excused' = IF heard THEN [excused EXCEPT ![m.client] = excuse] ELSE excused
    /\ request' = IF heard THEN [request EXCEPT ![m.client] = Nothing] ELSE request
    /\ UNCHANGED <<serial, truth>>

\* The main loop dispatches the next call of a service.
Dispatch(s, method) ==
    /\ unit[s] = "named" /\ queue[s] # <<>>
    /\ s = "auth" => handling = Nobody
    /\ Head(queue[s]).q.method = method
    /\ queue' = [queue EXCEPT ![s] = Tail(@)]

\* SQLITE_BUSY
Busy == db = "file" /\ lock = "exclusive"

Excuse(q) ==
    CASE Trusted(q) -> "none"
      [] ~Trusted(q) /\ (Busy \/ db = "memory") -> "policy"
      [] OTHER -> IF RowsFor(file, q) = {} \/ FirstRow(RowsFor(file, q)) \in RulesOn(file, q)
                  THEN "none" ELSE "user"

\* handle_method_call of cynara-daemon.c: when not even the statement can be prepared the
\* answer is a denial.
HandleCheck ==
    LET m == Head(queue["cynara"]) IN
    /\ Dispatch("cynara", "CheckPrivilege")
    /\ \/ /\ Reply(m, IF Busy THEN BuiltIn(m.q)
                      ELSE CheckPrivilege(IF db = "memory" THEN Seeded(Empty) ELSE file, m.q),
                   Excuse(m.q))
          /\ UNCHANGED faults
       \/ /\ ~Trusted(m.q) /\ faults < MaxFaults /\ faults' = faults + 1
          /\ Reply(m, "no", "refused")
    /\ UNCHANGED <<unit, starts, handling, pam, stage, db, file, lock, valid, changes>>

\* Mutant: nothing is returned when the user need not be asked.
ConsentSilently ==
    /\ Dispatch("auth", "RequestPermissionConsent")
    /\ UNCHANGED <<unit, starts, handling, pam, stage, db, clientVars, worldVars>>

\* RequestPermissionConsent: granted, always
HandleConsent ==
    /\ Dispatch("auth", "RequestPermissionConsent")
    /\ Reply(Head(queue["auth"]), "yes", "prompt")
    /\ UNCHANGED <<unit, starts, handling, pam, stage, db, worldVars>>

\* pam_start, which opens a handle or fails
PamStart ==
    /\ Dispatch("auth", "AuthenticateUser")
    /\ \/ /\ handling' = Head(queue["auth"]) /\ pam' = pam + 1 /\ stage' = "authenticate"
          /\ UNCHANGED clientVars
       \/ Reply(Head(queue["auth"]), "no", "refused") /\ UNCHANGED <<handling, pam, stage>>
    /\ UNCHANGED <<unit, starts, db, worldVars>>

\* pam_end and the answer
PamEnd(verdict, excuse) ==
    /\ pam' = pam - 1 /\ stage' = "idle" /\ handling' = Nobody
    /\ Reply(handling, verdict, excuse)

\* Mutant: a wrong password is asked for again.
AskAgain ==
    /\ stage = "authenticate"
    /\ Accepted(handling.q)
    /\ stage' = "account"
    /\ UNCHANGED <<unit, starts, queue, handling, pam, db, clientVars, worldVars>>

\* pam_authenticate: pam_fprintd and pam_u2f are sufficient, else pam_unix takes the
\* password from pam_conv_cb; any of them may also fail by itself.
PamAuthenticate ==
    /\ stage = "authenticate"
    /\ \/ /\ Accepted(handling.q) /\ stage' = "account"
          /\ UNCHANGED <<handling, pam, clientVars>>
       \/ ~Accepted(handling.q) /\ PamEnd("no", "none")
       \/ PamEnd("no", "refused")
    /\ UNCHANGED <<unit, starts, queue, db, worldVars>>

\* Mutant: no pam_end on the way out.
PamAccountLeaks ==
    /\ stage = "account"
    /\ stage' = "idle" /\ handling' = Nobody /\ UNCHANGED pam
    /\ Reply(handling, IF valid THEN "yes" ELSE "no", "none")
    /\ UNCHANGED <<unit, starts, queue, db, worldVars>>

\* pam_acct_mgmt, which may fail by itself too
PamAccount ==
    /\ stage = "account"
    /\ PamEnd(IF valid THEN "yes" ELSE "no", "none") \/ PamEnd("no", "refused")
    /\ UNCHANGED <<unit, starts, queue, db, worldVars>>

-----------------------------------------------------------------------------
(* External: the policies and the account change. *)

\* The answers that have become right join those that were.
Witness(table, ok) ==
    truth' = [c \in Client |->
                IF call[c] = "waiting" THEN truth[c] \cup Right(request[c], table, ok)
                ELSE truth[c]]

\* /var/lib/cynara is made, and an empty table in it.
MakeFile ==
    /\ file = NoFile /\ changes < MaxChanges
    /\ file' = Empty /\ changes' = changes + 1
    /\ Witness(file', valid)
    /\ UNCHANGED <<processVars, call, serial, request, excused, lock, valid, faults>>

Begin ==
    /\ file # NoFile /\ lock = "free" /\ changes < MaxChanges
    /\ lock' = "reserved" /\ changes' = changes + 1
    /\ UNCHANGED <<processVars, clientVars, file, valid, faults>>

Flush ==
    /\ lock = "reserved" /\ lock' = "exclusive"
    /\ UNCHANGED <<processVars, clientVars, file, valid, faults, changes>>

Commit(r, v) ==
    /\ lock = "exclusive" /\ lock' = "free"
    /\ file[r] # v
    /\ file' = [file EXCEPT ![r] = v]
    /\ Witness(file', valid)
    /\ UNCHANGED <<processVars, call, serial, request, excused, valid, faults, changes>>

Expire ==
    /\ valid /\ valid' = FALSE
    /\ changes < MaxChanges /\ changes' = changes + 1
    /\ Witness(file, FALSE)
    /\ UNCHANGED <<processVars, call, serial, request, excused, file, lock, faults>>

-----------------------------------------------------------------------------

Init ==
    /\ \E installed \in Packages :
         unit = [s \in Service |-> IF s \in installed THEN "down" ELSE "absent"]
    /\ starts = [s \in Service |-> 0]
    /\ queue = [s \in Service |-> <<>>]
    /\ handling = Nobody /\ pam = 0 /\ stage = "idle"
    /\ call = [c \in Client |-> "idle"] /\ serial = [c \in Client |-> 0]
    /\ request = [c \in Client |-> Nothing]
    /\ truth = [c \in Client |-> {}] /\ excused = [c \in Client |-> "none"]
    /\ file \in {NoFile, Empty} /\ db = "none" /\ lock = "free"
    /\ valid = TRUE
    /\ faults = 0 /\ changes = 0

Daemon(s) ==
    Start(s) \/ OnBusAcquired(s) \/ NameAcquired(s)
Cynara == InitDatabase \/ HandleCheck
Auth == InitAuth \/ HandleConsent \/ PamStart \/ PamAuthenticate \/ PamAccount

Next ==
    \/ \E s \in Service : Daemon(s) \/ Crash(s)
    \/ Cynara \/ Auth
    \/ \E c \in Client : Timeout(c) \/ \E q \in Request : Call(c, q)
    \/ MakeFile \/ Begin \/ Flush \/ Expire
    \/ \E r \in Row, v \in {"none", "allow", "deny"} : Commit(r, v)

\* systemd starts what is down, both main loops run and PAM's modules return;
\* nobody has to call, to time out, to edit or to crash.
Fairness == WF_vars(Cynara) /\ WF_vars(Auth) /\ \A s \in Service : WF_vars(Daemon(s))

Spec == Init /\ [][Next]_vars /\ Fairness

-----------------------------------------------------------------------------
(* Properties. *)

\* Every variable has its type, and tizen-auth has at most one PAM handle open,
\* whichever of its exits the calls before took.
TypeOK ==
    /\ unit \in [Service ->
                   {"absent", "down", "opening", "registering", "owning", "named", "failed"}]
    /\ starts \in [Service -> 0 .. StartLimit]
    /\ queue \in [Service -> Seq(Messages)]
    /\ handling \in {Nobody} \cup Messages
    /\ pam \in 0 .. 1 /\ stage \in {"idle", "authenticate", "account"}
    /\ call \in [Client -> {"idle", "waiting", "error", "timeout"} \cup Verdict]
    /\ serial \in [Client -> Nat] /\ \A c \in Client : serial[c] <= MaxCalls[c]
    /\ request \in [Client -> {Nothing} \cup Request]
    /\ truth \in [Client -> SUBSET Verdict]
    /\ excused \in [Client -> Excuses]
    /\ file \in {NoFile} \cup Table /\ db \in {"none", "file", "memory"}
    /\ lock \in {"free", "reserved", "exclusive"} /\ valid \in BOOLEAN
    /\ faults \in 0 .. MaxFaults /\ changes \in 0 .. MaxChanges

\* A client that waits is going to be answered: its latest call, and only once, is
\* in the queue of the service it asked or on PAM's desk, however many of its
\* earlier calls timed out and however often the service died.
Holds(s, c) ==
    {i \in DOMAIN queue[s] : queue[s][i].client = c /\ queue[s][i].serial = serial[c]}
Desk(c) == handling # Nobody /\ handling.client = c /\ handling.serial = serial[c]
NoCallIsLost ==
    \A c \in Client : call[c] = "waiting" =>
        LET s == ServiceOf(request[c]) IN
        /\ unit[s] = "named"
        /\ \/ \E i \in DOMAIN queue[s] : Holds(s, c) = {i} /\ ~Desk(c)
           \/ s = "auth" /\ Desk(c) /\ Holds(s, c) = {}

\* Calls are answered late, out of a queue, while policies and accounts change: the
\* answer a client gets was right, as the documents have it, at some moment between its
\* call and the answer, with the exceptions the code makes: Cynara could not read the
\* policies or used a rule on another user, and the user was not prompted. A failure of
\* PAM or of the lookup lets nobody in.
AnswersAreTimely ==
    \A c \in Client : call[c] \in Verdict =>
        /\ excused[c] = "none" => call[c] \in truth[c]
        /\ excused[c] = "refused" => call[c] = "no"

\* cynara-client.h and default-policy.conf: a check is about a user, so a rule on another
\* user decides nothing. (handle_method_call reads user_id and never uses it.)
PoliciesArePerUser ==
    \A c \in Client : call[c] \in Verdict /\ excused[c] = "user" => call[c] \in truth[c]

\* cynara-daemon.c:91: the internet is allowed when nothing is said about it, so what a
\* rule denies is not granted. (It is while the table is locked or in memory.)
InternetByDefault ==
    \A c \in Client : call[c] = "yes" /\ excused[c] = "policy" => "yes" \in truth[c]

\* No start of the daemon, first or after a crash, changes a policy that is there.
PoliciesSurvive ==
    [][file # NoFile /\ lock' = lock =>
         \A r \in Row : file[r] # "none" => file'[r] = file[r]]_vars

\* Every call comes to an answer or to an error of the bus: no queue is left
\* standing, whatever PAM and the calls before it do.
EveryCallEnds == \A c \in Client : call[c] = "waiting" ~> call[c] # "waiting"

=============================================================================
