---------------------- MODULE SystemServicesRefinement -----------------------
(***************************************************************************)
(* The two services implement BusCalls: the client's side is taken as it   *)
(* is, what is right is what the documents make of the policies on disk    *)
(* and the account, and the policies cannot be read while the daemon has a *)
(* table in memory or an administrator writes.                             *)
(***************************************************************************)
EXTENDS SystemServices

Of(method) == {q \in Request : q.method = method}

\* What handle_method_call finds instead of the policies: the table in memory, or
\* SQLITE_BUSY.
Blind == db = "memory" \/ lock = "exclusive"

\* What the rules say, whoever they are on.
Foreign(q) ==
    IF q.method = "CheckPrivilege" /\ file # NoFile
    THEN {Says(file, r) : r \in RowsFor(file, q)} ELSE {}

Calls == INSTANCE BusCalls WITH
    Checks <- Of("CheckPrivilege"),
    Logins <- Of("AuthenticateUser"),
    Prompts <- Of("RequestPermissionConsent"),
    Unread <- [q \in Request |-> BuiltIn(q)],
    foreign <- [q \in Request |-> Foreign(q)],
    right <- [q \in Request |-> Right(q, file, valid)],
    blind <- Blind

\* Every step of the daemons, of PAM, systemd and the administrator is a step of the
\* promised calls: a client hears only an answer to what it asks now, never one meant
\* for an earlier call that timed out, and one that was right while it waited or is one
\* of the named exceptions.
ImplementsBusCalls == Calls!Spec

=============================================================================
