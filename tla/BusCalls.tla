------------------------------ MODULE BusCalls -------------------------------
(***************************************************************************)
(* What the two bus services promise their clients, without daemons,       *)
(* queues, PAM or files. A client asks one thing at a time. It gets one    *)
(* answer, to what it is asking now, that is right at some moment between  *)
(* the question and the answer, or it learns that there will be none. What *)
(* is right changes under way, as the policies and the account do.         *)
(* Exceptions: a check of a privilege has its built-in answer while the    *)
(* policies cannot be read and may follow a rule on another user, a check  *)
(* or a login may be refused for no reason, a consent granted unasked.     *)
(***************************************************************************)
CONSTANTS Client, Request, Verdict, Checks, Logins, Prompts, Unread, Nothing

VARIABLES
    call,      \* call[c]: "idle", "waiting", "error", "timeout" or the latest verdict
    request,   \* request[c]: what c is asking, or Nothing
    truth,     \* truth[c]: the verdicts that were right at some moment since c asked
    right,     \* right[q]: the verdicts on q that are right now
    foreign,   \* foreign[q]: what the rules on any user say to q now
    blind      \* the policies cannot be read

vars == <<call, request, truth, right, foreign, blind>>

Init ==
    /\ call = [c \in Client |-> "idle"]
    /\ request = [c \in Client |-> Nothing]
    /\ truth = [c \in Client |-> {}]
    /\ right \in [Request -> SUBSET Verdict]
    /\ foreign \in [Request -> SUBSET Verdict]
    /\ blind \in BOOLEAN

Ask(c) ==
    /\ call[c] # "waiting" /\ call'[c] = "waiting"
    /\ request'[c] \in Request
    /\ truth'[c] = right[request'[c]]

\* There is nobody to ask.
Refused(c) ==
    /\ call[c] # "waiting" /\ call'[c] = "error"
    /\ request'[c] = Nothing /\ truth'[c] = {}

Answered(c) ==
    /\ call[c] = "waiting" /\ call'[c] \in Verdict
    /\ \/ call'[c] \in truth[c]
       \/ blind /\ request[c] \in Checks /\ call'[c] = Unread[request[c]]
       \/ call'[c] \in foreign[request[c]]
       \/ call'[c] = "no" /\ request[c] \in Checks \cup Logins
       \/ call'[c] = "yes" /\ request[c] \in Prompts
    /\ request'[c] = Nothing /\ truth'[c] = truth[c]

Lost(c) ==
    /\ call[c] = "waiting" /\ call'[c] \in {"error", "timeout"}
    /\ request'[c] = Nothing /\ truth'[c] = {}

Stays(c) ==
    /\ call'[c] = call[c] /\ request'[c] = request[c]
    /\ truth'[c] = IF call[c] = "waiting" THEN truth[c] \cup right'[request[c]] ELSE truth[c]

\* Calls end together when the service they wait for dies. For the rest one client
\* asks or is answered at a time, and what is right does not change in that step.
Speaks(c) == Ask(c) \/ Answered(c)
Next ==
    /\ \A c \in Client : Ask(c) \/ Refused(c) \/ Answered(c) \/ Lost(c) \/ Stays(c)
    /\ \A c, d \in Client : Speaks(c) /\ Speaks(d) => c = d
    /\ right' \in [Request -> SUBSET Verdict]
    /\ foreign' \in [Request -> SUBSET Verdict]
    /\ right' # right => \A c \in Client : Stays(c)
    /\ blind' \in BOOLEAN

Spec == Init /\ [][Next]_vars

=============================================================================
