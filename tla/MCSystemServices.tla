------------------------- MODULE MCSystemServices --------------------------
(* SystemServices with a client that may call again while its first call is  *)
(* still in a queue, and one that is in its way; two rules for one label and *)
(* privilege, one on one user for another, and each way a call can be        *)
(* decided. User 2 has no rule of its own; a right password goes the way of  *)
(* a token.                                                                  *)
EXTENDS SystemServicesRefinement, TLC

CONSTANTS c1, c2

MCDefault == <<"User", 0, "internet">>
MCRow == {MCDefault, <<"User", 1, "internet">>, <<"App", 1, "camera">>}

Check(label, user, privilege) ==
    [method |-> "CheckPrivilege", label |-> label, user |-> user, privilege |-> privilege]
Authenticate(password, token) ==
    [method |-> "AuthenticateUser", password |-> password, token |-> token]

MCPackages == {{"cynara"}, {"auth"}}
MCMaxCalls == c1 :> 2 @@ c2 :> 1
MCRequest ==
    {Check("User", 1, "internet"), Check("App", 2, "camera"), Check("root", 1, "camera"),
     Authenticate("wrong", FALSE), Authenticate("wrong", TRUE),
     [method |-> "RequestPermissionConsent", user |-> "no"]}

=============================================================================
