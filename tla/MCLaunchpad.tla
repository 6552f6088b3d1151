----------------------------- MODULE MCLaunchpad -----------------------------
(* Launchpad on a small instance: a good application, one that does not load *)
(* and the empty path.                                                       *)
EXTENDS LaunchpadRefinement

CONSTANTS Good, Bad, Empty

MCApps == {Good, Bad, Empty}
MCLoadable == {Good}

=============================================================================
