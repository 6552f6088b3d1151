---------------------------- MODULE MCAppSession -----------------------------
(* The panel the launcher starts first and an application of the session,  *)
(* each of which shows its window again after it has hidden it: up to five *)
(* handlers on their way.                                                  *)
EXTENDS AppSessionRefinement

CONSTANTS panel, a1

MCApp == {panel, a1}
MCEarly == {panel}
MCMaxMaps == [a \in MCApp |-> IF a = a1 THEN 3 ELSE 2]

=============================================================================
