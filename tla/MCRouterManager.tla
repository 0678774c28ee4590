-------------------------- MODULE MCRouterManager --------------------------
(* The instance of RouterManager for TLC: behaviours with overlapping      *)
(* calls and slow routers, and behaviours without either.                  *)
EXTENDS RouterManager

AllScenarios == {{"overlap"}, {"slow"}, {}}
============================================================================
