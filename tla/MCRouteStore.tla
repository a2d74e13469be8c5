---------------------------- MODULE MCRouteStore ----------------------------
(* Values for the constants of RouteStore: imports of one route, so that   *)
(* all of them meet in its rows.                                           *)
EXTENDS RouteStore

CONSTANT a

OneRoute == <<a>>
=============================================================================
