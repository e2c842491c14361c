---------------------------- MODULE MCRouteStore ----------------------------
(* The hosts and bodies of RouteStore's TLC runs, as model values. *)
EXTENDS RouteStore

CONSTANTS h1, b1, b2
=============================================================================
