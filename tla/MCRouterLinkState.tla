------------------------- MODULE MCRouterLinkState -------------------------
(* The sides of a link are fixed, so only the kind of router at each side  *)
(* is left to choose: a bridge at A and the router of a portal at B.       *)
EXTENDS RouterLinkState

BridgeAtOne == {"A"}
=============================================================================
