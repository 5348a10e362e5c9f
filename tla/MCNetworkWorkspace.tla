------------------------- MODULE MCNetworkWorkspace -------------------------
(***************************************************************************)
(* Constants of the workspaces for TLC: two networks and one or two        *)
(* concurrent calls of the activator.                                      *)
(***************************************************************************)
EXTENDS NetworkWorkspace, TLC

CONSTANTS alfa, beta, call1, call2

MCNetwork == {alfa, beta}
OneCall   == {call1}
TwoCalls  == {call1, call2}
Symmetry  == Permutations(MCNetwork) \cup Permutations(TwoCalls)
=============================================================================
