---------------------------- MODULE MCTapTree ----------------------------
(* Model-checking instance of TapTree: two leaf scripts, depths 0..3 and  *)
(* up to five leaves per builder, enough for every tree shape of up to    *)
(* five leaves, including unbalanced ones three levels deep.              *)
EXTENDS TapTree, TLC

CONSTANTS s1, s2

MCScripts == {s1, s2}
MCMaxDepth == 3
MCMaxLeaves == 5
MCMaxFromLeaves == 4

MCSymmetry == Permutations(MCScripts)
=============================================================================
