---------------------------- MODULE MCSingleSig ----------------------------
(***************************************************************************)
(* Our account origin f1/1 and the keys the descriptor derives below it  *)
(* at terminals (0,0) and (1,0); the account origin itself; a key of      *)
(* another account of the same master and one of another master; two     *)
(* signatures so that a replaced entry is told apart.                     *)
(***************************************************************************)
EXTENDS SingleSig

CONSTANTS f1, f2, sigA, sigB

MCSigs == {sigA, sigB}
MCOurOrigin == [fp |-> f1, path |-> <<1>>]
MCTerminals == {[keychain |-> 0, index |-> 0], [keychain |-> 1, index |-> 0]}
MCOrigins ==
  {[fp |-> f1, path |-> <<1>>], [fp |-> f1, path |-> <<1, 0, 0>>],
   [fp |-> f1, path |-> <<1, 1, 0>>], [fp |-> f1, path |-> <<2, 0, 0>>],
   [fp |-> f2, path |-> <<1, 0, 0>>]}
MCMaxSigs == 3
=============================================================================
