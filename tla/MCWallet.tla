------------------------------ MODULE MCWallet ------------------------------
(***************************************************************************)
(* A small instance of Wallet.  Money is counted in units of the minimum   *)
(* withdrawal (1 for 100 rupees); the first-withdrawal balance is lowered  *)
(* to 2 and the maximum to 2, so that the rules still differ.  There is no *)
(* symmetry: the run checks liveness too.                                  *)
(***************************************************************************)
EXTENDS Wallet

CONSTANTS u1, w1, w2, k1, h1, h2
=============================================================================
