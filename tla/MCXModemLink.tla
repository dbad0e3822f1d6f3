---------------------------- MODULE MCXModemLink ----------------------------
(* Files of no, one, two and four blocks, the last one full or not: the
   block number wraps past NumModulus. *)
EXTENDS XModemLink

MCFileSizes == {0, 1, 4, 7}
=============================================================================
