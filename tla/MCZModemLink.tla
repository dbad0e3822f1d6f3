---------------------------- MODULE MCZModemLink ----------------------------
(* A file of no and one of three subpackets, of which the device may hold the
   first already. *)
EXTENDS ZModemLink

MCFileSizes == {0, 5}
MCKept      == {0, 2}
=============================================================================
