-------------------------------- MODULE MCDbPool --------------------------------
(***************************************************************************)
(* The instance of DbPool for TLC.                                         *)
(***************************************************************************)
EXTENDS DbPool
=============================================================================
