--------------------------- MODULE MCRwLockDistr ----------------------------
(***************************************************************************)
(* The instance of RwLockDistr for TLC.                                    *)
(***************************************************************************)
EXTENDS RwLockDistr
=============================================================================
