---------------------------- MODULE MCBufMgrCore ----------------------------
(* The buffer manager on small instances: constants are in the .cfg files. *)
EXTENDS BufMgrCore
=============================================================================
