--------------------------- MODULE MCStorageLease ---------------------------
(* StorageLease on a small instance; the .cfg file gives the constants.    *)
EXTENDS StorageLease
=============================================================================
