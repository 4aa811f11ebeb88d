------------------------- MODULE MCExtensionSession -------------------------
(* ExtensionSession on small instances; the .cfg files give the constants. *)
EXTENDS ExtensionSession
=============================================================================
