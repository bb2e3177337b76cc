------------------------- MODULE MC_EncryptedObject -------------------------
(* EncryptedObject with dicts for the contexts: none, one of the caller's    *)
(* own, and one that uses a key reserved for the library.                    *)
EXTENDS EncryptedObject

MCContexts == {Empty, "user" :> "a", "kms_cmk_id" :> "a"}
=============================================================================
