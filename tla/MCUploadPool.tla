---------------------------- MODULE MCUploadPool ----------------------------
(* Small instances of UploadPool, and mutants of its definitions.          *)
EXTENDS UploadPool
=============================================================================
