--------------------------- MODULE MCOfflineQueue ---------------------------
(* Small instances of OfflineQueue.                                        *)
EXTENDS OfflineQueue
=============================================================================
