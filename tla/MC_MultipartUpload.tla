------------------------ MODULE MC_MultipartUpload ------------------------
(* Small instances of MultipartUpload for TLC. *)
EXTENDS MultipartUpload, TLC

ThreadSymmetry == Permutations(Threads)
=============================================================================
