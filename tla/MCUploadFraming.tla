--------------------------- MODULE MCUploadFraming ---------------------------
(* Instances of UploadFraming for TLC. *)
EXTENDS UploadFraming

CONSTANTS f1, f2

\* One file of the largest size from each base, so that nonces carry and wrap;
\* the same file sent anew in fewer chunks; and another file.
MCUploads == [file : {f1}, base : Nonces, total : {MaxTotalChunks}]
  \cup {[file |-> f, base |-> [j \in 1 .. NonceLen |-> 0], total |-> 1] : f \in FileIds}
=============================================================================
