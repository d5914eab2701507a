--------------------------- MODULE MCSnapshotFile ---------------------------
(* Two overlapping downloads to one path, with kills and power losses. *)
EXTENDS SnapshotFile

=============================================================================
