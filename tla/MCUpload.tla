------------------------------ MODULE MCUpload -------------------------------
(* UploadService on small sets for TLC.  Of the two seconds that overflow, *)
(* one wraps to a negative time and the other to a short one.              *)
EXTENDS UploadService

MCExpiries == {-1, 0, 60, 4195, 8389}

=============================================================================
