----------------------------- MODULE MCRecordList -----------------------------
(* RecordList with the sizes 100 and 20 of the code scaled down to 3 and 2. *)
EXTENDS RecordList
=============================================================================
