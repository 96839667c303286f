--------------------------- MODULE MCRecoveryJournal ---------------------------
(* A small instance of RecoveryJournal: two documents, two preference events, one
   rotation and one restore of an older database are enough for a repair before, after
   and between the appends of both handles. *)
EXTENDS RecoveryJournal
CONSTANTS d1, d2
MCDocs == {d1, d2}
=============================================================================
