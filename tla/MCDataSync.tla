----------------------------- MODULE MCDataSync -----------------------------
(* Bounds: three calls, two retries a record and at most one vector found on  *)
(* disk: two records can be in the log together while a newer call writes the *)
(* same document, and a record can fail, succeed and be run again.            *)
EXTENDS DataSync

CONSTANTS d1, d2

MCDocs == {d1, d2}
=============================================================================
