-------------------------- MODULE MCDocumentsPage --------------------------
(***************************************************************************)
(* A small instance of DocumentsPage: two documents, two list requests.    *)
(***************************************************************************)
EXTENDS DocumentsPage

CONSTANTS q1, q2

=============================================================================
