----------------------------- MODULE MCEvidence -----------------------------
(***************************************************************************)
(* Two generated documents, two commits, two edits and one fault.          *)
(***************************************************************************)
EXTENDS Evidence

MCDocs == <<"README", "evidence">>
=============================================================================
