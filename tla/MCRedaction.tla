---------------------------- MODULE MCRedaction ----------------------------
(* One policy over a document whose surname is a vocabulary word.          *)
EXTENDS Redaction, RedactionCases
=============================================================================
