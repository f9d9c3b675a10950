---------------------------- MODULE MCWorkspace ----------------------------
(* Two decks of the account, one lent with its source, one lent for study,  *)
(* and one document to upload.                                              *)
EXTENDS Workspace

CONSTANTS a, b, l, s, n
=============================================================================
