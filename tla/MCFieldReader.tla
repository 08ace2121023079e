---------------------------- MODULE MCFieldReader ----------------------------
(***************************************************************************)
(* FieldReader with the smallest index that still orders three fields.     *)
(***************************************************************************)
EXTENDS FieldReader, TLC
=============================================================================
