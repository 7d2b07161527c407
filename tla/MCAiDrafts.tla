------------------------------- MODULE MCAiDrafts -------------------------------
(***************************************************************************)
(* The drafts of the language model by themselves.                         *)
(***************************************************************************)
EXTENDS AiDrafts
===============================================================================
