-------------------------- MODULE MCCraftValidation --------------------------
(* CraftValidation: a field, its confirmation, and an alternative to it. *)
EXTENDS CraftValidation

FormControls == {"field", "confirm", "other"}
FormFields == {"field", "confirm"}
FormRules ==
  [field   |-> <<[kind |-> "required", peer |-> None]>>,
   confirm |-> <<[kind |-> "same", peer |-> "field"]>>,
   other   |-> <<[kind |-> "optional", peer |-> None], [kind |-> "different", peer |-> "field"]>>]
FormReports == [field |-> "onBlur", confirm |-> "onInput", other |-> "onSubmit"]
=============================================================================
