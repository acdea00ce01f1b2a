------------------------------ MODULE MCCraftUi ------------------------------
(* CraftUi: a component inside another, and a callback that owns a token. *)
EXTENDS CraftUi

UiNodes == {"page", "card"}
UiParent == [page |-> None, card |-> "page"]
UiCallbacks == {"first", "second", "owner"}
UiOwns == [first |-> None, second |-> None, owner |-> "first"]
=============================================================================
