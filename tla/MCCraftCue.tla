------------------------------ MODULE MCCraftCue ------------------------------
(* CraftCue with two graphs and the calls an application makes. *)
EXTENDS CraftCue

\* A race with a branch that starts later, then a last stage; and one action.
TwoGraphs ==
  [a |-> <<[join |-> "any", delays |-> <<0, 1>>], [join |-> "all", delays |-> <<0>>]>>,
   b |-> <<[join |-> "race", delays |-> <<0, 0>>]>>]

\* What an application starts or settles elsewhere, and the calls that reach the
\* session whose hook is running.
Reentrant == ({"executor"} \X {"start", "settle"})
               \cup ({"heldHook"} \X {"cancel", "start", "dispose"})
               \cup ({"hook"} \X {"start", "cancel"})
=============================================================================
