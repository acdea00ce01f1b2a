--------------------------- MODULE MCCraftCommand ---------------------------
(* CraftCommand with the calls an application makes in each callback. *)
EXTENDS CraftCommand

\* The executor, a hook and on_cancelled make the calls that reorder runs; the
\* others start runs or dispose.
Reentrant ==
  ({"executor"} \X {"run", "cancel", "pump"})
  \cup ({"cancelled"} \X {"run", "dispose"})
  \cup ({"hook"} \X {"run", "observe"})
  \cup ({"lateHook"} \X {"pump", "dispose"})
  \cup ({"observer"} \X {"run"})
  \cup ({"result"} \X {"cancelAll"})
=============================================================================
