------------------------------- MODULE MCCommand -------------------------------
(***************************************************************************)
(* Command on small instances: what the callbacks of the application call. *)
(***************************************************************************)
EXTENDS Command

AnyReentry == Callbacks \X Calls

\* The application's no-throw callbacks do not start runs.
NoRunWhileNotified == AnyReentry \ (NoThrow \X {"run"})

\* Pumping is left to the event loop.
NoNestedPump == NoRunWhileNotified \ (Callbacks \X {"pump"})
=============================================================================
