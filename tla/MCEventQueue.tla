---------------------------- MODULE MCEventQueue ----------------------------
(* Model checking of EventQueue: all bounds are in the .cfg files. *)
EXTENDS EventQueue

=============================================================================
