--------------------------- MODULE MCBlockingCalls ---------------------------
(* Model checking of BlockingCalls: all bounds are in the .cfg files. *)
EXTENDS BlockingCalls

=============================================================================
