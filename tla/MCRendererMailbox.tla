-------------------------- MODULE MCRendererMailbox --------------------------
(* RendererMailbox on a small instance: a window that starts as 1 x 1. *)
EXTENDS RendererMailbox

MCInitialSize == [d \in Dimensions |-> 1]
=============================================================================
