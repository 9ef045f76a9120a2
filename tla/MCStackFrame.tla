---------------------------- MODULE MCStackFrame ----------------------------
(***************************************************************************)
(* Model-checking instance of StackFrame, with the refinement mapping to  *)
(* the allocator contract StackFrameAbs (free lists are hidden; the frame *)
(* size and the held slots map to themselves).                            *)
(***************************************************************************)
EXTENDS StackFrame

Abs == INSTANCE StackFrameAbs WITH frame_size <- frame_size, live <- live

(***************************************************************************)
(* allocate_stack_slot / free_stack_slot / the per-function reset          *)
(* implement the contract: every slot handed out is aligned, disjoint from *)
(* the slots still held and inside the frame, and the frame grows only as *)
(* far as the new slot needs.                                              *)
(***************************************************************************)
AbsSpec == Abs!Spec
=============================================================================
