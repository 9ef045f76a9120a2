---------------------------- MODULE MCCallBuilder ----------------------------
(***************************************************************************)
(* A bank of four registers for CallBuilder: registers 1 and 2 carry       *)
(* arguments and return values in that order, register 4 is callee-saved. *)
(***************************************************************************)
EXTENDS CallBuilder

MCCCRegs == <<1, 2>>
MCRetRegs == <<1, 2>>
=============================================================================
