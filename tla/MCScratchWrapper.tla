-------------------------- MODULE MCScratchWrapper --------------------------
(* Three general-purpose registers and one floating-point register; three *)
(* general-purpose values, one of them with a fixed assignment, and one    *)
(* floating-point value.                                                   *)
EXTENDS ScratchWrapper

MCRegBank == <<"GP", "GP", "GP", "FP">>
MCValBank == <<"GP", "GP", "GP", "FP">>
=============================================================================
