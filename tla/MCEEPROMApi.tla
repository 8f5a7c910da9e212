---------------------------- MODULE MCEEPROMApi ----------------------------
(* Model-checking instance of EEPROMApi; the other constants are in the    *)
(* .cfg.  One block of odd length, written at every address: at an even   *)
(* one it takes the half-word loop and the trailing byte, at an odd one    *)
(* the leading byte and the loop.  Its bytes differ from their neighbours *)
(* so that a swapped or shifted byte is visible.                           *)
EXTENDS EEPROMApi

MCBlockData == {<<165, 1, 0>>}
=============================================================================
