----------------------------- MODULE MCLogCodec -----------------------------
(***************************************************************************)
(* Checks of the write-log codec at the real constants of eeprom.c         *)
(* (FEE_BYTE_RANGE = 0x80, FEE_DENSITY_BYTES up to 0x4000).  The state is  *)
(* one input; TLC enumerates every input as an initial state.              *)
(*   Spec: every mutation the engine logs - a byte below          *)
(*     FEE_BYTE_RANGE, or a word at an even address at or above it - and   *)
(*     what replay decodes from the half-words written for it.             *)
(***************************************************************************)
EXTENDS LogCodec, Sequences

CONSTANT WordSample     \* logged word values (all 2^16 are too many)

VARIABLES kind, addr, val  \* the mutation being logged

codec_vars == <<kind, addr, val>>

WordAddrs == {a \in FEE_BYTE_RANGE .. FEE_DENSITY_BYTES - 2 : a % 2 = 0}

Init ==
    /\ \/ kind = "byte" /\ addr \in 0 .. FEE_BYTE_RANGE - 1 /\ val \in 0 .. 255
       \/ kind = "word" /\ addr \in WordAddrs /\ val \in WordSample

Spec == Init /\ [][UNCHANGED codec_vars]_codec_vars

\* The half-words written to the log for the mutation.
Logged == IF kind = "byte" THEN <<ByteEntry(addr, val)>> ELSE WordEntryWords(addr, val)

-----------------------------------------------------------------------------
(* Round trip: replay decodes what was logged back to the same address and *)
(* value, consuming exactly the half-words written: no logged mutation     *)
(* reads as the 0xFFFF terminator, a reserved code or a torn Word-Next,    *)
(* and the FEE_BYTE_RANGE bias of Word-Next addresses is undone.           *)
EncodeDecode ==
    LET d == Decode(Logged[1], IF Len(Logged) = 2 THEN Logged[2] ELSE FEE_EMPTY_WORD)
    IN  d = [kind |-> kind, addr |-> addr, val |-> val, size |-> Len(Logged)]
=============================================================================
