---------------------------- MODULE MCDebugDump ----------------------------
(***************************************************************************)
(* Checks print_eeprom over every RAM image whose rows are each all zero,  *)
(* or non-zero only in their first or only in their last byte (the        *)
(* emptiness test stops at the first non-zero byte, so these are its       *)
(* boundary cases), with the memory after DataBuf all 0x00 or all 0xFF.    *)
(* TLC enumerates the inputs as initial states.                            *)
(***************************************************************************)
EXTENDS DebugDump

VARIABLES ram,   \* DataBuf
          past   \* the byte value found after the end of WordBuf

dump_vars == <<ram, past>>

NRows    == (FEE_DENSITY_BYTES + ROW - 1) \div ROW
RowEnd   == NRows * ROW
RowLast(k) == Min({ROW * k + ROW - 1, FEE_DENSITY_BYTES - 1})

\* A row is zero, or non-zero in its first or last byte only.
Image(c) == [a \in 0 .. FEE_DENSITY_BYTES - 1 |->
                LET k == a \div ROW
                IN  IF (c[k] = "first" /\ a = ROW * k) \/ (c[k] = "last" /\ a = RowLast(k))
                    THEN 165 ELSE 0]

Init ==
    /\ ram \in {Image(c) : c \in [0 .. NRows - 1 -> {"zero", "first", "last"}]}
    /\ past \in {0, 255}

Spec == Init /\ [][UNCHANGED dump_vars]_dump_vars

\* DataBuf followed by what lies after it, as far as the last row reaches.
Mem == [a \in 0 .. RowEnd - 1 |-> IF a < FEE_DENSITY_BYTES THEN ram[a] ELSE past]

-----------------------------------------------------------------------------
(* The dump spec 4.4 describes: 16 bytes per row; of a run of consecutive  *)
(* all-zero rows only the first is printed, and the rest collapse into a   *)
(* single "*"; the final row is always printed.                            *)
Zero(k)   == \A a \in ROW * k .. RowLast(k) : ram[a] = 0
Shown(k)  == ~Zero(k) \/ k = 0 \/ k = NRows - 1 \/ ~Zero(k - 1)
Marked(k) == ~Shown(k) /\ Shown(k - 1)

SpecDump ==
    FlattenSeq([n \in 1 .. NRows |->
                  LET k == n - 1
                  IN  IF Shown(k) THEN <<RowLine(ram, ROW * k)>>
                      ELSE IF Marked(k) THEN <<Marker>> ELSE <<>>])

(* print_eeprom prints what spec 4.4 describes, whatever follows DataBuf in *)
(* memory: empty_rows counts a run, the "== 2" test prints one "*", the    *)
(* reset at i >= FEE_DENSITY_BYTES - 16 keeps the last row, and i += 15     *)
(* lands on the next row.                                                  *)
DumpMatchesReference == print_eeprom(Mem).out = SpecDump

(* The emptiness test reads only bytes of DataBuf.                         *)
DumpReadsInBounds == print_eeprom(Mem).reads \subseteq 0 .. FEE_DENSITY_BYTES - 1
=============================================================================
