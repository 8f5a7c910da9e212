----------------------------- MODULE DebugDump -----------------------------
(***************************************************************************)
(* print_eeprom of src/platforms/pico/eeprom.c (lines 246-284): the debug  *)
(* hex dump of the RAM image.  The byte loop is taken a row (16 bytes) at  *)
(* a time: at each row start the code tests whether the row is all zero,   *)
(* counts consecutive empty rows in empty_rows (reset at the last row), and *)
(* then prints the row, prints "*", or skips it with i += 15.  A printed   *)
(* line is abstracted to the "*" marker or to the row's address and the    *)
(* bytes printed on it; hex formatting and the watchdog kicks are left out.*)
(*                                                                         *)
(* The emptiness test reads DataBuf[i + j] for j up to 15 whatever         *)
(* FEE_DENSITY_BYTES is, so the operators take `m`, the memory from        *)
(* DataBuf onwards: the RAM image followed by whatever the build placed    *)
(* after WordBuf.                                                          *)
(***************************************************************************)
EXTENDS Integers, Sequences, SequencesExt

CONSTANT FEE_DENSITY_BYTES

ROW == 16

\* Offsets within a row that the emptiness loop finds non-zero.
NonZeroAt(m, i) == {j \in 0 .. ROW - 1 : m[i + j] # 0}

\* `for (j = 0; j < 16; j++) if (DataBuf[i + j]) { empty_rows = 0; break; }`
RowEmpty(m, i) == NonZeroAt(m, i) = {}

\* The addresses that loop reads: up to the first non-zero byte.
Scanned(m, i) == i .. i + (IF RowEmpty(m, i) THEN ROW - 1 ELSE Min(NonZeroAt(m, i)))

\* A printed row: its address and the bytes the i loop prints on it.
RowLine(m, i) == [at |-> i, bytes |-> [j \in 1 .. Min({ROW, FEE_DENSITY_BYTES - i}) |-> m[i + j - 1]]]

Marker == "*"

\* Fault variant: the last row is recognised with > instead of >=.
RECURSIVE DumpNoFinalReset(_, _, _)
DumpNoFinalReset(m, i, empty_rows) ==
    IF i >= FEE_DENSITY_BYTES THEN [out |-> <<>>, reads |-> {}]
    ELSE LET er   == IF RowEmpty(m, i)
                     THEN (IF i > FEE_DENSITY_BYTES - ROW THEN 0 ELSE empty_rows) + 1
                     ELSE 0
             rest == DumpNoFinalReset(m, i + ROW, er)
             line == IF er > 1 THEN (IF er = 2 THEN <<Marker>> ELSE <<>>)
                     ELSE <<RowLine(m, i)>>
         IN  [out |-> line \o rest.out, reads |-> Scanned(m, i) \cup rest.reads]

(* The dump from row start i with empty_rows as counted so far: the lines   *)
(* printed and the addresses read.                                         *)
RECURSIVE DumpFrom(_, _, _)
DumpFrom(m, i, empty_rows) ==
    IF i >= FEE_DENSITY_BYTES THEN [out |-> <<>>, reads |-> {}]
    ELSE LET er   == IF RowEmpty(m, i)
                     THEN (IF i >= FEE_DENSITY_BYTES - ROW THEN 0 ELSE empty_rows) + 1
                     ELSE 0
             rest == DumpFrom(m, i + ROW, er)
             line == IF er > 1 THEN (IF er = 2 THEN <<Marker>> ELSE <<>>)
                     ELSE <<RowLine(m, i)>>
         IN  [out |-> line \o rest.out, reads |-> Scanned(m, i) \cup rest.reads]

print_eeprom(m) == DumpFrom(m, 0, 0)
=============================================================================
