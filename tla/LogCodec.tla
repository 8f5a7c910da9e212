------------------------------ MODULE LogCodec ------------------------------
(***************************************************************************)
(* The 16-bit write-log entry formats of src/platforms/pico/eeprom.c:      *)
(* how eeprom_write_log_byte_entry and eeprom_write_log_word_entry encode  *)
(* a mutation, and how the replay loop of EEPROM_Init decodes an entry     *)
(* (and, for a Word-Next entry, the half-word after it).                   *)
(*   Byte-Entry      0AAAAAAA VVVVVVVV     address < FEE_BYTE_RANGE        *)
(*   Word-Encoded v  10v AAAAAAAAAAAAA      address >> 1, value 0 or 1     *)
(*   Reserved        110 xxxxxxxxxxxxx                                     *)
(*   Word-Next       111 AAAAAAAAAAAAA  ~V  (address - FEE_BYTE_RANGE) >> 1 *)
(*   0xFFFF          unprogrammed: end of the log                          *)
(***************************************************************************)
EXTENDS Integers

CONSTANTS FEE_DENSITY_BYTES, FEE_BYTE_RANGE

FEE_EMPTY_WORD == 65535
Compl(v) == FEE_EMPTY_WORD - v                 \* 16-bit ~v

\* eeprom_write_log_byte_entry: (Address << 8) | DataBuf[Address].
ByteEntry(a, v) == a * 256 + v

\* Fault variant: the Word-Next address not biased by FEE_BYTE_RANGE.
WordEntryUnbiased(a, value) ==
    IF value <= 1 THEN 32768 + value * 8192 + a \div 2
    ELSE 32768 + 24576 + a \div 2

\* eeprom_write_log_word_entry at even a: FEE_WORD_ENCODING with the value
\* in bit 13 for 0 and 1, else FEE_VALUE_NEXT and a biased address.
WordEntry(a, value) ==
    IF value <= 1 THEN 32768 + value * 8192 + a \div 2
    ELSE 32768 + 24576 + (a - FEE_BYTE_RANGE) \div 2

\* entry_size / 2: Word-Next is followed by a half-word holding ~value.
WordEntrySize(value) == IF value <= 1 THEN 1 ELSE 2

\* The half-words that eeprom_write_log_word_entry programs, in order.
WordEntryWords(a, value) ==
    IF value <= 1 THEN <<WordEntry(a, value)>> ELSE <<WordEntry(a, value), Compl(value)>>

IsWordNext(e) == e >= 32768 /\ (e \div 8192) % 4 = 3

\* Fault variant: a Word-Next whose value word is still erased is applied.
TornIgnored(nxt) == FALSE

\* A Word-Next whose value word reads 0xFFFF (wvalue == 0) was torn.
Torn(nxt) == Compl(nxt) = 0

(* One step of the replay loop (eeprom.c 310-348) on entry e, nxt being    *)
(* the half-word after it: what it does to DataBuf and how many half-words *)
(* it consumes.  "word" effects outside FEE_DENSITY_BYTES are discarded by *)
(* the caller; "byte" effects are applied unchecked.                       *)
Decode(e, nxt) ==
    CASE e = FEE_EMPTY_WORD -> [kind |-> "end", size |-> 0]
      [] e < 32768 -> [kind |-> "byte", addr |-> e \div 256, val |-> e % 256, size |-> 1]
      [] IsWordNext(e) /\ Torn(nxt) -> [kind |-> "torn", size |-> 2]
      [] IsWordNext(e) ->
             [kind |-> "word", addr |-> (e % 8192) * 2 + FEE_BYTE_RANGE,
              val |-> Compl(nxt), size |-> 2]
      [] (e \div 16384) % 2 = 1 -> [kind |-> "reserved", size |-> 1]
      [] OTHER -> [kind |-> "word", addr |-> (e % 8192) * 2,
                   val |-> (e \div 8192) % 2, size |-> 1]
=============================================================================
