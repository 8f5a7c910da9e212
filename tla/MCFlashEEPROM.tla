--------------------------- MODULE MCFlashEEPROM ---------------------------
(* The engine over a 4-byte EEPROM (snapshot half-words 0-1, magic 2-3).   *)
(* Bytes 0-1 are in the byte range, so both byte entries and word entries  *)
(* occur, and a handful of writes fills the log and forces compaction.     *)
(* The .cfg files choose the page layout: with 4-byte pages the magic has  *)
(* a page of its own (as in the default layout) and the log two slots;     *)
(* with 8-byte pages the magic shares page 0 with the snapshot and the log *)
(* has three slots.                                                        *)
EXTENDS FlashEEPROM
=============================================================================
