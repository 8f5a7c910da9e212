---------------------------- MODULE FlashEEPROM ----------------------------
(***************************************************************************)
(* The persistence engine of src/platforms/pico/eeprom.c: an EEPROM        *)
(* emulated on NOR flash as a one's-complement snapshot followed by a      *)
(* write log, cached in RAM (DataBuf).                                     *)
(*                                                                         *)
(* Each public call (EEPROM_Init, EEPROM_WriteDataByte/Word, EEPROM_Erase) *)
(* is one action that updates the RAM image and empty_slot and issues the  *)
(* flash operations the C code performs, in order, into `pend`.  FlashOp  *)
(* completes them one at a time; PowerLoss may strike between any two, so *)
(* torn log entries and interrupted compactions are reachable.  No call    *)
(* starts while operations of the previous one are still pending, because  *)
(* the C code runs every call to completion.                               *)
(*                                                                         *)
(* Flash is a function from half-word offsets (relative to                 *)
(* FEE_PAGE_BASE_ADDRESS) to 16-bit values.  Programming a half-word ANDs *)
(* the new value into the cell, as NOR flash does.                         *)
(***************************************************************************)
EXTENDS Integers, Sequences, SequencesExt, Bitwise, LogCodec

\* FEE_DENSITY_BYTES (size of the emulated EEPROM) and FEE_BYTE_RANGE
\* (addresses below it get one-word byte entries) come from LogCodec.
CONSTANTS
    FEE_PAGE_SIZE,        \* bytes per erase page
    FEE_PAGE_COUNT,       \* pages used for snapshot + write log
    FEE_WRITE_LOG_BYTES,  \* size of the write log (magic included)
    ByteVals,             \* data bytes the callers write
    WordVals,             \* data half-words the callers write
    FLASH_MAY_FAIL        \* whether FLASH_ProgramHalfWord may return an error

\* The configuration checks of eeprom.c (#error directives, lines 160-201).
ASSUME /\ FEE_DENSITY_BYTES % 2 = 0 /\ FEE_WRITE_LOG_BYTES % 2 = 0
       /\ FEE_DENSITY_BYTES <= 16384
       /\ FEE_DENSITY_BYTES + FEE_WRITE_LOG_BYTES <= FEE_PAGE_COUNT * FEE_PAGE_SIZE
       /\ FEE_BYTE_RANGE % 2 = 0 /\ FEE_BYTE_RANGE <= 128
       /\ FEE_BYTE_RANGE <= FEE_DENSITY_BYTES
       /\ ByteVals \subseteq 0..255 /\ WordVals \subseteq 0..65535
       /\ FLASH_MAY_FAIL \in BOOLEAN

VARIABLES
    flash,      \* half-word offset -> 16-bit cell value
    DataBuf,    \* the RAM image, byte address -> byte
    empty_slot, \* half-word offset of the next free log slot
    pend,       \* flash operations issued by the running call, not yet done
    up,         \* powered and initialised by EEPROM_Init
    status,     \* value returned by the last write call
    \* ghost variables, used only by the properties
    pre,        \* what a reboot gave back when the running call started
    call,       \* kind of the running call
    overprogrammed, \* some half-word was programmed while not erased
    durable,    \* Recover(flash), kept so that it is computed once per step
    locked      \* the driver's program/erase lock (FLASH_Unlock / FLASH_Lock)

vars == <<flash, DataBuf, empty_slot, pend, up, status, pre, call, overprogrammed, durable,
          locked>>

-----------------------------------------------------------------------------
(* Layout, in half-word offsets.                                           *)

HalfWords  == 0 .. (FEE_PAGE_COUNT * FEE_PAGE_SIZE) \div 2 - 1
Bytes      == 0 .. FEE_DENSITY_BYTES - 1
LOG_BASE   == FEE_DENSITY_BYTES \div 2                         \* FEE_WRITE_LOG_BASE_ADDRESS
LOG_LAST   == (FEE_DENSITY_BYTES + FEE_WRITE_LOG_BYTES) \div 2 \* FEE_WRITE_LOG_LAST_ADDRESS
Page(i)    == i \div (FEE_PAGE_SIZE \div 2)

MAGIC_LO == 4078    \* FEE_MAGIC_DWORD & 0xffff = 0x0FEE
MAGIC_HI == 8256    \* FEE_MAGIC_DWORD >> 16   = 0x2040

WordOf(r, a) == r[a] + 256 * r[a + 1]          \* little-endian half-word at even a
SetWord(r, a, w) == [r EXCEPT ![a] = w % 256, ![a + 1] = w \div 256]

Statuses == {"NONE", "COMPLETE", "BAD_ADDRESS", "ERROR"}  \* "NONE" is the code's 0

-----------------------------------------------------------------------------
(* Flash driver operations, as issued by the engine.                       *)

\* The call's view s names in s.fail the one <<offset, value>> program that
\* the driver fails during this call (<<>> for none); that program returns
\* an error status and leaves the cell as it was.
Program(s, i, v) == [kind |-> "program", at |-> i, val |-> v, ok |-> <<i, v>> # s.fail]
ErasePage(p)  == [kind |-> "erase", page |-> p]
FLASH_Unlock == [kind |-> "unlock"]
FLASH_Lock   == [kind |-> "lock"]

\* FLASH_Unlock(); ops; FLASH_Lock();
Bracket(ops) == <<FLASH_Unlock>> \o ops \o <<FLASH_Lock>>

\* FLASH_ProgramHalfWord's return value.
ProgramStatus(o) == IF o.ok THEN "COMPLETE" ELSE "ERROR"

\* Effect of one operation: erase sets a page to all ones, program ANDs;
\* a failed program, unlock and lock leave the cells alone.
ApplyOp(fl, o) ==
    CASE o.kind = "erase" ->
             [i \in DOMAIN fl |-> IF Page(i) = o.page THEN FEE_EMPTY_WORD ELSE fl[i]]
      [] o.kind = "program" /\ o.ok -> [fl EXCEPT ![o.at] = @ & o.val]
      [] OTHER -> fl

ApplyOps(fl, ops) == FoldLeft(ApplyOp, fl, ops)

(* The engine's view while a call runs: RAM image, flash as the call's own *)
(* earlier operations left it, and empty_slot.  Each C function maps such  *)
(* a view to a result: new RAM, new empty_slot, operations, status.        *)
Result(s, ops, st) == [ram |-> s.ram, slot |-> s.slot, ops |-> ops, st |-> st]
After(s, r) == [s EXCEPT !.ram = r.ram, !.flash = ApplyOps(@, r.ops), !.slot = r.slot]

\* `if (status != FLASH_COMPLETE) final_status = status;`
Worse(final, st) == IF st # "COMPLETE" THEN st ELSE final

\* Two calls in sequence, statuses combined as above
\* (EEPROM_WriteDataWord, lines 567-569 and 597-604).
Then(r1, r2) == [ram |-> r2.ram, slot |-> r2.slot, ops |-> r1.ops \o r2.ops,
                 st |-> Worse(r1.st, r2.st)]

-----------------------------------------------------------------------------
(* eeprom_clear: erase every page, write the magic, reset empty_slot.  The *)
(* statuses of the two magic programs are ignored.                         *)

ClearOps(s) == Bracket([p \in 1 .. FEE_PAGE_COUNT |-> ErasePage(p - 1)]
                       \o <<Program(s, LOG_BASE, MAGIC_LO), Program(s, LOG_BASE + 1, MAGIC_HI)>>)

eeprom_clear(s) == [Result(s, ClearOps(s), "COMPLETE") EXCEPT !.slot = LOG_BASE]

\* eeprom_compact: clear, then, unlocked again, program ~w for every
\* non-zero RAM half-word.
SnapshotOps(s) ==
    SelectSeq([k \in 1 .. LOG_BASE |-> Program(s, k - 1, Compl(WordOf(s.ram, 2 * (k - 1))))],
              LAMBDA o : o.val # FEE_EMPTY_WORD)

\* Fault variant: compaction that does not write the snapshot back.
CompactWithoutSnapshot(s) == eeprom_clear(s)

\* Fault variant: no FLASH_Unlock after eeprom_clear has locked the flash.
CompactNoUnlock(s) ==
    LET snap == SnapshotOps(s)
    IN  [eeprom_clear(s) EXCEPT !.ops = @ \o snap \o <<FLASH_Lock>>,
                                !.st  = FoldLeft(LAMBDA f, o : Worse(f, ProgramStatus(o)),
                                                 "COMPLETE", snap)]

eeprom_compact(s) ==
    LET snap == SnapshotOps(s)
    IN  [eeprom_clear(s) EXCEPT !.ops = @ \o Bracket(snap),
                                !.st  = FoldLeft(LAMBDA f, o : Worse(f, ProgramStatus(o)),
                                                 "COMPLETE", snap)]

\* Program ~word straight into the snapshot if that half-word is unprogrammed;
\* status "NONE" means the log must be used.
eeprom_write_direct_entry(s, a) ==
    LET k == a \div 2
        v == Compl(WordOf(s.ram, 2 * k))
    IN  IF s.flash[k] # FEE_EMPTY_WORD THEN Result(s, <<>>, "NONE")
        ELSE IF v = FEE_EMPTY_WORD THEN Result(s, <<>>, "COMPLETE")
        ELSE Result(s, Bracket(<<Program(s, k, v)>>), ProgramStatus(Program(s, k, v)))

\* Fault variant: the word-entry log-full test ignores the value word.
WordEntryLateCompact(s, a) ==
    LET value == WordOf(s.ram, a)
        size  == WordEntrySize(value)
        words == WordEntryWords(a, value)
        o1    == Program(s, s.slot, words[1])
        o2    == Program(s, s.slot + 1, words[size])
    IN  IF s.slot > LOG_LAST - 1 THEN eeprom_compact(s)
        ELSE IF size = 1
        THEN [Result(s, Bracket(<<o1>>), ProgramStatus(o1)) EXCEPT !.slot = s.slot + 1]
        ELSE [Result(s, Bracket(<<o1, o2>>), Worse(ProgramStatus(o1), ProgramStatus(o2)))
              EXCEPT !.slot = s.slot + 2]

eeprom_write_log_word_entry(s, a) ==
    LET value == WordOf(s.ram, a)
        size  == WordEntrySize(value)
        words == WordEntryWords(a, value)
        o1    == Program(s, s.slot, words[1])
        o2    == Program(s, s.slot + 1, words[size])
    IN  IF s.slot > LOG_LAST - size THEN eeprom_compact(s)
        ELSE IF size = 1
        THEN [Result(s, Bracket(<<o1>>), ProgramStatus(o1)) EXCEPT !.slot = s.slot + 1]
        ELSE [Result(s, Bracket(<<o1, o2>>), Worse(ProgramStatus(o1), ProgramStatus(o2)))
              EXCEPT !.slot = s.slot + 2]

\* Fault variant: the log-full test off by one slot.
LogByteEntryLateCompact(s, a) ==
    IF s.slot > LOG_LAST THEN eeprom_compact(s)
    ELSE LET o == Program(s, s.slot, ByteEntry(a, s.ram[a]))
         IN  [Result(s, Bracket(<<o>>), ProgramStatus(o)) EXCEPT !.slot = s.slot + 1]

eeprom_write_log_byte_entry(s, a) ==
    IF s.slot >= LOG_LAST THEN eeprom_compact(s)
    ELSE LET o == Program(s, s.slot, ByteEntry(a, s.ram[a]))
         IN  [Result(s, Bracket(<<o>>), ProgramStatus(o)) EXCEPT !.slot = s.slot + 1]

-----------------------------------------------------------------------------
(* Public write calls.                                                     *)

EEPROM_WriteDataByte(s, a, b) ==
    IF a >= FEE_DENSITY_BYTES THEN Result(s, <<>>, "BAD_ADDRESS")
    ELSE IF s.ram[a] = b THEN Result(s, <<>>, "NONE")
    ELSE LET s1 == [s EXCEPT !.ram[a] = b]
             d  == eeprom_write_direct_entry(s1, a)
         IN  IF d.st # "NONE" THEN d
             ELSE IF a < FEE_BYTE_RANGE THEN eeprom_write_log_byte_entry(s1, a)
             ELSE eeprom_write_log_word_entry(s1, a - (a % 2))

\* Below FEE_BYTE_RANGE a logged word write is one byte entry per changed byte.
LogChangedBytes(s, a, old, w) ==
    LET r1 == IF old % 256 # w % 256 THEN eeprom_write_log_byte_entry(s, a)
              ELSE Result(s, <<>>, "COMPLETE")
        s2 == After(s, r1)
        r2 == IF old \div 256 # w \div 256 THEN eeprom_write_log_byte_entry(s2, a + 1)
              ELSE Result(s2, <<>>, "COMPLETE")
    IN  Then(r1, r2)

EEPROM_WriteDataWord(s, a, w) ==
    IF a >= FEE_DENSITY_BYTES THEN Result(s, <<>>, "BAD_ADDRESS")
    ELSE IF a % 2 = 1
    THEN LET r1 == EEPROM_WriteDataByte(s, a, w % 256)
         IN  Then(r1, EEPROM_WriteDataByte(After(s, r1), a + 1, w \div 256))
    ELSE IF WordOf(s.ram, a) = w THEN Result(s, <<>>, "NONE")
    ELSE LET s1 == [s EXCEPT !.ram = SetWord(@, a, w)]
             d  == eeprom_write_direct_entry(s1, a)
         IN  IF d.st # "NONE" THEN d
             ELSE IF a < FEE_BYTE_RANGE THEN LogChangedBytes(s1, a, WordOf(s.ram, a), w)
             ELSE eeprom_write_log_word_entry(s1, a)

-----------------------------------------------------------------------------
(* EEPROM_Init: load the complemented snapshot, check the magic (clearing  *)
(* the flash if it is missing), replay the log up to the first 0xFFFF.     *)

SnapshotImage(fl) ==
    [a \in Bytes |-> LET w == Compl(fl[a \div 2])
                     IN  IF a % 2 = 0 THEN w % 256 ELSE w \div 256]

\* Apply a decoded word entry; out-of-range addresses are discarded.
ReplayWord(r, a, w) == IF a < FEE_DENSITY_BYTES THEN SetWord(r, a, w) ELSE r

\* What a decoded entry does to the RAM image.
ReplayEntry(r, d) ==
    CASE d.kind = "byte" -> [r EXCEPT ![d.addr] = d.val]
      [] d.kind = "word" -> ReplayWord(r, d.addr, d.val)
      [] OTHER           -> r

\* The log walk from half-word i: stop at 0xFFFF, at the end of the log, or
\* at a Word-Next whose value word would lie past it; empty_slot ends
\* where the walk stopped.
RECURSIVE Replay(_, _, _)
Replay(fl, i, r) ==
    IF i >= LOG_LAST \/ fl[i] = FEE_EMPTY_WORD THEN [ram |-> r, slot |-> i]
    ELSE IF IsWordNext(fl[i]) /\ i + 1 >= LOG_LAST THEN [ram |-> r, slot |-> i + 1]
    ELSE LET d == Decode(fl[i], IF IsWordNext(fl[i]) THEN fl[i + 1] ELSE FEE_EMPTY_WORD)
         IN  Replay(fl, i + d.size, ReplayEntry(r, d))

MagicOK(fl) == fl[LOG_BASE] = MAGIC_LO /\ fl[LOG_BASE + 1] = MAGIC_HI

EEPROM_Init(s) ==
    LET ops == IF MagicOK(s.flash) THEN <<>> ELSE ClearOps(s)
        rp  == Replay(ApplyOps(s.flash, ops), LOG_BASE + 2, SnapshotImage(s.flash))
    IN  [ram |-> rp.ram, slot |-> rp.slot, ops |-> ops, st |-> "COMPLETE"]

\* The RAM image a reboot would reconstruct from the flash contents fl.
Recover(fl) == EEPROM_Init([flash |-> fl, fail |-> <<>>]).ram

\* EEPROM_Erase: eeprom_clear, then EEPROM_Init on the flash it left.
EEPROM_Erase(s) ==
    LET c == eeprom_clear(s)
    IN  Then(c, EEPROM_Init(After(s, c)))

-----------------------------------------------------------------------------
(* Actions.                                                                *)

Zeros == [a \in Bytes |-> 0]
Addrs == 0 .. FEE_DENSITY_BYTES          \* one out-of-range address included
View(f) == [ram |-> DataBuf, flash |-> flash, slot |-> empty_slot, fail |-> f]

\* The programs the driver may fail in a call that issues ops.
Failures(ops) ==
    {<<>>} \cup IF FLASH_MAY_FAIL
               THEN {<<ops[i].at, ops[i].val>> : i \in {j \in DOMAIN ops : ops[j].kind = "program"}}
               ELSE {}

\* The call Op(View(f)) for every driver behaviour f it may meet.
Calls(Op(_)) == {Op(View(f)) : f \in Failures(Op(View(<<>>)).ops)}
Idle == up /\ pend = <<>>

\* A returning call: its results become the state, its flash work pending.
Return(r, kind) ==
    /\ DataBuf' = r.ram
    /\ empty_slot' = r.slot
    /\ pend' = r.ops
    /\ status' = r.st
    /\ pre' = durable
    /\ call' = IF kind = "write" /\ \E i \in DOMAIN r.ops : r.ops[i].kind = "erase"
               THEN "compact" ELSE kind

Init ==
    /\ flash = [i \in HalfWords |-> FEE_EMPTY_WORD]
    /\ DataBuf = Zeros
    /\ empty_slot = LOG_BASE
    /\ pend = <<>>
    /\ up = FALSE
    /\ status = "NONE"
    /\ pre = Recover(flash)
    /\ call = "boot"
    /\ overprogrammed = FALSE
    /\ durable = Recover(flash)
    /\ locked = TRUE

Boot ==
    /\ ~up
    /\ \E r \in Calls(EEPROM_Init) : Return(r, "boot")
    /\ up' = TRUE
    /\ UNCHANGED <<flash, overprogrammed, durable, locked>>

WriteDataByte(a, b) ==
    /\ Idle
    /\ \E r \in Calls(LAMBDA s : EEPROM_WriteDataByte(s, a, b)) : Return(r, "write")
    /\ UNCHANGED <<flash, up, overprogrammed, durable, locked>>

WriteDataWord(a, w) ==
    /\ Idle
    /\ \E r \in Calls(LAMBDA s : EEPROM_WriteDataWord(s, a, w)) : Return(r, "write")
    /\ UNCHANGED <<flash, up, overprogrammed, durable, locked>>

Erase ==
    /\ Idle
    /\ \E r \in Calls(EEPROM_Erase) : Return(r, "erase")
    /\ UNCHANGED <<flash, up, overprogrammed, durable, locked>>

\* The flash driver completes the oldest pending operation.
FlashOp ==
    /\ pend # <<>>
    /\ flash' = ApplyOp(flash, Head(pend))
    /\ pend' = Tail(pend)
    /\ overprogrammed' = (overprogrammed \/ (Head(pend).kind = "program" /\ Head(pend).ok
                                             /\ flash[Head(pend).at] # FEE_EMPTY_WORD))
    /\ durable' = Recover(flash')
    /\ pre' = IF Len(pend) = 1 THEN durable' ELSE pre
    /\ locked' = CASE Head(pend).kind = "unlock" -> FALSE
                   [] Head(pend).kind = "lock"   -> TRUE
                   [] OTHER                      -> locked
    /\ UNCHANGED <<DataBuf, empty_slot, up, status, call>>

\* Power is lost: RAM contents and the rest of the running call are gone;
\* the flash controller comes out of reset locked.
PowerLoss ==
    /\ up
    /\ up' = FALSE
    /\ pend' = <<>>
    /\ DataBuf' = Zeros
    /\ empty_slot' = LOG_BASE
    /\ status' = "NONE"
    /\ pre' = durable
    /\ call' = "boot"
    /\ locked' = TRUE
    /\ UNCHANGED <<flash, overprogrammed, durable>>

Next ==
    \/ Boot
    \/ \E a \in Addrs, b \in ByteVals : WriteDataByte(a, b)
    \/ \E a \in Addrs, w \in WordVals : WriteDataWord(a, w)
    \/ Erase
    \/ FlashOp
    \/ PowerLoss

Spec == Init /\ [][Next]_vars

\* Exploration bound: stop once the engine has broken the NOR contract.
\* The properties below that carry the ~overprogrammed proviso are vacuous
\* beyond that point; ProgramsOnlyErased is checked without it.
UnderContract == ~overprogrammed

(* Refinement mapping onto the caller's view (EEPROMStore): the bytes read  *)
(* are DataBuf, the bytes a reboot gives back are Recover(flash), and a    *)
(* call is busy while its flash operations are pending.                    *)
Store == INSTANCE EEPROMStore
           WITH mem <- DataBuf, stable <- durable,
                busy <- IF pend = <<>> THEN "idle"
                        ELSE IF call = "compact" THEN "compact" ELSE "write"

-----------------------------------------------------------------------------
(* Properties.                                                             *)

TypeOK ==
    /\ flash \in [HalfWords -> 0 .. FEE_EMPTY_WORD]
    /\ DataBuf \in [Bytes -> 0 .. 255]
    /\ empty_slot \in LOG_BASE .. LOG_LAST
    /\ up \in BOOLEAN
    /\ status \in Statuses
    /\ call \in {"boot", "write", "compact", "erase"}
    /\ locked \in BOOLEAN

(* Replay equivalence (spec 3, 8.3, 8.5): whenever no flash operation is   *)
(* in flight, a reboot would rebuild exactly the RAM image the calls       *)
(* produced - through direct snapshot writes, every log encoding,          *)
(* compaction and a replay that skipped torn entries - as long as the      *)
(* engine has never programmed a half-word that was not erased.  Spec 4.2  *)
(* says an interrupted clear "transiently loses all persistent state"; the *)
(* boot after it must then keep what later writes put in flash.            *)
RecoverableUnderContract ==
    (Idle /\ ~overprogrammed) => durable = DataBuf

(* Log bounds (the log-full tests of the byte and word appends, also when *)
(* the second half of a split word write appends or compacts): whenever no *)
(* flash operation is in flight, nothing is programmed at or after the     *)
(* half-word where a reboot's replay would stop, so every entry the engine *)
(* has persisted is one the replay reads.                                  *)
ReplaySeesEveryEntry ==
    (Idle /\ ~overprogrammed) =>
        LET stop == EEPROM_Init([flash |-> flash, fail |-> <<>>]).slot
        IN  \A i \in HalfWords : i >= stop => flash[i] = FEE_EMPTY_WORD

(* The same without the proviso.                                           *)
Recoverable == Idle => Recover(flash) = DataBuf

(* Crash consistency of a write or erase (spec 8.4): at every point of its  *)
(* flash work, a reboot yields for each byte either what a reboot gave     *)
(* back when the call started or the value the call put in RAM, never a    *)
(* third value (a torn log entry, half a split word, a half-erased flash). *)
(* Compaction is excluded: the design accepts that a power loss there      *)
(* loses data.                                                             *)
CrashConsistent ==
    (up /\ call \in {"write", "erase"} /\ ~overprogrammed) =>
        \A a \in Bytes : durable[a] \in {pre[a], DataBuf[a]}

(* The engine implements the abstract store, as long as it keeps the NOR  *)
(* contract: every call changes at most two adjacent bytes; each flash     *)
(* operation of a write, boot-time clear or erase only moves recovered     *)
(* bytes to the value the RAM image now holds (never back to an older      *)
(* one); and a call's flash work, a compaction's included, ends with a     *)
(* flash that a reboot turns into exactly DataBuf.                         *)
StoreRefinement ==
    Store!Init /\ [][~overprogrammed' => Store!Next]_Store!store_vars

(* Error reporting (spec 5, 7): a write whose flash work failed returns    *)
(* the driver status, and the caller "may choose to retry" - which only    *)
(* helps if a call that reports success (COMPLETE, or 0 for "same value")  *)
(* never leaves the RAM image ahead of what a reboot recovers.             *)
SuccessIsDurable ==
    (Idle /\ ~overprogrammed /\ status \in {"COMPLETE", "NONE"}) => durable = DataBuf

(* NOR contract of FLASH_ProgramHalfWord (spec 6): the engine programs only *)
(* half-words that are erased.                                             *)
ProgramsOnlyErased ==
    [][pend # <<>> /\ Head(pend).kind = "program" => flash[Head(pend).at] = FEE_EMPTY_WORD]_vars

(* Driver bracketing (spec 5): every erase and program the engine issues  *)
(* runs with the flash unlocked, and the engine leaves the flash locked    *)
(* again on every exit path - eeprom_clear locking in the middle of a      *)
(* compaction, error returns and the direct, log and compaction paths      *)
(* included - so no call returns with the flash unlocked.                  *)
FlashLockDiscipline ==
    /\ pend # <<>> /\ Head(pend).kind \in {"erase", "program"} => ~locked
    /\ pend = <<>> => locked

(* A write call that returns BAD_ADDRESS changes nothing (spec 7).          *)
BadAddressHasNoEffect ==
    [][Idle /\ up' /\ status' = "BAD_ADDRESS" => DataBuf' = DataBuf /\ pend' = <<>>]_vars
=============================================================================
