# TLA+ model of the RP2040 flash-emulated EEPROM

This directory holds TLA+ models of `src/platforms/pico/eeprom.c`. That file
emulates a byte-addressable EEPROM on NOR flash. It keeps a one's-complement
snapshot, followed by a write log of 16-bit entries, and a RAM cache
(`DataBuf`) of the whole emulated EEPROM. The repository's other source file
(`src/keyboards/marksard/rhymestone - Vial test/keymaps/vial/config.h`) has
only keyboard constants and no behaviour.

## 1. Inventory

### Components

| Component | Code | State it keeps | Operations |
|---|---|---|---|
| Flash driver (external, not in `src/`) | `FLASH_Unlock/Lock`, `FLASH_ErasePage`, `FLASH_ProgramHalfWord` | the flash cells, the program/erase lock | unlock and lock; erase a page to all ones; program a half-word, returning a status. On NOR flash, programming can only clear bits, so the cell becomes `old & new`. |
| Log codec | `eeprom.c` 86-133, 314-348, 457-478, 512 | none (pure) | encode a mutation as a Byte-Entry, Word-Encoded 0/1 or Word-Next entry; decode during replay |
| RAM image | `WordBuf`/`DataBuf` (216-219) | `FEE_DENSITY_BYTES` bytes | updated by every write and by replay; read by every read |
| Persistence engine | `EEPROM_Init` (286-369), `eeprom_clear` (372-388), `EEPROM_Erase` (391-397), `eeprom_compact` (400-429), `eeprom_write_direct_entry` (431-449), `eeprom_write_log_word_entry` (451-497), `eeprom_write_log_byte_entry` (499-521), `EEPROM_WriteDataByte/Word` (523-613) | flash contents, `empty_slot` (222) | boot-time load and replay; write cascade (same value, direct snapshot write, log append, compaction); erase |
| Reads | `EEPROM_ReadDataByte/Word` (615-642) | none | served from `DataBuf`; out of range gives `0xFF`/`0xFFFF` |
| AVR wrappers | 647-746 | none | byte/word/dword/block read, write and update, built from the calls above |
| Debug dump | `print_eeprom` (246-284) | none | hex dump of `DataBuf`, 16 bytes per row, runs of zero rows collapsed |

### Interaction

There is one caller and one thread, and every call runs to completion. A
write first updates `DataBuf`, then issues one or more flash operations in
order. A power loss can strike between any two flash operations. After a
power loss the next `EEPROM_Init` rebuilds `DataBuf` from flash. It also
rebuilds `empty_slot`, except that `eeprom_compact` resets `empty_slot` on
its own (through `eeprom_clear`) and does not re-run `EEPROM_Init`.

### What is hard

- **Crash between flash operations.** Possible crash points include:
  - a Word-Next entry with its value word not yet programmed (a "torn" entry);
  - a word write split into two byte writes or two byte entries;
  - an interrupted `eeprom_clear`: pages erased but no magic yet, or, where
    the magic has a page of its own, the snapshot erased while the magic and
    the old log are still there;
  - an interrupted compaction.
- **Log full.** The off-by-one boundaries of the two log-full tests.
  Compaction can also be triggered by the *second* half of a split word write,
  which must then see the flash as the compaction left it.
- **NOR programming contract.** A half-word may only be programmed while it is
  erased. The direct-write path tests this with `== 0xFFFF`, and a value of 0
  (whose complement is `0xFFFF`) is never programmed.
- **Boot with a missing magic.** `EEPROM_Init` clears the flash but keeps the
  snapshot image it has already loaded into `DataBuf`.
- **Lock bracketing.** Spec §5 makes the engine bracket all flash work with
  `FLASH_Unlock`/`FLASH_Lock` on every exit path. `eeprom_compact` calls
  `eeprom_clear`, which locks, and must unlock again before the snapshot.

### What makes each component correct

- **Engine:** whenever no flash operation is in flight, the image a reboot
  would rebuild equals `DataBuf` (replay equivalence). During a write, a reboot
  gives each byte either its old or its new value (crash consistency). The
  engine programs only erased half-words. `BAD_ADDRESS` means nothing changed.
- **Driver use:** every erase and program runs unlocked, and the flash is
  locked whenever no call is running.
- **Log bounds:** every persisted log entry lies where replay reads it.
- **Codec:** decoding an encoded entry gives back the address and value. Torn
  entries are recognised.
- **Reads:** a read returns what the last write of that address stored.
- **Wrappers:** a dword or block write stores exactly its bytes, whatever the
  alignment, and the matching read gives them back.
- **Errors:** a call that reports success (`COMPLETE`, or 0) leaves nothing
  only in RAM (spec 7).

## 2. Modules

| Module | Models | Kind |
|---|---|---|
| `LogCodec` | the entry formats: `ByteEntry`, `WordEntry`, `WordEntryWords` (encoders of lines 457-478, 512) and `Decode`, one step of the replay loop (304-348) | pure operators |
| `FlashEEPROM` | the engine, the RAM image, the flash driver and power loss | state machine |
| `EEPROMStore` | what the engine promises its caller, with no flash | abstract specification |
| `EEPROMApi` | the AVR wrappers and reads, composed with `FlashEEPROM` | state machine |
| `DebugDump` | `print_eeprom`: its row loop as the recursive operator `DumpFrom` | pure operators |
| `MCFlashEEPROM`, `MCLogCodec`, `MCEEPROMApi`, `MCDebugDump` | instances for TLC | model-checking modules |

### `FlashEEPROM`

State:

- `flash`: one 16-bit value per half-word offset of the region.
- `DataBuf`: the RAM image.
- `empty_slot`: a half-word offset.
- `pend`: the flash operations the running call has issued but that have not
  completed yet.
- `up`: whether the device is powered and initialised.
- `status`: the return value of the last call.
- `locked`: the driver's lock. It is set by `FLASH_Lock` and at reset, and
  cleared by `FLASH_Unlock`.
- Ghost variables, used only by the properties:
  - `pre`: the image a reboot gave back when the running call started;
  - `call`: the kind of the running call;
  - `overprogrammed`: whether some cell has ever been programmed while not
    erased;
  - `durable`: `Recover(flash)`, the image a reboot would rebuild. It is a
    function of `flash`, kept so that it is computed once per step.

Conventions:

- Each C function of the engine is an operator from a view
  `[ram, flash, slot, fail]` to a result `[ram, slot, ops, st]`. Nested calls
  are chained through `After`, so the second byte of a split word write sees
  the flash as the first byte's operations (possibly a whole compaction) left
  it. Statuses are combined by `Worse`, the code's
  `if (status != FLASH_COMPLETE) final_status = status;`.
- `Bracket(ops)` is `FLASH_Unlock(); ops; FLASH_Lock();`. The unlock and
  the lock are pending operations like the others, so a power loss can fall
  between them and a program.
- Each public call is one action: `Boot` (`EEPROM_Init`), `WriteDataByte`,
  `WriteDataWord` and `Erase`. The action puts the call's flash operations
  into `pend`; `FlashOp` completes the oldest; `PowerLoss` drops the rest and
  the RAM contents, and `Boot` follows.
- Programming ANDs the new value into the cell, as NOR flash does (spec 6
  leaves programming a non-erased cell undefined; the RP2040 page program has
  this effect).
- Driver failures (`FLASH_MAY_FAIL = TRUE`): a call may meet one failing
  program, chosen among the programs it issues (`Failures`). That program
  returns an error status and leaves its cell unchanged; the status travels
  through the code's own combinations (ignored by `eeprom_clear`, collected by
  `eeprom_compact`, overwritten in `EEPROM_WriteDataWord`).

### `EEPROMStore` and the refinement

`EEPROMStore` has `mem` (what the caller reads), `stable` (what a reboot gives
back), `up` and `busy` (`idle`, `write` or `compact`). A write changes at most
two adjacent bytes of `mem`. While a write, boot-time clear or erase is busy,
each step may only move bytes of `stable` to their value in `mem`; a
compaction may change `stable` freely (the design accepts losing data when
power fails mid-compaction). A call can become idle only when
`stable = mem`. `FlashEEPROM` instantiates it as `Store` with
`mem <- DataBuf`, `stable <- durable`, and `busy` from `pend` and `call`.
`StoreRefinement` states the refinement for every step that keeps the NOR
contract: the step that programs over the magic (finding 1) is excluded,
because finding 2 shows that refinement does not survive it. It is checked at
a layout where the magic shares page 0 with the snapshot, so that an
interrupted `eeprom_clear` always erases the magic. Where the magic has a page
of its own the refinement fails (finding 3, run `stale_log`),
and `core_safety` checks the properties that survive there.

### `EEPROMApi`

`todo` holds the calls the running wrapper has still to make, and `CallStep`
makes the next one once the previous call's flash work is done. A power loss
empties `todo`. `eeprom_write_dword` and `eeprom_write_block` are the call
sequences they make. The one-call wrappers (`eeprom_write_byte`,
`eeprom_update_word`, ...) are the `FlashEEPROM` actions themselves. The reads
are operators over `DataBuf`. `eeprom_read_dword` returns its `uint32_t` as
four bytes, because TLC's integers stop at 2^31.

### `DebugDump` and `MCDebugDump`

`DumpFrom(m, i, empty_rows)` is one row of the `i` loop of `print_eeprom`,
and it recurses on the next row. It gives the lines printed and the addresses
the emptiness test read. A line is either the `*` marker or the row's address
with the bytes printed on it. The hex formatting is left out.

- `m` is the memory from `DataBuf` onwards: the emptiness test reads 16 bytes
  per row whatever the density. Reading past `WordBuf` is undefined, so
  `MCDebugDump` lets those bytes be all `0x00` or all `0xFF`.
- The inputs are every image whose rows are each all zero, or non-zero only in
  the row's first byte, or only in its last byte. These are the boundary cases
  of a test that stops at the first non-zero byte.
- `SpecDump` is spec §4.4's description, written row by row:
  - a row is shown if it is non-zero, is the first or the last row, or follows
    a non-zero row;
  - the first hidden row of a run becomes `*`.

### `MCLogCodec`

It enumerates every input as an initial state. `Spec` covers every byte
mutation below `FEE_BYTE_RANGE` and every word mutation at an even address at
or above it, with sampled values.

## 3. Bounds

The engine runs use `MCFlashEEPROM` with a 4-byte EEPROM:
`FEE_DENSITY_BYTES = 4` (snapshot half-words 0-1, magic at half-words 2-3),
`FEE_BYTE_RANGE = 2`, so that addresses 0-1 take byte entries and addresses
2-3 take word entries (the code uses 0x80; the encoding formulas are the same
for any even value ≤ 128), written bytes `{0, 165}` and written words
`{1, 0xA5A5}`. The `.cfg` files choose one of two page layouts:

- `MCFlashEEPROM.cfg` and `MC_RecoverableUnderContract.cfg`: four 4-byte
  pages and `FEE_WRITE_LOG_BYTES = 8`. The snapshot is page 0, the magic is
  alone on page 1 and the log slots 4-5 are page 2. As in the default layout
  (`FEE_DENSITY_BYTES` half the region), `eeprom_clear` erases the snapshot
  before the magic.
- `MC_StoreRefinement.cfg` and the other `MC_*.cfg` files of the engine: two
  8-byte pages and `FEE_WRITE_LOG_BYTES = 10`. The magic shares page 0 with
  the snapshot, and the log has three slots (4-6).

With these values every entry kind occurs:
- Byte-Entry;
- Word-Encoded 0 and 1;
- Word-Next (also torn);
- direct writes;
- the value-0 elision, which matters only after a stale-log boot
  (`stale_log` reaches it);
- compaction, triggered by a byte entry, by a word entry, and from the second
  half of a split word write;
- the `BAD_ADDRESS` path (address 4).

`CONSTRAINT UnderContract` stops exploration once the NOR contract is
broken. The properties that carry the `~overprogrammed` proviso are about the
states before that point. The violation runs `nor_contract`,
`replay_equivalence` and `bad_address` explore without it.

`MCEEPROMApi.cfg` uses `FEE_DENSITY_BYTES = 6`. That is the smallest density
at which an unaligned dword (odd address, byte + word + byte) fits. The inputs
are one dword `0x01A500A5` and one 3-byte block `<<0xA5, 1, 0>>`, at every
address 0-6. A block at an even address takes the half-word loop and the
trailing byte; at an odd address it takes the leading byte and the loop. At
the top addresses both requests run partly out of range.

`MCLogCodec.cfg` uses the real `FEE_BYTE_RANGE = 0x80` and the largest
`FEE_DENSITY_BYTES = 0x4000`. It checks all 128 × 256 byte entries and all
8128 word addresses. The sampled word values
`{0, 1, 2, 0xFF, 0x100, 0x8000, 0xFFFE, 0xFFFF}` cover both encodings and the
terminator and torn edges.

`MCDebugDump.cfg` uses `FEE_DENSITY_BYTES = 112`: seven rows, which allows
runs of one, two and three or more zero rows, in the middle and at the end.
112 is a multiple of 16, so this run never reads past `DataBuf`.
`MC_DumpReadsInBounds.cfg` uses 72, which is not a multiple of 16.

**Fairness.** None is assumed: every property is a safety property. The one
liveness question the engine poses, that a call's flash work ends, holds by
construction in the model (`pend` only shrinks), so it is not checked.

## 4. Runs

| Run | Expect | What it shows |
|---|---|---|
| `core_safety` (`MCFlashEEPROM.cfg`) | pass | At the layout with the magic on its own page, with power loss between any two flash operations. `CrashConsistent`: during a write or erase, a reboot gives each byte either what a reboot gave before the call or the value the call put in RAM. `FlashLockDiscipline`: every erase and program happens unlocked, and the flash is locked whenever no call runs. `ReplaySeesEveryEntry`: nothing is programmed at or after the half-word where a reboot's replay stops, so the log-full tests never let an entry fall outside what replay reads. About 330k distinct states. |
| `stale_log` (`MC_RecoverableUnderContract.cfg`) | violation | `RecoverableUnderContract` at the same layout: an interrupted clear leaves the magic and the old log, and a write acknowledged after the next boot is undone at the reboot after it (finding 3). |
| `store_refinement` (`MC_StoreRefinement.cfg`) | pass | `StoreRefinement` at the layout where the magic shares page 0 with the snapshot: the engine implements `EEPROMStore`. Each flash operation only moves recovered bytes forward, and writes, compactions, boot-time clears and erases end in sync. 537k states. |
| `codec_roundtrip` (`MCLogCodec.cfg`) | pass | `EncodeDecode` at the real constants: 98k logged mutations decode back exactly. |
| `api_roundtrip` (`MCEEPROMApi.cfg`) | pass | `WrapperRoundTrip`: dword and block writes at every alignment store exactly their bytes, and the reads return them. 1.6M states, with power loss. |
| `dump_reference` (`MCDebugDump.cfg`) | pass | `DumpMatchesReference`: `print_eeprom` prints the lines spec §4.4 describes. |
| `nor_contract` (`MC_ProgramsOnlyErased.cfg`) | violation | After a compaction, the next log entry is programmed over the magic. |
| `replay_equivalence` (`MC_Recoverable.cfg`) | violation | Once that happens, a reboot no longer rebuilds `DataBuf`. It finds no magic and erases the flash, losing every write made since the compaction. |
| `bad_address` (`MC_BadAddressHasNoEffect.cfg`) | violation | `EEPROM_WriteDataWord(FEE_DENSITY_BYTES-1, w)` writes and persists the low byte, then returns `BAD_ADDRESS`. |
| `silent_success` (`MC_SuccessIsDurable.cfg`) | violation | With driver failures, an odd-address word write returns 0 although its first byte never reached flash. |
| `dump_bounds` (`MC_DumpReadsInBounds.cfg`) | violation | At a density that is not a multiple of 16, `print_eeprom` reads past `DataBuf`. |

Each property of a passing run has a mutant in `PROJECT.json`: a plausible bug
in the mapped code (an off-by-one log-full test, an unbiased Word-Next address,
torn entries applied, a compaction without snapshot, a block without its
trailing byte, a word-entry log-full test that forgets the value word, a
compaction that does not unlock again after `eeprom_clear`, the last dump row
tested with `>`) that TLC shows violates it.

## 5. Findings

1. **The magic is overwritten after compaction.** `eeprom_clear` (line 386)
   sets `empty_slot = FEE_WRITE_LOG_BASE_ADDRESS`. That is the offset of the
   magic itself, not base+4. `EEPROM_Init` repairs this after `EEPROM_Erase`
   and at boot. `eeprom_compact`, however, leaves the pointer there, so the
   next log entry is programmed over `0x0FEE`.
2. **Writes are lost at the next reboot.** The magic no longer matches, so
   `EEPROM_Init` calls `eeprom_clear`. This erases snapshot and log, while
   `DataBuf` keeps the old snapshot image. The writes since the compaction are
   lost. The flash is now blank, so the reboot after that loses everything.
3. **An interrupted clear revives a stale log** (line 375). `eeprom_clear`
   erases pages from page 0 upwards and does not invalidate the magic first.
   When the log starts on a later page, as in the default layout, a power
   loss after the snapshot pages are erased leaves the magic and the old log.
   The next `EEPROM_Init` (line 300) accepts the magic and replays the old
   log over an all-zero snapshot. A later write to a byte that log mentions
   takes the direct path into the erased snapshot cell (or, for 0, is elided
   at line 438) and returns `COMPLETE`. The reboot after that replays the
   stale entry over the snapshot and restores the old value. Spec §4.2 says a
   clear loses the persistent state; spec §8.3 says a reboot after a
   successful write reproduces the RAM image.
4. **`BAD_ADDRESS` with side effects.** An odd-address word write at the last
   byte writes that byte, then fails on the next address and reports
   `BAD_ADDRESS`. Spec §7 says `BAD_ADDRESS` changes nothing.
5. **A flash error is reported as success** (line 569). In the odd-address
   path of `EEPROM_WriteDataWord`:
   - the first byte's program fails and returns an error;
   - the second byte is unchanged, so its write returns 0;
   - `if (status != FLASH_COMPLETE) final_status = status;` replaces the error
     by that 0.
6. **`print_eeprom` reads out of bounds** (line 258). `FEE_DENSITY_BYTES` need
   only be even. When it is not a multiple of 16 and the last row is all zero,
   the emptiness loop reads `DataBuf[i + j]` past the end of `WordBuf`. That
   is undefined behaviour.

A behaviour spec §7 describes and the model does not count as a finding: after
a failed program, `DataBuf` already holds the value, so a retry of the same
write returns 0 at the same-value check (line 531) without reaching flash.

A documentation remark, which no run checks: the header's entry table (line
126) gives a Byte-Entry's address as `(Entry & 0x7F00) >> 4`, while the
encoder (line 512) and the replay (line 317) use `Entry >> 8`.

## 6. Not modelled

- Watchdog kicks: `watchdog_update` has no state here. What it guards is
  timing, and the model has no clock. The compaction loop (408-418) never
  kicks the watchdog, although spec §7 asks for it. A reset there is a power
  loss mid-compaction, which every engine run includes.
- Flash contents not written by this firmware. The replay applies a
  Byte-Entry without a bounds check (line 318). Every byte entry this code
  writes is below `FEE_BYTE_RANGE` and below `FEE_DENSITY_BYTES`. A firmware
  with a different density moves the magic, so the next boot clears the
  flash instead of replaying it. An out-of-range byte entry therefore needs
  foreign or corrupted flash, which the model does not generate.
- The keyboard's `config.h`: it only defines constants (`OLED_FONT_H`, the
  Vial UID and unlock combo) that the EEPROM code does not use.
- Power loss *inside* one half-word program, a program that fails after
  changing some bits, and erase failures: programming is atomic, and a failed
  program leaves its cell unchanged.
- More than one failing program per call: a single failure already reaches
  every error path.
- The source buffer's alignment in `eeprom_write_block` and the destination
  buffer's in `eeprom_read_block`: on the little-endian RP2040 both branches
  move the same bytes.
