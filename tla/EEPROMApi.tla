----------------------------- MODULE EEPROMApi -----------------------------
(***************************************************************************)
(* The AVR-style wrappers of src/platforms/pico/eeprom.c (lines 647-748)  *)
(* composed with the engine of FlashEEPROM.  A dword or block write is the *)
(* sequence of EEPROM_WriteDataByte/Word calls the wrapper makes, held in  *)
(* `todo` and issued one at a time, each after the previous call's flash   *)
(* work; a power loss between two of them ends the wrapper.  The reads are *)
(* operators over the RAM image, which is all they consult.                *)
(*                                                                         *)
(* The source buffer of a block write is a sequence of bytes: its          *)
(* alignment only chooses between a uint16_t load from src and             *)
(* src[0] | src[1] << 8, which give the same value on the little-endian    *)
(* RP2040.                                                                 *)
(***************************************************************************)
EXTENDS FlashEEPROM

CONSTANTS DwordVals,   \* values given to eeprom_write_dword
          BlockData    \* byte sequences given to eeprom_write_block

VARIABLES todo,   \* calls the running wrapper has still to make
          req     \* ghost: the running or last wrapper request, and the
                  \* RAM image before it (NoReq after a power loss or erase)

api_vars == <<vars, todo, req>>

NoReq == [kind |-> "none"]

-----------------------------------------------------------------------------
(* Reads.                                                                  *)

EEPROM_ReadDataByte(r, a) == IF a < FEE_DENSITY_BYTES THEN r[a] ELSE 255

\* Both branches of the alignment test read the same little-endian value.
EEPROM_ReadDataWord(r, a) == IF a < FEE_DENSITY_BYTES - 1 THEN r[a] + 256 * r[a + 1] ELSE 65535

\* The uint32_t result, as its four bytes, least significant first (TLC's
\* integers stop at 2^31).  The shifts are done in int: a byte >= 0x80
\* shifted by 24, or a word >= 0x8000 shifted by 16, overflows; the ARM
\* build yields the bits of the unsigned shift, which the bytes are.
Bytes16(w) == <<w % 256, w \div 256>>

eeprom_read_dword(r, p) ==
    IF p % 2 = 1
    THEN <<EEPROM_ReadDataByte(r, p)>> \o Bytes16(EEPROM_ReadDataWord(r, p + 1))
         \o <<EEPROM_ReadDataByte(r, p + 3)>>
    ELSE Bytes16(EEPROM_ReadDataWord(r, p)) \o Bytes16(EEPROM_ReadDataWord(r, p + 2))

\* The half-word loop of eeprom_read_block and its trailing byte.
RECURSIVE ReadWords(_, _, _)
ReadWords(r, src, len) ==
    IF len > 1
    THEN Bytes16(EEPROM_ReadDataWord(r, src)) \o ReadWords(r, src + 2, len - 2)
    ELSE IF len = 1 THEN <<EEPROM_ReadDataByte(r, src)>> ELSE <<>>

eeprom_read_block(r, src, len) ==
    IF len > 0 /\ src % 2 = 1
    THEN <<EEPROM_ReadDataByte(r, src)>> \o ReadWords(r, src + 1, len - 1)
    ELSE ReadWords(r, src, len)

-----------------------------------------------------------------------------
(* Writes, as the calls they make.                                         *)

\* eeprom_write_byte / eeprom_update_byte and eeprom_write_word /
\* eeprom_update_word forward to one call each.
ByteCall(a, v) == [op |-> "byte", a |-> a, v |-> v]
WordCall(a, v) == [op |-> "word", a |-> a, v |-> v]

eeprom_write_dword(p, v) ==
    IF p % 2 = 1
    THEN <<ByteCall(p, v % 256), WordCall(p + 1, (v \div 256) % 65536),
           ByteCall(p + 3, v \div 16777216)>>
    ELSE <<WordCall(p, v % 65536), WordCall(p + 2, v \div 65536)>>

\* Fault variant: the trailing odd byte of a block is not written.
BlockWordsNoTail(dest, data) ==
    [k \in 1 .. Len(data) \div 2 |-> WordCall(dest + 2 * (k - 1), data[2 * k - 1] + 256 * data[2 * k])]

\* The half-word loop of eeprom_write_block and its trailing byte.
BlockWords(dest, data) ==
    [k \in 1 .. Len(data) \div 2 |-> WordCall(dest + 2 * (k - 1), data[2 * k - 1] + 256 * data[2 * k])]
    \o (IF Len(data) % 2 = 1 THEN <<ByteCall(dest + Len(data) - 1, data[Len(data)])>> ELSE <<>>)

eeprom_write_block(dest, data) ==
    IF Len(data) > 0 /\ dest % 2 = 1
    THEN <<ByteCall(dest, data[1])>> \o BlockWords(dest + 1, Tail(data))
    ELSE BlockWords(dest, data)

\* The bytes a request stores, and where.
DwordBytes(v) == [k \in 1 .. 4 |-> (v \div (256 ^ (k - 1))) % 256]

-----------------------------------------------------------------------------
(* Actions.                                                                *)

Start(calls, kind, a, data) ==
    /\ Idle /\ todo = <<>>
    /\ todo' = calls
    /\ req' = [kind |-> kind, addr |-> a, data |-> data, before |-> DataBuf]
    /\ UNCHANGED vars

WriteDword(p, v) == Start(eeprom_write_dword(p, v), "dword", p, DwordBytes(v))

WriteBlock(d, data) == Start(eeprom_write_block(d, data), "block", d, data)

\* The wrapper makes its next call once the previous one has returned.
CallStep ==
    /\ todo # <<>>
    /\ LET c == Head(todo)
       IN  IF c.op = "byte" THEN WriteDataByte(c.a, c.v) ELSE WriteDataWord(c.a, c.v)
    /\ todo' = Tail(todo)
    /\ UNCHANGED req

ApiInit == Init /\ todo = <<>> /\ req = NoReq

ApiNext ==
    \/ Boot /\ UNCHANGED <<todo, req>>
    \/ Erase /\ todo = <<>> /\ todo' = todo /\ req' = NoReq
    \/ FlashOp /\ UNCHANGED <<todo, req>>
    \/ PowerLoss /\ todo' = <<>> /\ req' = NoReq
    \/ \E p \in Addrs, v \in DwordVals : WriteDword(p, v)
    \/ \E d \in Addrs, data \in BlockData : WriteBlock(d, data)
    \/ CallStep

ApiSpec == ApiInit /\ [][ApiNext]_api_vars

-----------------------------------------------------------------------------
(* Properties.                                                             *)

(* Round trip of the wrappers (spec 4.3, 8.1): once a dword or block write *)
(* has made all its calls, with no power loss in between, the RAM image    *)
(* holds the request's bytes at its in-range addresses and its old bytes   *)
(* everywhere else - through the odd first byte, the half-word loop and    *)
(* the trailing byte - and eeprom_read_dword / eeprom_read_block of a      *)
(* request that fits give back exactly what was written.                   *)
WrapperRoundTrip ==
    (Idle /\ todo = <<>> /\ req # NoReq) =>
        LET n    == Len(req.data)
            Mine(a) == a >= req.addr /\ a < req.addr + n
        IN  /\ DataBuf = [a \in Bytes |-> IF Mine(a) THEN req.data[a - req.addr + 1]
                                           ELSE req.before[a]]
            /\ req.addr + n <= FEE_DENSITY_BYTES =>
                 IF req.kind = "dword"
                 THEN eeprom_read_dword(DataBuf, req.addr) = req.data
                 ELSE eeprom_read_block(DataBuf, req.addr, n) = req.data
=============================================================================
