---------------------------- MODULE EEPROMStore ----------------------------
(***************************************************************************)
(* What the emulated EEPROM of src/platforms/pico/eeprom.c promises its    *)
(* caller, with no flash in sight (spec sections 3, 4.2, 5, 8):            *)
(*   mem    - the bytes the caller reads (the RAM image while powered);    *)
(*   stable - the bytes a reboot would give back;                          *)
(*   busy   - whether a call's persistence work is still running, and      *)
(*            whether it is a compaction.                                  *)
(* A write changes at most two adjacent bytes of mem.  While its work      *)
(* runs, each step may only move stable bytes to their new value in mem;   *)
(* a compaction may lose anything meanwhile, as the design accepts.  A     *)
(* call is over only when stable = mem again.  A power loss forgets mem;   *)
(* a boot reads stable back.                                               *)
(***************************************************************************)
EXTENDS Naturals

CONSTANT FEE_DENSITY_BYTES

VARIABLES mem, stable, up, busy

store_vars == <<mem, stable, up, busy>>

Bytes == 0 .. FEE_DENSITY_BYTES - 1
Image == [Bytes -> 0 .. 255]
Busy  == {"idle", "write", "compact"}

\* busy may return to "idle" only once everything is durable.
Settles(kinds) == busy' \in kinds \cup (IF stable' = mem' THEN {"idle"} ELSE {})

Init ==
    /\ mem = [a \in Bytes |-> 0]
    /\ stable = mem
    /\ up = FALSE
    /\ busy = "idle"

Boot ==
    /\ ~up
    /\ up' = TRUE
    /\ mem' = stable
    /\ stable' = stable
    /\ Settles({"write"})

\* One byte, or two adjacent bytes, take new values.
Write ==
    /\ up /\ busy = "idle"
    /\ mem' \in Image
    /\ \E a \in Bytes : \A b \in Bytes \ {a, a + 1} : mem'[b] = mem[b]
    /\ stable' = stable
    /\ up' = up
    /\ Settles({"write", "compact"})

EraseAll ==
    /\ up /\ busy = "idle"
    /\ mem' = [a \in Bytes |-> 0]
    /\ stable' = stable
    /\ up' = up
    /\ Settles({"write"})

\* Persistence work of a write: no byte of stable takes a third value.
Persist ==
    /\ up /\ busy = "write"
    /\ stable' \in Image
    /\ \A a \in Bytes : stable'[a] \in {stable[a], mem[a]}
    /\ UNCHANGED <<mem, up>>
    /\ Settles({"write"})

Compacting ==
    /\ up /\ busy = "compact"
    /\ stable' \in Image
    /\ UNCHANGED <<mem, up>>
    /\ Settles({"compact"})

Crash ==
    /\ up
    /\ up' = FALSE
    /\ mem' \in Image
    /\ stable' = stable
    /\ busy' = "idle"

Next == Boot \/ Write \/ EraseAll \/ Persist \/ Compacting \/ Crash

Spec == Init /\ [][Next]_store_vars
=============================================================================
