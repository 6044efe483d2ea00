------------------------------ MODULE NorFlash ------------------------------
(***************************************************************************)
(* The serial NOR flash behind the HAL entry points flash_program_page and *)
(* flash_erase_range.  The chip is external; what is modelled is what the  *)
(* stub relies on:                                                         *)
(*   - an erase sets every byte of a sector to 0xFF,                       *)
(*   - a page program only clears bits, so a byte that is not erased cannot*)
(*     take a new value,                                                   *)
(*   - the address of a page program wraps inside its 256-byte page.       *)
(*                                                                         *)
(* A unit is 64 bytes, the largest size that divides every length the      *)
(* write paths distinguish.  All addresses and lengths are in units.       *)
(***************************************************************************)
EXTENDS Integers

CONSTANTS FlashUnits,   \* size of the chip
          Data,         \* the contents a unit may be given, other than 0xFF
          Blank,        \* a unit of 0xFF bytes
          Garbled       \* a unit whose bits are a mix of two contents

SmallUnits  == 2        \* XMODEM SOH block, 128 bytes
PageUnits   == 4        \* FLASH_PAGE_SIZE, 256 bytes
LargeUnits  == 16       \* XMODEM STX block, 1024 bytes
SectorUnits == 64       \* FLASH_SECTOR_SIZE, 4096 bytes

ASSUME NorFlashAssumption ==
    /\ FlashUnits \in Nat
    /\ FlashUnits % SectorUnits = 0
    /\ Blank \notin Data
    /\ Garbled \notin Data
    /\ Blank # Garbled

Addrs    == 0 .. FlashUnits - 1
Readable == Data \cup {Blank}
Cell     == Readable \cup {Garbled}
PageSlots == 0 .. PageUnits - 1

(* The result of programming content new over content old. *)
Merge(old, new) ==
    CASE old = Blank          -> new
      [] new \in {Blank, old} -> old
      [] OTHER                -> Garbled

(* flash_program_page(off, data): slot i of the page buffer goes to the    *)
(* i-th unit after addr, counted modulo the chip page that holds addr.     *)
ProgramPage(f, addr, page) ==
    [u \in Addrs |->
        IF u \div PageUnits = addr \div PageUnits
        THEN Merge(f[u], page[(u - addr) % PageUnits])
        ELSE f[u]]

(* The sectors flash_erase_range(off, len) erases: it starts at off and    *)
(* advances by one sector until off + len, erasing the sector around each  *)
(* address it visits.                                                      *)
Erased(off, len) ==
    {u \in Addrs : \E k \in 0 .. len :
        /\ SectorUnits * k < len
        /\ u \div SectorUnits = (off + SectorUnits * k) \div SectorUnits}

EraseRange(f, off, len) ==
    [u \in Addrs |-> IF u \in Erased(off, len) THEN Blank ELSE f[u]]
=============================================================================
