------------------------------- MODULE Words -------------------------------
(***************************************************************************)
(* Machine words of the guest, scaled down by AddrMod.                     *)
(***************************************************************************)
EXTENDS Integers

CONSTANT AddrMod  \* values of a word: 2^32 in the code

Word == 0 .. (AddrMod - 1)
Half == AddrMod \div 2      \* RISCV_HALF
Wrap(v) == v % AddrMod      \* uint32_t arithmetic
Signed(v) == IF v < Half THEN v ELSE v - AddrMod
=============================================================================
