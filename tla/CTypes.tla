------------------------------- MODULE CTypes -------------------------------
(***************************************************************************)
(* The integers of C that are too narrow for what the program puts there:  *)
(* a short, and the byte in front of a Pascal string.                      *)
(***************************************************************************)
EXTENDS Integers

CONSTANT ShortMax   \* the greatest short, 0x7fff

ASSUME ShortAssumption == ShortMax \in Nat

(* A number converted to a short. *)
Short(n) ==
  LET half == ShortMax + 1 IN ((n + half) % (2 * half)) - half

(* A number converted to an unsigned byte, of which max is the greatest. *)
Byte(n, max) == n % (max + 1)
=============================================================================
