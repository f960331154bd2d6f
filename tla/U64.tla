-------------------------------- MODULE U64 --------------------------------
(* The u64 of the amounts and credits.  The README and the Dockerfile      *)
(* build with --release, where arithmetic on it wraps.                     *)
EXTENDS Integers

CONSTANT Modulus   \* the number of values of a u64

ASSUME ModulusAssumption == Modulus \in Nat \ {0, 1}

U64Values == 0..(Modulus - 1)
=============================================================================
