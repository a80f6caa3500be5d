-------------------------- MODULE MachineIntegers ---------------------------
(***************************************************************************)
(* Go's conversion of an int to an int32, which keeps the low 32 bits.     *)
(***************************************************************************)
EXTENDS Integers

CONSTANT Int32Limit   \* 2^31 in the program; smaller in an instance

ASSUME Int32LimitAssumption == Int32Limit \in Nat \ {0}

(* int32(n)                                                                *)
Int32(n) == ((n + Int32Limit) % (2 * Int32Limit)) - Int32Limit
=============================================================================
