----------------------------- MODULE ModuloLemmas -----------------------------
(***************************************************************************)
(* Facts about remainders that several proofs need: registers and nonce    *)
(* fields keep only the low bits of what they count.                       *)
(***************************************************************************)
EXTENDS Integers, TLAPS

LEMMA ModuloRange == ASSUME NEW n \in Nat, n > 0, NEW a \in Int PROVE a % n \in 0..(n - 1)
OBVIOUS

LEMMA SmallModulo == ASSUME NEW n \in Nat, NEW a \in Nat, a < n PROVE a % n = a
OBVIOUS

\* Counters closer together than the width of the field differ modulo it.
LEMMA ModuloDistinct ==
    ASSUME NEW n \in Nat \ {0}, NEW a \in Nat, NEW b \in Nat,
           a - b < n, b - a < n, a % n = b % n
    PROVE  a = b
<1> DEFINE p == a \div n
           q == b \div n
<1>1. /\ p \in Int /\ q \in Int
      /\ a = n * p + (a % n) /\ b = n * q + (b % n)
  BY Z3
<1> HIDE DEF p, q
<1>2. n \in Int /\ n > 0 /\ a - b = n * (p - q) /\ b - a = n * (q - p)
  BY <1>1, Z3
<1>3. ~(p - q >= 1) /\ ~(q - p >= 1)
  BY <1>1, <1>2, Z3
<1>4. p = q
  BY <1>1, <1>3
<1>5. QED
  BY <1>1, <1>4
=============================================================================
