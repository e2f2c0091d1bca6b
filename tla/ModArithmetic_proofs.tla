------------------------ MODULE ModArithmetic_proofs ------------------------
(***************************************************************************)
(* Arithmetic modulo n: the circle of sequence numbers of a connection and *)
(* the slots of a ring of queries.                                         *)
(***************************************************************************)
EXTENDS Integers, TLAPS

-----------------------------------------------------------------------------
(* Moving d < n forward on a circle of n numbers wraps at most once.        *)
LEMMA ModShift ==
  ASSUME NEW n \in Nat \ {0}, NEW a \in Nat, NEW d \in 0 .. n - 1
  PROVE  /\ (a + d) % n = IF (a % n) + d < n THEN (a % n) + d ELSE (a % n) + d - n
         /\ a % n \in 0 .. n - 1
<1> DEFINE q == a \div n
           r == a % n
<1>1. q \in Int /\ r \in 0 .. n - 1 /\ a = n * q + r
  BY SMT
<1>2. n * (q + 1) = n * q + n
  BY <1>1, SMT
<1>3. \A p \in Int, s \in 0 .. n - 1 : (n * p + s) % n = s
  BY SMT
<1> HIDE DEF q, r
<1>4. CASE r + d < n
  <2>1. a + d = n * q + (r + d)  BY <1>1, SMT
  <2>2. (n * q + (r + d)) % n = r + d  BY <1>1, <1>3, <1>4
  <2> QED  BY <1>1, <2>1, <2>2, <1>4 DEF r
<1>5. CASE r + d >= n
  <2>1. a + d = n * (q + 1) + (r + d - n)  BY <1>1, <1>2, SMT
  <2>2. q + 1 \in Int /\ r + d - n \in 0 .. n - 1  BY <1>1, <1>5
  <2>3. (n * (q + 1) + (r + d - n)) % n = r + d - n  BY <2>2, <1>3
  <2> QED  BY <1>1, <2>1, <2>3, <1>5 DEF r
<1> QED  BY <1>1, <1>4, <1>5

(* The successor on the circle is the successor of the count.               *)
LEMMA ModSucc ==
  ASSUME NEW n \in Nat \ {0}, n > 1, NEW a \in Nat
  PROVE  ((a % n) + 1) % n = (a + 1) % n
<1>1. 1 \in 0 .. n - 1
  OBVIOUS
<1>2. /\ (a + 1) % n = IF (a % n) + 1 < n THEN (a % n) + 1 ELSE (a % n) + 1 - n
      /\ a % n \in 0 .. n - 1
  BY <1>1, ModShift
<1>3. (\A s \in 0 .. n - 1 : s % n = s) /\ n % n = 0
  BY SMT
<1> QED  BY <1>2, <1>3

(* Counts less than a turn apart are equal when their numbers are.          *)
LEMMA ModUnique ==
  ASSUME NEW n \in Nat \ {0}, NEW a \in Nat, NEW b \in Nat,
         a % n = b % n, a - b < n, b - a < n
  PROVE  a = b
<1>1. ASSUME NEW x \in Nat, NEW y \in Nat, x <= y, y - x < n, x % n = y % n
      PROVE  x = y
  <2>1. y = x + (y - x) /\ y - x \in 0 .. n - 1
    BY <1>1
  <2>2. /\ (x + (y - x)) % n = IF (x % n) + (y - x) < n
                               THEN (x % n) + (y - x) ELSE (x % n) + (y - x) - n
        /\ x % n \in 0 .. n - 1
    BY <2>1, ModShift
  <2> QED  BY <1>1, <2>1, <2>2
<1>2. CASE a <= b  BY <1>1, <1>2
<1>3. CASE b <= a  BY <1>1, <1>3
<1> QED  BY <1>2, <1>3

=============================================================================
