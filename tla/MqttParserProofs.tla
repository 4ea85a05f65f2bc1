-------------------------- MODULE MqttParserProofs --------------------------
(***************************************************************************)
(* MqttParser proved for every topic buffer, every packet a broker may     *)
(* send, every number of packets and connections and every way to cut the  *)
(* stream: types, and the five promises of the parser.  The invariant is   *)
(* InStep: the bytes the peer sent, in full, are the packets it sent one   *)
(* after another (Wire); the parser has read some of them in full and a    *)
(* part of the next, and its place is the one that part leads to           *)
(* (Progress); what it told is what is owed for them (Debt).               *)
(***************************************************************************)
EXTENDS MqttParser, TLAPS, SequenceTheorems, NaturalsInduction, WellFoundedInduction

---------------------------------------------------------------------------
(* The remaining length, encoded and decoded (AsyncMqttClient/Helpers.hpp).
   The loops are recursive functions over numbers; what holds of all their
   values is shown by induction, a set of numbers at a time. *)

\* Division by Base, as encodeRemainingLength does it: quotient, digit and what
\* they come from.
LEMMA Quotient ==
  ASSUME NEW n \in Nat
  PROVE  /\ n \div Base \in Nat /\ n % Base \in 0..Base - 1
         /\ n = Base * (n \div Base) + (n % Base)
BY MqttParserAssumption

\* Each division makes the rest a factor of Base smaller.
LEMMA Smaller ==
  ASSUME NEW n \in Nat, NEW c \in Nat, n < Base * c
  PROVE  n \div Base < c
BY MqttParserAssumption, Quotient

\* The remaining length as encodeRemainingLength finds it, digit by digit.
LEMMA Divided ==
  ASSUME NEW n \in Nat
  PROVE  LET rest[i \in 0..4] == IF i = 0 THEN n ELSE rest[i - 1] \div Base
         IN  rest[0] = n /\ \A i \in 1..4 : rest[i] = rest[i - 1] \div Base
<1> DEFINE a == n \div Base
           b == a \div Base
           c == b \div Base
           is(f) == f = [i \in 0..4 |-> IF i = 0 THEN n ELSE f[i - 1] \div Base]
           g == [i \in 0..4 |-> IF i = 0 THEN n ELSE IF i = 1 THEN a ELSE IF i = 2 THEN b
                                ELSE IF i = 3 THEN c ELSE c \div Base]
           rest == CHOOSE f : is(f)
<1>1. is(g)
  <2> HIDE DEF a, b, c
  <2>1. ASSUME NEW i \in 0..4
        PROVE  g[i] = IF i = 0 THEN n ELSE g[i - 1] \div Base
    <3>1. i = 0 \/ i = 1 \/ i = 2 \/ i = 3 \/ i = 4
      OBVIOUS
    <3>2. g[0] = n /\ g[1] = a /\ g[2] = b /\ g[3] = c /\ g[4] = c \div Base
      OBVIOUS
    <3> QED
      BY <3>1, <3>2 DEF a, b, c
  <2>2. g = [i \in 0..4 |-> g[i]]
    OBVIOUS
  <2> HIDE DEF g
  <2> QED
    BY <2>1, <2>2
<1>2. is(rest)
  BY <1>1, Zenon
<1>3. rest[0] = n /\ \A i \in 1..4 : rest[i] = rest[i - 1] \div Base
  <2> HIDE DEF rest
  <2> QED
    BY <1>2
<1> QED
  BY <1>3

\* encodeRemainingLength as a sequence of rests r: each is what Base times the next
\* one and a digit make, and the last one is zero.
LEMMA Digits ==
  ASSUME NEW n \in Nat, n < Base * Base * Base * Base
  PROVE  \E r \in [0..4 -> Nat], l \in 1..4 :
           /\ r[0] = n /\ r[l] = 0
           /\ \A i \in 1..l : r[i - 1] = Base * r[i] + (r[i - 1] % Base)
           /\ \A i \in 1..l - 1 : r[i] > 0
           /\ encodeRemainingLength(n) =
                [i \in 1..l |-> (r[i - 1] % Base) + (IF i < l THEN Base ELSE 0)]
<1> DEFINE rest == CHOOSE rest : rest = [i \in 0..4 |-> IF i = 0 THEN n ELSE rest[i - 1] \div Base]
           ends(k) == rest[k] = 0 /\ \A i \in 1..k - 1 : rest[i] > 0
           needed == CHOOSE k \in 1..4 : ends(k)
<1>1. rest[0] = n /\ \A i \in 1..4 : rest[i] = rest[i - 1] \div Base
  BY Divided
<1>2. encodeRemainingLength(n) =
        [i \in 1..needed |-> (rest[i - 1] % Base) + (IF i < needed THEN Base ELSE 0)]
  BY DEF encodeRemainingLength
<1> HIDE DEF rest
<1>3. /\ rest[1] = rest[0] \div Base /\ rest[2] = rest[1] \div Base
      /\ rest[3] = rest[2] \div Base /\ rest[4] = rest[3] \div Base
  BY <1>1
<1>4. rest[0] \in Nat /\ rest[1] \in Nat /\ rest[2] \in Nat /\ rest[3] \in Nat /\ rest[4] \in Nat
  <2>1. rest[0] \in Nat
    BY <1>1
  <2>2. rest[1] \in Nat
    BY <1>3, <2>1, Quotient
  <2>3. rest[2] \in Nat
    BY <1>3, <2>2, Quotient
  <2>4. rest[3] \in Nat
    BY <1>3, <2>3, Quotient
  <2>5. rest[4] \in Nat
    BY <1>3, <2>4, Quotient
  <2> QED
    BY <2>1, <2>2, <2>3, <2>4, <2>5
<1>5. rest[4] = 0
  <2>1. /\ Base \in Nat /\ Base * Base \in Nat /\ Base * Base * Base \in Nat
        /\ n < Base * (Base * Base * Base)
    BY MqttParserAssumption
  <2>2. rest[1] < Base * (Base * Base)
    BY <1>1, <1>3, <2>1, Smaller
  <2>3. rest[2] < Base * Base
    BY <1>3, <1>4, <2>1, <2>2, Smaller
  <2>4. rest[3] < Base * 1
    BY <1>3, <1>4, <2>1, <2>3, Smaller
  <2>5. rest[4] < 1
    BY <1>3, <1>4, <2>1, <2>4, Smaller
  <2> QED
    BY <2>5, <1>4
<1>6. \E k \in 1..4 : ends(k)
  <2>1. CASE rest[1] = 0
    BY <2>1
  <2>2. CASE rest[1] > 0 /\ rest[2] = 0
    <3>1. 2 \in 1..4 /\ \A i \in 1..2 - 1 : i = 1
      OBVIOUS
    <3> QED BY <2>2, <3>1
  <2>3. CASE rest[1] > 0 /\ rest[2] > 0 /\ rest[3] = 0
    <3>1. 3 \in 1..4 /\ \A i \in 1..3 - 1 : i = 1 \/ i = 2
      OBVIOUS
    <3> QED BY <2>3, <3>1
  <2>4. CASE rest[1] > 0 /\ rest[2] > 0 /\ rest[3] > 0
    <3>1. 4 \in 1..4 /\ \A i \in 1..4 - 1 : i = 1 \/ i = 2 \/ i = 3
      OBVIOUS
    <3> QED BY <2>4, <3>1, <1>5
  <2> QED
    BY <1>4, <2>1, <2>2, <2>3, <2>4
<1>7. needed \in 1..4 /\ ends(needed)
  BY <1>6
<1> HIDE DEF needed
<1> DEFINE r == [i \in 0..4 |-> rest[i]]
<1>8. r \in [0..4 -> Nat] /\ r[0] = n /\ r[needed] = 0 /\ \A i \in 1..needed - 1 : r[i] > 0
  <2>1. \A i \in 0..4 : i = 0 \/ i = 1 \/ i = 2 \/ i = 3 \/ i = 4
    OBVIOUS
  <2>2. \A i \in 0..4 : rest[i] \in Nat
    BY <2>1, <1>4
  <2> QED
    BY <2>2, <1>1, <1>7
<1>9. \A i \in 1..needed : r[i - 1] = Base * r[i] + (r[i - 1] % Base)
  <2> TAKE i \in 1..needed
  <2>1. i - 1 \in 0..4 /\ i \in 1..4
    BY <1>7
  <2>2. r[i - 1] \in Nat /\ r[i] = r[i - 1] \div Base
    BY <2>1, <1>1, <1>8
  <2> QED
    BY <2>2, Quotient
<1>10. encodeRemainingLength(n) =
         [i \in 1..needed |-> (r[i - 1] % Base) + (IF i < needed THEN Base ELSE 0)]
  <2>1. \A i \in 1..needed : r[i - 1] = rest[i - 1]
    BY <1>7
  <2> HIDE DEF r
  <2> QED
    BY <1>2, <2>1
<1> HIDE DEF r
<1> QED
  BY <1>7, <1>8, <1>9, <1>10

\* A set that contains 0 and, with every number, the next one contains them all.
LEMMA NatSetInduction ==
  ASSUME NEW S, 0 \in S, \A n \in Nat : n \in S => n + 1 \in S
  PROVE  Nat \subseteq S
<1> DEFINE R == OpToRel(<, Nat)
           T == Nat \ S
<1>1. R = {ss \in Nat \X Nat : ss[1] < ss[2]}
  BY DEF OpToRel
<1>2. IsWellFoundedOn(R, Nat)
  BY NatLessThanWellFounded, Zenon
<1> HIDE DEF R
<1>3. SUFFICES ASSUME T # {} PROVE FALSE
  OBVIOUS
<1> HIDE DEF T
<1>4. PICK x \in T : \A y \in T : ~ (<<y, x>> \in R)
  BY <1>2, <1>3, WFMin DEF T
<1>5. x \in Nat /\ x # 0 /\ x - 1 \in Nat /\ x - 1 \in T
  BY <1>4 DEF T
<1>6. <<x - 1, x>> \in R
  BY <1>1, <1>5
<1> QED
  BY <1>4, <1>5, <1>6

\* The function f has value b at 0 and goes on by steps.
Follows(f, n, S, b, step) ==
  f \in [0..n -> S] /\ f[0] = b /\ \A i \in 1..n : f[i] = step[i][f[i - 1]]

\* There is a function with a value at 0 and a step from each value to the next;
\* the step is a function too, as the provers know no operators as parameters.
LEMMA Recursion ==
  ASSUME NEW n \in Nat, NEW S, NEW step \in [1..n -> [S -> S]], NEW b \in S
  PROVE  \E f : Follows(f, n, S, b, step)
<1> USE DEF Follows
<1> DEFINE upTo(f, k) == Follows(f, k, S, b, step)
           T == {k \in Nat : k <= n => \E f : upTo(f, k)}
<1>1. 0 \in T
  <2>1. upTo([i \in 0..0 |-> b], 0)
    OBVIOUS
  <2> QED
    BY <2>1
<1>2. ASSUME NEW k \in Nat, k \in T
      PROVE  k + 1 \in T
  <2>1. SUFFICES ASSUME k + 1 <= n PROVE \E f : upTo(f, k + 1)
    OBVIOUS
  <2>2. PICK f : upTo(f, k)
    BY <1>2, <2>1
  <2> DEFINE g == [i \in 0..k + 1 |-> IF i <= k THEN f[i] ELSE step[k + 1][f[k]]]
  <2>3. f[k] \in S /\ step[k + 1] \in [S -> S]
    BY <2>1, <2>2
  <2>4. step[k + 1][f[k]] \in S
    BY <2>3
  <2>5. g \in [0..k + 1 -> S] /\ g[0] = b
    BY <2>2, <2>4
  <2>6. ASSUME NEW i \in 1..k + 1
        PROVE  g[i] = step[i][g[i - 1]]
    <3>1. CASE i \in 1..k
      <4>1. g[i] = f[i] /\ g[i - 1] = f[i - 1]
        BY <3>1
      <4> QED
        BY <2>2, <3>1, <4>1
    <3>2. CASE i = k + 1
      <4>1. g[i] = step[k + 1][f[k]] /\ g[k] = f[k] /\ i - 1 = k
        BY <3>2
      <4> QED
        BY <3>2, <4>1
    <3> QED
      BY <3>1, <3>2
  <2> HIDE DEF g
  <2>7. upTo(g, k + 1)
    BY <2>5, <2>6
  <2> QED
    BY <2>7
<1>3. n \in T
  <2> HIDE DEF T
  <2> QED
    BY <1>1, <1>2, NatSetInduction, Zenon
<1> QED
  BY <1>3

\* Two such functions agree as far as their steps do.
Alike(f, g, n) == f[0] = g[0] /\ \A i \in 1..n : f[i - 1] = g[i - 1] => f[i] = g[i]

\* By induction on the place, functions that are alike are the same.
LEMMA SameSteps ==
  ASSUME NEW n \in Nat, NEW f, NEW g, Alike(f, g, n)
  PROVE  \A i \in 0..n : f[i] = g[i]
<1> USE DEF Alike
<1> DEFINE T == {k \in Nat : k <= n => f[k] = g[k]}
<1>1. 0 \in T
  OBVIOUS
<1>2. ASSUME NEW k \in Nat, k \in T
      PROVE  k + 1 \in T
  <2>1. SUFFICES ASSUME k + 1 <= n PROVE f[k + 1] = g[k + 1]
    OBVIOUS
  <2>2. f[k] = g[k] /\ k + 1 \in 1..n /\ (k + 1) - 1 = k
    BY <1>2, <2>1
  <2> QED
    BY <2>2
<1>3. Nat \subseteq T
  <2> HIDE DEF T
  <2> QED
    BY <1>1, <1>2, NatSetInduction, Zenon
<1> QED
  BY <1>3

\* The loop of decodeRemainingLength: the multiplier m and the value v.
Decoding(bytes, m, v) ==
  /\ m \in [0..Len(bytes) -> Nat \ {0}] /\ v \in [0..Len(bytes) -> Nat]
  /\ m[0] = 1 /\ v[0] = 0
  /\ \A i \in 1..Len(bytes) :
       m[i] = m[i - 1] * Base /\ v[i] = v[i - 1] + (bytes[i] % Base) * m[i - 1]
  /\ decodeRemainingLength(bytes) = v[Len(bytes)]

\* decodeRemainingLength does what its loop does: there are a multiplier and a
\* value for every number of bytes read.
LEMMA Decoded ==
  ASSUME NEW bytes \in Seq(Nat)
  PROVE  \E m, v : Decoding(bytes, m, v)
<1> DEFINE l == Len(bytes)
           d(i) == bytes[i] % Base
           isM(f) == f = [i \in 0..l |-> IF i = 0 THEN 1 ELSE f[i - 1] * Base]
           mult == CHOOSE f : isM(f)
           isV(f) == f = [i \in 0..l |-> IF i = 0 THEN 0 ELSE f[i - 1] + d(i) * mult[i - 1]]
           value == CHOOSE f : isV(f)
           M == [i \in 1..l |-> [x \in Nat \ {0} |-> x * Base]]
           V == [i \in 1..l |-> [x \in Nat |-> x + d(i) * mult[i - 1]]]
<1>1. l \in Nat /\ \A i \in 1..l : d(i) \in Nat
  <2>1. \A i \in 1..l : bytes[i] \in Nat
    OBVIOUS
  <2>2. \A x \in Nat : x % Base \in Nat
    BY Quotient, MqttParserAssumption
  <2> QED
    BY <2>1, <2>2, MqttParserAssumption
<1>2. decodeRemainingLength(bytes) = value[l]
  BY DEF decodeRemainingLength
<1> HIDE DEF l, d
<1>3. /\ mult \in [0..l -> Nat \ {0}]
      /\ mult[0] = 1 /\ \A i \in 1..l : mult[i] = mult[i - 1] * Base
  <2>1. M \in [1..l -> [Nat \ {0} -> Nat \ {0}]]
    <3>1. \A x \in Nat \ {0} : x * Base \in Nat \ {0}
      BY MqttParserAssumption
    <3> QED
      BY <3>1
  <2>2. PICK f \in [0..l -> Nat \ {0}] : f[0] = 1 /\ \A i \in 1..l : f[i] = M[i][f[i - 1]]
    <3> HIDE DEF M
    <3> DEFINE N == Nat \ {0}
    <3>1. l \in Nat /\ 1 \in N /\ M \in [1..l -> [N -> N]]
      BY <1>1, <2>1
    <3> HIDE DEF N
    <3>2. \E f : Follows(f, l, N, 1, M)
      BY <3>1, Recursion
    <3> QED
      BY <3>2 DEF N, Follows
  <2>3. \A i \in 1..l : f[i] = f[i - 1] * Base
    <3> TAKE i \in 1..l
    <3>1. f[i - 1] \in Nat \ {0}
      BY <1>1
    <3> QED
      BY <2>2, <3>1
  <2>4. isM(f)
    BY <1>1, <2>2, <2>3
  <2>5. isM(mult)
    BY <2>4, Zenon
  <2> HIDE DEF mult
  <2>6. mult[0] = 1 /\ \A i \in 1..l : mult[i] = mult[i - 1] * Base
    BY <1>1, <2>5
  <2>7. \A i \in 0..l : mult[i] = f[i]
    <3>1. l \in Nat /\ Alike(mult, f, l)
      BY <1>1, <2>2, <2>3, <2>6 DEF Alike
    <3> QED
      BY <3>1, SameSteps
  <2>8. mult = [i \in 0..l |-> mult[i]]
    BY <2>5
  <2> QED
    BY <2>6, <2>7, <2>8
<1> HIDE DEF mult
<1>4. /\ value \in [0..l -> Nat]
      /\ value[0] = 0 /\ \A i \in 1..l : value[i] = value[i - 1] + d(i) * mult[i - 1]
  <2>0. \A i \in 1..l : mult[i - 1] \in Nat /\ d(i) * mult[i - 1] \in Nat
    <3> TAKE i \in 1..l
    <3>1. mult[i - 1] \in Nat
      <4>1. i - 1 \in 0..l
        BY <1>1
      <4> QED
        BY <1>3, <4>1
    <3>2. \A x, y \in Nat : x * y \in Nat
      OBVIOUS
    <3> QED
      BY <1>1, <3>1, <3>2
  <2>1. V \in [1..l -> [Nat -> Nat]]
    <3>1. \A i \in 1..l : \A x \in Nat : x + d(i) * mult[i - 1] \in Nat
      BY <2>0
    <3> QED
      BY <3>1
  <2>2. PICK f \in [0..l -> Nat] : f[0] = 0 /\ \A i \in 1..l : f[i] = V[i][f[i - 1]]
    <3> HIDE DEF V
    <3>1. l \in Nat /\ 0 \in Nat
      BY <1>1
    <3>2. \E f : Follows(f, l, Nat, 0, V)
      BY <2>1, <3>1, Recursion
    <3> QED
      BY <3>2 DEF Follows
  <2>3. \A i \in 1..l : f[i] = f[i - 1] + d(i) * mult[i - 1]
    <3> TAKE i \in 1..l
    <3>1. f[i - 1] \in Nat
      BY <1>1
    <3> QED
      BY <2>2, <3>1
  <2>4. isV(f)
    BY <1>1, <2>2, <2>3
  <2>5. isV(value)
    BY <2>4, Zenon
  <2> HIDE DEF value
  <2>6. value[0] = 0 /\ \A i \in 1..l : value[i] = value[i - 1] + d(i) * mult[i - 1]
    BY <1>1, <2>5
  <2>7. \A i \in 0..l : value[i] = f[i]
    <3>1. l \in Nat /\ Alike(value, f, l)
      BY <1>1, <2>2, <2>3, <2>6 DEF Alike
    <3> QED
      BY <3>1, SameSteps
  <2>8. value = [i \in 0..l |-> value[i]]
    BY <2>5
  <2> QED
    BY <2>6, <2>7, <2>8
<1> HIDE DEF value
<1> QED
  BY <1>2, <1>3, <1>4, Zenon DEF l, d, Decoding

\* A digit is read again, with and without the bit that says that more follow.
LEMMA Digit ==
  ASSUME NEW x \in 0..Base - 1
  PROVE  x % Base = x /\ (x + Base) % Base = x
<1>1. Base \in Nat /\ Base > 2 /\ x \in Nat /\ x < Base
  BY MqttParserAssumption
<1>2. ASSUME NEW q \in Int, NEW y \in 0..Base - 1, Base * q + y = x
      PROVE  y = x
  <2>1. CASE q >= 1
    <3>1. Base * q = Base + Base * (q - 1) /\ Base * (q - 1) >= 0
      BY <1>1, <2>1
    <3> QED
      BY <1>1, <1>2, <3>1
  <2>2. CASE q <= -1
    <3>1. Base * q = Base * (q + 1) - Base /\ Base * (q + 1) <= 0
      BY <1>1, <2>2
    <3> QED
      BY <1>1, <1>2, <3>1
  <2>3. CASE q = 0
    BY <1>1, <1>2, <2>3
  <2> QED
    BY <2>1, <2>2, <2>3
<1>3. x % Base = x
  <2>1. PICK q \in Nat, y \in 0..Base - 1 : x = Base * q + y /\ y = x % Base
    BY <1>1, Quotient
  <2> QED
    BY <1>2, <2>1
<1>4. (x + Base) % Base = x
  <2>1. PICK q \in Nat, y \in 0..Base - 1 : x + Base = Base * q + y /\ y = (x + Base) % Base
    BY <1>1, Quotient
  <2>2. Base * (q - 1) + y = x
    BY <1>1, <2>1
  <2>3. q - 1 \in Int
    BY <2>1
  <2>4. y = x
    BY <1>2, <2>2, <2>3
  <2> QED
    BY <2>1, <2>4
<1> QED
  BY <1>3, <1>4

\* What encodeRemainingLength writes, decodeRemainingLength reads.
LEMMA LengthRead ==
  ASSUME NEW n \in Nat, n < Base * Base * Base * Base,
         NEW bytes \in Seq(Nat), bytes = encodeRemainingLength(n)
  PROVE  decodeRemainingLength(bytes) = n
<1>1. PICK r \in [0..4 -> Nat], l \in 1..4 :
           /\ r[0] = n /\ r[l] = 0
           /\ \A i \in 1..l : r[i - 1] = Base * r[i] + (r[i - 1] % Base)
           /\ \A i \in 1..l - 1 : r[i] > 0
           /\ encodeRemainingLength(n) =
                [i \in 1..l |-> (r[i - 1] % Base) + (IF i < l THEN Base ELSE 0)]
  BY Digits
<1>2. Len(bytes) = l /\ \A i \in 1..l : bytes[i] = (r[i - 1] % Base) + (IF i < l THEN Base ELSE 0)
  BY <1>1
<1>9. \A i \in 1..l : r[i - 1] \in Nat /\ r[i] \in Nat
  <2>1. \A i \in 1..l : i - 1 \in 0..4 /\ i \in 0..4
    OBVIOUS
  <2> QED
    BY <2>1
<1>3. \A i \in 1..l : bytes[i] % Base = r[i - 1] % Base
  <2> TAKE i \in 1..l
  <2>1. r[i - 1] \in Nat
    BY <1>9
  <2>2. PICK x \in 0..Base - 1 : x = r[i - 1] % Base
    BY <2>1, Quotient
  <2>3. x % Base = x /\ (x + Base) % Base = x
    BY <2>2, Digit
  <2>4. bytes[i] = x + (IF i < l THEN Base ELSE 0)
    BY <1>2, <2>2, Zenon
  <2>5. x + 0 = x
    BY <2>2, MqttParserAssumption
  <2>6. bytes[i] \in {x + Base, x}
    BY <2>4, <2>5, Zenon
  <2> QED
    BY <2>2, <2>3, <2>6, Zenon
<1>0. PICK m, v : Decoding(bytes, m, v)
  BY Decoded
<1>4. /\ m[0] = 1 /\ v[0] = 0
      /\ \A i \in 1..Len(bytes) :
           m[i] = m[i - 1] * Base /\ v[i] = v[i - 1] + (bytes[i] % Base) * m[i - 1]
      /\ decodeRemainingLength(bytes) = v[Len(bytes)]
  BY <1>0 DEF Decoding
<1> DEFINE holds(i) == m[i] \in Nat /\ v[i] \in Nat /\ n = v[i] + r[i] * m[i]
<1>5. holds(0)
  BY <1>1, <1>4
<1>6. ASSUME NEW i \in 1..l, holds(i - 1)
      PROVE  holds(i)
  <2>1. PICK x \in 0..Base - 1 : x = r[i - 1] % Base
    <3>1. r[i - 1] \in Nat
      BY <1>9
    <3> QED
      BY <3>1, Quotient
  <2>2. /\ r[i - 1] = Base * r[i] + x /\ r[i] \in Nat
        /\ m[i] = m[i - 1] * Base /\ v[i] = v[i - 1] + x * m[i - 1]
    <3>1. i \in 1..Len(bytes)
      BY <1>2
    <3>2. m[i] = m[i - 1] * Base /\ v[i] = v[i - 1] + (bytes[i] % Base) * m[i - 1]
      BY <1>4, <3>1
    <3>3. bytes[i] % Base = x
      BY <1>3, <2>1
    <3>4. r[i - 1] = Base * r[i] + (r[i - 1] % Base) /\ r[i] \in Nat
      BY <1>1, <1>9, Zenon
    <3> QED
      BY <2>1, <3>2, <3>3, <3>4
  <2>3. m[i - 1] \in Nat /\ v[i - 1] \in Nat /\ n = v[i - 1] + r[i - 1] * m[i - 1]
    BY <1>6
  <2>4. ASSUME NEW a \in Nat, NEW b \in Nat, NEW c \in Nat
        PROVE  /\ a * Base \in Nat /\ b + x * a \in Nat
               /\ b + (Base * c + x) * a = (b + x * a) + c * (a * Base)
    <3>1. Base \in Nat /\ x \in Nat
      BY <2>1, MqttParserAssumption
    <3>2. a * Base \in Nat /\ x * a \in Nat
      BY <3>1
    <3>3. (Base * c + x) * a = c * (a * Base) + x * a
      BY <3>1
    <3>4. (Base * c + x) * a \in Nat /\ c * (a * Base) \in Nat
      <4>1. \A y, z \in Nat : y * z \in Nat
        OBVIOUS
      <4>2. Base * c + x \in Nat
        <5>1. Base * c \in Nat
          BY <3>1, <4>1, Zenon
        <5>2. \A y, z \in Nat : y + z \in Nat
          OBVIOUS
        <5> QED
          BY <3>1, <5>1, <5>2, Zenon
      <4> QED
        BY <3>2, <4>1, <4>2, Zenon
    <3>5. ASSUME NEW w \in Nat, NEW z \in Nat
          PROVE  b + (w + z) = (b + z) + w /\ b + z \in Nat
      OBVIOUS
    <3>6. /\ b + (c * (a * Base) + x * a) = (b + x * a) + c * (a * Base)
          /\ b + x * a \in Nat
      BY <3>2, <3>4, <3>5, Zenon
    <3> QED
      BY <3>2, <3>3, <3>6, Zenon
  <2>5. /\ m[i - 1] * Base \in Nat /\ v[i - 1] + x * m[i - 1] \in Nat
        /\ v[i - 1] + (Base * r[i] + x) * m[i - 1] =
              (v[i - 1] + x * m[i - 1]) + r[i] * (m[i - 1] * Base)
    <3>1. m[i - 1] \in Nat /\ v[i - 1] \in Nat /\ r[i] \in Nat
      BY <2>2, <2>3
    <3> QED
      BY <2>4, <3>1, Zenon
  <2> QED
    <3>1. n = v[i - 1] + (Base * r[i] + x) * m[i - 1]
      BY <2>2, <2>3, Zenon
    <3>2. n = v[i] + r[i] * m[i]
      BY <2>2, <2>5, <3>1, Zenon
    <3> QED
      BY <2>2, <2>5, <3>2, Zenon
<1>7. holds(l)
  <2>1. holds(1)
    <3>1. 1 \in 1..l /\ 1 - 1 = 0
      OBVIOUS
    <3> HIDE DEF holds
    <3> QED
      BY <1>5, <1>6, <3>1
  <2>2. l >= 2 => holds(2)
    <3>1. l >= 2 => 2 \in 1..l /\ 2 - 1 = 1
      OBVIOUS
    <3> HIDE DEF holds
    <3> QED
      BY <2>1, <1>6, <3>1
  <2>3. l >= 3 => holds(3)
    <3>1. l >= 3 => 3 \in 1..l /\ 3 - 1 = 2 /\ l >= 2
      OBVIOUS
    <3> HIDE DEF holds
    <3> QED
      BY <2>2, <1>6, <3>1
  <2>4. l >= 4 => holds(4)
    <3>1. l >= 4 => 4 \in 1..l /\ 4 - 1 = 3 /\ l >= 3
      OBVIOUS
    <3> HIDE DEF holds
    <3> QED
      BY <2>3, <1>6, <3>1
  <2> HIDE DEF holds
  <2> QED
    BY <2>1, <2>2, <2>3, <2>4
<1>8. n = v[l]
  <2>1. r[l] = 0 /\ m[l] \in Nat /\ v[l] \in Nat /\ n = v[l] + r[l] * m[l]
    BY <1>1, <1>7
  <2> QED
    BY <2>1
<1> QED
  BY <1>2, <1>4, <1>8

\* A length of which the last byte is not zero is not zero, whatever bytes came before.
LEMMA LengthNotZero ==
  ASSUME NEW bytes \in Seq(Nat), Len(bytes) # 0, bytes[Len(bytes)] \in 1..Base - 1
  PROVE  decodeRemainingLength(bytes) > 0
<1>1. PICK m, v : Decoding(bytes, m, v)
  BY Decoded
<1> DEFINE l == Len(bytes)
<1>2. l \in 1..l /\ l - 1 \in 0..l
  OBVIOUS
<1>3. bytes[l] % Base = bytes[l] /\ bytes[l] \in Nat \ {0}
  BY Digit, MqttParserAssumption
<1>4. v[l] = v[l - 1] + bytes[l] * m[l - 1] /\ v[l - 1] \in Nat /\ m[l - 1] \in Nat \ {0}
  BY <1>1, <1>2, <1>3 DEF Decoding
<1>5. ASSUME NEW x \in Nat \ {0}, NEW y \in Nat \ {0} PROVE x * y \in Nat \ {0}
  OBVIOUS
<1> HIDE DEF l
<1>6. bytes[l] * m[l - 1] \in Nat \ {0}
  BY <1>3, <1>4, <1>5
<1> QED
  BY <1>1, <1>4, <1>6 DEF l, Decoding

\* Whatever bytes stand in _remainingLengthBuffer, the length is a number.
LEMMA LengthIsNat ==
  ASSUME NEW bytes \in Seq(Nat)
  PROVE  decodeRemainingLength(bytes) \in Nat
<1>1. PICK m, v : Decoding(bytes, m, v)
  BY Decoded
<1>2. Len(bytes) \in 0..Len(bytes)
  OBVIOUS
<1> QED
  BY <1>1, <1>2 DEF Decoding

---------------------------------------------------------------------------
(* A packet as bytes.                                                      *)

\* What a broker may send.
Sendable == [type : {"CONNACK"}, code : ReturnCodes] \cup Replies

\* The packets whose first field is an identifier.
Shorts == {"SUBACK", "UNSUBACK", "PUBREL", "PUBACK", "PUBREC", "PUBCOMP"}

\* The parts of a packet: remaining length, variable header, payload.
Lengths(p) == encodeRemainingLength(Len(Body(p)))

\* The flags of a first byte.
Quality(p) == IF p.type = "PUBLISH" THEN p.qos ELSE 0
Words(p)   == IF p.qos = 0 THEN 0 ELSE 2

\* The bytes parseVariableHeader reads.
HeaderLength(p) == IF p.type = "PUBLISH" THEN 2 + Len(p.topic) + Words(p) ELSE 2

\* A packet is of one of these kinds.
LEMMA Kinds ==
  ASSUME NEW p \in Sendable
  PROVE  /\ Len(Body(p)) < Base * Base * Base * Base
         /\ \/ p.type = "CONNACK" /\ p.code \in Nat
            \/ p.type = "PINGRESP"
            \/ p.type \in Shorts /\ p.id \in Nat
            \/ /\ p.type = "PUBLISH" /\ p.qos \in 0..2 /\ p.id \in Nat
               /\ p.topic \in Seq(Nat) /\ Len(p.topic) \in Nat \ {0} /\ p.payload \in Seq(Nat)
<1>1. CASE p \in [type : {"CONNACK"}, code : ReturnCodes]
  <2>1. p.type = "CONNACK" /\ p.code \in Nat
    BY <1>1, MqttParserAssumption
  <2>2. Len(Body(p)) = 2
    BY <2>1 DEF Body
  <2>3. 2 < Base * Base * Base * Base
    <3>1. Base \in Nat /\ Base > 2
      BY MqttParserAssumption
    <3>2. ASSUME NEW x \in Nat, x > 2 PROVE x * Base \in Nat /\ x * Base > 2
      <4>1. x * Base = x + x * (Base - 1) /\ x * (Base - 1) >= 0
        BY <3>1, <3>2
      <4> QED
        BY <3>1, <3>2, <4>1
    <3>3. Base * Base \in Nat /\ Base * Base > 2
      BY <3>1, <3>2
    <3>4. Base * Base * Base \in Nat /\ Base * Base * Base > 2
      BY <3>3, <3>2
    <3> QED
      BY <3>4, <3>2
  <2> QED
    BY <2>1, <2>2, <2>3
<1>2. CASE p \in Replies
  <2>1. 0..4 * Base * Base - 1 \subseteq Nat
    OBVIOUS
  <2> QED
    BY <1>2, <2>1, RepliesAssumption DEF Shorts
<1> QED
  BY <1>1, <1>2 DEF Sendable

\* The two bytes of a word.
LEMMA WordRead ==
  ASSUME NEW n \in Nat
  PROVE  /\ WordBytes(n) \in Seq(Nat) /\ Len(WordBytes(n)) = 2
         /\ WordBytes(n)[1] \in Nat /\ WordBytes(n)[2] \in Nat
         /\ Word(WordBytes(n)[1], WordBytes(n)[2]) = n
<1>1. 2 * Base \in Nat /\ 2 * Base > 0
  BY MqttParserAssumption
<1>2. ASSUME NEW b \in Nat, b > 0
      PROVE  n \div b \in Nat /\ n % b \in Nat /\ b * (n \div b) + (n % b) = n
  BY <1>2
<1>3. /\ n \div (2 * Base) \in Nat /\ n % (2 * Base) \in Nat
      /\ 2 * Base * (n \div (2 * Base)) + (n % (2 * Base)) = n
  BY <1>1, <1>2
<1> QED
  BY <1>3 DEF WordBytes, Word

\* Concatenation, place by place.
Join(a, b, c) ==
  /\ Len(c) = Len(a) + Len(b) /\ Len(a) \in Nat /\ Len(b) \in Nat
  /\ \A x \in 1..Len(a) : c[x] = a[x]
  /\ \A x \in 1..Len(b) : c[Len(a) + x] = b[x]

\* A concatenation has the places of both sequences.
LEMMA Joined ==
  ASSUME NEW S, NEW a \in Seq(S), NEW b \in Seq(S)
  PROVE  a \o b \in Seq(S) /\ Join(a, b, a \o b)
BY DEF Join

\* The header and the payload of a message.
LEMMA MessageBody ==
  ASSUME NEW p \in Sendable, p.type = "PUBLISH"
  PROVE  LET b == Body(p)
             n == Len(p.topic)
             h == HeaderLength(p)
         IN  /\ b \in Seq(Nat) /\ n \in Nat \ {0} /\ h \in {n + 2, n + 4}
             /\ Len(b) = h + Len(p.payload)
             /\ Word(b[1], b[2]) = n
             /\ \A i \in 1..n : b[i + 2] = p.topic[i]
             /\ h = n + 4 <=> p.qos # 0
             /\ p.qos # 0 => Word(b[n + 3], b[n + 4]) = p.id
             /\ \A i \in 1..Len(p.payload) : b[h + i] = p.payload[i]
<1> DEFINE n == Len(p.topic)
           w == WordBytes(n)
           i == IF p.qos = 0 THEN <<>> ELSE WordBytes(p.id)
           a == w \o p.topic
           c == a \o i
           b == c \o p.payload
<1>1. /\ p.qos \in 0..2 /\ p.id \in Nat
      /\ p.topic \in Seq(Nat) /\ n \in Nat \ {0} /\ p.payload \in Seq(Nat)
  BY Kinds DEF Shorts
<1>2. Body(p) = b
  BY DEF Body
<1> HIDE DEF n
<1>3. /\ w \in Seq(Nat) /\ Len(w) = 2 /\ Word(w[1], w[2]) = n
  BY <1>1, WordRead
<1>4. /\ i \in Seq(Nat) /\ Len(i) = Words(p)
      /\ p.qos # 0 => Len(i) = 2 /\ Word(i[1], i[2]) = p.id
  <2>1. CASE p.qos = 0
    BY <2>1 DEF Words
  <2>2. CASE p.qos # 0
    BY <1>1, <2>2, WordRead DEF Words
  <2> QED
    BY <2>1, <2>2
<1> HIDE DEF w, i
<1>5. /\ a \in Seq(Nat) /\ Len(a) = 2 + n /\ a[1] = w[1] /\ a[2] = w[2]
      /\ \A x \in 1..n : a[2 + x] = p.topic[x]
  <2>1. a \in Seq(Nat) /\ Join(w, p.topic, a)
    BY <1>1, <1>3, Joined
  <2> HIDE DEF a
  <2> QED
    BY <1>3, <2>1 DEF n, Join
<1> HIDE DEF a
<1>7. HeaderLength(p) \in {n + 2, n + 4} /\ (HeaderLength(p) = n + 4 <=> p.qos # 0)
      /\ HeaderLength(p) = 2 + n + Words(p)
  <2>1. HeaderLength(p) = 2 + n + (IF p.qos = 0 THEN 0 ELSE 2) /\ n \in Nat
    BY <1>1 DEF HeaderLength, Words, n
  <2> QED
    BY <2>1 DEF Words
<1>6. /\ c \in Seq(Nat) /\ Len(c) = HeaderLength(p)
      /\ \A x \in 1..n + 2 : c[x] = a[x]
      /\ \A x \in 1..Len(i) : c[n + 2 + x] = i[x]
  <2>1. c \in Seq(Nat) /\ Join(a, i, c)
    BY <1>4, <1>5, Joined
  <2>2. Len(a) = n + 2
    BY <1>1, <1>5
  <2> HIDE DEF c
  <2> QED
    BY <1>1, <1>4, <1>5, <1>7, <2>1, <2>2 DEF Join
<1> HIDE DEF c
<1>8. /\ b \in Seq(Nat) /\ Len(b) = HeaderLength(p) + Len(p.payload)
      /\ \A x \in 1..HeaderLength(p) : b[x] = c[x]
      /\ \A x \in 1..Len(p.payload) : b[HeaderLength(p) + x] = p.payload[x]
  <2>1. b \in Seq(Nat) /\ Join(c, p.payload, b)
    BY <1>1, <1>6, Joined
  <2> HIDE DEF b
  <2> QED
    BY <1>6, <2>1 DEF Join
<1> HIDE DEF b
<1>11. \A x \in 1..n + 2 : b[x] = a[x]
  <2>1. \A x \in 1..n + 2 : x \in 1..HeaderLength(p)
    BY <1>1, <1>7
  <2> QED
    BY <1>6, <1>8, <2>1
<1>9. b[1] = w[1] /\ b[2] = w[2] /\ \A x \in 1..n : b[x + 2] = p.topic[x]
  <2>1. 1 \in 1..n + 2 /\ 2 \in 1..n + 2
    BY <1>1
  <2>2. \A x \in 1..n : x + 2 \in 1..n + 2 /\ x + 2 = 2 + x
    BY <1>1
  <2> QED
    BY <1>5, <1>11, <2>1, <2>2
<1>10. p.qos # 0 => b[n + 3] = i[1] /\ b[n + 4] = i[2]
  <2> SUFFICES ASSUME p.qos # 0 PROVE b[n + 3] = i[1] /\ b[n + 4] = i[2]
    OBVIOUS
  <2>1. c[n + 2 + 1] = i[1] /\ c[n + 2 + 2] = i[2]
    BY <1>4, <1>6
  <2>2. n + 3 \in 1..HeaderLength(p) /\ n + 4 \in 1..HeaderLength(p)
    BY <1>1, <1>7
  <2> QED
    BY <1>1, <1>8, <2>1, <2>2, SMTT(30)
<1> QED
  BY <1>1, <1>2, <1>3, <1>4, <1>7, <1>8, <1>9, <1>10 DEF n

\* The bodies of the other packets.
LEMMA ShortBody ==
  ASSUME NEW p \in Sendable, p.type # "PUBLISH"
  PROVE  /\ Body(p) \in Seq(Nat)
         /\ p.type = "PINGRESP" => Len(Body(p)) = 0
         /\ p.type = "CONNACK" => Len(Body(p)) = 2 /\ Body(p)[2] = p.code
         /\ p.type \in Shorts =>
              /\ Len(Body(p)) = IF p.type = "SUBACK" THEN 3 ELSE 2
              /\ Word(Body(p)[1], Body(p)[2]) = p.id
<1>1. CASE p.type = "CONNACK"
  <2>1. p.code \in Nat
    BY <1>1, Kinds DEF Shorts
  <2>2. Body(p) = <<0, p.code>>
    BY <1>1 DEF Body
  <2> QED
    BY <1>1, <2>1, <2>2 DEF Shorts
<1>2. CASE p.type = "PINGRESP"
  BY <1>2 DEF Body, Shorts
<1>3. CASE p.type \in Shorts
  <2>1. /\ p.id \in Nat /\ WordBytes(p.id) \in Seq(Nat) /\ Len(WordBytes(p.id)) = 2
        /\ Word(WordBytes(p.id)[1], WordBytes(p.id)[2]) = p.id
    BY <1>3, Kinds, WordRead DEF Shorts
  <2>2. Body(p) = IF p.type = "SUBACK" THEN WordBytes(p.id) \o <<0>> ELSE WordBytes(p.id)
    BY <1>3 DEF Body, Shorts
  <2>3. <<0>> \in Seq(Nat) /\ Len(<<0>>) = 1
    OBVIOUS
  <2> DEFINE w == WordBytes(p.id)
             s == w \o <<0>>
  <2> HIDE DEF w
  <2>4. w \in Seq(Nat) => s \in Seq(Nat)
    BY <2>3
  <2>5. w \in Seq(Nat) /\ Len(w) = 2 => Len(s) = 3 /\ s[1] = w[1] /\ s[2] = w[2]
    <3>1. w \in Seq(Nat) => Join(w, <<0>>, s)
      BY <2>3, Joined
    <3> HIDE DEF s
    <3> QED
      BY <2>3, <3>1 DEF Join
  <2> QED
    BY <1>3, <2>1, <2>2, <2>4, <2>5 DEF w, Shorts
<1> QED
  BY <1>1, <1>2, <1>3, Kinds

\* The remaining length of a packet: at most four bytes, all but the last one
\* with the bit that says that more follow.
LEMMA LengthBytes ==
  ASSUME NEW p \in Sendable
  PROVE  LET s == Lengths(p)
         IN  /\ s \in Seq(Nat) /\ Len(s) \in 1..4
             /\ \A i \in 1..Len(s) - 1 : s[i] >= Base
             /\ s[Len(s)] \in 0..Base - 1
             /\ decodeRemainingLength(s) = Len(Body(p))
             /\ p.type = "CONNACK" => Len(s) = 1 /\ s[1] = 2
<1> DEFINE n == Len(Body(p))
           s == Lengths(p)
<1>1. n \in Nat /\ n < Base * Base * Base * Base
  <2>1. Body(p) \in Seq(Nat)
    BY MessageBody, ShortBody
  <2> QED
    BY <2>1, Kinds
<1>2. s = encodeRemainingLength(n)
  BY DEF Lengths
<1> HIDE DEF n, s
<1>3. PICK r \in [0..4 -> Nat], l \in 1..4 :
           /\ r[0] = n /\ r[l] = 0
           /\ \A i \in 1..l : r[i - 1] = Base * r[i] + (r[i - 1] % Base)
           /\ \A i \in 1..l - 1 : r[i] > 0
           /\ encodeRemainingLength(n) =
                [i \in 1..l |-> (r[i - 1] % Base) + (IF i < l THEN Base ELSE 0)]
  BY <1>1, Digits
<1>4. \A i \in 1..l : r[i - 1] % Base \in 0..Base - 1
  <2> TAKE i \in 1..l
  <2>1. r[i - 1] \in Nat
    OBVIOUS
  <2> QED
    BY <2>1, Quotient
<1>5. /\ s = [i \in 1..l |-> (r[i - 1] % Base) + (IF i < l THEN Base ELSE 0)]
      /\ \A i \in 1..l : s[i] = (r[i - 1] % Base) + (IF i < l THEN Base ELSE 0)
  BY <1>2, <1>3
<1>6. \A i \in 1..l : s[i] \in Nat /\ (i < l => s[i] >= Base) /\ (i = l => s[i] \in 0..Base - 1)
  <2> TAKE i \in 1..l
  <2>1. PICK x \in 0..Base - 1 : x = r[i - 1] % Base
    BY <1>4
  <2>2. s[i] = x + (IF i < l THEN Base ELSE 0)
    BY <1>5, <2>1
  <2> QED
    BY <2>2, MqttParserAssumption
<1>7. s \in Seq(Nat) /\ Len(s) = l
  <2>1. s \in [1..l -> Nat]
    BY <1>5, <1>6
  <2> QED
    BY <2>1
<1>8. decodeRemainingLength(s) = n
  BY <1>1, <1>2, <1>7, LengthRead
<1>9. ASSUME p.type = "CONNACK"
      PROVE  l = 1 /\ s[1] = 2
  <2>1. n = 2
    BY <1>9, ShortBody DEF n
  <2>2. 2 \in 0..Base - 1 /\ Base \in Nat /\ Base > 2
    BY MqttParserAssumption
  <2>3. 2 % Base = 2
    BY <2>2, Digit
  <2>4. 1 \in 1..l /\ 1 - 1 = 0 /\ r[1] \in Nat
    OBVIOUS
  <2>5. 2 = Base * r[1] + 2
    BY <1>3, <2>1, <2>3, <2>4
  <2>6. r[1] = 0
    <3> SUFFICES ASSUME r[1] > 0 PROVE FALSE
      BY <2>4
    <3>1. Base * r[1] = Base + Base * (r[1] - 1) /\ Base * (r[1] - 1) >= 0
      BY <2>2, <2>4
    <3> QED
      BY <2>2, <2>4, <2>5, <3>1
  <2>7. l = 1
    BY <1>3, <2>6
  <2> QED
    BY <1>3, <1>5, <2>1, <2>3, <2>4, <2>7
<1> QED
  BY <1>6, <1>7, <1>8, <1>9 DEF n, s

\* The places of the body's bytes.
Offset(p) == 1 + Len(Lengths(p))
Size(p)   == Len(Bytes(p))

\* A packet is its first byte, its length and its body.
LEMMA BytesAre ==
  ASSUME NEW p \in Sendable
  PROVE  /\ Bytes(p) \in Seq(Byte) /\ Body(p) \in Seq(Nat)
         /\ Size(p) = Offset(p) + Len(Body(p)) /\ Offset(p) \in 2..5
         /\ Bytes(p)[1] = First(p.type, Quality(p))
         /\ \A i \in 1..Len(Lengths(p)) : Bytes(p)[1 + i] = Number(Lengths(p)[i])
         /\ \A i \in 1..Len(Body(p)) : Bytes(p)[Offset(p) + i] = Number(Body(p)[i])
<1> DEFINE s == Lengths(p)
           b == Body(p)
           numbers == s \o b
           d == [i \in DOMAIN numbers |-> Number(numbers[i])]
           first == <<First(p.type, Quality(p))>>
<1>1. s \in Seq(Nat) /\ Len(s) \in 1..4
  BY LengthBytes
<1>2. b \in Seq(Nat)
  BY MessageBody, ShortBody
<1>3. Bytes(p) = first \o d
  BY DEF Bytes, Lengths, Quality
<1> HIDE DEF s, b
<1>4. numbers \in Seq(Nat) /\ Join(s, b, numbers)
  BY <1>1, <1>2, Joined
<1> HIDE DEF numbers
<1>5. d \in Seq(Byte) /\ Len(d) = Len(numbers) /\ \A i \in 1..Len(numbers) : d[i] = Number(numbers[i])
  <2>1. \A n \in Nat : Number(n) \in Byte
    BY DEF Number, Byte
  <2>2. d \in [1..Len(numbers) -> Byte]
    BY <1>4, <2>1
  <2> QED
    BY <1>4, <2>2
<1>6. first \in Seq(Byte) /\ Len(first) = 1
  <2>1. First(p.type, Quality(p)) \in Byte
    BY Kinds DEF First, Byte, Quality, KnownTypes, Shorts
  <2> QED
    BY <2>1
<1> HIDE DEF d
<1>7. first \o d \in Seq(Byte) /\ Join(first, d, first \o d)
  BY <1>5, <1>6, Joined
<1> DEFINE e == Bytes(p)
<1> HIDE DEF e
<1>8. /\ e \in Seq(Byte) /\ Len(e) = 1 + Len(d) /\ e[1] = First(p.type, Quality(p))
      /\ \A i \in 1..Len(d) : e[1 + i] = d[i]
  <2>1. first[1] = First(p.type, Quality(p))
    OBVIOUS
  <2> HIDE DEF first
  <2>2. e \in Seq(Byte) /\ Join(first, d, e)
    BY <1>3, <1>7 DEF e
  <2> QED
    BY <1>6, <2>1, <2>2 DEF Join
<1>9. /\ Len(d) = Len(s) + Len(b)
      /\ \A i \in 1..Len(s) : d[i] = Number(s[i]) /\ i \in 1..Len(d)
      /\ \A i \in 1..Len(b) : d[Len(s) + i] = Number(b[i]) /\ Len(s) + i \in 1..Len(d)
  <2>1. /\ Len(numbers) = Len(s) + Len(b) /\ Len(s) \in Nat /\ Len(b) \in Nat
        /\ \A i \in 1..Len(s) : numbers[i] = s[i]
        /\ \A i \in 1..Len(b) : numbers[Len(s) + i] = b[i]
    BY <1>4, Zenon DEF Join
  <2>2. /\ \A i \in 1..Len(s) : i \in 1..Len(s) + Len(b)
        /\ \A i \in 1..Len(b) : Len(s) + i \in 1..Len(s) + Len(b)
    BY <2>1
  <2>3. Len(d) = Len(s) + Len(b) /\ \A i \in 1..Len(s) + Len(b) : d[i] = Number(numbers[i])
    BY <1>5, <2>1, Zenon
  <2> QED
    BY <2>1, <2>2, <2>3, Zenon
<1>10. /\ \A i \in 1..Len(s) : e[1 + i] = Number(s[i])
       /\ \A i \in 1..Len(b) : e[(1 + Len(s)) + i] = Number(b[i])
  <2>1. \A i \in 1..Len(s) : e[1 + i] = Number(s[i])
    BY <1>8, <1>9
  <2>2. ASSUME NEW i \in 1..Len(b) PROVE e[(1 + Len(s)) + i] = Number(b[i])
    <3>1. (1 + Len(s)) + i = 1 + (Len(s) + i)
      BY <1>1, <1>2
    <3> QED
      BY <1>8, <1>9, <3>1
  <2> QED
    BY <2>1, <2>2
<1>11. Offset(p) \in 2..5 /\ Size(p) = Offset(p) + Len(b)
  <2>1. Len(s) \in 1..4 /\ Len(b) \in Nat
    BY <1>1, <1>2
  <2>6. Len(e) = 1 + (Len(s) + Len(b))
    BY <1>8, <1>9
  <2>8. \A x \in 1..4 : \A y \in Nat : 1 + (x + y) = (1 + x) + y /\ 1 + x \in 2..5
    OBVIOUS
  <2>7. 1 + (Len(s) + Len(b)) = (1 + Len(s)) + Len(b) /\ 1 + Len(s) \in 2..5
    BY <2>1, <2>8, Zenon
  <2>2. Len(e) = (1 + Len(s)) + Len(b)
    BY <2>6, <2>7, Zenon
  <2>4. Offset(p) = 1 + Len(s)
    BY DEF Offset, s
  <2>5. Size(p) = Len(e)
    BY DEF Size, e
  <2> QED
    BY <2>2, <2>4, <2>5, <2>7, Zenon
<1>12. \A i \in 1..Len(b) : e[Offset(p) + i] = Number(b[i])
  BY <1>10 DEF Offset, s
<1> QED
  BY <1>2, <1>8, <1>10, <1>11, <1>12 DEF s, b, e

---------------------------------------------------------------------------
(* Types.                                                                  *)

\* A new packet, and one whose fields were read further.
LEMMA NewTyped ==
  ASSUME NEW b \in Byte, b.type \in KnownTypes
  PROVE  NewPacket(b) \in Packet
BY DEF Byte, NewPacket, Packet

\* A packet stays one when a field is given a number.
LEMMA FieldTyped ==
  ASSUME NEW p \in Packet, NEW j \in Nat, NEW x \in Nat
  PROVE  /\ [p EXCEPT !.position = j] \in Packet
         /\ [p EXCEPT !.position = j, !.msb = x] \in Packet
         /\ [p EXCEPT !.id = x] \in Packet
BY DEF Packet

\* Words are numbers.
LEMMA WordTyped ==
  ASSUME NEW p \in Packet, NEW b \in Byte
  PROVE  Word(p.msb, b.value) \in Nat
<1>1. p.msb \in Nat /\ b.value \in Nat
  BY DEF Packet, Byte
<1>2. Base \in Nat
  BY MqttParserAssumption
<1>3. \A x, y \in Nat : x * y \in Nat
  OBVIOUS
<1>4. 2 * Base \in Nat
  BY <1>2
<1>5. 2 * Base * p.msb \in Nat
  BY <1>1, <1>3, <1>4
<1> QED
  BY <1>1, <1>5 DEF Word

\* The null pointer is no packet.
LEMMA NoneIsNoPacket == None \notin Packet
BY DEF None, Packet, KnownTypes

\* The type invariant holds at first.
LEMMA TypeInit == Init => TypeOK
<1>1. <<>> \in Seq(Byte) /\ <<>> \in Seq(Nat)
  OBVIOUS
<1>2. [i \in 1..MaxTopicLength |-> 0] \in [1..MaxTopicLength -> Nat]
  OBVIOUS
<1>3. Init => topicBuffer \in [1..MaxTopicLength -> Nat]
  BY <1>2, Zenon DEF Init
<1>4. Init => stream \in Seq(Byte) /\ segment \in Seq(Byte) /\ lengthBuffer \in Seq(Nat)
  BY SMT DEF Init
<1>5. Init => remainingLength \in Nat /\ packet \in Packet \cup {None}
  <2>1. Init => remainingLength = 0 /\ packet = None
    BY Zenon DEF Init
  <2> QED
    BY <2>1
<1>7. Init => tcp \in BOOLEAN
  BY Zenon DEF Init
<1>6. Init => state = "DISCONNECTED" /\ bufferState = "NONE"
  BY Zenon DEF Init
<1> HIDE DEF Init
<1> QED
  BY <1>3, <1>4, <1>5, <1>6, <1>7 DEF TypeOK

\* The next byte of a running _onData.
LEMMA CurrentTyped ==
  ASSUME TypeOK, segment # <<>>
  PROVE  /\ Current \in Byte /\ Current = segment[1] /\ Len(segment) \in Nat \ {0}
         /\ \A n \in Nat : SubSeq(segment, n + 1, Len(segment)) \in Seq(Byte)
<1>1. segment \in Seq(Byte)
  BY DEF TypeOK
<1>2. Len(segment) \in Nat \ {0} /\ segment[1] \in Byte /\ Head(segment) = segment[1]
  BY <1>1
<1>3. \A n \in Nat : SubSeq(segment, n + 1, Len(segment)) \in Seq(Byte)
  <2> TAKE n \in Nat
  <2>1. \A i \in n + 1..Len(segment) : segment[i] \in Byte
    BY <1>1
  <2> QED
    BY <1>1, <2>1, SubSeqProperties
<1> QED
  BY <1>2, <1>3 DEF Current

\* uint32_t has room for a length.
LEMMA RangePositive == LengthRange \in Nat /\ LengthRange > 0
<1>1. Base \in Nat /\ Base > 0
  BY MqttParserAssumption
<1>2. \A x, y \in Nat : x > 0 /\ y > 0 => x * y \in Nat /\ x * y > 0
  OBVIOUS
<1>3. Base * Base \in Nat /\ Base * Base > 0
  BY <1>1, <1>2
<1>4. Base * Base * Base \in Nat /\ Base * Base * Base > 0
  BY <1>1, <1>2, <1>3
<1>5. Base * Base * Base * Base \in Nat /\ Base * Base * Base * Base > 0
  BY <1>1, <1>2, <1>4
<1> QED
  BY <1>5, MqttParserAssumption

\* _preparePayloadHandling leaves a packet of the type, or none.
LEMMA PreparedTyped ==
  ASSUME NEW p \in Packet, TypeOK, preparePayload(p)
  PROVE  packet' \in Packet \cup {None} /\ bufferState' \in {"NONE", "PAYLOAD"}
<1>1. payloadLength(p) \in Nat
  <2>1. remainingLength + LengthRange - (p.position + 1) \in Int
    BY RangePositive DEF TypeOK, Packet
  <2>2. \A x \in Int : x % LengthRange \in Nat
    BY RangePositive
  <2> QED
    BY <2>1, <2>2 DEF payloadLength
<1>2. [p EXCEPT !.payloadLength = payloadLength(p)] \in Packet
  BY <1>1 DEF Packet
<1> QED
  BY <1>2 DEF preparePayload, After

\* The type invariant after an iteration of the loop, in the parts it may change.
LEMMA TypedTurn ==
  ASSUME TypeOK, segment # <<>>,
         \/ FirstByte \/ ProtocolViolation \/ RemainingLength \/ ConnAck \/ IdentifierOnly
         \/ SubAck \/ SubAckStatus \/ Publish \/ Payload
  PROVE  TypeOK'
<1>1. /\ Current \in Byte /\ Current.value \in Nat
      /\ \A n \in Nat : SubSeq(segment, n + 1, Len(segment)) \in Seq(Byte)
  BY CurrentTyped DEF Byte
<1>2. ASSUME Read(1) PROVE segment' \in Seq(Byte)
  BY <1>1, <1>2 DEF Read
<1>3. \A q : q \in Packet => [q EXCEPT !.position = @ + 1, !.msb = Current.value] \in Packet
  <2> TAKE q
  <2>1. SUFFICES ASSUME q \in Packet
                 PROVE  [q EXCEPT !.position = @ + 1, !.msb = Current.value] \in Packet
    OBVIOUS
  <2>2. q.position + 1 \in Nat
    BY <2>1 DEF Packet
  <2> QED
    BY <1>1, <2>1, <2>2, FieldTyped
<1>4. CASE FirstByte
  <2>1. packet' \in Packet
    BY <1>1, <1>4, NewTyped DEF FirstByte
  <2> QED
    BY <1>2, <1>4, <2>1 DEF FirstByte, TypeOK
<1>5. CASE ProtocolViolation
  <2>1. <<>> \in Seq(Byte)
    OBVIOUS
  <2> QED
    BY <1>2, <1>5, <2>1 DEF ProtocolViolation, TypeOK, clear
<1>6. CASE RemainingLength
  <2> DEFINE bytes == Append(lengthBuffer, Current.value)
  <2>1. bytes \in Seq(Nat)
    BY <1>1 DEF TypeOK
  <2>2. decodeRemainingLength(bytes) \in Nat
    BY <2>1, LengthIsNat
  <2>3. lengthReset(bytes) \in Seq(Nat)
    BY DEF lengthReset
  <2>4. lengthBuffer' \in Seq(Nat) /\ remainingLength' \in Nat
    BY <1>6, <2>1, <2>2, <2>3 DEF RemainingLength, TypeOK
  <2>5. /\ bufferState' \in {bufferState, "VARIABLE_HEADER", "NONE"}
        /\ packet' \in {packet, None}
    BY <1>6 DEF RemainingLength
  <2> QED
    BY <1>2, <1>6, <2>4, <2>5 DEF RemainingLength, TypeOK
<1>7. CASE ConnAck
  <2>1. packet \in Packet
    BY <1>7 DEF ConnAck, Reading, TypeOK, None
  <2>2. packet' \in Packet \cup {None}
    BY <1>3, <1>7, <2>1 DEF ConnAck, NextField
  <2> QED
    BY <1>2, <1>7, <2>2 DEF ConnAck, TypeOK
<1>8. CASE IdentifierOnly
  <2>1. packet \in Packet
    BY <1>8 DEF IdentifierOnly, Reading, TypeOK, None, IdentifierTypes
  <2>2. packet' \in Packet \cup {None}
    BY <1>3, <1>8, <2>1 DEF IdentifierOnly, NextField
  <2> QED
    BY <1>2, <1>8, <2>2 DEF IdentifierOnly, TypeOK
<1>9. CASE SubAck
  <2>1. packet \in Packet
    BY <1>9 DEF SubAck, Reading, TypeOK, None
  <2>2. LastWord \in Nat
    BY <1>1, <2>1, WordTyped DEF LastWord
  <2>3. [packet EXCEPT !.id = LastWord] \in Packet
    BY <2>1, <2>2, FieldTyped
  <2>4. packet' \in Packet
    BY <1>3, <1>9, <2>1, <2>3 DEF SubAck, NextField
  <2> QED
    BY <1>2, <1>9, <2>4 DEF SubAck, TypeOK
<1>10. CASE SubAckStatus
  BY <1>2, <1>10 DEF SubAckStatus, TypeOK
<1>11. CASE Publish
  <2>1. packet \in Packet
    BY <1>11 DEF Publish, Reading, TypeOK, None
  <2>2. LastWord \in Nat
    BY <1>1, <2>1, WordTyped DEF LastWord
  <2>3. ASSUME TopicLength
        PROVE  packet' \in Packet /\ UNCHANGED <<topicBuffer, bufferState>>
    <3>1. [packet EXCEPT !.position = 2, !.topicLength = LastWord,
                         !.ignore = LastWord > MaxTopicLength] \in Packet
      <4>1. ASSUME NEW x \in Nat, NEW b \in BOOLEAN
            PROVE  [packet EXCEPT !.position = 2, !.topicLength = x, !.ignore = b] \in Packet
        BY <2>1 DEF Packet
      <4>2. (LastWord > MaxTopicLength) \in BOOLEAN
        OBVIOUS
      <4> QED
        BY <2>2, <4>1, <4>2
    <3> QED
      BY <1>3, <2>1, <2>3, <3>1 DEF TopicLength, NextField
  <2>4. ASSUME Topic
        PROVE  /\ packet' \in Packet \cup {None}
               /\ topicBuffer' \in [1..MaxTopicLength -> Nat]
               /\ bufferState' \in {bufferState, "NONE", "PAYLOAD"}
    <3>1. topicBuffer' \in [1..MaxTopicLength -> Nat]
      BY <1>1, <2>4 DEF Topic, TypeOK
    <3>2. packet.position + 1 \in Nat /\ [packet EXCEPT !.position = @ + 1] \in Packet
      BY <2>1 DEF Packet
    <3>3. preparePayload(packet) =>
            packet' \in Packet \cup {None} /\ bufferState' \in {"NONE", "PAYLOAD"}
      BY <2>1, PreparedTyped
    <3> QED
      BY <2>4, <3>1, <3>2, <3>3 DEF Topic
  <2>5. ASSUME PacketId
        PROVE  /\ packet' \in Packet \cup {None} /\ UNCHANGED topicBuffer
               /\ bufferState' \in {bufferState, "NONE", "PAYLOAD"}
    <3>1. [packet EXCEPT !.id = LastWord] \in Packet
      BY <2>1, <2>2, FieldTyped
    <3>3. preparePayload([packet EXCEPT !.id = LastWord]) =>
            packet' \in Packet \cup {None} /\ bufferState' \in {"NONE", "PAYLOAD"}
      BY <3>1, PreparedTyped
    <3> QED
      BY <1>3, <2>1, <2>5, <3>3 DEF PacketId, NextField
  <2>6. /\ packet' \in Packet \cup {None}
        /\ topicBuffer' \in [1..MaxTopicLength -> Nat]
        /\ bufferState' \in {bufferState, "NONE", "PAYLOAD"}
    BY <1>11, <2>3, <2>4, <2>5 DEF Publish, TypeOK
  <2> QED
    BY <1>2, <1>11, <2>6 DEF Publish, TypeOK
<1>12. CASE Payload
  <2> DEFINE n == partSize(packet, Len(segment))
             p == [packet EXCEPT !.payloadRead = packet.payloadRead + n]
  <2>1. /\ packet \in Packet
        /\ packet.payloadRead \in Nat /\ packet.payloadLength \in Nat
        /\ packet.payloadRead <= packet.payloadLength
    BY <1>12 DEF Payload, TypeOK, None, Packet
  <2>2. n \in Nat
    BY <2>1, CurrentTyped DEF partSize
  <2> HIDE DEF n
  <2>3. p \in Packet
    <3>1. PICK x \in Nat : x = packet.payloadRead + n
      BY <2>1, <2>2
    <3>2. [packet EXCEPT !.payloadRead = x] \in Packet
      BY <2>1 DEF Packet
    <3> QED
      BY <3>1, <3>2, Zenon
  <2>4. packet' \in {p, None} /\ bufferState' \in {"NONE", bufferState}
    BY <1>12 DEF Payload, After, n
  <2>5. segment' \in Seq(Byte)
    BY <1>1, <1>12, <2>2 DEF Payload, Read, n
  <2> QED
    BY <1>12, <2>3, <2>4, <2>5 DEF Payload, TypeOK
<1> QED
  BY <1>4, <1>5, <1>6, <1>7, <1>8, <1>9, <1>10, <1>11, <1>12

\* What the peer sends.
LEMMA PeerSendsOne ==
  ASSUME PeerSends
  PROVE  \E p \in Sendable :
           /\ sent' = Append(sent, p) /\ stream' = stream \o Bytes(p)
           /\ Greetings = {} => p.type = "CONNACK"
<1> DEFINE P == IF Greetings = {}
              THEN [type : {"CONNACK"}, code : ReturnCodes]
              ELSE IF \A i \in Greetings : sent[i].code = 0 THEN Replies ELSE {}
<1>1. PICK p \in P : sent' = Append(sent, p) /\ stream' = stream \o Bytes(p)
  BY Zenon DEF PeerSends
<1>2. p \in Sendable /\ (Greetings = {} => p.type = "CONNACK")
  BY DEF Sendable
<1> QED
  BY <1>1, <1>2

\* The type invariant survives every step.
LEMMA TypeNext ==
  ASSUME TypeOK, [Next]_vars
  PROVE  TypeOK'
<1>1. CASE TcpConnects
  BY <1>1 DEF TcpConnects, TypeOK, place
<1>2. CASE TcpDrops
  <2>1. <<>> \in Seq(Byte)
    OBVIOUS
  <2> QED
    BY <1>2, <2>1 DEF TcpDrops, clear, TypeOK
<1>3. CASE PeerSends
  <2>1. stream' \in Seq(Byte)
    <3>1. PICK p \in Sendable : stream' = stream \o Bytes(p)
      BY <1>3, PeerSendsOne
    <3>2. Bytes(p) \in Seq(Byte)
      BY BytesAre
    <3> QED
      BY <3>1, <3>2 DEF TypeOK
  <2>2. UNCHANGED <<tcp, state, segment, place>>
    BY <1>3, Zenon DEF PeerSends
  <2> QED
    BY <2>1, <2>2 DEF TypeOK, place
<1>4. CASE PeerViolates
  <2>1. Number(0) \in Byte
    BY DEF Number, Byte
  <2>2. stream' \in Seq(Byte)
    BY <1>4, <2>1 DEF PeerViolates, TypeOK
  <2> QED
    BY <1>4, <2>2 DEF PeerViolates, TypeOK, place
<1>5. CASE Receive
  <2>1. PICK n \in 1..Len(stream) :
           /\ segment' = SubSeq(stream, 1, n)
           /\ stream' = SubSeq(stream, n + 1, Len(stream))
    BY <1>5 DEF Receive
  <2>2. stream \in Seq(Byte) /\ n \in Nat /\ n <= Len(stream)
    BY DEF TypeOK
  <2>3. SubSeq(stream, 1, n) \in Seq(Byte) /\ SubSeq(stream, n + 1, Len(stream)) \in Seq(Byte)
    <3>1. \A i \in 1..n : stream[i] \in Byte
      BY <2>2
    <3>2. \A i \in n + 1..Len(stream) : stream[i] \in Byte
      BY <2>2
    <3> QED
      BY <2>2, <3>1, <3>2, SubSeqProperties
  <2> QED
    BY <1>5, <2>1, <2>3 DEF Receive, TypeOK, place
<1>6. CASE Turn
  BY <1>6, TypedTurn DEF Turn
<1>7. CASE Crash
  <2>1. <<>> \in Seq(Byte) /\ <<>> \in Seq(Nat) /\ 0 \in Nat
    OBVIOUS
  <2>2. [i \in 1..MaxTopicLength |-> 0] \in [1..MaxTopicLength -> Nat]
    OBVIOUS
  <2>3. topicBuffer' \in [1..MaxTopicLength -> Nat]
    BY <1>7, <2>2, Zenon DEF Crash
  <2>4. stream' \in Seq(Byte) /\ segment' \in Seq(Byte) /\ lengthBuffer' \in Seq(Nat)
    BY <1>7, <2>1, SMT DEF Crash
  <2>5. tcp' \in BOOLEAN
    BY <1>7, Zenon DEF Crash
  <2>6. /\ state' = "DISCONNECTED" /\ bufferState' = "NONE" /\ packet' = None
        /\ remainingLength' = 0
    BY <1>7, Zenon DEF Crash, clear
  <2> QED
    BY <2>3, <2>4, <2>5, <2>6 DEF TypeOK
<1>8. CASE UNCHANGED vars
  BY <1>8 DEF vars, place, peer, TypeOK
<1> QED
  BY <1>1, <1>2, <1>3, <1>4, <1>5, <1>6, <1>7, <1>8 DEF Next

\* The variables have their types always: the place of the parser is one the
\* code knows, and the lengths, identifiers and topic bytes it has read are numbers,
\* whatever the peer sends (AsyncMqttClient.cpp:248-329).
THEOREM TypeCorrect == Spec => []TypeOK
<1> QED
  BY TypeInit, TypeNext, PTL DEF Spec

---------------------------------------------------------------------------
(* The parser in step: k bytes of packet p have been read, j of them of    *)
(* its body.  m packets came before it, and told was told of those.        *)

\* What the callbacks may be told.
Answers ==
  [type : {"CONNACK"}, code : Nat] \cup [type : {"PINGRESP"}] \cup [type : Shorts, id : Nat]
    \cup [type : {"PUBLISH"}, qos : 0..2, id : Nat]
    \cup [type : {"MESSAGE"}, topic : Seq(Nat), payload : Seq(Nat), total : Nat,
          qos : 0..2, id : Nat]

\* What has been told of a message of whose payload n bytes have been read.
Part(p, n) ==
  [type |-> "MESSAGE", topic |-> p.topic, payload |-> SubSeq(p.payload, 1, n),
   total |-> Len(p.payload), qos |-> p.qos, id |-> IF p.qos = 0 THEN 0 ELSE p.id]

\* _onData reads the remaining length; after the first packet of a connection
\* the buffer holds bytes of this length and no others.
InLength(p, m, k, told) ==
  /\ bufferState = "REMAINING_LENGTH" /\ k < Offset(p)
  /\ packet = NewPacket(Bytes(p)[1]) /\ calls = told
  /\ IF m = 0 THEN Len(lengthBuffer) \in 0..3
     ELSE lengthBuffer = SubSeq(Lengths(p), 1, k - 1)

\* The topic as far as it has been read.
TopicRead(p, j) ==
  /\ packet.topicLength = Len(p.topic) /\ packet.ignore = (Len(p.topic) > MaxTopicLength)
  /\ ~packet.ignore => \A i \in 1..Len(p.topic) : i + 2 <= j => topicBuffer[i] = p.topic[i]

\* parseVariableHeader has read j bytes.
InHeader(p, j, told) ==
  /\ bufferState = "VARIABLE_HEADER" /\ lengthBuffer = <<>> /\ calls = told
  /\ p.type # "PINGRESP" /\ j < HeaderLength(p)
  /\ packet.type = p.type /\ packet.position = j
  /\ j = 1 => packet.msb = Body(p)[1]
  /\ p.type = "PUBLISH" =>
       /\ remainingLength = Len(Body(p))
       /\ packet.qos = p.qos /\ packet.id = 0 /\ packet.payloadRead = 0
       /\ j >= 2 => TopicRead(p, j)
       /\ j = Len(p.topic) + 3 => packet.msb = Body(p)[j]

\* SubAckPacket::parsePayload is to read the status.
InStatus(p, j, told) ==
  /\ bufferState = "PAYLOAD" /\ lengthBuffer = <<>> /\ calls = told
  /\ p.type = "SUBACK" /\ j = 2 /\ packet.type = "SUBACK" /\ packet.id = p.id

\* PublishPacket::parsePayload has told of payloadRead bytes.
InPayload(p, j, told) ==
  /\ bufferState = "PAYLOAD" /\ lengthBuffer = <<>>
  /\ p.type = "PUBLISH" /\ packet.type = "PUBLISH"
  /\ packet.qos = p.qos /\ packet.id = IF p.qos = 0 THEN 0 ELSE p.id
  /\ TopicRead(p, j)
  /\ packet.payloadLength = Len(p.payload) /\ packet.payloadRead < Len(p.payload)
  /\ j = HeaderLength(p) + packet.payloadRead
  /\ calls = IF packet.payloadRead = 0 \/ packet.ignore THEN told
             ELSE Append(told, Part(p, packet.payloadRead))

\* The place within packet p.
InPacket(p, m, k, told) ==
  \/ InLength(p, m, k, told)
  \/ \E j \in Nat :
       /\ k = Offset(p) + j
       /\ InHeader(p, j, told) \/ InStatus(p, j, told) \/ InPayload(p, j, told)

\* Between two packets, m of which have been read.
Between(m) ==
  /\ bufferState = "NONE" /\ (packet = None \/ packet.ignore)
  /\ Len(lengthBuffer) \in 0..3 /\ (m # 0 => lengthBuffer = <<>>)

\* The place k bytes into p, which may be its end.
Arrived(p, m, k, told) ==
  IF k = Size(p) THEN Between(m + 1) /\ calls = told \o Expected(p)
  ELSE k < Size(p) /\ InPacket(p, m, k, told)

\* The bytes of the running _onData are the next ones of p.
Ahead(p, k) ==
  /\ segment # <<>>
  /\ \A x \in 1..Len(segment) : k + x <= Size(p) => segment[x] = Bytes(p)[k + x]

---------------------------------------------------------------------------
\* How long the packets are.
LEMMA Sizes ==
  ASSUME NEW p \in Sendable
  PROVE  /\ Offset(p) \in 2..5 /\ Size(p) \in Nat /\ Len(Body(p)) \in Nat
         /\ p.type \in {"CONNACK", "PINGRESP", "PUBLISH"} \cup Shorts
         /\ p.type = "PINGRESP" => Size(p) = Offset(p) /\ Len(Body(p)) = 0
         /\ p.type = "CONNACK" => Size(p) = Offset(p) + 2 /\ Len(Body(p)) = 2
         /\ p.type = "SUBACK" => Size(p) = Offset(p) + 3 /\ Len(Body(p)) = 3
         /\ p.type \in Shorts \ {"SUBACK"} => Size(p) = Offset(p) + 2 /\ Len(Body(p)) = 2
         /\ p.type # "PUBLISH" => HeaderLength(p) = 2
<1>1. Offset(p) \in 2..5 /\ Size(p) = Offset(p) + Len(Body(p)) /\ Body(p) \in Seq(Nat)
  BY BytesAre
<1>2. Len(Body(p)) \in Nat
  BY <1>1
<1>3. Size(p) \in Nat
  BY <1>1, <1>2
<1>4. p.type \in {"CONNACK", "PINGRESP", "PUBLISH"} \cup Shorts
  BY Kinds
<1>5. p.type = "PINGRESP" => Len(Body(p)) = 0 /\ Size(p) = Offset(p)
  <2>1. p.type = "PINGRESP" => Len(Body(p)) = 0
    BY ShortBody
  <2> QED
    BY <1>1, <2>1
<1>6. ASSUME p.type # "PUBLISH", p.type # "PINGRESP"
      PROVE  Len(Body(p)) = IF p.type = "SUBACK" THEN 3 ELSE 2
  BY <1>4, <1>6, ShortBody DEF Shorts
<1>7. p.type # "PUBLISH" => HeaderLength(p) = 2
  BY DEF HeaderLength
<1> QED
  BY <1>1, <1>2, <1>3, <1>4, <1>5, <1>6, <1>7 DEF Shorts

\* The header of a message, and of any packet that has one.
LEMMA MessageSizes ==
  ASSUME NEW p \in Sendable, p.type = "PUBLISH"
  PROVE  /\ Len(p.topic) \in Nat \ {0} /\ Len(p.payload) \in Nat
         /\ HeaderLength(p) = Len(p.topic) + IF p.qos = 0 THEN 2 ELSE 4
         /\ Len(Body(p)) = HeaderLength(p) + Len(p.payload)
         /\ Size(p) = Offset(p) + HeaderLength(p) + Len(p.payload)
<1>1. /\ Len(p.topic) \in Nat \ {0} /\ HeaderLength(p) \in {Len(p.topic) + 2, Len(p.topic) + 4}
      /\ HeaderLength(p) = Len(p.topic) + 4 <=> p.qos # 0
      /\ Len(Body(p)) = HeaderLength(p) + Len(p.payload)
  BY MessageBody
<1>2. p.payload \in Seq(Nat)
  BY Kinds DEF Shorts
<1>3. Len(p.payload) \in Nat
  BY <1>2
<1>4. HeaderLength(p) = Len(p.topic) + IF p.qos = 0 THEN 2 ELSE 4
  BY <1>1
<1>5. Size(p) = Offset(p) + Len(Body(p)) /\ Offset(p) \in 2..5
  BY BytesAre
<1>6. HeaderLength(p) \in Nat
  BY <1>1
<1>7. \A o \in 2..5 : \A h, l \in Nat : o + (h + l) = o + h + l
  OBVIOUS
<1>8. Size(p) = Offset(p) + (HeaderLength(p) + Len(p.payload))
  BY <1>1, <1>5, Zenon
<1>9. Size(p) = Offset(p) + HeaderLength(p) + Len(p.payload)
  BY <1>3, <1>5, <1>6, <1>7, <1>8, Zenon
<1> QED
  BY <1>1, <1>3, <1>4, <1>9, Zenon

\* Every packet but PINGRESP has a header of at least two bytes, within its body.
LEMMA HasHeader ==
  ASSUME NEW p \in Sendable, p.type # "PINGRESP"
  PROVE  HeaderLength(p) \in Nat \ {0, 1} /\ HeaderLength(p) <= Len(Body(p))
<1>1. CASE p.type = "PUBLISH"
  <2>1. ASSUME NEW h \in Nat, NEW l \in Nat PROVE h <= h + l
    OBVIOUS
  <2>2. HeaderLength(p) \in Nat \ {0, 1}
    <3>1. \A n \in Nat \ {0} : n + 2 \in Nat \ {0, 1} /\ n + 4 \in Nat \ {0, 1}
      OBVIOUS
    <3> QED
      BY <1>1, <3>1, MessageBody
  <2> QED
    BY <1>1, <2>1, <2>2, MessageSizes
<1>2. CASE p.type # "PUBLISH"
  <2>1. Len(Body(p)) \in {2, 3}
    BY <1>2, Sizes DEF Shorts
  <2>2. HeaderLength(p) = 2
    BY <1>2, Sizes
  <2> QED
    BY <2>1, <2>2
<1> QED
  BY <1>1, <1>2

\* The next byte is the next one of p.
LEMMA NextIs ==
  ASSUME NEW p \in Sendable, NEW k \in Nat, k < Size(p), Ahead(p, k), TypeOK
  PROVE  Current = Bytes(p)[k + 1]
<1>1. Current = segment[1] /\ 1 \in 1..Len(segment)
  BY CurrentTyped DEF Ahead
<1> QED
  BY <1>1, Sizes DEF Ahead

\* The next byte is one of the body.
LEMMA NextInBody ==
  ASSUME NEW p \in Sendable, NEW j \in Nat, j < Len(Body(p)), Ahead(p, Offset(p) + j), TypeOK
  PROVE  Current.value = Body(p)[j + 1] /\ Body(p)[j + 1] \in Nat
<1>1. /\ Offset(p) \in 2..5 /\ Len(Body(p)) \in Nat /\ Size(p) = Offset(p) + Len(Body(p))
      /\ \A i \in 1..Len(Body(p)) : Bytes(p)[Offset(p) + i] = Number(Body(p)[i])
      /\ Body(p) \in Seq(Nat)
  BY Sizes, BytesAre
<1>2. Offset(p) + j \in Nat /\ Offset(p) + j < Size(p) /\ (Offset(p) + j) + 1 = Offset(p) + (j + 1)
  <2>1. \A o \in 2..5 : \A l \in Nat : j < l =>
          o + j \in Nat /\ o + j < o + l /\ (o + j) + 1 = o + (j + 1)
    OBVIOUS
  <2> QED
    BY <1>1, <2>1, Zenon
<1>3. j + 1 \in 1..Len(Body(p))
  BY <1>1
<1>4. Current = Number(Body(p)[j + 1])
  BY <1>1, <1>2, <1>3, NextIs
<1> QED
  BY <1>1, <1>3, <1>4 DEF Number

---------------------------------------------------------------------------
(* The steps of the parser, one iteration of the loop of _onData each: from a
   place in packet p to the next one. *)

\* The first byte of a packet.
LEMMA StepFirst ==
  ASSUME NEW p \in Sendable, NEW m \in Nat, NEW told, m = 0 => p.type = "CONNACK",
         TypeOK, Between(m), calls = told, Ahead(p, 0), FirstByte \/ ProtocolViolation
  PROVE  Read(1) /\ Arrived(p, m, 1, told)' /\ UNCHANGED <<tcp, stream>>
<1>1. 0 \in Nat /\ 0 < Size(p) /\ 1 < Size(p) /\ Size(p) \in Nat /\ 0 + 1 = 1
  BY Sizes, BytesAre
<1>2. Current = Bytes(p)[1]
  BY <1>1, NextIs
<1>3. Bytes(p)[1].type \in KnownTypes
  <2>1. Bytes(p)[1] = First(p.type, Quality(p))
    BY BytesAre
  <2>2. Bytes(p)[1].type = p.type
    BY <2>1 DEF First
  <2> QED
    BY <2>2, Sizes DEF KnownTypes, Shorts
<1>4. FirstByte
  BY <1>2, <1>3 DEF ProtocolViolation
<1>5. /\ packet' = NewPacket(Bytes(p)[1]) /\ bufferState' = "REMAINING_LENGTH" /\ Read(1)
      /\ UNCHANGED <<calls, lengthBuffer, tcp, stream>>
  BY <1>2, <1>4 DEF FirstByte
<1>6. IF m = 0 THEN Len(lengthBuffer) \in 0..3 ELSE lengthBuffer = SubSeq(Lengths(p), 1, 1 - 1)
  <2>1. SubSeq(Lengths(p), 1, 1 - 1) = <<>>
    BY SubSeqEmpty
  <2> QED
    BY <2>1 DEF Between
<1>7. 1 < Offset(p)
  BY Sizes
<1>8. InLength(p, m, 1, told)'
  BY <1>5, <1>6, <1>7 DEF InLength
<1> QED
  BY <1>1, <1>5, <1>8 DEF Arrived, InPacket

\* The remaining length.
LEMMA StepLength ==
  ASSUME NEW p \in Sendable, NEW m \in Nat, NEW k \in Nat, NEW told,
         m = 0 => p.type = "CONNACK", told \in Seq(Answers),
         k > 0, TypeOK, InLength(p, m, k, told), Ahead(p, k), RemainingLength
  PROVE  Arrived(p, m, k + 1, told)'
<1> DEFINE s == Lengths(p)
           bytes == Append(lengthBuffer, Current.value)
<1>1. /\ s \in Seq(Nat) /\ Len(s) \in 1..4 /\ \A i \in 1..Len(s) - 1 : s[i] >= Base
      /\ s[Len(s)] \in 0..Base - 1 /\ decodeRemainingLength(s) = Len(Body(p))
      /\ p.type = "CONNACK" => Len(s) = 1 /\ s[1] = 2
  BY LengthBytes
<1>2. /\ Offset(p) = 1 + Len(s) /\ Offset(p) \in 2..5 /\ Size(p) = Offset(p) + Len(Body(p))
      /\ Len(Body(p)) \in Nat
      /\ Bytes(p)[1] = First(p.type, Quality(p))
      /\ \A i \in 1..Len(s) : Bytes(p)[1 + i] = Number(s[i])
  BY BytesAre, Sizes DEF Offset
<1>3. k \in 1..Len(s)
  <2>1. k < 1 + Len(s)
    BY <1>2, Zenon DEF InLength
  <2> QED
    BY <1>1, <2>1
<1>4. Current.value = s[k] /\ s[k] \in Nat
  <2>1. k < Size(p) /\ k < Offset(p)
    BY <1>2 DEF InLength
  <2>2. Current = Number(s[k])
    <3>1. Current = Bytes(p)[k + 1] /\ k + 1 = 1 + k
      BY <2>1, NextIs
    <3> QED
      BY <1>2, <1>3, <3>1
  <2> QED
    BY <1>1, <1>3, <2>2 DEF Number
<1> HIDE DEF s
<1>5. /\ Read(1) /\ UNCHANGED <<tcp, state, stream, topicBuffer>>
      /\ bufferState = "REMAINING_LENGTH" /\ packet = NewPacket(Bytes(p)[1]) /\ calls = told
      /\ lengthBuffer \in Seq(Nat)
  BY DEF RemainingLength, InLength, TypeOK
<1>6. CASE k < Len(s)
  <2>1. m # 0 /\ s[k] >= Base /\ Base \in Nat
    <3>1. k \in 1..Len(s) - 1
      BY <1>1, <1>3, <1>6
    <3>2. m # 0
      BY <1>1, <1>3, <1>6
    <3> QED
      BY <1>1, <3>1, <3>2, MqttParserAssumption
  <2>2. lengthBuffer' = bytes /\ UNCHANGED <<remainingLength, bufferState, packet, calls>>
    BY <1>4, <2>1 DEF RemainingLength
  <2>3. lengthBuffer = SubSeq(s, 1, k - 1)
    BY <2>1 DEF InLength, s
  <2>4. bytes = SubSeq(s, 1, (k + 1) - 1)
    BY <1>1, <1>3, <1>4, <2>3
  <2>5. k + 1 < Offset(p)
    BY <1>1, <1>2, <1>3, <1>6
  <2>6. InLength(p, m, k + 1, told)'
    BY <1>5, <2>1, <2>2, <2>4, <2>5 DEF InLength, s
  <2>7. k + 1 < Size(p) /\ Size(p) # k + 1
    BY <1>2, <2>5, Sizes
  <2> QED
    BY <2>6, <2>7 DEF Arrived, InPacket
<1>7. CASE k = Len(s)
  <2>1. s[k] \in 0..Base - 1 /\ Current.value < Base /\ Base \in Nat
    BY <1>1, <1>4, <1>7, MqttParserAssumption
  <2> DEFINE length == decodeRemainingLength(bytes)
  <2>2. /\ lengthBuffer' = <<>> /\ remainingLength' = length
        /\ IF length > 0 THEN bufferState' = "VARIABLE_HEADER" /\ UNCHANGED <<packet, calls>>
           ELSE /\ bufferState' = "NONE" /\ packet' = None
                /\ Call([type |-> "PINGRESP"])
    <3>1. ~ (Current.value >= Base)
      BY <1>4, <2>1
    <3> QED
      BY <3>1 DEF RemainingLength, lengthReset
  <2>3. /\ m = 0 => length > 0
        /\ m # 0 => length = Len(Body(p))
    <3>1. ASSUME m = 0 PROVE length > 0
      <4>1. s[k] = 2 /\ 2 \in 1..Base - 1
        BY <1>1, <1>7, <3>1, MqttParserAssumption
      <4>2. bytes \in Seq(Nat) /\ Len(bytes) # 0 /\ bytes[Len(bytes)] = s[k]
        BY <1>4, <1>5
      <4> QED
        BY <4>1, <4>2, LengthNotZero
    <3>2. ASSUME m # 0 PROVE length = Len(Body(p))
      <4>1. lengthBuffer = SubSeq(s, 1, k - 1)
        BY <3>2 DEF InLength, s
      <4>2. bytes = s
        BY <1>1, <1>3, <1>4, <1>7, <4>1
      <4> QED
        BY <1>1, <4>2
    <3> QED
      BY <3>1, <3>2
  <2>4. Offset(p) = k + 1
    BY <1>1, <1>2, <1>7
  <2> HIDE DEF length
  <2>5. CASE p.type = "PINGRESP"
    <3>1. m # 0 /\ Size(p) = k + 1 /\ length = 0
      BY <2>3, <2>4, <2>5, Sizes
    <3>2. calls' = Append(calls, [type |-> "PINGRESP"])
      BY <2>2, <3>1 DEF Call, Joining
    <3>3. calls' = told \o Expected(p)
      <4>1. Expected(p) = <<[type |-> "PINGRESP"]>>
        BY <2>5 DEF Expected
      <4>2. told \o <<[type |-> "PINGRESP"]>> = Append(told, [type |-> "PINGRESP"])
        OBVIOUS
      <4> QED
        BY <1>5, <3>2, <4>1, <4>2
    <3>4. Between(m + 1)'
      BY <2>2, <3>1 DEF Between
    <3> QED
      BY <3>1, <3>3, <3>4 DEF Arrived
  <2>6. CASE p.type # "PINGRESP"
    <3>1. HeaderLength(p) > 0 /\ Len(Body(p)) > 0
      BY <1>2, <2>6, HasHeader
    <3>2. length > 0
      BY <2>3, <3>1
    <3>3. /\ packet' = NewPacket(First(p.type, Quality(p)))
          /\ bufferState' = "VARIABLE_HEADER" /\ calls' = told
      BY <1>2, <1>5, <2>2, <3>2
    <3>4. /\ packet'.type = p.type /\ packet'.position = 0 /\ packet'.id = 0
          /\ packet'.payloadRead = 0 /\ packet'.qos = Quality(p)
      BY <3>3 DEF NewPacket, First
    <3>5. p.type = "PUBLISH" => packet'.qos = p.qos /\ remainingLength' = Len(Body(p))
      BY <2>2, <2>3, <3>4 DEF Quality
    <3>6. p.type = "PUBLISH" => 0 # Len(p.topic) + 3
      <4>1. p.type = "PUBLISH" => Len(p.topic) \in Nat
        BY MessageBody
      <4> QED
        BY <4>1
    <3>7. InHeader(p, 0, told)'
      <4>1. ~ (0 >= 2) /\ 0 # 1 /\ 0 < HeaderLength(p)
        BY <3>1
      <4> QED
        BY <2>2, <2>6, <3>3, <3>4, <3>5, <3>6, <4>1, Zenon DEF InHeader
    <3>8. Size(p) > Offset(p) /\ Offset(p) = Offset(p) + 0
      BY <1>2, <3>1
    <3>9. Arrived(p, m, Offset(p), told)'
      BY <1>2, <3>7, <3>8 DEF Arrived, InPacket
    <3> QED
      BY <2>4, <3>9
  <2> QED
    BY <2>5, <2>6
<1> QED
  BY <1>1, <1>3, <1>6, <1>7

\* A call that tells all there is to tell of p.
LEMMA Told ==
  ASSUME NEW p, NEW c, NEW told \in Seq(Answers), c.type # "MESSAGE", Expected(p) = <<c>>,
         calls = told, Call(c)
  PROVE  calls' = told \o Expected(p)
<1>1. calls' = Append(told, c)
  BY DEF Call, Joining
<1>2. told \o <<c>> = Append(told, c)
  OBVIOUS
<1> QED
  BY <1>1, <1>2

\* A packet read to its end.
LEMMA PacketEnds ==
  ASSUME NEW p \in Sendable, NEW m \in Nat, NEW told,
         bufferState' = "NONE", packet' = None \/ packet'.ignore, lengthBuffer' = <<>>,
         calls' = told \o Expected(p)
  PROVE  Arrived(p, m, Size(p), told)'
BY DEF Arrived, Between

\* The packets whose header holds two bytes.
LEMMA StepShort ==
  ASSUME NEW p \in Sendable, NEW m \in Nat, NEW j \in Nat, NEW told \in Seq(Answers),
         p.type # "PUBLISH", TypeOK, InHeader(p, j, told), Ahead(p, Offset(p) + j),
         ConnAck \/ IdentifierOnly \/ SubAck
  PROVE  Arrived(p, m, Offset(p) + (j + 1), told)'
<1>1. /\ bufferState = "VARIABLE_HEADER" /\ packet.type = p.type /\ packet.position = j
      /\ lengthBuffer = <<>> /\ calls = told /\ p.type # "PINGRESP"
  BY DEF InHeader
<1>2. j \in {0, 1}
  <2>1. HeaderLength(p) = 2
    BY Sizes
  <2> QED
    BY <2>1 DEF InHeader
<1>3. packet \in Packet
  BY <1>1, Sizes DEF TypeOK, None, Shorts
<1>4. j < Len(Body(p))
  <2>1. HeaderLength(p) <= Len(Body(p)) /\ HeaderLength(p) = 2 /\ Len(Body(p)) \in Nat
    BY <1>1, HasHeader, Sizes
  <2> QED
    BY <1>2, <2>1
<1>5. Current.value = Body(p)[j + 1]
  BY <1>4, NextInBody
<1>6. lengthBuffer' = <<>>
  BY <1>1 DEF ConnAck, IdentifierOnly, SubAck
<1>7. CASE j = 0
  <2>1. NextField /\ UNCHANGED <<bufferState, calls>>
    BY <1>1, <1>7 DEF ConnAck, IdentifierOnly, SubAck
  <2>2. /\ packet' = [packet EXCEPT !.position = 1, !.msb = Body(p)[1]]
    <3>1. packet.position + 1 = 1 /\ Current.value = Body(p)[1]
      BY <1>1, <1>5, <1>7
    <3> QED
      BY <2>1, <3>1 DEF NextField
  <2>3. packet'.type = p.type /\ packet'.position = 1 /\ packet'.msb = Body(p)[1]
    BY <1>1, <1>3, <2>2 DEF Packet
  <2>4. InHeader(p, 1, told)'
    <3>1. HeaderLength(p) = 2 /\ 1 < 2
      BY Sizes
    <3>2. bufferState' = "VARIABLE_HEADER" /\ calls' = told
      BY <1>1, <2>1
    <3> QED
      BY <1>1, <1>6, <2>3, <3>1, <3>2 DEF InHeader
  <2>5. Offset(p) + 1 < Size(p) /\ Offset(p) + 1 # Size(p)
    <3>1. Len(Body(p)) \in {2, 3}
      BY <1>1, Sizes DEF Shorts
    <3>2. Size(p) = Offset(p) + Len(Body(p)) /\ Offset(p) \in 2..5
      BY BytesAre
    <3>3. \A o \in 2..5 : \A l \in {2, 3} : o + 1 < o + l /\ o + 1 # o + l
      OBVIOUS
    <3> QED
      BY <3>1, <3>2, <3>3, Zenon
  <2>6. Arrived(p, m, Offset(p) + 1, told)'
    BY <2>4, <2>5 DEF Arrived, InPacket
  <2> QED
    BY <1>7, <2>6
<1>8. CASE j = 1
  <2>1. packet.msb = Body(p)[1] /\ Current.value = Body(p)[2]
    <3>1. j + 1 = 2
      BY <1>8
    <3> QED
      BY <1>5, <1>8, <3>1 DEF InHeader
  <2>2. packet.position # 0
    BY <1>1, <1>8
  <2>3. CASE p.type = "CONNACK"
    <3>1. Body(p)[2] = p.code /\ Size(p) = Offset(p) + 2
      BY <2>3, ShortBody, Sizes
    <3>2. /\ Call([type |-> "CONNACK", code |-> p.code]) /\ bufferState' = "NONE"
          /\ packet' = None
      BY <1>1, <2>1, <2>2, <2>3, <3>1 DEF ConnAck, IdentifierOnly, SubAck, Reading, IdentifierTypes
    <3>3. Expected(p) = <<[type |-> "CONNACK", code |-> p.code]>>
      BY <2>3 DEF Expected
    <3>4. calls' = told \o Expected(p)
      BY <1>1, <3>2, <3>3, Told
    <3>5. Arrived(p, m, Size(p), told)'
      BY <1>6, <3>2, <3>4, PacketEnds
    <3> QED
      BY <1>8, <3>1, <3>5
  <2>4. CASE p.type \in Shorts
    <3>1. LastWord = p.id
      <4>1. Word(Body(p)[1], Body(p)[2]) = p.id
        BY <2>4, ShortBody DEF Shorts
      <4> QED
        BY <2>1, <4>1 DEF LastWord
    <3>2. CASE p.type = "SUBACK"
      <4>1. /\ packet' = [packet EXCEPT !.id = p.id] /\ bufferState' = "PAYLOAD"
            /\ calls' = told
        BY <1>1, <2>2, <3>1, <3>2 DEF ConnAck, IdentifierOnly, SubAck, Reading, IdentifierTypes
      <4>2. packet'.type = "SUBACK" /\ packet'.id = p.id
        BY <1>1, <1>3, <3>2, <4>1 DEF Packet
      <4>3. InStatus(p, 2, told)'
        BY <1>6, <3>2, <4>1, <4>2 DEF InStatus
      <4>4. Offset(p) + 2 < Size(p) /\ Offset(p) + 2 # Size(p)
        <5>1. Size(p) = Offset(p) + 3 /\ Offset(p) \in 2..5
          BY <3>2, Sizes
        <5> QED
          BY <5>1
      <4>5. Arrived(p, m, Offset(p) + 2, told)'
        BY <4>3, <4>4 DEF Arrived, InPacket
      <4> QED
        BY <1>8, <4>5
    <3>3. CASE p.type # "SUBACK"
      <4>1. p.type \in IdentifierTypes
        BY <2>4, <3>3 DEF Shorts, IdentifierTypes
      <4>2. /\ Call([type |-> p.type, id |-> p.id]) /\ bufferState' = "NONE"
            /\ packet' = None
        BY <1>1, <2>2, <3>1, <4>1 DEF ConnAck, IdentifierOnly, SubAck, Reading, IdentifierTypes
      <4>3. Expected(p) = <<[type |-> p.type, id |-> p.id]>> /\ p.type # "MESSAGE"
        BY <4>1 DEF Expected, IdentifierTypes
      <4>4. calls' = told \o Expected(p)
        BY <1>1, <4>2, <4>3, Told
      <4>5. Arrived(p, m, Size(p), told)'
        BY <1>6, <4>2, <4>4, PacketEnds
      <4>6. Size(p) = Offset(p) + 2
        BY <2>4, <3>3, Sizes
      <4> QED
        BY <1>8, <4>5, <4>6
    <3> QED
      BY <3>2, <3>3
  <2> QED
    BY <1>1, <2>3, <2>4, Sizes
<1> QED
  BY <1>2, <1>7, <1>8

\* The status of a SUBACK.
LEMMA StepStatus ==
  ASSUME NEW p \in Sendable, NEW m \in Nat, NEW told \in Seq(Answers), NEW j \in Nat,
         InStatus(p, j, told), SubAckStatus
  PROVE  Arrived(p, m, Offset(p) + (j + 1), told)'
<1>1. /\ p.type = "SUBACK" /\ j = 2 /\ packet.id = p.id /\ calls = told /\ lengthBuffer = <<>>
  BY DEF InStatus
<1>2. /\ Call([type |-> "SUBACK", id |-> p.id]) /\ bufferState' = "NONE" /\ packet' = None
      /\ lengthBuffer' = <<>>
  BY <1>1 DEF SubAckStatus
<1>3. Expected(p) = <<[type |-> "SUBACK", id |-> p.id]>>
  BY <1>1 DEF Expected
<1>4. calls' = told \o Expected(p)
  BY <1>1, <1>2, <1>3, Told
<1>5. Arrived(p, m, Size(p), told)'
  BY <1>2, <1>4, PacketEnds
<1>6. Size(p) = Offset(p) + 3 /\ j + 1 = 3
  BY <1>1, Sizes
<1> QED
  BY <1>5, <1>6

\* The topic that a callback is told.
LEMMA TopicIs ==
  ASSUME NEW p \in Sendable, p.type = "PUBLISH", NEW buffer,
         \A i \in 1..Len(p.topic) : buffer[i] = p.topic[i]
  PROVE  SubSeq(buffer, 1, Len(p.topic)) = p.topic
<1> DEFINE t == p.topic
           s == SubSeq(buffer, 1, Len(t))
<1>1. t \in Seq(Nat) /\ Len(t) \in Nat \ {0}
  BY Kinds DEF Shorts
<1>2. \A i \in 1..Len(t) : buffer[i] \in Nat
  BY <1>1
<1>3. /\ s \in Seq(Nat) /\ Len(s) = Len(t)
      /\ \A i \in 1..Len(t) : s[i] = buffer[1 + i - 1]
  <2>1. /\ s \in Seq(Nat)
        /\ Len(s) = IF 1 <= Len(t) THEN Len(t) - 1 + 1 ELSE 0
        /\ \A i \in 1..Len(t) - 1 + 1 : s[i] = buffer[1 + i - 1]
    BY <1>1, <1>2, SubSeqProperties
  <2>2. 1 <= Len(t) /\ Len(t) - 1 + 1 = Len(t)
    BY <1>1
  <2> QED
    BY <2>1, <2>2
<1>4. \A i \in 1..Len(t) : s[i] = t[i]
  BY <1>1, <1>3
<1> HIDE DEF s
<1> QED
  BY <1>1, <1>3, <1>4 DEF s, t

\* The parts of a message of p.
LEMMA PartsTyped ==
  ASSUME NEW p \in Sendable, p.type = "PUBLISH", NEW n \in 0..Len(p.payload)
  PROVE  /\ Part(p, n) \in Answers /\ SubSeq(p.payload, 1, n) \in Seq(Nat)
         /\ Len(SubSeq(p.payload, 1, n)) = n
         /\ \A i \in 1..n : SubSeq(p.payload, 1, n)[i] = p.payload[i]
         /\ SubSeq(p.payload, 1, Len(p.payload)) = p.payload
<1>1. /\ p.payload \in Seq(Nat) /\ p.topic \in Seq(Nat) /\ p.qos \in 0..2 /\ p.id \in Nat
  BY Kinds DEF Shorts
<1>2. Len(p.payload) \in Nat
  BY <1>1
<1> DEFINE s == SubSeq(p.payload, 1, n)
<1>3. /\ s \in Seq(Nat) /\ Len(s) = n /\ \A i \in 1..n : s[i] = p.payload[i]
      /\ SubSeq(p.payload, 1, Len(p.payload)) = p.payload
  BY <1>1
<1> HIDE DEF s
<1>4. Part(p, n) \in [type : {"MESSAGE"}, topic : Seq(Nat), payload : Seq(Nat), total : Nat,
                      qos : 0..2, id : Nat]
  <2>1. (IF p.qos = 0 THEN 0 ELSE p.id) \in Nat
    BY <1>1
  <2> QED
    BY <1>1, <1>2, <1>3, <2>1 DEF Part, s
<1> QED
  BY <1>3, <1>4 DEF Answers, s

\* What there is to tell of a message.
Ending(p) == [type |-> "PUBLISH", qos |-> p.qos, id |-> IF p.qos = 0 THEN 0 ELSE p.id]

\* A message is owed once with all of its payload, and then its end, unless its
\* topic is too long.
LEMMA OwedForMessage ==
  ASSUME NEW p \in Sendable, p.type = "PUBLISH"
  PROVE  Expected(p) = IF Len(p.topic) > MaxTopicLength THEN <<>>
                       ELSE <<Part(p, Len(p.payload)), Ending(p)>>
<1>1. SubSeq(p.payload, 1, Len(p.payload)) = p.payload
  <2>1. Len(p.payload) \in 0..Len(p.payload)
    BY MessageSizes
  <2> QED
    BY <2>1, PartsTyped
<1> QED
  BY <1>1 DEF Expected, Part, Ending

\* The last field of the header.
Ready(p, q, told) ==
  /\ q \in Packet /\ q.position + 1 = HeaderLength(p) /\ q.type = "PUBLISH" /\ q.qos = p.qos
  /\ q.id = (IF p.qos = 0 THEN 0 ELSE p.id) /\ q.payloadRead = 0
  /\ q.topicLength = Len(p.topic) /\ q.ignore = (Len(p.topic) > MaxTopicLength)
  /\ remainingLength = Len(Body(p)) /\ calls = told

\* The argument of _preparePayloadHandling is the length of the payload, and the
\* subtraction in uint32_t does not wrap.
LEMMA PayloadLength ==
  ASSUME NEW p \in Sendable, p.type = "PUBLISH", NEW q, NEW told, Ready(p, q, told)
  PROVE  payloadLength(q) = Len(p.payload)
<1>1. /\ Len(p.payload) \in Nat /\ HeaderLength(p) \in Nat
      /\ Len(Body(p)) = HeaderLength(p) + Len(p.payload)
  BY MessageSizes, HasHeader
<1>2. Len(Body(p)) < LengthRange
  <2>1. Len(Body(p)) < Base * Base * Base * Base /\ Len(Body(p)) \in Nat
    BY Kinds, Sizes
  <2>2. /\ Base * Base * Base * Base \in Nat /\ LengthRange \in Nat
        /\ Base * Base * Base * Base <= LengthRange
    <3>1. Base \in Nat
      BY MqttParserAssumption
    <3>2. \A x, y \in Nat : x * y \in Nat
      OBVIOUS
    <3>3. Base * Base \in Nat
      BY <3>1, <3>2
    <3>4. Base * Base * Base \in Nat
      BY <3>1, <3>2, <3>3
    <3>5. Base * Base * Base * Base \in Nat
      BY <3>1, <3>2, <3>4
    <3> QED
      BY <3>5, MqttParserAssumption
  <2>3. \A x, y, z \in Nat : x < y /\ y <= z => x < z
    OBVIOUS
  <2> QED
    BY <2>1, <2>2, <2>3
<1>3. \A h, l \in Nat : h + l < LengthRange => (h + l + LengthRange - h) % LengthRange = l
  <2>1. LengthRange \in Nat /\ LengthRange > 0
    BY RangePositive
  <2> QED
    BY <2>1
<1>4. remainingLength + LengthRange - (q.position + 1)
        = HeaderLength(p) + Len(p.payload) + LengthRange - HeaderLength(p)
  BY <1>1 DEF Ready
<1> QED
  BY <1>1, <1>2, <1>3, <1>4 DEF payloadLength

\* _preparePayloadHandling after the last byte of the header.
LEMMA Prepared ==
  ASSUME NEW p \in Sendable, p.type = "PUBLISH", NEW m \in Nat, NEW told \in Seq(Answers),
         NEW q, Ready(p, q, told), preparePayload(q), lengthBuffer' = <<>>,
         ~q.ignore => \A i \in 1..Len(p.topic) : topicBuffer'[i] = p.topic[i]
  PROVE  Arrived(p, m, Offset(p) + HeaderLength(p), told)'
<1> DEFINE l == Len(p.payload)
<1>1. payloadLength(q) = l
  BY PayloadLength
<1>2. /\ l \in Nat /\ HeaderLength(p) \in Nat /\ Offset(p) \in 2..5
      /\ Size(p) = Offset(p) + HeaderLength(p) + l
  BY MessageSizes, HasHeader, Sizes
<1>3. CASE l # 0
  <2>1. /\ packet' = [q EXCEPT !.payloadLength = l] /\ bufferState' = "PAYLOAD"
        /\ calls' = told
    BY <1>1, <1>3, Zenon DEF preparePayload, Ready
  <2> HIDE DEF l
  <2>2. /\ packet'.type = "PUBLISH" /\ packet'.qos = p.qos
        /\ packet'.id = (IF p.qos = 0 THEN 0 ELSE p.id)
        /\ packet'.topicLength = Len(p.topic) /\ packet'.ignore = q.ignore
        /\ packet'.payloadLength = l /\ packet'.payloadRead = 0
    BY <2>1 DEF Ready, Packet
  <2>3. packet'.ignore = (Len(p.topic) > MaxTopicLength)
    BY <2>2 DEF Ready
  <2>4. TopicRead(p, HeaderLength(p))'
    BY <2>2, <2>3 DEF TopicRead
  <2>5. 0 < l /\ HeaderLength(p) = HeaderLength(p) + 0
    BY <1>2, <1>3
  <2>6. InPayload(p, HeaderLength(p), told)'
    BY <2>1, <2>2, <2>4, <2>5 DEF InPayload, l
  <2>7. /\ Offset(p) + HeaderLength(p) < Size(p)
        /\ Offset(p) + HeaderLength(p) # Size(p)
    <3>1. \A o \in 2..5 : \A h \in Nat : o + h < o + h + l /\ o + h # o + h + l
      BY <1>2, <2>5
    <3> QED
      BY <1>2, <3>1
  <2> QED
    BY <1>2, <2>6, <2>7 DEF Arrived, InPacket
<1>4. CASE l = 0
  <2>1. /\ bufferState' = "NONE" /\ packet' = After(q)
        /\ calls' = IF q.ignore THEN calls
                    ELSE Append(Joining(calls, Message(q, <<>>, 0, 0)), Complete(q))
    BY <1>1, <1>4 DEF preparePayload
  <2>2. packet' = None \/ packet'.ignore
    BY <2>1 DEF After
  <2>3. calls' = told \o Expected(p)
    <3>1. CASE q.ignore
      <4>1. Expected(p) = <<>>
        BY <3>1, OwedForMessage DEF Ready
      <4> QED
        BY <2>1, <3>1, <4>1 DEF Ready
    <3>2. CASE ~q.ignore
      <4>1. Expected(p) = <<Part(p, l), Ending(p)>>
        BY <3>2, OwedForMessage DEF Ready
      <4>2. Complete(q) = Ending(p)
        BY DEF Complete, Ending, Ready
      <4>3. SubSeq(topicBuffer', 1, q.topicLength) = p.topic
        BY <3>2, TopicIs DEF Ready
      <4>4. Joining(told, Message(q, <<>>, 0, 0)) = Append(told, Part(p, l))
        <5>1. SubSeq(p.payload, 1, l) = <<>>
          <6>1. p.payload \in Seq(Nat)
            BY Kinds DEF Shorts
          <6> QED
            BY <1>4, <6>1
        <5>2. Part(p, l) = [type |-> "MESSAGE", topic |-> p.topic, payload |-> <<>>,
                            total |-> 0, qos |-> p.qos, id |-> q.id]
          BY <1>4, <5>1 DEF Part, Ready
        <5>3. Message(q, <<>>, 0, 0) = [type |-> "MESSAGE", topic |-> p.topic, part |-> <<>>,
                                       index |-> 0, total |-> 0, qos |-> p.qos, id |-> q.id]
          BY <4>3 DEF Message, Ready
        <5> QED
          BY <5>2, <5>3 DEF Joining
      <4>5. calls' = Append(Append(told, Part(p, l)), Ending(p))
        BY <2>1, <3>2, <4>2, <4>4 DEF Ready
      <4>6. \A a, b : Append(Append(told, a), b) = told \o <<a, b>>
        OBVIOUS
      <4> QED
        BY <4>1, <4>5, <4>6
    <3> QED
      BY <3>1, <3>2
  <2>4. Arrived(p, m, Size(p), told)'
    BY <2>1, <2>2, <2>3, PacketEnds
  <2>5. Size(p) = Offset(p) + HeaderLength(p)
    BY <1>2, <1>4
  <2> QED
    BY <2>4, <2>5
<1> QED
  BY <1>3, <1>4

\* One more byte of a header that goes on.
LEMMA HeaderGoesOn ==
  ASSUME NEW p \in Sendable, p.type = "PUBLISH", NEW m \in Nat, NEW j \in Nat, NEW told,
         j < HeaderLength(p), InHeader(p, j, told)'
  PROVE  Arrived(p, m, Offset(p) + j, told)'
<1>1. /\ Len(p.payload) \in Nat /\ HeaderLength(p) \in Nat /\ Offset(p) \in 2..5
      /\ Size(p) = Offset(p) + HeaderLength(p) + Len(p.payload)
  BY MessageSizes, HasHeader, Sizes
<1>2. Offset(p) + j < Size(p) /\ Offset(p) + j # Size(p)
  <2>1. \A o \in 2..5 : \A h, l \in Nat : j < h => o + j < o + h + l /\ o + j # o + h + l
    OBVIOUS
  <2> QED
    BY <1>1, <2>1, Zenon
<1> QED
  BY <1>1, <1>2 DEF Arrived, InPacket

\* The header of a message.
LEMMA StepPublish ==
  ASSUME NEW p \in Sendable, NEW m \in Nat, NEW j \in Nat, NEW told \in Seq(Answers),
         p.type = "PUBLISH", TypeOK, InHeader(p, j, told), Ahead(p, Offset(p) + j), Publish
  PROVE  Arrived(p, m, Offset(p) + (j + 1), told)'
<1> DEFINE n == Len(p.topic)
<1>1. /\ bufferState = "VARIABLE_HEADER" /\ packet.type = p.type /\ packet.position = j
      /\ lengthBuffer = <<>> /\ calls = told /\ j < HeaderLength(p)
      /\ remainingLength = Len(Body(p))
      /\ packet.qos = p.qos /\ packet.id = 0 /\ packet.payloadRead = 0
      /\ j >= 2 => TopicRead(p, j)
  BY DEF InHeader
<1>2. packet \in Packet
  BY <1>1 DEF TypeOK, None
<1>3. /\ n \in Nat \ {0} /\ HeaderLength(p) \in Nat /\ p.qos \in 0..2
      /\ HeaderLength(p) = n + (IF p.qos = 0 THEN 2 ELSE 4)
  BY MessageSizes, HasHeader, Kinds DEF Shorts
<1>4. j < Len(Body(p)) /\ Body(p) \in Seq(Nat)
  <2>1. HeaderLength(p) <= Len(Body(p)) /\ Len(Body(p)) \in Nat
    BY HasHeader, Sizes
  <2>2. \A h, l \in Nat : j < h /\ h <= l => j < l
    OBVIOUS
  <2>3. Body(p) \in Seq(Nat)
    BY BytesAre
  <2> QED
    BY <1>1, <1>3, <2>1, <2>2, <2>3, Zenon
<1>5. Current.value = Body(p)[j + 1] /\ Current.value \in Nat
  BY <1>4, NextInBody
<1>6. /\ lengthBuffer' = <<>> /\ remainingLength' = Len(Body(p))
      /\ TopicLength \/ Topic \/ PacketId
  BY <1>1 DEF Publish
<1>7. /\ Word(Body(p)[1], Body(p)[2]) = n
      /\ \A i \in 1..n : Body(p)[i + 2] = p.topic[i]
      /\ p.qos # 0 => Word(Body(p)[n + 3], Body(p)[n + 4]) = p.id
  BY MessageBody
<1> HIDE DEF n
<1>8. ASSUME NextField, bufferState' = bufferState, calls' = calls, topicBuffer' = topicBuffer,
             j = 0 \/ j = n + 2, j + 1 < HeaderLength(p)
      PROVE  Arrived(p, m, Offset(p) + (j + 1), told)'
  <2>1. /\ packet'.type = p.type /\ packet'.position = j + 1 /\ packet'.msb = Body(p)[j + 1]
        /\ packet'.qos = p.qos /\ packet'.id = 0 /\ packet'.payloadRead = 0
        /\ packet'.topicLength = packet.topicLength /\ packet'.ignore = packet.ignore
    <3>1. packet' = [packet EXCEPT !.position = j + 1, !.msb = Body(p)[j + 1]]
      BY <1>1, <1>5, <1>8 DEF NextField
    <3> QED
      BY <1>1, <1>2, <3>1 DEF Packet
  <2>2. j + 1 >= 2 => TopicRead(p, j + 1)'
    <3> SUFFICES ASSUME j + 1 >= 2 PROVE TopicRead(p, j + 1)'
      OBVIOUS
    <3>1. j = n + 2 /\ j >= 2
      BY <1>3, <1>8
    <3>2. TopicRead(p, j)
      BY <1>1, <3>1
    <3>3. \A i \in 1..n : i + 2 <= j
      BY <1>3, <3>1
    <3> QED
      BY <1>8, <2>1, <3>2, <3>3 DEF TopicRead, n
  <2>3. InHeader(p, j + 1, told)'
    <3>1. j + 1 = 1 => Body(p)[j + 1] = Body(p)[1]
      OBVIOUS
    <3>2. bufferState' = "VARIABLE_HEADER" /\ calls' = told
      BY <1>1, <1>8
    <3> QED
      BY <1>6, <1>8, <2>1, <2>2, <3>1, <3>2 DEF InHeader
  <2> QED
    BY <1>8, <2>3, HeaderGoesOn
<1>9. CASE TopicLength
  <2>1. /\ j < 2 /\ UNCHANGED <<topicBuffer, bufferState, calls>>
    BY <1>1, <1>9 DEF TopicLength
  <2>2. CASE j = 0
    <3>1. NextField /\ j + 1 < HeaderLength(p)
      BY <1>1, <1>3, <1>9, <2>2 DEF TopicLength
    <3> QED
      BY <1>8, <2>1, <2>2, <3>1
  <2>3. CASE j = 1
    <3>1. LastWord = n
      <4>1. packet.msb = Body(p)[1] /\ Current.value = Body(p)[2]
        BY <1>5, <2>3 DEF InHeader
      <4> QED
        BY <1>7, <4>1 DEF LastWord
    <3>2. packet' = [packet EXCEPT !.position = 2, !.topicLength = n,
                                   !.ignore = n > MaxTopicLength]
      BY <1>1, <1>9, <2>3, <3>1 DEF TopicLength
    <3>3. /\ packet'.type = p.type /\ packet'.position = 2
          /\ packet'.qos = p.qos /\ packet'.id = 0 /\ packet'.payloadRead = 0
          /\ packet'.topicLength = n /\ packet'.ignore = (n > MaxTopicLength)
      BY <1>1, <1>2, <3>2 DEF Packet
    <3>4. TopicRead(p, 2)'
      BY <1>3, <3>3 DEF TopicRead, n
    <3>5. InHeader(p, 2, told)' /\ 2 < HeaderLength(p)
      <4>1. 2 # n + 3 /\ 2 # 1 /\ 2 < HeaderLength(p)
        BY <1>3
      <4>2. bufferState' = "VARIABLE_HEADER" /\ calls' = told /\ p.type # "PINGRESP"
        BY <1>1, <2>1
      <4> QED
        BY <1>6, <3>3, <3>4, <4>1, <4>2 DEF InHeader, n
    <3> QED
      BY <2>3, <3>5, HeaderGoesOn
  <2> QED
    BY <2>1, <2>2, <2>3
<1>10. CASE Topic
  <2>1. j >= 2 /\ TopicRead(p, j)
    BY <1>1, <1>10 DEF Topic
  <2>2. /\ packet.topicLength = n /\ packet.ignore = (n > MaxTopicLength)
        /\ ~packet.ignore => \A i \in 1..n : i + 2 <= j => topicBuffer[i] = p.topic[i]
        /\ j <= n + 1
    BY <1>1, <1>10, <2>1 DEF Topic, TopicRead, n
  <2>3. j - 1 \in 1..n /\ Current.value = p.topic[j - 1]
    <3>1. j - 1 \in 1..n /\ (j - 1) + 2 = j + 1
      BY <1>3, <2>1, <2>2
    <3> QED
      BY <1>5, <1>7, <3>1
  <2>4. ~packet.ignore => \A i \in 1..n : i + 2 <= j + 1 => topicBuffer'[i] = p.topic[i]
    <3> SUFFICES ASSUME ~packet.ignore, NEW i \in 1..n, i + 2 <= j + 1
                 PROVE  topicBuffer'[i] = p.topic[i]
      OBVIOUS
    <3>1. topicBuffer' = [topicBuffer EXCEPT ![j - 1] = p.topic[j - 1]]
      BY <1>1, <1>10, <2>3 DEF Topic
    <3>2. n <= MaxTopicLength /\ MaxTopicLength \in Nat
      <4>1. ~ (n > MaxTopicLength)
        BY <2>2, Zenon
      <4> QED
        BY <1>3, <4>1, MqttParserAssumption
    <3>3. i \in 1..MaxTopicLength /\ topicBuffer \in [1..MaxTopicLength -> Nat]
      BY <1>3, <3>2 DEF TypeOK
    <3>4. CASE i = j - 1
      BY <3>1, <3>3, <3>4
    <3>5. CASE i # j - 1
      <4>1. i + 2 <= j
        BY <2>3, <3>5
      <4> QED
        BY <2>2, <3>1, <3>3, <3>5, <4>1
    <3> QED
      BY <3>4, <3>5
  <2>5. CASE j = n + 1 /\ p.qos = 0
    <3>1. preparePayload(packet)
      BY <1>1, <1>10, <2>2, <2>5 DEF Topic
    <3>2. j + 1 = HeaderLength(p)
      BY <1>3, <2>5
    <3>3. Ready(p, packet, told)
      BY <1>1, <1>2, <2>2, <2>5, <3>2 DEF Ready, n
    <3>4. ~packet.ignore => \A i \in 1..n : topicBuffer'[i] = p.topic[i]
      BY <1>3, <2>4, <2>5
    <3>5. Arrived(p, m, Offset(p) + HeaderLength(p), told)'
      BY <1>6, <3>1, <3>3, <3>4, Prepared DEF n
    <3> QED
      BY <3>2, <3>5
  <2>6. CASE ~ (j = n + 1 /\ p.qos = 0)
    <3>1. /\ packet' = [packet EXCEPT !.position = j + 1]
          /\ UNCHANGED <<bufferState, calls>>
      BY <1>1, <1>10, <2>2, <2>6 DEF Topic
    <3>2. /\ packet'.type = p.type /\ packet'.position = j + 1
          /\ packet'.qos = p.qos /\ packet'.id = 0 /\ packet'.payloadRead = 0
          /\ packet'.topicLength = n /\ packet'.ignore = packet.ignore
      BY <1>1, <1>2, <2>2, <3>1 DEF Packet
    <3>3. TopicRead(p, j + 1)'
      BY <2>2, <2>4, <3>2 DEF TopicRead, n
    <3>4. j + 1 < HeaderLength(p) /\ j + 1 # 1 /\ j + 1 # n + 3
      BY <1>3, <2>1, <2>2, <2>6
    <3>5. InHeader(p, j + 1, told)'
      <4>1. bufferState' = "VARIABLE_HEADER" /\ calls' = told /\ p.type # "PINGRESP"
        BY <1>1, <3>1
      <4> QED
        BY <1>6, <3>2, <3>3, <3>4, <4>1 DEF InHeader, n
    <3> QED
      BY <3>4, <3>5, HeaderGoesOn
  <2> QED
    BY <2>5, <2>6
<1>11. CASE PacketId
  <2>1. j >= 2
    BY <1>1, <1>2, <1>11 DEF PacketId, Packet
  <2>2. /\ TopicRead(p, j) /\ packet.topicLength = n /\ packet.ignore = (n > MaxTopicLength)
        /\ ~packet.ignore => \A i \in 1..n : i + 2 <= j => topicBuffer[i] = p.topic[i]
        /\ j >= n + 2
    BY <1>1, <1>11, <2>1 DEF PacketId, TopicRead, n
  <2>3. p.qos # 0 /\ HeaderLength(p) = n + 4 /\ j \in {n + 2, n + 3}
    BY <1>1, <1>3, <2>2
  <2>4. CASE j = n + 2
    <3>1. /\ NextField /\ UNCHANGED <<bufferState, calls, topicBuffer>>
      BY <1>1, <1>11, <2>2, <2>4 DEF PacketId
    <3>2. j + 1 < HeaderLength(p)
      BY <1>3, <2>3, <2>4
    <3> QED
      BY <1>8, <2>4, <3>1, <3>2
  <2>5. CASE j = n + 3
    <3>1. LastWord = p.id
      <4>1. packet.msb = Body(p)[n + 3]
        BY <2>5 DEF InHeader, n
      <4>2. Current.value = Body(p)[n + 4]
        <5>1. j + 1 = n + 4
          BY <1>3, <2>5
        <5> QED
          BY <1>5, <5>1
      <4> QED
        BY <1>7, <2>3, <4>1, <4>2 DEF LastWord
    <3> DEFINE q == [packet EXCEPT !.id = p.id]
    <3>2. preparePayload(q) /\ topicBuffer' = topicBuffer
      <4>1. packet.position # packet.topicLength + 2
        BY <1>1, <1>3, <2>2, <2>5
      <4> QED
        BY <1>11, <3>1, <4>1 DEF PacketId
    <3>3. q \in Packet
      <4>1. p.id \in Nat
        BY Kinds DEF Shorts
      <4> QED
        BY <1>2, <4>1, FieldTyped
    <3>4. j + 1 = HeaderLength(p)
      BY <1>3, <2>3, <2>5
    <3>5. /\ q.type = packet.type /\ q.position = packet.position /\ q.qos = packet.qos
          /\ q.payloadRead = packet.payloadRead /\ q.topicLength = packet.topicLength
          /\ q.ignore = packet.ignore /\ q.id = p.id
      BY <1>2 DEF Packet
    <3> HIDE DEF q
    <3>6. Ready(p, q, told)
      BY <1>1, <2>2, <2>3, <3>3, <3>4, <3>5 DEF Ready, n
    <3>7. ~q.ignore => \A i \in 1..n : topicBuffer'[i] = p.topic[i]
      BY <1>3, <2>2, <2>5, <3>2, <3>5
    <3>8. Arrived(p, m, Offset(p) + HeaderLength(p), told)'
      BY <1>6, <3>2, <3>6, <3>7, Prepared DEF n
    <3> QED
      BY <3>4, <3>8
  <2> QED
    BY <2>3, <2>4, <2>5
<1> QED
  BY <1>6, <1>9, <1>10, <1>11

\* part is the n numbers of s after r.
IsPart(s, r, n, part) ==
  /\ part \in Seq(Nat) /\ Len(part) = n /\ r + n <= Len(s)
  /\ \A i \in 1..n : part[i] = s[r + i]

\* The parts of a payload add up.
LEMMA PartsJoin ==
  ASSUME NEW s \in Seq(Nat), NEW r \in Nat, NEW n \in Nat, NEW part, IsPart(s, r, n, part)
  PROVE  SubSeq(s, 1, r) \o part = SubSeq(s, 1, r + n)
<1> DEFINE a == SubSeq(s, 1, r)
           b == SubSeq(s, 1, r + n)
           c == a \o part
<1> USE DEF IsPart
<1>1. a \in Seq(Nat) /\ Len(a) = r /\ \A i \in 1..r : a[i] = s[i]
  OBVIOUS
<1>2. b \in Seq(Nat) /\ Len(b) = r + n /\ \A i \in 1..r + n : b[i] = s[i]
  OBVIOUS
<1> HIDE DEF a, b
<1>3. c \in Seq(Nat) /\ Join(a, part, c)
  BY <1>1, Joined
<1> HIDE DEF c
<1>4. Len(c) = r + n
  BY <1>1, <1>3 DEF Join
<1>5. ASSUME NEW i \in 1..r + n PROVE c[i] = b[i]
  <2>1. CASE i <= r
    <3>1. i \in 1..r
      BY <2>1
    <3> QED
      BY <1>1, <1>2, <1>3, <3>1 DEF Join
  <2>2. CASE i > r
    <3>1. i - r \in 1..n /\ r + (i - r) = i
      BY <2>2
    <3>2. c[Len(a) + (i - r)] = part[i - r]
      BY <1>3, <3>1 DEF Join
    <3>3. Len(a) + (i - r) = i
      BY <1>1, <3>1
    <3> QED
      BY <1>2, <3>1, <3>2, <3>3
  <2> QED
    BY <2>1, <2>2
<1>6. c = b
  BY <1>2, <1>3, <1>4, <1>5
<1> QED
  BY <1>6 DEF a, b, c

\* What onMessage is called with.
PartCall(p, r, part) ==
  [type |-> "MESSAGE", topic |-> p.topic, part |-> part, index |-> r,
   total |-> Len(p.payload), qos |-> p.qos, id |-> IF p.qos = 0 THEN 0 ELSE p.id]

\* The calls after one more part.
LEMMA PartTold ==
  ASSUME NEW p \in Sendable, p.type = "PUBLISH", NEW told \in Seq(Answers),
         NEW r \in Nat, NEW n \in Nat \ {0}, NEW part, IsPart(p.payload, r, n, part)
  PROVE  Joining(IF r = 0 THEN told ELSE Append(told, Part(p, r)), PartCall(p, r, part))
           = Append(told, Part(p, r + n))
<1> DEFINE c == PartCall(p, r, part)
<1>1. p.payload \in Seq(Nat) /\ Len(p.payload) \in Nat
  BY Kinds, MessageSizes DEF Shorts
<1>2. SubSeq(p.payload, 1, r) \o part = SubSeq(p.payload, 1, r + n)
  BY <1>1, PartsJoin
<1>3. r \in 0..Len(p.payload) /\ r + n \in 0..Len(p.payload)
  BY <1>1 DEF IsPart
<1>6. /\ c.type = "MESSAGE" /\ c.topic = p.topic /\ c.part = part /\ c.index = r
      /\ c.total = Len(p.payload) /\ c.qos = p.qos /\ c.id = IF p.qos = 0 THEN 0 ELSE p.id
  BY DEF PartCall
<1> HIDE DEF c
<1>4. CASE r = 0
  <2>1. SubSeq(p.payload, 1, 0) \o part = part
    BY <1>1 DEF IsPart
  <2>2. part = SubSeq(p.payload, 1, r + n)
    BY <1>2, <1>4, <2>1
  <2>3. Joining(told, c) = Append(told, Part(p, r + n))
    BY <1>4, <1>6, <2>2 DEF Joining, Part
  <2> QED
    BY <1>4, <2>3 DEF c
<1>5. CASE r # 0
  <2> DEFINE t == Append(told, Part(p, r))
  <2>1. Part(p, r) \in Answers /\ Len(SubSeq(p.payload, 1, r)) = r
    BY <1>3, PartsTyped
  <2>2. t # <<>> /\ Last(t) = Part(p, r) /\ Front(t) = told
    <3>1. t \in Seq(Answers) /\ Len(t) = Len(told) + 1 /\ t[Len(told) + 1] = Part(p, r)
      BY <2>1
    <3>2. SubSeq(t, 1, Len(told)) = told
      BY <2>1
    <3>3. Len(t) - 1 = Len(told) /\ t # <<>>
      <4>1. Len(told) \in Nat
        OBVIOUS
      <4> QED
        BY <3>1, <4>1
    <3> HIDE DEF t
    <3> QED
      BY <3>1, <3>2, <3>3 DEF Last, Front
  <2> HIDE DEF t
  <2> DEFINE id == IF p.qos = 0 THEN 0 ELSE p.id
             Of(x) == [type |-> "MESSAGE", topic |-> p.topic, payload |-> x,
                       total |-> Len(p.payload), qos |-> p.qos, id |-> id]
             whole == [type |-> "MESSAGE", topic |-> c.topic, payload |-> c.part,
                       total |-> c.total, qos |-> c.qos, id |-> c.id]
  <2> HIDE DEF id
  <2>6. /\ \A x, y : [Of(x) EXCEPT !.payload = y] = Of(y)
        /\ \A x : Of(x).payload = x /\ Of(x).type = "MESSAGE"
    OBVIOUS
  <2>7. \A i : Part(p, i) = Of(SubSeq(p.payload, 1, i))
    BY DEF Part, id
  <2>8. whole = Of(part)
    BY <1>6 DEF id
  <2> HIDE DEF Of
  <2>9. /\ Part(p, r).type = "MESSAGE" /\ Part(p, r).payload = SubSeq(p.payload, 1, r)
        /\ Part(p, r) = [whole EXCEPT !.payload = Part(p, r).payload]
    <3>1. /\ Part(p, r) = Of(SubSeq(p.payload, 1, r))
          /\ Of(SubSeq(p.payload, 1, r)).type = "MESSAGE"
          /\ Of(SubSeq(p.payload, 1, r)).payload = SubSeq(p.payload, 1, r)
      BY <2>6, <2>7, Zenon
    <3>2. [Of(part) EXCEPT !.payload = SubSeq(p.payload, 1, r)] = Of(SubSeq(p.payload, 1, r))
      BY <2>6, Zenon
    <3> HIDE DEF whole
    <3> QED
      BY <2>8, <3>1, <3>2, Zenon
  <2>4. [Part(p, r) EXCEPT !.payload = @ \o part] = Part(p, r + n)
    <3>1. [Part(p, r) EXCEPT !.payload = @ \o part]
            = [Part(p, r) EXCEPT !.payload = Part(p, r).payload \o part]
      BY Zenon
    <3>2. [Part(p, r) EXCEPT !.payload = Part(p, r).payload \o part]
            = [Of(SubSeq(p.payload, 1, r)) EXCEPT !.payload = SubSeq(p.payload, 1, r + n)]
      BY <1>2, <2>7, <2>9, Zenon
    <3> QED
      <4>1. [Of(SubSeq(p.payload, 1, r)) EXCEPT !.payload = SubSeq(p.payload, 1, r + n)]
              = Of(SubSeq(p.payload, 1, r + n))
        BY <2>6, Zenon
      <4>2. Part(p, r + n) = Of(SubSeq(p.payload, 1, r + n))
        BY <2>7, Zenon
      <4> QED
        BY <3>1, <3>2, <4>1, <4>2, Zenon
  <2>3. Joining(t, c) = told \o <<[Part(p, r) EXCEPT !.payload = @ \o part]>>
    <3>1. c.type = "MESSAGE" /\ c.index # 0 /\ c.index = Len(Part(p, r).payload)
      <4>1. Len(Part(p, r).payload) = r
        BY <2>1, <2>9, Zenon
      <4> QED
        BY <1>5, <1>6, <4>1, Zenon
    <3> HIDE DEF whole
    <3> QED
      BY <1>6, <2>2, <2>9, <3>1 DEF Joining, whole
  <2>5. told \o <<Part(p, r + n)>> = Append(told, Part(p, r + n))
    OBVIOUS
  <2> QED
    BY <1>5, <2>3, <2>4, <2>5 DEF t, c
<1> QED
  BY <1>4, <1>5

\* What there is of a payload.
LEMMA StepPayload ==
  ASSUME NEW p \in Sendable, NEW m \in Nat, NEW j \in Nat, NEW told \in Seq(Answers),
         TypeOK, InPayload(p, j, told), Ahead(p, Offset(p) + j), Payload
  PROVE  \E n \in 1..Len(segment) :
           /\ Read(n) /\ Offset(p) + (j + n) <= Size(p)
           /\ Arrived(p, m, Offset(p) + (j + n), told)'
<1> DEFINE r == packet.payloadRead
           l == Len(p.payload)
<1>1. /\ p.type = "PUBLISH" /\ packet.type = "PUBLISH" /\ bufferState = "PAYLOAD"
      /\ lengthBuffer = <<>>
      /\ packet.qos = p.qos /\ packet.id = (IF p.qos = 0 THEN 0 ELSE p.id)
      /\ TopicRead(p, j) /\ packet.payloadLength = l /\ r < l /\ j = HeaderLength(p) + r
      /\ calls = IF r = 0 \/ packet.ignore THEN told ELSE Append(told, Part(p, r))
  BY DEF InPayload
<1>2. packet \in Packet /\ r \in Nat
  BY <1>1 DEF TypeOK, None, Packet
<1>3. /\ l \in Nat /\ HeaderLength(p) \in Nat /\ Offset(p) \in 2..5
      /\ Size(p) = Offset(p) + HeaderLength(p) + l
  BY <1>1, MessageSizes, HasHeader, Sizes
<1>4. Len(segment) \in Nat \ {0}
  BY CurrentTyped DEF Ahead
<1>5. PICK n \in 1..Len(segment) : n = partSize(packet, Len(segment)) /\ r + n <= l
  <2> DEFINE o == partSize(packet, Len(segment))
  <2>1. o = IF r + Len(segment) > l THEN l - r ELSE Len(segment)
    BY <1>1 DEF partSize
  <2>2. \A x \in Nat, y \in Nat, z \in Nat \ {0} : x < y =>
          LET w == IF x + z > y THEN y - x ELSE z
          IN  w \in 1..z /\ x + w <= y
    OBVIOUS
  <2>3. r \in Nat /\ l \in Nat /\ Len(segment) \in Nat \ {0} /\ r < l
    BY <1>1, <1>2, <1>3, <1>4
  <2> HIDE DEF r, l, o
  <2>4. o \in 1..Len(segment) /\ r + o <= l
    BY <2>1, <2>2, <2>3, Zenon
  <2> QED
    BY <2>4 DEF o
<1> DEFINE part == [i \in 1..n |-> segment[i].value]
<1>6. n \in Nat \ {0}
  BY <1>4, <1>5
<1>7. /\ Read(n) /\ lengthBuffer' = <<>> /\ topicBuffer' = topicBuffer
      /\ calls' = IF packet.ignore THEN calls
                  ELSE IF r + n = l
                  THEN Append(Joining(calls, Message(packet, part, r, l)), Complete(packet))
                  ELSE Joining(calls, Message(packet, part, r, l))
      /\ bufferState' = IF r + n = l THEN "NONE" ELSE "PAYLOAD"
      /\ packet' = IF r + n = l THEN After([packet EXCEPT !.payloadRead = r + n])
                   ELSE [packet EXCEPT !.payloadRead = r + n]
  BY <1>1, <1>5 DEF Payload
<1> HIDE DEF r, l
<1>8. IsPart(p.payload, r, n, part)
  <2>1. \A i \in 1..n : part[i] = p.payload[r + i] /\ p.payload[r + i] \in Nat
    <3> SUFFICES ASSUME NEW i \in 1..n
                 PROVE  part[i] = p.payload[r + i] /\ p.payload[r + i] \in Nat
      OBVIOUS
    <3>1. i \in 1..Len(segment) /\ r + i \in 1..l
      BY <1>2, <1>3, <1>4, <1>5, <1>6
    <3>2. (Offset(p) + j) + i <= Size(p)
      <4>1. \A o \in 2..5 : \A h, x, y, z \in Nat : x + z <= y => (o + (h + x)) + z <= o + h + y
        OBVIOUS
      <4>2. i \in Nat /\ r + i <= l
        BY <1>2, <1>3, <3>1
      <4> QED
        BY <1>1, <1>2, <1>3, <4>1, <4>2, Zenon
    <3>3. segment[i] = Bytes(p)[(Offset(p) + j) + i]
      BY <3>1, <3>2 DEF Ahead
    <3>4. /\ j + i \in 1..Len(Body(p)) /\ j + i = HeaderLength(p) + (r + i)
          /\ (Offset(p) + j) + i = Offset(p) + (j + i)
      <4>1. Len(Body(p)) = HeaderLength(p) + l
        BY <1>1, MessageSizes DEF l
      <4>6. i \in Nat
        BY <1>5
      <4>2. \A h \in Nat : h + r + i \in 1..h + l /\ h + r + i = h + (r + i)
        BY <1>2, <1>3, <3>1, <4>6
      <4>3. \A o \in 2..5 : \A x \in Nat : (o + x) + i = o + (x + i)
        OBVIOUS
      <4> QED
        BY <1>1, <1>2, <1>3, <4>1, <4>2, <4>3, Zenon
    <3>5. segment[i] = Number(Body(p)[j + i])
      BY <3>3, <3>4, BytesAre
    <3>6. Body(p)[j + i] = p.payload[r + i]
      BY <1>1, <3>1, <3>4, MessageBody DEF l
    <3>7. p.payload \in Seq(Nat)
      BY <1>1, Kinds DEF Shorts
    <3>8. part[i] = segment[i].value
      OBVIOUS
    <3> HIDE DEF part
    <3>9. part[i] = p.payload[r + i]
      BY <3>5, <3>6, <3>8 DEF Number
    <3>10. p.payload[r + i] \in Nat
      BY <3>1, <3>7 DEF l
    <3> QED
      BY <3>9, <3>10
  <2>2. part \in [1..n -> Nat]
    BY <2>1
  <2>3. part \in Seq(Nat) /\ Len(part) = n
    BY <1>6, <2>2
  <2> HIDE DEF part
  <2> QED
    BY <1>5, <2>1, <2>3 DEF IsPart, l
<1> HIDE DEF part
<1>9. /\ packet.topicLength = Len(p.topic) /\ packet.ignore = (Len(p.topic) > MaxTopicLength)
      /\ ~packet.ignore => \A i \in 1..Len(p.topic) : topicBuffer'[i] = p.topic[i]
  <2>1. \A i \in 1..Len(p.topic) : i + 2 <= j
    <3>1. Len(p.topic) \in Nat /\ HeaderLength(p) \in {Len(p.topic) + 2, Len(p.topic) + 4}
      BY <1>1, MessageBody
    <3>2. Len(p.topic) + 2 <= HeaderLength(p) + r
      BY <1>2, <3>1
    <3>3. \A i \in 1..Len(p.topic) : i + 2 <= Len(p.topic) + 2
      BY <3>1
    <3>4. \A x, y, z \in Nat : x <= y /\ y <= z => x <= z
      OBVIOUS
    <3> QED
      BY <1>1, <1>2, <1>3, <3>1, <3>2, <3>3
  <2> QED
    BY <1>1, <1>7, <2>1 DEF TopicRead
<1>10. ASSUME ~packet.ignore
       PROVE  Joining(calls, Message(packet, part, r, l)) = Append(told, Part(p, r + n))
  <2>1. SubSeq(topicBuffer', 1, packet.topicLength) = p.topic
    BY <1>1, <1>9, <1>10, TopicIs
  <2>2. Message(packet, part, r, l) = PartCall(p, r, part)
    BY <1>1, <2>1 DEF Message, PartCall, l
  <2>3. calls = IF r = 0 THEN told ELSE Append(told, Part(p, r))
    BY <1>1, <1>10
  <2> QED
    BY <1>1, <1>2, <1>6, <1>8, <2>2, <2>3, PartTold
<1>11. Offset(p) + (j + n) <= Size(p) /\ (r + n = l <=> Offset(p) + (j + n) = Size(p))
  <2>1. \A o \in 2..5 : \A h \in Nat :
          /\ o + ((h + r) + n) <= o + h + l
          /\ (r + n = l <=> o + ((h + r) + n) = o + h + l)
    <3>1. r + n <= l /\ n \in Nat /\ r \in Nat /\ l \in Nat
      BY <1>2, <1>3, <1>5, <1>6
    <3> QED
      BY <3>1
  <2> QED
    BY <1>1, <1>3, <2>1, Zenon
<1>12. CASE r + n = l
  <2>1. bufferState' = "NONE" /\ (packet' = None \/ packet'.ignore)
    <3>1. [packet EXCEPT !.payloadRead = r + n].ignore = packet.ignore
      BY <1>2 DEF Packet
    <3> QED
      BY <1>7, <1>12, <3>1 DEF After
  <2>2. calls' = told \o Expected(p)
    <3>1. CASE packet.ignore
      <4>1. Expected(p) = <<>> /\ calls' = told
        BY <1>1, <1>7, <1>9, <3>1, OwedForMessage
      <4> QED
        BY <4>1
    <3>2. CASE ~packet.ignore
      <4>1. Expected(p) = <<Part(p, l), Ending(p)>>
        BY <1>1, <1>9, <3>2, OwedForMessage DEF l
      <4>2. Complete(packet) = Ending(p)
        BY <1>1 DEF Complete, Ending
      <4>3. calls' = Append(Append(told, Part(p, l)), Ending(p))
        BY <1>7, <1>10, <1>12, <3>2, <4>2
      <4>4. \A a, b : Append(Append(told, a), b) = told \o <<a, b>>
        OBVIOUS
      <4> QED
        BY <4>1, <4>3, <4>4
    <3> QED
      BY <3>1, <3>2
  <2>3. Arrived(p, m, Size(p), told)'
    BY <1>7, <2>1, <2>2, PacketEnds
  <2> QED
    BY <1>5, <1>7, <1>11, <1>12, <2>3
<1>13. CASE r + n # l
  <2>1. /\ packet' = [packet EXCEPT !.payloadRead = r + n] /\ bufferState' = "PAYLOAD"
        /\ calls' = IF packet.ignore THEN told ELSE Append(told, Part(p, r + n))
    BY <1>1, <1>7, <1>10, <1>13
  <2>2. /\ packet'.type = "PUBLISH" /\ packet'.qos = p.qos /\ packet'.id = packet.id
        /\ packet'.topicLength = packet.topicLength /\ packet'.ignore = packet.ignore
        /\ packet'.payloadLength = l /\ packet'.payloadRead = r + n
    BY <1>1, <1>2, <2>1 DEF Packet
  <2>3. r + n < l /\ r + n # 0 /\ j + n = HeaderLength(p) + (r + n) /\ j + n \in Nat
    <3>1. r + n < l /\ r + n # 0
      BY <1>2, <1>3, <1>5, <1>6, <1>13
    <3>2. \A h \in Nat : (h + r) + n = h + (r + n) /\ (h + r) + n \in Nat
      BY <1>2, <1>6
    <3> QED
      BY <1>1, <1>3, <3>1, <3>2, Zenon
  <2>4. TopicRead(p, j + n)'
    BY <1>9, <2>2 DEF TopicRead
  <2>5. InPayload(p, j + n, told)'
    <3>1. /\ p.type = "PUBLISH" /\ lengthBuffer' = <<>>
          /\ packet'.id = IF p.qos = 0 THEN 0 ELSE p.id
      BY <1>1, <1>7, <2>2
    <3>2. calls' = IF packet'.payloadRead = 0 \/ packet'.ignore THEN told
                   ELSE Append(told, Part(p, packet'.payloadRead))
      BY <2>1, <2>2, <2>3
    <3> QED
      <4>1. /\ packet'.payloadLength = Len(p.payload) /\ packet'.payloadRead < Len(p.payload)
            /\ j + n = HeaderLength(p) + packet'.payloadRead
        BY <2>2, <2>3, Zenon DEF l
      <4> QED
        BY <2>1, <2>2, <2>4, <3>1, <3>2, <4>1, Zenon DEF InPayload
  <2>6. Offset(p) + (j + n) < Size(p) /\ Offset(p) + (j + n) # Size(p)
    <3>1. \A o \in 2..5 : \A x \in Nat : o + x \in Nat
      OBVIOUS
    <3>2. Offset(p) + (j + n) \in Nat /\ Size(p) \in Nat
      BY <1>3, <2>3, <3>1, Sizes
    <3> QED
      BY <1>11, <1>13, <3>2
  <2>7. Arrived(p, m, Offset(p) + (j + n), told)'
    <3>1. InPacket(p, m, Offset(p) + (j + n), told)'
      BY <2>3, <2>5, Zenon DEF InPacket
    <3> QED
      BY <2>6, <3>1, Zenon DEF Arrived
  <2> QED
    BY <1>5, <1>7, <1>11, <2>7, Zenon
<1> QED
  BY <1>12, <1>13

---------------------------------------------------------------------------
(* An iteration within a packet, and between two. *)

\* Any iteration of the loop inside a packet.
LEMMA StepInside ==
  ASSUME NEW p \in Sendable, NEW m \in Nat, NEW k \in Nat \ {0}, NEW told \in Seq(Answers),
         m = 0 => p.type = "CONNACK", k < Size(p),
         TypeOK, InPacket(p, m, k, told), Ahead(p, k),
         \/ FirstByte \/ ProtocolViolation \/ RemainingLength \/ ConnAck \/ IdentifierOnly
         \/ SubAck \/ SubAckStatus \/ Publish \/ Payload
  PROVE  /\ UNCHANGED <<tcp, stream>>
         /\ \E n \in 1..Len(segment) :
              Read(n) /\ k + n <= Size(p) /\ Arrived(p, m, k + n, told)'
<1>1. 1 \in 1..Len(segment) /\ k + 1 <= Size(p)
  BY CurrentTyped, Sizes DEF Ahead
<1>2. CASE InLength(p, m, k, told)
  <2>1. RemainingLength
    BY <1>2 DEF InLength, FirstByte, ProtocolViolation, ConnAck, IdentifierOnly, SubAck,
                SubAckStatus, Publish, Payload, Reading
  <2>2. Read(1) /\ UNCHANGED <<tcp, stream>>
    BY <2>1 DEF RemainingLength
  <2>3. Arrived(p, m, k + 1, told)'
    BY <1>2, <2>1, StepLength
  <2> QED
    BY <1>1, <2>2, <2>3
<1>3. ASSUME NEW j \in Nat, k = Offset(p) + j,
             InHeader(p, j, told) \/ InStatus(p, j, told) \/ InPayload(p, j, told)
      PROVE  /\ UNCHANGED <<tcp, stream>>
             /\ \E n \in 1..Len(segment) :
                  Read(n) /\ k + n <= Size(p) /\ Arrived(p, m, k + n, told)'
  <2>1. Offset(p) \in 2..5 /\ \A n \in Nat : Offset(p) + (j + n) = k + n
    <3>1. Offset(p) \in 2..5
      BY Sizes
    <3>2. \A o \in 2..5 : \A n \in Nat : o + (j + n) = (o + j) + n
      OBVIOUS
    <3> QED
      BY <1>3, <3>1, <3>2, Zenon
  <2>2. Ahead(p, Offset(p) + j)
    BY <1>3
  <2>3. CASE InHeader(p, j, told)
    <3>1. /\ bufferState = "VARIABLE_HEADER" /\ packet.type = p.type /\ p.type # "PINGRESP"
      BY <2>3 DEF InHeader
    <3>2. CASE p.type = "PUBLISH"
      <4>1. Publish
        BY <3>1, <3>2 DEF FirstByte, ProtocolViolation, RemainingLength, ConnAck,
             IdentifierOnly, SubAck, SubAckStatus, Payload, Reading, IdentifierTypes
      <4>2. Read(1) /\ UNCHANGED <<tcp, stream>>
        BY <4>1 DEF Publish
      <4>3. Arrived(p, m, Offset(p) + (j + 1), told)'
        BY <2>2, <2>3, <3>2, <4>1, StepPublish
      <4> QED
        BY <1>1, <2>1, <4>2, <4>3
    <3>3. CASE p.type # "PUBLISH"
      <4>1. ConnAck \/ IdentifierOnly \/ SubAck
        BY <3>1, <3>3 DEF FirstByte, ProtocolViolation, RemainingLength,
             SubAckStatus, Publish, Payload, Reading
      <4>2. Read(1) /\ UNCHANGED <<tcp, stream>>
        BY <4>1 DEF ConnAck, IdentifierOnly, SubAck
      <4>3. Arrived(p, m, Offset(p) + (j + 1), told)'
        BY <2>2, <2>3, <3>3, <4>1, StepShort
      <4> QED
        BY <1>1, <2>1, <4>2, <4>3
    <3> QED
      BY <3>2, <3>3
  <2>4. CASE InStatus(p, j, told)
    <3>1. SubAckStatus
      BY <2>4 DEF InStatus, FirstByte, ProtocolViolation, RemainingLength, ConnAck,
             IdentifierOnly, SubAck, Publish, Payload, Reading
    <3>2. Read(1) /\ UNCHANGED <<tcp, stream>>
      BY <3>1 DEF SubAckStatus
    <3>3. Arrived(p, m, Offset(p) + (j + 1), told)'
      BY <2>4, <3>1, StepStatus
    <3> QED
      BY <1>1, <2>1, <3>2, <3>3
  <2>5. CASE InPayload(p, j, told)
    <3>1. Payload
      BY <2>5 DEF InPayload, FirstByte, ProtocolViolation, RemainingLength, ConnAck,
             IdentifierOnly, SubAck, SubAckStatus, Publish, Reading
    <3>2. UNCHANGED <<tcp, stream>>
      BY <3>1 DEF Payload
    <3>3. PICK n \in 1..Len(segment) :
             /\ Read(n) /\ Offset(p) + (j + n) <= Size(p)
             /\ Arrived(p, m, Offset(p) + (j + n), told)'
      BY <2>2, <2>5, <3>1, StepPayload
    <3>4. Offset(p) + (j + n) = k + n
      BY <2>1
    <3> QED
      BY <3>2, <3>3, <3>4
  <2> QED
    BY <1>3, <2>3, <2>4, <2>5
<1> QED
  BY <1>2, <1>3 DEF InPacket

---------------------------------------------------------------------------
(* What the peer sent as bytes and what is owed for it.                    *)

\* w is the packets of s one after another; st[i] bytes come before s[i].
Wire(s, w, st) ==
  /\ s \in Seq(Sendable) /\ w \in Seq(Byte) /\ st \in [1..Len(s) + 1 -> Nat]
  /\ st[1] = 0 /\ st[Len(s) + 1] = Len(w) /\ \A i \in 1..Len(s) + 1 : st[i] <= Len(w)
  /\ \A i \in 1..Len(s) :
       /\ st[i + 1] = st[i] + Size(s[i])
       /\ \A c \in 1..Size(s[i]) : w[st[i] + c] = Bytes(s[i])[c]
  /\ s # <<>> => s[1].type = "CONNACK"

\* ow[i] is owed for the first i packets of s.
Debt(s, ow) ==
  /\ ow \in [0..Len(s) -> Seq(Answers)] /\ ow[0] = <<>>
  /\ \A i \in 1..Len(s) : ow[i] = ow[i - 1] \o Expected(s[i])
  /\ \A i \in 0..Len(s) : /\ Len(ow[i]) <= Len(ow[Len(s)])
                          /\ \A x \in 1..Len(ow[i]) : ow[i][x] = ow[Len(s)][x]

\* What is owed for a packet is a sequence of answers.
LEMMA ExpectedTyped ==
  ASSUME NEW p \in Sendable
  PROVE  Expected(p) \in Seq(Answers)
<1>1. CASE p.type = "PUBLISH"
  <2>1. Part(p, Len(p.payload)) \in Answers
    <3>1. Len(p.payload) \in 0..Len(p.payload)
      BY <1>1, MessageSizes
    <3> QED
      BY <1>1, <3>1, PartsTyped
  <2>2. Ending(p) \in Answers
    <3>1. p.qos \in 0..2 /\ (IF p.qos = 0 THEN 0 ELSE p.id) \in Nat
      BY <1>1, Kinds DEF Shorts
    <3> QED
      BY <3>1 DEF Ending, Answers
  <2>3. <<Part(p, Len(p.payload)), Ending(p)>> \in Seq(Answers) /\ <<>> \in Seq(Answers)
    BY <2>1, <2>2
  <2> QED
    BY <1>1, <2>3, OwedForMessage, Zenon
<1>2. CASE p.type = "CONNACK"
  <2>1. [type |-> "CONNACK", code |-> p.code] \in Answers
    BY <1>2, Kinds DEF Answers, Shorts
  <2> QED
    BY <1>2, <2>1 DEF Expected
<1>3. CASE p.type = "PINGRESP"
  <2>1. [type |-> "PINGRESP"] \in Answers
    BY DEF Answers
  <2> QED
    BY <1>3, <2>1 DEF Expected
<1>4. CASE p.type \in Shorts
  <2>1. [type |-> p.type, id |-> p.id] \in Answers
    BY <1>4, Kinds DEF Answers, Shorts
  <2>2. Expected(p) = <<[type |-> p.type, id |-> p.id]>>
    BY <1>4 DEF Expected, Shorts
  <2> QED
    BY <2>1, <2>2
<1> QED
  BY <1>1, <1>2, <1>3, <1>4, Kinds

\* Nothing sent is no bytes.
LEMMA WireEmpty == Wire(<<>>, <<>>, [i \in 1..1 |-> 0])
BY DEF Wire

\* For nothing sent nothing is owed.
LEMMA DebtEmpty == Debt(<<>>, [i \in 0..0 |-> <<>>])
<1> DEFINE ow == [i \in 0..0 |-> <<>>]
<1>1. ow \in [0..0 -> Seq(Answers)] /\ ow[0] = <<>>
  OBVIOUS
<1> HIDE DEF ow
<1> QED
  BY <1>1 DEF Debt, ow

\* One packet more.
LEMMA WireAppend ==
  ASSUME NEW s, NEW w, NEW st, Wire(s, w, st), NEW p \in Sendable, s = <<>> => p.type = "CONNACK"
  PROVE  \E st2 : /\ Wire(Append(s, p), w \o Bytes(p), st2)
                  /\ \A i \in 1..Len(s) + 1 : st2[i] = st[i]
<1> DEFINE l == Len(s)
           b == Bytes(p)
           v == w \o b
           t == Append(s, p)
           st2 == [i \in 1..l + 2 |-> IF i = l + 2 THEN Len(v) ELSE st[i]]
<1>1. /\ s \in Seq(Sendable) /\ w \in Seq(Byte) /\ st \in [1..l + 1 -> Nat]
      /\ st[1] = 0 /\ st[l + 1] = Len(w) /\ l \in Nat /\ Len(w) \in Nat
      /\ \A i \in 1..l + 1 : st[i] <= Len(w)
      /\ \A i \in 1..l : /\ st[i + 1] = st[i] + Size(s[i])
                         /\ \A c \in 1..Size(s[i]) : w[st[i] + c] = Bytes(s[i])[c]
  BY DEF Wire
<1>2. b \in Seq(Byte) /\ Len(b) = Size(p) /\ Size(p) \in Nat
  BY BytesAre, Sizes DEF Size
<1>3. t \in Seq(Sendable) /\ Len(t) = l + 1 /\ t[l + 1] = p /\ \A i \in 1..l : t[i] = s[i]
  BY <1>1
<1> HIDE DEF b
<1>4. v \in Seq(Byte) /\ Join(w, b, v)
  BY <1>1, <1>2, Joined
<1> HIDE DEF v, t
<1>5. /\ Len(v) = Len(w) + Size(p) /\ Len(v) \in Nat
      /\ \A x \in 1..Len(w) : v[x] = w[x]
      /\ \A x \in 1..Size(p) : v[Len(w) + x] = b[x]
  BY <1>1, <1>2, <1>4 DEF Join
<1> HIDE DEF l
<1>6. /\ st2 \in [1..l + 2 -> Nat] /\ \A i \in 1..l + 1 : st2[i] = st[i]
      /\ st2[l + 2] = Len(v)
  BY <1>1, <1>5
<1> HIDE DEF st2
<1>7. \A i \in 1..l + 2 : st2[i] <= Len(v)
  <2> SUFFICES ASSUME NEW i \in 1..l + 2 PROVE st2[i] <= Len(v)
    OBVIOUS
  <2>1. CASE i = l + 2
    BY <1>5, <1>6, <2>1
  <2>2. CASE i # l + 2
    <3>1. i \in 1..l + 1
      BY <1>1, <2>2
    <3>2. st2[i] <= Len(w) /\ st2[i] \in Nat
      BY <1>1, <1>6, <3>1
    <3> QED
      BY <1>1, <1>2, <1>5, <3>2
  <2> QED
    BY <2>1, <2>2
<1>8. ASSUME NEW i \in 1..l + 1
      PROVE  /\ st2[i + 1] = st2[i] + Size(t[i])
             /\ \A c \in 1..Size(t[i]) : v[st2[i] + c] = Bytes(t[i])[c]
  <2>1. CASE i = l + 1
    <3>1. st2[i] = Len(w) /\ st2[i + 1] = Len(v) /\ t[i] = p
      <4>1. i + 1 = l + 2 /\ i \in 1..l + 1
        BY <1>1, <2>1
      <4> QED
        BY <1>1, <1>3, <1>6, <2>1, <4>1
    <3> QED
      BY <1>5, <3>1 DEF b
  <2>2. CASE i # l + 1
    <3>1. i \in 1..l /\ i + 1 \in 1..l + 1 /\ i \in 1..l + 1
      BY <1>1, <2>2
    <3>2. st2[i] = st[i] /\ st2[i + 1] = st[i + 1] /\ t[i] = s[i] /\ t[i] \in Sendable
      BY <1>1, <1>3, <1>6, <3>1
    <3>3. st[i] \in Nat /\ Size(s[i]) \in Nat /\ st[i + 1] = st[i] + Size(s[i])
          /\ st[i + 1] <= Len(w)
      BY <1>1, <3>1, <3>2, Sizes
    <3>4. \A c \in 1..Size(s[i]) : st[i] + c \in 1..Len(w)
      <4>1. \A x, y, z \in Nat : x + y <= z => \A c \in 1..y : x + c \in 1..z
        OBVIOUS
      <4> QED
        BY <1>1, <3>3, <4>1
    <3>5. \A c \in 1..Size(s[i]) : w[st[i] + c] = Bytes(s[i])[c] /\ v[st[i] + c] = w[st[i] + c]
      BY <1>1, <1>5, <3>1, <3>4, Zenon
    <3> QED
      BY <3>2, <3>3, <3>5
  <2> QED
    BY <2>1, <2>2
<1>9. t # <<>> /\ t[1].type = "CONNACK" /\ st2[1] = 0
  <2>1. t # <<>>
    BY <1>1, <1>3
  <2>2. CASE l = 0
    <3>1. s = <<>> /\ t[1] = p
      BY <1>1, <1>3, <2>2 DEF l
    <3> QED
      BY <1>1, <1>6, <2>1, <2>2, <3>1
  <2>3. CASE l # 0
    <3>1. 1 \in 1..l /\ 1 \in 1..l + 1
      BY <1>1, <2>3
    <3>2. s # <<>>
      BY <1>1, <2>3 DEF l
    <3>3. s[1].type = "CONNACK"
      BY <3>2 DEF Wire
    <3> QED
      BY <1>1, <1>3, <1>6, <2>1, <3>1, <3>3
  <2> QED
    BY <2>2, <2>3
<1>10. (l + 1) + 1 = l + 2
  BY <1>1
<1>11. Wire(t, v, st2)
  BY <1>3, <1>4, <1>6, <1>7, <1>8, <1>9, <1>10 DEF Wire
<1> QED
  BY <1>6, <1>11 DEF t, v, b, l

\* One packet more is owed its answers after those of the packets before.
LEMMA DebtAppend ==
  ASSUME NEW s \in Seq(Sendable), NEW ow, Debt(s, ow), NEW p \in Sendable
  PROVE  \E ow2 : Debt(Append(s, p), ow2) /\ \A i \in 0..Len(s) : ow2[i] = ow[i]
<1> DEFINE l == Len(s)
           e == Expected(p)
           t == Append(s, p)
           d == ow[l] \o e
           ow2 == [i \in 0..l + 1 |-> IF i = l + 1 THEN d ELSE ow[i]]
<1>1. /\ ow \in [0..l -> Seq(Answers)] /\ ow[0] = <<>> /\ l \in Nat
      /\ \A i \in 1..l : ow[i] = ow[i - 1] \o Expected(s[i])
      /\ \A i \in 0..l : Len(ow[i]) <= Len(ow[l]) /\ \A x \in 1..Len(ow[i]) : ow[i][x] = ow[l][x]
  BY DEF Debt
<1>2. e \in Seq(Answers) /\ ow[l] \in Seq(Answers)
  BY <1>1, ExpectedTyped
<1>3. t \in Seq(Sendable) /\ Len(t) = l + 1 /\ t[l + 1] = p /\ \A i \in 1..l : t[i] = s[i]
  OBVIOUS
<1> HIDE DEF e
<1>4. d \in Seq(Answers) /\ Join(ow[l], e, d)
  BY <1>2, Joined
<1> HIDE DEF d, t
<1>5. /\ Len(d) = Len(ow[l]) + Len(e) /\ Len(ow[l]) \in Nat /\ Len(e) \in Nat /\ Len(d) \in Nat
      /\ \A x \in 1..Len(ow[l]) : d[x] = ow[l][x]
  BY <1>4 DEF Join
<1> HIDE DEF l
<1>6. /\ ow2 \in [0..l + 1 -> Seq(Answers)] /\ \A i \in 0..l : ow2[i] = ow[i]
      /\ ow2[l + 1] = d
  BY <1>1, <1>4
<1> HIDE DEF ow2
<1>7. \A i \in 1..l + 1 : ow2[i] = ow2[i - 1] \o Expected(t[i])
  <2> SUFFICES ASSUME NEW i \in 1..l + 1 PROVE ow2[i] = ow2[i - 1] \o Expected(t[i])
    OBVIOUS
  <2>1. CASE i = l + 1
    <3>1. i - 1 = l /\ l \in 0..l
      BY <1>1, <2>1
    <3> QED
      BY <1>3, <1>6, <2>1, <3>1 DEF d, e
  <2>2. CASE i # l + 1
    <3>1. i \in 1..l /\ i \in 0..l /\ i - 1 \in 0..l
      BY <1>1, <2>2
    <3> QED
      BY <1>1, <1>3, <1>6, <3>1
  <2> QED
    BY <2>1, <2>2
<1>8. \A i \in 0..l + 1 : Len(ow2[i]) <= Len(d) /\ \A x \in 1..Len(ow2[i]) : ow2[i][x] = d[x]
  <2> SUFFICES ASSUME NEW i \in 0..l + 1
               PROVE  Len(ow2[i]) <= Len(d) /\ \A x \in 1..Len(ow2[i]) : ow2[i][x] = d[x]
    OBVIOUS
  <2>1. CASE i = l + 1
    BY <1>5, <1>6, <2>1
  <2>2. CASE i # l + 1
    <3>1. i \in 0..l
      BY <1>1, <2>2
    <3>2. /\ ow2[i] = ow[i] /\ Len(ow[i]) <= Len(ow[l]) /\ ow[i] \in Seq(Answers)
          /\ \A x \in 1..Len(ow[i]) : ow[i][x] = ow[l][x]
      BY <1>1, <1>6, <3>1
    <3>3. Len(ow[i]) \in Nat
      BY <3>2
    <3>4. Len(ow[i]) <= Len(d) /\ \A x \in 1..Len(ow[i]) : x \in 1..Len(ow[l])
      BY <1>5, <3>2, <3>3
    <3> QED
      BY <1>5, <3>2, <3>4
  <2> QED
    BY <2>1, <2>2
<1>9. ow2[0] = <<>>
  <2>1. 0 \in 0..l
    BY <1>1
  <2> QED
    BY <1>1, <1>6, <2>1
<1>10. Debt(t, ow2)
  BY <1>3, <1>6, <1>7, <1>8, <1>9 DEF Debt
<1> QED
  BY <1>6, <1>10 DEF t, l

\* What has not been read of w after r bytes.
Left(w, r) ==
  /\ r + (Len(segment) + Len(stream)) = Len(w)
  /\ \A x \in 1..Len(segment) : segment[x] = w[r + x]
  /\ \A x \in 1..Len(stream) : stream[x] = w[(r + Len(segment)) + x]

\* m packets have been read and k bytes of the next.
Progress(w, st, ow, m, k) ==
  /\ Wire(sent, w, st) /\ Debt(sent, ow)
  /\ m \in 0..Len(sent) /\ k \in Nat /\ Left(w, st[m + 1] + k)
  /\ IF k = 0 THEN Between(m) /\ calls = ow[m]
     ELSE m < Len(sent) /\ k < Size(sent[m + 1]) /\ InPacket(sent[m + 1], m, k, ow[m])

\* The parser is in step with what the peer sent.
InStep ==
  ~violated => /\ ~tcp => sent = <<>>
               /\ \E w, st, ow, m, k : Progress(w, st, ow, m, k)

---------------------------------------------------------------------------
\* Reading n bytes of the segment leaves the bytes after them.
LEMMA LeftRead ==
  ASSUME TypeOK, NEW w, NEW r \in Nat, Left(w, r), NEW n \in 1..Len(segment), Read(n),
         stream' = stream
  PROVE  Left(w, r + n)'
<1> DEFINE l == Len(segment)
           s2 == SubSeq(segment, n + 1, l)
<1>1. segment \in Seq(Byte) /\ l \in Nat /\ stream \in Seq(Byte) /\ Len(stream) \in Nat
      /\ n \in Nat /\ n <= l
  BY DEF TypeOK
<1>2. Len(s2) = l - n /\ \A x \in 1..l - n : s2[x] = segment[n + x]
  BY <1>1
<1>3. segment' = s2
  BY DEF Read
<1>4. Len(segment') = l - n /\ \A x \in 1..l - n : segment'[x] = segment[n + x]
  BY <1>2, <1>3
<1> HIDE DEF s2
<1>5. /\ r + (l + Len(stream)) = Len(w)
      /\ \A x \in 1..l : segment[x] = w[r + x]
      /\ \A x \in 1..Len(stream) : stream[x] = w[(r + l) + x]
  BY DEF Left
<1> HIDE DEF l
<1>6. (r + n) + ((l - n) + Len(stream)) = Len(w)
  <2>1. (r + n) + ((l - n) + Len(stream)) = r + (l + Len(stream))
    BY <1>1
  <2> QED
    BY <1>5, <2>1, Zenon
<1>7. \A x \in 1..l - n : segment'[x] = w[(r + n) + x]
  <2> SUFFICES ASSUME NEW x \in 1..l - n PROVE segment'[x] = w[(r + n) + x]
    OBVIOUS
  <2>1. n + x \in 1..l /\ r + (n + x) = (r + n) + x
    BY <1>1
  <2> QED
    BY <1>4, <1>5, <2>1
<1>8. \A x \in 1..Len(stream) : stream[x] = w[((r + n) + (l - n)) + x]
  <2>1. (r + n) + (l - n) = r + l
    BY <1>1
  <2> QED
    BY <1>5, <2>1
<1>9. /\ (r + n) + (Len(segment') + Len(stream')) = Len(w)
      /\ \A x \in 1..Len(segment') : segment'[x] = w[(r + n) + x]
      /\ \A x \in 1..Len(stream') : stream'[x] = w[((r + n) + Len(segment')) + x]
  BY <1>4, <1>6, <1>7, <1>8, Zenon
<1> QED
  BY <1>9, Zenon DEF Left

\* The segment begins with the bytes of the packet that is being read.
LEMMA AheadIs ==
  ASSUME TypeOK, segment # <<>>, NEW w, NEW st, Wire(sent, w, st),
         NEW m \in 0..Len(sent), NEW k \in Nat, m < Len(sent), Left(w, st[m + 1] + k)
  PROVE  sent[m + 1] \in Sendable /\ Ahead(sent[m + 1], k)
<1> DEFINE p == sent[m + 1]
<1>1. m + 1 \in 1..Len(sent) /\ Len(sent) \in Nat /\ st[m + 1] \in Nat
  BY DEF Wire
<1>2. p \in Sendable /\ \A c \in 1..Size(p) : w[st[m + 1] + c] = Bytes(p)[c]
  BY <1>1 DEF Wire
<1>3. Size(p) \in Nat
  BY <1>2, Sizes
<1>4. segment \in Seq(Byte)
  BY DEF TypeOK
<1> HIDE DEF p
<1>5. ASSUME NEW x \in 1..Len(segment), k + x <= Size(p)
      PROVE  segment[x] = Bytes(p)[k + x]
  <2>1. k + x \in 1..Size(p) /\ (st[m + 1] + k) + x = st[m + 1] + (k + x)
    BY <1>1, <1>3, <1>4, <1>5
  <2>2. segment[x] = w[(st[m + 1] + k) + x]
    BY DEF Left
  <2> QED
    BY <1>2, <2>1, <2>2
<1> QED
  BY <1>2, <1>5 DEF Ahead, p

\* Unread bytes are of a packet that has not been read.
LEMMA UnreadSent ==
  ASSUME TypeOK, segment # <<>>, NEW w, NEW st, NEW ow, NEW m, NEW k, Progress(w, st, ow, m, k)
  PROVE  m < Len(sent)
<1>1. CASE k # 0
  BY <1>1 DEF Progress
<1>2. CASE k = 0
  <2>1. /\ m \in 0..Len(sent) /\ st[Len(sent) + 1] = Len(w) /\ Left(w, st[m + 1] + 0)
        /\ m + 1 \in 1..Len(sent) + 1 /\ st[m + 1] \in Nat /\ Len(sent) \in Nat
    BY <1>2 DEF Progress, Wire
  <2>2. Len(segment) \in Nat \ {0} /\ Len(stream) \in Nat
    BY CurrentTyped DEF TypeOK
  <2>3. (st[m + 1] + 0) + (Len(segment) + Len(stream)) = Len(w)
    BY <2>1, Zenon DEF Left
  <2>4. m # Len(sent)
    <3> SUFFICES ASSUME m = Len(sent) PROVE FALSE
      OBVIOUS
    <3>1. st[m + 1] = Len(w)
      BY <2>1
    <3>2. (st[m + 1] + 0) + (Len(segment) + Len(stream)) = st[m + 1]
      BY <2>3, <3>1
    <3> QED
      BY <2>1, <2>2, <3>2
  <2> QED
    BY <2>1, <2>4
<1> QED
  BY <1>1, <1>2

\* The place after an iteration, as packets read and bytes read of the next.
LEMMA Settle ==
  ASSUME NEW w, NEW st, NEW ow, NEW m \in Nat, NEW k \in Nat \ {0},
         Wire(sent, w, st), Debt(sent, ow), m < Len(sent), sent' = sent,
         k <= Size(sent[m + 1]), Left(w, st[m + 1] + k)',
         Arrived(sent[m + 1], m, k, ow[m])'
  PROVE  (\E m2, k2 : Progress(w, st, ow, m2, k2))'
<1>1. /\ m + 1 \in 1..Len(sent) /\ m + 1 \in 0..Len(sent) /\ m \in 0..Len(sent)
      /\ sent[m + 1] \in Sendable /\ st[m + 1] \in Nat /\ st[(m + 1) + 1] \in Nat
      /\ st[(m + 1) + 1] = st[m + 1] + Size(sent[m + 1])
  <2>1. /\ sent \in Seq(Sendable) /\ Len(sent) \in Nat /\ st \in [1..Len(sent) + 1 -> Nat]
        /\ \A i \in 1..Len(sent) : st[i + 1] = st[i] + Size(sent[i])
    BY DEF Wire
  <2>2. /\ m + 1 \in 1..Len(sent) /\ m + 1 \in 0..Len(sent) /\ m \in 0..Len(sent)
        /\ m + 1 \in 1..Len(sent) + 1 /\ (m + 1) + 1 \in 1..Len(sent) + 1
    BY <2>1
  <2> QED
    BY <2>1, <2>2
<1>2. (m + 1) - 1 = m /\ ow[m + 1] = ow[m] \o Expected(sent[m + 1])
  <2>1. (m + 1) - 1 = m
    OBVIOUS
  <2> QED
    BY <1>1, <2>1 DEF Debt
<1>3. Size(sent[m + 1]) \in Nat
  BY <1>1, Sizes
<1>4. PICK p \in Sendable : p = sent[m + 1]
  BY <1>1
<1>5. Arrived(p, m, k, ow[m])' /\ sent'[m + 1] = p
  BY <1>4
<1>6. Wire(sent, w, st)' /\ Debt(sent, ow)'
  BY Zenon
<1>7. CASE k = Size(p)
  <2>1. Between(m + 1)' /\ calls' = ow[m] \o Expected(p)
    BY <1>5, <1>7, Zenon DEF Arrived
  <2>2. Left(w, st[m + 1] + Size(p))'
    BY <1>7, Zenon
  <2>3. st[m + 1] + Size(p) = st[(m + 1) + 1] + 0
    BY <1>1, <1>4
  <2>4. Left(w, st[(m + 1) + 1] + 0)'
    BY <2>2, <2>3, Zenon
  <2>5. calls' = ow[m + 1]
    BY <1>2, <1>4, <2>1
  <2>6. (m + 1) \in 0..Len(sent') /\ 0 \in Nat
    BY <1>1
  <2>7. Progress(w, st, ow, m + 1, 0)'
    BY <1>6, <2>1, <2>4, <2>5, <2>6, Zenon DEF Progress
  <2> QED
    BY <2>7
<1>8. CASE k # Size(p)
  <2>1. k < Size(p) /\ InPacket(p, m, k, ow[m])'
    BY <1>5, <1>8, Zenon DEF Arrived
  <2>2. /\ m \in 0..Len(sent') /\ m < Len(sent') /\ k \in Nat /\ k # 0
    BY <1>1
  <2>3. Progress(w, st, ow, m, k)'
    BY <1>5, <1>6, <2>1, <2>2, Zenon DEF Progress
  <2> QED
    BY <2>3
<1> QED
  BY <1>7, <1>8

\* An iteration of the loop of _onData keeps the parser in step: the packet that
\* is being read goes on, or ends and the next one begins.
LEMMA StepTurn ==
  ASSUME TypeOK, ~violated, InStep, Turn
  PROVE  InStep'
<1>1. PICK w, st, ow, m, k : Progress(w, st, ow, m, k)
  BY DEF InStep
<1>2. /\ Wire(sent, w, st) /\ Debt(sent, ow) /\ Left(w, st[m + 1] + k)
      /\ m \in 0..Len(sent) /\ m \in Nat /\ k \in Nat /\ Len(sent) \in Nat
  BY <1>1 DEF Progress, Wire
<1>3. /\ segment # <<>> /\ UNCHANGED <<connects, sent, violated>>
      /\ \/ FirstByte \/ ProtocolViolation \/ RemainingLength \/ ConnAck \/ IdentifierOnly
         \/ SubAck \/ SubAckStatus \/ Publish \/ Payload
  BY DEF Turn
<1>4. m < Len(sent)
  BY <1>1, <1>3, UnreadSent
<1>5. sent[m + 1] \in Sendable /\ Ahead(sent[m + 1], k)
  BY <1>2, <1>3, <1>4, AheadIs
<1>6. m = 0 => sent[m + 1].type = "CONNACK"
  <2>1. sent # <<>>
    BY <1>2, <1>4
  <2> QED
    BY <1>2, <2>1 DEF Wire
<1>7. ow[m] \in Seq(Answers) /\ st[m + 1] \in Nat /\ Size(sent[m + 1]) \in Nat
  <2>1. m + 1 \in 1..Len(sent) + 1
    BY <1>2
  <2> QED
    BY <1>2, <1>5, <2>1, Sizes DEF Debt, Wire
<1>8. /\ UNCHANGED <<tcp, stream>>
      /\ \E n \in 1..Len(segment) :
           /\ Read(n) /\ k + n <= Size(sent[m + 1])
           /\ Arrived(sent[m + 1], m, k + n, ow[m])'
  <2>1. PICK p \in Sendable : p = sent[m + 1]
    BY <1>5
  <2>2. PICK told \in Seq(Answers) : told = ow[m]
    BY <1>7
  <2>3. Ahead(p, k) /\ (m = 0 => p.type = "CONNACK")
    BY <1>5, <1>6, <2>1
  <2>4. /\ UNCHANGED <<tcp, stream>>
        /\ \E n \in 1..Len(segment) :
             Read(n) /\ k + n <= Size(p) /\ Arrived(p, m, k + n, told)'
    <3>1. CASE k = 0
      <4>1. Between(m) /\ calls = told
        BY <1>1, <2>2, <3>1 DEF Progress
      <4>2. FirstByte \/ ProtocolViolation
        BY <1>3, <4>1 DEF Between, RemainingLength, ConnAck, IdentifierOnly, SubAck,
             SubAckStatus, Publish, Payload, Reading
      <4>3. Ahead(p, 0)
        BY <2>3, <3>1
      <4>4. Read(1) /\ Arrived(p, m, 1, told)' /\ UNCHANGED <<tcp, stream>>
        BY <1>2, <2>3, <4>1, <4>2, <4>3, StepFirst
      <4>5. 1 \in 1..Len(segment) /\ k + 1 = 1 /\ 1 <= Size(p)
        <5>1. 1 \in 1..Len(segment)
          BY <1>3, CurrentTyped
        <5>2. Size(p) = Offset(p) + Len(Body(p)) /\ Offset(p) \in 2..5 /\ Len(Body(p)) \in Nat
          BY BytesAre, Sizes
        <5>3. \A o \in 2..5 : \A x \in Nat : 1 <= o + x
          OBVIOUS
        <5> QED
          BY <3>1, <5>1, <5>2, <5>3
      <4> QED
        BY <4>4, <4>5
    <3>2. CASE k # 0
      <4>1. k < Size(p) /\ InPacket(p, m, k, told) /\ k \in Nat \ {0}
        BY <1>1, <1>2, <2>1, <2>2, <3>2 DEF Progress
      <4> QED
        BY <1>2, <1>3, <2>3, <4>1, StepInside
    <3> QED
      BY <3>1, <3>2
  <2>5. PICK n \in 1..Len(segment) :
           Read(n) /\ k + n <= Size(p) /\ Arrived(p, m, k + n, told)'
    BY <2>4
  <2>6. Arrived(sent[m + 1], m, k + n, ow[m])' <=> Arrived(p, m, k + n, told)'
    BY <1>3, <2>1, <2>2
  <2> QED
    BY <2>1, <2>4, <2>5, <2>6
<1>9. PICK n \in 1..Len(segment) :
         /\ Read(n) /\ k + n <= Size(sent[m + 1])
         /\ Arrived(sent[m + 1], m, k + n, ow[m])'
  BY <1>8
<1>10. Left(w, (st[m + 1] + k) + n)'
  <2>1. st[m + 1] + k \in Nat
    BY <1>2, <1>7
  <2>2. PICK r \in Nat : r = st[m + 1] + k
    BY <2>1
  <2>3. Left(w, r + n)'
    BY <1>2, <1>8, <1>9, <2>2, LeftRead
  <2> QED
    BY <2>2, <2>3
<1>11. Left(w, st[m + 1] + (k + n))' /\ k + n \in Nat \ {0}
  <2>1. n \in Nat \ {0}
    BY <1>3, CurrentTyped
  <2>2. (st[m + 1] + k) + n = st[m + 1] + (k + n) /\ k + n \in Nat \ {0}
    BY <1>2, <1>7, <2>1
  <2> QED
    BY <1>10, <2>2
<1>12. (\E m2, k2 : Progress(w, st, ow, m2, k2))'
  <2>1. PICK k2 \in Nat \ {0} : k2 = k + n
    BY <1>11
  <2> QED
    BY <1>2, <1>3, <1>4, <1>9, <1>11, <2>1, Settle
<1>13. tcp' = tcp /\ sent' = sent
  BY <1>3, <1>8
<1> QED
  BY <1>12, <1>13, Zenon DEF InStep

---------------------------------------------------------------------------
(* The invariant, step by step. *)

\* Nothing has been sent on a connection, or there is none.
Fresh ==
  /\ sent = <<>> /\ stream = <<>> /\ segment = <<>> /\ calls = <<>>
  /\ Between(0)

\* A fresh connection is in step.
LEMMA FreshInStep == Fresh => InStep
<1> SUFFICES ASSUME Fresh PROVE InStep
  OBVIOUS
<1> DEFINE st == [i \in 1..1 |-> 0]
           ow == [i \in 0..0 |-> <<>>]
<1>1. sent = <<>> /\ stream = <<>> /\ segment = <<>> /\ calls = <<>> /\ Between(0)
  BY DEF Fresh
<1>2. Wire(sent, <<>>, st) /\ Debt(sent, ow)
  BY <1>1, WireEmpty, DebtEmpty
<1>3. st[0 + 1] + 0 = 0 /\ ow[0] = <<>>
  OBVIOUS
<1> HIDE DEF st, ow
<1>4. Left(<<>>, 0)
  <2>1. 0 + (Len(segment) + Len(stream)) = Len(<<>>) /\ Len(segment) = 0 /\ Len(stream) = 0
    BY <1>1
  <2> QED
    BY <2>1 DEF Left
<1>5. 0 \in 0..Len(sent) /\ 0 \in Nat
  BY <1>1
<1>6. Progress(<<>>, st, ow, 0, 0)
  <2>1. Left(<<>>, st[0 + 1] + 0) /\ calls = ow[0]
    BY <1>1, <1>3, <1>4
  <2> QED
    BY <1>1, <1>2, <1>5, <2>1, Zenon DEF Progress
<1> QED
  BY <1>1, <1>6, Zenon DEF InStep

\* The bytes of a length that a broken connection may leave behind.
LEMMA FewLeftOver == InStep => (~violated => Len(lengthBuffer) \in 0..3)
<1> SUFFICES ASSUME InStep, ~violated PROVE Len(lengthBuffer) \in 0..3
  OBVIOUS
<1>1. PICK w, st, ow, m, k : Progress(w, st, ow, m, k)
  BY DEF InStep
<1>2. CASE k = 0
  BY <1>1, <1>2 DEF Progress, Between
<1>3. CASE k # 0
  <2>1. /\ m \in 0..Len(sent) /\ m < Len(sent) /\ k \in Nat /\ Wire(sent, w, st)
        /\ InPacket(sent[m + 1], m, k, ow[m])
    BY <1>1, <1>3 DEF Progress
  <2>2. PICK p \in Sendable : p = sent[m + 1]
    BY <2>1 DEF Wire
  <2>3. PICK told : told = ow[m]
    OBVIOUS
  <2>4. InPacket(p, m, k, told)
    BY <2>1, <2>2, <2>3
  <2>5. Lengths(p) \in Seq(Nat) /\ Len(Lengths(p)) \in 1..4
    BY LengthBytes
  <2>6. CASE InLength(p, m, k, told)
    <3>1. CASE m = 0
      BY <2>6, <3>1 DEF InLength
    <3>2. CASE m # 0
      <4>1. k - 1 \in 0..3 /\ k - 1 <= Len(Lengths(p))
        <5>1. k < 1 + Len(Lengths(p))
          BY <2>6, Zenon DEF InLength, Offset
        <5>2. \A i \in Nat \ {0} : \A x \in 1..4 : i < 1 + x => i - 1 \in 0..3 /\ i - 1 <= x
          OBVIOUS
        <5>3. k \in Nat \ {0}
          BY <1>3, <2>1
        <5> QED
          BY <2>5, <5>1, <5>2, <5>3, Zenon
      <4>2. Len(SubSeq(Lengths(p), 1, k - 1)) = k - 1
        BY <2>5, <4>1
      <4> QED
        BY <2>6, <3>2, <4>1, <4>2 DEF InLength
    <3> QED
      BY <3>1, <3>2
  <2>7. CASE ~InLength(p, m, k, told)
    BY <2>4, <2>7 DEF InPacket, InHeader, InStatus, InPayload
  <2> QED
    BY <2>6, <2>7
<1> QED
  BY <1>2, <1>3

\* Without a connection nothing is unread.
LEMMA NothingUnread ==
  InStep /\ TypeOK => (~violated /\ sent = <<>> =>
    stream = <<>> /\ segment = <<>> /\ Between(0))
<1> SUFFICES ASSUME InStep, TypeOK, ~violated, sent = <<>>
             PROVE  stream = <<>> /\ segment = <<>> /\ Between(0)
  OBVIOUS
<1>1. PICK w, st, ow, m, k : Progress(w, st, ow, m, k)
  BY DEF InStep
<1>2. Len(sent) = 0 /\ m \in 0..Len(sent)
  BY <1>1 DEF Progress
<1>3. m = 0 /\ ~ (m < Len(sent))
  BY <1>2
<1>4. k = 0 /\ Between(0)
  BY <1>1, <1>3 DEF Progress
<1>5. Left(w, st[0 + 1] + 0) /\ Wire(sent, w, st)
  BY <1>1, <1>3, <1>4, Zenon DEF Progress
<1>6. 0 + 1 = 1 /\ Len(sent) + 1 = 1
  BY <1>2
<1>7. st[1] = 0 /\ Len(w) = 0
  BY <1>5, <1>6 DEF Wire
<1>8. (0 + 0) + (Len(segment) + Len(stream)) = 0
  BY <1>5, <1>6, <1>7, Zenon DEF Left
<1>9. segment \in Seq(Byte) /\ stream \in Seq(Byte)
  BY DEF TypeOK
<1>10. Len(segment) = 0 /\ Len(stream) = 0
  BY <1>8, <1>9
<1> QED
  BY <1>4, <1>9, <1>10

\* A packet sent is in step with the parser wherever that is.
LEMMA StepSends ==
  ASSUME TypeOK, ~violated, InStep, PeerSends
  PROVE  InStep'
<1>1. PICK w, st, ow, m, k : Progress(w, st, ow, m, k)
  BY DEF InStep
<1>2. PICK p \in Sendable :
         /\ sent' = Append(sent, p) /\ stream' = stream \o Bytes(p)
         /\ Greetings = {} => p.type = "CONNACK"
  BY PeerSendsOne
<1>3. /\ tcp /\ segment = <<>>
      /\ UNCHANGED <<violated, tcp, state, segment, bufferState, packet, lengthBuffer,
                     remainingLength, topicBuffer, connects, calls>>
  BY Zenon DEF PeerSends, place
<1>4. /\ Wire(sent, w, st) /\ Debt(sent, ow) /\ Left(w, st[m + 1] + k)
      /\ m \in 0..Len(sent) /\ k \in Nat
  BY <1>1 DEF Progress
<1>5. sent \in Seq(Sendable) /\ Len(sent) \in Nat /\ w \in Seq(Byte) /\ st[m + 1] \in Nat
  BY <1>4 DEF Wire
<1>6. sent = <<>> => p.type = "CONNACK"
  BY <1>2 DEF Greetings
<1> DEFINE v == w \o Bytes(p)
<1>7. PICK st2 : Wire(Append(sent, p), v, st2) /\ \A i \in 1..Len(sent) + 1 : st2[i] = st[i]
  BY <1>4, <1>6, WireAppend
<1>8. PICK ow2 : Debt(Append(sent, p), ow2) /\ \A i \in 0..Len(sent) : ow2[i] = ow[i]
  BY <1>4, <1>5, DebtAppend
<1>9. /\ Len(sent') = Len(sent) + 1 /\ \A i \in 1..Len(sent) : sent'[i] = sent[i]
  BY <1>2, <1>5
<1>10. st2[m + 1] = st[m + 1] /\ ow2[m] = ow[m] /\ m \in 0..Len(sent')
  BY <1>4, <1>5, <1>7, <1>8, <1>9
<1>11. Left(v, st[m + 1] + k)'
  <2> DEFINE b == Bytes(p)
             r == st[m + 1] + k
             u == stream \o b
  <2>1. b \in Seq(Byte) /\ stream \in Seq(Byte) /\ Len(b) \in Nat /\ Len(stream) \in Nat
        /\ Len(w) \in Nat /\ r \in Nat
    <3>1. b \in Seq(Byte)
      BY BytesAre
    <3> QED
      BY <1>4, <1>5, <3>1 DEF TypeOK
  <2> HIDE DEF b, r
  <2>2. v = w \o b
    BY DEF b
  <2>3. Join(w, b, v) /\ Join(stream, b, u)
    BY <1>5, <2>1, <2>2, Joined
  <2> HIDE DEF v, u
  <2>4. Len(segment) = 0
    BY <1>3
  <2>5. r + (0 + Len(stream)) = Len(w) /\ \A x \in 1..Len(stream) : stream[x] = w[(r + 0) + x]
    BY <1>4, <2>4, Zenon DEF Left, r
  <2>6. /\ Len(v) = Len(w) + Len(b) /\ Len(u) = Len(stream) + Len(b)
        /\ \A x \in 1..Len(w) : v[x] = w[x]
        /\ \A x \in 1..Len(b) : v[Len(w) + x] = b[x] /\ u[Len(stream) + x] = b[x]
        /\ \A x \in 1..Len(stream) : u[x] = stream[x]
    BY <2>3 DEF Join
  <2>7. r + (0 + Len(u)) = Len(v)
    <3>1. r + (0 + (Len(stream) + Len(b))) = (r + (0 + Len(stream))) + Len(b)
      BY <2>1
    <3> QED
      BY <2>5, <2>6, <3>1, Zenon
  <2>8. \A x \in 1..Len(u) : u[x] = v[(r + 0) + x]
    <3> SUFFICES ASSUME NEW x \in 1..Len(u) PROVE u[x] = v[(r + 0) + x]
      OBVIOUS
    <3>1. x \in Nat \ {0} /\ x \in 1..Len(stream) + Len(b)
      BY <2>1, <2>6
    <3>2. CASE x <= Len(stream)
      <4>1. x \in 1..Len(stream) /\ (r + 0) + x \in 1..r + (0 + Len(stream))
        BY <2>1, <3>1, <3>2
      <4>2. (r + 0) + x \in 1..Len(w)
        BY <2>5, <4>1, Zenon
      <4> QED
        BY <2>5, <2>6, <4>1, <4>2, Zenon
    <3>3. CASE x > Len(stream)
      <4> DEFINE y == x - Len(stream)
      <4>1. /\ y \in 1..Len(b) /\ Len(stream) + y = x
            /\ (r + 0) + x = (r + (0 + Len(stream))) + y
        BY <2>1, <3>1, <3>3
      <4> HIDE DEF y
      <4>2. v[(r + 0) + x] = v[Len(w) + y]
        BY <2>5, <4>1, Zenon
      <4> QED
        BY <2>6, <4>1, <4>2
    <3> QED
      BY <2>1, <3>1, <3>2, <3>3
  <2>9. stream' = u /\ Len(segment') = 0
    BY <1>2, <1>3, <2>4 DEF u, b
  <2>10. /\ r + (Len(segment') + Len(stream')) = Len(v)
         /\ \A x \in 1..Len(segment') : segment'[x] = v[r + x]
         /\ \A x \in 1..Len(stream') : stream'[x] = v[(r + Len(segment')) + x]
    <3>1. \A x \in 1..0 : FALSE
      OBVIOUS
    <3> QED
      BY <2>7, <2>8, <2>9, <3>1, Zenon
  <2> QED
    BY <2>10, Zenon DEF Left, r
<1>12. Wire(sent, v, st2)' /\ Debt(sent, ow2)'
  BY <1>2, <1>7, <1>8, Zenon
<1>13. Left(v, st2[m + 1] + k)'
  BY <1>10, <1>11, Zenon
<1>14. CASE k = 0
  <2>1. Between(m) /\ calls = ow[m]
    BY <1>1, <1>14 DEF Progress
  <2>2. Between(m)' /\ calls' = ow2[m]
    BY <1>3, <1>10, <2>1 DEF Between
  <2>3. Progress(v, st2, ow2, m, k)'
    BY <1>4, <1>10, <1>12, <1>13, <1>14, <2>2, Zenon DEF Progress
  <2> QED
    BY <1>3, <2>3, Zenon DEF InStep
<1>15. CASE k # 0
  <2>1. m < Len(sent) /\ k < Size(sent[m + 1]) /\ InPacket(sent[m + 1], m, k, ow[m])
    BY <1>1, <1>15 DEF Progress
  <2>2. sent'[m + 1] = sent[m + 1] /\ m < Len(sent')
    <3>1. m + 1 \in 1..Len(sent) /\ m < Len(sent) + 1
      BY <1>4, <1>5, <2>1
    <3> QED
      BY <1>9, <3>1
  <2>3. InPacket(sent[m + 1], m, k, ow2[m])'
    <3>1. PICK q : q = sent[m + 1]
      OBVIOUS
    <3>2. PICK told : told = ow[m]
      OBVIOUS
    <3>3. InPacket(q, m, k, told)
      BY <2>1, <3>1, <3>2
    <3>4. InPacket(q, m, k, told)'
      BY <1>3, <3>3 DEF InPacket, InLength, InHeader, InStatus, InPayload, TopicRead
    <3> QED
      BY <1>10, <2>2, <3>1, <3>2, <3>4
  <2>4. k < Size(sent[m + 1])'
    BY <2>1, <2>2
  <2>5. Progress(v, st2, ow2, m, k)'
    BY <1>4, <1>10, <1>12, <1>13, <1>15, <2>2, <2>3, <2>4, Zenon DEF Progress
  <2> QED
    BY <1>3, <2>5, Zenon DEF InStep
<1> QED
  BY <1>14, <1>15

\* Cutting the stream into segments changes nothing of what is to be read.
LEMMA StepReceives ==
  ASSUME TypeOK, ~violated, InStep, Receive
  PROVE  InStep'
<1>1. PICK w, st, ow, m, k : Progress(w, st, ow, m, k)
  BY DEF InStep
<1>2. PICK n \in 1..Len(stream) :
         segment' = SubSeq(stream, 1, n) /\ stream' = SubSeq(stream, n + 1, Len(stream))
  BY DEF Receive
<1>3. /\ segment = <<>>
      /\ UNCHANGED <<violated, tcp, state, sent, bufferState, packet, lengthBuffer,
                     remainingLength, topicBuffer, connects, calls>>
  BY DEF Receive, place
<1>4. stream \in Seq(Byte) /\ Len(stream) \in Nat /\ n \in Nat /\ n <= Len(stream)
  BY DEF TypeOK
<1>5. /\ Len(segment') = n /\ \A x \in 1..n : segment'[x] = stream[x]
      /\ Len(stream') = Len(stream) - n
      /\ \A x \in 1..Len(stream) - n : stream'[x] = stream[n + x]
  BY <1>2, <1>4
<1>6. ASSUME NEW r \in Nat, Left(w, r) PROVE Left(w, r)'
  <2>1. r + (0 + Len(stream)) = Len(w) /\ \A x \in 1..Len(stream) : stream[x] = w[(r + 0) + x]
    <3>1. Len(segment) = 0
      BY <1>3
    <3> QED
      BY <1>6, <3>1, Zenon DEF Left
  <2>2. r + (n + (Len(stream) - n)) = Len(w)
    <3>1. r + (n + (Len(stream) - n)) = r + (0 + Len(stream))
      BY <1>4
    <3> QED
      BY <2>1, <3>1, Zenon
  <2>3. \A x \in 1..n : segment'[x] = w[r + x]
    <3>1. \A x \in 1..n : x \in 1..Len(stream) /\ (r + 0) + x = r + x
      BY <1>4
    <3> QED
      BY <1>5, <2>1, <3>1
  <2>4. \A x \in 1..Len(stream) - n : stream'[x] = w[(r + n) + x]
    <3>1. \A x \in 1..Len(stream) - n : n + x \in 1..Len(stream) /\ (r + 0) + (n + x) = (r + n) + x
      BY <1>4
    <3> QED
      BY <1>5, <2>1, <3>1
  <2>5. /\ r + (Len(segment') + Len(stream')) = Len(w)
        /\ \A x \in 1..Len(segment') : segment'[x] = w[r + x]
        /\ \A x \in 1..Len(stream') : stream'[x] = w[(r + Len(segment')) + x]
    BY <1>5, <2>2, <2>3, <2>4, Zenon
  <2> QED
    BY <2>5, Zenon DEF Left
<1>7. st[m + 1] + k \in Nat
  <2>1. /\ m \in 0..Len(sent) /\ k \in Nat /\ sent \in Seq(Sendable)
        /\ st \in [1..Len(sent) + 1 -> Nat]
    BY <1>1, Zenon DEF Progress, Wire
  <2>2. m + 1 \in 1..Len(sent) + 1
    BY <2>1
  <2> QED
    BY <2>1, <2>2
<1>8. Left(w, st[m + 1] + k)'
  <2>1. PICK r \in Nat : r = st[m + 1] + k
    BY <1>7
  <2> QED
    BY <1>1, <1>6, <2>1 DEF Progress
<1>9. Progress(w, st, ow, m, k)'
  <2>1. Between(m)' <=> Between(m)
    BY <1>3 DEF Between
  <2>2. InPacket(sent[m + 1], m, k, ow[m])' <=> InPacket(sent[m + 1], m, k, ow[m])
    <3>1. PICK q : q = sent[m + 1]
      OBVIOUS
    <3>2. PICK told : told = ow[m]
      OBVIOUS
    <3>3. InPacket(q, m, k, told)' <=> InPacket(q, m, k, told)
      BY <1>3 DEF InPacket, InLength, InHeader, InStatus, InPayload, TopicRead
    <3> QED
      BY <1>3, <3>1, <3>2, <3>3
  <2>3. UNCHANGED <<sent, calls>>
    BY <1>3
  <2> QED
    BY <1>1, <1>8, <2>1, <2>2, <2>3 DEF Progress
<1> QED
  BY <1>3, <1>9, Zenon DEF InStep

\* The program starts in step.
LEMMA InitInStep == Init => InStep
<1>1. Init => Fresh
  BY DEF Init, Fresh, Between
<1> QED
  BY <1>1, FreshInStep

\* Between two connections.
LEMMA StepApart ==
  ASSUME TypeOK, ~violated, InStep, TcpConnects \/ TcpDrops
  PROVE  InStep'
<1>1. CASE TcpConnects
  <2>1. sent = <<>>
    BY <1>1 DEF InStep, TcpConnects
  <2>2. stream = <<>> /\ segment = <<>> /\ Between(0)
    BY <2>1, NothingUnread
  <2>3. Fresh'
    BY <1>1, <2>2 DEF TcpConnects, place, Fresh, Between
  <2> QED
    BY <2>3, FreshInStep, PTL
<1>2. CASE TcpDrops
  <2>1. Len(lengthBuffer) \in 0..3
    BY FewLeftOver
  <2>2. Fresh'
    BY <1>2, <2>1 DEF TcpDrops, clear, Fresh, Between
  <2> QED
    BY <2>2, FreshInStep, PTL
<1> QED
  BY <1>1, <1>2

\* A restart puts the parser in step.
LEMMA StepCrash ==
  ASSUME Crash
  PROVE  InStep'
<1>1. Fresh'
  BY DEF Crash, clear, Fresh, Between
<1> QED
  BY <1>1, FreshInStep, PTL

\* The invariant survives every step: with a peer that has left MQTT nothing is
\* claimed, and with one that keeps to it each action has its lemma.
LEMMA StayInStep ==
  ASSUME TypeOK, InStep, [Next]_vars
  PROVE  InStep'
<1>1. CASE Crash
  BY <1>1, StepCrash
<1>2. CASE UNCHANGED vars
  <2>1. UNCHANGED <<tcp, sent, stream, segment, bufferState, packet, lengthBuffer,
                    remainingLength, topicBuffer, calls, violated>>
    BY <1>2 DEF vars, peer, place
  <2>2. ASSUME ~violated PROVE InStep'
    <3>1. PICK w, st, ow, m, k : Progress(w, st, ow, m, k)
      BY <2>2 DEF InStep
    <3>2. Progress(w, st, ow, m, k)'
      BY <2>1, <3>1 DEF Progress, Left, Between, InPacket, InLength, InHeader, InStatus,
         InPayload, TopicRead
    <3> QED
      BY <2>1, <2>2, <3>2, Zenon DEF InStep
  <2> QED
    BY <2>1, <2>2 DEF InStep
<1>3. CASE violated /\ Next /\ ~Crash
  <2>1. violated'
    BY <1>3, Zenon DEF Next, TcpConnects, TcpDrops, PeerSends, PeerViolates, Receive, Turn
  <2> QED
    BY <2>1 DEF InStep
<1>4. CASE PeerViolates
  BY <1>4 DEF PeerViolates, InStep
<1>5. ASSUME ~violated, TcpConnects \/ TcpDrops \/ PeerSends \/ Receive \/ Turn
      PROVE  InStep'
  BY <1>5, StepApart, StepSends, StepReceives, StepTurn
<1> QED
  BY <1>1, <1>2, <1>3, <1>4, <1>5 DEF Next

\* The parser is in step with what the peer sent, always: wherever the stream was
\* cut and earlier connections broke off (AsyncMqttClient.cpp:248-329).
THEOREM InStepAlways == Spec => []InStep
<1> QED
  BY TypeInit, TypeNext, InitInStep, StayInStep, PTL DEF Spec

\* The four bytes of _remainingLengthBuffer are enough, although its position
\* survives a connection (AsyncMqttClient.hpp:137, AsyncMqttClient.cpp:306).
THEOREM LengthAlwaysFits == Spec => []LengthFits
<1>1. InStep => LengthFits
  <2>1. \A n : n \in 0..3 => n < 4
    OBVIOUS
  <2> QED
    BY <2>1, FewLeftOver, Zenon DEF LengthFits
<1> QED
  BY <1>1, InStepAlways, PTL

---------------------------------------------------------------------------
(* What follows from the invariant. *)

\* A place from which the parser can go on.
Sound ==
  \/ bufferState = "NONE" /\ (packet = None \/ packet.ignore)
  \/ bufferState = "REMAINING_LENGTH"
  \/ bufferState = "VARIABLE_HEADER" /\ packet # None /\ packet.type # "PINGRESP"
  \/ /\ bufferState = "PAYLOAD" /\ packet # None
     /\ packet.type = "PUBLISH" => packet.payloadRead <= packet.payloadLength

\* In step, the place is sound.
LEMMA PlaceIs == InStep /\ TypeOK => (~violated => Sound)
<1> SUFFICES ASSUME InStep, TypeOK, ~violated PROVE Sound
  OBVIOUS
<1>1. PICK w, st, ow, m, k : Progress(w, st, ow, m, k)
  BY DEF InStep
<1>2. CASE k = 0
  BY <1>1, <1>2 DEF Progress, Between, Sound
<1>3. CASE k # 0
  <2>1. m \in 0..Len(sent) /\ m < Len(sent) /\ Wire(sent, w, st)
        /\ InPacket(sent[m + 1], m, k, ow[m])
    BY <1>1, <1>3 DEF Progress
  <2>2. PICK p \in Sendable : p = sent[m + 1]
    BY <2>1 DEF Wire
  <2>3. PICK told : told = ow[m]
    OBVIOUS
  <2>4. InPacket(p, m, k, told)
    BY <2>1, <2>2, <2>3
  <2>5. p.type \in {"CONNACK", "PINGRESP", "PUBLISH"} \cup Shorts
    BY Sizes
  <2>6. None.type = "none" /\ p.type # "none"
    BY <2>5 DEF None, Shorts
  <2>7. CASE InLength(p, m, k, told)
    BY <2>7 DEF InLength, Sound
  <2>8. CASE \E j \in Nat : InHeader(p, j, told)
    BY <2>6, <2>8 DEF InHeader, Sound
  <2>9. CASE \E j \in Nat : InStatus(p, j, told)
    BY <2>6, <2>9 DEF InStatus, Sound
  <2>10. CASE \E j \in Nat : InPayload(p, j, told)
    <3>1. \A x, y \in Nat : x < y => x <= y
      OBVIOUS
    <3>2. bufferState = "PAYLOAD" /\ packet.type = "PUBLISH" /\ packet.payloadLength = Len(p.payload)
          /\ packet.payloadRead < Len(p.payload) /\ p.type = "PUBLISH"
      BY <2>10 DEF InPayload
    <3>3. packet # None
      BY <2>6, <3>2
    <3>4. packet.payloadRead \in Nat /\ Len(p.payload) \in Nat
      BY <3>2, <3>3, MessageSizes DEF TypeOK, Packet
    <3> QED
      BY <3>1, <3>2, <3>3, <3>4 DEF Sound
  <2>11. InLength(p, m, k, told)
         \/ \E j \in Nat : InHeader(p, j, told) \/ InStatus(p, j, told) \/ InPayload(p, j, told)
    BY <2>4, Zenon DEF InPacket
  <2> QED
    BY <2>7, <2>8, <2>9, <2>10, <2>11, Zenon
<1> QED
  BY <1>2, <1>3

\* _currentParsedPacket is there whenever it is called, and it reads on within
\* the segment, as long as the peer speaks MQTT (AsyncMqttClient.cpp:319 and 322).
THEOREM PacketIsPresent == Spec => []PacketPresent
<1>1. InStep /\ TypeOK => PacketPresent
  <2>1. ASSUME InStep, TypeOK, ~violated, Derailed PROVE FALSE
    <3>1. Sound
      BY <2>1, PlaceIs
    <3>2. CASE bufferState = "PAYLOAD" /\ packet.type = "PUBLISH"
               /\ packet.payloadRead > packet.payloadLength
      <4>1. packet # None /\ packet.payloadRead <= packet.payloadLength
        BY <3>1, <3>2 DEF Sound
      <4>2. packet.payloadRead \in Nat /\ packet.payloadLength \in Nat
        BY <2>1, <4>1 DEF TypeOK, Packet
      <4> QED
        BY <3>2, <4>1, <4>2
    <3> QED
      BY <2>1, <3>1, <3>2 DEF Sound, Derailed, Reading
  <2> QED
    BY <2>1 DEF PacketPresent
<1> QED
  BY <1>1, InStepAlways, TypeCorrect, PTL

\* Between two packets the last one is freed, unless its topic was too long
\* (PublishPacket.cpp:70 and 89).
THEOREM PacketIsFreed == Spec => []PacketFreed
<1>1. InStep /\ TypeOK => PacketFreed
  BY PlaceIs DEF Sound, PacketFreed
<1> QED
  BY <1>1, InStepAlways, TypeCorrect, PTL

\* What is owed in all is the last value of the debt.
LEMMA OwedIs ==
  ASSUME NEW ow, Debt(sent, ow), sent \in Seq(Sendable)
  PROVE  Owed = ow[Len(sent)]
<1> DEFINE l == Len(sent)
           isO(f) == f = [n \in 0..l |-> IF n = 0 THEN <<>> ELSE f[n - 1] \o Expected(sent[n])]
           owed == CHOOSE f : isO(f)
<1>1. Owed = owed[l]
  BY Zenon DEF Owed
<1>2. l \in Nat /\ l \in 0..l
  OBVIOUS
<1>3. /\ ow = [i \in 0..l |-> ow[i]] /\ ow[0] = <<>>
      /\ \A i \in 1..l : ow[i] = ow[i - 1] \o Expected(sent[i])
  BY DEF Debt
<1> HIDE DEF l
<1>4. isO(ow)
  <2>1. \A i \in 0..l : i = 0 \/ i \in 1..l
    BY <1>2
  <2>2. \A i \in 0..l : ow[i] = IF i = 0 THEN <<>> ELSE ow[i - 1] \o Expected(sent[i])
    BY <1>3, <2>1, Zenon
  <2> QED
    BY <1>3, <2>2, Zenon
<1>5. isO(owed)
  BY <1>4, Zenon
<1> HIDE DEF owed
<1>6. Alike(owed, ow, l)
  <2>1. 0 \in 0..l /\ \A i \in 1..l : i \in 0..l /\ i # 0
    BY <1>2
  <2>2. \A i \in 0..l : owed[i] = IF i = 0 THEN <<>> ELSE owed[i - 1] \o Expected(sent[i])
    BY <1>5, Zenon
  <2>3. owed[0] = <<>>
    BY <2>1, <2>2, Zenon
  <2>4. \A i \in 1..l : owed[i] = owed[i - 1] \o Expected(sent[i])
    BY <2>1, <2>2, Zenon
  <2> QED
    BY <1>3, <2>3, <2>4, Zenon DEF Alike
<1>7. owed[l] = ow[l]
  BY <1>2, <1>6, SameSteps, Zenon
<1> QED
  BY <1>1, <1>7, Zenon DEF l

\* The beginning of a message.
LEMMA PartTells ==
  ASSUME NEW p \in Sendable, p.type = "PUBLISH", NEW r \in 0..Len(p.payload)
  PROVE  Tells(Part(p, r), Part(p, Len(p.payload)), TRUE)
<1> DEFINE l == Len(p.payload)
           a == SubSeq(p.payload, 1, r)
           b == SubSeq(p.payload, 1, l)
<1>1. l \in 0..l /\ r \in Nat /\ r <= l
  BY MessageSizes
<1>2. Len(a) = r /\ Len(b) = l /\ (\A i \in 1..r : a[i] = p.payload[i]) /\ b = p.payload
  BY <1>1, PartsTyped
<1>3. Part(p, r).payload = a /\ Part(p, l).payload = b
  BY DEF Part
<1>4. Part(p, l) = [Part(p, r) EXCEPT !.payload = b]
  <2>1. \A t, x, y, o, q, i :
          [type |-> "MESSAGE", topic |-> t, payload |-> y, total |-> o, qos |-> q, id |-> i]
            = [[type |-> "MESSAGE", topic |-> t, payload |-> x, total |-> o, qos |-> q, id |-> i]
                 EXCEPT !.payload = y]
    OBVIOUS
  <2>2. PICK i : i = IF p.qos = 0 THEN 0 ELSE p.id
    OBVIOUS
  <2>3. /\ Part(p, r) = [type |-> "MESSAGE", topic |-> p.topic, payload |-> a, total |-> l,
                         qos |-> p.qos, id |-> i]
        /\ Part(p, l) = [type |-> "MESSAGE", topic |-> p.topic, payload |-> b, total |-> l,
                         qos |-> p.qos, id |-> i]
    BY <2>2 DEF Part
  <2> HIDE DEF a, b, l
  <2> QED
    BY <2>3
<1>5. Part(p, r).type = "MESSAGE" /\ Part(p, l).type = "MESSAGE"
  BY DEF Part
<1>6. a \in Seq(Nat) /\ b \in Seq(Nat)
  BY <1>1, PartsTyped
<1> HIDE DEF a, b
<1>7. IsPrefix(a, b)
  <2>1. SubSeq(b, 1, Len(a)) = a
    BY <1>2, Zenon DEF a
  <2>2. SubSeq(a, 1, Len(a)) = a /\ Len(a) <= Len(b)
    BY <1>1, <1>2, <1>6
  <2> QED
    BY <2>1, <2>2, Zenon DEF IsPrefix
<1> QED
  BY <1>3, <1>4, <1>5, <1>7, Zenon DEF Tells

\* What has been told is what is owed for the packets read, and perhaps the beginning
\* of a message.
LEMMA TellsOwed == InStep /\ TypeOK => HandledInOrder
<1> SUFFICES ASSUME InStep, TypeOK, ~violated
             PROVE  /\ Len(calls) <= Len(Owed)
                    /\ \A i \in DOMAIN calls : Tells(calls[i], Owed[i], i = Len(calls))
  BY DEF HandledInOrder
<1>1. PICK w, st, ow, m, k : Progress(w, st, ow, m, k)
  BY DEF InStep
<1>2. Wire(sent, w, st) /\ Debt(sent, ow) /\ m \in 0..Len(sent) /\ sent \in Seq(Sendable)
  BY <1>1 DEF Progress, Wire
<1>3. PICK d \in Seq(Answers) : d = ow[Len(sent)]
  BY <1>2 DEF Debt
<1>4. Owed = d
  BY <1>2, <1>3, OwedIs
<1>5. PICK told \in Seq(Answers) : told = ow[m]
  BY <1>2 DEF Debt
<1>6. Len(told) <= Len(d) /\ \A x \in 1..Len(told) : told[x] = d[x]
  BY <1>2, <1>3, <1>5 DEF Debt
<1>7. CASE calls = told
  <2>1. DOMAIN calls = 1..Len(told) /\ Len(calls) = Len(told)
    BY <1>7
  <2> QED
    BY <1>4, <1>6, <1>7, <2>1, Zenon DEF Tells
<1>8. ASSUME NEW p, p = sent[m + 1], m < Len(sent), NEW r \in Nat, calls = Append(told, Part(p, r)),
             p.type = "PUBLISH", r <= Len(p.payload), Len(p.topic) <= MaxTopicLength
      PROVE  /\ Len(calls) <= Len(d)
             /\ \A i \in DOMAIN calls : Tells(calls[i], d[i], i = Len(calls))
  <2>1. m + 1 \in 1..Len(sent) /\ (m + 1) - 1 = m /\ m + 1 \in 0..Len(sent)
    BY <1>2, <1>8
  <2>2. p \in Sendable
    BY <1>2, <1>8, <2>1
  <2>3. Expected(p) = <<Part(p, Len(p.payload)), Ending(p)>>
    <3>1. Len(p.topic) \in Nat /\ MaxTopicLength \in Nat
      BY <1>8, <2>2, MessageSizes, MqttParserAssumption
    <3>2. ~ (Len(p.topic) > MaxTopicLength)
      BY <1>8, <3>1
    <3> QED
      BY <1>8, <2>2, <3>2, OwedForMessage, Zenon
  <2>4. PICK next : next = ow[m + 1]
    OBVIOUS
  <2>5. next = told \o Expected(p)
    BY <1>2, <1>5, <1>8, <2>1, <2>4 DEF Debt
  <2>6. Len(next) <= Len(d) /\ \A x \in 1..Len(next) : next[x] = d[x]
    BY <1>2, <1>3, <2>1, <2>4 DEF Debt
  <2>7. Len(Expected(p)) = 2 /\ Expected(p)[1] = Part(p, Len(p.payload)) /\ Expected(p) \in Seq(Answers)
    <3>1. Expected(p) \in Seq(Answers)
      BY <2>2, ExpectedTyped
    <3> QED
      BY <2>3, <3>1
  <2>8. Len(next) = Len(told) + 2 /\ next[Len(told) + 1] = Part(p, Len(p.payload))
    <3>1. PICK e \in Seq(Answers) : e = Expected(p)
      BY <2>7
    <3>2. Join(told, e, next) /\ Len(e) = 2 /\ e[1] = Part(p, Len(p.payload))
      BY <2>5, <2>7, <3>1, Joined, Zenon
    <3>3. 1 \in 1..Len(e)
      BY <3>2
    <3> QED
      BY <3>2, <3>3, Zenon DEF Join
  <2>9. Len(told) + 1 \in 1..Len(next) /\ Len(told) + 1 <= Len(d) /\ Len(told) \in Nat
    BY <2>6, <2>8
  <2>10. d[Len(told) + 1] = Part(p, Len(p.payload))
    BY <2>6, <2>8, <2>9, Zenon
  <2>11. Part(p, r) \in Answers /\ Tells(Part(p, r), Part(p, Len(p.payload)), TRUE)
    <3>1. r \in 0..Len(p.payload)
      BY <1>8, <2>2, MessageSizes
    <3> QED
      BY <1>8, <2>2, <3>1, PartsTyped, PartTells
  <2>12. /\ Len(calls) = Len(told) + 1 /\ calls[Len(told) + 1] = Part(p, r)
         /\ DOMAIN calls = 1..Len(told) + 1 /\ \A i \in 1..Len(told) : calls[i] = told[i]
    BY <1>8, <2>11
  <2>13. ASSUME NEW i \in DOMAIN calls PROVE Tells(calls[i], d[i], i = Len(calls))
    <3>1. CASE i \in 1..Len(told)
      BY <1>6, <2>12, <3>1, Zenon DEF Tells
    <3>2. CASE i = Len(told) + 1
      BY <2>10, <2>11, <2>12, <3>2, Zenon DEF Tells
    <3> QED
      BY <2>9, <2>12, <3>1, <3>2
  <2> QED
    BY <2>9, <2>12, <2>13
<1>9. CASE k = 0
  <2>1. calls = told
    BY <1>1, <1>5, <1>9 DEF Progress
  <2> QED
    BY <1>7, <2>1
<1>10. CASE k # 0
  <2>1. m < Len(sent) /\ InPacket(sent[m + 1], m, k, ow[m])
    BY <1>1, <1>10 DEF Progress
  <2>2. m + 1 \in 1..Len(sent)
    BY <1>2, <2>1
  <2>3. PICK p \in Sendable : p = sent[m + 1]
    BY <1>2, <2>2
  <2>4. InPacket(p, m, k, told)
    BY <1>5, <2>1, <2>3
  <2>5. CASE \E j \in Nat : InPayload(p, j, told) /\ calls # told
    <3>1. PICK j \in Nat : InPayload(p, j, told) /\ calls # told
      BY <2>5
    <3>2. /\ bufferState = "PAYLOAD" /\ packet.type = "PUBLISH" /\ p.type = "PUBLISH"
          /\ packet.payloadRead < Len(p.payload) /\ TopicRead(p, j)
          /\ calls = IF packet.payloadRead = 0 \/ packet.ignore THEN told
                     ELSE Append(told, Part(p, packet.payloadRead))
      BY <3>1, Zenon DEF InPayload
    <3>3. calls = Append(told, Part(p, packet.payloadRead)) /\ ~packet.ignore
      BY <3>1, <3>2, Zenon
    <3>4. packet \in Packet
      BY <3>2 DEF TypeOK, None
    <3>5. packet.payloadRead \in Nat /\ Len(p.payload) \in Nat /\ Len(p.topic) \in Nat
      BY <3>2, <3>4, MessageSizes DEF Packet
    <3>6. ~ (Len(p.topic) > MaxTopicLength)
      BY <3>2, <3>3, Zenon DEF TopicRead
    <3>7. packet.payloadRead <= Len(p.payload) /\ Len(p.topic) <= MaxTopicLength
      BY <3>2, <3>5, <3>6, MqttParserAssumption
    <3>8. PICK r \in Nat : r = packet.payloadRead
      BY <3>5
    <3> QED
      BY <1>4, <1>8, <2>1, <2>3, <3>2, <3>3, <3>7, <3>8
  <2>6. CASE calls = told
    BY <1>7, <2>6
  <2>7. InLength(p, m, k, told)
        \/ \E j \in Nat : InHeader(p, j, told) \/ InStatus(p, j, told) \/ InPayload(p, j, told)
    BY <2>4, Zenon DEF InPacket
  <2>8. calls = told \/ \E j \in Nat : InPayload(p, j, told)
    BY <2>7, Zenon DEF InLength, InHeader, InStatus
  <2> QED
    BY <2>5, <2>6, <2>8, Zenon
<1> QED
  BY <1>9, <1>10

\* With nothing left to read every packet has been told of.
LEMMA OwedTold == InStep /\ TypeOK => AllHandled
<1> SUFFICES ASSUME InStep, TypeOK, ~violated, stream = <<>>, segment = <<>>
             PROVE  /\ bufferState = "NONE" /\ calls = Owed
                    /\ sent # <<>> => lengthBuffer = <<>>
  BY DEF AllHandled
<1>1. PICK w, st, ow, m, k : Progress(w, st, ow, m, k)
  BY DEF InStep
<1>2. /\ Wire(sent, w, st) /\ Debt(sent, ow) /\ m \in 0..Len(sent) /\ sent \in Seq(Sendable)
      /\ k \in Nat /\ Len(sent) \in Nat
  BY <1>1 DEF Progress, Wire
<1>3. st[m + 1] + k = Len(w)
  <2>1. Len(segment) = 0 /\ Len(stream) = 0
    OBVIOUS
  <2>2. (st[m + 1] + k) + (0 + 0) = Len(w)
    BY <1>1, <2>1, Zenon DEF Progress, Left
  <2>3. st[m + 1] + k \in Nat
    BY <1>2 DEF Wire
  <2>4. \A x \in Nat : x + (0 + 0) = x
    OBVIOUS
  <2> QED
    BY <2>2, <2>3, <2>4, Zenon
<1>4. m = Len(sent) /\ k = 0
  <2>1. ASSUME m < Len(sent) PROVE st[m + 1] + Size(sent[m + 1]) <= Len(w) /\ Size(sent[m + 1]) \in Nat \ {0}
    <3>1. m + 1 \in 1..Len(sent) /\ (m + 1) + 1 \in 1..Len(sent) + 1
      BY <1>2, <2>1
    <3>2. st[(m + 1) + 1] = st[m + 1] + Size(sent[m + 1]) /\ st[(m + 1) + 1] <= Len(w)
      BY <1>2, <3>1 DEF Wire
    <3>3. PICK p \in Sendable : p = sent[m + 1]
      BY <1>2, <3>1
    <3>4. Size(p) = Offset(p) + Len(Body(p)) /\ Offset(p) \in 2..5 /\ Len(Body(p)) \in Nat
      BY BytesAre, Sizes
    <3>5. Size(p) \in Nat \ {0}
      BY <3>4
    <3>6. st[m + 1] + Size(sent[m + 1]) <= Len(w)
      BY <3>2, Zenon
    <3>7. Size(sent[m + 1]) \in Nat \ {0}
      BY <3>3, <3>5
    <3> QED
      BY <3>6, <3>7, Zenon
  <2>2. k # 0 => m < Len(sent) /\ k < Size(sent[m + 1])
    BY <1>1 DEF Progress
  <2>3. st[m + 1] \in Nat /\ Len(w) \in Nat
    <3>1. m + 1 \in 1..Len(sent) + 1
      BY <1>2
    <3>2. st \in [1..Len(sent) + 1 -> Nat] /\ w \in Seq(Byte)
      BY <1>2, Zenon DEF Wire
    <3> QED
      BY <3>1, <3>2
  <2>4. ~ (m < Len(sent))
    <3> SUFFICES ASSUME m < Len(sent) PROVE FALSE
      OBVIOUS
    <3>1. PICK z \in Nat \ {0} : z = Size(sent[m + 1])
      BY <2>1
    <3>2. st[m + 1] + z <= Len(w) /\ k < z
      BY <2>1, <2>2, <3>1
    <3>3. PICK y \in Nat : y = st[m + 1]
      BY <2>3
    <3>4. y + k = Len(w) /\ y + z <= Len(w)
      BY <1>3, <3>2, <3>3, Zenon
    <3> QED
      BY <1>2, <2>3, <3>2, <3>4
  <2> QED
    BY <1>2, <2>2, <2>4
<1>5. Between(m) /\ calls = ow[m]
  BY <1>1, <1>4 DEF Progress
<1>6. Owed = ow[Len(sent)]
  BY <1>2, OwedIs
<1>7. sent # <<>> => m # 0
  BY <1>2, <1>4
<1> QED
  BY <1>4, <1>5, <1>6, <1>7 DEF Between

\* The callbacks are told what the peer sent, in its order, nothing twice and the
\* parts of a payload one after another (AsyncMqttClient.cpp:248-329,
\* docs/3.-Memory-management.md:12).
THEOREM ToldInOrder == Spec => []HandledInOrder
BY TellsOwed, InStepAlways, TypeCorrect, PTL

\* When everything has been read everything has been handled, and the parser waits
\* for the first byte of a packet.
THEOREM EverythingTold == Spec => []AllHandled
BY OwedTold, InStepAlways, TypeCorrect, PTL
=============================================================================
