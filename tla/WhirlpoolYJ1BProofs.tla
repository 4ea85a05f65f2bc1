------------------------ MODULE WhirlpoolYJ1BProofs ------------------------
(* The receiver reads from a frame what the object holds, for every object  *)
(* whose fields are within their widths.                                    *)
EXTENDS WhirlpoolYJ1B, SequenceTheorems, TLAPS

---------------------------------------------------------------------------
(* The frame and its receiver.                                             *)

\* Eight bits, least significant first, make up their byte again.
LEMMA Octet ==
  ASSUME NEW x \in Uint8
  PROVE  /\ x = (x % 2) + ((x \div 2) % 2) * 2 + ((x \div 4) % 2) * 4
                + ((x \div 8) % 2) * 8 + ((x \div 16) % 2) * 16
                + ((x \div 32) % 2) * 32 + ((x \div 64) % 2) * 64
                + ((x \div 128) % 2) * 128
         /\ x \div 1 = x
  BY DEF Uint8

\* Every byte of the union is one.
LEMMA RawBytes ==
  ASSUME NEW d \in WhirlpoolYJ1BData
  PROVE  \A k \in 1..8 : Raw(d)[k] \in Uint8
  BY DEF Raw, Uint8, WhirlpoolYJ1BData

LEMMA FrameBitsAre ==
  ASSUME NEW d \in WhirlpoolYJ1BData, NEW k \in 1..8, NEW j \in 0..7
  PROVE  Frame(d)[8 * (k - 1) + j + 1] = (Raw(d)[k] \div Pow2(j)) % 2
<1> DEFINE i == 8 * (k - 1) + j + 1
<1>1. i \in 1..FrameBits /\ ((i - 1) \div 8) + 1 = k /\ (i - 1) % 8 = j
  BY DEF FrameBits
<1>2. Frame(d)[i] = (Raw(d)[((i - 1) \div 8) + 1] \div Pow2((i - 1) % 8)) % 2
  BY <1>1, Zenon DEF Frame
<1> QED
  BY <1>1, <1>2

LEMMA FrameIsBits ==
  ASSUME NEW d \in WhirlpoolYJ1BData
  PROVE  Frame(d) \in [1..FrameBits -> 0..1] /\ Len(Frame(d)) = FrameBits
<1>1. \A i \in 1..FrameBits :
        ((i - 1) \div 8) + 1 \in 1..9 /\ (i - 1) % 8 \in 0..7
  BY DEF FrameBits
<1>2. \A k \in 1..9 : Raw(d)[k] \in Int
  BY DEF Raw, WhirlpoolYJ1BData
<1>3. \A j \in 0..7 : Pow2(j) \in Nat \ {0}
  BY DEF Pow2
<1>4. \A x \in Int : x % 2 \in 0..1
  OBVIOUS
<1>5. \A x \in Int, y \in Nat \ {0} : x \div y \in Int
  OBVIOUS
<1>6. Frame(d) \in [1..FrameBits -> 0..1]
  BY <1>1, <1>2, <1>3, <1>4, <1>5 DEF Frame
<1>7. FrameBits \in Nat
  BY DEF FrameBits
<1>8. Frame(d) \in Seq(0..1)
  BY <1>6, <1>7, SeqDef
<1>9. 1..Len(Frame(d)) = 1..FrameBits /\ Len(Frame(d)) \in Nat
  BY <1>6, <1>8, LenProperties
<1> QED
  BY <1>6, <1>7, <1>9

\* The receiver assembles the bytes that were sent.
LEMMA BytesArrive ==
  ASSUME NEW d \in WhirlpoolYJ1BData, NEW k \in 1..8
  PROVE  translateToByte(Frame(d))[k] = Raw(d)[k]
<1> DEFINE bits == Frame(d)
           bit(i) == IF i <= Len(bits) THEN bits[i] ELSE 0
           b(j) == bit(8 * (k - 1) + j + 1) * Pow2(j)
           x == Raw(d)[k]
<1>1. Len(bits) = 68
  BY FrameIsBits DEF FrameBits
<1>2. translateToByte(bits)[k] = b(0) + b(1) + b(2) + b(3) + b(4) + b(5) + b(6) + b(7)
  <2>1. k \in 1..((Len(bits) + 7) \div 8)
    BY <1>1
  <2> QED
    BY <2>1 DEF translateToByte
<1>3. \A j \in 0..7 : b(j) = ((x \div Pow2(j)) % 2) * Pow2(j)
  <2> SUFFICES ASSUME NEW j \in 0..7
               PROVE  b(j) = ((x \div Pow2(j)) % 2) * Pow2(j)
    OBVIOUS
  <2>1. 8 * (k - 1) + j + 1 <= Len(bits)
    BY <1>1
  <2> QED
    BY <2>1, FrameBitsAre
<1>4. x \in Uint8
  BY RawBytes
<1> HIDE DEF b, x
<1>5. /\ b(0) = x % 2              /\ b(1) = ((x \div 2) % 2) * 2
      /\ b(2) = ((x \div 4) % 2) * 4 /\ b(3) = ((x \div 8) % 2) * 8
      /\ b(4) = ((x \div 16) % 2) * 16 /\ b(5) = ((x \div 32) % 2) * 32
      /\ b(6) = ((x \div 64) % 2) * 64 /\ b(7) = ((x \div 128) % 2) * 128
  BY <1>3, <1>4, Octet DEF Pow2, Uint8
<1> QED
  BY <1>2, <1>4, <1>5, Octet DEF x

LEMMA BitsArrive ==
  ASSUME NEW d \in WhirlpoolYJ1BData
  PROVE  /\ Frame(d)[4] = (Raw(d)[1] \div 8) % 2
         /\ Frame(d)[7] = (Raw(d)[1] \div 64) % 2
         /\ Frame(d)[8] = (Raw(d)[1] \div 128) % 2
  BY FrameBitsAre DEF Pow2

\* No field of the union overlaps another one: the receiver reads them all.
LEMMA FieldsArrive ==
  ASSUME NEW d \in WhirlpoolYJ1BData
  PROVE  LET heard == printCommon(Frame(d))
         IN  /\ heard.mode = d.mode /\ heard.power = d.power
             /\ heard.fan = d.fan /\ heard.swing = d.swing
             /\ heard.sleep = d.sleep /\ heard.jet = d.jet
             /\ heard.light = d.light
             /\ heard.temperature = d.temperature + 16
             /\ heard.hours = d.clock_Hours
             /\ heard.minutes = d.clock_Minutes
<1> DEFINE bytes == translateToByte(Frame(d))
<1>1. \A k \in 1..8 : bytes[k] = Raw(d)[k]
  BY BytesArrive
<1>2. /\ bytes[1] = d.mode + 8 * d.power + 16 * d.fan + 64 * d.swing + 128 * d.sleep
      /\ bytes[2] = d.temperature + 16 * d.clock_Seconds
      /\ bytes[3] = d.clock_Minutes + 64 * d.clock_AM_PM
      /\ bytes[4] = d.clock_Hours
      /\ bytes[7] = 16 * d.jet + 32 * d.light
      /\ Raw(d)[1] = d.mode + 8 * d.power + 16 * d.fan + 64 * d.swing + 128 * d.sleep
  BY <1>1 DEF Raw
<1>3. /\ d.mode \in 0..7 /\ d.power \in 0..1 /\ d.fan \in 0..3 /\ d.swing \in 0..1
      /\ d.sleep \in 0..1 /\ d.temperature \in 0..15 /\ d.clock_Seconds \in 0..15
      /\ d.clock_Minutes \in 0..63 /\ d.clock_AM_PM \in 0..1
      /\ d.clock_Hours \in 0..15 /\ d.jet \in 0..1 /\ d.light \in 0..1
  BY DEF WhirlpoolYJ1BData
<1> HIDE DEF bytes
<1>4. /\ bytes[1] % 8 = d.mode /\ (Raw(d)[1] \div 8) % 2 = d.power
      /\ (bytes[1] \div 16) % 4 = d.fan /\ (Raw(d)[1] \div 64) % 2 = d.swing
      /\ (Raw(d)[1] \div 128) % 2 = d.sleep
  BY <1>2, <1>3
<1>5. /\ bytes[2] % 16 = d.temperature /\ bytes[3] % 64 = d.clock_Minutes
      /\ bytes[4] % 16 = d.clock_Hours
      /\ (bytes[7] \div 16) % 2 = d.jet /\ (bytes[7] \div 32) % 2 = d.light
  BY <1>2, <1>3
<1> QED
  BY <1>4, <1>5, BitsArrive DEF printCommon, bytes
=============================================================================
