-------------------------- MODULE EnvironmentSensor --------------------------
(***************************************************************************)
(* The temperature and humidity sensor: the driver DHTNEW (lib/DHTNew-     *)
(* master), which finds out by trial which sensor is connected, and the    *)
(* object DHTSensor (src/src/DHTSensor.cpp), which reads it once in        *)
(* ReadRate ticks and keeps the reading or the error for the REST route    *)
(* and the serial console.  Time is millis() in ticks of two seconds; the  *)
(* counter wraps.                                                          *)
(***************************************************************************)
EXTENDS Integers

CONSTANTS
  Wrap,        \* millis() counts modulo Wrap
  ReadRate,    \* DHT_READ_RATE, 20000 ms
  ReadDelay    \* DHTLIB_DHT22_READ_DELAY, 2000 ms

ASSUME ClockAssumption ==
  /\ ReadDelay \in Nat \ {0}
  /\ ReadRate \in Nat /\ ReadRate >= ReadDelay
  /\ Wrap \in Nat /\ Wrap > ReadRate + 1

Ticks == 0..Wrap - 1

\* Unsigned subtraction of two values of millis().
Since(t, u) == (t - u) % Wrap

Kinds == {11, 22}
Unknown == 0

\* What comes back on the data line: nothing usable (a time-out of one of the
\* waits, or the shifted first bit), forty bits with a wrong sum, forty good
\* bits.
Samples == {"none", "corrupt", "whole"}

\* A DHT11 sleeps through the 1 ms wake-up pulse of a DHT22 and is not ready
\* within 50 us; a DHT22 answers the 18 ms pulse of a DHT11 too.
Answers(kind, type) == IF kind = 11 /\ type = 22 THEN {"none"} ELSE Samples

---------------------------------------------------------------------------
\* DHTNEW: _humidity and _temperature together, the bits decoded in the format
\* of a type and whether their sum was right, or NoValues; _type; _lastRead.
Decoded == [format : Kinds, whole : BOOLEAN]
NoValues == [format |-> Unknown, whole |-> FALSE]

NewDriver == [type |-> Unknown, lastRead |-> 0, values |-> NoValues]

\* As it would be without the comparison of the sum.
ResultUnchecked(sample) == IF sample = "none" THEN "timeout" ELSE "ok"

Result(sample) ==
  CASE sample = "none"    -> "timeout"
    [] sample = "corrupt" -> "checksum"
    [] sample = "whole"   -> "ok"

\* _read stores the values before it compares the sum.
Sampled(d, type, t, sample) ==
  [type     |-> type,
   lastRead |-> t,
   values   |-> IF sample = "none" THEN NoValues
                ELSE [format |-> type, whole |-> sample = "whole"]]

\* The pairs [driver, result] that read() can end in at time t.
ReadKnown(d, kind, t) ==
  IF Since(t, d.lastRead) < ReadDelay
  THEN { [driver |-> d, result |-> "waiting"] }
  ELSE { [driver |-> Sampled(d, d.type, t, s), result |-> Result(s)] :
           s \in Answers(kind, d.type) }

\* An unknown sensor is read as a DHT22 first, then as a DHT11; the type that
\* answers stays, when none does it is unknown again.
ReadUnknown(d, kind, t) ==
  LET first(s)  == [driver |-> Sampled(d, 22, t, s), result |-> Result(s)]
      second(s) ==
        LET e == Sampled(d, 11, t, s)
        IN  [driver |-> IF s = "whole" THEN e ELSE [e EXCEPT !.type = Unknown],
             result |-> Result(s)]
  IN  { first(s) : s \in Answers(kind, 22) \cap {"whole"} }
        \cup { second(s) : s \in Answers(kind, 11) }

read(d, kind, t) ==
  IF d.type = Unknown THEN ReadUnknown(d, kind, t) ELSE ReadKnown(d, kind, t)

---------------------------------------------------------------------------
\* DHTSensor: m_humidity and m_temperature together, NoValues when the two
\* optionals are empty; m_lastError, "ok" when it is empty.
Errors == {"ok", "waiting", "timeout", "checksum"}

NewSensor == [reading |-> NoValues, error |-> "waiting"]

DueAlways(t, lastTime) == TRUE
DueLater(t, lastTime) == t > (lastTime + ReadRate) % Wrap
DueSigned(t, lastTime) == t - lastTime > ReadRate
Due(t, lastTime) == Since(t, lastTime) > ReadRate

\* The body of the if in DHTSensor::loop for the outcome r of read().
Kept(r) ==
  IF r.result = "ok" THEN [reading |-> r.driver.values, error |-> "ok"]
  ELSE [reading |-> NoValues, error |-> r.result]
=============================================================================
