--------------------------- MODULE WhirlpoolYJ1B ---------------------------
(***************************************************************************)
(* The remote-control state of the air conditioner, class WhirlpoolYJ1B    *)
(* (src/src/Whirlpool_YJ1B.hpp, .cpp), as operators on a record that has   *)
(* one field per bit field of union WhirlpoolYJ1BData; the infrared frame  *)
(* that the firmware puts on air from that union; and the receiver kept in *)
(* Documentation/rPI/Receive, which decodes the frame again.               *)
(*                                                                         *)
(* The timer bit fields and the bits named "unknown" are never assigned by *)
(* the firmware and keep the zero of static storage: they appear as zero   *)
(* bits of Raw and have no field.                                          *)
(***************************************************************************)
EXTENDS Integers, Sequences

Pow2(n) == CASE n = 0 -> 1  [] n = 1 -> 2  [] n = 2 -> 4  [] n = 3 -> 8
             [] n = 4 -> 16 [] n = 5 -> 32 [] n = 6 -> 64 [] n = 7 -> 128

Uint8 == 0..255

\* The conversion of an int argument to a uint8_t parameter.
ToUint8(n) == n % 256

Mode == 0..4        \* enum class Mode: Sense_6th, Cool, Dry, Fan, Heat
Fan  == 0..3        \* enum class Fan: Auto, V1, V2, V3

\* A time of day as localtime_r reports it (tm_sec goes up to 61).
TimeOfDay == [hour : 0..23, min : 0..59, sec : 0..61]

\* The union's bit fields with the width each of them has.
WhirlpoolYJ1BData ==
  [mode : 0..7, power : 0..1, fan : 0..3, swing : 0..1, sleep : 0..1,
   temperature : 0..15, clock_Seconds : 0..15,
   clock_Minutes : 0..63, clock_AM_PM : 0..1, clock_Hours : 0..15,
   jet : 0..1, light : 0..1]

\* The fields that a caller can set; the others are the clock's.
Settings == {"mode", "power", "fan", "swing", "sleep", "temperature", "jet", "light"}

---------------------------------------------------------------------------
(* Setters.  Each one assigns its own bit field, after the conversion the  *)
(* code applies to the argument.                                           *)

setMode(d, mode)   == [d EXCEPT !.mode = mode]
setPower(d, power) == [d EXCEPT !.power = power]
setFan(d, fan)     == [d EXCEPT !.fan = fan]
setSwing(d, swing) == [d EXCEPT !.swing = swing]
setSleep(d, sleep) == [d EXCEPT !.sleep = sleep]

\* Mutation: jet also selects the highest fan speed.
setJetMax(d, jet) == [d EXCEPT !.jet = jet, !.fan = IF jet = 1 THEN 3 ELSE @]

setJet(d, jet)     == [d EXCEPT !.jet = jet]
setLight(d, light) == [d EXCEPT !.light = light]

\* Mutation: a degree too many passes the upper clamp.
setTemperatureLoose(d, temp) ==
  [d EXCEPT !.temperature = IF temp > 31 THEN 14
                            ELSE IF temp < 16 THEN 0
                            ELSE temp - 16]

\* temp is the uint8_t parameter: the clamp sees it after the conversion.
setTemperature(d, temp) ==
  [d EXCEPT !.temperature = IF temp > 30 THEN 14
                            ELSE IF temp < 16 THEN 0
                            ELSE temp - 16]

\* Mutation: the whole second instead of its quarter of a minute.
setClockSecondsWhole(d, seconds) == [d EXCEPT !.clock_Seconds = seconds % 60]

setClockSeconds(d, seconds) ==
  [d EXCEPT !.clock_Seconds = (seconds % 60) \div 15]

setClockMinutes(d, minutes) == [d EXCEPT !.clock_Minutes = minutes % 60]

\* Mutation: the four-bit field is given the hour of the day.
setClockHoursOfDay(d, hours) ==
  [d EXCEPT !.clock_Hours = hours % 16,
            !.clock_AM_PM = IF hours >= 12 THEN 1 ELSE @]

\* The AM/PM bit is only ever set here, never cleared.
setClockHours(d, hours) ==
  [d EXCEPT !.clock_Hours = hours % 12,
            !.clock_AM_PM = IF hours >= 12 THEN 1 ELSE @]

\* The three calls onCommit makes with the time it reads (main.cpp).
setClock(d, t) ==
  setClockSeconds(setClockMinutes(setClockHours(d, t.hour), t.min), t.sec)

\* Static storage: g_whirpool is zeroed before its constructor runs.
Zeroed == [mode |-> 0, power |-> 0, fan |-> 0, swing |-> 0, sleep |-> 0,
           temperature |-> 0, clock_Seconds |-> 0, clock_Minutes |-> 0,
           clock_AM_PM |-> 0, clock_Hours |-> 0, jet |-> 0, light |-> 0]

\* What the constructor WhirlpoolYJ1B() leaves behind.
PowerOnData ==
  setTemperature(setLight(setMode(setFan(Zeroed, 0), 1), 1), 24)

---------------------------------------------------------------------------
(* Getters: what is reported over MQTT and REST.                           *)

getTemperature(d) == d.temperature + 16

OnOffText(bit) == IF bit = 1 THEN "On" ELSE "Off"

\* mapMode has bool keys: 1, 2, 3 and 4 are the same key and the first
\* entry inserted for it, "Cool", is the one that stays.
getModeText(d) == IF d.mode = 0 THEN "Sense_6th" ELSE "Cool"

getFanText(d) == <<"Auto", "V1", "V2", "V3">>[d.fan + 1]

\* The document getJson() serialises; the clock is not part of it.
getJson(d) ==
  [temperature |-> getTemperature(d), light |-> d.light, mode |-> d.mode,
   state |-> d.power, fan |-> d.fan, jet |-> d.jet, swing |-> d.swing,
   sleep |-> d.sleep]

---------------------------------------------------------------------------
(* The frame.                                                              *)

\* Mutation: jet and light have changed places in the union.
RawSwapped(d) ==
  << d.mode + 8 * d.power + 16 * d.fan + 64 * d.swing + 128 * d.sleep,
     d.temperature + 16 * d.clock_Seconds,
     d.clock_Minutes + 64 * d.clock_AM_PM, d.clock_Hours, 0, 0,
     16 * d.light + 32 * d.jet, 16 * 10, 5 >>

\* data().raw, with the end patterns of WhirlpoolYJ1BData().
Raw(d) ==
  << d.mode + 8 * d.power + 16 * d.fan + 64 * d.swing + 128 * d.sleep,
     d.temperature + 16 * d.clock_Seconds,
     d.clock_Minutes + 64 * d.clock_AM_PM,
     d.clock_Hours,
     0,
     0,
     16 * d.jet + 32 * d.light,
     16 * 10,
     5 >>

FrameBits == 68

\* sendPulseDistanceWidthRawData: bit i is bit (i % 8) of byte (i / 8).
Frame(d) ==
  LET raw == Raw(d)
  IN  [i \in 1..FrameBits |->
         (raw[((i - 1) \div 8) + 1] \div Pow2((i - 1) % 8)) % 2]

(* The receiver (Documentation/rPI/Receive).                               *)

\* PulseDistanceCoding.translateToByte: groups of eight bits, LSB first.
translateToByte(bits) ==
  LET bit(i) == IF i <= Len(bits) THEN bits[i] ELSE 0
  IN  [k \in 1..((Len(bits) + 7) \div 8) |->
         LET b(j) == bit(8 * (k - 1) + j + 1) * Pow2(j)
         IN  b(0) + b(1) + b(2) + b(3) + b(4) + b(5) + b(6) + b(7)]

\* WhirpoolYJ1B.printCommon: what the receiver says about a 68-bit frame.
printCommon(bits) ==
  LET data == translateToByte(bits)
  IN  [mode    |-> data[1] % 8,
       power   |-> bits[4],
       fan     |-> (data[1] \div 16) % 4,
       swing   |-> bits[7],
       sleep   |-> bits[8],
       temperature |-> (data[2] % 16) + 16,
       seconds |-> ((data[2] \div 16) % 16) * 4,
       minutes |-> data[3] % 64,
       hours   |-> data[4] % 16,
       pm      |-> (data[3] \div 64) % 2,
       jet     |-> (data[7] \div 16) % 2,
       light   |-> (data[7] \div 32) % 2]
=============================================================================
