------------------------------ MODULE Readings ------------------------------
(***************************************************************************)
(* Signed readings on the wire: the precision/scale/size byte and value of *)
(* sensors and setpoints (EncodedValue), meter readings, configuration     *)
(* parameters, the wake-up interval, and the decimal text the recorder     *)
(* stores for a reading.                                                   *)
(***************************************************************************)
EXTENDS Reports

isValidSize(size) == size \in {1, 2, 4}

EncodedValue_decode(flags, bytes) ==
  LET size == Bits(flags, 0, 3) IN
  Optional(isValidSize(size) /\ Len(bytes) >= size,
    [size |-> size, scale |-> Bits(flags, 3, 2), precision |-> Bits(flags, 5, 3),
     value |-> Signed(Slice(bytes, 0, size))])

EncodedValue_encode_Unsigned(precision, scale, value) ==
  LET size == CASE value \in 0..255 -> 1 [] value \in 0..65535 -> 2 [] OTHER -> 4 IN
  <<(precision % 8) * 32 + (scale % 4) * 8 + size>> \o BigEndian(value, size)

EncodedValue_encode(precision, scale, value) ==
  LET size == CASE value \in -128..127 -> 1
                [] value \in -32768..32767 -> 2
                [] OTHER -> 4
  IN <<(precision % 8) * 32 + (scale % 4) * 8 + size>> \o BigEndian(value, size)

\* A setpoint or sensor report: a type byte, then the encoded value.
ThermostatSetpoint_encodeSet(type, precision, scale, value) ==
  <<"own", "own", type % 16>> \o EncodedValue_encode(precision, scale, value)

ThermostatSetpoint_decodeReport(p) ==
  LET decoded == EncodedValue_decode(At(p, 3), From(p, 4)) IN
  IF ~Framed(p, 4) THEN NullOpt
  ELSE Optional(decoded # NullOpt,
         [setpointType |-> At(p, 2) % 16, scale |-> decoded.scale,
          precision |-> decoded.precision, value |-> decoded.value])

SensorMultilevel_decodeReport(p) ==
  LET decoded == EncodedValue_decode(At(p, 3), From(p, 4)) IN
  IF ~Framed(p, 4) THEN NullOpt
  ELSE Optional(decoded # NullOpt,
         [sensorType |-> At(p, 2), scale |-> decoded.scale,
          precision |-> decoded.precision, value |-> decoded.value])

-----------------------------------------------------------------------------
(* Meter: the third scale bit sits in the type byte; a non-zero delta time *)
(* promises the previous value.                                            *)

MeterReport(p, size, deltaTime) ==
  [meterType |-> Bits(At(p, 2), 0, 5), rateType |-> Bits(At(p, 2), 5, 2),
   scale |-> Bits(At(p, 2), 7, 1) * 4 + Bits(At(p, 3), 3, 2),
   precision |-> Bits(At(p, 3), 5, 3),
   value |-> Signed(Slice(p, 4, size)), deltaTime |-> deltaTime,
   previousValue |-> IF deltaTime = 0 THEN 0 ELSE Signed(Slice(p, 6 + size, size)),
   hasPrevious |-> deltaTime # 0]

Meter_decodeReport(p) ==
  LET size == Bits(At(p, 3), 0, 3)
      deltaTime == Unsigned(Slice(p, 4 + size, 2))
  IN Optional(/\ Framed(p, 4)
              /\ isValidSize(size)
              /\ Len(p) >= 6 + size
              /\ deltaTime # 0 => Len(p) >= 6 + 2 * size,
              MeterReport(p, size, deltaTime))

\* How a meter lays out a report (external).
MeterFrame(m) ==
  <<"own", "own", (m.scale \div 4) * 128 + m.rate * 32 + m.type,
    m.precision * 32 + (m.scale % 4) * 8 + m.size>>
    \o BigEndian(m.value, m.size) \o BigEndian(m.deltaTime, 2)
    \o (IF m.deltaTime = 0 THEN <<>> ELSE BigEndian(m.previous, m.size))

-----------------------------------------------------------------------------
(* Configuration and wake-up.                                              *)

Configuration_encodeSet(parameter, size, value) ==
  IF isValidSize(size)
  THEN <<"own", "own", parameter, size>> \o BigEndian(value, size)
  ELSE <<>>

Configuration_decodeReport(p) ==
  Optional(Framed(p, 4) /\ isValidSize(At(p, 3)) /\ Len(p) >= 4 + At(p, 3),
    [parameter |-> At(p, 2), size |-> At(p, 3),
     value |-> Signed(Slice(p, 4, At(p, 3)))])

INTERVAL_MAX == 16777215

WakeUp_encodeIntervalSet(seconds, controller) ==
  <<"own", "own">> \o BigEndian(Min({seconds, INTERVAL_MAX}), 3) \o <<controller>>

-----------------------------------------------------------------------------
(* The recorder's text, as a sign, the digits of the whole part and those  *)
(* of the fraction (std::to_string yields the digits of a number).         *)

Digits(n) ==
  LET count == Min({k \in 1..9 : n < 10^k} \cup {10}) IN
  [i \in 1..count |-> (n \div 10^(count - i)) % 10]

renderScaled(raw, precision) ==
  LET magnitude == IF raw < 0 THEN -raw ELSE raw
      scale == 10^precision
      digits == Digits(magnitude % scale)
  IN [negative |-> raw < 0, whole |-> Digits(magnitude \div scale),
      fraction |-> IF precision = 0 THEN <<>>
                   ELSE [i \in 1..(precision - Len(digits)) |-> 0] \o digits]

\* What the text says: its digits read as one number.
Written(text) ==
  LET n == FoldLeft(LAMBDA acc, d : acc * 10 + d, 0, text.whole \o text.fraction) IN
  IF text.negative THEN -n ELSE n

-----------------------------------------------------------------------------
(* The calls.                                                              *)

\* The values at which a field of one or two bytes overflows, and the ends of
\* the 32-bit range.
Boundary ==
  {0, 1, -1, 21, -5, 127, 128, -128, -129, 255, 256, 32767, 32768, -32768, -32769,
   65535, 65536, 2147483647, -2147483647}

INT32_MIN == -2147483647 - 1

Fits(v, size) ==
  IF size = 4 THEN TRUE ELSE v \in -(256^size \div 2)..(256^size \div 2 - 1)

ReadingInput ==
  \/ \E type \in {1, 17}, precision \in {0, 1, 7, 8}, scale \in 0..4,
        value \in Boundary \cup {INT32_MIN} :
       input = [of |-> "value", type |-> type, precision |-> precision,
                scale |-> scale, value |-> value]
  \/ \E type \in {1, 31}, rate \in {0, 2}, scale \in {0, 3, 4, 7}, precision \in {0, 7},
        size \in {1, 2, 4}, value \in Boundary, deltaTime \in {0, 1, 256},
        previous \in {-1, 100} :
       /\ Fits(value, size)
       /\ input = [of |-> "meter", type |-> type, rate |-> rate, scale |-> scale,
                   precision |-> precision, size |-> size, value |-> value,
                   deltaTime |-> deltaTime, previous |-> previous]
  \/ \E size \in 0..5, value \in Boundary \cup {INT32_MIN} :
       input = [of |-> "parameter", parameter |-> 7, size |-> size, value |-> value]
  \/ \E seconds \in {0, 255, 256, 65536, INTERVAL_MAX, INTERVAL_MAX + 1, 2147483647} :
       input = [of |-> "interval", seconds |-> seconds]
  \/ \E value \in Boundary, precision \in 0..7 :
       input = [of |-> "text", value |-> value, precision |-> precision]

decodeReadings ==
  LET p == input.bytes IN
  \/ Call("report", ThermostatSetpoint_decodeReport(p))
  \/ Call("report", SensorMultilevel_decodeReport(p))
  \/ Call("report", Meter_decodeReport(p))
  \/ Call("report", Configuration_decodeReport(p))

encodeReading ==
  \/ Call("value", ThermostatSetpoint_encodeSet(input.type, input.precision,
                                                input.scale, input.value))
  \/ Call("meter", MeterFrame(input))
  \/ Call("parameter", Configuration_encodeSet(input.parameter, input.size, input.value))
  \/ Call("interval", WakeUp_encodeIntervalSet(input.seconds, 1))
  \/ Call("text", renderScaled(input.value, input.precision))

ReadingNext == decodeReadings \/ encodeReading

-----------------------------------------------------------------------------
(* Properties.                                                             *)

\* A setpoint the daemon sends reads back as the value, the precision and the
\* scale it was given (the latter two cut to their three and two bits), over
\* the whole int32 range, and the field is the smallest that keeps the sign.
ValueRoundTrip ==
  Done("value") =>
    LET size == Len(output) - 4 IN
    /\ ThermostatSetpoint_decodeReport(output)
         = [setpointType |-> input.type % 16, scale |-> input.scale % 4,
            precision |-> input.precision % 8, value |-> input.value]
    /\ \A smaller \in {1, 2} : smaller < size => ~Fits(input.value, smaller)

\* A meter's report decodes to the reading, the previous reading and the
\* eight-valued scale the meter sent, and to nothing when its last byte is
\* missing: a reading is never made up of another field's bytes.
MeterReadBack ==
  Done("meter") =>
    /\ Meter_decodeReport(output)
         = [meterType |-> input.type, rateType |-> input.rate, scale |-> input.scale,
            precision |-> input.precision, value |-> input.value,
            deltaTime |-> input.deltaTime,
            previousValue |-> IF input.deltaTime = 0 THEN 0 ELSE input.previous,
            hasPrevious |-> input.deltaTime # 0]
    /\ Meter_decodeReport(Front(output)) = NullOpt

\* A configuration parameter is sent only with a size of 1, 2 or 4 bytes; what
\* the node then reports is the value sent if it fits that size, and otherwise
\* the value that shares its low bytes.
ParameterReadBack ==
  Done("parameter") =>
    LET report == Configuration_decodeReport(output) IN
    IF ~isValidSize(input.size) THEN output = <<>> /\ report = NullOpt
    ELSE /\ Fits(report.value, input.size)
         /\ Fits(input.value, input.size) => report.value = input.value
         /\ BigEndian(report.value, input.size) = BigEndian(input.value, input.size)

\* A wake-up interval above the 24-bit field is sent as the longest one, never
\* as a shorter interval than a smaller request ("Clamp rather than truncate").
IntervalClamped ==
  Done("interval") =>
    WakeUp_decodeIntervalReport(output).seconds
      = IF input.seconds > INTERVAL_MAX THEN INTERVAL_MAX ELSE input.seconds

\* The text stored for a reading is the reading: its digits and sign give the
\* raw value, and exactly "precision" of them follow the point.
TextIsReading ==
  Done("text") => /\ Written(output) = input.value
                  /\ Len(output.fraction) = input.precision
=============================================================================
