------------------------------ MODULE Framing ------------------------------
(***************************************************************************)
(* The framing of MQTT packets on a byte stream: the fixed header that     *)
(* BasePacket.write puts in front of a packet (libmqtt.go) and the way     *)
(* Decode (decoder.go) finds the end of the packet again, both through the *)
(* variable byte integer of util.go.  The loops of the code run at most    *)
(* four times; they are written here by what the i-th iteration computes.  *)
(***************************************************************************)
EXTENDS Integers, Sequences

CONSTANT maxMsgSize    \* the largest remaining length, 268435455 in the code

\* What four groups of seven bits can hold.
varIntLimit == 268435456

ASSUME maxMsgSizeAssumption == maxMsgSize \in Nat /\ maxMsgSize < varIntLimit

Byte == 0..255

\* The weight of the i-th byte of a variable byte integer: 1 << 7 * (i - 1).
weight == <<1, 128, 16384, 2097152>>

\* The number of times the loop of varIntBytes runs.
varIntLen(n) ==
    IF n < 128 THEN 1
    ELSE IF n < 16384 THEN 2
    ELSE IF n < 2097152 THEN 3 ELSE 4

\* n % 128 of what is left of n, with the top bit set while something is left.
varIntBytes(n) ==
    [i \in 1..varIntLen(n) |->
        ((n \div weight[i]) % 128) + (IF i < varIntLen(n) THEN 128 ELSE 0)]

\* The byte at which the loop of getRemainLength stops: the first one without
\* the top bit, or the fourth.  It may lie beyond the end of d.
lastByte(d) ==
    LET more(i) == i <= Len(d) /\ d[i] >= 128
    IN  IF ~more(1) THEN 1
        ELSE IF ~more(2) THEN 2
        ELSE IF ~more(3) THEN 3 ELSE 4

\* The length and the number of bytes that held it.  A read error (the bytes
\* end first) gives 0 for both; a fourth byte with the top bit set is not an
\* error, and is counted as two.
lengthUpTo(d, last) ==
    LET part(i) == IF i <= last THEN (d[i] % 128) * weight[i] ELSE 0
    IN  IF last > Len(d)
        THEN [length |-> 0, byteCount |-> 0]
        ELSE [length    |-> part(1) + part(2) + part(3) + part(4),
              byteCount |-> IF last = 4 /\ d[4] >= 128 THEN 5 ELSE last]

getRemainLength(d) == lengthUpTo(d, lastByte(d))

\* BasePacket.write: the first byte goes out before the length is checked, so
\* a packet that is too large leaves that byte behind.
tooLarge(body) == Len(body) > maxMsgSize

write(first, body) ==
    IF tooLarge(body)
    THEN <<first>>
    ELSE <<first>> \o varIntBytes(Len(body)) \o body

\* Decode up to the body: what is read from the stream w (not empty).
\* bodyStart is the position of the first byte after the length.
bodyStart(w) ==
    LET last == lastByte(Tail(w))
    IN  2 + (IF last > Len(Tail(w)) THEN Len(Tail(w)) ELSE last)

remaining(w) == getRemainLength(Tail(w)).length

frameBody(w) == SubSeq(w, bodyStart(w), bodyStart(w) + remaining(w) - 1)

\* A mutant of frameRest: the last byte of the body is left on the stream.
frameRestLong(w) == SubSeq(w, bodyStart(w) + remaining(w) - 1, Len(w))

frameRest(w) == SubSeq(w, bodyStart(w) + remaining(w), Len(w))

\* io.ReadFull finds the whole body in w.
wholeFrame(w) == bodyStart(w) + remaining(w) - 1 <= Len(w)
=============================================================================
