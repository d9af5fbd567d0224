------------------------------- MODULE Props -------------------------------
(***************************************************************************)
(* MQTT 5 properties: how the properties of a packet are put together      *)
(* (propertySet in libmqtt.go and the props methods of the packets) and    *)
(* how they are read back (getRawProps in util.go, the setProps methods).  *)
(*                                                                         *)
(* The properties of a packet are a function from the property identifiers *)
(* that are set to the bytes of the value, as propertySet.add would encode *)
(* it; a field with its zero value is not in the domain, and a nil Props   *)
(* has no fields at all.                                                   *)
(***************************************************************************)
EXTENDS Framing, SequencesExt

noProps == [k \in {} |-> <<>>]

getUint16(d) == d[1] * 256 + d[2]

\* encodeBytesWithLen and encodeStringWithLen: the length is cut to 16 bits.
encodeBytesWithLen(data) ==
    <<(Len(data) \div 256) % 256, Len(data) % 256>> \o data

-----------------------------------------------------------------------------
(* Writing *)

\* propertySet: the values of a key are collected only if the key is already
\* there, and set deletes the key first.
add(set, key, val) ==
    IF key \in DOMAIN set THEN [set EXCEPT ![key] = Append(@, val)] ELSE set

del(set, key) == Restrict(set, DOMAIN set \ {key})

setKey(set, key, val) == add(del(set, key), key, val)

\* The map is walked in an arbitrary order; the order of the properties means
\* nothing to the reader, so one order is as good as another.
setBytes(set) ==
    LET keyed(k) == FlattenSeq([i \in 1..Len(set[k]) |-> <<k>> \o set[k][i]])
    IN  FoldSet(LAMBDA k, acc : acc \o keyed(k), <<>>, DOMAIN set)

\* The props methods that go through a propertySet.
viaPropertySet(props) ==
    setBytes(FoldSet(LAMBDA k, set : setKey(set, k, props[k]), noProps, DOMAIN props))

propKeySubID     == 11
propKeyUserProps == 38

\* SubscribeProps.props does without: the identifier, then the user
\* properties behind a single key.
subscribeProps(props) ==
    LET keyed(k) == IF k \in DOMAIN props THEN <<k>> \o props[k] ELSE <<>>
    IN  keyed(propKeySubID) \o keyed(propKeyUserProps)

-----------------------------------------------------------------------------
(* Reading *)

oneByteKeys   == {1, 23, 25, 36, 37, 40, 41, 42}
twoByteKeys   == {19, 33, 34, 35}
fourByteKeys  == {2, 17, 24, 39}
prefixedKeys  == {3, 8, 9, 18, 21, 22, 26, 28, 31}

badLen == -1

\* The bytes that the value of the property at the head of b takes, badLen
\* where getRawProps gives up or panics (and recovers).  The length of a string
\* is added up in 16 bits.  A prefix that runs past the property bytes counts
\* as a failure (a Go slice may be read up to its capacity, and fails a step
\* later).
propLen(b) ==
    LET rest == Tail(b)
        end  == (3 + getUint16(rest)) % 65536
        key  == (2 + getUint16(rest)) % 65536
        val  == (2 + key + getUint16(SubSeq(b, key + 2, key + 3))) % 65536
    IN  CASE b[1] \in oneByteKeys                        -> 1
          [] b[1] \in twoByteKeys                        -> 2
          [] b[1] \in fourByteKeys                       -> 4
          [] b[1] \in prefixedKeys /\ Len(rest) >= 2     -> end - 1
          [] b[1] = propKeySubID                         -> getRemainLength(rest).byteCount
          [] b[1] = propKeyUserProps /\ Len(rest) >= 2 /\ Len(b) >= key + 3 -> val
          [] OTHER                                       -> badLen

badProps == [ok |-> FALSE, props |-> noProps, next |-> <<>>]

\* A property in front of those that were read behind it: the values of a key
\* that comes again are joined.
inFront(key, val, behind) ==
    LET joined == IF key \in DOMAIN behind.props THEN val \o behind.props[key] ELSE val
    IN  [ok    |-> behind.ok,
         props |-> [k \in DOMAIN behind.props \cup {key} |->
                       IF k = key THEN joined ELSE behind.props[k]]]

\* The loop of getRawProps over the property bytes b, from position i.
readProps(b) ==
    LET from[i \in 1..(Len(b) + 1)] ==
            LET n == propLen(SubSeq(b, i, Len(b)))
            IN  IF i > Len(b) THEN [ok |-> TRUE, props |-> noProps]
                ELSE IF n = badLen \/ i + n > Len(b) THEN [ok |-> FALSE, props |-> noProps]
                ELSE inFront(b[i], SubSeq(b, i + 1, i + n), from[i + 1 + n])
    IN  from[1]

\* The properties and what follows them, given the number of bytes of their
\* length and the position of the last of them.
propsAndRest(d, byteCount, end) ==
    LET read == readProps(SubSeq(d, byteCount + 1, end))
    IN  IF end > Len(d) \/ ~read.ok
        THEN badProps
        ELSE [ok |-> TRUE, props |-> read.props, next |-> SubSeq(d, end + 1, Len(d))]

\* A mutant of getRawProps: the length is not counted in.
getRawPropsShort(d) ==
    LET len == getRemainLength(d) IN propsAndRest(d, 0, len.length)

getRawProps(d) ==
    LET len == getRemainLength(d) IN propsAndRest(d, len.byteCount, len.byteCount + len.length)

-----------------------------------------------------------------------------
(* What each props method writes and each setProps method reads *)

ConnProps      == [written |-> {17, 33, 39, 34, 25, 23, 38, 21, 22},
                   read    |-> {17, 33, 39, 34, 25, 23, 38, 21, 22}]
WillProps      == [written |-> {24, 1, 2, 3, 8, 9, 38}, read |-> {}]
ConnAckProps   == [written |-> {37, 40, 41, 42, 17, 33, 36, 39, 18, 34, 31, 38, 19, 26, 28, 21, 22},
                   read    |-> {17, 33, 36, 37, 39, 18, 34, 31, 38, 40, 19, 26, 28, 21, 22}]
DisconnProps   == [written |-> {17, 31, 38, 28}, read |-> {17, 31, 38, 28}]
PublishProps   == [written |-> {1, 2, 35, 8, 9, 38, 11, 3}, read |-> {1, 2, 35, 8, 9, 38, 11, 3}]
PubAckProps    == [written |-> {31, 38}, read |-> {31, 38}]
PubRecvProps   == [written |-> {31, 38}, read |-> {31, 38}]
PubRelProps    == [written |-> {31, 38}, read |-> {31, 38}]
PubCompProps   == [written |-> {31, 38}, read |-> {31, 38}]
SubscribeProps == [written |-> {11, 38}, read |-> {11, 38}]
SubAckProps    == [written |-> {31, 38}, read |-> {31, 38}]
UnsubProps     == [written |-> {38}, read |-> {38}]
UnsubAckProps  == [written |-> {31, 38}, read |-> {31, 38}]
AuthProps      == [written |-> {21, 22, 31, 38}, read |-> {21, 22, 31, 38}]

\* The fields that are pointers: add dereferences them without a test, so a
\* Props that leaves one nil cannot be written.
ConnPointers    == {25, 23}
ConnAckPointers == {37, 40, 41, 42}

nilPointer(pointers, props) == props # noProps /\ ~(pointers \subseteq DOMAIN props)

\* The bytes a props method returns, and the fields a setProps method sets.
propsBytes(keys, props) == viaPropertySet(RestrictDomain(props, LAMBDA k : k \in keys.written))

setProps(keys, raw) == RestrictDomain(raw, LAMBDA k : k \in keys.read)
=============================================================================
