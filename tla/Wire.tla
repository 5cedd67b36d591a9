-------------------------------- MODULE Wire --------------------------------
(***************************************************************************)
(* SOME/IP frames as sequences of bytes: codec.Encode and codec.Decode     *)
(* (src/codec/codec.go), readFrame (src/tcp/tcp.go), and the envelopes of  *)
(* ToMessage and FromMessage (src/adapt.go).  A message is a record of     *)
(* numbers and a payload of bytes; an error is a result with no message.   *)
(***************************************************************************)
EXTENDS Integers, Sequences

CONSTANT
    maxFrameSize    \* what readFrame takes at most

HeaderSize == 16
minLength  == 8     \* ClientID to ReturnCode

Byte == 0..255

\* A number as bytes, the highest first; what does not fit is cut off.
PutUint16(x) == <<(x \div 256) % 256, x % 256>>
PutUint24(x) == <<(x \div 65536) % 256>> \o PutUint16(x % 65536)
PutUint32(x) == PutUint16(x \div 65536) \o PutUint16(x % 65536)

\* The bytes from..to of b, counted from 0, the last excluded, as in b[from:to].
Slice(b, from, to) == SubSeq(b, from + 1, to)
At(b, i)           == b[i + 1]

\* The numbers that stand in b from offset i on.
Uint16(b, i) == 256 * At(b, i) + At(b, i + 1)
Uint24(b, i) == 65536 * At(b, i) + Uint16(b, i + 1)
Uint32(b, i) == 65536 * Uint16(b, i) + Uint16(b, i + 2)

Ok(m)   == [err |-> "nil", msg |-> m]
Fail(e) == [err |-> e]

Encode(msg) ==
    PutUint16(msg.service) \o PutUint16(msg.method) \o PutUint32(minLength + Len(msg.payload))
        \o PutUint16(msg.client) \o PutUint16(msg.session)
        \o <<1, msg.iface, msg.type, msg.code>> \o msg.payload

Decode(b) ==
    LET length == Uint32(b, 4)
    IN  IF Len(b) < HeaderSize THEN Fail("ShortFrame")
        ELSE IF length < minLength \/ Len(b) # 8 + length THEN Fail("LengthMismatch")
        ELSE IF At(b, 12) # 1 THEN Fail("WrongProtocolVersion")
        ELSE Ok([service |-> Uint16(b, 0), method  |-> Uint16(b, 2),
                 client  |-> Uint16(b, 8), session |-> Uint16(b, 10),
                 iface   |-> At(b, 13), type |-> At(b, 14), code |-> At(b, 15),
                 payload |-> Slice(b, HeaderSize, Len(b))])

\* Mutation: the Length field is taken for the length of the payload.
LengthOfPayload(header) == Uint32(header, 4)

\* The payload a header announces.
Announced(header) == Uint32(header, 4) - minLength

\* What readFrame makes of a stream: how many bytes it takes, and the result.
\* A stream that has ended (or not yet brought enough) gives "EOF".
ReadFrame(stream) ==
    IF Len(stream) < HeaderSize THEN [took |-> 0, res |-> Fail("EOF")]
    ELSE LET n == Announced(stream)
         IN  IF n < 0 THEN [took |-> HeaderSize, res |-> Fail("Malformed")]
             ELSE IF HeaderSize + n > maxFrameSize
                  THEN [took |-> HeaderSize, res |-> Fail("PayloadTooLarge")]
             ELSE IF Len(stream) < HeaderSize + n THEN [took |-> 0, res |-> Fail("EOF")]
             ELSE [took |-> HeaderSize + n, res |-> Decode(Slice(stream, 0, HeaderSize + n))]

(***************************************************************************)
(* Envelopes.  The ID is the sequence of what stands between its slashes,  *)
(* Meta maps keys to values; a decimal numeral is its number and any other *)
(* text NaN.  The diagnostic name and the timestamp are left out.          *)
(***************************************************************************)
NaN == -1

Uint8Max  == 255
Uint16Max == 65535

\* strconv.ParseUint for a type with that maximum.
Parses(x, max) == x \in 0..max

ToMessage(msg) ==
    [id |-> <<msg.service, msg.method>>, payload |-> msg.payload,
     meta |-> [client |-> msg.client, session |-> msg.session, type |-> msg.type,
               code |-> msg.code, iface |-> msg.iface]]

\* Zero for a key that is missing or does not parse.
metaUint(meta, key, max) ==
    IF key \in DOMAIN meta /\ Parses(meta[key], max) THEN meta[key] ELSE 0

FromMessage(env) ==
    IF Len(env.id) # 2 \/ \E i \in DOMAIN env.id : ~Parses(env.id[i], Uint16Max)
    THEN Fail("Malformed")
    ELSE Ok([service |-> env.id[1], method |-> env.id[2], payload |-> env.payload,
             client  |-> metaUint(env.meta, "client", Uint16Max),
             session |-> metaUint(env.meta, "session", Uint16Max),
             type    |-> metaUint(env.meta, "type", Uint8Max),
             code    |-> metaUint(env.meta, "code", Uint8Max),
             iface   |-> metaUint(env.meta, "iface", Uint8Max)])
=============================================================================
