------------------------------- MODULE SdWire -------------------------------
(***************************************************************************)
(* SOME/IP-SD payloads as bytes: the entries and options of src/sd/sd.go,  *)
(* the daemon's encodeSDFrame and decodeSDPayload (src/sd/udp/sdudp.go)    *)
(* and the event socket's encodeSDEntryFrame and decodeSubscribeEntry      *)
(* (src/udp/udp.go).                                                       *)
(***************************************************************************)
EXTENDS Wire, SequencesExt, FiniteSets

CONSTANT
    None            \* no entry, no endpoint, no IP

Find         == 0
Offer        == 1
Subscribe    == 6
SubscribeAck == 7
EntrySize    == 16
FlagReboot   == 128
FlagUnicast  == 64
SDServiceID  == 65535
SDMethodID   == 33024
OptionTypeIPv4Endpoint == 4
ipv4OptionLength       == 9
Uint24Max              == 16777215

\* Entries, endpoints (an IP is four bytes) and options.
Types    == {Find, Offer, Subscribe, SubscribeAck}
Entry    == [type : Types, index1 : Byte, index2 : Byte,
             num1 : Byte, num2 : Byte, service : 0..Uint16Max, instance : 0..Uint16Max,
             major : Byte, ttl : 0..Uint24Max, minor : Nat, group : 0..Uint16Max]
Endpoint == [ip : {s \in Seq(Byte) : Len(s) = 4} \cup {None}, proto : Byte, port : 0..Uint16Max]
Option   == [type : Byte, raw : Seq(Byte)]

\* A Find or an Offer has a minor version of 32 bits, the others an event group.
Proper(e) ==
    /\ e \in Entry
    /\ IF e.type \in {Find, Offer} THEN e.minor \div 65536 < 65536 /\ e.group = 0 ELSE e.minor = 0

Zeros(n) == [i \in 1..n |-> 0]

\* A count of options above 15 is written as 15.
Nibble(n) == IF n > 15 THEN 15 ELSE n

EncodeEntry(e) ==
    <<e.type, e.index1, e.index2, Nibble(e.num1) * 16 + Nibble(e.num2)>>
        \o PutUint16(e.service) \o PutUint16(e.instance) \o <<e.major>> \o PutUint24(e.ttl)
        \o (IF e.type \in {Subscribe, SubscribeAck}
            THEN Zeros(2) \o PutUint16(e.group) ELSE PutUint32(e.minor))

\* DecodeEntry of the bytes of b from off on.
DecodeEntry(b, off) ==
    LET type == At(b, off)
        minor == type \in {Find, Offer}
    IN  IF Len(b) < off + EntrySize THEN None
        ELSE IF type \notin Types THEN None
        ELSE [type |-> type, index1 |-> At(b, off + 1), index2 |-> At(b, off + 2),
              num1 |-> At(b, off + 3) \div 16, num2 |-> At(b, off + 3) % 16,
              service |-> Uint16(b, off + 4), instance |-> Uint16(b, off + 6),
              major |-> At(b, off + 8), ttl |-> Uint24(b, off + 9),
              minor |-> IF minor THEN Uint32(b, off + 12) ELSE 0,
              group |-> IF minor THEN 0 ELSE Uint16(b, off + 14)]

\* No IP is written as 0.0.0.0.
EncodeIPv4Option(type, ep) ==
    PutUint16(ipv4OptionLength) \o <<type, 0>> \o (IF ep.ip = None THEN Zeros(4) ELSE ep.ip)
        \o <<0, ep.proto>> \o PutUint16(ep.port)

DecodeIPv4Option(raw) ==
    IF Len(raw) < 12 THEN None
    ELSE [ip |-> Slice(raw, 4, 8), proto |-> At(raw, 9), port |-> Uint16(raw, 10)]

\* The options that stand in b, each with its bytes; None when one is cut short.
\* loop[i] is what the loop has reached after i rounds, each of at least 4 bytes.
DecodeOptions(b) ==
    LET rounds == Len(b) \div 4 + 1
        loop[i \in 0..rounds] ==
            LET was  == loop[i - 1]
                size == 3 + Uint16(b, was.offset)
            IN  IF i = 0 THEN [offset |-> 0, opts |-> <<>>]
                ELSE IF was.opts = None \/ was.offset >= Len(b) THEN was
                ELSE IF was.offset + 3 > Len(b) THEN [was EXCEPT !.opts = None]
                ELSE IF size < 4 \/ was.offset + size > Len(b) THEN [was EXCEPT !.opts = None]
                ELSE [offset |-> was.offset + size,
                      opts   |-> Append(was.opts, [type |-> At(b, was.offset + 2),
                                                   raw  |-> Slice(b, was.offset, was.offset + size)])]
    IN  loop[rounds].opts

\* Mutation: an index outside of the options is not refused but cut to them.
Trimmed(index, num, opts) ==
    SubSeq(opts, index + 1, IF index + num > Len(opts) THEN Len(opts) ELSE index + num)

\* A run of options, nothing when it reaches beyond them.
Run(index, num, opts) ==
    IF index + num > Len(opts) THEN <<>> ELSE SubSeq(opts, index + 1, index + num)

\* The first IPv4 endpoint of the entry's two runs.
ResolveIPv4Endpoint(e, opts) ==
    LET refs  == Run(e.index1, e.num1, opts) \o Run(e.index2, e.num2, opts)
        found == {i \in DOMAIN refs : /\ refs[i].type = OptionTypeIPv4Endpoint
                                      /\ DecodeIPv4Option(refs[i].raw) # None}
    IN  IF found = {} THEN None ELSE DecodeIPv4Option(refs[Min(found)].raw)

\* An entry as the code builds it: what is not named is zero.
NoEntry == [type |-> 0, index1 |-> 0, index2 |-> 0, num1 |-> 0, num2 |-> 0,
            service |-> 0, instance |-> 0, major |-> 0, ttl |-> 0, minor |-> 0, group |-> 0]

\* The payload with these flags, one entry and these bytes of options.
Payload(flags, e, opts) ==
    <<flags, 0, 0, 0>> \o PutUint32(EntrySize) \o EncodeEntry(e) \o PutUint32(Len(opts)) \o opts

SdMessage(session, iface, payload) ==
    [service |-> SDServiceID, method |-> SDMethodID, client |-> 0, session |-> session,
     iface |-> iface, type |-> 2, code |-> 0, payload |-> payload]

encodeSDFrame(flags, e, ep, optType) ==
    Encode(SdMessage(0, 0,
        IF ep = None THEN Payload(flags, e, <<>>)
        ELSE Payload(flags, [e EXCEPT !.index1 = 0, !.num1 = 1], EncodeIPv4Option(optType, ep))))

\* The entries up to the end of their array, or up to the first that does not decode.
DecodeEntries(payload, start, end) ==
    LET rounds == Len(payload) \div EntrySize
        loop[i \in 0..rounds] ==
            LET was == loop[i - 1]
                e   == DecodeEntry(payload, was.offset)
            IN  IF i = 0 THEN [offset |-> start, entries |-> <<>>]
                ELSE IF was.offset + EntrySize > end THEN was
                ELSE IF e = None THEN was
                ELSE [offset |-> was.offset + EntrySize, entries |-> Append(was.entries, e)]
    IN  loop[rounds].entries

decodeSDPayload(payload) ==
    LET end  == 8 + Uint32(payload, 4)
        last == end + 4 + Uint32(payload, end)
        options == DecodeOptions(Slice(payload, end + 4, last))
    IN  IF Len(payload) < 8 THEN None
        ELSE IF end + 4 > Len(payload) THEN None
        ELSE IF last > Len(payload) THEN None
        ELSE IF options = None THEN None
        ELSE [entries |-> DecodeEntries(payload, 8, end), options |-> options]

encodeSDEntryFrame(type, service, instance, event, ttl) ==
    Encode(SdMessage(1, 1, Payload(0,
        [NoEntry EXCEPT !.type = type, !.service = service, !.instance = instance,
                        !.major = 255, !.ttl = ttl, !.group = event], <<>>)))

decodeSubscribeEntry(payload) ==
    IF Len(payload) < 8 THEN None
    ELSE IF Uint32(payload, 4) < EntrySize THEN None
    ELSE LET e == DecodeEntry(payload, 8)
         IN  IF e = None THEN None
             ELSE IF e.type \in {Subscribe, SubscribeAck} THEN e ELSE None
=============================================================================
