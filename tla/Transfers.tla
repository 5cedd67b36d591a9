----------------------------- MODULE Transfers -----------------------------
(***************************************************************************)
(* What arrives of what was sent, byte by byte.  A behaviour is one of     *)
(* three transfers.  "tcp": a peer writes messages, taken from relay       *)
(* envelopes, into a stream that is read by readFrame until an error ends  *)
(* it.  "sd": a peer sends one datagram with SD entries, and the daemon    *)
(* or the event socket decodes it.  "e2e": a frame is protected, bits of   *)
(* it flip on the way, and the receiver checks it.                         *)
(***************************************************************************)
EXTENDS SdWire

E == INSTANCE E2e

CONSTANTS
    Messages,       \* the messages a TCP peer writes
    Garbage,        \* other bytes of a TCP peer, or messages that are too long
    MaxWritten,     \* bound: how often it writes
    Configs,        \* the OfferConfigs: [entry, endpoint, optType]
    Groups,         \* the entries of SubscribeEventgroup
    Events,         \* the [type, service, instance, event, ttl] of the event socket
    Foreign,        \* [payload, means]: payloads of other daemons, with their meaning
    Protected,      \* what is protected: [profile, id, payload, counter]
    DataIDs,        \* the DataIDs of receivers
    Counters,       \* the counters they expect
    MaxFlips        \* bound: how many bits flip, for each profile

\* The messages a service or a server may send.
Message == [service : 0..Uint16Max, method : 0..Uint16Max, client : 0..Uint16Max,
            session : 0..Uint16Max, iface : Byte, type : Byte, code : Byte, payload : Seq(Byte)]

\* A header with a Length below the least or beyond the limit, or of another
\* version of the protocol.
BadHeader(b) == Uint32(b, 4) < minLength \/ 8 + Uint32(b, 4) > maxFrameSize \/ At(b, 12) # 1

ASSUME StreamAssumption ==
    /\ maxFrameSize \in Nat /\ maxFrameSize \div 65536 < 65536  \* a Length of 32 bits
    /\ None \notin Messages
    /\ \A m \in Messages : m \in Message /\ HeaderSize + Len(m.payload) <= maxFrameSize
    /\ \A b \in Garbage : b \in Seq(Byte) /\ Len(b) >= HeaderSize /\ BadHeader(b)

\* A DataID is a uint16 for Profile 01 and a uint8 for Profile 05.
Protectable ==
    [profile : {1}, id : {s \in Seq(E!Bytes) : Len(s) = 2}, payload : Seq(E!Bytes), counter : Byte]
    \cup
    [profile : {5}, id : {s \in Seq(E!Bytes) : Len(s) = 1}, payload : Seq(E!Bytes), counter : Byte]

ASSUME ProtectedAssumption ==
    /\ \A p \in Protected : p \in Protectable
    /\ \A id \in DataIDs : id \in Seq(E!Bytes)
    /\ \A c \in Counters : c \in Byte

\* None is none of what it stands in for.
ASSUME NoneAssumption ==
    /\ None \notin Seq(Byte) /\ None \notin Entry /\ None \notin Endpoint /\ None \notin Seq(Option)
    /\ None \notin [entries : Seq(Entry), options : Seq(Option)]

ASSUME SdAssumption ==
    /\ \A c \in Configs : /\ Proper(c.entry) /\ c.entry.type = Offer
                          /\ c.endpoint \in Endpoint /\ c.optType = OptionTypeIPv4Endpoint
    /\ \A e \in Groups : Proper(e) /\ e.type = Subscribe
    /\ \A v \in Events : v \in [type : {Subscribe, SubscribeAck}, service : 0..Uint16Max,
                               instance : 0..Uint16Max, event : 0..Uint16Max, ttl : 0..Uint24Max]

VARIABLES
    kind,           \* which transfer this is
    sent,           \* tcp: the writes, [msg, bytes]; sd: the meaning; e2e: what was protected
    wire,           \* the bytes on their way
    up,             \* tcp: the peer's end is open; sd, e2e: nothing received yet
    reading,        \* tcp: readFrame is called again
    flips,          \* e2e: the bits that are not as they were sent
    got             \* what the receiver has understood
vars == <<kind, sent, wire, up, reading, flips, got>>

\* An entry without its references to options.
Core(e) == [e EXCEPT !.index1 = 0, !.index2 = 0, !.num1 = 0, !.num2 = 0]

DefaultTTL == 3

Init ==
    /\ kind \in {"tcp", "sd", "e2e"}
    /\ sent = <<>> /\ wire = <<>> /\ got = <<>> /\ flips = {}
    /\ up = TRUE /\ reading = (kind = "tcp")

---------------------------------------------------------------------------
(* A stream *)

Write(w) == sent' = Append(sent, w) /\ wire' = wire \o w.bytes

\* A message goes out as the relay's envelope of it says.
WriteMessage(m) ==
    /\ kind = "tcp" /\ up /\ Len(sent) < MaxWritten
    /\ LET frame == Encode(FromMessage(ToMessage(m)).msg)
       IN  Write([msg |-> m, bytes |-> frame])
    /\ UNCHANGED <<kind, up, reading, flips, got>>

\* A peer that does not keep to the protocol.
WriteGarbage(bytes) ==
    /\ kind = "tcp" /\ up /\ Len(sent) < MaxWritten
    /\ Write([msg |-> None, bytes |-> bytes])
    /\ UNCHANGED <<kind, up, reading, flips, got>>

\* The connection ends, and only that much of what is under way arrives.
Cut(n) ==
    /\ kind = "tcp" /\ up /\ up' = FALSE
    /\ wire' = Slice(wire, 0, n)
    /\ UNCHANGED <<kind, sent, reading, flips, got>>

\* readFrame waits for what is missing of a frame while the stream is up;
\* its callers leave their loop at the first error.
Read ==
    LET r == ReadFrame(wire)
    IN  /\ kind = "tcp" /\ reading
        /\ r.res.err = "EOF" => ~up
        /\ wire' = Slice(wire, r.took, Len(wire))
        /\ reading' = (r.res.err = "nil")
        /\ got' = IF r.res.err = "nil" THEN Append(got, FromMessage(ToMessage(r.res.msg)).msg) ELSE got
        /\ UNCHANGED <<kind, sent, up, flips>>

---------------------------------------------------------------------------
(* A datagram of service discovery *)

Send(frame, meaning) ==
    /\ kind = "sd" /\ up /\ wire = <<>>
    /\ wire' = frame /\ sent' = meaning
    /\ UNCHANGED <<kind, up, reading, flips, got>>

\* sendOffer: a StopOffer and a service without an IP carry no option.
Announce(c, stopOffer) ==
    LET e  == IF stopOffer THEN [c.entry EXCEPT !.ttl = 0] ELSE c.entry
        ep == IF stopOffer \/ c.endpoint.ip = None THEN None ELSE c.endpoint
    IN  Send(encodeSDFrame(FlagReboot, e, ep, c.optType), <<[entry |-> Core(e), at |-> ep]>>)

\* handleEntry answers a Find with the option whether there is an IP or not.
AnswerFind(c) ==
    Send(encodeSDFrame(FlagReboot, c.entry, c.endpoint, c.optType),
         <<[entry |-> Core(c.entry),
            at |-> [c.endpoint EXCEPT !.ip = IF @ = None THEN Zeros(4) ELSE @]]>>)

\* Daemon.SubscribeEventgroup: a TTL of zero stands for the default.
SubscribeEventgroup(e) ==
    LET sub == [e EXCEPT !.type = Subscribe, !.ttl = IF @ = 0 THEN DefaultTTL ELSE @]
    IN  Send(encodeSDFrame(FlagUnicast, sub, None, 0), <<[entry |-> Core(sub), at |-> None]>>)

\* handleEntry answers a Subscribe.
AckSubscribe(e) ==
    LET ack == [NoEntry EXCEPT !.type = SubscribeAck, !.service = e.service, !.instance = e.instance,
                    !.major = e.major, !.ttl = e.ttl, !.group = e.group]
    IN  Send(encodeSDFrame(0, ack, None, 0), <<[entry |-> ack, at |-> None]>>)

\* A Subscribe or its answer on the socket of the events.
SubscribeEvent(v) ==
    Send(encodeSDEntryFrame(v.type, v.service, v.instance, v.event, v.ttl),
         <<[entry |-> [NoEntry EXCEPT !.type = v.type, !.service = v.service, !.instance = v.instance,
                           !.major = 255, !.ttl = v.ttl, !.group = v.event],
            at |-> None]>>)

SendForeign(f) == Send(Encode(SdMessage(1, 1, f.payload)), f.means)

IsSd(dec) ==
    dec.err = "nil" /\ dec.msg.service = SDServiceID /\ dec.msg.method = SDMethodID

\* Daemon.handleFrame: the entries with the endpoint each refers to; a frame or
\* a payload that does not decode is dropped.
Heard(frame) ==
    LET dec == Decode(frame)
        sd  == decodeSDPayload(dec.msg.payload)
    IN  IF ~IsSd(dec) THEN <<>>
        ELSE IF sd = None THEN <<>>
        ELSE [i \in DOMAIN sd.entries |->
                 [entry |-> Core(sd.entries[i]),
                  at |-> ResolveIPv4Endpoint(sd.entries[i], sd.options)]]

\* The event socket takes the first entry, when it is a Subscribe or an answer.
HeardBySocket(frame) ==
    LET dec == Decode(frame)
        e   == decodeSubscribeEntry(dec.msg.payload)
    IN  IF ~IsSd(dec) THEN <<>>
        ELSE IF e = None THEN <<>> ELSE <<[entry |-> Core(e), at |-> None]>>

Hear ==
    /\ kind = "sd" /\ up /\ wire # <<>> /\ up' = FALSE
    /\ got' = [daemon |-> Heard(wire), socket |-> HeardBySocket(wire)]
    /\ UNCHANGED <<kind, sent, wire, reading, flips>>

---------------------------------------------------------------------------
(* A protected frame *)

Protect(p) ==
    /\ kind = "e2e" /\ up /\ wire = <<>>
    /\ wire' = IF p.profile = 1 THEN E!Protect01(p.id, p.payload, p.counter)
                                ELSE E!Protect05(p.id, p.payload, p.counter)
    /\ wire' # <<>>
    /\ sent' = p
    /\ UNCHANGED <<kind, up, reading, flips, got>>

\* Bit j of byte i flips.
Flip(i, j) ==
    /\ kind = "e2e" /\ up /\ i \in DOMAIN wire
    /\ <<i, j>> \notin flips /\ Cardinality(flips) < MaxFlips[sent.profile]
    /\ flips' = flips \cup {<<i, j>>}
    /\ wire' = [wire EXCEPT ![i] = E!Xor(@, {j})]
    /\ UNCHANGED <<kind, sent, up, reading, got>>

Check(id, expected) ==
    /\ kind = "e2e" /\ up /\ wire # <<>> /\ Len(id) = Len(sent.id) /\ up' = FALSE
    /\ got' = [id |-> id, expected |-> expected,
               res |-> IF sent.profile = 1 THEN E!Check01(id, wire, expected)
                                           ELSE E!Check05(id, wire, expected)]
    /\ UNCHANGED <<kind, sent, wire, reading, flips>>

---------------------------------------------------------------------------
Next ==
    \/ \E m \in Messages : WriteMessage(m)
    \/ \E b \in Garbage : WriteGarbage(b)
    \/ \E n \in 0..Len(wire) : Cut(n)
    \/ Read
    \/ \E c \in Configs, stopOffer \in BOOLEAN : Announce(c, stopOffer)
    \/ \E c \in Configs : AnswerFind(c)
    \/ \E e \in Groups : SubscribeEventgroup(e) \/ AckSubscribe(e)
    \/ \E v \in Events : SubscribeEvent(v)
    \/ \E f \in Foreign : SendForeign(f)
    \/ Hear
    \/ \E p \in Protected : Protect(p)
    \/ \E i \in DOMAIN wire, j \in 0..7 : Flip(i, j)
    \/ \E id \in DataIDs, expected \in Counters : Check(id, expected)

Spec == Init /\ [][Next]_vars

---------------------------------------------------------------------------
(* Properties *)

\* readFrame (tcp.go:425) stays in step with the writer whatever the payloads
\* hold: what is read is what was written, in order, never anything after bytes
\* that are no frame; and the loop of reads gives up only when the stream has
\* ended or such bytes have come.
InStep ==
    kind = "tcp" =>
        /\ Len(got) <= Len(sent)
        /\ \A i \in DOMAIN got : got[i] = sent[i].msg /\ sent[i].msg # None
        /\ ~reading => ~up \/ (Len(got) < Len(sent) /\ sent[Len(got) + 1].msg = None)
        /\ (reading /\ up /\ wire = <<>>) => Len(got) = Len(sent)

\* An SD datagram means to its receiver (sdudp.go:389, udp.go:350) what its
\* sender meant: the entries, whether they announce or withdraw, and the endpoint
\* their references choose, or none where a reference leads beyond the options.
\* The event socket understands a Subscribe as the daemon does.
SdUnderstood ==
    (kind = "sd" /\ ~up) =>
        /\ got.daemon = sent
        /\ (got.socket # <<>> /\ sent # <<>>) => got.socket[1].entry = sent[1].entry
        /\ (sent # <<>> /\ sent[1].entry.type \in {Subscribe, SubscribeAck}) => got.socket # <<>>

\* Check (e2e.go:140, 242) accepts a frame exactly when none of its bits has
\* flipped, the DataID is the sender's and the counter is the expected one, and
\* then gives back the payload.  Damage that makes up for another DataID is the
\* one thing a checksum cannot see.
DamageDetected ==
    (kind = "e2e" /\ ~up /\ (got.id = sent.id \/ flips = {})) =>
        LET right == /\ flips = {} /\ got.id = sent.id
                     /\ got.expected % (IF sent.profile = 1 THEN 16 ELSE 256) = sent.counter
        IN  /\ (got.res.err = "nil") = right
            /\ right => got.res.payload = sent.payload
=============================================================================
