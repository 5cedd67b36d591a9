--------------------------- MODULE TransfersProofs ---------------------------
(***************************************************************************)
(* Transfers over a stream: for any messages, any garbage and a connection *)
(* that is cut anywhere, readFrame stays in step with the writer.          *)
(* Protected frames: damage within one byte is refused, as each round of a *)
(* CRC loses nothing of its register nor of the byte that goes in.         *)
(* Service discovery: every datagram of this code means to its receivers   *)
(* what its sender meant, as each field stands where they look for it.     *)
(***************************************************************************)
EXTENDS Transfers, TLAPS, WellFoundedInduction

(* Numbers and bytes *)

\* A number of 32 bits.
Wide(x) == x \in Nat /\ x \div 65536 < 65536

\* Quotient and remainder give the number back.
LEMMA Divided256 ==
  ASSUME NEW x \in Nat
  PROVE  x \div 256 \in Nat /\ x % 256 \in 0..255 /\ 256 * (x \div 256) + (x % 256) = x
  OBVIOUS

LEMMA Divided65536 ==
  ASSUME NEW x \in Nat
  PROVE  x \div 65536 \in Nat /\ x % 65536 \in Nat /\ x % 65536 < 65536 /\ 65536 * (x \div 65536) + (x % 65536) = x
  OBVIOUS

LEMMA Small256 == ASSUME NEW x \in Nat, x < 256 PROVE x % 256 = x
  OBVIOUS

\* c is a with b after it, and where its bytes are therefore.
IsJoin(c, a, b) == c = a \o b
Laid(c, a, b) ==
    /\ c \in Seq(Byte) /\ Len(c) = Len(a) + Len(b)
    /\ \A i \in 1..Len(a) : c[i] = a[i]
    /\ \A i \in (Len(a) + 1)..Len(c) : c[i] = b[i - Len(a)]

LEMMA Joined ==
  ASSUME NEW a \in Seq(Byte), NEW b \in Seq(Byte), NEW c, IsJoin(c, a, b)
  PROVE  Laid(c, a, b)
<1>1. c = a \o b
  BY DEF IsJoin
<1>2. c \in Seq(Byte) /\ Len(c) = Len(a) + Len(b) /\ \A i \in 1..Len(a) : c[i] = a[i]
  BY <1>1
<1>3. \A i \in 1..Len(b) : c[Len(a) + i] = b[i]
  BY <1>1
<1>4. ASSUME NEW i \in (Len(a) + 1)..Len(c) PROVE c[i] = b[i - Len(a)]
  <2>1. i - Len(a) \in 1..Len(b) /\ Len(a) + (i - Len(a)) = i
    BY <1>2
  <2> QED BY <1>3, <2>1
<1> QED BY <1>2, <1>4 DEF Laid

\* A 16-bit number in two bytes.
LEMMA PutUint16Bytes ==
  ASSUME NEW x \in Nat, x < 65536
  PROVE  /\ PutUint16(x) \in Seq(Byte) /\ Len(PutUint16(x)) = 2
         /\ 256 * PutUint16(x)[1] + PutUint16(x)[2] = x
<1> DEFINE q == x \div 256
           r == x % 256
<1>1. q \in Nat /\ r \in 0..255 /\ 256 * q + r = x
  BY Divided256
<1>2. PutUint16(x) = <<q % 256, r>>
  BY DEF PutUint16
<1> HIDE DEF q, r
<1>3. q < 256
  BY <1>1
<1>4. q % 256 = q
  BY <1>1, <1>3, Small256
<1> QED BY <1>1, <1>2, <1>3, <1>4 DEF Byte

\* A 32-bit number in four.
LEMMA PutUint32Bytes ==
  ASSUME NEW x, Wide(x)
  PROVE  LET p == PutUint32(x) IN
         /\ p \in Seq(Byte) /\ Len(p) = 4
         /\ 65536 * (256 * p[1] + p[2]) + (256 * p[3] + p[4]) = x
<1> DEFINE q == x \div 65536
           r == x % 65536
           a == PutUint16(q)
           b == PutUint16(r)
           p == PutUint32(x)
<1>1. q \in Nat /\ q < 65536 /\ r \in Nat /\ r < 65536 /\ 65536 * q + r = x
  BY Divided65536, SMT DEF Wide
<1>2. IsJoin(p, a, b)
  BY DEF PutUint32, IsJoin
<1> HIDE DEF p, q, r
<1>3. /\ a \in Seq(Byte) /\ Len(a) = 2 /\ 256 * a[1] + a[2] = q
      /\ b \in Seq(Byte) /\ Len(b) = 2 /\ 256 * b[1] + b[2] = r
  BY <1>1, PutUint16Bytes
<1> HIDE DEF a, b
<1>4. /\ p \in Seq(Byte) /\ Len(p) = 4
      /\ (\A i \in 1..2 : p[i] = a[i]) /\ \A i \in 3..4 : p[i] = b[i - 2]
  <2>1. a \in Seq(Byte) /\ b \in Seq(Byte)
    BY <1>3
  <2>2. Laid(p, a, b)
    BY <1>2, <2>1, Joined
  <2> QED BY <2>2, <1>3 DEF Laid
<1>5. p[1] = a[1] /\ p[2] = a[2] /\ p[3] = b[1] /\ p[4] = b[2]
  BY <1>4
<1> QED BY <1>1, <1>3, <1>4, <1>5 DEF p

-----------------------------------------------------------------------------
(* Frames *)

\* What a frame's bytes say of its message.
Framed(f, m) ==
    /\ f \in Seq(Byte) /\ Len(f) = HeaderSize + Len(m.payload)
    /\ Uint16(f, 0) = m.service /\ Uint16(f, 2) = m.method
    /\ Uint32(f, 4) = minLength + Len(m.payload)
    /\ Uint16(f, 8) = m.client /\ Uint16(f, 10) = m.session
    /\ At(f, 12) = 1 /\ At(f, 13) = m.iface /\ At(f, 14) = m.type /\ At(f, 15) = m.code
    /\ \A i \in 1..Len(m.payload) : f[HeaderSize + i] = m.payload[i]

\* A 16-bit field of a message.
Short(x) == x \in Nat /\ x < 65536

\* What is up to Uint16Max has 16 bits.
LEMMA ShortIDs == \A x \in 0..Uint16Max : Short(x)
<1>1. Uint16Max \in Int /\ Uint16Max < 65536
  BY DEF Uint16Max
<1> QED BY <1>1, SMT DEF Short

\* The fields of a message and their types.
LEMMA Fields ==
  ASSUME NEW m \in Message
  PROVE  /\ Short(m.service) /\ Short(m.method) /\ Short(m.client) /\ Short(m.session)
         /\ m.iface \in Byte /\ m.type \in Byte /\ m.code \in Byte /\ m.payload \in Seq(Byte)
BY ShortIDs DEF Message

\* A field that is written is the field that is read.
LEMMA Put16 ==
  ASSUME NEW x, Short(x)
  PROVE  PutUint16(x) \in Seq(Byte) /\ Len(PutUint16(x)) = 2 /\ Uint16(PutUint16(x), 0) = x
<1>1. PutUint16(x) \in Seq(Byte) /\ Len(PutUint16(x)) = 2 /\ 256 * PutUint16(x)[1] + PutUint16(x)[2] = x
  BY PutUint16Bytes, SMT DEF Short
<1> QED BY <1>1, SMT DEF Uint16, At

\* Encode puts each field where Decode looks for it, and the payload after them.
LEMMA EncodeFramed ==
  ASSUME NEW m \in Message, Wide(minLength + Len(m.payload))
  PROVE  Framed(Encode(m), m)
<1> DEFINE n  == minLength + Len(m.payload)
           a  == PutUint16(m.service)
           b  == PutUint16(m.method)
           c  == PutUint32(n)
           d  == PutUint16(m.client)
           e  == PutUint16(m.session)
           g  == <<1, m.iface, m.type, m.code>>
           h2 == a \o b
           h3 == h2 \o c
           h4 == h3 \o d
           h5 == h4 \o e
           h6 == h5 \o g
           f  == h6 \o m.payload
<1>1. Encode(m) = f
  BY DEF Encode
<1>2. /\ a \in Seq(Byte) /\ Len(a) = 2 /\ Uint16(a, 0) = m.service
      /\ b \in Seq(Byte) /\ Len(b) = 2 /\ Uint16(b, 0) = m.method
      /\ d \in Seq(Byte) /\ Len(d) = 2 /\ Uint16(d, 0) = m.client
      /\ e \in Seq(Byte) /\ Len(e) = 2 /\ Uint16(e, 0) = m.session
  BY Fields, Put16
<1>3. c \in Seq(Byte) /\ Len(c) = 4 /\ 65536 * (256 * c[1] + c[2]) + (256 * c[3] + c[4]) = n
  <2> HIDE DEF n
  <2> QED BY PutUint32Bytes, SMT DEF n
<1>4. g \in Seq(Byte) /\ Len(g) = 4 /\ g[1] = 1 /\ g[2] = m.iface /\ g[3] = m.type /\ g[4] = m.code
  BY Fields DEF Byte
<1>5. IsJoin(h2, a, b) /\ IsJoin(h3, h2, c) /\ IsJoin(h4, h3, d) /\ IsJoin(h5, h4, e) /\ IsJoin(h6, h5, g)
      /\ IsJoin(f, h6, m.payload)
  BY DEF IsJoin
<1> HIDE DEF a, b, c, d, e, g, h2, h3, h4, h5, h6, f
<1>6. /\ h2 \in Seq(Byte) /\ Len(h2) = 4
      /\ h2[1] = a[1] /\ h2[2] = a[2] /\ h2[3] = b[1] /\ h2[4] = b[2]
  <2>1. Laid(h2, a, b)
    BY <1>2, <1>3, <1>4, <1>5, <1>2, Joined, SMT
  <2> QED BY <2>1, <1>2, <1>3, <1>4, <1>2, SMT DEF Laid
<1>7. /\ h3 \in Seq(Byte) /\ Len(h3) = 8
      /\ h3[1] = a[1] /\ h3[2] = a[2] /\ h3[3] = b[1] /\ h3[4] = b[2]
      /\ h3[5] = c[1] /\ h3[6] = c[2] /\ h3[7] = c[3] /\ h3[8] = c[4]
  <2>1. Laid(h3, h2, c)
    BY <1>2, <1>3, <1>4, <1>5, <1>6, Joined, SMT
  <2> QED BY <2>1, <1>2, <1>3, <1>4, <1>6, SMT DEF Laid
<1>8. /\ h4 \in Seq(Byte) /\ Len(h4) = 10
      /\ h4[1] = a[1] /\ h4[2] = a[2] /\ h4[3] = b[1] /\ h4[4] = b[2]
      /\ h4[5] = c[1] /\ h4[6] = c[2] /\ h4[7] = c[3] /\ h4[8] = c[4]
      /\ h4[9] = d[1] /\ h4[10] = d[2]
  <2>1. Laid(h4, h3, d)
    BY <1>2, <1>3, <1>4, <1>5, <1>7, Joined, SMT
  <2> QED BY <2>1, <1>2, <1>3, <1>4, <1>7, SMT DEF Laid
<1>9. /\ h5 \in Seq(Byte) /\ Len(h5) = 12
      /\ h5[1] = a[1] /\ h5[2] = a[2] /\ h5[3] = b[1] /\ h5[4] = b[2]
      /\ h5[5] = c[1] /\ h5[6] = c[2] /\ h5[7] = c[3] /\ h5[8] = c[4]
      /\ h5[9] = d[1] /\ h5[10] = d[2] /\ h5[11] = e[1] /\ h5[12] = e[2]
  <2>1. Laid(h5, h4, e)
    BY <1>2, <1>3, <1>4, <1>5, <1>8, Joined, SMT
  <2> QED BY <2>1, <1>2, <1>3, <1>4, <1>8, SMT DEF Laid
<1>10. /\ h6 \in Seq(Byte) /\ Len(h6) = 16
       /\ h6[1] = a[1] /\ h6[2] = a[2] /\ h6[3] = b[1] /\ h6[4] = b[2]
       /\ h6[5] = c[1] /\ h6[6] = c[2] /\ h6[7] = c[3] /\ h6[8] = c[4]
       /\ h6[9] = d[1] /\ h6[10] = d[2] /\ h6[11] = e[1] /\ h6[12] = e[2]
       /\ h6[13] = g[1] /\ h6[14] = g[2] /\ h6[15] = g[3] /\ h6[16] = g[4]
  <2>1. Laid(h6, h5, g)
    BY <1>2, <1>3, <1>4, <1>5, <1>9, Joined, SMT
  <2> QED BY <2>1, <1>2, <1>3, <1>4, <1>9, SMT DEF Laid
<1>11. /\ f \in Seq(Byte) /\ Len(f) = 16 + Len(m.payload)
       /\ \A i \in 1..16 : f[i] = h6[i]
       /\ \A i \in 1..Len(m.payload) : f[16 + i] = m.payload[i]
  <2>1. m.payload \in Seq(Byte) /\ h6 \in Seq(Byte) /\ Len(h6) = 16 /\ Len(m.payload) \in Nat
    <3>1. m.payload \in Seq(Byte)
      BY Fields
    <3> QED BY <1>10, <3>1
  <2>2. Laid(f, h6, m.payload)
    BY <1>5, <2>1, Joined
  <2>3. f \in Seq(Byte) /\ Len(f) = 16 + Len(m.payload) /\ \A i \in 1..16 : f[i] = h6[i]
    BY <2>1, <2>2 DEF Laid
  <2>4. ASSUME NEW i \in 1..Len(m.payload) PROVE f[16 + i] = m.payload[i]
    <3>1. 16 + i \in (Len(h6) + 1)..Len(f) /\ (16 + i) - Len(h6) = i
      BY <2>1, <2>3
    <3> QED BY <2>2, <3>1 DEF Laid
  <2> QED BY <2>3, <2>4
<1>12. \A i \in 0..15 : At(f, i) = h6[i + 1]
  <2>1. \A i \in 0..15 : i + 1 \in 1..16
    OBVIOUS
  <2> QED BY <1>11, <2>1, Zenon DEF At
<1>13. /\ Uint16(f, 0) = m.service /\ Uint16(f, 2) = m.method
       /\ Uint16(f, 8) = m.client /\ Uint16(f, 10) = m.session
  BY <1>2, <1>10, <1>12, SMTT(30) DEF Uint16, At
<1>14. Uint32(f, 4) = n
  BY <1>3, <1>10, <1>12, SMT DEF Uint32, Uint16, At
<1>15. At(f, 12) = 1 /\ At(f, 13) = m.iface /\ At(f, 14) = m.type /\ At(f, 15) = m.code
  BY <1>4, <1>10, <1>12, SMT
<1> QED BY <1>1, <1>11, <1>13, <1>14, <1>15, SMT DEF Framed, HeaderSize

\* Sequences with the same bytes are the same.
LEMMA Same ==
  ASSUME NEW a \in Seq(Byte), NEW b \in Seq(Byte), Len(a) = Len(b), \A i \in 1..Len(a) : a[i] = b[i]
  PROVE  a = b
  OBVIOUS

\* What the taken-apart frame says is the message.
LEMMA DecodeFramed ==
  ASSUME NEW m \in Message, NEW f, Framed(f, m)
  PROVE  Decode(f) = Ok(m)
<1>1. /\ f \in Seq(Byte) /\ Len(f) = HeaderSize + Len(m.payload)
      /\ Uint32(f, 4) = minLength + Len(m.payload) /\ At(f, 12) = 1
      /\ \A i \in 1..Len(m.payload) : f[HeaderSize + i] = m.payload[i]
      /\ m.payload \in Seq(Byte) /\ Len(m.payload) \in Nat
  BY Fields, SMT DEF Framed
<1> DEFINE p == Slice(f, HeaderSize, Len(f))
<1>2. p = m.payload
  <2>1. p \in Seq(Byte) /\ Len(p) = Len(m.payload) /\ \A i \in 1..Len(p) : p[i] = f[HeaderSize + i]
    BY <1>1, SMT DEF Slice, HeaderSize
  <2> HIDE DEF p
  <2> QED BY <1>1, <2>1, Same, SMT
<1> HIDE DEF p
<1> DEFINE d == [service |-> Uint16(f, 0), method  |-> Uint16(f, 2),
                 client  |-> Uint16(f, 8), session |-> Uint16(f, 10),
                 iface   |-> At(f, 13), type |-> At(f, 14), code |-> At(f, 15), payload |-> p]
<1>3. Decode(f) = Ok(d)
  BY <1>1, SMT DEF Decode, HeaderSize, minLength, p
<1>4. d = [service |-> m.service, method |-> m.method, client |-> m.client, session |-> m.session,
           iface |-> m.iface, type |-> m.type, code |-> m.code, payload |-> m.payload]
  BY <1>2, SMT DEF Framed
<1>5. m = [service |-> m.service, method |-> m.method, client |-> m.client, session |-> m.session,
           iface |-> m.iface, type |-> m.type, code |-> m.code, payload |-> m.payload]
  BY SMT DEF Message
<1> QED BY <1>3, <1>4, <1>5

\* An envelope keeps all of its message.
LEMMA EnvelopeKept == ASSUME NEW m \in Message PROVE FromMessage(ToMessage(m)) = Ok(m)
<1> DEFINE meta == [client |-> m.client, session |-> m.session, type |-> m.type, code |-> m.code, iface |-> m.iface]
           id == <<m.service, m.method>>
<1>1. ToMessage(m) = [id |-> id, payload |-> m.payload, meta |-> meta]
  BY DEF ToMessage
<1>2. /\ Parses(m.service, Uint16Max) /\ Parses(m.method, Uint16Max)
      /\ Parses(m.client, Uint16Max) /\ Parses(m.session, Uint16Max)
      /\ Parses(m.iface, Uint8Max) /\ Parses(m.type, Uint8Max) /\ Parses(m.code, Uint8Max)
  BY DEF Parses, Message, Byte, Uint8Max
<1>3. Len(id) = 2 /\ \A i \in DOMAIN id : Parses(id[i], Uint16Max)
  BY <1>2
<1>4. /\ metaUint(meta, "client", Uint16Max) = m.client /\ metaUint(meta, "session", Uint16Max) = m.session
      /\ metaUint(meta, "type", Uint8Max) = m.type /\ metaUint(meta, "code", Uint8Max) = m.code
      /\ metaUint(meta, "iface", Uint8Max) = m.iface
  BY <1>2 DEF metaUint
<1>5. id[1] = m.service /\ id[2] = m.method
  OBVIOUS
<1> HIDE DEF id, meta
<1>6. FromMessage(ToMessage(m)) =
        Ok([service |-> m.service, method |-> m.method, payload |-> m.payload, client |-> m.client,
            session |-> m.session, type |-> m.type, code |-> m.code, iface |-> m.iface])
  BY <1>1, <1>3, <1>4, <1>5 DEF FromMessage
<1>7. m = [service |-> m.service, method |-> m.method, payload |-> m.payload, client |-> m.client,
            session |-> m.session, type |-> m.type, code |-> m.code, iface |-> m.iface]
  BY SMT DEF Message
<1> QED BY <1>6, <1>7

-----------------------------------------------------------------------------
(* Reading *)

\* s begins as b does, as far as both go.
Agrees(s, b) == \A i \in 1..Len(b) : i <= Len(s) => s[i] = b[i]

\* The header is read from the first sixteen bytes.
LEMMA HeaderAgrees ==
  ASSUME NEW s \in Seq(Byte), NEW b \in Seq(Byte), HeaderSize <= Len(s), HeaderSize <= Len(b), Agrees(s, b)
  PROVE  Uint32(s, 4) = Uint32(b, 4) /\ At(s, 12) = At(b, 12) /\ Uint32(b, 4) \in Nat
<1>1. ASSUME NEW i \in 1..16 PROVE s[i] = b[i] /\ b[i] \in Byte
  <2>1. i \in 1..Len(b) /\ i <= Len(s)
    BY SMT DEF HeaderSize
  <2>2. s[i] = b[i]
    BY <2>1 DEF Agrees
  <2>3. b[i] \in Byte
    BY <2>1
  <2> QED BY <2>2, <2>3
<1>2. At(s, 12) = At(b, 12)
  BY <1>1, SMT DEF At
<1>3. /\ s[5] = b[5] /\ s[6] = b[6] /\ s[7] = b[7] /\ s[8] = b[8]
      /\ b[5] \in Byte /\ b[6] \in Byte /\ b[7] \in Byte /\ b[8] \in Byte
  BY <1>1, SMT
<1>4. Uint32(s, 4) = Uint32(b, 4)
  BY <1>3, SMT DEF Uint32, Uint16, At
<1>5. Uint32(b, 4) \in Nat
  <2> DEFINE Word(w, x, y, z) == 65536 * (256 * w + x) + (256 * y + z)
  <2>1. \A w, x, y, z \in Byte : Word(w, x, y, z) \in Nat
    BY DEF Byte
  <2>2. Uint32(b, 4) = Word(b[5], b[6], b[7], b[8])
    BY SMT DEF Uint32, Uint16, At
  <2> HIDE DEF Word
  <2> QED BY <1>3, <2>1, <2>2
<1> QED BY <1>2, <1>4, <1>5

\* A whole frame at the head of the stream is read as its message, whatever
\* comes after it and whatever its payload holds.
LEMMA ReadWhole ==
  ASSUME NEW m \in Message, NEW f, Framed(f, m), Len(f) <= maxFrameSize,
         NEW s \in Seq(Byte), Agrees(s, f), Len(f) <= Len(s)
  PROVE  ReadFrame(s) = [took |-> Len(f), res |-> Ok(m)]
<1> DEFINE n == Len(m.payload)
<1>1. /\ f \in Seq(Byte) /\ Len(f) = HeaderSize + n /\ Uint32(f, 4) = minLength + n
      /\ n \in Nat /\ HeaderSize \in Nat
  BY Fields, SMT DEF Framed, HeaderSize
<1>2. Len(s) >= HeaderSize /\ HeaderSize <= Len(f)
  BY <1>1, SMT
<1>3. Announced(s) = n
  BY <1>1, <1>2, HeaderAgrees, SMT DEF Announced, minLength
<1>4. Slice(s, 0, HeaderSize + n) = f
  <2> DEFINE p == Slice(s, 0, HeaderSize + n)
  <2>1. p \in Seq(Byte) /\ Len(p) = Len(f) /\ \A i \in 1..Len(p) : p[i] = s[i]
    BY <1>1, SMT DEF Slice
  <2>2. \A i \in 1..Len(p) : p[i] = f[i]
    BY <2>1, <1>1, SMT DEF Agrees
  <2> HIDE DEF p
  <2>3. p = f
    BY <2>1, <2>2, <1>1, Same, SMT
  <2> QED BY <2>3 DEF p
<1>5. Decode(f) = Ok(m)
  BY DecodeFramed
<1> QED BY <1>1, <1>2, <1>3, <1>4, <1>5, StreamAssumption, SMT DEF ReadFrame

\* Of less than a frame nothing is taken.
LEMMA ReadPart ==
  ASSUME NEW m \in Message, NEW f, Framed(f, m), Len(f) <= maxFrameSize,
         NEW s \in Seq(Byte), Agrees(s, f), Len(s) < Len(f)
  PROVE  ReadFrame(s) = [took |-> 0, res |-> Fail("EOF")]
<1> DEFINE n == Len(m.payload)
<1>1. /\ f \in Seq(Byte) /\ Len(f) = HeaderSize + n /\ Uint32(f, 4) = minLength + n
      /\ n \in Nat /\ HeaderSize \in Nat
  BY Fields, SMT DEF Framed, HeaderSize
<1>2. CASE Len(s) < HeaderSize
  BY <1>2 DEF ReadFrame
<1>3. CASE Len(s) >= HeaderSize
  <2>1. Announced(s) = n
    BY <1>1, <1>3, HeaderAgrees, SMT DEF Announced, minLength
  <2> QED BY <1>1, <1>3, <2>1, StreamAssumption, SMT DEF ReadFrame
<1> QED BY <1>1, <1>2, <1>3, SMT

\* Of bytes that are no frame no message is read.
LEMMA ReadBad ==
  ASSUME NEW b \in Seq(Byte), HeaderSize <= Len(b), BadHeader(b), NEW s \in Seq(Byte), Agrees(s, b)
  PROVE  ReadFrame(s).res.err # "nil"
<1>1. CASE Len(s) < HeaderSize
  BY <1>1 DEF ReadFrame, Fail
<1>2. CASE Len(s) >= HeaderSize
  <2> DEFINE n == Announced(s)
             p == Slice(s, 0, HeaderSize + n)
  <2>1. n = Uint32(b, 4) - 8 /\ Uint32(s, 4) = Uint32(b, 4) /\ At(s, 12) = At(b, 12) /\ Uint32(b, 4) \in Nat
    BY <1>2, HeaderAgrees, SMT DEF Announced, minLength, HeaderSize
  <2>2. CASE n < 0
    BY <2>2, <1>2, SMT DEF ReadFrame, Fail, HeaderSize
  <2>3. CASE n >= 0 /\ HeaderSize + n > maxFrameSize
    BY <2>1, <2>3, <1>2, SMT DEF ReadFrame, Fail, HeaderSize
  <2>4. CASE n >= 0 /\ HeaderSize + n <= maxFrameSize /\ Len(s) < HeaderSize + n
    BY <2>1, <2>4, <1>2, StreamAssumption, SMT DEF ReadFrame, Fail, HeaderSize
  <2>5. CASE n >= 0 /\ HeaderSize + n <= maxFrameSize /\ Len(s) >= HeaderSize + n
    <3>1. ReadFrame(s).res = Decode(p)
      BY <2>1, <2>5, <1>2, StreamAssumption, SMT DEF ReadFrame, HeaderSize
    <3>2. p \in Seq(Byte) /\ Len(p) = HeaderSize + n /\ \A i \in 1..Len(p) : p[i] = s[i]
      BY <2>1, <2>5, <1>2, SMT DEF Slice, HeaderSize
    <3>3. BadHeader(b) => At(b, 12) # 1
      BY <2>1, <2>5, StreamAssumption, SMT DEF BadHeader, minLength, HeaderSize
    <3>4. At(p, 12) # 1 /\ Uint32(p, 4) = 8 + n
      <4>1. Agrees(p, s) /\ HeaderSize <= Len(p)
        BY <3>2, <2>5, <2>1, SMT DEF Agrees, HeaderSize
      <4> HIDE DEF n, p
      <4>2. Uint32(p, 4) = Uint32(s, 4) /\ At(p, 12) = At(s, 12)
        BY <4>1, <1>2, <3>2, HeaderAgrees
      <4> QED BY <4>2, <2>1, <3>3
    <3> HIDE DEF n, p
    <3>5. Decode(p).err # "nil"
      BY <3>2, <3>4, <2>5, <2>1, SMT DEF Decode, Fail, HeaderSize, minLength
    <3> QED BY <3>1, <3>5
  <2>6. n \in Int /\ HeaderSize \in Int /\ Len(s) \in Int /\ maxFrameSize \in Int
    BY <2>1, StreamAssumption, SMT DEF HeaderSize
  <2> HIDE DEF n, p
  <2> QED BY <2>2, <2>3, <2>4, <2>5, <2>6
<1> QED BY <1>1, <1>2, SMT DEF HeaderSize

-----------------------------------------------------------------------------
(* The invariant *)

\* What may be written: messages as Encode makes them, and garbage.
Written == {[msg |-> m, bytes |-> Encode(m)] : m \in Messages} \cup {[msg |-> None, bytes |-> b] : b \in Garbage}

\* The types of a stream's variables.
StreamType == /\ sent \in Seq(Written) /\ got \in Seq(Messages) /\ wire \in Seq(Byte)
              /\ up \in BOOLEAN /\ reading \in BOOLEAN

\* As far as s reaches, b stands in it after its first off bytes.
On(s, off, b) == \A k \in 1..Len(b) : off + k <= Len(s) => s[off + k] = b[k]

\* at[i] is how far from the head of the wire the i-th write ends.
Placed(at) ==
    /\ at \in [0..Len(sent) -> Int]
    /\ at[Len(got)] = 0
    /\ \A i \in 1..Len(sent) : at[i] = at[i - 1] + Len(sent[i].bytes)
    /\ \A i, j \in 0..Len(sent) : i < j => at[i] < at[j]
    /\ \A i \in (Len(got) + 1)..Len(sent) : On(wire, at[i - 1], sent[i].bytes)
    /\ Len(wire) <= at[Len(sent)] /\ (up => Len(wire) = at[Len(sent)])

\* The next write is no message.
Stuck == Len(got) < Len(sent) /\ sent[Len(got) + 1].msg = None

\* As long as it reads, the reader is at the first write that it has not read.
StreamInv ==
    /\ StreamType
    /\ Len(got) <= Len(sent)
    /\ \A i \in 1..Len(got) : got[i] = sent[i].msg
    /\ reading => \E at : Placed(at)
    /\ ~reading => ~up \/ Stuck

IInv == kind = "tcp" => StreamInv

\* What is known of a write.
Sound(w) ==
    /\ w.bytes \in Seq(Byte) /\ HeaderSize <= Len(w.bytes)
    /\ w.msg = None => BadHeader(w.bytes)
    /\ w.msg # None => /\ w.msg \in Messages /\ w.msg \in Message
                       /\ Framed(w.bytes, w.msg) /\ Len(w.bytes) <= maxFrameSize

\* A message's Length is a number of 32 bits.
LEMMA MessageFits == ASSUME NEW m \in Messages PROVE m \in Message /\ Wide(minLength + Len(m.payload)) /\ m # None
<1>1. m \in Message /\ HeaderSize + Len(m.payload) <= maxFrameSize /\ maxFrameSize \in Nat /\ Wide(maxFrameSize)
  BY StreamAssumption, SMT DEF Wide
<1>2. m.payload \in Seq(Byte)
  BY <1>1 DEF Message
<1>3. Len(m.payload) \in Nat
  BY <1>2
<1>4. minLength + Len(m.payload) \in Nat /\ minLength + Len(m.payload) <= maxFrameSize
  BY <1>1, <1>3, SMT DEF minLength, HeaderSize
<1>5. ASSUME NEW x \in Nat, NEW y \in Nat, x <= y, Wide(y) PROVE Wide(x)
  BY <1>5, SMT DEF Wide
<1>6. m # None
  BY StreamAssumption, SMT
<1>7. Wide(minLength + Len(m.payload))
  BY <1>1, <1>4, <1>5, Zenon
<1> QED BY <1>1, <1>6, <1>7

\* Whatever is written is the frame of its message, or has a bad header.
LEMMA WrittenSound == ASSUME NEW w \in Written PROVE Sound(w)
<1>1. CASE \E m \in Messages : w = [msg |-> m, bytes |-> Encode(m)]
  <2>1. PICK m \in Messages : w = [msg |-> m, bytes |-> Encode(m)]
    BY <1>1
  <2>2. w.msg = m /\ w.bytes = Encode(m) /\ m # None
    BY <2>1, MessageFits
  <2>3. m \in Message /\ Framed(Encode(m), m)
    BY MessageFits, EncodeFramed
  <2>4. Encode(m) \in Seq(Byte) /\ Len(Encode(m)) = HeaderSize + Len(m.payload)
    BY <2>3 DEF Framed
  <2>5. m.payload \in Seq(Byte) /\ HeaderSize + Len(m.payload) <= maxFrameSize
    BY <2>3, StreamAssumption DEF Message
  <2>6. HeaderSize <= HeaderSize + Len(m.payload)
    BY <2>5, SMT DEF HeaderSize
  <2> QED BY <2>2, <2>3, <2>4, <2>5, <2>6 DEF Sound
<1>2. CASE \E b \in Garbage : w = [msg |-> None, bytes |-> b]
  <2>1. PICK b \in Garbage : w = [msg |-> None, bytes |-> b]
    BY <1>2
  <2>2. b \in Seq(Byte) /\ Len(b) >= HeaderSize /\ BadHeader(b)
    BY StreamAssumption, SMT DEF BadHeader
  <2>3. HeaderSize <= Len(b)
    BY <2>2, SMT DEF HeaderSize
  <2> QED BY <2>1, <2>2, <2>3 DEF Sound
<1> QED BY <1>1, <1>2 DEF Written

-----------------------------------------------------------------------------
(* Bytes on the wire *)

\* What stands whole on the wire stays there when more is written.
LEMMA OnAppended ==
  ASSUME NEW s \in Seq(Byte), NEW t \in Seq(Byte), NEW z, IsJoin(z, s, t),
         NEW b \in Seq(Byte), NEW off \in Nat, On(s, off, b), off + Len(b) <= Len(s)
  PROVE  On(z, off, b)
<1>1. Laid(z, s, t)
  BY Joined
<1>2. ASSUME NEW k \in 1..Len(b) PROVE z[off + k] = b[k]
  <2>1. off + k \in 1..Len(s) /\ off + k <= Len(s)
    BY SMT
  <2> QED BY <1>1, <2>1 DEF On, Laid
<1> QED BY <1>2 DEF On

\* What is written stands at the end of what was there.
LEMMA OnLast ==
  ASSUME NEW s \in Seq(Byte), NEW b \in Seq(Byte), NEW z, IsJoin(z, s, b)
  PROVE  On(z, Len(s), b)
<1>1. Laid(z, s, b)
  BY Joined
<1>2. ASSUME NEW k \in 1..Len(b) PROVE z[Len(s) + k] = b[k]
  <2>1. Len(s) + k \in (Len(s) + 1)..Len(z) /\ (Len(s) + k) - Len(s) = k
    BY <1>1, SMT DEF Laid
  <2>2. z[Len(s) + k] = b[(Len(s) + k) - Len(s)]
    BY <1>1, <2>1, Zenon DEF Laid
  <2> QED BY <2>1, <2>2
<1> QED BY <1>2 DEF On

\* A part of the wire, and what stands in it.
LEMMA Sliced ==
  ASSUME NEW s \in Seq(Byte), NEW n \in 0..Len(s)
  PROVE  /\ Slice(s, 0, n) \in Seq(Byte) /\ Len(Slice(s, 0, n)) = n
         /\ \A i \in 1..n : Slice(s, 0, n)[i] = s[i]
         /\ Slice(s, n, Len(s)) \in Seq(Byte) /\ Len(Slice(s, n, Len(s))) = Len(s) - n
         /\ \A i \in 1..(Len(s) - n) : Slice(s, n, Len(s))[i] = s[n + i]
  BY SMT DEF Slice

\* A cut leaves what stands there as far as the wire still reaches.
LEMMA OnCut ==
  ASSUME NEW s \in Seq(Byte), NEW n \in 0..Len(s), NEW b \in Seq(Byte), NEW off \in Nat, On(s, off, b)
  PROVE  On(Slice(s, 0, n), off, b)
<1> DEFINE z == Slice(s, 0, n)
<1>1. Len(z) = n /\ \A i \in 1..n : z[i] = s[i]
  BY Sliced
<1> HIDE DEF z
<1>2. ASSUME NEW k \in 1..Len(b), off + k <= Len(z) PROVE z[off + k] = b[k]
  <2>1. off + k \in 1..n /\ off + k <= Len(s)
    BY <1>1, <1>2, SMT
  <2> QED BY <1>1, <2>1 DEF On
<1> QED BY <1>2 DEF On, z

\* What has not been taken stands nearer to the head.
LEMMA OnRest ==
  ASSUME NEW s \in Seq(Byte), NEW n \in 0..Len(s), NEW b \in Seq(Byte), NEW off \in Nat, n <= off, On(s, off, b)
  PROVE  On(Slice(s, n, Len(s)), off - n, b)
<1> DEFINE z == Slice(s, n, Len(s))
<1>1. Len(z) = Len(s) - n /\ \A i \in 1..(Len(s) - n) : z[i] = s[n + i]
  BY Sliced
<1> HIDE DEF z
<1>2. ASSUME NEW k \in 1..Len(b), (off - n) + k <= Len(z) PROVE z[(off - n) + k] = b[k]
  <2>1. (off - n) + k \in 1..(Len(s) - n) /\ n + ((off - n) + k) = off + k /\ off + k <= Len(s)
    BY <1>1, <1>2, SMT
  <2>2. z[(off - n) + k] = s[n + ((off - n) + k)]
    BY <1>1, <2>1, Zenon
  <2> QED BY <2>1, <2>2 DEF On
<1> QED BY <1>2 DEF On, z

-----------------------------------------------------------------------------
(* The steps *)

\* Before anything is sent.
LEMMA StreamInit == Init => IInv
<1> SUFFICES ASSUME Init, kind = "tcp" PROVE StreamInv
  BY DEF IInv
<1>1. /\ sent = <<>> /\ wire = <<>> /\ got = <<>> /\ up = TRUE /\ reading = TRUE
  BY DEF Init
<1>2. Len(sent) = 0 /\ Len(wire) = 0 /\ Len(got) = 0
  BY <1>1
<1>3. StreamType
  BY <1>1 DEF StreamType
<1>4. Placed([i \in 0..0 |-> 0])
  BY <1>2 DEF Placed
<1> QED BY <1>1, <1>2, <1>3, <1>4 DEF StreamInv

\* A write goes to the end of what is on the wire.
LEMMA WriteStep ==
  ASSUME StreamInv, up, NEW w \in Written, Write(w), UNCHANGED <<up, reading, got>>
  PROVE  StreamInv'
<1>1. /\ StreamType /\ sent' = Append(sent, w) /\ wire' = wire \o w.bytes
      /\ up' = up /\ reading' = reading /\ got' = got
  BY DEF StreamInv, Write
<1>2. /\ Sound(w) /\ w.bytes \in Seq(Byte) /\ Len(w.bytes) \in Nat /\ Len(w.bytes) > 0
  BY WrittenSound, SMT DEF Sound, HeaderSize
<1>3. IsJoin(wire', wire, w.bytes) /\ Laid(wire', wire, w.bytes)
  BY <1>1, <1>2, Joined DEF IsJoin, StreamType
<1>4. /\ sent' \in Seq(Written) /\ Len(sent') = Len(sent) + 1 /\ sent'[Len(sent) + 1] = w
      /\ \A i \in 1..Len(sent) : sent'[i] = sent[i]
      /\ Len(sent) \in Nat /\ Len(got) \in Nat /\ Len(wire) \in Nat
  BY <1>1 DEF StreamType
<1>5. StreamType'
  BY <1>1, <1>3, <1>4 DEF StreamType, Laid
<1>6. Len(got') <= Len(sent') /\ \A i \in 1..Len(got') : got'[i] = sent'[i].msg
  <2>1. Len(got) <= Len(sent) /\ \A i \in 1..Len(got) : got[i] = sent[i].msg
    BY DEF StreamInv
  <2> QED BY <2>1, <1>1, <1>4, SMT
<1>7. ~reading' => ~up' \/ Stuck'
  <2>1. ~reading => Stuck
    BY DEF StreamInv
  <2>2. Stuck => Stuck'
    BY <1>1, <1>4, SMT DEF Stuck
  <2> QED BY <2>1, <2>2, <1>1
<1>8. ASSUME reading PROVE \E at : Placed(at)'
  <2>1. PICK at : Placed(at)
    BY <1>8 DEF StreamInv
  <2> DEFINE n   == Len(sent)
             end == Len(wire) + Len(w.bytes)
  <2>2. /\ at \in [0..n -> Int] /\ at[Len(got)] = 0 /\ Len(got) <= n /\ Len(wire) = at[n]
        /\ \A i \in 1..n : at[i] = at[i - 1] + Len(sent[i].bytes)
        /\ \A i, j \in 0..n : i < j => at[i] < at[j]
        /\ \A i \in (Len(got) + 1)..n : On(wire, at[i - 1], sent[i].bytes)
    BY <2>1 DEF Placed, StreamInv
  <2>3. end \in Int /\ end > Len(wire)
    BY <1>2, <1>4
  <2> HIDE DEF end
  <2>4. PICK new : /\ new \in [0..(n + 1) -> Int] /\ new[n + 1] = end
                   /\ \A i \in 0..n : new[i] = at[i]
    <3> DEFINE nu == [i \in 0..(n + 1) |-> IF i = n + 1 THEN end ELSE at[i]]
    <3>1. nu \in [0..(n + 1) -> Int] /\ nu[n + 1] = end /\ \A i \in 0..n : nu[i] = at[i]
      BY <2>2, <2>3, <1>4
    <3> HIDE DEF nu
    <3> QED BY <3>1
  <2>5. ASSUME NEW i \in 1..(n + 1) PROVE new[i] = new[i - 1] + Len(sent'[i].bytes)
    <3>1. CASE i = n + 1
      <4>1. i - 1 = n /\ sent'[i] = w
        BY <3>1, <1>4
      <4>2. new[i - 1] = Len(wire)
        BY <4>1, <2>2, <2>4, <1>4
      <4> QED BY <3>1, <4>1, <4>2, <2>4 DEF end
    <3>2. CASE i # n + 1
      <4>1. i \in 1..n /\ i - 1 \in 0..n /\ i \in 0..n
        BY <3>2, <1>4
      <4> QED BY <4>1, <2>2, <2>4, <1>4
    <3> QED BY <3>1, <3>2
  <2>6. ASSUME NEW i \in 0..n PROVE at[i] <= at[n] /\ at[i] \in Int
    <3>1. n \in 0..n /\ (i = n \/ i < n)
      BY <1>4
    <3>2. at[i] \in Int /\ at[n] \in Int /\ (i < n => at[i] < at[n])
      BY <3>1, <2>2
    <3> QED BY <3>1, <3>2
  <2>7. ASSUME NEW i \in 0..(n + 1), NEW j \in 0..(n + 1), i < j PROVE new[i] < new[j]
    <3>1. i \in 0..n /\ new[i] = at[i] /\ (j = n + 1 \/ j \in 0..n)
      BY <2>4, <2>7, <1>4
    <3>2. CASE j = n + 1
      BY <3>1, <3>2, <2>2, <2>3, <2>4, <2>6, <1>4
    <3>3. CASE j \in 0..n
      BY <3>1, <3>3, <2>2, <2>4, <2>7
    <3> QED BY <3>1, <3>2, <3>3
  <2>8. ASSUME NEW i \in (Len(got) + 1)..(n + 1) PROVE On(wire', new[i - 1], sent'[i].bytes)
    <3>1. CASE i = n + 1
      <4>1. new[i - 1] = Len(wire) /\ sent'[i] = w
        BY <3>1, <2>2, <2>4, <1>4
      <4> QED BY <4>1, <1>1, <1>2, <1>3, OnLast DEF StreamType
    <3>2. CASE i # n + 1
      <4>1. i \in 1..n /\ i \in (Len(got) + 1)..n /\ i - 1 \in 0..n /\ i \in 0..n
        BY <3>2, <2>8, <1>4
      <4>2. new[i - 1] = at[i - 1] /\ sent'[i] = sent[i] /\ On(wire, at[i - 1], sent[i].bytes)
        BY <4>1, <2>2, <2>4, <1>4
      <4>3. sent[i].bytes \in Seq(Byte)
        BY <4>1, <1>1, WrittenSound DEF StreamType, Sound
      <4>4. at[i - 1] + Len(sent[i].bytes) <= Len(wire)
        BY <4>1, <2>2, <2>6
      <4>5. at[i - 1] \in Nat
        <5>1. Len(got) = i - 1 \/ Len(got) < i - 1
          BY <2>8, <1>4
        <5> QED BY <5>1, <4>1, <2>2, <1>4
      <4> QED BY <4>2, <4>3, <4>4, <4>5, <1>1, <1>2, <1>3, OnAppended DEF StreamType
    <3> QED BY <3>1, <3>2
  <2>9. Len(wire') = end /\ Len(wire') = new[n + 1]
    BY <1>3, <2>4 DEF Laid, end
  <2>10. new[Len(got)] = 0
    BY <2>2, <2>4, <1>4
  <2>11. Placed(new)'
    <3>1. /\ new \in [0..Len(sent') -> Int] /\ new[Len(got')] = 0
          /\ \A i \in (Len(got') + 1)..Len(sent') : On(wire', new[i - 1], sent'[i].bytes)
          /\ Len(wire') <= new[Len(sent')] /\ (up' => Len(wire') = new[Len(sent')])
      BY <1>1, <1>4, <2>3, <2>4, <2>8, <2>9, <2>10
    <3>2. \A i \in 1..Len(sent') : new[i] = new[i - 1] + Len(sent'[i].bytes)
      BY <1>4, <2>5
    <3>3. \A i, j \in 0..Len(sent') : i < j => new[i] < new[j]
      BY <1>4, <2>7
    <3> QED BY <3>1, <3>2, <3>3 DEF Placed
  <2> QED BY <2>11
<1> QED BY <1>1, <1>5, <1>6, <1>7, <1>8 DEF StreamInv

\* A cut only shortens the wire.
LEMMA CutStep ==
  ASSUME StreamInv, NEW n \in 0..Len(wire), up' = FALSE, wire' = Slice(wire, 0, n), UNCHANGED <<sent, reading, got>>
  PROVE  StreamInv'
<1>1. /\ StreamType /\ Len(got) <= Len(sent) /\ \A i \in 1..Len(got) : got[i] = sent[i].msg
      /\ sent' = sent /\ reading' = reading /\ got' = got
  BY DEF StreamInv
<1>2. wire' \in Seq(Byte) /\ Len(wire') = n /\ n <= Len(wire) /\ n \in Nat
  BY <1>1, Sliced DEF StreamType
<1>3. StreamType'
  BY <1>1, <1>2 DEF StreamType
<1>4. ASSUME reading PROVE \E at : Placed(at)'
  <2>1. PICK at : Placed(at)
    BY <1>4 DEF StreamInv
  <2>2. /\ at \in [0..Len(sent) -> Int] /\ at[Len(got)] = 0
        /\ \A i \in 1..Len(sent) : at[i] = at[i - 1] + Len(sent[i].bytes)
        /\ \A i, j \in 0..Len(sent) : i < j => at[i] < at[j]
        /\ \A i \in (Len(got) + 1)..Len(sent) : On(wire, at[i - 1], sent[i].bytes)
        /\ Len(wire) <= at[Len(sent)]
    BY <2>1 DEF Placed
  <2>3. Len(wire) \in Nat /\ Len(sent) \in Nat /\ Len(got) \in Nat
    BY <1>1 DEF StreamType
  <2>0. at[Len(sent)] \in Int
    BY <2>2, <2>3
  <2>4. ASSUME NEW i \in (Len(got) + 1)..Len(sent) PROVE On(wire', at[i - 1], sent[i].bytes)
    <3>1. i - 1 \in 0..Len(sent) /\ i \in 1..Len(sent) /\ (i - 1 = Len(got) \/ Len(got) < i - 1) /\ Len(got) \in 0..Len(sent)
      BY <1>1, <2>3
    <3>2. at[i - 1] \in Nat
      <4>1. at[i - 1] \in Int
        BY <3>1, <2>2
      <4>2. Len(got) < i - 1 => at[Len(got)] < at[i - 1]
        BY <3>1, <2>2
      <4> QED BY <4>1, <4>2, <3>1, <2>2
    <3>3. sent[i].bytes \in Seq(Byte)
      BY <3>1, <1>1, WrittenSound DEF StreamType, Sound
    <3> QED BY <3>2, <3>3, <2>2, <2>4, <1>1, OnCut DEF StreamType
  <2>5. Len(wire') <= at[Len(sent)]
    BY <2>2, <2>3, <2>0, <1>2
  <2>6. Placed(at)'
    BY <1>1, <2>2, <2>4, <2>5 DEF Placed
  <2> QED BY <2>6
<1> QED BY <1>1, <1>3, <1>4 DEF StreamInv

\* A read takes no more than there is.
LEMMA ReadTook == ASSUME NEW s \in Seq(Byte) PROVE ReadFrame(s).took \in 0..Len(s)
<1>1. CASE Len(s) < HeaderSize
  BY <1>1, SMT DEF ReadFrame
<1>2. CASE Len(s) >= HeaderSize
  <2> DEFINE n == Announced(s)
  <2>1. HeaderSize <= Len(s) /\ Agrees(s, s)
    BY <1>2, SMT DEF Agrees, HeaderSize
  <2>2. Uint32(s, 4) \in Nat
    BY <2>1, HeaderAgrees
  <2>3. n \in Int /\ maxFrameSize \in Nat
    BY <2>2, StreamAssumption, SMT DEF Announced, minLength
  <2> HIDE DEF n
  <2>4. \/ ReadFrame(s).took = 0
        \/ ReadFrame(s).took = HeaderSize
        \/ ReadFrame(s).took = HeaderSize + n /\ ~(n < 0) /\ ~(Len(s) < HeaderSize + n)
    BY <1>2, SMT DEF ReadFrame, n
  <2> QED BY <1>2, <2>3, <2>4, SMT DEF HeaderSize
<1> QED BY <1>1, <1>2, SMT DEF HeaderSize

\* After a message has been read the next write is at the head of the wire.
LEMMA Taken ==
  ASSUME StreamInv, reading, Len(got) < Len(sent),
         LET w == sent[Len(got) + 1] IN
           /\ w.msg \in Messages /\ Len(w.bytes) <= Len(wire)
           /\ got' = Append(got, w.msg) /\ wire' = Slice(wire, Len(w.bytes), Len(wire)),
         reading' = TRUE, sent' = sent, up' = up
  PROVE  StreamInv'
<1>0. PICK at : Placed(at)
  BY DEF StreamInv
<1> DEFINE k == Len(got) + 1
           w == sent[k]
           b == w.bytes
           n == Len(b)
<1>1. StreamType /\ Len(got) <= Len(sent) /\ \A i \in 1..Len(got) : got[i] = sent[i].msg
  BY DEF StreamInv
<1>2. /\ at \in [0..Len(sent) -> Int] /\ at[Len(got)] = 0
      /\ \A i \in 1..Len(sent) : at[i] = at[i - 1] + Len(sent[i].bytes)
      /\ \A i, j \in 0..Len(sent) : i < j => at[i] < at[j]
      /\ \A i \in (Len(got) + 1)..Len(sent) : On(wire, at[i - 1], sent[i].bytes)
      /\ Len(wire) <= at[Len(sent)] /\ (up => Len(wire) = at[Len(sent)])
  BY <1>0 DEF Placed
<1>3. Len(wire) \in Nat /\ Len(sent) \in Nat /\ Len(got) \in Nat /\ wire \in Seq(Byte) /\ sent \in Seq(Written) /\ got \in Seq(Messages)
  BY <1>1 DEF StreamType
<1>7. k \in 1..Len(sent) /\ k - 1 = Len(got) /\ k \in Nat
  BY <1>3
<1>15. w \in Written /\ w.bytes \in Seq(Byte)
  BY <1>3, <1>7, WrittenSound DEF Sound
<1> HIDE DEF w
<1>14. /\ w.msg \in Messages /\ Len(w.bytes) <= Len(wire)
       /\ got' = Append(got, w.msg) /\ wire' = Slice(wire, Len(w.bytes), Len(wire))
  BY DEF w
<1>4. n \in 0..Len(wire) /\ n \in Nat
  BY <1>3, <1>15, <1>14
<1>5. wire' \in Seq(Byte) /\ Len(wire') = Len(wire) - n
  BY <1>3, <1>4, <1>14, Sliced
<1>6. /\ got' \in Seq(Messages) /\ Len(got') = k /\ got'[k] = w.msg
      /\ \A i \in 1..Len(got) : got'[i] = got[i]
  BY <1>3, <1>14
<1>8. at[k] = n
  BY <1>2, <1>3, <1>4, <1>7 DEF w
<1>9. \A i \in 1..Len(got') : got'[i] = sent'[i].msg
  BY <1>1, <1>3, <1>6, <1>7 DEF w
<1> HIDE DEF n, b
<1>10. PICK nu : nu \in [0..Len(sent) -> Int] /\ \A i \in 0..Len(sent) : nu[i] = at[i] - n
  <2> DEFINE f == [i \in 0..Len(sent) |-> at[i] - n]
  <2>1. f \in [0..Len(sent) -> Int] /\ \A i \in 0..Len(sent) : f[i] = at[i] - n
    BY <1>2, <1>4
  <2> HIDE DEF f
  <2> QED BY <2>1
<1>11. Placed(nu)'
  <2>1. nu[k] = 0
    BY <1>3, <1>4, <1>7, <1>8, <1>10
  <2>2. ASSUME NEW i \in 1..Len(sent) PROVE nu[i] = nu[i - 1] + Len(sent[i].bytes)
    <3>1. i \in 0..Len(sent) /\ i - 1 \in 0..Len(sent)
      BY <1>3
    <3>2. sent[i].bytes \in Seq(Byte)
      BY <1>3, WrittenSound DEF Sound
    <3>3. Len(sent[i].bytes) \in Nat
      BY <3>2
    <3>4. at[i] \in Int /\ at[i - 1] \in Int /\ at[i] = at[i - 1] + Len(sent[i].bytes)
      BY <3>1, <1>2
    <3>5. nu[i] = at[i] - n /\ nu[i - 1] = at[i - 1] - n
      BY <3>1, <1>10
    <3> QED BY <3>3, <3>4, <3>5, <1>4, SMTT(30)
  <2>3. ASSUME NEW i \in 0..Len(sent), NEW j \in 0..Len(sent), i < j PROVE nu[i] < nu[j]
    <3>1. at[i] \in Int /\ at[j] \in Int /\ at[i] < at[j]
      BY <2>3, <1>2
    <3> QED BY <3>1, <1>4, <1>10
  <2>4. ASSUME NEW i \in (k + 1)..Len(sent) PROVE On(wire', nu[i - 1], sent[i].bytes)
    <3>1. /\ i - 1 \in 0..Len(sent) /\ i \in 1..Len(sent) /\ i \in (Len(got) + 1)..Len(sent)
          /\ (i - 1 = k \/ k < i - 1) /\ k \in 0..Len(sent)
      BY <1>3, <1>7
    <3>2. at[i - 1] \in Int /\ n <= at[i - 1]
      <4>1. at[i - 1] \in Int
        BY <3>1, <1>2
      <4>2. k < i - 1 => at[k] < at[i - 1]
        BY <3>1, <1>2
      <4> QED BY <4>1, <4>2, <3>1, <1>4, <1>8
    <3>3. sent[i].bytes \in Seq(Byte)
      BY <3>1, <1>3, WrittenSound DEF Sound
    <3>4. at[i - 1] \in Nat /\ On(wire, at[i - 1], sent[i].bytes) /\ nu[i - 1] = at[i - 1] - n
      <4>1. at[i - 1] \in Nat
        BY <3>2, <1>4
      <4> QED BY <4>1, <3>1, <1>2, <1>10
    <3>5. wire' = Slice(wire, n, Len(wire))
      BY <1>14 DEF n, b
    <3> QED BY <3>2, <3>3, <3>4, <3>5, <1>3, <1>4, OnRest
  <2>5. Len(wire') <= nu[Len(sent)] /\ (up => Len(wire') = nu[Len(sent)])
    <3>1. Len(sent) \in 0..Len(sent)
      BY <1>3
    <3>2. nu[Len(sent)] = at[Len(sent)] - n /\ at[Len(sent)] \in Int
      BY <3>1, <1>2, <1>10
    <3>3. /\ Len(wire) <= at[Len(sent)] /\ (up => Len(wire) = at[Len(sent)])
          /\ Len(wire) \in Int /\ n \in Int /\ Len(wire') = Len(wire) - n
      BY <1>2, <1>3, <1>4, <1>5
    <3> QED BY <3>2, <3>3
  <2> HIDE DEF k
  <2>6. /\ nu \in [0..Len(sent') -> Int] /\ nu[Len(got')] = 0
        /\ \A i \in (Len(got') + 1)..Len(sent') : On(wire', nu[i - 1], sent'[i].bytes)
        /\ Len(wire') <= nu[Len(sent')] /\ (up' => Len(wire') = nu[Len(sent')])
    BY <1>6, <1>10, <2>1, <2>4, <2>5
  <2>7. \A i \in 1..Len(sent') : nu[i] = nu[i - 1] + Len(sent'[i].bytes)
    BY <2>2
  <2>8. \A i, j \in 0..Len(sent') : i < j => nu[i] < nu[j]
    BY <2>3
  <2> QED BY <2>6, <2>7, <2>8 DEF Placed
<1>12. StreamType'
  BY <1>1, <1>5, <1>6 DEF StreamType
<1>13. Len(got') <= Len(sent')
  BY <1>6, <1>7
<1> QED BY <1>9, <1>11, <1>12, <1>13 DEF StreamInv

\* A read takes the frame of the next message, or ends.
LEMMA ReadStep ==
  ASSUME StreamInv, reading, Read
  PROVE  StreamInv'
<1> DEFINE r == ReadFrame(wire)
           k == Len(got) + 1
<1>1. /\ r.res.err = "EOF" => ~up
      /\ wire' = Slice(wire, r.took, Len(wire))
      /\ reading' = (r.res.err = "nil")
      /\ got' = IF r.res.err = "nil" THEN Append(got, FromMessage(ToMessage(r.res.msg)).msg) ELSE got
      /\ sent' = sent /\ up' = up
  BY DEF Read
<1>2. StreamType /\ Len(got) <= Len(sent) /\ \A i \in 1..Len(got) : got[i] = sent[i].msg
  BY DEF StreamInv
<1>3. PICK at : Placed(at)
  BY DEF StreamInv
<1>4. /\ at \in [0..Len(sent) -> Int] /\ at[Len(got)] = 0
      /\ \A i \in 1..Len(sent) : at[i] = at[i - 1] + Len(sent[i].bytes)
      /\ \A i, j \in 0..Len(sent) : i < j => at[i] < at[j]
      /\ \A i \in (Len(got) + 1)..Len(sent) : On(wire, at[i - 1], sent[i].bytes)
      /\ Len(wire) <= at[Len(sent)] /\ (up => Len(wire) = at[Len(sent)])
  BY <1>3 DEF Placed
<1>5. Len(wire) \in Nat /\ Len(sent) \in Nat /\ Len(got) \in Nat /\ wire \in Seq(Byte) /\ sent \in Seq(Written) /\ got \in Seq(Messages)
  BY <1>2 DEF StreamType
<1> HIDE DEF r
\* Nothing is left, or less than a frame, or what is no frame.
<1>6. ASSUME r.res.err # "nil", r.took \in 0..Len(wire), up => Stuck PROVE StreamInv'
  <2>1. wire' \in Seq(Byte)
    BY <1>1, <1>5, <1>6, Sliced
  <2>2. StreamType'
    BY <1>1, <1>2, <1>6, <2>1 DEF StreamType
  <2>3. ~up' \/ Stuck'
    BY <1>1, <1>6 DEF Stuck, StreamType
  <2> QED BY <1>1, <1>2, <1>6, <2>2, <2>3 DEF StreamInv
<1>7. CASE Len(got) = Len(sent)
  <2>1. Len(wire) < HeaderSize
    BY <1>4, <1>5, <1>7, SMT DEF HeaderSize
  <2>2. r = [took |-> 0, res |-> Fail("EOF")]
    BY <2>1 DEF r, ReadFrame
  <2>3. r.res.err = "EOF" /\ r.took = 0
    BY <2>2 DEF Fail
  <2> QED BY <2>3, <1>1, <1>5, <1>6
<1>8. CASE Len(got) # Len(sent)
  <2> DEFINE b == sent[k].bytes
             m == sent[k].msg
  <2>1. k \in 1..Len(sent) /\ k - 1 = Len(got) /\ k \in (Len(got) + 1)..Len(sent) /\ k \in 0..Len(sent) /\ Len(sent) \in 0..Len(sent)
    BY <1>2, <1>5, <1>8
  <2>2. Sound(sent[k])
    BY <2>1, <1>5, WrittenSound
  <2>3. b \in Seq(Byte) /\ HeaderSize <= Len(b) /\ Len(b) \in Nat
    BY <2>2 DEF Sound
  <2>4. at[k] = Len(b)
    BY <2>1, <2>3, <1>4
  <2>5. On(wire, 0, b)
    BY <2>1, <1>4
  <2> HIDE DEF k
  <2>6. Agrees(wire, b)
    <3>1. \A i \in 1..Len(b) : 0 + i = i
      BY <2>3
    <3> QED BY <2>5, <3>1 DEF On, Agrees
  <2>7. CASE m = None
    <3>1. BadHeader(b)
      BY <2>2, <2>7 DEF Sound
    <3>2. r.res.err # "nil"
      BY <3>1, <2>3, <2>6, <1>5, ReadBad DEF r
    <3>3. r.took \in 0..Len(wire)
      BY <1>5, ReadTook DEF r
    <3>4. Stuck
      BY <2>1, <2>7, <1>5 DEF Stuck, k
    <3> QED BY <3>2, <3>3, <3>4, <1>6
  <2>8. CASE m # None
    <3>1. m \in Messages /\ m \in Message /\ Framed(b, m) /\ Len(b) <= maxFrameSize
      BY <2>2, <2>8 DEF Sound
    <3>2. CASE Len(wire) < Len(b)
      <4>1. r = [took |-> 0, res |-> Fail("EOF")]
        BY <3>1, <3>2, <2>6, <1>5, ReadPart DEF r
      <4>2. r.res.err = "EOF" /\ r.took = 0
        BY <4>1 DEF Fail
      <4> QED BY <4>2, <1>1, <1>5, <1>6
    <3>3. CASE Len(b) <= Len(wire)
      <4>1. r = [took |-> Len(b), res |-> Ok(m)]
        BY <3>1, <3>3, <2>6, <1>5, ReadWhole DEF r
      <4>2. r.res.err = "nil" /\ r.res.msg = m /\ r.took = Len(b)
        BY <4>1 DEF Ok
      <4>3. FromMessage(ToMessage(m)).msg = m
        BY <3>1, EnvelopeKept DEF Ok
      <4>4. got' = Append(got, m) /\ wire' = Slice(wire, Len(b), Len(wire)) /\ reading' = TRUE
        BY <4>2, <4>3, <1>1
      <4>5. Len(got) < Len(sent)
        BY <1>2, <1>5, <1>8
      <4> HIDE DEF b, m
      <4>6. LET w == sent[Len(got) + 1] IN
              /\ w.msg \in Messages /\ Len(w.bytes) <= Len(wire)
              /\ got' = Append(got, w.msg) /\ wire' = Slice(wire, Len(w.bytes), Len(wire))
        BY <4>4, <3>1, <3>3 DEF b, m, k
      <4> QED BY <4>4, <4>5, <4>6, <1>1, Taken
    <3> QED BY <3>2, <3>3, <2>3, <1>5
  <2> QED BY <2>7, <2>8
<1> QED BY <1>7, <1>8

\* What the relay's envelope says is the message itself.
LEMMA WriteMessageStep == ASSUME StreamInv, NEW m \in Messages, WriteMessage(m) PROVE StreamInv'
<1> DEFINE w == [msg |-> m, bytes |-> Encode(m)]
<1>1. FromMessage(ToMessage(m)).msg = m
  BY MessageFits, EnvelopeKept DEF Ok
<1>2. up /\ Write(w) /\ UNCHANGED <<up, reading, got>>
  BY <1>1 DEF WriteMessage
<1>3. w \in Written
  BY DEF Written
<1> HIDE DEF w
<1> QED BY <1>2, <1>3, WriteStep

\* Garbage is on the wire like anything else.
LEMMA WriteGarbageStep == ASSUME StreamInv, NEW b \in Garbage, WriteGarbage(b) PROVE StreamInv'
<1> DEFINE w == [msg |-> None, bytes |-> b]
<1>1. up /\ Write(w) /\ UNCHANGED <<up, reading, got>>
  BY DEF WriteGarbage
<1>2. w \in Written
  BY DEF Written
<1> HIDE DEF w
<1> QED BY <1>1, <1>2, WriteStep

\* The other transfers are other behaviours.
LEMMA OthersStep ==
  ASSUME kind = "tcp",
         \/ \E c \in Configs, stopOffer \in BOOLEAN : Announce(c, stopOffer)
         \/ \E c \in Configs : AnswerFind(c)
         \/ \E e \in Groups : SubscribeEventgroup(e) \/ AckSubscribe(e)
         \/ \E v \in Events : SubscribeEvent(v)
         \/ \E f \in Foreign : SendForeign(f)
         \/ Hear
         \/ \E p \in Protected : Protect(p)
         \/ \E i \in DOMAIN wire, j \in 0..7 : Flip(i, j)
         \/ \E id \in DataIDs, expected \in Counters : Check(id, expected)
  PROVE  FALSE
BY DEF Announce, AnswerFind, SubscribeEventgroup, AckSubscribe, SubscribeEvent, SendForeign, Send, Hear,
       Protect, Flip, Check

\* A transfer stays of its kind.
LEMMA KindKept == ASSUME [Next]_vars PROVE kind' = kind
BY DEF Next, vars, WriteMessage, WriteGarbage, Cut, Read, Announce, AnswerFind, SubscribeEventgroup, AckSubscribe,
       SubscribeEvent, SendForeign, Send, Hear, Protect, Flip, Check

-----------------------------------------------------------------------------
\* The stream between writer and reader: what is left on the wire begins with
\* the first write that has not been read.
THEOREM Inductive == Spec => []IInv
<1>1. ASSUME IInv, [Next]_vars PROVE IInv'
  <2> SUFFICES ASSUME kind = "tcp" PROVE StreamInv'
    BY <1>1, KindKept DEF IInv
  <2>1. StreamInv
    BY <1>1 DEF IInv
  <2>2. CASE \E m \in Messages : WriteMessage(m)
    BY <2>1, <2>2, WriteMessageStep
  <2>3. CASE \E b \in Garbage : WriteGarbage(b)
    BY <2>1, <2>3, WriteGarbageStep
  <2>4. CASE \E n \in 0..Len(wire) : Cut(n)
    BY <2>1, <2>4, CutStep DEF Cut
  <2>5. CASE Read
    BY <2>1, <2>5, ReadStep DEF Read
  <2>6. CASE UNCHANGED vars
    <3>1. UNCHANGED <<sent, wire, up, reading, got>>
      BY <2>6 DEF vars
    <3>2. \A at : Placed(at) => Placed(at)'
      BY <3>1 DEF Placed
    <3>3. StreamType' /\ (Stuck => Stuck')
      BY <2>1, <3>1 DEF StreamInv, StreamType, Stuck
    <3> QED BY <2>1, <3>1, <3>2, <3>3 DEF StreamInv
  <2> QED BY <1>1, <2>2, <2>3, <2>4, <2>5, <2>6, OthersStep DEF Next
<1> QED BY <1>1, StreamInit, PTL DEF Spec

\* readFrame (tcp.go:425) reads what was written, in order, and nothing after
\* bytes that are no frame, for all messages, all payloads and all cuts.
THEOREM InStepHolds == Spec => []InStep
<1>1. ASSUME IInv PROVE InStep
  <2> SUFFICES ASSUME kind = "tcp", StreamInv PROVE InStep
    BY <1>1 DEF IInv, InStep
  <2>1. /\ StreamType /\ Len(got) <= Len(sent) /\ \A i \in 1..Len(got) : got[i] = sent[i].msg
        /\ ~reading => ~up \/ Stuck
    BY DEF StreamInv
  <2>2. ASSUME NEW i \in DOMAIN got PROVE got[i] = sent[i].msg /\ sent[i].msg # None
    <3>1. i \in 1..Len(got) /\ got[i] \in Messages
      BY <2>1 DEF StreamType
    <3> QED BY <3>1, <2>1, MessageFits
  <2>3. ASSUME reading, up, wire = <<>> PROVE Len(got) = Len(sent)
    <3>1. PICK at : Placed(at)
      BY <2>3 DEF StreamInv
    <3>2. Len(wire) = 0
      BY <2>3
    <3>3. Len(got) \in 0..Len(sent) /\ Len(sent) \in 0..Len(sent) /\ Len(got) \in Int /\ Len(sent) \in Int
      BY <2>1 DEF StreamType
    <3>4. at[Len(got)] = 0 /\ at[Len(sent)] = 0
      BY <2>3, <3>1, <3>2 DEF Placed
    <3>5. Len(got) < Len(sent) => at[Len(got)] < at[Len(sent)]
      BY <3>1, <3>3 DEF Placed
    <3> QED BY <2>1, <3>3, <3>4, <3>5
  <2> QED BY <2>1, <2>2, <2>3 DEF InStep, Stuck
<1> QED BY <1>1, Inductive, PTL

-----------------------------------------------------------------------------
(* CRCs *)

Words == SUBSET (0..31)

\* What the two sets have in common below m and from k on.
Agree(x, y, m, k) == \A i \in 0..31 : i < m \/ i >= k => (i \in x) = (i \in y)

\* One shift of a CRC loses nothing: what was there can be told from the result.
LEMMA Shift8Type == ASSUME NEW x \in E!Bytes PROVE E!Shift8(x) \in E!Bytes
  BY DEF E!Bytes, E!Shift8, E!Moved, E!Xor, E!Poly8

LEMMA Shift8Bits ==
  ASSUME NEW x \in E!Bytes
  PROVE  /\ 0 \in E!Shift8(x) <=> 7 \in x
         /\ \A i \in 0..6 : i \in x <=> ~ (i + 1 \in E!Shift8(x) <=> 7 \in x /\ i + 1 \in E!Poly8)
<1> DEFINE left == E!Moved(x \ {7}, 1)
<1>1. 0 \notin left /\ \A i \in 0..6 : i \in x <=> i + 1 \in left
  BY DEF E!Moved, E!Bytes
<1>2. \A i \in 0..7 : i \in E!Shift8(x) <=> ~ (i \in left <=> 7 \in x /\ i \in E!Poly8)
  BY DEF E!Shift8, E!Xor
<1>3. 0 \in E!Poly8
  BY DEF E!Poly8
<1> HIDE DEF left
<1> QED BY <1>1, <1>2, <1>3

LEMMA Shift8Injective ==
  ASSUME NEW x \in E!Bytes, NEW y \in E!Bytes, E!Shift8(x) = E!Shift8(y) PROVE x = y
<1>1. \A i \in 0..6 : i \in x <=> i \in y
  BY Shift8Bits
<1>2. 7 \in x <=> 7 \in y
  BY Shift8Bits
<1>3. \A i \in 0..7 : i \in x <=> i \in y
  BY <1>1, <1>2
<1> QED BY <1>3 DEF E!Bytes

\* The table of crc8 has no byte twice.
LEMMA Table8Injective ==
  /\ E!crc8Table \in [E!Bytes -> E!Bytes]
  /\ \A x, y \in E!Bytes : E!crc8Table[x] = E!crc8Table[y] => x = y
<1> DEFINE S(x) == E!Shift8(x)
<1>1. \A x \in E!Bytes : E!crc8Table[x] = S(S(S(S(S(S(S(S(x))))))))
  BY DEF E!crc8Table, E!Eight
<1>2. \A x \in E!Bytes : S(x) \in E!Bytes
  BY Shift8Type
<1>3. \A x, y \in E!Bytes : S(x) = S(y) => x = y
  BY Shift8Injective
<1>4. E!crc8Table = [x \in E!Bytes |-> S(S(S(S(S(S(S(S(x))))))))]
  BY DEF E!crc8Table, E!Eight
<1> HIDE DEF S
<1> QED BY <1>1, <1>2, <1>3, <1>4


\* The same for a shift of crc32.
LEMMA Shift32Bits ==
  ASSUME NEW x \in Words
  PROVE  /\ E!Shift32(x) \in Words
         /\ 31 \in E!Shift32(x) <=> 0 \in x
         /\ \A i \in 1..31 : i \in x <=> ~ (i - 1 \in E!Shift32(x) <=> 0 \in x /\ i - 1 \in E!Poly32)
<1> DEFINE down == E!Moved(x \ {0}, -1)
<1>1. 31 \notin down /\ (\A i \in 1..31 : i \in x <=> i - 1 \in down) /\ down \in Words
  BY DEF E!Moved, Words
<1>2. \A i \in 0..31 : i \in E!Shift32(x) <=> ~ (i \in down <=> 0 \in x /\ i \in E!Poly32)
  BY DEF E!Shift32, E!Xor
<1>3. 31 \in E!Poly32 /\ E!Poly32 \in Words
  BY DEF E!Poly32, Words
<1>4. E!Shift32(x) \in Words
  BY <1>1, <1>3 DEF E!Shift32, E!Xor, Words
<1> HIDE DEF down
<1> QED BY <1>1, <1>2, <1>3, <1>4

\* What two registers have in common after a shift says what they had before.
LEMMA Shift32Back ==
  ASSUME NEW x \in Words, NEW y \in Words, NEW m \in 0..8, NEW k \in 0..31,
         Agree(E!Shift32(x), E!Shift32(y), m, k)
  PROVE  Agree(x, y, m + 1, k + 1)
<1>1. 0 \in x <=> 0 \in y
  BY Shift32Bits DEF Agree
<1>2. ASSUME NEW i \in 1..31, i < m + 1 \/ i >= k + 1 PROVE i \in x <=> i \in y
  <2>1. i - 1 \in 0..31 /\ (i - 1 < m \/ i - 1 >= k)
    BY <1>2
  <2>2. i - 1 \in E!Shift32(x) <=> i - 1 \in E!Shift32(y)
    BY <2>1 DEF Agree
  <2> QED BY <1>1, <2>2, Shift32Bits
<1> QED BY <1>1, <1>2 DEF Agree

\* The table of crc32 has no highest byte twice.
LEMMA Table32Top ==
  /\ E!crc32Table \in [E!Bytes -> Words]
  /\ \A x, y \in E!Bytes : Agree(E!crc32Table[x], E!crc32Table[y], 0, 24) => x = y
<1> DEFINE S(x) == E!Shift32(x)
<1>1. \A x \in E!Bytes : E!crc32Table[x] = S(S(S(S(S(S(S(S(x))))))))
  BY DEF E!crc32Table, E!Eight
<1>2. \A x \in Words : S(x) \in Words
  BY Shift32Bits
<1>3. E!crc32Table = [x \in E!Bytes |-> S(S(S(S(S(S(S(S(x))))))))]
  BY DEF E!crc32Table, E!Eight
<1>4. E!Bytes \subseteq Words
  BY DEF E!Bytes, Words
<1>5. \A x, y \in Words : \A m \in 0..8, k \in 0..31 : Agree(S(x), S(y), m, k) => Agree(x, y, m + 1, k + 1)
  BY Shift32Back
<1> HIDE DEF S
<1>6. ASSUME NEW x \in E!Bytes, NEW y \in E!Bytes, Agree(E!crc32Table[x], E!crc32Table[y], 0, 24)
      PROVE  x = y
  <2> DEFINE x1 == S(x)
             y1 == S(y)
             x2 == S(x1)
             y2 == S(y1)
             x3 == S(x2)
             y3 == S(y2)
             x4 == S(x3)
             y4 == S(y3)
             x5 == S(x4)
             y5 == S(y4)
             x6 == S(x5)
             y6 == S(y5)
             x7 == S(x6)
             y7 == S(y6)
  <2>1. x7 \in Words /\ y7 \in Words /\ x6 \in Words /\ y6 \in Words /\ x5 \in Words /\ y5 \in Words
    BY <1>2, <1>4
  <2>2. x4 \in Words /\ y4 \in Words /\ x3 \in Words /\ y3 \in Words /\ x2 \in Words /\ y2 \in Words
        /\ x1 \in Words /\ y1 \in Words /\ x \in Words /\ y \in Words
    BY <1>2, <1>4
  <2>3. Agree(S(x7), S(y7), 0, 24)
    BY <1>1, <1>6
  <2>4. Agree(S(x6), S(y6), 1, 25)
    BY <2>1, <2>3, <1>5
  <2>5. Agree(S(x5), S(y5), 2, 26)
    BY <2>1, <2>4, <1>5
  <2>6. Agree(S(x4), S(y4), 3, 27)
    BY <2>1, <2>5, <1>5
  <2>7. Agree(S(x3), S(y3), 4, 28)
    BY <2>2, <2>6, <1>5
  <2>8. Agree(S(x2), S(y2), 5, 29)
    BY <2>2, <2>7, <1>5
  <2>9. Agree(S(x1), S(y1), 6, 30)
    BY <2>2, <2>8, <1>5
  <2>10. Agree(S(x), S(y), 7, 31)
    BY <2>2, <2>9, <1>5
  <2>11. Agree(x, y, 8, 32)
    BY <2>2, <2>10, <1>5
  <2>12. \A i \in 0..7 : i \in x <=> i \in y
    BY <2>11 DEF Agree
  <2> QED BY <2>12 DEF E!Bytes
<1> QED BY <1>2, <1>3, <1>4, <1>6

LEMMA XorCancels ==
  ASSUME NEW a, NEW b, NEW c
  PROVE  /\ E!Xor(a, c) = E!Xor(b, c) => a = b
         /\ E!Xor(c, a) = E!Xor(c, b) => a = b
         /\ E!Xor(a, b) = a => b = {}
<1>1. ASSUME E!Xor(a, c) = E!Xor(b, c) PROVE a = b
  <2>1. \A i : i \in a <=> i \in b
    BY <1>1 DEF E!Xor
  <2> QED BY <2>1
<1>2. ASSUME E!Xor(c, a) = E!Xor(c, b) PROVE a = b
  <2>1. \A i : i \in a <=> i \in b
    BY <1>2 DEF E!Xor
  <2> QED BY <2>1
<1>3. ASSUME E!Xor(a, b) = a PROVE b = {}
  <2>1. \A i : i \notin b
    BY <1>3 DEF E!Xor
  <2> QED BY <2>1
<1> QED BY <1>1, <1>2, <1>3

\* What is checked is the complement of the register.
LEMMA XorBack == ASSUME NEW x, NEW y, NEW z PROVE E!Xor(x, z) = E!Xor(y, z) <=> x = y
  BY XorCancels

LEMMA XorType ==
  /\ \A a, b \in E!Bytes : E!Xor(a, b) \in E!Bytes
  /\ \A a, b \in Words : E!Xor(a, b) \in Words
  BY DEF E!Xor, E!Bytes, Words

\* The four bytes of a checksum are all of it.
LEMMA LittleEndianInjective ==
  ASSUME NEW x \in Words, NEW y \in Words
  PROVE  /\ E!LittleEndian(x) \in Seq(E!Bytes) /\ Len(E!LittleEndian(x)) = 4
         /\ E!LittleEndian(x) = E!LittleEndian(y) => x = y
<1> DEFINE Part(z, i) == E!Moved(z \cap ((8*i - 8)..(8*i - 1)), 8 - 8*i)
<1>1. E!LittleEndian(x) = [i \in 1..4 |-> Part(x, i)] /\ E!LittleEndian(y) = [i \in 1..4 |-> Part(y, i)]
  BY DEF E!LittleEndian
<1>2. ASSUME NEW i \in 1..4 PROVE Part(x, i) \in E!Bytes
  BY DEF E!Moved, E!Bytes, Words
<1>3. ASSUME NEW i \in 1..4, Part(x, i) = Part(y, i)
      PROVE  \A k \in (8*i - 8)..(8*i - 1) : k \in x <=> k \in y
  <2>1. ASSUME NEW k \in (8*i - 8)..(8*i - 1), NEW z PROVE k \in z <=> k + (8 - 8*i) \in Part(z, i)
    <3>1. \A j \in (8*i - 8)..(8*i - 1) : j + (8 - 8*i) = k + (8 - 8*i) => j = k
      OBVIOUS
    <3> QED BY <3>1 DEF E!Moved
  <2> QED BY <1>3, <2>1
<1>4. ASSUME E!LittleEndian(x) = E!LittleEndian(y) PROVE x = y
  <2>1. \A i \in 1..4 : Part(x, i) = Part(y, i)
    BY <1>1, <1>4
  <2> HIDE DEF Part
  <2>2. \A k \in 0..31 : \E i \in 1..4 : k \in (8*i - 8)..(8*i - 1)
    <3> SUFFICES ASSUME NEW k \in 0..31 PROVE \E i \in 1..4 : k \in (8*i - 8)..(8*i - 1)
      OBVIOUS
    <3>1. CASE k < 8
      BY <3>1
    <3>2. CASE k \in 8..15
      BY <3>2
    <3>3. CASE k \in 16..23
      BY <3>3
    <3>4. CASE k \in 24..31
      BY <3>4
    <3> QED BY <3>1, <3>2, <3>3, <3>4
  <2>3. \A k \in 0..31 : k \in x <=> k \in y
    BY <1>3, <2>1, <2>2
  <2> QED BY <2>3 DEF Words
<1> HIDE DEF Part
<1> QED BY <1>1, <1>2, <1>4


\* A number as its bits.
LEMMA Binary ==
  ASSUME NEW x \in 0..255
  PROVE  /\ x % 16 = ((x \div 1) % 2) + 2 * ((x \div 2) % 2) + 4 * ((x \div 4) % 2) + 8 * ((x \div 8) % 2)
         /\ x \div 16 = ((x \div 16) % 2) + 2 * ((x \div 32) % 2) + 4 * ((x \div 64) % 2) + 8 * ((x \div 128) % 2)
<1>1. x \div 1 = 2 * (x \div 2) + ((x \div 1) % 2)
  OBVIOUS
<1>2. x \div 2 = 2 * (x \div 4) + ((x \div 2) % 2)
  OBVIOUS
<1>3. x \div 4 = 2 * (x \div 8) + ((x \div 4) % 2)
  OBVIOUS
<1>4. x \div 8 = 2 * (x \div 16) + ((x \div 8) % 2)
  OBVIOUS
<1>5. x \div 16 = 2 * (x \div 32) + ((x \div 16) % 2)
  OBVIOUS
<1>6. x \div 32 = 2 * (x \div 64) + ((x \div 32) % 2)
  OBVIOUS
<1>7. x \div 64 = 2 * (x \div 128) + ((x \div 64) % 2)
  OBVIOUS
<1>8. x \div 128 = (x \div 128) % 2
  OBVIOUS
<1>9. x % 16 = x - 16 * (x \div 16) /\ x = x \div 1
  OBVIOUS
<1> QED BY <1>1, <1>2, <1>3, <1>4, <1>5, <1>6, <1>7, <1>8, <1>9

\* Four bits are those of one number only.
LEMMA FourBits ==
  ASSUME NEW a \in 0..1, NEW b \in 0..1, NEW c \in 0..1, NEW d \in 0..1,
         NEW p \in 0..1, NEW q \in 0..1, NEW r \in 0..1, NEW s \in 0..1
  PROVE  a + 2 * b + 4 * c + 8 * d = p + 2 * q + 4 * r + 8 * s <=>
             (a = 1 <=> p = 1) /\ (b = 1 <=> q = 1) /\ (c = 1 <=> r = 1) /\ (d = 1 <=> s = 1)
  OBVIOUS

\* The bits of a number say which it is.
LEMMA BitsTell ==
  ASSUME NEW n \in 0..255, NEW m \in 0..255
  PROVE  /\ E!Bits(n) \in E!Bytes
         /\ E!Bits(n) = E!Bits(m) <=> n = m
         /\ E!Low(E!Bits(n)) = E!Low(E!Bits(m)) <=> n % 16 = m % 16
<1> DEFINE w == <<1, 2, 4, 8, 16, 32, 64, 128>>
           Bit(x, v) == (x \div v) % 2 = 1
           Equal(v) == Bit(n, v) <=> Bit(m, v)
           Nibble1 == Equal(1) /\ Equal(2) /\ Equal(4) /\ Equal(8)
           Nibble2 == Equal(16) /\ Equal(32) /\ Equal(64) /\ Equal(128)
<1>1. /\ w[0 + 1] = 1 /\ w[1 + 1] = 2 /\ w[2 + 1] = 4 /\ w[3 + 1] = 8
      /\ w[4 + 1] = 16 /\ w[5 + 1] = 32 /\ w[6 + 1] = 64 /\ w[7 + 1] = 128
  OBVIOUS
<1>2. \A x : E!Bits(x) = {i \in 0..7 : Bit(x, w[i + 1])}
  BY DEF E!Bits
<1>3. /\ Nibble1 <=> n % 16 = m % 16
      /\ Nibble2 <=> n \div 16 = m \div 16
  <2> DEFINE D(x, v) == (x \div v) % 2
  <2>1. \A x \in 0..255 :
            /\ D(x, 1) \in 0..1 /\ D(x, 2) \in 0..1 /\ D(x, 4) \in 0..1 /\ D(x, 8) \in 0..1
            /\ D(x, 16) \in 0..1 /\ D(x, 32) \in 0..1 /\ D(x, 64) \in 0..1 /\ D(x, 128) \in 0..1
    OBVIOUS
  <2>2. \A x \in 0..255 : /\ x % 16 = D(x, 1) + 2 * D(x, 2) + 4 * D(x, 4) + 8 * D(x, 8)
                          /\ x \div 16 = D(x, 16) + 2 * D(x, 32) + 4 * D(x, 64) + 8 * D(x, 128)
    BY Binary
  <2>3. \A x, v : Bit(x, v) <=> D(x, v) = 1
    OBVIOUS
  <2> HIDE DEF D, Bit
  <2>4. n % 16 = m % 16 <=> Nibble1
    <3>1. /\ n % 16 = D(n, 1) + 2 * D(n, 2) + 4 * D(n, 4) + 8 * D(n, 8)
          /\ m % 16 = D(m, 1) + 2 * D(m, 2) + 4 * D(m, 4) + 8 * D(m, 8)
      BY <2>2
    <3>2. /\ D(n, 1) \in 0..1 /\ D(n, 2) \in 0..1 /\ D(n, 4) \in 0..1 /\ D(n, 8) \in 0..1
          /\ D(m, 1) \in 0..1 /\ D(m, 2) \in 0..1 /\ D(m, 4) \in 0..1 /\ D(m, 8) \in 0..1
      BY <2>1
    <3>3. D(n, 1) + 2 * D(n, 2) + 4 * D(n, 4) + 8 * D(n, 8)
              = D(m, 1) + 2 * D(m, 2) + 4 * D(m, 4) + 8 * D(m, 8)
          <=> /\ (D(n, 1) = 1 <=> D(m, 1) = 1) /\ (D(n, 2) = 1 <=> D(m, 2) = 1)
              /\ (D(n, 4) = 1 <=> D(m, 4) = 1) /\ (D(n, 8) = 1 <=> D(m, 8) = 1)
      BY <3>2, FourBits
    <3> QED BY <2>3, <3>1, <3>3
  <2>5. n \div 16 = m \div 16 <=> Nibble2
    <3>1. /\ n \div 16 = D(n, 16) + 2 * D(n, 32) + 4 * D(n, 64) + 8 * D(n, 128)
          /\ m \div 16 = D(m, 16) + 2 * D(m, 32) + 4 * D(m, 64) + 8 * D(m, 128)
      BY <2>2
    <3>2. /\ D(n, 16) \in 0..1 /\ D(n, 32) \in 0..1 /\ D(n, 64) \in 0..1 /\ D(n, 128) \in 0..1
          /\ D(m, 16) \in 0..1 /\ D(m, 32) \in 0..1 /\ D(m, 64) \in 0..1 /\ D(m, 128) \in 0..1
      BY <2>1, SMTT(30)
    <3>3. D(n, 16) + 2 * D(n, 32) + 4 * D(n, 64) + 8 * D(n, 128)
              = D(m, 16) + 2 * D(m, 32) + 4 * D(m, 64) + 8 * D(m, 128)
          <=> /\ (D(n, 16) = 1 <=> D(m, 16) = 1) /\ (D(n, 32) = 1 <=> D(m, 32) = 1)
              /\ (D(n, 64) = 1 <=> D(m, 64) = 1) /\ (D(n, 128) = 1 <=> D(m, 128) = 1)
      BY <3>2, FourBits
    <3> QED BY <2>3, <3>1, <3>3
  <2> QED BY <2>4, <2>5
<1>4. n = m <=> n \div 16 = m \div 16 /\ n % 16 = m % 16
  OBVIOUS
<1> HIDE DEF w, Bit
<1>5. ASSUME NEW x
      PROVE  /\ 0 \in E!Bits(x) <=> Bit(x, 1)
             /\ 1 \in E!Bits(x) <=> Bit(x, 2)
             /\ 2 \in E!Bits(x) <=> Bit(x, 4)
             /\ 3 \in E!Bits(x) <=> Bit(x, 8)
             /\ 4 \in E!Bits(x) <=> Bit(x, 16)
             /\ 5 \in E!Bits(x) <=> Bit(x, 32)
             /\ 6 \in E!Bits(x) <=> Bit(x, 64)
             /\ 7 \in E!Bits(x) <=> Bit(x, 128)
  BY <1>1, <1>2
<1>6. E!Bits(n) \in E!Bytes /\ E!Bits(m) \in E!Bytes
  BY <1>2 DEF E!Bytes
<1>7. (\A i \in 0..3 : i \in E!Bits(n) <=> i \in E!Bits(m)) <=> Nibble1
  <2>1. \A i \in 0..3 : i = 0 \/ i = 1 \/ i = 2 \/ i = 3
    OBVIOUS
  <2> QED BY <1>5, <2>1
<1>8. (\A i \in 4..7 : i \in E!Bits(n) <=> i \in E!Bits(m)) <=> Nibble2
  <2>1. \A i \in 4..7 : i = 4 \/ i = 5 \/ i = 6 \/ i = 7
    OBVIOUS
  <2> QED BY <1>5, <2>1
<1> HIDE DEF Nibble1, Nibble2
<1>9. E!Low(E!Bits(n)) = E!Low(E!Bits(m)) <=> Nibble1
  BY <1>7, <1>6 DEF E!Low
<1>10. E!Bits(n) = E!Bits(m) <=> Nibble1 /\ Nibble2
  <2>1. E!Bits(n) = E!Bits(m) <=> \A i \in 0..7 : i \in E!Bits(n) <=> i \in E!Bits(m)
    BY <1>6 DEF E!Bytes
  <2>2. \A i : i \in 0..7 <=> i \in 0..3 \/ i \in 4..7
    OBVIOUS
  <2> QED BY <1>7, <1>8, <2>1, <2>2
<1> QED BY <1>3, <1>4, <1>6, <1>9, <1>10

\* Every non-empty set of natural numbers has a least element.
LEMMA Least ==
  ASSUME NEW T \in SUBSET Nat, T # {} PROVE \E x \in T : \A y \in T : x <= y
<1> DEFINE R == {ss \in Nat \X Nat : ss[1] < ss[2]}
<1>1. IsWellFoundedOn(R, Nat)
  BY NatLessThanWellFounded DEF OpToRel
<1>2. PICK x \in T : \A y \in T : ~ (<<y, x>> \in R)
  <2> HIDE DEF R
  <2> QED BY <1>1, WFMin
<1>3. ASSUME NEW y \in T PROVE x <= y
  <2>1. <<y, x>> \notin R /\ x \in Nat /\ y \in Nat
    BY <1>2
  <2>2. <<y, x>> \in Nat \X Nat
    BY <2>1
  <2>3. ~ (y < x)
    BY <2>1, <2>2
  <2> QED BY <2>1, <2>3
<1> QED BY <1>3

\* Induction, for a set in the place of a predicate.
LEMMA SetInduction ==
  ASSUME NEW S, 0 \in S, \A n \in Nat : n \in S => n + 1 \in S
  PROVE  Nat \subseteq S
<1> SUFFICES ASSUME Nat \ S # {} PROVE FALSE
  OBVIOUS
<1>1. PICK x \in Nat \ S : \A y \in Nat \ S : x <= y
  <2> Nat \ S \in SUBSET Nat OBVIOUS
  <2> QED BY Least
<1>2. x # 0 /\ x - 1 \in Nat
  BY <1>1
<1>3. x - 1 \in S
  BY <1>1, <1>2
<1> QED BY <1>1, <1>2, <1>3

-----------------------------------------------------------------------------
(* Registers *)

\* f is the values of the register, from w on, as the bytes of data go in.
Loop(f, step, w, data) == f[0] = w /\ \A i \in 1..Len(data) : f[i] = step[f[i - 1]][data[i]]

\* f is such a register, with values in W.
Register(f, W, step, w, data) == f \in [0..Len(data) -> W] /\ Loop(f, step, w, data)

\* A step that loses nothing, neither of the register nor of the byte.
Lossless(W, step) ==
    /\ step \in [W -> [E!Bytes -> W]]
    /\ \A w, v \in W, d \in E!Bytes : step[w][d] = step[v][d] => w = v
    /\ \A w \in W, d, e \in E!Bytes : step[w][d] = step[w][e] => d = e

\* What f[n] is after n steps.
Stepped(f, a, n, step) == f[0] = a /\ \A i \in 1..n : f[i] = step[i][f[i - 1]]

\* A recursive function on an interval exists, for a step that is a function.
LEMMA Recursion ==
  ASSUME NEW A, NEW a \in A, NEW n \in Nat, NEW step \in [1..n -> [A -> A]]
  PROVE  \E f \in [0..n -> A] : Stepped(f, a, n, step)
<1> DEFINE Good(m) == \E f \in [0..m -> A] : f[0] = a /\ \A i \in 1..m : f[i] = step[i][f[i - 1]]
           T == {m \in Nat : m <= n => Good(m)}
<1>1. 0 \in T
  <2> DEFINE f == [i \in 0..0 |-> a]
  <2>1. f \in [0..0 -> A] /\ f[0] = a /\ \A i \in 1..0 : FALSE
    OBVIOUS
  <2> HIDE DEF f
  <2> QED BY <2>1
<1>2. ASSUME NEW m \in Nat, m \in T PROVE m + 1 \in T
  <2> SUFFICES ASSUME m + 1 <= n PROVE Good(m + 1)
    OBVIOUS
  <2>1. PICK f \in [0..m -> A] : f[0] = a /\ \A i \in 1..m : f[i] = step[i][f[i - 1]]
    BY <1>2
  <2> DEFINE g == [i \in 0..(m + 1) |-> IF i <= m THEN f[i] ELSE step[m + 1][f[m]]]
  <2>2. step[m + 1][f[m]] \in A
    OBVIOUS
  <2>3. g \in [0..(m + 1) -> A]
    BY <2>2
  <2>4. g[0] = a /\ \A i \in 1..(m + 1) : g[i] = step[i][g[i - 1]]
    <3>1. ASSUME NEW i \in 1..m PROVE g[i] = f[i] /\ g[i - 1] = f[i - 1]
      OBVIOUS
    <3>2. g[m + 1] = step[m + 1][f[m]] /\ g[m] = f[m] /\ g[0] = f[0] /\ (m + 1) - 1 = m
      OBVIOUS
    <3> HIDE DEF g
    <3> QED BY <2>1, <3>1, <3>2
  <2> HIDE DEF g
  <2> QED BY <2>3, <2>4
<1>3. n \in T
  <2> HIDE DEF T
  <2> QED BY <1>1, <1>2, SetInduction
<1> QED BY <1>3 DEF Stepped

\* The register of a step over some data.
LEMMA LoopExists ==
  ASSUME NEW W, NEW step \in [W -> [E!Bytes -> W]], NEW w \in W, NEW data \in Seq(E!Bytes)
  PROVE  \E f : Register(f, W, step, w, data)
<1> DEFINE n == Len(data)
           st == [i \in 1..n |-> [x \in W |-> step[x][data[i]]]]
<1>1. n \in Nat /\ \A i \in 1..n : data[i] \in E!Bytes
  OBVIOUS
<1>2. \A x \in W, d \in E!Bytes : step[x][d] \in W
  OBVIOUS
<1>3. st \in [1..n -> [W -> W]]
  BY <1>1, <1>2
<1>4. ASSUME NEW i \in 1..n, NEW x \in W PROVE st[i][x] = step[x][data[i]]
  OBVIOUS
<1> HIDE DEF st
<1>5. PICK f \in [0..n -> W] : f[0] = w /\ \A i \in 1..n : f[i] = st[i][f[i - 1]]
  <2> HIDE DEF n
  <2>1. \E f \in [0..n -> W] : Stepped(f, w, n, st)
    BY <1>1, <1>3, Recursion
  <2> QED BY <2>1 DEF Stepped
<1>6. ASSUME NEW i \in 1..n PROVE f[i] = step[f[i - 1]][data[i]]
  <2>1. i - 1 \in 0..n
    BY <1>1
  <2>2. f[i - 1] \in W
    BY <2>1
  <2> QED BY <1>4, <1>5, <2>2
<1> QED BY <1>5, <1>6 DEF Loop, Register

LEMMA LosslessStep ==
  ASSUME NEW W, NEW step, Lossless(W, step), NEW x \in W, NEW y \in W, NEW d \in E!Bytes, NEW e \in E!Bytes
  PROVE  /\ x = y <=> step[x][d] = step[y][d]
         /\ step[x][d] = step[x][e] => d = e
         /\ step[x][d] \in W
<1>1. x = y <=> step[x][d] = step[y][d]
  BY DEF Lossless
<1>2. step[x][d] = step[x][e] => d = e
  BY DEF Lossless
<1>3. step[x][d] \in W
  BY DEF Lossless
<1> QED BY <1>1, <1>2, <1>3

\* a and b have the bytes after the j-th up to the k-th in common.
Common(a, b, j, k) == /\ j \in Nat /\ k \in Nat /\ j <= k /\ k <= Len(a) /\ k <= Len(b)
                      /\ \A i \in (j + 1)..k : a[i] = b[i]

\* Over the same bytes registers that are equal stay so, and those that are not do.
LEMMA Meet ==
  ASSUME NEW W, NEW step, Lossless(W, step), NEW w, NEW v,
         NEW a \in Seq(E!Bytes), NEW b \in Seq(E!Bytes), NEW j, NEW k, Common(a, b, j, k),
         NEW f, Register(f, W, step, w, a), NEW g, Register(g, W, step, v, b)
  PROVE  f[j] = g[j] <=> f[k] = g[k]
<1> USE DEF Register, Common
<1> DEFINE T == {d \in Nat : j + d <= k => (f[j] = g[j] <=> f[j + d] = g[j + d])}
<1>1. 0 \in T
  OBVIOUS
<1>2. ASSUME NEW d \in Nat, d \in T PROVE d + 1 \in T
  <2> SUFFICES ASSUME j + (d + 1) <= k PROVE f[j] = g[j] <=> f[j + (d + 1)] = g[j + (d + 1)]
    OBVIOUS
  <2> DEFINE i == j + (d + 1)
  <2>1. /\ i \in (j + 1)..k /\ i \in 1..Len(a) /\ i \in 1..Len(b)
        /\ i - 1 = j + d /\ i - 1 \in 0..Len(a) /\ i - 1 \in 0..Len(b)
    OBVIOUS
  <2>2. f[j] = g[j] <=> f[i - 1] = g[i - 1]
    BY <1>2, <2>1
  <2> HIDE DEF i
  <2>3. f[i] = step[f[i - 1]][a[i]] /\ g[i] = step[g[i - 1]][b[i]]
    BY <2>1 DEF Loop
  <2>4. a[i] = b[i]
    BY <2>1
  <2>5. a[i] \in E!Bytes
    BY <2>1
  <2>6. f[i - 1] \in W
    <3>1. f \in [0..Len(a) -> W]
      OBVIOUS
    <3> QED BY <2>1, <3>1
  <2>7. g[i - 1] \in W
    <3>1. g \in [0..Len(b) -> W]
      OBVIOUS
    <3> QED BY <2>1, <3>1
  <2>8. f[i - 1] = g[i - 1] <=> f[i] = g[i]
    BY <2>3, <2>4, <2>5, <2>6, <2>7, LosslessStep
  <2> QED BY <2>2, <2>8 DEF i
<1>3. k - j \in T
  <2> HIDE DEF T
  <2> QED BY <1>1, <1>2, SetInduction
<1> QED BY <1>3

\* The rounds of crc8 and of crc32.
Step8  == [w \in E!Bytes |-> [d \in E!Bytes |-> E!crc8Table[E!Xor(w, d)]]]
Step32 == [w \in Words |-> [d \in E!Bytes |->
              E!Xor(E!crc32Table[E!Xor(E!Lowest(w), d)], E!Moved(w \ (0..7), -8))]]

LEMMA Step8Lossless == Lossless(E!Bytes, Step8)
<1>1. \A w, d \in E!Bytes : E!Xor(w, d) \in E!Bytes /\ Step8[w][d] = E!crc8Table[E!Xor(w, d)]
  BY XorType DEF Step8
<1>2. Step8 \in [E!Bytes -> [E!Bytes -> E!Bytes]]
  BY <1>1, Table8Injective DEF Step8
<1>3. ASSUME NEW w \in E!Bytes, NEW v \in E!Bytes, NEW d \in E!Bytes, NEW e \in E!Bytes,
             Step8[w][d] = Step8[v][e]
      PROVE  E!Xor(w, d) = E!Xor(v, e)
  BY <1>1, <1>3, Table8Injective
<1>4. \A w, v, d, e \in E!Bytes : (E!Xor(w, d) = E!Xor(v, d) => w = v) /\ (E!Xor(w, d) = E!Xor(w, e) => d = e)
  BY XorCancels
<1> QED BY <1>2, <1>3, <1>4 DEF Lossless

LEMMA Step32Lossless == Lossless(Words, Step32)
<1> DEFINE index(w, d) == E!Xor(E!Lowest(w), d)
           rest(w) == E!Moved(w \ (0..7), -8)
<1>1. ASSUME NEW w \in Words, NEW d \in E!Bytes
      PROVE  /\ E!Lowest(w) \in E!Bytes /\ index(w, d) \in E!Bytes /\ rest(w) \in Words
             /\ \A i \in rest(w) : i < 24
             /\ \A i \in 8..31 : i \in w <=> i - 8 \in rest(w)
  <2>1. E!Lowest(w) \in E!Bytes /\ index(w, d) \in E!Bytes
    BY DEF E!Lowest, E!Bytes, E!Xor
  <2>2. rest(w) \in Words /\ (\A i \in rest(w) : i < 24) /\ \A i \in 8..31 : i \in w <=> i - 8 \in rest(w)
    BY DEF E!Moved, Words
  <2> QED BY <2>1, <2>2
<1>2. \A w \in Words, d \in E!Bytes : Step32[w][d] = E!Xor(E!crc32Table[index(w, d)], rest(w))
  BY DEF Step32
<1> HIDE DEF index, rest
<1>3. \A w \in Words, d \in E!Bytes : Step32[w][d] \in Words
  BY <1>1, <1>2, Table32Top, XorType
<1>4. Step32 \in [Words -> [E!Bytes -> Words]]
  BY <1>3 DEF Step32
<1>5. ASSUME NEW w \in Words, NEW v \in Words, NEW d \in E!Bytes, NEW e \in E!Bytes, Step32[w][d] = Step32[v][e]
      PROVE  index(w, d) = index(v, e) /\ rest(w) = rest(v)
  <2> DEFINE x == E!crc32Table[index(w, d)]
             y == E!crc32Table[index(v, e)]
  <2>1. x \in Words /\ y \in Words
    BY <1>1, Table32Top
  <2>2. E!Xor(x, rest(w)) = E!Xor(y, rest(v))
    BY <1>2, <1>5
  <2>3. Agree(x, y, 0, 24)
    BY <1>1, <2>1, <2>2 DEF Agree, E!Xor
  <2>4. index(w, d) = index(v, e)
    BY <1>1, <2>3, Table32Top
  <2>5. rest(w) = rest(v)
    BY <2>2, <2>4, XorCancels
  <2> QED BY <2>4, <2>5
<1>6. ASSUME NEW w \in Words, NEW v \in Words, E!Lowest(w) = E!Lowest(v), rest(w) = rest(v) PROVE w = v
  <2>1. \A i \in 0..7 : i \in w <=> i \in v
    BY <1>6 DEF E!Lowest
  <2>2. \A i \in 8..31 : i \in w <=> i \in v
    <3> PICK d \in E!Bytes : TRUE
      BY DEF E!Bytes
    <3> QED BY <1>1, <1>6
  <2>3. \A i \in 0..31 : i \in w <=> i \in v
    BY <2>1, <2>2
  <2> QED BY <2>3 DEF Words
<1>7. ASSUME NEW w \in Words, NEW v \in Words, NEW d \in E!Bytes, NEW e \in E!Bytes
      PROVE  /\ index(w, d) = index(v, d) => E!Lowest(w) = E!Lowest(v)
             /\ index(w, d) = index(w, e) => d = e
  BY XorCancels DEF index
<1> QED BY <1>4, <1>5, <1>6, <1>7 DEF Lossless

\* A recursive function that takes these steps is such a register.
LEMMA LoopTyped ==
  ASSUME NEW W, NEW step \in [W -> [E!Bytes -> W]], NEW w \in W, NEW data \in Seq(E!Bytes),
         NEW h, h = [i \in 0..Len(data) |-> h[i]], h[0] = w,
         \A i \in 1..Len(data) : h[i - 1] \in W => h[i] = step[h[i - 1]][data[i]]
  PROVE  Register(h, W, step, w, data)
<1> DEFINE n == Len(data)
           T == {i \in Nat : i <= n => h[i] \in W}
<1>1. n \in Nat /\ \A i \in 1..n : data[i] \in E!Bytes
  OBVIOUS
<1>2. 0 \in T
  OBVIOUS
<1>3. ASSUME NEW i \in Nat, i \in T PROVE i + 1 \in T
  <2> SUFFICES ASSUME i + 1 <= n PROVE h[i + 1] \in W
    OBVIOUS
  <2> HIDE DEF n
  <2>1. i + 1 \in 1..n /\ (i + 1) - 1 = i /\ i <= n
    BY <1>1
  <2>2. h[i] \in W
    BY <1>3, <2>1
  <2> USE DEF n
  <2> DEFINE j == i + 1
  <2>3. h[j] = step[h[i]][data[j]] /\ data[j] \in E!Bytes
    BY <1>1, <2>1, <2>2
  <2> HIDE DEF j
  <2> QED BY <2>2, <2>3, SMTT(30) DEF j
<1>4. \A i \in 0..n : h[i] \in W
  <2>1. Nat \subseteq T
    <3> HIDE DEF T
    <3> QED BY <1>2, <1>3, SetInduction
  <2> QED BY <1>1, <2>1
<1>5. \A i \in 1..n : h[i] = step[h[i - 1]][data[i]]
  <2> SUFFICES ASSUME NEW i \in 1..n PROVE h[i] = step[h[i - 1]][data[i]]
    OBVIOUS
  <2>1. i - 1 \in 0..n
    BY <1>1
  <2> QED BY <1>4, <2>1
<1> QED BY <1>4, <1>5 DEF Loop, Register

\* What crc8 and crc32 (e2e.go:73, 182) compute is the complement of the last value.
LEMMA Crc8Loop ==
  ASSUME NEW data \in Seq(E!Bytes)
  PROVE  \E f : Register(f, E!Bytes, Step8, 0..7, data) /\ E!crc8(0..7, data) = E!Xor(f[Len(data)], 0..7)
<1> DEFINE n == Len(data)
           Eq(h) == h = [i \in 0..n |-> IF i = 0 THEN 0..7 ELSE E!crc8Table[E!Xor(h[i - 1], data[i])]]
           g == CHOOSE h : Eq(h)
<1>1. Step8 \in [E!Bytes -> [E!Bytes -> E!Bytes]] /\ 0..7 \in E!Bytes /\ n \in Nat
  BY Step8Lossless DEF Lossless, E!Bytes
<1>2. \A i \in 1..n : data[i] \in E!Bytes
  OBVIOUS
<1>3. \A w, d \in E!Bytes : Step8[w][d] = E!crc8Table[E!Xor(w, d)]
  BY DEF Step8
<1>4. PICK f : Register(f, E!Bytes, Step8, 0..7, data)
  BY <1>1, LoopExists
<1>5. Eq(f)
  <2>1. ASSUME NEW i \in 0..n PROVE f[i] = IF i = 0 THEN 0..7 ELSE E!crc8Table[E!Xor(f[i - 1], data[i])]
    <3>1. CASE i = 0
      BY <3>1, <1>4 DEF Loop, Register
    <3>2. CASE i # 0
      <4>1. i \in 1..n /\ i - 1 \in 0..n
        BY <1>1, <3>2
      <4>2. f[i] = Step8[f[i - 1]][data[i]] /\ f[i - 1] \in E!Bytes /\ data[i] \in E!Bytes
        BY <1>2, <1>4, <4>1 DEF Loop, Register
      <4> QED BY <1>3, <3>2, <4>2
    <3> QED BY <3>1, <3>2
  <2> QED BY <2>1, <1>4 DEF Register
<1>6. Eq(g)
  BY <1>5
<1>7. E!crc8(0..7, data) = E!Xor(g[n], 0..7)
  BY DEF E!crc8
<1> HIDE DEF g
<1>8. Register(g, E!Bytes, Step8, 0..7, data)
  <2>1. g = [i \in 0..n |-> g[i]] /\ g[0] = 0..7
    BY <1>1, <1>6
  <2>2. ASSUME NEW i \in 1..n, g[i - 1] \in E!Bytes PROVE g[i] = Step8[g[i - 1]][data[i]]
    <3>1. \A j \in 0..n : g[j] = IF j = 0 THEN 0..7 ELSE E!crc8Table[E!Xor(g[j - 1], data[j])]
      BY <1>6
    <3>2. g[i] = E!crc8Table[E!Xor(g[i - 1], data[i])]
      BY <1>1, <3>1
    <3> QED BY <1>2, <1>3, <2>2, <3>2
  <2> QED BY <1>1, <2>1, <2>2, LoopTyped
<1> QED BY <1>7, <1>8

LEMMA Crc32Loop ==
  ASSUME NEW data \in Seq(E!Bytes)
  PROVE  \E f : Register(f, Words, Step32, 0..31, data) /\ E!crc32(0..31, data) = E!Xor(f[Len(data)], 0..31)
<1> DEFINE n == Len(data)
           Round(w, d) == E!Xor(E!crc32Table[E!Xor(E!Lowest(w), d)], E!Moved(w \ (0..7), -8))
           Eq(h) == h = [i \in 0..n |-> IF i = 0 THEN 0..31 ELSE Round(h[i - 1], data[i])]
           g == CHOOSE h : Eq(h)
<1>1. Step32 \in [Words -> [E!Bytes -> Words]] /\ 0..31 \in Words /\ n \in Nat
  <2>1. Step32 \in [Words -> [E!Bytes -> Words]]
    BY Step32Lossless DEF Lossless
  <2>2. 0..31 \in Words
    BY DEF Words
  <2> QED BY <2>1, <2>2
<1>2. \A i \in 1..n : data[i] \in E!Bytes
  OBVIOUS
<1>3. \A w \in Words, d \in E!Bytes : Step32[w][d] = Round(w, d)
  BY DEF Step32
<1>4. PICK f : Register(f, Words, Step32, 0..31, data)
  BY <1>1, LoopExists
<1>5. Eq(f)
  <2> HIDE DEF Round
  <2>1. ASSUME NEW i \in 0..n PROVE f[i] = IF i = 0 THEN 0..31 ELSE Round(f[i - 1], data[i])
    <3>1. CASE i = 0
      BY <3>1, <1>4 DEF Loop, Register
    <3>2. CASE i # 0
      <4>1. i \in 1..n /\ i - 1 \in 0..n
        BY <1>1, <3>2
      <4>2. f[i] = Step32[f[i - 1]][data[i]] /\ f[i - 1] \in Words /\ data[i] \in E!Bytes
        BY <1>2, <1>4, <4>1 DEF Loop, Register
      <4> QED BY <1>3, <3>2, <4>2
    <3> QED BY <3>1, <3>2
  <2> QED BY <2>1, <1>4 DEF Register
<1>6. Eq(g)
  <2> HIDE DEF Eq
  <2> QED BY <1>5
<1>7. E!crc32(0..31, data) = E!Xor(g[n], 0..31)
  BY DEF E!crc32
<1> HIDE DEF g, Round
<1>8. Register(g, Words, Step32, 0..31, data)
  <2>1. g = [i \in 0..n |-> g[i]] /\ g[0] = 0..31
    BY <1>1, <1>6
  <2>2. ASSUME NEW i \in 1..n, g[i - 1] \in Words PROVE g[i] = Step32[g[i - 1]][data[i]]
    <3>1. \A j \in 0..n : g[j] = IF j = 0 THEN 0..31 ELSE Round(g[j - 1], data[j])
      BY <1>6
    <3>2. g[i] = Round(g[i - 1], data[i])
      BY <1>1, <3>1
    <3> QED BY <1>2, <1>3, <2>2, <3>2
  <2> QED BY <1>1, <2>1, <2>2, LoopTyped
<1> QED BY <1>7, <1>8

\* One byte of the data differs.
OneDiffers(a, b, k) ==
    Len(a) = Len(b) /\ k \in 1..Len(a) /\ a[k] # b[k] /\ \A i \in 1..Len(a) : i # k => a[i] = b[i]

\* The register sees one byte that differs, wherever it is.
LEMMA LoopTells ==
  ASSUME NEW W, NEW step, Lossless(W, step), NEW w,
         NEW a \in Seq(E!Bytes), NEW b \in Seq(E!Bytes), NEW k, OneDiffers(a, b, k),
         NEW f, Register(f, W, step, w, a), NEW g, Register(g, W, step, w, b)
  PROVE  f[Len(a)] # g[Len(b)]
<1> DEFINE n == Len(a)
           h == k - 1
<1>1. n \in Nat /\ Len(b) = n /\ k \in 1..n /\ h \in 0..n /\ h \in Nat /\ k \in Nat /\ h + 1 = k
  BY DEF OneDiffers
<1>2. f[0] = g[0]
  BY DEF Loop, Register
<1>3. f[h] = g[h]
  <2>1. Common(a, b, 0, h)
    BY <1>1 DEF OneDiffers, Common
  <2> QED BY <1>2, <2>1, Meet
<1>4. f[k] # g[k]
  <2>1. f[k] = step[f[h]][a[k]] /\ g[k] = step[g[h]][b[k]]
    BY <1>1 DEF Loop, Register
  <2>2. f[h] \in W /\ a[k] \in E!Bytes /\ b[k] \in E!Bytes /\ a[k] # b[k]
    BY <1>1 DEF OneDiffers, Register
  <2> HIDE DEF h
  <2> QED BY <1>3, <2>1, <2>2, LosslessStep
<1>5. f[k] = g[k] <=> f[n] = g[n]
  <2>1. Common(a, b, k, n)
    BY <1>1 DEF OneDiffers, Common
  <2> QED BY <2>1, Meet
<1> QED BY <1>1, <1>4, <1>5

\* What comes after a and b does not tell them apart, and does not hide it.
LEMMA LoopTail ==
  ASSUME NEW W, NEW step, Lossless(W, step), NEW w,
         NEW a \in Seq(E!Bytes), NEW b \in Seq(E!Bytes), NEW ac \in Seq(E!Bytes), NEW bc \in Seq(E!Bytes),
         NEW n, NEW m, Common(a, ac, 0, n), Common(b, bc, 0, n), Common(ac, bc, n, m),
         NEW f, Register(f, W, step, w, a), NEW g, Register(g, W, step, w, b),
         NEW p, Register(p, W, step, w, ac), NEW q, Register(q, W, step, w, bc)
  PROVE  f[n] = g[n] <=> p[m] = q[m]
<1>1. f[0] = p[0] /\ g[0] = q[0]
  BY DEF Loop, Register
<1>2. f[n] = p[n]
  BY <1>1, Meet
<1>3. g[n] = q[n]
  BY <1>1, Meet
<1>4. p[n] = q[n] <=> p[m] = q[m]
  BY Meet
<1> QED BY <1>2, <1>3, <1>4

LEMMA JoinCommon ==
  ASSUME NEW a \in Seq(E!Bytes), NEW b \in Seq(E!Bytes), NEW c \in Seq(E!Bytes), Len(a) = Len(b)
  PROVE  /\ a \o c \in Seq(E!Bytes) /\ b \o c \in Seq(E!Bytes) /\ Len(a \o c) = Len(b \o c)
         /\ Common(a, a \o c, 0, Len(a)) /\ Common(b, b \o c, 0, Len(a))
         /\ Common(a \o c, b \o c, Len(a), Len(a \o c))
<1> DEFINE ac == a \o c
           bc == b \o c
<1>1. /\ ac \in Seq(E!Bytes) /\ Len(ac) = Len(a) + Len(c) /\ Len(a) \in Nat /\ Len(c) \in Nat
      /\ bc \in Seq(E!Bytes) /\ Len(bc) = Len(a) + Len(c)
  OBVIOUS
<1>2. \A i \in 1..Len(a) : ac[i] = a[i] /\ bc[i] = b[i]
  OBVIOUS
<1>3. ASSUME NEW i \in (Len(a) + 1)..Len(ac) PROVE ac[i] = bc[i]
  <2>1. ac[i] = c[i - Len(a)]
    BY <1>1
  <2>2. bc[i] = c[i - Len(a)]
    BY <1>1
  <2> QED BY <2>1, <2>2
<1> HIDE DEF ac, bc
<1>4. Common(a, ac, 0, Len(a)) /\ Common(b, bc, 0, Len(a)) /\ Common(ac, bc, Len(a), Len(ac))
  BY <1>1, <1>2, <1>3 DEF Common
<1> QED BY <1>1, <1>4 DEF ac, bc

\* The CRC of data with one byte changed is another.
LEMMA Crc8Tells ==
  ASSUME NEW a \in Seq(E!Bytes), NEW b \in Seq(E!Bytes), NEW k, OneDiffers(a, b, k)
  PROVE  E!crc8(0..7, a) # E!crc8(0..7, b)
<1>1. PICK f : Register(f, E!Bytes, Step8, 0..7, a) /\ E!crc8(0..7, a) = E!Xor(f[Len(a)], 0..7)
  BY Crc8Loop
<1>2. PICK g : Register(g, E!Bytes, Step8, 0..7, b) /\ E!crc8(0..7, b) = E!Xor(g[Len(b)], 0..7)
  BY Crc8Loop
<1>3. f[Len(a)] # g[Len(b)]
  BY <1>1, <1>2, Step8Lossless, LoopTells
<1>4. E!Xor(f[Len(a)], 0..7) = E!Xor(g[Len(b)], 0..7) <=> f[Len(a)] = g[Len(b)]
  BY XorBack
<1> QED BY <1>1, <1>2, <1>3, <1>4

LEMMA Crc32Tells ==
  ASSUME NEW a \in Seq(E!Bytes), NEW b \in Seq(E!Bytes), NEW k, OneDiffers(a, b, k)
  PROVE  E!crc32(0..31, a) # E!crc32(0..31, b)
<1>1. PICK f : Register(f, Words, Step32, 0..31, a) /\ E!crc32(0..31, a) = E!Xor(f[Len(a)], 0..31)
  BY Crc32Loop
<1>2. PICK g : Register(g, Words, Step32, 0..31, b) /\ E!crc32(0..31, b) = E!Xor(g[Len(b)], 0..31)
  BY Crc32Loop
<1>3. f[Len(a)] # g[Len(b)]
  BY <1>1, <1>2, Step32Lossless, LoopTells
<1>4. E!Xor(f[Len(a)], 0..31) = E!Xor(g[Len(b)], 0..31) <=> f[Len(a)] = g[Len(b)]
  BY XorBack
<1> QED BY <1>1, <1>2, <1>3, <1>4

\* Whether a CRC tells two beginnings apart does not depend on what follows.
LEMMA Crc8Tail ==
  ASSUME NEW a \in Seq(E!Bytes), NEW b \in Seq(E!Bytes), NEW c \in Seq(E!Bytes), Len(a) = Len(b)
  PROVE  E!crc8(0..7, a \o c) = E!crc8(0..7, b \o c) <=> E!crc8(0..7, a) = E!crc8(0..7, b)
<1> DEFINE Of(data, f) == Register(f, E!Bytes, Step8, 0..7, data) /\ E!crc8(0..7, data) = E!Xor(f[Len(data)], 0..7)
           ac == a \o c
           bc == b \o c
<1>1. /\ ac \in Seq(E!Bytes) /\ bc \in Seq(E!Bytes) /\ Len(ac) = Len(bc)
      /\ Common(a, ac, 0, Len(a)) /\ Common(b, bc, 0, Len(a)) /\ Common(ac, bc, Len(a), Len(ac))
  BY JoinCommon
<1> HIDE DEF ac, bc
<1>2. PICK f : Of(a, f)
  BY Crc8Loop
<1>3. PICK g : Of(b, g)
  BY Crc8Loop
<1>4. PICK p : Of(ac, p)
  BY <1>1, Crc8Loop
<1>5. PICK q : Of(bc, q)
  BY <1>1, Crc8Loop
<1>6. f[Len(a)] = g[Len(a)] <=> p[Len(ac)] = q[Len(ac)]
  BY <1>1, <1>2, <1>3, <1>4, <1>5, Step8Lossless, LoopTail
<1>7. E!crc8(0..7, a) = E!crc8(0..7, b) <=> f[Len(a)] = g[Len(a)]
  <2>1. E!Xor(f[Len(a)], 0..7) = E!Xor(g[Len(a)], 0..7) <=> f[Len(a)] = g[Len(a)]
    BY XorBack
  <2> QED BY <1>2, <1>3, <2>1
<1>8. E!crc8(0..7, ac) = E!crc8(0..7, bc) <=> p[Len(ac)] = q[Len(ac)]
  <2>1. E!Xor(p[Len(ac)], 0..7) = E!Xor(q[Len(ac)], 0..7) <=> p[Len(ac)] = q[Len(ac)]
    BY XorBack
  <2> QED BY <1>1, <1>4, <1>5, <2>1
<1> QED BY <1>6, <1>7, <1>8 DEF ac, bc

-----------------------------------------------------------------------------
(* Protected frames *)

\* What the checksum is over: the DataID, and the frame from a byte on.
Covered(id, frame, from) == id \o SubSeq(frame, from, Len(frame))

Covers(x, id, frame, from) ==
    /\ x \in Seq(E!Bytes)
    /\ Len(x) = Len(id) + (Len(frame) - from + 1)
    /\ \A i \in 1..Len(id) : x[i] = id[i]
    /\ \A i \in from..Len(frame) : x[Len(id) + i - from + 1] = frame[i]

LEMMA CoveredIs ==
  ASSUME NEW id \in Seq(E!Bytes), NEW frame \in Seq(E!Bytes), NEW from \in 1..Len(frame)
  PROVE  Covers(Covered(id, frame, from), id, frame, from)
<1> DEFINE tail == SubSeq(frame, from, Len(frame))
<1>1. /\ tail \in Seq(E!Bytes) /\ Len(tail) = Len(frame) - from + 1 /\ Len(tail) \in Nat
      /\ \A i \in 1..Len(tail) : tail[i] = frame[from + i - 1]
  OBVIOUS
<1>2. Covered(id, frame, from) = id \o tail
  BY DEF Covered
<1> HIDE DEF tail
<1>3. /\ id \o tail \in Seq(E!Bytes) /\ Len(id \o tail) = Len(id) + Len(tail) /\ Len(id) \in Nat
      /\ \A i \in 1..Len(id) : (id \o tail)[i] = id[i]
  <2> tail \in Seq(E!Bytes)
    BY <1>1
  <2> QED OBVIOUS
<1>4. ASSUME NEW i \in from..Len(frame) PROVE (id \o tail)[Len(id) + i - from + 1] = frame[i]
  <2> DEFINE j == i - from + 1
  <2>1. j \in 1..Len(tail) /\ Len(id) + i - from + 1 = Len(id) + j /\ from + j - 1 = i
    BY <1>1, <1>3
  <2> HIDE DEF j
  <2>2. (id \o tail)[Len(id) + j] = tail[j]
    BY <1>1, <1>3, <2>1
  <2> QED BY <1>1, <2>1, <2>2
<1> QED BY <1>1, <1>2, <1>3, <1>4 DEF Covers

\* Damage behind from is damage of what the checksum is over.
LEMMA CoveredDiffers ==
  ASSUME NEW id \in Seq(E!Bytes), NEW a \in Seq(E!Bytes), NEW b \in Seq(E!Bytes), NEW from \in 1..Len(a),
         NEW k, OneDiffers(a, b, k), k >= from
  PROVE  OneDiffers(Covered(id, a, from), Covered(id, b, from), Len(id) + k - from + 1)
<1> DEFINE x == Covered(id, a, from)
           y == Covered(id, b, from)
           n == Len(id)
           h == n + k - from + 1
<1>1. Len(b) = Len(a) /\ k \in from..Len(a) /\ n \in Nat /\ Len(a) \in Nat
  BY DEF OneDiffers
<1> HIDE DEF x, y
<1>2. Covers(x, id, a, from)
  BY CoveredIs DEF x
<1>3. Covers(y, id, b, from)
  BY <1>1, CoveredIs DEF y
<1>4. /\ Len(x) = n + (Len(a) - from + 1) /\ Len(y) = Len(x)
      /\ (\A i \in 1..n : x[i] = id[i]) /\ \A i \in from..Len(a) : x[n + i - from + 1] = a[i]
  BY <1>1, <1>2, <1>3 DEF Covers
<1>5. (\A i \in 1..n : y[i] = id[i]) /\ \A i \in from..Len(a) : y[n + i - from + 1] = b[i]
  BY <1>1, <1>3 DEF Covers
<1> HIDE DEF n
<1>6. h \in 1..Len(x)
  BY <1>1, <1>4
<1>7. x[h] # y[h]
  BY <1>1, <1>4, <1>5 DEF OneDiffers
<1>8. ASSUME NEW i \in 1..Len(x), i # h PROVE x[i] = y[i]
  <2>1. CASE i <= n
    BY <1>1, <1>4, <1>5, <2>1
  <2>2. CASE i > n
    <3> DEFINE j == i - n + from - 1
    <3>1. j \in from..Len(a) /\ n + j - from + 1 = i /\ j # k
      BY <1>1, <1>4, <1>8, <2>2
    <3> HIDE DEF j
    <3>2. x[i] = a[j] /\ y[i] = b[j]
      BY <1>4, <1>5, <3>1
    <3>3. a[j] = b[j]
      BY <3>1 DEF OneDiffers
    <3> QED BY <3>2, <3>3
  <2> QED BY <1>1, <1>4, <2>1, <2>2
<1>9. OneDiffers(x, y, h)
  BY <1>4, <1>6, <1>7, <1>8 DEF OneDiffers
<1> QED BY <1>9 DEF x, y, n

\* Damage before from is none of it.
LEMMA CoveredSame ==
  ASSUME NEW id \in Seq(E!Bytes), NEW a \in Seq(E!Bytes), NEW b \in Seq(E!Bytes), NEW from \in 1..Len(a),
         NEW k, OneDiffers(a, b, k), k < from
  PROVE  Covered(id, a, from) = Covered(id, b, from)
<1>1. Len(b) = Len(a) /\ \A i \in from..Len(a) : a[i] = b[i]
  BY DEF OneDiffers
<1>2. SubSeq(a, from, Len(a)) = SubSeq(b, from, Len(b))
  BY <1>1
<1> QED BY <1>2 DEF Covered

LEMMA Crc8Type == ASSUME NEW data \in Seq(E!Bytes) PROVE E!crc8(0..7, data) \in E!Bytes
<1>1. PICK f : Register(f, E!Bytes, Step8, 0..7, data) /\ E!crc8(0..7, data) = E!Xor(f[Len(data)], 0..7)
  BY Crc8Loop
<1>2. f[Len(data)] \in E!Bytes /\ 0..7 \in E!Bytes
  BY <1>1 DEF Register, E!Bytes
<1> QED BY <1>1, <1>2, XorType

LEMMA Crc32Type == ASSUME NEW data \in Seq(E!Bytes) PROVE E!crc32(0..31, data) \in Words
<1>1. PICK f : Register(f, Words, Step32, 0..31, data) /\ E!crc32(0..31, data) = E!Xor(f[Len(data)], 0..31)
  BY Crc32Loop
<1>2. f[Len(data)] \in Words
  BY <1>1 DEF Register
<1>3. 0..31 \in Words
  BY DEF Words
<1> QED BY <1>1, <1>2, <1>3, XorType

\* The checksum of a frame and the rest of it agree.
Sound01(id, frame) == frame[1] = E!crc8(0..7, Covered(id, frame, 2))
Sound05(id, frame) == SubSeq(frame, 1, 4) = E!LittleEndian(E!crc32(0..31, Covered(id, frame, 5)))

\* A frame with one byte damaged does not agree with itself any more.
LEMMA Damage01 ==
  ASSUME NEW id \in Seq(E!Bytes), NEW a \in Seq(E!Bytes), NEW b \in Seq(E!Bytes),
         Len(a) >= 2, NEW k, OneDiffers(a, b, k), Sound01(id, a)
  PROVE  ~ Sound01(id, b)
<1>1. Len(b) = Len(a) /\ k \in 1..Len(a) /\ 2 \in 1..Len(a) /\ 2 \in 1..Len(b) /\ Len(id) \in Nat
  BY DEF OneDiffers
<1>2. CASE k < 2
  <2>1. Covered(id, a, 2) = Covered(id, b, 2)
    BY <1>1, <1>2, CoveredSame
  <2>2. a[1] # b[1]
    BY <1>1, <1>2 DEF OneDiffers
  <2> QED BY <2>1, <2>2 DEF Sound01
<1>3. CASE k >= 2
  <2>1. OneDiffers(Covered(id, a, 2), Covered(id, b, 2), Len(id) + k - 2 + 1)
    BY <1>1, <1>3, CoveredDiffers
  <2>2. Covered(id, a, 2) \in Seq(E!Bytes) /\ Covered(id, b, 2) \in Seq(E!Bytes)
    <3>1. Covers(Covered(id, a, 2), id, a, 2)
      BY <1>1, CoveredIs
    <3>2. Covers(Covered(id, b, 2), id, b, 2)
      BY <1>1, CoveredIs
    <3> QED BY <3>1, <3>2 DEF Covers
  <2>3. E!crc8(0..7, Covered(id, a, 2)) # E!crc8(0..7, Covered(id, b, 2))
    BY <2>1, <2>2, Crc8Tells
  <2>4. a[1] = b[1]
    BY <1>1, <1>3 DEF OneDiffers
  <2> QED BY <2>3, <2>4 DEF Sound01
<1> QED BY <1>1, <1>2, <1>3

LEMMA Damage05 ==
  ASSUME NEW id \in Seq(E!Bytes), NEW a \in Seq(E!Bytes), NEW b \in Seq(E!Bytes),
         Len(a) >= 8, NEW k, OneDiffers(a, b, k), Sound05(id, a)
  PROVE  ~ Sound05(id, b)
<1>1. Len(b) = Len(a) /\ k \in 1..Len(a) /\ 5 \in 1..Len(a) /\ 5 \in 1..Len(b) /\ Len(id) \in Nat
  BY DEF OneDiffers
<1>2. CASE k < 5
  <2>1. Covered(id, a, 5) = Covered(id, b, 5)
    BY <1>1, <1>2, CoveredSame
  <2>2. a[k] # b[k] /\ k \in 1..4
    BY <1>1, <1>2 DEF OneDiffers
  <2>3. SubSeq(a, 1, 4)[k] = a[k] /\ SubSeq(b, 1, 4)[k] = b[k]
    BY <1>1, <2>2
  <2> QED BY <2>1, <2>2, <2>3 DEF Sound05
<1>3. CASE k >= 5
  <2>1. OneDiffers(Covered(id, a, 5), Covered(id, b, 5), Len(id) + k - 5 + 1)
    BY <1>1, <1>3, CoveredDiffers
  <2>2. Covered(id, a, 5) \in Seq(E!Bytes) /\ Covered(id, b, 5) \in Seq(E!Bytes)
    <3>1. Covers(Covered(id, a, 5), id, a, 5)
      BY <1>1, CoveredIs
    <3>2. Covers(Covered(id, b, 5), id, b, 5)
      BY <1>1, CoveredIs
    <3> QED BY <3>1, <3>2 DEF Covers
  <2>3. E!crc32(0..31, Covered(id, a, 5)) # E!crc32(0..31, Covered(id, b, 5))
    BY <2>1, <2>2, Crc32Tells
  <2>4. E!LittleEndian(E!crc32(0..31, Covered(id, a, 5))) # E!LittleEndian(E!crc32(0..31, Covered(id, b, 5)))
    BY <2>2, <2>3, Crc32Type, LittleEndianInjective
  <2>5. SubSeq(a, 1, 4) = SubSeq(b, 1, 4)
    <3>1. \A i \in 1..4 : a[i] = b[i]
      BY <1>1, <1>3 DEF OneDiffers
    <3> QED BY <1>1, <3>1
  <2> QED BY <2>4, <2>5 DEF Sound05
<1> QED BY <1>1, <1>2, <1>3

\* A checksum tells two DataIDs apart on a frame as it does by themselves.
LEMMA OtherID01 ==
  ASSUME NEW id \in Seq(E!Bytes), NEW other \in Seq(E!Bytes), Len(id) = Len(other),
         NEW frame \in Seq(E!Bytes), Len(frame) >= 2, Sound01(id, frame)
  PROVE  Sound01(other, frame) <=> E!crc8(0..7, other) = E!crc8(0..7, id)
<1> DEFINE tail == SubSeq(frame, 2, Len(frame))
<1>1. tail \in Seq(E!Bytes)
  OBVIOUS
<1> HIDE DEF tail
<1>2. E!crc8(0..7, id \o tail) = E!crc8(0..7, other \o tail) <=> E!crc8(0..7, id) = E!crc8(0..7, other)
  BY <1>1, Crc8Tail
<1> QED BY <1>2 DEF Sound01, Covered, tail

LEMMA OtherID05 ==
  ASSUME NEW id \in Seq(E!Bytes), NEW other \in Seq(E!Bytes), Len(id) = 1, Len(other) = 1, id # other,
         NEW frame \in Seq(E!Bytes), Len(frame) >= 8, Sound05(id, frame)
  PROVE  ~ Sound05(other, frame)
<1> DEFINE x == Covered(id, frame, 5)
           y == Covered(other, frame, 5)
<1>1. Covers(x, id, frame, 5) /\ Covers(y, other, frame, 5)
  <2>1. 5 \in 1..Len(frame)
    OBVIOUS
  <2> QED BY <2>1, CoveredIs
<1>2. id[1] # other[1]
  OBVIOUS
<1> HIDE DEF x, y
<1>3. OneDiffers(x, y, 1)
  <2>1. Len(x) = Len(y) /\ Len(x) = 1 + (Len(frame) - 5 + 1) /\ Len(frame) \in Nat
    BY <1>1 DEF Covers
  <2>2. x[1] = id[1] /\ y[1] = other[1]
    BY <1>1 DEF Covers
  <2>3. ASSUME NEW i \in 1..Len(x), i # 1 PROVE x[i] = y[i]
    <3> DEFINE j == i + 3
    <3>1. j \in 5..Len(frame) /\ 1 + j - 5 + 1 = i
      BY <2>1, <2>3
    <3> HIDE DEF j
    <3>2. x[1 + j - 5 + 1] = frame[j] /\ y[1 + j - 5 + 1] = frame[j]
      BY <1>1, <3>1 DEF Covers
    <3> QED BY <3>1, <3>2
  <2> QED BY <1>2, <2>1, <2>2, <2>3 DEF OneDiffers
<1>4. x \in Seq(E!Bytes) /\ y \in Seq(E!Bytes)
  BY <1>1 DEF Covers
<1>5. E!crc32(0..31, x) # E!crc32(0..31, y)
  BY <1>3, <1>4, Crc32Tells
<1>6. E!LittleEndian(E!crc32(0..31, x)) # E!LittleEndian(E!crc32(0..31, y))
  BY <1>4, <1>5, Crc32Type, LittleEndianInjective
<1> QED BY <1>6 DEF Sound05, x, y

\* c is a and then b.
Follows(c, a, b) ==
    /\ c \in Seq(E!Bytes) /\ Len(c) = Len(a) + Len(b) /\ Len(a) \in Nat /\ Len(b) \in Nat
    /\ \A i \in 1..Len(a) : c[i] = a[i]
    /\ \A i \in 1..Len(b) : c[Len(a) + i] = b[i]

LEMMA Appended ==
  ASSUME NEW a \in Seq(E!Bytes), NEW b \in Seq(E!Bytes) PROVE Follows(a \o b, a, b)
  BY DEF Follows

LEMMA ByteAt ==
  ASSUME NEW a \in Seq(E!Bytes), NEW i \in 1..Len(a) PROVE a[i] \in E!Bytes
  OBVIOUS

\* r is a from a byte on.
IsRest(r, a, from) ==
    /\ r \in Seq(E!Bytes) /\ Len(r) = Len(a) - from + 1
    /\ \A i \in 1..Len(r) : r[i] = a[from + i - 1]

LEMMA Rest ==
  ASSUME NEW a \in Seq(E!Bytes), NEW from \in 1..(Len(a) + 1) PROVE IsRest(SubSeq(a, from, Len(a)), a, from)
  BY DEF IsRest

LEMMA SameBytes ==
  ASSUME NEW a \in Seq(E!Bytes), NEW b \in Seq(E!Bytes), Len(a) = Len(b), \A i \in 1..Len(a) : a[i] = b[i]
  PROVE  a = b
  OBVIOUS

\* What Protect builds.
Sealed01(frame, id, payload, counter) ==
    /\ frame \in Seq(E!Bytes) /\ Len(frame) >= 2
    /\ Sound01(id, frame)
    /\ E!Low(frame[2]) = E!Low(E!Bits(counter))
    /\ SubSeq(frame, 3, Len(frame)) = payload
Sealed05(frame, id, payload, counter) ==
    /\ frame \in Seq(E!Bytes) /\ Len(frame) >= 8
    /\ Sound05(id, frame)
    /\ frame[5] = E!Bits(counter)
    /\ SubSeq(frame, 9, Len(frame)) = payload

LEMMA Protect01Is ==
  ASSUME NEW id \in Seq(E!Bytes), Len(id) = 2, NEW payload \in Seq(E!Bytes), NEW counter \in Byte,
         counter <= 14, NEW frame, frame = E!Protect01(id, payload, counter)
  PROVE  Sealed01(frame, id, payload, counter)
<1> DEFINE hdr1 == E!High(id[1]) \cup E!Low(E!Bits(counter))
           rest == <<hdr1>> \o payload
           sum == E!Sum01(id, hdr1, payload)
<1>1. hdr1 \in E!Bytes /\ E!Low(hdr1) = E!Low(E!Bits(counter))
  <2>1. 1 \in 1..Len(id)
    OBVIOUS
  <2>2. id[1] \in E!Bytes
    BY <2>1, ByteAt
  <2> QED BY <2>2 DEF E!High, E!Low, E!Bytes
<1>2. frame = <<sum, hdr1>> \o payload
  BY DEF E!Protect01, Byte
<1> HIDE DEF hdr1
<1>3. id \o rest \in Seq(E!Bytes) /\ rest \in Seq(E!Bytes)
  BY <1>1
<1>4. sum = E!crc8(0..7, id \o rest)
  <2>1. (id \o <<hdr1>>) \o payload = id \o rest
    BY <1>1
  <2> QED BY <2>1 DEF E!Sum01
<1>5. sum \in E!Bytes
  BY <1>3, <1>4, Crc8Type
<1> HIDE DEF sum
<1>6. /\ frame \in Seq(E!Bytes) /\ Len(frame) = 2 + Len(payload) /\ Len(payload) \in Nat
      /\ frame[1] = sum /\ frame[2] = hdr1
  BY <1>1, <1>2, <1>5
<1>7. SubSeq(frame, 3, Len(frame)) = payload
  BY <1>1, <1>2, <1>5
<1>8. SubSeq(frame, 2, Len(frame)) = rest
  BY <1>1, <1>2, <1>5
<1>9. Sound01(id, frame)
  BY <1>4, <1>6, <1>8 DEF Sound01, Covered
<1> QED BY <1>1, <1>6, <1>7, <1>9 DEF Sealed01

LEMMA Protect05Is ==
  ASSUME NEW id \in Seq(E!Bytes), NEW payload \in Seq(E!Bytes), NEW counter \in Byte,
         NEW frame, frame = E!Protect05(id, payload, counter)
  PROVE  Sealed05(frame, id, payload, counter)
<1> DEFINE head == <<E!Bits(counter), {}, {}, {}>>
           rest == head \o payload
           sum == E!Sum05(id, rest)
<1>1. E!Bits(counter) \in E!Bytes /\ {} \in E!Bytes
  BY BitsTell DEF Byte, E!Bytes
<1>2. frame = sum \o rest
  BY DEF E!Protect05
<1>3. head \in Seq(E!Bytes) /\ Len(head) = 4 /\ head[1] = E!Bits(counter)
  BY <1>1
<1> HIDE DEF head
<1>4. Follows(rest, head, payload)
  BY <1>3, Appended
<1> HIDE DEF rest
<1>5. rest \in Seq(E!Bytes) /\ Len(rest) = 4 + Len(payload) /\ Len(payload) \in Nat /\ rest[1] = E!Bits(counter)
  BY <1>3, <1>4 DEF Follows
<1>6. \A i \in 1..Len(payload) : rest[4 + i] = payload[i]
  BY <1>3, <1>4 DEF Follows
<1>7. id \o rest \in Seq(E!Bytes)
  BY <1>5
<1>8. sum = E!LittleEndian(E!crc32(0..31, id \o rest))
  BY DEF E!Sum05
<1>9. sum \in Seq(E!Bytes) /\ Len(sum) = 4
  BY <1>7, <1>8, Crc32Type, LittleEndianInjective
<1> HIDE DEF sum
<1>10. Follows(frame, sum, rest)
  BY <1>2, <1>5, <1>9, Appended
<1>11. frame \in Seq(E!Bytes) /\ Len(frame) = 8 + Len(payload)
  BY <1>5, <1>9, <1>10 DEF Follows
<1>12. /\ \A i \in 1..4 : frame[i] = sum[i]
       /\ \A i \in 1..Len(rest) : frame[4 + i] = rest[i]
  BY <1>5, <1>9, <1>10 DEF Follows
<1>13. SubSeq(frame, 1, 4) = sum
  BY <1>5, <1>9, <1>11, <1>12
<1>14. SubSeq(frame, 5, Len(frame)) = rest
  BY <1>5, <1>11, <1>12
<1>15. SubSeq(frame, 9, Len(frame)) = payload
  <2>1. \A i \in 1..Len(payload) : frame[8 + i] = payload[i]
    <3> SUFFICES ASSUME NEW i \in 1..Len(payload) PROVE frame[8 + i] = payload[i]
      OBVIOUS
    <3>1. 4 + i \in 1..Len(rest) /\ 4 + (4 + i) = 8 + i
      BY <1>5
    <3> QED BY <1>6, <1>12, <3>1
  <2> QED BY <1>5, <1>11, <2>1
<1>16. frame[5] = E!Bits(counter)
  <2>1. 1 \in 1..Len(rest) /\ 4 + 1 = 5
    BY <1>5
  <2> QED BY <1>5, <1>12, <2>1
<1>17. Sound05(id, frame)
  BY <1>8, <1>13, <1>14 DEF Sound05, Covered
<1> QED BY <1>5, <1>11, <1>15, <1>16, <1>17 DEF Sealed05

\* What Check accepts.
LEMMA Check01Is ==
  ASSUME NEW id \in Seq(E!Bytes), NEW frame \in Seq(E!Bytes), Len(frame) >= 2, NEW expected
  PROVE  /\ E!Check01(id, frame, expected).err = "nil" <=>
                Sound01(id, frame) /\ E!Low(frame[2]) = E!Low(E!Bits(expected))
         /\ E!Check01(id, frame, expected).err = "nil" =>
                E!Check01(id, frame, expected).payload = SubSeq(frame, 3, Len(frame))
<1> DEFINE payload == SubSeq(frame, 3, Len(frame))
<1>1. (id \o <<frame[2]>>) \o payload = id \o SubSeq(frame, 2, Len(frame))
  <2>1. payload \in Seq(E!Bytes) /\ frame[2] \in E!Bytes
    OBVIOUS
  <2>2. <<frame[2]>> \o payload = SubSeq(frame, 2, Len(frame))
    <3> DEFINE x == <<frame[2]>>
               y == SubSeq(frame, 2, Len(frame))
    <3>1. /\ payload \in Seq(E!Bytes) /\ Len(payload) = Len(frame) - 2
          /\ \A i \in 1..Len(payload) : payload[i] = frame[i + 2]
      <4>1. 3 \in 1..(Len(frame) + 1)
        OBVIOUS
      <4>2. IsRest(payload, frame, 3)
        BY <4>1, Rest
      <4> HIDE DEF payload
      <4> QED BY <4>2 DEF IsRest
    <3>2. /\ y \in Seq(E!Bytes) /\ Len(y) = Len(frame) - 1
          /\ \A i \in 1..Len(y) : y[i] = frame[i + 1]
      OBVIOUS
    <3>3. x \in Seq(E!Bytes) /\ Len(x) = 1 /\ x[1] = frame[2]
      BY <2>1
    <3>4. Follows(x \o payload, x, payload)
      BY <3>1, <3>3, Appended
    <3> HIDE DEF x, y, payload
    <3>5. ASSUME NEW i \in 1..Len(y) PROVE (x \o payload)[i] = y[i]
      <4>1. CASE i = 1
        BY <3>2, <3>3, <3>4, <4>1 DEF Follows
      <4>2. CASE i # 1
        <5>1. i - 1 \in 1..Len(payload) /\ 1 + (i - 1) = i /\ (i - 1) + 2 = i + 1
          BY <3>1, <3>2, <4>2
        <5>2. (x \o payload)[1 + (i - 1)] = payload[i - 1]
          BY <3>3, <3>4, <5>1 DEF Follows
        <5> QED BY <3>1, <3>2, <5>1, <5>2
      <4> QED BY <4>1, <4>2
    <3>6. Len(x \o payload) = Len(y) /\ x \o payload \in Seq(E!Bytes)
      BY <3>1, <3>2, <3>3, <3>4 DEF Follows
    <3>7. x \o payload = y
      <4>1. \A i \in 1..Len(x \o payload) : (x \o payload)[i] = y[i]
        BY <3>5, <3>6
      <4> QED BY <3>2, <3>6, <4>1, SameBytes
    <3> QED BY <3>7 DEF x, y
  <2>3. (id \o <<frame[2]>>) \o payload = id \o (<<frame[2]>> \o payload)
    <3> HIDE DEF payload
    <3> QED BY <2>1
  <2> QED BY <2>2, <2>3
<1>2. Sound01(id, frame) <=> frame[1] = E!Sum01(id, frame[2], payload)
  BY <1>1 DEF Sound01, Covered, E!Sum01
<1> HIDE DEF payload
<1>3. E!Check01(id, frame, expected) =
          IF frame[1] # E!Sum01(id, frame[2], payload) THEN E!Refused("CRCMismatch")
          ELSE IF E!Low(frame[2]) # E!Low(E!Bits(expected)) THEN E!Refused("CounterMismatch")
          ELSE E!Accepted(payload)
  BY DEF E!Check01, E!Profile01HeaderSize, payload
<1> QED BY <1>2, <1>3 DEF E!Refused, E!Accepted, payload

LEMMA Check05Is ==
  ASSUME NEW id \in Seq(E!Bytes), NEW frame \in Seq(E!Bytes), Len(frame) >= 8, NEW expected
  PROVE  /\ E!Check05(id, frame, expected).err = "nil" <=>
                Sound05(id, frame) /\ frame[5] = E!Bits(expected)
         /\ E!Check05(id, frame, expected).err = "nil" =>
                E!Check05(id, frame, expected).payload = SubSeq(frame, 9, Len(frame))
<1>1. E!Check05(id, frame, expected) =
          IF ~ Sound05(id, frame) THEN E!Refused("CRCMismatch")
          ELSE IF frame[5] # E!Bits(expected) THEN E!Refused("CounterMismatch")
          ELSE E!Accepted(SubSeq(frame, 9, Len(frame)))
  BY DEF E!Check05, E!Profile05HeaderSize, E!Sum05, Sound05, Covered
<1> QED BY <1>1 DEF E!Refused, E!Accepted

\* The frame of p as it was sent, and what Check says of a frame.
Clean(p) == IF p.profile = 1 THEN E!Protect01(p.id, p.payload, p.counter)
                             ELSE E!Protect05(p.id, p.payload, p.counter)
Verdict(p, id, frame, expected) == IF p.profile = 1 THEN E!Check01(id, frame, expected)
                                                    ELSE E!Check05(id, frame, expected)

\* frame is clean with those bits flipped.
FlippedAt(fl, i) == {j \in 0..7 : <<i, j>> \in fl}
Damaged(clean, frame, fl) ==
    /\ clean \in Seq(E!Bytes) /\ frame \in Seq(E!Bytes) /\ Len(frame) = Len(clean)
    /\ fl \subseteq (1..Len(clean)) \X (0..7)
    /\ \A i \in 1..Len(clean) : frame[i] = E!Xor(clean[i], FlippedAt(fl, i))

\* What is on its way, and what Check has said of it.
Sendable(p) == p \in Protected /\ (p.profile = 1 => p.counter <= 14)
Underway    == Sendable(sent) /\ Damaged(Clean(sent), wire, flips)
Judged      == \E id \in DataIDs, expected \in Counters :
                   /\ Len(id) = Len(sent.id)
                   /\ got = [id |-> id, expected |-> expected, res |-> Verdict(sent, id, wire, expected)]

FrameInv == kind = "e2e" =>
    /\ wire = <<>> => flips = {} /\ up
    /\ wire # <<>> => Underway
    /\ ~up => Judged

LEMMA SendableIs ==
  ASSUME NEW p, Sendable(p)
  PROVE  \/ /\ p.profile = 1 /\ p.id \in Seq(E!Bytes) /\ Len(p.id) = 2
            /\ p.payload \in Seq(E!Bytes) /\ p.counter \in Byte /\ p.counter <= 14
         \/ /\ p.profile = 5 /\ p.id \in Seq(E!Bytes) /\ Len(p.id) = 1
            /\ p.payload \in Seq(E!Bytes) /\ p.counter \in Byte
  BY ProtectedAssumption DEF Sendable, Protectable

LEMMA CleanTyped ==
  ASSUME NEW p, Sendable(p) PROVE Clean(p) \in Seq(E!Bytes)
<1>1. CASE p.profile = 1
  <2>1. p.id \in Seq(E!Bytes) /\ Len(p.id) = 2 /\ p.payload \in Seq(E!Bytes) /\ p.counter \in Byte /\ p.counter <= 14
    BY <1>1, SendableIs
  <2> QED BY <1>1, <2>1, Protect01Is DEF Clean, Sealed01
<1>2. CASE p.profile # 1
  <2>1. p.id \in Seq(E!Bytes) /\ p.payload \in Seq(E!Bytes) /\ p.counter \in Byte
    BY <1>2, SendableIs
  <2> QED BY <1>2, <2>1, Protect05Is DEF Clean, Sealed05
<1> QED BY <1>1, <1>2

LEMMA Undamaged ==
  ASSUME NEW a \in Seq(E!Bytes) PROVE Damaged(a, a, {})
<1>1. \A i \in 1..Len(a) : FlippedAt({}, i) = {}
  BY DEF FlippedAt
<1>2. \A x : E!Xor(x, {}) = x
  BY DEF E!Xor
<1> QED BY <1>1, <1>2 DEF Damaged

LEMMA FlipDamages ==
  ASSUME NEW a, NEW b, NEW fl, Damaged(a, b, fl), NEW i \in DOMAIN b, NEW j \in 0..7, <<i, j>> \notin fl
  PROVE  Damaged(a, [b EXCEPT ![i] = E!Xor(@, {j})], fl \cup {<<i, j>>})
<1> DEFINE c == [b EXCEPT ![i] = E!Xor(@, {j})]
           fm == fl \cup {<<i, j>>}
<1>1. /\ a \in Seq(E!Bytes) /\ b \in Seq(E!Bytes) /\ Len(b) = Len(a) /\ i \in 1..Len(a)
      /\ fl \subseteq (1..Len(a)) \X (0..7)
  BY DEF Damaged
<1>2. E!Xor(b[i], {j}) \in E!Bytes
  <2>1. b[i] \in E!Bytes /\ {j} \in E!Bytes
    BY <1>1, ByteAt DEF E!Bytes
  <2> QED BY <2>1, XorType
<1>3. c \in Seq(E!Bytes) /\ Len(c) = Len(a) /\ c[i] = E!Xor(b[i], {j}) /\ \A k \in 1..Len(a) : k # i => c[k] = b[k]
  BY <1>1, <1>2
<1>4. fm \subseteq (1..Len(a)) \X (0..7)
  BY <1>1
<1>5. ASSUME NEW k \in 1..Len(a) PROVE c[k] = E!Xor(a[k], FlippedAt(fm, k))
  <2>1. b[k] = E!Xor(a[k], FlippedAt(fl, k))
    BY DEF Damaged
  <2>2. CASE k # i
    <3>1. FlippedAt(fm, k) = FlippedAt(fl, k)
      BY <2>2 DEF FlippedAt
    <3> HIDE DEF c, fm
    <3> QED BY <1>3, <2>1, <2>2, <3>1
  <2>3. CASE k = i
    <3>1. FlippedAt(fm, i) = FlippedAt(fl, i) \cup {j} /\ j \notin FlippedAt(fl, i)
      BY DEF FlippedAt
    <3> DEFINE x == a[i]
               y == FlippedAt(fl, i)
    <3> HIDE DEF c, fm, x, y
    <3>2. E!Xor(E!Xor(x, y), {j}) = E!Xor(x, y \cup {j})
      <4>1. j \notin y
        BY <3>1 DEF y
      <4> QED BY <4>1 DEF E!Xor
    <3>3. b[i] = E!Xor(x, y) /\ FlippedAt(fm, i) = y \cup {j} /\ c[i] = E!Xor(b[i], {j})
      BY <1>3, <2>1, <2>3, <3>1 DEF x, y
    <3>4. c[i] = E!Xor(x, FlippedAt(fm, i))
      BY <3>2, <3>3
    <3> QED BY <2>3, <3>4 DEF x
  <2> QED BY <2>2, <2>3
<1> HIDE DEF c, fm
<1>6. Damaged(a, c, fm)
  BY <1>1, <1>3, <1>4, <1>5 DEF Damaged
<1> QED BY <1>6 DEF c, fm

\* What flips in one byte damages that byte.
LEMMA OneByte ==
  ASSUME NEW a, NEW b, NEW fl, Damaged(a, b, fl), fl # {}, \A f, g \in fl : f[1] = g[1]
  PROVE  \E k : OneDiffers(a, b, k)
<1>1. PICK k \in 1..Len(a), j \in 0..7 : <<k, j>> \in fl
  <2>1. PICK f \in fl : TRUE
    OBVIOUS
  <2>2. f \in (1..Len(a)) \X (0..7)
    BY DEF Damaged
  <2>3. f[1] \in 1..Len(a) /\ f[2] \in 0..7 /\ f = <<f[1], f[2]>>
    BY <2>2
  <2> QED BY <2>3
<1>2. ASSUME NEW i \in 1..Len(a), i # k PROVE a[i] = b[i]
  <2>1. FlippedAt(fl, i) = {}
    <3> SUFFICES ASSUME NEW h \in 0..7, <<i, h>> \in fl PROVE FALSE
      BY DEF FlippedAt
    <3>1. <<i, h>>[1] = <<k, j>>[1]
      BY <1>1
    <3> QED BY <1>2, <3>1
  <2>2. b[i] = E!Xor(a[i], FlippedAt(fl, i))
    BY DEF Damaged
  <2> QED BY <2>1, <2>2 DEF E!Xor
<1>3. a[k] # b[k]
  <2>1. j \in FlippedAt(fl, k)
    BY <1>1 DEF FlippedAt
  <2>2. b[k] = E!Xor(a[k], FlippedAt(fl, k))
    BY DEF Damaged
  <2> DEFINE x == a[k]
             y == FlippedAt(fl, k)
  <2>3. b[k] = E!Xor(x, y) /\ j \in y
    BY <2>1, <2>2
  <2> HIDE DEF x, y
  <2>4. E!Xor(x, y) # x
    BY <2>3 DEF E!Xor
  <2> QED BY <2>3, <2>4 DEF x
<1> QED BY <1>1, <1>2, <1>3 DEF OneDiffers, Damaged

LEMMA NoneFlipped ==
  ASSUME NEW a, NEW b, Damaged(a, b, {}) PROVE a = b
<1>1. a \in Seq(E!Bytes) /\ b \in Seq(E!Bytes) /\ Len(b) = Len(a)
  BY DEF Damaged
<1>2. ASSUME NEW i \in 1..Len(a) PROVE a[i] = b[i]
  <2>1. FlippedAt({}, i) = {}
    BY DEF FlippedAt
  <2>2. b[i] = E!Xor(a[i], FlippedAt({}, i))
    BY DEF Damaged
  <2> QED BY <2>1, <2>2 DEF E!Xor
<1> QED BY <1>1, <1>2, SameBytes

\* The frame on its way is the frame that was sent but for the bits that flipped.
THEOREM FrameInductive == Spec => []FrameInv
<1>1. Init => FrameInv
  BY DEF Init, FrameInv
<1>2. FrameInv /\ [Next]_vars => FrameInv'
  <2> SUFFICES ASSUME FrameInv, [Next]_vars PROVE FrameInv'
    OBVIOUS
  <2>1. CASE kind # "e2e"
    <3>1. kind' = kind
      BY DEF Next, vars, WriteMessage, WriteGarbage, Write, Cut, Read, Announce, AnswerFind, SubscribeEventgroup,
             AckSubscribe, SubscribeEvent, SendForeign, Send, Hear, Protect, Flip, Check
    <3> QED BY <2>1, <3>1 DEF FrameInv
  <2>2. CASE kind = "e2e" /\ UNCHANGED vars
    BY <2>2 DEF FrameInv, Underway, Judged, vars
  <2>3. ASSUME kind = "e2e", NEW p \in Protected, Protect(p) PROVE FrameInv'
    <3>1. /\ wire' = Clean(p) /\ wire' # <<>> /\ sent' = p /\ flips' = {} /\ up' = TRUE /\ kind' = kind
      BY <2>3 DEF Protect, FrameInv, Clean
    <3>2. Sendable(p)
      <4>1. p.profile = 1 /\ p.counter > 14 => Clean(p) = <<>>
        BY DEF Clean, E!Protect01
      <4>2. p.counter \in Byte
        BY ProtectedAssumption DEF Protectable
      <4>3. ~ (p.profile = 1 /\ p.counter > 14)
        BY <3>1, <4>1
      <4>4. p.profile = 1 => p.counter <= 14
        BY <4>2, <4>3 DEF Byte
      <4> QED BY <4>4 DEF Sendable
    <3>3. Damaged(Clean(p), Clean(p), {})
      BY <3>2, CleanTyped, Undamaged
    <3> QED BY <3>1, <3>2, <3>3 DEF FrameInv, Underway
  <2>4. ASSUME kind = "e2e", NEW i \in DOMAIN wire, NEW j \in 0..7, Flip(i, j) PROVE FrameInv'
    <3>1. /\ wire' = [wire EXCEPT ![i] = E!Xor(@, {j})] /\ flips' = flips \cup {<<i, j>>} /\ <<i, j>> \notin flips
          /\ sent' = sent /\ up' = up /\ up /\ kind' = kind
      BY <2>4 DEF Flip
    <3>2. wire # <<>>
      BY <2>4
    <3>3. Underway
      BY <2>4, <3>2 DEF FrameInv
    <3>4. Damaged(Clean(sent), wire', flips')
      BY <3>1, <3>3, FlipDamages DEF Underway
    <3>5. wire' # <<>>
      <4>1. i \in DOMAIN wire'
        BY <3>1
      <4> QED BY <4>1
    <3> QED BY <3>1, <3>3, <3>4, <3>5 DEF FrameInv, Underway
  <2>5. ASSUME kind = "e2e", NEW id \in DataIDs, NEW expected \in Counters, Check(id, expected) PROVE FrameInv'
    <3>1. /\ wire # <<>> /\ Len(id) = Len(sent.id) /\ kind' = kind /\ sent' = sent /\ wire' = wire /\ flips' = flips
          /\ got' = [id |-> id, expected |-> expected, res |-> Verdict(sent, id, wire, expected)]
      BY <2>5 DEF Check, Verdict
    <3>2. Judged'
      BY <3>1 DEF Judged
    <3> QED BY <2>5, <3>1, <3>2 DEF FrameInv, Underway
  <2>6. CASE kind = "e2e" /\ Next
    <3>1. \/ \E p \in Protected : Protect(p)
          \/ \E i \in DOMAIN wire, j \in 0..7 : Flip(i, j)
          \/ \E id \in DataIDs, expected \in Counters : Check(id, expected)
      BY <2>6 DEF Next, WriteMessage, WriteGarbage, Cut, Read, Announce, AnswerFind, SubscribeEventgroup,
                  AckSubscribe, SubscribeEvent, SendForeign, Send, Hear
    <3> QED BY <2>3, <2>4, <2>5, <2>6, <3>1
  <2> QED BY <2>1, <2>2, <2>6
<1> QED BY <1>1, <1>2, PTL DEF Spec

\* Check's verdict on a frame of which at most one byte is damaged.
LEMMA Judgement ==
  ASSUME NEW p, Sendable(p), NEW id \in DataIDs, Len(id) = Len(p.id), NEW expected \in Counters,
         NEW frame, NEW fl, Damaged(Clean(p), frame, fl), \A f, g \in fl : f[1] = g[1],
         id = p.id \/ fl = {},
         id = p.id \/ p.profile = 5 \/ E!crc8(0..7, id) # E!crc8(0..7, p.id)
  PROVE  /\ Verdict(p, id, frame, expected).err = "nil" <=>
                /\ fl = {} /\ id = p.id
                /\ expected % (IF p.profile = 1 THEN 16 ELSE 256) = p.counter
         /\ Verdict(p, id, frame, expected).err = "nil" =>
                Verdict(p, id, frame, expected).payload = p.payload
<1> DEFINE clean == Clean(p)
<1>1. id \in Seq(E!Bytes) /\ expected \in Byte
  BY ProtectedAssumption
<1>2. clean \in Seq(E!Bytes) /\ frame \in Seq(E!Bytes) /\ Len(frame) = Len(clean)
  BY DEF Damaged
<1>3. fl = {} => frame = clean
  BY NoneFlipped
<1>4. fl # {} => \E k : OneDiffers(clean, frame, k)
  BY OneByte
<1>5. CASE p.profile = 1
  <2>1. /\ p.id \in Seq(E!Bytes) /\ Len(p.id) = 2
        /\ p.payload \in Seq(E!Bytes) /\ p.counter \in Byte /\ p.counter <= 14
    BY <1>5, SendableIs
  <2>2. clean = E!Protect01(p.id, p.payload, p.counter)
    BY <1>5 DEF Clean
  <2>3. /\ Len(clean) >= 2 /\ Sound01(p.id, clean)
        /\ E!Low(clean[2]) = E!Low(E!Bits(p.counter)) /\ SubSeq(clean, 3, Len(clean)) = p.payload
    <3> HIDE DEF clean
    <3>1. Sealed01(clean, p.id, p.payload, p.counter)
      BY <2>1, <2>2, Protect01Is
    <3> QED BY <3>1 DEF Sealed01
  <2>4. /\ Verdict(p, id, frame, expected).err = "nil" <=>
               Sound01(id, frame) /\ E!Low(frame[2]) = E!Low(E!Bits(expected))
        /\ Verdict(p, id, frame, expected).err = "nil" =>
               Verdict(p, id, frame, expected).payload = SubSeq(frame, 3, Len(frame))
    BY <1>1, <1>2, <1>5, <2>3, Check01Is DEF Verdict
  <2> HIDE DEF clean
  <2>5. CASE fl # {}
    <3>1. PICK k : OneDiffers(clean, frame, k)
      BY <1>4, <2>5
    <3>2. id = p.id
      BY <2>5
    <3>3. ~ Sound01(id, frame)
      BY <1>2, <2>1, <2>3, <3>1, <3>2, Damage01
    <3> QED BY <2>4, <2>5, <3>3
  <2>6. CASE fl = {} /\ id # p.id
    <3>1. frame = clean /\ E!crc8(0..7, id) # E!crc8(0..7, p.id)
      BY <1>3, <1>5, <2>6
    <3>2. ~ Sound01(id, frame)
      BY <1>1, <1>2, <2>1, <2>3, <3>1, OtherID01
    <3> QED BY <2>4, <2>6, <3>2
  <2>7. CASE fl = {} /\ id = p.id
    <3>1. frame = clean
      BY <1>3, <2>7
    <3>2. E!Low(E!Bits(p.counter)) = E!Low(E!Bits(expected)) <=> p.counter % 16 = expected % 16
      BY <1>1, <2>1, BitsTell DEF Byte
    <3>3. p.counter % 16 = p.counter
      <4>1. \A c \in Byte : c <= 14 => c % 16 = c
        BY DEF Byte
      <4> QED BY <2>1, <4>1
    <3>4. Verdict(p, id, frame, expected).err = "nil" <=> expected % 16 = p.counter
      BY <2>3, <2>4, <2>7, <3>1, <3>2, <3>3
    <3> QED BY <1>5, <2>3, <2>4, <2>7, <3>1, <3>4
  <2> QED BY <2>5, <2>6, <2>7
<1>6. CASE p.profile # 1
  <2>1. /\ p.profile = 5 /\ p.id \in Seq(E!Bytes) /\ Len(p.id) = 1
        /\ p.payload \in Seq(E!Bytes) /\ p.counter \in Byte
    BY <1>6, SendableIs
  <2>2. clean = E!Protect05(p.id, p.payload, p.counter)
    BY <1>6 DEF Clean
  <2>3. /\ Len(clean) >= 8 /\ Sound05(p.id, clean)
        /\ clean[5] = E!Bits(p.counter) /\ SubSeq(clean, 9, Len(clean)) = p.payload
    <3> HIDE DEF clean
    <3>1. Sealed05(clean, p.id, p.payload, p.counter)
      BY <2>1, <2>2, Protect05Is
    <3> QED BY <3>1 DEF Sealed05
  <2>4. /\ Verdict(p, id, frame, expected).err = "nil" <=> Sound05(id, frame) /\ frame[5] = E!Bits(expected)
        /\ Verdict(p, id, frame, expected).err = "nil" =>
               Verdict(p, id, frame, expected).payload = SubSeq(frame, 9, Len(frame))
    BY <1>1, <1>2, <1>6, <2>3, Check05Is DEF Verdict
  <2> HIDE DEF clean
  <2>5. CASE fl # {}
    <3>1. PICK k : OneDiffers(clean, frame, k)
      BY <1>4, <2>5
    <3>2. id = p.id
      BY <2>5
    <3>3. ~ Sound05(id, frame)
      BY <1>2, <2>1, <2>3, <3>1, <3>2, Damage05
    <3> QED BY <2>4, <2>5, <3>3
  <2>6. CASE fl = {} /\ id # p.id
    <3>1. frame = clean /\ Len(id) = 1
      BY <1>3, <2>1, <2>6
    <3>2. ~ Sound05(id, frame)
      BY <1>1, <1>2, <2>1, <2>3, <2>6, <3>1, OtherID05
    <3> QED BY <2>4, <2>6, <3>2
  <2>7. CASE fl = {} /\ id = p.id
    <3>1. frame = clean
      BY <1>3, <2>7
    <3>2. E!Bits(p.counter) = E!Bits(expected) <=> p.counter = expected
      BY <1>1, <2>1, BitsTell DEF Byte
    <3>3. expected % 256 = expected
      BY <1>1 DEF Byte
    <3>4. Verdict(p, id, frame, expected).err = "nil" <=> expected % 256 = p.counter
      BY <2>3, <2>4, <2>7, <3>1, <3>2, <3>3
    <3> QED BY <1>6, <2>3, <2>4, <2>7, <3>1, <3>4
  <2> QED BY <2>5, <2>6, <2>7
<1> QED BY <1>5, <1>6

\* The bits that flip are bits of one byte.
OneByteDamaged == \A f, g \in flips : f[1] = g[1]

\* The receiver's DataID is the sender's, or one that can be told from it: under
\* Profile 01 its CRC is another, under Profile 05 that is so of all DataIDs.
ToldApart == got.id = sent.id \/ sent.profile = 5 \/ E!crc8(0..7, got.id) # E!crc8(0..7, sent.id)

\* Check (e2e.go:140, 242) refuses every frame with damage within one byte, of its
\* checksum, its header or its payload, and an undamaged one exactly when the DataID
\* or the counter is not the sender's: for payloads of any length and all DataIDs
\* and counters.
THEOREM DamageDetectedHolds == Spec => [](OneByteDamaged /\ ToldApart => DamageDetected)
<1>1. FrameInv => (OneByteDamaged /\ ToldApart => DamageDetected)
  <2> SUFFICES ASSUME FrameInv, OneByteDamaged, ToldApart, kind = "e2e", ~up, got.id = sent.id \/ flips = {}
               PROVE  LET right == /\ flips = {} /\ got.id = sent.id
                                   /\ got.expected % (IF sent.profile = 1 THEN 16 ELSE 256) = sent.counter
                      IN  /\ (got.res.err = "nil") = right
                          /\ right => got.res.payload = sent.payload
    BY DEF DamageDetected
  <2>1. Underway /\ Judged
    BY DEF FrameInv
  <2>2. PICK id \in DataIDs, expected \in Counters :
            /\ Len(id) = Len(sent.id)
            /\ got = [id |-> id, expected |-> expected, res |-> Verdict(sent, id, wire, expected)]
    BY <2>1 DEF Judged
  <2>3. got.id = id /\ got.expected = expected /\ got.res = Verdict(sent, id, wire, expected)
    BY <2>2
  <2>4. id = sent.id \/ sent.profile = 5 \/ E!crc8(0..7, id) # E!crc8(0..7, sent.id)
    BY <2>3 DEF ToldApart
  <2>5. id = sent.id \/ flips = {}
    BY <2>3
  <2>6. /\ Verdict(sent, id, wire, expected).err = "nil" <=>
               /\ flips = {} /\ id = sent.id
               /\ expected % (IF sent.profile = 1 THEN 16 ELSE 256) = sent.counter
        /\ Verdict(sent, id, wire, expected).err = "nil" =>
               Verdict(sent, id, wire, expected).payload = sent.payload
    BY <2>1, <2>2, <2>4, <2>5, Judgement DEF Underway, OneByteDamaged
  <2> QED BY <2>3, <2>6
<1> QED BY <1>1, FrameInductive, PTL

-----------------------------------------------------------------------------
(* Parts of bytes *)

\* The bytes of b stand in s at offset off.
Has(s, off, b) == /\ off \in Nat /\ off + Len(b) <= Len(s)
                  /\ \A k \in 1..Len(b) : s[off + k] = b[k]

\* c is bytes, as many as a and b have.
Length(c, a, b) == c \in Seq(Byte) /\ Len(c) = Len(a) + Len(b)

LEMMA HasLast ==
  ASSUME NEW a \in Seq(Byte), NEW b \in Seq(Byte), NEW c, IsJoin(c, a, b)
  PROVE  Length(c, a, b) /\ Has(c, Len(a), b) /\ Has(c, 0, a)
<1>1. Laid(c, a, b)
  BY Joined
<1>2. Len(a) \in Nat /\ Len(b) \in Nat
  OBVIOUS
<1>3. ASSUME NEW k \in 1..Len(b) PROVE c[Len(a) + k] = b[k]
  <2>1. Len(a) + k \in (Len(a) + 1)..Len(c) /\ (Len(a) + k) - Len(a) = k
    BY <1>1, <1>2 DEF Laid
  <2> QED BY <1>1, <2>1 DEF Laid
<1> QED BY <1>1, <1>2, <1>3 DEF Length, Has, Laid

LEMMA HasStill ==
  ASSUME NEW a \in Seq(Byte), NEW b \in Seq(Byte), NEW c, IsJoin(c, a, b),
         NEW off, NEW x \in Seq(Byte), Has(a, off, x)
  PROVE  Has(c, off, x)
<1>1. Laid(c, a, b)
  BY Joined
<1>2. Len(a) \in Nat /\ Len(b) \in Nat /\ Len(x) \in Nat /\ off \in Nat /\ off + Len(x) <= Len(a)
  BY DEF Has
<1>3. ASSUME NEW k \in 1..Len(x) PROVE c[off + k] = x[k]
  <2>1. off + k \in 1..Len(a)
    BY <1>2
  <2>2. a[off + k] = x[k]
    BY DEF Has
  <2> QED BY <1>1, <2>1, <2>2 DEF Laid
<1> QED BY <1>1, <1>2, <1>3 DEF Has, Laid

LEMMA HasInner ==
  ASSUME NEW s \in Seq(Byte), NEW b \in Seq(Byte), NEW x \in Seq(Byte), NEW off, NEW at,
         Has(s, off, b), Has(b, at, x)
  PROVE  Has(s, off + at, x)
<1>1. /\ off \in Nat /\ at \in Nat /\ off + Len(b) <= Len(s) /\ at + Len(x) <= Len(b)
      /\ Len(s) \in Nat /\ Len(b) \in Nat /\ Len(x) \in Nat
  BY DEF Has
<1>2. ASSUME NEW k \in 1..Len(x) PROVE s[(off + at) + k] = x[k]
  <2>1. at + k \in 1..Len(b) /\ off + (at + k) = (off + at) + k
    BY <1>1
  <2>2. b[at + k] = x[k]
    BY DEF Has
  <2>3. s[off + (at + k)] = b[at + k]
    BY <2>1 DEF Has
  <2> QED BY <2>1, <2>2, <2>3
<1> QED BY <1>1, <1>2 DEF Has

\* Byte i of b is byte off + i of s.
Stands(s, off, b, i) == At(s, off + i) = b[i + 1]

LEMMA HasAt ==
  ASSUME NEW s, NEW b \in Seq(Byte), NEW off, Has(s, off, b), NEW i \in Nat, i < Len(b)
  PROVE  Stands(s, off, b, i)
<1>1. i + 1 \in 1..Len(b) /\ off + (i + 1) = (off + i) + 1 /\ off \in Nat
  BY DEF Has
<1>2. s[off + (i + 1)] = b[i + 1]
  BY <1>1 DEF Has
<1> QED BY <1>1, <1>2 DEF At, Stands

LEMMA HasUint16 ==
  ASSUME NEW s, NEW off, NEW x, Short(x), Has(s, off, PutUint16(x))
  PROVE  Uint16(s, off) = x
<1> DEFINE p == PutUint16(x)
<1>1. p \in Seq(Byte) /\ Len(p) = 2 /\ 256 * p[1] + p[2] = x
  BY PutUint16Bytes, SMT DEF Short
<1> HIDE DEF p
<1>2. Has(s, off, p) /\ off \in Nat /\ p \in Seq(Byte)
  BY <1>1 DEF p, Has
<1>3. Stands(s, off, p, 0)
  <2>1. 0 \in Nat /\ 0 < Len(p)
    BY <1>1
  <2> QED BY <1>2, <2>1, HasAt
<1>4. Stands(s, off, p, 1)
  <2>1. 1 \in Nat /\ 1 < Len(p)
    BY <1>1
  <2> QED BY <1>2, <2>1, HasAt
<1> QED BY <1>1, <1>2, <1>3, <1>4, SMT DEF Uint16, Stands

LEMMA HasUint32 ==
  ASSUME NEW s, NEW off, NEW x, Wide(x), Has(s, off, PutUint32(x))
  PROVE  Uint32(s, off) = x
<1> DEFINE p == PutUint32(x)
<1>1. p \in Seq(Byte) /\ Len(p) = 4 /\ 65536 * (256 * p[1] + p[2]) + (256 * p[3] + p[4]) = x
  BY PutUint32Bytes, SMT
<1> HIDE DEF p
<1>2. Has(s, off, p) /\ off \in Nat /\ p \in Seq(Byte)
  BY <1>1 DEF p, Has
<1>3. Stands(s, off, p, 0)
  <2>1. 0 \in Nat /\ 0 < Len(p)
    BY <1>1
  <2> QED BY <1>2, <2>1, HasAt
<1>4. Stands(s, off, p, 1)
  <2>1. 1 \in Nat /\ 1 < Len(p)
    BY <1>1
  <2> QED BY <1>2, <2>1, HasAt
<1>5. Stands(s, off, p, 2)
  <2>1. 2 \in Nat /\ 2 < Len(p)
    BY <1>1
  <2> QED BY <1>2, <2>1, HasAt
<1>6. Stands(s, off, p, 3)
  <2>1. 3 \in Nat /\ 3 < Len(p)
    BY <1>1
  <2> QED BY <1>2, <2>1, HasAt
<1>7. Uint16(s, off) = 256 * p[1] + p[2]
  BY <1>2, <1>3, <1>4, SMT DEF Uint16, Stands
<1>8. Uint16(s, off + 2) = 256 * p[3] + p[4]
  BY <1>2, <1>5, <1>6, SMT DEF Uint16, Stands
<1> QED BY <1>1, <1>7, <1>8, SMT DEF Uint32

\* A number of 24 bits.
Medium(x) == x \in Nat /\ x < 16777216

LEMMA PutUint24Bytes ==
  ASSUME NEW x, Medium(x)
  PROVE  /\ PutUint24(x) \in Seq(Byte) /\ Len(PutUint24(x)) = 3
         /\ 65536 * PutUint24(x)[1] + (256 * PutUint24(x)[2] + PutUint24(x)[3]) = x
<1> DEFINE q == x \div 65536
           r == x % 65536
           b == PutUint16(r)
<1>1. q \in Nat /\ q < 256 /\ r \in Nat /\ r < 65536 /\ 65536 * q + r = x
  <2>1. q \in Nat /\ r \in Nat /\ r < 65536 /\ 65536 * q + r = x
    BY Divided65536, SMT DEF Medium
  <2> HIDE DEF q, r
  <2>2. q < 256
    BY <2>1, SMT DEF Medium
  <2> QED BY <2>1, <2>2
<1>2. PutUint24(x) = <<q % 256>> \o b
  BY DEF PutUint24
<1> HIDE DEF q, r
<1>3. q % 256 = q
  BY <1>1, Small256
<1>4. b \in Seq(Byte) /\ Len(b) = 2 /\ 256 * b[1] + b[2] = r
  BY <1>1, PutUint16Bytes
<1> HIDE DEF b
<1>5. Laid(PutUint24(x), <<q>>, b)
  <2>1. <<q>> \in Seq(Byte) /\ IsJoin(PutUint24(x), <<q>>, b)
    BY <1>1, <1>2, <1>3 DEF Byte, IsJoin
  <2> QED BY <1>4, <2>1, Joined
<1>6. /\ PutUint24(x) \in Seq(Byte) /\ Len(PutUint24(x)) = 3
      /\ PutUint24(x)[1] = q /\ PutUint24(x)[2] = b[1] /\ PutUint24(x)[3] = b[2]
  BY <1>4, <1>5 DEF Laid
<1> QED BY <1>1, <1>4, <1>6, SMT

LEMMA HasUint24 ==
  ASSUME NEW s, NEW off, NEW x, Medium(x), Has(s, off, PutUint24(x))
  PROVE  Uint24(s, off) = x
<1> DEFINE p == PutUint24(x)
<1>1. p \in Seq(Byte) /\ Len(p) = 3 /\ 65536 * p[1] + (256 * p[2] + p[3]) = x
  BY PutUint24Bytes, SMT
<1> HIDE DEF p
<1>2. Has(s, off, p) /\ off \in Nat /\ p \in Seq(Byte)
  BY <1>1 DEF p, Has
<1>3. Stands(s, off, p, 0)
  <2>1. 0 \in Nat /\ 0 < Len(p)
    BY <1>1
  <2> QED BY <1>2, <2>1, HasAt
<1>4. Stands(s, off, p, 1)
  <2>1. 1 \in Nat /\ 1 < Len(p)
    BY <1>1
  <2> QED BY <1>2, <2>1, HasAt
<1>5. Stands(s, off, p, 2)
  <2>1. 2 \in Nat /\ 2 < Len(p)
    BY <1>1
  <2> QED BY <1>2, <2>1, HasAt
<1>6. Uint16(s, off + 1) = 256 * p[2] + p[3]
  BY <1>2, <1>4, <1>5, SMT DEF Uint16, Stands
<1> QED BY <1>1, <1>2, <1>3, <1>6, SMT DEF Uint24, Stands

\* An entry stands at offset off.
EntryAt(b, off, e) ==
    /\ off \in Nat /\ off + EntrySize <= Len(b)
    /\ At(b, off) = e.type /\ At(b, off + 1) = e.index1 /\ At(b, off + 2) = e.index2
    /\ At(b, off + 3) = Nibble(e.num1) * 16 + Nibble(e.num2)
    /\ Uint16(b, off + 4) = e.service /\ Uint16(b, off + 6) = e.instance
    /\ At(b, off + 8) = e.major /\ Uint24(b, off + 9) = e.ttl
    /\ IF e.type \in {Find, Offer} THEN Uint32(b, off + 12) = e.minor ELSE Uint16(b, off + 14) = e.group

\* What can be said of the fields of a proper entry.
Filled(e) ==
    /\ e.index1 \in Byte /\ e.index2 \in Byte /\ e.major \in Byte
    /\ Nibble(e.num1) \in 0..15 /\ Nibble(e.num2) \in 0..15
    /\ Short(e.service) /\ Short(e.instance) /\ Medium(e.ttl) /\ Wide(e.minor) /\ Short(e.group)
Known(type) == type = Find \/ type = Offer \/ type = Subscribe \/ type = SubscribeAck

LEMMA EntryFields ==
  ASSUME NEW e, Proper(e)
  PROVE  Known(e.type) /\ e.type \in Byte /\ Filled(e)
<1>1. e \in Entry
  BY DEF Proper
<1>2. Known(e.type)
  <2>1. e.type \in Types
    BY <1>1 DEF Entry
  <2> QED BY <2>1 DEF Types, Known
<1>3. e.index1 \in Byte /\ e.index2 \in Byte /\ e.major \in Byte /\ e.num1 \in Byte /\ e.num2 \in Byte
  BY <1>1 DEF Entry
<1>4. e.service \in 0..Uint16Max /\ e.instance \in 0..Uint16Max /\ e.group \in 0..Uint16Max
  BY <1>1 DEF Entry
<1>5. e.ttl \in 0..Uint24Max /\ e.minor \in Nat
  BY <1>1, SMT DEF Entry
<1>6. e.type \in Byte
  BY <1>2 DEF Known, Find, Offer, Subscribe, SubscribeAck, Byte
<1>7. Nibble(e.num1) \in 0..15 /\ Nibble(e.num2) \in 0..15
  BY <1>3 DEF Nibble, Byte
<1>8. Short(e.service) /\ Short(e.instance) /\ Short(e.group)
  BY <1>4, ShortIDs
<1>9. Medium(e.ttl)
  <2>1. Uint24Max \in Int /\ Uint24Max < 16777216
    BY DEF Uint24Max
  <2> QED BY <1>5, <2>1, SMT DEF Medium
<1>10. Wide(e.minor)
  <2>1. e.minor \div 65536 < 65536 \/ e.minor = 0
    BY SMT DEF Proper
  <2> QED BY <1>5, <2>1, SMT DEF Wide
<1> QED BY <1>2, <1>3, <1>6, <1>7, <1>8, <1>9, <1>10 DEF Filled

\* b comes after the first n bytes of c, which has k.
Piece(c, a, b, n, k) == IsJoin(c, a, b) /\ a \in Seq(Byte) /\ b \in Seq(Byte) /\ Len(a) = n /\ n + Len(b) = k

LEMMA Pieces ==
  ASSUME NEW c, NEW a, NEW b, NEW n, NEW k, Piece(c, a, b, n, k)
  PROVE  c \in Seq(Byte) /\ Len(c) = k /\ Has(c, n, b) /\ Has(c, 0, a)
<1>1. Length(c, a, b) /\ Has(c, Len(a), b) /\ Has(c, 0, a)
  BY HasLast DEF Piece
<1> QED BY <1>1 DEF Piece, Length

\* EncodeEntry (sd.go:111) puts each field where DecodeEntry looks for it.
LEMMA EntryEncoded ==
  ASSUME NEW e, Proper(e)
  PROVE  LET x == EncodeEntry(e) IN
         /\ x \in Seq(Byte) /\ Len(x) = 16
         /\ Has(x, 0, <<e.type, e.index1, e.index2, Nibble(e.num1) * 16 + Nibble(e.num2)>>)
         /\ Has(x, 4, PutUint16(e.service)) /\ Has(x, 6, PutUint16(e.instance))
         /\ Has(x, 8, <<e.major>>) /\ Has(x, 9, PutUint24(e.ttl))
         /\ IF e.type \in {Find, Offer} THEN Has(x, 12, PutUint32(e.minor)) ELSE Has(x, 14, PutUint16(e.group))
<1> DEFINE h0 == <<e.type, e.index1, e.index2, Nibble(e.num1) * 16 + Nibble(e.num2)>>
           a  == PutUint16(e.service)
           c  == PutUint16(e.instance)
           d  == <<e.major>>
           t  == PutUint24(e.ttl)
           g  == PutUint16(e.group)
           z  == Zeros(2)
           m  == IF e.type \in {Subscribe, SubscribeAck} THEN z \o g ELSE PutUint32(e.minor)
           h1 == h0 \o a
           h2 == h1 \o c
           h3 == h2 \o d
           h4 == h3 \o t
           x  == h4 \o m
<1>1. EncodeEntry(e) = x
  BY DEF EncodeEntry
<1>2. h0 \in Seq(Byte) /\ Len(h0) = 4
  <2>1. \A p, q \in 0..15 : p * 16 + q \in Byte
    BY DEF Byte
  <2>2. Nibble(e.num1) * 16 + Nibble(e.num2) \in Byte
    BY <2>1, EntryFields DEF Filled
  <2> QED BY <2>2, EntryFields DEF Filled
<1>3. a \in Seq(Byte) /\ Len(a) = 2 /\ c \in Seq(Byte) /\ Len(c) = 2 /\ g \in Seq(Byte) /\ Len(g) = 2
  BY EntryFields, Put16 DEF Filled
<1>4. d \in Seq(Byte) /\ Len(d) = 1
  BY EntryFields DEF Filled
<1>5. t \in Seq(Byte) /\ Len(t) = 3
  BY EntryFields, PutUint24Bytes DEF Filled
<1>6. z \in Seq(Byte) /\ Len(z) = 2
  BY DEF Zeros, Byte
<1>7. /\ m \in Seq(Byte) /\ Len(m) = 4
      /\ IF e.type \in {Find, Offer} THEN m = PutUint32(e.minor) ELSE Has(m, 2, g)
  <2>1. CASE e.type \in {Find, Offer}
    <3>1. m = PutUint32(e.minor)
      BY <2>1 DEF Find, Offer, Subscribe, SubscribeAck
    <3> HIDE DEF m
    <3>2. PutUint32(e.minor) \in Seq(Byte) /\ Len(PutUint32(e.minor)) = 4
      BY EntryFields, PutUint32Bytes DEF Filled
    <3> QED BY <2>1, <3>1, <3>2
  <2>2. CASE e.type \notin {Find, Offer}
    <3>1. m = z \o g
      BY <2>2, EntryFields DEF Known
    <3> HIDE DEF m, z, g
    <3>2. Piece(m, z, g, 2, 4)
      BY <1>3, <1>6, <3>1 DEF Piece, IsJoin
    <3> QED BY <2>2, <3>2, Pieces
  <2> QED BY <2>1, <2>2
<1>8. IsJoin(h1, h0, a) /\ IsJoin(h2, h1, c) /\ IsJoin(h3, h2, d) /\ IsJoin(h4, h3, t) /\ IsJoin(x, h4, m)
  BY DEF IsJoin
<1> HIDE DEF h0, a, c, d, t, g, m, h1, h2, h3, h4, x
<1>9. Piece(h1, h0, a, 4, 6)
  BY <1>2, <1>3, <1>8 DEF Piece
<1>10. Piece(h2, h1, c, 6, 8)
  <2>1. h1 \in Seq(Byte) /\ Len(h1) = 6
    BY <1>9, Pieces
  <2> QED BY <1>3, <1>8, <2>1 DEF Piece
<1>11. Piece(h3, h2, d, 8, 9)
  <2>1. h2 \in Seq(Byte) /\ Len(h2) = 8
    BY <1>10, Pieces
  <2> QED BY <1>4, <1>8, <2>1 DEF Piece
<1>12. Piece(h4, h3, t, 9, 12)
  <2>1. h3 \in Seq(Byte) /\ Len(h3) = 9
    BY <1>11, Pieces
  <2> QED BY <1>5, <1>8, <2>1 DEF Piece
<1>13. Piece(x, h4, m, 12, 16)
  <2>1. h4 \in Seq(Byte) /\ Len(h4) = 12
    BY <1>12, Pieces
  <2> QED BY <1>7, <1>8, <2>1 DEF Piece
<1>14. x \in Seq(Byte) /\ Len(x) = 16 /\ Has(x, 12, m) /\ Has(x, 0, h4)
  BY <1>13, Pieces
<1>15. Has(h4, 9, t) /\ Has(h4, 0, h3) /\ h4 \in Seq(Byte)
  BY <1>12, Pieces
<1>16. Has(h3, 8, d) /\ Has(h3, 0, h2) /\ h3 \in Seq(Byte)
  BY <1>11, Pieces
<1>17. Has(h2, 6, c) /\ Has(h2, 0, h1) /\ h2 \in Seq(Byte)
  BY <1>10, Pieces
<1>18. Has(h1, 4, a) /\ Has(h1, 0, h0) /\ h1 \in Seq(Byte)
  BY <1>9, Pieces
<1>19. Has(x, 0, h3) /\ Has(x, 9, t)
  <2>1. Has(x, 0 + 0, h3)
    BY <1>14, <1>15, <1>16, HasInner
  <2>2. Has(x, 0 + 9, t)
    BY <1>5, <1>14, <1>15, HasInner
  <2> QED BY <2>1, <2>2
<1>20. Has(x, 0, h2) /\ Has(x, 8, d)
  <2>1. Has(x, 0 + 0, h2)
    BY <1>14, <1>16, <1>17, <1>19, HasInner
  <2>2. Has(x, 0 + 8, d)
    BY <1>4, <1>14, <1>16, <1>19, HasInner
  <2> QED BY <2>1, <2>2
<1>21. Has(x, 0, h1) /\ Has(x, 6, c)
  <2>1. Has(x, 0 + 0, h1)
    BY <1>14, <1>17, <1>18, <1>20, HasInner
  <2>2. Has(x, 0 + 6, c)
    BY <1>3, <1>14, <1>17, <1>20, HasInner
  <2> QED BY <2>1, <2>2
<1>22. Has(x, 0, h0) /\ Has(x, 4, a)
  <2>1. Has(x, 0 + 0, h0)
    BY <1>2, <1>14, <1>18, <1>21, HasInner
  <2>2. Has(x, 0 + 4, a)
    BY <1>3, <1>14, <1>18, <1>21, HasInner
  <2> QED BY <2>1, <2>2
<1>23. IF e.type \in {Find, Offer} THEN Has(x, 12, PutUint32(e.minor)) ELSE Has(x, 14, g)
  <2>1. CASE e.type \in {Find, Offer}
    BY <1>7, <1>14, <2>1
  <2>2. CASE e.type \notin {Find, Offer}
    <3>1. Has(x, 12 + 2, g)
      BY <1>3, <1>7, <1>14, <2>2, HasInner
    <3> QED BY <2>2, <3>1
  <2> QED BY <2>1, <2>2
<1> QED BY <1>1, <1>14, <1>19, <1>20, <1>21, <1>22, <1>23 DEF h0, a, c, d, t, g

\* DecodeEntry (sd.go:157) finds the fields that EncodeEntry has written.
LEMMA EntryStands ==
  ASSUME NEW b \in Seq(Byte), NEW off, NEW e, Proper(e), Has(b, off, EncodeEntry(e))
  PROVE  EntryAt(b, off, e)
<1> DEFINE x  == EncodeEntry(e)
           h0 == <<e.type, e.index1, e.index2, Nibble(e.num1) * 16 + Nibble(e.num2)>>
           d  == <<e.major>>
<1>1. /\ x \in Seq(Byte) /\ Len(x) = 16 /\ Has(x, 0, h0) /\ Has(x, 8, d)
      /\ Has(x, 4, PutUint16(e.service)) /\ Has(x, 6, PutUint16(e.instance)) /\ Has(x, 9, PutUint24(e.ttl))
      /\ IF e.type \in {Find, Offer} THEN Has(x, 12, PutUint32(e.minor)) ELSE Has(x, 14, PutUint16(e.group))
  BY EntryEncoded
<1>2. off \in Nat /\ off + 16 <= Len(b)
  BY <1>1 DEF Has
<1>3. Has(b, off, x)
  OBVIOUS
<1> HIDE DEF x
<1>4. Known(e.type) /\ e.type \in Byte /\ Filled(e)
  BY EntryFields
<1>5. At(b, off) = e.type /\ At(b, off + 1) = e.index1 /\ At(b, off + 2) = e.index2
      /\ At(b, off + 3) = Nibble(e.num1) * 16 + Nibble(e.num2)
  <2>1. h0 \in Seq(Byte) /\ Len(h0) = 4
    <3>1. \A p, q \in 0..15 : p * 16 + q \in Byte
      BY DEF Byte
    <3>2. Nibble(e.num1) * 16 + Nibble(e.num2) \in Byte
      BY <1>4, <3>1 DEF Filled
    <3> QED BY <1>4, <3>2 DEF Filled
  <2>2. h0[1] = e.type /\ h0[2] = e.index1 /\ h0[3] = e.index2 /\ h0[4] = Nibble(e.num1) * 16 + Nibble(e.num2)
    OBVIOUS
  <2> HIDE DEF h0
  <2>3. Has(b, off + 0, h0)
    BY <1>1, <1>3, <2>1, HasInner
  <2>4. Has(b, off, h0)
    BY <1>2, <2>3
  <2>5. 0 \in Nat /\ 0 < Len(h0) /\ 1 \in Nat /\ 1 < Len(h0) /\ 2 \in Nat /\ 2 < Len(h0) /\ 3 \in Nat /\ 3 < Len(h0)
    BY <2>1
  <2>6. Stands(b, off, h0, 0)
    BY <2>1, <2>4, <2>5, HasAt
  <2>7. Stands(b, off, h0, 1)
    BY <2>1, <2>4, <2>5, HasAt
  <2>8. Stands(b, off, h0, 2)
    BY <2>1, <2>4, <2>5, HasAt
  <2>9. Stands(b, off, h0, 3)
    BY <2>1, <2>4, <2>5, HasAt
  <2> QED BY <1>2, <2>2, <2>6, <2>7, <2>8, <2>9 DEF Stands
<1>6. At(b, off + 8) = e.major
  <2>1. d \in Seq(Byte) /\ Len(d) = 1 /\ d[1] = e.major
    BY <1>4 DEF Filled
  <2> HIDE DEF d
  <2>2. Has(b, off + 8, d)
    BY <1>1, <1>3, <2>1, HasInner
  <2>3. 0 \in Nat /\ 0 < Len(d)
    BY <2>1
  <2>4. Stands(b, off + 8, d, 0)
    BY <2>1, <2>2, <2>3, HasAt
  <2> QED BY <1>2, <2>1, <2>4 DEF Stands
<1>7. Uint16(b, off + 4) = e.service
  <2>1. Short(e.service)
    BY <1>4 DEF Filled
  <2>2. PutUint16(e.service) \in Seq(Byte)
    BY <2>1, Put16
  <2>3. Has(b, off + 4, PutUint16(e.service))
    BY <1>1, <1>3, <2>2, HasInner
  <2> QED BY <2>1, <2>3, HasUint16
<1>8. Uint16(b, off + 6) = e.instance
  <2>1. Short(e.instance)
    BY <1>4 DEF Filled
  <2>2. PutUint16(e.instance) \in Seq(Byte)
    BY <2>1, Put16
  <2>3. Has(b, off + 6, PutUint16(e.instance))
    BY <1>1, <1>3, <2>2, HasInner
  <2> QED BY <2>1, <2>3, HasUint16
<1>9. Uint24(b, off + 9) = e.ttl
  <2>1. Medium(e.ttl)
    BY <1>4 DEF Filled
  <2>2. PutUint24(e.ttl) \in Seq(Byte)
    BY <2>1, PutUint24Bytes
  <2>3. Has(b, off + 9, PutUint24(e.ttl))
    BY <1>1, <1>3, <2>2, HasInner
  <2> QED BY <2>1, <2>3, HasUint24
<1>10. IF e.type \in {Find, Offer} THEN Uint32(b, off + 12) = e.minor ELSE Uint16(b, off + 14) = e.group
  <2>1. CASE e.type \in {Find, Offer}
    <3>1. Wide(e.minor)
      BY <1>4 DEF Filled
    <3>2. PutUint32(e.minor) \in Seq(Byte)
      BY <3>1, PutUint32Bytes
    <3>3. Has(x, 12, PutUint32(e.minor))
      BY <1>1, <2>1
    <3>4. Has(b, off + 12, PutUint32(e.minor))
      BY <1>1, <1>3, <3>2, <3>3, HasInner
    <3> QED BY <2>1, <3>1, <3>4, HasUint32
  <2>2. CASE e.type \notin {Find, Offer}
    <3>1. Short(e.group)
      BY <1>4 DEF Filled
    <3>2. PutUint16(e.group) \in Seq(Byte)
      BY <3>1, Put16
    <3>3. Has(x, 14, PutUint16(e.group))
      BY <1>1, <2>2
    <3>4. Has(b, off + 14, PutUint16(e.group))
      BY <1>1, <1>3, <3>2, <3>3, HasInner
    <3> QED BY <2>2, <3>1, <3>4, HasUint16
  <2> QED BY <2>1, <2>2
<1> QED BY <1>2, <1>5, <1>6, <1>7, <1>8, <1>9, <1>10 DEF EntryAt, EntrySize

\* The entry with these references to options.
Refers(e, i1, i2, n1, n2) ==
    [type |-> e.type, index1 |-> i1, index2 |-> i2, num1 |-> n1, num2 |-> n2,
     service |-> e.service, instance |-> e.instance, major |-> e.major, ttl |-> e.ttl,
     minor |-> e.minor, group |-> e.group]

\* What DecodeEntry makes of an entry: a count above 15 has been written as 15.
Cropped(e) == Refers(e, e.index1, e.index2, Nibble(e.num1), Nibble(e.num2))

LEMMA EntryDecoded ==
  ASSUME NEW b \in Seq(Byte), NEW off, NEW e, Proper(e), EntryAt(b, off, e)
  PROVE  DecodeEntry(b, off) = Cropped(e)
<1> DEFINE n1 == Nibble(e.num1)
           n2 == Nibble(e.num2)
<1>1. Known(e.type) /\ Filled(e)
  BY EntryFields
<1>2. \A p, q \in 0..15 : (p * 16 + q) \div 16 = p /\ ((p * 16 + q) % 16) = q
  OBVIOUS
<1>3. At(b, off + 3) \div 16 = n1 /\ (At(b, off + 3) % 16) = n2
  BY <1>1, <1>2 DEF Filled, EntryAt
<1> HIDE DEF n1, n2
<1>4. e.type \in Types
  BY <1>1 DEF Known, Types
<1>5. At(b, off) \in Types /\ ~(Len(b) < off + EntrySize)
  <2>1. ~(Len(b) < off + EntrySize)
    BY DEF EntryAt, EntrySize
  <2> QED BY <1>4, <2>1 DEF EntryAt
<1>6. (IF e.type \in {Find, Offer} THEN Uint32(b, off + 12) ELSE 0) = e.minor
      /\ (IF e.type \in {Find, Offer} THEN 0 ELSE Uint16(b, off + 14)) = e.group
  BY DEF Proper, EntryAt
<1>7. /\ At(b, off) = e.type /\ At(b, off + 1) = e.index1 /\ At(b, off + 2) = e.index2
      /\ Uint16(b, off + 4) = e.service /\ Uint16(b, off + 6) = e.instance
      /\ At(b, off + 8) = e.major /\ Uint24(b, off + 9) = e.ttl
  BY DEF EntryAt
<1> QED BY <1>3, <1>5, <1>6, <1>7, Zenon DEF DecodeEntry, Cropped, Refers, n1, n2

LEMMA CoreOf ==
  ASSUME NEW e, NEW i1, NEW i2, NEW n1, NEW n2
  PROVE  Core(Refers(e, i1, i2, n1, n2)) = Refers(e, 0, 0, 0, 0)
<1>1. [Refers(e, i1, i2, n1, n2) EXCEPT !.index1 = 0] = Refers(e, 0, i2, n1, n2)
  BY DEF Refers
<1>2. [Refers(e, 0, i2, n1, n2) EXCEPT !.index2 = 0] = Refers(e, 0, 0, n1, n2)
  BY DEF Refers
<1>3. [Refers(e, 0, 0, n1, n2) EXCEPT !.num1 = 0] = Refers(e, 0, 0, 0, n2)
  BY DEF Refers
<1>4. [Refers(e, 0, 0, 0, n2) EXCEPT !.num2 = 0] = Refers(e, 0, 0, 0, 0)
  BY DEF Refers
<1> QED BY <1>1, <1>2, <1>3, <1>4 DEF Core

LEMMA EntryShape ==
  ASSUME NEW e \in Entry
  PROVE  e = Refers(e, e.index1, e.index2, e.num1, e.num2)
  BY DEF Entry, Refers

\* Apart from the counts the receiver has the sender's entry.
LEMMA CroppedCore ==
  ASSUME NEW e, Proper(e)
  PROVE  Cropped(e) \in Entry /\ Core(Cropped(e)) = Core(e)
<1>1. e \in Entry
  BY DEF Proper
<1>2. Nibble(e.num1) \in Byte /\ Nibble(e.num2) \in Byte
  BY EntryFields DEF Filled, Byte
<1>3. Cropped(e) \in Entry
  BY <1>1, <1>2 DEF Entry, Cropped, Refers
<1>4. Core(Cropped(e)) = Refers(e, 0, 0, 0, 0)
  BY CoreOf DEF Cropped
<1>5. Core(Refers(e, e.index1, e.index2, e.num1, e.num2)) = Refers(e, 0, 0, 0, 0)
  BY CoreOf
<1> QED BY <1>1, <1>3, <1>4, <1>5, EntryShape

LEMMA SliceHas ==
  ASSUME NEW s \in Seq(Byte), NEW b \in Seq(Byte), NEW off, Has(s, off, b)
  PROVE  Slice(s, off, off + Len(b)) = b
<1> DEFINE p == Slice(s, off, off + Len(b))
<1>1. off \in Nat /\ Len(b) \in Nat /\ Len(s) \in Nat /\ off + Len(b) <= Len(s)
  BY DEF Has
<1>2. p \in Seq(Byte) /\ Len(p) = Len(b) /\ \A k \in 1..Len(b) : p[k] = s[off + k]
  BY <1>1, SMT DEF Slice
<1> HIDE DEF p
<1>3. ASSUME NEW k \in 1..Len(p) PROVE p[k] = b[k]
  BY <1>2 DEF Has
<1>4. p = b
  BY <1>2, <1>3, Same
<1> QED BY <1>4 DEF p

\* A payload with one entry: where its parts stand.
PayloadOf(p, e, opts) ==
    /\ p \in Seq(Byte) /\ Len(p) = 28 + Len(opts)
    /\ Uint32(p, 4) = 16 /\ EntryAt(p, 8, e) /\ Uint32(p, 24) = Len(opts)
    /\ Slice(p, 28, 28 + Len(opts)) = opts

LEMMA PayloadLaid ==
  ASSUME NEW flags \in Byte, NEW e, Proper(e), NEW opts \in Seq(Byte), Wide(Len(opts))
  PROVE  PayloadOf(Payload(flags, e, opts), e, opts)
<1> DEFINE n  == Len(opts)
           f  == <<flags, 0, 0, 0>>
           a  == PutUint32(EntrySize)
           x  == EncodeEntry(e)
           c  == PutUint32(n)
           h1 == f \o a
           h2 == h1 \o x
           h3 == h2 \o c
           p  == h3 \o opts
<1>1. Payload(flags, e, opts) = p
  BY DEF Payload
<1>2. f \in Seq(Byte) /\ Len(f) = 4
  BY DEF Byte
<1>3. EntrySize = 16 /\ Wide(EntrySize)
  BY SMT DEF EntrySize, Wide
<1>4. a \in Seq(Byte) /\ Len(a) = 4
  BY <1>3, PutUint32Bytes
<1>5. x \in Seq(Byte) /\ Len(x) = 16
  BY EntryEncoded
<1>6. c \in Seq(Byte) /\ Len(c) = 4
  <2> HIDE DEF n
  <2>1. Wide(n)
    BY DEF n
  <2> QED BY <2>1, PutUint32Bytes
<1>7. IsJoin(h1, f, a) /\ IsJoin(h2, h1, x) /\ IsJoin(h3, h2, c) /\ IsJoin(p, h3, opts)
  BY DEF IsJoin
<1>8. n \in Nat
  OBVIOUS
<1> HIDE DEF f, a, x, c, h1, h2, h3, p
<1>9. Piece(h1, f, a, 4, 8)
  BY <1>2, <1>4, <1>7 DEF Piece
<1>10. Piece(h2, h1, x, 8, 24)
  <2>1. h1 \in Seq(Byte) /\ Len(h1) = 8
    BY <1>9, Pieces
  <2> QED BY <1>5, <1>7, <2>1 DEF Piece
<1>11. Piece(h3, h2, c, 24, 28)
  <2>1. h2 \in Seq(Byte) /\ Len(h2) = 24
    BY <1>10, Pieces
  <2> QED BY <1>6, <1>7, <2>1 DEF Piece
<1>12. Piece(p, h3, opts, 28, 28 + n)
  <2>1. h3 \in Seq(Byte) /\ Len(h3) = 28
    BY <1>11, Pieces
  <2> QED BY <1>7, <1>8, <2>1 DEF Piece
<1>13. p \in Seq(Byte) /\ Len(p) = 28 + n /\ Has(p, 28, opts) /\ Has(p, 0, h3)
  BY <1>12, Pieces
<1>14. Has(h3, 24, c) /\ Has(h3, 0, h2) /\ h3 \in Seq(Byte)
  BY <1>11, Pieces
<1>15. Has(h2, 8, x) /\ Has(h2, 0, h1) /\ h2 \in Seq(Byte)
  BY <1>10, Pieces
<1>16. Has(h1, 4, a) /\ h1 \in Seq(Byte)
  BY <1>9, Pieces
<1>17. Has(p, 0, h2) /\ Has(p, 24, c)
  <2>1. Has(p, 0 + 0, h2)
    BY <1>13, <1>14, <1>15, HasInner
  <2>2. Has(p, 0 + 24, c)
    BY <1>6, <1>13, <1>14, HasInner
  <2> QED BY <2>1, <2>2
<1>18. Has(p, 0, h1) /\ Has(p, 8, x)
  <2>1. Has(p, 0 + 0, h1)
    BY <1>13, <1>15, <1>16, <1>17, HasInner
  <2>2. Has(p, 0 + 8, x)
    BY <1>5, <1>13, <1>15, <1>17, HasInner
  <2> QED BY <2>1, <2>2
<1>19. Has(p, 4, a)
  <2>1. Has(p, 0 + 4, a)
    BY <1>4, <1>13, <1>16, <1>18, HasInner
  <2> QED BY <2>1
<1>20. Uint32(p, 4) = 16
  BY <1>3, <1>19, HasUint32 DEF a
<1>21. Uint32(p, 24) = n
  <2> HIDE DEF n
  <2>1. Wide(n)
    BY DEF n
  <2>2. Has(p, 24, PutUint32(n))
    BY <1>17 DEF c
  <2> QED BY <2>1, <2>2, HasUint32
<1>22. EntryAt(p, 8, e)
  <2>1. Has(p, 8, EncodeEntry(e))
    BY <1>18 DEF x
  <2> QED BY <1>13, <2>1, EntryStands
<1>23. Slice(p, 28, 28 + Len(opts)) = opts
  BY <1>13, SliceHas
<1> QED BY <1>1, <1>13, <1>20, <1>21, <1>22, <1>23 DEF PayloadOf

\* A loop that is done after its first round.
LEMMA Settles ==
  ASSUME NEW n \in 1..4, NEW g, NEW start, NEW done, g[0] = start, g[0] = start => g[1] = done,
         \A i \in 2..n : g[i - 1] = done => g[i] = done
  PROVE  g[n] = done
<1>1. g[1] = done
  OBVIOUS
<1>2. 2 <= n => g[2] = done
  BY <1>1
<1>3. 3 <= n => g[3] = done
  BY <1>2
<1>4. 4 <= n => g[4] = done
  BY <1>3
<1> QED BY <1>1, <1>2, <1>3, <1>4

\* The address as it is sent: without one it is 0.0.0.0.
Address(ep) == IF ep.ip = None THEN Zeros(4) ELSE ep.ip

\* An IPv4 endpoint option: where its parts stand.
OptionOf(o, type, ep) ==
    /\ o \in Seq(Byte) /\ Len(o) = 12
    /\ Uint16(o, 0) = 9 /\ At(o, 2) = type
    /\ Slice(o, 4, 8) = Address(ep) /\ At(o, 9) = ep.proto /\ Uint16(o, 10) = ep.port

LEMMA AddressType == ASSUME NEW ep \in Endpoint PROVE Address(ep) \in Seq(Byte) /\ Len(Address(ep)) = 4
<1>1. Zeros(4) \in Seq(Byte) /\ Len(Zeros(4)) = 4
  BY DEF Zeros, Byte
<1>2. ep.ip \in {s \in Seq(Byte) : Len(s) = 4} \cup {None}
  BY DEF Endpoint
<1> QED BY <1>1, <1>2 DEF Address

LEMMA OptionLaid ==
  ASSUME NEW type \in Byte, NEW ep \in Endpoint
  PROVE  OptionOf(EncodeIPv4Option(type, ep), type, ep)
<1> DEFINE f  == PutUint16(ipv4OptionLength)
           a  == <<type, 0>>
           b  == Address(ep)
           c  == <<0, ep.proto>>
           d  == PutUint16(ep.port)
           h1 == f \o a
           h2 == h1 \o b
           h3 == h2 \o c
           o  == h3 \o d
<1>1. EncodeIPv4Option(type, ep) = o
  BY DEF EncodeIPv4Option, Address
<1>2. Short(ipv4OptionLength) /\ ipv4OptionLength = 9
  BY SMT DEF Short, ipv4OptionLength
<1>3. f \in Seq(Byte) /\ Len(f) = 2
  BY <1>2, Put16
<1>4. a \in Seq(Byte) /\ Len(a) = 2 /\ a[1] = type
  BY DEF Byte
<1>5. b \in Seq(Byte) /\ Len(b) = 4
  BY AddressType
<1>6. ep.proto \in Byte /\ ep.port \in 0..Uint16Max
  BY DEF Endpoint
<1>7. c \in Seq(Byte) /\ Len(c) = 2 /\ c[2] = ep.proto
  BY <1>6 DEF Byte
<1>8. Short(ep.port)
  BY <1>6, ShortIDs
<1>9. d \in Seq(Byte) /\ Len(d) = 2
  BY <1>8, Put16
<1>10. IsJoin(h1, f, a) /\ IsJoin(h2, h1, b) /\ IsJoin(h3, h2, c) /\ IsJoin(o, h3, d)
  BY DEF IsJoin
<1> HIDE DEF f, a, b, c, d, h1, h2, h3, o
<1>11. Piece(h1, f, a, 2, 4)
  BY <1>3, <1>4, <1>10 DEF Piece
<1>12. Piece(h2, h1, b, 4, 8)
  <2>1. h1 \in Seq(Byte) /\ Len(h1) = 4
    BY <1>11, Pieces
  <2> QED BY <1>5, <1>10, <2>1 DEF Piece
<1>13. Piece(h3, h2, c, 8, 10)
  <2>1. h2 \in Seq(Byte) /\ Len(h2) = 8
    BY <1>12, Pieces
  <2> QED BY <1>7, <1>10, <2>1 DEF Piece
<1>14. Piece(o, h3, d, 10, 12)
  <2>1. h3 \in Seq(Byte) /\ Len(h3) = 10
    BY <1>13, Pieces
  <2> QED BY <1>9, <1>10, <2>1 DEF Piece
<1>15. o \in Seq(Byte) /\ Len(o) = 12 /\ Has(o, 10, d) /\ Has(o, 0, h3)
  BY <1>14, Pieces
<1>16. Has(h3, 8, c) /\ Has(h3, 0, h2) /\ h3 \in Seq(Byte)
  BY <1>13, Pieces
<1>17. Has(h2, 4, b) /\ Has(h2, 0, h1) /\ h2 \in Seq(Byte)
  BY <1>12, Pieces
<1>18. Has(h1, 2, a) /\ Has(h1, 0, f) /\ h1 \in Seq(Byte)
  BY <1>11, Pieces
<1>19. Has(o, 0, h2) /\ Has(o, 8, c)
  <2>1. Has(o, 0 + 0, h2)
    BY <1>15, <1>16, <1>17, HasInner
  <2>2. Has(o, 0 + 8, c)
    BY <1>7, <1>15, <1>16, HasInner
  <2> QED BY <2>1, <2>2
<1>20. Has(o, 0, h1) /\ Has(o, 4, b)
  <2>1. Has(o, 0 + 0, h1)
    BY <1>15, <1>17, <1>18, <1>19, HasInner
  <2>2. Has(o, 0 + 4, b)
    BY <1>5, <1>15, <1>17, <1>19, HasInner
  <2> QED BY <2>1, <2>2
<1>21. Has(o, 0, f) /\ Has(o, 2, a)
  <2>1. Has(o, 0 + 0, f)
    BY <1>3, <1>15, <1>18, <1>20, HasInner
  <2>2. Has(o, 0 + 2, a)
    BY <1>4, <1>15, <1>18, <1>20, HasInner
  <2> QED BY <2>1, <2>2
<1>22. Uint16(o, 0) = 9
  <2>1. Has(o, 0, PutUint16(ipv4OptionLength))
    BY <1>21 DEF f
  <2>2. Uint16(o, 0) = ipv4OptionLength
    BY <1>2, <2>1, HasUint16
  <2> QED BY <1>2, <2>2
<1>23. At(o, 2) = type
  <2>1. 0 \in Nat /\ 0 < Len(a)
    BY <1>4
  <2>2. Stands(o, 2, a, 0)
    BY <1>4, <1>21, <2>1, HasAt
  <2> QED BY <1>4, <2>2 DEF Stands
<1>24. Slice(o, 4, 8) = b
  <2>1. Slice(o, 4, 4 + Len(b)) = b
    BY <1>5, <1>15, <1>20, SliceHas
  <2> QED BY <1>5, <2>1
<1>25. At(o, 9) = ep.proto
  <2>1. 1 \in Nat /\ 1 < Len(c)
    BY <1>7
  <2>2. Stands(o, 8, c, 1)
    BY <1>7, <1>19, <2>1, HasAt
  <2> QED BY <1>7, <2>2 DEF Stands
<1>26. Uint16(o, 10) = ep.port
  <2>1. Has(o, 10, PutUint16(ep.port))
    BY <1>15 DEF d
  <2> QED BY <1>8, <2>1, HasUint16
<1> QED BY <1>1, <1>15, <1>22, <1>23, <1>24, <1>25, <1>26 DEF OptionOf, b

\* The endpoint that DecodeIPv4Option (sd.go:219) gives is the one that was written.
Given(ep) == [ip |-> Address(ep), proto |-> ep.proto, port |-> ep.port]

LEMMA OptionDecoded ==
  ASSUME NEW o, NEW type, NEW ep \in Endpoint, OptionOf(o, type, ep)
  PROVE  DecodeIPv4Option(o) = Given(ep) /\ Given(ep) # None
<1>1. DecodeIPv4Option(o) = Given(ep)
  BY SMT DEF DecodeIPv4Option, Given, OptionOf
<1>2. Given(ep) \in Endpoint
  BY AddressType DEF Given, Endpoint
<1> QED BY <1>1, <1>2, NoneAssumption

\* DecodeOptions (sd.go:249) of no bytes, and of one endpoint option.
LEMMA NoOptions == DecodeOptions(<<>>) = <<>>
<1> DEFINE b == <<>>
           start == [offset |-> 0, opts |-> <<>>]
           Size(was) == 3 + Uint16(b, was.offset)
           Round(was) ==
                IF was.opts = None \/ was.offset >= Len(b) THEN was
                ELSE IF was.offset + 3 > Len(b) THEN [was EXCEPT !.opts = None]
                ELSE IF Size(was) < 4 \/ was.offset + Size(was) > Len(b) THEN [was EXCEPT !.opts = None]
                ELSE [offset |-> was.offset + Size(was),
                      opts   |-> Append(was.opts, [type |-> At(b, was.offset + 2),
                                                   raw  |-> Slice(b, was.offset, was.offset + Size(was))])]
           n == Len(b) \div 4 + 1
           Eq(h) == h = [i \in 0..n |-> IF i = 0 THEN start ELSE Round(h[i - 1])]
           g == CHOOSE h : Eq(h)
<1>1. DecodeOptions(b) = g[n].opts
  BY DEF DecodeOptions
<1>2. n = 1
  OBVIOUS
<1>3. Round(start) = start
  OBVIOUS
<1> HIDE DEF n, Round
<1>4. Eq([i \in 0..1 |-> start])
  BY <1>2, <1>3
<1>5. Eq(g)
  <2> HIDE DEF Eq
  <2> QED BY <1>4
<1> HIDE DEF g
<1>6. g[0] = start /\ g[1] = Round(g[0])
  BY <1>2, <1>5
<1> QED BY <1>1, <1>2, <1>3, <1>6

LEMMA OneOption ==
  ASSUME NEW b, NEW type \in Byte, NEW ep \in Endpoint, OptionOf(b, type, ep)
  PROVE  DecodeOptions(b) = <<[type |-> type, raw |-> b]>>
<1> DEFINE start == [offset |-> 0, opts |-> <<>>]
           Size(was) == 3 + Uint16(b, was.offset)
           Round(was) ==
                IF was.opts = None \/ was.offset >= Len(b) THEN was
                ELSE IF was.offset + 3 > Len(b) THEN [was EXCEPT !.opts = None]
                ELSE IF Size(was) < 4 \/ was.offset + Size(was) > Len(b) THEN [was EXCEPT !.opts = None]
                ELSE [offset |-> was.offset + Size(was),
                      opts   |-> Append(was.opts, [type |-> At(b, was.offset + 2),
                                                   raw  |-> Slice(b, was.offset, was.offset + Size(was))])]
           n == Len(b) \div 4 + 1
           Eq(h) == h = [i \in 0..n |-> IF i = 0 THEN start ELSE Round(h[i - 1])]
           g == CHOOSE h : Eq(h)
           opt  == [type |-> type, raw |-> b]
           done == [offset |-> 12, opts |-> <<opt>>]
           f == [i \in 0..n |-> IF i = 0 THEN start ELSE done]
<1>1. DecodeOptions(b) = g[n].opts
  BY DEF DecodeOptions
<1>2. b \in Seq(Byte) /\ Len(b) = 12 /\ Uint16(b, 0) = 9 /\ At(b, 2) = type
  BY DEF OptionOf
<1>3. n = 4
  BY <1>2
<1>4. <<>> # None /\ <<opt>> # None
  <2>1. <<>> \in Seq(Option)
    OBVIOUS
  <2>2. opt \in Option
    BY <1>2 DEF Option
  <2>3. <<opt>> \in Seq(Option)
    BY <2>2
  <2> QED BY <2>1, <2>3, NoneAssumption
<1>5. Slice(b, 0, 12) = b
  <2>1. Has(b, 0, b)
    BY <1>2 DEF Has
  <2>2. Slice(b, 0, 0 + Len(b)) = b
    BY <1>2, <2>1, SliceHas
  <2> QED BY <1>2, <2>2
<1>6. Round(start) = done
  <2>1. start.offset = 0 /\ start.opts = <<>> /\ Size(start) = 12
    BY <1>2
  <2>2. Append(<<>>, opt) = <<opt>>
    OBVIOUS
  <2>3. start.offset + Size(start) = 12 /\ start.offset + 2 = 2
    BY <2>1
  <2> HIDE DEF start, opt, Size
  <2>4. Round(start) = [offset |-> 12, opts |-> Append(<<>>, [type |-> type, raw |-> b])]
    BY <1>2, <1>4, <1>5, <2>1, <2>3
  <2> QED BY <2>2, <2>4 DEF opt
<1>7. Round(done) = done
  BY <1>2, <1>4
<1>8. \A i \in 0..n : f[i] = IF i = 0 THEN start ELSE done
  OBVIOUS
<1> HIDE DEF Round, start, done, n
<1>9. Eq(f)
  <2>1. ASSUME NEW i \in 0..n PROVE f[i] = IF i = 0 THEN start ELSE Round(f[i - 1])
    <3>1. CASE i = 0
      BY <1>8, <3>1
    <3>2. CASE i = 1
      <4>1. f[0] = start /\ f[1] = done /\ i - 1 = 0
        BY <1>3, <1>8, <3>2
      <4> QED BY <1>6, <3>2, <4>1
    <3>3. CASE i > 1
      <4>1. f[i - 1] = done /\ f[i] = done
        BY <1>3, <1>8, <3>3
      <4> QED BY <1>7, <3>3, <4>1
    <3> QED BY <1>3, <3>1, <3>2, <3>3
  <2> QED BY <2>1
<1>10. Eq(g)
  <2> HIDE DEF Eq, f
  <2> QED BY <1>9
<1> HIDE DEF g, f
<1>11. g[0] = start /\ \A i \in 1..n : g[i] = Round(g[i - 1])
  BY <1>3, <1>10
<1>12. g[0] = start => g[1] = done
  <2>1. g[1] = Round(g[0])
    BY <1>3, <1>11
  <2> QED BY <1>6, <2>1
<1>13. ASSUME NEW i \in 2..n, g[i - 1] = done PROVE g[i] = done
  <2>1. g[i] = Round(g[i - 1])
    BY <1>3, <1>11
  <2> QED BY <1>7, <1>13, <2>1
<1>14. n \in 1..4
  BY <1>3
<1>15. g[n] = done
  BY <1>11, <1>12, <1>13, <1>14, Settles
<1> QED BY <1>1, <1>15 DEF done, opt

\* The loop over the entries finds the one there is.
LEMMA OneEntry ==
  ASSUME NEW p \in Seq(Byte), NEW e, Proper(e), EntryAt(p, 8, e), Len(p) \div EntrySize \in 1..4
  PROVE  DecodeEntries(p, 8, 24) = <<Cropped(e)>>
<1> DEFINE start == [offset |-> 8, entries |-> <<>>]
           Round(was) ==
                IF was.offset + EntrySize > 24 THEN was
                ELSE IF DecodeEntry(p, was.offset) = None THEN was
                ELSE [offset |-> was.offset + EntrySize,
                      entries |-> Append(was.entries, DecodeEntry(p, was.offset))]
           n == Len(p) \div EntrySize
           Eq(h) == h = [i \in 0..n |-> IF i = 0 THEN start ELSE Round(h[i - 1])]
           g == CHOOSE h : Eq(h)
           c    == Cropped(e)
           done == [offset |-> 24, entries |-> <<c>>]
           f == [i \in 0..n |-> IF i = 0 THEN start ELSE done]
<1>1. DecodeEntries(p, 8, 24) = g[n].entries
  BY DEF DecodeEntries
<1>2. DecodeEntry(p, 8) = c
  BY EntryDecoded
<1>3. n \in 1..4
  OBVIOUS
<1>4. c # None
  BY CroppedCore, NoneAssumption
<1> HIDE DEF n, c
<1>5. Round(start) = done
  <2>1. Append(<<>>, c) = <<c>>
    OBVIOUS
  <2>2. start.offset = 8 /\ start.entries = <<>> /\ EntrySize = 16
    BY DEF EntrySize
  <2> HIDE DEF start
  <2>3. 8 + EntrySize = 24
    BY <2>2
  <2> QED BY <1>2, <1>4, <2>1, <2>2, <2>3
<1>6. Round(done) = done
  BY DEF EntrySize
<1>7. \A i \in 0..n : f[i] = IF i = 0 THEN start ELSE done
  OBVIOUS
<1> HIDE DEF Round, start, done
<1>8. Eq(f)
  <2>1. ASSUME NEW i \in 0..n PROVE f[i] = IF i = 0 THEN start ELSE Round(f[i - 1])
    <3>1. CASE i = 0
      BY <1>7, <3>1
    <3>2. CASE i = 1
      <4>1. f[0] = start /\ f[1] = done /\ i - 1 = 0
        BY <1>3, <1>7, <3>2
      <4> QED BY <1>5, <3>2, <4>1
    <3>3. CASE i > 1
      <4>1. f[i - 1] = done /\ f[i] = done
        BY <1>3, <1>7, <3>3
      <4> QED BY <1>6, <3>3, <4>1
    <3> QED BY <1>3, <3>1, <3>2, <3>3
  <2> QED BY <2>1
<1>9. Eq(g)
  <2> HIDE DEF Eq, f
  <2> QED BY <1>8
<1> HIDE DEF g, f
<1>10. g[0] = start /\ \A i \in 1..n : g[i] = Round(g[i - 1])
  BY <1>3, <1>9
<1>11. g[0] = start => g[1] = done
  <2>1. g[1] = Round(g[0])
    BY <1>3, <1>10
  <2> QED BY <1>5, <2>1
<1>12. ASSUME NEW i \in 2..n, g[i - 1] = done PROVE g[i] = done
  <2>1. g[i] = Round(g[i - 1])
    BY <1>3, <1>10
  <2> QED BY <1>6, <1>12, <2>1
<1>13. g[n] = done
  BY <1>3, <1>10, <1>11, <1>12, Settles
<1> QED BY <1>1, <1>13 DEF done, c

\* decodeSDPayload (sdudp.go:106) of a payload with one entry.
LEMMA PayloadDecoded ==
  ASSUME NEW p, NEW e, Proper(e), NEW opts \in Seq(Byte), PayloadOf(p, e, opts), Len(opts) \in 0..12,
         DecodeOptions(opts) \in Seq(Option)
  PROVE  decodeSDPayload(p) = [entries |-> <<Cropped(e)>>, options |-> DecodeOptions(opts)]
<1> DEFINE n == Len(opts)
           o == DecodeOptions(opts)
<1>1. /\ p \in Seq(Byte) /\ Len(p) = 28 + n /\ Uint32(p, 4) = 16 /\ EntryAt(p, 8, e)
      /\ Uint32(p, 24) = n /\ Slice(p, 28, 28 + n) = opts
  BY DEF PayloadOf
<1>2. n \in 0..12 /\ o # None
  BY NoneAssumption
<1>3. DecodeOptions(Slice(p, 28, 28 + n)) = o
  BY <1>1
<1> HIDE DEF n, o
<1>4. Len(p) \div EntrySize \in 1..4
  BY <1>1, <1>2 DEF EntrySize
<1>5. DecodeEntries(p, 8, 24) = <<Cropped(e)>>
  BY <1>1, <1>4, OneEntry
<1>6. /\ 8 + Uint32(p, 4) = 24 /\ 24 + 4 = 28 /\ 28 + Uint32(p, 24) = 28 + n
      /\ ~(Len(p) < 8) /\ ~(28 > Len(p)) /\ ~(28 + n > Len(p))
  BY <1>1, <1>2
<1> QED BY <1>2, <1>3, <1>5, <1>6 DEF decodeSDPayload, o

-----------------------------------------------------------------------------
(* Meaning *)

\* ResolveIPv4Endpoint (sd.go:280) without options.
LEMMA ResolveNone ==
  ASSUME NEW c, c.index1 \in Nat, c.index2 \in Nat, c.num1 \in Nat, c.num2 \in Nat
  PROVE  ResolveIPv4Endpoint(c, <<>>) = None
<1> DEFINE refs  == Run(c.index1, c.num1, <<>>) \o Run(c.index2, c.num2, <<>>)
           found == {i \in DOMAIN refs : /\ refs[i].type = OptionTypeIPv4Endpoint
                                         /\ DecodeIPv4Option(refs[i].raw) # None}
<1>1. ASSUME NEW i \in Nat, NEW n \in Nat PROVE Run(i, n, <<>>) = <<>>
  <2>1. CASE i + n > 0
    BY <2>1 DEF Run
  <2>2. CASE ~(i + n > 0)
    <3>1. i = 0 /\ n = 0
      BY <2>2
    <3> QED BY <3>1 DEF Run
  <2> QED BY <2>1, <2>2
<1>2. DOMAIN refs = {}
  BY <1>1
<1> HIDE DEF refs
<1>3. found = {}
  BY <1>2
<1> HIDE DEF found
<1> QED BY <1>3 DEF ResolveIPv4Endpoint, found, refs

\* The first run of references is the one option there is.
LEMMA ResolveOne ==
  ASSUME NEW c, c.index1 = 0, c.num1 = 1, c.index2 \in Nat, c.num2 \in Nat,
         NEW opt, opt.type = OptionTypeIPv4Endpoint, NEW ep, DecodeIPv4Option(opt.raw) = ep, ep # None
  PROVE  ResolveIPv4Endpoint(c, <<opt>>) = ep
<1> DEFINE opts  == <<opt>>
           r1    == Run(c.index1, c.num1, opts)
           r2    == Run(c.index2, c.num2, opts)
           refs  == r1 \o r2
           found == {i \in DOMAIN refs : /\ refs[i].type = OptionTypeIPv4Endpoint
                                         /\ DecodeIPv4Option(refs[i].raw) # None}
<1>1. opts \in Seq({opt}) /\ Len(opts) = 1 /\ opts[1] = opt
  OBVIOUS
<1> HIDE DEF opts
<1>2. r1 \in Seq({opt}) /\ Len(r1) = 1 /\ r1[1] = opt
  BY <1>1 DEF Run
<1>3. r2 \in Seq({opt})
  <2>1. ASSUME NEW i \in Nat, NEW n \in Nat PROVE Run(i, n, opts) \in Seq({opt})
    BY <1>1 DEF Run
  <2> QED BY <2>1
<1> HIDE DEF r1, r2
<1>4. refs \in Seq({opt}) /\ Len(refs) >= 1 /\ refs[1] = opt
  BY <1>2, <1>3
<1> HIDE DEF refs
<1>5. 1 \in found /\ \A i \in found : i \in Nat /\ 1 <= i
  BY <1>4
<1> HIDE DEF found
<1>6. Min(found) = 1 /\ found # {}
  BY <1>5 DEF Min
<1>7. ResolveIPv4Endpoint(c, <<opt>>) = DecodeIPv4Option(refs[Min(found)].raw)
  BY <1>6 DEF ResolveIPv4Endpoint, found, refs, r1, r2, opts
<1> QED BY <1>4, <1>6, <1>7

\* The entry when it is the kind the event socket listens to.
ForSocket(e) == IF e.type \in {Subscribe, SubscribeAck} THEN <<[entry |-> Core(e), at |-> None]>> ELSE <<>>

\* What is understood of a frame whose payload has this entry and these options.
LEMMA FrameHeard ==
  ASSUME NEW session \in 0..1, NEW iface \in 0..1, NEW p, NEW e, Proper(e),
         NEW opts \in Seq(Byte), PayloadOf(p, e, opts), Len(opts) \in 0..12, DecodeOptions(opts) \in Seq(Option)
  PROVE  LET f == Encode(SdMessage(session, iface, p)) IN
         /\ Heard(f) = <<[entry |-> Core(e), at |-> ResolveIPv4Endpoint(Cropped(e), DecodeOptions(opts))]>>
         /\ HeardBySocket(f) = ForSocket(e)
<1> DEFINE m == SdMessage(session, iface, p)
           c == Cropped(e)
           o == DecodeOptions(opts)
<1>1. /\ m.service = SDServiceID /\ m.method = SDMethodID /\ m.payload = p
      /\ m.client = 0 /\ m.session = session /\ m.iface = iface /\ m.type = 2 /\ m.code = 0
  BY DEF SdMessage
<1>2. p \in Seq(Byte) /\ Len(p) \in 28..40
  <2>1. p \in Seq(Byte) /\ Len(p) = 28 + Len(opts)
    BY DEF PayloadOf
  <2>2. \A n \in 0..12 : 28 + n \in 28..40
    OBVIOUS
  <2> QED BY <2>1, <2>2
<1>3. m \in Message
  <2>1. SDServiceID \in 0..Uint16Max /\ SDMethodID \in 0..Uint16Max
    <3>1. Uint16Max = 65535 /\ SDServiceID = 65535 /\ SDMethodID = 33024
      BY DEF SDServiceID, SDMethodID, Uint16Max
    <3> QED BY <3>1
  <2>2. 0 \in 0..Uint16Max /\ session \in 0..Uint16Max
    <3>1. Uint16Max \in Int /\ 1 <= Uint16Max
      BY DEF Uint16Max
    <3> QED BY <3>1
  <2>3. iface \in Byte /\ 2 \in Byte /\ 0 \in Byte
    BY DEF Byte
  <2> QED BY <1>2, <2>1, <2>2, <2>3 DEF SdMessage, Message
<1>4. Wide(minLength + Len(m.payload))
  <2>1. \A n \in 28..40 : Wide(minLength + n)
    BY SMT DEF Wide, minLength
  <2> QED BY <1>1, <1>2, <2>1
<1> HIDE DEF m
<1>5. Decode(Encode(m)) = Ok(m)
  <2>1. Framed(Encode(m), m)
    BY <1>3, <1>4, EncodeFramed
  <2> QED BY <1>3, <2>1, DecodeFramed
<1>6. IsSd(Decode(Encode(m))) /\ Decode(Encode(m)).msg.payload = p
  BY <1>1, <1>5 DEF IsSd, Ok
<1>7. decodeSDPayload(p) = [entries |-> <<c>>, options |-> o]
  BY PayloadDecoded
<1>8. decodeSDPayload(p) # None
  <2>1. c \in Entry
    BY CroppedCore
  <2>2. <<c>> \in Seq(Entry)
    BY <2>1
  <2> HIDE DEF c, o
  <2>3. [entries |-> <<c>>, options |-> o] \in [entries : Seq(Entry), options : Seq(Option)]
    BY <2>2 DEF o
  <2> QED BY <1>7, <2>3, NoneAssumption
<1>9. Core(c) = Core(e)
  BY CroppedCore
<1>10. DecodeEntry(p, 8) = c /\ c # None
  <2>1. EntryAt(p, 8, e)
    BY DEF PayloadOf
  <2>2. DecodeEntry(p, 8) = c
    BY <1>2, <2>1, EntryDecoded
  <2>3. c \in Entry
    BY CroppedCore
  <2> QED BY <2>2, <2>3, NoneAssumption
<1>11. c.type = e.type
  BY DEF Cropped, Refers
<1> HIDE DEF c, o
<1>12. Heard(Encode(m)) = <<[entry |-> Core(e), at |-> ResolveIPv4Endpoint(c, o)]>>
  <2> DEFINE sd == decodeSDPayload(p)
             H  == [i \in DOMAIN sd.entries |-> [entry |-> Core(sd.entries[i]),
                                                  at |-> ResolveIPv4Endpoint(sd.entries[i], sd.options)]]
  <2>1. Heard(Encode(m)) = H
    BY <1>6, <1>8 DEF Heard
  <2>2. sd.entries = <<c>> /\ sd.options = o
    BY <1>7
  <2> HIDE DEF sd
  <2>3. H = [i \in 1..1 |-> [entry |-> Core(<<c>>[i]), at |-> ResolveIPv4Endpoint(<<c>>[i], o)]]
    BY <2>2
  <2>4. [i \in 1..1 |-> [entry |-> Core(<<c>>[i]), at |-> ResolveIPv4Endpoint(<<c>>[i], o)]]
          = <<[entry |-> Core(c), at |-> ResolveIPv4Endpoint(c, o)]>>
    OBVIOUS
  <2> QED BY <1>9, <2>1, <2>3, <2>4
<1>13. HeardBySocket(Encode(m)) = ForSocket(e)
  <2>1. Uint32(p, 4) = 16 /\ ~(Uint32(p, 4) < EntrySize) /\ ~(Len(p) < 8)
    BY <1>2 DEF PayloadOf, EntrySize
  <2>2. decodeSubscribeEntry(p) = IF e.type \in {Subscribe, SubscribeAck} THEN c ELSE None
    BY <1>10, <1>11, <2>1 DEF decodeSubscribeEntry
  <2> QED BY <1>6, <1>9, <1>10, <2>2 DEF HeardBySocket, ForSocket
<1> QED BY <1>12, <1>13 DEF m, c, o

\* The receivers make of the datagram what its sender meant.
Understood(frame, meaning) ==
    /\ Heard(frame) = meaning
    /\ (HeardBySocket(frame) # <<>> /\ meaning # <<>>) => HeardBySocket(frame)[1].entry = meaning[1].entry
    /\ (meaning # <<>> /\ meaning[1].entry.type \in {Subscribe, SubscribeAck}) => HeardBySocket(frame) # <<>>

LEMMA HeardUnderstood ==
  ASSUME NEW frame, NEW e, NEW at, e \in Entry,
         Heard(frame) = <<[entry |-> Core(e), at |-> at]>>, HeardBySocket(frame) = ForSocket(e)
  PROVE  Understood(frame, <<[entry |-> Core(e), at |-> at]>>)
<1> DEFINE c == Core(e)
           meaning == <<[entry |-> c, at |-> at]>>
<1>1. c.type = e.type
  <2>1. e = Refers(e, e.index1, e.index2, e.num1, e.num2)
    BY EntryShape
  <2>2. c = Refers(e, 0, 0, 0, 0)
    BY <2>1, CoreOf
  <2> HIDE DEF c
  <2> QED BY <2>2 DEF Refers
<1> HIDE DEF c
<1>2. meaning # <<>> /\ meaning[1].entry = c
  OBVIOUS
<1> HIDE DEF meaning
<1>3. CASE e.type \in {Subscribe, SubscribeAck}
  <2>1. HeardBySocket(frame) = <<[entry |-> c, at |-> None]>>
    BY <1>3 DEF ForSocket, c
  <2>2. HeardBySocket(frame) # <<>> /\ HeardBySocket(frame)[1].entry = c
    BY <2>1
  <2> QED BY <1>2, <2>2 DEF Understood, meaning, c
<1>4. CASE e.type \notin {Subscribe, SubscribeAck}
  <2>1. HeardBySocket(frame) = <<>>
    BY <1>4 DEF ForSocket
  <2> QED BY <1>1, <1>2, <1>4, <2>1 DEF Understood, meaning, c
<1> QED BY <1>3, <1>4

\* The references of a cropped entry are numbers.
LEMMA CroppedRefers ==
  ASSUME NEW e, Proper(e)
  PROVE  LET c == Cropped(e) IN
         /\ c.index1 = e.index1 /\ c.num1 = Nibble(e.num1)
         /\ c.index1 \in Nat /\ c.index2 \in Nat /\ c.num1 \in Nat /\ c.num2 \in Nat
<1>1. Filled(e)
  BY EntryFields
<1>2. e.index1 \in Nat /\ e.index2 \in Nat /\ Nibble(e.num1) \in Nat /\ Nibble(e.num2) \in Nat
  BY <1>1 DEF Filled, Byte
<1> QED BY <1>2 DEF Cropped, Refers

\* A datagram without an option.
LEMMA PlainUnderstood ==
  ASSUME NEW session \in 0..1, NEW iface \in 0..1, NEW flags \in Byte, NEW e, Proper(e)
  PROVE  Understood(Encode(SdMessage(session, iface, Payload(flags, e, <<>>))), <<[entry |-> Core(e), at |-> None]>>)
<1> DEFINE p == Payload(flags, e, <<>>)
           f == Encode(SdMessage(session, iface, p))
           c == Cropped(e)
<1>1. <<>> \in Seq(Byte) /\ Len(<<>>) = 0 /\ <<>> \in Seq(Option)
  OBVIOUS
<1>2. Wide(0)
  BY SMT DEF Wide
<1>3. PayloadOf(p, e, <<>>)
  BY <1>1, <1>2, PayloadLaid
<1>4. DecodeOptions(<<>>) \in Seq(Option) /\ DecodeOptions(<<>>) = <<>>
  BY <1>1, NoOptions
<1>5. ResolveIPv4Endpoint(c, <<>>) = None
  <2>1. c.index1 \in Nat /\ c.index2 \in Nat /\ c.num1 \in Nat /\ c.num2 \in Nat
    BY CroppedRefers
  <2> HIDE DEF c
  <2> QED BY <2>1, ResolveNone
<1> HIDE DEF p
<1>6. /\ Heard(f) = <<[entry |-> Core(e), at |-> ResolveIPv4Endpoint(c, DecodeOptions(<<>>))]>>
      /\ HeardBySocket(f) = ForSocket(e)
  <2>1. Len(<<>>) \in 0..12
    OBVIOUS
  <2> QED BY <1>1, <1>3, <1>4, <2>1, FrameHeard
<1> HIDE DEF f, c
<1>7. e \in Entry
  BY DEF Proper
<1>8. Heard(f) = <<[entry |-> Core(e), at |-> None]>>
  BY <1>4, <1>5, <1>6
<1> QED BY <1>6, <1>7, <1>8, HeardUnderstood DEF f, p

\* The entry with the reference to its option.
LEMMA Referring ==
  ASSUME NEW e, Proper(e)
  PROVE  LET r == [e EXCEPT !.index1 = 0, !.num1 = 1] IN
         Proper(r) /\ Core(r) = Core(e) /\ r.index1 = 0 /\ r.num1 = 1
<1> DEFINE r == [e EXCEPT !.index1 = 0, !.num1 = 1]
           s == Refers(e, 0, e.index2, 1, e.num2)
<1>1. e \in Entry
  BY DEF Proper
<1>2. e = Refers(e, e.index1, e.index2, e.num1, e.num2)
  BY <1>1, EntryShape
<1>3. [Refers(e, e.index1, e.index2, e.num1, e.num2) EXCEPT !.index1 = 0] = Refers(e, 0, e.index2, e.num1, e.num2)
  BY DEF Refers
<1>4. [Refers(e, 0, e.index2, e.num1, e.num2) EXCEPT !.num1 = 1] = s
  BY DEF Refers
<1>5. r = s
  BY <1>2, <1>3, <1>4
<1>6. s \in Entry
  <2>1. 0 \in Byte /\ 1 \in Byte
    BY DEF Byte
  <2> QED BY <1>1, <2>1 DEF Entry, Refers
<1>7. s.type = e.type /\ s.minor = e.minor /\ s.group = e.group /\ s.index1 = 0 /\ s.num1 = 1
  BY DEF Refers
<1>8. Core(s) = Refers(e, 0, 0, 0, 0)
  BY CoreOf
<1>9. Core(e) = Refers(e, 0, 0, 0, 0)
  BY <1>2, CoreOf
<1> HIDE DEF s, r
<1>10. Proper(s)
  BY <1>6, <1>7 DEF Proper
<1> QED BY <1>5, <1>7, <1>8, <1>9, <1>10 DEF r

\* A datagram with the option.
LEMMA OptionUnderstood ==
  ASSUME NEW flags \in Byte, NEW e, Proper(e), NEW ep \in Endpoint
  PROVE  Understood(encodeSDFrame(flags, e, ep, OptionTypeIPv4Endpoint), <<[entry |-> Core(e), at |-> Given(ep)]>>)
<1> DEFINE r    == [e EXCEPT !.index1 = 0, !.num1 = 1]
           type == OptionTypeIPv4Endpoint
           raw  == EncodeIPv4Option(type, ep)
           opt  == [type |-> type, raw |-> raw]
           p == Payload(flags, r, raw)
           f == Encode(SdMessage(0, 0, p))
           c == Cropped(r)
<1>1. encodeSDFrame(flags, e, ep, type) = f
  BY NoneAssumption DEF encodeSDFrame
<1>2. Proper(r) /\ Core(r) = Core(e) /\ r.index1 = 0 /\ r.num1 = 1
  BY Referring
<1> HIDE DEF r
<1>3. type \in Byte
  BY DEF OptionTypeIPv4Endpoint, Byte
<1> HIDE DEF type
<1>4. OptionOf(raw, type, ep)
  BY <1>3, OptionLaid
<1> HIDE DEF raw
<1>5. raw \in Seq(Byte) /\ Len(raw) = 12
  BY <1>4 DEF OptionOf
<1>6. DecodeOptions(raw) = <<opt>>
  BY <1>3, <1>4, OneOption
<1>7. <<opt>> \in Seq(Option)
  <2>1. opt \in Option
    BY <1>3, <1>5 DEF Option
  <2> QED BY <2>1
<1>8. DecodeIPv4Option(raw) = Given(ep) /\ Given(ep) # None
  BY <1>4, OptionDecoded
<1>9. PayloadOf(p, r, raw)
  <2>1. Wide(Len(raw))
    BY <1>5, SMT DEF Wide
  <2> QED BY <1>2, <1>5, <2>1, PayloadLaid
<1> HIDE DEF p
<1>10. ResolveIPv4Endpoint(c, <<opt>>) = Given(ep)
  <2>1. c.index1 = 0 /\ c.num1 = 1 /\ c.index2 \in Nat /\ c.num2 \in Nat
    <3>1. c.index1 = r.index1 /\ c.num1 = Nibble(r.num1) /\ c.index2 \in Nat /\ c.num2 \in Nat
      BY <1>2, CroppedRefers
    <3>2. Nibble(1) = 1
      BY DEF Nibble
    <3> QED BY <1>2, <3>1, <3>2
  <2>2. opt.type = OptionTypeIPv4Endpoint /\ DecodeIPv4Option(opt.raw) = Given(ep)
    BY <1>8 DEF type
  <2> HIDE DEF c, opt
  <2> QED BY <1>8, <2>1, <2>2, ResolveOne
<1>11. /\ Heard(f) = <<[entry |-> Core(r), at |-> ResolveIPv4Endpoint(c, DecodeOptions(raw))]>>
       /\ HeardBySocket(f) = ForSocket(r)
  <2>1. Len(raw) \in 0..12
    BY <1>5
  <2>2. DecodeOptions(raw) \in Seq(Option) /\ 0 \in 0..1
    BY <1>6, <1>7
  <2> HIDE DEF opt
  <2> QED BY <1>2, <1>5, <1>9, <2>1, <2>2, FrameHeard
<1> HIDE DEF f, c, opt
<1>12. r \in Entry
  BY <1>2 DEF Proper
<1>13. Heard(f) = <<[entry |-> Core(r), at |-> Given(ep)]>>
  BY <1>6, <1>10, <1>11
<1>14. Understood(f, <<[entry |-> Core(r), at |-> Given(ep)]>>)
  BY <1>11, <1>12, <1>13, HeardUnderstood
<1> QED BY <1>1, <1>2, <1>14 DEF type

-----------------------------------------------------------------------------
(* Senders *)

\* Another daemon has sent the datagram.
FromForeign(frame) == \E f \in Foreign : frame = Encode(SdMessage(1, 1, f.payload))

\* An endpoint with an IP is given as it is.
LEMMA GivenIs == ASSUME NEW ep \in Endpoint, ep.ip # None PROVE Given(ep) = ep
  BY DEF Given, Address, Endpoint

\* An entry with another TTL.
LEMMA OtherTtl ==
  ASSUME NEW e, Proper(e), NEW t \in 0..Uint24Max
  PROVE  Proper([e EXCEPT !.ttl = t])
<1> DEFINE r == [e EXCEPT !.ttl = t]
<1>1. e \in Entry
  BY DEF Proper
<1>2. r \in Entry
  BY <1>1 DEF Entry
<1>3. r.type = e.type /\ r.minor = e.minor /\ r.group = e.group
  BY <1>1 DEF Entry
<1> HIDE DEF r
<1>4. Proper(r)
  BY <1>2, <1>3 DEF Proper
<1> QED BY <1>4 DEF r

\* An entry of the event group kind, as the code builds it.
GroupEntry(type, service, instance, major, ttl, group) ==
    [type |-> type, index1 |-> 0, index2 |-> 0, num1 |-> 0, num2 |-> 0, service |-> service,
     instance |-> instance, major |-> major, ttl |-> ttl, minor |-> 0, group |-> group]

\* The code fills in the fields one by one.
LEMMA Built ==
  ASSUME NEW type, NEW service, NEW instance, NEW major, NEW ttl, NEW group
  PROVE  [NoEntry EXCEPT !.type = type, !.service = service, !.instance = instance, !.major = major, !.ttl = ttl, !.group = group]
            = GroupEntry(type, service, instance, major, ttl, group)
<1> DEFINE k1 == [NoEntry EXCEPT !.type = type]
           k2 == [k1 EXCEPT !.service = service]
           k3 == [k2 EXCEPT !.instance = instance]
           k4 == [k3 EXCEPT !.major = major]
           k5 == [k4 EXCEPT !.ttl = ttl]
           k6 == [k5 EXCEPT !.group = group]
<1>1. k1 = GroupEntry(type, 0, 0, 0, 0, 0)
  BY DEF NoEntry, GroupEntry
<1> HIDE DEF k1
<1>2. k2 = GroupEntry(type, service, 0, 0, 0, 0)
  BY <1>1 DEF GroupEntry
<1> HIDE DEF k2
<1>3. k3 = GroupEntry(type, service, instance, 0, 0, 0)
  BY <1>2 DEF GroupEntry
<1> HIDE DEF k3
<1>4. k4 = GroupEntry(type, service, instance, major, 0, 0)
  BY <1>3 DEF GroupEntry
<1> HIDE DEF k4
<1>5. k5 = GroupEntry(type, service, instance, major, ttl, 0)
  BY <1>4 DEF GroupEntry
<1> HIDE DEF k5
<1>6. k6 = GroupEntry(type, service, instance, major, ttl, group)
  BY <1>5 DEF GroupEntry
<1> HIDE DEF k6
<1> QED BY <1>6, Zenon DEF k1, k2, k3, k4, k5, k6

LEMMA GroupEntryProper ==
  ASSUME NEW type \in {Subscribe, SubscribeAck}, NEW service \in 0..Uint16Max, NEW instance \in 0..Uint16Max,
         NEW major \in Byte, NEW ttl \in 0..Uint24Max, NEW group \in 0..Uint16Max
  PROVE  LET e == GroupEntry(type, service, instance, major, ttl, group) IN Proper(e) /\ Core(e) = e
<1> DEFINE e == GroupEntry(type, service, instance, major, ttl, group)
<1>1. type \in Types /\ type \notin {Find, Offer} /\ 0 \in Byte
  BY DEF Types, Find, Offer, Subscribe, SubscribeAck, Byte
<1>2. e \in Entry /\ e.type = type /\ e.minor = 0
  BY <1>1 DEF GroupEntry, Entry
<1>3. e = Refers(e, 0, 0, 0, 0)
  BY DEF GroupEntry, Refers
<1> HIDE DEF e
<1>4. Core(Refers(e, 0, 0, 0, 0)) = Refers(e, 0, 0, 0, 0)
  BY CoreOf
<1>5. Proper(e) /\ Core(e) = e
  BY <1>1, <1>2, <1>3, <1>4 DEF Proper
<1> QED BY <1>5 DEF e

LEMMA Ttls == 0 \in 0..Uint24Max /\ DefaultTTL \in 0..Uint24Max
<1>1. Uint24Max \in Int /\ 3 <= Uint24Max
  BY DEF Uint24Max
<1> QED BY <1>1 DEF DefaultTTL

\* What an own datagram leaves behind.
OwnSent == wire' # <<>> => Understood(wire', sent')

LEMMA AnnounceStep == ASSUME NEW c \in Configs, NEW stopOffer \in BOOLEAN, Announce(c, stopOffer) PROVE OwnSent
<1> DEFINE e  == IF stopOffer THEN [c.entry EXCEPT !.ttl = 0] ELSE c.entry
           ep == IF stopOffer \/ c.endpoint.ip = None THEN None ELSE c.endpoint
<1>1. wire' = encodeSDFrame(FlagReboot, e, ep, c.optType) /\ sent' = <<[entry |-> Core(e), at |-> ep]>>
  BY DEF Announce, Send
<1>2. /\ Proper(c.entry) /\ c.endpoint \in Endpoint /\ c.optType = OptionTypeIPv4Endpoint
      /\ FlagReboot \in Byte
  BY SdAssumption DEF FlagReboot, Byte
<1>3. Proper(e)
  <2>1. Proper([c.entry EXCEPT !.ttl = 0])
    BY <1>2, Ttls, OtherTtl
  <2> QED BY <1>2, <2>1
<1>4. ep = None \/ (ep = c.endpoint /\ ep.ip # None)
  OBVIOUS
<1> HIDE DEF e, ep
<1>5. CASE ep = None
  <2>1. wire' = Encode(SdMessage(0, 0, Payload(FlagReboot, e, <<>>)))
    BY <1>1, <1>5 DEF encodeSDFrame
  <2>2. Understood(wire', <<[entry |-> Core(e), at |-> None]>>)
    <3>1. 0 \in 0..1
      OBVIOUS
    <3> QED BY <1>2, <1>3, <2>1, <3>1, PlainUnderstood
  <2> QED BY <1>1, <1>5, <2>2 DEF OwnSent
<1>6. CASE ep = c.endpoint /\ ep.ip # None
  <2>1. Understood(wire', <<[entry |-> Core(e), at |-> Given(ep)]>>)
    BY <1>1, <1>2, <1>3, <1>6, OptionUnderstood
  <2>2. Given(ep) = ep
    BY <1>2, <1>6, GivenIs
  <2> QED BY <1>1, <2>1, <2>2 DEF OwnSent
<1> QED BY <1>4, <1>5, <1>6

LEMMA AnswerFindStep == ASSUME NEW c \in Configs, AnswerFind(c) PROVE OwnSent
<1> DEFINE at == [c.endpoint EXCEPT !.ip = IF @ = None THEN Zeros(4) ELSE @]
<1>1. wire' = encodeSDFrame(FlagReboot, c.entry, c.endpoint, c.optType) /\ sent' = <<[entry |-> Core(c.entry), at |-> at]>>
  BY DEF AnswerFind, Send
<1>2. /\ Proper(c.entry) /\ c.endpoint \in Endpoint /\ c.optType = OptionTypeIPv4Endpoint
      /\ FlagReboot \in Byte
  BY SdAssumption DEF FlagReboot, Byte
<1>3. at = Given(c.endpoint)
  BY <1>2 DEF Given, Address, Endpoint
<1>4. Understood(wire', <<[entry |-> Core(c.entry), at |-> Given(c.endpoint)]>>)
  BY <1>1, <1>2, OptionUnderstood
<1> QED BY <1>1, <1>3, <1>4 DEF OwnSent

LEMMA SubscribeEventgroupStep == ASSUME NEW e \in Groups, SubscribeEventgroup(e) PROVE OwnSent
<1> DEFINE t   == IF e.ttl = 0 THEN DefaultTTL ELSE e.ttl
           sub == [e EXCEPT !.ttl = t]
<1>1. Proper(e) /\ e \in Entry /\ e.type = Subscribe /\ FlagUnicast \in Byte
  BY SdAssumption DEF Proper, FlagUnicast, Byte
<1>2. [e EXCEPT !.type = Subscribe, !.ttl = IF @ = 0 THEN DefaultTTL ELSE @] = sub
  BY <1>1 DEF Entry
<1>3. t \in 0..Uint24Max
  <2>1. e.ttl \in 0..Uint24Max
    BY <1>1 DEF Entry
  <2> QED BY <2>1, Ttls
<1>4. Proper(sub)
  <2> HIDE DEF t
  <2> QED BY <1>1, <1>3, OtherTtl
<1>5. wire' = encodeSDFrame(FlagUnicast, sub, None, 0) /\ sent' = <<[entry |-> Core(sub), at |-> None]>>
  BY <1>2 DEF SubscribeEventgroup, Send
<1> HIDE DEF sub
<1>6. wire' = Encode(SdMessage(0, 0, Payload(FlagUnicast, sub, <<>>)))
  BY <1>5 DEF encodeSDFrame
<1>7. Understood(wire', <<[entry |-> Core(sub), at |-> None]>>)
  <2>1. 0 \in 0..1
    OBVIOUS
  <2> QED BY <1>1, <1>4, <1>6, <2>1, PlainUnderstood
<1> QED BY <1>5, <1>7 DEF OwnSent

LEMMA AckSubscribeStep == ASSUME NEW e \in Groups, AckSubscribe(e) PROVE OwnSent
<1> DEFINE ack == GroupEntry(SubscribeAck, e.service, e.instance, e.major, e.ttl, e.group)
<1>1. e \in Entry /\ 0 \in Byte
  BY SdAssumption DEF Proper, Byte
<1>2. [NoEntry EXCEPT !.type = SubscribeAck, !.service = e.service, !.instance = e.instance,
           !.major = e.major, !.ttl = e.ttl, !.group = e.group] = ack
  BY Built
<1>3. Proper(ack) /\ Core(ack) = ack
  <2>1. /\ e.service \in 0..Uint16Max /\ e.instance \in 0..Uint16Max /\ e.group \in 0..Uint16Max
        /\ e.major \in Byte /\ e.ttl \in 0..Uint24Max /\ SubscribeAck \in {Subscribe, SubscribeAck}
    BY <1>1 DEF Entry
  <2> QED BY <2>1, GroupEntryProper
<1>4. wire' = encodeSDFrame(0, ack, None, 0) /\ sent' = <<[entry |-> ack, at |-> None]>>
  BY <1>2 DEF AckSubscribe, Send
<1> HIDE DEF ack
<1>5. wire' = Encode(SdMessage(0, 0, Payload(0, ack, <<>>)))
  BY <1>4 DEF encodeSDFrame
<1>6. Understood(wire', <<[entry |-> Core(ack), at |-> None]>>)
  <2>1. 0 \in 0..1
    OBVIOUS
  <2> QED BY <1>1, <1>3, <1>5, <2>1, PlainUnderstood
<1> QED BY <1>3, <1>4, <1>6 DEF OwnSent

LEMMA SubscribeEventStep == ASSUME NEW v \in Events, SubscribeEvent(v) PROVE OwnSent
<1> DEFINE e == GroupEntry(v.type, v.service, v.instance, 255, v.ttl, v.event)
<1>1. /\ v.type \in {Subscribe, SubscribeAck} /\ v.service \in 0..Uint16Max /\ v.instance \in 0..Uint16Max
      /\ v.event \in 0..Uint16Max /\ v.ttl \in 0..Uint24Max /\ 255 \in Byte /\ 0 \in Byte
  BY SdAssumption DEF Byte
<1>2. [NoEntry EXCEPT !.type = v.type, !.service = v.service, !.instance = v.instance,
           !.major = 255, !.ttl = v.ttl, !.group = v.event] = e
  BY Built
<1>3. Proper(e) /\ Core(e) = e
  BY <1>1, GroupEntryProper
<1>4. wire' = Encode(SdMessage(1, 1, Payload(0, e, <<>>))) /\ sent' = <<[entry |-> e, at |-> None]>>
  BY <1>2 DEF SubscribeEvent, Send, encodeSDEntryFrame
<1> HIDE DEF e
<1>5. Understood(wire', <<[entry |-> Core(e), at |-> None]>>)
  <2>1. 1 \in 0..1
    OBVIOUS
  <2> QED BY <1>1, <1>3, <1>4, <2>1, PlainUnderstood
<1> QED BY <1>3, <1>4, <1>5 DEF OwnSent

\* The invariant of the datagram.
MeaningInv ==
    kind = "sd" =>
        /\ wire # <<>> => Understood(wire, sent) \/ FromForeign(wire)
        /\ ~up => wire # <<>> /\ got = [daemon |-> Heard(wire), socket |-> HeardBySocket(wire)]

\* A datagram of this code on its way says what its sender meant.
THEOREM MeaningInductive == Spec => []MeaningInv
<1>1. Init => MeaningInv
  BY DEF Init, MeaningInv
<1>2. MeaningInv /\ [Next]_vars => MeaningInv'
  <2> SUFFICES ASSUME MeaningInv, [Next]_vars PROVE MeaningInv'
    OBVIOUS
  <2>1. kind' = kind
    BY KindKept
  <2>2. CASE kind # "sd"
    BY <2>1, <2>2 DEF MeaningInv
  <2>3. CASE kind = "sd" /\ UNCHANGED vars
    BY <2>3 DEF MeaningInv, vars
  <2>4. ASSUME kind = "sd", OwnSent, up' = up, up PROVE MeaningInv'
    BY <2>4 DEF MeaningInv, OwnSent
  <2>5. ASSUME kind = "sd", NEW f \in Foreign, SendForeign(f) PROVE MeaningInv'
    <3>1. up' = up /\ up /\ wire' = Encode(SdMessage(1, 1, f.payload))
      BY <2>5 DEF SendForeign, Send
    <3>2. FromForeign(wire')
      BY <3>1 DEF FromForeign
    <3> QED BY <3>1, <3>2 DEF MeaningInv
  <2>6. ASSUME kind = "sd", Hear PROVE MeaningInv'
    <3>1. /\ wire # <<>> /\ wire' = wire /\ sent' = sent
          /\ got' = [daemon |-> Heard(wire), socket |-> HeardBySocket(wire)]
      BY <2>6 DEF Hear
    <3> QED BY <2>6, <3>1 DEF MeaningInv
  <2>7. CASE kind = "sd" /\ Next
    <3>1. \/ \E c \in Configs, stopOffer \in BOOLEAN : Announce(c, stopOffer)
          \/ \E c \in Configs : AnswerFind(c)
          \/ \E e \in Groups : SubscribeEventgroup(e) \/ AckSubscribe(e)
          \/ \E v \in Events : SubscribeEvent(v)
          \/ \E f \in Foreign : SendForeign(f)
          \/ Hear
      BY <2>7 DEF Next, WriteMessage, WriteGarbage, Cut, Read, Protect, Flip, Check
    <3>2. CASE \E c \in Configs, stopOffer \in BOOLEAN : Announce(c, stopOffer)
      <4>1. OwnSent
        BY <3>2, AnnounceStep
      <4>2. up' = up /\ up
        BY <3>2 DEF Announce, Send
      <4> QED BY <2>4, <2>7, <4>1, <4>2
    <3>3. CASE \E c \in Configs : AnswerFind(c)
      <4>1. OwnSent
        BY <3>3, AnswerFindStep
      <4>2. up' = up /\ up
        BY <3>3 DEF AnswerFind, Send
      <4> QED BY <2>4, <2>7, <4>1, <4>2
    <3>4. CASE \E e \in Groups : SubscribeEventgroup(e) \/ AckSubscribe(e)
      <4>1. OwnSent
        BY <3>4, SubscribeEventgroupStep, AckSubscribeStep
      <4>2. up' = up /\ up
        BY <3>4 DEF SubscribeEventgroup, AckSubscribe, Send
      <4> QED BY <2>4, <2>7, <4>1, <4>2
    <3>5. CASE \E v \in Events : SubscribeEvent(v)
      <4>1. OwnSent
        BY <3>5, SubscribeEventStep
      <4>2. up' = up /\ up
        BY <3>5 DEF SubscribeEvent, Send
      <4> QED BY <2>4, <2>7, <4>1, <4>2
    <3> QED BY <2>5, <2>6, <2>7, <3>1, <3>2, <3>3, <3>4, <3>5
  <2> QED BY <2>2, <2>3, <2>7
<1> QED BY <1>1, <1>2, PTL DEF Spec

\* Every entry this code sends, with or without an endpoint, is understood by the
\* daemon (sdudp.go:389) and the event socket (udp.go:350) as it was meant: all
\* field values, TTLs, groups and endpoints.  Only the datagrams of other daemons,
\* whose bytes are anything, are left to the run.
THEOREM SdUnderstoodHolds == Spec => [](~FromForeign(wire) => SdUnderstood)
<1>1. MeaningInv => (~FromForeign(wire) => SdUnderstood)
  <2> SUFFICES ASSUME MeaningInv, ~FromForeign(wire), kind = "sd", ~up PROVE SdUnderstood
    BY DEF SdUnderstood
  <2>1. Understood(wire, sent) /\ got = [daemon |-> Heard(wire), socket |-> HeardBySocket(wire)]
    BY DEF MeaningInv
  <2>2. got.daemon = Heard(wire) /\ got.socket = HeardBySocket(wire)
    BY <2>1
  <2> QED BY <2>1, <2>2 DEF SdUnderstood, Understood
<1> QED BY <1>1, MeaningInductive, PTL
=============================================================================
