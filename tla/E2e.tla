-------------------------------- MODULE E2e --------------------------------
(***************************************************************************)
(* End-to-end protection (src/e2e/e2e.go).  Here a byte, and the register  *)
(* of a CRC, is the set of the positions of its one bits, so that xor is   *)
(* the symmetric difference and a shift moves the members.  A table is a   *)
(* function of all bytes; a DataID is the sequence of its bytes, the low   *)
(* one first.                                                              *)
(***************************************************************************)
EXTENDS Integers, Sequences

Bytes == SUBSET (0..7)

Xor(a, b)    == (a \ b) \cup (b \ a)
Moved(a, by) == {i + by : i \in a}

\* The byte with that value.
Bits(n) == LET weight == <<1, 2, 4, 8, 16, 32, 64, 128>>
           IN  {i \in 0..7 : (n \div weight[i + 1]) % 2 = 1}

\* f applied eight times.
Eight(f(_), x) == f(f(f(f(f(f(f(f(x))))))))

Poly8  == {4, 3, 2, 0}   \* 0x1D
Poly32 == {31, 30, 29, 27, 26, 24, 23, 21, 20, 19, 15, 9, 8, 5}   \* 0xEDB88320

Shift8(crc)  == LET up == Moved(crc \ {7}, 1)
                IN  IF 7 \in crc THEN Xor(up, Poly8) ELSE up
Shift32(crc) == LET down == Moved(crc \ {0}, -1)
                IN  IF 0 \in crc THEN Xor(down, Poly32) ELSE down

crc8Table  == [b \in Bytes |-> Eight(Shift8, b)]
crc32Table == [b \in Bytes |-> Eight(Shift32, b)]

crc8(init, data) ==
    LET crc[i \in 0..Len(data)] ==
            IF i = 0 THEN init ELSE crc8Table[Xor(crc[i - 1], data[i])]
    IN  Xor(crc[Len(data)], 0..7)

Lowest(crc) == crc \cap (0..7)

crc32(init, data) ==
    LET crc[i \in 0..Len(data)] ==
            LET was == crc[i - 1] IN
            IF i = 0 THEN init
            ELSE Xor(crc32Table[Xor(Lowest(was), data[i])], Moved(was \ (0..7), -8))
    IN  Xor(crc[Len(data)], 0..31)

\* PutUint32, the lowest byte first.
LittleEndian(crc) == [i \in 1..4 |-> Moved(crc \cap ((8*i - 8)..(8*i - 1)), 8 - 8*i)]

Accepted(payload) == [err |-> "nil", payload |-> payload]
Refused(e)        == [err |-> e]

(***************************************************************************)
(* Profile 01: a CRC and a byte with the counter in its low half.          *)
(***************************************************************************)
Profile01HeaderSize == 2
Low(b)  == b \cap (0..3)
High(b) == b \cap (4..7)

\* Mutation: the checksum leaves the header byte out.
Sum01NoHeader(dataID, hdr1, payload) == crc8(0..7, dataID \o payload)

Sum01(dataID, hdr1, payload) == crc8(0..7, dataID \o <<hdr1>> \o payload)

\* A counter above 14 is an error: no frame.
Protect01(dataID, payload, counter) ==
    LET hdr1 == High(dataID[1]) \cup Low(Bits(counter))
    IN  IF counter > 14 THEN <<>>
        ELSE <<Sum01(dataID, hdr1, payload), hdr1>> \o payload

Check01(dataID, frame, expected) ==
    LET payload == SubSeq(frame, Profile01HeaderSize + 1, Len(frame))
    IN  IF Len(frame) < Profile01HeaderSize THEN Refused("ShortFrame")
        ELSE IF frame[1] # Sum01(dataID, frame[2], payload) THEN Refused("CRCMismatch")
        ELSE IF Low(frame[2]) # Low(Bits(expected)) THEN Refused("CounterMismatch")
        ELSE Accepted(payload)

(***************************************************************************)
(* Profile 05: four bytes of CRC, the counter and three reserved bytes.    *)
(***************************************************************************)
Profile05HeaderSize == 8

Sum05(dataID, rest) == LittleEndian(crc32(0..31, dataID \o rest))

Protect05(dataID, payload, counter) ==
    LET rest == <<Bits(counter), {}, {}, {}>> \o payload
    IN  Sum05(dataID, rest) \o rest

Check05(dataID, frame, expected) ==
    IF Len(frame) < Profile05HeaderSize THEN Refused("ShortFrame")
    ELSE IF SubSeq(frame, 1, 4) # Sum05(dataID, SubSeq(frame, 5, Len(frame)))
         THEN Refused("CRCMismatch")
    ELSE IF frame[5] # Bits(expected) THEN Refused("CounterMismatch")
    ELSE Accepted(SubSeq(frame, Profile05HeaderSize + 1, Len(frame)))
=============================================================================
