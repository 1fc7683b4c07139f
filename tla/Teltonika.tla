----------------------------- MODULE Teltonika -----------------------------
(***************************************************************************)
(* protocols/teltonika: IMEI handshake, then packets of AVL records in     *)
(* codec 8, 8 extended or 16 under a CRC.  An IO value is the sequence of  *)
(* its big-endian bytes.                                                   *)
(***************************************************************************)
EXTENDS Wire

Codec8  == \h08
Codec8E == \h8E
Codec16 == \h10

Detect(header) == Len(header) >= 2 /\ U16(header, 0) \in 15 .. 17

(* Length, then that many ASCII digits.                                    *)
Authenticate(b) ==
  LET imeiLen == U16(b, 0)
      imei    == Slice(b, 2, 2 + imeiLen)
  IN  IF Len(b) < 2 THEN Wait
      ELSE IF imeiLen \notin 15 .. 17 THEN Fail
      ELSE IF Len(b) < 2 + imeiLen THEN Wait
      ELSE IF \E i \in DOMAIN imei : imei[i] \notin 48 .. 57 THEN Fail
      ELSE [out |-> "login", n |-> 2 + imeiLen, id |-> imei, replies |-> <<<<1>>>>]

CRC16IBM(data) ==
  LET shift(crc) == IF crc % 2 = 1 THEN Xor(crc \div 2, \hA001) ELSE crc \div 2
      rounds[k \in 0 .. 8, crc \in 0 .. \hFFFF] ==
        IF k = 0 THEN crc ELSE rounds[k - 1, shift(crc)]
      next[crc \in 0 .. \hFFFF, b \in Bytes] == rounds[8, Xor(crc, b)]
      upto[i \in 0 .. Len(data)] == IF i = 0 THEN 0 ELSE next[upto[i - 1], data[i]]
  IN  upto[Len(data)]

-----------------------------------------------------------------------------
(* AVL records                                                             *)

Truncated == [ok |-> FALSE]

(* The last value of an id wins, as in a map.                              *)
IOData(elements) ==
  [id \in {elements[i].id : i \in DOMAIN elements} |->
     elements[Max({i \in DOMAIN elements : elements[i].id = id})].value]

(* The IO elements from offset o on: groups with values of 1, 2, 4 and 8   *)
(* bytes and, in the extended codec, of a stated length, each preceded by  *)
(* its count.  Counts and ids are one or, extended, two bytes.             *)
ioElements(data, o, extended) ==
  LET w == IF extended THEN 2 ELSE 1
      groups == IF extended THEN 5 ELSE 4
      num(at) == IF extended THEN U16(data, at) ELSE data[at + 1]
      header(g) == IF g = 5 THEN 2 * w ELSE w
      width(g, at) == IF g = 5 THEN U16(data, at + w) ELSE 2 ^ (g - 1)
      group[g \in 1 .. 6, at \in Nat] ==
        LET element[k \in Nat, e \in Nat] ==
              IF k = 0 THEN group[g + 1, e]
              ELSE IF e + header(g) > Len(data) THEN Truncated
              ELSE LET from == e + header(g)
                       to   == from + width(g, e)
                       rest == element[k - 1, to]
                   IN  IF to > Len(data) THEN Truncated
                       ELSE IF ~rest.ok THEN Truncated
                       ELSE [rest EXCEPT !.elements =
                               <<[id |-> num(e),
                                  value |-> Slice(data, from, Min({to, from + 8}))]>> \o @]
        IN  IF g > groups THEN [ok |-> TRUE, n |-> at, elements |-> <<>>]
            ELSE IF at + w > Len(data) THEN Truncated
            ELSE element[num(at), at + w]
  IN  group[1, o]

(* Timestamp, priority, the 15 bytes of the GPS element, the header of the *)
(* IO elements (event id and total, both skipped) and the elements.        *)
parseAVLRecord8(data, o, extended) ==
  LET ioAt == o + 24 + (IF extended THEN 4 ELSE 2)
      io   == ioElements(data, ioAt, extended)
      lng  == Slice(data, o + 9, o + 13)
      lat  == Slice(data, o + 13, o + 17)
      satellites == data[o + 22]
      zero == <<0, 0, 0, 0>>
  IN  IF ioAt > Len(data) THEN Truncated
      ELSE IF ~io.ok THEN Truncated
      ELSE [ok |-> TRUE, n |-> io.n,
            rec |-> [ts |-> Slice(data, o, o + 8), priority |-> data[o + 9],
                     lng |-> lng, lat |-> lat, altitude |-> U16(data, o + 17),
                     heading |-> U16(data, o + 19), satellites |-> satellites,
                     speed |-> U16(data, o + 22),
                     valid |-> satellites > 0 /\ (lat # zero \/ lng # zero),
                     io |-> IOData(io.elements)]]

(* Codec 16 has two bytes before each record that are skipped.             *)
Skipped(codec) == IF codec = Codec16 THEN 2 ELSE 0

(* parseCodec8, 8E and 16: one bad record fails them all.  What follows    *)
(* the announced number of records is not looked at.                       *)
parseCodec(codec, data, numRecords) ==
  LET from[k \in Nat, o \in Nat] ==
        LET r    == parseAVLRecord8(data, o + Skipped(codec), codec = Codec8E)
            rest == from[k - 1, r.n]
        IN  IF k = 0 THEN [ok |-> TRUE, recs |-> <<>>]
            ELSE IF o + Skipped(codec) > Len(data) THEN Truncated
            ELSE IF ~r.ok THEN Truncated
            ELSE IF ~rest.ok THEN Truncated
            ELSE [ok |-> TRUE, recs |-> <<r.rec>> \o rest.recs]
  IN  from[numRecords, 0]

(* Mutant: a packet whose records cannot all be read delivers those that   *)
(* can.                                                                    *)
DecodeSome(payload, n) ==
  LET readable == {k \in 0 .. payload[2] :
                     parseCodec(payload[1], Slice(payload, 2, Len(payload)), k).ok}
  IN  IF Len(payload) < 2 THEN Fail
      ELSE Done(n, parseCodec(payload[1], Slice(payload, 2, Len(payload)),
                              Max(readable)).recs, <<>>)

(* The payload of a packet of n bytes.  Nothing is written back: BuildACK  *)
(* is left to a caller.                                                    *)
Decode(payload, n) ==
  LET all == parseCodec(payload[1], Slice(payload, 2, Len(payload)), payload[2])
  IN  IF Len(payload) < 2 THEN Fail
      ELSE IF payload[1] \notin {Codec8, Codec8E, Codec16} THEN Fail
      ELSE IF all.ok THEN Done(n, all.recs, <<>>) ELSE Fail

(* Preamble, length (at most 65536), payload, and a CRC of which the last  *)
(* two bytes count.                                                        *)
ParsePacket(b) ==
  LET high == Slice(b, 4, 6)
      dataLen == \h10000 * b[6] + U16(b, 6)
      tooLong == high \notin {<<0, 0>>, <<0, 1>>} \/ dataLen > \h10000
      payload == Slice(b, 8, 8 + dataLen)
  IN  IF Len(b) < 4 THEN Wait
      ELSE IF Slice(b, 0, 4) # <<0, 0, 0, 0>> THEN Fail
      ELSE IF Len(b) < 8 THEN Wait
      ELSE IF tooLong THEN Fail
      ELSE IF Len(b) < 12 + dataLen THEN Wait
      ELSE IF CRC16IBM(payload) # U16(b, 10 + dataLen) THEN Fail
      ELSE Decode(payload, 12 + dataLen)
=============================================================================
