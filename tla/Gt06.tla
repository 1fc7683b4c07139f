-------------------------------- MODULE Gt06 --------------------------------
(***************************************************************************)
(* protocols/gt06: packets 0x78 0x78, length, protocol number, info,       *)
(* serial, CRC, stop.                                                      *)
(***************************************************************************)
EXTENDS Wire

StartByte == \h78
Stop == <<\h0D, \h0A>>

ProtoLogin     == \h01
ProtoGPSSingle == \h12
ProtoHeartbeat == \h23
ProtoAlarm     == \h26

Detect(header) == Len(header) >= 2 /\ header[1] = StartByte /\ header[2] = StartByte

crc16CCITT(data) ==
  LET shift(crc) == IF crc >= \h8000 THEN Xor((2 * crc) % \h10000, \h1021) ELSE 2 * crc
      rounds[k \in 0 .. 8, crc \in 0 .. \hFFFF] ==
        IF k = 0 THEN crc ELSE rounds[k - 1, shift(crc)]
      next[crc \in 0 .. \hFFFF, b \in Bytes] == rounds[8, Xor(crc, 256 * b)]
      upto[i \in 0 .. Len(data)] ==
        IF i = 0 THEN \hFFFF ELSE next[upto[i - 1], data[i]]
  IN  upto[Len(data)]

-----------------------------------------------------------------------------
(* The packet in the body that the length byte announced.  The checksum is *)
(* compared with the two bytes that are then taken as the serial; a body   *)
(* too short to have them is sliced out of range.                          *)
packetOf(body, n) ==
  LET end == Len(body) - 4
  IN  CASE Len(body) < 4 -> Panic
        [] Len(body) >= 4 /\ crc16CCITT(Slice(body, 0, end)) # U16(body, end) -> Fail
        [] Len(body) = 4 /\ crc16CCITT(<<>>) = U16(body, 0) -> Panic
        [] OTHER -> [out |-> "packet", n |-> n, proto |-> body[1],
                     info |-> Slice(body, 1, end), serial |-> U16(body, end)]

(* Start bytes, length, body and two stop bytes, which may be anything.    *)
readPacket(b) ==
  IF Len(b) < 2 THEN Wait
  ELSE IF ~Detect(b) THEN Fail
  ELSE IF Len(b) < 3 \/ Len(b) < 5 + b[3] THEN Wait
  ELSE packetOf(Slice(b, 3, 3 + b[3]), 5 + b[3])

buildResponse(number, serial) ==
  LET body == <<number>> \o PutU16(serial)
  IN  <<StartByte, StartByte, 5>> \o body \o PutU16(crc16CCITT(body)) \o Stop

-----------------------------------------------------------------------------
(* An index beyond the info panics: the length check only asks for twelve  *)
(* of the nineteen bytes that are read.                                    *)
parseGPS(info) ==
  LET course == U16(info, 17)
  IN  IF Len(info) < 12 \/ Len(info) < 7 + info[7] THEN Fail
      ELSE IF Len(info) < 19 THEN Panic
      ELSE [out |-> "gps",
            rec |-> [ts |-> Slice(info, 0, 6),
                     lat |-> Signed(Bit(course, 11) = 0, Slice(info, 8, 12)),
                     lng |-> Signed(Bit(course, 10) = 0, Slice(info, 12, 16)),
                     speed |-> info[17], heading |-> course % 1024,
                     satellites |-> info[8] \div 16, valid |-> info[8] % 16 > 0,
                     io |-> {}]]

parseAlarm(info) ==
  LET gps == parseGPS(info)
  IN  IF gps.out = "gps" THEN [gps EXCEPT !.rec.io = {236}] ELSE gps

(* The digits of the IMEI; a nibble that is no digit is skipped.           *)
decodeBCDIMEI(b) ==
  SelectSeq(FlattenSeq([i \in 1 .. Len(b) |-> <<b[i] \div 16, b[i] % 16>>]),
            LAMBDA digit : digit <= 9)

Authenticate(b) ==
  LET pkt == readPacket(b)
  IN  CASE pkt.out # "packet" -> pkt
        [] pkt.out = "packet" /\ pkt.proto = ProtoLogin /\ Len(pkt.info) >= 8 ->
             [out |-> "login", n |-> pkt.n, id |-> decodeBCDIMEI(Slice(pkt.info, 0, 8)),
              replies |-> <<buildResponse(ProtoLogin, pkt.serial)>>]
        [] OTHER -> Fail

(* A position is acknowledged once it has been decoded.                    *)
Position(pkt, gps) ==
  IF gps.out # "gps" THEN gps
  ELSE Done(pkt.n, <<gps.rec>>, <<buildResponse(pkt.proto, pkt.serial)>>)

ParsePacket(b) ==
  LET pkt == readPacket(b)
  IN  IF pkt.out # "packet" THEN pkt
      ELSE CASE pkt.proto = ProtoGPSSingle -> Position(pkt, parseGPS(pkt.info))
             [] pkt.proto = ProtoAlarm     -> Position(pkt, parseAlarm(pkt.info))
             [] pkt.proto = ProtoHeartbeat ->
                  Done(pkt.n, <<>>, <<buildResponse(ProtoHeartbeat, pkt.serial)>>)
             [] OTHER -> Done(pkt.n, <<>>, <<>>)
=============================================================================
