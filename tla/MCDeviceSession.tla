-------------------------- MODULE MCDeviceSession --------------------------
(***************************************************************************)
(* Trackers for DeviceSession: packets in the formats that the comments of *)
(* the handlers state, together with what they mean, and defective ones.   *)
(* Bodies and positions are written out here.  Frames, escapes, checksums  *)
(* and GT06's replies are made with the operators of the handlers          *)
(* (writeFrame, crc16CCITT, buildResponse, CRC16IBM, buildPacket), so a    *)
(* checksum that both sides compute wrongly would not be noticed.          *)
(***************************************************************************)
EXTENDS DeviceSession

Packet(bytes, recs, acks) ==
  [bytes |-> bytes, whole |-> TRUE, documented |-> TRUE, recs |-> recs, acks |-> acks,
   cuts |-> {}]

(* The connection may break after some, or after any, of its bytes.        *)
Breaking(p) == [p EXCEPT !.cuts = {1, Len(p.bytes) \div 2, Len(p.bytes) - 1}]
Fragile(p)  == [p EXCEPT !.cuts = 1 .. Len(p.bytes) - 1]

(* A packet nothing is to be taken from: it violates the format, or the    *)
(* handler reads the format differently.                                   *)
Defective(bytes)  == [Packet(bytes, <<>>, <<>>) EXCEPT !.whole = FALSE, !.documented = FALSE]
Misread(bytes)    == [Packet(bytes, <<>>, <<>>) EXCEPT !.whole = FALSE]
Undocumented(p)   == [p EXCEPT !.documented = FALSE]

(* The packet with one byte changed on its way.                            *)
Garbled(p, i) == Defective([p.bytes EXCEPT ![i] = (@ + 1) % 256])

-----------------------------------------------------------------------------
(* JT808.  The frame and escape bytes occur in positions, sequence numbers *)
(* and checksums.                                                          *)

Phone == <<\h13, \h81, \h23, \h45, \h67, \h8F>>
PhoneDigits == <<1, 3, 8, 1, 2, 3, 4, 5, 6, 7, 8>>

JtMessage(msgID, seq, body) == J!writeFrame(msgID, Phone, seq, body)
JtReply(ackID, seq, msgID) ==
  JtMessage(ackID, (seq + 1) % 65536, J!PutU16(seq) \o J!PutU16(msgID) \o <<0>>)

(* A report north and east with a fix, unless the flags say otherwise.     *)
JtBody(sos, north, lat, speed) ==
  <<0, 0, 0, IF sos THEN 1 ELSE 0>> \o <<0, 0, 0, IF north THEN 14 ELSE 10>> \o lat
    \o <<6, 126, 125, 2>> \o <<0, 125>> \o J!PutU16(speed) \o <<1, 14>>
    \o <<\h24, \h12, \h31, \h23, \h59, \h58>>
JtRecord(sos, north, lat, speed) ==
  [ts |-> <<24, 12, 31, 23, 59, 58>>, lat |-> J!Signed(~north, lat),
   lng |-> J!Signed(FALSE, <<6, 126, 125, 2>>), altitude |-> 125,
   speed |-> speed \div 10, heading |-> 270, valid |-> TRUE,
   io |-> IF sos THEN {236} ELSE {}]

JtReport(seq, sos, north, lat, speed) ==
  Packet(JtMessage(J!LocationReport, seq, JtBody(sos, north, lat, speed)),
         <<JtRecord(sos, north, lat, speed)>>,
         <<JtReply(J!LocationAck, seq, J!LocationReport)>>)

(* Two positions with an item between them that is too short to be one.    *)
JtBatch(seq) ==
  LET lat == <<1, 125, 126, 2>>
      item(b) == J!PutU16(Len(b)) \o b
  IN  Packet(JtMessage(J!LocationBatch, seq,
               J!PutU16(3) \o <<0>> \o item(JtBody(FALSE, TRUE, lat, 1265)) \o item(<<126>>)
                 \o item(JtBody(TRUE, FALSE, lat, 9))),
             <<JtRecord(FALSE, TRUE, lat, 1265), JtRecord(TRUE, FALSE, lat, 9)>>,
             <<JtReply(J!LocationAck, seq, J!LocationBatch)>>)

JtHeartbeat(seq) == Packet(JtMessage(J!Heartbeat, seq, <<>>), <<>>,
                           <<JtReply(J!PlatformAck, seq, J!Heartbeat)>>)
JtOther(seq) == Packet(JtMessage(\h0900, seq, <<125, 1, 126>>), <<>>, <<>>)

JtRegister == Packet(JtMessage(J!TerminalRegister, 125, <<0, 44>>), <<>>, <<>>)
JtAuth     == Packet(JtMessage(J!TerminalAuth, 126, J!AuthCode), <<>>, <<>>)
JtEscaped  == JtReport(65535, TRUE, FALSE, <<125, 1, 126, 125>>, 612)

JtLogins  == {<<JtRegister, JtAuth>>, <<JtAuth>>, <<Defective(JtHeartbeat(1).bytes)>>,
              <<JtRegister, Defective(JtHeartbeat(2).bytes)>>}
JtPackets == {JtReport(7, FALSE, TRUE, <<126, 126, 2, 1>>, 0), Breaking(JtEscaped), JtBatch(125),
              JtHeartbeat(126), JtOther(9),
              Defective(JtMessage(J!LocationReport, 3, <<0, 0, 0, 0>>))}
             \cup {Garbled(JtEscaped, i) : i \in {1, 2, 12, 22, 23, 24, 25, 40, Len(JtEscaped.bytes)}}

-----------------------------------------------------------------------------
(* GT06, once as documented (serial, then CRC over all before it) and once *)
(* as the handler reads it (the CRC where the serial should be).           *)

GtDocumented(number, info) ==
  LET body == <<number>> \o info \o <<0, 5>>
  IN  Misread(<<\h78, \h78, Len(body) + 2>> \o body \o G!PutU16(G!crc16CCITT(body)) \o G!Stop)

GtPacket(number, info, recs, answered) ==
  LET body == <<number>> \o info
      crc  == G!crc16CCITT(body)
  IN  Undocumented(Packet(<<\h78, \h78, Len(body) + 4>> \o body \o G!PutU16(crc) \o <<0, 0>>
                            \o G!Stop,
                          recs, IF answered THEN <<G!buildResponse(number, crc)>> ELSE <<>>))

GtImei == <<\h03, \h58, \h99, \h90, \h12, \h34, \h56, \h7F>>
GtDigits == <<0, 3, 5, 8, 9, 9, 9, 0, 1, 2, 3, 4, 5, 6, 7>>

(* South and east, 270 degrees, eleven satellites.                         *)
GtInfo == <<24, 12, 31, 23, 59, 58, 12, \hB1, 2, 108, 16, 5, 12, 40, 1, 9, 60, 5, 14>>
GtRecord(io) ==
  [ts |-> <<24, 12, 31, 23, 59, 58>>, lat |-> G!Signed(TRUE, <<2, 108, 16, 5>>),
   lng |-> G!Signed(FALSE, <<12, 40, 1, 9>>), speed |-> 60, heading |-> 270,
   satellites |-> 11, valid |-> TRUE, io |-> io]

GtGPS == GtPacket(G!ProtoGPSSingle, GtInfo, <<GtRecord({})>>, TRUE)

(* Informations of twelve to eighteen bytes pass the length check.         *)
GtShort == Defective(GtPacket(G!ProtoGPSSingle, [SubSeq(GtInfo, 1, 18) EXCEPT ![7] = 5],
                              <<>>, FALSE).bytes)

GtLogins  == {<<Undocumented([GtPacket(G!ProtoLogin, GtImei, <<>>, FALSE) EXCEPT !.acks = <<>>])>>,
              <<GtDocumented(G!ProtoLogin, GtImei)>>,
              <<Defective(GtPacket(G!ProtoLogin, <<1, 2>>, <<>>, FALSE).bytes)>>}
GtPackets == {Breaking(GtGPS), GtPacket(G!ProtoAlarm, GtInfo, <<GtRecord({236})>>, TRUE),
              GtPacket(G!ProtoHeartbeat, <<1>>, <<>>, TRUE),
              GtPacket(\h28, <<1, 2, 3>>, <<>>, FALSE),
              GtDocumented(G!ProtoGPSSingle, GtInfo), GtShort,
              Defective(<<\h78, \h78, 3, 1, 2, 3>> \o G!Stop),
              Defective(GtPacket(G!ProtoGPSSingle, <<1, 2, 3>>, <<>>, FALSE).bytes)}
             \cup {Garbled(GtGPS, i) : i \in {1, 4, 12, 24}}

-----------------------------------------------------------------------------
(* Teltonika.  The IO elements cover every width, an id that occurs twice  *)
(* and, extended, values longer than eight bytes and empty ones.           *)

TeImei == <<51, 53, 54, 51, 48, 55, 48, 52, 50, 52, 52, 49, 48, 49, 51>>
TeLogin == Packet(<<0, 15>> \o TeImei, <<>>, <<>>)

TeTime == <<0, 0, 1, 107, 64, 216, 234, 48>>
TeGPS(satellites, lat) ==
  TeTime \o <<1>> \o <<255, 1, 2, 3>> \o lat \o <<0, 111, 0, 214>> \o <<satellites>> \o <<1, 5>>
TeRecord(satellites, lat, io) ==
  [ts |-> TeTime, priority |-> 1, lng |-> <<255, 1, 2, 3>>, lat |-> lat, altitude |-> 111,
   heading |-> 214, satellites |-> satellites, speed |-> 261,
   valid |-> satellites > 0, io |-> io]

TePacket(codec, num, records) ==
  LET payload == <<codec, num>> \o records \o <<num>>
  IN  <<0, 0, 0, 0>> \o <<0, 0>> \o T!PutU16(Len(payload)) \o payload
        \o <<0, 0>> \o T!PutU16(T!CRC16IBM(payload))
TeData(codec, num, records, recs) == Packet(TePacket(codec, num, records), recs, <<>>)

(* Event id, total, and the groups.                                        *)
Te8IO == <<0, 4>> \o <<2, 239, 1, 21, 3>> \o <<1, 21, 1, 44>> \o <<0>>
           \o <<1, 78, 0, 0, 0, 0, 1, 2, 3, 4>>
Te8IOData == [io \in {239, 21, 78} |->
                CASE io = 239 -> <<1>> [] io = 21 -> <<1, 44>>
                  [] io = 78 -> <<0, 0, 0, 0, 1, 2, 3, 4>>]
Te8EIO == <<0, 0, 0, 3>> \o <<0, 1, 0, 239, 0>> \o <<0, 0>>
            \o <<0, 1, 1, 4, 0, 0, 0, 7>> \o <<0, 0>>
            \o <<0, 2>> \o <<1, 1, 0, 10, 1, 2, 3, 4, 5, 6, 7, 8, 9, 10>> \o <<1, 2, 0, 0>>
Te8EIOData == [io \in {239, 260, 257, 258} |->
                 CASE io = 239 -> <<0>> [] io = 260 -> <<0, 0, 0, 7>>
                   [] io = 257 -> <<1, 2, 3, 4, 5, 6, 7, 8>> [] io = 258 -> <<>>]
TeNoIO == <<0, 0, 0, 0, 0, 0>>
TeLat == <<32, 33, 34, 35>>
TeNone == [io \in {} |-> <<>>]

Te8 == TeData(T!Codec8, 2, TeGPS(9, TeLat) \o Te8IO \o TeGPS(0, TeLat) \o TeNoIO,
              <<TeRecord(9, TeLat, Te8IOData), TeRecord(0, TeLat, TeNone)>>)
Te8E == TeData(T!Codec8E, 1, TeGPS(9, TeLat) \o Te8EIO, <<TeRecord(9, TeLat, Te8EIOData)>>)
Te16 == TeData(T!Codec16, 1, <<9, 9>> \o TeGPS(9, TeLat) \o TeNoIO,
               <<TeRecord(9, TeLat, TeNone)>>)

(* The count announces a record more than there is, or a group more than   *)
(* its elements.                                                           *)
TeLogins  == {<<TeLogin>>, <<Defective(<<0, 14>> \o TeImei)>>,
              <<Defective([TeLogin.bytes EXCEPT ![5] = 65])>>}
TePackets == {Te8, Breaking(Te8E), Te16, TeData(T!Codec8, 0, <<>>, <<>>),
              Defective(TePacket(T!Codec8, 2, TeGPS(9, TeLat) \o TeNoIO)),
              Defective(TePacket(T!Codec16, 2, <<9, 9>> \o TeGPS(9, TeLat) \o TeNoIO)),
              Defective(TePacket(T!Codec8E, 1, TeGPS(9, TeLat) \o Front(Front(Te8EIO)))),
              Defective(TePacket(7, 1, TeGPS(9, TeLat) \o TeNoIO)),
              Defective(<<0, 0, 0, 0, 0, 1, 0, 1>>)}
             \cup {Garbled(Te16, i) : i \in {1, 5, 10, 20, 47}}

-----------------------------------------------------------------------------
(* The text protocols.                                                     *)

Num(n)  == <<K!NumberBase + n>>
Day(n)  == <<K!DateBase + n>>
Join(fields) == FlattenSeq([i \in 1 .. Len(fields) |->
                              (IF i = 1 THEN <<>> ELSE <<K!Comma>>) \o fields[i]])

TkImei == Num(358899)
TkLogin == Packet(<<K!HashTag, K!Comma, K!ImeiTag>> \o Join(<<TkImei, <<K!LetterA>>>>)
                    \o <<K!Semicolon>>, <<>>, <<>>)

(* 31 degrees 14.1234 minutes south, 121 degrees 30.0001 minutes east,     *)
(* 12 knots.                                                               *)
TkLine(date) ==
  Packet(<<40>> \o Join(<<TkImei, Num(1), Day(date), <<K!LetterA>>, Num(31141234),
                          <<K!LetterS>>, Num(121300001), <<69>>, <<49, 50>>, Num(90), <<>>>>)
           \o <<K!Semicolon>>,
         <<[ts |-> K!DateBase + date, valid |-> TRUE, lat |-> K!Signed(TRUE, 312353900),
            lng |-> K!Signed(FALSE, 1215000017), speed |-> 22, heading |-> 90, io |-> {}]>>,
         <<>>)

TkLogins  == {<<TkLogin>>, <<Defective(<<K!HashTag, K!Comma, K!Semicolon>>)>>}
TkPackets == {Fragile(TkLine(1)), TkLine(2), Defective(<<40, K!Semicolon>>)}

AiLine(text) == A!buildPacket(text) \o <<A!Newline>>
AiLogin == Packet(AiLine(Join(<<<<A!HLP>>, Num(7), Num(358899), Num(1)>>)), <<>>, <<>>)

AiReport(type, date) ==
  Packet(AiLine(Join(<<<<type>>, Day(date), Day(120000), Num(285011), <<78>>, Num(772301),
                       <<A!LetterW>>, <<52, 53>>, Num(180), Num(1)>>)),
         <<[ts |-> <<A!DateBase + date, A!DateBase + 120000>>, lat |-> A!Signed(FALSE, 285011),
            lng |-> A!Signed(TRUE, 772301), speed |-> 45, heading |-> 180, valid |-> TRUE,
            io |-> IF type = A!SOS THEN {236} ELSE {}]>>,
         <<>>)

AiLogins  == {<<AiLogin>>, <<Defective(AiLine(Join(<<<<A!NRM>>, Num(7), Num(8)>>)))>>,
              <<Defective(AiLogin.bytes \o <<A!Newline>>)>>}
AiPackets == {Fragile(AiReport(A!NRM, 1)), AiReport(A!SOS, 2),
              Packet(AiLine(<<A!HBT, K!Comma, 49>>), <<>>, <<>>),
              Defective(AiLine(<<K!Comma, 49>>)),
              Garbled(AiReport(A!TRP, 3), 10)}
-----------------------------------------------------------------------------
AllProtocols == {"jt808", "gt06", "teltonika", "tk103", "ais140"}

Identities == [jt808 |-> PhoneDigits, gt06 |-> GtDigits, teltonika |-> TeImei,
               tk103 |-> TkImei, ais140 |-> Num(358899)]
AllLogins  == [jt808 |-> JtLogins, gt06 |-> GtLogins, teltonika |-> TeLogins,
               tk103 |-> TkLogins, ais140 |-> AiLogins]
AllPackets == [jt808 |-> JtPackets, gt06 |-> GtPackets, teltonika |-> TePackets,
               tk103 |-> TkPackets, ais140 |-> AiPackets]
=============================================================================
