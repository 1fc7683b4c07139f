------------------------------- MODULE Jt808 -------------------------------
(***************************************************************************)
(* protocols/jt808: frames between 0x7E bytes, with 0x7E and 0x7D escaped  *)
(* inside, an XOR checksum, registration and authentication, positions     *)
(* alone or in batches, heartbeats.                                        *)
(***************************************************************************)
EXTENDS Wire

FrameByte  == \h7E
EscapeByte == \h7D

TerminalRegister == \h0100
TerminalAuth     == \h0102
LocationReport   == \h0200
LocationBatch    == \h0704
Heartbeat        == \h0002
PlatformAck      == \h8001
LocationAck      == \h8002
RegisterAck      == \h8100

Detect(header) == Len(header) > 0 /\ header[1] = FrameByte

-----------------------------------------------------------------------------
(* Framing                                                                 *)

(* An escape byte swallows its successor whatever it is; the last byte of  *)
(* the data has none.                                                      *)
unescape(data) ==
  LET from[i \in 1 .. Len(data) + 2] ==
        IF i > Len(data) THEN <<>>
        ELSE IF data[i] = EscapeByte /\ i < Len(data)
          THEN (CASE data[i + 1] = 1 -> <<EscapeByte>>
                  [] data[i + 1] = 2 -> <<FrameByte>>
                  [] OTHER           -> <<>>) \o from[i + 2]
          ELSE <<data[i]>> \o from[i + 1]
  IN  from[1]

escape(data) ==
  FlattenSeq([i \in 1 .. Len(data) |->
                CASE data[i] = FrameByte  -> <<EscapeByte, 2>>
                  [] data[i] = EscapeByte -> <<EscapeByte, 1>>
                  [] OTHER                -> <<data[i]>>])

Framed(data) == <<FrameByte>> \o escape(data) \o <<FrameByte>>

(* The message attribute is the length of the body; seqNum is a uint16.    *)
writeFrame(msgID, phone, seqNum, body) ==
  LET data == PutU16(msgID) \o PutU16(Len(body)) \o phone \o PutU16(seqNum) \o body
  IN  Framed(data \o <<XorOf(data)>>)

(* The frame in the data between two frame bytes.  The length attribute is *)
(* not looked at: the body is all there is.                                *)
frameOf(data, n) ==
  IF Len(data) < 13 \/ XorOf(Front(data)) # Last(data) THEN Fail
  ELSE [out |-> "frame", n |-> n, msgID |-> U16(data, 0), phone |-> Slice(data, 4, 10),
        seqNum |-> U16(data, 10), body |-> Slice(data, 12, Len(data) - 1)]

(* Everything before the first frame byte is skipped.                      *)
readFrame(b) ==
  LET marks == {i \in DOMAIN b : b[i] = FrameByte}
      start == Min(marks)
      end   == Min(marks \ {start})
  IN  IF Cardinality(marks) < 2 THEN Wait
      ELSE frameOf(unescape(SubSeq(b, start + 1, end - 1)), end)

-----------------------------------------------------------------------------
(* Positions                                                               *)

bcdToDec(b) == 10 * (b \div 16) + (b % 16)

(* Year to second; time.Date is applied to these six numbers.              *)
parseBCDTime(bcd) == [i \in 1 .. 6 |-> bcdToDec(bcd[i])]

(* All flags used are in the last byte of the alarm and the status words.  *)
parseLocation(body) ==
  LET alarm == body[4]
      state == body[8]
      raised == (IF Bit(alarm, 0) = 1 THEN {236} ELSE {})
                \cup (IF Bit(alarm, 3) = 1 THEN {240} ELSE {})
                \cup (IF Bit(state, 5) = 1 THEN {239} ELSE {})
  IN  [ts |-> parseBCDTime(Slice(body, 22, 28)),
       lat |-> Signed(Bit(state, 2) = 0, Slice(body, 8, 12)),
       lng |-> Signed(Bit(state, 3) = 0, Slice(body, 12, 16)),
       altitude |-> U16(body, 16), speed |-> U16(body, 18) \div 10,
       heading |-> U16(body, 20), valid |-> Bit(state, 1) = 1, io |-> raised]

LocationTooShort(body) == Len(body) < 28

(* Count, type and items of a length each.  An item that is too short is   *)
(* skipped; the first that does not fit ends the batch.                    *)
parseLocationBatch(body) ==
  LET from[k \in Nat, o \in Nat] ==
        IF k = 0 \/ o + 2 > Len(body) \/ o + 2 + U16(body, o) > Len(body) THEN <<>>
        ELSE LET end  == o + 2 + U16(body, o)
                 item == Slice(body, o + 2, end)
             IN  (IF LocationTooShort(item) THEN <<>> ELSE <<parseLocation(item)>>)
                   \o from[k - 1, end]
  IN  from[U16(body, 0), 3]

-----------------------------------------------------------------------------
(* The handler                                                             *)

(* BCD digits of the phone number; the filler F is skipped.                *)
bcdPhone(phone) ==
  SelectSeq(FlattenSeq([i \in 1 .. 6 |-> <<phone[i] \div 16, phone[i] % 16>>]),
            LAMBDA digit : digit # 15)

AckBody(pkt, msgID) == PutU16(pkt.seqNum) \o PutU16(msgID) \o <<0>>

(* The replies are numbered one after the message they answer, and wrap.   *)
Acked(pkt, ackID, msgID) ==
  <<writeFrame(ackID, pkt.phone, pkt.seqNum + 1, AckBody(pkt, msgID))>>

AuthCode == <<71, 80, 83, 71, 79, 95, 65, 85, 84, 72>>

(* Authenticate up to its first reply.  "more" tells that the terminal     *)
(* registered and has to authenticate with another message.                *)
AuthFirst(b) ==
  LET pkt == readFrame(b)
  IN  CASE pkt.out # "frame" -> pkt
        [] pkt.out = "frame" /\ pkt.msgID = TerminalRegister ->
             [out |-> "more", n |-> pkt.n, pkt |-> pkt,
              replies |-> <<writeFrame(RegisterAck, pkt.phone, pkt.seqNum,
                                       PutU16(pkt.seqNum) \o <<0>> \o AuthCode)>>]
        [] pkt.out = "frame" /\ pkt.msgID = TerminalAuth ->
             [out |-> "login", n |-> pkt.n, id |-> bcdPhone(pkt.phone),
              replies |-> Acked(pkt, PlatformAck, TerminalAuth)]
        [] OTHER -> Fail

(* The rest of Authenticate after the registration pkt: the final reply    *)
(* carries pkt's sequence number, not that of the message it answers.      *)
AuthSecond(pkt, b) ==
  LET auth == readFrame(b)
  IN  CASE auth.out # "frame" -> auth
        [] auth.out = "frame" /\ auth.msgID = TerminalAuth ->
             [out |-> "login", n |-> auth.n, id |-> bcdPhone(pkt.phone),
              replies |-> Acked(pkt, PlatformAck, TerminalAuth)]
        [] OTHER -> Fail

ParsePacket(b) ==
  LET pkt == readFrame(b)
  IN  IF pkt.out # "frame" THEN pkt
      ELSE CASE pkt.msgID = LocationReport ->
                  IF LocationTooShort(pkt.body) THEN Fail
                  ELSE Done(pkt.n, <<parseLocation(pkt.body)>>,
                            Acked(pkt, LocationAck, LocationReport))
             [] pkt.msgID = LocationBatch ->
                  IF Len(pkt.body) < 4 THEN Fail
                  ELSE Done(pkt.n, parseLocationBatch(pkt.body),
                            Acked(pkt, LocationAck, LocationBatch))
             [] pkt.msgID = Heartbeat ->
                  Done(pkt.n, <<>>, Acked(pkt, PlatformAck, Heartbeat))
             [] OTHER -> Done(pkt.n, <<>>, <<>>)
=============================================================================
