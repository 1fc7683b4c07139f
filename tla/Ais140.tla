------------------------------- MODULE Ais140 -------------------------------
(***************************************************************************)
(* protocols/ais140: lines $type,fields*XX with an XOR checksum.  One      *)
(* symbol stands for the message type, one for the checksum.               *)
(* Login: $HLP,VRN,IMEI,firmware*XX                                        *)
(* Report: $NRM,date,time,lat,N/S,lng,E/W,speed,heading,status*XX          *)
(***************************************************************************)
EXTENDS Lines

Newline == 10
Blank   == {32, 13, Newline}
Dollar  == 36
Star    == 42
LetterS == 83
LetterW == 87

(* Message types                                                           *)
HLP == 72
NRM == 78
TRP == 84
SOS == 90
EMR == 69
HBT == 66

Detect(header) == Len(header) > 0 /\ header[1] = Dollar

(* The checksum of a text is two hexadecimal characters, one symbol; every *)
(* symbol of the text contributes a byte.                                  *)
Checksum(data) == 256 + XorOf([i \in DOMAIN data |-> data[i] % 256])

buildPacket(data) == <<Dollar>> \o data \o <<Star, Checksum(data)>>

TrimPrefix(line) == IF Detect(line) THEN Tail(line) ELSE line
LastStar(line)   == SelectLastInSeq(line, LAMBDA s : s = Star)

isValidChecksum(line) ==
  LET text == TrimPrefix(line)
      star == LastStar(text)
  IN  /\ star > 0 /\ star < Len(text)
      /\ text[star + 1] = Checksum(SubSeq(text, 1, star - 1))

parseAIS140(line) ==
  LET text == TrimPrefix(line)
      star == LastStar(text)
  IN  Split(IF star = 0 THEN text ELSE SubSeq(text, 1, star - 1))

Authenticate(b, fin) ==
  LET read   == ReadString(b, fin, Newline)
      line   == Trim(read.line, Blank)
      fields == parseAIS140(line)
  IN  IF read.out = "wait" THEN Wait
      ELSE IF read.eof \/ ~isValidChecksum(line) THEN Fail
      ELSE IF Len(fields) < 3 \/ fields[1] # <<HLP>> THEN Fail
      ELSE [out |-> "login", n |-> read.n, id |-> fields[3],
            replies |-> <<buildPacket(<<HBT, Comma, 49>>) \o <<13, Newline>>>>]

(* Every position counts as valid.                                         *)
parsePosition(fields) ==
  [ts |-> IF IsDate(fields[2]) /\ IsDate(fields[3]) THEN <<fields[2][1], fields[3][1]>>
                                                    ELSE <<Now>>,
   lat |-> Signed(fields[5] = <<LetterS>>, Number(fields[4])),
   lng |-> Signed(fields[7] = <<LetterW>>, Number(fields[6])),
   speed |-> Number(fields[8]) % 65536, heading |-> Number(fields[9]) % 65536,
   valid |-> TRUE, io |-> IF fields[1][1] \in {SOS, EMR} THEN {236} ELSE {}]

(* An emergency is forwarded to the ITS portal as well, by a goroutine     *)
(* nobody waits for and whose error is dropped.                            *)
ParsePacket(b, fin) ==
  LET read   == ReadString(b, fin, Newline)
      line   == Trim(read.line, Blank)
      fields == parseAIS140(line)
  IN  CASE read.out = "wait" -> Wait
        [] read.out = "line" /\ ~isValidChecksum(line) -> Fail
        [] OTHER ->
             CASE fields[1] \in {<<NRM>>, <<TRP>>, <<SOS>>, <<EMR>>} ->
                    IF Len(fields) < 9 THEN Fail
                    ELSE Done(read.n, <<parsePosition(fields)>>, <<>>)
               [] fields[1] = <<HBT>> -> Done(read.n, <<>>, <<>>)
               [] OTHER -> Fail
=============================================================================
