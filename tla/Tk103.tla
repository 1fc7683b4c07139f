------------------------------- MODULE Tk103 -------------------------------
(***************************************************************************)
(* protocols/tk103: text that ends with a semicolon and has no checksum.   *)
(* Login: ##,imei:IMEI,A;                                                  *)
(* Report: (IMEI,type,date,A/V,lat,N/S,lng,E/W,speed,heading,;             *)
(* One symbol stands for the tags "##" and "imei:".                        *)
(***************************************************************************)
EXTENDS Lines

Semicolon == 59
Parens    == {40, 41, Semicolon}
Blank     == {32, 13, 10}
HashTag   == 35
ImeiTag   == 58
LetterA   == 65
LetterS   == 83
LetterW   == 87
LOAD == <<76, 79, 65, 68>>

Detect(header) == Len(header) > 0 /\ header[1] = HashTag

(* An end of file before the semicolon is an error here.                   *)
Authenticate(b, fin) ==
  LET read  == ReadString(b, fin, Semicolon)
      line  == Trim(read.line, Blank)
      parts == Split(line)
  IN  IF read.out = "wait" THEN Wait
      ELSE IF read.eof \/ Slice(line, 0, 3) # <<HashTag, Comma, ImeiTag>> THEN Fail
      ELSE IF Len(parts) < 3 THEN Fail
      ELSE [out |-> "login", n |-> read.n, id |-> Tail(parts[2]), replies |-> <<LOAD>>]

(* Degrees times 10^7 of DDDMM.MMMM, whose number of 1/10000 is n.         *)
parseNMEACoord(field) ==
  LET n == Number(field)
      minutes == n % 1000000
  IN  10000000 * (n \div 1000000) + (100 * minutes + 3) \div 6

(* Knots to km/h, as a uint16.                                             *)
Speed(field) == ((Number(field) * 1852) \div 1000) % 65536

(* The fields are taken by position; nothing tells whether the line is     *)
(* whole.                                                                  *)
parseASCIILine(line) ==
  LET parts == Split(Trim(line, Parens))
  IN  IF Len(parts) < 9 THEN Fail
      ELSE [out |-> "gps",
            rec |-> [ts |-> IF IsDate(parts[3]) THEN parts[3][1] ELSE Now,
                     valid |-> parts[4] = <<LetterA>>,
                     lat |-> Signed(parts[6] = <<LetterS>>, parseNMEACoord(parts[5])),
                     lng |-> Signed(parts[8] = <<LetterW>>, parseNMEACoord(parts[7])),
                     speed |-> Speed(parts[9]),
                     heading |-> IF Len(parts) > 9 THEN Number(parts[10]) % 65536 ELSE 0,
                     io |-> {}]]

(* An end of file is tolerated: what has arrived is parsed.                *)
ParsePacket(b, fin) ==
  LET read == ReadString(b, fin, Semicolon)
      gps  == parseASCIILine(Trim(read.line, Blank))
  IN  IF read.out = "wait" THEN Wait
      ELSE IF gps.out = "gps" THEN Done(read.n, <<gps.rec>>, <<>>)
      ELSE Fail
=============================================================================
