------------------------------- MODULE Lines -------------------------------
(***************************************************************************)
(* Text on a tracker's connection.  A symbol below 256 is a character; one *)
(* from NumberBase on is the text of a number and one from DateBase on the *)
(* text of a date (or of a time), each of several characters.              *)
(***************************************************************************)
EXTENDS Wire

Comma     == 44
NumberBase == 10000
DateBase   == 1000000000

(* strings.Trim: symbols of the set are taken off both ends.               *)
Trim(b, set) ==
  LET kept == {i \in DOMAIN b : b[i] \notin set}
  IN  IF kept = {} THEN <<>> ELSE SubSeq(b, Min(kept), Max(kept))

(* strings.Split at the commas.                                            *)
Split(b) ==
  LET cuts == {0, Len(b) + 1} \cup {i \in DOMAIN b : b[i] = Comma}
      cut(k) == CHOOSE i \in cuts : Cardinality({j \in cuts : j < i}) = k
  IN  [k \in 1 .. Cardinality(cuts) - 1 |-> SubSeq(b, cut(k - 1) + 1, cut(k) - 1)]

(* bufio.Reader.ReadString: the line up to the delimiter, or what there is *)
(* when the peer has closed.  n is the least number of symbols it takes    *)
(* from the connection; it may take any that follow, and they are lost     *)
(* with the reader, which lives for one call.                              *)
ReadString(b, fin, delim) ==
  LET at == SelectInSeq(b, LAMBDA s : s = delim)
  IN  CASE at > 0          -> [out |-> "line", line |-> SubSeq(b, 1, at), n |-> at, eof |-> FALSE]
        [] at = 0 /\ fin   -> [out |-> "line", line |-> b, n |-> Len(b), eof |-> TRUE]
        [] OTHER           -> Wait

(* strconv.ParseFloat with its error ignored: 0 for what is no number.     *)
Number(field) ==
  LET digits[i \in 0 .. Len(field)] ==
        IF i = 0 THEN 0 ELSE 10 * digits[i - 1] + field[i] - 48
  IN  IF Len(field) = 1 /\ field[1] \in NumberBase .. DateBase - 1 THEN field[1] - NumberBase
      ELSE IF \A i \in DOMAIN field : field[i] \in 48 .. 57 THEN digits[Len(field)]
      ELSE 0

(* A date or time field that is long enough, or the time of reception.     *)
IsDate(field) == Len(field) = 1 /\ field[1] >= DateBase
Now == 0
=============================================================================
