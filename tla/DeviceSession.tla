--------------------------- MODULE DeviceSession ---------------------------
(***************************************************************************)
(* One connection of a tracker and the goroutine that serves it: handleConn *)
(* of ingestion-service with the protocol handler of the port.  A handler  *)
(* blocks until its bytes have arrived, the peer has closed or the read    *)
(* deadline has passed, so one call that returns is one step.              *)
(*                                                                         *)
(* The tracker, which is external, sends packets                           *)
(*   [bytes, whole, documented, recs, acks, cuts]                          *)
(* whole: the bytes are what the handler of the port can read;             *)
(* documented: they follow the format the handler's own comment states;    *)
(* recs and acks: the positions in it, and the replies it asks for;        *)
(* cuts: the numbers of bytes after which the connection may break.        *)
(***************************************************************************)
EXTENDS Naturals, Sequences, FiniteSets, SequencesExt

CONSTANTS
  Protocols,      \* the handlers that are registered
  Identity,       \* the tracker's IMEI or phone number, by protocol
  Logins,         \* sequences of packets a tracker may begin with, by protocol
  Packets,        \* packets it may send then, by protocol
  MaxPackets      \* bound: packets sent after the login

J == INSTANCE Jt808
G == INSTANCE Gt06
T == INSTANCE Teltonika
K == INSTANCE Tk103
A == INSTANCE Ais140

Text == {"tk103", "ais140"}

(* What a handler makes of the bytes b, after which the peer may have      *)
(* closed (eof, which only the readers of lines can see).                  *)
Authenticate(protocol, b, eof) ==
  CASE protocol = "jt808"     -> J!AuthFirst(b)
    [] protocol = "gt06"      -> G!Authenticate(b)
    [] protocol = "teltonika" -> T!Authenticate(b)
    [] protocol = "tk103"     -> K!Authenticate(b, eof)
    [] protocol = "ais140"    -> A!Authenticate(b, eof)

ParsePacket(protocol, b, eof) ==
  CASE protocol = "jt808"     -> J!ParsePacket(b)
    [] protocol = "gt06"      -> G!ParsePacket(b)
    [] protocol = "teltonika" -> T!ParsePacket(b)
    [] protocol = "tk103"     -> K!ParsePacket(b, eof)
    [] protocol = "ais140"    -> A!ParsePacket(b, eof)

ASSUME SessionAssumption ==
  /\ Protocols \subseteq {"jt808", "gt06", "teltonika", "tk103", "ais140"}
  /\ MaxPackets \in Nat

(* What a tracker sends.                                                   *)
IsPacket(p) ==
  /\ p.bytes \in Seq(Nat) /\ p.bytes # <<>> /\ p.whole \in BOOLEAN
  /\ p.recs \in Seq(Range(p.recs)) /\ p.acks \in Seq(Range(p.acks))
  /\ p.cuts \subseteq 1 .. Len(p.bytes) - 1

ASSUME TrackerAssumption ==
  \A protocol \in Protocols :
    /\ \A p \in Packets[protocol] : IsPacket(p)
    /\ \A login \in Logins[protocol] :
         /\ login \in Seq(Range(login)) /\ login # <<>>
         /\ \A i \in DOMAIN login : IsPacket(login[i])

VARIABLES
  proto,          \* the handler of the port the tracker connected to
  plan,           \* packets of the login not yet sent
  sent,           \* packets sent
  wire, fin,      \* symbols not yet read; whether the tracker has closed
  read,           \* number of symbols read
  phase,          \* "auth", "auth2", "parse", "closed" or "crashed"
  carry,          \* JT808: the registration Authenticate has answered
  id,             \* the id the tracker was authenticated as
  got,            \* what onRecord was given: <<DeviceID, record>>
  replies,        \* what was written to the connection
  greeted,        \* number of replies when Authenticate had returned
  why,            \* why the session ended
  beat,           \* flips with every call of the handler that returns
  cut, overtaken  \* history: a packet was cut off; one was sent before its
                  \* predecessor had been read

device  == <<proto, plan, sent, fin, cut, overtaken>>
session == <<phase, carry, id, got, replies, greeted, why, beat>>
vars == <<device, wire, read, session>>

NoPacket == [out |-> "none"]

Init ==
  /\ proto \in Protocols
  /\ plan \in Logins[proto]
  /\ sent = <<>> /\ wire = <<>> /\ fin = FALSE /\ read = 0
  /\ phase = "auth" /\ carry = NoPacket /\ id = <<>>
  /\ got = <<>> /\ replies = <<>> /\ greeted = 0 /\ why = "" /\ beat = FALSE
  /\ cut = FALSE /\ overtaken = FALSE

Open == phase \in {"auth", "auth2", "parse"}
-----------------------------------------------------------------------------
(* The tracker.                                                            *)

Transmit(p, rest) ==
  /\ sent' = Append(sent, p)
  /\ wire' = wire \o p.bytes
  /\ plan' = rest
  /\ overtaken' = (overtaken \/ wire # <<>>)
  /\ UNCHANGED <<proto, fin, cut, read, session>>

SendLogin == Open /\ ~fin /\ plan # <<>> /\ Transmit(Head(plan), Tail(plan))

(* The next packet of the traffic; one packet in a session is defective.   *)
Possible(p) ==
  /\ plan = <<>>
  /\ Cardinality({i \in DOMAIN sent : sent[i] \in Packets[proto]}) < MaxPackets
  /\ p.whole \/ \A i \in DOMAIN sent : sent[i].whole

SendPacket ==
  /\ Open /\ ~fin
  /\ \E p \in Packets[proto] : Possible(p) /\ Transmit(p, plan)

(* The connection is lost between packets, or in the middle of one.        *)
Lose ==
  /\ Open /\ ~fin
  /\ fin' = TRUE
  /\ \/ UNCHANGED <<sent, wire, cut, overtaken>>
     \/ \E p \in Packets[proto] : \E n \in p.cuts :
          /\ Possible(p)
          /\ sent' = Append(sent, p)
          /\ wire' = wire \o SubSeq(p.bytes, 1, n)
          /\ cut' = TRUE
          /\ overtaken' = (overtaken \/ wire # <<>>)
  /\ UNCHANGED <<proto, plan, read, session>>

-----------------------------------------------------------------------------
(* handleConn.                                                             *)

(* What the pending call of the handler makes of the bytes that are there. *)
Result ==
  CASE phase = "auth"  -> Authenticate(proto, wire, fin)
    [] phase = "auth2" -> J!AuthSecond(carry, wire)
    [] phase = "parse" -> ParsePacket(proto, wire, fin)

(* Mutant: the last symbol is put back for the next call.                  *)
ConsumePutBack(n) ==
  wire' = SubSeq(wire, n, Len(wire)) /\ read' = read + n

(* Mutant: a line that came with others may be left for the next call.     *)
ConsumeUnread(n) ==
  \E m \in IF proto \notin Text THEN {n}
           ELSE n .. Len(wire) \cup (IF n < Len(wire) THEN {0} ELSE {}) :
    /\ wire' = SubSeq(wire, m + 1, Len(wire))
    /\ read' = read + m

(* A text handler's reader may have taken more than its line.              *)
Consume(n) ==
  \E m \in IF proto \in Text THEN n .. Len(wire) ELSE {n} :
    /\ wire' = SubSeq(wire, m + 1, Len(wire))
    /\ read' = read + m

Register(r) ==
  /\ r.out = "more"
  /\ Consume(r.n)
  /\ phase' = "auth2" /\ carry' = r.pkt
  /\ replies' = replies \o r.replies
  /\ UNCHANGED <<device, id, got, greeted, why>>

Authenticated(r) ==
  /\ r.out = "login"
  /\ Consume(r.n)
  /\ phase' = "parse" /\ id' = r.id
  /\ replies' = replies \o r.replies
  /\ greeted' = Len(replies) + Len(r.replies)
  /\ UNCHANGED <<device, carry, got, why>>

(* Mutant: what was read before the peer closed is not delivered any more. *)
ParsedWhileOpen(r) ==
  /\ r.out = "done"
  /\ Consume(r.n)
  /\ got' = IF fin THEN got ELSE got \o [i \in DOMAIN r.recs |-> <<id, r.recs[i]>>]
  /\ replies' = replies \o r.replies
  /\ UNCHANGED <<device, phase, carry, id, greeted, why>>

(* Mutant: only a packet with positions is answered.                       *)
ParsedQuiet(r) ==
  /\ r.out = "done"
  /\ Consume(r.n)
  /\ got' = got \o [i \in DOMAIN r.recs |-> <<id, r.recs[i]>>]
  /\ replies' = IF r.recs = <<>> THEN replies ELSE replies \o r.replies
  /\ UNCHANGED <<device, phase, carry, id, greeted, why>>

(* The records get the device id and go to onRecord.                       *)
Parsed(r) ==
  /\ r.out = "done"
  /\ Consume(r.n)
  /\ got' = got \o [i \in DOMAIN r.recs |-> <<id, r.recs[i]>>]
  /\ replies' = replies \o r.replies
  /\ UNCHANGED <<device, phase, carry, id, greeted, why>>

(* What a call has read before it fails does not matter any more.          *)
End(place, reason) ==
  /\ phase' = place /\ why' = reason
  /\ UNCHANGED <<device, wire, read, carry, id, got, replies, greeted>>

(* Any error ends the session; a read fails when the peer has closed.      *)
Failed(r) ==
  \/ r.out = "fail" /\ End("closed", IF fin /\ wire = <<>> THEN "eof" ELSE "rejected")
  \/ r.out = "wait" /\ fin /\ End("closed", "eof")

(* The reply to a registration or a login cannot be written, which ends    *)
(* the session; ParsePacket ignores the errors of its own replies.         *)
Unanswered(r) == r.out \in {"more", "login"} /\ End("closed", "unanswered")

(* Mutant: the handler is called again after a deadline.                   *)
TimedOutRetries(r) ==
  /\ r.out = "wait" /\ ~fin
  /\ UNCHANGED <<device, wire, read, phase, carry, id, got, replies, greeted, why>>

(* The deadline of Authenticate (30 s) or ParsePacket (60 s).              *)
TimedOut(r) == r.out = "wait" /\ ~fin /\ End("closed", "timeout")

(* Nothing recovers: the panic takes the whole process down.               *)
Panicked(r) == r.out = "panic" /\ End("crashed", "panic")

(* What becomes of the session when the call has the result r.             *)
Take(r) ==
  \/ Register(r) \/ Authenticated(r) \/ Unanswered(r) \/ Parsed(r)
  \/ Failed(r) \/ TimedOut(r) \/ Panicked(r)

Serve == Open /\ beat' = ~beat /\ Take(Result)

Next == SendLogin \/ SendPacket \/ Lose \/ Serve

Spec == Init /\ [][Next]_vars

(* The goroutine is scheduled, and a deadline passes if nothing comes: the *)
(* weak fairness of Serve, which can be taken exactly while the session is *)
(* open, written out.                                                      *)
FairSpec == Spec /\ ([]<>~Open \/ []<><<beat' # beat>>_vars)
-----------------------------------------------------------------------------
(* Properties.                                                             *)

(* The number of packets that have been read to their end, and what the    *)
(* first k packets say.                                                    *)
Length(k)  == Len(FlattenSeq([i \in 1 .. k |-> sent[i].bytes]))
WhollyRead == Max({k \in 0 .. Len(sent) : Length(k) <= read})
Said(k)    == [i \in DOMAIN FlattenSeq([j \in 1 .. k |-> sent[j].recs]) |->
                 <<Identity[proto], FlattenSeq([j \in 1 .. k |-> sent[j].recs])[i]>>]
Asked(k)   == FlattenSeq([j \in 1 .. k |-> sent[j].acks])

(* Type correctness; what has been read and what is on the wire make up    *)
(* what was sent, but for a packet cut off.                                *)
TypeOK ==
  /\ proto \in Protocols
  /\ phase \in {"auth", "auth2", "parse", "closed", "crashed"}
  /\ {fin, beat} \subseteq BOOLEAN /\ cut \in BOOLEAN /\ overtaken \in BOOLEAN
  /\ why \in {"", "eof", "rejected", "timeout", "unanswered", "panic"}
  /\ (why = "") = Open
  /\ phase = "auth2" => carry # NoPacket
  /\ greeted <= Len(replies)
  /\ read + Len(wire) <= Length(Len(sent))
  /\ ~cut => read + Len(wire) = Length(Len(sent))

Refused(r) == r.out \in {"fail", "panic"}

(* The handler makes r of the packet p.  A whole packet is read to its end *)
(* and means what it says.  A defective one is refused, or the handler     *)
(* waits and refuses it together with the packet that follows.             *)
Read(p, r) == r = [out |-> "done", n |-> Len(p.bytes), recs |-> p.recs, replies |-> p.acks]

Unreadable(protocol, p, eof, r) ==
  \/ Refused(r)
  \/ /\ protocol \notin Text /\ r.out = "wait"
     /\ \A q \in Packets[protocol] :
          q.whole => Refused(ParsePacket(protocol, p.bytes \o q.bytes, eof))

Judged(protocol, p, eof, r) ==
  IF p.whole THEN Read(p, r) ELSE Unreadable(protocol, p, eof, r)

(* The last packet of a login, of which the handler makes r: the login is  *)
(* accepted or, when defective, refused.  A line reader may have accepted  *)
(* the first line of a defective one and refuses the rest.                 *)
Settles(protocol, p, r) ==
  \/ ~p.whole /\ Refused(r)
  \/ /\ r.out = "login" /\ r.id = Identity[protocol]
     /\ \/ p.whole /\ r.n = Len(p.bytes)
        \/ /\ ~p.whole /\ protocol \in Text
           /\ \A m \in r.n .. Len(p.bytes) - 1 : \A eof \in BOOLEAN :
                Refused(ParsePacket(protocol, SubSeq(p.bytes, m + 1, Len(p.bytes)), eof))

(* A login is one packet, or for JT808 a registration and then one.  The   *)
(* handler makes first of the first.                                       *)
LoggedIn(protocol, login, first) ==
  \/ Len(login) = 1 /\ Settles(protocol, login[1], first)
  \/ /\ Len(login) = 2 /\ protocol = "jt808" /\ login[1].whole
     /\ first.out = "more" /\ first.n = Len(login[1].bytes)
     /\ Settles(protocol, login[2], J!AuthSecond(first.pkt, login[2].bytes))

ReadAlone(protocol) ==
  \A eof \in BOOLEAN :
    /\ \A p \in Packets[protocol] :
         Judged(protocol, p, eof, ParsePacket(protocol, p.bytes, eof))
    /\ \A login \in Logins[protocol] :
         /\ LoggedIn(protocol, login, Authenticate(protocol, login[1].bytes, eof))
         /\ \A i \in DOMAIN login : login[i].recs = <<>> /\ login[i].acks = <<>>

(* AIS140, whose reader may begin in the middle of a line or meet the end  *)
(* of the connection there: the checksum tells a part of a line, or it is  *)
(* only the dollar that is missing.                                        *)
NoOther(p, n, r) == r.out = "done" => r.recs = <<>> \/ (r.recs = p.recs /\ r.n = n)

PartsRefused(protocol) ==
  protocol = "ais140" =>
    \A p \in Packets[protocol] \cup UNION {Range(login) : login \in Logins[protocol]} :
      /\ p.bytes[Len(p.bytes)] = A!Newline
      /\ \A a \in 0 .. Len(p.bytes) - 1, eof \in BOOLEAN :
           \A b \in p.cuts \cup {Len(p.bytes)} :
             NoOther(p, b - a, ParsePacket(protocol, SubSeq(p.bytes, a + 1, b), eof))

(* The handlers do the right thing with every packet on its own: its       *)
(* framing, checksum, decoding and reply, compared with what the packet is *)
(* said to contain.  This is a fact about the handlers and the packets of  *)
(* the instance, so it is enough to look at the beginning of a session.    *)
HandlersExact == \A protocol \in Protocols : ReadAlone(protocol) /\ PartsRefused(protocol)
ExactAlone    == sent = <<>> /\ ~fin /\ Open => ReadAlone(proto) /\ PartsRefused(proto)

(* Every position of every packet read reaches onRecord once, unaltered,   *)
(* in order and under the tracker's own id, whatever bytes it contains and *)
(* however packets are pipelined, and a packet that is whole is never      *)
(* refused and never makes the handler panic.  For the text protocols this *)
(* needs a tracker that sends a line only after the last was read, and no  *)
(* line cut off.                                                           *)
RecordsExact ==
  proto \notin Text \/ ~(cut \/ overtaken) =>
    /\ got = Said(WhollyRead)
    /\ why \in {"rejected", "panic"} =>
         WhollyRead < Len(sent) /\ ~sent[WhollyRead + 1].whole

(* JT808 and GT06 answer in ParsePacket: exactly the packets read to their *)
(* end have been answered, each with its own number.                       *)
AcksExact ==
  proto \in {"jt808", "gt06"} /\ greeted > 0 =>
    SubSeq(replies, greeted + 1, Len(replies)) = Asked(WhollyRead)

(* AIS140 loses lines when it reads ahead and may meet the rest of a line, *)
(* but its checksum and message types keep it from ever delivering a       *)
(* position that was not sent, or one twice, or two in the wrong order.    *)
TextNeverAltered ==
  proto = "ais140" =>
    LET said == Said(Len(sent))
    IN  \E at \in [DOMAIN got -> DOMAIN said] :
          /\ \A i \in DOMAIN got : got[i] = said[at[i]]
          /\ \A i, j \in DOMAIN got : i < j => at[i] < at[j]

(* A session ends, however a tracker falls silent, vanishes in the middle  *)
(* of a packet or closes between two (after at most MaxPackets packets).   *)
SessionEnds == <>~Open

(* The comment at the head of gt06/handler.go states the packet format: a  *)
(* packet in that format is not refused.                                   *)
DocumentedAccepted ==
  why = "rejected" => ~sent[WhollyRead + 1].documented
=============================================================================
