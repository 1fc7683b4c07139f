------------------------ MODULE DeviceSessionProofs ------------------------
(***************************************************************************)
(* Proofs about a tracker's connection: what has been read and what is on  *)
(* the wire make up what was sent, and what the handlers make of every     *)
(* packet on its own they make of it in the stream.                        *)
(***************************************************************************)
EXTENDS FramingProofs

-----------------------------------------------------------------------------
(* The bytes, positions and replies of the first k packets of ps.          *)
Data(ps, k) == FlattenSeq([i \in 1 .. k |-> ps[i].bytes])
Recs(ps, k) == FlattenSeq([i \in 1 .. k |-> ps[i].recs])
Acks(ps, k) == FlattenSeq([i \in 1 .. k |-> ps[i].acks])
Size(ps, k) == Len(Data(ps, k))

Good(ps, n) == n \in Nat /\ \A i \in 1 .. n : IsPacket(ps[i])

LEMMA PacketFacts ==
  ASSUME NEW p, IsPacket(p)
  PROVE  Stream(p.bytes) /\ Len(p.bytes) \in Nat /\ Len(p.bytes) > 0 /\ p.whole \in BOOLEAN
  <1>1. p.bytes \in Seq(Nat) /\ p.bytes # <<>> /\ p.whole \in BOOLEAN
    BY DEF IsPacket
  <1> DEFINE b == p.bytes
  <1> HIDE DEF b
  <1>2. Stream(b) /\ Len(b) \in Nat /\ Len(b) > 0
    BY <1>1 DEF Stream, b
  <1> QED BY <1>1, <1>2 DEF b

LEMMA CatAt ==
  ASSUME NEW X, NEW s, NEW t, s \in Seq(X), t \in Seq(X)
  PROVE  /\ Cat(s, t) \in Seq(X) /\ Len(Cat(s, t)) = Len(s) + Len(t)
         /\ Len(s) \in Nat /\ Len(t) \in Nat
         /\ \A i \in 1 .. Len(s) : Cat(s, t)[i] = s[i]
         /\ \A i \in 1 .. Len(t) : Cat(s, t)[Len(s) + i] = t[i]
  BY DEF Cat

LEMMA CatStream ==
  ASSUME NEW s, NEW t, Stream(s), Stream(t)
  PROVE  /\ Stream(Cat(s, t)) /\ Len(Cat(s, t)) = Len(s) + Len(t) /\ Len(s) \in Nat /\ Len(t) \in Nat
         /\ \A i \in 1 .. Len(s) : Cat(s, t)[i] = s[i]
         /\ \A i \in 1 .. Len(t) : Cat(s, t)[Len(s) + i] = t[i]
  BY DEF Cat, Stream

LEMMA DataZero ==
  ASSUME NEW ps
  PROVE  Data(ps, 0) = <<>> /\ Recs(ps, 0) = <<>> /\ Acks(ps, 0) = <<>>
  <1>1. /\ [i \in 1 .. 0 |-> ps[i].bytes] = <<>> /\ [i \in 1 .. 0 |-> ps[i].recs] = <<>>
        /\ [i \in 1 .. 0 |-> ps[i].acks] = <<>>
    OBVIOUS
  <1> QED BY <1>1, FlattenEmpty DEF Data, Recs, Acks

(* A sequence of sequences and its first k + 1.                            *)
LEMMA FlattenNext ==
  ASSUME NEW X, NEW k \in Nat, NEW ss, \A i \in 1 .. k + 1 : ss[i] \in Seq(X)
  PROVE  /\ Upto(ss, k + 1) = Cat(Upto(ss, k), ss[k + 1])
         /\ Upto(ss, k) \in Seq(X) /\ Upto(ss, k + 1) \in Seq(X)
  <1>1. Upto(ss, k + 1) = Cat(Upto(ss, k), ss[k + 1])
    BY UptoNext
  <1>2. \A j \in 0 .. k + 1 : Upto(ss, j) \in Seq(X)
    <2>1. k + 1 \in Nat
      OBVIOUS
    <2> QED BY <2>1, UptoType
  <1> QED BY <1>1, <1>2

LEMMA DataNext ==
  ASSUME NEW ps, NEW n, Good(ps, n), NEW k \in Nat, k < n
  PROVE  /\ Stream(Data(ps, k)) /\ Stream(Data(ps, k + 1))
         /\ Data(ps, k + 1) = Cat(Data(ps, k), ps[k + 1].bytes)
  <1> DEFINE ss == [i \in 1 .. k + 1 |-> ps[i].bytes]
  <1>1. \A i \in 1 .. k + 1 : ss[i] \in Seq(Nat)
    <2>1. \A i \in 1 .. k + 1 : IsPacket(ps[i])
      BY DEF Good
    <2>2. \A i \in 1 .. k + 1 : ps[i].bytes \in Seq(Nat)
      BY <2>1 DEF IsPacket
    <2> QED BY <2>2
  <1>2. ss[k + 1] = ps[k + 1].bytes
    OBVIOUS
  <1>3. Upto(ss, k) = Data(ps, k) /\ Upto(ss, k + 1) = Data(ps, k + 1)
    <2>1. /\ [i \in 1 .. k |-> ss[i]] = [i \in 1 .. k |-> ps[i].bytes]
          /\ [i \in 1 .. k + 1 |-> ss[i]] = [i \in 1 .. k + 1 |-> ps[i].bytes]
      OBVIOUS
    <2> HIDE DEF ss
    <2> QED BY <2>1 DEF Upto, Data
  <1> HIDE DEF ss
  <1>4. /\ Upto(ss, k + 1) = Cat(Upto(ss, k), ss[k + 1])
        /\ Upto(ss, k) \in Seq(Nat) /\ Upto(ss, k + 1) \in Seq(Nat)
    BY <1>1, FlattenNext
  <1> QED BY <1>2, <1>3, <1>4 DEF Stream

LEMMA RecsNext ==
  ASSUME NEW ps, NEW n, Good(ps, n), NEW k \in Nat, k < n
  PROVE  \E X : /\ Recs(ps, k) \in Seq(X) /\ ps[k + 1].recs \in Seq(X)
                /\ Recs(ps, k + 1) = Cat(Recs(ps, k), ps[k + 1].recs)
  <1> DEFINE ss == [i \in 1 .. k + 1 |-> ps[i].recs]
             X == UNION {Range(ps[i].recs) : i \in 1 .. k + 1}
  <1>1. \A i \in 1 .. k + 1 : ss[i] \in Seq(X)
    <2>1. \A i \in 1 .. k + 1 : IsPacket(ps[i])
      BY DEF Good
    <2>2. ASSUME NEW i \in 1 .. k + 1 PROVE ps[i].recs \in Seq(X)
      <3>1. ps[i].recs \in Seq(Range(ps[i].recs))
        BY <2>1 DEF IsPacket
      <3>2. Range(ps[i].recs) \subseteq X
        OBVIOUS
      <3> HIDE DEF X
      <3> QED BY <3>1, <3>2, SeqMonotonic
    <2> QED BY <2>2
  <1>2. ss[k + 1] = ps[k + 1].recs
    OBVIOUS
  <1>3. Upto(ss, k) = Recs(ps, k) /\ Upto(ss, k + 1) = Recs(ps, k + 1)
    <2>1. /\ [i \in 1 .. k |-> ss[i]] = [i \in 1 .. k |-> ps[i].recs]
          /\ [i \in 1 .. k + 1 |-> ss[i]] = [i \in 1 .. k + 1 |-> ps[i].recs]
      OBVIOUS
    <2> HIDE DEF ss
    <2> QED BY <2>1 DEF Upto, Recs
  <1> HIDE DEF ss, X
  <1>4. Upto(ss, k + 1) = Cat(Upto(ss, k), ss[k + 1]) /\ Upto(ss, k) \in Seq(X)
    BY <1>1, FlattenNext
  <1>5. ss[k + 1] \in Seq(X)
    BY <1>1
  <1> QED BY <1>2, <1>3, <1>4, <1>5

LEMMA AcksNext ==
  ASSUME NEW ps, NEW n, Good(ps, n), NEW k \in Nat, k < n
  PROVE  \E X : /\ Acks(ps, k) \in Seq(X) /\ ps[k + 1].acks \in Seq(X)
                /\ Acks(ps, k + 1) = Cat(Acks(ps, k), ps[k + 1].acks)
  <1> DEFINE ss == [i \in 1 .. k + 1 |-> ps[i].acks]
             X == UNION {Range(ps[i].acks) : i \in 1 .. k + 1}
  <1>1. \A i \in 1 .. k + 1 : ss[i] \in Seq(X)
    <2>1. \A i \in 1 .. k + 1 : IsPacket(ps[i])
      BY DEF Good
    <2>2. ASSUME NEW i \in 1 .. k + 1 PROVE ps[i].acks \in Seq(X)
      <3>1. ps[i].acks \in Seq(Range(ps[i].acks))
        BY <2>1 DEF IsPacket
      <3>2. Range(ps[i].acks) \subseteq X
        OBVIOUS
      <3> HIDE DEF X
      <3> QED BY <3>1, <3>2, SeqMonotonic
    <2> QED BY <2>2
  <1>2. ss[k + 1] = ps[k + 1].acks
    OBVIOUS
  <1>3. Upto(ss, k) = Acks(ps, k) /\ Upto(ss, k + 1) = Acks(ps, k + 1)
    <2>1. /\ [i \in 1 .. k |-> ss[i]] = [i \in 1 .. k |-> ps[i].acks]
          /\ [i \in 1 .. k + 1 |-> ss[i]] = [i \in 1 .. k + 1 |-> ps[i].acks]
      OBVIOUS
    <2> HIDE DEF ss
    <2> QED BY <2>1 DEF Upto, Acks
  <1> HIDE DEF ss, X
  <1>4. Upto(ss, k + 1) = Cat(Upto(ss, k), ss[k + 1]) /\ Upto(ss, k) \in Seq(X)
    BY <1>1, FlattenNext
  <1>5. ss[k + 1] \in Seq(X)
    BY <1>1
  <1> QED BY <1>2, <1>3, <1>4, <1>5

(* Only the first k packets matter.                                        *)
LEMMA DataSame ==
  ASSUME NEW ps, NEW qs, NEW k \in Nat, \A i \in 1 .. k : ps[i] = qs[i]
  PROVE  Data(ps, k) = Data(qs, k) /\ Recs(ps, k) = Recs(qs, k) /\ Acks(ps, k) = Acks(qs, k)
  <1>1. /\ [i \in 1 .. k |-> ps[i].bytes] = [i \in 1 .. k |-> qs[i].bytes]
        /\ [i \in 1 .. k |-> ps[i].recs] = [i \in 1 .. k |-> qs[i].recs]
        /\ [i \in 1 .. k |-> ps[i].acks] = [i \in 1 .. k |-> qs[i].acks]
    OBVIOUS
  <1> QED BY <1>1 DEF Data, Recs, Acks

(* Packet k + 1 follows the first k.                                       *)
LEMMA DataStep ==
  ASSUME NEW ps, NEW n, Good(ps, n), NEW k \in Nat, k < n
  PROVE  /\ Stream(Data(ps, k)) /\ Stream(Data(ps, k + 1)) /\ Prefix(Data(ps, k), Data(ps, k + 1))
         /\ Size(ps, k) \in Nat /\ Size(ps, k + 1) = Size(ps, k) + Len(ps[k + 1].bytes)
         /\ Len(ps[k + 1].bytes) \in Nat /\ Len(ps[k + 1].bytes) > 0
         /\ \A x \in 1 .. Len(ps[k + 1].bytes) :
              Data(ps, k + 1)[Size(ps, k) + x] = ps[k + 1].bytes[x]
  <1> DEFINE d == Data(ps, k)
             e == Data(ps, k + 1)
             b == ps[k + 1].bytes
  <1>1. Stream(d) /\ Stream(e) /\ e = Cat(d, b)
    BY DataNext
  <1>2. Stream(b) /\ Len(b) \in Nat /\ Len(b) > 0
    <2>1. IsPacket(ps[k + 1])
      BY DEF Good
    <2> QED BY <2>1, PacketFacts
  <1> HIDE DEF d, e, b
  <1>3. /\ Len(e) = Len(d) + Len(b) /\ Len(d) \in Nat
        /\ \A i \in 1 .. Len(d) : e[i] = d[i]
        /\ \A i \in 1 .. Len(b) : e[Len(d) + i] = b[i]
    BY <1>1, <1>2, CatStream
  <1>4. Prefix(d, e)
    BY <1>2, <1>3 DEF Prefix
  <1> QED BY <1>1, <1>2, <1>3, <1>4 DEF d, e, b, Size

(* The first i packets begin what the first j say, and are shorter.        *)
LEMMA DataPrefix ==
  ASSUME NEW ps, NEW n, Good(ps, n)
  PROVE  \A j \in 0 .. n : \A i \in 0 .. j :
           /\ Stream(Data(ps, i)) /\ Stream(Data(ps, j)) /\ Prefix(Data(ps, i), Data(ps, j))
           /\ Size(ps, i) \in Nat /\ Size(ps, j) \in Nat
           /\ i = j \/ Size(ps, i) < Size(ps, j)
  <1> DEFINE Fine(i, j) ==
               /\ Stream(Data(ps, i)) /\ Stream(Data(ps, j)) /\ Prefix(Data(ps, i), Data(ps, j))
               /\ Size(ps, i) \in Nat /\ Size(ps, j) \in Nat
               /\ i = j \/ Size(ps, i) < Size(ps, j)
             S == {j \in Nat : j <= n => \A i \in 0 .. j : Fine(i, j)}
  <1>0. n \in Nat
    BY DEF Good
  <1>1. \A d : Stream(d) => Len(d) \in Nat /\ Prefix(d, d)
    BY DEF Stream, Prefix
  <1>2. Stream(Data(ps, 0)) /\ Size(ps, 0) \in Nat
    <2>1. Stream(<<>>)
      BY DEF Stream
    <2> QED BY <1>1, <2>1, DataZero DEF Size
  <1>3. 0 \in S
    <2>1. Fine(0, 0)
      BY <1>1, <1>2
    <2> HIDE DEF Fine
    <2> QED BY <2>1
  <1>4. ASSUME NEW j \in Nat, j \in S PROVE j + 1 \in S
    <2> SUFFICES ASSUME j + 1 <= n, NEW i \in 0 .. j + 1 PROVE Fine(i, j + 1)
      OBVIOUS
    <2>1. /\ Stream(Data(ps, j)) /\ Stream(Data(ps, j + 1))
          /\ Prefix(Data(ps, j), Data(ps, j + 1))
          /\ Size(ps, j) \in Nat /\ Size(ps, j + 1) = Size(ps, j) + Len(ps[j + 1].bytes)
          /\ Len(ps[j + 1].bytes) \in Nat /\ Len(ps[j + 1].bytes) > 0
      BY <1>0, DataStep
    <2>2. Size(ps, j + 1) \in Nat /\ Size(ps, j) < Size(ps, j + 1)
      BY <2>1
    <2>3. CASE i = j + 1
      BY <1>1, <2>1, <2>2, <2>3
    <2>4. CASE i # j + 1
      <3>1. i \in 0 .. j /\ j <= n
        BY <1>0, <2>4
      <3>2. Fine(i, j)
        <4> HIDE DEF Fine
        <4> QED BY <1>4, <3>1
      <3>3. Prefix(Data(ps, i), Data(ps, j + 1))
        <4> DEFINE x == Data(ps, i)
                   y == Data(ps, j)
                   z == Data(ps, j + 1)
        <4>1. Stream(x) /\ Stream(y) /\ Stream(z) /\ Prefix(x, y) /\ Prefix(y, z)
          BY <2>1, <3>2
        <4> HIDE DEF x, y, z
        <4>2. /\ Len(x) \in Nat /\ Len(y) \in Nat /\ Len(z) \in Nat
              /\ Len(x) <= Len(y) /\ Len(y) <= Len(z)
              /\ \A m \in 1 .. Len(x) : y[m] = x[m]
              /\ \A m \in 1 .. Len(y) : z[m] = y[m]
          BY <4>1, PrefixAt
        <4>3. Prefix(x, z)
          BY <4>2 DEF Prefix
        <4> QED BY <4>3 DEF x, y, z
      <3> QED BY <2>1, <2>2, <3>2, <3>3
    <2> QED BY <2>3, <2>4
  <1> HIDE DEF Fine
  <1>5. Nat \subseteq S
    <2> HIDE DEF S
    <2> QED BY <1>3, <1>4, Induct
  <1>6. \A j \in 0 .. n : \A i \in 0 .. j : Fine(i, j)
    BY <1>0, <1>5
  <1> QED BY <1>6 DEF Fine

(* Where packet k + 1 is found among the bytes of the first n.             *)
LEMMA DataAt ==
  ASSUME NEW ps, NEW n, Good(ps, n), NEW k \in Nat, k < n
  PROVE  \A x \in 1 .. Len(ps[k + 1].bytes) : Data(ps, n)[Size(ps, k) + x] = ps[k + 1].bytes[x]
  <1>1. /\ Size(ps, k) \in Nat /\ Size(ps, k + 1) = Size(ps, k) + Len(ps[k + 1].bytes)
        /\ Len(ps[k + 1].bytes) \in Nat
        /\ \A x \in 1 .. Len(ps[k + 1].bytes) :
             Data(ps, k + 1)[Size(ps, k) + x] = ps[k + 1].bytes[x]
    BY DataStep
  <1>2. Stream(Data(ps, k + 1)) /\ Stream(Data(ps, n)) /\ Prefix(Data(ps, k + 1), Data(ps, n))
    <2>1. n \in 0 .. n /\ k + 1 \in 0 .. n
      BY DEF Good
    <2> QED BY <2>1, DataPrefix
  <1>3. \A i \in 1 .. Size(ps, k + 1) : Data(ps, n)[i] = Data(ps, k + 1)[i]
    BY <1>2, PrefixAt DEF Size
  <1>4. \A x \in 1 .. Len(ps[k + 1].bytes) : Size(ps, k) + x \in 1 .. Size(ps, k + 1)
    BY <1>1
  <1> QED BY <1>1, <1>3, <1>4

-----------------------------------------------------------------------------
(* w is what follows after r of the bytes of the first n packets.          *)
Carries(ps, n, w, r) ==
  /\ Stream(w) /\ r \in Nat
  /\ r + Len(w) <= Size(ps, n)
  /\ \A i \in 1 .. Len(w) : w[i] = Data(ps, n)[r + i]

Rest(w, m) == SubSeq(w, m + 1, Len(w))

LEMMA RestAt ==
  ASSUME NEW w, Stream(w), NEW m \in 0 .. Len(w)
  PROVE  /\ Stream(Rest(w, m)) /\ Len(Rest(w, m)) = Len(w) - m
         /\ \A i \in 1 .. Len(w) - m : Rest(w, m)[i] = w[m + i]
  <1> DEFINE s == SubSeq(w, m + 1, Len(w))
  <1>1. Len(w) \in Nat /\ \A i \in m + 1 .. Len(w) : w[i] \in Nat
    BY StreamAt
  <1>2. /\ s \in Seq(Nat) /\ Len(s) = (IF m + 1 <= Len(w) THEN Len(w) - (m + 1) + 1 ELSE 0)
        /\ \A i \in 1 .. Len(w) - (m + 1) + 1 : s[i] = w[(m + 1) + i - 1]
    BY <1>1, SubSeqProperties
  <1> HIDE DEF s
  <1>3. Stream(s) /\ Len(s) = Len(w) - m /\ \A i \in 1 .. Len(w) - m : s[i] = w[m + i]
    BY <1>1, <1>2 DEF Stream
  <1> QED BY <1>3 DEF s, Rest

LEMMA CarryConsume ==
  ASSUME NEW ps, NEW n, NEW w, NEW r, Carries(ps, n, w, r), Size(ps, n) \in Nat,
         NEW m \in 0 .. Len(w)
  PROVE  Carries(ps, n, Rest(w, m), r + m) /\ (r + m) + Len(Rest(w, m)) = r + Len(w)
  <1> DEFINE s == Rest(w, m)
  <1>1. /\ Stream(w) /\ r \in Nat /\ r + Len(w) <= Size(ps, n)
        /\ \A i \in 1 .. Len(w) : w[i] = Data(ps, n)[r + i]
    BY DEF Carries
  <1>2. Len(w) \in Nat
    BY <1>1, StreamAt
  <1>3. Stream(s) /\ Len(s) = Len(w) - m /\ \A i \in 1 .. Len(w) - m : s[i] = w[m + i]
    BY <1>1, RestAt
  <1> HIDE DEF s
  <1>4. \A i \in 1 .. Len(s) : s[i] = Data(ps, n)[(r + m) + i]
    <2>1. \A i \in 1 .. Len(s) : m + i \in 1 .. Len(w) /\ r + (m + i) = (r + m) + i
      BY <1>1, <1>2, <1>3
    <2> QED BY <1>1, <1>2, <1>3, <2>1
  <1>5. Carries(ps, n, s, r + m) /\ (r + m) + Len(s) = r + Len(w)
    BY <1>1, <1>2, <1>3, <1>4 DEF Carries
  <1> QED BY <1>5 DEF s

(* The bytes b of one more packet, the last of which may be missing.       *)
LEMMA CarryAppend ==
  ASSUME NEW ps, NEW n, Good(ps, n + 1), n \in Nat, NEW w, NEW r, Carries(ps, n, w, r),
         r + Len(w) = Size(ps, n),
         NEW b, Stream(b), Prefix(b, ps[n + 1].bytes)
  PROVE  Carries(ps, n + 1, Cat(w, b), r) /\ r + Len(Cat(w, b)) = Size(ps, n) + Len(b)
  <1> DEFINE c == Cat(w, b)
             d == ps[n + 1].bytes
  <1>1. /\ Stream(w) /\ r \in Nat
        /\ \A i \in 1 .. Len(w) : w[i] = Data(ps, n)[r + i]
    BY DEF Carries
  <1>2. /\ Stream(Data(ps, n)) /\ Stream(Data(ps, n + 1)) /\ Prefix(Data(ps, n), Data(ps, n + 1))
        /\ Size(ps, n) \in Nat /\ Size(ps, n + 1) = Size(ps, n) + Len(d)
        /\ Len(d) \in Nat /\ \A x \in 1 .. Len(d) : Data(ps, n + 1)[Size(ps, n) + x] = d[x]
    BY DataStep
  <1>3. \A i \in 1 .. Size(ps, n) : Data(ps, n + 1)[i] = Data(ps, n)[i]
    BY <1>2, PrefixAt DEF Size
  <1>4. /\ Stream(c) /\ Len(c) = Len(w) + Len(b) /\ Len(w) \in Nat /\ Len(b) \in Nat
        /\ \A i \in 1 .. Len(w) : c[i] = w[i]
        /\ \A i \in 1 .. Len(b) : c[Len(w) + i] = b[i]
    BY <1>1, CatStream
  <1>5. Len(b) <= Len(d) /\ \A i \in 1 .. Len(b) : d[i] = b[i]
    BY DEF Prefix
  <1> HIDE DEF c, d
  <1>6. ASSUME NEW i \in 1 .. Len(c) PROVE c[i] = Data(ps, n + 1)[r + i]
    <2>1. CASE i <= Len(w)
      <3>1. i \in 1 .. Len(w) /\ r + i \in 1 .. Size(ps, n)
        BY <1>1, <1>2, <1>4, <2>1
      <3> QED BY <1>1, <1>3, <1>4, <3>1
    <2>2. CASE i > Len(w)
      <3> DEFINE x == i - Len(w)
      <3>1. x \in 1 .. Len(b) /\ i = Len(w) + x /\ r + i = Size(ps, n) + x /\ x \in 1 .. Len(d)
        BY <1>1, <1>2, <1>4, <1>5, <2>2
      <3> HIDE DEF x
      <3> QED BY <1>2, <1>4, <1>5, <3>1
    <2> QED BY <1>4, <2>1, <2>2
  <1>7. Carries(ps, n + 1, c, r) /\ r + Len(c) = Size(ps, n) + Len(b)
    BY <1>1, <1>2, <1>4, <1>5, <1>6 DEF Carries
  <1> QED BY <1>7 DEF c

LEMMA CarrySame ==
  ASSUME NEW ps, NEW qs, NEW n \in Nat, \A i \in 1 .. n : ps[i] = qs[i],
         NEW w, NEW r, Carries(ps, n, w, r)
  PROVE  Carries(qs, n, w, r) /\ Size(qs, n) = Size(ps, n)
  <1>1. Data(ps, n) = Data(qs, n)
    BY DataSame
  <1> QED BY <1>1 DEF Carries, Size

(* One of the two is the beginning of the other.                           *)
Alike(w, c) == Prefix(w, c) \/ Prefix(c, w)

LEMMA CarryAlike ==
  ASSUME NEW ps, NEW n, NEW w, NEW r, Carries(ps, n, w, r), Size(ps, n) \in Nat,
         NEW c, Stream(c), \A x \in 1 .. Len(c) : c[x] = Data(ps, n)[r + x] \/ x > Len(w)
  PROVE  Alike(w, c)
  <1>1. /\ Stream(w) /\ r \in Nat /\ \A i \in 1 .. Len(w) : w[i] = Data(ps, n)[r + i]
    BY DEF Carries
  <1>2. Len(w) \in Nat /\ Len(c) \in Nat
    BY <1>1, StreamAt
  <1>3. CASE Len(w) <= Len(c)
    BY <1>1, <1>2, <1>3 DEF Alike, Prefix
  <1>4. CASE Len(c) <= Len(w)
    BY <1>1, <1>2, <1>4 DEF Alike, Prefix
  <1> QED BY <1>2, <1>3, <1>4

(* On the wire is the rest of the packet that is being read, or as much of *)
(* it as has arrived.                                                      *)
LEMMA CarryRest ==
  ASSUME NEW ps, NEW n, Good(ps, n), NEW k \in Nat, k < n, NEW a \in 0 .. Len(ps[k + 1].bytes),
         NEW w, Carries(ps, n, w, Size(ps, k) + a)
  PROVE  Alike(w, Rest(ps[k + 1].bytes, a))
  <1> DEFINE b == ps[k + 1].bytes
             c == Rest(b, a)
  <1>1. \A x \in 1 .. Len(b) : Data(ps, n)[Size(ps, k) + x] = b[x]
    BY DataAt
  <1>2. Stream(b) /\ Len(b) \in Nat
    <2>1. IsPacket(ps[k + 1])
      BY DEF Good
    <2> QED BY <2>1, PacketFacts
  <1>3. Size(ps, k) \in Nat /\ Size(ps, n) \in Nat
    <2>1. n \in 0 .. n /\ k \in 0 .. n
      BY DEF Good
    <2> QED BY <2>1, DataPrefix
  <1> HIDE DEF b
  <1>4. a \in 0 .. Len(b)
    BY DEF b
  <1>5. Stream(c) /\ Len(c) = Len(b) - a /\ \A x \in 1 .. Len(b) - a : c[x] = b[a + x]
    BY <1>2, <1>4, RestAt
  <1> HIDE DEF c
  <1>6. \A x \in 1 .. Len(c) : c[x] = Data(ps, n)[(Size(ps, k) + a) + x]
    <2>1. \A x \in 1 .. Len(c) : a + x \in 1 .. Len(b) /\ Size(ps, k) + (a + x) = (Size(ps, k) + a) + x
      BY <1>2, <1>3, <1>4, <1>5
    <2> QED BY <1>1, <1>5, <2>1
  <1>7. Alike(w, c)
    BY <1>3, <1>5, <1>6, CarryAlike
  <1> QED BY <1>7 DEF b, c

LEMMA CarryPacket ==
  ASSUME NEW ps, NEW n, Good(ps, n), NEW k \in Nat, k < n, NEW w, Carries(ps, n, w, Size(ps, k))
  PROVE  Alike(w, ps[k + 1].bytes)
  <1> DEFINE b == ps[k + 1].bytes
  <1>1. \A x \in 1 .. Len(b) : b[x] = Data(ps, n)[Size(ps, k) + x]
    BY DataAt
  <1>2. Stream(b)
    <2>1. IsPacket(ps[k + 1])
      BY DEF Good
    <2> QED BY <2>1, PacketFacts
  <1>3. Size(ps, n) \in Nat
    <2>1. n \in 0 .. n
      BY DEF Good
    <2> QED BY <2>1, DataPrefix
  <1> HIDE DEF b
  <1>4. Alike(w, b)
    BY <1>1, <1>2, <1>3, CarryAlike
  <1> QED BY <1>4 DEF b

(* The packet that is being read and the one after it.                     *)
LEMMA CarryTwo ==
  ASSUME NEW ps, NEW n, Good(ps, n), NEW k \in Nat, k + 1 < n, NEW w, Carries(ps, n, w, Size(ps, k))
  PROVE  /\ Alike(w, Cat(ps[k + 1].bytes, ps[k + 2].bytes))
         /\ Stream(Cat(ps[k + 1].bytes, ps[k + 2].bytes))
  <1> DEFINE b == ps[k + 1].bytes
             c == ps[k + 2].bytes
             d == Cat(b, c)
  <1>1. \A x \in 1 .. Len(b) : Data(ps, n)[Size(ps, k) + x] = b[x]
    BY DataAt DEF Good
  <1>2. \A x \in 1 .. Len(c) : Data(ps, n)[Size(ps, k + 1) + x] = c[x]
    <2>1. k + 1 \in Nat /\ (k + 1) + 1 = k + 2
      OBVIOUS
    <2> QED BY <2>1, DataAt
  <1>3. /\ Size(ps, k) \in Nat /\ Size(ps, k + 1) = Size(ps, k) + Len(b)
    BY DataStep DEF Good
  <1>4. Stream(b) /\ Stream(c) /\ Len(b) \in Nat /\ Len(c) \in Nat
    <2>1. IsPacket(ps[k + 1]) /\ IsPacket(ps[k + 2])
      BY DEF Good
    <2> QED BY <2>1, PacketFacts
  <1>5. Size(ps, n) \in Nat
    <2>1. n \in 0 .. n
      BY DEF Good
    <2> QED BY <2>1, DataPrefix
  <1> HIDE DEF b, c
  <1>6. /\ Stream(d) /\ Len(d) = Len(b) + Len(c)
        /\ \A i \in 1 .. Len(b) : d[i] = b[i]
        /\ \A i \in 1 .. Len(c) : d[Len(b) + i] = c[i]
    BY <1>4, CatStream
  <1> HIDE DEF d
  <1>7. ASSUME NEW i \in 1 .. Len(d) PROVE d[i] = Data(ps, n)[Size(ps, k) + i]
    <2>1. CASE i <= Len(b)
      BY <1>1, <1>4, <1>6, <2>1
    <2>2. CASE i > Len(b)
      <3> DEFINE x == i - Len(b)
      <3>1. x \in 1 .. Len(c) /\ i = Len(b) + x /\ Size(ps, k) + i = Size(ps, k + 1) + x
        BY <1>3, <1>4, <1>6, <2>2
      <3> HIDE DEF x
      <3> QED BY <1>2, <1>6, <3>1
    <2> QED BY <1>4, <2>1, <2>2
  <1>8. Alike(w, d)
    BY <1>5, <1>6, <1>7, CarryAlike
  <1> QED BY <1>6, <1>8 DEF b, c, d

-----------------------------------------------------------------------------
(* Type correctness.                                                       *)
Tracker(protocol) == Packets[protocol] \cup UNION {Range(login) : login \in Logins[protocol]}

LEMMA TrackerPackets ==
  ASSUME NEW protocol \in Protocols
  PROVE  /\ \A p \in Tracker(protocol) : IsPacket(p)
         /\ \A login \in Logins[protocol] : /\ login \in Seq(Tracker(protocol)) /\ login # <<>>
                                            /\ Len(login) \in Nat /\ Len(login) > 0
  <1>1. ASSUME NEW login \in Logins[protocol]
        PROVE  /\ \A p \in Range(login) : IsPacket(p)
               /\ login \in Seq(Tracker(protocol)) /\ login # <<>>
               /\ Len(login) \in Nat /\ Len(login) > 0
    <2>1. /\ login \in Seq(Range(login)) /\ login # <<>>
          /\ \A i \in DOMAIN login : IsPacket(login[i])
      BY TrackerAssumption
    <2>2. \A p \in Range(login) : IsPacket(p)
      BY <2>1 DEF Range
    <2>3. Range(login) \subseteq Tracker(protocol)
      BY DEF Tracker
    <2>4. login \in Seq(Tracker(protocol))
      <3> DEFINE X == Range(login)
                 Y == Tracker(protocol)
      <3>1. login \in Seq(X) /\ X \subseteq Y
        BY <2>1, <2>3
      <3> HIDE DEF X, Y
      <3>2. login \in Seq(Y)
        BY <3>1, SeqMonotonic
      <3> QED BY <3>2 DEF Y
    <2>5. Len(login) \in Nat /\ Len(login) > 0
      <3> DEFINE Y == Tracker(protocol)
      <3> HIDE DEF Y
      <3>1. login \in Seq(Y) /\ login # <<>>
        BY <2>1, <2>4 DEF Y
      <3> QED BY <3>1
    <2> QED BY <2>1, <2>2, <2>4, <2>5
  <1>2. \A p \in Packets[protocol] : IsPacket(p)
    BY TrackerAssumption
  <1>3. \A p \in Tracker(protocol) : IsPacket(p)
    BY <1>1, <1>2 DEF Tracker
  <1> QED BY <1>1, <1>3

LEMMA CatIsSeq ==
  ASSUME NEW s, NEW t, IsSeq(s), IsSeq(t)
  PROVE  /\ IsSeq(Cat(s, t)) /\ Len(Cat(s, t)) = Len(s) + Len(t)
         /\ Len(s) \in Nat /\ Len(t) \in Nat
         /\ \A i \in 1 .. Len(s) : Cat(s, t)[i] = s[i]
         /\ \A i \in 1 .. Len(t) : Cat(s, t)[Len(s) + i] = t[i]
  <1>1. PICK S, U : s \in Seq(S) /\ t \in Seq(U)
    BY DEF IsSeq
  <1> DEFINE X == S \cup U
  <1>2. S \subseteq X /\ U \subseteq X
    OBVIOUS
  <1> HIDE DEF X
  <1>3. s \in Seq(X) /\ t \in Seq(X)
    BY <1>1, <1>2, SeqMonotonic
  <1> QED BY <1>3, CatAt DEF IsSeq

(* A packet is sent, the last bytes of which may be missing.               *)
LEMMA CarryNext ==
  ASSUME NEW n \in Nat, NEW ps, Good(ps, n), NEW qs, \A i \in 1 .. n : qs[i] = ps[i],
         NEW p, IsPacket(p), qs[n + 1] = p, NEW w, NEW r,
         Carries(ps, n, w, r), r + Len(w) = Size(ps, n),
         NEW b, Stream(b), Prefix(b, p.bytes)
  PROVE  /\ Good(qs, n + 1) /\ Carries(qs, n + 1, Cat(w, b), r)
         /\ Size(qs, n) = Size(ps, n) /\ r + Len(Cat(w, b)) = Size(ps, n) + Len(b)
         /\ Size(qs, n + 1) = Size(ps, n) + Len(p.bytes)
  <1>1. Good(qs, n + 1)
    <2>1. \A i \in 1 .. n + 1 : i \in 1 .. n \/ i = n + 1
      OBVIOUS
    <2>2. \A i \in 1 .. n : IsPacket(qs[i])
      BY DEF Good
    <2> QED BY <2>1, <2>2 DEF Good
  <1>2. Carries(qs, n, w, r) /\ Size(qs, n) = Size(ps, n)
    <2>1. \A i \in 1 .. n : ps[i] = qs[i]
      OBVIOUS
    <2> QED BY <2>1, CarrySame
  <1>3. Carries(qs, n + 1, Cat(w, b), r) /\ r + Len(Cat(w, b)) = Size(qs, n) + Len(b)
    BY <1>1, <1>2, CarryAppend
  <1>4. Size(qs, n + 1) = Size(qs, n) + Len(p.bytes)
    BY <1>1, DataStep
  <1> QED BY <1>1, <1>2, <1>3, <1>4

(* qs is ps and then p.                                                    *)
Longer(ps, qs, p) ==
  /\ Len(ps) \in Nat /\ Len(qs) = Len(ps) + 1
  /\ \A i \in 1 .. Len(ps) : qs[i] = ps[i]
  /\ qs[Len(ps) + 1] = p

LEMMA LongerAppend ==
  ASSUME NEW X, NEW ps \in Seq(X), NEW p \in X
  PROVE  Longer(ps, Append(ps, p), p) /\ Append(ps, p) \in Seq(X)
  <1>1. Append(ps, p) \in Seq(X) /\ Len(Append(ps, p)) = Len(ps) + 1 /\ Len(ps) \in Nat
    BY AppendProperties, LenProperties
  <1>2. \A i \in 1 .. Len(ps) : Append(ps, p)[i] = ps[i]
    BY AppendProperties
  <1>3. Append(ps, p)[Len(ps) + 1] = p
    BY AppendProperties
  <1> QED BY <1>1, <1>2, <1>3 DEF Longer

LEMMA CarrySend ==
  ASSUME NEW ps, NEW qs, NEW p, Longer(ps, qs, p), Good(ps, Len(ps)), IsPacket(p), NEW w, NEW r,
         Carries(ps, Len(ps), w, r), r + Len(w) = Size(ps, Len(ps)),
         NEW b, Stream(b), Prefix(b, p.bytes)
  PROVE  /\ Good(qs, Len(qs)) /\ Carries(qs, Len(qs), Cat(w, b), r)
         /\ r + Len(Cat(w, b)) = Size(ps, Len(ps)) + Len(b)
         /\ Size(qs, Len(ps)) = Size(ps, Len(ps))
         /\ Size(qs, Len(qs)) = Size(ps, Len(ps)) + Len(p.bytes)
  <1> DEFINE n == Len(ps)
  <1>1. /\ n \in Nat /\ Good(ps, n) /\ \A i \in 1 .. n : qs[i] = ps[i]
        /\ qs[n + 1] = p /\ Carries(ps, n, w, r) /\ r + Len(w) = Size(ps, n)
        /\ Len(qs) = n + 1
    BY DEF Longer
  <1> HIDE DEF n
  <1>2. /\ Good(qs, n + 1) /\ Carries(qs, n + 1, Cat(w, b), r)
        /\ Size(qs, n) = Size(ps, n) /\ r + Len(Cat(w, b)) = Size(ps, n) + Len(b)
        /\ Size(qs, n + 1) = Size(ps, n) + Len(p.bytes)
    BY <1>1, CarryNext
  <1> QED BY <1>1, <1>2 DEF n

WireInv ==
  /\ proto \in Protocols
  /\ sent \in Seq(Tracker(proto)) /\ plan \in Seq(Tracker(proto))
  /\ Carries(sent, Len(sent), wire, read)
  /\ ~cut => read + Len(wire) = Size(sent, Len(sent))
  /\ cut => fin

ControlInv ==
  /\ phase \in {"auth", "auth2", "parse", "closed", "crashed"}
  /\ fin \in BOOLEAN /\ beat \in BOOLEAN /\ cut \in BOOLEAN /\ overtaken \in BOOLEAN
  /\ why \in {"", "eof", "rejected", "timeout", "unanswered", "panic"}
  /\ (why = "") = Open
  /\ phase = "auth2" => carry # NoPacket
  /\ IsSeq(replies) /\ greeted \in Nat /\ greeted <= Len(replies)

TypeInv == WireInv /\ ControlInv

LEMMA SentGood ==
  ASSUME WireInv
  PROVE  /\ Good(sent, Len(sent)) /\ Size(sent, Len(sent)) \in Nat
         /\ Stream(wire) /\ Len(wire) \in Nat /\ read \in Nat /\ Len(sent) \in Nat
         /\ \A i \in 1 .. Len(sent) : sent[i] \in Tracker(proto)
  <1>1. sent \in Seq(Tracker(proto)) /\ proto \in Protocols
    BY DEF WireInv
  <1> DEFINE X == Tracker(proto)
  <1>2. sent \in Seq(X) /\ \A p \in X : IsPacket(p)
    BY <1>1, TrackerPackets
  <1> HIDE DEF X
  <1>3. Len(sent) \in Nat /\ \A i \in 1 .. Len(sent) : sent[i] \in X
    BY <1>2
  <1>4. Good(sent, Len(sent))
    BY <1>2, <1>3 DEF Good
  <1>5. Size(sent, Len(sent)) \in Nat
    <2>1. Len(sent) \in 0 .. Len(sent)
      BY <1>3
    <2> QED BY <1>4, <2>1, DataPrefix
  <1>6. Stream(wire) /\ read \in Nat
    BY DEF WireInv, Carries
  <1> QED BY <1>3, <1>4, <1>5, <1>6, StreamAt DEF X

LEMMA TypeInvOK ==
  ASSUME TypeInv PROVE TypeOK
  <1>1. Length(Len(sent)) = Size(sent, Len(sent))
    BY DEF Length, Size, Data
  <1>2. read + Len(wire) <= Length(Len(sent))
    BY <1>1 DEF TypeInv, WireInv, Carries
  <1>3. ~cut => read + Len(wire) = Length(Len(sent))
    BY <1>1 DEF TypeInv, WireInv
  <1> QED BY <1>2, <1>3 DEF TypeInv, WireInv, ControlInv, TypeOK

LEMMA TypeInit ==
  ASSUME Init PROVE TypeInv
  <1>1. proto \in Protocols /\ plan \in Logins[proto]
    BY DEF Init
  <1>2. plan \in Seq(Tracker(proto))
    BY <1>1, TrackerPackets
  <1>3. sent = <<>> /\ wire = <<>> /\ read = 0 /\ replies = <<>> /\ cut = FALSE
    BY DEF Init
  <1>4. Len(<<>>) = 0 /\ Stream(<<>>)
    BY DEF Stream
  <1>5. Carries(sent, Len(sent), wire, read) /\ read + Len(wire) = Size(sent, Len(sent))
    <2>1. Data(sent, 0) = <<>>
      BY DataZero
    <2>2. Size(sent, 0) = 0
      BY <1>4, <2>1 DEF Size
    <2> QED BY <1>3, <1>4, <2>2 DEF Carries
  <1>6. sent \in Seq(Tracker(proto))
    BY <1>3, EmptySeq
  <1>7. WireInv
    BY <1>1, <1>2, <1>3, <1>5, <1>6 DEF WireInv
  <1>8. IsSeq(replies) /\ Len(replies) = 0
    BY <1>3, <1>4, NothingSeq
  <1>9. ControlInv
    <2>1. /\ phase = "auth" /\ why = "" /\ greeted = 0
          /\ fin = FALSE /\ beat = FALSE /\ cut = FALSE /\ overtaken = FALSE
      BY DEF Init
    <2>2. (why = "") = Open
      BY <2>1 DEF Open
    <2>3. greeted \in Nat /\ greeted <= Len(replies)
      <3>1. greeted = 0 /\ Len(replies) = 0
        BY <1>8 DEF Init
      <3> QED BY <3>1
    <2> QED BY <1>8, <2>1, <2>2, <2>3 DEF ControlInv
  <1> QED BY <1>7, <1>9 DEF TypeInv

(* The rest of a step of the tracker, once p is sent.                      *)
LEMMA Sends ==
  ASSUME TypeInv, ~cut, NEW p \in Tracker(proto), NEW b, Stream(b), Prefix(b, p.bytes),
         sent' = Append(sent, p), wire' = wire \o b, proto' = proto, read' = read
  PROVE  /\ sent' \in Seq(Tracker(proto')) /\ Longer(sent, sent', p)
         /\ Carries(sent', Len(sent'), wire', read')
         /\ read' + Len(wire') = Size(sent, Len(sent)) + Len(b)
         /\ Size(sent', Len(sent')) = Size(sent, Len(sent)) + Len(p.bytes)
         /\ Size(sent', Len(sent)) = Size(sent, Len(sent))
  <1>1. /\ proto \in Protocols /\ sent \in Seq(Tracker(proto))
        /\ Carries(sent, Len(sent), wire, read) /\ read + Len(wire) = Size(sent, Len(sent))
    BY DEF TypeInv, WireInv
  <1>2. IsPacket(p)
    BY <1>1, TrackerPackets
  <1>3. Longer(sent, sent', p) /\ sent' \in Seq(Tracker(proto))
    BY <1>1, LongerAppend
  <1>4. Good(sent, Len(sent))
    BY SentGood DEF TypeInv
  <1>5. wire' = Cat(wire, b)
    BY DEF Cat
  <1> DEFINE qs == sent'
             w == wire'
  <1>6. Longer(sent, qs, p) /\ w = Cat(wire, b)
    BY <1>3, <1>5
  <1> HIDE DEF qs, w
  <1>7. /\ Carries(qs, Len(qs), Cat(wire, b), read)
        /\ read + Len(Cat(wire, b)) = Size(sent, Len(sent)) + Len(b)
        /\ Size(qs, Len(sent)) = Size(sent, Len(sent))
        /\ Size(qs, Len(qs)) = Size(sent, Len(sent)) + Len(p.bytes)
    BY <1>1, <1>2, <1>4, <1>6, CarrySend
  <1>8. /\ Carries(qs, Len(qs), w, read')
        /\ read' + Len(w) = Size(sent, Len(sent)) + Len(b)
    BY <1>6, <1>7
  <1> QED BY <1>3, <1>7, <1>8 DEF qs, w

LEMMA Transmits ==
  ASSUME TypeInv, ~fin, NEW p \in Tracker(proto), NEW rest \in Seq(Tracker(proto)),
         Transmit(p, rest)
  PROVE  TypeInv'
  <1>1. /\ sent' = Append(sent, p) /\ wire' = wire \o p.bytes /\ plan' = rest
        /\ proto' = proto /\ fin' = fin /\ cut' = cut /\ read' = read
    BY DEF Transmit
  <1>2. ~cut
    BY DEF TypeInv, WireInv
  <1>3. Stream(p.bytes) /\ Prefix(p.bytes, p.bytes)
    <2>1. IsPacket(p)
      BY TrackerPackets DEF TypeInv, WireInv
    <2>2. Stream(p.bytes) /\ Len(p.bytes) \in Nat
      BY <2>1, PacketFacts
    <2> QED BY <2>2 DEF Prefix
  <1>4. /\ sent' \in Seq(Tracker(proto')) /\ Carries(sent', Len(sent'), wire', read')
        /\ read' + Len(wire') = Size(sent, Len(sent)) + Len(p.bytes)
        /\ Size(sent', Len(sent')) = Size(sent, Len(sent)) + Len(p.bytes)
    BY <1>1, <1>2, <1>3, Sends
  <1>5. WireInv'
    BY <1>1, <1>2, <1>4 DEF TypeInv, WireInv
  <1>6. ControlInv'
    <2>1. /\ UNCHANGED session /\ fin' = fin /\ cut' = cut
          /\ overtaken' = (overtaken \/ wire # <<>>)
      BY DEF Transmit
    <2>2. overtaken' \in BOOLEAN
      BY <2>1
    <2> QED BY <2>1, <2>2 DEF TypeInv, ControlInv, session, Open
  <1> QED BY <1>5, <1>6 DEF TypeInv

(* The first x bytes of a packet.                                          *)
LEMMA CutPacket ==
  ASSUME NEW p, IsPacket(p), NEW x \in p.cuts
  PROVE  /\ Stream(SubSeq(p.bytes, 1, x)) /\ Prefix(SubSeq(p.bytes, 1, x), p.bytes)
         /\ Len(SubSeq(p.bytes, 1, x)) = x /\ x \in 1 .. Len(p.bytes) - 1
  <1> DEFINE b == p.bytes
             c == SubSeq(b, 1, x)
  <1>1. Stream(b) /\ Len(b) \in Nat
    BY PacketFacts
  <1>2. x \in 1 .. Len(b) - 1
    BY DEF IsPacket
  <1> HIDE DEF b
  <1>3. \A i \in 1 .. x : b[i] \in Nat
    BY <1>1, <1>2, StreamAt
  <1>4. c \in Seq(Nat) /\ Len(c) = x /\ \A i \in 1 .. x : c[i] = b[i]
    <2>1. c \in Seq(Nat) /\ Len(c) = x
      BY <1>1, <1>2, <1>3, SubSeqProperties
    <2>2. \A i \in 1 .. x : c[i] = b[i]
      BY <1>1, <1>2, <1>3 DEF Stream
    <2> QED BY <2>1, <2>2
  <1> HIDE DEF c
  <1>5. Stream(c) /\ Prefix(c, b) /\ Len(c) = x
    BY <1>1, <1>2, <1>4 DEF Stream, Prefix
  <1> QED BY <1>2, <1>5 DEF b, c

LEMMA Loses ==
  ASSUME TypeInv, Lose
  PROVE  TypeInv'
  <1>1. /\ ~fin /\ fin' = TRUE /\ proto' = proto /\ plan' = plan /\ read' = read
        /\ UNCHANGED session
    BY DEF Lose
  <1>2. ~cut
    BY <1>1 DEF TypeInv, WireInv
  <1>3. CASE UNCHANGED <<sent, wire, cut, overtaken>>
    <2>1. WireInv'
      BY <1>1, <1>3 DEF TypeInv, WireInv
    <2>2. ControlInv'
      BY <1>1, <1>3 DEF TypeInv, ControlInv, session, Open
    <2> QED BY <2>1, <2>2 DEF TypeInv
  <1>4. ASSUME NEW p \in Packets[proto], NEW x \in p.cuts,
               sent' = Append(sent, p), wire' = wire \o SubSeq(p.bytes, 1, x), cut' = TRUE,
               overtaken' = (overtaken \/ wire # <<>>)
        PROVE  TypeInv'
    <2>1. p \in Tracker(proto)
      BY <1>4 DEF Tracker
    <2>2. IsPacket(p)
      BY <2>1, TrackerPackets DEF TypeInv, WireInv
    <2> DEFINE b == SubSeq(p.bytes, 1, x)
    <2>3. Stream(b) /\ Prefix(b, p.bytes)
      BY <2>2, CutPacket
    <2>4. wire' = wire \o b
      BY <1>4
    <2> HIDE DEF b
    <2>5. sent' \in Seq(Tracker(proto')) /\ Carries(sent', Len(sent'), wire', read')
      BY <1>1, <1>2, <1>4, <2>1, <2>3, <2>4, Sends
    <2>6. WireInv'
      BY <1>1, <1>4, <2>5 DEF TypeInv, WireInv
    <2>7. ControlInv'
      <3>1. overtaken' \in BOOLEAN
        BY <1>4
      <3> QED BY <1>1, <1>4, <3>1 DEF TypeInv, ControlInv, session, Open
    <2> QED BY <2>6, <2>7 DEF TypeInv
  <1> QED BY <1>3, <1>4 DEF Lose

LEMMA Consumes ==
  ASSUME TypeInv, NEW n \in 0 .. Len(wire), Consume(n)
  PROVE  \E m \in n .. Len(wire) :
           /\ proto \notin Text => m = n
           /\ wire' = Rest(wire, m) /\ read' = read + m
           /\ Carries(sent, Len(sent), wire', read') /\ read' + Len(wire') = read + Len(wire)
  <1>1. Stream(wire) /\ Len(wire) \in Nat /\ Size(sent, Len(sent)) \in Nat
    BY SentGood DEF TypeInv
  <1>2. PICK m \in n .. Len(wire) : /\ proto \notin Text => m = n
                                   /\ wire' = Rest(wire, m) /\ read' = read + m
    BY <1>1 DEF Consume, Rest
  <1>3. m \in 0 .. Len(wire)
    BY <1>1
  <1>4. Carries(sent, Len(sent), wire, read)
    BY DEF TypeInv, WireInv
  <1>5. /\ Carries(sent, Len(sent), Rest(wire, m), read + m)
        /\ (read + m) + Len(Rest(wire, m)) = read + Len(wire)
    BY <1>1, <1>3, <1>4, CarryConsume
  <1> QED BY <1>2, <1>5

LEMMA ResultBounded ==
  ASSUME TypeInv, Open
  PROVE  Bounded(Result, wire)
  <1>1. Stream(wire) /\ proto \in Handlers
    BY SentGood, SessionAssumption DEF TypeInv, WireInv, Handlers
  <1>2. /\ Bounded(Authenticate(proto, wire, fin), wire)
        /\ Bounded(ParsePacket(proto, wire, fin), wire)
    BY <1>1, HandlersBounded
  <1>3. Bounded(J!AuthSecond(carry, wire), wire)
    BY <1>1, Jt808AuthSecond
  <1>4. phase \in {"auth", "auth2", "parse"}
    BY DEF Open
  <1> QED BY <1>2, <1>3, <1>4 DEF Result

LEMMA Serves ==
  ASSUME TypeInv, Open, Serve
  PROVE  TypeInv'
  <1> DEFINE r == Result
  <1>1. Bounded(r, wire)
    BY ResultBounded
  <1>2. /\ beat' \in BOOLEAN
        /\ \/ Register(r) \/ Authenticated(r) \/ Unanswered(r) \/ Parsed(r)
           \/ Failed(r) \/ TimedOut(r) \/ Panicked(r)
    BY DEF Serve, Take
  <1> HIDE DEF r
  <1>3. /\ ControlInv /\ WireInv /\ why = ""
    BY DEF TypeInv, ControlInv
  <1>4. ASSUME UNCHANGED device, r.n \in 0 .. Len(wire), Consume(r.n)
        PROVE  WireInv'
    <2>1. \E m \in r.n .. Len(wire) : /\ Carries(sent, Len(sent), wire', read')
                                     /\ read' + Len(wire') = read + Len(wire)
      BY <1>4, Consumes
    <2>2. proto' = proto /\ sent' = sent /\ plan' = plan /\ cut' = cut /\ fin' = fin
      BY <1>4 DEF device
    <2> QED BY <1>3, <2>1, <2>2 DEF WireInv
  <1>a. IsSeq(replies) /\ greeted \in Nat /\ greeted <= Len(replies)
    BY <1>3 DEF ControlInv
  <1>5. ASSUME replies' = Cat(replies, r.replies), IsSeq(r.replies)
        PROVE  /\ IsSeq(replies') /\ Len(replies') = Len(replies) + Len(r.replies)
               /\ Len(r.replies) \in Nat /\ Len(replies) \in Nat
               /\ greeted <= Len(replies')
    <2>1. /\ IsSeq(Cat(replies, r.replies))
          /\ Len(Cat(replies, r.replies)) = Len(replies) + Len(r.replies)
          /\ Len(r.replies) \in Nat /\ Len(replies) \in Nat
      BY <1>a, <1>5, CatIsSeq
    <2> QED BY <1>a, <1>5, <2>1
  <1>6. CASE Register(r)
    <2>1. /\ r.out = "more" /\ Consume(r.n) /\ UNCHANGED device /\ replies' = Cat(replies, r.replies)
          /\ phase' = "auth2" /\ carry' = r.pkt /\ greeted' = greeted /\ why' = why
      BY <1>6 DEF Register, Cat
    <2>2. r.n \in 0 .. Len(wire) /\ IsSeq(r.replies) /\ r.pkt # NoPacket
      BY <1>1, <2>1 DEF Bounded
    <2>3. WireInv'
      BY <1>4, <2>1, <2>2
    <2>4. IsSeq(replies') /\ greeted' \in Nat /\ greeted' <= Len(replies')
      BY <1>a, <1>5, <2>1, <2>2
    <2>5. ControlInv'
      BY <1>2, <1>3, <2>1, <2>2, <2>4 DEF ControlInv, Open, device
    <2> QED BY <2>3, <2>5 DEF TypeInv
  <1>7. CASE Authenticated(r)
    <2>1. /\ r.out = "login" /\ Consume(r.n) /\ UNCHANGED device /\ replies' = Cat(replies, r.replies)
          /\ phase' = "parse" /\ greeted' = Len(replies) + Len(r.replies) /\ why' = why
      BY <1>7 DEF Authenticated, Cat
    <2>2. r.n \in 0 .. Len(wire) /\ IsSeq(r.replies)
      BY <1>1, <2>1 DEF Bounded
    <2>3. WireInv'
      BY <1>4, <2>1, <2>2
    <2>4. IsSeq(replies') /\ greeted' \in Nat /\ greeted' <= Len(replies')
      BY <1>5, <2>1, <2>2
    <2>5. ControlInv'
      BY <1>2, <1>3, <2>1, <2>4 DEF ControlInv, Open, device
    <2> QED BY <2>3, <2>5 DEF TypeInv
  <1>8. CASE Parsed(r)
    <2>1. /\ r.out = "done" /\ Consume(r.n) /\ UNCHANGED device /\ replies' = Cat(replies, r.replies)
          /\ phase' = phase /\ carry' = carry /\ greeted' = greeted /\ why' = why
      BY <1>8 DEF Parsed, Cat
    <2>2. r.n \in 0 .. Len(wire) /\ IsSeq(r.replies)
      BY <1>1, <2>1 DEF Bounded
    <2>3. WireInv'
      BY <1>4, <2>1, <2>2
    <2>4. IsSeq(replies') /\ greeted' \in Nat /\ greeted' <= Len(replies')
      BY <1>a, <1>5, <2>1, <2>2
    <2>5. ControlInv'
      BY <1>2, <1>3, <2>1, <2>4 DEF ControlInv, Open, device
    <2> QED BY <2>3, <2>5 DEF TypeInv
  <1>9. ASSUME NEW place \in {"closed", "crashed"},
               NEW reason \in {"eof", "rejected", "timeout", "unanswered", "panic"}, End(place, reason)
        PROVE  TypeInv'
    <2>1. /\ phase' = place /\ why' = reason
          /\ UNCHANGED <<device, wire, read, carry, replies, greeted>>
      BY <1>9 DEF End
    <2>2. WireInv'
      BY <1>3, <2>1 DEF WireInv, device
    <2>3. (why' = "") = Open'
      <3>1. /\ phase' = "closed" \/ phase' = "crashed"
            /\ \/ why' = "eof" \/ why' = "rejected" \/ why' = "timeout"
               \/ why' = "unanswered" \/ why' = "panic"
        BY <2>1
      <3>2. ~Open' /\ ~(why' = "")
        BY <3>1 DEF Open
      <3>3. Open' \in BOOLEAN
        BY DEF Open
      <3> QED BY <3>2, <3>3
    <2>4. /\ phase' \in {"closed", "crashed"}
          /\ why' \in {"eof", "rejected", "timeout", "unanswered", "panic"}
          /\ UNCHANGED <<fin, cut, overtaken, replies, greeted>>
      BY <2>1 DEF device
    <2>5. ControlInv'
      BY <1>2, <1>3, <2>3, <2>4 DEF ControlInv
    <2> QED BY <2>2, <2>5 DEF TypeInv
  <1>10. CASE Failed(r)
    BY <1>9, <1>10 DEF Failed
  <1>11. CASE TimedOut(r)
    BY <1>9, <1>11 DEF TimedOut
  <1>12. CASE Panicked(r)
    BY <1>9, <1>12 DEF Panicked
  <1>13. CASE Unanswered(r)
    BY <1>9, <1>13 DEF Unanswered
  <1> QED BY <1>2, <1>6, <1>7, <1>8, <1>10, <1>11, <1>12, <1>13

LEMMA TypeNext ==
  ASSUME TypeInv, [Next]_vars
  PROVE  TypeInv'
  <1>1. CASE SendLogin
    <2>1. ~fin /\ plan # <<>> /\ Transmit(Head(plan), Tail(plan))
      BY <1>1 DEF SendLogin
    <2> DEFINE X == Tracker(proto)
    <2>2. plan \in Seq(X)
      BY DEF TypeInv, WireInv
    <2> HIDE DEF X
    <2>3. Head(plan) \in X /\ Tail(plan) \in Seq(X)
      BY <2>1, <2>2
    <2> QED BY <2>1, <2>3, Transmits DEF X
  <1>2. CASE SendPacket
    <2>1. PICK p \in Packets[proto] : Transmit(p, plan)
      BY <1>2 DEF SendPacket
    <2>2. ~fin /\ p \in Tracker(proto) /\ plan \in Seq(Tracker(proto))
      BY <1>2 DEF SendPacket, Tracker, TypeInv, WireInv
    <2> QED BY <2>1, <2>2, Transmits
  <1>3. CASE Lose
    BY <1>3, Loses
  <1>4. CASE Serve
    BY <1>4, Serves DEF Serve
  <1>5. CASE UNCHANGED vars
    <2>1. WireInv'
      BY <1>5 DEF TypeInv, WireInv, vars, device
    <2>2. ControlInv'
      BY <1>5 DEF TypeInv, ControlInv, Open, vars, device, session
    <2> QED BY <2>1, <2>2 DEF TypeInv
  <1> QED BY <1>1, <1>2, <1>3, <1>4, <1>5 DEF Next

(* handleConn with any handler: whatever a tracker sends and however its   *)
(* connection breaks, a byte is read once or still to be read, and the     *)
(* variables of the session agree with each other.                         *)
THEOREM SessionType == Spec => []TypeOK
  <1>1. Init => TypeInv
    BY TypeInit
  <1>2. TypeInv /\ [Next]_vars => TypeInv'
    BY TypeNext
  <1>3. TypeInv => TypeOK
    BY TypeInvOK
  <1> QED BY <1>1, <1>2, <1>3, PTL DEF Spec

-----------------------------------------------------------------------------
(* JT808, GT06 and Teltonika on a stream: what the handler makes of the    *)
(* packet it is about to read is what it makes of that packet alone.       *)
LEMMA ParseAlike ==
  ASSUME NEW protocol \in Handlers \ Text, NEW w, NEW c, Stream(w), Stream(c), NEW eof
  PROVE  /\ Alike(w, c) /\ ParsePacket(protocol, c, eof).out # "wait" =>
              \/ ParsePacket(protocol, w, eof).out = "wait"
              \/ ParsePacket(protocol, w, eof) = ParsePacket(protocol, c, eof)
         /\ Prefix(w, c) /\ ParsePacket(protocol, c, eof).out = "wait" =>
              ParsePacket(protocol, w, eof).out = "wait"
  <1>1. Prefix(c, w) /\ ParsePacket(protocol, c, eof).out # "wait" =>
          ParsePacket(protocol, w, eof) = ParsePacket(protocol, c, eof)
    BY BinaryHandlersStable
  <1>2. Prefix(w, c) /\ ParsePacket(protocol, w, eof).out # "wait" =>
          ParsePacket(protocol, c, eof) = ParsePacket(protocol, w, eof)
    BY BinaryHandlersStable
  <1> QED BY <1>1, <1>2 DEF Alike

LEMMA AuthenticateAlike ==
  ASSUME NEW protocol \in Handlers \ Text, NEW w, NEW c, Stream(w), Stream(c), NEW eof,
         Alike(w, c), Authenticate(protocol, c, eof).out # "wait"
  PROVE  \/ Authenticate(protocol, w, eof).out = "wait"
         \/ Authenticate(protocol, w, eof) = Authenticate(protocol, c, eof)
  <1>1. Prefix(c, w) => Authenticate(protocol, w, eof) = Authenticate(protocol, c, eof)
    BY BinaryHandlersStable
  <1>2. Prefix(w, c) /\ Authenticate(protocol, w, eof).out # "wait" =>
          Authenticate(protocol, c, eof) = Authenticate(protocol, w, eof)
    BY BinaryHandlersStable
  <1> QED BY <1>1, <1>2 DEF Alike

LEMMA AuthSecondAlike ==
  ASSUME NEW pkt, NEW w, NEW c, Stream(w), Stream(c), Alike(w, c),
         J!AuthSecond(pkt, c).out # "wait"
  PROVE  J!AuthSecond(pkt, w).out = "wait" \/ J!AuthSecond(pkt, w) = J!AuthSecond(pkt, c)
  <1>1. Prefix(c, w) => J!AuthSecond(pkt, w) = J!AuthSecond(pkt, c)
    BY Jt808AuthSecond
  <1>2. Prefix(w, c) /\ J!AuthSecond(pkt, w).out # "wait" =>
          J!AuthSecond(pkt, c) = J!AuthSecond(pkt, w)
    BY Jt808AuthSecond
  <1> QED BY <1>1, <1>2 DEF Alike

(* One packet of a session is defective.                                   *)
OneDefect(ps, n) == \A j \in 1 .. n : \A i \in 1 .. j - 1 : ps[i].whole \/ ps[j].whole

(* What ParsePacket makes of a packet read to its end.                     *)
Understood(r, p) ==
  r.out = "done" /\ r.n = Len(p.bytes) /\ r.recs = p.recs /\ r.replies = p.acks

LEMMA ReadIsUnderstood ==
  ASSUME NEW p, NEW r, Read(p, r)
  PROVE  Understood(r, p)
  BY DEF Read, Understood

LEMMA BinaryParse ==
  ASSUME NEW protocol \in Handlers \ Text, ReadAlone(protocol), NEW eof \in BOOLEAN,
         NEW ps, NEW n, Good(ps, n), NEW k \in 0 .. n, OneDefect(ps, n),
         \A i \in k + 1 .. n : ps[i] \in Packets[protocol],
         NEW w, Carries(ps, n, w, Size(ps, k)),
         NEW r, r = ParsePacket(protocol, w, eof)
  PROVE  \/ r.out = "wait"
         \/ k < n /\ ps[k + 1].whole /\ Understood(r, ps[k + 1])
         \/ k < n /\ ~ps[k + 1].whole /\ Refused(r)
  <1>0. n \in Nat /\ k \in Nat /\ Size(ps, n) \in Nat /\ Size(ps, k) \in Nat
    <2>1. n \in Nat /\ n \in 0 .. n
      BY DEF Good
    <2> QED BY <2>1, DataPrefix
  <1>1. Stream(w) /\ Len(w) \in Nat /\ Size(ps, k) + Len(w) <= Size(ps, n)
    BY StreamAt DEF Carries
  <1>2. CASE k = n
    <2>1. Len(w) = 0
      BY <1>0, <1>1, <1>2
    <2> QED BY <1>1, <2>1, BinaryWaits
  <1>3. CASE k < n
    <2> DEFINE p == ps[k + 1]
    <2>1. p \in Packets[protocol] /\ IsPacket(p)
      BY <1>0, <1>3 DEF Good
    <2>2. Stream(p.bytes) /\ Len(p.bytes) \in Nat
      BY <2>1, PacketFacts
    <2>3. Alike(w, p.bytes)
      BY <1>0, <1>3, CarryPacket
    <2>4. Judged(protocol, p, eof, ParsePacket(protocol, p.bytes, eof))
      BY <2>1 DEF ReadAlone
    <2>5. ParsePacket(protocol, p.bytes, eof).out # "wait" =>
            r.out = "wait" \/ r = ParsePacket(protocol, p.bytes, eof)
      BY <1>1, <2>2, <2>3, ParseAlike
    <2>6. CASE p.whole
      <3>1. Understood(ParsePacket(protocol, p.bytes, eof), p)
        BY <2>4, <2>6, ReadIsUnderstood DEF Judged
      <3>2. ParsePacket(protocol, p.bytes, eof).out # "wait"
        BY <3>1 DEF Understood
      <3> HIDE DEF p
      <3>3. r.out = "wait" \/ Understood(r, p)
        BY <2>5, <3>1, <3>2
      <3> QED BY <1>3, <2>6, <3>3 DEF p
    <2>7. CASE ~p.whole
      <3>1. Unreadable(protocol, p, eof, ParsePacket(protocol, p.bytes, eof))
        BY <2>4, <2>7 DEF Judged
      <3>2. CASE Refused(ParsePacket(protocol, p.bytes, eof))
        <4>1. ParsePacket(protocol, p.bytes, eof).out # "wait"
          BY <3>2 DEF Refused
        <4> QED BY <1>3, <2>5, <2>7, <3>2, <4>1
      <3>3. CASE /\ ParsePacket(protocol, p.bytes, eof).out = "wait"
                 /\ \A q \in Packets[protocol] :
                      q.whole => Refused(ParsePacket(protocol, p.bytes \o q.bytes, eof))
        <4>1. CASE k + 1 = n
          <5>1. Size(ps, n) = Size(ps, k) + Len(p.bytes)
            BY <1>0, <1>3, <4>1, DataStep
          <5>2. Len(w) <= Len(p.bytes)
            BY <1>0, <1>1, <2>2, <5>1
          <5>3. Prefix(w, p.bytes)
            <6> DEFINE b == p.bytes
            <6>1. Alike(w, b) /\ Len(w) \in Nat /\ Len(b) \in Nat /\ Len(w) <= Len(b)
              BY <1>1, <2>2, <2>3, <5>2
            <6> HIDE DEF b
            <6>2. Prefix(w, b)
              BY <6>1 DEF Alike, Prefix
            <6> QED BY <6>2 DEF b
          <5> QED BY <1>1, <2>2, <3>3, <5>3, ParseAlike
        <4>2. CASE k + 1 < n
          <5> DEFINE q == ps[k + 2]
                     c == Cat(p.bytes, q.bytes)
          <5>1. q \in Packets[protocol] /\ (p.whole \/ q.whole)
            <6>1. k + 2 \in k + 1 .. n /\ k + 2 \in 1 .. n /\ k + 1 \in 1 .. (k + 2) - 1
              BY <1>0, <4>2
            <6> QED BY <6>1 DEF OneDefect
          <5>2. Refused(ParsePacket(protocol, c, eof))
            BY <2>7, <3>3, <5>1 DEF Cat
          <5>3. Alike(w, c) /\ Stream(c)
            BY <1>0, <4>2, CarryTwo
          <5> HIDE DEF p, q, c
          <5>4. ParsePacket(protocol, c, eof).out # "wait"
            BY <5>2 DEF Refused
          <5>5. r.out = "wait" \/ r = ParsePacket(protocol, c, eof)
            BY <1>1, <5>3, <5>4, ParseAlike
          <5> QED BY <1>3, <2>7, <5>2, <5>5 DEF p
        <4> QED BY <1>0, <1>3, <4>1, <4>2
      <3> QED BY <3>1, <3>2, <3>3 DEF Unreadable
    <2> QED BY <2>6, <2>7
  <1> QED BY <1>0, <1>2, <1>3

(* What a handler makes of the last packet of a login that is in order.    *)
Accepted(protocol, r, p) ==
  r.out = "login" /\ r.id = Identity[protocol] /\ r.n = Len(p.bytes)

LEMMA BinarySettles ==
  ASSUME NEW protocol \in Handlers \ Text, NEW p, NEW r, Settles(protocol, p, r)
  PROVE  (p.whole /\ Accepted(protocol, r, p)) \/ (~p.whole /\ Refused(r))
  BY DEF Settles, Accepted

LEMMA BinaryAuthenticate ==
  ASSUME NEW protocol \in Handlers \ Text, ReadAlone(protocol), NEW eof \in BOOLEAN,
         NEW login \in Logins[protocol],
         NEW ps, NEW n, Good(ps, n), n > 0 => ps[1] = login[1], NEW w, Carries(ps, n, w, 0),
         NEW r, r = Authenticate(protocol, w, eof)
  PROVE  \/ r.out = "wait"
         \/ n > 0 /\ ~ps[1].whole /\ Refused(r)
         \/ n > 0 /\ ps[1].whole /\ Len(login) = 1 /\ Accepted(protocol, r, ps[1])
         \/ /\ n > 0 /\ ps[1].whole /\ Len(login) = 2 /\ protocol = "jt808"
            /\ r.out = "more" /\ r.n = Len(ps[1].bytes) /\ r.pkt = J!AuthFirst(login[1].bytes).pkt
  <1>0. n \in Nat
    BY DEF Good
  <1>1. Stream(w) /\ Len(w) \in Nat /\ 0 + Len(w) <= Size(ps, n)
    BY StreamAt DEF Carries
  <1>2. Size(ps, 0) = 0
    BY DataZero DEF Size
  <1>3. CASE n = 0
    <2>1. Len(w) = 0
      BY <1>1, <1>2, <1>3
    <2> QED BY <1>1, <2>1, BinaryWaits
  <1>4. CASE n > 0
    <2> DEFINE p == ps[1]
               first == Authenticate(protocol, p.bytes, eof)
    <2>1. IsPacket(p) /\ p = login[1]
      BY <1>0, <1>4 DEF Good
    <2>2. Stream(p.bytes)
      BY <2>1, PacketFacts
    <2>3. Alike(w, p.bytes)
      <3>1. 0 \in Nat /\ 0 < n /\ 0 + 1 = 1 /\ Carries(ps, n, w, Size(ps, 0))
        BY <1>2, <1>4
      <3>2. Alike(w, ps[0 + 1].bytes)
        BY <3>1, CarryPacket
      <3> QED BY <3>1, <3>2
    <2>4. LoggedIn(protocol, login, Authenticate(protocol, login[1].bytes, eof))
      BY DEF ReadAlone
    <2> HIDE DEF p
    <2>5. first.out # "wait" => r.out = "wait" \/ r = first
      BY <1>1, <2>2, <2>3, AuthenticateAlike
    <2>6. \/ Len(login) = 1 /\ Settles(protocol, p, first)
          \/ /\ Len(login) = 2 /\ protocol = "jt808" /\ p.whole
             /\ first.out = "more" /\ first.n = Len(p.bytes)
      BY <2>1, <2>4 DEF LoggedIn
    <2>7. protocol = "jt808" => first = J!AuthFirst(p.bytes)
      BY DEF Authenticate
    <2> HIDE DEF first
    <2>8. CASE Len(login) = 1 /\ Settles(protocol, p, first)
      <3>1. (p.whole /\ Accepted(protocol, first, p)) \/ (~p.whole /\ Refused(first))
        BY <2>8, BinarySettles
      <3>2. first.out # "wait"
        BY <3>1 DEF Accepted, Refused
      <3>3. r.out = "wait" \/ r = first
        BY <2>5, <3>2
      <3> QED BY <1>4, <2>8, <3>1, <3>3 DEF p
    <2>9. CASE /\ Len(login) = 2 /\ protocol = "jt808" /\ p.whole
               /\ first.out = "more" /\ first.n = Len(p.bytes)
      <3>1. r.out = "wait" \/ r = first
        BY <2>5, <2>9
      <3>2. first.pkt = J!AuthFirst(login[1].bytes).pkt
        BY <2>1, <2>7, <2>9
      <3> QED BY <1>4, <2>9, <3>1, <3>2 DEF p
    <2> QED BY <2>6, <2>8, <2>9
  <1> QED BY <1>0, <1>3, <1>4

(* JT808: the packet after the registration.                               *)
LEMMA BinaryAuthSecond ==
  ASSUME ReadAlone("jt808"), NEW login \in Logins["jt808"], Len(login) = 2,
         NEW ps, NEW n, Good(ps, n), n > 0, ps[1] = login[1], n > 1 => ps[2] = login[2],
         NEW w, Carries(ps, n, w, Size(ps, 1)),
         NEW r, r = J!AuthSecond(J!AuthFirst(login[1].bytes).pkt, w)
  PROVE  \/ r.out = "wait"
         \/ n > 1 /\ ~ps[2].whole /\ Refused(r)
         \/ n > 1 /\ ps[2].whole /\ Accepted("jt808", r, ps[2])
  <1>0. n \in Nat /\ Size(ps, 1) \in Nat
    <2>1. n \in Nat /\ n \in 0 .. n /\ 1 \in 0 .. n
      BY DEF Good
    <2> QED BY <2>1, DataPrefix
  <1>1. Stream(w) /\ Len(w) \in Nat /\ Size(ps, 1) + Len(w) <= Size(ps, n)
    BY StreamAt DEF Carries
  <1> DEFINE pkt == J!AuthFirst(login[1].bytes).pkt
  <1>2. r = J!AuthSecond(pkt, w)
    OBVIOUS
  <1>3. Settles("jt808", login[2], J!AuthSecond(pkt, login[2].bytes))
    <2>0. PICK eof : eof \in BOOLEAN
      OBVIOUS
    <2>1. LoggedIn("jt808", login, Authenticate("jt808", login[1].bytes, eof))
      BY <2>0 DEF ReadAlone
    <2>2. Authenticate("jt808", login[1].bytes, eof) = J!AuthFirst(login[1].bytes)
      BY DEF Authenticate
    <2> QED BY <2>1, <2>2 DEF LoggedIn
  <1> HIDE DEF pkt
  <1>4. CASE n = 1
    <2>1. Len(w) = 0
      BY <1>0, <1>1, <1>4
    <2> QED BY <1>1, <1>2, <2>1, Jt808AuthSecond
  <1>5. CASE n > 1
    <2> DEFINE p == ps[2]
               second == J!AuthSecond(pkt, p.bytes)
    <2>1. IsPacket(p) /\ p = login[2]
      BY <1>0, <1>5 DEF Good
    <2>2. Stream(p.bytes)
      BY <2>1, PacketFacts
    <2>3. Alike(w, p.bytes)
      <3>1. 1 \in Nat /\ 1 < n /\ 1 + 1 = 2
        BY <1>0, <1>5
      <3>2. Alike(w, ps[1 + 1].bytes)
        BY <3>1, CarryPacket
      <3> QED BY <3>1, <3>2
    <2>4. Settles("jt808", p, second)
      BY <1>3, <2>1
    <2>5. "jt808" \in Handlers \ Text
      BY DEF Handlers, Text
    <2> HIDE DEF p
    <2>6. second.out # "wait" => r.out = "wait" \/ r = second
      BY <1>1, <1>2, <2>2, <2>3, AuthSecondAlike
    <2> HIDE DEF second
    <2>7. (p.whole /\ Accepted("jt808", second, p)) \/ (~p.whole /\ Refused(second))
      BY <2>4, <2>5, BinarySettles
    <2>8. second.out # "wait"
      BY <2>7 DEF Accepted, Refused
    <2>9. r.out = "wait" \/ r = second
      BY <2>6, <2>8
    <2> QED BY <1>5, <2>7, <2>9 DEF p
  <1> QED BY <1>0, <1>4, <1>5

-----------------------------------------------------------------------------
(* What a session has been through: the login it began with, what was sent *)
(* since, and where the last packet was cut off.                           *)
History(login) ==
  /\ login \in Logins[proto]
  /\ \/ Len(sent) <= Len(login) /\ plan = Rest(login, Len(sent))
     \/ Len(sent) > Len(login) /\ plan = <<>>
  /\ \A i \in 1 .. Len(sent) : /\ i <= Len(login) => sent[i] = login[i]
                               /\ i > Len(login) => sent[i] \in Packets[proto]
  /\ OneDefect(sent, Len(sent))
  /\ cut => /\ Len(sent) > Len(login)
            /\ \E x \in sent[Len(sent)].cuts : read + Len(wire) = Size(sent, Len(sent) - 1) + x

(* The positions of a device, as onRecord is given them.                   *)
Tag(name, recs) == [i \in DOMAIN recs |-> <<name, recs[i]>>]

(* Exactly the first k packets have been read to their end.                *)
Reached(k) ==
  /\ k \in 0 .. Len(sent)
  /\ Size(sent, k) <= read /\ (k < Len(sent) => read < Size(sent, k + 1))
  /\ got = Tag(Identity[proto], Recs(sent, k))
  /\ why \in {"rejected", "panic"} => k < Len(sent) /\ ~sent[k + 1].whole

Answered(k) ==
  /\ Len(replies) = greeted + Len(Acks(sent, k))
  /\ \A i \in 1 .. Len(Acks(sent, k)) : replies[greeted + i] = Acks(sent, k)[i]

(* JT808, GT06 and Teltonika read packet by packet.                        *)
Between(login, k) ==
  /\ read = Size(sent, k)
  /\ phase = "auth" => k = 0 /\ greeted = 0
  /\ phase = "auth2" => /\ k = 1 /\ greeted = 0 /\ proto = "jt808" /\ Len(login) = 2
                        /\ carry = J!AuthFirst(login[1].bytes).pkt
  /\ phase = "parse" => k >= Len(login) /\ id = Identity[proto]
  /\ greeted > 0 => Answered(k)

(* A text protocol, of which a line is sent when the last has been read:   *)
(* nothing is on the wire, or a line, or what the reader left of a         *)
(* defective login.                                                        *)
AtLine(login, k) ==
  /\ phase # "auth2"
  /\ phase = "auth" => k = 0 /\ read = 0
  /\ phase = "parse" => id = Identity[proto]
  /\ \/ wire = <<>> /\ k = Len(sent) /\ (phase = "parse" => k > 0)
     \/ /\ k + 1 = Len(sent) /\ wire = sent[k + 1].bytes /\ read = Size(sent, k)
        /\ phase = "parse" => k > 0
     \/ /\ k = 0 /\ Len(sent) = 1 /\ phase # "auth" /\ ~sent[1].whole
        /\ \A eof \in BOOLEAN : Refused(ParsePacket(proto, wire, eof))

BinaryInv ==
  proto \notin Text =>
    \E login \in Logins[proto] : \E k \in 0 .. Len(sent) :
      History(login) /\ Reached(k) /\ Between(login, k)

LineInv ==
  proto \in Text /\ ~cut /\ ~overtaken =>
    \E login \in Logins[proto] : \E k \in 0 .. Len(sent) :
      History(login) /\ Reached(k) /\ AtLine(login, k)

(* The elements of s occur in t, in their order.                           *)
Embeds(s, t) ==
  \E at \in [1 .. Len(s) -> 1 .. Len(t)] :
    /\ \A i \in 1 .. Len(s) : s[i] = t[at[i]]
    /\ \A j \in 1 .. Len(s) : \A i \in 1 .. j - 1 : at[i] < at[j]

(* AIS140, wherever its reader is: what was delivered comes from the first *)
(* j packets, all of which have been read (the last one perhaps without    *)
(* its last bytes).                                                        *)
Behind(login, j) ==
  /\ phase # "auth2"
  /\ phase = "auth" => read = 0
  /\ phase = "parse" => id = Identity[proto]
  /\ Size(sent, j) <= read \/ (cut /\ wire = <<>>)
  /\ IsSeq(got) /\ Embeds(got, Tag(Identity[proto], Recs(sent, j)))

AlteredInv ==
  proto = "ais140" =>
    \E login \in Logins[proto] : \E j \in 0 .. Len(sent) : History(login) /\ Behind(login, j)

-----------------------------------------------------------------------------
LEMMA WhollyReadIs ==
  ASSUME WireInv, NEW k, Reached(k)
  PROVE  WhollyRead = k
  <1> DEFINE n == Len(sent)
             S == {j \in 0 .. n : Size(sent, j) <= read}
  <1>1. Good(sent, n) /\ n \in Nat /\ read \in Nat
    BY SentGood
  <1>2. k \in 0 .. n /\ Size(sent, k) <= read /\ (k < n => read < Size(sent, k + 1))
    BY DEF Reached
  <1> HIDE DEF n
  <1>3. S \in SUBSET Nat /\ k \in S /\ IsFiniteSet(S)
    <2>1. S \subseteq 0 .. n /\ IsFiniteSet(0 .. n)
      BY <1>1, FS_Interval
    <2>2. IsFiniteSet(S)
      <3> HIDE DEF S
      <3> QED BY <2>1, FS_Subset
    <2> QED BY <1>1, <1>2, <2>2
  <1>4. \A j \in S : j <= k
    <2> SUFFICES ASSUME NEW j \in 0 .. n, Size(sent, j) <= read, j > k PROVE FALSE
      BY <1>1, <1>2
    <2>1. k + 1 \in 0 .. j /\ k < n
      BY <1>1, <1>2
    <2>2. /\ Size(sent, k + 1) \in Nat /\ Size(sent, j) \in Nat
          /\ k + 1 = j \/ Size(sent, k + 1) < Size(sent, j)
      BY <1>1, <2>1, DataPrefix
    <2>3. Size(sent, k + 1) <= Size(sent, j)
      BY <2>2
    <2> QED BY <1>1, <1>2, <2>1, <2>2, <2>3
  <1>5. Max(S) \in S /\ \A j \in S : Max(S) >= j
    <2> HIDE DEF S
    <2> QED BY <1>3, MaxIsGreatest
  <1>6. Max(S) = k
    <2> DEFINE m == Max(S)
    <2>1. m \in S /\ m >= k /\ m <= k /\ m \in Nat /\ k \in Nat
      BY <1>3, <1>4, <1>5
    <2> HIDE DEF m
    <2> QED BY <2>1 DEF m
  <1> QED BY <1>6 DEF WhollyRead, Length, Size, Data, n

LEMMA ReachedExact ==
  ASSUME WireInv, NEW k, Reached(k)
  PROVE  /\ got = Said(WhollyRead)
         /\ why \in {"rejected", "panic"} =>
              WhollyRead < Len(sent) /\ ~sent[WhollyRead + 1].whole
  <1>1. WhollyRead = k
    BY WhollyReadIs
  <1>2. Said(k) = Tag(Identity[proto], Recs(sent, k))
    BY DEF Said, Tag, Recs
  <1> QED BY <1>1, <1>2 DEF Reached

LEMMA RecordsFromInv ==
  ASSUME TypeInv, BinaryInv, LineInv
  PROVE  RecordsExact
  <1> SUFFICES ASSUME proto \notin Text \/ ~(cut \/ overtaken)
               PROVE  /\ got = Said(WhollyRead)
                      /\ why \in {"rejected", "panic"} =>
                           WhollyRead < Len(sent) /\ ~sent[WhollyRead + 1].whole
    BY DEF RecordsExact
  <1>1. \E k : Reached(k)
    BY DEF BinaryInv, LineInv
  <1>2. PICK k : Reached(k)
    BY <1>1
  <1> QED BY <1>2, ReachedExact DEF TypeInv

LEMMA AcksAre ==
  ASSUME NEW ps, NEW n, Good(ps, n), NEW k \in 0 .. n
  PROVE  IsSeq(Acks(ps, k)) /\ IsSeq(Recs(ps, k))
  <1>1. CASE k = 0
    BY <1>1, DataZero, NothingSeq
  <1>2. CASE k < n
    <2>1. k \in Nat
      OBVIOUS
    <2> QED BY <1>2, <2>1, AcksNext, RecsNext DEF IsSeq
  <1>3. CASE k = n /\ k > 0
    <2> DEFINE m == k - 1
    <2>1. m \in Nat /\ m < n /\ m + 1 = k
      BY <1>3 DEF Good
    <2> HIDE DEF m
    <2>2. IsSeq(Acks(ps, m + 1))
      <3>1. PICK X : /\ Acks(ps, m) \in Seq(X) /\ ps[m + 1].acks \in Seq(X)
                     /\ Acks(ps, m + 1) = Cat(Acks(ps, m), ps[m + 1].acks)
        BY <2>1, AcksNext
      <3> QED BY <3>1, CatAt DEF IsSeq
    <2>3. IsSeq(Recs(ps, m + 1))
      <3>1. PICK X : /\ Recs(ps, m) \in Seq(X) /\ ps[m + 1].recs \in Seq(X)
                     /\ Recs(ps, m + 1) = Cat(Recs(ps, m), ps[m + 1].recs)
        BY <2>1, RecsNext
      <3> QED BY <3>1, CatAt DEF IsSeq
    <2> QED BY <2>1, <2>2, <2>3
  <1> QED BY <1>1, <1>2, <1>3 DEF Good

LEMMA SeqSame ==
  ASSUME NEW s, NEW t, IsSeq(s), IsSeq(t), Len(s) = Len(t), \A i \in 1 .. Len(s) : s[i] = t[i]
  PROVE  s = t
  <1>1. PICK S, U : s \in Seq(S) /\ t \in Seq(U)
    BY DEF IsSeq
  <1> DEFINE X == S \cup U
  <1>2. S \subseteq X /\ U \subseteq X
    OBVIOUS
  <1> HIDE DEF X
  <1>3. s \in Seq(X) /\ t \in Seq(X)
    BY <1>1, <1>2, SeqMonotonic
  <1> QED BY <1>3, SeqEqual

LEMMA RestOfSeq ==
  ASSUME NEW X, NEW s \in Seq(X), NEW m \in 0 .. Len(s)
  PROVE  /\ Rest(s, m) \in Seq(X) /\ Len(Rest(s, m)) = Len(s) - m
         /\ \A i \in 1 .. Len(s) - m : Rest(s, m)[i] = s[m + i]
  <1> DEFINE t == SubSeq(s, m + 1, Len(s))
  <1>1. Len(s) \in Nat /\ \A i \in m + 1 .. Len(s) : s[i] \in X
    OBVIOUS
  <1>2. /\ t \in Seq(X) /\ Len(t) = (IF m + 1 <= Len(s) THEN Len(s) - (m + 1) + 1 ELSE 0)
        /\ \A i \in 1 .. Len(s) - (m + 1) + 1 : t[i] = s[(m + 1) + i - 1]
    BY <1>1, SubSeqProperties
  <1> HIDE DEF t
  <1>3. t \in Seq(X) /\ Len(t) = Len(s) - m /\ \A i \in 1 .. Len(s) - m : t[i] = s[m + i]
    BY <1>1, <1>2
  <1> QED BY <1>3 DEF t, Rest

LEMMA AcksFromInv ==
  ASSUME TypeInv, BinaryInv
  PROVE  AcksExact
  <1> SUFFICES ASSUME proto \in {"jt808", "gt06"}, greeted > 0
               PROVE  SubSeq(replies, greeted + 1, Len(replies)) = Asked(WhollyRead)
    BY DEF AcksExact
  <1>1. PICK k \in 0 .. Len(sent) : Reached(k) /\ (greeted > 0 => Answered(k))
    BY DEF BinaryInv, Text, Between
  <1>2. WhollyRead = k
    BY <1>1, WhollyReadIs DEF TypeInv
  <1> DEFINE a == Acks(sent, k)
             s == Rest(replies, greeted)
  <1>3. IsSeq(a)
    BY SentGood, AcksAre DEF TypeInv
  <1>4. Len(replies) = greeted + Len(a) /\ \A i \in 1 .. Len(a) : replies[greeted + i] = a[i]
    BY <1>1 DEF Answered
  <1>5. PICK X : replies \in Seq(X)
    BY DEF TypeInv, ControlInv, IsSeq
  <1>6. greeted \in 0 .. Len(replies) /\ Len(replies) \in Nat
    <2>1. greeted \in Nat /\ greeted <= Len(replies)
      BY DEF TypeInv, ControlInv
    <2> QED BY <1>5, <2>1
  <1>7. /\ s \in Seq(X) /\ Len(s) = Len(replies) - greeted
        /\ \A i \in 1 .. Len(replies) - greeted : s[i] = replies[greeted + i]
    BY <1>5, <1>6, RestOfSeq
  <1> HIDE DEF a, s
  <1>8. Len(a) \in Nat
    BY <1>3 DEF IsSeq
  <1>9. IsSeq(s) /\ Len(s) = Len(a) /\ \A i \in 1 .. Len(s) : s[i] = a[i]
    BY <1>4, <1>6, <1>7, <1>8 DEF IsSeq
  <1>10. s = a
    BY <1>3, <1>9, SeqSame
  <1> QED BY <1>2, <1>10 DEF a, s, Rest, Asked, Acks

-----------------------------------------------------------------------------
(* The history of a session, step by step.                                 *)
LEMMA LoginFacts ==
  ASSUME HandlersExact, NEW protocol \in Protocols, NEW login \in Logins[protocol]
  PROVE  /\ ReadAlone(protocol) /\ protocol \in Handlers
         /\ Len(login) = 1 \/ (Len(login) = 2 /\ protocol = "jt808" /\ login[1].whole)
         /\ \A i \in 1 .. Len(login) : login[i].recs = <<>> /\ login[i].acks = <<>>
         /\ login \in Seq(Tracker(protocol))
  <1>1. ReadAlone(protocol)
    BY DEF HandlersExact
  <1>2. PICK eof : eof \in BOOLEAN
    OBVIOUS
  <1>3. LoggedIn(protocol, login, Authenticate(protocol, login[1].bytes, eof))
    BY <1>1, <1>2 DEF ReadAlone
  <1>4. Len(login) = 1 \/ (Len(login) = 2 /\ protocol = "jt808" /\ login[1].whole)
    BY <1>3 DEF LoggedIn
  <1>5. login \in Seq(Tracker(protocol))
    BY TrackerPackets
  <1>6. DOMAIN login = 1 .. Len(login)
    BY <1>5, LenProperties
  <1>7. \A i \in DOMAIN login : login[i].recs = <<>> /\ login[i].acks = <<>>
    BY <1>1, <1>2 DEF ReadAlone
  <1>8. protocol \in Handlers
    BY SessionAssumption DEF Handlers
  <1> QED BY <1>1, <1>4, <1>5, <1>6, <1>7, <1>8

LEMMA PlanFacts ==
  ASSUME NEW X, NEW s \in Seq(X), NEW m \in Nat, m < Len(s)
  PROVE  /\ Rest(s, m) # <<>> /\ Head(Rest(s, m)) = s[m + 1] /\ Tail(Rest(s, m)) = Rest(s, m + 1)
  <1> DEFINE t == Rest(s, m)
             u == Rest(s, m + 1)
  <1>1. m \in 0 .. Len(s) /\ m + 1 \in 0 .. Len(s) /\ Len(s) \in Nat
    OBVIOUS
  <1>2. /\ t \in Seq(X) /\ Len(t) = Len(s) - m /\ \A i \in 1 .. Len(s) - m : t[i] = s[m + i]
    BY <1>1, RestOfSeq
  <1>3. /\ u \in Seq(X) /\ Len(u) = Len(s) - (m + 1)
        /\ \A i \in 1 .. Len(s) - (m + 1) : u[i] = s[(m + 1) + i]
    BY <1>1, RestOfSeq
  <1> HIDE DEF t, u
  <1>4. t # <<>> /\ Head(t) = t[1] /\ t[1] = s[m + 1]
    BY <1>1, <1>2
  <1>5. Tail(t) \in Seq(X) /\ Len(Tail(t)) = Len(t) - 1
        /\ \A i \in 1 .. Len(t) - 1 : Tail(t)[i] = t[i + 1]
    BY <1>2, <1>4, HeadTailProperties
  <1>6. Tail(t) = u
    <2> DEFINE v == Tail(t)
    <2>1. v \in Seq(X) /\ Len(v) = Len(t) - 1 /\ \A i \in 1 .. Len(t) - 1 : v[i] = t[i + 1]
      BY <1>5
    <2> HIDE DEF v
    <2>2. Len(v) = Len(u) /\ \A i \in 1 .. Len(v) : v[i] = u[i]
      <3>1. \A i \in 1 .. Len(v) : /\ i + 1 \in 1 .. Len(s) - m /\ m + (i + 1) = (m + 1) + i
                                   /\ i \in 1 .. Len(t) - 1 /\ i \in 1 .. Len(s) - (m + 1)
        BY <1>1, <1>2, <2>1
      <3> QED BY <1>1, <1>2, <1>3, <2>1, <3>1
    <2>3. v = u
      BY <1>3, <2>1, <2>2, SeqEqual
    <2> QED BY <2>3 DEF v
  <1> QED BY <1>4, <1>6 DEF t, u

(* The tracker sends p, the next of its login or of its traffic.           *)
LEMMA HistorySend ==
  ASSUME HandlersExact, TypeInv, ~cut, NEW login, History(login), NEW p, Longer(sent, sent', p),
         proto' = proto,
         \/ plan # <<>> /\ p = Head(plan) /\ plan' = Tail(plan) /\ ~cut'
         \/ /\ plan = <<>> /\ p \in Packets[proto] /\ plan' = plan
            /\ p.whole \/ \A i \in 1 .. Len(sent) : sent[i].whole
            /\ cut' => \E x \in p.cuts : read' + Len(wire') = Size(sent', Len(sent)) + x
  PROVE  History(login)'
  <1> DEFINE n == Len(sent)
             L == Len(login)
             qs == sent'
  <1>1. proto \in Protocols /\ login \in Logins[proto]
    BY DEF TypeInv, WireInv, History
  <1>2. /\ L = 1 \/ (L = 2 /\ login[1].whole)
        /\ login \in Seq(Tracker(proto))
    BY <1>1, LoginFacts
  <1>3. n \in Nat /\ Len(qs) = n + 1 /\ (\A i \in 1 .. n : qs[i] = sent[i]) /\ qs[n + 1] = p
    BY DEF Longer
  <1>4. /\ (n <= L /\ plan = Rest(login, n)) \/ (n > L /\ plan = <<>>)
        /\ \A i \in 1 .. n : /\ i <= L => sent[i] = login[i]
                             /\ i > L => sent[i] \in Packets[proto]
        /\ OneDefect(sent, n)
    BY DEF History
  <1>5. \A i \in 1 .. n + 1 : i \in 1 .. n \/ i = n + 1
    BY <1>3
  <1>6. CASE plan # <<>> /\ p = Head(plan) /\ plan' = Tail(plan) /\ ~cut'
    <2>1. n <= L /\ plan = Rest(login, n)
      BY <1>4, <1>6
    <2>2. n < L
      <3> SUFFICES ASSUME n = L PROVE FALSE
        BY <1>2, <1>3, <2>1
      <3> DEFINE X == Tracker(proto)
      <3>1. login \in Seq(X) /\ n \in 0 .. Len(login)
        BY <1>2, <1>3
      <3> HIDE DEF X, n
      <3>2. Rest(login, n) \in Seq(X) /\ Len(Rest(login, n)) = Len(login) - n
        BY <3>1, RestOfSeq
      <3> DEFINE s == Rest(login, n)
      <3> HIDE DEF s
      <3>3. s \in Seq(X) /\ Len(s) = 0
        BY <1>2, <3>2 DEF s
      <3>4. s = <<>>
        BY <3>3
      <3> QED BY <1>6, <2>1, <3>4 DEF s
    <2> HIDE DEF n
    <2>3. Head(plan) = login[n + 1] /\ Tail(plan) = Rest(login, n + 1)
      <3> DEFINE X == Tracker(proto)
      <3>1. login \in Seq(X)
        BY <1>2
      <3> HIDE DEF X
      <3> QED BY <1>3, <2>1, <2>2, <3>1, PlanFacts
    <2> HIDE DEF L, qs
    <2>4. qs[n + 1] = login[n + 1] /\ plan' = Rest(login, n + 1) /\ n + 1 <= L
      BY <1>2, <1>3, <1>6, <2>2, <2>3
    <2>5. \A i \in 1 .. n + 1 : /\ i <= L => qs[i] = login[i]
                                /\ i > L => qs[i] \in Packets[proto]
      BY <1>2, <1>3, <1>4, <1>5, <2>4
    <2>6. OneDefect(qs, n + 1)
      <3> SUFFICES ASSUME NEW j \in 1 .. n + 1, NEW i \in 1 .. j - 1
                   PROVE  qs[i].whole \/ qs[j].whole
        BY DEF OneDefect
      <3>1. L = 2 /\ i = 1
        BY <1>2, <1>3, <2>4
      <3>2. qs[1] = login[1]
        BY <1>2, <1>3, <2>4, <2>5, <3>1
      <3> QED BY <1>2, <3>1, <3>2
    <2>7. OneDefect(sent', Len(sent'))
      BY <1>3, <2>6 DEF qs
    <2>8. \A i \in 1 .. Len(sent') : /\ i <= Len(login) => sent'[i] = login[i]
                                     /\ i > Len(login) => sent'[i] \in Packets[proto']
      BY <1>3, <2>5 DEF qs, L
    <2>9. Len(sent') <= Len(login) /\ plan' = Rest(login, Len(sent'))
      BY <1>3, <2>4 DEF qs, L
    <2> QED BY <1>1, <1>6, <2>7, <2>8, <2>9 DEF History
  <1>7. CASE /\ plan = <<>> /\ p \in Packets[proto] /\ plan' = plan
             /\ p.whole \/ \A i \in 1 .. Len(sent) : sent[i].whole
             /\ cut' => \E x \in p.cuts : read' + Len(wire') = Size(sent', Len(sent)) + x
    <2>1. n >= L
      <3> SUFFICES ASSUME n < L PROVE FALSE
        BY <1>2, <1>3
      <3>1. plan = Rest(login, n)
        BY <1>2, <1>3, <1>4
      <3> DEFINE X == Tracker(proto)
      <3>2. login \in Seq(X)
        BY <1>2
      <3> HIDE DEF X, n
      <3>3. Rest(login, n) # <<>>
        BY <1>3, <3>2, PlanFacts
      <3> QED BY <1>7, <3>1, <3>3
    <2> HIDE DEF n, L, qs
    <2>2. \A i \in 1 .. n + 1 : /\ i <= L => qs[i] = login[i]
                                /\ i > L => qs[i] \in Packets[proto]
      BY <1>2, <1>3, <1>4, <1>5, <1>7, <2>1
    <2>3. OneDefect(qs, n + 1)
      <3> SUFFICES ASSUME NEW j \in 1 .. n + 1, NEW i \in 1 .. j - 1
                   PROVE  qs[i].whole \/ qs[j].whole
        BY DEF OneDefect
      <3>1. i \in 1 .. n /\ qs[i] = sent[i]
        BY <1>3
      <3>2. CASE j \in 1 .. n
        BY <1>3, <1>4, <3>1, <3>2 DEF OneDefect
      <3>3. CASE j = n + 1
        BY <1>3, <1>7, <3>1, <3>3 DEF n
      <3> QED BY <1>5, <3>2, <3>3
    <2>4. OneDefect(sent', Len(sent'))
      BY <1>3, <2>3 DEF qs
    <2>5. \A i \in 1 .. Len(sent') : /\ i <= Len(login) => sent'[i] = login[i]
                                     /\ i > Len(login) => sent'[i] \in Packets[proto']
      BY <1>3, <2>2 DEF qs, L
    <2>6. Len(sent') > Len(login) /\ plan' = <<>>
      BY <1>2, <1>3, <1>7, <2>1 DEF qs, L
    <2>7. Len(sent') - 1 = Len(sent) /\ sent'[Len(sent')] = p
      BY <1>3 DEF qs, n
    <2>8. cut' => \E x \in sent'[Len(sent')].cuts :
                    read' + Len(wire') = Size(sent', Len(sent') - 1) + x
      BY <1>7, <2>7
    <2> QED BY <1>1, <2>4, <2>5, <2>6, <2>8 DEF History
  <1> QED BY <1>6, <1>7

(* What a step of the tracker does to the session: nothing, but that one   *)
(* packet more may be on its way.                                          *)
Sent(p) ==
  /\ p \in Tracker(proto) /\ Longer(sent, sent', p)
  /\ overtaken' = (overtaken \/ wire # <<>>)
  /\ cut' \/ wire' = Cat(wire, p.bytes)

TrackerNext == SendLogin \/ SendPacket \/ Lose

LEMMA OpenQuiet ==
  ASSUME ControlInv, Open
  PROVE  why \notin {"rejected", "panic"}
  <1>1. why = ""
    BY DEF ControlInv
  <1> QED BY <1>1

LEMMA TrackerStep ==
  ASSUME HandlersExact, TypeInv, NEW login, History(login), TrackerNext
  PROVE  /\ History(login)'
         /\ ~fin /\ ~cut /\ Open /\ why \notin {"rejected", "panic"}
         /\ UNCHANGED session /\ proto' = proto /\ read' = read
         /\ UNCHANGED <<sent, wire, cut, overtaken>> \/ \E p : Sent(p)
  <1>1. ~fin /\ ~cut /\ Open /\ why \notin {"rejected", "panic"}
    <2>1. ~fin /\ ~cut /\ Open
      BY DEF TrackerNext, SendLogin, SendPacket, Lose, TypeInv, WireInv
    <2> QED BY <2>1, OpenQuiet DEF TypeInv
  <1>2. UNCHANGED session /\ proto' = proto /\ read' = read
    BY DEF TrackerNext, SendLogin, SendPacket, Lose, Transmit
  <1>3. sent \in Seq(Tracker(proto)) /\ proto \in Protocols
    BY DEF TypeInv, WireInv
  <1>4. ASSUME NEW p \in Tracker(proto), sent' = Append(sent, p) PROVE Longer(sent, sent', p)
    BY <1>3, <1>4, LongerAppend
  <1>5. DOMAIN sent = 1 .. Len(sent)
    BY <1>3, LenProperties
  <1>6. CASE SendLogin
    <2>1. plan # <<>> /\ Transmit(Head(plan), Tail(plan))
      BY <1>6 DEF SendLogin
    <2> DEFINE p == Head(plan)
    <2>2. p \in Tracker(proto)
      <3> DEFINE X == Tracker(proto)
      <3>1. plan \in Seq(X) /\ plan # <<>>
        BY <2>1 DEF TypeInv, WireInv
      <3> HIDE DEF X
      <3>2. Head(plan) \in X
        BY <3>1
      <3> QED BY <3>2 DEF X
    <2>3. /\ sent' = Append(sent, p) /\ wire' = Cat(wire, p.bytes) /\ plan' = Tail(plan)
          /\ overtaken' = (overtaken \/ wire # <<>>) /\ cut' = cut
      BY <2>1 DEF Transmit, Cat
    <2>4. Longer(sent, sent', p)
      BY <1>4, <2>2, <2>3
    <2>5. History(login)'
      BY <1>1, <1>2, <2>1, <2>3, <2>4, HistorySend
    <2>6. Sent(p)
      BY <2>2, <2>3, <2>4 DEF Sent
    <2> QED BY <1>1, <1>2, <2>5, <2>6
  <1>7. ASSUME NEW p \in Packets[proto], Possible(p), sent' = Append(sent, p), plan' = plan,
               overtaken' = (overtaken \/ wire # <<>>),
               \/ ~cut' /\ wire' = Cat(wire, p.bytes)
               \/ /\ cut' /\ \E x \in p.cuts : wire' = Cat(wire, SubSeq(p.bytes, 1, x))
        PROVE  History(login)' /\ Sent(p)
    <2>1. p \in Tracker(proto)
      BY <1>7 DEF Tracker
    <2>2. Longer(sent, sent', p)
      BY <1>4, <1>7, <2>1
    <2>3. plan = <<>> /\ (p.whole \/ \A i \in 1 .. Len(sent) : sent[i].whole)
      BY <1>5, <1>7 DEF Possible
    <2>4. cut' => \E x \in p.cuts : read' + Len(wire') = Size(sent', Len(sent)) + x
      <3> SUFFICES ASSUME cut', NEW x \in p.cuts, wire' = Cat(wire, SubSeq(p.bytes, 1, x))
                   PROVE  read' + Len(wire') = Size(sent', Len(sent)) + x
        BY <1>7
      <3> DEFINE b == SubSeq(p.bytes, 1, x)
      <3>1. IsPacket(p)
        BY <1>3, <2>1, TrackerPackets
      <3>2. Stream(b) /\ Prefix(b, p.bytes) /\ Len(b) = x
        BY <3>1, CutPacket
      <3> HIDE DEF b
      <3>3. wire' = wire \o b
        BY DEF b, Cat
      <3>4. /\ read' + Len(wire') = Size(sent, Len(sent)) + Len(b)
            /\ Size(sent', Len(sent)) = Size(sent, Len(sent))
        BY <1>1, <1>2, <1>7, <2>1, <3>2, <3>3, Sends
      <3> QED BY <3>2, <3>4
    <2>5. History(login)'
      BY <1>1, <1>2, <1>7, <2>2, <2>3, <2>4, HistorySend
    <2>6. Sent(p)
      BY <1>7, <2>1, <2>2 DEF Sent
    <2> QED BY <2>5, <2>6
  <1>8. CASE SendPacket
    <2>1. PICK p \in Packets[proto] : Possible(p) /\ Transmit(p, plan)
      BY <1>8 DEF SendPacket
    <2>2. /\ sent' = Append(sent, p) /\ plan' = plan /\ wire' = Cat(wire, p.bytes)
          /\ overtaken' = (overtaken \/ wire # <<>>) /\ ~cut'
      BY <1>1, <2>1 DEF Transmit, Cat
    <2>3. History(login)' /\ Sent(p)
      BY <1>7, <2>1, <2>2
    <2> QED BY <1>1, <1>2, <2>3
  <1>9. CASE Lose
    <2>1. CASE UNCHANGED <<sent, wire, cut, overtaken>>
      <3>1. plan' = plan
        BY <1>9 DEF Lose
      <3>2. History(login)'
        BY <1>2, <2>1, <3>1 DEF History
      <3> QED BY <1>1, <1>2, <2>1, <3>2
    <2>2. CASE \E p \in Packets[proto] : \E x \in p.cuts :
                 /\ Possible(p) /\ sent' = Append(sent, p)
                 /\ wire' = wire \o SubSeq(p.bytes, 1, x)
                 /\ cut' = TRUE /\ overtaken' = (overtaken \/ wire # <<>>)
      <3>1. PICK p \in Packets[proto] :
              /\ Possible(p) /\ sent' = Append(sent, p)
              /\ \E x \in p.cuts : wire' = Cat(wire, SubSeq(p.bytes, 1, x))
              /\ cut' /\ overtaken' = (overtaken \/ wire # <<>>)
        BY <2>2 DEF Cat
      <3>2. plan' = plan
        BY <1>9 DEF Lose
      <3>3. History(login)' /\ Sent(p)
        BY <1>7, <3>1, <3>2
      <3> QED BY <1>1, <1>2, <3>3
    <2> QED BY <1>9, <2>1, <2>2 DEF Lose
  <1> QED BY <1>6, <1>8, <1>9 DEF TrackerNext

(* What the first k packets say does not change with what follows them.    *)
LEMMA ReachedSend ==
  ASSUME TypeInv, NEW p, Sent(p), got' = got, why' = why, proto' = proto, read' = read,
         why \notin {"rejected", "panic"}, NEW k, Reached(k)
  PROVE  /\ Reached(k)'
         /\ k \in 0 .. Len(sent') /\ Size(sent', k) = Size(sent, k)
         /\ Recs(sent', k) = Recs(sent, k) /\ Acks(sent', k) = Acks(sent, k)
  <1> DEFINE n == Len(sent)
             qs == sent'
  <1>1. /\ Len(qs) = n + 1 /\ \A i \in 1 .. n : qs[i] = sent[i]
    BY DEF Sent, Longer
  <1>2. n \in Nat /\ read \in Nat /\ Good(sent, n)
    BY SentGood DEF TypeInv
  <1>3. k \in 0 .. n /\ Size(sent, k) <= read /\ (k < n => read < Size(sent, k + 1))
    BY DEF Reached
  <1>4. read <= Size(sent, n)
    <2>1. read + Len(wire) <= Size(sent, n) /\ Len(wire) \in Nat /\ Size(sent, n) \in Nat
      BY SentGood DEF TypeInv, WireInv, Carries
    <2> HIDE DEF n
    <2> QED BY <1>2, <2>1
  <1>5. Good(qs, n + 1)
    <2>1. qs[n + 1] = p /\ IsPacket(p)
      BY TrackerPackets DEF Sent, Longer, TypeInv, WireInv
    <2> HIDE DEF n, qs
    <2>2. \A i \in 1 .. n + 1 : i \in 1 .. n \/ i = n + 1
      BY <1>2
    <2> QED BY <1>1, <1>2, <2>1, <2>2 DEF Good
  <1> HIDE DEF n, qs
  <1>6. ASSUME NEW j \in 0 .. n
        PROVE  Size(qs, j) = Size(sent, j) /\ Recs(qs, j) = Recs(sent, j) /\ Acks(qs, j) = Acks(sent, j)
    <2>1. j \in Nat /\ \A i \in 1 .. j : qs[i] = sent[i]
      BY <1>1, <1>2
    <2> QED BY <2>1, DataSame DEF Size
  <1>7. read < Size(qs, k + 1)
    <2>1. CASE k < n
      <3>1. k + 1 \in 0 .. n
        BY <1>2, <1>3, <2>1
      <3> QED BY <1>3, <1>6, <2>1, <3>1
    <2>2. CASE k = n
      <3>1. /\ Size(qs, n) \in Nat /\ Size(qs, n + 1) = Size(qs, n) + Len(qs[n + 1].bytes)
            /\ Len(qs[n + 1].bytes) \in Nat /\ Len(qs[n + 1].bytes) > 0
        BY <1>2, <1>5, DataStep
      <3>2. n \in 0 .. n
        BY <1>2
      <3>3. Size(qs, n) = Size(sent, n)
        BY <1>6, <3>2
      <3> QED BY <1>2, <1>4, <2>2, <3>1, <3>3
    <2> QED BY <1>2, <1>3, <2>1, <2>2
  <1>8. k \in 0 .. n + 1 /\ Size(qs, k) <= read
    BY <1>2, <1>3, <1>6
  <1>9. /\ k \in 0 .. Len(sent') /\ Size(sent', k) = Size(sent, k)
        /\ Recs(sent', k) = Recs(sent, k) /\ Acks(sent', k) = Acks(sent, k)
        /\ Size(sent', k) <= read' /\ read' < Size(sent', k + 1)
    BY <1>1, <1>3, <1>6, <1>7, <1>8 DEF qs
  <1>10. got = Tag(Identity[proto], Recs(sent, k)) /\ got' = got
    BY DEF Reached
  <1>11. got' = Tag(Identity[proto'], Recs(sent', k))
    BY <1>9, <1>10
  <1>12. why' \notin {"rejected", "panic"}
    OBVIOUS
  <1>13. Reached(k)'
    BY <1>9, <1>11, <1>12 DEF Reached
  <1> QED BY <1>9, <1>13

-----------------------------------------------------------------------------
(* The handler: what was delivered and answered grows by what the packet   *)
(* says.                                                                   *)
Pair(name, x) == <<name, x>>

LEMMA TagAt ==
  ASSUME NEW name, NEW s, IsSeq(s)
  PROVE  /\ IsSeq(Tag(name, s)) /\ Len(Tag(name, s)) = Len(s) /\ Len(s) \in Nat
         /\ \A i \in 1 .. Len(s) : Tag(name, s)[i] = Pair(name, s[i])
  <1>1. PICK X : s \in Seq(X)
    BY DEF IsSeq
  <1>2. Len(s) \in Nat /\ DOMAIN s = 1 .. Len(s) /\ \A i \in 1 .. Len(s) : s[i] \in X
    BY <1>1
  <1> DEFINE Y == {Pair(name, x) : x \in X}
             n == Len(s)
             f == [i \in 1 .. n |-> Pair(name, s[i])]
  <1>3. n \in Nat /\ \A i \in 1 .. n : Pair(name, s[i]) \in Y
    BY <1>2
  <1>4. Tag(name, s) = f
    BY <1>2 DEF Tag, Pair
  <1> HIDE DEF Y, n
  <1>5. f \in Seq(Y) /\ Len(f) = n /\ \A i \in 1 .. n : f[i] = Pair(name, s[i])
    <2>1. f \in [1 .. n -> Y] /\ DOMAIN f = 1 .. n /\ \A i \in 1 .. n : f[i] = Pair(name, s[i])
      BY <1>3
    <2> HIDE DEF f
    <2>2. f \in Seq(Y)
      BY <1>3, <2>1, SeqDef
    <2>3. Len(f) \in Nat /\ 1 .. Len(f) = 1 .. n
      BY <2>1, <2>2, LenProperties
    <2>4. Len(f) = n
      BY <1>3, <2>3
    <2> QED BY <2>1, <2>2, <2>4
  <1> HIDE DEF f
  <1> QED BY <1>2, <1>4, <1>5 DEF IsSeq, n

LEMMA TagCat ==
  ASSUME NEW name, NEW s, NEW t, IsSeq(s), IsSeq(t)
  PROVE  Tag(name, Cat(s, t)) = Cat(Tag(name, s), Tag(name, t))
  <1> DEFINE u == Cat(s, t)
             a == Tag(name, s)
             b == Tag(name, t)
             c == Tag(name, u)
             d == Cat(a, b)
  <1>1. /\ IsSeq(u) /\ Len(u) = Len(s) + Len(t) /\ Len(s) \in Nat /\ Len(t) \in Nat
        /\ \A i \in 1 .. Len(s) : u[i] = s[i]
        /\ \A i \in 1 .. Len(t) : u[Len(s) + i] = t[i]
    BY CatIsSeq
  <1> HIDE DEF u
  <1>2. /\ IsSeq(a) /\ Len(a) = Len(s) /\ \A i \in 1 .. Len(s) : a[i] = Pair(name, s[i])
        /\ IsSeq(b) /\ Len(b) = Len(t) /\ \A i \in 1 .. Len(t) : b[i] = Pair(name, t[i])
        /\ IsSeq(c) /\ Len(c) = Len(u) /\ \A i \in 1 .. Len(u) : c[i] = Pair(name, u[i])
    BY <1>1, TagAt
  <1> HIDE DEF a, b, c
  <1>3. /\ IsSeq(d) /\ Len(d) = Len(a) + Len(b)
        /\ \A i \in 1 .. Len(a) : d[i] = a[i]
        /\ \A i \in 1 .. Len(b) : d[Len(a) + i] = b[i]
    <2>1. IsSeq(a) /\ IsSeq(b)
      BY <1>2
    <2> QED BY <2>1, CatIsSeq
  <1> HIDE DEF d
  <1>4. ASSUME NEW i \in 1 .. Len(c) PROVE c[i] = d[i]
    <2>1. CASE i <= Len(s)
      BY <1>1, <1>2, <1>3, <2>1
    <2>2. CASE i > Len(s)
      <3> DEFINE x == i - Len(s)
      <3>1. x \in 1 .. Len(t) /\ i = Len(s) + x /\ i \in 1 .. Len(u)
        BY <1>1, <1>2, <2>2
      <3> HIDE DEF x
      <3> QED BY <1>1, <1>2, <1>3, <3>1
    <2> QED BY <1>1, <1>2, <2>1, <2>2
  <1>5. c = d
    BY <1>1, <1>2, <1>3, <1>4, SeqSame
  <1> QED BY <1>5 DEF a, b, c, d, u

LEMMA CatNothing ==
  ASSUME NEW s, NEW t, IsSeq(s), t = <<>>
  PROVE  Cat(s, t) = s
  <1>1. PICK X : s \in Seq(X)
    BY DEF IsSeq
  <1> QED BY <1>1, ConcatEmptySeq DEF Cat

LEMMA SaidNext ==
  ASSUME NEW ps, NEW n, Good(ps, n), NEW k \in Nat, k < n, NEW name
  PROVE  /\ Tag(name, Recs(ps, k + 1)) = Cat(Tag(name, Recs(ps, k)), Tag(name, ps[k + 1].recs))
         /\ Acks(ps, k + 1) = Cat(Acks(ps, k), ps[k + 1].acks)
         /\ IsSeq(Acks(ps, k)) /\ IsSeq(ps[k + 1].acks)
         /\ IsSeq(Recs(ps, k)) /\ IsSeq(ps[k + 1].recs)
         /\ ps[k + 1].recs = <<>> => Recs(ps, k + 1) = Recs(ps, k)
         /\ ps[k + 1].acks = <<>> => Acks(ps, k + 1) = Acks(ps, k)
  <1> DEFINE a == Recs(ps, k)
             b == ps[k + 1].recs
             c == Acks(ps, k)
             d == ps[k + 1].acks
  <1>1. IsSeq(a) /\ IsSeq(b) /\ Recs(ps, k + 1) = Cat(a, b)
    BY RecsNext DEF IsSeq
  <1>2. IsSeq(c) /\ IsSeq(d) /\ Acks(ps, k + 1) = Cat(c, d)
    BY AcksNext DEF IsSeq
  <1> HIDE DEF a, b, c, d
  <1>3. Tag(name, Cat(a, b)) = Cat(Tag(name, a), Tag(name, b))
    BY <1>1, TagCat
  <1>4. (b = <<>> => Cat(a, b) = a) /\ (d = <<>> => Cat(c, d) = c)
    BY <1>1, <1>2, CatNothing
  <1> QED BY <1>1, <1>2, <1>3, <1>4 DEF a, b, c, d

LEMMA ReachedNext ==
  ASSUME TypeInv, NEW k, Reached(k), k < Len(sent), sent' = sent, proto' = proto,
         read' = Size(sent, k + 1), why' \notin {"rejected", "panic"},
         \/ got' = Cat(got, Tag(Identity[proto], sent[k + 1].recs))
         \/ got' = got /\ sent[k + 1].recs = <<>>
  PROVE  Reached(k + 1)'
  <1> DEFINE n == Len(sent)
  <1>1. n \in Nat /\ Good(sent, n)
    BY SentGood DEF TypeInv
  <1>2. k \in 0 .. n /\ k \in Nat /\ k < n /\ got = Tag(Identity[proto], Recs(sent, k))
    BY DEF Reached
  <1>3. got' = Tag(Identity[proto], Recs(sent, k + 1))
    BY <1>1, <1>2, SaidNext
  <1> HIDE DEF n
  <1>4. k + 1 \in 0 .. n /\ Size(sent, k + 1) \in Nat
    <2>1. k + 1 \in 0 .. n
      BY <1>1, <1>2
    <2> QED BY <1>1, <2>1, DataPrefix
  <1>5. k + 1 < n => Size(sent, k + 1) < Size(sent, (k + 1) + 1)
    <2> SUFFICES ASSUME k + 1 < n PROVE Size(sent, k + 1) < Size(sent, (k + 1) + 1)
      OBVIOUS
    <2> DEFINE j == k + 1
    <2>1. j \in Nat /\ j < n
      BY <1>2
    <2> HIDE DEF j
    <2>2. /\ Size(sent, j) \in Nat /\ Size(sent, j + 1) = Size(sent, j) + Len(sent[j + 1].bytes)
          /\ Len(sent[j + 1].bytes) \in Nat /\ Len(sent[j + 1].bytes) > 0
      BY <1>1, <2>1, DataStep
    <2>3. Size(sent, j) < Size(sent, j + 1)
      BY <2>2
    <2> QED BY <2>3 DEF j
  <1>6. /\ k + 1 \in 0 .. Len(sent') /\ Size(sent', k + 1) <= read'
        /\ k + 1 < Len(sent') => read' < Size(sent', (k + 1) + 1)
    BY <1>4, <1>5 DEF n
  <1>7. got' = Tag(Identity[proto'], Recs(sent', k + 1))
    BY <1>3
  <1> QED BY <1>6, <1>7 DEF Reached

LEMMA AnsweredNext ==
  ASSUME TypeInv, NEW k \in Nat, k < Len(sent), Answered(k), sent' = sent, greeted' = greeted,
         replies' = Cat(replies, sent[k + 1].acks)
  PROVE  Answered(k + 1)'
  <1> DEFINE a == Acks(sent, k)
             d == sent[k + 1].acks
             c == Cat(a, d)
             q == Cat(replies, d)
  <1>1. IsSeq(a) /\ IsSeq(d) /\ Acks(sent, k + 1) = c
    BY SentGood, SaidNext DEF TypeInv
  <1>2. Len(replies) = greeted + Len(a) /\ \A i \in 1 .. Len(a) : replies[greeted + i] = a[i]
    BY DEF Answered
  <1>3. IsSeq(replies) /\ greeted \in Nat
    BY DEF TypeInv, ControlInv
  <1> HIDE DEF a, d
  <1>4. /\ Len(c) = Len(a) + Len(d) /\ Len(a) \in Nat /\ Len(d) \in Nat
        /\ \A i \in 1 .. Len(a) : c[i] = a[i]
        /\ \A i \in 1 .. Len(d) : c[Len(a) + i] = d[i]
    BY <1>1, CatIsSeq
  <1>5. /\ Len(q) = Len(replies) + Len(d) /\ Len(replies) \in Nat
        /\ \A i \in 1 .. Len(replies) : q[i] = replies[i]
        /\ \A i \in 1 .. Len(d) : q[Len(replies) + i] = d[i]
    BY <1>1, <1>3, CatIsSeq
  <1>6. replies' = q
    BY DEF q, d
  <1> HIDE DEF c, q
  <1>7. ASSUME NEW i \in 1 .. Len(c) PROVE q[greeted + i] = c[i]
    <2>1. CASE i <= Len(a)
      <3>1. i \in 1 .. Len(a) /\ greeted + i \in 1 .. Len(replies)
        BY <1>2, <1>3, <1>4, <2>1
      <3> QED BY <1>2, <1>4, <1>5, <3>1
    <2>2. CASE i > Len(a)
      <3> DEFINE x == i - Len(a)
      <3>1. x \in 1 .. Len(d) /\ i = Len(a) + x /\ greeted + i = Len(replies) + x
        BY <1>2, <1>3, <1>4, <2>2
      <3> HIDE DEF x
      <3> QED BY <1>4, <1>5, <3>1
    <2> QED BY <1>4, <2>1, <2>2
  <1>8. Len(q) = greeted + Len(c)
    BY <1>2, <1>3, <1>4, <1>5
  <1>9. Acks(sent', k + 1) = c
    BY <1>1
  <1> QED BY <1>6, <1>7, <1>8, <1>9 DEF Answered

(* A call of the handler that ends the session.                            *)
Ended(r) ==
  /\ r.out \in {"wait", "fail", "panic"}
  /\ phase' \in {"closed", "crashed"}
  /\ UNCHANGED <<wire, read, carry, id, got, replies, greeted>>
  /\ why' \in {"rejected", "panic"} => Refused(r) /\ (r.out = "fail" => ~(fin /\ wire = <<>>))

(* How far a call has read.                                                *)
Took(r) ==
  \E m \in r.n .. Len(wire) :
    /\ proto \notin Text => m = r.n
    /\ wire' = Rest(wire, m) /\ read' = read + m

LEMMA ServeStep ==
  ASSUME TypeInv, Serve, NEW login, History(login), NEW r, r = Result, ~Unanswered(r)
  PROVE  /\ History(login)' /\ UNCHANGED device /\ Open
         /\ why \notin {"rejected", "panic"}
         /\ \/ Register(r) \/ Authenticated(r) \/ Parsed(r)
            \/ Ended(r)
         /\ r.out \in {"more", "login", "done"} =>
              /\ r.n \in 0 .. Len(wire) /\ IsSeq(r.replies) /\ Took(r) /\ why' = why
  <1>1. Open /\ why \notin {"rejected", "panic"}
    BY OpenQuiet DEF Serve, TypeInv
  <1>2. Register(r) \/ Authenticated(r) \/ Parsed(r) \/ Failed(r) \/ TimedOut(r) \/ Panicked(r)
    BY DEF Serve, Take
  <1>3. UNCHANGED device
    BY <1>2 DEF Register, Authenticated, Parsed, Failed, TimedOut, Panicked, End
  <1>4. ASSUME Failed(r) \/ TimedOut(r) \/ Panicked(r) PROVE Ended(r)
    <2>1. /\ phase' \in {"closed", "crashed"} /\ r.out \in {"wait", "fail", "panic"}
          /\ UNCHANGED <<wire, read, carry, id, got, replies, greeted>>
      BY <1>4 DEF Failed, TimedOut, Panicked, End
    <2>2. why' \in {"rejected", "panic"} => Refused(r) /\ (r.out = "fail" => ~(fin /\ wire = <<>>))
      BY <1>4 DEF Failed, TimedOut, Panicked, End, Refused
    <2> QED BY <2>1, <2>2 DEF Ended
  <1>5. Bounded(r, wire)
    BY <1>1, ResultBounded
  <1>6. ASSUME r.out \in {"more", "login", "done"}
        PROVE  /\ r.n \in 0 .. Len(wire) /\ IsSeq(r.replies) /\ Consume(r.n) /\ why' = why
    <2>1. r.n \in 0 .. Len(wire) /\ IsSeq(r.replies)
      BY <1>5, <1>6 DEF Bounded
    <2>2. Register(r) \/ Authenticated(r) \/ Parsed(r)
      BY <1>2, <1>6 DEF Failed, TimedOut, Panicked
    <2> QED BY <2>1, <2>2 DEF Register, Authenticated, Parsed
  <1>7. ASSUME r.out \in {"more", "login", "done"}
        PROVE  Took(r) /\ read' + Len(wire') = read + Len(wire)
    <2>1. r.n \in 0 .. Len(wire) /\ Consume(r.n)
      BY <1>6, <1>7
    <2>2. \E m \in r.n .. Len(wire) :
            /\ proto \notin Text => m = r.n
            /\ wire' = Rest(wire, m) /\ read' = read + m
            /\ read' + Len(wire') = read + Len(wire)
      BY <2>1, Consumes
    <2> QED BY <2>2 DEF Took
  <1>8. read' + Len(wire') = read + Len(wire)
    <2>1. CASE r.out \in {"more", "login", "done"}
      BY <1>7, <2>1
    <2>2. CASE r.out \notin {"more", "login", "done"}
      <3>1. Ended(r)
        BY <1>2, <1>4, <2>2 DEF Register, Authenticated, Parsed
      <3> QED BY <3>1 DEF Ended
    <2> QED BY <2>1, <2>2
  <1>9. History(login)'
    <2>1. proto' = proto /\ plan' = plan /\ sent' = sent /\ cut' = cut
      BY <1>3 DEF device
    <2> QED BY <1>8, <2>1 DEF History
  <1> QED BY <1>1, <1>2, <1>3, <1>4, <1>6, <1>7, <1>9

(* The reply to the login could not be written.                            *)
LEMMA UnansweredStep ==
  ASSUME Unanswered(Result), NEW login, History(login)
  PROVE  /\ History(login)' /\ phase' = "closed" /\ why' = "unanswered"
         /\ UNCHANGED <<proto, sent, cut, wire, read, carry, id, got, replies, greeted>>
  <1>1. /\ phase' = "closed" /\ why' = "unanswered"
        /\ UNCHANGED <<device, wire, read, carry, id, got, replies, greeted>>
    BY DEF Unanswered, End
  <1>2. UNCHANGED <<proto, plan, sent, cut>>
    BY <1>1 DEF device
  <1> QED BY <1>1, <1>2 DEF History

LEMMA ReachedEnd ==
  ASSUME NEW k, Reached(k), NEW r, Ended(r), UNCHANGED device,
         Refused(r) /\ ~(fin /\ wire = <<>> /\ r.out = "fail") =>
           k < Len(sent) /\ ~sent[k + 1].whole
  PROVE  Reached(k)'
  <1>1. sent' = sent /\ proto' = proto /\ read' = read /\ got' = got
    BY DEF Ended, device
  <1>2. why' \in {"rejected", "panic"} => k < Len(sent) /\ ~sent[k + 1].whole
    BY DEF Ended
  <1> QED BY <1>1, <1>2 DEF Reached

LEMMA BinaryServe ==
  ASSUME HandlersExact, TypeInv, Serve, ~Unanswered(Result), proto \notin Text,
         NEW login, History(login), NEW k, Reached(k), Between(login, k)
  PROVE  \E j \in 0 .. Len(sent') : History(login)' /\ Reached(j)' /\ Between(login, j)'
  <1> DEFINE n == Len(sent)
             r == Result
             protocol == proto
             L == Len(login)
  <1>1. /\ History(login)' /\ UNCHANGED device /\ Open
        /\ why \notin {"rejected", "panic"}
        /\ Register(r) \/ Authenticated(r) \/ Parsed(r) \/ Ended(r)
        /\ r.out \in {"more", "login", "done"} =>
             r.n \in 0 .. Len(wire) /\ IsSeq(r.replies) /\ Took(r) /\ why' = why
    BY ServeStep
  <1>2. proto \in Protocols /\ login \in Logins[proto] /\ fin \in BOOLEAN
    BY DEF TypeInv, WireInv, ControlInv, History
  <1>3. /\ ReadAlone(proto) /\ proto \in Handlers \ Text
        /\ L = 1 \/ (L = 2 /\ proto = "jt808" /\ login[1].whole)
        /\ \A i \in 1 .. L : login[i].recs = <<>> /\ login[i].acks = <<>>
    BY <1>2, LoginFacts
  <1>4. Good(sent, n) /\ n \in Nat /\ read \in Nat /\ Carries(sent, n, wire, read)
    BY SentGood DEF TypeInv, WireInv
  <1>5. k \in 0 .. n /\ k \in Nat /\ read = Size(sent, k)
    BY DEF Reached, Between
  <1>6. /\ OneDefect(sent, n)
        /\ \A i \in 1 .. n : /\ i <= L => sent[i] = login[i]
                             /\ i > L => sent[i] \in Packets[proto]
    BY DEF History
  <1>7. /\ phase = "auth" => r = Authenticate(proto, wire, fin)
        /\ phase = "auth2" => r = J!AuthSecond(carry, wire)
        /\ phase = "parse" => r = ParsePacket(proto, wire, fin)
    BY DEF Result
  <1>8. phase = "auth" \/ phase = "auth2" \/ phase = "parse"
    BY <1>1 DEF Open
  <1>9. sent' = sent /\ proto' = proto
    BY <1>1 DEF device
  <1> HIDE DEF r
  (* The session ends and nothing else changes. *)
  <1>10. ASSUME Ended(r), Refused(r) => k < n /\ ~sent[k + 1].whole
         PROVE  \E j \in 0 .. Len(sent') : History(login)' /\ Reached(j)' /\ Between(login, j)'
    <2>1. Reached(k)'
      BY <1>1, <1>10, ReachedEnd
    <2>2. /\ phase' \in {"closed", "crashed"} /\ read' = read /\ greeted' = greeted
          /\ replies' = replies
      BY <1>10 DEF Ended
    <2>3. Between(login, k)'
      BY <1>9, <2>2 DEF Between, Answered
    <2> QED BY <1>1, <1>5, <1>9, <2>1, <2>3
  (* A packet is read to its end. *)
  <1>11. ASSUME k < n, r.out \in {"more", "login", "done"}, r.n = Len(sent[k + 1].bytes)
         PROVE  read' = Size(sent, k + 1) /\ k + 1 \in 0 .. Len(sent')
    <2>1. read' = read + r.n
      BY <1>1, <1>11 DEF Took
    <2>2. Size(sent, k + 1) = Size(sent, k) + Len(sent[k + 1].bytes)
      BY <1>4, <1>5, <1>11, DataStep
    <2>3. k + 1 \in 0 .. n
      BY <1>4, <1>5, <1>11
    <2> QED BY <1>5, <1>9, <1>11, <2>1, <2>2, <2>3
  <1>12. CASE r.out = "wait"
    <2>1. Ended(r) /\ ~Refused(r)
      BY <1>1, <1>12 DEF Register, Authenticated, Parsed, Refused
    <2> QED BY <1>10, <2>1
  <1>13. CASE Refused(r) /\ k < n /\ ~sent[k + 1].whole
    <2>1. Ended(r)
      BY <1>1, <1>13 DEF Register, Authenticated, Parsed, Refused
    <2> QED BY <1>10, <1>13, <2>1
  (* A login is accepted: its packets hold no position and ask for nothing. *)
  <1>14. ASSUME k < n, k + 1 = L, Accepted(proto, r, sent[k + 1]), Acks(sent, k) = <<>>
         PROVE  \E j \in 0 .. Len(sent') : History(login)' /\ Reached(j)' /\ Between(login, j)'
    <2>1. r.out = "login" /\ r.id = Identity[proto] /\ r.n = Len(sent[k + 1].bytes)
      BY <1>14 DEF Accepted
    <2>2. Authenticated(r) /\ why' = why
      BY <1>1, <2>1 DEF Register, Parsed, Ended
    <2>3. /\ phase' = "parse" /\ id' = r.id /\ replies' = Cat(replies, r.replies) /\ got' = got
          /\ greeted' = Len(replies) + Len(r.replies)
      BY <2>2 DEF Authenticated, Cat
    <2>4. read' = Size(sent, k + 1) /\ k + 1 \in 0 .. Len(sent')
      BY <1>11, <1>14, <2>1
    <2>5. sent[k + 1].recs = <<>> /\ sent[k + 1].acks = <<>>
      <3>1. k + 1 \in 1 .. n /\ k + 1 \in 1 .. L /\ sent[k + 1] = login[k + 1]
        BY <1>4, <1>5, <1>6, <1>14
      <3> QED BY <1>3, <3>1
    <2>6. Reached(k + 1)'
      BY <1>1, <1>9, <1>14, <2>2, <2>3, <2>4, <2>5, ReachedNext
    <2>7. Answered(k + 1)'
      <3>1. Acks(sent, k + 1) = <<>>
        BY <1>4, <1>5, <1>14, <2>5, SaidNext
      <3>2. IsSeq(replies) /\ IsSeq(r.replies)
        BY <1>1, <2>1 DEF TypeInv, ControlInv
      <3>3. /\ Len(Cat(replies, r.replies)) = Len(replies) + Len(r.replies)
            /\ Len(replies) \in Nat /\ Len(r.replies) \in Nat
        BY <3>2, CatIsSeq
      <3>4. Len(replies') = greeted' /\ greeted' \in Nat
        BY <2>3, <3>3
      <3>5. Len(Acks(sent', k + 1)) = 0
        BY <1>9, <3>1
      <3>6. /\ Len(replies') = greeted' + Len(Acks(sent', k + 1))
            /\ \A i \in 1 .. Len(Acks(sent', k + 1)) : FALSE
        BY <3>4, <3>5
      <3> QED BY <3>6 DEF Answered
    <2>8. Between(login, k + 1)'
      <3>1. k + 1 >= Len(login)
        BY <1>3, <1>14
      <3> QED BY <1>9, <2>1, <2>3, <2>4, <2>7, <3>1 DEF Between
    <2> QED BY <1>1, <2>4, <2>6, <2>8
  <1>15. CASE phase = "auth"
    <2>1. k = 0 /\ greeted = 0 /\ Size(sent, 0) = 0 /\ Acks(sent, 0) = <<>>
      BY <1>15, DataZero DEF Between, Size
    <2>2. n > 0 => sent[1] = login[1]
      BY <1>3, <1>4, <1>6
    <2>3. Carries(sent, n, wire, 0) /\ r = Authenticate(proto, wire, fin)
      BY <1>4, <1>5, <1>7, <1>15, <2>1
    <2> HIDE DEF n, L
    <2>4. \/ r.out = "wait"
          \/ n > 0 /\ ~sent[1].whole /\ Refused(r)
          \/ n > 0 /\ sent[1].whole /\ L = 1 /\ Accepted(proto, r, sent[1])
          \/ /\ n > 0 /\ sent[1].whole /\ L = 2 /\ proto = "jt808"
             /\ r.out = "more" /\ r.n = Len(sent[1].bytes)
             /\ r.pkt = J!AuthFirst(login[1].bytes).pkt
      BY <1>2, <1>3, <1>4, <2>2, <2>3, BinaryAuthenticate DEF L
    <2>5. k + 1 = 1 /\ (n > 0 => k < n) /\ Acks(sent, k) = <<>>
      BY <2>1
    <2>6. CASE n > 0 /\ ~sent[1].whole /\ Refused(r)
      BY <1>13, <2>5, <2>6
    <2>7. CASE n > 0 /\ sent[1].whole /\ L = 1 /\ Accepted(proto, r, sent[1])
      BY <1>14, <2>5, <2>7
    <2>8. CASE /\ n > 0 /\ sent[1].whole /\ L = 2 /\ proto = "jt808"
               /\ r.out = "more" /\ r.n = Len(sent[1].bytes)
               /\ r.pkt = J!AuthFirst(login[1].bytes).pkt
      <3>1. Register(r) /\ why' = why
        BY <1>1, <2>8 DEF Authenticated, Parsed, Ended
      <3>2. phase' = "auth2" /\ carry' = r.pkt /\ got' = got /\ greeted' = greeted
        BY <3>1 DEF Register
      <3>3. read' = Size(sent, k + 1) /\ k + 1 \in 0 .. Len(sent')
        BY <1>11, <2>5, <2>8
      <3>4. sent[k + 1].recs = <<>>
        BY <1>3, <2>2, <2>5, <2>8
      <3>5. Reached(k + 1)'
        BY <1>1, <1>9, <2>5, <2>8, <3>1, <3>2, <3>3, <3>4, ReachedNext DEF n
      <3>6. Between(login, k + 1)'
        <4>1. greeted' = 0
          BY <2>1, <3>2
        <4> QED BY <1>9, <2>5, <2>8, <3>2, <3>3, <4>1 DEF Between, L
      <3> QED BY <1>1, <3>3, <3>5, <3>6
    <2> QED BY <1>12, <2>4, <2>6, <2>7, <2>8
  <1>16. CASE phase = "auth2"
    <2>1. /\ k = 1 /\ greeted = 0 /\ proto = "jt808" /\ L = 2
          /\ carry = J!AuthFirst(login[1].bytes).pkt
      BY <1>16 DEF Between
    <2>2. n > 0 /\ sent[1] = login[1] /\ (n > 1 => sent[2] = login[2])
      BY <1>4, <1>5, <1>6, <2>1
    <2>3. Carries(sent, n, wire, Size(sent, 1)) /\ r = J!AuthSecond(carry, wire)
      BY <1>4, <1>5, <1>7, <1>16, <2>1
    <2> HIDE DEF n, L
    <2>4. ReadAlone("jt808") /\ login \in Logins["jt808"] /\ Len(login) = 2
      BY <1>2, <1>3, <2>1 DEF L
    <2>5. r = J!AuthSecond(J!AuthFirst(login[1].bytes).pkt, wire)
      BY <2>1, <2>3
    <2>6. \/ r.out = "wait"
          \/ n > 1 /\ ~sent[2].whole /\ Refused(r)
          \/ n > 1 /\ sent[2].whole /\ Accepted("jt808", r, sent[2])
      BY <1>4, <2>2, <2>3, <2>4, <2>5, BinaryAuthSecond
    <2>7. k + 1 = 2 /\ k + 1 = L /\ (n > 1 => k < n)
      BY <2>1
    <2>8. Acks(sent, k) = <<>>
      <3>1. 0 \in Nat /\ 0 < n /\ 0 + 1 = 1
        BY <2>2
      <3>2. sent[0 + 1].acks = <<>>
        BY <1>3, <2>1, <2>2, <3>1
      <3>3. Acks(sent, 0 + 1) = Acks(sent, 0)
        BY <1>4, <3>1, <3>2, SaidNext
      <3> QED BY <2>1, <3>1, <3>3, DataZero
    <2>9. CASE n > 1 /\ ~sent[2].whole /\ Refused(r)
      BY <1>13, <2>7, <2>9
    <2>10. CASE n > 1 /\ sent[2].whole /\ Accepted("jt808", r, sent[2])
      BY <1>14, <2>1, <2>7, <2>8, <2>10
    <2> QED BY <1>12, <2>6, <2>9, <2>10
  <1>17. CASE phase = "parse"
    <2>1. k >= L /\ id = Identity[proto] /\ (greeted > 0 => Answered(k))
      BY <1>17 DEF Between
    <2>2. \A i \in k + 1 .. n : sent[i] \in Packets[proto]
      BY <1>3, <1>4, <1>5, <1>6, <2>1
    <2>3. r = ParsePacket(proto, wire, fin) /\ Carries(sent, n, wire, Size(sent, k))
      BY <1>4, <1>5, <1>7, <1>17
    <2>4. k \in 0 .. n
      BY <1>5
    <2> HIDE DEF n
    <2>5. \/ r.out = "wait"
          \/ k < n /\ sent[k + 1].whole /\ Understood(r, sent[k + 1])
          \/ k < n /\ ~sent[k + 1].whole /\ Refused(r)
      BY <1>2, <1>3, <1>4, <1>6, <2>2, <2>3, <2>4, BinaryParse
    <2>6. CASE k < n /\ sent[k + 1].whole /\ Understood(r, sent[k + 1])
      <3>1. /\ r.out = "done" /\ r.n = Len(sent[k + 1].bytes)
            /\ r.recs = sent[k + 1].recs /\ r.replies = sent[k + 1].acks
        BY <2>6 DEF Understood
      <3>2. Parsed(r) /\ why' = why
        BY <1>1, <3>1 DEF Register, Authenticated, Ended
      <3>3. /\ got' = Cat(got, Tag(id, r.recs)) /\ replies' = Cat(replies, r.replies)
            /\ phase' = phase /\ id' = id /\ greeted' = greeted
        BY <3>2 DEF Parsed, Cat, Tag
      <3>4. read' = Size(sent, k + 1) /\ k + 1 \in 0 .. Len(sent')
        BY <1>11, <2>6, <3>1
      <3>5. got' = Cat(got, Tag(Identity[proto], sent[k + 1].recs))
        BY <2>1, <3>1, <3>3
      <3>6. Reached(k + 1)'
        BY <1>1, <1>9, <2>6, <3>2, <3>4, <3>5, ReachedNext DEF n
      <3>7. greeted' > 0 => Answered(k + 1)'
        <4>1. greeted > 0 => Answered(k)
          BY <2>1
        <4>2. replies' = Cat(replies, sent[k + 1].acks)
          BY <3>1, <3>3
        <4>3. k < Len(sent)
          BY <2>6 DEF n
        <4> QED BY <1>5, <1>9, <3>3, <4>1, <4>2, <4>3, AnsweredNext
      <3>8. Between(login, k + 1)'
        <4>1. k + 1 >= Len(login)
          BY <1>3, <1>5, <2>1
        <4> QED BY <1>9, <1>17, <2>1, <3>3, <3>4, <3>7, <4>1 DEF Between
      <3> QED BY <1>1, <3>4, <3>6, <3>8
    <2>7. CASE k < n /\ ~sent[k + 1].whole /\ Refused(r)
      BY <1>13, <2>7 DEF n
    <2> QED BY <1>12, <2>5, <2>6, <2>7
  <1> QED BY <1>8, <1>15, <1>16, <1>17

LEMMA HistoryInit ==
  ASSUME HandlersExact, TypeInv, Init
  PROVE  /\ plan \in Logins[proto] /\ History(plan)
         /\ 0 \in 0 .. Len(sent) /\ Len(sent) = 0 /\ Size(sent, 0) = 0 /\ Recs(sent, 0) = <<>>
         /\ why \notin {"rejected", "panic"}
  <1>1. plan \in Logins[proto] /\ sent = <<>> /\ ~cut /\ proto \in Protocols
    BY DEF Init
  <1>2. Len(sent) = 0 /\ Size(sent, 0) = 0 /\ Recs(sent, 0) = <<>>
    BY <1>1, DataZero DEF Size
  <1>3. why \notin {"rejected", "panic"}
    BY OpenQuiet DEF Init, Open, TypeInv
  <1> DEFINE X == Tracker(proto)
             s == plan
             t == Rest(s, 0)
  <1>4. s \in Seq(X)
    BY <1>1, LoginFacts
  <1> HIDE DEF X, s
  <1>5. 0 \in 0 .. Len(s) /\ Len(s) \in Nat
    BY <1>4
  <1>6. t \in Seq(X) /\ Len(t) = Len(s) - 0 /\ \A i \in 1 .. Len(s) - 0 : t[i] = s[0 + i]
    BY <1>4, <1>5, RestOfSeq
  <1> HIDE DEF t
  <1>7. Len(t) = Len(s) /\ \A i \in 1 .. Len(t) : t[i] = s[i]
    BY <1>5, <1>6
  <1>8. t = s
    BY <1>4, <1>6, <1>7, SeqEqual
  <1>9. Len(sent) <= Len(plan) /\ plan = Rest(plan, Len(sent))
    BY <1>2, <1>5, <1>8 DEF s, t
  <1>10. \A i \in 1 .. Len(sent) : FALSE
    BY <1>2
  <1>11. OneDefect(sent, Len(sent))
    BY <1>10 DEF OneDefect
  <1> QED BY <1>1, <1>2, <1>3, <1>9, <1>10, <1>11 DEF History

LEMMA ReachedInit ==
  ASSUME HandlersExact, TypeInv, Init
  PROVE  Reached(0)
  <1>1. /\ 0 \in 0 .. Len(sent) /\ Len(sent) = 0 /\ Size(sent, 0) = 0 /\ Recs(sent, 0) = <<>>
        /\ why \notin {"rejected", "panic"}
    BY HistoryInit
  <1>2. got = <<>> /\ read = 0
    BY DEF Init
  <1>3. Tag(Identity[proto], <<>>) = <<>>
    BY DEF Tag
  <1> QED BY <1>1, <1>2, <1>3 DEF Reached

LEMMA BinaryInit ==
  ASSUME HandlersExact, TypeInv, Init
  PROVE  BinaryInv
  <1>1. plan \in Logins[proto] /\ History(plan) /\ 0 \in 0 .. Len(sent) /\ Size(sent, 0) = 0
    BY HistoryInit
  <1>2. phase = "auth" /\ greeted = 0 /\ read = 0
    BY DEF Init
  <1>3. Between(plan, 0)
    BY <1>1, <1>2 DEF Between
  <1> QED BY <1>1, <1>3, ReachedInit DEF BinaryInv

LEMMA BinaryNext ==
  ASSUME HandlersExact, TypeInv, BinaryInv, [Next]_vars
  PROVE  BinaryInv'
  <1>1. CASE UNCHANGED vars
    BY <1>1 DEF vars, device, session, BinaryInv, History, Reached, Between, Answered
  <1> SUFFICES ASSUME Next, proto' \notin Text
               PROVE  \E login \in Logins[proto'] : \E k \in 0 .. Len(sent') :
                        History(login)' /\ Reached(k)' /\ Between(login, k)'
    BY <1>1 DEF BinaryInv
  <1>2. proto' = proto
    BY DEF Next, SendLogin, SendPacket, Lose, Transmit, Serve, Take, Register, Authenticated,
           Unanswered, Parsed, Failed, TimedOut, Panicked, End, device
  <1>3. PICK login \in Logins[proto] : \E k \in 0 .. Len(sent) :
          History(login) /\ Reached(k) /\ Between(login, k)
    BY <1>2 DEF BinaryInv
  <1>4. PICK k \in 0 .. Len(sent) : History(login) /\ Reached(k) /\ Between(login, k)
    BY <1>3
  <1>5. CASE Serve /\ ~Unanswered(Result)
    <2>1. \E j \in 0 .. Len(sent') : History(login)' /\ Reached(j)' /\ Between(login, j)'
      BY <1>2, <1>4, <1>5, BinaryServe
    <2> QED BY <1>2, <2>1
  <1>7. CASE Unanswered(Result)
    <2>1. /\ History(login)' /\ phase' = "closed" /\ why' = "unanswered"
          /\ UNCHANGED <<proto, sent, cut, wire, read, carry, id, got, replies, greeted>>
      BY <1>4, <1>7, UnansweredStep
    <2>2. Reached(k)' /\ Between(login, k)'
      BY <1>4, <2>1 DEF Between, Reached, Answered
    <2> QED BY <1>2, <1>4, <2>1, <2>2
  <1>6. CASE TrackerNext
    <2>1. /\ History(login)' /\ why \notin {"rejected", "panic"}
          /\ UNCHANGED session /\ read' = read
          /\ UNCHANGED <<sent, wire, cut, overtaken>> \/ \E p : Sent(p)
      BY <1>4, <1>6, TrackerStep
    <2>2. UNCHANGED <<phase, carry, id, got, replies, greeted, why>>
      BY <2>1 DEF session
    <2>3. /\ Reached(k)' /\ k \in 0 .. Len(sent') /\ Size(sent', k) = Size(sent, k)
          /\ Acks(sent', k) = Acks(sent, k)
      <3>1. CASE UNCHANGED <<sent, wire, cut, overtaken>>
        <4>1. UNCHANGED <<sent, got, proto, read, why>>
          BY <1>2, <2>1, <2>2, <3>1
        <4> QED BY <1>4, <4>1 DEF Reached
      <3>2. ASSUME NEW p, Sent(p) PROVE <2>3!:
        BY <1>2, <1>4, <2>1, <2>2, <3>2, ReachedSend
      <3> QED BY <2>1, <3>1, <3>2
    <2>4. Between(login, k)'
      BY <1>2, <1>4, <2>1, <2>2, <2>3 DEF Between, Answered
    <2> QED BY <1>2, <2>1, <2>3, <2>4
  <1> QED BY <1>5, <1>6, <1>7 DEF Next, TrackerNext

(* JT808 and GT06: at any moment exactly the packets that have been read   *)
(* to their end have been answered, in order and each with its own number, *)
(* however packets are pipelined or cut off, for handlers that answer each *)
(* packet correctly when it comes alone (HandlersExact).                   *)
THEOREM SessionAcks ==
  ASSUME HandlersExact
  PROVE  Spec => []AcksExact
  <1>1. Init => TypeInv /\ BinaryInv
    BY TypeInit, BinaryInit
  <1>2. TypeInv /\ BinaryInv /\ [Next]_vars => (TypeInv /\ BinaryInv)'
    BY TypeNext, BinaryNext
  <1>3. TypeInv /\ BinaryInv => AcksExact
    BY AcksFromInv
  <1> QED BY <1>1, <1>2, <1>3, PTL DEF Spec

-----------------------------------------------------------------------------
(* TK103 and AIS140, line by line.                                         *)
LEMMA LineInit ==
  ASSUME HandlersExact, TypeInv, Init
  PROVE  LineInv
  <1>1. plan \in Logins[proto] /\ History(plan) /\ 0 \in 0 .. Len(sent) /\ Len(sent) = 0
    BY HistoryInit
  <1>2. phase = "auth" /\ read = 0 /\ wire = <<>>
    BY DEF Init
  <1>3. AtLine(plan, 0)
    BY <1>1, <1>2 DEF AtLine
  <1> QED BY <1>1, <1>3, ReachedInit DEF LineInv

(* When nothing is on the wire, every packet has been read.                *)
LEMMA NothingLeft ==
  ASSUME TypeInv, ~cut, NEW k, Reached(k), wire = <<>>
  PROVE  k = Len(sent) /\ read = Size(sent, k)
  <1> DEFINE n == Len(sent)
  <1>1. n \in Nat /\ read \in Nat /\ Good(sent, n) /\ Size(sent, n) \in Nat
    BY SentGood DEF TypeInv
  <1>2. read + Len(wire) = Size(sent, n) /\ Len(wire) = 0
    BY DEF TypeInv, WireInv
  <1>3. k \in 0 .. n /\ (k < n => read < Size(sent, k + 1))
    BY DEF Reached
  <1> HIDE DEF n
  <1>4. read = Size(sent, n)
    BY <1>1, <1>2
  <1>5. ~(k < n)
    <2> SUFFICES ASSUME k < n PROVE FALSE
      OBVIOUS
    <2>1. k + 1 \in 0 .. n /\ n \in 0 .. n
      BY <1>1, <1>3
    <2>2. /\ Size(sent, k + 1) \in Nat
          /\ k + 1 = n \/ Size(sent, k + 1) < Size(sent, n)
      BY <1>1, <2>1, DataPrefix
    <2> QED BY <1>1, <1>3, <1>4, <2>2
  <1>6. k = n
    BY <1>1, <1>3, <1>5
  <1> QED BY <1>4, <1>6 DEF n

LEMMA LineSend ==
  ASSUME TypeInv, ~cut, NEW login, NEW k, Reached(k), AtLine(login, k), NEW p, Sent(p),
         ~cut', wire = <<>>, UNCHANGED <<phase, id, read, proto>>,
         Size(sent', k) = Size(sent, k)
  PROVE  AtLine(login, k)'
  <1>1. k = Len(sent) /\ read = Size(sent, k)
    BY NothingLeft
  <1>2. Len(sent') = k + 1 /\ sent'[k + 1] = p
    BY <1>1 DEF Sent, Longer
  <1>3. wire' = p.bytes
    <2>1. p.bytes \in Seq(Nat)
      BY TrackerPackets DEF Sent, TypeInv, WireInv, IsPacket
    <2>2. wire' = Cat(wire, p.bytes)
      BY DEF Sent
    <2>3. <<>> \o p.bytes = p.bytes
      BY <2>1, ConcatEmptySeq
    <2> QED BY <2>2, <2>3 DEF Cat
  <1>4. k \in Nat
    BY DEF Reached
  <1>5. Len(sent) # 0 => k > 0
    BY <1>1, <1>4
  <1>6. phase = "parse" => k > 0
    <2>1. CASE wire = <<>> /\ k = Len(sent) /\ (phase = "parse" => k > 0)
      BY <2>1
    <2>2. CASE k + 1 = Len(sent) \/ (k = 0 /\ Len(sent) = 1)
      BY <1>1, <1>4, <2>2
    <2> QED BY <2>1, <2>2 DEF AtLine
  <1>7. /\ phase # "auth2" /\ (phase = "auth" => k = 0 /\ read = 0)
        /\ phase = "parse" => id = Identity[proto]
    BY DEF AtLine
  <1>8. k + 1 = Len(sent') /\ wire' = sent'[k + 1].bytes /\ read' = Size(sent', k)
    BY <1>1, <1>2, <1>3
  <1> QED BY <1>6, <1>7, <1>8 DEF AtLine

LEMMA LineServe ==
  ASSUME HandlersExact, TypeInv, Serve, ~Unanswered(Result), proto \in Text, ~cut,
         NEW login, History(login), NEW k, Reached(k), AtLine(login, k)
  PROVE  \E j \in 0 .. Len(sent') : History(login)' /\ Reached(j)' /\ AtLine(login, j)'
  <1> DEFINE n == Len(sent)
             r == Result
             p == sent[k + 1]
  <1>1. /\ History(login)' /\ UNCHANGED device /\ Open
        /\ why \notin {"rejected", "panic"}
        /\ Register(r) \/ Authenticated(r) \/ Parsed(r) \/ Ended(r)
        /\ r.out \in {"more", "login", "done"} =>
             r.n \in 0 .. Len(wire) /\ IsSeq(r.replies) /\ Took(r) /\ why' = why
    BY ServeStep
  <1>2. proto \in Protocols /\ login \in Logins[proto] /\ fin \in BOOLEAN
    BY DEF TypeInv, WireInv, ControlInv, History
  <1>3. /\ ReadAlone(proto) /\ proto \in Handlers /\ Len(login) = 1
        /\ login[1].recs = <<>>
    <2>1. /\ ReadAlone(proto) /\ proto \in Handlers
          /\ Len(login) = 1 \/ (Len(login) = 2 /\ proto = "jt808" /\ login[1].whole)
          /\ \A i \in 1 .. Len(login) : login[i].recs = <<>> /\ login[i].acks = <<>>
      BY <1>2, LoginFacts
    <2>2. Len(login) = 1
      BY <2>1 DEF Text
    <2>3. 1 \in 1 .. Len(login)
      BY <2>2
    <2> QED BY <2>1, <2>2, <2>3
  <1>4. Good(sent, n) /\ n \in Nat /\ read \in Nat /\ Stream(wire)
    BY SentGood DEF TypeInv
  <1>5. k \in 0 .. n /\ k \in Nat
    BY DEF Reached
  <1>6. \A i \in 1 .. n : /\ i <= Len(login) => sent[i] = login[i]
                          /\ i > Len(login) => sent[i] \in Packets[proto]
    BY DEF History
  <1>7. /\ phase = "auth" => r = Authenticate(proto, wire, fin)
        /\ phase = "parse" => r = ParsePacket(proto, wire, fin)
    BY DEF Result
  <1>8. phase = "auth" \/ phase = "parse"
    BY <1>1 DEF Open, AtLine
  <1>9. sent' = sent /\ proto' = proto
    BY <1>1 DEF device
  <1> HIDE DEF r
  (* The session ends and nothing else changes. *)
  <1>10. ASSUME Ended(r), Refused(r) /\ ~(fin /\ wire = <<>> /\ r.out = "fail") => k < n /\ ~p.whole
         PROVE  \E j \in 0 .. Len(sent') : History(login)' /\ Reached(j)' /\ AtLine(login, j)'
    <2>1. Reached(k)'
      BY <1>1, <1>10, ReachedEnd
    <2>2. phase' \in {"closed", "crashed"} /\ read' = read /\ wire' = wire
      BY <1>10 DEF Ended
    <2>3. AtLine(login, k)'
      BY <1>8, <1>9, <2>2 DEF AtLine
    <2> QED BY <1>1, <1>5, <1>9, <2>1, <2>3
  <1>11. ASSUME r.out \in {"wait", "fail", "panic"} PROVE Ended(r)
    BY <1>1, <1>11 DEF Register, Authenticated, Parsed
  (* A line is read to its end. *)
  <1>12. ASSUME k + 1 = n, wire = p.bytes, read = Size(sent, k), NEW m, m = Len(wire),
                wire' = Rest(wire, m), read' = read + m, why' = why,
                \/ got' = Cat(got, Tag(Identity[proto], p.recs))
                \/ got' = got /\ p.recs = <<>>,
                phase' = "parse", id' = Identity[proto]
         PROVE  \E j \in 0 .. Len(sent') : History(login)' /\ Reached(j)' /\ AtLine(login, j)'
    <2>1. k < n /\ Size(sent, k + 1) = Size(sent, k) + Len(p.bytes)
      <3>1. k < n
        BY <1>5, <1>12
      <3> QED BY <1>4, <1>5, <3>1, DataStep
    <2>2. read' = Size(sent, k + 1)
      BY <1>12, <2>1
    <2>3. Reached(k + 1)'
      BY <1>1, <1>9, <1>12, <2>1, <2>2, ReachedNext
    <2>4. wire' = <<>>
      <3> DEFINE s == Rest(wire, m)
      <3>1. m \in 0 .. Len(wire) /\ Len(wire) \in Nat
        BY <1>4, <1>12, StreamAt
      <3>2. Stream(s) /\ Len(s) = Len(wire) - m
        BY <1>4, <3>1, RestAt
      <3> HIDE DEF s
      <3>3. Len(s) = 0 /\ s \in Seq(Nat)
        BY <1>12, <3>1, <3>2 DEF Stream
      <3>4. s = <<>>
        BY <3>3
      <3> QED BY <1>12, <3>4 DEF s
    <2>5. k + 1 > 0 /\ k + 1 \in 0 .. Len(sent') /\ k + 1 = Len(sent')
      BY <1>4, <1>5, <1>9, <1>12
    <2>6. AtLine(login, k + 1)'
      BY <1>9, <1>12, <2>4, <2>5 DEF AtLine
    <2> QED BY <1>1, <2>3, <2>5, <2>6
  <1>13. CASE wire = <<>> /\ k = n
    <2>1. Len(wire) = 0
      BY <1>13
    <2>2. r.out \in {"wait", "fail"}
      BY <1>3, <1>4, <1>7, <1>8, <2>1, HandlersBounded
    <2>3. ~fin => r.out = "wait"
      BY <1>4, <1>7, <1>8, <2>1, TextWaits
    <2>4. ~(Refused(r) /\ ~(fin /\ wire = <<>> /\ r.out = "fail"))
      BY <1>13, <2>2, <2>3 DEF Refused
    <2> QED BY <1>10, <1>11, <2>2, <2>4
  <1>14. CASE /\ k + 1 = n /\ wire = p.bytes /\ read = Size(sent, k)
              /\ phase = "parse" => k > 0
    <2>1. k + 1 \in 1 .. n /\ k < n
      BY <1>4, <1>5, <1>14
    <2>2. CASE phase = "auth"
      <3>1. k = 0 /\ read = 0 /\ k + 1 = 1 /\ p = login[1] /\ p.recs = <<>>
        BY <1>3, <1>6, <2>1, <2>2 DEF AtLine
      <3>2. r = Authenticate(proto, login[1].bytes, fin)
        BY <1>7, <1>14, <2>2, <3>1
      <3>3. LoggedIn(proto, login, Authenticate(proto, login[1].bytes, fin))
        BY <1>2, <1>3 DEF ReadAlone
      <3>4. Settles(proto, login[1], r)
        BY <1>3, <3>2, <3>3 DEF LoggedIn
      <3> HIDE DEF p
      <3>5. Settles(proto, p, r)
        BY <3>1, <3>4
      <3>6. CASE ~p.whole /\ Refused(r)
        <4>1. Ended(r)
          BY <1>11, <3>6 DEF Refused
        <4> QED BY <1>10, <2>1, <3>6, <4>1
      <3>7. CASE r.out = "login" /\ r.id = Identity[proto]
        <4>1. Authenticated(r) /\ why' = why /\ Took(r) /\ r.n \in 0 .. Len(wire)
          BY <1>1, <3>7 DEF Register, Parsed, Ended
        <4>2. phase' = "parse" /\ id' = Identity[proto] /\ got' = got
          BY <3>7, <4>1 DEF Authenticated
        <4>3. PICK m \in r.n .. Len(wire) : wire' = Rest(wire, m) /\ read' = read + m
          BY <4>1 DEF Took
        <4>4. Len(wire) \in Nat /\ m \in 0 .. Len(wire)
          <5>1. Len(wire) \in Nat
            BY <1>4, StreamAt
          <5> QED BY <4>1, <5>1
        <4>5. CASE m = Len(wire)
          BY <1>12, <1>14, <3>1, <4>1, <4>2, <4>3, <4>5
        <4>6. CASE m < Len(wire)
          <5>1. Len(wire) = Len(p.bytes) /\ ~(r.n = Len(p.bytes))
            BY <1>14, <4>1, <4>3, <4>4, <4>6
          <5>2. /\ ~p.whole
                /\ \A x \in r.n .. Len(p.bytes) - 1 : \A eof \in BOOLEAN :
                     Refused(ParsePacket(proto, SubSeq(p.bytes, x + 1, Len(p.bytes)), eof))
            BY <3>5, <3>7, <5>1 DEF Settles, Refused
          <5>3. m \in r.n .. Len(p.bytes) - 1
            BY <4>1, <4>3, <4>4, <4>6, <5>1
          <5>4. \A eof \in BOOLEAN : Refused(ParsePacket(proto, Rest(p.bytes, m), eof))
            BY <5>2, <5>3 DEF Rest
          <5>5. wire' = Rest(p.bytes, m)
            BY <1>14, <4>3
          <5>6. Reached(k)'
            <6>1. /\ Size(sent, k + 1) = Size(sent, k) + Len(p.bytes) /\ Size(sent, k) \in Nat
              BY <1>4, <1>5, <2>1, DataStep DEF p
            <6>2. Size(sent, k) <= read' /\ read' < Size(sent, k + 1)
              BY <1>14, <4>3, <4>4, <4>6, <5>1, <6>1
            <6>3. got' = Tag(Identity[proto], Recs(sent, k))
              BY <4>2 DEF Reached
            <6>4. why' \notin {"rejected", "panic"}
              BY <1>1, <4>1
            <6> QED BY <1>5, <1>9, <6>2, <6>3, <6>4 DEF Reached
          <5>7. k = 0 /\ Len(sent') = 1 /\ ~sent'[1].whole
            BY <1>9, <1>14, <3>1, <5>2 DEF p
          <5>8. AtLine(login, k)'
            BY <1>9, <4>2, <5>4, <5>5, <5>7 DEF AtLine
          <5> QED BY <1>1, <1>5, <1>9, <5>6, <5>8
        <4> QED BY <4>4, <4>5, <4>6
      <3> QED BY <3>5, <3>6, <3>7 DEF Settles
    <2>3. CASE phase = "parse"
      <3>1. k > 0 /\ p \in Packets[proto] /\ id = Identity[proto]
        <4>1. k > 0 /\ id = Identity[proto]
          BY <1>14, <2>3 DEF AtLine
        <4>2. k + 1 > Len(login)
          BY <1>3, <1>5, <4>1
        <4> QED BY <1>6, <2>1, <4>1, <4>2
      <3>2. r = ParsePacket(proto, p.bytes, fin)
        BY <1>7, <1>14, <2>3
      <3>3. Judged(proto, p, fin, ParsePacket(proto, p.bytes, fin))
        BY <1>2, <1>3, <3>1 DEF ReadAlone
      <3> HIDE DEF p
      <3>4. CASE p.whole
        <4>1. Understood(r, p)
          BY <3>2, <3>3, <3>4, ReadIsUnderstood DEF Judged
        <4>2. r.out = "done" /\ r.n = Len(p.bytes) /\ r.recs = p.recs
          BY <4>1 DEF Understood
        <4>3. Parsed(r) /\ why' = why /\ Took(r)
          BY <1>1, <4>2 DEF Register, Authenticated, Ended
        <4>4. /\ got' = Cat(got, Tag(id, r.recs)) /\ phase' = phase /\ id' = id
          BY <4>3 DEF Parsed, Cat, Tag
        <4>5. PICK m \in r.n .. Len(wire) : wire' = Rest(wire, m) /\ read' = read + m
          BY <4>3 DEF Took
        <4>6. m = Len(wire)
          <5>1. Len(wire) \in Nat /\ r.n = Len(wire)
            BY <1>4, <1>14, <4>2, StreamAt
          <5> QED BY <4>5, <5>1
        <4>7. got' = Cat(got, Tag(Identity[proto], p.recs)) /\ phase' = "parse"
              /\ id' = Identity[proto]
          BY <2>3, <3>1, <4>2, <4>4
        <4> QED BY <1>12, <1>14, <4>3, <4>5, <4>6, <4>7
      <3>5. CASE ~p.whole
        <4>1. Refused(r)
          BY <3>2, <3>3, <3>5 DEF Judged, Unreadable
        <4>2. Ended(r)
          BY <1>11, <4>1 DEF Refused
        <4> QED BY <1>10, <2>1, <3>5, <4>2
      <3> QED BY <3>4, <3>5
    <2> QED BY <1>8, <2>2, <2>3
  <1>15. CASE /\ k = 0 /\ n = 1 /\ phase # "auth" /\ ~sent[1].whole
              /\ \A eof \in BOOLEAN : Refused(ParsePacket(proto, wire, eof))
    <2>1. Refused(r)
      BY <1>2, <1>7, <1>8, <1>15
    <2>2. Ended(r) /\ k < n /\ ~p.whole
      <3>1. k + 1 = 1 /\ k < n
        BY <1>15
      <3> QED BY <1>11, <1>15, <2>1, <3>1 DEF Refused
    <2> QED BY <1>10, <2>2
  <1> QED BY <1>13, <1>14, <1>15 DEF AtLine

LEMMA LineNext ==
  ASSUME HandlersExact, TypeInv, LineInv, [Next]_vars
  PROVE  LineInv'
  <1>1. CASE UNCHANGED vars
    BY <1>1 DEF vars, device, session, LineInv, History, Reached, AtLine
  <1> SUFFICES ASSUME Next, proto' \in Text, ~cut', ~overtaken'
               PROVE  \E login \in Logins[proto'] : \E k \in 0 .. Len(sent') :
                        History(login)' /\ Reached(k)' /\ AtLine(login, k)'
    BY <1>1 DEF LineInv
  <1>2. proto' = proto /\ ~cut /\ ~overtaken
    <2>1. ASSUME NEW p, NEW rest, Transmit(p, rest) PROVE <1>2!:
      BY <2>1 DEF Transmit
    <2>2. CASE SendLogin
      BY <2>1, <2>2 DEF SendLogin
    <2>3. CASE SendPacket
      BY <2>1, <2>3 DEF SendPacket
    <2>4. CASE Lose
      BY <2>4 DEF Lose
    <2>5. CASE Serve
      <3>1. UNCHANGED device
        BY <2>5 DEF Serve, Take, Register, Authenticated, Unanswered, Parsed, Failed, TimedOut,
                    Panicked, End
      <3> QED BY <3>1 DEF device
    <2> QED BY <2>2, <2>3, <2>4, <2>5 DEF Next
  <1>3. PICK login \in Logins[proto] : \E k \in 0 .. Len(sent) :
          History(login) /\ Reached(k) /\ AtLine(login, k)
    BY <1>2 DEF LineInv
  <1>4. PICK k \in 0 .. Len(sent) : History(login) /\ Reached(k) /\ AtLine(login, k)
    BY <1>3
  <1>5. CASE Serve /\ ~Unanswered(Result)
    <2>1. \E j \in 0 .. Len(sent') : History(login)' /\ Reached(j)' /\ AtLine(login, j)'
      BY <1>2, <1>4, <1>5, LineServe
    <2> QED BY <1>2, <2>1
  <1>7. CASE Unanswered(Result)
    <2>1. /\ History(login)' /\ phase' = "closed" /\ why' = "unanswered"
          /\ UNCHANGED <<proto, sent, cut, wire, read, carry, id, got, replies, greeted>>
      BY <1>4, <1>7, UnansweredStep
    <2>2. Reached(k)' /\ AtLine(login, k)'
      BY <1>4, <2>1 DEF AtLine, Reached
    <2> QED BY <1>2, <1>4, <2>1, <2>2
  <1>6. CASE TrackerNext
    <2>1. /\ History(login)' /\ why \notin {"rejected", "panic"}
          /\ UNCHANGED session /\ read' = read
          /\ UNCHANGED <<sent, wire, cut, overtaken>> \/ \E p : Sent(p)
      BY <1>4, <1>6, TrackerStep
    <2>2. UNCHANGED <<phase, id, got, why>>
      BY <2>1 DEF session
    <2>3. CASE UNCHANGED <<sent, wire, cut, overtaken>>
      <3>1. UNCHANGED <<sent, wire, got, proto, read, why, phase, id>>
        BY <1>2, <2>1, <2>2, <2>3
      <3>2. Reached(k)' /\ AtLine(login, k)' /\ k \in 0 .. Len(sent')
        BY <1>4, <3>1 DEF Reached, AtLine
      <3> QED BY <1>2, <2>1, <3>2
    <2>4. CASE \E p : Sent(p)
      <3>1. PICK p : Sent(p)
        BY <2>4
      <3>2. /\ Reached(k)' /\ k \in 0 .. Len(sent') /\ Size(sent', k) = Size(sent, k)
        BY <1>2, <1>4, <2>1, <2>2, <3>1, ReachedSend
      <3>3. wire = <<>>
        BY <1>2, <3>1 DEF Sent
      <3>4. AtLine(login, k)'
        BY <1>2, <1>4, <2>1, <2>2, <3>1, <3>2, <3>3, LineSend
      <3> QED BY <1>2, <2>1, <3>2, <3>4
    <2> QED BY <2>1, <2>3, <2>4
  <1> QED BY <1>5, <1>6, <1>7 DEF Next, TrackerNext

(* Whatever a tracker sends, however its packets are pipelined and         *)
(* wherever the connection breaks, onRecord has been given exactly the     *)
(* positions of the packets read to their end, under the tracker's own id, *)
(* and only a defective packet ends a session with an error or a panic: a  *)
(* handler that reads every packet correctly when it comes alone           *)
(* (HandlersExact) reads a session correctly.  Text lines must not be      *)
(* pipelined or cut off.                                                   *)
THEOREM SessionRecords ==
  ASSUME HandlersExact
  PROVE  Spec => []RecordsExact
  <1> DEFINE Inv == TypeInv /\ BinaryInv /\ LineInv
  <1>1. Init => Inv
    BY TypeInit, BinaryInit, LineInit
  <1>2. Inv /\ [Next]_vars => Inv'
    BY TypeNext, BinaryNext, LineNext
  <1>3. Inv => RecordsExact
    BY RecordsFromInv
  <1> HIDE DEF Inv
  <1> QED BY <1>1, <1>2, <1>3, PTL DEF Spec

-----------------------------------------------------------------------------
(* AIS140, whose reader may begin anywhere.                                *)
LEMMA EmbedsLonger ==
  ASSUME NEW s, NEW t, NEW u, IsSeq(s), IsSeq(t), IsSeq(u), Embeds(s, t)
  PROVE  Embeds(s, Cat(t, u))
  <1> DEFINE v == Cat(t, u)
  <1>1. /\ Len(v) = Len(t) + Len(u) /\ Len(t) \in Nat /\ Len(u) \in Nat
        /\ \A i \in 1 .. Len(t) : v[i] = t[i]
    BY CatIsSeq
  <1> HIDE DEF v
  <1>2. PICK at \in [1 .. Len(s) -> 1 .. Len(t)] :
          /\ \A i \in 1 .. Len(s) : s[i] = t[at[i]]
          /\ \A j \in 1 .. Len(s) : \A i \in 1 .. j - 1 : at[i] < at[j]
    BY DEF Embeds
  <1>3. \A x \in 1 .. Len(t) : x \in 1 .. Len(v)
    BY <1>1
  <1>4. at \in [1 .. Len(s) -> 1 .. Len(v)] /\ \A i \in 1 .. Len(s) : s[i] = v[at[i]]
    BY <1>1, <1>2, <1>3
  <1>5. Embeds(s, v)
    BY <1>2, <1>4 DEF Embeds
  <1> QED BY <1>5 DEF v

LEMMA EmbedsBoth ==
  ASSUME NEW s, NEW t, NEW u, IsSeq(s), IsSeq(t), IsSeq(u), Embeds(s, t)
  PROVE  Embeds(Cat(s, u), Cat(t, u))
  <1> DEFINE v == Cat(t, u)
             w == Cat(s, u)
             n == Len(s)
             m == Len(u)
             l == Len(t)
  <1>1. /\ Len(v) = l + m /\ l \in Nat /\ m \in Nat
        /\ \A i \in 1 .. l : v[i] = t[i]
        /\ \A i \in 1 .. m : v[l + i] = u[i]
    BY CatIsSeq
  <1>2. /\ Len(w) = n + m /\ n \in Nat
        /\ \A i \in 1 .. n : w[i] = s[i]
        /\ \A i \in 1 .. m : w[n + i] = u[i]
    BY CatIsSeq
  <1>3. PICK at \in [1 .. n -> 1 .. l] :
          /\ \A i \in 1 .. n : s[i] = t[at[i]]
          /\ \A j \in 1 .. n : \A i \in 1 .. j - 1 : at[i] < at[j]
    BY DEF Embeds
  <1> HIDE DEF v, w, n, m, l
  <1> DEFINE to == [i \in 1 .. n + m |-> IF i <= n THEN at[i] ELSE l + (i - n)]
  <1>4. \A i \in 1 .. n : to[i] = at[i] /\ to[i] \in 1 .. l /\ i \in 1 .. n + m
    BY <1>1, <1>2, <1>3
  <1>5. \A i \in 1 .. n + m : i > n => to[i] = l + (i - n) /\ i - n \in 1 .. m
    BY <1>1, <1>2
  <1>6. to \in [1 .. n + m -> 1 .. l + m]
    <2>1. \A i \in 1 .. n + m : (IF i <= n THEN at[i] ELSE l + (i - n)) \in 1 .. l + m
      <3> TAKE i \in 1 .. n + m
      <3>1. CASE i <= n
        <4>1. at[i] \in 1 .. l
          BY <1>2, <1>3, <3>1
        <4> QED BY <1>1, <3>1, <4>1
      <3>2. CASE i > n
        BY <1>1, <1>2, <3>2
      <3> QED BY <1>1, <1>2, <3>1, <3>2
    <2> QED BY <2>1
  <1> HIDE DEF to
  <1>7. ASSUME NEW i \in 1 .. n + m PROVE w[i] = v[to[i]]
    <2>1. CASE i <= n
      <3>1. i \in 1 .. n
        BY <1>1, <1>2, <2>1
      <3>2. w[i] = s[i] /\ s[i] = t[at[i]]
        BY <1>2, <1>3, <3>1
      <3>3. to[i] = at[i] /\ at[i] \in 1 .. l
        BY <1>4, <3>1
      <3>4. v[at[i]] = t[at[i]]
        BY <1>1, <3>3
      <3> QED BY <3>2, <3>3, <3>4
    <2>2. CASE i > n
      <3> DEFINE x == i - n
      <3>1. x \in 1 .. m /\ i = n + x /\ to[i] = l + x
        BY <1>1, <1>2, <1>5, <2>2
      <3> HIDE DEF x
      <3> QED BY <1>1, <1>2, <3>1
    <2> QED BY <1>1, <1>2, <2>1, <2>2
  <1>8. ASSUME NEW j \in 1 .. n + m, NEW i \in 1 .. j - 1 PROVE to[i] < to[j]
    <2>1. i \in 1 .. n + m /\ i < j /\ i \in Nat /\ j \in Nat
      BY <1>1, <1>2
    <2>2. CASE j <= n
      <3>1. i \in 1 .. n /\ j \in 1 .. n
        BY <1>1, <1>2, <2>1, <2>2
      <3>2. at[i] < at[j]
        BY <1>3, <3>1
      <3> QED BY <1>4, <3>1, <3>2
    <2>3. CASE j > n /\ i <= n
      <3>1. i \in 1 .. n /\ to[j] = l + (j - n) /\ j - n \in 1 .. m
        BY <1>2, <1>5, <2>1, <2>3
      <3>2. to[i] \in 1 .. l
        BY <1>4, <3>1
      <3> QED BY <1>1, <3>1, <3>2
    <2>4. CASE i > n
      <3>1. to[j] = l + (j - n) /\ to[i] = l + (i - n)
        BY <1>2, <1>5, <2>1, <2>4
      <3> QED BY <1>1, <1>2, <2>1, <3>1
    <2> QED BY <1>2, <2>1, <2>2, <2>3, <2>4
  <1>9. Embeds(w, v)
    BY <1>1, <1>2, <1>6, <1>7, <1>8 DEF Embeds
  <1> QED BY <1>9 DEF v, w

(* What the first j packets say is contained in what the first k say.      *)
LEMMA EmbedsLater ==
  ASSUME NEW ps, NEW n, Good(ps, n), NEW name, NEW s, IsSeq(s), NEW j \in 0 .. n,
         Embeds(s, Tag(name, Recs(ps, j)))
  PROVE  \A k \in j .. n : Embeds(s, Tag(name, Recs(ps, k)))
  <1> DEFINE Fine(k) == Embeds(s, Tag(name, Recs(ps, k)))
             S == {k \in Nat : k \in j .. n => Fine(k)}
  <1>1. n \in Nat /\ j \in Nat
    BY DEF Good
  <1>2. 0 \in S
    <2>1. 0 \in j .. n => 0 = j
      BY <1>1
    <2> QED BY <2>1
  <1>3. ASSUME NEW k \in Nat, k \in S PROVE k + 1 \in S
    <2> SUFFICES ASSUME k + 1 \in j .. n PROVE Fine(k + 1)
      OBVIOUS
    <2>1. CASE k + 1 = j
      BY <2>1
    <2>2. CASE k + 1 # j
      <3>1. k \in j .. n /\ k < n
        BY <1>1, <2>2
      <3>2. Fine(k)
        BY <1>3, <3>1
      <3> DEFINE a == Tag(name, Recs(ps, k))
                 b == Tag(name, ps[k + 1].recs)
      <3>3. /\ Tag(name, Recs(ps, k + 1)) = Cat(a, b)
            /\ IsSeq(Recs(ps, k)) /\ IsSeq(ps[k + 1].recs)
        BY <3>1, SaidNext
      <3>4. IsSeq(a) /\ IsSeq(b)
        BY <3>3, TagAt
      <3> HIDE DEF a, b
      <3>5. Embeds(s, Cat(a, b))
        <4>1. Embeds(s, a)
          BY <3>2 DEF a
        <4> QED BY <3>4, <4>1, EmbedsLonger
      <3> QED BY <3>3, <3>5
    <2> QED BY <2>1, <2>2
  <1> HIDE DEF Fine
  <1>4. Nat \subseteq S
    <2> HIDE DEF S
    <2> QED BY <1>2, <1>3, Induct
  <1>5. \A k \in j .. n : Fine(k)
    BY <1>1, <1>4
  <1> QED BY <1>5 DEF Fine

LEMMA AlteredFromInv ==
  ASSUME TypeInv, AlteredInv
  PROVE  TextNeverAltered
  <1> DEFINE said == Said(Len(sent))
             n == Len(sent)
  <1> SUFFICES ASSUME proto = "ais140"
               PROVE  \E at \in [DOMAIN got -> DOMAIN said] :
                        /\ \A i \in DOMAIN got : got[i] = said[at[i]]
                        /\ \A i, j \in DOMAIN got : i < j => at[i] < at[j]
    BY DEF TextNeverAltered
  <1>1. PICK j \in 0 .. n : IsSeq(got) /\ Embeds(got, Tag(Identity[proto], Recs(sent, j)))
    BY DEF AlteredInv, Behind
  <1>2. Good(sent, n) /\ n \in Nat
    BY SentGood DEF TypeInv
  <1>3. said = Tag(Identity[proto], Recs(sent, n))
    BY DEF Said, Tag, Recs
  <1> HIDE DEF said, n
  <1>4. n \in j .. n /\ n \in 0 .. n
    BY <1>1, <1>2
  <1>5. Embeds(got, said)
    BY <1>1, <1>2, <1>3, <1>4, EmbedsLater
  <1>6. IsSeq(said)
    <2>1. IsSeq(Recs(sent, n))
      BY <1>2, <1>4, AcksAre
    <2> QED BY <1>3, <2>1, TagAt
  <1>7. /\ DOMAIN got = 1 .. Len(got) /\ DOMAIN said = 1 .. Len(said)
        /\ Len(got) \in Nat
    BY <1>1, <1>6 DEF IsSeq
  <1>8. PICK at \in [1 .. Len(got) -> 1 .. Len(said)] :
          /\ \A i \in 1 .. Len(got) : got[i] = said[at[i]]
          /\ \A x \in 1 .. Len(got) : \A i \in 1 .. x - 1 : at[i] < at[x]
    BY <1>5 DEF Embeds
  <1>9. ASSUME NEW i \in 1 .. Len(got), NEW x \in 1 .. Len(got), i < x PROVE at[i] < at[x]
    <2>1. i \in 1 .. x - 1
      BY <1>7, <1>9
    <2> QED BY <1>8, <2>1
  <1> QED BY <1>7, <1>8, <1>9

LEMMA AlteredInit ==
  ASSUME HandlersExact, TypeInv, Init
  PROVE  AlteredInv
  <1>1. plan \in Logins[proto] /\ History(plan) /\ 0 \in 0 .. Len(sent) /\ Size(sent, 0) = 0
    BY HistoryInit
  <1>2. phase = "auth" /\ read = 0 /\ got = <<>>
    BY DEF Init
  <1> DEFINE t == Tag(Identity[proto], Recs(sent, 0))
             f == [i \in 1 .. 0 |-> i]
  <1> HIDE DEF t
  <1>3. Embeds(got, t)
    <2>1. Len(got) = 0
      BY <1>2
    <2>2. f \in [1 .. 0 -> 1 .. Len(t)]
      OBVIOUS
    <2>3. /\ \A i \in 1 .. 0 : got[i] = t[f[i]]
          /\ \A j \in 1 .. 0 : \A i \in 1 .. j - 1 : f[i] < f[j]
      OBVIOUS
    <2> QED BY <2>1, <2>2, <2>3 DEF Embeds
  <1>4. IsSeq(got)
    BY <1>2, NothingSeq
  <1>5. Behind(plan, 0)
    BY <1>1, <1>2, <1>3, <1>4 DEF Behind, t
  <1> QED BY <1>1, <1>5 DEF AlteredInv

(* The packet that is being read.                                          *)
LEMMA Within ==
  ASSUME NEW ps, NEW n, Good(ps, n), NEW x \in Nat, x < Size(ps, n)
  PROVE  \E k \in Nat : /\ k < n /\ Size(ps, k) <= x /\ x < Size(ps, k + 1)
                        /\ \A j \in 0 .. n : Size(ps, j) <= x => j <= k
  <1>1. n \in Nat /\ Size(ps, 0) = 0
    BY DataZero DEF Good, Size
  <1> DEFINE S == {k \in Nat : k <= n /\ x < Size(ps, k)}
  <1>2. S \in SUBSET Nat /\ n \in S
    BY <1>1
  <1>3. PICK y \in S : \A z \in S : y <= z
    <2> HIDE DEF S
    <2> QED BY <1>2, LeastNatural
  <1>4. y \in Nat /\ y <= n /\ x < Size(ps, y) /\ y # 0
    BY <1>1, <1>3
  <1> DEFINE k == y - 1
  <1>5. k \in Nat /\ k < n /\ k + 1 = y /\ ~(y <= k)
    BY <1>1, <1>4
  <1>6. k \notin S
    BY <1>3, <1>5
  <1>7. \A j \in 0 .. n : Size(ps, j) \in Nat /\ (y < j => Size(ps, y) < Size(ps, j))
    <2> TAKE j \in 0 .. n
    <2>1. Size(ps, j) \in Nat
      <3>1. j \in 0 .. j
        BY <1>1
      <3> QED BY <3>1, DataPrefix
    <2>2. ASSUME y < j PROVE Size(ps, y) < Size(ps, j)
      <3>1. y \in 0 .. j /\ y # j
        BY <1>1, <1>4, <2>2
      <3> QED BY <3>1, DataPrefix
    <2> QED BY <2>1, <2>2
  <1> HIDE DEF k
  <1>8. Size(ps, k) <= x
    <2>1. k \in 0 .. n /\ ~(x < Size(ps, k))
      BY <1>1, <1>5, <1>6
    <2>2. Size(ps, k) \in Nat
      BY <1>7, <2>1
    <2> QED BY <2>1, <2>2
  <1>9. ASSUME NEW j \in 0 .. n, Size(ps, j) <= x PROVE j <= k
    <2>1. y \in 0 .. n /\ Size(ps, y) \in Nat /\ Size(ps, j) \in Nat
      BY <1>1, <1>4, <1>7
    <2>2. ~(y < j) /\ y # j
      BY <1>4, <1>7, <1>9, <2>1
    <2> QED BY <1>1, <1>4, <1>5, <2>2
  <1> QED BY <1>4, <1>5, <1>8, <1>9

Part(p, a, y) == SubSeq(p.bytes, a + 1, y)

LEMMA AisPart ==
  ASSUME PartsRefused("ais140"), NEW p \in Tracker("ais140"), NEW a \in 0 .. Len(p.bytes) - 1,
         NEW y \in p.cuts \cup {Len(p.bytes)}, NEW eof \in BOOLEAN,
         ParsePacket("ais140", Part(p, a, y), eof).out = "done"
  PROVE  \/ ParsePacket("ais140", Part(p, a, y), eof).recs = <<>>
         \/ /\ ParsePacket("ais140", Part(p, a, y), eof).recs = p.recs
            /\ ParsePacket("ais140", Part(p, a, y), eof).n = y - a
  BY DEF PartsRefused, NoOther, Tracker, Part

(* What AIS140's reader finds at any place of the stream: the line ends    *)
(* where a line of the tracker ends or the connection was cut off, and has *)
(* the position of that line or none.                                      *)
LEMMA AisAnywhere ==
  ASSUME HandlersExact, TypeInv, proto = "ais140", NEW login, History(login), Len(wire) # 0,
         NEW r, r = ParsePacket("ais140", wire, fin), r.out = "done"
  PROVE  \E k \in Nat :
           /\ k < Len(sent) /\ \A j \in 0 .. Len(sent) : Size(sent, j) <= read => j <= k
           /\ \/ r.recs = <<>>
              \/ /\ r.recs = sent[k + 1].recs
                 /\ read + r.n = Size(sent, k + 1) \/ (cut /\ r.n = Len(wire))
  <1> DEFINE n == Len(sent)
             l == Len(wire)
  <1>1. Good(sent, n) /\ n \in Nat /\ read \in Nat /\ Stream(wire) /\ l \in Nat /\ Size(sent, n) \in Nat
    BY SentGood DEF TypeInv
  <1>2. Carries(sent, n, wire, read) /\ read + l <= Size(sent, n)
    BY DEF TypeInv, WireInv, Carries
  <1>3. read < Size(sent, n)
    <2> HIDE DEF n
    <2> QED BY <1>1, <1>2
  <1>4. PICK k \in Nat : /\ k < n /\ Size(sent, k) <= read /\ read < Size(sent, k + 1)
                         /\ \A j \in 0 .. n : Size(sent, j) <= read => j <= k
    BY <1>1, <1>3, Within
  <1> DEFINE p == sent[k + 1]
             b == p.bytes
             a == read - Size(sent, k)
             c == Rest(b, a)
  <1>5. k + 1 \in 1 .. n
    BY <1>1, <1>4
  <1>6. p \in Tracker("ais140") /\ "ais140" \in Protocols
    BY <1>5, SentGood DEF TypeInv, WireInv
  <1>7. Stream(b) /\ p.cuts \subseteq 1 .. Len(b) - 1
    <2>1. IsPacket(p)
      BY <1>6, TrackerPackets
    <2> QED BY <2>1, PacketFacts DEF IsPacket
  <1>8. /\ Size(sent, k + 1) = Size(sent, k) + Len(b) /\ Size(sent, k) \in Nat /\ Len(b) \in Nat
    BY <1>1, <1>4, DataStep
  <1>9. a \in 0 .. Len(b) - 1 /\ a \in 0 .. Len(b) /\ a \in Nat /\ Size(sent, k) + a = read
    BY <1>1, <1>4, <1>8
  <1> HIDE DEF a
  <1>10. Alike(wire, Rest(sent[k + 1].bytes, a))
    <2>1. Carries(sent, n, wire, Size(sent, k) + a)
      BY <1>2, <1>9
    <2> HIDE DEF n
    <2> QED BY <1>1, <1>4, <1>9, <2>1, CarryRest
  <1>11. Stream(c) /\ Len(c) = Len(b) - a /\ \A i \in 1 .. Len(b) - a : c[i] = b[a + i]
    BY <1>7, <1>9, RestAt
  <1>12. PartsRefused("ais140") /\ b[Len(b)] = A!Newline
    <2>1. PartsRefused("ais140")
      BY <1>6 DEF HandlersExact
    <2> QED BY <1>6, <2>1 DEF PartsRefused, Tracker
  <1>13. fin \in BOOLEAN
    BY DEF TypeInv, ControlInv
  <1> DEFINE e == Len(c)
  <1>14. e \in Nat /\ e >= 1 /\ read + e = Size(sent, k + 1) /\ Size(sent, k + 1) \in Nat
         /\ e = Len(b) - a
    <2> DEFINE f == Len(b)
               d == Size(sent, k)
               g == Size(sent, k + 1)
    <2>1. /\ f \in Nat /\ d \in Nat /\ g = d + f /\ d + a = read /\ a \in 0 .. f - 1
          /\ e = f - a
      BY <1>8, <1>9, <1>11
    <2> HIDE DEF f, d, g, e
    <2>2. e \in Nat /\ e >= 1 /\ read + e = g /\ g \in Nat
      BY <2>1
    <2> QED BY <2>1, <2>2 DEF f, g
  <1>15. p.cuts \cup {Len(p.bytes)} \subseteq Nat /\ a \in 0 .. Len(p.bytes) - 1
    BY <1>7, <1>8, <1>9
  <1>16. CASE Len(c) <= l
    <2> HIDE DEF p, c, n
    <2>1. Prefix(c, wire)
      <3>1. CASE Prefix(c, wire)
        BY <3>1
      <3>2. CASE Prefix(wire, c)
        <4>1. l <= e /\ \A i \in 1 .. l : c[i] = wire[i]
          BY <3>2 DEF Prefix
        <4>2. l = e
          <5> HIDE DEF l
          <5>1. e <= l
            BY <1>16
          <5> HIDE DEF e
          <5> QED BY <1>1, <1>14, <4>1, <5>1
        <4> QED BY <4>1, <4>2 DEF Prefix
      <3> QED BY <1>10, <3>1, <3>2 DEF Alike, c, p
    <2>2. delims(c, A!Newline) # {}
      <3>1. e \in 1 .. Len(b) - a /\ a + e = Len(b)
        BY <1>8, <1>9, <1>11
      <3>2. c[e] = A!Newline
        BY <1>11, <1>12, <3>1
      <3>3. e \in 1 .. Len(c)
        BY <3>1
      <3>4. e \in delims(c, A!Newline)
        BY <3>2, <3>3 DEF delims
      <3> QED BY <3>4
    <2>3. r = ParsePacket("ais140", c, fin)
      BY <1>1, <1>11, <2>1, <2>2, Ais140Stable
    <2>4. c = Part(p, a, Len(p.bytes))
      BY DEF c, Rest, Part
    <2>5. Len(p.bytes) \in p.cuts \cup {Len(p.bytes)}
      OBVIOUS
    <2>6. r.recs = <<>> \/ (r.recs = p.recs /\ r.n = Len(p.bytes) - a)
      <3> HIDE DEF b, c, e
      <3>1. PartsRefused("ais140") /\ p \in Tracker("ais140")
        BY <1>6, <1>12
      <3>2. r = ParsePacket("ais140", Part(p, a, Len(p.bytes)), fin)
        BY <2>3, <2>4
      <3> QED BY <1>13, <1>15, <2>5, <3>1, <3>2, AisPart
    <2>7. r.n = Len(p.bytes) - a => read + r.n = Size(sent, k + 1)
      BY <1>8, <1>9
    <2> QED BY <1>4, <2>6, <2>7 DEF p, n
  <1>17. CASE l < Len(c)
    <2>1. read + l < Size(sent, k + 1) /\ cut
      <3>1. read + l < Size(sent, k + 1)
        <4>1. l < e
          BY <1>17
        <4> HIDE DEF l, e
        <4> QED BY <1>1, <1>14, <4>1
      <3>2. Size(sent, k + 1) <= Size(sent, n)
        <4> HIDE DEF n
        <4>1. k + 1 \in 0 .. n /\ n \in 0 .. n
          BY <1>1, <1>4
        <4>2. /\ Size(sent, k + 1) \in Nat
              /\ k + 1 = n \/ Size(sent, k + 1) < Size(sent, n)
          BY <1>1, <4>1, DataPrefix
        <4> QED BY <1>1, <4>2
      <3>3. read + l # Size(sent, n)
        BY <1>1, <1>8, <3>1, <3>2
      <3> QED BY <3>1, <3>3 DEF TypeInv, WireInv
    <2>2. PICK x \in sent[n].cuts : read + l = Size(sent, n - 1) + x
      BY <2>1 DEF History
    <2> HIDE DEF n, l
    <2>3. k + 1 = n
      <3> SUFFICES ASSUME k + 1 # n PROVE FALSE
        OBVIOUS
      <3>1. k + 1 \in 0 .. n - 1 /\ n - 1 \in 0 .. n /\ n \in 1 .. n
        BY <1>1, <1>4
      <3>2. /\ Size(sent, k + 1) \in Nat /\ Size(sent, n - 1) \in Nat
            /\ k + 1 = n - 1 \/ Size(sent, k + 1) < Size(sent, n - 1)
        BY <1>1, <3>1, DataPrefix
      <3>3. x \in Nat
        <4>1. IsPacket(sent[n])
          BY <1>1, <3>1 DEF Good
        <4> QED BY <4>1 DEF IsPacket
      <3>4. Size(sent, k + 1) <= Size(sent, n - 1)
        BY <3>2
      <3> QED BY <1>1, <2>1, <2>2, <3>2, <3>3, <3>4
    <2>4. x \in p.cuts /\ read + l = Size(sent, k) + x /\ x \in 1 .. Len(b) - 1
      <3>1. n - 1 = k
        BY <1>1, <2>3
      <3> QED BY <1>7, <2>2, <2>3, <3>1
    <2>5. l = x - a
      <3> DEFINE d == Size(sent, k)
      <3>1. d \in Nat /\ d + a = read /\ read + l = d + x /\ x \in Nat
        BY <1>8, <1>9, <2>4
      <3> HIDE DEF d
      <3> QED BY <1>1, <1>9, <3>1
    <2>6. \A i \in 1 .. l : wire[i] = b[a + i]
      <3> HIDE DEF p, c
      <3>1. \A i \in 1 .. l : c[i] = wire[i]
        <4>1. CASE Prefix(wire, c)
          BY <4>1 DEF Prefix, l
        <4>2. CASE Prefix(c, wire)
          BY <1>1, <1>8, <1>9, <1>11, <1>17, <4>2 DEF Prefix, l
        <4> QED BY <1>10, <4>1, <4>2 DEF Alike, c, p
      <3>2. \A i \in 1 .. l : i \in 1 .. Len(b) - a
        BY <1>1, <1>8, <1>9, <1>11, <1>17
      <3> QED BY <1>11, <3>1, <3>2
    <2> DEFINE s == SubSeq(b, a + 1, x)
    <2>7. wire = s
      <3> HIDE DEF p
      <3>1. a + 1 \in Nat /\ x \in Nat /\ \A i \in a + 1 .. x : b[i] \in Nat
        <4>1. \A i \in a + 1 .. x : i \in 1 .. Len(b)
          BY <1>8, <1>9, <2>4
        <4> QED BY <1>7, <1>9, <2>4, <4>1, StreamAt
      <3>2. /\ s \in Seq(Nat) /\ Len(s) = (IF a + 1 <= x THEN x - (a + 1) + 1 ELSE 0)
            /\ \A i \in 1 .. x - (a + 1) + 1 : s[i] = b[(a + 1) + i - 1]
        BY <3>1, SubSeqProperties
      <3> HIDE DEF s
      <3>3. Len(s) = l /\ \A i \in 1 .. l : s[i] = b[a + i]
        BY <1>1, <1>9, <2>4, <2>5, <3>2 DEF l
      <3>4. wire \in Seq(Nat) /\ Len(wire) = Len(s) /\ \A i \in 1 .. Len(wire) : wire[i] = s[i]
        BY <1>1, <2>6, <3>3 DEF Stream, l
      <3> QED BY <3>2, <3>4, SeqEqual
    <2> HIDE DEF p
    <2>8. x \in p.cuts \cup {Len(p.bytes)} /\ wire = Part(p, a, x)
      BY <2>4, <2>7 DEF Part
    <2>9. r.recs = <<>> \/ (r.recs = p.recs /\ r.n = x - a)
      <3> HIDE DEF b, c, s, e
      <3>1. PartsRefused("ais140") /\ p \in Tracker("ais140")
        BY <1>6, <1>12
      <3>2. r = ParsePacket("ais140", Part(p, a, x), fin)
        BY <2>8
      <3> QED BY <1>13, <1>15, <2>8, <3>1, <3>2, AisPart
    <2> QED BY <1>4, <2>1, <2>5, <2>9 DEF p, n, l
  <1>18. Len(c) <= l \/ l < Len(c)
    <2>1. e <= l \/ l < e
      <3> HIDE DEF e, l
      <3> QED BY <1>1, <1>14
    <2> QED BY <2>1
  <1> QED BY <1>16, <1>17, <1>18

(* The first line is the login, whole, and it is taken or refused.         *)
LEMMA AisLogin ==
  ASSUME HandlersExact, TypeInv, proto = "ais140", NEW login, History(login), Len(wire) # 0,
         read = 0, NEW r, r = Authenticate("ais140", wire, fin)
  PROVE  Refused(r) \/ (r.out = "login" /\ r.id = Identity["ais140"])
  <1> DEFINE n == Len(sent)
             l == Len(wire)
             b == sent[1].bytes
             e == Len(b)
  <1>1. Good(sent, n) /\ n \in Nat /\ Stream(wire) /\ l \in Nat /\ Size(sent, n) \in Nat
    BY SentGood DEF TypeInv
  <1>2. Carries(sent, n, wire, 0) /\ 0 + l <= Size(sent, n)
    BY DEF TypeInv, WireInv, Carries
  <1>3. "ais140" \in Protocols /\ login \in Logins["ais140"] /\ fin \in BOOLEAN
    BY DEF TypeInv, WireInv, ControlInv, History
  <1>4. ReadAlone("ais140") /\ Len(login) = 1
    BY <1>3, LoginFacts
  <1>5. Size(sent, 0) = 0
    BY DataZero DEF Size
  <1>6. n > 0
    <2> SUFFICES ASSUME n = 0 PROVE FALSE
      BY <1>1
    <2>1. Size(sent, n) = 0
      BY <1>5
    <2> HIDE DEF n
    <2> QED BY <1>1, <1>2, <2>1
  <1>7. sent[1] = login[1]
    BY <1>1, <1>4, <1>6 DEF History
  <1>8. sent[1] \in Tracker("ais140")
    BY <1>1, <1>6, SentGood DEF TypeInv
  <1>9. Stream(b) /\ e \in Nat /\ e > 0
    <2>1. IsPacket(sent[1])
      BY <1>3, <1>8, TrackerPackets
    <2> QED BY <2>1, PacketFacts
  <1> HIDE DEF n
  <1>10. Alike(wire, b)
    <2>1. 0 \in Nat /\ 0 < n /\ 0 + 1 = 1
      BY <1>6
    <2>2. Alike(wire, sent[0 + 1].bytes)
      BY <1>1, <1>2, <1>5, <2>1, CarryPacket
    <2> QED BY <2>1, <2>2
  (* A login is not cut off. *)
  <1>11. e <= l
    <2>1. \A m \in 1 .. n : Size(sent, m) \in Nat /\ e <= Size(sent, m)
      <3> TAKE m \in 1 .. n
      <3>1. 0 \in Nat /\ 0 < n /\ 0 + 1 = 1 /\ 1 \in 0 .. m /\ m \in 0 .. n
        BY <1>1, <1>6
      <3>2. Size(sent, 0 + 1) = Size(sent, 0) + Len(sent[0 + 1].bytes)
        BY <1>1, <3>1, DataStep
      <3>3. Size(sent, 1) = e
        BY <1>5, <1>9, <3>1, <3>2
      <3>4. Size(sent, m) \in Nat /\ (1 = m \/ Size(sent, 1) < Size(sent, m))
        BY <1>1, <3>1, DataPrefix
      <3> HIDE DEF e
      <3> QED BY <1>9, <3>3, <3>4
    <2>2. CASE ~cut
      <3>1. l = Size(sent, n)
        <4>1. read + l = Size(sent, n)
          BY <2>2 DEF TypeInv, WireInv, n
        <4> QED BY <1>1, <4>1
      <3>2. n \in 1 .. n
        BY <1>1, <1>6
      <3> QED BY <2>1, <3>1, <3>2
    <2>3. CASE cut
      <3>1. PICK x \in sent[n].cuts : n > 1 /\ read + l = Size(sent, n - 1) + x
        BY <1>4, <2>3 DEF History, n
      <3>2. n - 1 \in 1 .. n /\ n \in 1 .. n
        BY <1>1, <3>1
      <3>3. x \in Nat
        <4>1. IsPacket(sent[n])
          BY <1>1, <3>2 DEF Good
        <4> QED BY <4>1 DEF IsPacket
      <3>4. Size(sent, n - 1) \in Nat /\ e <= Size(sent, n - 1)
        BY <2>1, <3>2
      <3>5. l = Size(sent, n - 1) + x
        BY <1>1, <3>1
      <3> HIDE DEF e, l
      <3> QED BY <1>9, <3>3, <3>4, <3>5
    <2> QED BY <2>2, <2>3
  <1> HIDE DEF b
  <1>12. Prefix(b, wire)
    <2>1. CASE Prefix(wire, b)
      <3>1. l <= e /\ \A i \in 1 .. l : b[i] = wire[i]
        BY <2>1 DEF Prefix
      <3>2. l = e
        <4> HIDE DEF l, e
        <4> QED BY <1>1, <1>9, <1>11, <3>1
      <3> QED BY <3>1, <3>2 DEF Prefix
    <2> QED BY <1>10, <2>1 DEF Alike
  <1>13. delims(b, A!Newline) # {}
    <2>1. PartsRefused("ais140")
      BY <1>3 DEF HandlersExact
    <2>2. b[e] = A!Newline
      BY <1>8, <2>1 DEF PartsRefused, Tracker, b
    <2>3. e \in 1 .. Len(b)
      BY <1>9
    <2> QED BY <2>2, <2>3 DEF delims
  <1>14. r = Authenticate("ais140", b, fin)
    BY <1>1, <1>9, <1>12, <1>13, Ais140Stable
  <1>15. LoggedIn("ais140", login, Authenticate("ais140", login[1].bytes, fin))
    BY <1>3, <1>4 DEF ReadAlone
  <1>16. r = Authenticate("ais140", login[1].bytes, fin)
    BY <1>7, <1>14 DEF b
  <1>17. Settles("ais140", login[1], r)
    BY <1>4, <1>15, <1>16 DEF LoggedIn
  <1> QED BY <1>17 DEF Settles

LEMMA AlteredServe ==
  ASSUME HandlersExact, TypeInv, Serve, ~Unanswered(Result), proto = "ais140",
         NEW login, History(login), NEW j \in 0 .. Len(sent), Behind(login, j)
  PROVE  \E i \in 0 .. Len(sent') : History(login)' /\ Behind(login, i)'
  <1> DEFINE n == Len(sent)
             r == Result
             name == Identity[proto]
             said(k) == Tag(name, Recs(sent, k))
  <1>1. /\ History(login)' /\ UNCHANGED device /\ Open
        /\ Register(r) \/ Authenticated(r) \/ Parsed(r) \/ Ended(r)
        /\ r.out \in {"more", "login", "done"} => r.n \in 0 .. Len(wire) /\ Took(r)
    BY ServeStep
  <1>2. sent' = sent /\ proto' = proto /\ cut' = cut
    BY <1>1 DEF device
  <1>3. Good(sent, n) /\ n \in Nat /\ read \in Nat /\ Stream(wire) /\ Len(wire) \in Nat
    BY SentGood DEF TypeInv
  <1>4. /\ phase = "auth" => r = Authenticate("ais140", wire, fin)
        /\ phase = "parse" => r = ParsePacket("ais140", wire, fin)
    BY DEF Result
  <1>5. phase = "auth" \/ phase = "parse"
    BY <1>1 DEF Open, Behind
  <1>6. /\ phase = "auth" => read = 0
        /\ phase = "parse" => id = name
        /\ Size(sent, j) <= read \/ (cut /\ wire = <<>>)
        /\ IsSeq(got) /\ Embeds(got, said(j))
    BY DEF Behind
  <1>7. j \in Nat /\ Size(sent, j) \in Nat
    <2>1. j \in Nat /\ j \in 0 .. j /\ j \in 0 .. n
      BY <1>3
    <2> HIDE DEF n
    <2> QED BY <1>3, <2>1, DataPrefix
  <1> HIDE DEF r
  <1>8. CASE Ended(r)
    <2>1. /\ phase' \in {"closed", "crashed"} /\ read' = read /\ wire' = wire /\ got' = got
      BY <1>8 DEF Ended
    <2>2. Behind(login, j)'
      BY <1>2, <1>6, <2>1 DEF Behind
    <2> QED BY <1>1, <1>2, <2>2
  <1>9. ASSUME r.out \in {"wait", "fail", "panic"} PROVE Ended(r)
    BY <1>1, <1>9 DEF Register, Authenticated, Parsed
  <1>10. CASE Len(wire) = 0
    <2>1. r.out \in {"wait", "fail"}
      <3>1. "ais140" \in Handlers
        BY DEF Handlers
      <3> QED BY <1>3, <1>4, <1>5, <1>10, <3>1, HandlersBounded
    <2> QED BY <1>8, <1>9, <2>1
  <1>11. ASSUME Len(wire) # 0 PROVE Size(sent, j) <= read
    BY <1>6, <1>11
  <1>12. ASSUME r.out \in {"login", "done"}
         PROVE  \E m \in r.n .. Len(wire) : /\ wire' = Rest(wire, m) /\ read' = read + m
                                            /\ r.n \in Nat /\ m \in 0 .. Len(wire)
    <2>1. r.n \in 0 .. Len(wire) /\ Took(r)
      BY <1>1, <1>12
    <2>2. PICK m \in r.n .. Len(wire) : wire' = Rest(wire, m) /\ read' = read + m
      BY <2>1 DEF Took
    <2>3. r.n \in Nat /\ m \in 0 .. Len(wire)
      BY <1>3, <2>1
    <2> QED BY <2>2, <2>3
  (* Nothing is delivered. *)
  <1>13. ASSUME Len(wire) # 0, r.out \in {"login", "done"}, got' = got, phase' = "parse", id' = name
         PROVE  \E i \in 0 .. Len(sent') : History(login)' /\ Behind(login, i)'
    <2>1. PICK m \in r.n .. Len(wire) : read' = read + m /\ m \in 0 .. Len(wire)
      BY <1>12, <1>13
    <2>2. Size(sent, j) <= read'
      BY <1>3, <1>7, <1>11, <1>13, <2>1
    <2>3. Behind(login, j)'
      BY <1>2, <1>6, <1>13, <2>2 DEF Behind
    <2> QED BY <1>1, <1>2, <2>3
  <1>14. CASE Len(wire) # 0 /\ phase = "auth"
    <2>1. Refused(r) \/ (r.out = "login" /\ r.id = Identity["ais140"])
      BY <1>4, <1>6, <1>14, AisLogin
    <2>2. CASE Refused(r)
      BY <1>8, <1>9, <2>2 DEF Refused
    <2>3. CASE r.out = "login" /\ r.id = Identity["ais140"]
      <3>1. Authenticated(r)
        BY <1>1, <2>3 DEF Register, Parsed, Ended
      <3>2. got' = got /\ phase' = "parse" /\ id' = name
        BY <2>3, <3>1 DEF Authenticated
      <3> QED BY <1>13, <1>14, <2>3, <3>2
    <2> QED BY <2>1, <2>2, <2>3
  <1>15. CASE Len(wire) # 0 /\ phase = "parse"
    <2>1. r = ParsePacket("ais140", wire, fin) /\ r.out \in {"wait", "fail", "done"} /\ id = name
      BY <1>4, <1>6, <1>15, Ais140Outcome
    <2>2. CASE r.out \in {"wait", "fail"}
      BY <1>8, <1>9, <2>2
    <2>3. CASE r.out = "done"
      <3>1. Parsed(r)
        BY <1>1, <2>3 DEF Register, Authenticated, Ended
      <3>2. got' = Cat(got, Tag(id, r.recs)) /\ phase' = "parse" /\ id' = name
        BY <1>15, <2>1, <3>1 DEF Parsed, Cat, Tag
      <3>3. PICK k \in Nat :
              /\ k < Len(sent) /\ \A i \in 0 .. Len(sent) : Size(sent, i) <= read => i <= k
              /\ \/ r.recs = <<>>
                 \/ /\ r.recs = sent[k + 1].recs
                    /\ read + r.n = Size(sent, k + 1) \/ (cut /\ r.n = Len(wire))
        BY <1>15, <2>1, <2>3, AisAnywhere
      <3>4. CASE r.recs = <<>>
        <4>1. Tag(id, r.recs) = <<>>
          BY <3>4 DEF Tag
        <4>2. Cat(got, Tag(id, r.recs)) = got
          BY <1>6, <4>1, CatNothing
        <4> QED BY <1>13, <1>15, <2>3, <3>2, <4>2
      <3>5. CASE /\ r.recs = sent[k + 1].recs
                 /\ read + r.n = Size(sent, k + 1) \/ (cut /\ r.n = Len(wire))
        <4>1. j <= k /\ k < n /\ k + 1 \in 0 .. n /\ k \in j .. n
          <5>1. j <= k /\ k < n
            BY <1>11, <1>15, <3>3
          <5> QED BY <1>3, <1>7, <5>1
        <4> HIDE DEF n
        <4>2. Embeds(got, said(k))
          BY <1>3, <1>6, <4>1, EmbedsLater DEF n
        <4> DEFINE t == Tag(name, sent[k + 1].recs)
                   s == said(k)
        <4>3. said(k + 1) = Cat(s, t) /\ IsSeq(Recs(sent, k)) /\ IsSeq(sent[k + 1].recs)
          BY <1>3, <4>1, SaidNext
        <4>4. IsSeq(s) /\ IsSeq(t)
          BY <4>3, TagAt
        <4>5. got' = Cat(got, t)
          BY <2>1, <3>2, <3>5
        <4> HIDE DEF s, t
        <4>6. Embeds(got, s)
          BY <4>2 DEF s
        <4>7. IsSeq(Cat(got, t)) /\ Embeds(Cat(got, t), Cat(s, t))
          BY <1>6, <4>4, <4>6, CatIsSeq, EmbedsBoth
        <4>8. IsSeq(got') /\ Embeds(got', said(k + 1))
          BY <4>3, <4>5, <4>7
        <4>9. PICK m \in r.n .. Len(wire) : /\ wire' = Rest(wire, m) /\ read' = read + m
                                            /\ r.n \in Nat /\ m \in 0 .. Len(wire)
          BY <1>12, <2>3
        <4>10. Size(sent, k + 1) <= read' \/ (cut' /\ wire' = <<>>)
          <5>1. CASE read + r.n = Size(sent, k + 1)
            BY <1>3, <4>9, <5>1
          <5>2. CASE cut /\ r.n = Len(wire)
            <6>1. m = Len(wire)
              BY <1>3, <4>9, <5>2
            <6> DEFINE u == Rest(wire, m)
            <6>2. Stream(u) /\ Len(u) = Len(wire) - m
              BY <1>3, <4>9, RestAt
            <6> HIDE DEF u
            <6>3. u \in Seq(Nat) /\ Len(u) = 0
              BY <1>3, <6>1, <6>2 DEF Stream
            <6>4. u = <<>>
              BY <6>3
            <6> QED BY <1>2, <4>9, <5>2, <6>4 DEF u
          <5> QED BY <3>5, <5>1, <5>2
        <4>11. Behind(login, k + 1)'
          BY <1>2, <3>2, <4>8, <4>10 DEF Behind
        <4>12. k + 1 \in 0 .. Len(sent')
          BY <1>2, <4>1 DEF n
        <4> QED BY <1>1, <4>11, <4>12
      <3> QED BY <3>3, <3>4, <3>5
    <2> QED BY <2>1, <2>2, <2>3
  <1> QED BY <1>5, <1>10, <1>14, <1>15

LEMMA AlteredNext ==
  ASSUME HandlersExact, TypeInv, AlteredInv, [Next]_vars
  PROVE  AlteredInv'
  <1>1. CASE UNCHANGED vars
    BY <1>1 DEF vars, device, session, AlteredInv, History, Behind
  <1> SUFFICES ASSUME Next, proto' = "ais140"
               PROVE  \E login \in Logins[proto'] : \E j \in 0 .. Len(sent') :
                        History(login)' /\ Behind(login, j)'
    BY <1>1 DEF AlteredInv
  <1>2. proto' = proto
    BY DEF Next, SendLogin, SendPacket, Lose, Transmit, Serve, Take, Register, Authenticated,
           Unanswered, Parsed, Failed, TimedOut, Panicked, End, device
  <1>3. PICK login \in Logins[proto] : \E j \in 0 .. Len(sent) :
          History(login) /\ Behind(login, j)
    BY <1>2 DEF AlteredInv
  <1>4. PICK j \in 0 .. Len(sent) : History(login) /\ Behind(login, j)
    BY <1>3
  <1>5. CASE Serve /\ ~Unanswered(Result)
    <2>1. \E i \in 0 .. Len(sent') : History(login)' /\ Behind(login, i)'
      BY <1>2, <1>4, <1>5, AlteredServe
    <2> QED BY <1>2, <2>1
  <1>7. CASE Unanswered(Result)
    <2>1. /\ History(login)' /\ phase' = "closed" /\ why' = "unanswered"
          /\ UNCHANGED <<proto, sent, cut, wire, read, carry, id, got, replies, greeted>>
      BY <1>4, <1>7, UnansweredStep
    <2>2. Behind(login, j)'
      BY <1>4, <2>1 DEF Behind
    <2> QED BY <1>2, <1>4, <2>1, <2>2
  <1>6. CASE TrackerNext
    <2>1. /\ History(login)' /\ ~cut
          /\ UNCHANGED session /\ read' = read
          /\ UNCHANGED <<sent, wire, cut, overtaken>> \/ \E p : Sent(p)
      BY <1>4, <1>6, TrackerStep
    <2>2. UNCHANGED <<phase, id, got>>
      BY <2>1 DEF session
    <2>3. j \in 0 .. Len(sent') /\ Size(sent', j) = Size(sent, j) /\ Recs(sent', j) = Recs(sent, j)
      <3>1. CASE UNCHANGED <<sent, wire, cut, overtaken>>
        BY <3>1
      <3>2. ASSUME NEW p, Sent(p) PROVE <2>3!:
        <4> DEFINE n == Len(sent)
                   qs == sent'
        <4>1. n \in Nat /\ Len(qs) = n + 1 /\ \A i \in 1 .. n : qs[i] = sent[i]
          BY <3>2 DEF Sent, Longer
        <4>2. j \in 0 .. n
          OBVIOUS
        <4> HIDE DEF n, qs
        <4>3. j \in Nat /\ j \in 0 .. n + 1 /\ \A i \in 1 .. j : qs[i] = sent[i]
          BY <4>1, <4>2
        <4>4. Data(qs, j) = Data(sent, j) /\ Recs(qs, j) = Recs(sent, j)
          BY <4>3, DataSame
        <4> QED BY <4>1, <4>3, <4>4 DEF qs, Size
      <3> QED BY <2>1, <3>1, <3>2
    <2>4. Behind(login, j)'
      BY <1>2, <1>4, <2>1, <2>2, <2>3 DEF Behind
    <2> QED BY <1>2, <2>1, <2>3, <2>4
  <1> QED BY <1>5, <1>6, <1>7 DEF Next, TrackerNext

(* AIS140, however lines are pipelined, lost by the reader or cut off: any *)
(* position onRecord is given was sent by this tracker, in this order and  *)
(* not twice, provided the checksum tells a part of a line from a line.    *)
THEOREM SessionTextNeverAltered ==
  ASSUME HandlersExact
  PROVE  Spec => []TextNeverAltered
  <1>1. Init => TypeInv /\ AlteredInv
    BY TypeInit, AlteredInit
  <1>2. TypeInv /\ AlteredInv /\ [Next]_vars => (TypeInv /\ AlteredInv)'
    BY TypeNext, AlteredNext
  <1>3. TypeInv /\ AlteredInv => TextNeverAltered
    BY AlteredFromInv
  <1> QED BY <1>1, <1>2, <1>3, PTL DEF Spec
=============================================================================
