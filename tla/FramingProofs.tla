--------------------------- MODULE FramingProofs ---------------------------
(***************************************************************************)
(* What the protocol handlers make of a stream of bytes: how far they read *)
(* and why what follows a packet cannot change it.                         *)
(***************************************************************************)
EXTENDS DeviceSession, Extrema, SequenceTheorems

-----------------------------------------------------------------------------
(* Induction, with the property as a set.                                  *)
LEMMA Induct ==
  ASSUME NEW S, 0 \in S, \A n \in Nat : n \in S => n + 1 \in S
  PROVE  Nat \subseteq S
  <1> DEFINE Bad == {n \in Nat : n \notin S}
  <1> SUFFICES ASSUME Bad # {} PROVE FALSE
    OBVIOUS
  <1>1. PICK n \in Bad : \A m \in Bad : n <= m
    <2>1. Bad \in SUBSET Nat
      OBVIOUS
    <2> QED BY <2>1, LeastNatural
  <1>2. n \in Nat /\ n # 0 /\ n - 1 \in Nat /\ ~(n <= n - 1)
    BY <1>1
  <1>3. n - 1 \in S
    BY <1>1, <1>2
  <1>4. (n - 1) + 1 \in S
    BY <1>2, <1>3
  <1> QED BY <1>1, <1>2, <1>4

-----------------------------------------------------------------------------
(* Concatenation under a name: the provers unfold \o wherever they see it. *)
Cat(s, t) == s \o t

(* FlattenSeq.                                                             *)

Partial(ss, m, f) ==
  f = [i \in 1 .. m |-> IF i = 1 THEN ss[i] ELSE f[i - 1] \o ss[i]]

LEMMA PartialAt ==
  ASSUME NEW ss, NEW m \in Nat, NEW f, Partial(ss, m, f)
  PROVE  \A i \in 1 .. m : f[i] = IF i = 1 THEN ss[i] ELSE f[i - 1] \o ss[i]
  <1> DEFINE h == [j \in 1 .. m |-> IF j = 1 THEN ss[j] ELSE f[j - 1] \o ss[j]]
  <1>1. f = h
    BY DEF Partial
  <1>2. \A i \in 1 .. m : h[i] = IF i = 1 THEN ss[i] ELSE f[i - 1] \o ss[i]
    OBVIOUS
  <1> HIDE DEF h
  <1> QED BY <1>1, <1>2

LEMMA PartialExists ==
  ASSUME NEW ss
  PROVE  \A m \in Nat : \E f : Partial(ss, m, f)
  <1> DEFINE S == {m \in Nat : \E f : Partial(ss, m, f)}
  <1>1. 0 \in S
    <2>1. Partial(ss, 0, <<>>)
      BY DEF Partial
    <2> QED BY <2>1
  <1>2. ASSUME NEW m \in Nat, m \in S PROVE m + 1 \in S
    <2>1. PICK f : Partial(ss, m, f)
      BY <1>2
    <2> DEFINE g == [i \in 1 .. m + 1 |-> IF i = 1 THEN ss[i] ELSE f[i - 1] \o ss[i]]
    <2>2. \A i \in 1 .. m : g[i] = f[i]
      BY <2>1, PartialAt
    <2>3. Partial(ss, m + 1, g)
      <3>1. ASSUME NEW i \in 1 .. m + 1 PROVE g[i] = IF i = 1 THEN ss[i] ELSE g[i - 1] \o ss[i]
        <4>1. i # 1 => i - 1 \in 1 .. m
          OBVIOUS
        <4>2. g[i] = IF i = 1 THEN ss[i] ELSE f[i - 1] \o ss[i]
          OBVIOUS
        <4> HIDE DEF g
        <4> QED BY <2>2, <4>1, <4>2
      <3>2. g = [i \in 1 .. m + 1 |-> g[i]]
        OBVIOUS
      <3> HIDE DEF g
      <3> QED BY <3>1, <3>2 DEF Partial
    <2> QED BY <2>3
  <1> HIDE DEF S
  <1>3. Nat \subseteq S
    BY <1>1, <1>2, Induct
  <1> QED BY <1>3 DEF S

Agree(ss, tt, m) == \A i \in 1 .. m : ss[i] = tt[i]

LEMMA PartialUnique ==
  ASSUME NEW ss, NEW tt, NEW m \in Nat, NEW n \in Nat, m <= n, NEW f, NEW g,
         Partial(ss, m, f), Partial(tt, n, g), Agree(ss, tt, m)
  PROVE  \A i \in 1 .. m : f[i] = g[i]
  <1> DEFINE S == {i \in Nat : i \in 1 .. m => f[i] = g[i]}
  <1>1. 0 \in S
    OBVIOUS
  <1>2. ASSUME NEW i \in Nat, i \in S PROVE i + 1 \in S
    <2> SUFFICES ASSUME i + 1 \in 1 .. m PROVE f[i + 1] = g[i + 1]
      OBVIOUS
    <2>1. f[i + 1] = (IF i + 1 = 1 THEN ss[i + 1] ELSE f[(i + 1) - 1] \o ss[i + 1])
      BY PartialAt
    <2>2. g[i + 1] = (IF i + 1 = 1 THEN tt[i + 1] ELSE g[(i + 1) - 1] \o tt[i + 1])
      BY PartialAt
    <2>3. (i + 1) - 1 = i /\ ss[i + 1] = tt[i + 1]
      BY DEF Agree
    <2>4. i + 1 # 1 => f[i] = g[i]
      BY <1>2
    <2> QED BY <2>1, <2>2, <2>3, <2>4
  <1> HIDE DEF S
  <1>3. Nat \subseteq S
    BY <1>1, <1>2, Induct
  <1> QED BY <1>3 DEF S

Extends(ss, n, tt, m) == n \in Nat \ {0} /\ m = n + 1 /\ Agree(ss, tt, n)

LEMMA PartialLast ==
  ASSUME NEW ss, NEW tt, NEW n, NEW m, Extends(ss, n, tt, m)
  PROVE  \A f, g : Partial(ss, n, f) /\ Partial(tt, m, g) => g[m] = Cat(f[n], tt[m])
  <1> n \in Nat /\ n # 0 /\ m = n + 1 /\ m \in Nat /\ Agree(ss, tt, n)
    BY DEF Extends
  <1> SUFFICES ASSUME NEW f, NEW g, Partial(ss, n, f), Partial(tt, m, g)
               PROVE  g[m] = Cat(f[n], tt[m])
    OBVIOUS
  <1>1. n \in 1 .. n /\ n <= m /\ m \in 1 .. m /\ m # 1 /\ m - 1 = n
    OBVIOUS
  <1>2. \A i \in 1 .. n : f[i] = g[i]
    BY <1>1, PartialUnique, SMT
  <1>3. \A i \in 1 .. m : g[i] = IF i = 1 THEN tt[i] ELSE g[i - 1] \o tt[i]
    BY PartialAt
  <1>4. g[m] = Cat(g[n], tt[m])
    BY <1>1, <1>3 DEF Cat
  <1>5. f[n] = g[n]
    BY <1>1, <1>2
  <1> QED BY <1>4, <1>5

LEMMA FlattenPartial ==
  ASSUME NEW X, NEW ss \in Seq(X), ss # <<>>
  PROVE  \E f : Partial(ss, Len(ss), f) /\ FlattenSeq(ss) = f[Len(ss)]
  <1> DEFINE f == CHOOSE g : Partial(ss, Len(ss), g)
  <1>1. Len(ss) \in Nat /\ Len(ss) # 0
    OBVIOUS
  <1>2. Partial(ss, Len(ss), f)
    BY <1>1, PartialExists
  <1>3. FlattenSeq(ss) = f[Len(ss)]
    BY <1>1 DEF FlattenSeq, Partial
  <1> QED BY <1>2, <1>3

LEMMA FlattenEmpty == FlattenSeq(<<>>) = <<>>
  BY DEF FlattenSeq

(* One more sequence is added at the end.                                  *)
LEMMA FlattenLonger ==
  ASSUME NEW X, NEW ss \in Seq(Seq(X)), NEW tt \in Seq(Seq(X)),
         Len(tt) = Len(ss) + 1, Agree(ss, tt, Len(ss))
  PROVE  FlattenSeq(tt) = Cat(FlattenSeq(ss), tt[Len(tt)])
  <1> DEFINE n == Len(ss)
             m == Len(tt)
  <1>0. n \in Nat /\ m = n + 1 /\ Agree(ss, tt, n)
    OBVIOUS
  <1>1. PICK g : Partial(tt, m, g) /\ FlattenSeq(tt) = g[m]
    <2>1. tt # <<>>
      BY <1>0
    <2> QED BY <2>1, FlattenPartial, Zenon
  <1> HIDE DEF n, m
  <1>2. CASE n = 0
    <2>1. ss = <<>> /\ tt[m] \in Seq(X) /\ m = 1 /\ m \in 1 .. m
      BY <1>0, <1>2 DEF n, m
    <2>2. FlattenSeq(tt) = tt[m]
      BY <1>1, <2>1, PartialAt DEF m
    <2> QED BY <2>1, <2>2, FlattenEmpty, ConcatEmptySeq DEF m, Cat
  <1>3. CASE n # 0
    <2>1. PICK f : Partial(ss, n, f) /\ FlattenSeq(ss) = f[n]
      <3>1. ss # <<>>
        BY <1>0, <1>3 DEF n
      <3> QED BY <3>1, FlattenPartial, Zenon DEF n
    <2>2. Extends(ss, n, tt, m)
      BY <1>0, <1>3 DEF Extends
    <2>3. \A x, y : Partial(ss, n, x) /\ Partial(tt, m, y) => y[m] = Cat(x[n], tt[m])
      BY <2>2, PartialLast, SMT
    <2> QED BY <1>1, <2>1, <2>3 DEF m
  <1> QED BY <1>0, <1>2, <1>3 DEF m

(* What the first k of a sequence of sequences hold.                       *)
Upto(ss, k) == FlattenSeq([i \in 1 .. k |-> ss[i]])

LEMMA UptoZero == ASSUME NEW ss PROVE Upto(ss, 0) = <<>>
  <1>1. [i \in 1 .. 0 |-> ss[i]] = <<>>
    OBVIOUS
  <1> QED BY <1>1, FlattenEmpty DEF Upto

LEMMA UptoNext ==
  ASSUME NEW X, NEW k \in Nat, NEW ss, \A i \in 1 .. k + 1 : ss[i] \in Seq(X)
  PROVE  Upto(ss, k + 1) = Cat(Upto(ss, k), ss[k + 1])
  <1> DEFINE s == [i \in 1 .. k |-> ss[i]]
             t == [i \in 1 .. k + 1 |-> ss[i]]
  <1>1. s \in Seq(Seq(X)) /\ t \in Seq(Seq(X)) /\ Len(s) = k /\ ss[k + 1] \in Seq(X)
    OBVIOUS
  <1>2. Len(t) = k + 1 /\ t[k + 1] = ss[k + 1] /\ Agree(s, t, k) /\ k + 1 \in Nat
    BY DEF Agree
  <1> HIDE DEF s, t
  <1>3. Len(t) = Len(s) + 1 /\ Agree(s, t, Len(s))
    BY <1>1, <1>2
  <1>4. FlattenSeq(t) = Cat(FlattenSeq(s), t[Len(t)])
    BY <1>1, <1>3, FlattenLonger, Zenon
  <1> QED BY <1>2, <1>4 DEF s, t, Upto

LEMMA UptoType ==
  ASSUME NEW X, NEW n \in Nat, NEW ss, \A i \in 1 .. n : ss[i] \in Seq(X)
  PROVE  \A k \in 0 .. n : Upto(ss, k) \in Seq(X)
  <1> DEFINE S == {k \in Nat : k <= n => Upto(ss, k) \in Seq(X)}
  <1>1. 0 \in S
    BY UptoZero, EmptySeq
  <1>2. ASSUME NEW k \in Nat, k \in S PROVE k + 1 \in S
    <2> SUFFICES ASSUME k + 1 <= n PROVE Upto(ss, k + 1) \in Seq(X)
      OBVIOUS
    <2>1. Upto(ss, k) \in Seq(X) /\ ss[k + 1] \in Seq(X)
      BY <1>2
    <2>2. Upto(ss, k + 1) = Cat(Upto(ss, k), ss[k + 1])
      BY UptoNext
    <2> QED BY <2>1, <2>2, ConcatProperties DEF Cat
  <1> HIDE DEF S
  <1>3. Nat \subseteq S
    BY <1>1, <1>2, Induct
  <1> QED BY <1>3 DEF S

(* Only the first k matter.                                                *)
LEMMA UptoSame ==
  ASSUME NEW k \in Nat, NEW ss, NEW tt, \A i \in 1 .. k : ss[i] = tt[i]
  PROVE  Upto(ss, k) = Upto(tt, k)
  <1>1. [i \in 1 .. k |-> ss[i]] = [i \in 1 .. k |-> tt[i]]
    OBVIOUS
  <1> QED BY <1>1 DEF Upto

-----------------------------------------------------------------------------
(* A stream of bytes that has grown: b is a prefix of c.                   *)
Prefix(b, c) == Len(b) <= Len(c) /\ \A i \in 1 .. Len(b) : c[i] = b[i]

Stream(b) == b \in Seq(Nat)

LEMMA StreamAt ==
  ASSUME NEW b, Stream(b)
  PROVE  Len(b) \in Nat /\ \A i \in 1 .. Len(b) : b[i] \in Nat
  BY DEF Stream

LEMMA PrefixAt ==
  ASSUME NEW b, NEW c, Stream(b), Stream(c), Prefix(b, c)
  PROVE  /\ Len(b) \in Nat /\ Len(c) \in Nat /\ Len(b) <= Len(c)
         /\ \A i \in 1 .. Len(b) : c[i] = b[i] /\ b[i] \in Nat
  BY DEF Stream, Prefix

LEMMA SubSame ==
  ASSUME NEW b, NEW c, Stream(b), Stream(c), Prefix(b, c),
         NEW from \in Nat, NEW to \in Nat, to <= Len(b)
  PROVE  SubSeq(b, from + 1, to) = SubSeq(c, from + 1, to)
  <1> DEFINE s == SubSeq(b, from + 1, to)
             t == SubSeq(c, from + 1, to)
  <1>1. \A i \in from + 1 .. to : b[i] \in Nat /\ c[i] \in Nat /\ c[i] = b[i]
    BY PrefixAt
  <1>2. /\ s \in Seq(Nat) /\ Len(s) = (IF from + 1 <= to THEN to - (from + 1) + 1 ELSE 0)
        /\ \A i \in 1 .. to - (from + 1) + 1 : s[i] = b[(from + 1) + i - 1]
    BY <1>1, SubSeqProperties
  <1>3. /\ t \in Seq(Nat) /\ Len(t) = (IF from + 1 <= to THEN to - (from + 1) + 1 ELSE 0)
        /\ \A i \in 1 .. to - (from + 1) + 1 : t[i] = c[(from + 1) + i - 1]
    BY <1>1, SubSeqProperties
  <1> HIDE DEF s, t
  <1>4. Len(s) = Len(t) /\ \A i \in 1 .. Len(s) : s[i] = t[i]
    BY <1>1, <1>2, <1>3
  <1>5. s = t
    BY <1>2, <1>3, <1>4, SeqEqual
  <1> QED BY <1>5 DEF s, t

IsSeq(s) == \E S : s \in Seq(S)

(* What a call on the bytes b may return: it has read no more than there   *)
(* is, and what it wrote is a sequence of replies.                         *)
Bounded(r, b) ==
  \/ r.out \in {"wait", "fail", "panic"}
  \/ /\ r.out \in {"more", "login", "done"}
     /\ r.n \in 0 .. Len(b)
     /\ IsSeq(r.replies)
     /\ r.out = "more" => r.pkt # NoPacket

LEMMA SingletonSeq == ASSUME NEW x PROVE IsSeq(<<x>>)
  <1>1. <<x>> \in Seq({x})
    OBVIOUS
  <1> QED BY <1>1 DEF IsSeq

LEMMA NothingSeq == IsSeq(<<>>)
  BY EmptySeq DEF IsSeq

-----------------------------------------------------------------------------
(* GT06.                                                                   *)
LEMMA Gt06Read ==
  ASSUME NEW b, Stream(b)
  PROVE  LET r == G!readPacket(b)
         IN  r.out \in {"wait", "fail", "panic"} \/ (r.out = "packet" /\ r.n \in 0 .. Len(b))
  <1> DEFINE body == G!Slice(b, 3, 3 + b[3])
  <1>1. CASE Len(b) < 3 \/ ~G!Detect(b) \/ Len(b) < 5 + b[3]
    BY <1>1 DEF G!readPacket, G!Wait, G!Fail
  <1>2. CASE ~(Len(b) < 3 \/ ~G!Detect(b) \/ Len(b) < 5 + b[3])
    <2> HIDE DEF body
    <2>1. Len(b) \in Nat /\ b[3] \in Nat
      BY <1>2, StreamAt
    <2>2. G!readPacket(b) = G!packetOf(body, 5 + b[3])
      BY <1>2, <2>1 DEF G!readPacket, body
    <2>3. 5 + b[3] \in 0 .. Len(b)
      BY <1>2, <2>1
    <2> QED BY <2>2, <2>3 DEF G!packetOf, G!Panic, G!Fail
  <1> QED BY <1>1, <1>2

LEMMA Gt06Stable ==
  ASSUME NEW b, NEW c, Stream(b), Stream(c), Prefix(b, c), G!readPacket(b).out # "wait"
  PROVE  G!readPacket(c) = G!readPacket(b)
  <1>0. Len(b) \in Nat /\ Len(c) \in Nat /\ Len(b) <= Len(c)
    BY PrefixAt
  <1>1. ~(Len(b) < 2) /\ ~(Len(c) < 2)
    BY <1>0 DEF G!readPacket, G!Wait
  <1>2. c[1] = b[1] /\ c[2] = b[2]
    BY <1>0, <1>1, PrefixAt
  <1>3. G!Detect(c) = G!Detect(b)
    BY <1>0, <1>1, <1>2 DEF G!Detect
  <1>4. CASE ~G!Detect(b)
    BY <1>1, <1>3, <1>4 DEF G!readPacket
  <1>5. CASE G!Detect(b)
    <2>1. ~(Len(b) < 3 \/ Len(b) < 5 + b[3])
      BY <1>1, <1>5 DEF G!readPacket, G!Wait
    <2>2. c[3] = b[3] /\ b[3] \in Nat
      BY <1>0, <2>1, PrefixAt
    <2>3. ~(Len(c) < 3 \/ Len(c) < 5 + c[3])
      BY <1>0, <2>1, <2>2
    <2>4. G!Slice(b, 3, 3 + b[3]) = G!Slice(c, 3, 3 + b[3])
      <3>1. 3 \in Nat /\ 3 + b[3] \in Nat /\ 3 + b[3] <= Len(b)
        BY <1>0, <2>1, <2>2
      <3> QED BY <3>1, SubSame DEF G!Slice
    <2>5. G!readPacket(b) = G!packetOf(G!Slice(b, 3, 3 + b[3]), 5 + b[3])
      BY <1>1, <1>5, <2>1 DEF G!readPacket
    <2>6. G!readPacket(c) = G!packetOf(G!Slice(c, 3, 3 + c[3]), 5 + c[3])
      BY <1>1, <1>3, <1>5, <2>3 DEF G!readPacket
    <2> QED BY <2>2, <2>4, <2>5, <2>6
  <1> QED BY <1>4, <1>5

LEMMA Gt06Authenticate ==
  ASSUME NEW b, Stream(b)
  PROVE  /\ Bounded(G!Authenticate(b), b)
         /\ Len(b) = 0 => G!Authenticate(b).out = "wait"
         /\ \A c : Stream(c) /\ Prefix(b, c) /\ G!Authenticate(b).out # "wait" =>
              G!Authenticate(c) = G!Authenticate(b)
  <1> DEFINE r == G!readPacket(b)
  <1>1. r.out \in {"wait", "fail", "panic"} \/ (r.out = "packet" /\ r.n \in 0 .. Len(b))
    BY Gt06Read
  <1> HIDE DEF r
  <1>2. Bounded(G!Authenticate(b), b)
    BY <1>1, SingletonSeq DEF G!Authenticate, Bounded, G!Fail, r
  <1>3. Len(b) = 0 => G!Authenticate(b).out = "wait"
    BY DEF G!Authenticate, G!readPacket, G!Wait
  <1>4. ASSUME NEW c, Stream(c), Prefix(b, c), G!Authenticate(b).out # "wait"
        PROVE  G!Authenticate(c) = G!Authenticate(b)
    <2>1. r.out # "wait"
      BY <1>4 DEF G!Authenticate, r
    <2>2. G!readPacket(c) = G!readPacket(b)
      BY <1>4, <2>1, Gt06Stable DEF r
    <2> QED BY <2>2, Zenon DEF G!Authenticate
  <1> QED BY <1>2, <1>3, <1>4

LEMMA Gt06ParsePacket ==
  ASSUME NEW b, Stream(b)
  PROVE  /\ Bounded(G!ParsePacket(b), b)
         /\ Len(b) = 0 => G!ParsePacket(b).out = "wait"
         /\ \A c : Stream(c) /\ Prefix(b, c) /\ G!ParsePacket(b).out # "wait" =>
              G!ParsePacket(c) = G!ParsePacket(b)
  <1> DEFINE r == G!readPacket(b)
  <1>1. r.out \in {"wait", "fail", "panic"} \/ (r.out = "packet" /\ r.n \in 0 .. Len(b))
    BY Gt06Read
  <1> HIDE DEF r
  <1>2. Bounded(G!ParsePacket(b), b)
    <2>1. \A info : G!parseGPS(info).out \in {"fail", "panic", "gps"}
      BY DEF G!parseGPS, G!Fail, G!Panic
    <2>2. \A info : G!parseAlarm(info).out \in {"fail", "panic", "gps"}
      BY <2>1 DEF G!parseAlarm
    <2>3. ASSUME NEW gps, gps.out \in {"fail", "panic", "gps"}, r.n \in 0 .. Len(b)
          PROVE  Bounded(G!Position(r, gps), b)
      BY <2>3, SingletonSeq DEF G!Position, G!Done, Bounded
    <2>4. r.out = "packet" => /\ Bounded(G!Done(r.n, <<>>, <<>>), b)
                             /\ \A x : Bounded(G!Done(r.n, <<>>, <<x>>), b)
      BY <1>1, SingletonSeq, NothingSeq DEF Bounded, G!Done
    <2>5. r.out # "packet" => Bounded(r, b)
      BY <1>1 DEF Bounded
    <2> QED BY <1>1, <2>1, <2>2, <2>3, <2>4, <2>5 DEF G!ParsePacket, r
  <1>3. Len(b) = 0 => G!ParsePacket(b).out = "wait"
    BY DEF G!ParsePacket, G!readPacket, G!Wait
  <1>4. ASSUME NEW c, Stream(c), Prefix(b, c), G!ParsePacket(b).out # "wait"
        PROVE  G!ParsePacket(c) = G!ParsePacket(b)
    <2>1. r.out # "wait"
      BY <1>4 DEF G!ParsePacket, r
    <2>2. G!readPacket(c) = G!readPacket(b)
      BY <1>4, <2>1, Gt06Stable DEF r
    <2> QED BY <2>2, SMT DEF G!ParsePacket
  <1> QED BY <1>2, <1>3, <1>4

-----------------------------------------------------------------------------
(* Teltonika.                                                              *)
LEMMA TeltonikaAuthenticate ==
  ASSUME NEW b, Stream(b)
  PROVE  /\ Bounded(T!Authenticate(b), b)
         /\ Len(b) = 0 => T!Authenticate(b).out = "wait"
         /\ \A c : Stream(c) /\ Prefix(b, c) /\ T!Authenticate(b).out # "wait" =>
              T!Authenticate(c) = T!Authenticate(b)
  <1> DEFINE n    == T!U16(b, 0)
             imei == T!Slice(b, 2, 2 + n)
  <1>0. Len(b) \in Nat
    BY StreamAt
  <1>1. ~(Len(b) < 2) => n \in Nat
    BY <1>0, StreamAt DEF T!U16
  <1>2. Bounded(T!Authenticate(b), b)
    <2> HIDE DEF imei, n
    <2>1. CASE Len(b) < 2 \/ n \notin 15 .. 17 \/ Len(b) < 2 + n
               \/ \E i \in DOMAIN imei : imei[i] \notin 48 .. 57
      BY <2>1 DEF T!Authenticate, Bounded, T!Wait, T!Fail, n, imei
    <2>2. CASE ~(Len(b) < 2 \/ n \notin 15 .. 17 \/ Len(b) < 2 + n
               \/ \E i \in DOMAIN imei : imei[i] \notin 48 .. 57)
      <3> DEFINE replies1 == <<<<1>>>>
      <3>0. IsSeq(replies1)
        BY SingletonSeq
      <3> HIDE DEF replies1
      <3>1. T!Authenticate(b) = [out |-> "login", n |-> 2 + n, id |-> imei, replies |-> replies1]
        BY <2>2 DEF T!Authenticate, n, imei, replies1
      <3>2. 2 + n \in 0 .. Len(b)
        BY <1>0, <1>1, <2>2
      <3> QED BY <3>0, <3>1, <3>2 DEF Bounded
    <2> QED BY <2>1, <2>2
  <1>3. Len(b) = 0 => T!Authenticate(b).out = "wait"
    BY DEF T!Authenticate, T!Wait
  <1>4. ASSUME NEW c, Stream(c), Prefix(b, c), T!Authenticate(b).out # "wait"
        PROVE  T!Authenticate(c) = T!Authenticate(b)
    <2>0. Len(c) \in Nat /\ Len(b) <= Len(c)
      BY <1>4, PrefixAt
    <2>1. ~(Len(b) < 2) /\ ~(Len(c) < 2)
      BY <1>0, <1>4, <2>0 DEF T!Authenticate, T!Wait
    <2>2. T!U16(c, 0) = n
      <3>1. c[1] = b[1] /\ c[2] = b[2]
        BY <1>0, <1>4, <2>1, PrefixAt
      <3> QED BY <3>1 DEF T!U16
    <2> HIDE DEF imei, n
    <2>3. CASE n \notin 15 .. 17
      BY <2>1, <2>2, <2>3 DEF T!Authenticate, n
    <2>4. CASE n \in 15 .. 17
      <3>1. ~(Len(b) < 2 + n)
        BY <1>4, <2>1, <2>4 DEF T!Authenticate, T!Wait, n
      <3>2. ~(Len(c) < 2 + n)
        BY <1>0, <2>0, <2>4, <3>1
      <3>3. T!Slice(c, 2, 2 + n) = imei
        <4>1. 2 \in Nat /\ 2 + n \in Nat /\ 2 + n <= Len(b)
          BY <1>0, <2>4, <3>1
        <4>2. SubSeq(b, 2 + 1, 2 + n) = SubSeq(c, 2 + 1, 2 + n)
          BY <1>4, <4>1, SubSame
        <4> QED BY <4>2 DEF T!Slice, imei
      <3>4. T!Authenticate(b) = IF \E i \in DOMAIN imei : imei[i] \notin 48 .. 57 THEN T!Fail
               ELSE [out |-> "login", n |-> 2 + n, id |-> imei, replies |-> <<<<1>>>>]
        BY <2>1, <2>4, <3>1 DEF T!Authenticate, n, imei
      <3>5. T!Authenticate(c) = IF \E i \in DOMAIN imei : imei[i] \notin 48 .. 57 THEN T!Fail
               ELSE [out |-> "login", n |-> 2 + n, id |-> imei, replies |-> <<<<1>>>>]
        BY <2>1, <2>2, <2>4, <3>2, <3>3 DEF T!Authenticate
      <3> QED BY <3>4, <3>5
    <2> QED BY <2>3, <2>4
  <1> QED BY <1>2, <1>3, <1>4

LEMMA TeltonikaDecode ==
  ASSUME NEW payload, NEW n
  PROVE  LET r == T!Decode(payload, n)
         IN  r.out = "fail" \/ (r.out = "done" /\ r.n = n /\ r.replies = <<>>)
  BY DEF T!Decode, T!Fail, T!Done

LEMMA TeltonikaParsePacket ==
  ASSUME NEW b, Stream(b)
  PROVE  /\ Bounded(T!ParsePacket(b), b)
         /\ Len(b) = 0 => T!ParsePacket(b).out = "wait"
         /\ \A c : Stream(c) /\ Prefix(b, c) /\ T!ParsePacket(b).out # "wait" =>
              T!ParsePacket(c) = T!ParsePacket(b)
  <1> DEFINE preamble(s) == T!Slice(s, 0, 4)
             dataLen(s)  == \h10000 * s[6] + T!U16(s, 6)
             tooLong(s)  == T!Slice(s, 4, 6) \notin {<<0, 0>>, <<0, 1>>} \/ dataLen(s) > \h10000
             payload(s)  == T!Slice(s, 8, 8 + dataLen(s))
             garbled(s)  == T!CRC16IBM(payload(s)) # T!U16(s, 10 + dataLen(s))
  <1>0. Len(b) \in Nat
    BY StreamAt
  <1>1. ASSUME NEW s
        PROVE  T!ParsePacket(s) =
                 IF Len(s) < 4 THEN T!Wait
                 ELSE IF preamble(s) # <<0, 0, 0, 0>> THEN T!Fail
                 ELSE IF Len(s) < 8 THEN T!Wait
                 ELSE IF tooLong(s) THEN T!Fail
                 ELSE IF Len(s) < 12 + dataLen(s) THEN T!Wait
                 ELSE IF garbled(s) THEN T!Fail
                 ELSE T!Decode(payload(s), 12 + dataLen(s))
    BY DEF T!ParsePacket
  <1>2. ~(Len(b) < 8) => dataLen(b) \in Nat
    <2>1. ~(Len(b) < 8) => b[6] \in Nat /\ b[7] \in Nat /\ b[8] \in Nat
      BY <1>0, StreamAt
    <2>2. T!U16(b, 6) = 256 * b[7] + b[8]
      BY DEF T!U16
    <2> QED BY <2>1, <2>2
  <1> HIDE DEF preamble, tooLong, dataLen, payload, garbled
  <1>3. Bounded(T!ParsePacket(b), b)
    <2>1. CASE T!ParsePacket(b) \in {T!Wait, T!Fail}
      BY <2>1 DEF Bounded, T!Wait, T!Fail
    <2>2. CASE T!ParsePacket(b) \notin {T!Wait, T!Fail}
      <3>1. /\ ~(Len(b) < 8) /\ ~(Len(b) < 12 + dataLen(b))
            /\ T!ParsePacket(b) = T!Decode(payload(b), 12 + dataLen(b))
        BY <1>0, <1>1, <2>2
      <3>2. 12 + dataLen(b) \in 0 .. Len(b)
        BY <1>0, <1>2, <3>1
      <3> QED BY <3>1, <3>2, TeltonikaDecode, NothingSeq DEF Bounded
    <2> QED BY <2>1, <2>2
  <1>4. Len(b) = 0 => T!ParsePacket(b).out = "wait"
    BY <1>1 DEF T!Wait
  <1>5. ASSUME NEW c, Stream(c), Prefix(b, c), T!ParsePacket(b).out # "wait"
        PROVE  T!ParsePacket(c) = T!ParsePacket(b)
    <2>0. Len(c) \in Nat /\ Len(b) <= Len(c) /\ T!ParsePacket(b) # T!Wait
      BY <1>5, PrefixAt DEF T!Wait
    <2>1. ~(Len(b) < 4) /\ ~(Len(c) < 4)
      BY <1>0, <1>1, <2>0
    <2>2. preamble(c) = preamble(b)
      <3>1. 0 \in Nat /\ 4 \in Nat /\ 4 <= Len(b)
        BY <1>0, <2>1
      <3>2. SubSeq(b, 0 + 1, 4) = SubSeq(c, 0 + 1, 4)
        BY <1>5, <3>1, SubSame
      <3> QED BY <3>2 DEF preamble, T!Slice
    <2>3. CASE preamble(b) # <<0, 0, 0, 0>>
      BY <1>1, <2>1, <2>2, <2>3
    <2>4. CASE preamble(b) = <<0, 0, 0, 0>>
      <3>1. ~(Len(b) < 8) /\ ~(Len(c) < 8)
        BY <1>0, <1>1, <2>0, <2>1, <2>4
      <3>2. dataLen(c) = dataLen(b)
        <4>1. c[6] = b[6] /\ c[6 + 1] = b[6 + 1] /\ c[6 + 2] = b[6 + 2]
          BY <1>0, <1>5, <3>1, PrefixAt
        <4> QED BY <4>1 DEF dataLen, T!U16
      <3>3. tooLong(c) = tooLong(b)
        <4>1. T!Slice(c, 4, 6) = T!Slice(b, 4, 6)
          <5>1. 4 \in Nat /\ 6 \in Nat /\ 6 <= Len(b)
            BY <1>0, <3>1
          <5>2. SubSeq(b, 4 + 1, 6) = SubSeq(c, 4 + 1, 6)
            BY <1>5, <5>1, SubSame
          <5> QED BY <5>2 DEF T!Slice
        <4> QED BY <3>2, <4>1 DEF tooLong
      <3>4. CASE tooLong(b)
        BY <1>1, <2>1, <2>2, <2>4, <3>1, <3>3, <3>4
      <3>5. CASE ~tooLong(b)
        <4>1. ~(Len(b) < 12 + dataLen(b)) /\ dataLen(b) \in Nat
          BY <1>1, <1>2, <2>0, <2>1, <2>4, <3>1, <3>5
        <4>2. ~(Len(c) < 12 + dataLen(c))
          BY <1>0, <2>0, <3>2, <4>1
        <4>3. payload(c) = payload(b)
          <5>1. 8 \in Nat /\ 8 + dataLen(b) \in Nat /\ 8 + dataLen(b) <= Len(b)
            BY <1>0, <4>1
          <5>2. SubSeq(b, 8 + 1, 8 + dataLen(b)) = SubSeq(c, 8 + 1, 8 + dataLen(b))
            BY <1>5, <5>1, SubSame
          <5> QED BY <3>2, <5>2 DEF payload, T!Slice
        <4>4. garbled(c) = garbled(b)
          <5> DEFINE o == 10 + dataLen(b)
          <5>1. c[o + 1] = b[o + 1] /\ c[o + 2] = b[o + 2]
            <6>1. o + 1 \in 1 .. Len(b) /\ o + 2 \in 1 .. Len(b)
              BY <1>0, <4>1
            <6> QED BY <1>5, <6>1, PrefixAt
          <5>2. T!U16(c, o) = T!U16(b, o)
            BY <5>1 DEF T!U16
          <5> QED BY <3>2, <4>3, <5>2 DEF garbled
        <4> QED BY <1>1, <2>1, <2>2, <2>4, <3>1, <3>2, <3>3, <3>5, <4>1, <4>2, <4>3, <4>4
      <3> QED BY <3>4, <3>5
    <2> QED BY <2>3, <2>4
  <1> QED BY <1>3, <1>4, <1>5

-----------------------------------------------------------------------------
(* JT808.                                                                  *)
LEMMA MinOfMore ==
  ASSUME NEW S \in SUBSET Nat, NEW U \in SUBSET Nat, S # {}, S \subseteq U,
         \A t \in U, s \in S : t < s => t \in S
  PROVE  Min(U) = Min(S)
  <1>1. Min(S) \in S /\ \A y \in S : Min(S) <= y
    BY MinIsLeast
  <1>2. Min(U) \in U /\ \A y \in U : Min(U) <= y
    BY MinIsLeast
  <1> DEFINE x == Min(S)
             y == Min(U)
  <1> HIDE DEF x, y
  <1>3. x \in S /\ y \in U /\ x \in Nat /\ y \in Nat /\ y <= x
    BY <1>1, <1>2 DEF x, y
  <1>4. y < x => y \in S
    BY <1>3
  <1>5. y \in S => x <= y
    BY <1>1 DEF x
  <1>6. x = y
    BY <1>3, <1>4, <1>5
  <1> QED BY <1>6 DEF x, y

(* The instance has operators of its own that are defined alike.           *)
LEMMA SameOperators ==
  /\ \A S : J!Min(S) = Min(S)
  /\ \A S : J!Cardinality(S) = Cardinality(S)
  <1>1. ASSUME NEW S PROVE J!Min(S) = Min(S)
    BY DEF J!Min, Min
  <1>2. ASSUME NEW S PROVE J!Cardinality(S) = Cardinality(S)
    BY DEF J!Cardinality, Cardinality
  <1> QED BY <1>1, <1>2

marks(b) == {i \in DOMAIN b : b[i] = J!FrameByte}

LEMMA Jt808Marks ==
  ASSUME NEW b, Stream(b)
  PROVE  /\ marks(b) \in SUBSET (1 .. Len(b)) /\ marks(b) \in SUBSET Nat
         /\ IsFiniteSet(marks(b)) /\ Cardinality(marks(b)) \in Nat
  <1>1. Len(b) \in Nat /\ DOMAIN b = 1 .. Len(b)
    BY DEF Stream
  <1>2. marks(b) \in SUBSET (1 .. Len(b)) /\ marks(b) \in SUBSET Nat
    BY <1>1 DEF marks
  <1>3. IsFiniteSet(1 .. Len(b))
    BY <1>1, FS_Interval
  <1> QED BY <1>2, <1>3, FS_Subset, FS_CardinalityType

LEMMA Jt808TwoMarks ==
  ASSUME NEW b, Stream(b), ~(Cardinality(marks(b)) < 2)
  PROVE  LET start == Min(marks(b))
             end   == Min(marks(b) \ {start})
         IN  /\ start \in marks(b) /\ marks(b) \ {start} # {}
             /\ end \in marks(b) \ {start}
             /\ \A i \in marks(b) \ {start} : end <= i
  <1> DEFINE M == marks(b)
             start == Min(M)
             R == M \ {start}
  <1>1. M \in SUBSET Nat /\ IsFiniteSet(M) /\ Cardinality(M) \in Nat
    BY Jt808Marks
  <1>2. M # {}
    BY FS_EmptySet
  <1>3. start \in M
    BY <1>1, <1>2, MinIsLeast
  <1>4. IsFiniteSet(R) /\ Cardinality(R) = Cardinality(M) - 1
    <2> HIDE DEF M, start
    <2> QED BY <1>1, <1>3, FS_RemoveElement
  <1>5. R # {}
    <2>1. Cardinality(R) # 0
      BY <1>1, <1>4
    <2> QED BY <1>4, <2>1, FS_EmptySet
  <1>6. R \in SUBSET Nat
    BY <1>1
  <1> HIDE DEF R
  <1>7. Min(R) \in R /\ \A i \in R : Min(R) <= i
    BY <1>5, <1>6, MinIsLeast
  <1> QED BY <1>3, <1>5, <1>7 DEF R

LEMMA Jt808Read ==
  ASSUME NEW b, Stream(b)
  PROVE  LET r == J!readFrame(b)
         IN  r.out \in {"wait", "fail"} \/ (r.out = "frame" /\ r.n \in 0 .. Len(b))
  <1> DEFINE start == Min(marks(b))
             end   == Min(marks(b) \ {start})
             data  == J!unescape(SubSeq(b, start + 1, end - 1))
  <1>1. J!readFrame(b) = IF Cardinality(marks(b)) < 2 THEN J!Wait ELSE J!frameOf(data, end)
    BY SameOperators DEF J!readFrame, marks
  <1>2. ~(Cardinality(marks(b)) < 2) => end \in 0 .. Len(b)
    <2>1. marks(b) \in SUBSET (1 .. Len(b)) /\ Len(b) \in Nat
      BY Jt808Marks, StreamAt
    <2>2. ~(Cardinality(marks(b)) < 2) => end \in marks(b)
      BY Jt808TwoMarks
    <2> HIDE DEF end
    <2> QED BY <2>1, <2>2
  <1> HIDE DEF data, end
  <1> QED BY <1>1, <1>2 DEF J!frameOf, J!Wait, J!Fail

LEMMA Jt808Stable ==
  ASSUME NEW b, NEW c, Stream(b), Stream(c), Prefix(b, c), J!readFrame(b).out # "wait"
  PROVE  J!readFrame(c) = J!readFrame(b)
  <1> DEFINE start(s) == Min(marks(s))
             end(s)   == Min(marks(s) \ {start(s)})
             data(s)  == J!unescape(SubSeq(s, start(s) + 1, end(s) - 1))
  <1>1. ASSUME NEW s
        PROVE  J!readFrame(s) =
                 IF Cardinality(marks(s)) < 2 THEN J!Wait ELSE J!frameOf(data(s), end(s))
    BY SameOperators DEF J!readFrame, marks
  <1>2. ~(Cardinality(marks(b)) < 2)
    BY <1>1 DEF J!Wait
  <1>3. marks(b) = {i \in marks(c) : i <= Len(b)}
    <2>1. DOMAIN b = 1 .. Len(b) /\ DOMAIN c = 1 .. Len(c) /\ Len(b) \in Nat /\ Len(c) \in Nat
      BY DEF Stream
    <2> QED BY <2>1, PrefixAt DEF marks
  <1>4. /\ marks(b) \in SUBSET (1 .. Len(b)) /\ marks(b) \in SUBSET Nat /\ marks(c) \in SUBSET Nat
        /\ IsFiniteSet(marks(c)) /\ Cardinality(marks(b)) \in Nat /\ Cardinality(marks(c)) \in Nat
        /\ Len(b) \in Nat
    BY Jt808Marks, StreamAt
  <1>5. ~(Cardinality(marks(c)) < 2)
    <2>1. marks(b) \in SUBSET marks(c)
      BY <1>3
    <2>2. Cardinality(marks(b)) <= Cardinality(marks(c))
      BY <1>4, <2>1, FS_Subset
    <2> QED BY <1>2, <1>4, <2>2
  <1>6. /\ start(b) \in marks(b) /\ marks(b) \ {start(b)} # {}
        /\ end(b) \in marks(b) \ {start(b)}
    BY <1>2, Jt808TwoMarks
  <1>7. start(c) = start(b)
    <2>1. marks(b) # {} /\ marks(b) \subseteq marks(c)
      BY <1>3, <1>6
    <2>2. \A t \in marks(c), s \in marks(b) : t < s => t \in marks(b)
      BY <1>3, <1>4
    <2> QED BY <1>4, <2>1, <2>2, MinOfMore
  <1>8. end(c) = end(b)
    <2> DEFINE S == marks(b) \ {start(b)}
               U == marks(c) \ {start(c)}
    <2>1. S \in SUBSET Nat /\ U \in SUBSET Nat /\ S # {} /\ S \subseteq U
      BY <1>3, <1>4, <1>6, <1>7
    <2>2. \A t \in U, s \in S : t < s => t \in S
      BY <1>3, <1>4, <1>7
    <2> HIDE DEF S, U
    <2>3. Min(U) = Min(S)
      BY <2>1, <2>2, MinOfMore
    <2> QED BY <2>3 DEF S, U
  <1>9. data(c) = data(b)
    <2>1. start(b) \in Nat /\ end(b) - 1 \in Nat /\ end(b) - 1 <= Len(b)
      <3> HIDE DEF start, end
      <3> QED BY <1>4, <1>6
    <2> HIDE DEF start, end
    <2>2. SubSeq(b, start(b) + 1, end(b) - 1) = SubSeq(c, start(b) + 1, end(b) - 1)
      BY <2>1, SubSame
    <2> QED BY <1>7, <1>8, <2>2
  <1> HIDE DEF data, end
  <1> QED BY <1>1, <1>2, <1>5, <1>8, <1>9

LEMMA Jt808Empty ==
  ASSUME NEW b, Stream(b), Len(b) = 0
  PROVE  J!readFrame(b).out = "wait"
  <1>1. marks(b) = {}
    BY Jt808Marks
  <1>2. Cardinality(marks(b)) < 2
    BY <1>1, FS_EmptySet
  <1> QED BY <1>2, SameOperators DEF J!readFrame, marks, J!Wait

LEMMA Jt808AuthFirst ==
  ASSUME NEW b, Stream(b)
  PROVE  /\ Bounded(J!AuthFirst(b), b)
         /\ Len(b) = 0 => J!AuthFirst(b).out = "wait"
         /\ \A c : Stream(c) /\ Prefix(b, c) /\ J!AuthFirst(b).out # "wait" =>
              J!AuthFirst(c) = J!AuthFirst(b)
  <1> DEFINE r == J!readFrame(b)
  <1>1. r.out \in {"wait", "fail"} \/ (r.out = "frame" /\ r.n \in 0 .. Len(b))
    BY Jt808Read
  <1> HIDE DEF r
  <1>2. Bounded(J!AuthFirst(b), b)
    <2>1. r.out = "frame" => r # NoPacket
      BY DEF NoPacket
    <2>2. \A x, y, z : IsSeq(J!Acked(x, y, z))
      BY SingletonSeq DEF J!Acked
    <2> QED BY <1>1, <2>1, <2>2, SingletonSeq DEF J!AuthFirst, Bounded, J!Fail, r
  <1>3. Len(b) = 0 => J!AuthFirst(b).out = "wait"
    BY Jt808Empty DEF J!AuthFirst
  <1>4. ASSUME NEW c, Stream(c), Prefix(b, c), J!AuthFirst(b).out # "wait"
        PROVE  J!AuthFirst(c) = J!AuthFirst(b)
    <2>1. r.out # "wait"
      BY <1>4 DEF J!AuthFirst, r
    <2>2. J!readFrame(c) = J!readFrame(b)
      BY <1>4, <2>1, Jt808Stable DEF r
    <2> QED BY <2>2, SMT DEF J!AuthFirst
  <1> QED BY <1>2, <1>3, <1>4

LEMMA Jt808AuthSecond ==
  ASSUME NEW pkt, NEW b, Stream(b)
  PROVE  /\ Bounded(J!AuthSecond(pkt, b), b)
         /\ Len(b) = 0 => J!AuthSecond(pkt, b).out = "wait"
         /\ \A c : Stream(c) /\ Prefix(b, c) /\ J!AuthSecond(pkt, b).out # "wait" =>
              J!AuthSecond(pkt, c) = J!AuthSecond(pkt, b)
  <1> DEFINE r == J!readFrame(b)
  <1>1. r.out \in {"wait", "fail"} \/ (r.out = "frame" /\ r.n \in 0 .. Len(b))
    BY Jt808Read
  <1> HIDE DEF r
  <1>2. Bounded(J!AuthSecond(pkt, b), b)
    <2>1. \A x, y, z : IsSeq(J!Acked(x, y, z))
      BY SingletonSeq DEF J!Acked
    <2> QED BY <1>1, <2>1 DEF J!AuthSecond, Bounded, J!Fail, r
  <1>3. Len(b) = 0 => J!AuthSecond(pkt, b).out = "wait"
    BY Jt808Empty DEF J!AuthSecond
  <1>4. ASSUME NEW c, Stream(c), Prefix(b, c), J!AuthSecond(pkt, b).out # "wait"
        PROVE  J!AuthSecond(pkt, c) = J!AuthSecond(pkt, b)
    <2>1. r.out # "wait"
      BY <1>4 DEF J!AuthSecond, r
    <2>2. J!readFrame(c) = J!readFrame(b)
      BY <1>4, <2>1, Jt808Stable DEF r
    <2> QED BY <2>2, SMT DEF J!AuthSecond
  <1> QED BY <1>2, <1>3, <1>4

LEMMA Jt808ParsePacket ==
  ASSUME NEW b, Stream(b)
  PROVE  /\ Bounded(J!ParsePacket(b), b)
         /\ Len(b) = 0 => J!ParsePacket(b).out = "wait"
         /\ \A c : Stream(c) /\ Prefix(b, c) /\ J!ParsePacket(b).out # "wait" =>
              J!ParsePacket(c) = J!ParsePacket(b)
  <1> DEFINE r == J!readFrame(b)
  <1>1. r.out \in {"wait", "fail"} \/ (r.out = "frame" /\ r.n \in 0 .. Len(b))
    BY Jt808Read
  <1> HIDE DEF r
  <1>2. Bounded(J!ParsePacket(b), b)
    <2>1. \A x, y, z : IsSeq(J!Acked(x, y, z))
      BY SingletonSeq DEF J!Acked
    <2>2. Bounded(J!Fail, b)
      BY DEF Bounded, J!Fail
    <2>3. r.out = "frame" => /\ Bounded(J!Done(r.n, <<>>, <<>>), b)
                            /\ \A x, y, z, w : Bounded(J!Done(r.n, w, J!Acked(x, y, z)), b)
      BY <1>1, <2>1, NothingSeq DEF Bounded, J!Done
    <2>4. r.out # "frame" => Bounded(r, b)
      BY <1>1 DEF Bounded
    <2> QED BY <1>1, <2>2, <2>3, <2>4 DEF J!ParsePacket, r
  <1>3. Len(b) = 0 => J!ParsePacket(b).out = "wait"
    BY Jt808Empty DEF J!ParsePacket
  <1>4. ASSUME NEW c, Stream(c), Prefix(b, c), J!ParsePacket(b).out # "wait"
        PROVE  J!ParsePacket(c) = J!ParsePacket(b)
    <2>1. r.out # "wait"
      BY <1>4 DEF J!ParsePacket, r
    <2>2. J!readFrame(c) = J!readFrame(b)
      BY <1>4, <2>1, Jt808Stable DEF r
    <2> QED BY <2>2, SMT DEF J!ParsePacket
  <1> QED BY <1>2, <1>3, <1>4

-----------------------------------------------------------------------------
(* Lines.                                                                  *)
delims(b, delim) == {i \in 1 .. Len(b) : b[i] = delim}

LEMMA DelimsOf ==
  ASSUME NEW b, NEW delim, Stream(b)
  PROVE  /\ delims(b, delim) \in SUBSET Nat
         /\ delims(b, delim) # {} => Min(delims(b, delim)) \in 1 .. Len(b)
  <1>1. Len(b) \in Nat
    BY StreamAt
  <1>2. delims(b, delim) \in SUBSET Nat /\ delims(b, delim) \subseteq 1 .. Len(b)
    BY <1>1 DEF delims
  <1>3. delims(b, delim) # {} => Min(delims(b, delim)) \in delims(b, delim)
    BY <1>2, MinIsLeast
  <1> QED BY <1>2, <1>3

LEMMA DelimsStable ==
  ASSUME NEW b, NEW c, NEW delim, Stream(b), Stream(c), Prefix(b, c), delims(b, delim) # {}
  PROVE  /\ delims(c, delim) # {} /\ Min(delims(c, delim)) = Min(delims(b, delim))
         /\ SubSeq(c, 1, Min(delims(b, delim))) = SubSeq(b, 1, Min(delims(b, delim)))
  <1> DEFINE S == delims(b, delim)
             U == delims(c, delim)
  <1>1. /\ Len(b) \in Nat /\ Len(c) \in Nat /\ Len(b) <= Len(c)
        /\ \A i \in 1 .. Len(b) : c[i] = b[i] /\ b[i] \in Nat
    BY PrefixAt
  <1>2. S \in SUBSET Nat /\ U \in SUBSET Nat /\ S # {} /\ S \subseteq U
    BY <1>1 DEF delims
  <1>3. \A t \in U, s \in S : t < s => t \in S
    BY <1>1 DEF delims
  <1>4. Min(S) \in 1 .. Len(b)
    BY DelimsOf
  <1> HIDE DEF S, U
  <1>5. Min(U) = Min(S)
    BY <1>2, <1>3, MinOfMore
  <1>6. SubSeq(b, 0 + 1, Min(S)) = SubSeq(c, 0 + 1, Min(S))
    <2>1. 0 \in Nat /\ Min(S) \in Nat /\ Min(S) <= Len(b)
      BY <1>1, <1>4
    <2> QED BY <2>1, SubSame
  <1>7. 0 + 1 = 1
    OBVIOUS
  <1>8. SubSeq(c, 1, Min(S)) = SubSeq(b, 1, Min(S))
    BY <1>6, <1>7, Zenon
  <1>9. U # {}
    BY <1>2
  <1> QED BY <1>5, <1>8, <1>9, Zenon DEF S, U

LEMMA Ais140Line ==
  ASSUME NEW b, Stream(b), NEW eof
  PROVE  LET D == delims(b, A!Newline)
         IN  A!ReadString(b, eof, A!Newline) =
               IF D # {} THEN [out |-> "line", line |-> SubSeq(b, 1, Min(D)), n |-> Min(D),
                               eof |-> FALSE]
               ELSE IF eof THEN [out |-> "line", line |-> b, n |-> Len(b), eof |-> TRUE]
               ELSE A!Wait
  <1> DEFINE D == delims(b, A!Newline)
             at == IF D # {} THEN Min(D) ELSE 0
  <1>1. A!SelectInSeq(b, LAMBDA s : s = A!Newline) = at
    <2>1. \A S : A!Min(S) = Min(S)
      BY DEF A!Min, Min
    <2> QED BY <2>1 DEF A!SelectInSeq, delims
  <1>2. D # {} => Min(D) \in 1 .. Len(b)
    BY DelimsOf
  <1>3. at \in Nat /\ (at > 0 <=> D # {}) /\ (at = 0 <=> D = {})
    BY <1>2, StreamAt
  <1> HIDE DEF D
  <1>4. A!ReadString(b, eof, A!Newline) =
          CASE at > 0         -> [out |-> "line", line |-> SubSeq(b, 1, at), n |-> at, eof |-> FALSE]
            [] at = 0 /\ eof  -> [out |-> "line", line |-> b, n |-> Len(b), eof |-> TRUE]
            [] OTHER          -> A!Wait
    BY <1>1 DEF A!ReadString
  <1>5. CASE D # {}
    <2>1. at = Min(D) /\ at > 0
      BY <1>3, <1>5
    <2> HIDE DEF at
    <2>2. A!ReadString(b, eof, A!Newline) =
            [out |-> "line", line |-> SubSeq(b, 1, at), n |-> at, eof |-> FALSE]
      BY <1>4, <2>1
    <2> QED BY <1>5, <2>1, <2>2 DEF D
  <1>6. CASE D = {}
    <2>1. at = 0 /\ ~(at > 0)
      BY <1>3, <1>6
    <2> HIDE DEF at
    <2> QED BY <1>4, <1>6, <2>1 DEF D
  <1> QED BY <1>5, <1>6

FullLine(line, n) == [out |-> "line", line |-> line, n |-> n, eof |-> FALSE]
LastLine(line, n) == [out |-> "line", line |-> line, n |-> n, eof |-> TRUE]

LEMMA Tk103Line ==
  ASSUME NEW b, Stream(b), NEW eof
  PROVE  LET r == K!ReadString(b, eof, K!Semicolon)
         IN  \/ r = K!Wait
             \/ Len(b) # 0 /\ \E line, n : n \in 0 .. Len(b) /\ r = FullLine(line, n)
             \/ r = LastLine(b, Len(b))
  <1> DEFINE D == delims(b, K!Semicolon)
             at == IF D # {} THEN Min(D) ELSE 0
             first == SubSeq(b, 1, at)
  <1>1. K!SelectInSeq(b, LAMBDA s : s = K!Semicolon) = at
    <2>1. \A S : K!Min(S) = Min(S)
      BY DEF K!Min, Min
    <2> QED BY <2>1 DEF K!SelectInSeq, delims
  <1>2. D # {} => Min(D) \in 1 .. Len(b)
    BY DelimsOf
  <1>3. at \in 0 .. Len(b) /\ Len(b) \in Nat
    BY <1>2, StreamAt
  <1> HIDE DEF at
  <1>4. K!ReadString(b, eof, K!Semicolon) =
          CASE at > 0         -> FullLine(first, at)
            [] at = 0 /\ eof  -> LastLine(b, Len(b))
            [] OTHER          -> K!Wait
    BY <1>1 DEF K!ReadString, FullLine, LastLine
  <1>5. CASE at > 0
    <2> HIDE DEF first
    <2>1. K!ReadString(b, eof, K!Semicolon) = FullLine(first, at)
      BY <1>4, <1>5
    <2>2. Len(b) # 0
      BY <1>3, <1>5
    <2> QED BY <1>3, <2>1, <2>2
  <1>6. CASE at = 0 /\ eof
    BY <1>4, <1>6
  <1>7. CASE at = 0 /\ ~eof
    BY <1>4, <1>7
  <1>8. at > 0 \/ at = 0
    BY <1>3
  <1> QED BY <1>5, <1>6, <1>7, <1>8

LEMMA CardinalityOfTwo ==
  ASSUME NEW x, NEW y, x # y
  PROVE  Cardinality({x, y}) = 2
  <1>1. IsFiniteSet({x}) /\ Cardinality({x}) = 1
    BY FS_Singleton
  <1>2. Cardinality({x} \cup {y}) = IF y \in {x} THEN Cardinality({x}) ELSE Cardinality({x}) + 1
    BY <1>1, FS_AddElement
  <1>3. {x} \cup {y} = {x, y} /\ y \notin {x}
    OBVIOUS
  <1> QED BY <1>1, <1>2, <1>3

(* Nothing but the end of the connection: nine fields are missing.         *)
LEMMA Tk103Nothing ==
  ASSUME NEW b, Stream(b), Len(b) = 0
  PROVE  K!parseASCIILine(K!Trim(b, K!Blank)) = K!Fail
  <1>1. b = <<>>
    BY DEF Stream
  <1>2. \A set : K!Trim(<<>>, set) = <<>>
    BY DEF K!Trim
  <1>3. Len(K!Split(<<>>)) = 1
    <2>1. {i \in DOMAIN <<>> : <<>>[i] = K!Comma} = {} /\ Len(<<>>) = 0
      OBVIOUS
    <2>2. {0, 0 + 1} \cup {} = {0, 1}
      OBVIOUS
    <2>3. K!Cardinality({0, 1}) = 2
      <3>1. \A S : K!Cardinality(S) = Cardinality(S)
        BY DEF K!Cardinality, Cardinality
      <3>2. 0 # 1
        OBVIOUS
      <3>3. Cardinality({0, 1}) = 2
        BY <3>2, CardinalityOfTwo, Zenon
      <3> QED BY <3>1, <3>3, Zenon
    <2> DEFINE cuts == {0, Len(<<>>) + 1} \cup {i \in DOMAIN <<>> : <<>>[i] = K!Comma}
               edge(k) == CHOOSE i \in cuts : K!Cardinality({j \in cuts : j < i}) = k
               f(k) == SubSeq(<<>>, edge(k - 1) + 1, edge(k) - 1)
    <2>4. cuts = {0, 1}
      BY <2>1
    <2>5. K!Split(<<>>) = [k \in 1 .. K!Cardinality(cuts) - 1 |-> f(k)]
      BY DEF K!Split
    <2> HIDE DEF cuts, f
    <2>6. K!Cardinality(cuts) - 1 = 1
      BY <2>3, <2>4
    <2> QED BY <2>5, <2>6
  <1> QED BY <1>1, <1>2, <1>3 DEF K!parseASCIILine, K!Fail

LEMMA Tk103Authenticate ==
  ASSUME NEW b, Stream(b), NEW eof
  PROVE  /\ Bounded(K!Authenticate(b, eof), b)
         /\ Len(b) = 0 => K!Authenticate(b, eof).out \in {"wait", "fail"}
  <1> DEFINE r == K!ReadString(b, eof, K!Semicolon)
             good(x) == ~(x.eof \/ K!Slice(K!Trim(x.line, K!Blank), 0, 3) # <<K!HashTag, K!Comma, K!ImeiTag>>)
             parts(x) == K!Split(K!Trim(x.line, K!Blank))
             login(x) == [out |-> "login", n |-> x.n, id |-> Tail(parts(x)[2]), replies |-> <<K!LOAD>>]
  <1>1. K!Authenticate(b, eof) =
          IF r.out = "wait" THEN K!Wait ELSE IF ~good(r) THEN K!Fail
          ELSE IF Len(parts(r)) < 3 THEN K!Fail ELSE login(r)
    BY DEF K!Authenticate
  <1>2. ASSUME NEW line, NEW n, n \in 0 .. Len(b), r = FullLine(line, n)
        PROVE  Bounded(login(r), b)
    BY <1>2, SingletonSeq DEF Bounded, FullLine
  <1>3. \A line, n : ~good(LastLine(line, n))
    BY DEF LastLine
  <1>4. Bounded(K!Wait, b) /\ Bounded(K!Fail, b) /\ K!Wait.out = "wait" /\ K!Fail.out = "fail"
    BY DEF Bounded, K!Wait, K!Fail
  <1> HIDE DEF r, good, parts, login
  <1>5. \/ r = K!Wait
        \/ Len(b) # 0 /\ \E line, n : n \in 0 .. Len(b) /\ r = FullLine(line, n)
        \/ r = LastLine(b, Len(b))
    BY Tk103Line DEF r
  <1>6. CASE r = K!Wait
    BY <1>1, <1>4, <1>6
  <1>7. CASE Len(b) # 0 /\ \E line, n : n \in 0 .. Len(b) /\ r = FullLine(line, n)
    BY <1>1, <1>2, <1>4, <1>7
  <1>8. CASE r = LastLine(b, Len(b))
    BY <1>1, <1>3, <1>4, <1>8
  <1> QED BY <1>5, <1>6, <1>7, <1>8

LEMMA Tk103ParsePacket ==
  ASSUME NEW b, Stream(b), NEW eof
  PROVE  /\ Bounded(K!ParsePacket(b, eof), b)
         /\ Len(b) = 0 => K!ParsePacket(b, eof).out \in {"wait", "fail"}
  <1> DEFINE r == K!ReadString(b, eof, K!Semicolon)
             gps(x) == K!parseASCIILine(K!Trim(x.line, K!Blank))
             done(x) == K!Done(x.n, <<gps(x).rec>>, <<>>)
  <1>1. K!ParsePacket(b, eof) =
          IF r.out = "wait" THEN K!Wait ELSE IF gps(r).out = "gps" THEN done(r) ELSE K!Fail
    BY DEF K!ParsePacket
  <1>2. ASSUME NEW line, NEW n, n \in 0 .. Len(b)
        PROVE  Bounded(done(FullLine(line, n)), b) /\ Bounded(done(LastLine(line, n)), b)
    BY <1>2, NothingSeq DEF Bounded, FullLine, LastLine, K!Done
  <1>3. Len(b) = 0 => gps(LastLine(b, Len(b))).out = "fail"
    BY Tk103Nothing DEF LastLine, K!Fail
  <1>4. Bounded(K!Wait, b) /\ Bounded(K!Fail, b) /\ K!Wait.out = "wait" /\ K!Fail.out = "fail"
    BY DEF Bounded, K!Wait, K!Fail
  <1>5. Len(b) \in 0 .. Len(b)
    BY StreamAt
  <1> HIDE DEF r, gps, done
  <1>6. \/ r = K!Wait
        \/ Len(b) # 0 /\ \E line, n : n \in 0 .. Len(b) /\ r = FullLine(line, n)
        \/ r = LastLine(b, Len(b))
    BY Tk103Line DEF r
  <1>7. CASE r = K!Wait
    BY <1>1, <1>4, <1>7
  <1>8. CASE Len(b) # 0 /\ \E line, n : n \in 0 .. Len(b) /\ r = FullLine(line, n)
    BY <1>1, <1>2, <1>4, <1>8
  <1>9. CASE r = LastLine(b, Len(b))
    BY <1>1, <1>2, <1>3, <1>4, <1>5, <1>9
  <1> QED BY <1>6, <1>7, <1>8, <1>9

LEMMA Ais140LineStable ==
  ASSUME NEW b, NEW c, Stream(b), Stream(c), Prefix(b, c), delims(b, A!Newline) # {},
         NEW e, NEW eof
  PROVE  A!ReadString(c, eof, A!Newline) = A!ReadString(b, e, A!Newline)
  <1> DEFINE D == delims(b, A!Newline)
             U == delims(c, A!Newline)
  <1>1. U # {} /\ Min(U) = Min(D) /\ SubSeq(c, 1, Min(D)) = SubSeq(b, 1, Min(D))
    BY DelimsStable
  <1> DEFINE first(s, n) == SubSeq(s, 1, n)
  <1>2. A!ReadString(b, e, A!Newline) = FullLine(first(b, Min(D)), Min(D))
    BY Ais140Line DEF FullLine
  <1>3. A!ReadString(c, eof, A!Newline) = FullLine(first(c, Min(U)), Min(U))
    BY <1>1, Ais140Line DEF FullLine
  <1>4. first(c, Min(D)) = first(b, Min(D))
    BY <1>1
  <1> HIDE DEF first, D, U
  <1> QED BY <1>1, <1>2, <1>3, <1>4

LEMMA Ais140Result ==
  ASSUME NEW b, Stream(b), NEW eof
  PROVE  LET r == A!ReadString(b, eof, A!Newline)
         IN  \/ r = A!Wait /\ delims(b, A!Newline) = {}
             \/ Len(b) # 0 /\ \E line, n : n \in 0 .. Len(b) /\ r = FullLine(line, n)
             \/ r = LastLine(b, Len(b))
  <1> DEFINE D == delims(b, A!Newline)
             first == SubSeq(b, 1, Min(D))
  <1>1. D # {} => Min(D) \in 1 .. Len(b)
    BY DelimsOf
  <1>2. Len(b) \in Nat
    BY StreamAt
  <1>3. CASE D # {}
    <2>1. A!ReadString(b, eof, A!Newline) = FullLine(first, Min(D))
      BY <1>3, Ais140Line DEF FullLine
    <2> HIDE DEF first, D
    <2>2. Min(D) \in 0 .. Len(b) /\ Len(b) # 0
      BY <1>1, <1>2, <1>3
    <2> QED BY <2>1, <2>2
  <1>4. CASE D = {} /\ eof
    <2>1. A!ReadString(b, eof, A!Newline) = LastLine(b, Len(b))
      BY <1>4, Ais140Line DEF LastLine
    <2> QED BY <2>1
  <1>5. CASE D = {} /\ ~eof
    BY <1>5, Ais140Line
  <1> QED BY <1>3, <1>4, <1>5

LEMMA Ais140Authenticate ==
  ASSUME NEW b, Stream(b), NEW eof
  PROVE  /\ Bounded(A!Authenticate(b, eof), b)
         /\ Len(b) = 0 => A!Authenticate(b, eof).out \in {"wait", "fail"}
         /\ \A c, e : Stream(c) /\ Prefix(b, c) /\ delims(b, A!Newline) # {} =>
              A!Authenticate(c, e) = A!Authenticate(b, eof)
  <1> DEFINE fields(x) == A!parseAIS140(A!Trim(x.line, A!Blank))
             good(x)  == ~(x.eof \/ ~A!isValidChecksum(A!Trim(x.line, A!Blank)))
             login(x) == [out |-> "login", n |-> x.n, id |-> fields(x)[3],
                          replies |-> <<A!buildPacket(<<A!HBT, A!Comma, 49>>) \o <<13, A!Newline>>>>]
             hello(x) == ~(Len(fields(x)) < 3 \/ fields(x)[1] # <<A!HLP>>)
             result(x) == IF x.out = "wait" THEN A!Wait ELSE IF ~good(x) THEN A!Fail
                          ELSE IF ~hello(x) THEN A!Fail ELSE login(x)
             r == A!ReadString(b, eof, A!Newline)
  <1>1. ASSUME NEW s, NEW e PROVE A!Authenticate(s, e) = result(A!ReadString(s, e, A!Newline))
    BY DEF A!Authenticate
  <1>2. ASSUME NEW line, NEW n, n \in 0 .. Len(b)
        PROVE  Bounded(login(FullLine(line, n)), b)
    <2>1. login(FullLine(line, n)).out = "login" /\ login(FullLine(line, n)).n = n
      BY DEF FullLine
    <2>2. IsSeq(login(FullLine(line, n)).replies)
      BY SingletonSeq
    <2> HIDE DEF login
    <2> QED BY <1>2, <2>1, <2>2 DEF Bounded
  <1>3. \A line, n : ~good(LastLine(line, n))
    BY DEF LastLine
  <1>4. Bounded(A!Wait, b) /\ Bounded(A!Fail, b) /\ A!Wait.out = "wait" /\ A!Fail.out = "fail"
    BY DEF Bounded, A!Wait, A!Fail
  <1> HIDE DEF r, good, fields, login, hello
  <1>5. \/ r = A!Wait
        \/ Len(b) # 0 /\ \E line, n : n \in 0 .. Len(b) /\ r = FullLine(line, n)
        \/ r = LastLine(b, Len(b))
    BY Ais140Result DEF r
  <1>6. Bounded(result(r), b) /\ (Len(b) = 0 => result(r).out \in {"wait", "fail"})
    <2>1. CASE r = A!Wait
      BY <1>4, <2>1
    <2>2. CASE Len(b) # 0 /\ \E line, n : n \in 0 .. Len(b) /\ r = FullLine(line, n)
      BY <1>2, <1>4, <2>2
    <2>3. CASE r = LastLine(b, Len(b))
      BY <1>3, <1>4, <2>3
    <2> QED BY <1>5, <2>1, <2>2, <2>3
  <1>7. ASSUME NEW c, NEW e, Stream(c), Prefix(b, c), delims(b, A!Newline) # {}
        PROVE  A!Authenticate(c, e) = A!Authenticate(b, eof)
    <2>1. A!ReadString(c, e, A!Newline) = A!ReadString(b, eof, A!Newline)
      BY <1>7, Ais140LineStable
    <2> HIDE DEF result
    <2> QED BY <1>1, <2>1
  <1> HIDE DEF result
  <1> QED BY <1>1, <1>6, <1>7 DEF r

(* Nothing but the end of the connection has no checksum.                  *)
LEMMA Ais140Nothing ==
  ASSUME NEW b, Stream(b), Len(b) = 0
  PROVE  ~A!isValidChecksum(A!Trim(b, A!Blank))
  <1>1. b = <<>>
    BY DEF Stream
  <1>2. A!Trim(<<>>, A!Blank) = <<>>
    BY DEF A!Trim
  <1>3. A!TrimPrefix(<<>>) = <<>>
    BY DEF A!TrimPrefix, A!Detect
  <1>4. A!LastStar(<<>>) = 0
    BY DEF A!LastStar, A!SelectLastInSeq
  <1> QED BY <1>1, <1>2, <1>3, <1>4 DEF A!isValidChecksum

LEMMA Ais140ParsePacket ==
  ASSUME NEW b, Stream(b), NEW eof
  PROVE  /\ Bounded(A!ParsePacket(b, eof), b)
         /\ Len(b) = 0 => A!ParsePacket(b, eof).out \in {"wait", "fail"}
         /\ \A c, e : Stream(c) /\ Prefix(b, c) /\ delims(b, A!Newline) # {} =>
              A!ParsePacket(c, e) = A!ParsePacket(b, eof)
  <1> DEFINE valid(x) == A!isValidChecksum(A!Trim(x.line, A!Blank))
             fields(x) == A!parseAIS140(A!Trim(x.line, A!Blank))
             taken(x) ==
               CASE fields(x)[1] \in {<<A!NRM>>, <<A!TRP>>, <<A!SOS>>, <<A!EMR>>} ->
                      IF Len(fields(x)) < 9 THEN A!Fail
                      ELSE A!Done(x.n, <<A!parsePosition(fields(x))>>, <<>>)
                 [] fields(x)[1] = <<A!HBT>> -> A!Done(x.n, <<>>, <<>>)
                 [] OTHER -> A!Fail
             result(x) ==
               CASE x.out = "wait" -> A!Wait
                 [] x.out = "line" /\ ~valid(x) -> A!Fail
                 [] OTHER -> taken(x)
             r == A!ReadString(b, eof, A!Newline)
  <1>1. ASSUME NEW s, NEW e PROVE A!ParsePacket(s, e) = result(A!ReadString(s, e, A!Newline))
    BY DEF A!ParsePacket
  <1>2. Bounded(A!Wait, b) /\ Bounded(A!Fail, b) /\ A!Wait.out = "wait" /\ A!Fail.out = "fail"
    BY DEF Bounded, A!Wait, A!Fail
  <1>3. ASSUME NEW x, x.n \in 0 .. Len(b) PROVE Bounded(taken(x), b)
    <2>1. \A recs : Bounded(A!Done(x.n, recs, <<>>), b)
      BY <1>3, NothingSeq DEF Bounded, A!Done
    <2> HIDE DEF fields
    <2> QED BY <1>2, <2>1
  <1>4. \A line, n : /\ FullLine(line, n).out = "line" /\ FullLine(line, n).n = n
                     /\ LastLine(line, n).out = "line" /\ LastLine(line, n).n = n
    BY DEF FullLine, LastLine
  <1>5. Len(b) = 0 => ~valid(LastLine(b, Len(b)))
    BY Ais140Nothing DEF LastLine
  <1>6. Len(b) \in 0 .. Len(b)
    BY StreamAt
  <1> HIDE DEF r, valid, taken
  <1>7. \/ r = A!Wait
        \/ Len(b) # 0 /\ \E line, n : n \in 0 .. Len(b) /\ r = FullLine(line, n)
        \/ r = LastLine(b, Len(b))
    BY Ais140Result DEF r
  <1>8. Bounded(result(r), b) /\ (Len(b) = 0 => result(r).out \in {"wait", "fail"})
    <2>1. CASE r = A!Wait
      BY <1>2, <2>1
    <2>2. CASE Len(b) # 0 /\ \E line, n : n \in 0 .. Len(b) /\ r = FullLine(line, n)
      BY <1>2, <1>3, <1>4, <2>2
    <2>3. CASE r = LastLine(b, Len(b))
      BY <1>2, <1>3, <1>4, <1>5, <1>6, <2>3
    <2> QED BY <1>7, <2>1, <2>2, <2>3
  <1>9. ASSUME NEW c, NEW e, Stream(c), Prefix(b, c), delims(b, A!Newline) # {}
        PROVE  A!ParsePacket(c, e) = A!ParsePacket(b, eof)
    <2>1. A!ReadString(c, e, A!Newline) = A!ReadString(b, eof, A!Newline)
      BY <1>9, Ais140LineStable
    <2> HIDE DEF result
    <2> QED BY <1>1, <2>1
  <1> HIDE DEF result
  <1> QED BY <1>1, <1>8, <1>9 DEF r

-----------------------------------------------------------------------------
(* All handlers.                                                           *)
Handlers == {"jt808", "gt06", "teltonika", "tk103", "ais140"}

(* Authenticate and ParsePacket of every handler, on any bytes whatever:   *)
(* what they report as read is there, and without a byte they only wait    *)
(* or, at the end of the connection, fail.                                 *)
THEOREM HandlersBounded ==
  ASSUME NEW protocol \in Handlers, NEW b, Stream(b), NEW eof
  PROVE  /\ Bounded(Authenticate(protocol, b, eof), b)
         /\ Bounded(ParsePacket(protocol, b, eof), b)
         /\ Len(b) = 0 => /\ Authenticate(protocol, b, eof).out \in {"wait", "fail"}
                          /\ ParsePacket(protocol, b, eof).out \in {"wait", "fail"}
  <1>1. CASE protocol = "jt808"
    BY <1>1, Jt808AuthFirst, Jt808ParsePacket DEF Authenticate, ParsePacket
  <1>2. CASE protocol = "gt06"
    BY <1>2, Gt06Authenticate, Gt06ParsePacket DEF Authenticate, ParsePacket
  <1>3. CASE protocol = "teltonika"
    BY <1>3, TeltonikaAuthenticate, TeltonikaParsePacket DEF Authenticate, ParsePacket
  <1>4. CASE protocol = "tk103"
    BY <1>4, Tk103Authenticate, Tk103ParsePacket DEF Authenticate, ParsePacket
  <1>5. CASE protocol = "ais140"
    BY <1>5, Ais140Authenticate, Ais140ParsePacket DEF Authenticate, ParsePacket
  <1> QED BY <1>1, <1>2, <1>3, <1>4, <1>5 DEF Handlers

(* JT808, GT06 and Teltonika: what a handler has decided about the bytes   *)
(* that have arrived does not change with those that follow, so pipelined  *)
(* packets cannot influence each other.                                    *)
THEOREM BinaryHandlersStable ==
  ASSUME NEW protocol \in Handlers \ Text, NEW b, NEW c, Stream(b), Stream(c), Prefix(b, c),
         NEW eof
  PROVE  /\ Authenticate(protocol, b, eof).out # "wait" =>
              Authenticate(protocol, c, eof) = Authenticate(protocol, b, eof)
         /\ ParsePacket(protocol, b, eof).out # "wait" =>
              ParsePacket(protocol, c, eof) = ParsePacket(protocol, b, eof)
  <1>1. CASE protocol = "jt808"
    BY <1>1, Jt808AuthFirst, Jt808ParsePacket DEF Authenticate, ParsePacket
  <1>2. CASE protocol = "gt06"
    BY <1>2, Gt06Authenticate, Gt06ParsePacket DEF Authenticate, ParsePacket
  <1>3. CASE protocol = "teltonika"
    BY <1>3, TeltonikaAuthenticate, TeltonikaParsePacket DEF Authenticate, ParsePacket
  <1> QED BY <1>1, <1>2, <1>3 DEF Handlers, Text

LEMMA BinaryWaits ==
  ASSUME NEW protocol \in Handlers \ Text, NEW b, Stream(b), Len(b) = 0, NEW eof
  PROVE  /\ Authenticate(protocol, b, eof).out = "wait"
         /\ ParsePacket(protocol, b, eof).out = "wait"
  <1>1. CASE protocol = "jt808"
    BY <1>1, Jt808AuthFirst, Jt808ParsePacket DEF Authenticate, ParsePacket
  <1>2. CASE protocol = "gt06"
    BY <1>2, Gt06Authenticate, Gt06ParsePacket DEF Authenticate, ParsePacket
  <1>3. CASE protocol = "teltonika"
    BY <1>3, TeltonikaAuthenticate, TeltonikaParsePacket DEF Authenticate, ParsePacket
  <1> QED BY <1>1, <1>2, <1>3 DEF Handlers, Text

LEMMA Ais140Stable ==
  ASSUME NEW b, NEW c, Stream(b), Stream(c), Prefix(b, c), delims(b, A!Newline) # {},
         NEW e, NEW eof
  PROVE  /\ Authenticate("ais140", c, eof) = Authenticate("ais140", b, e)
         /\ ParsePacket("ais140", c, eof) = ParsePacket("ais140", b, e)
  BY Ais140Authenticate, Ais140ParsePacket DEF Authenticate, ParsePacket

(* While the connection is open a line reader waits for its first symbol.  *)
LEMMA TextWaits ==
  ASSUME NEW protocol \in Text, NEW b, Stream(b), Len(b) = 0, NEW eof, ~eof
  PROVE  /\ Authenticate(protocol, b, eof).out = "wait"
         /\ ParsePacket(protocol, b, eof).out = "wait"
  <1>1. \A delim : delims(b, delim) = {}
    BY DEF delims
  <1>2. K!ReadString(b, eof, K!Semicolon) = K!Wait
    <2> DEFINE at == 0
               first == SubSeq(b, 1, at)
    <2>1. K!SelectInSeq(b, LAMBDA s : s = K!Semicolon) = at
      BY <1>1 DEF K!SelectInSeq, delims
    <2>2. at = 0
      OBVIOUS
    <2> HIDE DEF at
    <2>3. K!ReadString(b, eof, K!Semicolon) =
            CASE at > 0         -> FullLine(first, at)
              [] at = 0 /\ eof  -> LastLine(b, Len(b))
              [] OTHER          -> K!Wait
      BY <2>1 DEF K!ReadString, FullLine, LastLine
    <2> HIDE DEF first
    <2> QED BY <2>2, <2>3
  <1>3. A!ReadString(b, eof, A!Newline) = A!Wait
    <2>1. delims(b, A!Newline) = {} /\ ~eof
      BY <1>1
    <2> QED BY <2>1, Ais140Line
  <1>4. K!Wait.out = "wait" /\ A!Wait.out = "wait"
    BY DEF K!Wait, A!Wait
  <1>5. K!Authenticate(b, eof) = K!Wait /\ K!ParsePacket(b, eof) = K!Wait
    BY <1>2, <1>4 DEF K!Authenticate, K!ParsePacket
  <1>6. A!Authenticate(b, eof) = A!Wait /\ A!ParsePacket(b, eof) = A!Wait
    BY <1>3, <1>4 DEF A!Authenticate, A!ParsePacket
  <1>7. CASE protocol = "tk103"
    BY <1>4, <1>5, <1>7 DEF Authenticate, ParsePacket
  <1>8. CASE protocol = "ais140"
    BY <1>4, <1>6, <1>8 DEF Authenticate, ParsePacket
  <1> QED BY <1>7, <1>8 DEF Text

(* AIS140's ParsePacket never authenticates.                               *)
LEMMA Ais140Outcome ==
  ASSUME NEW b, NEW eof
  PROVE  ParsePacket("ais140", b, eof).out \in {"wait", "fail", "done"}
  <1> DEFINE x == A!ReadString(b, eof, A!Newline)
             valid == A!isValidChecksum(A!Trim(x.line, A!Blank))
             fields == A!parseAIS140(A!Trim(x.line, A!Blank))
             position == A!Done(x.n, <<A!parsePosition(fields)>>, <<>>)
             heartbeat == A!Done(x.n, <<>>, <<>>)
             kinds == {<<A!NRM>>, <<A!TRP>>, <<A!SOS>>, <<A!EMR>>}
             beat140 == <<A!HBT>>
             r == A!ParsePacket(b, eof)
  <1>1. r = CASE x.out = "wait" -> A!Wait
              [] x.out = "line" /\ ~valid -> A!Fail
              [] OTHER ->
                   CASE fields[1] \in kinds -> IF Len(fields) < 9 THEN A!Fail ELSE position
                     [] fields[1] = beat140 -> heartbeat
                     [] OTHER -> A!Fail
    BY DEF A!ParsePacket
  <1>2. /\ A!Wait.out = "wait" /\ A!Fail.out = "fail"
        /\ position.out = "done" /\ heartbeat.out = "done"
    BY DEF A!Wait, A!Fail, A!Done
  <1>3. ParsePacket("ais140", b, eof) = r
    BY DEF ParsePacket
  <1> HIDE DEF x, valid, fields, position, heartbeat, kinds, beat140, r
  <1>4. r \in {A!Wait, A!Fail, position, heartbeat}
    <2>1. CASE x.out = "wait"
      BY <1>1, <2>1
    <2>2. CASE x.out # "wait" /\ x.out = "line" /\ ~valid
      BY <1>1, <2>2
    <2>3. CASE ~(x.out = "wait") /\ ~(x.out = "line" /\ ~valid)
      BY <1>1, <2>3
    <2> QED BY <2>1, <2>2, <2>3
  <1> QED BY <1>2, <1>3, <1>4
=============================================================================
