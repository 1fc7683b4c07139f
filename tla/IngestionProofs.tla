-------------------------- MODULE IngestionProofs --------------------------
(***************************************************************************)
(* Proofs about Ingestion for any number of connections, devices and       *)
(* records.                                                                *)
(***************************************************************************)
EXTENDS Ingestion, SequenceTheorems, TLAPS

-----------------------------------------------------------------------------
(* Facts about the operators of the module.                                *)

LEMMA PacketType ==
  ASSUME NEW d \in Devices, NEW p \in Packets(d)
  PROVE  p \in Seq(Records) /\ \A i \in 1 .. Len(p) : p[i] \in Records
  <1>1. p \in Seq(Records)
    <2> DEFINE left == {r \in Records : <<d, r>> \notin acked}
    <2>1. CASE p = <<>>
      BY <2>1
    <2>2. ASSUME NEW r \in left, p = <<r>> PROVE p \in Seq(Records)
      BY <2>2
    <2>3. ASSUME NEW q \in left \X left, p = <<q[1], q[2]>> PROVE p \in Seq(Records)
      <3>1. q[1] \in Records /\ q[2] \in Records
        OBVIOUS
      <3> QED BY <2>3, <3>1
    <2> QED BY <2>1, <2>2, <2>3 DEF Packets
  <1> QED BY <1>1

LEMMA MsgIDType ==
  ASSUME NEW n \in Conns, NEW r \in Records
  PROVE  MsgID(n, r) \in Devices \X Records
  BY DeviceAssumption DEF MsgID

LEMMA HeadTail ==
  ASSUME NEW S, NEW s \in Seq(S), s # <<>>
  PROVE  /\ Head(s) \in S /\ Tail(s) \in Seq(S)
         /\ Len(s) = 1 => Tail(s) = <<>>
         /\ \A i \in 1 .. Len(s) :
              s[i] = Head(s) \/ \E j \in 1 .. Len(Tail(s)) : Tail(s)[j] = s[i]
  <1>1. /\ Len(s) \in Nat /\ Len(s) > 0 /\ Head(s) = s[1] /\ Head(s) \in S
        /\ Tail(s) \in Seq(S) /\ Len(Tail(s)) = Len(s) - 1
        /\ \A i \in 1 .. Len(s) - 1 : Tail(s)[i] = s[i + 1]
    BY HeadTailProperties, EmptySeq, LenProperties
  <1>2. Len(s) = 1 => Tail(s) = <<>>
    <2>1. Len(s) = 1 => Len(Tail(s)) = 0
      BY <1>1
    <2> QED BY <1>1, <2>1, EmptySeq
  <1>3. ASSUME NEW i \in 1 .. Len(s), i # 1
        PROVE  \E j \in 1 .. Len(Tail(s)) : Tail(s)[j] = s[i]
    <2>1. i - 1 \in 1 .. Len(s) - 1 /\ (i - 1) + 1 = i
      BY <1>1, <1>3
    <2>2. Tail(s)[i - 1] = s[i]
      BY <1>1, <2>1
    <2> QED BY <1>1, <2>1, <2>2
  <1> QED BY <1>1, <1>2, <1>3

LEMMA StoreType ==
  ASSUME stream \in Seq(Devices \X Records), window \subseteq Devices \X Records,
         NEW id \in Devices \X Records, StoreOnce(id)
  PROVE  stream' \in Seq(Devices \X Records) /\ window' \subseteq Devices \X Records
  BY DEF StoreOnce

(* A publication leaves its message in the stream, which only ever grows,  *)
(* and in the duplicate window.                                            *)
LEMMA StoreGrows ==
  ASSUME stream \in Seq(Devices \X Records), WindowInv,
         NEW id \in Devices \X Records, StoreOnce(id)
  PROVE  /\ Stored(id)'
         /\ \A x : Stored(x) => Stored(x)'
         /\ WindowInv'
         /\ StoredOnce => StoredOnce'
  <1>1. CASE id \in window
    <2>1. stream' = stream /\ window' = window /\ forgotten' = forgotten
      BY <1>1 DEF StoreOnce
    <2>2. Stored(id)
      BY <1>1 DEF WindowInv
    <2> QED BY <2>1, <2>2 DEF Stored, StoredOnce, WindowInv
  <1>2. CASE id \notin window
    <2>1. /\ stream' = Append(stream, id) /\ Len(stream) \in Nat
          /\ window' = window \cup {id} /\ forgotten' = forgotten
      BY <1>2 DEF StoreOnce
    <2>2. /\ stream' \in Seq(Devices \X Records) /\ Len(stream') = Len(stream) + 1
          /\ \A i \in 1 .. Len(stream) : stream'[i] = stream[i]
          /\ stream'[Len(stream) + 1] = id
      BY <2>1
    <2>3. 1 .. Len(stream') = (1 .. Len(stream)) \cup {Len(stream) + 1}
      BY <2>1, <2>2
    <2>4. Stored(id)'
      BY <2>2, <2>3 DEF Stored
    <2>5. \A x : Stored(x) => Stored(x)'
      BY <2>2, <2>3 DEF Stored
    <2>6. WindowInv'
      <3>1. \A x \in window' : Stored(x)'
        BY <2>1, <2>4, <2>5 DEF WindowInv
      <3>2. \A i \in 1 .. Len(stream') : stream'[i] \in window' \cup forgotten'
        BY <2>1, <2>2, <2>3 DEF WindowInv
      <3> QED BY <3>1, <3>2 DEF WindowInv
    <2>7. ASSUME StoredOnce PROVE StoredOnce'
      <3>1. \A i \in 1 .. Len(stream) : stream[i] = id => id \in forgotten
        BY <1>2 DEF WindowInv
      <3>2. \A i \in 1 .. Len(stream) : stream[i] \in Devices \X Records
        OBVIOUS
      <3>3. \A i \in 1 .. Len(stream) :
              stream[i][1] = id[1] /\ stream[i][2] = id[2] => stream[i] = id
        BY <3>2
      <3>4. \A i \in 1 .. Len(stream) :
              stream[i][1] = id[1] /\ stream[i][2] = id[2] =>
                stream[i] \in forgotten /\ id \in forgotten
        BY <3>1, <3>3
      <3> SUFFICES ASSUME NEW i \in 1 .. Len(stream'), NEW j \in 1 .. Len(stream'),
                          stream'[i][1] = stream'[j][1], stream'[i][2] = stream'[j][2], i # j
                   PROVE  stream'[i] \in forgotten
        BY <2>1 DEF StoredOnce
      <3>5. CASE i \in 1 .. Len(stream) /\ j \in 1 .. Len(stream)
        BY <2>2, <2>7, <3>5 DEF StoredOnce
      <3>6. CASE i = Len(stream) + 1 \/ j = Len(stream) + 1
        BY <2>2, <2>3, <3>4, <3>6
      <3> QED BY <2>3, <3>5, <3>6
    <2> QED BY <2>4, <2>5, <2>6, <2>7
  <1> QED BY <1>1, <1>2

-----------------------------------------------------------------------------
(* Type correctness.                                                       *)

LEMMA TypeHandler ==
  ASSUME TypeOK, NEW n \in Conns,
         \/ Accept(n) \/ AuthOK(n) \/ AuthFails(n) \/ Register(n)
         \/ EnterParse(n) \/ LoopReturns(n) \/ ParseFails(n)
         \/ Unregister(n) \/ CloseConn(n)
  PROVE  TypeOK'
  <1> USE DeviceAssumption DEF TypeOK, Goto, Close, Places, procVars, jet, history
  <1>1. CASE Accept(n)
    BY <1>1 DEF Accept
  <1>2. CASE AuthOK(n) \/ AuthFails(n)
    BY <1>2 DEF AuthOK, AuthFails
  <1>3. CASE Register(n)
    <2>1. Device[n] \in Devices
      OBVIOUS
    <2>2. registry' \in [Devices -> Conns \cup {NoConn}] /\ pc' \in [Conns -> Places]
      BY <1>3, <2>1 DEF Register
    <2>3. sock' \in [Conns -> {"none", "open", "closed"}] /\ replaced' \subseteq Conns
      BY <1>3, <2>1 DEF Register
    <2> QED BY <1>3, <2>2, <2>3 DEF Register
  <1>4. CASE EnterParse(n) \/ LoopReturns(n) \/ ParseFails(n)
    BY <1>4 DEF EnterParse, LoopReturns, ParseFails
  <1>5. CASE Unregister(n)
    <2>1. registry' \in [Devices -> Conns \cup {NoConn}] /\ pc' \in [Conns -> Places]
      BY <1>5 DEF Unregister
    <2> QED BY <1>5, <2>1 DEF Unregister
  <1>6. CASE CloseConn(n)
    BY <1>6 DEF CloseConn
  <1> QED BY <1>1, <1>2, <1>3, <1>4, <1>5, <1>6

LEMMA TypeRecords ==
  ASSUME TypeOK, NEW n \in Conns, ParsePacket(n) \/ PublishOK(n) \/ PublishFails(n)
  PROVE  TypeOK'
  <1> USE DeviceAssumption DEF TypeOK, Goto, Places, procVars, jet, history
  <1>1. CASE ParsePacket(n)
    <2>1. Device[n] \in Devices
      OBVIOUS
    <2>2. PICK p \in Packets(Device[n]) :
            /\ Goto(n, "parse", IF p = <<>> THEN "loop" ELSE "publish")
            /\ batch' = [batch EXCEPT ![n] = p]
            /\ AckPacket(Device[n], p)
      BY <1>1, Zenon DEF ParsePacket
    <2>3. p \in Seq(Records) /\ \A i \in 1 .. Len(p) : p[i] \in Records
      BY <2>1, <2>2, PacketType
    <2>4. acked' \subseteq Devices \X Records
      BY <2>1, <2>2, <2>3 DEF AckPacket
    <2>5. batch' \in [Conns -> Seq(Records)] /\ pc' \in [Conns -> Places]
      BY <2>2, <2>3
    <2> QED BY <1>1, <2>4, <2>5 DEF ParsePacket
  <1>2. CASE PublishOK(n)
    <2>1. Head(batch[n]) \in Records /\ Tail(batch[n]) \in Seq(Records)
      BY <1>2, HeadTail DEF PublishOK
    <2>2. /\ stream' \in Seq(Devices \X Records) /\ window' \subseteq Devices \X Records
          /\ forgotten' = forgotten
      BY <1>2, <2>1, MsgIDType, StoreType DEF PublishOK, StoreOnce
    <2>3. batch' \in [Conns -> Seq(Records)] /\ pc' \in [Conns -> Places]
      BY <1>2, <2>1 DEF PublishOK
    <2> QED BY <1>2, <2>2, <2>3 DEF PublishOK
  <1>3. CASE PublishFails(n)
    <2>1. Head(batch[n]) \in Records /\ Tail(batch[n]) \in Seq(Records)
      BY <1>3, HeadTail DEF PublishFails
    <2>2. /\ stream' \in Seq(Devices \X Records) /\ window' \subseteq Devices \X Records
          /\ forgotten' = forgotten
      <3>1. CASE UNCHANGED jet
        BY <3>1
      <3>2. CASE StoreOnce(MsgID(n, Head(batch[n])))
        BY <2>1, <3>2, MsgIDType, StoreType DEF StoreOnce
      <3> QED BY <1>3, <3>1, <3>2 DEF PublishFails
    <2>3. failed' \subseteq Devices \X Records
      BY <1>3, <2>1, MsgIDType DEF PublishFails
    <2>4. batch' \in [Conns -> Seq(Records)] /\ pc' \in [Conns -> Places]
      BY <1>3, <2>1 DEF PublishFails, AfterFailure
    <2> QED BY <1>3, <2>2, <2>3, <2>4 DEF PublishFails
  <1> QED BY <1>1, <1>2, <1>3

LEMMA TypeProcess ==
  ASSUME TypeOK, \/ Shutdown \/ CloseListener \/ ExitDrained \/ ExitTimeout
                 \/ \E id \in window : Forget(id)
  PROVE  TypeOK'
  <1>1. CASE Shutdown \/ CloseListener \/ ExitDrained \/ ExitTimeout
    BY <1>1 DEF TypeOK, Shutdown, CloseListener, ExitDrained, ExitTimeout, jet, history
  <1>2. ASSUME NEW id \in window, Forget(id) PROVE TypeOK'
    BY <1>2 DEF TypeOK, Forget, procVars, history
  <1> QED BY <1>1, <1>2

(* Every reachable state of the registry, the handlers and the stream is   *)
(* well typed; in particular every message id is a device and a timestamp. *)
THEOREM TypeCorrect == Spec => []TypeOK
  <1>1. Init => TypeOK
    <2> SUFFICES ASSUME Init PROVE TypeOK
      OBVIOUS
    <2>1. /\ registry \in [Devices -> Conns \cup {NoConn}]
          /\ pc \in [Conns -> Places] /\ sock \in [Conns -> {"none", "open", "closed"}]
          /\ batch \in [Conns -> Seq(Records)] /\ stream \in Seq(Devices \X Records)
      BY DEF Init, Places
    <2>2. cancelled \in BOOLEAN /\ listening \in BOOLEAN /\ exited \in BOOLEAN
      BY DEF Init
    <2> QED BY <2>1, <2>2 DEF Init, TypeOK
  <1>2. TypeOK /\ [Next]_vars => TypeOK'
    <2> SUFFICES ASSUME TypeOK, [Next]_vars PROVE TypeOK'
      OBVIOUS
    <2>1. CASE UNCHANGED vars
      BY <2>1 DEF TypeOK, vars, procVars, jet, history
    <2>2. CASE Next
      BY <2>2, TypeHandler, TypeRecords, TypeProcess DEF Next
    <2> QED BY <2>1, <2>2
  <1> QED BY <1>1, <1>2, PTL DEF Spec

-----------------------------------------------------------------------------
(* The registry: EntryInv is inductive relative to TypeOK.                 *)

(* A step of n's handler that leaves the registry alone and n usable.      *)
LEMMA EntryFrame ==
  ASSUME TypeOK, EntryInv, NEW n \in Conns, registry' = registry,
         \A m \in Conns \ {n} : pc'[m] = pc[m] /\ sock'[m] = sock[m],
         Usable(n) => Usable(n)',
         pc'[n] \in {"auth", "register"} => sock'[n] = "open"
  PROVE  EntryInv'
  <1>1. \A m \in Conns : Usable(m) => Usable(m)'
    BY DEF Usable
  <1>2. \A d \in Devices : registry[d] # NoConn => registry[d] \in Conns
    BY DEF TypeOK
  <1>3. EntryUsable'
    BY <1>1, <1>2 DEF EntryInv, EntryUsable
  <1>4. \A m \in Conns : pc'[m] \in {"auth", "register"} => sock'[m] = "open"
    BY DEF EntryInv
  <1> QED BY <1>3, <1>4 DEF EntryInv

LEMMA EntryStep ==
  ASSUME TypeOK, EntryInv, NEW n \in Conns,
         \/ Accept(n) \/ AuthOK(n) \/ AuthFails(n) \/ Register(n)
         \/ EnterParse(n) \/ LoopReturns(n) \/ ParsePacket(n) \/ ParseFails(n)
         \/ PublishOK(n) \/ PublishFails(n) \/ Unregister(n) \/ CloseConn(n)
  PROVE  EntryInv'
  <1>1. /\ Device \in [Conns -> Devices] /\ NoConn \notin Conns
        /\ registry \in [Devices -> Conns \cup {NoConn}]
        /\ sock \in [Conns -> {"none", "open", "closed"}]
        /\ pc \in [Conns -> Places]
    BY DeviceAssumption DEF TypeOK
  <1>2. CASE Accept(n)
    BY <1>1, <1>2, EntryFrame DEF Accept, Goto, Usable
  <1>3. CASE AuthOK(n) \/ AuthFails(n)
    BY <1>1, <1>3, EntryFrame DEF AuthOK, AuthFails, Goto, Usable, EntryInv
  <1>4. CASE EnterParse(n) \/ LoopReturns(n) \/ ParseFails(n)
    BY <1>1, <1>4, EntryFrame DEF EnterParse, LoopReturns, ParseFails, Goto, Usable
  <1>5. CASE ParsePacket(n) \/ PublishOK(n) \/ PublishFails(n)
    <2>1. /\ registry' = registry /\ sock' = sock
          /\ \E to \in {"loop", "publish"} : pc' = [pc EXCEPT ![n] = to]
      BY <1>5 DEF ParsePacket, PublishOK, PublishFails, Goto
    <2> QED BY <1>1, <2>1, EntryFrame DEF Usable
  <1>6. CASE Register(n)
    <2> DEFINE d == Device[n]  old == registry[d]
    <2>1. d \in Devices /\ pc[n] = "register" /\ pc' = [pc EXCEPT ![n] = "loop"]
          /\ registry' = [registry EXCEPT ![d] = n]
      BY <1>1, <1>6 DEF Register, Goto
    <2>2. \A m \in Conns : m # old => sock'[m] = sock[m]
      BY <1>1, <1>6 DEF Register, Close
    <2> HIDE DEF d
    <2>3. old # n /\ sock[n] = "open" /\ ~Usable(n)
      BY <1>1, <2>1 DEF EntryInv, EntryUsable, Usable
    <2>4. Usable(n)'
      BY <1>1, <2>1, <2>2, <2>3 DEF Usable
    <2>5. ASSUME NEW e \in Devices, e # d, registry[e] # NoConn
          PROVE  Device[registry[e]] = e /\ Usable(registry[e])'
      <3> DEFINE m == registry[e]
      <3>1. m \in Conns /\ Device[m] = e /\ Usable(m)
        BY <1>1, <2>5 DEF EntryInv, EntryUsable
      <3>2. m # old /\ m # n
        BY <1>1, <2>1, <2>3, <2>5, <3>1 DEF EntryInv, EntryUsable
      <3>3. registry'[e] = registry[e]
        BY <1>1, <2>1, <2>5
      <3> QED BY <1>1, <2>1, <2>2, <3>1, <3>2, <3>3 DEF Usable
    <2>6. EntryUsable'
      BY <1>1, <2>1, <2>4, <2>5 DEF EntryUsable, d
    <2>7. ASSUME NEW m \in Conns, pc'[m] \in {"auth", "register"} PROVE sock'[m] = "open"
      <3>1. m # n /\ pc[m] \in {"auth", "register"}
        BY <1>1, <2>1, <2>7
      <3>2. m # old
        BY <1>1, <2>1, <3>1 DEF EntryInv, EntryUsable, Usable
      <3> QED BY <2>2, <3>1, <3>2 DEF EntryInv
    <2> QED BY <2>6, <2>7 DEF EntryInv
  <1>7. CASE Unregister(n)
    <2>1. /\ sock' = sock /\ pc' = [pc EXCEPT ![n] = "close"]
          /\ registry' = [registry EXCEPT ![Device[n]] = NoConn]
      BY <1>7 DEF Unregister, Goto
    <2>2. ASSUME NEW d \in Devices, registry'[d] # NoConn
          PROVE  Device[registry'[d]] = d /\ Usable(registry[d])'
      <3>1. d # Device[n] /\ registry'[d] = registry[d]
        BY <1>1, <2>1, <2>2
      <3>2. registry[d] \in Conns /\ Device[registry[d]] = d /\ Usable(registry[d])
        BY <1>1, <2>2, <3>1 DEF EntryInv, EntryUsable
      <3>3. registry[d] # n
        BY <3>1, <3>2
      <3> QED BY <1>1, <2>1, <3>1, <3>2, <3>3 DEF Usable
    <2>3. \A m \in Conns : pc'[m] \in {"auth", "register"} => sock'[m] = "open"
      BY <1>1, <2>1 DEF EntryInv
    <2> QED BY <2>2, <2>3 DEF EntryInv, EntryUsable
  <1>8. CASE CloseConn(n)
    BY <1>1, <1>8, EntryFrame DEF CloseConn, Goto, Close, Usable
  <1> QED BY <1>2, <1>3, <1>4, <1>5, <1>6, <1>7, <1>8

(* The registry only holds open connections of the right device whose      *)
(* handler is alive, for any number of devices that reconnect at any time. *)
THEOREM RegistryUsable == Spec => []EntryUsable
  <1>1. Init => EntryInv
    BY DEF Init, EntryInv, EntryUsable
  <1>2. TypeOK /\ EntryInv /\ [Next]_vars => EntryInv'
    <2> SUFFICES ASSUME TypeOK, EntryInv, [Next]_vars PROVE EntryInv'
      OBVIOUS
    <2>1. CASE UNCHANGED vars
      BY <2>1 DEF EntryInv, EntryUsable, Usable, vars
    <2>2. CASE Shutdown \/ CloseListener \/ ExitDrained \/ ExitTimeout
      BY <2>2 DEF EntryInv, EntryUsable, Usable, Shutdown, CloseListener, ExitDrained, ExitTimeout
    <2>3. ASSUME NEW id \in window, Forget(id) PROVE EntryInv'
      BY <2>3 DEF EntryInv, EntryUsable, Usable, Forget
    <2> QED BY <2>1, <2>2, <2>3, EntryStep DEF Next
  <1>3. EntryInv => EntryUsable
    BY DEF EntryInv
  <1> QED BY TypeCorrect, <1>1, <1>2, <1>3, PTL DEF Spec

-----------------------------------------------------------------------------
(* The stream.                                                             *)

LEMMA StreamStep ==
  ASSUME TypeOK, WindowInv, [Next]_vars
  PROVE  /\ WindowInv'
         /\ StoredOnce => StoredOnce'
         /\ \A x : Stored(x) => Stored(x)'
  <1>1. CASE UNCHANGED jet
    BY <1>1 DEF jet, WindowInv, StoredOnce, Stored
  <1>2. ASSUME NEW id \in window, Forget(id) PROVE WindowInv' /\ (StoredOnce => StoredOnce') /\ \A x : Stored(x) => Stored(x)'
    BY <1>2 DEF Forget, WindowInv, StoredOnce, Stored
  <1>3. ASSUME NEW n \in Conns, batch[n] # <<>>, StoreOnce(MsgID(n, Head(batch[n])))
        PROVE  WindowInv' /\ (StoredOnce => StoredOnce') /\ \A x : Stored(x) => Stored(x)'
    <2>1. PICK id \in Devices \X Records : id = MsgID(n, Head(batch[n]))
      BY <1>3, HeadTail, MsgIDType DEF TypeOK
    <2> QED BY <1>3, <2>1, StoreGrows DEF TypeOK
  <1>4. ASSUME NEW n \in Conns, PublishOK(n) \/ PublishFails(n)
        PROVE  UNCHANGED jet \/ (batch[n] # <<>> /\ StoreOnce(MsgID(n, Head(batch[n]))))
    BY <1>4 DEF PublishOK, PublishFails
  <1>5. ASSUME NEW n \in Conns,
               \/ Accept(n) \/ AuthOK(n) \/ AuthFails(n) \/ Register(n)
               \/ EnterParse(n) \/ LoopReturns(n) \/ ParsePacket(n) \/ ParseFails(n)
               \/ Unregister(n) \/ CloseConn(n)
        PROVE  UNCHANGED jet
    BY <1>5 DEF Accept, AuthOK, AuthFails, Register, EnterParse, LoopReturns, ParsePacket,
       ParseFails, Unregister, CloseConn
  <1>6. ASSUME Shutdown \/ CloseListener \/ ExitDrained \/ ExitTimeout \/ UNCHANGED vars
        PROVE  UNCHANGED jet
    BY <1>6 DEF Shutdown, CloseListener, ExitDrained, ExitTimeout, vars
  <1> QED BY <1>1, <1>2, <1>3, <1>4, <1>5, <1>6 DEF Next

LEMMA WindowCorrect == Spec => []WindowInv
  <1>1. Init => WindowInv
    BY DEF Init, WindowInv
  <1>2. TypeOK /\ WindowInv /\ [Next]_vars => WindowInv'
    BY StreamStep
  <1> QED BY TypeCorrect, <1>1, <1>2, PTL DEF Spec

(* However often and on however many connections a record is sent, it is   *)
(* in the stream once, until its id has left the duplicate window.         *)
THEOREM RecordsStoredOnce == Spec => []StoredOnce
  <1>1. Init => StoredOnce
    BY DEF Init, StoredOnce
  <1>2. TypeOK /\ WindowInv /\ StoredOnce /\ [Next]_vars => StoredOnce'
    BY StreamStep
  <1> QED BY TypeCorrect, WindowCorrect, <1>1, <1>2, PTL DEF Spec

-----------------------------------------------------------------------------
(* Loss: LossInv is inductive relative to TypeOK and WindowInv.            *)

LEMMA LossFrame ==
  ASSUME LossIsOwnFailure,
         \A d \in Devices, r \in Records : <<d, r>> \in acked' =>
           <<d, r>> \in acked \/ Waiting(d, r)',
         \A d \in Devices, r \in Records : Stored(<<d, r>>) =>
           Stored(<<d, r>>)',
         failed \subseteq failed',
         \A d \in Devices, r \in Records : Waiting(d, r) =>
           Waiting(d, r)' \/ Stored(<<d, r>>)' \/ <<d, r>> \in failed'
  PROVE  LossIsOwnFailure'
  BY DEF LossIsOwnFailure

(* A step that changes neither what is stored nor what waits.              *)
LEMMA LossStutter ==
  ASSUME LossInv, acked' = acked, failed' = failed, batch' = batch, stream' = stream,
         \A m \in Conns : pc'[m] # "publish" => pc[m] # "publish"
  PROVE  LossInv'
  <1>1. \A d, r : Waiting(d, r) => Waiting(d, r)'
    BY DEF Waiting
  <1>2. \A x : Stored(x) => Stored(x)'
    BY DEF Stored
  <1>3. LossIsOwnFailure'
    BY <1>1, <1>2, LossFrame DEF LossInv
  <1> QED BY <1>3 DEF LossInv

LEMMA LossStep ==
  ASSUME TypeOK, LossInv, NEW n \in Conns,
         \/ Accept(n) \/ AuthOK(n) \/ AuthFails(n) \/ Register(n)
         \/ EnterParse(n) \/ LoopReturns(n) \/ ParseFails(n)
         \/ Unregister(n) \/ CloseConn(n)
  PROVE  LossInv'
  <1>1. /\ acked' = acked /\ failed' = failed /\ batch' = batch /\ stream' = stream
        /\ \E a, b \in Places \ {"publish"} : Goto(n, a, b)
    BY DEF Accept, AuthOK, AuthFails, Register, EnterParse, LoopReturns, ParseFails,
       Unregister, CloseConn, jet, history, Places
  <1>2. \A m \in Conns : pc'[m] # "publish" => pc[m] # "publish"
    BY <1>1 DEF Goto, TypeOK
  <1> QED BY <1>1, <1>2, LossStutter

LEMMA LossParse ==
  ASSUME TypeOK, LossInv, NEW n \in Conns, ParsePacket(n)
  PROVE  LossInv'
  <1> USE DeviceAssumption
  <1>1. PICK p \in Packets(Device[n]) :
          /\ Goto(n, "parse", IF p = <<>> THEN "loop" ELSE "publish")
          /\ batch' = [batch EXCEPT ![n] = p]
          /\ AckPacket(Device[n], p)
    BY Zenon DEF ParsePacket
  <1>2. stream' = stream /\ failed' = failed /\ batch[n] = <<>>
    BY <1>1 DEF ParsePacket, LossInv, Goto, jet
  <1>3. batch'[n] = p /\ \A m \in Conns : m # n => batch'[m] = batch[m]
    BY <1>1 DEF TypeOK
  <1>4. \A m \in Conns : pc'[m] # "publish" => batch'[m] = <<>>
    BY <1>1, <1>3 DEF LossInv, Goto, TypeOK
  <1>5. \A d, r : Waiting(d, r) => Waiting(d, r)'
    BY <1>2, <1>3 DEF Waiting
  <1>6. \A i \in 1 .. Len(p) : Waiting(Device[n], p[i])'
    BY <1>3 DEF Waiting
  <1>7. \A d, r : <<d, r>> \in acked' => <<d, r>> \in acked \/ Waiting(d, r)'
    BY <1>1, <1>6 DEF AckPacket
  <1>8. \A x : Stored(x) => Stored(x)'
    BY <1>2 DEF Stored
  <1>9. LossIsOwnFailure'
    BY <1>2, <1>5, <1>7, <1>8, LossFrame DEF LossInv
  <1> QED BY <1>4, <1>9 DEF LossInv

LEMMA LossPublish ==
  ASSUME TypeOK, WindowInv, LossInv, NEW n \in Conns, PublishOK(n) \/ PublishFails(n)
  PROVE  LossInv'
  <1> USE DeviceAssumption
  <1>1. batch[n] \in Seq(Records) /\ batch[n] # <<>> /\ acked' = acked /\ failed \subseteq failed'
    BY DEF TypeOK, PublishOK, PublishFails, history
  <1>2. batch'[n] = Tail(batch[n]) /\ \A m \in Conns : m # n => batch'[m] = batch[m]
    BY DEF TypeOK, PublishOK, PublishFails, AfterFailure
  <1>3. PICK h \in Records :
          /\ h = Head(batch[n])
          /\ Len(batch[n]) = 1 => Tail(batch[n]) = <<>>
          /\ \A i \in 1 .. Len(batch[n]) : batch[n][i] = h
               \/ \E j \in 1 .. Len(Tail(batch[n])) : Tail(batch[n])[j] = batch[n][i]
    <2> DEFINE s == batch[n]
    <2>1. s \in Seq(Records) /\ s # <<>>
      BY <1>1
    <2> HIDE DEF s
    <2>2. /\ Head(s) \in Records
          /\ Len(s) = 1 => Tail(s) = <<>>
          /\ \A i \in 1 .. Len(s) :
               s[i] = Head(s) \/ \E j \in 1 .. Len(Tail(s)) : Tail(s)[j] = s[i]
      BY ONLY <2>1, HeadTail
    <2>3. \E h \in Records :
            /\ h = Head(s)
            /\ Len(s) = 1 => Tail(s) = <<>>
            /\ \A i \in 1 .. Len(s) : s[i] = h \/ \E j \in 1 .. Len(Tail(s)) : Tail(s)[j] = s[i]
      BY <2>2, Zenon
    <2> QED BY <2>3, Zenon DEF s
  <1>4. PICK id \in Devices \X Records : id = <<Device[n], h>> /\ id = MsgID(n, h)
    BY <1>3 DEF MsgID
  <1>5. Stored(id)' \/ id \in failed'
    <2>1. CASE PublishOK(n)
      <3>1. StoreOnce(id) /\ stream \in Seq(Devices \X Records)
        BY <1>3, <1>4, <2>1 DEF PublishOK, TypeOK
      <3> QED BY <3>1, StoreGrows
    <2>2. CASE PublishFails(n)
      BY <1>3, <1>4, <2>2 DEF PublishFails
    <2> QED BY <2>1, <2>2
  <1>6. \A x : Stored(x) => Stored(x)'
    <2>1. Next
      BY DEF Next
    <2> QED BY <2>1, StreamStep
  <1>7. \A d, r : Waiting(d, r) => Waiting(d, r)' \/ (d = Device[n] /\ r = h)
    <2> SUFFICES ASSUME NEW d, NEW r, Waiting(d, r), ~(d = Device[n] /\ r = h)
                 PROVE  Waiting(d, r)'
      OBVIOUS
    <2>1. PICK m \in Conns : Device[m] = d /\ \E i \in 1 .. Len(batch[m]) : batch[m][i] = r
      BY DEF Waiting
    <2>2. CASE m = n
      <3>1. \E j \in 1 .. Len(batch'[n]) : batch'[n][j] = r
        BY <1>2, <1>3, <2>2, <2>1
      <3> QED BY <2>2, <2>1, <3>1 DEF Waiting
    <2>3. CASE m # n
      BY <1>2, <2>3, <2>1 DEF Waiting
    <2> QED BY <2>2, <2>3
  <1>8. \A m \in Conns : pc'[m] # "publish" => batch'[m] = <<>>
    BY <1>1, <1>2, <1>3 DEF LossInv, TypeOK, PublishOK, PublishFails, AfterFailure, Goto
  <1>9. \A d, r : Waiting(d, r) =>
           Waiting(d, r)' \/ Stored(<<d, r>>)' \/ <<d, r>> \in failed'
    BY <1>4, <1>5, <1>7
  <1>10. LossIsOwnFailure'
    BY <1>1, <1>6, <1>9, LossFrame DEF LossInv
  <1> QED BY <1>8, <1>10 DEF LossInv

(* While the process lives, an acknowledged record is on its way, stored,  *)
(* or its own publication has failed: reconnections, parse errors and the  *)
(* failure of other records never lose it.                                 *)
THEOREM OnlyOwnFailureLoses == Spec => []LossIsOwnFailure
  <1>1. Init => LossInv
    BY DEF Init, LossInv, LossIsOwnFailure
  <1>2. TypeOK /\ WindowInv /\ LossInv /\ [Next]_vars => LossInv'
    <2> SUFFICES ASSUME TypeOK, WindowInv, LossInv, [Next]_vars PROVE LossInv'
      OBVIOUS
    <2>1. CASE UNCHANGED vars
      BY <2>1, LossStutter DEF vars, jet, history
    <2>2. CASE Shutdown \/ CloseListener \/ ExitDrained \/ ExitTimeout
      BY <2>2, LossStutter DEF Shutdown, CloseListener, ExitDrained, ExitTimeout, jet, history
    <2>3. ASSUME NEW id \in window, Forget(id) PROVE LossInv'
      BY <2>3, LossStutter DEF Forget, history
    <2> QED BY <2>1, <2>2, <2>3, LossStep, LossParse, LossPublish DEF Next
  <1>3. LossInv => LossIsOwnFailure
    BY DEF LossInv
  <1> QED BY TypeCorrect, WindowCorrect, <1>1, <1>2, <1>3, PTL DEF Spec

=============================================================================
