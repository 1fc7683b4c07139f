----------------------------- MODULE HubProofs -----------------------------
(***************************************************************************)
(* Proofs about Hub for every set of clients, tenants and devices, every   *)
(* channel capacity and any number of messages.                            *)
(***************************************************************************)
EXTENDS Hub, SequenceTheorems, TLAPS

-----------------------------------------------------------------------------
(* Type correctness: one lemma for each goroutine, one step for each of    *)
(* its actions, one leaf for each part of TypeOK.                          *)

LEMMA TypeInit == Init => TypeOK
  <1> SUFFICES ASSUME Init PROVE TypeOK
    OBVIOUS
  <1> USE CapAssumption DEF Init
  <1>1. HubType      BY DEF HubType
  <1>2. RunType      BY DEF RunType
  <1>3. ClientType   BY DEF ClientType
  <1>4. SendType     BY DEF SendType
  <1>5. ConsumerType
    <2>1. cancelled \in BOOLEAN
      OBVIOUS
    <2>2. published \in Seq(RedisMessage) /\ Len(published) <= MaxPublished
      OBVIOUS
    <2> QED BY <2>1, <2>2 DEF ConsumerType
  <1>6. HistoryType  BY DEF HistoryType
  <1> QED BY <1>1, <1>2, <1>3, <1>4, <1>5, <1>6 DEF TypeOK

LEMMA TypeHandler ==
  ASSUME TypeOK, NEW c \in Clients,
         Register(c) \/ Subscribe(c) \/ ReadFails(c) \/ Unregister(c) \/ CloseConn(c)
  PROVE  TypeOK'
  <1> USE ClientAssumption, CapAssumption
  <1>1. CASE Register(c)
    <2>1. \A f \in Filters(c) : f \in SUBSET Devices
      BY DEF Filters
    <2>2. HubType'
      BY <1>1, <2>1 DEF TypeOK, HubType, Register, Room
    <2>3. ClientType'
      BY <1>1, <2>1 DEF TypeOK, ClientType, Register
    <2>4. (RunType /\ SendType /\ ConsumerType /\ HistoryType)'
      BY <1>1 DEF TypeOK, RunType, SendType, ConsumerType, HistoryType, Register,
         runVars, clientVars, consumerVars, history
    <2> QED BY <2>2, <2>3, <2>4 DEF TypeOK
  <1>2. CASE Subscribe(c)
    <2>1. ClientType'
      BY <1>2 DEF TypeOK, ClientType, Subscribe
    <2>2. (HubType /\ RunType /\ SendType /\ ConsumerType /\ HistoryType)'
      BY <1>2 DEF TypeOK, HubType, RunType, SendType, ConsumerType, HistoryType,
         Subscribe, hubVars, runVars, clientVars, consumerVars, history
    <2> QED BY <2>1, <2>2 DEF TypeOK
  <1>3. CASE ReadFails(c)
    <2>1. ClientType'
      BY <1>3 DEF TypeOK, ClientType, ReadFails
    <2>2. (HubType /\ RunType /\ SendType /\ ConsumerType /\ HistoryType)'
      BY <1>3 DEF TypeOK, HubType, RunType, SendType, ConsumerType, HistoryType,
         ReadFails, hubVars, runVars, clientVars, consumerVars, history
    <2> QED BY <2>1, <2>2 DEF TypeOK
  <1>4. CASE Unregister(c)
    <2>1. HubType'
      BY <1>4 DEF TypeOK, HubType, Unregister, Room
    <2>2. ClientType'
      BY <1>4 DEF TypeOK, ClientType, Unregister
    <2>3. (RunType /\ SendType /\ ConsumerType /\ HistoryType)'
      BY <1>4 DEF TypeOK, RunType, SendType, ConsumerType, HistoryType, Unregister,
         runVars, clientVars, consumerVars, history
    <2> QED BY <2>1, <2>2, <2>3 DEF TypeOK
  <1>5. CASE CloseConn(c)
    <2>1. ClientType'
      BY <1>5 DEF TypeOK, ClientType, CloseConn
    <2>2. (HubType /\ RunType /\ SendType /\ ConsumerType /\ HistoryType)'
      BY <1>5 DEF TypeOK, HubType, RunType, SendType, ConsumerType, HistoryType,
         CloseConn, hubVars, runVars, clientVars, consumerVars, history
    <2> QED BY <2>1, <2>2 DEF TypeOK
  <1> QED BY <1>1, <1>2, <1>3, <1>4, <1>5

LEMMA TypeWritePump ==
  ASSUME TypeOK, NEW c \in Clients,
         WriteMessage(c) \/ WriteFails(c) \/ WriteEnds(c)
  PROVE  TypeOK'
  <1> USE ClientAssumption, CapAssumption
  <1>1. CASE WriteMessage(c)
    <2>1. send[c] \in Seq(Messages) /\ delivered[c] \in Seq(Messages) /\ send[c] # <<>>
      BY <1>1 DEF TypeOK, SendType, HistoryType, WriteMessage
    <2>2. /\ Head(send[c]) \in Messages /\ Tail(send[c]) \in Seq(Messages)
          /\ Len(Tail(send[c])) = Len(send[c]) - 1
      BY <1>1, <2>1, HeadTailProperties
    <2>3. Append(delivered[c], Head(send[c])) \in Seq(Messages)
      BY <1>1, <2>1, <2>2
    <2>4. SendType'
      BY <1>1, <2>1, <2>2, <2>3 DEF TypeOK, SendType, WriteMessage
    <2>5. HistoryType'
      BY <1>1, <2>1, <2>2, <2>3 DEF TypeOK, HistoryType, WriteMessage
    <2>6. (HubType /\ RunType /\ ClientType /\ ConsumerType)'
      BY <1>1 DEF TypeOK, HubType, RunType, ClientType, ConsumerType, WriteMessage,
         hubVars, runVars, clientVars, consumerVars
    <2> QED BY <2>4, <2>5, <2>6 DEF TypeOK
  <1>2. CASE WriteFails(c)
    <2>1. send[c] \in Seq(Messages) /\ send[c] # <<>>
      BY <1>2 DEF TypeOK, SendType, WriteFails
    <2>2. /\ Head(send[c]) \in Messages /\ Tail(send[c]) \in Seq(Messages)
          /\ Len(Tail(send[c])) = Len(send[c]) - 1
      BY <1>2, <2>1, HeadTailProperties
    <2>3. SendType'
      BY <1>2, <2>1, <2>2 DEF TypeOK, SendType, WriteFails
    <2>4. ClientType'
      BY <1>2, <2>1, <2>2 DEF TypeOK, ClientType, WriteFails
    <2>5. (HubType /\ RunType /\ ConsumerType /\ HistoryType)'
      BY <1>2 DEF TypeOK, HubType, RunType, ConsumerType, HistoryType, WriteFails,
         hubVars, runVars, consumerVars, history
    <2> QED BY <2>3, <2>4, <2>5 DEF TypeOK
  <1>3. CASE WriteEnds(c)
    <2>1. ClientType'
      BY <1>3 DEF TypeOK, ClientType, WriteEnds
    <2>2. (HubType /\ RunType /\ SendType /\ ConsumerType /\ HistoryType)'
      BY <1>3 DEF TypeOK, HubType, RunType, SendType, ConsumerType, HistoryType,
         WriteEnds, hubVars, runVars, clientVars, consumerVars, history
    <2> QED BY <2>1, <2>2 DEF TypeOK
  <1> QED BY <1>1, <1>2, <1>3

LEMMA TypeRun ==
  ASSUME TypeOK,
         RunStop \/ RunRegister \/ RunUnregister \/ RunTake \/ RunLoopEnd
  PROVE  TypeOK'
  <1> USE ClientAssumption, CapAssumption
  <1>1. CASE RunStop
    <2>1. RunType'
      BY <1>1 DEF TypeOK, RunType, RunStop
    <2>2. (HubType /\ ClientType /\ SendType /\ ConsumerType /\ HistoryType)'
      BY <1>1 DEF TypeOK, HubType, ClientType, SendType, ConsumerType, HistoryType,
         RunStop, hubVars, clientVars, consumerVars, history
    <2> QED BY <2>1, <2>2 DEF TypeOK
  <1>2. CASE RunRegister
    <2>1. /\ Head(register) \in Clients /\ Tail(register) \in Seq(Clients)
          /\ Len(Tail(register)) = Len(register) - 1
      BY <1>2, HeadTailProperties DEF TypeOK, HubType, RunRegister
    <2>2. HubType'
      BY <1>2, <2>1 DEF TypeOK, HubType, RunRegister
    <2>3. (RunType /\ ClientType /\ SendType /\ ConsumerType /\ HistoryType)'
      BY <1>2 DEF TypeOK, RunType, ClientType, SendType, ConsumerType, HistoryType,
         RunRegister, runVars, clientVars, consumerVars, history
    <2> QED BY <2>2, <2>3 DEF TypeOK
  <1>3. CASE RunUnregister
    <2>1. /\ Head(unregister) \in Clients /\ Tail(unregister) \in Seq(Clients)
          /\ Len(Tail(unregister)) = Len(unregister) - 1
      BY <1>3, HeadTailProperties DEF TypeOK, HubType, RunUnregister
    <2>2. HubType'
      BY <1>3, <2>1 DEF TypeOK, HubType, RunUnregister, RemoveClient, CloseSend
    <2>3. RunType'
      BY <1>3, <2>1 DEF TypeOK, RunType, RunUnregister, RemoveClient, CloseSend
    <2>4. ClientType'
      BY <1>3, <2>1 DEF TypeOK, ClientType, RunUnregister, RemoveClient, CloseSend
    <2>5. (SendType /\ ConsumerType /\ HistoryType)'
      BY <1>3 DEF TypeOK, SendType, ConsumerType, HistoryType, RunUnregister,
         clientVars, consumerVars, history
    <2> QED BY <2>2, <2>3, <2>4, <2>5 DEF TypeOK
  <1>4. CASE RunTake
    <2>1. /\ Head(broadcast) \in Messages /\ Tail(broadcast) \in Seq(Messages)
          /\ Len(Tail(broadcast)) = Len(broadcast) - 1
      BY <1>4, HeadTailProperties DEF TypeOK, HubType, RunTake
    <2>2. \A c \in Clients : Append(due[c], Head(broadcast)) \in Seq(Messages)
      BY <1>4, <2>1 DEF TypeOK, HistoryType
    <2>3. Head(broadcast) # NoMsg
      BY <1>4, <2>1, <2>2 DEF Messages, NoMsg
    <2>4. HubType'
      BY <1>4, <2>1, <2>2, <2>3 DEF TypeOK, HubType, RunTake
    <2>5. RunType'
      BY <1>4, <2>1, <2>2, <2>3 DEF TypeOK, RunType, RunTake, HubType
    <2>6. HistoryType'
      BY <1>4, <2>1, <2>2, <2>3 DEF TypeOK, HistoryType, RunTake
    <2>7. (ClientType /\ SendType /\ ConsumerType)'
      BY <1>4 DEF TypeOK, ClientType, SendType, ConsumerType, RunTake, clientVars,
         consumerVars
    <2> QED BY <2>4, <2>5, <2>6, <2>7 DEF TypeOK
  <1>5. CASE RunLoopEnd
    <2>1. RunType'
      BY <1>5 DEF TypeOK, RunType, RunLoopEnd
    <2>2. (HubType /\ ClientType /\ SendType /\ ConsumerType /\ HistoryType)'
      BY <1>5 DEF TypeOK, HubType, ClientType, SendType, ConsumerType, HistoryType,
         RunLoopEnd, hubVars, clientVars, consumerVars, history
    <2> QED BY <2>1, <2>2 DEF TypeOK
  <1> QED BY <1>1, <1>2, <1>3, <1>4, <1>5

LEMMA TypeLoop ==
  ASSUME TypeOK, NEW c \in Clients,
         RunDeliver(c) \/ DropSend(c)
  PROVE  TypeOK'
  <1> USE ClientAssumption, CapAssumption
  <1>1. CASE RunDeliver(c)
    <2>1. cur \in Messages /\ send[c] \in Seq(Messages)
      BY <1>1 DEF TypeOK, RunType, SendType, RunDeliver
    <2>2. HubType'
      BY <1>1, <2>1 DEF TypeOK, HubType, RunDeliver, Deliver, DropSlow
    <2>3. RunType'
      BY <1>1, <2>1 DEF TypeOK, RunType, RunDeliver, Deliver, DropSlow
    <2>4. ClientType'
      <3>1. CASE UNCHANGED <<send, drops>>
        BY <1>1, <2>1, <3>1 DEF TypeOK, ClientType, RunDeliver
      <3>2. CASE Room(send[c], SendCap) /\ send' = [send EXCEPT ![c] = Append(@,
         cur)] /\ UNCHANGED drops
        BY <1>1, <2>1, <3>2 DEF TypeOK, ClientType, RunDeliver, Room
      <3>3. CASE DropSlow(c)
        BY <1>1, <2>1, <3>3 DEF TypeOK, ClientType, RunDeliver, DropSlow
      <3> QED BY <1>1, <3>1, <3>2, <3>3 DEF RunDeliver, Deliver
    <2>5. SendType'
      <3>1. CASE UNCHANGED <<send, drops>>
        BY <1>1, <2>1, <3>1 DEF TypeOK, SendType, RunDeliver
      <3>2. CASE Room(send[c], SendCap) /\ send' = [send EXCEPT ![c] = Append(@,
         cur)] /\ UNCHANGED drops
        BY <1>1, <2>1, <3>2 DEF TypeOK, SendType, RunDeliver, Room
      <3>3. CASE DropSlow(c)
        BY <1>1, <2>1, <3>3 DEF TypeOK, SendType, RunDeliver, DropSlow
      <3> QED BY <1>1, <3>1, <3>2, <3>3 DEF RunDeliver, Deliver
    <2>6. (ConsumerType /\ HistoryType)'
      BY <1>1 DEF TypeOK, ConsumerType, HistoryType, RunDeliver, consumerVars, history
    <2> QED BY <2>2, <2>3, <2>4, <2>5, <2>6 DEF TypeOK
  <1>2. CASE DropSend(c)
    <2>1. HubType'
      BY <1>2 DEF TypeOK, HubType, DropSend, Room
    <2>2. ClientType'
      BY <1>2 DEF TypeOK, ClientType, DropSend
    <2>3. (RunType /\ SendType /\ ConsumerType /\ HistoryType)'
      BY <1>2 DEF TypeOK, RunType, SendType, ConsumerType, HistoryType, DropSend,
         runVars, clientVars, consumerVars, history
    <2> QED BY <2>1, <2>2, <2>3 DEF TypeOK
  <1> QED BY <1>1, <1>2

LEMMA TypeConsumer ==
  ASSUME TypeOK,
         HandleMessage \/ ConsumerStop \/ Shutdown
  PROVE  TypeOK'
  <1> USE ClientAssumption, CapAssumption
  <1>1. CASE HandleMessage
    <2>1. Len(published) + 1 \in Messages
      BY <1>1 DEF TypeOK, ConsumerType, HandleMessage, Messages
    <2>2. HubType'
      BY <1>1, <2>1 DEF TypeOK, HubType, HandleMessage, Room
    <2>3. ConsumerType'
      BY <1>1, <2>1 DEF TypeOK, ConsumerType, HandleMessage
    <2>4. (RunType /\ ClientType /\ SendType /\ HistoryType)'
      BY <1>1 DEF TypeOK, RunType, ClientType, SendType, HistoryType, HandleMessage,
         runVars, clientVars, history
    <2> QED BY <2>2, <2>3, <2>4 DEF TypeOK
  <1>2. CASE ConsumerStop
    <2>1. ConsumerType'
      BY <1>2 DEF TypeOK, ConsumerType, ConsumerStop
    <2>2. (HubType /\ RunType /\ ClientType /\ SendType /\ HistoryType)'
      BY <1>2 DEF TypeOK, HubType, RunType, ClientType, SendType, HistoryType,
         ConsumerStop, hubVars, runVars, clientVars, history
    <2> QED BY <2>1, <2>2 DEF TypeOK
  <1>3. CASE Shutdown
    <2>1. ConsumerType'
      BY <1>3 DEF TypeOK, ConsumerType, Shutdown
    <2>2. (HubType /\ RunType /\ ClientType /\ SendType /\ HistoryType)'
      BY <1>3 DEF TypeOK, HubType, RunType, ClientType, SendType, HistoryType,
         Shutdown, hubVars, runVars, clientVars, history
    <2> QED BY <2>1, <2>2 DEF TypeOK
  <1> QED BY <1>1, <1>2, <1>3

LEMMA TypeStutter == TypeOK /\ UNCHANGED vars => TypeOK'
  <1> SUFFICES ASSUME TypeOK, UNCHANGED vars PROVE TypeOK'
    OBVIOUS
  <1> USE DEF TypeOK, vars, hubVars, runVars, clientVars, consumerVars, history
  <1>1. HubType'      BY DEF HubType
  <1>2. RunType'      BY DEF RunType
  <1>3. ClientType'   BY DEF ClientType
  <1>4. SendType'     BY DEF SendType
  <1>5. ConsumerType' BY DEF ConsumerType
  <1>6. HistoryType'  BY DEF HistoryType
  <1> QED BY <1>1, <1>2, <1>3, <1>4, <1>5, <1>6

(* Every reachable state of the hub, its pumps and the consumer is well    *)
(* typed; in particular no channel ever holds more than its capacity.      *)
THEOREM TypeCorrect == Spec => []TypeOK
  <1>1. TypeOK /\ [Next]_vars => TypeOK'
    BY TypeHandler, TypeWritePump, TypeRun, TypeLoop, TypeConsumer, TypeStutter
    DEF Next
  <1> QED BY TypeInit, <1>1, PTL DEF Spec

-----------------------------------------------------------------------------
(* The elements of a channel when a value is sent or received.             *)

LEMMA ElemsEmpty == Elems(<<>>) = {} /\ NoDup(<<>>)
  BY DEF Elems, NoDup

LEMMA ElemsAppend ==
  ASSUME NEW S, NEW s \in Seq(S), NEW e \in S
  PROVE  /\ Elems(Append(s, e)) = Elems(s) \cup {e}
         /\ NoDup(s) /\ e \notin Elems(s) => NoDup(Append(s, e))
  <1>1. /\ Len(Append(s, e)) = Len(s) + 1 /\ Len(s) \in Nat
        /\ \A i \in 1 .. Len(s) : Append(s, e)[i] = s[i]
        /\ Append(s, e)[Len(s) + 1] = e
    OBVIOUS
  <1>2. 1 .. Len(s) + 1 = (1 .. Len(s)) \cup {Len(s) + 1}
    BY <1>1
  <1>3. Elems(Append(s, e)) = Elems(s) \cup {e}
    BY <1>1, <1>2 DEF Elems
  <1>4. ASSUME NoDup(s), e \notin Elems(s) PROVE NoDup(Append(s, e))
    BY <1>1, <1>2, <1>4 DEF NoDup, Elems
  <1> QED BY <1>3, <1>4

LEMMA ElemsTail ==
  ASSUME NEW S, NEW s \in Seq(S), s # <<>>
  PROVE  /\ Head(s) \in S /\ Head(s) \in Elems(s)
         /\ Elems(s) = {Head(s)} \cup Elems(Tail(s))
         /\ NoDup(s) => NoDup(Tail(s)) /\ Head(s) \notin Elems(Tail(s))
  <1>1. /\ Len(s) \in Nat /\ Len(s) > 0
        /\ Head(s) = s[1] /\ Head(s) \in S /\ Len(Tail(s)) = Len(s) - 1
        /\ \A i \in 1 .. Len(s) - 1 : Tail(s)[i] = s[i + 1]
    BY HeadTailProperties, EmptySeq, LenProperties
  <1>2. 1 \in 1 .. Len(s) /\ \A i \in 1 .. Len(s) - 1 : i + 1 \in 1 .. Len(s)
    BY <1>1
  <1>3. \A i \in 1 .. Len(s) : i = 1 \/ (i - 1 \in 1 .. Len(s) - 1 /\ (i - 1) + 1 = i)
    BY <1>1
  <1>4. Elems(Tail(s)) \subseteq Elems(s)
    BY <1>1, <1>2 DEF Elems
  <1>5. Elems(s) \subseteq {Head(s)} \cup Elems(Tail(s))
    BY <1>1, <1>3 DEF Elems
  <1>6. Head(s) \in Elems(s)
    BY <1>1, <1>2 DEF Elems
  <1>7. ASSUME NoDup(s) PROVE NoDup(Tail(s)) /\ Head(s) \notin Elems(Tail(s))
    <2>1. NoDup(Tail(s))
      BY <1>1, <1>2, <1>7 DEF NoDup
    <2>2. Head(s) \notin Elems(Tail(s))
      BY <1>1, <1>2, <1>7 DEF NoDup, Elems
    <2> QED BY <2>1, <2>2
  <1> QED BY <1>1, <1>4, <1>5, <1>6, <1>7

-----------------------------------------------------------------------------
(* No panic: ChannelInv is inductive.                                      *)

LEMMA ChannelInit == Init => ChannelInv
  BY ElemsEmpty DEF Init, ChannelInv

LEMMA ChannelClient ==
  ASSUME TypeOK, ChannelInv, NEW c \in Clients,
         \/ Register(c) \/ Subscribe(c) \/ ReadFails(c) \/ Unregister(c) \/ CloseConn(c)
         \/ WriteMessage(c) \/ WriteFails(c) \/ WriteEnds(c)
         \/ RunDeliver(c) \/ DropSend(c)
  PROVE  ChannelInv'
  <1> USE DEF TypeOK, HubType, RunType, ClientType
  <1>1. CASE Register(c)
    <2>1. c \notin Elems(register) /\ c \notin clients
      BY <1>1 DEF ChannelInv, Register
    <2>2. Elems(register') = Elems(register) \cup {c} /\ NoDup(register')
      BY <1>1, <2>1, ElemsAppend DEF ChannelInv, Register
    <2> QED
      BY <1>1, <2>1, <2>2 DEF ChannelInv, Register, runVars
  <1>2. CASE Subscribe(c)
    BY <1>2 DEF ChannelInv, Subscribe, hubVars, runVars
  <1>3. CASE ReadFails(c)
    BY <1>3 DEF ChannelInv, ReadFails, hubVars, runVars
  <1>4. CASE Unregister(c)
    BY <1>4 DEF ChannelInv, Unregister, runVars
  <1>8. CASE CloseConn(c)
    BY <1>8 DEF ChannelInv, CloseConn, hubVars, runVars
  <1>5. CASE WriteMessage(c) \/ WriteFails(c) \/ WriteEnds(c)
    BY <1>5 DEF ChannelInv, WriteMessage, WriteFails, WriteEnds, hubVars, runVars
  <1>6. CASE RunDeliver(c)
    <2>1. chan[c] = "open"
      BY <1>6 DEF ChannelInv, RunDeliver
    <2>2. run' = run
      BY <1>6, <2>1 DEF RunDeliver, Deliver, DropSlow
    <2> QED
      BY <1>6, <2>2 DEF ChannelInv, RunDeliver
  <1>7. CASE DropSend(c)
    BY <1>7 DEF ChannelInv, DropSend, runVars
  <1> QED BY <1>1, <1>2, <1>3, <1>4, <1>5, <1>6, <1>7, <1>8

LEMMA ChannelRun ==
  ASSUME TypeOK, ChannelInv,
         \/ RunStop \/ RunRegister \/ RunUnregister \/ RunTake \/ RunLoopEnd
         \/ HandleMessage \/ ConsumerStop \/ Shutdown
  PROVE  ChannelInv'
  <1> USE DEF TypeOK, HubType, RunType, ClientType
  <1>1. CASE RunStop
    BY <1>1 DEF ChannelInv, RunStop, hubVars, clientVars
  <1>2. CASE RunRegister
    <2>1. /\ Head(register) \in Elems(register)
          /\ Elems(register') \subseteq Elems(register)
          /\ Head(register) \notin Elems(register')
          /\ NoDup(register')
      BY <1>2, ElemsTail DEF ChannelInv, RunRegister
    <2> QED
      BY <1>2, <2>1 DEF ChannelInv, RunRegister, runVars, clientVars
  <1>3. CASE RunUnregister
    <2>1. Head(unregister) \in Clients
      BY <1>3, ElemsTail DEF RunUnregister
    <2>2. todo = {} /\ todo' = {} /\ run' = run
      BY <1>3 DEF ChannelInv, RunUnregister, RemoveClient, CloseSend
    <2>3. CASE Head(unregister) \in clients
      <3> DEFINE h == Head(unregister)
      <3>1. /\ clients' = clients \ {h} /\ chan' = [chan EXCEPT ![h] = "closed"]
            /\ UNCHANGED <<register, pc>>
        BY <1>3, <2>3 DEF RunUnregister, RemoveClient, CloseSend
      <3>2. \A d \in Clients : d # h => chan'[d] = chan[d]
        BY <2>1, <3>1
      <3>3. h \notin Elems(register) /\ Elems(register) \subseteq Clients
        BY <2>3 DEF ChannelInv, Elems
      <3>4. pc[h] # "new"
        BY <2>1, <2>3 DEF ChannelInv
      <3> QED
        BY <2>1, <2>2, <2>3, <3>1, <3>2, <3>3, <3>4, <1>3 DEF ChannelInv, RunUnregister
    <2>4. CASE Head(unregister) \notin clients
      BY <1>3, <2>1, <2>2, <2>4 DEF ChannelInv, RunUnregister, RemoveClient
    <2> QED BY <2>3, <2>4
  <1>4. CASE RunTake
    BY <1>4 DEF ChannelInv, RunTake, clientVars
  <1>5. CASE RunLoopEnd
    BY <1>5 DEF ChannelInv, RunLoopEnd, hubVars, clientVars
  <1>6. CASE HandleMessage
    BY <1>6 DEF ChannelInv, HandleMessage, runVars, clientVars
  <1>7. CASE ConsumerStop \/ Shutdown
    BY <1>7 DEF ChannelInv, ConsumerStop, Shutdown, hubVars, runVars, clientVars
  <1> QED BY <1>1, <1>2, <1>3, <1>4, <1>5, <1>6, <1>7

LEMMA HubChannels == Spec => []ChannelInv
  <1>1. TypeOK /\ ChannelInv /\ [Next]_vars => ChannelInv'
    <2> SUFFICES ASSUME TypeOK, ChannelInv, [Next]_vars PROVE ChannelInv'
      OBVIOUS
    <2>1. CASE UNCHANGED vars
      BY <2>1 DEF ChannelInv, vars, hubVars, runVars, clientVars
    <2>2. CASE Next
      BY <2>2, ChannelClient, ChannelRun DEF Next
    <2> QED BY <2>1, <2>2
  <1> QED BY TypeCorrect, ChannelInit, <1>1, PTL DEF Spec

(* Run never sends on a closed channel and never closes one twice, however *)
(* many unregister requests a client gets and whenever they come.          *)
THEOREM HubNeverPanics == Spec => []NoPanic
  <1>1. ChannelInv => NoPanic
    BY DEF ChannelInv, NoPanic
  <1> QED BY HubChannels, <1>1, PTL

-----------------------------------------------------------------------------
(* Exact delivery: FeedInv is inductive relative to TypeOK and ChannelInv. *)

LEMMA MoveHead ==
  ASSUME NEW S, NEW s \in Seq(S), NEW t \in Seq(S), t # <<>>
  PROVE  Append(s, Head(t)) \o Tail(t) = s \o t
  <1>1. /\ Head(t) \in S /\ Tail(t) \in Seq(S) /\ Len(t) \in Nat /\ Len(t) > 0
        /\ Len(Tail(t)) = Len(t) - 1 /\ Head(t) = t[1] /\ Len(s) \in Nat
        /\ \A i \in 1 .. Len(t) - 1 : Tail(t)[i] = t[i + 1]
    BY HeadTailProperties, EmptySeq, LenProperties
  <1> DEFINE a == Append(s, Head(t))
  <1>2. /\ a \in Seq(S) /\ Len(a) = Len(s) + 1
        /\ \A i \in 1 .. Len(s) : a[i] = s[i]
        /\ a[Len(s) + 1] = t[1]
    BY <1>1
  <1> HIDE DEF a
  <1>3. /\ a \o Tail(t) \in Seq(S) /\ Len(a \o Tail(t)) = Len(s) + Len(t)
        /\ \A i \in 1 .. Len(s) + Len(t) : (a \o Tail(t))[i] =
             IF i <= Len(s) + 1 THEN a[i] ELSE Tail(t)[i - (Len(s) + 1)]
    <2>1. /\ a \o Tail(t) \in Seq(S) /\ Len(a \o Tail(t)) = Len(a) + Len(Tail(t))
          /\ \A i \in 1 .. Len(a) + Len(Tail(t)) : (a \o Tail(t))[i] =
               IF i <= Len(a) THEN a[i] ELSE Tail(t)[i - Len(a)]
      BY <1>1, <1>2, ConcatProperties
    <2>2. Len(a) = Len(s) + 1 /\ Len(a) + Len(Tail(t)) = Len(s) + Len(t)
      BY <1>1, <1>2
    <2> QED BY <2>1, <2>2
  <1>4. /\ s \o t \in Seq(S) /\ Len(s \o t) = Len(s) + Len(t)
        /\ \A i \in 1 .. Len(s) + Len(t) : (s \o t)[i] =
             IF i <= Len(s) THEN s[i] ELSE t[i - Len(s)]
    BY ConcatProperties
  <1>5. ASSUME NEW i \in 1 .. Len(s) + Len(t) PROVE (a \o Tail(t))[i] = (s \o t)[i]
    <2>1. CASE i <= Len(s)
      BY <1>1, <1>2, <1>3, <1>4, <2>1
    <2>2. CASE i = Len(s) + 1
      BY <1>1, <1>2, <1>3, <1>4, <2>2
    <2>3. CASE i > Len(s) + 1
      <3> DEFINE k == i - (Len(s) + 1)
      <3>1. k \in 1 .. Len(t) - 1 /\ i - Len(s) = k + 1
        BY <1>1, <2>3
      <3>2. (a \o Tail(t))[i] = Tail(t)[k] /\ (s \o t)[i] = t[i - Len(s)]
        BY <1>1, <1>3, <1>4, <2>3
      <3> HIDE DEF k
      <3>3. Tail(t)[k] = t[k + 1]
        BY <1>1, <3>1
      <3> QED BY <3>1, <3>2, <3>3
    <2>4. i \in Nat /\ Len(s) \in Nat
      BY <1>1
    <2>5. i <= Len(s) \/ i = Len(s) + 1 \/ i > Len(s) + 1
      BY <2>4
    <2> QED BY <2>1, <2>2, <2>3, <2>5
  <1> QED BY <1>3, <1>4, <1>5, SeqEqual DEF a

LEMMA AppendConcat ==
  ASSUME NEW S, NEW t \in Seq(S), NEW e \in S
  PROVE  <<e>> \in Seq(S) /\ Append(t, e) = t \o <<e>>
  <1>1. <<e>> \in Seq(S) /\ Append(t, e) \in Seq(S) /\ Len(<<e>>) = 1 /\ <<e>>[1] = e
    OBVIOUS
  <1>2. /\ t \o <<e>> \in Seq(S) /\ Len(t \o <<e>>) = Len(t) + 1
        /\ \A i \in 1 .. Len(t) + 1 : (t \o <<e>>)[i] =
             IF i <= Len(t) THEN t[i] ELSE <<e>>[i - Len(t)]
    BY <1>1, ConcatProperties
  <1>3. /\ Len(Append(t, e)) = Len(t) + 1 /\ Len(t) \in Nat
        /\ \A i \in 1 .. Len(t) : Append(t, e)[i] = t[i]
        /\ Append(t, e)[Len(t) + 1] = e
    OBVIOUS
  <1>4. \A i \in 1 .. Len(t) + 1 : Append(t, e)[i] = (t \o <<e>>)[i]
    BY <1>1, <1>2, <1>3
  <1> QED BY <1>1, <1>2, <1>3, <1>4, SeqEqual

LEMMA AppendLast ==
  ASSUME NEW S, NEW s \in Seq(S), NEW t \in Seq(S), NEW e \in S, NEW u, u = <<e>>
  PROVE  s \o Append(t, e) \in Seq(S) /\ s \o Append(t, e) = (s \o t) \o u
  <1>1. u \in Seq(S) /\ Append(t, e) \in Seq(S) /\ Append(t, e) = t \o u
    BY AppendConcat
  <1> QED BY <1>1, ConcatAssociative, ConcatProperties

(* A client that is not in the map yet.                                    *)
LEMMA FreshOutside ==
  ASSUME ChannelInv, NEW d \in Clients, pc[d] = "new" \/ d \in Elems(register)
  PROVE  d \notin clients /\ d \notin todo
  BY DEF ChannelInv

LEMMA MsgStep ==
  ASSUME TypeOK, ChannelInv, MsgInv, Next
  PROVE  MsgInv'
  <1> USE DEF TypeOK, HubType, RunType
  <1>1. CASE RunTake
    <2>1. Head(broadcast) \in Elems(broadcast) /\ Elems(Tail(broadcast)) \subseteq Elems(broadcast)
      BY <1>1, ElemsTail DEF RunTake
    <2> QED BY <1>1, <2>1 DEF MsgInv, RunTake, consumerVars
  <1>2. CASE HandleMessage
    <2>1. Len(published) \in Nat /\ Len(published') = Len(published) + 1
      BY <1>2 DEF HandleMessage, ConsumerType
    <2>2. Len(published) + 1 \in Messages
      BY <1>2, <2>1, CapAssumption DEF HandleMessage, Messages
    <2>3. Elems(broadcast') = Elems(broadcast) \cup {Len(published) + 1}
      BY <1>2, <2>2, ElemsAppend DEF HandleMessage
    <2>4. 1 .. Len(published') = (1 .. Len(published)) \cup {Len(published) + 1}
      BY <2>1
    <2> QED BY <1>2, <2>3, <2>4 DEF MsgInv, HandleMessage, runVars
  <1>3. CASE RunStop \/ RunRegister \/ RunUnregister \/ RunLoopEnd \/ ConsumerStop \/ Shutdown
    BY <1>3 DEF MsgInv, RunStop, RunRegister, RunUnregister, RemoveClient, CloseSend,
       RunLoopEnd, ConsumerStop, Shutdown, hubVars, runVars, consumerVars
  <1>4. ASSUME NEW c \in Clients, RunDeliver(c) PROVE MsgInv'
    BY <1>4 DEF MsgInv, RunDeliver, Deliver, DropSlow, consumerVars
  <1>5. ASSUME NEW c \in Clients,
               \/ DropSend(c) \/ Register(c) \/ Subscribe(c) \/ ReadFails(c) \/ Unregister(c) \/ CloseConn(c)
               \/ WriteMessage(c) \/ WriteFails(c) \/ WriteEnds(c)
        PROVE  MsgInv'
    BY <1>5 DEF MsgInv, DropSend, Register, Subscribe, ReadFails, Unregister, CloseConn,
       WriteMessage, WriteFails, WriteEnds, hubVars, runVars, consumerVars
  <1> QED BY <1>1, <1>2, <1>3, <1>4, <1>5 DEF Next

LEMMA FreshStep ==
  ASSUME TypeOK, ChannelInv, FreshInv, Next
  PROVE  FreshInv'
  <1> USE DEF TypeOK, HubType, RunType, ClientType, SendType, HistoryType
  <1> SUFFICES ASSUME NEW d \in Clients, (pc[d] = "new" \/ d \in Elems(register))'
               PROVE  (send[d] = <<>> /\ delivered[d] = <<>> /\ due[d] = <<>>)'
    BY DEF FreshInv
  <1>1. pc[d] = "new" \/ d \in Elems(register)
    <2>1. CASE RunRegister
      BY <2>1, ElemsTail DEF RunRegister, clientVars
    <2>2. ASSUME NEW c \in Clients, Register(c) PROVE pc[d] = "new" \/ d \in Elems(register)
      BY <2>2, ElemsAppend DEF Register
    <2>3. ASSUME NEW c \in Clients,
                 \/ RunDeliver(c) \/ DropSend(c) \/ Subscribe(c) \/ ReadFails(c) \/ Unregister(c) \/ CloseConn(c)
                 \/ WriteMessage(c) \/ WriteFails(c) \/ WriteEnds(c)
          PROVE  pc[d] = "new" \/ d \in Elems(register)
      BY <2>3 DEF RunDeliver, DropSend, Subscribe, ReadFails, Unregister, CloseConn,
         WriteMessage, WriteFails, WriteEnds, hubVars
    <2>4. CASE RunStop \/ RunUnregister \/ RunTake \/ RunLoopEnd
               \/ HandleMessage \/ ConsumerStop \/ Shutdown
      BY <2>4 DEF RunStop, RunUnregister, RunTake, RunLoopEnd, HandleMessage,
         ConsumerStop, Shutdown, hubVars, clientVars
    <2> QED BY <2>1, <2>2, <2>3, <2>4 DEF Next
  <1>2. send[d] = <<>> /\ delivered[d] = <<>> /\ due[d] = <<>>
    BY <1>1 DEF FreshInv
  <1>3. d \notin clients /\ d \notin todo
    BY <1>1, FreshOutside
  <1>4. send'[d] = send[d] /\ delivered'[d] = delivered[d] /\ due'[d] = due[d]
    <2>1. ASSUME NEW c \in Clients, WriteMessage(c) \/ WriteFails(c) \/ RunDeliver(c)
          PROVE  send'[d] = send[d] /\ delivered'[d] = delivered[d] /\ due'[d] = due[d]
      BY <1>2, <1>3, <2>1 DEF WriteMessage, WriteFails, RunDeliver, Deliver, DropSlow, history
    <2>2. CASE RunTake
      BY <1>3, <2>2 DEF RunTake, clientVars
    <2>3. ASSUME NEW c \in Clients,
                 \/ DropSend(c) \/ Register(c) \/ Subscribe(c) \/ ReadFails(c)
                 \/ Unregister(c) \/ CloseConn(c) \/ WriteEnds(c)
          PROVE  send'[d] = send[d] /\ delivered'[d] = delivered[d] /\ due'[d] = due[d]
      BY <2>3 DEF DropSend, Register, Subscribe, ReadFails, Unregister, CloseConn, WriteEnds, history
    <2>4. CASE RunStop \/ RunRegister \/ RunUnregister \/ RunLoopEnd
               \/ HandleMessage \/ ConsumerStop \/ Shutdown
      BY <2>4 DEF RunStop, RunRegister, RunUnregister, RunLoopEnd, HandleMessage,
         ConsumerStop, Shutdown, clientVars, history
    <2> QED BY <2>1, <2>2, <2>3, <2>4 DEF Next
  <1> QED BY <1>2, <1>4

(* A step that leaves d's feed and what the loop owes d alone, and does    *)
(* not make d healthy, preserves FeedExact for d.                          *)
LEMMA FeedFrame ==
  ASSUME FeedExact, NEW d \in Clients, Healthy(d)' => Healthy(d),
         send'[d] = send[d], delivered'[d] = delivered[d], due'[d] = due[d],
         Owed(d)' = Owed(d)
  PROVE  (Healthy(d) => Feed(d) \o Owed(d) = due[d])'
  BY DEF FeedExact, Feed

LEMMA FeedClient ==
  ASSUME TypeOK, ChannelInv, FeedInv, NEW d \in Clients, NEW c \in Clients,
         \/ Register(c) \/ Subscribe(c) \/ ReadFails(c) \/ Unregister(c) \/ CloseConn(c)
         \/ WriteMessage(c) \/ WriteFails(c) \/ WriteEnds(c) \/ DropSend(c)
  PROVE  (Healthy(d) => Feed(d) \o Owed(d) = due[d])'
  <1> USE DEF TypeOK, HubType, RunType, ClientType, SendType, HistoryType
  <1>1. CASE Register(c)
    <2>1. CASE d = c
      BY <1>1, <2>1, FreshOutside DEF Register, Healthy
    <2>2. CASE d # c
      <3>1. Healthy(d)' => Healthy(d)
        BY <1>1, <2>2 DEF Register, Healthy
      <3>2. Owed(d)' = Owed(d)
        BY <1>1, <2>2 DEF Register, Owed, Matches, MsgTenant, HubTenant, runVars, consumerVars
      <3> QED BY <1>1, <3>1, <3>2, FeedFrame DEF FeedInv, Register, history
    <2> QED BY <2>1, <2>2
  <1>2. CASE Subscribe(c)
    <2>1. todo = {} /\ todo' = {}
      BY <1>2 DEF ChannelInv, Subscribe, MuFree, runVars
    <2>2. Owed(d)' = Owed(d)
      BY <2>1 DEF Owed
    <2>3. Healthy(d)' => Healthy(d)
      BY <1>2 DEF Subscribe, Healthy, hubVars
    <2> QED BY <1>2, <2>2, <2>3, FeedFrame DEF FeedInv, Subscribe, history
  <1>3. CASE ReadFails(c) \/ CloseConn(c)
    <2>1. Healthy(d)' => Healthy(d)
      BY <1>3 DEF ReadFails, CloseConn, Healthy, hubVars
    <2>2. Owed(d)' = Owed(d)
      BY <1>3 DEF ReadFails, CloseConn, Owed, Matches, MsgTenant, HubTenant, runVars, consumerVars
    <2> QED BY <1>3, <2>1, <2>2, FeedFrame DEF FeedInv, ReadFails, CloseConn, history
  <1>4. CASE Unregister(c)
    <2>1. Elems(unregister) \subseteq Elems(unregister')
      BY <1>4, ElemsAppend DEF Unregister
    <2>2. Healthy(d)' => Healthy(d)
      BY <1>4, <2>1 DEF Unregister, Healthy
    <2>3. Owed(d)' = Owed(d)
      BY <1>4 DEF Unregister, Owed, Matches, MsgTenant, HubTenant, runVars, consumerVars
    <2> QED BY <1>4, <2>2, <2>3, FeedFrame DEF FeedInv, Unregister, history
  <1>5. CASE WriteMessage(c)
    <2>1. Healthy(d)' => Healthy(d)
      BY <1>5 DEF WriteMessage, Healthy, hubVars
    <2>2. Owed(d)' = Owed(d)
      BY <1>5 DEF WriteMessage, Owed, Matches, MsgTenant, HubTenant, runVars, consumerVars
    <2>3. CASE d = c
      <3>1. /\ Feed(d)' = Append(delivered[d], Head(send[d])) \o Tail(send[d])
            /\ due'[d] = due[d] /\ send[d] # <<>>
        BY <1>5, <2>3 DEF WriteMessage, Feed
      <3>2. delivered[d] \in Seq(Messages) /\ send[d] \in Seq(Messages)
        OBVIOUS
      <3>3. Append(delivered[d], Head(send[d])) \o Tail(send[d]) = delivered[d] \o send[d]
        BY ONLY <3>1, <3>2, MoveHead
      <3>4. Feed(d)' = Feed(d)
        BY <3>1, <3>3 DEF Feed
      <3> QED BY <2>1, <2>2, <3>1, <3>4 DEF FeedInv, FeedExact
    <2>4. CASE d # c
      BY <1>5, <2>1, <2>2, <2>4, FeedFrame DEF FeedInv, WriteMessage
    <2> QED BY <2>3, <2>4
  <1>6. CASE WriteFails(c) \/ WriteEnds(c)
    <2>1. CASE d = c
      BY <1>6, <2>1 DEF WriteFails, WriteEnds, Healthy
    <2>2. CASE d # c
      <3>1. Healthy(d)' => Healthy(d)
        BY <1>6, <2>2 DEF WriteFails, WriteEnds, Healthy, hubVars
      <3>2. Owed(d)' = Owed(d)
        BY <1>6 DEF WriteFails, WriteEnds, Owed, Matches, MsgTenant, HubTenant, runVars, consumerVars
      <3> QED BY <1>6, <2>2, <3>1, <3>2, FeedFrame DEF FeedInv, WriteFails, WriteEnds, history
    <2> QED BY <2>1, <2>2
  <1>7. CASE DropSend(c)
    <2>1. Elems(unregister') = Elems(unregister) \cup {c}
      BY <1>7, ElemsAppend DEF DropSend
    <2>2. Healthy(d)' => Healthy(d)
      BY <1>7, <2>1 DEF DropSend, Healthy
    <2>3. Owed(d)' = Owed(d)
      BY <1>7 DEF DropSend, Owed, Matches, MsgTenant, HubTenant, runVars, consumerVars
    <2> QED BY <1>7, <2>2, <2>3, FeedFrame DEF FeedInv, DropSend, history
  <1> QED BY <1>1, <1>2, <1>3, <1>4, <1>5, <1>6, <1>7

LEMMA FeedDeliver ==
  ASSUME TypeOK, ChannelInv, FeedInv, NEW d \in Clients, NEW c \in Clients, RunDeliver(c)
  PROVE  (Healthy(d) => Feed(d) \o Owed(d) = due[d])'
  <1> USE DEF TypeOK, HubType, RunType, ClientType, SendType, HistoryType
  <1>1. /\ chan[c] = "open" /\ c \in todo /\ todo' = todo \ {c} /\ run = "broadcast"
        /\ due' = due /\ delivered' = delivered /\ clients' = clients /\ wp' = wp
        /\ cur' = cur /\ devices' = devices /\ published' = published
    BY DEF ChannelInv, RunDeliver, consumerVars, history
  <1>2. cur \in Messages /\ unregister' = unregister
    BY <1>1 DEF RunDeliver, Deliver, DropSlow
  <1>3. \A e \in Clients : Matches(e, cur)' <=> Matches(e, cur)
    BY <1>1 DEF Matches, MsgTenant, HubTenant
  <1>4. CASE d # c
    <2>1. send'[d] = send[d] /\ drops'[d] = drops[d]
      BY <1>1, <1>4 DEF RunDeliver, Deliver, DropSlow
    <2>2. Owed(d)' = Owed(d)
      BY <1>1, <1>3, <1>4 DEF Owed
    <2>3. Healthy(d)' => Healthy(d)
      BY <1>1, <1>2, <2>1 DEF Healthy
    <2> QED BY <1>1, <2>1, <2>2, <2>3, FeedFrame DEF FeedInv
  <1>5. CASE d = c /\ ~Matches(c, cur)
    <2>1. send' = send /\ drops' = drops
      BY <1>5 DEF RunDeliver
    <2>2. Owed(d)' = Owed(d)
      BY <1>1, <1>5 DEF Owed
    <2>3. Healthy(d)' => Healthy(d)
      BY <1>1, <1>2, <2>1 DEF Healthy
    <2> QED BY <1>1, <2>1, <2>2, <2>3, FeedFrame DEF FeedInv
  <1>6. CASE d = c /\ Matches(c, cur) /\ Room(send[c], SendCap)
    <2>1. send'[d] = Append(send[d], cur) /\ drops' = drops
      BY <1>1, <1>6 DEF RunDeliver, Deliver
    <2>2. Owed(d) = <<cur>> /\ Owed(d)' = <<>>
      BY <1>1, <1>6 DEF Owed
    <2>3. Feed(d)' \o Owed(d)' = Feed(d) \o Owed(d)
      <3>1. delivered[d] \in Seq(Messages) /\ send[d] \in Seq(Messages) /\ cur \in Messages
        BY <1>2
      <3> DEFINE s == delivered[d]  t == send[d]  u == Owed(d)
      <3>2. /\ s \o Append(t, cur) \in Seq(Messages)
            /\ s \o Append(t, cur) = (s \o t) \o u
        <4>1. s \in Seq(Messages) /\ t \in Seq(Messages) /\ u = <<cur>>
          BY <2>2, <3>1
        <4> HIDE DEF s, t, u
        <4> QED BY ONLY <3>1, <4>1, AppendLast
      <3>3. Feed(d)' = s \o Append(t, cur) /\ Feed(d) = s \o t
        BY <1>1, <2>1 DEF Feed
      <3>4. (s \o Append(t, cur)) \o <<>> = s \o Append(t, cur)
        BY ONLY <3>2, ConcatEmptySeq
      <3> QED BY ONLY <2>2, <3>2, <3>3, <3>4
    <2>4. Healthy(d)' => Healthy(d)
      BY <1>1, <1>2, <2>1 DEF Healthy
    <2> QED BY <1>1, <2>3, <2>4 DEF FeedInv, FeedExact
  <1>7. CASE d = c /\ Matches(c, cur) /\ ~Room(send[c], SendCap)
    <2>1. drops'[d] = drops[d] + 1 /\ drops[d] \in Nat
      BY <1>1, <1>7 DEF RunDeliver, Deliver, DropSlow
    <2>2. drops'[d] # 0
      BY <2>1
    <2> QED BY <2>2 DEF Healthy
  <1> QED BY <1>4, <1>5, <1>6, <1>7

LEMMA FeedRun ==
  ASSUME TypeOK, ChannelInv, FeedInv, NEW d \in Clients,
         \/ RunStop \/ RunRegister \/ RunUnregister \/ RunTake \/ RunLoopEnd
         \/ HandleMessage \/ ConsumerStop \/ Shutdown
  PROVE  (Healthy(d) => Feed(d) \o Owed(d) = due[d])'
  <1> USE DEF TypeOK, HubType, RunType, ClientType, SendType, HistoryType
  <1>1. CASE RunStop \/ RunLoopEnd
    <2>1. Healthy(d)' => Healthy(d)
      BY <1>1 DEF RunStop, RunLoopEnd, Healthy, hubVars, clientVars
    <2>2. todo = {} /\ todo' = {}
      BY <1>1 DEF ChannelInv, RunStop, RunLoopEnd
    <2>3. Owed(d)' = Owed(d)
      BY <2>2 DEF Owed
    <2> QED BY <1>1, <2>1, <2>3, FeedFrame DEF FeedInv, RunStop, RunLoopEnd, clientVars, history
  <1>2. CASE RunRegister
    <2>1. todo = {} /\ todo' = {}
      BY <1>2 DEF ChannelInv, RunRegister, runVars
    <2>2. Owed(d) = <<>> /\ Owed(d)' = <<>>
      BY <2>1 DEF Owed
    <2>3. send' = send /\ delivered' = delivered /\ due' = due
      BY <1>2 DEF RunRegister, clientVars, history
    <2>4. CASE d = Head(register)
      <3>1. d \in Elems(register)
        BY <1>2, <2>4, ElemsTail DEF RunRegister
      <3>2. send[d] = <<>> /\ delivered[d] = <<>> /\ due[d] = <<>>
        BY <3>1 DEF FeedInv, FreshInv
      <3>3. (<<>> \o <<>>) \o <<>> = <<>>
        BY ConcatEmptySeq, EmptySeq
      <3> QED BY <2>2, <2>3, <3>2, <3>3 DEF Feed
    <2>5. CASE d # Head(register)
      <3>1. Healthy(d)' => Healthy(d)
        BY <1>2, <2>5 DEF RunRegister, Healthy, clientVars
      <3> QED BY <2>2, <2>3, <3>1, FeedFrame DEF FeedInv
    <2> QED BY <2>4, <2>5
  <1>3. CASE RunUnregister
    <2>1. todo = {} /\ todo' = {}
      BY <1>3 DEF ChannelInv, RunUnregister
    <2>2. Owed(d) = <<>> /\ Owed(d)' = <<>>
      BY <2>1 DEF Owed
    <2>3. Elems(unregister) = {Head(unregister)} \cup Elems(unregister')
      BY <1>3, ElemsTail DEF RunUnregister
    <2>4. Head(unregister) \notin clients' /\ clients' \subseteq clients
      BY <1>3 DEF RunUnregister, RemoveClient
    <2>5. Healthy(d)' => Healthy(d)
      BY <1>3, <2>3, <2>4 DEF RunUnregister, Healthy
    <2> QED BY <1>3, <2>2, <2>5, FeedFrame DEF FeedInv, RunUnregister, history
  <1>4. CASE RunTake
    <2> DEFINE m == Head(broadcast)
    <2>1. m \in Messages
      BY <1>4, ElemsTail DEF RunTake
    <2>2. Owed(d) = <<>>
      BY <1>4 DEF ChannelInv, RunTake, Owed
    <2>3. /\ todo' = clients /\ cur' = m /\ clients' = clients /\ wp' = wp /\ drops' = drops
          /\ unregister' = unregister /\ send' = send /\ delivered' = delivered
          /\ devices' = devices /\ published' = published
          /\ due'[d] = IF d \in clients /\ Matches(d, m) THEN Append(due[d], m) ELSE due[d]
      BY <1>4 DEF RunTake, clientVars, consumerVars
    <2>4. Owed(d)' = IF d \in clients /\ Matches(d, m) THEN <<m>> ELSE <<>>
      BY <2>3 DEF Owed, Matches, MsgTenant, HubTenant
    <2> SUFFICES ASSUME Healthy(d)' PROVE (Feed(d) \o Owed(d) = due[d])'
      OBVIOUS
    <2>5. Healthy(d)
      BY <2>3 DEF Healthy
    <2>6. Feed(d) \in Seq(Messages) /\ Feed(d)' = Feed(d)
      BY <2>3, ConcatProperties DEF Feed
    <2>7. Feed(d) = due[d]
      BY <2>2, <2>5, <2>6, ConcatEmptySeq DEF FeedInv, FeedExact
    <2> HIDE DEF m
    <2>8. CASE d \in clients /\ Matches(d, m)
      BY <2>1, <2>3, <2>4, <2>6, <2>7, <2>8, AppendConcat
    <2>9. CASE ~(d \in clients /\ Matches(d, m))
      BY <2>3, <2>4, <2>6, <2>7, <2>9, ConcatEmptySeq
    <2> QED BY <2>8, <2>9
  <1>5. CASE HandleMessage
    <2>1. Healthy(d)' => Healthy(d)
      BY <1>5 DEF HandleMessage, Healthy, clientVars
    <2>2. Owed(d)' = Owed(d)
      <3>1. CASE d \in todo
        <4>1. cur \in 1 .. Len(published)
          BY <3>1 DEF ChannelInv, FeedInv, MsgInv
        <4>2. published'[cur] = published[cur]
          BY <1>5, <4>1 DEF HandleMessage, ConsumerType
        <4> QED BY <1>5, <4>2 DEF HandleMessage, Owed, Matches, MsgTenant, HubTenant,
                   runVars, clientVars
      <3>2. CASE d \notin todo
        BY <1>5, <3>2 DEF HandleMessage, Owed, runVars
      <3> QED BY <3>1, <3>2
    <2> QED BY <1>5, <2>1, <2>2, FeedFrame DEF FeedInv, HandleMessage, clientVars, history
  <1>6. CASE ConsumerStop \/ Shutdown
    <2>1. Healthy(d)' => Healthy(d)
      BY <1>6 DEF ConsumerStop, Shutdown, Healthy, hubVars, clientVars
    <2>2. Owed(d)' = Owed(d)
      BY <1>6 DEF ConsumerStop, Shutdown, Owed, Matches, MsgTenant, HubTenant, runVars, clientVars
    <2> QED BY <1>6, <2>1, <2>2, FeedFrame
            DEF FeedInv, ConsumerStop, Shutdown, clientVars, history
  <1> QED BY <1>1, <1>2, <1>3, <1>4, <1>5, <1>6

(* A client nobody has asked to remove holds exactly what it was           *)
(* subscribed to, for any number of clients and any channel capacities:    *)
(* a message that finds a full buffer always costs the client its place.   *)
THEOREM HubFeedExact == Spec => []FeedExact
  <1>1. Init => FeedInv
    BY ElemsEmpty DEF Init, FeedInv, MsgInv, FreshInv, FeedExact, Healthy
  <1>2. TypeOK /\ ChannelInv /\ FeedInv /\ [Next]_vars => FeedInv'
    <2> SUFFICES ASSUME TypeOK, ChannelInv, FeedInv, [Next]_vars PROVE FeedInv'
      OBVIOUS
    <2>1. CASE UNCHANGED vars
      BY <2>1 DEF FeedInv, MsgInv, FreshInv, FeedExact, Healthy, Feed, Owed, Matches,
         MsgTenant, HubTenant, vars, hubVars, runVars, clientVars, consumerVars, history
    <2>2. CASE Next
      <3>1. MsgInv' /\ FreshInv'
        BY <2>2, MsgStep, FreshStep DEF FeedInv
      <3>2. ASSUME NEW d \in Clients
            PROVE  (Healthy(d) => Feed(d) \o Owed(d) = due[d])'
        BY <2>2, FeedClient, FeedDeliver, FeedRun DEF Next
      <3>3. FeedExact'
        BY <3>2 DEF FeedExact
      <3> QED BY <3>1, <3>3 DEF FeedInv
    <2> QED BY <2>1, <2>2
  <1>3. FeedInv => FeedExact
    BY DEF FeedInv
  <1> QED BY TypeCorrect, HubChannels, <1>1, <1>2, <1>3, PTL DEF Spec

-----------------------------------------------------------------------------
(* Sound delivery: what any client has received is in order and was due.   *)

Rising(s) == \A i, j \in 1 .. Len(s) : i < j => s[i] < s[j]

(* The number of messages Run has taken.  The channel holds the ones that  *)
(* follow, the loop works on the last one taken, and a client has received *)
(* none but those before, once each.                                       *)
Taken == Len(published) - Len(broadcast)

QueueInv ==
  /\ Taken \in Nat
  /\ \A i \in 1 .. Len(broadcast) : broadcast[i] = Taken + i
  /\ run = "broadcast" => cur = Taken

ReceivedInv(c) ==
  /\ Rising(Feed(c)) /\ Elems(Feed(c)) \subseteq Elems(due[c])
  /\ \A x \in Elems(Feed(c)) : x <= Taken /\ (c \in todo => x < cur)
  /\ c \in todo /\ Matches(c, cur) => cur \in Elems(due[c])

SoundInv == QueueInv /\ \A c \in Clients : ReceivedInv(c)

LEMMA RisingAppend ==
  ASSUME NEW s \in Seq(Messages), NEW e \in Messages, Rising(s), \A x \in Elems(s) : x < e
  PROVE  Rising(Append(s, e))
  <1>1. /\ Len(Append(s, e)) = Len(s) + 1 /\ Len(s) \in Nat
        /\ \A i \in 1 .. Len(s) : Append(s, e)[i] = s[i] /\ s[i] < e
        /\ Append(s, e)[Len(s) + 1] = e
    BY DEF Elems
  <1> SUFFICES ASSUME NEW i \in 1 .. Len(s) + 1, NEW j \in 1 .. Len(s) + 1, i < j
               PROVE  Append(s, e)[i] < Append(s, e)[j]
    BY <1>1 DEF Rising
  <1>2. i \in 1 .. Len(s)
    BY <1>1
  <1>3. CASE j = Len(s) + 1
    BY <1>1, <1>2, <1>3
  <1>4. CASE j # Len(s) + 1
    <2>1. j \in 1 .. Len(s)
      BY <1>1, <1>4
    <2> QED BY <1>1, <1>2, <2>1 DEF Rising
  <1> QED BY <1>3, <1>4

(* A message lost between two others leaves the rest in order.             *)
LEMMA RisingWithout ==
  ASSUME NEW s \in Seq(Messages), NEW t \in Seq(Messages), t # <<>>, Rising(s \o t)
  PROVE  Rising(s \o Tail(t)) /\ Elems(s \o Tail(t)) \subseteq Elems(s \o t)
  <1> DEFINE n == Len(s)  k == Len(t)  a == s \o t  b == s \o Tail(t)
  <1>1. /\ Tail(t) \in Seq(Messages) /\ k \in Nat /\ k > 0 /\ n \in Nat
        /\ Len(Tail(t)) = k - 1 /\ \A i \in 1 .. k - 1 : Tail(t)[i] = t[i + 1]
    BY HeadTailProperties, EmptySeq, LenProperties
  <1>2. Len(a) = n + k /\ \A i \in 1 .. n + k : a[i] = IF i <= n THEN s[i] ELSE t[i - n]
    BY ConcatProperties
  <1>3. /\ Len(b) = n + (k - 1)
        /\ \A i \in 1 .. n + (k - 1) : b[i] = IF i <= n THEN s[i] ELSE Tail(t)[i - n]
    BY <1>1, ConcatProperties
  <1> HIDE DEF a, b, n, k
  <1> DEFINE f(i) == IF i <= n THEN i ELSE i + 1
  <1>4. ASSUME NEW i \in 1 .. Len(b) PROVE f(i) \in 1 .. Len(a) /\ b[i] = a[f(i)]
    <2>1. i \in Nat /\ i \in 1 .. n + (k - 1) /\ i <= n + (k - 1) /\ i >= 1
      BY <1>1, <1>3
    <2>2. CASE i <= n
      <3>1. i \in 1 .. n + k
        BY <1>1, <2>1
      <3> QED BY <1>2, <1>3, <2>1, <2>2, <3>1
    <2>3. CASE ~(i <= n)
      <3>1. i + 1 \in 1 .. n + k /\ i - n \in 1 .. k - 1 /\ (i + 1) - n = (i - n) + 1 /\ ~(i + 1 <= n)
        BY <1>1, <2>1, <2>3
      <3>2. b[i] = Tail(t)[i - n] /\ a[i + 1] = t[(i + 1) - n]
        BY <1>2, <1>3, <2>1, <2>3, <3>1
      <3>3. Tail(t)[i - n] = t[(i - n) + 1]
        BY <1>1, <3>1
      <3> QED BY <1>2, <2>3, <3>1, <3>2, <3>3
    <2> QED BY <2>2, <2>3
  <1>5. ASSUME NEW i \in 1 .. Len(b), NEW j \in 1 .. Len(b), i < j PROVE f(i) < f(j)
    BY <1>1, <1>3, <1>5
  <1> HIDE DEF f
  <1>6. Rising(a)
    BY DEF a
  <1>7. Rising(b)
    BY <1>4, <1>5, <1>6 DEF Rising
  <1>8. Elems(b) \subseteq Elems(a)
    BY <1>4 DEF Elems
  <1> QED BY <1>7, <1>8 DEF a, b

LEMMA QueueStep ==
  ASSUME TypeOK, ChannelInv, QueueInv, Next
  PROVE  QueueInv'
  <1> USE DEF TypeOK, HubType, RunType, ConsumerType
  <1>1. Len(published) \in Nat /\ Len(broadcast) \in Nat /\ Taken \in Nat
        /\ Len(published) = Taken + Len(broadcast)
    BY DEF QueueInv, Taken
  <1>2. ASSUME UNCHANGED <<published, broadcast>>, run' = "broadcast" => run = "broadcast" /\ cur' = cur
        PROVE  QueueInv'
    BY <1>2 DEF QueueInv, Taken
  <1>3. CASE RunTake
    <2>1. /\ broadcast # <<>> /\ broadcast' = Tail(broadcast) /\ cur' = Head(broadcast)
          /\ published' = published
      BY <1>3 DEF RunTake, consumerVars
    <2>2. /\ Len(broadcast) > 0 /\ Head(broadcast) = broadcast[1]
          /\ Len(broadcast') = Len(broadcast) - 1
          /\ \A i \in 1 .. Len(broadcast) - 1 : broadcast'[i] = broadcast[i + 1]
      BY <2>1, HeadTailProperties, EmptySeq, LenProperties
    <2>3. Taken' = Taken + 1 /\ 1 \in 1 .. Len(broadcast)
      BY <1>1, <2>1, <2>2 DEF Taken
    <2>4. cur' = Taken'
      BY <2>1, <2>2, <2>3 DEF QueueInv
    <2>5. ASSUME NEW i \in 1 .. Len(broadcast') PROVE broadcast'[i] = Taken' + i
      <3>1. i \in 1 .. Len(broadcast) - 1 /\ i + 1 \in 1 .. Len(broadcast)
        BY <1>1, <2>2
      <3>2. broadcast'[i] = Taken + (i + 1)
        BY <2>2, <3>1 DEF QueueInv
      <3> QED BY <1>1, <2>3, <3>1, <3>2
    <2> QED BY <1>1, <2>3, <2>4, <2>5 DEF QueueInv
  <1>4. CASE HandleMessage
    <2>1. /\ Len(published') = Len(published) + 1 /\ run' = run /\ cur' = cur
          /\ broadcast' = Append(broadcast, Len(published) + 1)
      BY <1>4 DEF HandleMessage, runVars
    <2>2. /\ Len(broadcast') = Len(broadcast) + 1
          /\ \A i \in 1 .. Len(broadcast) : broadcast'[i] = broadcast[i]
          /\ broadcast'[Len(broadcast) + 1] = Len(published) + 1
      BY <2>1
    <2>3. Taken' = Taken
      BY <1>1, <2>1, <2>2 DEF Taken
    <2>4. ASSUME NEW i \in 1 .. Len(broadcast') PROVE broadcast'[i] = Taken + i
      <3>1. i \in 1 .. Len(broadcast) \/ i = Len(broadcast) + 1
        BY <1>1, <2>2
      <3>2. CASE i \in 1 .. Len(broadcast)
        BY <2>2, <3>2 DEF QueueInv
      <3>3. CASE i = Len(broadcast) + 1
        BY <1>1, <2>2, <3>3
      <3> QED BY <3>1, <3>2, <3>3
    <2> QED BY <1>1, <2>1, <2>3, <2>4 DEF QueueInv
  <1>5. CASE RunStop \/ RunRegister \/ RunUnregister \/ RunLoopEnd \/ ConsumerStop \/ Shutdown
    BY <1>2, <1>5 DEF RunStop, RunRegister, RunUnregister, RemoveClient, CloseSend,
       RunLoopEnd, ConsumerStop, Shutdown, hubVars, runVars, consumerVars
  <1>6. ASSUME NEW c \in Clients, RunDeliver(c) PROVE QueueInv'
    BY <1>2, <1>6 DEF RunDeliver, Deliver, DropSlow, consumerVars
  <1>7. ASSUME NEW c \in Clients,
               \/ DropSend(c) \/ Register(c) \/ Subscribe(c) \/ ReadFails(c) \/ Unregister(c) \/ CloseConn(c)
               \/ WriteMessage(c) \/ WriteFails(c) \/ WriteEnds(c)
        PROVE  QueueInv'
    BY <1>2, <1>7 DEF DropSend, Register, Subscribe, ReadFails, Unregister, CloseConn,
       WriteMessage, WriteFails, WriteEnds, hubVars, runVars, consumerVars
  <1> QED BY <1>3, <1>4, <1>5, <1>6, <1>7 DEF Next

(* A step that adds nothing to what d has received, and leaves alone what  *)
(* the loop may still offer it.                                            *)
LEMMA ReceivedFrame ==
  ASSUME NEW d \in Clients, ReceivedInv(d), Taken' = Taken, due'[d] = due[d],
         Rising(Feed(d)'), Elems(Feed(d)') \subseteq Elems(Feed(d)),
         d \in todo' => d \in todo /\ cur' = cur /\ (Matches(d, cur)' => Matches(d, cur))
  PROVE  ReceivedInv(d)'
  <1>1. Elems(Feed(d))' = Elems(Feed(d)') /\ Rising(Feed(d))' <=> Rising(Feed(d)')
    BY DEF Elems, Rising
  <1>2. Elems(due[d])' = Elems(due[d])
    BY DEF Elems
  <1> QED BY <1>1, <1>2 DEF ReceivedInv

LEMMA ReceivedSame ==
  ASSUME NEW d \in Clients, ReceivedInv(d), UNCHANGED <<published, broadcast>>,
         due'[d] = due[d], Feed(d)' = Feed(d),
         d \in todo' => d \in todo /\ cur' = cur /\ devices'[d] = devices[d]
  PROVE  ReceivedInv(d)'
  <1>1. Taken' = Taken
    BY DEF Taken
  <1>2. Rising(Feed(d)') /\ Elems(Feed(d)') \subseteq Elems(Feed(d))
    BY DEF ReceivedInv
  <1>3. d \in todo' => (Matches(d, cur)' => Matches(d, cur))
    BY DEF Matches, MsgTenant, HubTenant
  <1> QED BY <1>1, <1>2, <1>3, ReceivedFrame

LEMMA ReceivedClient ==
  ASSUME TypeOK, ChannelInv, NEW d \in Clients, ReceivedInv(d), NEW c \in Clients,
         \/ Register(c) \/ Subscribe(c) \/ ReadFails(c) \/ Unregister(c) \/ CloseConn(c)
         \/ WriteMessage(c) \/ WriteFails(c) \/ WriteEnds(c) \/ DropSend(c)
  PROVE  ReceivedInv(d)'
  <1> USE DEF TypeOK, HubType, RunType, ClientType, SendType, HistoryType
  <1>1. UNCHANGED <<published, broadcast, todo, cur, due>>
    BY DEF Register, Subscribe, ReadFails, Unregister, CloseConn, WriteMessage, WriteFails, WriteEnds,
       DropSend, hubVars, runVars, consumerVars, history
  <1>2. d \in todo => devices'[d] = devices[d]
    <2>1. CASE Register(c)
      BY <2>1, FreshOutside DEF Register
    <2>2. CASE Subscribe(c)
      BY <2>2 DEF Subscribe, MuFree, ChannelInv
    <2> QED BY <2>1, <2>2 DEF ReadFails, Unregister, CloseConn, WriteMessage, WriteFails, WriteEnds, DropSend
  <1>3. CASE WriteMessage(c) /\ d = c
    <2>1. /\ Feed(d)' = Append(delivered[d], Head(send[d])) \o Tail(send[d]) /\ send[d] # <<>>
      BY <1>3 DEF WriteMessage, Feed
    <2>2. delivered[d] \in Seq(Messages) /\ send[d] \in Seq(Messages)
      OBVIOUS
    <2>3. Append(delivered[d], Head(send[d])) \o Tail(send[d]) = delivered[d] \o send[d]
      BY ONLY <2>1, <2>2, MoveHead
    <2>4. Feed(d)' = Feed(d)
      BY <2>1, <2>3 DEF Feed
    <2> QED BY <1>1, <1>2, <2>4, ReceivedSame
  <1>4. CASE WriteFails(c) /\ d = c
    <2>1. Feed(d)' = delivered[d] \o Tail(send[d]) /\ send[d] # <<>>
      BY <1>4 DEF WriteFails, Feed, history
    <2>2. delivered[d] \in Seq(Messages) /\ send[d] \in Seq(Messages)
      OBVIOUS
    <2>3. Rising(delivered[d] \o send[d])
      BY DEF ReceivedInv, Feed
    <2>4. /\ Rising(delivered[d] \o Tail(send[d]))
          /\ Elems(delivered[d] \o Tail(send[d])) \subseteq Elems(delivered[d] \o send[d])
      BY ONLY <2>1, <2>2, <2>3, RisingWithout
    <2>5. Rising(Feed(d)') /\ Elems(Feed(d)') \subseteq Elems(Feed(d))
      BY <2>1, <2>4 DEF Feed
    <2>6. Taken' = Taken /\ (d \in todo' => (Matches(d, cur)' => Matches(d, cur)))
      BY <1>1, <1>2 DEF Taken, Matches, MsgTenant, HubTenant
    <2> QED BY <1>1, <2>5, <2>6, ReceivedFrame
  <1>5. CASE ~((WriteMessage(c) \/ WriteFails(c)) /\ d = c)
    <2>1. send'[d] = send[d] /\ delivered'[d] = delivered[d]
      BY <1>5 DEF Register, Subscribe, ReadFails, Unregister, CloseConn, WriteMessage, WriteFails, WriteEnds,
         DropSend, history
    <2>2. Feed(d)' = Feed(d)
      BY <2>1 DEF Feed
    <2> QED BY <1>1, <1>2, <2>2, ReceivedSame
  <1> QED BY <1>3, <1>4, <1>5

LEMMA ReceivedDeliver ==
  ASSUME TypeOK, ChannelInv, QueueInv, NEW d \in Clients, ReceivedInv(d),
         NEW c \in Clients, RunDeliver(c)
  PROVE  ReceivedInv(d)'
  <1> USE DEF TypeOK, HubType, RunType, ClientType, SendType, HistoryType
  <1>1. /\ run = "broadcast" /\ c \in todo /\ todo' = todo \ {c}
        /\ UNCHANGED <<published, broadcast, cur, devices, due, delivered>>
    BY DEF RunDeliver, consumerVars, history
  <1>2. CASE send'[d] = send[d]
    <2>1. Feed(d)' = Feed(d)
      BY <1>1, <1>2 DEF Feed
    <2> QED BY <1>1, <2>1, ReceivedSame
  <1>3. CASE send'[d] # send[d]
    <2>1. d = c /\ Matches(d, cur) /\ send'[d] = Append(send[d], cur)
      BY <1>3 DEF RunDeliver, Deliver, DropSlow
    <2>2. cur \in Messages /\ cur = Taken /\ d \notin todo'
      BY <1>1, <2>1 DEF QueueInv
    <2>3. /\ Feed(d) \in Seq(Messages) /\ Feed(d)' = Append(Feed(d), cur)
      <3>1. delivered[d] \in Seq(Messages) /\ send[d] \in Seq(Messages)
        OBVIOUS
      <3>2. Feed(d)' = delivered[d] \o Append(send[d], cur) /\ Feed(d) = delivered[d] \o send[d]
        BY <1>1, <2>1 DEF Feed
      <3>3. Feed(d) \in Seq(Messages)
        BY ONLY <3>1, <3>2, ConcatProperties
      <3>4. delivered[d] \o Append(send[d], cur) = (delivered[d] \o send[d]) \o <<cur>>
        <4> DEFINE x == delivered[d]  y == send[d]  u == <<cur>>
        <4>1. x \in Seq(Messages) /\ y \in Seq(Messages) /\ cur \in Messages /\ u = <<cur>>
          BY ONLY <2>2, <3>1
        <4> HIDE DEF x, y, u
        <4>2. x \o Append(y, cur) = (x \o y) \o u
          BY ONLY <4>1, AppendLast
        <4> QED BY ONLY <4>2 DEF x, y, u
      <3>5. Append(Feed(d), cur) = Feed(d) \o <<cur>>
        BY ONLY <2>2, <3>3, AppendConcat
      <3> QED BY ONLY <3>2, <3>3, <3>4, <3>5
    <2>4. Rising(Feed(d)') /\ Elems(Feed(d)') = Elems(Feed(d)) \cup {cur}
      <3>1. Rising(Feed(d)) /\ \A x \in Elems(Feed(d)) : x < cur
        BY <1>1, <2>1 DEF ReceivedInv
      <3>2. Rising(Append(Feed(d), cur))
        BY ONLY <2>2, <2>3, <3>1, RisingAppend
      <3>3. Elems(Append(Feed(d), cur)) = Elems(Feed(d)) \cup {cur}
        BY ONLY <2>2, <2>3, ElemsAppend
      <3> QED BY ONLY <2>3, <3>2, <3>3
    <2>5. Taken' = Taken /\ Taken \in Nat
      BY <1>1 DEF Taken, QueueInv
    <2>6. Elems(Feed(d))' = Elems(Feed(d)') /\ Rising(Feed(d))' <=> Rising(Feed(d)')
      BY DEF Elems, Rising
    <2>7. Elems(due[d])' = Elems(due[d]) /\ cur \in Elems(due[d])
      BY <1>1, <2>1 DEF Elems, ReceivedInv
    <2> QED BY <2>2, <2>4, <2>5, <2>6, <2>7 DEF ReceivedInv
  <1> QED BY <1>2, <1>3

LEMMA ReceivedRun ==
  ASSUME TypeOK, ChannelInv, MsgInv, QueueInv, NEW d \in Clients, ReceivedInv(d),
         \/ RunStop \/ RunRegister \/ RunUnregister \/ RunTake \/ RunLoopEnd
         \/ HandleMessage \/ ConsumerStop \/ Shutdown
  PROVE  ReceivedInv(d)'
  <1> USE DEF TypeOK, HubType, RunType, ClientType, SendType, HistoryType
  <1>1. Feed(d)' = Feed(d)
    BY DEF RunStop, RunRegister, RunUnregister, RunTake, RunLoopEnd, HandleMessage, ConsumerStop,
       Shutdown, clientVars, history, Feed
  <1>2. CASE RunStop \/ RunRegister \/ RunUnregister \/ RunLoopEnd
    <2>1. todo' = {} /\ UNCHANGED <<published, broadcast, due>>
      BY <1>2 DEF ChannelInv, RunStop, RunRegister, RunUnregister, RunLoopEnd, hubVars, runVars,
         consumerVars, history
    <2> QED BY <1>1, <2>1, ReceivedSame
  <1>3. CASE ConsumerStop \/ Shutdown
    <2>1. UNCHANGED <<published, broadcast, due, todo, cur, devices>>
      BY <1>3 DEF ConsumerStop, Shutdown, hubVars, runVars, clientVars, history
    <2> QED BY <1>1, <2>1, ReceivedSame
  <1>4. CASE HandleMessage
    <2>1. UNCHANGED <<due, todo, cur, devices>>
      BY <1>4 DEF HandleMessage, runVars, clientVars, history
    <2>2. Taken' = Taken
      <3>1. Len(published') = Len(published) + 1 /\ Len(broadcast') = Len(broadcast) + 1
            /\ Len(published) \in Nat /\ Len(broadcast) \in Nat
        BY <1>4 DEF HandleMessage, ConsumerType
      <3> QED BY <3>1 DEF Taken
    <2>3. ASSUME d \in todo', Matches(d, cur)' PROVE Matches(d, cur)
      <3>1. cur \in 1 .. Len(published)
        BY <2>1, <2>3 DEF ChannelInv, MsgInv
      <3>2. published'[cur] = published[cur]
        BY <1>4, <3>1 DEF HandleMessage, ConsumerType
      <3> QED BY <2>1, <2>3, <3>2 DEF Matches, MsgTenant, HubTenant
    <2>4. Rising(Feed(d)') /\ Elems(Feed(d)') \subseteq Elems(Feed(d))
      BY <1>1 DEF ReceivedInv
    <2> QED BY <2>1, <2>2, <2>3, <2>4, ReceivedFrame
  <1>5. CASE RunTake
    <2> DEFINE m == Head(broadcast)
    <2>1. m \in Messages
      BY <1>5, ElemsTail DEF RunTake
    <2>2. /\ todo' = clients /\ cur' = m /\ UNCHANGED <<published, devices>> /\ run' = "broadcast"
          /\ due'[d] = IF d \in clients /\ Matches(d, m) THEN Append(due[d], m) ELSE due[d]
      BY <1>5 DEF RunTake, clientVars, consumerVars
    <2>3. cur' = Taken' /\ Taken' = Taken + 1 /\ Taken \in Nat
      <3>1. Len(broadcast') = Len(broadcast) - 1 /\ Len(published) \in Nat /\ Len(broadcast) \in Nat
        BY <1>5, HeadTailProperties, LenProperties DEF RunTake, ConsumerType
      <3>2. Taken' = Taken + 1 /\ Taken \in Nat
        BY <2>2, <3>1 DEF Taken, QueueInv
      <3>3. cur' = Taken'
        BY <1>5, <2>2, QueueStep DEF QueueInv, Next
      <3> QED BY <3>2, <3>3
    <2>4. Matches(d, cur)' <=> Matches(d, m)
      BY <2>2 DEF Matches, MsgTenant, HubTenant
    <2> HIDE DEF m
    <2>5. /\ Elems(due[d]) \subseteq Elems(due'[d])
          /\ d \in clients /\ Matches(d, m) => m \in Elems(due'[d])
      <3>1. Elems(Append(due[d], m)) = Elems(due[d]) \cup {m}
        BY <2>1, ElemsAppend
      <3> QED BY <2>2, <3>1
    <2>6. /\ Elems(Feed(d))' = Elems(Feed(d)) /\ Rising(Feed(d))' <=> Rising(Feed(d))
          /\ Elems(due[d])' = Elems(due'[d])
      BY <1>1 DEF Elems, Rising
    <2>7. \A x \in Elems(Feed(d)) : x <= Taken' /\ x < cur'
      <3>1. delivered[d] \in Seq(Messages) /\ send[d] \in Seq(Messages)
        OBVIOUS
      <3>2. Feed(d) \in Seq(Messages)
        BY ONLY <3>1, ConcatProperties DEF Feed
      <3>3. Elems(Feed(d)) \subseteq Nat
        <4>1. \A i \in 1 .. Len(Feed(d)) : Feed(d)[i] \in Messages
          BY ONLY <3>2
        <4>2. Messages \subseteq Nat
          BY CapAssumption DEF Messages
        <4> QED BY ONLY <4>1, <4>2 DEF Elems
      <3> QED BY <2>3, <3>3 DEF ReceivedInv
    <2> QED BY <2>2, <2>4, <2>5, <2>6, <2>7 DEF ReceivedInv
  <1> QED BY <1>2, <1>3, <1>4, <1>5

(* Any client, slow, leaving or removed, receives messages in publication  *)
(* order and at most once, and only those its subscription covered when    *)
(* Run took them: a failed write or a full buffer leaves a gap and never a *)
(* repetition, and the filter cannot change during a broadcast loop.       *)
THEOREM HubFeedSound == Spec => []FeedSound
  <1>1. Init => SoundInv
    <2> SUFFICES ASSUME Init PROVE SoundInv
      OBVIOUS
    <2>1. QueueInv
      BY DEF Init, QueueInv, Taken
    <2>2. ASSUME NEW c \in Clients PROVE ReceivedInv(c)
      <3>1. Feed(c) = <<>> /\ todo = {}
        BY ConcatEmptySeq, EmptySeq DEF Init, Feed
      <3> QED BY <3>1, ElemsEmpty DEF ReceivedInv, Rising
    <2> QED BY <2>1, <2>2 DEF SoundInv
  <1>2. TypeOK /\ ChannelInv /\ MsgInv /\ SoundInv /\ [Next]_vars => SoundInv'
    <2> SUFFICES ASSUME TypeOK, ChannelInv, MsgInv, SoundInv, [Next]_vars PROVE SoundInv'
      OBVIOUS
    <2>1. CASE UNCHANGED vars
      <3>1. UNCHANGED <<published, broadcast, run, cur, todo, due, devices, send, delivered>>
        BY <2>1 DEF vars, hubVars, runVars, clientVars, consumerVars, history
      <3>2. QueueInv'
        BY <3>1 DEF SoundInv, QueueInv, Taken
      <3>3. ASSUME NEW c \in Clients PROVE ReceivedInv(c)'
        <4>1. Feed(c)' = Feed(c)
          BY <3>1 DEF Feed
        <4> QED BY <3>1, <4>1, ReceivedSame DEF SoundInv
      <3> QED BY <3>2, <3>3 DEF SoundInv
    <2>2. CASE Next
      <3>1. QueueInv'
        BY <2>2, QueueStep DEF SoundInv
      <3>2. ASSUME NEW d \in Clients PROVE ReceivedInv(d)'
        BY <2>2, ReceivedClient, ReceivedDeliver, ReceivedRun DEF Next, SoundInv
      <3> QED BY <3>1, <3>2 DEF SoundInv
    <2> QED BY <2>1, <2>2
  <1>3. SoundInv => FeedSound
    BY DEF SoundInv, ReceivedInv, FeedSound, Rising
  <1>4. Init => MsgInv
    BY ElemsEmpty DEF Init, MsgInv
  <1>5. TypeOK /\ ChannelInv /\ MsgInv /\ [Next]_vars => MsgInv'
    <2>1. MsgInv /\ UNCHANGED vars => MsgInv'
      BY DEF MsgInv, vars, hubVars, runVars, consumerVars
    <2> QED BY <2>1, MsgStep
  <1> QED BY TypeCorrect, HubChannels, <1>1, <1>2, <1>3, <1>4, <1>5, PTL DEF Spec
=============================================================================
