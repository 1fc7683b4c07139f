----------------------------- MODULE Ingestion -----------------------------
(***************************************************************************)
(* ingestion-service: the TCP listeners, one handleConn goroutine for      *)
(* every connection, the ConnRegistry the handlers share, and the          *)
(* publication of parsed records to the JetStream subject gpsgo.avl.raw.   *)
(*                                                                         *)
(* A record of a device is its timestamp, the number the message id is     *)
(* made from.  A device (external) may open several connections, sends     *)
(* any of its records that were not acknowledged, several in one packet,   *)
(* and repeats what was not acknowledged.                                  *)
(***************************************************************************)
EXTENDS Naturals, Sequences, FiniteSets

CONSTANTS
  Conns,          \* the TCP connections that may be opened
  Devices,        \* device ids
  Device,         \* Device[n]: the device at the other end of connection n
  Acking,         \* devices whose protocol acknowledges (GT06, JT808)
  NoConn,         \* "no entry" in the registry
  MaxRecord,      \* bound: timestamps a device uses
  NatsFails       \* whether a record may fail to be published while ctx is alive

ASSUME DeviceAssumption ==
  /\ Device \in [Conns -> Devices]
  /\ Acking \subseteq Devices
  /\ NoConn \notin Conns

ASSUME BoundAssumption == MaxRecord \in Nat /\ NatsFails \in BOOLEAN

VARIABLES
  registry,       \* ConnRegistry.conns
  pc,             \* pc[n]: where the handleConn goroutine of n is
  sock,           \* sock[n]: the server's end of connection n
  batch,          \* batch[n]: records onRecord has still to publish
  cancelled,      \* ctx has been cancelled
  listening,      \* the listener is open
  exited,         \* the process has ended
  stream,         \* the messages JetStream stored, in order
  window,         \* message ids JetStream still remembers
  forgotten,      \* message ids it has stopped remembering
  acked,          \* history: <<d, r>> whose acknowledgement reached the device
  failed,         \* history: message ids whose own publication failed
  replaced        \* history: connections that lost their entry to a newer one

procVars == <<cancelled, listening, exited>>
jet      == <<stream, window, forgotten>>
history  == <<acked, failed, replaced>>
vars == <<registry, pc, sock, batch, procVars, jet, history>>

Records == 1 .. MaxRecord

(* The places of handleConn: not accepted yet, in Authenticate, before     *)
(* Register, at the ctx check, in ParsePacket, in onRecord, and the two    *)
(* deferred calls, which run in reverse order of their defer statements.   *)
Places == {"new", "auth", "register", "loop", "parse", "publish",
           "unregister", "close", "done"}

Init ==
  /\ registry = [d \in Devices |-> NoConn]
  /\ pc = [n \in Conns |-> "new"]
  /\ sock = [n \in Conns |-> "none"]
  /\ batch = [n \in Conns |-> <<>>]
  /\ cancelled = FALSE /\ listening = TRUE /\ exited = FALSE
  /\ stream = <<>> /\ window = {} /\ forgotten = {}
  /\ acked = {} /\ failed = {} /\ replaced = {}

Goto(n, from, to) == ~exited /\ pc[n] = from /\ pc' = [pc EXCEPT ![n] = to]

Close(s, n) == [s EXCEPT ![n] = "closed"]

-----------------------------------------------------------------------------
(* ListenAndServe and the beginning of handleConn.                         *)

Accept(n) ==
  /\ listening
  /\ Goto(n, "new", "auth")
  /\ sock' = [sock EXCEPT ![n] = "open"]
  /\ UNCHANGED <<registry, batch, procVars, jet, history>>

AuthOK(n) ==
  /\ Goto(n, "auth", "register")
  /\ UNCHANGED <<registry, sock, batch, procVars, jet, history>>

(* Authenticate fails or times out after 30 s: only conn.Close is deferred *)
AuthFails(n) ==
  /\ Goto(n, "auth", "close")
  /\ UNCHANGED <<registry, sock, batch, procVars, jet, history>>

(* Mutant: the old connection is replaced but not closed.                  *)
RegisterKeepsOld(n) ==
  /\ Goto(n, "register", "loop")
  /\ registry' = [registry EXCEPT ![Device[n]] = n]
  /\ replaced' = replaced \cup ({registry[Device[n]]} \ {NoConn})
  /\ UNCHANGED <<sock, batch, procVars, jet, acked, failed>>

(* ConnRegistry.Register closes the connection the device had and puts the *)
(* new one in its place, under the registry's lock.                        *)
Register(n) ==
  LET d == Device[n] IN
  /\ Goto(n, "register", "loop")
  /\ registry' = [registry EXCEPT ![d] = n]
  /\ \/ /\ registry[d] = NoConn
        /\ UNCHANGED <<sock, replaced>>
     \/ /\ registry[d] # NoConn
        /\ sock' = Close(sock, registry[d])
        /\ replaced' = replaced \cup {registry[d]}
  /\ UNCHANGED <<batch, procVars, jet, acked, failed>>

(* ConnRegistry.Connected                                                  *)
Connected(d) == registry[d] # NoConn

-----------------------------------------------------------------------------
(* The parse loop.                                                         *)

(* Mutant: the loop does not look at ctx.                                  *)
CtxIgnored == FALSE

(* The select on ctx.Done() at the head of the loop.                       *)
CtxDone == cancelled

EnterParse(n) ==
  /\ ~CtxDone
  /\ Goto(n, "loop", "parse")
  /\ UNCHANGED <<registry, sock, batch, procVars, jet, history>>

LoopReturns(n) ==
  /\ CtxDone
  /\ Goto(n, "loop", "unregister")
  /\ UNCHANGED <<registry, sock, batch, procVars, jet, history>>

(* What a device may put in a packet: nothing (a heartbeat), one record,   *)
(* or two in order of their timestamps.                                    *)
Packets(d) ==
  LET left == {r \in Records : <<d, r>> \notin acked}
  IN {<<>>} \cup {<<r>> : r \in left}
            \cup {<<p[1], p[2]>> : p \in {q \in left \X left : q[1] < q[2]}}

(* The acknowledgement a protocol handler writes at the end of ParsePacket *)
(* may be lost on its way.                                                 *)
AckPacket(d, p) ==
  \/ d \in Acking /\ acked' = acked \cup {<<d, p[i]>> : i \in 1 .. Len(p)}
  \/ acked' = acked

(* ParsePacket returns the records of one packet, acknowledged already.    *)
ParsePacket(n) ==
  /\ sock[n] = "open"
  /\ \E p \in Packets(Device[n]) :
       /\ Goto(n, "parse", IF p = <<>> THEN "loop" ELSE "publish")
       /\ batch' = [batch EXCEPT ![n] = p]
       /\ AckPacket(Device[n], p)
  /\ UNCHANGED <<registry, sock, procVars, jet, failed, replaced>>

(* Mutant: Unregister is called at the end of the loop, not deferred.      *)
ParseFailsEarly(n) ==
  /\ Goto(n, "parse", "close")
  /\ UNCHANGED <<registry, sock, batch, procVars, jet, history>>

(* End of file, a closed socket, the 60 s deadline or a malformed packet.  *)
ParseFails(n) ==
  /\ Goto(n, "parse", "unregister")
  /\ UNCHANGED <<registry, sock, batch, procVars, jet, history>>

(* Mutant: the key tells connections apart.                                *)
MsgIDPerConn(n, r) == <<Device[n], r, n>>

(* The idempotency key given to JetStream.                                 *)
MsgID(n, r) == <<Device[n], r>>

Stored(id) == \E i \in 1 .. Len(stream) : stream[i] = id

(* External: JetStream stores a message unless its id is in the duplicate  *)
(* window.                                                                 *)
StoreOnce(id) ==
  /\ stream' = IF id \in window THEN stream ELSE Append(stream, id)
  /\ window' = window \cup {id}
  /\ UNCHANGED forgotten

(* External: an id leaves the duplicate window, which pkg/nats leaves at   *)
(* the server's default of two minutes.  Bound: once for each id.          *)
Forget(id) ==
  /\ id \in window \ forgotten
  /\ window' = window \ {id}
  /\ forgotten' = forgotten \cup {id}
  /\ UNCHANGED <<registry, pc, sock, batch, procVars, stream, history>>

(* Mutant: onRecord returns at the first error.                            *)
AfterFailureReturn(b) == <<>>

(* What is left to publish after a failed publication: it is logged and    *)
(* the loop goes on with the next record.                                  *)
AfterFailure(b) == Tail(b)

(* onRecord: one record is published.                                      *)
PublishOK(n) ==
  /\ ~cancelled
  /\ batch[n] # <<>>
  /\ Goto(n, "publish", IF Len(batch[n]) = 1 THEN "loop" ELSE "publish")
  /\ batch' = [batch EXCEPT ![n] = Tail(@)]
  /\ StoreOnce(MsgID(n, Head(batch[n])))
  /\ UNCHANGED <<registry, sock, procVars, history>>

(* Publish returns an error: always once ctx is cancelled, else when NATS  *)
(* does not answer in time, with or without the message having been        *)
(* stored.  The error is logged and nothing more.  A record that           *)
(* json.Marshal refuses (a coordinate that is no number) is skipped in the *)
(* same way: logged, never stored, and the loop goes on with the next one. *)
PublishFails(n) ==
  /\ cancelled \/ NatsFails
  /\ batch[n] # <<>>
  /\ LET rest == AfterFailure(batch[n]) IN
       /\ Goto(n, "publish", IF rest = <<>> THEN "loop" ELSE "publish")
       /\ batch' = [batch EXCEPT ![n] = rest]
  /\ \/ ~cancelled /\ StoreOnce(MsgID(n, Head(batch[n])))
     \/ UNCHANGED jet
  /\ failed' = failed \cup {MsgID(n, Head(batch[n]))}
  /\ UNCHANGED <<registry, sock, procVars, acked, replaced>>

-----------------------------------------------------------------------------
(* The deferred calls.                                                     *)

(* ConnRegistry.Unregister deletes the entry of the device.                *)
Unregister(n) ==
  /\ Goto(n, "unregister", "close")
  /\ registry' = [registry EXCEPT ![Device[n]] = NoConn]
  /\ UNCHANGED <<sock, batch, procVars, jet, history>>

CloseConn(n) ==
  /\ Goto(n, "close", "done")
  /\ sock' = Close(sock, n)
  /\ UNCHANGED <<registry, batch, procVars, jet, history>>

-----------------------------------------------------------------------------
(* main: SIGTERM cancels ctx, the listeners close, and the process ends    *)
(* when every handler has returned or 30 s have passed.                    *)

Shutdown ==
  /\ ~exited /\ ~cancelled /\ cancelled' = TRUE
  /\ UNCHANGED <<registry, pc, sock, batch, listening, exited, jet, history>>

CloseListener ==
  /\ ~exited /\ cancelled /\ listening /\ listening' = FALSE
  /\ UNCHANGED <<registry, pc, sock, batch, cancelled, exited, jet, history>>

Drained == ~listening /\ \A n \in Conns : pc[n] \in {"new", "done"}

ExitDrained ==
  /\ ~exited /\ cancelled /\ Drained /\ exited' = TRUE
  /\ UNCHANGED <<registry, pc, sock, batch, cancelled, listening, jet, history>>

ExitTimeout ==
  /\ ~exited /\ cancelled /\ ~Drained /\ exited' = TRUE
  /\ UNCHANGED <<registry, pc, sock, batch, cancelled, listening, jet, history>>

Next ==
  \/ Shutdown \/ CloseListener \/ ExitDrained \/ ExitTimeout
  \/ \E id \in window : Forget(id)
  \/ \E n \in Conns :
       \/ Accept(n) \/ AuthOK(n) \/ AuthFails(n) \/ Register(n)
       \/ EnterParse(n) \/ LoopReturns(n) \/ ParsePacket(n) \/ ParseFails(n)
       \/ PublishOK(n) \/ PublishFails(n) \/ Unregister(n) \/ CloseConn(n)

Spec == Init /\ [][Next]_vars

(* Every goroutine that can go on does.  Authenticate and ParsePacket end  *)
(* by their deadlines, in success or failure; a read on a socket that this *)
(* side closed fails; a publication ends by the client's timeout.  The     *)
(* 30 s timer is given no fairness: draining must not need it.             *)
Fairness ==
  /\ WF_vars(CloseListener) /\ WF_vars(ExitDrained)
  /\ \A n \in Conns :
       /\ WF_vars(AuthOK(n) \/ AuthFails(n)) /\ WF_vars(Register(n))
       /\ WF_vars(EnterParse(n) \/ LoopReturns(n))
       /\ WF_vars(ParsePacket(n) \/ ParseFails(n))
       /\ WF_vars(PublishOK(n) \/ PublishFails(n))
       /\ WF_vars(Unregister(n)) /\ WF_vars(CloseConn(n))

FairSpec == Spec /\ Fairness

-----------------------------------------------------------------------------
(* Properties.                                                             *)

(* Type correctness of the registry, the handlers and the histories.       *)
TypeOK ==
  /\ registry \in [Devices -> Conns \cup {NoConn}]
  /\ pc \in [Conns -> Places]
  /\ sock \in [Conns -> {"none", "open", "closed"}]
  /\ batch \in [Conns -> Seq(Records)]
  /\ cancelled \in BOOLEAN /\ listening \in BOOLEAN /\ exited \in BOOLEAN
  /\ stream \in Seq(Devices \X Records)
  /\ window \subseteq Devices \X Records
  /\ forgotten \subseteq Devices \X Records
  /\ acked \subseteq Devices \X Records
  /\ failed \subseteq Devices \X Records
  /\ replaced \subseteq Conns

(* The handler of n is in or just leaving the parse loop, and this side    *)
(* has not closed the connection.                                          *)
Usable(n) ==
  pc[n] \in {"loop", "parse", "publish", "unregister"} /\ sock[n] = "open"

(* The registry never hands out a connection of another device, one whose  *)
(* handler has returned, or one this server has closed: Register closes    *)
(* the old connection only when it replaces it, and the deferred calls     *)
(* take the entry out before they close the connection.                    *)
EntryUsable ==
  \A d \in Devices : registry[d] # NoConn =>
    Device[registry[d]] = d /\ Usable(registry[d])

(* A handler has still to publish record r of device d.                    *)
Waiting(d, r) ==
  \E n \in Conns : Device[n] = d /\ \E i \in 1 .. Len(batch[n]) : batch[n][i] = r

(* A device is acknowledged before its record is published, and still the  *)
(* only records lost while the process lives are those whose own           *)
(* publication returned an error: a failure never takes the rest of the    *)
(* packet with it, nor does a reconnection or a parse error.               *)
LossIsOwnFailure ==
  \A d \in Devices, r \in Records : <<d, r>> \in acked =>
    Stored(<<d, r>>) \/ <<d, r>> \in failed \/ Waiting(d, r)

(* A record that is sent again, on the same or on another connection, is   *)
(* stored once for as long as JetStream remembers it: its message id       *)
(* depends on the device and the timestamp alone.                          *)
StoredOnce ==
  \A i, j \in 1 .. Len(stream) :
    stream[i][1] = stream[j][1] /\ stream[i][2] = stream[j][2] =>
      i = j \/ stream[i] \in forgotten

(* The handler of a connection that a newer one of the same device has     *)
(* replaced ends, however eagerly the device keeps sending on it.          *)
ReplacedHandlerEnds ==
  \A n \in Conns : (n \in replaced) ~> (pc[n] = "done" \/ exited)

(* After SIGTERM the service drains and exits by itself, without the 30 s  *)
(* timer, even if devices keep sending.                                    *)
DrainCompletes == cancelled ~> exited

(* conn_registry.go: "Connected returns true if the device has an active   *)
(* connection": a connection in the parse loop that this side has not      *)
(* closed and that is not being torn down.                                 *)
ConnectedIsAccurate ==
  \A n \in Conns :
    pc[n] \in {"loop", "parse", "publish"} /\ sock[n] = "open" => Connected(Device[n])
-----------------------------------------------------------------------------
(* The invariants behind the proofs of IngestionProofs.                    *)

(* A connection that is being authenticated cannot have been closed yet.   *)
EntryInv ==
  /\ EntryUsable
  /\ \A n \in Conns : pc[n] \in {"auth", "register"} => sock[n] = "open"

(* The duplicate window only remembers what is stored, and what is stored  *)
(* is remembered until it is forgotten.                                    *)
WindowInv ==
  /\ \A id \in window : Stored(id)
  /\ \A i \in 1 .. Len(stream) : stream[i] \in window \cup forgotten

(* Only a handler inside onRecord has records to publish, so ParsePacket   *)
(* overwrites nothing.                                                     *)
LossInv ==
  /\ LossIsOwnFailure
  /\ \A n \in Conns : pc[n] # "publish" => batch[n] = <<>>
=============================================================================
