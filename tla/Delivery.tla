------------------------------ MODULE Delivery ------------------------------
(***************************************************************************)
(* What the stream processor promises of the records handed to it, without *)
(* replicas, statements or locals: a record is delivered a bounded number  *)
(* of times, it leaves the queue only when it has been stored or refused,  *)
(* or when its deliveries are used up, and nothing is stored or refused    *)
(* that was never delivered.                                               *)
(***************************************************************************)
EXTENDS Naturals, Sequences

CONSTANTS Stream, MaxDeliver

VARIABLES
  attempts,     \* how often each message was delivered
  stored,       \* primary keys in avl_records
  refused,      \* messages dropped: malformed, or of no known device
  done,         \* messages acknowledged
  abandoned     \* messages whose deliveries are used up

vars == <<attempts, stored, refused, done, abandoned>>

Msgs == 1 .. Len(Stream)
Key(m) == <<Stream[m].device, Stream[m].ts>>

Init ==
  /\ attempts = [m \in Msgs |-> 0]
  /\ stored = {} /\ refused = {} /\ done = {} /\ abandoned = {}

Deliver(m) ==
  /\ attempts[m] < MaxDeliver /\ m \notin done \cup abandoned
  /\ attempts' = [attempts EXCEPT ![m] = @ + 1]
  /\ UNCHANGED <<stored, refused, done, abandoned>>

(* A replica that was given up for slow may store a record late.           *)
Store(m) ==
  /\ attempts[m] > 0 /\ Stream[m].ok
  /\ stored' = stored \cup {Key(m)}
  /\ UNCHANGED <<attempts, refused, done, abandoned>>

(* The acknowledgement of a refused message may be lost, or too late.      *)
Refuse(m) ==
  /\ attempts[m] > 0
  /\ refused' = refused \cup {m}
  /\ done' \in {done, IF m \in abandoned THEN done ELSE done \cup {m}}
  /\ UNCHANGED <<attempts, stored, abandoned>>

Acknowledge(m) ==
  /\ m \notin abandoned /\ Key(m) \in stored
  /\ done' = done \cup {m}
  /\ UNCHANGED <<attempts, stored, refused, abandoned>>

Abandon(m) ==
  /\ attempts[m] = MaxDeliver /\ m \notin done
  /\ abandoned' = abandoned \cup {m}
  /\ UNCHANGED <<attempts, stored, refused, done>>

Next == \E m \in Msgs :
  Deliver(m) \/ Store(m) \/ Refuse(m) \/ Acknowledge(m) \/ Abandon(m)

Spec == Init /\ [][Next]_vars
=============================================================================
