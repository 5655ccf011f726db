------------------------------ MODULE LogQueue ------------------------------
(***************************************************************************)
(* What mlog's ring promises to its callers, without saying how: a bounded *)
(* first-in first-out queue with many producers and one consumer.  A push  *)
(* takes its place in the queue in one step (Accept) and makes its entry   *)
(* visible in a later one (Publish); the consumer takes a run of visible   *)
(* entries from the front (Deliver).  Close makes later pushes fail, and   *)
(* lets the pushes that began before it finish either way.                 *)
(*                                                                         *)
(* RingBuffer implements this module, and AsyncWriter is built on it.      *)
(***************************************************************************)
EXTENDS Naturals, Sequences

CONSTANTS Producers,  (* the goroutines that log                           *)
          Cap,        (* the number of slots of the ring                   *)
          MaxPush     (* bound: the pushes a producer attempts             *)

ASSUME QueueAssumption ==
         /\ Cap \in Nat \ {0}
         /\ MaxPush \in Nat

VARIABLES stage,      (* where each producer's push stands                 *)
          calls,      (* how many pushes each producer has begun           *)
          queue,      (* accepted entries the consumer has not taken       *)
          delivered,  (* entries the consumer has taken, in order          *)
          closed      (* the queue accepts no new push                     *)

queueVars == <<stage, calls, queue, delivered, closed>>

(* An entry is named by who pushes it and by which of its pushes it is.    *)
Entry == Producers \X (1..MaxPush)
Current(p) == <<p, calls[p]>>

QueueTypeOK ==
  /\ stage \in [Producers -> {"out", "in", "claimed"}]
  /\ calls \in [Producers -> 0..MaxPush]
  /\ queue \in Seq([entry : Entry, ready : BOOLEAN])
  /\ Len(queue) \leq Cap
  /\ delivered \in Seq(Entry)
  /\ closed \in BOOLEAN

QueueInit ==
  /\ stage = [p \in Producers |-> "out"]
  /\ calls = [p \in Producers |-> 0]
  /\ queue = <<>>
  /\ delivered = <<>>
  /\ closed = FALSE
-----------------------------------------------------------------------------
(* A push begins; one that begins after Close fails at once.               *)
Begin(p) ==
  /\ stage[p] = "out"
  /\ calls[p] < MaxPush
  /\ calls' = [calls EXCEPT ![p] = @ + 1]
  /\ stage' = IF closed THEN stage ELSE [stage EXCEPT ![p] = "in"]
  /\ UNCHANGED <<queue, delivered, closed>>

(* The push takes the next place in the queue.                             *)
Accept(p) ==
  /\ stage[p] = "in"
  /\ Len(queue) < Cap
  /\ stage' = [stage EXCEPT ![p] = "claimed"]
  /\ queue' = Append(queue, [entry |-> Current(p), ready |-> FALSE])
  /\ UNCHANGED <<calls, delivered, closed>>

(* The push fails.  The queue does not promise that it was full: the ring  *)
(* may refuse an entry for a difference of two loads of different ages.    *)
Reject(p) ==
  /\ stage[p] = "in"
  /\ stage' = [stage EXCEPT ![p] = "out"]
  /\ UNCHANGED <<calls, queue, delivered, closed>>

(* The entry in the place that p took becomes visible to the consumer.     *)
MarkReady(q, e) ==
  [i \in 1..Len(q) |->
     IF q[i].entry = e THEN [entry |-> e, ready |-> TRUE] ELSE q[i]]

Publish(p) ==
  /\ stage[p] = "claimed"
  /\ stage' = [stage EXCEPT ![p] = "out"]
  /\ queue' = MarkReady(queue, Current(p))
  /\ UNCHANGED <<calls, delivered, closed>>

(* The consumer takes the first k entries, all of them visible.            *)
Deliver(k) ==
  /\ k \in 1..Len(queue)
  /\ \A i \in 1..k : queue[i].ready
  /\ delivered' = delivered \o [i \in 1..k |-> queue[i].entry]
  /\ queue' = SubSeq(queue, k + 1, Len(queue))
  /\ UNCHANGED <<stage, calls, closed>>

Close ==
  /\ ~closed
  /\ closed' = TRUE
  /\ UNCHANGED <<stage, calls, queue, delivered>>

QueueNext ==
  \/ \E p \in Producers : Begin(p) \/ Accept(p) \/ Reject(p) \/ Publish(p)
  \/ \E k \in 1..Cap : Deliver(k)
  \/ Close

(* A push that has begun goes on to its end, and until Close the consumer  *)
(* keeps taking what is visible at the front.  After Close it may stop.    *)
QueueFairness ==
  /\ \A p \in Producers : WF_queueVars(Accept(p) \/ Reject(p) \/ Publish(p))
  /\ WF_queueVars(~closed /\ \E k \in 1..Cap : Deliver(k))

QueueSpec == QueueInit /\ [][QueueNext]_queueVars /\ QueueFairness
=============================================================================
