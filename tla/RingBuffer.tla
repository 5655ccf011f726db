----------------------------- MODULE RingBuffer -----------------------------
(***************************************************************************)
(* ringbuffer.go: the multi-producer, single-consumer ring of log entries. *)
(* Producers run tryPush, the writer goroutine runs drainBatch, and close  *)
(* raises the closed flag, after which the writer drains until it finds    *)
(* nothing and returns.  Every access to memory another goroutine may      *)
(* touch is a step of its own.                                             *)
(*                                                                         *)
(* Positions are counters that the code keeps in 64 bits: they are natural *)
(* numbers here (2^64 pushes do not happen), but the subtraction of two    *)
(* loads that were made at different times is the wrapping one of the      *)
(* code, modulo Word.                                                      *)
(***************************************************************************)
EXTENDS Naturals, Sequences

CONSTANTS Producers,  (* the goroutines that push                          *)
          Cap,        (* slots in the ring, a power of two                 *)
          MaxBatch,   (* the most entries one drainBatch takes             *)
          MaxPush,    (* bound: the pushes a producer attempts             *)
          Word,       (* 2^64 in the code: the range of a position         *)
          Nil         (* no entry                                          *)

ASSUME RingAssumption ==
         /\ Cap \in Nat \ {0}
         /\ MaxBatch \in Nat \ {0}
         /\ MaxPush \in Nat
         /\ Word \in Nat
         /\ Word > Cap
         /\ Nil \notin Producers \X (1..MaxPush)

(* newRingBuffer rounds the capacity up to a power of two, so that masking *)
(* a position is taking its remainder.                                     *)
ASSUME CapIsPowerOfTwo == \E i \in 0..Cap : Cap = 2^i

VARIABLES writePos,   (* the next position to claim                        *)
          readPos,    (* the next position to consume, as published        *)
          seq,        (* slots[i].seq: 1 + the position last published     *)
          slot,       (* slots[i].entry                                    *)
          closed,
          pc,         (* per producer: its next step in tryPush            *)
          wp, rp,     (* per producer: the locals of tryPush               *)
          calls,      (* per producer: calls of tryPush so far             *)
          cpc,        (* the consumer's next step in drainBatch            *)
          crp, out,   (* its locals: position reached, entries taken       *)
          loop,       (* writerLoop: "open", in the "final" drain of its   *)
                      (* close case, or "over"                             *)
          claimed,    (* history: entries in the order of their claims     *)
          delivered   (* history: entries drainBatch has returned          *)

shared   == <<writePos, readPos, seq, slot, closed>>
producer == <<pc, wp, rp, calls>>
consumer == <<cpc, crp, out, loop>>
history  == <<claimed, delivered>>
vars     == <<shared, producer, consumer, history>>

Slots == 0..(Cap - 1)
Entry == Producers \X (1..MaxPush)
Current(p) == <<p, calls[p]>>
Index(pos) == pos % Cap

(* The type invariant.  It says more than it may seem to: a batch holds     *)
(* entries, never the nil that drainBatch leaves in an emptied slot.       *)
TypeOK ==
  /\ writePos \in Nat /\ readPos \in Nat
  /\ seq \in [Slots -> Nat]
  /\ slot \in [Slots -> Entry \union {Nil}]
  /\ closed \in BOOLEAN
  /\ pc \in [Producers ->
               {"idle", "check", "loadW", "loadR", "cas", "store", "publish"}]
  /\ wp \in [Producers -> Nat] /\ rp \in [Producers -> Nat]
  /\ calls \in [Producers -> 0..MaxPush]
  /\ cpc \in {"idle", "scan", "take", "commit"}
  /\ crp \in Nat
  /\ out \in Seq(Entry)
  /\ loop \in {"open", "final", "over"}
  /\ claimed \in Seq(Entry)
  /\ delivered \in Seq(Entry)

Init ==
  /\ writePos = 0 /\ readPos = 0
  /\ seq = [i \in Slots |-> 0]
  /\ slot = [i \in Slots |-> Nil]
  /\ closed = FALSE
  /\ pc = [p \in Producers |-> "idle"]
  /\ wp = [p \in Producers |-> 0]
  /\ rp = [p \in Producers |-> 0]
  /\ calls = [p \in Producers |-> 0]
  /\ cpc = "idle" /\ crp = 0 /\ out = <<>> /\ loop = "open"
  /\ claimed = <<>> /\ delivered = <<>>
-----------------------------------------------------------------------------
(* tryPush *)

Goto(p, l) == pc' = [pc EXCEPT ![p] = l]

(* The call, with the first load of closed in its loop.                    *)
Begin(p) ==
  /\ pc[p] = "idle"
  /\ calls[p] < MaxPush
  /\ calls' = [calls EXCEPT ![p] = @ + 1]
  /\ IF closed THEN UNCHANGED pc ELSE Goto(p, "loadW")
  /\ UNCHANGED <<shared, wp, rp, consumer, history>>

(* The load of closed after a failed compare-and-swap.                     *)
CheckClosed(p) ==
  /\ pc[p] = "check"
  /\ Goto(p, IF closed THEN "idle" ELSE "loadW")
  /\ UNCHANGED <<shared, wp, rp, calls, consumer, history>>

LoadWritePos(p) ==
  /\ pc[p] = "loadW"
  /\ wp' = [wp EXCEPT ![p] = writePos]
  /\ Goto(p, "loadR")
  /\ UNCHANGED <<shared, rp, calls, consumer, history>>

(* wp-rp >= cap: unsigned, so it also holds when rp has passed wp.         *)
Distance(a, b) == IF a \geq b THEN a - b ELSE Word - (b - a)
(* Fault: the comparison lets one push too many in.                        *)
FullOffByOne(w, r) == Distance(w, r) > Cap

Full(w, r) == Distance(w, r) \geq Cap

LoadReadPos(p) ==
  /\ pc[p] = "loadR"
  /\ rp' = [rp EXCEPT ![p] = readPos]
  /\ Goto(p, IF Full(wp[p], readPos) THEN "idle" ELSE "cas")
  /\ UNCHANGED <<shared, wp, calls, consumer, history>>

(* Fault: writePos is stored instead of compared and swapped.              *)
ClaimBlind(p) ==
  /\ pc[p] = "cas"
  /\ writePos' = wp[p] + 1
  /\ claimed' = Append(claimed, Current(p))
  /\ Goto(p, "store")
  /\ UNCHANGED <<readPos, seq, slot, closed, wp, rp, calls, consumer, delivered>>

Claim(p) ==
  /\ pc[p] = "cas"
  /\ wp[p] = writePos
  /\ writePos' = writePos + 1
  /\ claimed' = Append(claimed, Current(p))
  /\ Goto(p, "store")
  /\ UNCHANGED <<readPos, seq, slot, closed, wp, rp, calls, consumer, delivered>>

LoseClaim(p) ==
  /\ pc[p] = "cas"
  /\ wp[p] # writePos
  /\ Goto(p, "check")
  /\ UNCHANGED <<shared, wp, rp, calls, consumer, history>>

StoreEntry(p) ==
  /\ pc[p] = "store"
  /\ slot' = [slot EXCEPT ![Index(wp[p])] = Current(p)]
  /\ Goto(p, "publish")
  /\ UNCHANGED <<writePos, readPos, seq, closed, wp, rp, calls, consumer, history>>

(* Fault: the position is published instead of the one after it.           *)
PublishOwnPos(p) ==
  /\ pc[p] = "publish"
  /\ seq' = [seq EXCEPT ![Index(wp[p])] = wp[p]]
  /\ Goto(p, "idle")
  /\ UNCHANGED <<writePos, readPos, slot, closed, wp, rp, calls, consumer, history>>

Publish(p) ==
  /\ pc[p] = "publish"
  /\ seq' = [seq EXCEPT ![Index(wp[p])] = wp[p] + 1]
  /\ Goto(p, "idle")
  /\ UNCHANGED <<writePos, readPos, slot, closed, wp, rp, calls, consumer, history>>

ProducerStep(p) ==
  \/ CheckClosed(p) \/ LoadWritePos(p) \/ LoadReadPos(p)
  \/ Claim(p) \/ LoseClaim(p) \/ StoreEntry(p) \/ Publish(p)
-----------------------------------------------------------------------------
(* drainBatch *)

(* Fault: the batch of the last call is not discarded.                     *)
DrainStartKeepsBatch ==
  /\ cpc = "idle"
  /\ loop # "over"
  /\ crp' = readPos
  /\ cpc' = "scan"
  /\ UNCHANGED <<shared, producer, out, loop, history>>

DrainStart ==
  /\ cpc = "idle"
  /\ loop # "over"
  /\ crp' = readPos
  /\ out' = <<>>
  /\ cpc' = "scan"
  /\ UNCHANGED <<shared, producer, loop, history>>

(* Fault: any lap's publication of the slot will do.                       *)
PublishedAnyLap(pos) == seq[Index(pos)] > 0

Published(pos) == seq[Index(pos)] = pos + 1

(* The slot at crp is found published, at once or while spinWaitSeq spins. *)
ScanHit ==
  /\ cpc = "scan"
  /\ Len(out) < MaxBatch
  /\ Published(crp)
  /\ cpc' = "take"
  /\ UNCHANGED <<shared, producer, crp, out, loop, history>>

(* The batch is full, or the slot is not published when the scan or the    *)
(* last of spinWaitSeq's 64 loads looks at it.                             *)
ScanStop ==
  /\ cpc = "scan"
  /\ Len(out) = MaxBatch \/ ~Published(crp)
  /\ cpc' = "commit"
  /\ UNCHANGED <<shared, producer, crp, out, loop, history>>

(* Fault: the slot is not emptied.                                         *)
TakeKeepsEntry ==
  /\ cpc = "take"
  /\ out' = Append(out, slot[Index(crp)])
  /\ crp' = crp + 1
  /\ cpc' = "scan"
  /\ UNCHANGED <<shared, producer, loop, history>>

Take ==
  /\ cpc = "take"
  /\ out' = Append(out, slot[Index(crp)])
  /\ slot' = [slot EXCEPT ![Index(crp)] = Nil]
  /\ crp' = crp + 1
  /\ cpc' = "scan"
  /\ UNCHANGED <<writePos, readPos, seq, closed, producer, loop, history>>

(* writerLoop's close case ends with the first drain that finds nothing.   *)
EndOfDrain == loop' = IF loop = "final" /\ out = <<>> THEN "over" ELSE loop

(* Fault: readPos jumps to writePos, over claims not yet published.        *)
CommitAll ==
  /\ cpc = "commit"
  /\ readPos' = IF Len(out) > 0 THEN writePos ELSE readPos
  /\ delivered' = delivered \o out
  /\ cpc' = "idle"
  /\ EndOfDrain
  /\ UNCHANGED <<writePos, seq, slot, closed, producer, crp, out, claimed>>

Commit ==
  /\ cpc = "commit"
  /\ readPos' = IF Len(out) > 0 THEN crp ELSE readPos
  /\ delivered' = delivered \o out
  /\ cpc' = "idle"
  /\ EndOfDrain
  /\ UNCHANGED <<writePos, seq, slot, closed, producer, crp, out, claimed>>

(* The writer finds closeCh closed, which asyncWriter.close closes after   *)
(* the ring.                                                               *)
SeeClose ==
  /\ cpc = "idle"
  /\ loop = "open"
  /\ closed
  /\ loop' = "final"
  /\ UNCHANGED <<shared, producer, cpc, crp, out, history>>

ConsumerStep == DrainStart \/ ScanHit \/ ScanStop \/ Take \/ Commit \/ SeeClose
-----------------------------------------------------------------------------
Close ==
  /\ ~closed
  /\ closed' = TRUE
  /\ UNCHANGED <<writePos, readPos, seq, slot, producer, consumer, history>>

Next ==
  \/ \E p \in Producers : Begin(p) \/ ProducerStep(p)
  \/ ConsumerStep
  \/ Close

Spec == Init /\ [][Next]_vars

(* A goroutine in the middle of tryPush is scheduled again, and the writer *)
(* goroutine goes on until its loop is over.  Nobody has to call tryPush   *)
(* or close.                                                               *)
Fairness == /\ \A p \in Producers : WF_vars(ProducerStep(p))
            /\ WF_vars(ConsumerStep)

FairSpec == Spec /\ Fairness
-----------------------------------------------------------------------------
(* Safety *)

Pending(p) == pc[p] \in {"store", "publish"}

(* Plain (non-atomic) accesses to slots[i].entry never meet: the writer    *)
(* takes an entry only from a slot no producer is storing to, and two      *)
(* producers between their claim and their publication hold two slots.     *)
NoSlotRace ==
  /\ \A p \in Producers :
       pc[p] = "store" /\ cpc = "take" => Index(wp[p]) # Index(crp)
  /\ \A p, q \in Producers :
       Pending(p) /\ Pending(q) /\ p # q => Index(wp[p]) # Index(wp[q])

(* What drainBatch has returned, and the batch it is filling, are the      *)
(* entries claimed, in the order of their claims, each once, none missing  *)
(* before one that is there, and none replaced by another or by nil.       *)
DeliveredInClaimOrder ==
  LET taken == delivered \o (IF cpc = "idle" THEN <<>> ELSE out)
  IN  /\ Len(taken) \leq Len(claimed)
      /\ \A i \in 1..Len(taken) : taken[i] = claimed[i]

(* A push never stores over an entry the writer has not taken.             *)
NeverOverwrites ==
  [][\A i \in Slots : slot[i] # Nil => slot'[i] \in {slot[i], Nil}]_vars

-----------------------------------------------------------------------------
(***************************************************************************)
(* The inductive invariant: who owns which position.  The positions from   *)
(* Reached (the first the writer has not taken) up to writePos are the     *)
(* live ones; there are at most Cap of them, so they live in distinct      *)
(* slots.  Each is either Pending (a producer has claimed and not yet      *)
(* published it) or published with its entry in its slot.                  *)
(***************************************************************************)
Reached == IF cpc = "idle" THEN readPos ELSE crp
Live == Reached..(writePos - 1)
HeldBy(p, pos) == Pending(p) /\ wp[p] = pos

PositionsOK ==
  /\ Len(claimed) = writePos
  /\ Len(delivered) = readPos
  /\ readPos \leq Reached
  /\ Reached \leq writePos
  /\ writePos - readPos \leq Cap

DrainOK ==
  /\ cpc # "idle" => crp = readPos + Len(out) /\ Len(out) \leq MaxBatch
  /\ cpc = "take" => Len(out) < MaxBatch /\ Published(crp)

LoadsOK ==
  \A p \in Producers :
    /\ pc[p] # "idle" => calls[p] \geq 1
    /\ pc[p] \in {"loadR", "cas"} => wp[p] \leq writePos
    /\ pc[p] = "cas" => rp[p] \leq readPos /\ ~Full(wp[p], rp[p])

PendingOK ==
  /\ \A p \in Producers :
       Pending(p) => /\ wp[p] \in Live
                     /\ ~Published(wp[p])
                     /\ claimed[wp[p] + 1] = Current(p)
  /\ \A p \in Producers :
       pc[p] = "publish" => slot[Index(wp[p])] = Current(p)
  /\ \A p, q \in Producers :
       Pending(p) /\ Pending(q) /\ p # q => wp[p] # wp[q]

SlotsOK ==
  /\ \A i \in Slots : seq[i] \leq writePos
  /\ \A pos \in Live :
       \/ \E p \in Producers : HeldBy(p, pos)
       \/ Published(pos) /\ slot[Index(pos)] = claimed[pos + 1]
  /\ \A i \in Slots : slot[i] # Nil =>
       \E pos \in Live :
         /\ Index(pos) = i
         /\ \A p \in Producers : HeldBy(p, pos) => pc[p] = "publish"

OrderOK ==
  /\ \A i \in 1..Len(delivered) : delivered[i] = claimed[i]
  /\ cpc # "idle" => \A i \in 1..Len(out) : out[i] = claimed[readPos + i]

(* Ownership of the ring's positions and slots, as explained above.        *)
RingInv ==
  TypeOK /\ PositionsOK /\ DrainOK /\ LoadsOK /\ PendingOK /\ SlotsOK /\ OrderOK
-----------------------------------------------------------------------------
(***************************************************************************)
(* The ring implements LogQueue.  A claim takes the place, the store of    *)
(* seq makes the entry visible, the store of readPos delivers the batch.   *)
(***************************************************************************)
stageView ==
  [p \in Producers |-> CASE pc[p] = "idle" -> "out"
                         [] Pending(p)     -> "claimed"
                         [] OTHER          -> "in"]

queueView ==
  [i \in 1..(writePos - readPos) |->
     [entry |-> claimed[readPos + i], ready |-> Published(readPos + i - 1)]]

Q == INSTANCE LogQueue WITH stage <- stageView, queue <- queueView

(* Every behaviour of the ring is one of the abstract queue, its fairness  *)
(* included: a push that begins ends, and a visible entry at the front is  *)
(* taken, as long as the ring is open.                                     *)
ImplementsLogQueue == Q!QueueSpec

(* An entry whose push claimed a place reaches the writer, though pushes   *)
(* that claimed earlier places may publish later, and also while the ring  *)
(* is closed, unless the writer's loop is over first: its final drain ends *)
(* at a place not yet published, and a push that found the ring open may   *)
(* claim one even later.                                                   *)
EveryClaimIsDelivered ==
  \A e \in Entry : (\E i \in 1..Len(claimed) : claimed[i] = e)
                     ~> \/ \E i \in 1..Len(delivered) : delivered[i] = e
                        \/ loop = "over"
=============================================================================
