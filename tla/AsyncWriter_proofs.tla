------------------------- MODULE AsyncWriter_proofs -------------------------
(***************************************************************************)
(* Theorems about AsyncWriter, for every set of goroutines, any capacity,  *)
(* batch size and high-water mark, and any number of calls.                *)
(***************************************************************************)
EXTENDS AsyncWriter, Integers, NatFacts, SequenceTheorems, TLAPS

(***************************************************************************)
(* The inductive invariant: the properties of AsyncWriter, and why they    *)
(* keep holding.                                                           *)
(***************************************************************************)

(* A producer that is in its push has begun one.                           *)
PushesOK == \A p \in Producers : stage[p] # "out" => calls[p] \in 1..MaxPush

(* Between a flush and the end of its turn nothing is taken; an ack is     *)
(* pending for an entry that was written.                                  *)
Taken(e) == \E i \in 1..Len(delivered) : delivered[i] = e

BufferOK ==
  /\ wpc \in {"signal", "exited"} => flushed = Len(delivered)
  /\ \A e \in pendingAck : Taken(e)

(* A request is in the channel, in the writer's hands or answered, one of  *)
(* these, and only while its caller waits.                                 *)
RequestsOK ==
  /\ flushFor \in Flushers => wpc \in {"flush", "signal"}
  /\ \A f \in Flushers :
       /\ f \in flushCh => fpc[f] = "wait" /\ f \notin replied /\ flushFor # f
       /\ f \in replied => fpc[f] = "wait" /\ flushFor # f
       /\ flushFor = f => fpc[f] = "wait"
       /\ flushMark[f] <= Len(delivered)

(* Close closes the ring before the channel, and only the channel ends the *)
(* loop.  What could be taken when the ring was closed is taken or is      *)
(* still at the front, and is all taken once the final drain is over.      *)
Leaving == flushFor = Exit \/ wpc = "exited"

ClosingOK ==
  /\ \A c \in Closers : kpc[c] = "chan" => closed
  /\ closeCh => closed
  /\ wpc = "closing" \/ Leaving => closeCh
  /\ flushFor = Exit => wpc \in {"flush", "signal"}
  /\ closeMark <= Len(delivered) + Len(queue)
  /\ \A i \in 1..Len(queue) : Len(delivered) + i <= closeMark => queue[i].ready
  /\ Leaving => closeMark <= Len(delivered)

WriterInv ==
  /\ TypeOK /\ PushesOK
  /\ NoLostWakeup /\ FlushIsScheduled /\ AckedIsCovered /\ NoAckLeftBehind
  /\ FlushCoversTaken
  /\ BufferOK /\ RequestsOK /\ ClosingOK

-----------------------------------------------------------------------------
(* What the queue's operators do to the two sequences.                     *)

QueueEntry == [entry : Entry, ready : BOOLEAN]

LEMMA AppendFacts ==
  ASSUME NEW q \in Seq(QueueEntry), NEW x \in QueueEntry
  PROVE  /\ Append(q, x) \in Seq(QueueEntry)
         /\ Len(Append(q, x)) = Len(q) + 1
         /\ \A i \in 1..Len(q) : Append(q, x)[i] = q[i]
         /\ Append(q, x)[Len(q) + 1] = x
OBVIOUS

LEMMA MarkReadyFacts ==
  ASSUME NEW q \in Seq(QueueEntry), NEW e \in Entry
  PROVE  /\ MarkReady(q, e) \in Seq(QueueEntry)
         /\ Len(MarkReady(q, e)) = Len(q)
         /\ \A i \in 1..Len(q) : /\ MarkReady(q, e)[i].entry = q[i].entry
                                 /\ q[i].ready => MarkReady(q, e)[i].ready
<1> DEFINE m(i) == IF q[i].entry = e THEN [entry |-> e, ready |-> TRUE] ELSE q[i]
<1>1. \A i \in 1..Len(q) : q[i] \in QueueEntry
  OBVIOUS
<1>2. \A i \in 1..Len(q) : m(i) \in QueueEntry /\ m(i).entry = q[i].entry
                           /\ (q[i].ready => m(i).ready)
  BY <1>1 DEF QueueEntry
<1>3. MarkReady(q, e) = [i \in 1..Len(q) |-> m(i)]
  BY DEF MarkReady
<1> HIDE DEF m
<1>4. Len(q) \in Nat
  OBVIOUS
<1>5. [i \in 1..Len(q) |-> m(i)] \in Seq(QueueEntry)
  BY <1>2, <1>4
<1> QED
  BY <1>2, <1>3, <1>4, <1>5

LEMMA DeliverFacts ==
  ASSUME QueueTypeOK, NEW k, Deliver(k)
  PROVE  /\ k \in 1..Len(queue) /\ Len(queue) \in Nat /\ Len(delivered) \in Nat
         /\ delivered' \in Seq(Entry)
         /\ Len(delivered') = Len(delivered) + k
         /\ \A i \in 1..Len(delivered) : delivered'[i] = delivered[i]
         /\ \A i \in 1..k : delivered'[Len(delivered) + i] = queue[i].entry
         /\ queue' \in Seq(QueueEntry)
         /\ Len(queue') = Len(queue) - k
         /\ \A i \in 1..Len(queue') : queue'[i] = queue[i + k]
         /\ \A i \in 1..k : queue[i] \in QueueEntry /\ queue[i].ready
<1>1. k \in 1..Len(queue) /\ queue \in Seq(QueueEntry) /\ delivered \in Seq(Entry)
  BY DEF Deliver, QueueTypeOK, QueueEntry
<1>2. \A i \in 1..Len(queue) : queue[i] \in QueueEntry
  BY <1>1
<1> DEFINE b == [i \in 1..k |-> queue[i].entry]
<1>3. b \in Seq(Entry) /\ Len(b) = k
  <2>1. \A i \in 1..k : queue[i].entry \in Entry
    BY <1>1, <1>2 DEF QueueEntry
  <2> QED
    BY <1>1, <2>1
<1>4. \A i \in 1..k : b[i] = queue[i].entry
  OBVIOUS
<1>5. delivered' = delivered \o b
  BY DEF Deliver
<1> HIDE DEF b
<1>6. /\ delivered' \in Seq(Entry)
      /\ Len(delivered') = Len(delivered) + k
      /\ \A i \in 1..Len(delivered) + k :
           delivered'[i] = IF i <= Len(delivered) THEN delivered[i] ELSE b[i - Len(delivered)]
  BY <1>1, <1>3, <1>5, ConcatProperties
<1>7. Len(queue) \in Nat /\ Len(delivered) \in Nat
  BY <1>1
<1>8. \A i \in 1..k : delivered'[Len(delivered) + i] = queue[i].entry
  <2> SUFFICES ASSUME NEW i \in 1..k PROVE delivered'[Len(delivered) + i] = queue[i].entry
    OBVIOUS
  <2>1. /\ Len(delivered) + i \in 1..Len(delivered) + k
        /\ ~(Len(delivered) + i <= Len(delivered))
        /\ Len(delivered) + i - Len(delivered) = i
    BY <1>1, <1>7
  <2> QED
    BY <1>4, <1>6, <2>1
<1>9. queue' = SubSeq(queue, k + 1, Len(queue))
  BY DEF Deliver
<1>10. /\ queue' \in Seq(QueueEntry)
       /\ Len(queue') = Len(queue) - k
       /\ \A i \in 1..Len(queue') : queue'[i] = queue[i + k]
  BY <1>1, <1>2, <1>7, <1>9, SubSeqProperties
<1> QED
  BY <1>1, <1>2, <1>6, <1>7, <1>8, <1>10 DEF Deliver
-----------------------------------------------------------------------------
LEMMA InitInv == Init => WriterInv
<1> SUFFICES ASSUME Init PROVE WriterInv
  OBVIOUS
<1> USE WriterAssumption, QueueAssumption DEF Init, QueueInit
<1>1. TypeOK
  <2>1. queue \in Seq([entry : Entry, ready : BOOLEAN]) /\ delivered \in Seq(Entry)
    OBVIOUS
  <2>2. Len(queue) = 0 /\ Len(delivered) = 0 /\ 0 <= Cap /\ 0 \in 0..MaxPush /\ 0 \in 0..MaxFlush
    OBVIOUS
  <2>3. QueueTypeOK
    BY <2>1, <2>2 DEF QueueTypeOK
  <2>4. flushCh \in {{}} \union {{f} : f \in Flushers}
    OBVIOUS
  <2>5. flushes \in [Flushers -> 0..MaxFlush] /\ flushMark \in [Flushers -> Nat]
    BY <2>2
  <2>6. waking \subseteq Producers /\ replied \subseteq Flushers
        /\ wakeCh \in BOOLEAN /\ closeCh \in BOOLEAN /\ tick \in BOOLEAN
    OBVIOUS
  <2>7. /\ wpc \in {"select", "drain", "parked", "flush", "signal", "closing", "exited"}
        /\ needFlush \in BOOLEAN
        /\ flushFor \in Flushers \union {Loop, Exit}
        /\ flushed = 0
        /\ pendingAck \subseteq Entry /\ acked \subseteq Entry
    OBVIOUS
  <2>8. /\ fpc \in [Flushers -> {"idle", "wake", "retry", "wait"}]
        /\ kpc \in [Closers -> {"idle", "ring", "chan", "wait", "done"}]
        /\ awClosed \in BOOLEAN
        /\ closeMark \in Nat
    OBVIOUS
  <2> HIDE DEF Init
  <2> QED
    BY <2>3, <2>4, <2>5, <2>6, <2>7, <2>8 DEF TypeOK
<1>2. PushesOK /\ BufferOK /\ RequestsOK /\ ClosingOK
  BY DEF PushesOK, BufferOK, RequestsOK, ClosingOK, Leaving
<1> QED
  BY <1>1, <1>2 DEF WriterInv, NoLostWakeup, FlushIsScheduled, AckedIsCovered,
     NoAckLeftBehind, FlushCoversTaken

(* The parts that a step keeps which leaves the queue, the buffer and the  *)
(* writer's place alone.                                                   *)
LEMMA BeginInv ==
  ASSUME WriterInv, NEW p \in Producers, EmitPush(p), Begin(p)
  PROVE  WriterInv'
<1> USE WriterAssumption, QueueAssumption DEF WriterInv, channels, writer, buffer, flusher, closer
<1>1. /\ calls[p] < MaxPush /\ calls' = [calls EXCEPT ![p] = @ + 1]
      /\ stage' = IF closed THEN stage ELSE [stage EXCEPT ![p] = "in"]
      /\ stage[p] = "out"
      /\ UNCHANGED <<queue, delivered, closed>>
  BY DEF Begin
<1>2. waking' \in {waking, waking \cup {p}} /\ UNCHANGED <<channels, writer, flusher, closer>>
  BY DEF EmitPush, Refused, Owe, Begin, Accept, Reject, Publish
<1>3. TypeOK'
  <2>1. QueueTypeOK'
    BY <1>1 DEF TypeOK, QueueTypeOK
  <2> QED
    BY <1>1, <1>2, <2>1 DEF TypeOK
<1>4. PushesOK'
  BY <1>1 DEF PushesOK, TypeOK, QueueTypeOK
<1>5. (NoLostWakeup /\ FlushIsScheduled /\ AckedIsCovered /\ NoAckLeftBehind /\ FlushCoversTaken)'
  BY <1>1, <1>2 DEF NoLostWakeup, HeadReady, FlushIsScheduled, AckedIsCovered, Covered,
     NoAckLeftBehind, FlushCoversTaken
<1>6. (BufferOK /\ RequestsOK /\ ClosingOK)'
  BY <1>1, <1>2 DEF BufferOK, Taken, RequestsOK, ClosingOK, Leaving
<1> QED
  BY <1>3, <1>4, <1>5, <1>6

LEMMA AcceptInv ==
  ASSUME WriterInv, NEW p \in Producers, EmitPush(p), Accept(p), UNCHANGED waking
  PROVE  WriterInv'
<1> USE WriterAssumption, QueueAssumption DEF WriterInv, channels, writer, buffer, flusher, closer
<1> DEFINE x == [entry |-> Current(p), ready |-> FALSE]
<1>1. /\ stage[p] = "in" /\ stage' = [stage EXCEPT ![p] = "claimed"]
      /\ Len(queue) < Cap /\ queue' = Append(queue, x)
      /\ UNCHANGED <<calls, delivered, closed>>
  BY DEF Accept
<1>2. UNCHANGED <<waking, channels, writer, flusher, closer>>
  BY DEF EmitPush
<1>3. x \in QueueEntry /\ queue \in Seq(QueueEntry)
  <2>1. calls[p] \in 1..MaxPush
    BY <1>1 DEF PushesOK
  <2> QED
    BY <2>1 DEF TypeOK, QueueTypeOK, QueueEntry, Entry, Current
<1> HIDE DEF x
<1>4. /\ queue' \in Seq(QueueEntry) /\ Len(queue') = Len(queue) + 1 /\ Len(queue) \in Nat
      /\ \A i \in 1..Len(queue) : queue'[i] = queue[i]
      /\ queue'[Len(queue) + 1] = x
  BY <1>1, <1>3, AppendFacts
<1>5. ~x.ready
  BY DEF x
<1>6. TypeOK'
  <2>1. QueueTypeOK'
    BY <1>1, <1>4 DEF TypeOK, QueueTypeOK, QueueEntry
  <2> QED
    BY <1>1, <1>2, <2>1 DEF TypeOK
<1>7. PushesOK'
  BY <1>1 DEF PushesOK, TypeOK, QueueTypeOK
<1>8. NoLostWakeup'
  <2>1. HeadReady' => HeadReady
    <3>1. queue # <<>> => Len(queue) >= 1
      BY <1>3
    <3>2. queue' # <<>> /\ Head(queue') = queue'[1]
      BY <1>4
    <3>3. queue # <<>> => Head(queue) = queue[1]
      BY <1>3
    <3>4. queue = <<>> => queue'[1] = x
      BY <1>4
    <3> QED
      BY <1>4, <1>5, <3>1, <3>2, <3>3, <3>4 DEF HeadReady
  <2> QED
    BY <1>2, <2>1 DEF NoLostWakeup
<1>9. (FlushIsScheduled /\ AckedIsCovered /\ NoAckLeftBehind /\ FlushCoversTaken)'
  BY <1>1, <1>2 DEF FlushIsScheduled, AckedIsCovered, Covered, NoAckLeftBehind, FlushCoversTaken
<1>10. BufferOK' /\ RequestsOK'
  BY <1>1, <1>2 DEF BufferOK, Taken, RequestsOK
<1>11. ClosingOK'
  <2>1. Len(delivered) \in Nat /\ closeMark \in Nat
    BY DEF TypeOK, QueueTypeOK
  <2>2. closeMark <= Len(delivered) + Len(queue')
    BY <1>4, <2>1 DEF ClosingOK
  <2>3. ASSUME NEW i \in 1..Len(queue'), Len(delivered) + i <= closeMark
        PROVE  queue'[i].ready
    <3>1. i \in 1..Len(queue)
      BY <1>4, <2>1, <2>3 DEF ClosingOK
    <3> QED
      BY <1>4, <2>3, <3>1 DEF ClosingOK
  <2> QED
    BY <1>1, <1>2, <2>2, <2>3 DEF ClosingOK, Leaving
<1> QED
  BY <1>6, <1>7, <1>8, <1>9, <1>10, <1>11

LEMMA RejectInv ==
  ASSUME WriterInv, NEW p \in Producers, EmitPush(p), Reject(p)
  PROVE  WriterInv'
<1> USE WriterAssumption, QueueAssumption DEF WriterInv, channels, writer, buffer, flusher, closer
<1>1. /\ stage' = [stage EXCEPT ![p] = "out"]
      /\ UNCHANGED <<calls, queue, delivered, closed>>
  BY DEF Reject
<1>2. waking' \in {waking, waking \cup {p}} /\ UNCHANGED <<channels, writer, flusher, closer>>
  BY DEF EmitPush, Refused, Owe, Begin, Accept, Reject, Publish
<1>3. TypeOK'
  <2>1. QueueTypeOK'
    BY <1>1 DEF TypeOK, QueueTypeOK
  <2> QED
    BY <1>1, <1>2, <2>1 DEF TypeOK
<1>4. PushesOK'
  BY <1>1 DEF PushesOK, TypeOK, QueueTypeOK
<1>5. (NoLostWakeup /\ FlushIsScheduled /\ AckedIsCovered /\ NoAckLeftBehind /\ FlushCoversTaken)'
  BY <1>1, <1>2 DEF NoLostWakeup, HeadReady, FlushIsScheduled, AckedIsCovered, Covered,
     NoAckLeftBehind, FlushCoversTaken
<1>6. (BufferOK /\ RequestsOK /\ ClosingOK)'
  BY <1>1, <1>2 DEF BufferOK, Taken, RequestsOK, ClosingOK, Leaving
<1> QED
  BY <1>3, <1>4, <1>5, <1>6

(* The place a producer made visible may be the one a parked writer waits  *)
(* for: the producer owes a wake from here on.                             *)
LEMMA PublishInv ==
  ASSUME WriterInv, NEW p \in Producers, EmitPush(p), Publish(p), Owe(p)
  PROVE  WriterInv'
<1> USE WriterAssumption, QueueAssumption DEF WriterInv, channels, writer, buffer, flusher, closer
<1>1. /\ stage[p] = "claimed" /\ stage' = [stage EXCEPT ![p] = "out"]
      /\ queue' = MarkReady(queue, Current(p))
      /\ UNCHANGED <<calls, delivered, closed>>
  BY DEF Publish
<1>2. waking' = waking \cup {p} /\ UNCHANGED <<channels, writer, flusher, closer>>
  BY DEF EmitPush, Owe
<1>3. Current(p) \in Entry /\ queue \in Seq(QueueEntry)
  <2>1. calls[p] \in 1..MaxPush
    BY <1>1 DEF PushesOK
  <2> QED
    BY <2>1 DEF TypeOK, QueueTypeOK, QueueEntry, Entry, Current
<1>4. /\ queue' \in Seq(QueueEntry) /\ Len(queue') = Len(queue)
      /\ \A i \in 1..Len(queue) : queue[i].ready => queue'[i].ready
  BY <1>1, <1>3, MarkReadyFacts
<1>5. TypeOK'
  <2>1. QueueTypeOK'
    BY <1>1, <1>4 DEF TypeOK, QueueTypeOK, QueueEntry
  <2> QED
    BY <1>1, <1>2, <2>1 DEF TypeOK
<1>6. PushesOK'
  BY <1>1 DEF PushesOK, TypeOK, QueueTypeOK
<1>7. (NoLostWakeup /\ FlushIsScheduled /\ AckedIsCovered /\ NoAckLeftBehind /\ FlushCoversTaken)'
  BY <1>1, <1>2 DEF NoLostWakeup, FlushIsScheduled, AckedIsCovered, Covered, NoAckLeftBehind,
     FlushCoversTaken
<1>8. BufferOK' /\ RequestsOK'
  BY <1>1, <1>2 DEF BufferOK, Taken, RequestsOK
<1>9. ClosingOK'
  BY <1>1, <1>2, <1>4 DEF ClosingOK, Leaving
<1> QED
  BY <1>5, <1>6, <1>7, <1>8, <1>9

(* Two steps that put something into a channel for the writer.             *)
LEMMA WakeOrTickInv ==
  ASSUME WriterInv, (\E p \in Producers : EmitWake(p)) \/ Tick
  PROVE  WriterInv'
<1> USE WriterAssumption DEF WriterInv, queueVars, writer, buffer, flusher, closer
<1>1. /\ waking' \subseteq waking /\ wakeCh' \in BOOLEAN /\ tick' \in BOOLEAN
      /\ wakeCh' \/ (waking' = waking /\ wakeCh' = wakeCh)
      /\ UNCHANGED <<queueVars, flushCh, replied, closeCh, writer, flusher, closer>>
  BY DEF EmitWake, Tick, Wake, emitters, TypeOK
<1>2. TypeOK'
  <2>1. QueueTypeOK'
    BY <1>1 DEF TypeOK, QueueTypeOK
  <2> QED
    BY <1>1, <2>1 DEF TypeOK
<1>3. PushesOK'
  BY <1>1 DEF PushesOK
<1>4. (NoLostWakeup /\ FlushIsScheduled /\ AckedIsCovered /\ NoAckLeftBehind /\ FlushCoversTaken)'
  BY <1>1 DEF NoLostWakeup, HeadReady, FlushIsScheduled, AckedIsCovered, Covered,
     NoAckLeftBehind, FlushCoversTaken
<1>5. (BufferOK /\ RequestsOK /\ ClosingOK)'
  BY <1>1 DEF BufferOK, Taken, RequestsOK, ClosingOK, Leaving
<1> QED
  BY <1>2, <1>3, <1>4, <1>5
-----------------------------------------------------------------------------
(* The writer.                                                             *)

(* A turn of the loop that takes nothing: what changes is the writer's     *)
(* place, and what it took from a channel.                                 *)
LEMMA TurnInv ==
  ASSUME WriterInv, SelectClose \/ SelectTick \/ SelectWake \/ SelectDefault \/ DrainNone
  PROVE  WriterInv'
<1> USE WriterAssumption DEF WriterInv, queueVars, emitters, channels, buffer, flusher, closer, Selecting
<1>1. /\ UNCHANGED <<emitters, flushCh, replied, closeCh, needFlush, buffer, flusher, closer>>
      /\ wakeCh' \in BOOLEAN /\ tick' \in BOOLEAN
      /\ flushFor' \in {flushFor, Loop}
  BY DEF SelectClose, SelectTick, SelectWake, SelectDefault, DrainNone, TypeOK
<1>2. wpc \in {"select", "drain", "parked"} /\ wpc' \in {"select", "drain", "parked", "closing", "flush"}
  BY DEF SelectClose, SelectTick, SelectWake, SelectDefault, DrainNone
<1>3. /\ wpc' = "parked" => ~HeadReady
      /\ wpc' = "closing" => closeCh
  BY DEF SelectClose, SelectTick, SelectWake, SelectDefault, DrainNone
<1>4. flushFor \notin Flushers /\ flushFor # Exit
  BY <1>2 DEF RequestsOK, ClosingOK
<1>5. TypeOK'
  <2>1. QueueTypeOK'
    BY <1>1 DEF TypeOK, QueueTypeOK
  <2> QED
    BY <1>1, <1>2, <2>1 DEF TypeOK
<1>6. PushesOK'
  BY <1>1 DEF PushesOK
<1>7. (NoLostWakeup /\ FlushIsScheduled /\ AckedIsCovered /\ NoAckLeftBehind /\ FlushCoversTaken)'
  BY <1>1, <1>2, <1>3 DEF NoLostWakeup, HeadReady, FlushIsScheduled, AckedIsCovered, Covered,
     NoAckLeftBehind, FlushCoversTaken
<1>8. BufferOK' /\ RequestsOK'
  BY <1>1, <1>2, <1>4 DEF BufferOK, Taken, RequestsOK
<1>9. ClosingOK'
  BY <1>1, <1>2, <1>3, <1>4 DEF ClosingOK, Leaving
<1> QED
  BY <1>5, <1>6, <1>7, <1>8, <1>9

LEMMA SelectFlushInv ==
  ASSUME WriterInv, NEW f \in Flushers, SelectFlush(f)
  PROVE  WriterInv'
<1> USE WriterAssumption DEF WriterInv, queueVars, emitters, buffer, flusher, closer, Selecting
<1>1. /\ UNCHANGED <<emitters, wakeCh, replied, closeCh, tick, needFlush, buffer, flusher, closer>>
      /\ wpc' = "flush" /\ flushFor' = f /\ wpc \in {"select", "parked"} /\ f \in flushCh
  BY DEF SelectFlush
<1>2. flushCh' = {} /\ \A g \in flushCh : g = f
  BY <1>1 DEF SelectFlush, TypeOK
<1>3. f # Exit /\ f # Loop
  OBVIOUS
<1>4. TypeOK'
  <2>1. QueueTypeOK'
    BY <1>1 DEF TypeOK, QueueTypeOK
  <2> QED
    BY <1>1, <1>2, <2>1 DEF TypeOK
<1>5. PushesOK'
  BY <1>1 DEF PushesOK
<1>6. (NoLostWakeup /\ FlushIsScheduled /\ AckedIsCovered /\ NoAckLeftBehind /\ FlushCoversTaken)'
  BY <1>1 DEF NoLostWakeup, HeadReady, FlushIsScheduled, AckedIsCovered, Covered,
     NoAckLeftBehind, FlushCoversTaken
<1>7. BufferOK' /\ RequestsOK'
  BY <1>1, <1>2 DEF BufferOK, Taken, RequestsOK
<1>8. ClosingOK'
  BY <1>1, <1>3 DEF ClosingOK, Leaving
<1> QED
  BY <1>4, <1>5, <1>6, <1>7, <1>8

(* A batch is written.  What it adds to the buffer is flushed at once, or  *)
(* waits for the flush that the next step or needFlush stands for.         *)
LEMMA DrainSomeInv ==
  ASSUME WriterInv, NEW k, DrainSome(k)
  PROVE  WriterInv'
<1> DEFINE acks == pendingAck \cup {e \in Batch(k) : WantsAck(e)}
<1>1. /\ wpc \in {"drain", "closing"} /\ Deliver(k) /\ WriteBatch(k)
      /\ UNCHANGED <<waking, wakeCh, flushCh, replied, closeCh, tick, fpc, flushes, flushMark,
                     kpc, awClosed, closeMark, stage, calls, closed>>
  BY DEF DrainSome, Deliver, channels, flusher, closer
<1>2. /\ wpc' \in {"closing", "flush", "select"}
      /\ wpc' = "closing" <=> wpc = "closing"
      /\ wpc' = "select" => needFlush' /\ pendingAck' = {}
      /\ flushFor' \in {flushFor, Loop}
      /\ needFlush' \in BOOLEAN
  BY DEF DrainSome, WriterInv, TypeOK
<1>3. TypeOK /\ QueueTypeOK
  BY DEF WriterInv, TypeOK
<1>4. /\ k \in 1..Len(queue) /\ Len(queue) \in Nat /\ Len(delivered) \in Nat
      /\ delivered' \in Seq(Entry)
      /\ Len(delivered') = Len(delivered) + k
      /\ \A i \in 1..Len(delivered) : delivered'[i] = delivered[i]
      /\ \A i \in 1..k : delivered'[Len(delivered) + i] = queue[i].entry
      /\ queue' \in Seq(QueueEntry)
      /\ Len(queue') = Len(queue) - k
      /\ \A i \in 1..Len(queue') : queue'[i] = queue[i + k]
      /\ \A i \in 1..k : queue[i] \in QueueEntry /\ queue[i].ready
  BY <1>1, <1>3, DeliverFacts
<1>5. flushed \in 0..Len(delivered) /\ closeMark \in Nat /\ flushMark \in [Flushers -> Nat]
  BY <1>3 DEF TypeOK
<1>6. \/ flushed' = Len(delivered') /\ pendingAck' = {} /\ acked' = acked \cup acks
      \/ flushed' = flushed /\ pendingAck' = acks /\ acked' = acked
  BY <1>1 DEF WriteBatch
<1>7. acks \subseteq Entry /\ \A e \in acks : Taken(e)'
  <2>1. ASSUME NEW e \in Batch(k) PROVE e \in Entry /\ Taken(e)'
    <3>1. PICK i \in 1..k : e = queue[i].entry
      BY DEF Batch
    <3>2. Len(delivered) + i \in 1..Len(delivered')
      BY <1>4
    <3> QED
      BY <1>4, <3>1, <3>2 DEF Taken, QueueEntry
  <2>2. ASSUME NEW e \in pendingAck PROVE e \in Entry /\ Taken(e)'
    <3>1. PICK i \in 1..Len(delivered) : delivered[i] = e
      BY DEF WriterInv, BufferOK, Taken
    <3>2. i \in 1..Len(delivered')
      BY <1>4
    <3> QED
      BY <1>3, <1>4, <3>1, <3>2 DEF Taken, TypeOK
  <2> QED
    BY <2>1, <2>2
<1> HIDE DEF acks
<1>8. flushed' \in flushed..Len(delivered')
  BY <1>4, <1>5, <1>6
<1>9. flushFor \notin Flushers /\ flushFor # Exit /\ flushFor' \notin Flushers /\ flushFor' # Exit
      /\ flushFor' \in Flushers \cup {Loop, Exit}
  BY <1>1, <1>2, <1>3, WriterAssumption DEF WriterInv, RequestsOK, ClosingOK, TypeOK
<1>10. TypeOK'
  <2>1. QueueTypeOK'
    <3>1. Len(queue') <= Cap
      BY <1>3, <1>4, QueueAssumption DEF QueueTypeOK
    <3> QED
      BY <1>1, <1>3, <1>4, <3>1 DEF QueueTypeOK, QueueEntry
  <2>2. flushed' \in 0..Len(delivered')
    BY <1>4, <1>5, <1>8
  <2>3. pendingAck' \subseteq Entry /\ acked' \subseteq Entry
    BY <1>3, <1>6, <1>7 DEF TypeOK
  <2> QED
    BY <1>1, <1>2, <1>3, <1>9, <2>1, <2>2, <2>3 DEF TypeOK
<1>11. PushesOK'
  BY <1>1 DEF WriterInv, PushesOK
<1>12. NoLostWakeup' /\ FlushIsScheduled' /\ NoAckLeftBehind'
  BY <1>2 DEF NoLostWakeup, FlushIsScheduled, NoAckLeftBehind
<1>13. AckedIsCovered'
  <2> SUFFICES ASSUME NEW e \in acked' PROVE Covered(e)'
    BY DEF AckedIsCovered
  <2>1. CASE e \in acked
    <3>1. PICK i \in 1..flushed : delivered[i] = e
      BY <2>1 DEF WriterInv, AckedIsCovered, Covered
    <3>2. i \in 1..Len(delivered) /\ i \in 1..flushed'
      BY <1>4, <1>5, <1>8
    <3> QED
      BY <1>4, <3>1, <3>2 DEF Covered
  <2>2. CASE e \notin acked
    BY <1>6, <1>7, <2>2 DEF Covered, Taken
  <2> QED
    BY <2>1, <2>2
<1>14. FlushCoversTaken'
  <2> SUFFICES ASSUME NEW f \in replied' PROVE flushed' >= flushMark[f]
    BY <1>1 DEF FlushCoversTaken
  <2>1. f \in Flushers /\ flushed >= flushMark[f]
    BY <1>1, <1>3 DEF WriterInv, FlushCoversTaken, TypeOK
  <2> QED
    BY <1>4, <1>5, <1>8, <2>1
<1>15. BufferOK'
  BY <1>2, <1>6, <1>7 DEF BufferOK
<1>16. RequestsOK'
  <2>1. ASSUME NEW f \in Flushers PROVE flushMark[f] <= Len(delivered')
    BY <1>4, <1>5 DEF WriterInv, RequestsOK
  <2> QED
    BY <1>1, <1>9, <2>1 DEF WriterInv, RequestsOK
<1>17. ClosingOK'
  <2>1. closeMark <= Len(delivered') + Len(queue')
    BY <1>4, <1>5 DEF WriterInv, ClosingOK
  <2>2. ASSUME NEW i \in 1..Len(queue'), Len(delivered') + i <= closeMark
        PROVE  queue'[i].ready
    <3>1. i + k \in 1..Len(queue) /\ Len(delivered) + (i + k) <= closeMark
      BY <1>4, <1>5, <2>2
    <3>2. queue[i + k].ready
      BY <3>1 DEF WriterInv, ClosingOK
    <3> QED
      BY <1>4, <3>2
  <2> QED
    BY <1>1, <1>2, <1>9, <2>1, <2>2 DEF WriterInv, ClosingOK, Leaving
<1> QED
  BY <1>10, <1>11, <1>12, <1>13, <1>14, <1>15, <1>16, <1>17 DEF WriterInv

(* The final drain is over when nothing visible is left at the front, so   *)
(* all that was visible when the ring closed is taken.                     *)
LEMMA CloseDrainedInv ==
  ASSUME WriterInv, CloseDrained
  PROVE  WriterInv'
<1> USE WriterAssumption DEF WriterInv, queueVars, emitters, channels, buffer, flusher, closer
<1>1. /\ UNCHANGED <<emitters, channels, needFlush, buffer, flusher, closer>>
      /\ wpc = "closing" /\ ~HeadReady /\ wpc' = "flush" /\ flushFor' = Exit
  BY DEF CloseDrained
<1>2. closeMark <= Len(delivered)
  <2>1. queue \in Seq(QueueEntry) /\ Len(delivered) \in Nat /\ closeMark \in Nat /\ Len(queue) \in Nat
    BY DEF TypeOK, QueueTypeOK, QueueEntry
  <2>2. ASSUME ~(closeMark <= Len(delivered)) PROVE FALSE
    <3>1. 1 \in 1..Len(queue) /\ Len(delivered) + 1 <= closeMark
      BY <2>1, <2>2 DEF ClosingOK
    <3>2. queue[1].ready
      BY <3>1 DEF ClosingOK
    <3>3. queue # <<>> /\ Head(queue) = queue[1]
      BY <2>1, <3>1
    <3> QED
      BY <1>1, <3>2, <3>3 DEF HeadReady
  <2> QED
    BY <2>2
<1>3. TypeOK'
  <2>1. QueueTypeOK'
    BY <1>1 DEF TypeOK, QueueTypeOK
  <2> QED
    BY <1>1, <2>1 DEF TypeOK
<1>4. PushesOK'
  BY <1>1 DEF PushesOK
<1>5. (NoLostWakeup /\ FlushIsScheduled /\ AckedIsCovered /\ NoAckLeftBehind /\ FlushCoversTaken)'
  BY <1>1 DEF NoLostWakeup, FlushIsScheduled, AckedIsCovered, Covered, NoAckLeftBehind,
     FlushCoversTaken
<1>6. BufferOK' /\ RequestsOK'
  BY <1>1 DEF BufferOK, Taken, RequestsOK
<1>7. ClosingOK'
  BY <1>1, <1>2 DEF ClosingOK, Leaving
<1> QED
  BY <1>3, <1>4, <1>5, <1>6, <1>7

(* flushBuf covers the buffer, then the acks and the answer go out.        *)
LEMMA FlushBufInv ==
  ASSUME WriterInv, FlushBuf
  PROVE  WriterInv'
<1> USE WriterAssumption DEF WriterInv, queueVars, emitters, channels, flusher, closer
<1>1. /\ UNCHANGED <<emitters, channels, needFlush, flushFor, pendingAck, acked, flusher, closer>>
      /\ wpc = "flush" /\ wpc' = "signal" /\ flushed' = Len(delivered)
  BY DEF FlushBuf
<1>2. Len(delivered) \in Nat /\ flushed \in 0..Len(delivered) /\ flushMark \in [Flushers -> Nat]
  BY DEF TypeOK, QueueTypeOK
<1>3. TypeOK'
  <2>1. QueueTypeOK'
    BY <1>1 DEF TypeOK, QueueTypeOK
  <2> QED
    BY <1>1, <1>2, <2>1 DEF TypeOK
<1>4. PushesOK'
  BY <1>1 DEF PushesOK
<1>5. (NoLostWakeup /\ FlushIsScheduled /\ NoAckLeftBehind)'
  BY <1>1 DEF NoLostWakeup, FlushIsScheduled, NoAckLeftBehind
<1>6. AckedIsCovered'
  BY <1>1, <1>2 DEF AckedIsCovered, Covered
<1>7. FlushCoversTaken'
  BY <1>1, <1>2 DEF FlushCoversTaken, RequestsOK, TypeOK
<1>8. BufferOK' /\ RequestsOK'
  BY <1>1 DEF BufferOK, Taken, RequestsOK
<1>9. ClosingOK'
  BY <1>1 DEF ClosingOK, Leaving
<1> QED
  BY <1>3, <1>4, <1>5, <1>6, <1>7, <1>8, <1>9

LEMMA SignalAcksInv ==
  ASSUME WriterInv, SignalAcks
  PROVE  WriterInv'
<1> USE WriterAssumption DEF WriterInv, queueVars, emitters, flusher, closer
<1>1. /\ UNCHANGED <<emitters, wakeCh, flushCh, closeCh, tick, flushed, flusher, closer>>
      /\ wpc = "signal" /\ acked' = acked \cup pendingAck /\ pendingAck' = {} /\ ~needFlush'
      /\ replied' = IF flushFor \in Flushers THEN replied \cup {flushFor} ELSE replied
      /\ wpc' = IF flushFor = Exit THEN "exited" ELSE "select"
      /\ flushFor' = Loop
  BY DEF SignalAcks, TypeOK
<1>2. flushed = Len(delivered) /\ flushed \in Nat /\ flushMark \in [Flushers -> Nat]
  BY <1>1 DEF TypeOK, QueueTypeOK, BufferOK
<1>3. TypeOK'
  <2>1. QueueTypeOK'
    BY <1>1 DEF TypeOK, QueueTypeOK
  <2>2. replied' \subseteq Flushers /\ acked' \subseteq Entry /\ needFlush' \in BOOLEAN
    BY <1>1 DEF TypeOK, SignalAcks
  <2> QED
    BY <1>1, <2>1, <2>2 DEF TypeOK
<1>4. PushesOK'
  BY <1>1 DEF PushesOK
<1>5. (NoLostWakeup /\ FlushIsScheduled /\ NoAckLeftBehind)'
  BY <1>1, <1>2 DEF NoLostWakeup, FlushIsScheduled, NoAckLeftBehind
<1>6. AckedIsCovered'
  BY <1>1, <1>2 DEF AckedIsCovered, Covered, BufferOK, Taken
<1>7. FlushCoversTaken'
  BY <1>1, <1>2 DEF FlushCoversTaken, RequestsOK, TypeOK
<1>8. BufferOK'
  BY <1>1, <1>2 DEF BufferOK
<1>9. RequestsOK'
  BY <1>1 DEF RequestsOK
<1>10. ClosingOK'
  BY <1>1 DEF ClosingOK, Leaving
<1> QED
  BY <1>3, <1>4, <1>5, <1>6, <1>7, <1>8, <1>9, <1>10
-----------------------------------------------------------------------------
(* flush. *)

LEMMA FlushCallInv ==
  ASSUME WriterInv, NEW f \in Flushers, FlushCall(f)
  PROVE  WriterInv'
<1> USE WriterAssumption DEF WriterInv, queueVars, emitters, writer, buffer, closer
<1>1. /\ UNCHANGED <<emitters, wakeCh, replied, closeCh, tick, writer, closer>>
      /\ fpc[f] = "idle" /\ flushes[f] < MaxFlush
      /\ flushes' = [flushes EXCEPT ![f] = @ + 1]
      /\ flushMark' = [flushMark EXCEPT ![f] = Len(delivered)]
      /\ \/ flushCh = {} /\ flushCh' = {f} /\ fpc' = [fpc EXCEPT ![f] = "wait"]
         \/ flushCh' = flushCh /\ fpc' = [fpc EXCEPT ![f] = "wake"]
  BY DEF FlushCall, Send
<1>2. Len(delivered) \in Nat
  BY DEF TypeOK, QueueTypeOK
<1>3. f \notin flushCh /\ f \notin replied /\ flushFor # f
  BY <1>1 DEF RequestsOK
<1>4. TypeOK'
  <2>1. QueueTypeOK'
    BY <1>1 DEF TypeOK, QueueTypeOK
  <2>2. flushes' \in [Flushers -> 0..MaxFlush]
    <3>1. flushes[f] + 1 \in 0..MaxFlush
      BY <1>1 DEF TypeOK
    <3> QED
      BY <1>1, <3>1 DEF TypeOK
  <2>3. flushMark' \in [Flushers -> Nat]
    BY <1>1, <1>2 DEF TypeOK
  <2>4. /\ fpc' \in [Flushers -> {"idle", "wake", "retry", "wait"}]
        /\ flushCh' \in {{}} \cup {{g} : g \in Flushers}
    BY <1>1 DEF TypeOK
  <2> QED
    BY <1>1, <2>1, <2>2, <2>3, <2>4 DEF TypeOK
<1>5. PushesOK'
  BY <1>1 DEF PushesOK
<1>6. (NoLostWakeup /\ FlushIsScheduled /\ AckedIsCovered /\ NoAckLeftBehind)'
  BY <1>1 DEF NoLostWakeup, HeadReady, FlushIsScheduled, AckedIsCovered, Covered, NoAckLeftBehind
<1>7. FlushCoversTaken'
  BY <1>1, <1>3 DEF FlushCoversTaken, TypeOK
<1>8. BufferOK' /\ ClosingOK'
  BY <1>1 DEF BufferOK, Taken, ClosingOK, Leaving
<1>9. RequestsOK'
  <2> SUFFICES ASSUME NEW g \in Flushers
               PROVE  /\ g \in flushCh' => fpc'[g] = "wait" /\ g \notin replied /\ flushFor # g
                      /\ g \in replied => fpc'[g] = "wait" /\ flushFor # g
                      /\ flushFor = g => fpc'[g] = "wait"
                      /\ flushMark'[g] <= Len(delivered)
    BY <1>1 DEF RequestsOK
  <2>1. CASE g = f
    BY <1>1, <1>2, <1>3, <2>1 DEF TypeOK
  <2>2. CASE g # f
    BY <1>1, <2>2 DEF RequestsOK, TypeOK
  <2> QED
    BY <2>1, <2>2
<1> QED
  BY <1>4, <1>5, <1>6, <1>7, <1>8, <1>9

LEMMA FlushRetryInv ==
  ASSUME WriterInv, NEW f \in Flushers, FlushRetry(f)
  PROVE  WriterInv'
<1> USE WriterAssumption DEF WriterInv, queueVars, emitters, writer, buffer, closer
<1>1. /\ UNCHANGED <<emitters, wakeCh, replied, closeCh, tick, writer, flushes, flushMark, closer>>
      /\ fpc[f] = "retry"
      /\ \/ flushCh = {} /\ flushCh' = {f} /\ fpc' = [fpc EXCEPT ![f] = "wait"]
         \/ flushCh' = flushCh /\ fpc' = [fpc EXCEPT ![f] = "idle"]
  BY DEF FlushRetry, Send
<1>2. f \notin flushCh /\ f \notin replied /\ flushFor # f
  BY <1>1 DEF RequestsOK
<1>3. TypeOK'
  <2>1. QueueTypeOK'
    BY <1>1 DEF TypeOK, QueueTypeOK
  <2>2. /\ fpc' \in [Flushers -> {"idle", "wake", "retry", "wait"}]
        /\ flushCh' \in {{}} \cup {{g} : g \in Flushers}
    BY <1>1 DEF TypeOK
  <2> QED
    BY <1>1, <2>1, <2>2 DEF TypeOK
<1>4. PushesOK'
  BY <1>1 DEF PushesOK
<1>5. (NoLostWakeup /\ FlushIsScheduled /\ AckedIsCovered /\ NoAckLeftBehind /\ FlushCoversTaken)'
  BY <1>1 DEF NoLostWakeup, HeadReady, FlushIsScheduled, AckedIsCovered, Covered, NoAckLeftBehind,
     FlushCoversTaken
<1>6. BufferOK' /\ ClosingOK'
  BY <1>1 DEF BufferOK, Taken, ClosingOK, Leaving
<1>7. RequestsOK'
  BY <1>1, <1>2 DEF RequestsOK, TypeOK
<1> QED
  BY <1>3, <1>4, <1>5, <1>6, <1>7

LEMMA FlushWakeInv ==
  ASSUME WriterInv, NEW f \in Flushers, FlushWake(f)
  PROVE  WriterInv'
<1> USE WriterAssumption DEF WriterInv, queueVars, emitters, writer, buffer, closer
<1>1. /\ UNCHANGED <<emitters, flushCh, replied, closeCh, tick, writer, flushes, flushMark, closer>>
      /\ fpc[f] = "wake" /\ wakeCh' = TRUE /\ fpc' = [fpc EXCEPT ![f] = "retry"]
  BY DEF FlushWake, Wake
<1>2. TypeOK'
  <2>1. QueueTypeOK'
    BY <1>1 DEF TypeOK, QueueTypeOK
  <2> QED
    BY <1>1, <2>1 DEF TypeOK
<1>3. PushesOK'
  BY <1>1 DEF PushesOK
<1>4. (NoLostWakeup /\ FlushIsScheduled /\ AckedIsCovered /\ NoAckLeftBehind /\ FlushCoversTaken)'
  BY <1>1 DEF NoLostWakeup, FlushIsScheduled, AckedIsCovered, Covered, NoAckLeftBehind,
     FlushCoversTaken
<1>5. BufferOK' /\ ClosingOK'
  BY <1>1 DEF BufferOK, Taken, ClosingOK, Leaving
<1>6. RequestsOK'
  BY <1>1 DEF RequestsOK, TypeOK
<1> QED
  BY <1>2, <1>3, <1>4, <1>5, <1>6

LEMMA FlushReturnInv ==
  ASSUME WriterInv, NEW f \in Flushers, FlushReturn(f)
  PROVE  WriterInv'
<1> USE WriterAssumption DEF WriterInv, queueVars, emitters, writer, buffer, closer
<1>1. /\ UNCHANGED <<emitters, wakeCh, flushCh, closeCh, tick, writer, flushes, closer>>
      /\ f \in replied /\ replied' = replied \ {f} /\ fpc' = [fpc EXCEPT ![f] = "idle"]
      /\ flushMark' = [flushMark EXCEPT ![f] = 0]
  BY DEF FlushReturn
<1>2. TypeOK'
  <2>1. QueueTypeOK'
    BY <1>1 DEF TypeOK, QueueTypeOK
  <2> QED
    BY <1>1, <2>1 DEF TypeOK
<1>3. PushesOK'
  BY <1>1 DEF PushesOK
<1>4. (NoLostWakeup /\ FlushIsScheduled /\ AckedIsCovered /\ NoAckLeftBehind)'
  BY <1>1 DEF NoLostWakeup, HeadReady, FlushIsScheduled, AckedIsCovered, Covered, NoAckLeftBehind
<1>5. FlushCoversTaken'
  BY <1>1 DEF FlushCoversTaken, TypeOK
<1>6. BufferOK' /\ ClosingOK'
  BY <1>1 DEF BufferOK, Taken, ClosingOK, Leaving
<1>7. RequestsOK'
  <2>1. Len(delivered) \in Nat
    BY DEF TypeOK, QueueTypeOK
  <2> QED
    BY <1>1, <2>1 DEF RequestsOK, TypeOK
<1> QED
  BY <1>2, <1>3, <1>4, <1>5, <1>6, <1>7

-----------------------------------------------------------------------------
(* close. *)

(* What the writer could take if nothing more became visible: all of it is *)
(* visible, and it is no more than the ring holds.                         *)
LEMMA FrontFacts ==
  ASSUME QueueTypeOK
  PROVE  /\ Front \in Nat /\ Front <= Len(delivered) + Len(queue)
         /\ \A i \in 1..Len(queue) : Len(delivered) + i <= Front => queue[i].ready
<1> DEFINE n == Len(queue)
           Edge(k) == /\ \A i \in 1..k : queue[i].ready
                      /\ k < n => ~queue[k + 1].ready
           Gaps == {i \in 0..n - 1 : ~queue[i + 1].ready}
<1>1. n \in Nat /\ Len(delivered) \in Nat
  BY DEF QueueTypeOK
<1> HIDE DEF n
<1>2. \E k \in 0..n : Edge(k)
  <2>1. CASE Gaps = {}
    <3>1. \A i \in 1..n : queue[i].ready
      <4> SUFFICES ASSUME NEW i \in 1..n, ~queue[i].ready PROVE FALSE
        OBVIOUS
      <4>1. i - 1 \in 0..n - 1 /\ (i - 1) + 1 = i
        BY <1>1
      <4> QED
        BY <2>1, <4>1
    <3> QED
      BY <1>1, <3>1
  <2>2. CASE Gaps # {}
    <3>1. Gaps \subseteq Nat
      BY <1>1
    <3>2. PICK k \in Gaps : \A j \in Gaps : k <= j
      BY <2>2, <3>1, LeastIsIn
    <3>3. \A i \in 1..k : queue[i].ready
      <4> SUFFICES ASSUME NEW i \in 1..k, ~queue[i].ready PROVE FALSE
        OBVIOUS
      <4>1. i - 1 \in 0..n - 1 /\ (i - 1) + 1 = i /\ ~(k <= i - 1)
        BY <1>1, <3>2
      <4> QED
        BY <3>2, <4>1
    <3> QED
      BY <1>1, <3>2, <3>3
  <2> QED
    BY <2>1, <2>2
<1>3. PICK k : k = CHOOSE j \in 0..n : Edge(j)
  OBVIOUS
<1>4. k \in 0..n /\ Edge(k)
  BY <1>2, <1>3
<1>5. Front = Len(delivered) + k
  BY <1>3 DEF Front, n
<1>6. ASSUME NEW i \in 1..n, Len(delivered) + i <= Len(delivered) + k PROVE queue[i].ready
  <2>1. i \in 1..k
    BY <1>1, <1>4, <1>6
  <2> QED
    BY <1>4, <2>1
<1>7. Len(delivered) + k \in Nat /\ Len(delivered) + k <= Len(delivered) + n
  BY <1>1, <1>4
<1> QED
  BY <1>5, <1>6, <1>7 DEF n

LEMMA CloseRingInv ==
  ASSUME WriterInv, NEW c \in Closers, CloseRing(c)
  PROVE  WriterInv'
<1> USE WriterAssumption DEF WriterInv, channels, writer, buffer, flusher
<1>1. /\ UNCHANGED <<stage, calls, queue, delivered, waking, channels, writer, flusher, awClosed>>
      /\ ~closed /\ closed' = TRUE /\ closeMark' = Front
      /\ kpc' = [kpc EXCEPT ![c] = "chan"]
  BY DEF CloseRing, Close
<1>2. /\ Front \in Nat /\ Front <= Len(delivered) + Len(queue)
      /\ \A i \in 1..Len(queue) : Len(delivered) + i <= Front => queue[i].ready
  BY FrontFacts DEF TypeOK
<1> HIDE DEF Front
<1>3. TypeOK'
  <2>1. QueueTypeOK'
    BY <1>1 DEF TypeOK, QueueTypeOK
  <2> QED
    BY <1>1, <1>2, <2>1 DEF TypeOK
<1>4. PushesOK'
  BY <1>1 DEF PushesOK
<1>5. (NoLostWakeup /\ FlushIsScheduled /\ AckedIsCovered /\ NoAckLeftBehind /\ FlushCoversTaken)'
  BY <1>1 DEF NoLostWakeup, HeadReady, FlushIsScheduled, AckedIsCovered, Covered, NoAckLeftBehind,
     FlushCoversTaken
<1>6. BufferOK' /\ RequestsOK'
  BY <1>1 DEF BufferOK, Taken, RequestsOK
<1>7. ClosingOK'
  <2>1. ~closeCh /\ wpc # "closing" /\ ~Leaving
    BY <1>1 DEF ClosingOK
  <2>2. ~Leaving'
    BY <1>1, <2>1 DEF Leaving
  <2> QED
    BY <1>1, <1>2, <2>1, <2>2 DEF ClosingOK, Leaving
<1> QED
  BY <1>3, <1>4, <1>5, <1>6, <1>7

(* The steps of close that leave the ring alone.                           *)
LEMMA CloseOtherInv ==
  ASSUME WriterInv, NEW c \in Closers, CloseCall(c) \/ CloseChan(c) \/ CloseReturn(c)
  PROVE  WriterInv'
<1> USE WriterAssumption DEF WriterInv, queueVars, emitters, writer, buffer, flusher
<1>1. /\ UNCHANGED <<emitters, wakeCh, flushCh, replied, tick, writer, flusher, closeMark>>
      /\ \/ kpc' = [kpc EXCEPT ![c] = IF awClosed THEN "done" ELSE "ring"] /\ closeCh' = closeCh
         \/ kpc[c] = "chan" /\ kpc' = [kpc EXCEPT ![c] = "wait"] /\ closeCh' = TRUE
         \/ kpc' = [kpc EXCEPT ![c] = "done"] /\ closeCh' = closeCh
      /\ awClosed' \in BOOLEAN
  BY DEF CloseCall, CloseChan, CloseReturn, channels, TypeOK
<1>2. TypeOK'
  <2>1. QueueTypeOK'
    BY <1>1 DEF TypeOK, QueueTypeOK
  <2>2. kpc' \in [Closers -> {"idle", "ring", "chan", "wait", "done"}] /\ closeCh' \in BOOLEAN
    BY <1>1 DEF TypeOK
  <2> QED
    BY <1>1, <2>1, <2>2 DEF TypeOK
<1>3. PushesOK'
  BY <1>1 DEF PushesOK
<1>4. (NoLostWakeup /\ FlushIsScheduled /\ AckedIsCovered /\ NoAckLeftBehind /\ FlushCoversTaken)'
  BY <1>1 DEF NoLostWakeup, HeadReady, FlushIsScheduled, AckedIsCovered, Covered, NoAckLeftBehind,
     FlushCoversTaken
<1>5. BufferOK' /\ RequestsOK'
  BY <1>1 DEF BufferOK, Taken, RequestsOK
<1>6. ClosingOK'
  <2>1. closeCh' => closed
    BY <1>1 DEF ClosingOK
  <2>2. \A d \in Closers : kpc'[d] = "chan" => closed
    BY <1>1 DEF ClosingOK, TypeOK
  <2>3. (wpc = "closing" \/ Leaving => closeCh') /\ Leaving' = Leaving
    BY <1>1 DEF ClosingOK, Leaving
  <2> QED
    BY <1>1, <2>1, <2>2, <2>3 DEF ClosingOK
<1> QED
  BY <1>2, <1>3, <1>4, <1>5, <1>6
-----------------------------------------------------------------------------
LEMMA StepInv == WriterInv /\ [Next]_vars => WriterInv'
<1> SUFFICES ASSUME WriterInv, [Next]_vars PROVE WriterInv'
  OBVIOUS
<1>1. ASSUME NEW p \in Producers, EmitPush(p) PROVE WriterInv'
  <2>1. CASE Begin(p)
    BY <1>1, <2>1, BeginInv
  <2>2. CASE Accept(p) /\ UNCHANGED waking
    BY <1>1, <2>2, AcceptInv
  <2>3. CASE Reject(p)
    BY <1>1, <2>3, RejectInv
  <2>4. CASE Publish(p) /\ Owe(p)
    BY <1>1, <2>4, PublishInv
  <2> QED
    BY <1>1, <2>1, <2>2, <2>3, <2>4 DEF EmitPush
<1>2. CASE (\E p \in Producers : EmitWake(p)) \/ Tick
  BY <1>2, WakeOrTickInv
<1>3. CASE WriterStep
  <2>1. CASE SelectClose \/ SelectTick \/ SelectWake \/ SelectDefault \/ DrainNone
    BY <2>1, TurnInv
  <2>2. CASE \E f \in Flushers : SelectFlush(f)
    BY <2>2, SelectFlushInv
  <2>3. CASE \E k \in 1..MaxBatch : DrainSome(k)
    BY <2>3, DrainSomeInv
  <2>4. CASE CloseDrained
    BY <2>4, CloseDrainedInv
  <2>5. CASE FlushBuf
    BY <2>5, FlushBufInv
  <2>6. CASE SignalAcks
    BY <2>6, SignalAcksInv
  <2> QED
    BY <1>3, <2>1, <2>2, <2>3, <2>4, <2>5, <2>6 DEF WriterStep
<1>4. ASSUME NEW f \in Flushers, FlushCall(f) \/ FlushStep(f) PROVE WriterInv'
  BY <1>4, FlushCallInv, FlushRetryInv, FlushWakeInv, FlushReturnInv DEF FlushStep
<1>5. ASSUME NEW c \in Closers, CloseCall(c) \/ CloseStep(c) PROVE WriterInv'
  BY <1>5, CloseRingInv, CloseOtherInv DEF CloseStep
<1>6. CASE UNCHANGED vars
  <2> USE DEF WriterInv, vars, queueVars, emitters, channels, writer, buffer, flusher, closer
  <2>1. TypeOK' /\ PushesOK'
    BY <1>6 DEF TypeOK, QueueTypeOK, PushesOK
  <2>2. (NoLostWakeup /\ FlushIsScheduled /\ AckedIsCovered /\ NoAckLeftBehind /\ FlushCoversTaken)'
    BY <1>6 DEF NoLostWakeup, HeadReady, FlushIsScheduled, AckedIsCovered, Covered,
       NoAckLeftBehind, FlushCoversTaken
  <2>3. (BufferOK /\ RequestsOK /\ ClosingOK)'
    BY <1>6 DEF BufferOK, Taken, RequestsOK, ClosingOK, Leaving
  <2> QED
    BY <2>1, <2>2, <2>3
<1> QED
  BY <1>1, <1>2, <1>3, <1>4, <1>5, <1>6 DEF Next

(* Every behaviour of the writer and its callers keeps the invariant.      *)
THEOREM WriterInvariant == Spec => []WriterInv
<1> QED
  BY InitInv, StepInv, PTL DEF Spec

(* The variables keep their types.                                         *)
THEOREM TypeCorrect == Spec => []TypeOK
<1>1. WriterInv => TypeOK
  BY DEF WriterInv
<1> QED
  BY <1>1, WriterInvariant, PTL

(* wake and the inner select: the writer is not parked with a visible      *)
(* entry at the front of the ring unless a token is in wakeCh or on its    *)
(* way there.                                                              *)
THEOREM WakeupsAreNotLost == Spec => []NoLostWakeup
<1>1. WriterInv => NoLostWakeup
  BY DEF WriterInv
<1> QED
  BY <1>1, WriterInvariant, PTL

(* writerLoop: no turn of the loop begins with written entries that are    *)
(* not flushed and needFlush reset.                                        *)
THEOREM FlushesAreScheduled == Spec => []FlushIsScheduled
<1>1. WriterInv => FlushIsScheduled
  BY DEF WriterInv
<1> QED
  BY <1>1, WriterInvariant, PTL

(* flushBuf and writeBatch: no ack channel is closed before a flushBuf has *)
(* covered its entry.                                                      *)
THEOREM AcksFollowFlush == Spec => []AckedIsCovered
<1>1. WriterInv => AckedIsCovered
  BY DEF WriterInv
<1> QED
  BY <1>1, WriterInvariant, PTL

(* writerLoop: no ack is pending when the loop turns, parks or returns.    *)
THEOREM AcksAreNotLeft == Spec => []NoAckLeftBehind
<1>1. WriterInv => NoAckLeftBehind
  BY DEF WriterInv
<1> QED
  BY <1>1, WriterInvariant, PTL

(* flush: what the writer had taken when Flush was called is covered by a  *)
(* flushBuf when the answer is there.                                      *)
THEOREM FlushesCover == Spec => []FlushCoversTaken
<1>1. WriterInv => FlushCoversTaken
  BY DEF WriterInv
<1> QED
  BY <1>1, WriterInvariant, PTL

(* close: the writer exits when a flushBuf has covered all that it took    *)
(* and all that was visible at the front of the ring when the ring closed. *)
THEOREM ExitLosesNothing == Spec => []ExitCoversFront
<1>1. WriterInv => ExitCoversFront
  <2> SUFFICES ASSUME WriterInv, wpc = "exited"
               PROVE  flushed = Len(delivered) /\ flushed >= closeMark
    BY DEF ExitCoversFront
  <2>1. flushed = Len(delivered) /\ closeMark <= Len(delivered)
    BY DEF WriterInv, BufferOK, ClosingOK, Leaving
  <2>2. flushed \in Nat /\ closeMark \in Nat
    BY <2>1 DEF WriterInv, TypeOK, QueueTypeOK
  <2> QED
    BY <2>1, <2>2
<1> QED
  BY <1>1, WriterInvariant, PTL
=============================================================================
