----------------------------- MODULE AsyncWriter -----------------------------
(***************************************************************************)
(* async_writer.go and its callers in mlog_file.go: goroutines that log    *)
(* push their entry and wake the writer; the writer goroutine drains the   *)
(* ring, writes what it took to its buffer and flushes; Flush and Close    *)
(* talk to the writer over channels.                                       *)
(*                                                                         *)
(* The ring is LogQueue, which RingBuffer implements.  The writer takes    *)
(* entries in the order of delivered and writes them in that order, so its *)
(* buffer is the part of delivered beyond the first `flushed` entries.     *)
(*                                                                         *)
(* Whether a flushBuf succeeds makes no difference here: its deferred      *)
(* signalAcks runs whichever of its calls fails, and the loop goes on.  So *)
(* `flushed` says what a flushBuf has covered, and not what has got to the *)
(* disk: what its calls do to buffers and files is in Sink.                *)
(***************************************************************************)
EXTENDS LogQueue

CONSTANTS ErrorProducers,  (* those that log at ERROR: their entries       *)
                           (* carry an ack channel                         *)
          Flushers,        (* goroutines that call Flush                   *)
          MaxFlush,        (* bound: calls of Flush by each                *)
          Closers,         (* goroutines that call Close                   *)
          MaxBatch,        (* batchSize                                    *)
          HighWater,       (* buffered entries that reach                  *)
                           (* bufioHighWaterMark                           *)
          Loop, Exit       (* flushes the writer makes for itself          *)

ASSUME WriterAssumption ==
         /\ ErrorProducers \subseteq Producers
         /\ MaxBatch \in Nat \ {0}
         /\ HighWater \in Nat \ {0}
         /\ MaxFlush \in Nat
         /\ Loop \notin Flushers /\ Exit \notin Flushers /\ Loop # Exit

VARIABLES
  waking,      (* producers whose push is over and that owe a wake         *)
  wakeCh,      (* wakeCh holds its one token                               *)
  flushCh,     (* flushReqCh: the requests in it, at most one              *)
  replied,     (* flushers whose respCh holds the writer's answer          *)
  closeCh,     (* closeCh is closed                                        *)
  tick,        (* ticker.C holds a tick                                    *)
  wpc,         (* the writer's next step                                   *)
  needFlush,   (* writerLoop's local of that name                          *)
  flushFor,    (* whom the flush in progress is for                        *)
  flushed,     (* how many delivered entries a flushBuf has covered        *)
  pendingAck,  (* written entries whose ack channel is not closed yet      *)
  acked,       (* entries whose ack channel is closed                      *)
  fpc,         (* each flusher's next step                                 *)
  flushes,     (* how many calls of Flush each has begun                   *)
  kpc,         (* each closer's next step                                  *)
  awClosed,    (* asyncWriter.closed                                       *)
  flushMark,   (* history: per flusher, what was taken when it called      *)
  closeMark    (* history: what was there to be taken when the ring closed *)

emitters   == <<queueVars, waking>>
channels   == <<wakeCh, flushCh, replied, closeCh, tick>>
buffer     == <<flushed, pendingAck, acked>>
writer     == <<wpc, needFlush, flushFor, buffer>>
flusher    == <<fpc, flushes, flushMark>>
closer     == <<kpc, awClosed, closeMark>>
vars       == <<emitters, channels, writer, flusher, closer>>

TypeOK ==
  /\ QueueTypeOK
  /\ waking \subseteq Producers
  /\ flushCh \in {{}} \union {{f} : f \in Flushers} /\ replied \subseteq Flushers
  /\ wakeCh \in BOOLEAN /\ closeCh \in BOOLEAN /\ tick \in BOOLEAN
  /\ wpc \in {"select", "drain", "parked", "flush", "signal", "closing", "exited"}
  /\ needFlush \in BOOLEAN
  /\ flushFor \in Flushers \union {Loop, Exit}
  /\ flushed \in 0..Len(delivered)
  /\ pendingAck \subseteq Entry /\ acked \subseteq Entry
  /\ fpc \in [Flushers -> {"idle", "wake", "retry", "wait"}]
  /\ flushes \in [Flushers -> 0..MaxFlush]
  /\ kpc \in [Closers -> {"idle", "ring", "chan", "wait", "done"}]
  /\ awClosed \in BOOLEAN
  /\ flushMark \in [Flushers -> Nat] /\ closeMark \in Nat

(* For the history: how many entries the writer would have if it took all  *)
(* it can from the front of the ring.                                      *)
Front ==
  LET n == Len(queue)
  IN  Len(delivered) + CHOOSE k \in 0..n : /\ \A i \in 1..k : queue[i].ready
                                           /\ k < n => ~queue[k + 1].ready

Init ==
  /\ QueueInit
  /\ waking = {}
  /\ wakeCh = FALSE /\ flushCh = {} /\ replied = {}
  /\ closeCh = FALSE /\ tick = FALSE
  /\ wpc = "select" /\ needFlush = FALSE /\ flushFor = Loop
  /\ flushed = 0 /\ pendingAck = {} /\ acked = {}
  /\ fpc = [f \in Flushers |-> "idle"]
  /\ flushes = [f \in Flushers |-> 0]
  /\ kpc = [c \in Closers |-> "idle"]
  /\ awClosed = FALSE
  /\ flushMark = [f \in Flushers |-> 0] /\ closeMark = 0

-----------------------------------------------------------------------------
(* Emit and structuredEmit: push the entry, then wake the writer.  When    *)
(* the push has failed, Emit wakes it all the same, structuredEmit not.    *)

Owe(p) == waking' = waking \union {p}
Refused(p) == Owe(p) \/ UNCHANGED waking

(* Fault: the wake comes before the push.                                  *)
EmitWakesFirst(p) ==
  /\ p \notin waking
  /\ \/ Begin(p) /\ Owe(p)
     \/ (Accept(p) \/ Reject(p) \/ Publish(p)) /\ UNCHANGED waking
  /\ UNCHANGED <<channels, writer, flusher, closer>>

EmitPush(p) ==
  /\ p \notin waking
  /\ \/ Begin(p) /\ (IF closed THEN Refused(p) ELSE UNCHANGED waking)
     \/ Accept(p) /\ UNCHANGED waking
     \/ Reject(p) /\ Refused(p)
     \/ Publish(p) /\ Owe(p)
  /\ UNCHANGED <<channels, writer, flusher, closer>>

(* wake: a send that does nothing when the channel holds a token already.  *)
Wake == wakeCh' = TRUE

EmitWake(p) ==
  /\ p \in waking
  /\ waking' = waking \ {p}
  /\ Wake
  /\ UNCHANGED <<queueVars, flushCh, replied, closeCh, tick, writer, flusher,
                 closer>>
-----------------------------------------------------------------------------
(* writerLoop *)

(* time.Ticker drops ticks that nobody reads.                              *)
Tick ==
  /\ wpc # "exited"
  /\ ~tick
  /\ tick' = TRUE
  /\ UNCHANGED <<emitters, wakeCh, flushCh, replied, closeCh, writer, flusher,
                 closer>>

Selecting == wpc \in {"select", "parked"}

(* Fault: the close case flushes and leaves the ring undrained.            *)
SelectCloseNoDrain ==
  /\ Selecting
  /\ closeCh
  /\ wpc' = IF wpc = "select" THEN "flush" ELSE "select"
  /\ flushFor' = IF wpc = "select" THEN Exit ELSE flushFor
  /\ UNCHANGED <<emitters, channels, needFlush, buffer, flusher, closer>>

(* The outer select has a close case of its own; the inner one goes back   *)
(* to the outer.                                                           *)
SelectClose ==
  /\ Selecting
  /\ closeCh
  /\ wpc' = IF wpc = "select" THEN "closing" ELSE "select"
  /\ UNCHANGED <<emitters, channels, needFlush, flushFor, buffer, flusher,
                 closer>>

(* Two faults: the request is answered without a flush, and the inner      *)
(* select forgets to answer it.                                            *)
SelectFlushReplies(f) ==
  /\ Selecting
  /\ f \in flushCh
  /\ flushCh' = flushCh \ {f}
  /\ flushFor' = f
  /\ wpc' = "signal"
  /\ UNCHANGED <<emitters, wakeCh, replied, closeCh, tick, needFlush, buffer,
                 flusher, closer>>

SelectFlushForgets(f) ==
  /\ Selecting
  /\ f \in flushCh
  /\ flushCh' = flushCh \ {f}
  /\ flushFor' = IF wpc = "parked" THEN Loop ELSE f
  /\ wpc' = "flush"
  /\ UNCHANGED <<emitters, wakeCh, replied, closeCh, tick, needFlush, buffer,
                 flusher, closer>>

SelectFlush(f) ==
  /\ Selecting
  /\ f \in flushCh
  /\ flushCh' = flushCh \ {f}
  /\ flushFor' = f
  /\ wpc' = "flush"
  /\ UNCHANGED <<emitters, wakeCh, replied, closeCh, tick, needFlush, buffer,
                 flusher, closer>>

SelectTick ==
  /\ Selecting
  /\ tick
  /\ tick' = FALSE
  /\ flushFor' = Loop
  /\ wpc' = IF needFlush THEN "flush" ELSE "select"
  /\ UNCHANGED <<emitters, wakeCh, flushCh, replied, closeCh, needFlush,
                 buffer, flusher, closer>>

SelectWake ==
  /\ wpc = "parked"
  /\ wakeCh
  /\ wakeCh' = FALSE
  /\ wpc' = "select"
  /\ UNCHANGED <<emitters, flushCh, replied, closeCh, tick, needFlush,
                 flushFor, buffer, flusher, closer>>

(* The default case: none of the outer select's channels is ready.         *)
SelectDefault ==
  /\ wpc = "select"
  /\ ~closeCh /\ flushCh = {} /\ ~tick
  /\ wpc' = "drain"
  /\ UNCHANGED <<emitters, channels, needFlush, flushFor, buffer, flusher,
                 closer>>

(* writeBatch, which flushes by itself when much is buffered.              *)
WantsAck(e) == e[1] \in ErrorProducers
Batch(k) == {queue[i].entry : i \in 1..k}
PastHighWater == Len(delivered') - flushed \geq HighWater

(* Fault: entries are acknowledged when they are written.                  *)
WriteBatchAcksAtOnce(k) ==
  /\ acked' = acked \union pendingAck \union {e \in Batch(k) : WantsAck(e)}
  /\ pendingAck' = {}
  /\ flushed' = IF PastHighWater THEN Len(delivered') ELSE flushed

WriteBatch(k) ==
  LET acks == pendingAck \union {e \in Batch(k) : WantsAck(e)}
  IN  IF PastHighWater
      THEN /\ flushed' = Len(delivered')
           /\ pendingAck' = {}
           /\ acked' = acked \union acks
      ELSE /\ pendingAck' = acks
           /\ UNCHANGED <<flushed, acked>>

(* Two faults: ERROR entries wait for the ticker like the others, and a    *)
(* batch without one does not ask for a flush.                             *)
DrainSomeAcksLater(k) ==
  /\ wpc \in {"drain", "closing"}
  /\ Deliver(k)
  /\ WriteBatch(k)
  /\ IF wpc = "closing"
     THEN UNCHANGED <<wpc, needFlush>>
     ELSE wpc' = "select" /\ needFlush' = TRUE
  /\ UNCHANGED <<waking, channels, flushFor, flusher, closer>>

DrainSomeUnscheduled(k) ==
  /\ wpc \in {"drain", "closing"}
  /\ Deliver(k)
  /\ WriteBatch(k)
  /\ IF wpc = "closing"
     THEN UNCHANGED <<wpc, flushFor>>
     ELSE IF pendingAck' # {}
          THEN wpc' = "flush" /\ flushFor' = Loop
          ELSE wpc' = "select" /\ UNCHANGED flushFor
  /\ UNCHANGED <<waking, channels, needFlush, flusher, closer>>

DrainSome(k) ==
  /\ wpc \in {"drain", "closing"}
  /\ Deliver(k)
  /\ WriteBatch(k)
  /\ IF wpc = "closing"
     THEN UNCHANGED <<wpc, needFlush, flushFor>>
     ELSE IF pendingAck' # {}
          THEN /\ wpc' = "flush" /\ flushFor' = Loop
               /\ UNCHANGED needFlush
          ELSE /\ wpc' = "select" /\ needFlush' = TRUE
               /\ UNCHANGED flushFor
  /\ UNCHANGED <<waking, channels, flusher, closer>>

HeadReady == queue # <<>> /\ Head(queue).ready

(* Nothing at the front: the loop spins 256 times through the outer select *)
(* before it parks in the inner one.                                       *)
DrainNone ==
  /\ wpc = "drain"
  /\ ~HeadReady
  /\ wpc' \in {"select", "parked"}
  /\ UNCHANGED <<emitters, channels, needFlush, flushFor, buffer, flusher,
                 closer>>

CloseDrained ==
  /\ wpc = "closing"
  /\ ~HeadReady
  /\ wpc' = "flush"
  /\ flushFor' = Exit
  /\ UNCHANGED <<emitters, channels, needFlush, buffer, flusher, closer>>

(* Fault: only what somebody waits for is flushed.                         *)
FlushBufForAcks ==
  /\ wpc = "flush"
  /\ flushed' = IF pendingAck = {} THEN flushed ELSE Len(delivered)
  /\ wpc' = "signal"
  /\ UNCHANGED <<emitters, channels, needFlush, flushFor, pendingAck, acked,
                 flusher, closer>>

(* flushBuf: flush both buffers and sync the file, or as much of that as   *)
(* succeeds, and then, deferred, close the pending ack channels.           *)
FlushBuf ==
  /\ wpc = "flush"
  /\ flushed' = Len(delivered)
  /\ wpc' = "signal"
  /\ UNCHANGED <<emitters, channels, needFlush, flushFor, pendingAck, acked,
                 flusher, closer>>


SignalAcksNoReturn ==
  /\ wpc = "signal"
  /\ acked' = acked \union pendingAck
  /\ pendingAck' = {}
  /\ needFlush' = FALSE
  /\ replied' = IF flushFor \in Flushers THEN replied \union {flushFor} ELSE replied
  /\ wpc' = "select"
  /\ flushFor' = Loop
  /\ UNCHANGED <<emitters, wakeCh, flushCh, closeCh, tick, flushed, flusher,
                 closer>>

SignalAcks ==
  /\ wpc = "signal"
  /\ acked' = acked \union pendingAck
  /\ pendingAck' = {}
  /\ needFlush' = FALSE
  /\ replied' = IF flushFor \in Flushers THEN replied \union {flushFor} ELSE replied
  /\ wpc' = IF flushFor = Exit THEN "exited" ELSE "select"
  /\ flushFor' = Loop
  /\ UNCHANGED <<emitters, wakeCh, flushCh, closeCh, tick, flushed, flusher,
                 closer>>

WriterStep ==
  \/ SelectClose \/ (\E f \in Flushers : SelectFlush(f)) \/ SelectTick
  \/ SelectWake \/ SelectDefault
  \/ (\E k \in 1..MaxBatch : DrainSome(k))
  \/ DrainNone \/ CloseDrained \/ FlushBuf \/ SignalAcks
-----------------------------------------------------------------------------
(* flush *)

(* Fault: the channel takes any number of requests.                        *)
SendAnyway(f, full) ==
  /\ flushCh' = flushCh \union {f}
  /\ fpc' = [fpc EXCEPT ![f] = "wait"]

(* The send succeeds when flushReqCh is empty; otherwise flush goes on to  *)
(* `full`.                                                                 *)
Send(f, full) ==
  IF flushCh = {}
  THEN /\ flushCh' = {f}
       /\ fpc' = [fpc EXCEPT ![f] = "wait"]
  ELSE /\ fpc' = [fpc EXCEPT ![f] = full]
       /\ UNCHANGED flushCh

(* The call and its first attempt to send.                                 *)
FlushCall(f) ==
  /\ fpc[f] = "idle"
  /\ flushes[f] < MaxFlush
  /\ flushes' = [flushes EXCEPT ![f] = @ + 1]
  /\ flushMark' = [flushMark EXCEPT ![f] = Len(delivered)]
  /\ Send(f, "wake")
  /\ UNCHANGED <<emitters, wakeCh, replied, closeCh, tick, writer, closer>>

(* The second attempt; when it fails too, flush gives up and returns nil.  *)
FlushRetry(f) ==
  /\ fpc[f] = "retry"
  /\ Send(f, "idle")
  /\ UNCHANGED <<emitters, wakeCh, replied, closeCh, tick, writer, flushes,
                 flushMark, closer>>

FlushWake(f) ==
  /\ fpc[f] = "wake"
  /\ Wake
  /\ fpc' = [fpc EXCEPT ![f] = "retry"]
  /\ UNCHANGED <<emitters, flushCh, replied, closeCh, tick, writer, flushes,
                 flushMark, closer>>

FlushReturn(f) ==
  /\ fpc[f] = "wait"
  /\ f \in replied
  /\ replied' = replied \ {f}
  /\ fpc' = [fpc EXCEPT ![f] = "idle"]
  /\ flushMark' = [flushMark EXCEPT ![f] = 0]
  /\ UNCHANGED <<emitters, wakeCh, flushCh, closeCh, tick, writer, flushes,
                 closer>>

FlushStep(f) == FlushWake(f) \/ FlushRetry(f) \/ FlushReturn(f)
-----------------------------------------------------------------------------
(* close *)

CloseCall(c) ==
  /\ kpc[c] = "idle"
  /\ kpc' = [kpc EXCEPT ![c] = IF awClosed THEN "done" ELSE "ring"]
  /\ awClosed' = TRUE
  /\ UNCHANGED <<emitters, channels, writer, flusher, closeMark>>

CloseRing(c) ==
  /\ kpc[c] = "ring"
  /\ Close
  /\ closeMark' = Front
  /\ kpc' = [kpc EXCEPT ![c] = "chan"]
  /\ UNCHANGED <<waking, channels, writer, flusher, awClosed>>

CloseChan(c) ==
  /\ kpc[c] = "chan"
  /\ closeCh' = TRUE
  /\ kpc' = [kpc EXCEPT ![c] = "wait"]
  /\ UNCHANGED <<emitters, wakeCh, flushCh, replied, tick, writer, flusher,
                 awClosed, closeMark>>

CloseReturn(c) ==
  /\ kpc[c] = "wait"
  /\ wpc = "exited"
  /\ kpc' = [kpc EXCEPT ![c] = "done"]
  /\ UNCHANGED <<emitters, channels, writer, flusher, awClosed, closeMark>>

CloseStep(c) == CloseRing(c) \/ CloseChan(c) \/ CloseReturn(c)
-----------------------------------------------------------------------------
Next ==
  \/ \E p \in Producers : EmitPush(p) \/ EmitWake(p)
  \/ Tick
  \/ WriterStep
  \/ \E f \in Flushers : FlushCall(f) \/ FlushStep(f)
  \/ \E c \in Closers : CloseCall(c) \/ CloseStep(c)

Spec == Init /\ [][Next]_vars

(***************************************************************************)
(* Goroutines are scheduled, so a call that has begun goes on and the      *)
(* writer's loop turns.  Go's select picks at random among the cases that  *)
(* are ready, so no case is passed over for ever, and the 30 s of the      *)
(* ticker leave the loop time to reach its default case between two ticks. *)
(* Nobody has to log, to call Flush or to call Close.                      *)
(***************************************************************************)
EmitOn(p) == (EmitPush(p) /\ stage[p] # "out") \/ EmitWake(p)

Fairness ==
  /\ \A p \in Producers : WF_vars(EmitOn(p))
  /\ \A f \in Flushers : WF_vars(FlushStep(f)) /\ SF_vars(SelectFlush(f))
  /\ \A c \in Closers : WF_vars(CloseStep(c))
  /\ WF_vars(Tick) /\ WF_vars(WriterStep)
  /\ SF_vars(SelectClose) /\ SF_vars(SelectDefault)

FairSpec == Spec /\ Fairness
-----------------------------------------------------------------------------
(* Safety *)

Covered(e) == \E i \in 1..flushed : delivered[i] = e

(* The writer never sleeps through an entry it could take: if it is parked *)
(* in the inner select and the front of the ring is visible, a wake token  *)
(* is in the channel or a producer is about to put one there.  The token   *)
(* may be one that was left over, or one dropped because another was there. *)
NoLostWakeup == wpc = "parked" /\ HeadReady => wakeCh \/ waking # {}

(* Whatever is written and not flushed when the loop turns or parks will   *)
(* be flushed by the next tick: needFlush is never reset with entries in   *)
(* the buffer, by whichever of its flushes.                                *)
FlushIsScheduled ==
  wpc \in {"select", "drain", "parked"} /\ flushed < Len(delivered) => needFlush

(* No ack channel is closed before a flushBuf has covered its entry: not   *)
(* when the entry is written, and not by the flush of an earlier batch.    *)
(* (What an ack tells of the disk is Sink's AckedIsSynced.)                *)
AckedIsCovered == \A e \in acked : Covered(e)

(* The writer does not turn to anything else, park or exit while a written *)
(* ERROR entry waits for its ack: also those of a batch that was flushed   *)
(* by the high-water mark, and those drained while closing.                *)
NoAckLeftBehind ==
  pendingAck # {} => wpc \in {"flush", "signal", "closing"}

(* When the writer answers a Flush, a flushBuf has covered all it had      *)
(* taken from the ring at the time of the call.                            *)
FlushCoversTaken == \A f \in replied : flushed \geq flushMark[f]

(* When the writer exits, a flushBuf has covered all that it took, and all *)
(* that it could have taken when the ring was closed.                      *)
ExitCoversFront ==
  wpc = "exited" => flushed = Len(delivered) /\ flushed \geq closeMark
-----------------------------------------------------------------------------
(* Liveness *)

Queued(e) == \E i \in 1..Len(queue) : queue[i].entry = e

(* While nobody closes, an entry that found a place in the ring is taken,  *)
(* written and flushed, though no later entry comes and whoever claimed    *)
(* before it may be slow to publish.                                       *)
EntriesAreFlushed == \A e \in Entry : Queued(e) ~> (Covered(e) \/ closed)


(* While nobody closes, Flush returns.                                     *)
FlushReturnsIfOpen == \A f \in Flushers : fpc[f] = "wait" ~> (fpc[f] = "idle" \/ closed)

(* Close returns to the caller that did the closing.                       *)
CloseReturns == \A c \in Closers : kpc[c] = "ring" ~> kpc[c] = "done"
=============================================================================
