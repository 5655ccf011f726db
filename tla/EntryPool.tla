------------------------------ MODULE EntryPool ------------------------------
(***************************************************************************)
(* The life of a logEntry: taken from logEntryPool by Emit (mlog_file.go)  *)
(* or structuredEmit (structured.go), filled, pushed, written by           *)
(* writeBatch (async_writer.go), cleared and put back, with the buffer of  *)
(* its text and the channel an ERROR call waits on.                        *)
(*                                                                         *)
(* A sync.Pool may hand out any object it holds, or ignore them and make a *)
(* new one.  entryBufPool holds pointers to slices, and writeBatch puts    *)
(* there the address of the entry's own data field: such a pointer is      *)
(* named by its entry.  Slices name the array behind them; append writes   *)
(* into that array when the text fits.                                     *)
(***************************************************************************)
EXTENDS Integers, Sequences, FiniteSets

CONSTANTS Callers,    (* goroutines that log                               *)
          Structured, (* those of them that log through structuredEmit     *)
          RingSize,   (* the places of the ring                            *)
          Nil,
          MaxCalls    (* bound: calls by each caller                       *)

(* No call takes more than one new entry and one new array.                *)
Entries == 1..(Cardinality(Callers) * MaxCalls)
Arrays  == Entries
Records == Callers \X (1..MaxCalls)   (* what a call logs, and its channel *)

ASSUME PoolAssumption ==
         /\ IsFiniteSet(Callers) /\ Structured \subseteq Callers
         /\ RingSize \in Nat \ {0}
         /\ MaxCalls \in Nat
         /\ Nil \notin Nat \cup Records

VARIABLES ready,       (* the writer has been made                         *)
          entryPool,   (* logEntryPool: the entries in it                  *)
          bufPool,     (* entryBufPool: how often it holds &e.data         *)
          entries, arrays,     (* how many of each have been made          *)
          text,        (* the record whose bytes an array holds            *)
          data, entry, ack,    (* the fields of each logEntry              *)
          ring,
          stage, taken,  (* writeBatch: its next step, its entry or Nil    *)
          pending,     (* pendingAck                                       *)
          closed,      (* the channels that are closed                     *)
          call,        (* per caller: its locals                           *)
          calls,
          accepted, written,   (* history: records, by place in the ring   *)
          flushed,     (* history: places that a flushBuf has covered      *)
          believed     (* history: records whose call returned for an ack  *)

pools   == <<entryPool, bufPool, entries, arrays>>
fields  == <<data, entry, ack>>
writer  == <<stage, taken, pending, closed>>
history == <<accepted, written, flushed, believed>>
vars    == <<ready, pools, text, fields, ring, writer, call, calls, history>>

Locals == [pc : {"idle", "init", "acquire", "buffer", "append", "store", "fill",
                 "push", "ack", "wait"},
           error : BOOLEAN,
           e : Entries \cup {Nil},      (* its entry                       *)
           bp : Entries \cup {Nil},     (* &bp.data, or a new slice        *)
           own : Arrays \cup {Nil},     (* the array of a new slice        *)
           ack : Records \cup {Nil}]

NoCall == [pc |-> "idle", error |-> FALSE, e |-> Nil, bp |-> Nil, own |-> Nil,
           ack |-> Nil]

Holds(c) == call[c].pc \in {"buffer", "append", "store", "fill", "push"}

(* The type invariant: a slice that is in use names an array that exists,  *)
(* an entry that is in use exists.                                         *)
TypeOK ==
  /\ ready \in BOOLEAN
  /\ entries \in 0..Cardinality(Entries) /\ arrays \in 0..Cardinality(Arrays)
  /\ entryPool \subseteq 1..entries
  /\ bufPool \in [Entries -> Nat]
  /\ text \in [Arrays -> Records \cup {Nil}]
  /\ data \in [Entries -> (1..arrays) \cup {Nil}]
  /\ entry \in [Entries -> Records \cup {Nil}]
  /\ ack \in [Entries -> Records \cup {Nil}]
  /\ ring \in Seq(1..entries) /\ Len(ring) \leq RingSize
  /\ stage \in {"write", "put", "clear"}
  /\ taken \in (1..entries) \cup {Nil}
  /\ pending \in Seq(Records) /\ closed \subseteq Records
  /\ call \in [Callers -> Locals] /\ calls \in [Callers -> 0..MaxCalls]
  /\ accepted \in Seq(Records) /\ written \in Seq(Records \cup {Nil})
  /\ flushed \in 0..Len(written)
  /\ believed \subseteq Records

Init ==
  /\ ready = FALSE
  /\ entryPool = {} /\ bufPool = [e \in Entries |-> 0]
  /\ entries = 0 /\ arrays = 0
  /\ text = [b \in Arrays |-> Nil]
  /\ data = [e \in Entries |-> Nil]
  /\ entry = [e \in Entries |-> Nil]
  /\ ack = [e \in Entries |-> Nil]
  /\ ring = <<>>
  /\ stage = "write" /\ taken = Nil /\ pending = <<>> /\ closed = {}
  /\ call = [c \in Callers |-> NoCall] /\ calls = [c \in Callers |-> 0]
  /\ accepted = <<>> /\ written = <<>> /\ flushed = 0
  /\ believed = {}

Record(c) == <<c, calls[c]>>
Goto(c, l) == call' = [call EXCEPT ![c].pc = l]
Return(c) == call' = [call EXCEPT ![c] = NoCall]
-----------------------------------------------------------------------------
(* The callers *)

Call(c) ==
  /\ call[c].pc = "idle"
  /\ calls[c] < MaxCalls
  /\ calls' = [calls EXCEPT ![c] = @ + 1]
  /\ \E isError \in BOOLEAN :
       call' = [call EXCEPT ![c].pc = "init", ![c].error = isError]
  /\ UNCHANGED <<ready, pools, text, fields, ring, writer, history>>

(* The writer is made under fss.mu by the first call for which the file    *)
(* can be created.  Emit returns the error, structuredEmit keeps silent.   *)
LazyInit(c) ==
  /\ call[c].pc = "init"
  /\ \/ ready' = TRUE /\ Goto(c, "acquire")
     \/ ~ready /\ Return(c) /\ UNCHANGED ready
  /\ UNCHANGED <<pools, text, fields, ring, writer, calls, history>>

(* logEntryPool.Get                                                        *)
GetEntry(c) ==
  /\ call[c].pc = "acquire"
  /\ \E e \in entryPool \cup {entries + 1} :
       /\ entries' = IF e > entries THEN e ELSE entries
       /\ entryPool' = entryPool \ {e}
       /\ call' = [call EXCEPT ![c].e = e,
                               ![c].pc = IF c \in Structured THEN "fill" ELSE "buffer"]
  /\ UNCHANGED <<ready, bufPool, arrays, text, fields, ring, writer, calls, history>>

(* entryBufPool.Get                                                        *)
GetBuf(c) ==
  /\ call[c].pc = "buffer"
  /\ \/ call' = [call EXCEPT ![c].pc = "append"] /\ UNCHANGED bufPool
     \/ \E e \in Entries :
          /\ bufPool[e] > 0
          /\ bufPool' = [bufPool EXCEPT ![e] = @ - 1]
          /\ call' = [call EXCEPT ![c].bp = e, ![c].pc = "append"]
  /\ UNCHANGED <<ready, entryPool, entries, arrays, text, fields, ring, writer,
                 calls, history>>

(* The text is appended to the emptied slice of the buffer: into the array *)
(* behind it, if it has one and the text fits, or into a new one.          *)
AppendText(c) ==
  /\ call[c].pc = "append"
  /\ LET bp == call[c].bp
         old == IF bp = Nil THEN {} ELSE {data[bp]} \ {Nil}
     IN  \E b \in old \cup {arrays + 1} :
           /\ arrays' = IF b > arrays THEN b ELSE arrays
           /\ text' = [text EXCEPT ![b] = Record(c)]
           /\ IF bp = Nil
              THEN /\ call' = [call EXCEPT ![c].own = b, ![c].pc = "store"]
                   /\ UNCHANGED data
              ELSE /\ data' = [data EXCEPT ![bp] = b]
                   /\ Goto(c, "store")
  /\ UNCHANGED <<ready, entryPool, bufPool, entries, entry, ack, ring, writer,
                 calls, history>>

NewAck(c) == IF call[c].error THEN Record(c) ELSE Nil

(* entry.data = *bp, and a channel for ERROR and FATAL.                    *)
StoreData(c) ==
  /\ call[c].pc = "store"
  /\ LET e == call[c].e
         bp == call[c].bp
     IN  /\ data' = [data EXCEPT ![e] = IF bp = Nil THEN call[c].own ELSE data[bp]]
         /\ ack' = [ack EXCEPT ![e] = NewAck(c)]
  /\ Goto(c, "push")
  /\ UNCHANGED <<ready, pools, text, entry, ring, writer, calls, history>>

(* structuredEmit hands the record over unencoded.                         *)
FillEntry(c) ==
  /\ call[c].pc = "fill"
  /\ LET e == call[c].e
     IN  /\ data' = [data EXCEPT ![e] = Nil]
         /\ entry' = [entry EXCEPT ![e] = Record(c)]
         /\ ack' = [ack EXCEPT ![e] = NewAck(c)]
  /\ Goto(c, "push")
  /\ UNCHANGED <<ready, pools, text, ring, writer, calls, history>>

(* After the push INFO returns and ERROR goes for the ack.                 *)
Pushed(c) == IF call[c].error THEN Goto(c, "ack") ELSE Return(c)

(* Fault: an entry that found room in the ring is put back all the same.   *)
PushAndPut(c) ==
  /\ call[c].pc = "push"
  /\ Len(ring) < RingSize
  /\ ring' = Append(ring, call[c].e)
  /\ entryPool' = entryPool \cup {call[c].e}
  /\ accepted' = Append(accepted, Record(c))
  /\ Pushed(c)
  /\ UNCHANGED <<ready, bufPool, entries, arrays, text, fields, writer, calls, written,
                 flushed, believed>>

(* Fault: the full ring is noticed one entry late.                         *)
PushPastFull(c) ==
  /\ call[c].pc = "push"
  /\ Len(ring) \leq RingSize
  /\ ring' = Append(ring, call[c].e)
  /\ accepted' = Append(accepted, Record(c))
  /\ Pushed(c)
  /\ UNCHANGED <<ready, pools, text, fields, writer, calls, written, flushed, believed>>

Push(c) ==
  /\ call[c].pc = "push"
  /\ Len(ring) < RingSize
  /\ ring' = Append(ring, call[c].e)
  /\ accepted' = Append(accepted, Record(c))
  /\ Pushed(c)
  /\ UNCHANGED <<ready, pools, text, fields, writer, calls, written, flushed, believed>>

(* Fault: Emit puts a dropped entry back, as structuredEmit does.          *)
DropPuts(c) ==
  /\ call[c].pc = "push"
  /\ LET e == call[c].e
     IN  /\ data' = [data EXCEPT ![e] = Nil]
         /\ entry' = [entry EXCEPT ![e] = Nil]
         /\ ack' = [ack EXCEPT ![e] = Nil]
         /\ entryPool' = entryPool \cup {e}
  /\ Pushed(c)
  /\ UNCHANGED <<ready, bufPool, entries, arrays, text, ring, writer, calls, history>>

(* tryPush fails on a full ring, on a closed one and (RingBuffer) by       *)
(* chance.  Emit leaves the entry to the garbage collector, structuredEmit *)
(* clears it and puts it back.                                             *)
Drop(c) ==
  /\ call[c].pc = "push"
  /\ IF c \notin Structured THEN UNCHANGED <<entryPool, fields>>
     ELSE LET e == call[c].e
          IN  /\ data' = [data EXCEPT ![e] = Nil]
              /\ entry' = [entry EXCEPT ![e] = Nil]
              /\ ack' = [ack EXCEPT ![e] = Nil]
              /\ entryPool' = entryPool \cup {e}
  /\ Pushed(c)
  /\ UNCHANGED <<ready, bufPool, entries, arrays, text, ring, writer, calls,
                 history>>

(* ack := entry.ack, of an entry that is no longer the caller's.           *)
ReadAck(c) ==
  /\ call[c].pc = "ack"
  /\ call' = [call EXCEPT ![c].ack = ack[call[c].e], ![c].pc = "wait"]
  /\ UNCHANGED <<ready, pools, text, fields, ring, writer, calls, history>>

(* A nil channel is never ready; time.After may always come first.         *)
Acked(c) ==
  /\ call[c].pc = "wait"
  /\ call[c].ack \in closed
  /\ Return(c)
  /\ believed' = believed \cup {Record(c)}
  /\ UNCHANGED <<ready, pools, text, fields, ring, writer, calls, accepted,
                 written, flushed>>

Timeout(c) ==
  /\ call[c].pc = "wait"
  /\ Return(c)
  /\ UNCHANGED <<ready, pools, text, fields, ring, writer, calls, history>>

CallerStep(c) ==
  \/ Call(c) \/ LazyInit(c) \/ GetEntry(c) \/ GetBuf(c) \/ AppendText(c) \/ StoreData(c)
  \/ FillEntry(c) \/ Push(c) \/ Drop(c) \/ ReadAck(c) \/ Acked(c) \/ Timeout(c)
-----------------------------------------------------------------------------
(* The writer *)

(* The next entry of a batch: its text, else its record, else nothing.     *)
Write ==
  /\ stage = "write" /\ stage' = "put"
  /\ ring # <<>>
  /\ taken' = Head(ring)
  /\ ring' = Tail(ring)
  /\ written' = Append(written, LET e == Head(ring)
                                IN  IF data[e] # Nil THEN text[data[e]] ELSE entry[e])
  /\ UNCHANGED <<ready, pools, text, fields, pending, closed, call, calls, accepted,
                 flushed, believed>>

(* putEntryBuf, which reads data once more, and the ack.  That an oversized *)
(* buffer is not put makes no difference to a pool that may ignore it.     *)
PutBuf ==
  /\ stage = "put" /\ stage' = "clear"
  /\ bufPool' = [bufPool EXCEPT ![taken] = IF data[taken] = Nil THEN @ ELSE @ + 1]
  /\ pending' = IF ack[taken] = Nil THEN pending ELSE Append(pending, ack[taken])
  /\ UNCHANGED <<ready, entryPool, entries, arrays, text, fields, ring, taken, closed,
                 call, calls, history>>

PutEntry ==
  /\ stage = "clear" /\ stage' = "write"
  /\ data' = [data EXCEPT ![taken] = Nil]
  /\ entry' = [entry EXCEPT ![taken] = Nil]
  /\ ack' = [ack EXCEPT ![taken] = Nil]
  /\ entryPool' = entryPool \cup {taken}
  /\ taken' = Nil
  /\ UNCHANGED <<ready, bufPool, entries, arrays, text, ring, pending, closed, call,
                 calls, history>>

(* Fault: pendingAck is not emptied.                                       *)
FlushKeepsAcks ==
  /\ stage = "write"
  /\ flushed < Len(written)
  /\ flushed' = Len(written)
  /\ closed' = closed \cup {pending[i] : i \in DOMAIN pending}
  /\ UNCHANGED <<ready, pools, text, fields, ring, stage, taken, pending, call, calls,
                 accepted, written, believed>>

(* flushBuf after a batch that wants it, then signalAcks.                  *)
Flush ==
  /\ stage = "write"
  /\ flushed < Len(written)
  /\ flushed' = Len(written)
  /\ closed' = closed \cup {pending[i] : i \in DOMAIN pending}
  /\ pending' = <<>>
  /\ UNCHANGED <<ready, pools, text, fields, ring, stage, taken, call, calls, accepted,
                 written, believed>>

WriterStep == Write \/ PutBuf \/ PutEntry \/ Flush

Next == WriterStep \/ \E c \in Callers : CallerStep(c)

Spec == Init /\ [][Next]_vars
-----------------------------------------------------------------------------
(* Every entry has one owner: the pool, a place of the ring, the writer or *)
(* a caller that is filling it.  Two owners write the same fields.         *)
EntryHasOneOwner ==
  \A e \in 1..entries :
    Cardinality({i \in DOMAIN ring : ring[i] = e})
      + Cardinality({c \in Callers : call[c].e = e /\ Holds(c)})
      + (IF e \in entryPool THEN 1 ELSE 0) + (IF taken = e THEN 1 ELSE 0) \leq 1

(* No channel is closed twice, which would panic in the writer: pendingAck *)
(* holds each channel once and none that is closed, though channels travel *)
(* through entries that are reused.                                        *)
NoDoubleClose ==
  /\ \A i, j \in DOMAIN pending : pending[i] = pending[j] => i = j
  /\ \A i \in DOMAIN pending : pending[i] \notin closed

PlaceOf(r) == {i \in DOMAIN accepted : accepted[i] = r}

(* An ERROR call that did not time out has had its entry written and then  *)
(* covered by a flushBuf (what that did with it is Sink's), even when it   *)
(* waited on the channel of a later call that had taken the entry over.    *)
(* The exception is structuredEmit: when its entry is dropped it may wait  *)
(* on the ack of the entry's next user.                                    *)
AckMeansFlushed ==
  \A r \in believed :
    \/ \E i \in PlaceOf(r) : i \leq flushed
    \/ PlaceOf(r) = {} /\ r[1] \in Structured

(* The writer writes what the call that pushed the entry put there.        *)
WritesWhatWasLogged ==
  \A i \in DOMAIN written : written[i] = accepted[i]
=============================================================================
