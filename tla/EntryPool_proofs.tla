-------------------------- MODULE EntryPool_proofs --------------------------
(***************************************************************************)
(* Theorems about EntryPool, for every finite set of callers, any size of  *)
(* the ring and any number of calls.                                       *)
(***************************************************************************)
EXTENDS EntryPool, FiniteSetTheorems, SequenceTheorems, TLAPS

(***************************************************************************)
(* The inductive invariant.                                                *)
(***************************************************************************)

(* Who owns an entry owns it alone.                                        *)
OwnersOK ==
  /\ \A i, j \in 1..Len(ring) : ring[i] = ring[j] => i = j
  /\ \A c, d \in Callers : Holds(c) /\ Holds(d) /\ call[c].e = call[d].e => c = d
  /\ \A i \in 1..Len(ring) : ring[i] \notin entryPool /\ ring[i] # taken
  /\ \A c \in Callers : Holds(c) =>
       /\ call[c].e \in 1..entries /\ call[c].e \notin entryPool /\ call[c].e # taken
       /\ \A i \in 1..Len(ring) : ring[i] # call[c].e
  /\ taken \notin entryPool
  /\ stage = "write" <=> taken = Nil

Unowned(e) ==
  /\ e \notin entryPool /\ taken # e
  /\ \A i \in 1..Len(ring) : ring[i] # e
  /\ \A c \in Callers : Holds(c) => call[c].e # e

(* What a call has when it gets to its push, and after it.                 *)
CallsOK ==
  \A c \in Callers :
    /\ call[c].pc # "idle" => calls[c] \in 1..MaxCalls
    /\ call[c].pc = "ack" => call[c].e \in 1..entries
    /\ call[c].own \in (1..arrays) \cup {Nil}
    /\ call[c].pc = "push" => ack[call[c].e] = NewAck(c)

(* The calls that are past the places pcs: each new entry and each new     *)
(* array is of one of them, so they do not run out.                        *)
Past(pcs) == {r \in Records : \/ r[2] < calls[r[1]]
                              \/ r[2] = calls[r[1]] /\ call[r[1]].pc \notin pcs}
ToEntry == {"init", "acquire"}
ToArray == ToEntry \cup {"buffer", "append"}
ToPush  == ToArray \cup {"store", "fill", "push"}

CountsOK == entries <= Cardinality(Past(ToEntry)) /\ arrays <= Cardinality(Past(ToArray))

BaseInv == TypeOK /\ OwnersOK /\ CallsOK /\ CountsOK
-----------------------------------------------------------------------------
LEMMA Sizes ==
  /\ IsFiniteSet(Records) /\ Cardinality(Records) \in Nat
  /\ Entries = 1..Cardinality(Records) /\ Cardinality(Entries) = Cardinality(Records)
<1>1. IsFiniteSet(1..MaxCalls) /\ Cardinality(1..MaxCalls) = MaxCalls
  BY FS_Interval, PoolAssumption
<1>2. IsFiniteSet(Records) /\ Cardinality(Records) = Cardinality(Callers) * MaxCalls
  BY <1>1, FS_Product, PoolAssumption DEF Records
<1>3. Cardinality(Records) \in Nat
  BY <1>2, FS_CardinalityType
<1>4. Entries = 1..Cardinality(Records)
  BY <1>2 DEF Entries
<1>5. Cardinality(1..Cardinality(Records)) = Cardinality(Records)
  BY <1>3, FS_Interval
<1> QED
  BY <1>2, <1>3, <1>4, <1>5

LEMMA PastFacts ==
  ASSUME NEW pcs
  PROVE  /\ IsFiniteSet(Past(pcs)) /\ Cardinality(Past(pcs)) \in Nat
         /\ Cardinality(Past(pcs)) <= Cardinality(Records)
<1>1. Past(pcs) \in SUBSET Records
  BY DEF Past
<1> QED
  BY <1>1, Sizes, FS_Subset, FS_CardinalityType

(* A call that is not past its place leaves room for one more.             *)
LEMMA OneMore ==
  ASSUME NEW pcs, NEW c \in Callers, call[c].pc \in pcs, calls[c] \in 1..MaxCalls,
         NEW n \in Nat, n <= Cardinality(Past(pcs))
  PROVE  n + 1 \in Entries
<1>1. Record(c) \in Records /\ Record(c) \notin Past(pcs)
  BY DEF Record, Records, Past
<1>2. Past(pcs) \in SUBSET (Records \ {Record(c)})
  BY <1>1 DEF Past
<1>3. /\ IsFiniteSet(Records \ {Record(c)})
      /\ Cardinality(Records \ {Record(c)}) = Cardinality(Records) - 1
  BY <1>1, Sizes, FS_RemoveElement
<1>4. Cardinality(Past(pcs)) <= Cardinality(Records) - 1
  BY <1>2, <1>3, FS_Subset
<1>5. Cardinality(Past(pcs)) \in Nat
  BY PastFacts
<1> QED
  BY <1>4, <1>5, Sizes

(* How a call moves.                                                       *)
Moves == {<<"init", "acquire">>, <<"init", "idle">>, <<"acquire", "fill">>,
          <<"acquire", "buffer">>, <<"buffer", "append">>, <<"append", "store">>,
          <<"store", "push">>, <<"fill", "push">>, <<"push", "ack">>, <<"push", "idle">>,
          <<"ack", "wait">>, <<"wait", "idle">>}

LEMMA CallMoves ==
  ASSUME TypeOK, NEW c \in Callers, CallerStep(c)
  PROVE  /\ \A d \in Callers : d # c => call'[d] = call[d] /\ calls'[d] = calls[d]
         /\ \/ /\ call[c].pc = "idle" /\ call'[c].pc = "init"
               /\ calls'[c] = calls[c] + 1 /\ calls'[c] \in 1..MaxCalls
            \/ calls'[c] = calls[c] /\ <<call[c].pc, call'[c].pc>> \in Moves
<1> USE DEF TypeOK, Goto, Return, NoCall, Moves, Locals
<1>1. CASE Call(c)
  <2>1. /\ call[c].pc = "idle" /\ calls[c] < MaxCalls /\ calls[c] \in 0..MaxCalls
        /\ calls' = [calls EXCEPT ![c] = @ + 1]
    BY <1>1 DEF Call
  <2>2. calls'[c] = calls[c] + 1 /\ calls'[c] \in 1..MaxCalls
        /\ \A d \in Callers : d # c => calls'[d] = calls[d]
    BY <2>1, PoolAssumption
  <2>3. call'[c].pc = "init" /\ \A d \in Callers : d # c => call'[d] = call[d]
    BY <1>1 DEF Call
  <2> QED
    BY <2>1, <2>2, <2>3
<1>2. CASE LazyInit(c)
  BY <1>2 DEF LazyInit
<1>3. CASE GetEntry(c)
  BY <1>3 DEF GetEntry
<1>4. CASE GetBuf(c)
  <2>1. call[c].pc = "buffer" /\ calls' = calls /\ call \in [Callers -> Locals]
    BY <1>4 DEF GetBuf
  <2>2. \/ call' = [call EXCEPT ![c].pc = "append"]
        \/ \E e \in Entries : call' = [call EXCEPT ![c].bp = e, ![c].pc = "append"]
    BY <1>4 DEF GetBuf
  <2>3. CASE call' = [call EXCEPT ![c].pc = "append"]
    BY <2>1, <2>3
  <2>4. ASSUME NEW e \in Entries, call' = [call EXCEPT ![c].bp = e, ![c].pc = "append"]
        PROVE  call'[c].pc = "append" /\ \A d \in Callers : d # c => call'[d] = call[d]
    BY SMTT(30), <2>1, <2>4
  <2> QED
    BY <2>1, <2>2, <2>3, <2>4
<1>5. CASE AppendText(c)
  BY <1>5 DEF AppendText
<1>6. CASE StoreData(c)
  BY <1>6 DEF StoreData
<1>7. CASE FillEntry(c)
  BY <1>7 DEF FillEntry
<1>8. CASE Push(c) \/ Drop(c)
  BY <1>8 DEF Push, Drop, Pushed
<1>9. CASE ReadAck(c)
  BY <1>9 DEF ReadAck
<1>10. CASE Acked(c) \/ Timeout(c)
  BY <1>10 DEF Acked, Timeout
<1> QED
  BY <1>1, <1>2, <1>3, <1>4, <1>5, <1>6, <1>7, <1>8, <1>9, <1>10 DEF CallerStep

(* A call never comes back to a place before pcs.                          *)
LEMMA PastGrows ==
  ASSUME TypeOK, NEW c \in Callers, CallerStep(c), NEW pcs \in {ToEntry, ToArray, ToPush}
  PROVE  Past(pcs) \subseteq Past(pcs)'
<1>1. calls[c] \in Nat
  BY DEF TypeOK
<1>2. /\ \A d \in Callers : d # c => call'[d] = call[d] /\ calls'[d] = calls[d]
      /\ \/ calls'[c] = calls[c] + 1
         \/ calls'[c] = calls[c] /\ (call[c].pc \notin pcs => call'[c].pc \notin pcs)
  BY CallMoves DEF Moves, ToEntry, ToArray, ToPush
<1> SUFFICES ASSUME NEW r \in Records, r \in Past(pcs) PROVE r \in Past(pcs)'
  BY DEF Past
<1>3. r[1] \in Callers /\ r[2] \in Nat
  BY DEF Records
<1> QED
  BY <1>1, <1>2, <1>3 DEF Past

LEMMA PastSame ==
  ASSUME WriterStep, NEW pcs
  PROVE  Past(pcs)' = Past(pcs)
BY DEF WriterStep, Write, PutBuf, PutEntry, Flush, Past

(* What AppendText does to the arrays and to its caller.                   *)
LEMMA AppendFacts ==
  ASSUME TypeOK, NEW c \in Callers, AppendText(c)
  PROVE  /\ call[c].pc = "append" /\ call'[c].pc = "store"
         /\ arrays' = arrays \/ arrays' = arrays + 1
         /\ \E b \in 1..arrays' :
              /\ text' = [text EXCEPT ![b] = Record(c)]
              /\ \/ /\ call' = [call EXCEPT ![c].own = b, ![c].pc = "store"]
                    /\ data' = data
                 \/ /\ call[c].bp \in Entries
                    /\ data' = [data EXCEPT ![call[c].bp] = b]
                    /\ call' = [call EXCEPT ![c].pc = "store"]
<1> DEFINE bp == call[c].bp
           old == IF bp = Nil THEN {} ELSE {data[bp]} \ {Nil}
<1>1. call[c].pc = "append" /\ bp \in Entries \cup {Nil} /\ call[c] \in Locals /\ arrays \in Nat
  BY DEF AppendText, TypeOK, Locals
<1>2. PICK b \in old \cup {arrays + 1} :
        /\ arrays' = IF b > arrays THEN b ELSE arrays
        /\ text' = [text EXCEPT ![b] = Record(c)]
        /\ IF bp = Nil
           THEN /\ call' = [call EXCEPT ![c].own = b, ![c].pc = "store"]
                /\ UNCHANGED data
           ELSE /\ data' = [data EXCEPT ![bp] = b]
                /\ Goto(c, "store")
  BY DEF AppendText
<1>3. b \in 1..arrays \/ b = arrays + 1
  BY <1>1 DEF TypeOK
<1>4. b \in 1..arrays' /\ (arrays' = arrays \/ arrays' = arrays + 1)
  BY <1>1, <1>2, <1>3
<1>5. \/ /\ call' = [call EXCEPT ![c].own = b, ![c].pc = "store"]
         /\ data' = data
      \/ /\ bp \in Entries
         /\ data' = [data EXCEPT ![bp] = b]
         /\ call' = [call EXCEPT ![c].pc = "store"]
  BY <1>1, <1>2 DEF Goto
<1> HIDE DEF old
<1>6. call'[c].pc = "store"
  BY <1>1, <1>5 DEF TypeOK, Locals
<1> QED
  BY <1>1, <1>2, <1>4, <1>5, <1>6

LEMMA CountsInv ==
  ASSUME TypeOK, CallsOK, CountsOK, Next
  PROVE  CountsOK'
<1>1. CASE WriterStep
  <2>1. entries' = entries /\ arrays' = arrays
    BY <1>1 DEF WriterStep, Write, PutBuf, PutEntry, Flush, pools
  <2> QED
    BY <1>1, <2>1, PastSame DEF CountsOK
<1>2. ASSUME NEW c \in Callers, CallerStep(c) PROVE CountsOK'
  <2> DEFINE N(pcs) == Cardinality(Past(pcs))
  <2>1. \A pcs \in {ToEntry, ToArray} : N(pcs) \in Nat /\ N(pcs)' \in Nat /\ N(pcs) <= N(pcs)'
    <3> SUFFICES ASSUME NEW pcs \in {ToEntry, ToArray}
                 PROVE  N(pcs) \in Nat /\ N(pcs)' \in Nat /\ N(pcs) <= N(pcs)'
      OBVIOUS
    <3>1. Past(pcs)' \in SUBSET Records /\ Past(pcs) \in SUBSET Past(pcs)'
      BY <1>2, PastGrows DEF Past
    <3> QED
      BY <3>1, Sizes, FS_Subset, FS_CardinalityType
  <2>2. ASSUME NEW pcs \in {ToEntry, ToArray}, call[c].pc \in pcs, call'[c].pc \notin pcs,
               call[c].pc # "init"
        PROVE  N(pcs) + 1 <= N(pcs)'
    <3>1. Past(pcs)' \in SUBSET Records /\ Past(pcs) \subseteq Past(pcs)'
      BY <1>2, PastGrows DEF Past
    <3>2. call[c].pc # "idle" /\ calls[c] \in 1..MaxCalls
      BY <2>2 DEF ToEntry, ToArray, CallsOK
    <3>3. calls'[c] = calls[c]
      BY <1>2, <3>2, CallMoves
    <3>4. Record(c) \in Records /\ Record(c) \notin Past(pcs)
      BY <2>2, <3>2 DEF Past, Record, Records
    <3>5. Record(c) \in Past(pcs)'
      BY <2>2, <3>3, <3>4 DEF Past, Record
    <3>6. Past(pcs) \in SUBSET (Past(pcs)' \ {Record(c)})
      BY <3>1, <3>4
    <3>7. IsFiniteSet(Past(pcs)')
      BY <3>1, Sizes, FS_Subset
    <3>8. /\ IsFiniteSet(Past(pcs)' \ {Record(c)})
          /\ Cardinality(Past(pcs)' \ {Record(c)}) = N(pcs)' - 1
      BY <3>5, <3>7, FS_RemoveElement
    <3>9. N(pcs) <= N(pcs)' - 1
      BY <3>6, <3>8, FS_Subset
    <3> QED
      BY <2>1, <3>9
  <2> HIDE DEF N
  <2>3. entries \in Nat /\ arrays \in Nat /\ entries <= N(ToEntry) /\ arrays <= N(ToArray)
    BY DEF TypeOK, CountsOK, N
  <2>4. entries' <= N(ToEntry)'
    <3>1. CASE GetEntry(c)
      <4>1. entries' = entries \/ entries' = entries + 1
        <5>1. PICK e \in entryPool \cup {entries + 1} :
                entries' = IF e > entries THEN e ELSE entries
          BY <3>1 DEF GetEntry
        <5>2. e \in 1..entries \/ e = entries + 1
          BY <5>1 DEF TypeOK
        <5> QED
          BY <2>3, <5>1, <5>2
      <4>2. call[c].pc = "acquire" /\ call'[c].pc \notin ToEntry
        BY <3>1 DEF GetEntry, TypeOK, ToEntry
      <4>3. N(ToEntry) + 1 <= N(ToEntry)'
        BY <2>2, <4>2 DEF ToEntry
      <4> QED
        BY <2>1, <2>3, <4>1, <4>3
    <3>2. CASE ~GetEntry(c)
      <4>1. entries' = entries
        BY <1>2, <3>2 DEF CallerStep, Call, LazyInit, GetBuf, AppendText, StoreData, FillEntry,
           Push, Drop, ReadAck, Acked, Timeout, pools
      <4> QED
        BY <2>1, <2>3, <4>1
    <3> QED
      BY <3>1, <3>2
  <2>5. arrays' <= N(ToArray)'
    <3>1. CASE AppendText(c)
      <4>1. arrays' = arrays \/ arrays' = arrays + 1
        BY <3>1, AppendFacts
      <4>2. call[c].pc = "append" /\ call'[c].pc \notin ToArray
        BY <3>1, AppendFacts DEF ToArray, ToEntry
      <4>3. N(ToArray) + 1 <= N(ToArray)'
        BY <2>2, <4>2 DEF ToArray
      <4> QED
        BY <2>1, <2>3, <4>1, <4>3
    <3>2. CASE ~AppendText(c)
      <4>1. arrays' = arrays
        BY <1>2, <3>2 DEF CallerStep, Call, LazyInit, GetBuf, GetEntry, StoreData, FillEntry,
           Push, Drop, ReadAck, Acked, Timeout, pools
      <4> QED
        BY <2>1, <2>3, <4>1
    <3> QED
      BY <3>1, <3>2
  <2> QED
    BY <2>4, <2>5 DEF CountsOK, N
<1> QED
  BY <1>1, <1>2 DEF Next

-----------------------------------------------------------------------------
(* Types.                                                                  *)

(* What a caller's step does to the pool of entries.                       *)
LEMMA GetEntryFacts ==
  ASSUME TypeOK, NEW c \in Callers, GetEntry(c)
  PROVE  \E e \in 1..entries' :
           /\ e \in entryPool \/ e = entries + 1
           /\ entries' \in {entries, entries + 1} /\ (e \in entryPool => entries' = entries)
           /\ entryPool' = entryPool \ {e}
           /\ call' = [call EXCEPT ![c].e = e,
                                   ![c].pc = IF c \in Structured THEN "fill" ELSE "buffer"]
<1>1. PICK e \in entryPool \cup {entries + 1} :
        /\ entries' = IF e > entries THEN e ELSE entries
        /\ entryPool' = entryPool \ {e}
        /\ call' = [call EXCEPT ![c].e = e,
                                ![c].pc = IF c \in Structured THEN "fill" ELSE "buffer"]
  BY DEF GetEntry
<1>2. entries \in Nat /\ (e \in 1..entries \/ e = entries + 1)
      /\ (e \in entryPool => e \in 1..entries)
  BY <1>1 DEF TypeOK
<1>3. /\ e \in 1..entries' /\ entries' \in {entries, entries + 1}
      /\ e \in entryPool => entries' = entries
  BY <1>1, <1>2
<1> QED
  BY <1>1, <1>3

(* The locals of a call, field by field.                                   *)
Pcs == {"idle"} \cup ToPush \cup {"ack", "wait"}

LEMMA LocalsFacts ==
  ASSUME NEW l \in Locals
  PROVE  /\ \A x \in Pcs : [l EXCEPT !.pc = x] \in Locals
         /\ \A x \in BOOLEAN : [l EXCEPT !.error = x] \in Locals
         /\ \A x \in Entries \cup {Nil} : /\ [l EXCEPT !.e = x] \in Locals
                                       /\ [l EXCEPT !.bp = x] \in Locals
         /\ \A x \in Arrays \cup {Nil} : [l EXCEPT !.own = x] \in Locals
         /\ \A x \in Records \cup {Nil} : [l EXCEPT !.ack = x] \in Locals
BY DEF Locals, Pcs, ToPush, ToArray, ToEntry

LEMMA SetPc ==
  ASSUME call \in [Callers -> Locals], NEW c \in Callers, NEW l \in Locals, NEW x \in Pcs,
         call' = [call EXCEPT ![c] = [l EXCEPT !.pc = x]]
  PROVE  call' \in [Callers -> Locals]
BY LocalsFacts

LEMMA ReturnFacts ==
  ASSUME call \in [Callers -> Locals], NEW c \in Callers, Return(c)
  PROVE  call' \in [Callers -> Locals] /\ call'[c] = NoCall
BY DEF Return, NoCall, Locals

LEMMA SeqGrows ==
  ASSUME NEW S, NEW T, S \subseteq T, NEW s \in Seq(S)
  PROVE  s \in Seq(T)
OBVIOUS

LEMMA EntriesExist ==
  ASSUME TypeOK
  PROVE  1..entries \subseteq Entries
<1>1. Cardinality(Entries) \in Nat /\ Entries = 1..Cardinality(Entries) /\ entries \in 0..Cardinality(Entries)
  BY Sizes DEF TypeOK
<1> QED
  BY <1>1

(* The writer takes the head of the ring and writes one record more.       *)
LEMMA WriteFacts ==
  ASSUME BaseInv, Write
  PROVE  /\ 1 \in 1..Len(ring) /\ taken' = ring[1] /\ taken' \in 1..entries
         /\ ring' \in Seq(1..entries) /\ Len(ring') = Len(ring) - 1
         /\ \A i \in 1..Len(ring') : i + 1 \in 1..Len(ring) /\ ring'[i] = ring[i + 1]
         /\ written' \in Seq(Records \cup {Nil}) /\ Len(written') = Len(written) + 1
<1>0. TypeOK
  BY DEF BaseInv
<1>1. /\ ring # <<>> /\ ring \in Seq(1..entries) /\ taken' = Head(ring) /\ ring' = Tail(ring)
      /\ Len(ring) \in Nat
  BY <1>0 DEF Write, TypeOK
<1>2. /\ Len(ring') = Len(ring) - 1 /\ \A i \in 1..Len(ring') : ring'[i] = ring[i + 1]
      /\ 1 \in 1..Len(ring) /\ taken' = ring[1] /\ ring' \in Seq(1..entries)
  BY <1>1, HeadTailProperties
<1>3. taken' \in 1..entries /\ \A i \in 1..Len(ring') : i + 1 \in 1..Len(ring)
  <2>1. \A i \in 1..Len(ring) : ring[i] \in 1..entries
    BY <1>1, ElementOfSeq
  <2>2. \A i \in 1..(Len(ring) - 1) : i + 1 \in 1..Len(ring)
    BY <1>1
  <2> QED
    BY <1>2, <2>1, <2>2
<1> DEFINE e == Head(ring)
           r == IF data[e] # Nil THEN text[data[e]] ELSE entry[e]
<1>4. r \in Records \cup {Nil}
  <2>1. e \in Entries
    BY <1>0, <1>1, <1>3, EntriesExist
  <2>2. Arrays = 1..Cardinality(Arrays) /\ Cardinality(Arrays) \in Nat
    BY Sizes DEF Arrays
  <2>3. data[e] # Nil => data[e] \in Arrays
    BY <1>0, <2>1, <2>2 DEF TypeOK
  <2> QED
    BY <1>0, <2>1, <2>3 DEF TypeOK
<1>5. written' = Append(written, r)
  BY DEF Write
<1> HIDE DEF r
<1>6. written' \in Seq(Records \cup {Nil}) /\ Len(written') = Len(written) + 1
  BY <1>0, <1>4, <1>5, AppendProperties DEF TypeOK
<1> QED
  BY <1>2, <1>3, <1>6

LEMMA TypeInv ==
  ASSUME BaseInv, Next
  PROVE  TypeOK'
<1> USE PoolAssumption DEF pools, fields, writer, history
<1> DEFINE At(c, x) == call' = [call EXCEPT ![c] = [call[c] EXCEPT !.pc = x]]
<1>0. ASSUME NEW c \in Callers, NEW x \in Pcs, At(c, x) PROVE call' \in [Callers -> Locals]
  BY <1>0, SetPc DEF BaseInv, TypeOK
<1> HIDE DEF At
<1> USE DEF Pcs, ToPush, ToArray, ToEntry
<1>1. entries \in Nat /\ arrays \in Nat /\ TypeOK
  BY DEF BaseInv, TypeOK
<1>2. ASSUME NEW c \in Callers, call[c].pc # "idle" PROVE Record(c) \in Records
  BY <1>2 DEF BaseInv, CallsOK, Record, Records
<1>3. ASSUME NEW c \in Callers PROVE NewAck(c) \in Records \cup {Nil} \/ call[c].pc = "idle"
  BY <1>2 DEF NewAck
<1>4. ASSUME NEW c \in Callers, Holds(c) PROVE call[c].e \in 1..entries /\ call[c].e \in Entries
  <2>1. call[c].e \in 1..entries
    BY <1>4 DEF BaseInv, OwnersOK
  <2>2. Cardinality(Entries) \in Nat /\ Entries = 1..Cardinality(Entries)
    BY Sizes
  <2> QED
    BY <1>1, <2>1, <2>2 DEF TypeOK
<1>5. 1..entries \subseteq Entries
  <2>1. Cardinality(Entries) \in Nat /\ Entries = 1..Cardinality(Entries)
    BY Sizes
  <2> QED
    BY <1>1, <2>1 DEF TypeOK
<1>6. ASSUME NEW c \in Callers, Call(c) PROVE TypeOK'
  <2>1. calls' \in [Callers -> 0..MaxCalls]
    <3>1. calls[c] + 1 \in 0..MaxCalls
      BY <1>1, <1>6 DEF Call, TypeOK
    <3> QED
      BY <1>1, <1>6, <3>1 DEF Call, TypeOK
  <2>2. call' \in [Callers -> Locals]
    <3>1. PICK b \in BOOLEAN : call' = [call EXCEPT ![c].pc = "init", ![c].error = b]
      BY <1>6 DEF Call
    <3>2. [call[c] EXCEPT !.pc = "init"] \in Locals
      BY <1>1, LocalsFacts DEF TypeOK
    <3>3. [[call[c] EXCEPT !.pc = "init"] EXCEPT !.error = b] \in Locals
      BY <3>2, LocalsFacts
    <3> QED
      BY <1>1, <3>1, <3>3 DEF TypeOK
  <2> QED
    BY <1>1, <1>6, <2>1, <2>2 DEF Call, TypeOK
<1>7. ASSUME NEW c \in Callers, LazyInit(c) PROVE TypeOK'
  <2>1. At(c, "acquire") \/ Return(c)
    BY <1>7 DEF LazyInit, Goto, At
  <2>2. call' \in [Callers -> Locals]
    BY <1>0, <1>1, <2>1, ReturnFacts DEF TypeOK
  <2> QED
    BY <1>1, <1>7, <2>2 DEF LazyInit, TypeOK
<1>8. ASSUME NEW c \in Callers, GetEntry(c) PROVE TypeOK'
  <2>1. PICK e \in 1..entries' :
           /\ e \in entryPool \/ e = entries + 1
           /\ entries' \in {entries, entries + 1} /\ (e \in entryPool => entries' = entries)
           /\ entryPool' = entryPool \ {e}
           /\ call' = [call EXCEPT ![c].e = e,
                                   ![c].pc = IF c \in Structured THEN "fill" ELSE "buffer"]
    BY <1>1, <1>8, GetEntryFacts
  <2>2. entries + 1 \in Entries
    BY <1>1, <1>8, OneMore DEF GetEntry, BaseInv, CountsOK, CallsOK, ToEntry
  <2>3. entries' \in 0..Cardinality(Entries) /\ 1..entries \subseteq 1..entries' /\ e \in Entries
    <3>1. Cardinality(Entries) \in Nat /\ Entries = 1..Cardinality(Entries)
      BY Sizes
    <3>2. entries \in Nat /\ entries <= Cardinality(Entries)
      BY <1>1, <3>1 DEF TypeOK
    <3>3. entries + 1 <= Cardinality(Entries)
      BY <2>2, <3>1, <3>2
    <3>4. entries' = entries \/ entries' = entries + 1
      BY <2>1
    <3>5. entries' \in Nat /\ entries' <= Cardinality(Entries) /\ entries <= entries'
      BY <3>1, <3>2, <3>3, <3>4
    <3> QED
      BY <2>1, <3>1, <3>2, <3>5
  <2>4. call' \in [Callers -> Locals]
    <3>1. [call[c] EXCEPT !.e = e] \in Locals
      BY <1>1, <2>3, LocalsFacts DEF TypeOK
    <3>2. call' = [call EXCEPT ![c] = [[call[c] EXCEPT !.e = e]
                     EXCEPT !.pc = IF c \in Structured THEN "fill" ELSE "buffer"]]
      BY <2>1
    <3>3. (IF c \in Structured THEN "fill" ELSE "buffer") \in Pcs
      OBVIOUS
    <3>4. call \in [Callers -> Locals]
      BY <1>1 DEF TypeOK
    <3> HIDE DEF Pcs
    <3> QED
      BY <3>1, <3>2, <3>3, <3>4, SetPc
  <2>5. ring' \in Seq(1..entries') /\ taken' \in (1..entries') \cup {Nil} /\ Len(ring') <= RingSize
    BY <1>1, <1>8, <2>3, LenProperties, SeqGrows DEF GetEntry, TypeOK
  <2>6. entryPool' \subseteq 1..entries'
    BY <1>1, <2>1, <2>3 DEF TypeOK
  <2>7. UNCHANGED <<ready, bufPool, arrays, text, fields, stage, pending, closed, calls, history>>
    BY <1>8 DEF GetEntry
  <2> QED
    BY <1>1, <2>3, <2>4, <2>5, <2>6, <2>7 DEF TypeOK
<1>9. ASSUME NEW c \in Callers, GetBuf(c) PROVE TypeOK'
  <2>1. bufPool' \in [Entries -> Nat]
    <3>1. ASSUME NEW e \in Entries, bufPool[e] > 0 PROVE bufPool[e] - 1 \in Nat
      BY <1>1, <3>1 DEF TypeOK
    <3> QED
      <4>1. CASE bufPool' = bufPool
        BY <1>1, <4>1 DEF TypeOK
      <4>2. CASE \E e \in Entries : bufPool[e] > 0 /\ bufPool' = [bufPool EXCEPT ![e] = @ - 1]
        BY <1>1, <3>1, <4>2 DEF TypeOK
      <4> QED
        BY <1>9, <4>1, <4>2 DEF GetBuf
  <2>2. call' \in [Callers -> Locals]
    <3>1. CASE At(c, "append")
      BY <1>0, <3>1
    <3>2. CASE \E e \in Entries : call' = [call EXCEPT ![c].bp = e, ![c].pc = "append"]
      <4>1. PICK e \in Entries : call' = [call EXCEPT ![c].bp = e, ![c].pc = "append"]
        BY <3>2
      <4>2. [call[c] EXCEPT !.bp = e] \in Locals
        BY <1>1, LocalsFacts DEF TypeOK
      <4>3. call' = [call EXCEPT ![c] = [[call[c] EXCEPT !.bp = e] EXCEPT !.pc = "append"]]
        BY <4>1
      <4>4. call \in [Callers -> Locals] /\ "append" \in Pcs
        BY <1>1 DEF TypeOK
      <4> HIDE DEF Pcs
      <4> QED
        BY <4>2, <4>3, <4>4, SetPc
    <3> QED
      BY <1>9, <3>1, <3>2 DEF GetBuf, At
  <2> QED
    BY <1>1, <1>9, <2>1, <2>2 DEF GetBuf, TypeOK
<1>10. ASSUME NEW c \in Callers, AppendText(c) PROVE TypeOK'
  <2>1. PICK b \in 1..arrays' :
              /\ text' = [text EXCEPT ![b] = Record(c)]
              /\ \/ /\ call' = [call EXCEPT ![c].own = b, ![c].pc = "store"]
                    /\ data' = data
                 \/ /\ call[c].bp \in Entries
                    /\ data' = [data EXCEPT ![call[c].bp] = b]
                    /\ call' = [call EXCEPT ![c].pc = "store"]
    BY <1>1, <1>10, AppendFacts
  <2>2. call[c].pc = "append" /\ (arrays' = arrays \/ arrays' = arrays + 1)
    BY <1>1, <1>10, AppendFacts
  <2>3. arrays + 1 \in Entries
    BY <1>1, <2>2, OneMore DEF BaseInv, CountsOK, CallsOK, ToArray
  <2>4. arrays' \in 0..Cardinality(Arrays) /\ 1..arrays \subseteq 1..arrays' /\ b \in Arrays
    <3>1. Cardinality(Entries) \in Nat /\ Entries = 1..Cardinality(Entries)
      BY Sizes
    <3> QED
      BY SMTT(30), <1>1, <2>2, <2>3, <3>1 DEF TypeOK, Arrays
  <2>5. call' \in [Callers -> Locals]
    <3>1. CASE At(c, "store")
      BY <1>0, <3>1
    <3>2. CASE call' = [call EXCEPT ![c].own = b, ![c].pc = "store"]
      <4>1. [call[c] EXCEPT !.own = b] \in Locals
        BY <1>1, <2>4, LocalsFacts DEF TypeOK
      <4>3. call' = [call EXCEPT ![c] = [[call[c] EXCEPT !.own = b] EXCEPT !.pc = "store"]]
        BY <3>2
      <4>4. call \in [Callers -> Locals] /\ "store" \in Pcs
        BY <1>1 DEF TypeOK
      <4> HIDE DEF Pcs
      <4> QED
        BY <4>1, <4>3, <4>4, SetPc
    <3> QED
      BY <2>1, <3>1, <3>2 DEF At
  <2>6. text' \in [Arrays -> Records \cup {Nil}]
    BY <1>1, <1>2, <2>1, <2>2 DEF TypeOK
  <2>7. data' \in [Entries -> (1..arrays') \cup {Nil}]
    BY <1>1, <2>1, <2>4 DEF TypeOK
  <2>8. UNCHANGED <<ready, entryPool, bufPool, entries, entry, ack, ring, writer, calls, history>>
    BY <1>10 DEF AppendText
  <2> QED
    BY <1>1, <2>4, <2>5, <2>6, <2>7, <2>8 DEF TypeOK
<1>11. ASSUME NEW c \in Callers, StoreData(c) PROVE TypeOK'
  <2>1. Holds(c) /\ NewAck(c) \in Records \cup {Nil}
    BY <1>3, <1>11 DEF StoreData, Holds
  <2>2. data' \in [Entries -> (1..arrays) \cup {Nil}]
    <3>1. (IF call[c].bp = Nil THEN call[c].own ELSE data[call[c].bp]) \in (1..arrays) \cup {Nil}
      BY <1>1 DEF TypeOK, Locals, BaseInv, CallsOK
    <3> QED
      BY <1>1, <1>11, <3>1 DEF StoreData, TypeOK
  <2>3. ack' \in [Entries -> Records \cup {Nil}]
    BY <1>1, <1>11, <2>1 DEF StoreData, TypeOK
  <2>4. call' \in [Callers -> Locals]
    BY <1>0, <1>11 DEF StoreData, Goto, At
  <2> QED
    BY <1>1, <1>11, <2>2, <2>3, <2>4 DEF StoreData, TypeOK
<1>12. ASSUME NEW c \in Callers, FillEntry(c) PROVE TypeOK'
  <2>1. NewAck(c) \in Records \cup {Nil} /\ Record(c) \in Records
    BY <1>2, <1>3, <1>12 DEF FillEntry
  <2>2. data' \in [Entries -> (1..arrays) \cup {Nil}] /\ entry' \in [Entries -> Records \cup {Nil}]
        /\ ack' \in [Entries -> Records \cup {Nil}]
    BY <1>1, <1>12, <2>1 DEF FillEntry, TypeOK
  <2>3. call' \in [Callers -> Locals]
    BY <1>0, <1>12 DEF FillEntry, Goto, At
  <2> QED
    BY <1>1, <1>12, <2>2, <2>3 DEF FillEntry, TypeOK
<1>13. ASSUME NEW c \in Callers, Push(c) \/ Drop(c) PROVE call' \in [Callers -> Locals]
  <2>1. At(c, "ack") \/ Return(c)
    BY <1>13 DEF Push, Drop, Pushed, Goto, At
  <2> QED
    BY <1>0, <1>1, <2>1, ReturnFacts DEF TypeOK
<1>14. ASSUME NEW c \in Callers, Push(c) PROVE TypeOK'
  <2>1. Holds(c) /\ Record(c) \in Records
    BY <1>2, <1>14 DEF Push, Holds
  <2>2. ring' \in Seq(1..entries) /\ Len(ring') <= RingSize
    BY <1>1, <1>4, <1>14, <2>1, AppendProperties DEF Push, TypeOK
  <2>3. accepted' \in Seq(Records)
    BY <1>1, <1>14, <2>1, AppendProperties DEF Push, TypeOK
  <2> QED
    BY <1>1, <1>13, <1>14, <2>2, <2>3 DEF Push, TypeOK
<1>15. ASSUME NEW c \in Callers, Drop(c) PROVE TypeOK'
  <2>1. Holds(c)
    BY <1>15 DEF Drop, Holds
  <2>2. data' \in [Entries -> (1..arrays) \cup {Nil}] /\ entry' \in [Entries -> Records \cup {Nil}]
        /\ ack' \in [Entries -> Records \cup {Nil}] /\ entryPool' \subseteq 1..entries
    BY ZenonT(30), <1>1, <1>4, <1>15, <2>1 DEF Drop, TypeOK
  <2> QED
    BY <1>1, <1>13, <1>15, <2>2 DEF Drop, TypeOK
<1>16. ASSUME NEW c \in Callers, ReadAck(c) PROVE TypeOK'
  <2>1. ack[call[c].e] \in Records \cup {Nil}
    BY <1>1, <1>5, <1>16 DEF ReadAck, TypeOK, BaseInv, CallsOK
  <2>2. call' \in [Callers -> Locals]
    <3>1. [call[c] EXCEPT !.ack = ack[call[c].e]] \in Locals
      BY <1>1, <2>1, LocalsFacts DEF TypeOK
    <3>2. call' = [call EXCEPT ![c] = [[call[c] EXCEPT !.ack = ack[call[c].e]] EXCEPT !.pc = "wait"]]
      BY <1>16 DEF ReadAck
    <3>3. call \in [Callers -> Locals] /\ "wait" \in Pcs
      BY <1>1 DEF TypeOK
    <3> HIDE DEF Pcs
    <3> QED
      BY <3>1, <3>2, <3>3, SetPc
  <2> QED
    BY <1>1, <1>16, <2>2 DEF ReadAck, TypeOK
<1>17. ASSUME NEW c \in Callers, Acked(c) \/ Timeout(c) PROVE TypeOK'
  <2>1. call' \in [Callers -> Locals]
    BY <1>1, <1>17, ReturnFacts DEF Acked, Timeout, TypeOK
  <2>2. believed' \subseteq Records
    BY <1>1, <1>2, <1>17 DEF Acked, Timeout, TypeOK
  <2> QED
    BY <1>1, <1>17, <2>1, <2>2 DEF Acked, Timeout, TypeOK
<1>18. CASE Write
  <2>1. /\ taken' \in 1..entries /\ ring' \in Seq(1..entries) /\ Len(ring') = Len(ring) - 1
        /\ written' \in Seq(Records \cup {Nil}) /\ Len(written') = Len(written) + 1
    BY <1>18, WriteFacts
  <2>2. Len(ring') <= RingSize /\ flushed' \in 0..Len(written')
    <3>1. flushed' = flushed
      BY <1>18 DEF Write
    <3>2. /\ ring \in Seq(1..entries) /\ written \in Seq(Records \cup {Nil})
          /\ Len(ring) <= RingSize /\ flushed \in 0..Len(written)
      BY <1>1 DEF TypeOK
    <3>3. Len(ring) \in Nat /\ Len(written) \in Nat /\ RingSize \in Nat
      BY <3>2, LenProperties, PoolAssumption
    <3> QED
      BY <2>1, <3>1, <3>2, <3>3
  <2> QED
    BY <1>1, <1>18, <2>1, <2>2 DEF Write, TypeOK
<1>19. CASE PutBuf
  <2>1. taken \in 1..entries /\ taken \in Entries
    BY <1>1, <1>5, <1>19 DEF PutBuf, BaseInv, OwnersOK, TypeOK
  <2>2. bufPool' \in [Entries -> Nat]
    BY <1>1, <1>19, <2>1 DEF PutBuf, TypeOK
  <2>3. pending' \in Seq(Records)
    BY <1>1, <1>19, <2>1, AppendProperties DEF PutBuf, TypeOK
  <2> QED
    BY <1>1, <1>19, <2>2, <2>3 DEF PutBuf, TypeOK
<1>20. CASE PutEntry
  <2>1. taken \in 1..entries /\ taken \in Entries
    BY <1>1, <1>5, <1>20 DEF PutEntry, BaseInv, OwnersOK, TypeOK
  <2>2. data' \in [Entries -> (1..arrays) \cup {Nil}] /\ entry' \in [Entries -> Records \cup {Nil}]
        /\ ack' \in [Entries -> Records \cup {Nil}]
    BY <1>1, <1>20, <2>1 DEF PutEntry, TypeOK
  <2> QED
    BY <1>1, <1>20, <2>1, <2>2 DEF PutEntry, TypeOK
<1>21. CASE Flush
  <2>1. pending' = <<>> /\ <<>> \in Seq(Records)
    BY <1>21 DEF Flush
  <2>2. closed' \subseteq Records
    <3>1. \A i \in DOMAIN pending : pending[i] \in Records
      BY <1>1 DEF TypeOK
    <3> QED
      BY <1>1, <1>21, <3>1 DEF Flush, TypeOK
  <2>3. Len(written) \in Nat
    BY <1>1 DEF TypeOK
  <2> QED
    BY <1>1, <1>21, <2>1, <2>2, <2>3 DEF Flush, TypeOK
<1> QED
  BY <1>6, <1>7, <1>8, <1>9, <1>10, <1>11, <1>12, <1>14, <1>15, <1>16, <1>17, <1>18, <1>19,
     <1>20, <1>21 DEF Next, CallerStep, WriterStep

-----------------------------------------------------------------------------
(* Owners.                                                                 *)

LEMMA HoldsFacts ==
  ASSUME TypeOK, NEW c \in Callers, CallerStep(c), ~GetEntry(c)
  PROVE  /\ Holds(c)' => Holds(c) /\ call'[c].e = call[c].e
         /\ call'[c].pc = "ack" => call[c].pc = "push" /\ call'[c].e = call[c].e
<1> USE DEF TypeOK, Goto, Return, NoCall, Locals, Holds
<1>1. CASE Call(c) \/ LazyInit(c)
  BY <1>1 DEF Call, LazyInit
<1>2. CASE GetBuf(c)
  <2>1. call[c].pc = "buffer" /\ call[c] \in Locals
    BY <1>2 DEF GetBuf
  <2>2. CASE call' = [call EXCEPT ![c].pc = "append"]
    BY <2>1, <2>2
  <2>3. CASE \E e \in Entries : call' = [call EXCEPT ![c].bp = e, ![c].pc = "append"]
    <3>1. PICK e \in Entries : call' = [call EXCEPT ![c].bp = e, ![c].pc = "append"]
      BY <2>3
    <3>2. call'[c] = [[call[c] EXCEPT !.bp = e] EXCEPT !.pc = "append"]
      BY <3>1
    <3> QED
      BY <2>1, <3>2
  <2> QED
    BY <1>2, <2>2, <2>3 DEF GetBuf
<1>3. CASE AppendText(c)
  BY <1>3 DEF AppendText
<1>4. CASE StoreData(c) \/ FillEntry(c)
  BY <1>4 DEF StoreData, FillEntry
<1>5. CASE Push(c) \/ Drop(c)
  BY <1>5 DEF Push, Drop, Pushed
<1>6. CASE ReadAck(c) \/ Acked(c) \/ Timeout(c)
  BY <1>6 DEF ReadAck, Acked, Timeout
<1> QED
  BY <1>1, <1>2, <1>3, <1>4, <1>5, <1>6 DEF CallerStep

(* A step after which everybody owns what they owned, or less.             *)
LEMMA SameOwners ==
  ASSUME OwnersOK, UNCHANGED <<ring, entries, entryPool, taken>>,
         stage' = "write" <=> stage = "write",
         \A d \in Callers : Holds(d)' => Holds(d) /\ call'[d].e = call[d].e
  PROVE  OwnersOK'
BY DEF OwnersOK

LEMMA OwnersInv ==
  ASSUME BaseInv, Next
  PROVE  OwnersOK'
<1>1. TypeOK /\ OwnersOK
  BY DEF BaseInv
<1>2. Len(ring) \in Nat /\ ring \in Seq(1..entries) /\ entries \in Nat
  BY <1>1 DEF TypeOK
<1>3. ASSUME NEW c \in Callers, CallerStep(c), ~GetEntry(c)
      PROVE  /\ \A d \in Callers : Holds(d)' => Holds(d) /\ call'[d].e = call[d].e
             /\ taken' = taken /\ stage' = stage /\ entries' = entries
  <2>1. \A d \in Callers : d # c => call'[d] = call[d]
    BY <1>1, <1>3, CallMoves
  <2>2. taken' = taken /\ stage' = stage /\ entries' = entries
    BY <1>3 DEF CallerStep, Call, LazyInit, GetBuf, AppendText, StoreData, FillEntry, Push, Drop,
       ReadAck, Acked, Timeout, writer, pools
  <2> QED
    BY <1>1, <1>3, <2>1, <2>2, HoldsFacts DEF Holds
<1>4. ASSUME NEW c \in Callers, GetEntry(c) PROVE OwnersOK'
  <2>1. PICK e \in 1..entries' :
           /\ e \in entryPool \/ e = entries + 1
           /\ entries' \in {entries, entries + 1} /\ (e \in entryPool => entries' = entries)
           /\ entryPool' = entryPool \ {e}
           /\ call' = [call EXCEPT ![c].e = e,
                                   ![c].pc = IF c \in Structured THEN "fill" ELSE "buffer"]
    BY <1>1, <1>4, GetEntryFacts
  <2>2. ring' = ring /\ taken' = taken /\ stage' = stage
    BY <1>4 DEF GetEntry, writer
  <2>3. call'[c].e = e /\ \A d \in Callers : d # c => call'[d] = call[d]
    BY <1>1, <2>1 DEF TypeOK, Locals
  <2>4. /\ taken # e /\ \A i \in 1..Len(ring) : ring[i] # e
        /\ \A d \in Callers : Holds(d) => call[d].e # e
    <3>1. CASE e \in entryPool
      BY <1>1, <3>1 DEF OwnersOK
    <3>2. CASE e = entries + 1
      <4>1. e \notin 1..entries /\ taken # e
        BY <1>1, <1>2, <3>2, PoolAssumption DEF TypeOK
      <4>2. \A i \in 1..Len(ring) : ring[i] \in 1..entries
        BY <1>2
      <4> QED
        BY <1>1, <4>1, <4>2 DEF OwnersOK
    <3> QED
      BY <2>1, <3>1, <3>2
  <2>5. ASSUME NEW d \in Callers, d # c, Holds(d)'
        PROVE  Holds(d) /\ call'[d].e = call[d].e /\ call[d].e # e /\ call[d].e \in 1..entries'
    <3>1. Holds(d) /\ call'[d].e = call[d].e
      BY <2>3, <2>5 DEF Holds
    <3>2. call[d].e # e /\ call[d].e \in 1..entries
      BY <1>1, <2>4, <3>1 DEF OwnersOK
    <3> QED
      BY <1>2, <2>1, <3>1, <3>2
  <2>6. \A d \in Callers : Holds(d)' =>
          /\ call'[d].e \in 1..entries' /\ call'[d].e \notin entryPool' /\ call'[d].e # taken
          /\ \A i \in 1..Len(ring) : ring[i] # call'[d].e
    <3> SUFFICES ASSUME NEW d \in Callers, Holds(d)'
                 PROVE  /\ call'[d].e \in 1..entries' /\ call'[d].e \notin entryPool'
                        /\ call'[d].e # taken
                        /\ \A i \in 1..Len(ring) : ring[i] # call'[d].e
      OBVIOUS
    <3>1. CASE d = c
      <4>1. e \notin entryPool' /\ e # taken
        BY <2>1, <2>4
      <4> QED
        BY <2>1, <2>3, <2>4, <3>1, <4>1
    <3>2. CASE d # c
      <4>1. Holds(d) /\ call'[d].e = call[d].e /\ call[d].e # e /\ call[d].e \in 1..entries'
        BY <2>5, <3>2
      <4>2. /\ call[d].e \notin entryPool /\ call[d].e # taken
            /\ \A i \in 1..Len(ring) : ring[i] # call[d].e
        BY <1>1, <4>1 DEF OwnersOK
      <4>3. call[d].e \notin entryPool'
        BY <2>1, <4>2
      <4> QED
        BY <4>1, <4>2, <4>3
    <3> QED
      BY <3>1, <3>2
  <2>7. \A d1, d2 \in Callers : Holds(d1)' /\ Holds(d2)' /\ call'[d1].e = call'[d2].e => d1 = d2
    BY <1>1, <2>3, <2>5 DEF OwnersOK
  <2> QED
    BY <1>1, <2>1, <2>2, <2>6, <2>7 DEF OwnersOK
<1>5. ASSUME NEW c \in Callers, Push(c) PROVE OwnersOK'
  <2> DEFINE e == call[c].e
  <2>1. Holds(c) /\ e \in 1..entries
    BY <1>1, <1>5 DEF Push, Holds, OwnersOK
  <2>2. ring' = Append(ring, e) /\ entryPool' = entryPool
    BY <1>5 DEF Push, pools
  <2>3. /\ Len(ring') = Len(ring) + 1 /\ ring'[Len(ring) + 1] = e
        /\ \A i \in 1..Len(ring) : ring'[i] = ring[i]
    BY <1>2, <2>1, <2>2, AppendProperties
  <2>4. ~Holds(c)' /\ \A d \in Callers : d # c => (Holds(d)' <=> Holds(d)) /\ call'[d] = call[d]
    BY <1>1, <1>5 DEF Push, Pushed, Goto, Return, NoCall, Holds, TypeOK, Locals
  <2>5. taken' = taken /\ stage' = stage /\ entries' = entries
    BY <1>5 DEF Push, writer, pools
  <2>6. \A i \in 1..Len(ring') : (i \in 1..Len(ring) /\ ring'[i] = ring[i])
                                 \/ (i = Len(ring) + 1 /\ ring'[i] = e)
    BY <1>2, <2>3
  <2>7. \A i \in 1..Len(ring) : ring[i] # e
    BY <1>1, <2>1 DEF OwnersOK
  <2>8. \A i, j \in 1..Len(ring') : ring'[i] = ring'[j] => i = j
    BY <1>1, <2>6, <2>7 DEF OwnersOK
  <2>9. \A i \in 1..Len(ring') : ring'[i] \notin entryPool /\ ring'[i] # taken
    BY <1>1, <2>1, <2>6 DEF OwnersOK
  <2>10. \A d \in Callers : Holds(d)' =>
           /\ call'[d].e \in 1..entries /\ call'[d].e \notin entryPool /\ call'[d].e # taken
           /\ \A i \in 1..Len(ring') : ring'[i] # call'[d].e
    BY <1>1, <2>1, <2>4, <2>6 DEF OwnersOK
  <2> QED
    BY <1>1, <2>2, <2>4, <2>5, <2>8, <2>9, <2>10 DEF OwnersOK
<1>6. ASSUME NEW c \in Callers, Drop(c) PROVE OwnersOK'
  <2> DEFINE e == call[c].e
  <2>1. Holds(c) /\ e \in 1..entries
    BY <1>1, <1>6 DEF Drop, Holds, OwnersOK
  <2>2. ring' = ring /\ (entryPool' = entryPool \/ entryPool' = entryPool \cup {e})
    BY <1>6 DEF Drop
  <2>3. ~Holds(c)' /\ \A d \in Callers : d # c => (Holds(d)' <=> Holds(d)) /\ call'[d] = call[d]
    BY <1>1, <1>6 DEF Drop, Pushed, Goto, Return, NoCall, Holds, TypeOK, Locals
  <2>4. taken' = taken /\ stage' = stage /\ entries' = entries
    BY <1>6 DEF Drop, writer
  <2>5. /\ e # taken /\ \A i \in 1..Len(ring) : ring[i] # e
        /\ \A d \in Callers : Holds(d)' => Holds(d) /\ call'[d].e = call[d].e /\ call[d].e # e
    BY <1>1, <2>1, <2>3 DEF OwnersOK
  <2> QED
    BY <1>1, <2>2, <2>4, <2>5 DEF OwnersOK
<1>7. CASE Write
  <2>1. /\ ring # <<>> /\ taken' = Head(ring) /\ ring' = Tail(ring) /\ stage' = "put"
        /\ UNCHANGED <<entries, entryPool, call>>
    BY <1>7 DEF Write, pools
  <2>2. /\ Len(ring') = Len(ring) - 1 /\ \A i \in 1..Len(ring') : ring'[i] = ring[i + 1]
        /\ 1 \in 1..Len(ring) /\ taken' = ring[1]
    BY <1>2, <2>1, HeadTailProperties
  <2>3. \A i \in 1..Len(ring') : i + 1 \in 1..Len(ring) /\ i + 1 # 1
    BY <1>2, <2>2
  <2>4. taken' # Nil
    BY <1>2, <2>2, PoolAssumption
  <2>5. \A d \in Callers : Holds(d)' = Holds(d)
    BY <2>1 DEF Holds
  <2>6. \A i, j \in 1..Len(ring') : ring'[i] = ring'[j] => i = j
    <3> SUFFICES ASSUME NEW i \in 1..Len(ring'), NEW j \in 1..Len(ring'), ring'[i] = ring'[j]
                 PROVE  i = j
      OBVIOUS
    <3>1. i + 1 = j + 1
      BY <1>1, <2>2, <2>3 DEF OwnersOK
    <3> QED
      BY <3>1
  <2>7. \A i \in 1..Len(ring') : ring'[i] \notin entryPool /\ ring'[i] # taken'
    BY <1>1, <2>2, <2>3 DEF OwnersOK
  <2>8. \A d \in Callers : Holds(d) =>
           /\ call[d].e \in 1..entries /\ call[d].e \notin entryPool /\ call[d].e # taken'
           /\ \A i \in 1..Len(ring') : ring'[i] # call[d].e
    BY <1>1, <2>2, <2>3 DEF OwnersOK
  <2>9. taken' \notin entryPool
    BY <1>1, <2>2 DEF OwnersOK
  <2> QED
    BY <1>1, <2>1, <2>4, <2>5, <2>6, <2>7, <2>8, <2>9 DEF OwnersOK
<1>8. CASE PutEntry
  <2>1. /\ stage = "clear" /\ stage' = "write" /\ taken' = Nil
        /\ entryPool' = entryPool \cup {taken}
        /\ UNCHANGED <<entries, ring, call>>
    BY <1>8 DEF PutEntry
  <2>2. taken # Nil /\ taken \in 1..entries
    BY <1>1, <2>1 DEF OwnersOK, TypeOK
  <2>3. \A n \in 1..entries : n # Nil
    BY PoolAssumption
  <2>4. \A d \in Callers : Holds(d)' = Holds(d)
    BY <2>1 DEF Holds
  <2>5. \A i \in 1..Len(ring) : ring[i] \in 1..entries
    BY <1>2
  <2>6. Nil \notin entryPool'
    BY <1>1, <2>1, <2>2, <2>3 DEF TypeOK
  <2> QED
    BY <1>1, <2>1, <2>2, <2>3, <2>4, <2>5, <2>6 DEF OwnersOK
<1>9. ASSUME NEW c \in Callers, \/ Call(c) \/ LazyInit(c) \/ GetBuf(c) \/ AppendText(c) \/ StoreData(c)
                                \/ FillEntry(c) \/ ReadAck(c) \/ Acked(c) \/ Timeout(c)
      PROVE  OwnersOK'
  <2>1. CallerStep(c) /\ ~GetEntry(c)
    BY <1>9 DEF CallerStep, GetEntry, Call, LazyInit, GetBuf, AppendText, StoreData, FillEntry, ReadAck,
       Acked, Timeout
  <2>2. ring' = ring /\ entryPool' = entryPool
    BY <1>9 DEF Call, LazyInit, GetBuf, AppendText, StoreData, FillEntry, ReadAck, Acked, Timeout, pools
  <2> QED
    BY <1>1, <1>3, <2>1, <2>2, SameOwners
<1>10. CASE PutBuf \/ Flush
  <2>1. UNCHANGED <<ring, entries, entryPool, taken, call>> /\ (stage' = "write" <=> stage = "write")
    BY <1>10 DEF PutBuf, Flush, pools
  <2> QED
    BY <1>1, <2>1, SameOwners DEF Holds
<1> QED
  BY <1>4, <1>5, <1>6, <1>7, <1>8, <1>9, <1>10 DEF Next, CallerStep, WriterStep

-----------------------------------------------------------------------------
(* Calls.                                                                  *)

(* A caller's step touches the channel of no entry but the one it holds.   *)
LEMMA AckStays ==
  ASSUME TypeOK, NEW c \in Callers, CallerStep(c), NEW x \in Entries,
         Holds(c) => call[c].e # x
  PROVE  ack'[x] = ack[x]
<1> USE DEF TypeOK, Holds
<1>1. CASE StoreData(c) \/ FillEntry(c)
  <2>1. Holds(c)
    BY <1>1 DEF StoreData, FillEntry
  <2> QED
    BY <1>1, <2>1 DEF StoreData, FillEntry
<1>2. CASE Drop(c)
  <2>1. Holds(c)
    BY <1>2 DEF Drop
  <2> QED
    BY <1>2, <2>1 DEF Drop, fields
<1>3. CASE ~StoreData(c) /\ ~FillEntry(c) /\ ~Drop(c)
  BY <1>3 DEF CallerStep, Call, LazyInit, GetEntry, GetBuf, AppendText, Push, ReadAck, Acked,
     Timeout, fields
<1> QED
  BY <1>1, <1>2, <1>3

(* The entry of a call that is about to push carries the call's channel.   *)
LEMMA ToPushFacts ==
  ASSUME BaseInv, NEW c \in Callers, CallerStep(c), call'[c].pc = "push"
  PROVE  ack'[call'[c].e] = NewAck(c)' /\ call'[c].e = call[c].e
<1>1. <<call[c].pc, call'[c].pc>> \in Moves
  BY CallMoves DEF BaseInv
<1>2. call[c].pc \in {"store", "fill"}
  BY <1>1 DEF Moves
<1>3. StoreData(c) \/ FillEntry(c)
  BY <1>2 DEF CallerStep, Call, LazyInit, GetEntry, GetBuf, AppendText, Push, Drop, ReadAck, Acked,
     Timeout
<1>4. call[c].e \in Entries
  <2>1. call[c].e \in 1..entries
    BY <1>2 DEF BaseInv, OwnersOK, Holds
  <2>2. Cardinality(Entries) \in Nat /\ Entries = 1..Cardinality(Entries) /\ entries \in 0..Cardinality(Entries)
    BY Sizes DEF BaseInv, TypeOK
  <2> QED
    BY <2>1, <2>2
<1>5. call' = [call EXCEPT ![c].pc = "push"] /\ calls' = calls
  BY <1>3 DEF StoreData, FillEntry, Goto
<1>6. call'[c].e = call[c].e /\ NewAck(c)' = NewAck(c)
  BY <1>5 DEF BaseInv, TypeOK, Locals, NewAck, Record
<1>7. ack' = [ack EXCEPT ![call[c].e] = NewAck(c)]
  BY <1>3 DEF StoreData, FillEntry
<1> QED
  BY <1>4, <1>6, <1>7 DEF BaseInv, TypeOK

LEMMA CallsInv ==
  ASSUME BaseInv, Next
  PROVE  CallsOK'
<1>1. TypeOK /\ OwnersOK /\ CallsOK /\ entries \in Nat /\ arrays \in Nat
  BY DEF BaseInv, TypeOK
<1>2. CASE WriterStep
  <2>1. UNCHANGED <<call, calls, entries, arrays>>
    BY <1>2 DEF WriterStep, Write, PutBuf, PutEntry, Flush, pools
  <2>2. \A x \in Entries : x # taken => ack'[x] = ack[x]
    BY <1>1, <1>2 DEF WriterStep, Write, PutBuf, PutEntry, Flush, fields, TypeOK
  <2>3. \A c \in Callers : call[c].pc = "push" => call[c].e # taken /\ call[c].e \in Entries
    BY <1>1, EntriesExist DEF OwnersOK, Holds
  <2> QED
    BY <1>1, <2>1, <2>2, <2>3 DEF CallsOK, NewAck, Record
<1>3. ASSUME NEW c \in Callers, CallerStep(c) PROVE CallsOK'
  <2>1. /\ \A d \in Callers : d # c => call'[d] = call[d] /\ calls'[d] = calls[d]
        /\ \/ /\ call[c].pc = "idle" /\ call'[c].pc = "init"
              /\ calls'[c] = calls[c] + 1 /\ calls'[c] \in 1..MaxCalls
           \/ calls'[c] = calls[c] /\ <<call[c].pc, call'[c].pc>> \in Moves
    BY <1>1, <1>3, CallMoves
  <2>2. entries' \in Nat /\ entries <= entries'
    <3>1. CASE GetEntry(c)
      <4>1. entries' \in {entries, entries + 1}
        BY <1>1, <3>1, GetEntryFacts
      <4> QED
        BY <1>1, <4>1
    <3>2. CASE ~GetEntry(c)
      BY <1>1, <1>3, <3>2 DEF CallerStep, Call, LazyInit, GetBuf, AppendText, StoreData, FillEntry,
         Push, Drop, ReadAck, Acked, Timeout, pools
    <3> QED
      BY <3>1, <3>2
  <2>3. arrays' \in Nat /\ arrays <= arrays'
    <3>1. CASE AppendText(c)
      BY <1>1, <3>1, AppendFacts
    <3>2. CASE ~AppendText(c)
      BY <1>1, <1>3, <3>2 DEF CallerStep, Call, LazyInit, GetBuf, GetEntry, StoreData, FillEntry,
         Push, Drop, ReadAck, Acked, Timeout, pools
    <3> QED
      BY <3>1, <3>2
  <2>4. call'[c].pc # "idle" => calls'[c] \in 1..MaxCalls
    BY <1>1, <2>1 DEF CallsOK, Moves
  <2>5. call'[c].pc = "ack" => call'[c].e \in 1..entries'
    <3>1. ASSUME call'[c].pc = "ack" PROVE ~GetEntry(c)
      BY ZenonT(30), <1>1, <3>1 DEF GetEntry, TypeOK, Locals
    <3>2. ASSUME call'[c].pc = "ack" PROVE Holds(c) /\ call'[c].e = call[c].e
      BY <1>1, <1>3, <3>1, <3>2, HoldsFacts DEF Holds
    <3> QED
      BY <1>1, <2>2, <3>2 DEF OwnersOK
  <2>6. call'[c].own \in (1..arrays') \cup {Nil}
    <3>1. CASE AppendText(c)
      <4>1. PICK b \in 1..arrays' :
              \/ call' = [call EXCEPT ![c].own = b, ![c].pc = "store"]
              \/ call' = [call EXCEPT ![c].pc = "store"]
        BY <1>1, <3>1, AppendFacts
      <4>2. call'[c].own \in {b, call[c].own}
        BY <1>1, <4>1 DEF TypeOK, Locals
      <4> QED
        BY <1>1, <2>3, <4>2 DEF CallsOK
    <3>2. CASE ~AppendText(c)
      <4>1. call'[c].own \in {call[c].own, Nil}
        <5> USE DEF TypeOK, Goto, Return, NoCall, Locals
        <5>1. CASE Call(c) \/ LazyInit(c)
          BY <1>1, <5>1 DEF Call, LazyInit
        <5>2. CASE GetEntry(c)
          BY <1>1, <5>2 DEF GetEntry
        <5>3. CASE GetBuf(c)
          <6>1. CASE call' = [call EXCEPT ![c].pc = "append"]
            BY <1>1, <6>1
          <6>2. CASE \E e \in Entries : call' = [call EXCEPT ![c].bp = e, ![c].pc = "append"]
            <7>1. PICK e \in Entries : call' = [call EXCEPT ![c].bp = e, ![c].pc = "append"]
              BY <6>2
            <7>2. call'[c] = [[call[c] EXCEPT !.bp = e] EXCEPT !.pc = "append"]
              BY <1>1, <7>1
            <7>3. call[c] \in Locals
              BY <1>1
            <7> QED
              BY <7>2, <7>3
          <6> QED
            BY <5>3, <6>1, <6>2 DEF GetBuf
        <5>4. CASE StoreData(c) \/ FillEntry(c)
          BY <1>1, <5>4 DEF StoreData, FillEntry
        <5>5. CASE Push(c) \/ Drop(c)
          BY <1>1, <5>5 DEF Push, Drop, Pushed
        <5>6. CASE ReadAck(c) \/ Acked(c) \/ Timeout(c)
          BY <1>1, <5>6 DEF ReadAck, Acked, Timeout
        <5> QED
          BY <1>3, <3>2, <5>1, <5>2, <5>3, <5>4, <5>5, <5>6 DEF CallerStep
      <4> QED
        BY <1>1, <2>3, <4>1 DEF CallsOK
    <3> QED
      BY <3>1, <3>2
  <2>7. call'[c].pc = "push" => ack'[call'[c].e] = NewAck(c)'
    BY <1>3, ToPushFacts
  <2>8. ASSUME NEW d \in Callers, d # c
        PROVE  /\ call'[d].pc # "idle" => calls'[d] \in 1..MaxCalls
               /\ call'[d].pc = "ack" => call'[d].e \in 1..entries'
               /\ call'[d].own \in (1..arrays') \cup {Nil}
               /\ call'[d].pc = "push" => ack'[call'[d].e] = NewAck(d)'
    <3>1. call'[d] = call[d] /\ calls'[d] = calls[d] /\ NewAck(d)' = NewAck(d)
      BY <2>1, <2>8 DEF NewAck, Record
    <3>2. /\ call[d].pc # "idle" => calls[d] \in 1..MaxCalls
          /\ call[d].pc = "ack" => call[d].e \in 1..entries
          /\ call[d].own \in (1..arrays) \cup {Nil}
          /\ call[d].pc = "push" => ack[call[d].e] = NewAck(d)
      BY <1>1 DEF CallsOK
    <3>3. ASSUME call[d].pc = "push" PROVE ack'[call[d].e] = ack[call[d].e]
      <4>1. Holds(c) => call[c].e # call[d].e
        BY <1>1, <2>8, <3>3 DEF OwnersOK, Holds
      <4>2. call[d].e \in Entries
        BY <1>1, <3>3, EntriesExist DEF OwnersOK, Holds
      <4> QED
        BY <1>1, <1>3, <4>1, <4>2, AckStays
    <3> QED
      BY <1>1, <2>2, <2>3, <3>1, <3>2, <3>3
  <2> QED
    BY <2>4, <2>5, <2>6, <2>7, <2>8 DEF CallsOK
<1> QED
  BY <1>2, <1>3 DEF Next

LEMMA BaseStep ==
  ASSUME BaseInv, [Next]_vars
  PROVE  BaseInv'
<1>1. CASE Next
  BY <1>1, TypeInv, OwnersInv, CallsInv, CountsInv DEF BaseInv
<1>2. CASE UNCHANGED vars
  <2>1. Past(ToEntry)' = Past(ToEntry) /\ Past(ToArray)' = Past(ToArray)
    BY <1>2 DEF Past, vars
  <2> QED
    BY <1>2, <2>1 DEF BaseInv, TypeOK, OwnersOK, CallsOK, CountsOK, NewAck, Record, Holds,
       vars, pools, fields, writer, history
<1> QED
  BY <1>1, <1>2

LEMMA BaseInit ==
  ASSUME Init
  PROVE  BaseInv
<1> USE PoolAssumption DEF Init
<1>1. Cardinality(Entries) \in Nat /\ Entries = 1..Cardinality(Entries)
  BY Sizes
<1>2. NoCall \in Locals
  BY DEF NoCall, Locals
<1>3. TypeOK
  <2>1. ring \in Seq(1..entries) /\ Len(ring) <= RingSize
    OBVIOUS
  <2>2. pending \in Seq(Records) /\ accepted \in Seq(Records) /\ written \in Seq(Records \cup {Nil})
        /\ flushed \in 0..Len(written)
    OBVIOUS
  <2>3. call \in [Callers -> Locals] /\ calls \in [Callers -> 0..MaxCalls]
    BY <1>2
  <2>4. entries \in 0..Cardinality(Entries) /\ arrays \in 0..Cardinality(Arrays)
    BY <1>1 DEF Arrays
  <2> QED
    BY <2>1, <2>2, <2>3, <2>4 DEF TypeOK
<1>4. OwnersOK
  BY DEF OwnersOK, Holds, NoCall
<1>5. CallsOK
  BY DEF CallsOK, NoCall
<1>6. CountsOK
  BY PastFacts DEF CountsOK
<1> QED
  BY <1>3, <1>4, <1>5, <1>6 DEF BaseInv

-----------------------------------------------------------------------------
(***************************************************************************)
(* Places and channels.  A call that is past its push is Over; the records *)
(* in the ring's history and in believed are of such calls, so no record   *)
(* is accepted twice.                                                      *)
(***************************************************************************)
Over == Past(ToPush)

PlacesOK ==
  /\ Len(accepted) = Len(written) + Len(ring)
  /\ \A i \in 1..Len(accepted) : accepted[i] \in Over
  /\ \A i, j \in 1..Len(accepted) : accepted[i] = accepted[j] => i = j
  /\ believed \subseteq Over

(* The channel in an entry on its way to the writer is that of the record  *)
(* accepted with it; pendingAck holds channels of records written and not  *)
(* flushed, and the closed ones are of flushed records.                    *)
ChannelsOK ==
  /\ \A k \in 1..Len(ring) : ack[ring[k]] \in {Nil, accepted[Len(written) + k]}
  /\ stage # "write" => Len(written) > flushed
  /\ stage = "put" => ack[taken] \in {Nil, accepted[Len(written)]}
  /\ \A k \in 1..Len(pending) : \E i \in PlaceOf(pending[k]) :
       /\ flushed < i /\ i <= Len(written)
       /\ stage = "put" => i < Len(written)
  /\ \A k, l \in 1..Len(pending) : pending[k] = pending[l] => k = l
  /\ \A r \in closed : \E i \in PlaceOf(r) : i <= flushed

(* What the closing of channel a says to caller c: its own record, or one  *)
(* accepted later, is flushed; or c wrote structured and was dropped.      *)
Tells(a, c) ==
  \/ c \in Structured /\ PlaceOf(Record(c)) = {}
  \/ a = Record(c)
  \/ \E i \in PlaceOf(Record(c)) : \A j \in PlaceOf(a) : i <= j

WaitsOK ==
  \A c \in Callers :
    /\ call[c].pc = "ack" => Tells(ack[call[c].e], c)
    /\ call[c].pc = "ack" /\ PlaceOf(Record(c)) = {} /\ c \notin Structured => Unowned(call[c].e)
    /\ call[c].pc = "wait" => Tells(call[c].ack, c)

PoolInv == BaseInv /\ PlacesOK /\ ChannelsOK /\ WaitsOK /\ AckMeansFlushed

LEMMA OverFacts ==
  ASSUME BaseInv, NEW c \in Callers, CallerStep(c)
  PROVE  /\ Over \subseteq Over'
         /\ call[c].pc = "push" => Record(c) \in Records \ Over /\ Record(c) \in Over'
<1>1. Over \subseteq Over'
  BY PastGrows DEF Over, BaseInv
<1>2. ASSUME call[c].pc = "push" PROVE Record(c) \in Records \ Over /\ Record(c) \in Over'
  <2>1. Record(c) \in Records /\ Record(c) \notin Over
    BY <1>2 DEF Over, Past, ToPush, Record, Records, BaseInv, CallsOK
  <2>2. calls'[c] = calls[c] /\ call'[c].pc \in {"ack", "idle"}
    BY <1>2, CallMoves DEF Moves, BaseInv
  <2>3. call'[c].pc \notin ToPush \/ call'[c].pc = "idle"
    BY <2>2 DEF ToPush, ToArray, ToEntry
  <2>4. "idle" \notin ToPush
    BY DEF ToPush, ToArray, ToEntry
  <2> QED
    BY <2>1, <2>2, <2>3, <2>4 DEF Over, Past, Record
<1> QED
  BY <1>1, <1>2

LEMMA WaitsAreOver ==
  ASSUME BaseInv, NEW c \in Callers, call[c].pc \in {"ack", "wait"}
  PROVE  Record(c) \in Over
BY DEF Over, Past, ToPush, ToArray, ToEntry, Record, Records, BaseInv, CallsOK

LEMMA PushFacts ==
  ASSUME BaseInv, PlacesOK, NEW c \in Callers, Push(c)
  PROVE  /\ call[c].e \in 1..entries /\ Holds(c)
         /\ Len(ring') = Len(ring) + 1 /\ ring'[Len(ring) + 1] = call[c].e
         /\ \A i \in 1..Len(ring) : ring'[i] = ring[i]
         /\ Len(accepted') = Len(accepted) + 1 /\ accepted'[Len(accepted) + 1] = Record(c)
         /\ \A i \in 1..Len(accepted) : accepted'[i] = accepted[i]
         /\ DOMAIN accepted' = 1..(Len(accepted) + 1)
<1>1. TypeOK /\ Holds(c) /\ call[c].e \in 1..entries
  BY DEF BaseInv, OwnersOK, Holds, Push
<1>2. Record(c) \in Records
  BY OverFacts DEF CallerStep, Push
<1>3. ring' = Append(ring, call[c].e) /\ accepted' = Append(accepted, Record(c))
  BY DEF Push
<1>4. ring \in Seq(1..entries) /\ accepted \in Seq(Records)
  BY <1>1 DEF TypeOK
<1> QED
  BY <1>1, <1>2, <1>3, <1>4, AppendProperties

LEMMA AcceptedSame ==
  ASSUME NEW c \in Callers, CallerStep(c), ~Push(c)
  PROVE  UNCHANGED <<ring, accepted, written, flushed>>
BY DEF CallerStep, Call, LazyInit, GetEntry, GetBuf, AppendText, StoreData, FillEntry, Drop,
   ReadAck, Acked, Timeout, history

LEMMA CallerKeeps ==
  ASSUME NEW c \in Callers, CallerStep(c)
  PROVE  UNCHANGED <<written, flushed, writer>>
BY DEF CallerStep, Call, LazyInit, GetEntry, GetBuf, AppendText, StoreData, FillEntry, Push, Drop,
   ReadAck, Acked, Timeout, history

(* A record of a call that is over keeps its place; the places of another  *)
(* may grow by the last.                                                   *)
LEMMA PlaceFacts ==
  ASSUME BaseInv, PlacesOK, NEW c \in Callers, CallerStep(c)
  PROVE  /\ \A r \in Over : PlaceOf(r)' = PlaceOf(r)
         /\ \A r : /\ PlaceOf(r) \subseteq PlaceOf(r)'
                   /\ PlaceOf(r)' \subseteq PlaceOf(r) \cup {Len(accepted) + 1}
<1>1. CASE ~Push(c)
  BY <1>1, AcceptedSame DEF PlaceOf
<1>2. CASE Push(c)
  <2>1. /\ DOMAIN accepted' = 1..(Len(accepted) + 1) /\ accepted'[Len(accepted) + 1] = Record(c)
        /\ \A i \in 1..Len(accepted) : accepted'[i] = accepted[i]
        /\ DOMAIN accepted = 1..Len(accepted) /\ Len(accepted) \in Nat
    <3>1. accepted \in Seq(Records)
      BY DEF BaseInv, TypeOK
    <3>2. DOMAIN accepted = 1..Len(accepted) /\ Len(accepted) \in Nat
      BY <3>1, LenProperties
    <3> QED
      BY <1>2, <3>2, PushFacts DEF BaseInv
  <2>2. Record(c) \notin Over
    BY <1>2, OverFacts DEF Push
  <2>3. 1..(Len(accepted) + 1) = (1..Len(accepted)) \cup {Len(accepted) + 1}
    BY <2>1
  <2> QED
    BY <2>1, <2>2, <2>3 DEF PlaceOf
<1> QED
  BY <1>1, <1>2

LEMMA PlaceBounds ==
  ASSUME TypeOK, NEW r, NEW i \in PlaceOf(r)
  PROVE  i \in 1..Len(accepted) /\ Len(accepted) \in Nat /\ accepted[i] = r /\ r \in Records
BY DEF PlaceOf, TypeOK

LEMMA PlacesInv ==
  ASSUME PoolInv, Next
  PROVE  PlacesOK'
<1>1. /\ BaseInv /\ TypeOK /\ PlacesOK /\ Len(accepted) \in Nat /\ Len(written) \in Nat
      /\ Len(ring) \in Nat
  BY DEF PoolInv, BaseInv, TypeOK
<1>2. ASSUME NEW c \in Callers, Push(c) PROVE PlacesOK'
  <2>1. /\ Len(accepted') = Len(accepted) + 1 /\ accepted'[Len(accepted) + 1] = Record(c)
        /\ \A i \in 1..Len(accepted) : accepted'[i] = accepted[i]
        /\ Len(ring') = Len(ring) + 1
    BY <1>1, <1>2, PushFacts
  <2>2. Over \subseteq Over' /\ Record(c) \notin Over /\ Record(c) \in Over'
    BY <1>1, <1>2, OverFacts DEF Push, CallerStep
  <2>3. \A i \in 1..Len(accepted') : i \in 1..Len(accepted) \/ i = Len(accepted) + 1
    BY <1>1, <2>1
  <2>4. written' = written /\ believed' = believed
    BY <1>2 DEF Push
  <2>5. Len(accepted') = Len(written') + Len(ring')
    BY <1>1, <2>1, <2>4 DEF PlacesOK
  <2>6. \A i \in 1..Len(accepted) : accepted[i] \in Over /\ accepted[i] # Record(c)
    BY <1>1, <2>2 DEF PlacesOK
  <2>7. \A i, j \in 1..Len(accepted') : accepted'[i] = accepted'[j] => i = j
    BY <1>1, <2>1, <2>3, <2>6 DEF PlacesOK
  <2>8. \A i \in 1..Len(accepted') : accepted'[i] \in Over'
    BY <2>1, <2>2, <2>3, <2>6
  <2> QED
    BY <1>1, <2>2, <2>4, <2>5, <2>7, <2>8 DEF PlacesOK
<1>3. ASSUME NEW c \in Callers, CallerStep(c), ~Push(c) PROVE PlacesOK'
  <2>1. Over \subseteq Over' /\ UNCHANGED <<ring, accepted, written, flushed>>
    BY <1>1, <1>3, OverFacts, AcceptedSame
  <2>2. believed' \subseteq Over
    <3>1. CASE Acked(c)
      <4>1. call[c].pc = "wait" /\ believed' = believed \cup {Record(c)}
        BY <3>1 DEF Acked
      <4> QED
        BY <1>1, <4>1, WaitsAreOver DEF PlacesOK
    <3>2. CASE ~Acked(c)
      <4>1. believed' = believed
        BY <1>3, <3>2 DEF CallerStep, Call, LazyInit, GetEntry, GetBuf, AppendText, StoreData, FillEntry,
           Drop, ReadAck, Timeout, history
      <4> QED
        BY <1>1, <4>1 DEF PlacesOK
    <3> QED
      BY <3>1, <3>2
  <2> QED
    BY <1>1, <2>1, <2>2 DEF PlacesOK
<1>4. CASE WriterStep
  <2>1. Over' = Over
    BY <1>4, PastSame DEF Over
  <2>2. accepted' = accepted /\ believed' = believed
    BY <1>4 DEF WriterStep, Write, PutBuf, PutEntry, Flush, history
  <2>3. Len(written') + Len(ring') = Len(written) + Len(ring)
    <3>1. CASE Write
      <4>1. Len(ring') = Len(ring) - 1 /\ Len(written') = Len(written) + 1
        BY <1>1, <3>1, WriteFacts
      <4> QED
        BY <1>1, <4>1
    <3>2. CASE ~Write
      BY <1>4, <3>2 DEF WriterStep, PutBuf, PutEntry, Flush, history
    <3> QED
      BY <3>1, <3>2
  <2> QED
    BY <1>1, <2>1, <2>2, <2>3 DEF PlacesOK
<1> QED
  BY <1>2, <1>3, <1>4 DEF Next

(* The entries in the ring and the one the writer has keep their channels  *)
(* while a caller steps.                                                   *)
LEMMA ChannelsStay ==
  ASSUME BaseInv, NEW c \in Callers, CallerStep(c)
  PROVE  /\ \A i \in 1..Len(ring) : ack'[ring[i]] = ack[ring[i]]
         /\ taken # Nil => ack'[taken] = ack[taken]
<1>1. TypeOK /\ OwnersOK
  BY DEF BaseInv
<1>2. \A i \in 1..Len(ring) : ring[i] \in Entries
  BY <1>1, EntriesExist, ElementOfSeq DEF TypeOK
<1>3. taken # Nil => taken \in Entries
  BY <1>1, EntriesExist DEF TypeOK
<1> QED
  BY <1>1, <1>2, <1>3, AckStays DEF OwnersOK

LEMMA ChannelsInv ==
  ASSUME PoolInv, Next
  PROVE  ChannelsOK'
<1>1. /\ BaseInv /\ TypeOK /\ OwnersOK /\ PlacesOK /\ ChannelsOK
      /\ Len(accepted) \in Nat /\ Len(written) \in Nat /\ flushed \in 0..Len(written)
      /\ Len(ring) \in Nat /\ Len(pending) \in Nat /\ DOMAIN accepted = 1..Len(accepted)
  <2>1. BaseInv /\ TypeOK /\ OwnersOK /\ PlacesOK /\ ChannelsOK
    BY DEF PoolInv, BaseInv
  <2>2. /\ accepted \in Seq(Records) /\ written \in Seq(Records \cup {Nil})
        /\ flushed \in 0..Len(written) /\ ring \in Seq(1..entries) /\ pending \in Seq(Records)
    BY <2>1 DEF TypeOK
  <2> QED
    BY <2>1, <2>2, LenProperties
<1>2. ASSUME NEW c \in Callers, CallerStep(c) PROVE ChannelsOK'
  <2>1. \A r : PlaceOf(r) \subseteq PlaceOf(r)'
    BY <1>1, <1>2, PlaceFacts
  <2>2. UNCHANGED <<written, flushed, writer>>
    BY <1>2, CallerKeeps
  <2>3. \A k \in 1..Len(ring) : ack'[ring[k]] \in {Nil, accepted[Len(written) + k]}
    BY <1>1, <1>2, ChannelsStay DEF ChannelsOK
  <2>4. \A k \in 1..Len(ring') : ack'[ring'[k]] \in {Nil, accepted'[Len(written) + k]}
    <3>1. CASE Push(c)
      <4>1. /\ call[c].e \in 1..entries /\ Holds(c)
            /\ Len(ring') = Len(ring) + 1 /\ ring'[Len(ring) + 1] = call[c].e
            /\ \A i \in 1..Len(ring) : ring'[i] = ring[i]
            /\ Len(accepted') = Len(accepted) + 1 /\ accepted'[Len(accepted) + 1] = Record(c)
            /\ \A i \in 1..Len(accepted) : accepted'[i] = accepted[i]
        BY <1>1, <3>1, PushFacts
      <4>2. ack' = ack /\ ack[call[c].e] = NewAck(c)
        BY <1>1, <3>1 DEF Push, fields, BaseInv, CallsOK
      <4>3. NewAck(c) \in {Nil, accepted'[Len(written) + (Len(ring) + 1)]}
        <5>1. Len(accepted) + 1 = Len(written) + (Len(ring) + 1)
          BY <1>1 DEF PlacesOK
        <5> QED
          BY <4>1, <5>1 DEF NewAck
      <4>4. ASSUME NEW k \in 1..Len(ring')
            PROVE  ack'[ring'[k]] \in {Nil, accepted'[Len(written) + k]}
        <5>1. CASE k = Len(ring) + 1
          BY <4>1, <4>2, <4>3, <5>1
        <5>2. CASE k # Len(ring) + 1
          <6>1. k \in 1..Len(ring) /\ Len(written) + k \in 1..Len(accepted)
            BY <1>1, <4>1, <5>2 DEF PlacesOK
          <6> QED
            BY <2>3, <4>1, <6>1
        <5> QED
          BY <5>1, <5>2
      <4> QED
        BY <4>4
    <3>2. CASE ~Push(c)
      BY <1>2, <2>3, <3>2, AcceptedSame
    <3> QED
      BY <3>1, <3>2
  <2>5. stage = "put" => ack'[taken] \in {Nil, accepted'[Len(written)]}
    <3>1. ASSUME stage = "put" PROVE ack'[taken] \in {Nil, accepted[Len(written)]}
      BY <1>1, <1>2, <3>1, ChannelsStay DEF ChannelsOK, OwnersOK
    <3>2. ASSUME stage = "put" PROVE accepted'[Len(written)] = accepted[Len(written)]
      <4>1. Len(written) \in 1..Len(accepted)
        BY <1>1, <3>2 DEF ChannelsOK, PlacesOK
      <4> QED
        BY <1>1, <1>2, <4>1, PushFacts, AcceptedSame
    <3> QED
      BY <3>1, <3>2
  <2>6. \A k \in 1..Len(pending) : \E i \in PlaceOf(pending[k])' :
          /\ flushed < i /\ i <= Len(written)
          /\ stage = "put" => i < Len(written)
    BY <1>1, <2>1, <2>2 DEF ChannelsOK, writer
  <2>7. \A r \in closed : \E i \in PlaceOf(r)' : i <= flushed
    BY <1>1, <2>1 DEF ChannelsOK
  <2>8. (\A k \in 1..Len(pending) : \E i \in PlaceOf(pending[k]) :
          /\ flushed < i /\ i <= Len(written)
          /\ stage = "put" => i < Len(written))'
    BY <2>2, <2>6 DEF writer, PlaceOf
  <2>9. (\A r \in closed : \E i \in PlaceOf(r) : i <= flushed)'
    BY <2>2, <2>7 DEF writer
  <2> QED
    BY <1>1, <2>2, <2>4, <2>5, <2>8, <2>9 DEF ChannelsOK, writer
<1>3. CASE Write
  <2>1. /\ 1 \in 1..Len(ring) /\ taken' = ring[1] /\ Len(ring') = Len(ring) - 1
        /\ \A i \in 1..Len(ring') : i + 1 \in 1..Len(ring) /\ ring'[i] = ring[i + 1]
        /\ Len(written') = Len(written) + 1
    BY <1>1, <1>3, WriteFacts
  <2>2. /\ stage' = "put" /\ stage = "write"
        /\ UNCHANGED <<ack, pending, closed, accepted, flushed>>
    BY <1>3 DEF Write, fields
  <2>3. \A k \in 1..Len(ring') : ack[ring'[k]] \in {Nil, accepted[Len(written') + k]}
    <3> SUFFICES ASSUME NEW k \in 1..Len(ring')
                 PROVE  ack[ring'[k]] \in {Nil, accepted[Len(written') + k]}
      OBVIOUS
    <3>1. Len(written) + (k + 1) = Len(written') + k
      BY <1>1, <2>1
    <3>2. ack[ring[k + 1]] \in {Nil, accepted[Len(written) + (k + 1)]}
      BY <1>1, <2>1 DEF ChannelsOK
    <3> QED
      BY <2>1, <3>1, <3>2
  <2>4. ack[taken'] \in {Nil, accepted[Len(written')]}
    BY <1>1, <2>1 DEF ChannelsOK
  <2>5. \A r : PlaceOf(r)' = PlaceOf(r)
    BY <2>2 DEF PlaceOf
  <2>6. \A k \in 1..Len(pending) : \E i \in PlaceOf(pending[k]) :
          flushed < i /\ i < Len(written')
    <3> SUFFICES ASSUME NEW k \in 1..Len(pending)
                 PROVE  \E i \in PlaceOf(pending[k]) : flushed < i /\ i < Len(written')
      OBVIOUS
    <3>1. PICK i \in PlaceOf(pending[k]) : flushed < i /\ i <= Len(written)
      BY <1>1 DEF ChannelsOK
    <3>2. i \in Nat
      BY <1>1, PlaceBounds
    <3> QED
      BY <1>1, <2>1, <3>1, <3>2
  <2>7. Len(written') > flushed
    BY <1>1, <2>1
  <2>8. \A k \in 1..Len(pending) : \E i \in PlaceOf(pending[k])' :
          flushed < i /\ i <= Len(written') /\ i < Len(written')
    <3> SUFFICES ASSUME NEW k \in 1..Len(pending)
                 PROVE  \E i \in PlaceOf(pending[k])' : flushed < i /\ i <= Len(written') /\ i < Len(written')
      OBVIOUS
    <3>1. PICK i \in PlaceOf(pending[k]) : flushed < i /\ i < Len(written')
      BY <2>6
    <3>2. i \in Nat /\ i \in PlaceOf(pending[k])'
      BY <1>1, <2>2, <3>1, PlaceBounds DEF PlaceOf
    <3> QED
      BY <1>1, <2>1, <3>1, <3>2
  <2>9. (\A k \in 1..Len(pending) : \E i \in PlaceOf(pending[k]) :
          /\ flushed < i /\ i <= Len(written)
          /\ stage = "put" => i < Len(written))'
    BY <2>2, <2>8 DEF PlaceOf
  <2> QED
    BY <1>1, <2>2, <2>3, <2>4, <2>5, <2>7, <2>9 DEF ChannelsOK
<1>4. CASE PutBuf
  <2>1. /\ stage = "put" /\ stage' = "clear"
        /\ pending' = IF ack[taken] = Nil THEN pending ELSE Append(pending, ack[taken])
        /\ UNCHANGED <<ack, ring, taken, closed, accepted, written, flushed>>
    BY <1>4 DEF PutBuf, fields, history
  <2>2. \A r : PlaceOf(r)' = PlaceOf(r)
    BY <2>1 DEF PlaceOf
  <2>3. Len(written) > flushed /\ ack[taken] \in {Nil, accepted[Len(written)]}
    BY <1>1, <2>1 DEF ChannelsOK
  <2>4. Len(written) \in 1..Len(accepted)
    BY <1>1, <2>3 DEF PlacesOK
  <2>5. ASSUME ack[taken] # Nil
        PROVE  /\ ack[taken] \in Records /\ Len(written) \in PlaceOf(ack[taken])
               /\ \A k \in 1..Len(pending) : pending[k] # ack[taken]
    <3>1. ack[taken] = accepted[Len(written)]
      BY <2>3, <2>5
    <3>2. Len(written) \in PlaceOf(ack[taken])
      BY <1>1, <2>4, <3>1 DEF PlaceOf
    <3>3. ASSUME NEW k \in 1..Len(pending) PROVE pending[k] # ack[taken]
      <4>1. PICK i \in PlaceOf(pending[k]) : i < Len(written)
        BY <1>1, <2>1 DEF ChannelsOK
      <4>2. i \in 1..Len(accepted) /\ accepted[i] = pending[k] /\ i # Len(written)
        BY <1>1, <4>1, PlaceBounds
      <4>3. accepted[i] # accepted[Len(written)]
        BY <1>1, <2>4, <4>2 DEF PlacesOK
      <4> QED
        BY <3>1, <4>2, <4>3
    <3> QED
      BY <1>1, <3>2, <3>3, PlaceBounds
  <2>6. \A k \in 1..Len(pending') : \/ k \in 1..Len(pending) /\ pending'[k] = pending[k]
                                    \/ /\ k = Len(pending) + 1 /\ ack[taken] # Nil
                                       /\ pending'[k] = ack[taken]
    <3>1. CASE ack[taken] = Nil
      BY <2>1, <3>1
    <3>2. CASE ack[taken] # Nil
      <4>1. pending' = Append(pending, ack[taken]) /\ pending \in Seq(Records) /\ ack[taken] \in Records
        BY <1>1, <2>1, <2>5, <3>2 DEF TypeOK
      <4>2. /\ Len(pending') = Len(pending) + 1 /\ pending'[Len(pending) + 1] = ack[taken]
            /\ \A k \in 1..Len(pending) : pending'[k] = pending[k]
        BY <4>1, AppendProperties
      <4> QED
        BY <1>1, <3>2, <4>2
    <3> QED
      BY <3>1, <3>2
  <2>7. \A k \in 1..Len(pending') : \E i \in PlaceOf(pending'[k]) : flushed < i /\ i <= Len(written)
    <3> SUFFICES ASSUME NEW k \in 1..Len(pending')
                 PROVE  \E i \in PlaceOf(pending'[k]) : flushed < i /\ i <= Len(written)
      OBVIOUS
    <3>1. CASE k \in 1..Len(pending) /\ pending'[k] = pending[k]
      BY <1>1, <3>1 DEF ChannelsOK
    <3>2. CASE ack[taken] # Nil /\ pending'[k] = ack[taken]
      BY <1>1, <2>3, <2>5, <3>2
    <3> QED
      BY <2>6, <3>1, <3>2
  <2>8. \A k, l \in 1..Len(pending') : pending'[k] = pending'[l] => k = l
    BY <1>1, <2>5, <2>6 DEF ChannelsOK
  <2>9. (\A k \in 1..Len(pending) : \E i \in PlaceOf(pending[k]) :
          /\ flushed < i /\ i <= Len(written)
          /\ stage = "put" => i < Len(written))'
    BY <2>1, <2>7 DEF PlaceOf
  <2>10. (\A r \in closed : \E i \in PlaceOf(r) : i <= flushed)'
    BY <1>1, <2>1, <2>2 DEF ChannelsOK
  <2>11. (\A k \in 1..Len(ring) : ack[ring[k]] \in {Nil, accepted[Len(written) + k]})'
    BY <1>1, <2>1 DEF ChannelsOK
  <2> QED
    BY <2>1, <2>3, <2>8, <2>9, <2>10, <2>11 DEF ChannelsOK
<1>5. CASE PutEntry
  <2>1. /\ stage = "clear" /\ stage' = "write" /\ ack' = [ack EXCEPT ![taken] = Nil]
        /\ UNCHANGED <<ring, pending, closed, accepted, written, flushed>>
    BY <1>5 DEF PutEntry, history
  <2>2. \A k \in 1..Len(ring) : ring[k] # taken /\ ring[k] \in Entries
    BY <1>1, EntriesExist, ElementOfSeq DEF TypeOK, OwnersOK
  <2>3. \A k \in 1..Len(ring) : ack'[ring[k]] = ack[ring[k]]
    BY <1>1, <2>1, <2>2 DEF TypeOK
  <2>4. \A r : PlaceOf(r)' = PlaceOf(r)
    BY <2>1 DEF PlaceOf
  <2>5. (\A k \in 1..Len(pending) : \E i \in PlaceOf(pending[k]) :
          /\ flushed < i /\ i <= Len(written)
          /\ stage = "put" => i < Len(written))'
    BY <1>1, <2>1, <2>4 DEF ChannelsOK, PlaceOf
  <2> QED
    BY <1>1, <2>1, <2>3, <2>4, <2>5 DEF ChannelsOK
<1>6. CASE Flush
  <2>1. /\ stage = "write" /\ stage' = "write" /\ flushed' = Len(written) /\ pending' = <<>>
        /\ closed' = closed \cup {pending[i] : i \in DOMAIN pending}
        /\ UNCHANGED <<ring, ack, accepted, written>>
    BY <1>6 DEF Flush, fields
  <2>2. \A r : PlaceOf(r)' = PlaceOf(r)
    BY <2>1 DEF PlaceOf
  <2>3. \A r \in closed' : \E i \in PlaceOf(r) : i <= Len(written)
    <3> SUFFICES ASSUME NEW r \in closed' PROVE \E i \in PlaceOf(r) : i <= Len(written)
      OBVIOUS
    <3>1. CASE r \in closed
      <4>1. PICK i \in PlaceOf(r) : i <= flushed
        BY <1>1, <3>1 DEF ChannelsOK
      <4>2. i \in Nat
        BY <1>1, PlaceBounds
      <4> QED
        BY <1>1, <4>1, <4>2
    <3>2. CASE \E k \in 1..Len(pending) : r = pending[k]
      BY <1>1, <3>2 DEF ChannelsOK
    <3>3. DOMAIN pending = 1..Len(pending)
      BY <1>1 DEF TypeOK
    <3> QED
      BY <2>1, <3>1, <3>2, <3>3
  <2>4. (\A r \in closed : \E i \in PlaceOf(r) : i <= flushed)'
    BY <2>1, <2>2, <2>3
  <2>5. Len(pending') = 0
    BY <2>1
  <2> QED
    BY <1>1, <2>1, <2>4, <2>5 DEF ChannelsOK
<1> QED
  BY <1>2, <1>3, <1>4, <1>5, <1>6 DEF Next, WriterStep

-----------------------------------------------------------------------------
(* Waiting calls.                                                          *)

LEMMA NoPlace ==
  ASSUME TypeOK, PlacesOK, NEW r, r \notin Over
  PROVE  PlaceOf(r) = {}
BY DEF PlaceOf, PlacesOK, TypeOK

LEMMA NilHasNoPlace ==
  ASSUME TypeOK
  PROVE  PlaceOf(Nil) = {}
BY PlaceBounds, PoolAssumption

(* What tells a call that is over goes on telling it.                      *)
LEMMA TellsStays ==
  ASSUME BaseInv, PlacesOK, NEW c \in Callers, CallerStep(c),
         NEW d \in Callers, Record(d)' = Record(d), Record(d) \in Over
  PROVE  /\ PlaceOf(Record(d))' = PlaceOf(Record(d))
         /\ \A a : Tells(a, d) => Tells(a, d)'
<1>1. PlaceOf(Record(d))' = PlaceOf(Record(d))
  <2>1. \A r \in Over : PlaceOf(r)' = PlaceOf(r)
    BY PlaceFacts
  <2> QED
    BY <2>1 DEF PlaceOf
<1>2. ASSUME NEW a, Tells(a, d) PROVE Tells(a, d)'
  <2>1. CASE d \in Structured /\ PlaceOf(Record(d)) = {}
    BY <1>1, <2>1 DEF Tells
  <2>2. CASE a = Record(d)
    BY <2>2 DEF Tells
  <2>3. CASE \E i \in PlaceOf(Record(d)) : \A j \in PlaceOf(a) : i <= j
    <3>1. PICK i \in PlaceOf(Record(d)) : \A j \in PlaceOf(a) : i <= j
      BY <2>3
    <3>2. PlaceOf(a)' \subseteq PlaceOf(a) \cup {Len(accepted) + 1}
      BY PlaceFacts
    <3>3. i \in 1..Len(accepted) /\ Len(accepted) \in Nat
      BY PlaceBounds DEF BaseInv
    <3>4. \A j \in PlaceOf(a)' : j \in PlaceOf(a) \/ j = Len(accepted) + 1
      BY <3>2
    <3>5. i <= Len(accepted) + 1
      BY <3>3
    <3>6. \A j \in PlaceOf(a)' : i <= j
      BY <3>1, <3>4, <3>5
    <3> QED
      BY <1>1, <3>1, <3>6 DEF Tells
  <2> QED
    BY <1>2, <2>1, <2>2, <2>3 DEF Tells
<1> QED
  BY <1>1, <1>2

(* Nobody gets at an entry that has no owner.                              *)
LEMMA UnownedStays ==
  ASSUME BaseInv, Next, NEW e \in 1..entries, Unowned(e)
  PROVE  Unowned(e)'
<1>1. TypeOK /\ OwnersOK /\ entries \in Nat /\ Len(ring) \in Nat
  BY DEF BaseInv, TypeOK
<1>2. ASSUME NEW c \in Callers, GetEntry(c) PROVE Unowned(e)'
  <2>1. PICK f \in 1..entries' :
          /\ f \in entryPool \/ f = entries + 1
          /\ entryPool' = entryPool \ {f}
          /\ call' = [call EXCEPT ![c].e = f,
                                  ![c].pc = IF c \in Structured THEN "fill" ELSE "buffer"]
    BY <1>1, <1>2, GetEntryFacts
  <2>2. call'[c].e = f /\ \A d \in Callers : d # c => call'[d] = call[d]
    BY <1>1, <2>1 DEF TypeOK, Locals
  <2>3. f # e
    BY <1>1, <2>1 DEF Unowned
  <2>4. UNCHANGED <<ring, taken>>
    BY <1>2 DEF GetEntry, writer
  <2>5. \A d \in Callers : Holds(d)' => call'[d].e # e
    BY <2>2, <2>3 DEF Unowned, Holds
  <2> QED
    BY <2>1, <2>4, <2>5 DEF Unowned
<1>3. ASSUME NEW c \in Callers, CallerStep(c), ~GetEntry(c) PROVE Unowned(e)'
  <2>1. \A d \in Callers : Holds(d)' => Holds(d) /\ call'[d].e = call[d].e
    BY <1>1, <1>3, CallMoves, HoldsFacts DEF Holds
  <2>2. taken' = taken
    BY <1>3, CallerKeeps DEF writer
  <2>3. \/ entryPool' = entryPool
        \/ Holds(c) /\ entryPool' = entryPool \cup {call[c].e}
    <3>1. CASE Drop(c)
      BY <3>1 DEF Drop, Holds
    <3>2. CASE ~Drop(c)
      BY <1>3, <3>2 DEF CallerStep, Call, LazyInit, GetBuf, AppendText, StoreData, FillEntry, Push,
         ReadAck, Acked, Timeout, pools
    <3> QED
      BY <3>1, <3>2
  <2>4. \A i \in 1..Len(ring') : ring'[i] # e
    <3>1. CASE Push(c)
      <4>1. /\ Len(ring') = Len(ring) + 1 /\ ring'[Len(ring) + 1] = call[c].e /\ Holds(c)
            /\ \A i \in 1..Len(ring) : ring'[i] = ring[i]
        <5>1. Holds(c) /\ ring' = Append(ring, call[c].e)
          BY <3>1 DEF Push, Holds
        <5>2. call[c].e \in 1..entries /\ ring \in Seq(1..entries)
          BY <1>1, <5>1 DEF OwnersOK, TypeOK
        <5> QED
          BY <5>1, <5>2, AppendProperties
      <4>2. \A i \in 1..Len(ring') : i \in 1..Len(ring) \/ i = Len(ring) + 1
        BY <1>1, <4>1
      <4> QED
        BY <4>1, <4>2 DEF Unowned
    <3>2. CASE ~Push(c)
      BY <1>3, <3>2, AcceptedSame DEF Unowned
    <3> QED
      BY <3>1, <3>2
  <2> QED
    BY <2>1, <2>2, <2>3, <2>4 DEF Unowned
<1>4. CASE Write
  <2>1. /\ 1 \in 1..Len(ring) /\ taken' = ring[1]
        /\ \A i \in 1..Len(ring') : i + 1 \in 1..Len(ring) /\ ring'[i] = ring[i + 1]
    BY <1>4, WriteFacts
  <2>2. UNCHANGED <<entryPool, call>>
    BY <1>4 DEF Write, pools
  <2> QED
    BY <2>1, <2>2 DEF Unowned, Holds
<1>5. CASE PutBuf \/ PutEntry \/ Flush
  <2>1. /\ UNCHANGED <<ring, call>> /\ entryPool' \subseteq entryPool \cup {taken}
        /\ taken' = taken \/ taken' = Nil
    BY <1>5 DEF PutBuf, PutEntry, Flush, pools
  <2>2. e # Nil
    BY PoolAssumption
  <2> QED
    BY <2>1, <2>2 DEF Unowned, Holds
<1> QED
  BY <1>2, <1>3, <1>4, <1>5 DEF Next, WriterStep

(* A call at its "ack" or "wait" while another steps.                      *)
LEMMA WaitsOfOthers ==
  ASSUME PoolInv, NEW c \in Callers, CallerStep(c), NEW d \in Callers, d # c
  PROVE  /\ call'[d].pc = "ack" => Tells(ack[call[d].e], d)'
         /\ call'[d].pc = "ack" /\ PlaceOf(Record(d))' = {} /\ d \notin Structured
              => Unowned(call[d].e)'
         /\ call'[d].pc = "wait" => Tells(call[d].ack, d)'
<1>1. BaseInv /\ TypeOK /\ OwnersOK /\ PlacesOK /\ WaitsOK
  BY DEF PoolInv, BaseInv
<1>2. call'[d] = call[d] /\ Record(d)' = Record(d)
  BY <1>1, CallMoves DEF Record
<1>3. ASSUME call[d].pc = "wait" PROVE Tells(call[d].ack, d)'
  <2>1. \A a : Tells(a, d) => Tells(a, d)'
    BY <1>1, <1>2, <1>3, TellsStays, WaitsAreOver
  <2>2. PICK a : a = call[d].ack
    OBVIOUS
  <2>3. Tells(a, d)'
    BY <1>1, <1>3, <2>1, <2>2 DEF WaitsOK
  <2> QED
    BY <1>2, <2>2, <2>3 DEF Tells, PlaceOf
<1>4. ASSUME call[d].pc = "ack"
      PROVE  /\ Tells(ack[call[d].e], d)'
             /\ PlaceOf(Record(d))' = {} /\ d \notin Structured => Unowned(call[d].e)'
  <2>0. PICK e : e = call[d].e
    OBVIOUS
  <2>1. /\ \A a : Tells(a, d) => Tells(a, d)'
        /\ PlaceOf(Record(d))' = PlaceOf(Record(d))
    BY <1>1, <1>2, <1>4, TellsStays, WaitsAreOver
  <2>2. e \in 1..entries /\ e \in Entries
    BY <1>1, <1>4, <2>0, EntriesExist DEF BaseInv, CallsOK
  <2>3. PlaceOf(Record(d)) = {} /\ d \notin Structured => Unowned(e)
    BY <1>1, <1>4, <2>0 DEF WaitsOK
  <2>4. PlaceOf(Record(d)) = {} /\ d \notin Structured => Unowned(e)'
    BY <1>1, <2>2, <2>3, UnownedStays DEF Next
  <2>5. Tells(ack'[e], d)
    <3>1. CASE ack'[e] = ack[e]
      BY <1>1, <1>4, <2>0, <3>1 DEF WaitsOK
    <3>2. CASE ack'[e] # ack[e]
      <4>1. Holds(c) /\ call[c].e = e
        BY <1>1, <2>2, <3>2, AckStays
      <4>2. PlaceOf(Record(d)) # {} \/ d \in Structured
        BY <2>3, <4>1 DEF Unowned
      <4>3. PlaceOf(ack'[e]) = {}
        <5>1. ack'[e] \in {Nil, Record(c)}
          BY <1>1, <2>2, <3>2, <4>1 DEF CallerStep, Call, LazyInit, GetEntry, GetBuf, AppendText, StoreData,
             FillEntry, Push, Drop, ReadAck, Acked, Timeout, fields, NewAck, TypeOK
        <5>2. Record(c) \notin Over
          <6>1. calls[c] \in Nat /\ call[c].pc \in ToPush
            BY <1>1, <4>1 DEF Holds, ToPush, ToArray, ToEntry, TypeOK
          <6> QED
            BY <6>1 DEF Over, Past, Record
        <5> QED
          BY <1>1, <5>1, <5>2, NoPlace, NilHasNoPlace
      <4> QED
        BY <4>2, <4>3 DEF Tells
    <3> QED
      BY <3>1, <3>2
  <2>6. PICK a : a = ack'[e]
    OBVIOUS
  <2>7. Tells(a, d)'
    BY <2>1, <2>5, <2>6
  <2>8. Tells(ack[call[d].e], d)'
    BY <1>2, <2>0, <2>6, <2>7 DEF Tells, PlaceOf
  <2>9. Unowned(e)' => Unowned(call[d].e)'
    BY <1>2, <2>0 DEF Unowned
  <2> QED
    BY <2>1, <2>4, <2>8, <2>9
<1> QED
  BY <1>2, <1>3, <1>4

(* The call that steps: it gets to its "ack" by a push or a drop.          *)
LEMMA WaitsOfOwn ==
  ASSUME PoolInv, NEW c \in Callers, CallerStep(c)
  PROVE  /\ call'[c].pc = "ack" => Tells(ack[call[c].e], c)'
         /\ call'[c].pc = "ack" /\ PlaceOf(Record(c))' = {} /\ c \notin Structured
              => Unowned(call[c].e)'
         /\ call'[c].pc = "wait" => Tells(call[c].ack, c)'
<1>1. BaseInv /\ TypeOK /\ OwnersOK /\ CallsOK /\ PlacesOK /\ WaitsOK
  BY DEF PoolInv, BaseInv
<1>2. ASSUME call'[c].pc = "ack"
      PROVE  /\ Tells(ack[call[c].e], c)'
             /\ PlaceOf(Record(c))' = {} /\ c \notin Structured => Unowned(call[c].e)'
  <2>1. call[c].pc = "push" /\ calls'[c] = calls[c]
    BY <1>1, <1>2, CallMoves DEF Moves
  <2>2. Push(c) \/ Drop(c)
    BY <2>1 DEF CallerStep, Call, LazyInit, GetEntry, GetBuf, AppendText, StoreData, FillEntry,
       ReadAck, Acked, Timeout
  <2>3. call[c].error /\ call' = [call EXCEPT ![c].pc = "ack"]
    <3>1. Pushed(c)
      BY <2>2 DEF Push, Drop
    <3>2. Return(c) => call'[c] = NoCall
      BY <1>1, ReturnFacts DEF TypeOK
    <3> QED
      BY <1>2, <3>1, <3>2 DEF Pushed, Goto, NoCall
  <2>4. call'[c].e = call[c].e /\ Record(c)' = Record(c) /\ Record(c) \notin Over
    BY <1>1, <2>1, <2>3, OverFacts DEF TypeOK, Locals, Record
  <2>5. ack[call[c].e] = Record(c)
    BY <1>1, <2>1, <2>3 DEF CallsOK, NewAck
  <2>6. CASE Push(c)
    <3>1. Tells(ack[call[c].e], c)'
      <4>1. ack' = ack
        BY <2>6 DEF Push, fields
      <4> QED
        BY <2>4, <2>5, <4>1 DEF Tells
    <3>2. PlaceOf(Record(c))' # {}
      <4>1. Len(accepted) + 1 \in DOMAIN accepted' /\ accepted'[Len(accepted) + 1] = Record(c)
        BY <1>1, <2>6, PushFacts DEF TypeOK
      <4> QED
        BY <2>4, <4>1 DEF PlaceOf
    <3> QED
      BY <3>1, <3>2
  <2>7. CASE Drop(c)
    <3>1. PlaceOf(Record(c))' = {}
      <4>1. accepted' = accepted
        BY <2>7 DEF Drop, history
      <4> QED
        BY <1>1, <2>4, <4>1, NoPlace DEF PlaceOf
    <3>2. CASE c \in Structured
      BY <3>1, <3>2 DEF Tells
    <3>3. CASE c \notin Structured
      <4>1. UNCHANGED <<ring, entryPool, taken, ack>>
        BY <2>7, <3>3 DEF Drop, fields, writer
      <4>2. \A d \in Callers : Holds(d)' => d # c /\ Holds(d) /\ call'[d].e = call[d].e
        BY <1>1, <1>2, <2>3 DEF Holds, TypeOK
      <4>3. Holds(c)
        BY <2>1 DEF Holds
      <4>4. Unowned(call[c].e)'
        BY <1>1, <2>4, <4>1, <4>2, <4>3 DEF Unowned, OwnersOK
      <4> QED
        BY <2>4, <2>5, <4>1, <4>4 DEF Tells
    <3> QED
      BY <3>2, <3>3
  <2> QED
    BY <2>2, <2>6, <2>7
<1>3. ASSUME call'[c].pc = "wait" PROVE Tells(call[c].ack, c)'
  <2>1. call[c].pc = "ack" /\ calls'[c] = calls[c]
    BY <1>1, <1>3, CallMoves DEF Moves
  <2>2. ReadAck(c)
    BY <2>1 DEF CallerStep, Call, LazyInit, GetEntry, GetBuf, AppendText, StoreData, FillEntry,
       Push, Drop, Acked, Timeout
  <2>3. call'[c].ack = ack[call[c].e]
    <3>1. call'[c] = [[call[c] EXCEPT !.ack = ack[call[c].e]] EXCEPT !.pc = "wait"]
      BY <1>1, <2>2 DEF ReadAck, TypeOK
    <3>2. call[c] \in Locals
      BY <1>1 DEF TypeOK
    <3> QED
      BY <3>1, <3>2 DEF Locals
  <2>4. PICK a : a = ack[call[c].e]
    OBVIOUS
  <2>5. Tells(a, c)
    BY <1>1, <2>1, <2>4 DEF WaitsOK
  <2>6. accepted' = accepted
    BY <2>2 DEF ReadAck, history
  <2> QED
    BY <2>1, <2>3, <2>4, <2>5, <2>6 DEF Tells, PlaceOf, Record
<1> QED
  BY <1>2, <1>3

LEMMA WaitsInv ==
  ASSUME PoolInv, Next
  PROVE  WaitsOK'
<1>1. BaseInv /\ TypeOK /\ PlacesOK /\ WaitsOK
  BY DEF PoolInv, BaseInv
<1>2. ASSUME NEW c \in Callers, CallerStep(c) PROVE WaitsOK'
  BY <1>2, WaitsOfOthers, WaitsOfOwn DEF WaitsOK
<1>3. CASE WriterStep
  <2> SUFFICES ASSUME NEW d \in Callers
               PROVE  /\ call'[d].pc = "ack" => Tells(ack[call[d].e], d)'
                      /\ call'[d].pc = "ack" /\ PlaceOf(Record(d))' = {} /\ d \notin Structured
                           => Unowned(call[d].e)'
                      /\ call'[d].pc = "wait" => Tells(call[d].ack, d)'
    BY DEF WaitsOK
  <2>1. UNCHANGED <<call, calls, accepted>>
    BY <1>3 DEF WriterStep, Write, PutBuf, PutEntry, Flush, history
  <2>2. /\ PlaceOf(Record(d))' = PlaceOf(Record(d)) /\ Record(d)' = Record(d)
        /\ \A a : Tells(a, d) => Tells(a, d)'
    BY <2>1 DEF Tells, PlaceOf, Record
  <2>3. ASSUME call[d].pc = "wait" PROVE Tells(call[d].ack, d)'
    BY <1>1, <2>1, <2>3 DEF WaitsOK, Tells, PlaceOf, Record
  <2>4. ASSUME call[d].pc = "ack"
        PROVE  /\ Tells(ack[call[d].e], d)'
               /\ PlaceOf(Record(d))' = {} /\ d \notin Structured => Unowned(call[d].e)'
    <3>0. PICK e : e = call[d].e
      OBVIOUS
    <3>1. e \in 1..entries /\ e \in Entries
      BY <1>1, <2>4, <3>0, EntriesExist DEF BaseInv, CallsOK
    <3>2. PlaceOf(Record(d)) = {} /\ d \notin Structured => Unowned(e)
      BY <1>1, <2>4, <3>0 DEF WaitsOK
    <3>3. PlaceOf(Record(d)) = {} /\ d \notin Structured => Unowned(e)'
      BY <1>1, <1>3, <3>1, <3>2, UnownedStays DEF Next
    <3>4. ack'[e] = ack[e] \/ (e = taken /\ ack'[e] = Nil)
      BY <1>1, <1>3, <3>1 DEF WriterStep, Write, PutBuf, PutEntry, Flush, fields, TypeOK
    <3>5. Tells(ack'[e], d)
      <4>1. CASE ack'[e] = ack[e]
        BY <1>1, <2>4, <3>0, <4>1 DEF WaitsOK
      <4>2. CASE e = taken /\ ack'[e] = Nil
        <5>1. PlaceOf(Record(d)) # {} \/ d \in Structured
          BY <3>2, <4>2 DEF Unowned
        <5> QED
          BY <1>1, <4>2, <5>1, NilHasNoPlace DEF Tells
      <4> QED
        BY <3>4, <4>1, <4>2
    <3>6. PICK a : a = ack'[e]
      OBVIOUS
    <3>7. Tells(a, d)'
      BY <2>2, <3>5, <3>6
    <3>8. Tells(ack[call[d].e], d)'
      BY <2>1, <3>0, <3>6, <3>7 DEF Tells, PlaceOf
    <3>9. Unowned(e)' => Unowned(call[d].e)'
      BY <2>1, <3>0 DEF Unowned
    <3> QED
      BY <2>2, <3>3, <3>8, <3>9
  <2> QED
    BY <2>1, <2>3, <2>4
<1> QED
  BY <1>2, <1>3 DEF Next

LEMMA AckInv ==
  ASSUME PoolInv, Next
  PROVE  AckMeansFlushed'
<1>1. /\ BaseInv /\ TypeOK /\ PlacesOK /\ ChannelsOK /\ WaitsOK /\ AckMeansFlushed
      /\ flushed \in Nat /\ believed \subseteq Over
  <2>1. /\ BaseInv /\ TypeOK /\ PlacesOK /\ ChannelsOK /\ WaitsOK /\ AckMeansFlushed
    BY DEF PoolInv, BaseInv
  <2>2. flushed \in 0..Len(written) /\ written \in Seq(Records \cup {Nil})
    BY <2>1 DEF TypeOK
  <2>3. flushed \in Nat
    BY <2>2, LenProperties
  <2>4. believed \subseteq Over
    BY <2>1 DEF PlacesOK
  <2> QED
    BY <2>1, <2>3, <2>4
<1>2. \A r \in Over : PlaceOf(r)' = PlaceOf(r)
  <2>1. CASE WriterStep
    BY <2>1 DEF WriterStep, Write, PutBuf, PutEntry, Flush, history, PlaceOf
  <2>2. ASSUME NEW c \in Callers, CallerStep(c) PROVE \A r \in Over : PlaceOf(r)' = PlaceOf(r)
    BY <1>1, <2>2, PlaceFacts
  <2> QED
    BY <2>1, <2>2 DEF Next
<1>3. flushed' \in Nat /\ flushed <= flushed'
  <2>1. CASE Flush
    BY <1>1, <2>1 DEF Flush, TypeOK
  <2>2. CASE ~Flush
    <3>1. flushed' = flushed
      BY <2>2, CallerKeeps DEF Next, WriterStep, Write, PutBuf, PutEntry, history
    <3> QED
      BY <1>1, <3>1
  <2> QED
    BY <2>1, <2>2
<1>4. ASSUME NEW r \in believed
      PROVE  (\E i \in PlaceOf(r)' : i <= flushed') \/ (PlaceOf(r)' = {} /\ r[1] \in Structured)
  <2>1. PlaceOf(r)' = PlaceOf(r)
    BY <1>1, <1>2
  <2>2. CASE \E i \in PlaceOf(r) : i <= flushed
    <3>1. PICK i \in PlaceOf(r) : i <= flushed
      BY <2>2
    <3>2. i \in Nat
      BY <1>1, <3>1, PlaceBounds
    <3> QED
      BY <1>1, <1>3, <2>1, <3>1, <3>2
  <2> QED
    BY <1>1, <2>1, <2>2 DEF AckMeansFlushed
<1>5. ASSUME NEW c \in Callers, Acked(c)
      PROVE  (\E i \in PlaceOf(Record(c)) : i <= flushed) \/ (PlaceOf(Record(c)) = {} /\ c \in Structured)
  <2>1. call[c].ack \in closed /\ Tells(call[c].ack, c)
    BY <1>1, <1>5 DEF Acked, WaitsOK
  <2>2. PICK j \in PlaceOf(call[c].ack) : j <= flushed
    BY <1>1, <2>1 DEF ChannelsOK
  <2>3. CASE call[c].ack = Record(c)
    BY <2>2, <2>3
  <2>4. CASE \E i \in PlaceOf(Record(c)) : \A k \in PlaceOf(call[c].ack) : i <= k
    <3>1. PICK i \in PlaceOf(Record(c)) : i <= j
      BY <2>2, <2>4
    <3>2. i \in Nat /\ j \in Nat
      BY <1>1, <2>2, <3>1, PlaceBounds
    <3> QED
      BY <1>1, <2>2, <3>1, <3>2
  <2> QED
    BY <2>1, <2>3, <2>4 DEF Tells
<1>6. ASSUME NEW c \in Callers, Acked(c) PROVE AckMeansFlushed'
  <2>1. /\ believed' = believed \cup {Record(c)} /\ UNCHANGED <<accepted, flushed>>
    BY <1>6 DEF Acked
  <2>2. ASSUME NEW r \in believed'
        PROVE  (\E i \in PlaceOf(r) : i <= flushed) \/ (PlaceOf(r) = {} /\ r[1] \in Structured)
    BY <1>1, <1>5, <1>6, <2>1 DEF AckMeansFlushed, Record
  <2> QED
    BY <2>1, <2>2 DEF AckMeansFlushed, PlaceOf
<1>7. CASE ~\E c \in Callers : Acked(c)
  <2>1. believed' = believed
    BY <1>7 DEF Next, WriterStep, Write, PutBuf, PutEntry, Flush, CallerStep, Call, LazyInit, GetEntry,
       GetBuf, AppendText, StoreData, FillEntry, Push, Drop, ReadAck, Timeout, history
  <2> QED
    BY <1>4, <2>1 DEF AckMeansFlushed, PlaceOf
<1> QED
  BY <1>6, <1>7

LEMMA PoolStep ==
  ASSUME PoolInv, [Next]_vars
  PROVE  PoolInv'
<1>1. BaseInv'
  BY BaseStep DEF PoolInv
<1>2. CASE Next
  BY <1>1, <1>2, PlacesInv, ChannelsInv, WaitsInv, AckInv DEF PoolInv
<1>3. CASE UNCHANGED vars
  <2> USE <1>3 DEF vars, pools, fields, writer, history
  <2>1. Over' = Over /\ \A r : PlaceOf(r)' = PlaceOf(r)
    BY DEF Over, Past, PlaceOf
  <2>2. PlacesOK' /\ ChannelsOK' /\ AckMeansFlushed'
    BY <2>1 DEF PoolInv, PlacesOK, ChannelsOK, AckMeansFlushed, PlaceOf
  <2>3. UNCHANGED <<call, calls, ack, accepted, entryPool, taken, ring>>
    OBVIOUS
  <2>4. ASSUME NEW c \in Callers
        PROVE  /\ Tells(ack[call[c].e], c)' = Tells(ack[call[c].e], c)
               /\ Tells(call[c].ack, c)' = Tells(call[c].ack, c)
               /\ Unowned(call[c].e)' = Unowned(call[c].e)
               /\ PlaceOf(Record(c))' = PlaceOf(Record(c)) /\ call'[c] = call[c]
    <3> USE <2>3
    <3>1. PlaceOf(Record(c))' = PlaceOf(Record(c)) /\ call'[c] = call[c]
      BY DEF PlaceOf, Record
    <3>2. Unowned(call[c].e)' = Unowned(call[c].e)
      BY DEF Unowned, Holds
    <3>3. Tells(ack[call[c].e], c)' = Tells(ack[call[c].e], c)
      BY DEF Tells, PlaceOf, Record
    <3>4. Tells(call[c].ack, c)' = Tells(call[c].ack, c)
      BY DEF Tells, PlaceOf, Record
    <3> QED
      BY <3>1, <3>2, <3>3, <3>4
  <2>5. WaitsOK'
    BY <2>4 DEF PoolInv, WaitsOK
  <2> QED
    BY <1>1, <2>2, <2>5 DEF PoolInv
<1> QED
  BY <1>2, <1>3

(* The inductive invariant holds in every reachable state.                 *)
THEOREM PoolInvariant == Spec => []PoolInv
<1>1. Init => PoolInv
  <2> SUFFICES ASSUME Init PROVE PoolInv
    OBVIOUS
  <2>1. BaseInv
    BY BaseInit
  <2>2. PlacesOK /\ ChannelsOK /\ AckMeansFlushed
    BY DEF Init, PlacesOK, ChannelsOK, AckMeansFlushed
  <2>3. WaitsOK
    BY DEF Init, WaitsOK, NoCall
  <2> QED
    BY <2>1, <2>2, <2>3 DEF PoolInv
<1> QED
  BY <1>1, PoolStep, PTL DEF Spec

(* Slices in use name arrays that exist, entries in use exist, and new     *)
(* ones do not run out before the calls do (logEntryPool, entryBufPool).   *)
THEOREM TypeCorrect == Spec => []TypeOK
<1>1. PoolInv => TypeOK
  BY DEF PoolInv, BaseInv
<1> QED
  BY <1>1, PoolInvariant, PTL

(* No entry is with two of the pool, the ring, the writer and the callers, *)
(* whatever the pool hands out: Emit drops it, structuredEmit and          *)
(* writeBatch put it back, and nobody does both.                           *)
THEOREM EntriesHaveOneOwner == Spec => []EntryHasOneOwner
<1>1. PoolInv => EntryHasOneOwner
  <2> SUFFICES ASSUME PoolInv, NEW e \in 1..entries
               PROVE  Cardinality({i \in DOMAIN ring : ring[i] = e})
                        + Cardinality({c \in Callers : call[c].e = e /\ Holds(c)})
                        + (IF e \in entryPool THEN 1 ELSE 0) + (IF taken = e THEN 1 ELSE 0) <= 1
    BY DEF EntryHasOneOwner
  <2>1. OwnersOK /\ DOMAIN ring = 1..Len(ring)
    BY DEF PoolInv, BaseInv, TypeOK
  <2> DEFINE A == {i \in DOMAIN ring : ring[i] = e}
             B == {c \in Callers : call[c].e = e /\ Holds(c)}
  <2>2. A = {} \/ \E i : A = {i}
    <3>1. \A i, j \in A : i = j
      BY <2>1 DEF OwnersOK
    <3> HIDE DEF A
    <3> QED
      BY <3>1
  <2>3. B = {} \/ \E c : B = {c}
    <3>1. \A c, d \in B : c = d
      BY <2>1 DEF OwnersOK
    <3> HIDE DEF B
    <3> QED
      BY <3>1
  <2>4. (A = {} /\ Cardinality(A) = 0) \/ (A # {} /\ Cardinality(A) = 1)
    BY <2>2, FS_EmptySet, FS_Singleton
  <2>5. (B = {} /\ Cardinality(B) = 0) \/ (B # {} /\ Cardinality(B) = 1)
    BY <2>3, FS_EmptySet, FS_Singleton
  <2>6. /\ A # {} => B = {} /\ e \notin entryPool /\ taken # e
        /\ B # {} => A = {} /\ e \notin entryPool /\ taken # e
        /\ e \in entryPool => taken # e
    BY <2>1 DEF OwnersOK
  <2> HIDE DEF A, B
  <2>7. Cardinality(A) + Cardinality(B) + (IF e \in entryPool THEN 1 ELSE 0)
          + (IF taken = e THEN 1 ELSE 0) <= 1
    BY <2>4, <2>5, <2>6
  <2> QED
    BY <2>7 DEF A, B
<1> QED
  BY <1>1, PoolInvariant, PTL

(* signalAcks closes each channel once: pendingAck holds no channel twice  *)
(* and none that is closed.                                                *)
THEOREM ChannelsAreClosedOnce == Spec => []NoDoubleClose
<1>1. PoolInv => NoDoubleClose
  <2> SUFFICES ASSUME PoolInv PROVE NoDoubleClose
    OBVIOUS
  <2>1. /\ TypeOK /\ PlacesOK /\ ChannelsOK /\ DOMAIN pending = 1..Len(pending) /\ flushed \in Nat
    BY DEF PoolInv, BaseInv, TypeOK
  <2>2. ASSUME NEW k \in DOMAIN pending, pending[k] \in closed PROVE FALSE
    <3>1. PICK i \in PlaceOf(pending[k]) : flushed < i
      BY <2>1 DEF ChannelsOK
    <3>2. PICK j \in PlaceOf(pending[k]) : j <= flushed
      BY <2>1, <2>2 DEF ChannelsOK
    <3>3. i \in 1..Len(accepted) /\ j \in 1..Len(accepted) /\ accepted[i] = accepted[j]
      BY <2>1, <3>1, <3>2, PlaceBounds
    <3>4. i = j
      BY <2>1, <3>3 DEF PlacesOK
    <3> QED
      BY <2>1, <3>1, <3>2, <3>3, <3>4
  <2> QED
    BY <2>1, <2>2 DEF NoDoubleClose, ChannelsOK
<1> QED
  BY <1>1, PoolInvariant, PTL

(* An ERROR call that returns on a closed channel, its own or that of the  *)
(* entry's later user, finds its record flushed, structuredEmit's drops    *)
(* aside.                                                                  *)
THEOREM AcksMeanFlushed == Spec => []AckMeansFlushed
<1>1. PoolInv => AckMeansFlushed
  BY DEF PoolInv
<1> QED
  BY <1>1, PoolInvariant, PTL
=============================================================================
