-------------------------- MODULE RingBuffer_proofs --------------------------
(***************************************************************************)
(* Proofs about RingBuffer, for any set of producers, any capacity, batch  *)
(* size and number of pushes.                                              *)
(***************************************************************************)
EXTENDS RingBuffer, Integers, SequenceTheorems, TLAPS

(* No multiple of c lies strictly between 0 and c.                         *)
LEMMA MultipleIsNotBetween ==
  ASSUME NEW c \in Nat, c > 0, NEW k \in Int
  PROVE  c * k \leq 0 \/ c * k \geq c
<1>1. CASE k \leq 0
  BY <1>1
<1>2. CASE k \geq 1
  <2>1. c * k = c + c * (k - 1)
    OBVIOUS
  <2> QED
    BY <1>2, <2>1
<1> QED
  BY <1>1, <1>2

(* Two positions less than Cap apart live in two slots.                    *)
LEMMA IndexInjective ==
  ASSUME NEW i \in Nat, NEW j \in Nat, i < j, j - i < Cap
  PROVE  Index(i) # Index(j)
<1>1. Cap \in Nat /\ Cap > 0
  BY RingAssumption
<1>2. SUFFICES ASSUME i % Cap = j % Cap PROVE FALSE
  BY DEF Index
<1>3. i = Cap * (i \div Cap) + (i % Cap) /\ i \div Cap \in Int
  BY <1>1
<1>4. j = Cap * (j \div Cap) + (j % Cap) /\ j \div Cap \in Int
  BY <1>1
<1>5. j - i = Cap * ((j \div Cap) - (i \div Cap))
  BY <1>1, <1>2, <1>3, <1>4
<1>6. (j \div Cap) - (i \div Cap) \in Int
  BY <1>3, <1>4
<1>7. \/ Cap * ((j \div Cap) - (i \div Cap)) \leq 0
      \/ Cap * ((j \div Cap) - (i \div Cap)) \geq Cap
  BY ONLY <1>1, <1>6, MultipleIsNotBetween
<1> QED
  BY <1>1, <1>5, <1>7

(* A position's slot is one of the ring's.                                 *)
LEMMA IndexInSlots ==
  ASSUME NEW i \in Nat
  PROVE  Index(i) \in Slots
BY RingAssumption DEF Index, Slots

(* The same for two positions in any order, as live positions come.        *)
LEMMA LiveIndex ==
  ASSUME NEW i \in Nat, NEW j \in Nat, i # j, i - j < Cap, j - i < Cap
  PROVE  Index(i) # Index(j)
<1>1. CASE i < j
  BY <1>1, IndexInjective
<1>2. CASE j < i
  BY <1>2, IndexInjective
<1> QED
  BY <1>1, <1>2
-----------------------------------------------------------------------------
(* The invariant holds initially.                                          *)
LEMMA InitInv == Init => RingInv
<1> SUFFICES ASSUME Init PROVE RingInv
  OBVIOUS
<1>1. TypeOK
  <2>1. seq \in [Slots -> Nat] /\ slot \in [Slots -> Entry \union {Nil}]
    BY DEF Init
  <2>2. calls \in [Producers -> 0..MaxPush]
    BY RingAssumption DEF Init
  <2>3. out \in Seq(Entry) /\ claimed \in Seq(Entry) /\ delivered \in Seq(Entry)
    BY DEF Init
  <2>4. wp \in [Producers -> Nat] /\ rp \in [Producers -> Nat]
    BY DEF Init
  <2> QED
    BY <2>1, <2>2, <2>3, <2>4 DEF Init, TypeOK
<1>2. PositionsOK /\ DrainOK /\ OrderOK
  BY RingAssumption DEF Init, PositionsOK, DrainOK, OrderOK, Reached
<1>3. LoadsOK /\ PendingOK
  BY DEF Init, LoadsOK, PendingOK, Pending
<1>4. SlotsOK
  BY DEF Init, SlotsOK, Live, Reached
<1> QED
  BY <1>1, <1>2, <1>3, <1>4 DEF RingInv

(***************************************************************************)
(* Steps of a producer that touch nothing but its own locals: no position  *)
(* changes hands.                                                          *)
(***************************************************************************)
LocalStep(p) ==
  Begin(p) \/ CheckClosed(p) \/ LoadWritePos(p) \/ LoadReadPos(p) \/ LoseClaim(p)

LEMMA LocalStepInv ==
  ASSUME RingInv, NEW p \in Producers, LocalStep(p)
  PROVE  RingInv'
<1> USE DEF LocalStep, Begin, CheckClosed, LoadWritePos, LoadReadPos, LoseClaim,
            Goto, shared, consumer, history
<1>1. TypeOK'
  <2>1. calls' \in [Producers -> 0..MaxPush]
    <3>1. calls \in [Producers -> 0..MaxPush] /\ calls[p] \in 0..MaxPush /\ MaxPush \in Nat
      BY RingAssumption DEF RingInv, TypeOK
    <3>2. calls' = calls \/ (calls[p] < MaxPush /\ calls' = [calls EXCEPT ![p] = calls[p] + 1])
      OBVIOUS
    <3>3. calls[p] < MaxPush => calls[p] + 1 \in 0..MaxPush
      BY <3>1
    <3> QED
      BY <3>1, <3>2, <3>3
  <2>2. wp' \in [Producers -> Nat] /\ rp' \in [Producers -> Nat]
    BY ZenonT(30) DEF RingInv, TypeOK
  <2>3. pc' \in [Producers ->
               {"idle", "check", "loadW", "loadR", "cas", "store", "publish"}]
    BY DEF RingInv, TypeOK
  <2> QED
    BY <2>1, <2>2, <2>3 DEF RingInv, TypeOK
<1>2. /\ \A q \in Producers : Pending(q)' <=> Pending(q)
      /\ \A q \in Producers : pc'[q] = "publish" <=> pc[q] = "publish"
      /\ \A q \in Producers : Pending(q) => wp'[q] = wp[q] /\ calls'[q] = calls[q]
  BY DEF RingInv, TypeOK, Pending
<1>3. PositionsOK' /\ DrainOK' /\ OrderOK'
  BY DEF RingInv, PositionsOK, DrainOK, OrderOK, Reached, Published
<1>4. LoadsOK'
  BY DEF RingInv, TypeOK, PositionsOK, LoadsOK
<1>5. PendingOK'
  <2>1. Live' = Live /\ claimed' = claimed /\ seq' = seq /\ slot' = slot
    BY DEF Live, Reached
  <2>2. ASSUME NEW q \in Producers, Pending(q)
        PROVE  Current(q)' = Current(q) /\ wp'[q] = wp[q]
    BY <1>2, <2>2 DEF Current
  <2> QED
    BY <1>2, <2>1, <2>2 DEF RingInv, PendingOK, Published, Pending
<1>6. SlotsOK'
  BY <1>2 DEF RingInv, SlotsOK, Live, Reached, Published, HeldBy
<1> QED
  BY <1>1, <1>3, <1>4, <1>5, <1>6 DEF RingInv

(***************************************************************************)
(* A claim adds writePos to the live positions, held by p.  The check of   *)
(* fullness was made against an older readPos, which can only be smaller,  *)
(* and the compare-and-swap vouches for writePos.                          *)
(***************************************************************************)
LEMMA ClaimInv ==
  ASSUME RingInv, NEW p \in Producers, Claim(p)
  PROVE  RingInv'
<1> USE DEF Claim, Goto, consumer
<1>1. writePos \in Nat /\ readPos \in Nat /\ writePos - readPos < Cap
  <2>1. /\ writePos \in Nat /\ readPos \in Nat /\ rp[p] \in Nat
        /\ rp[p] \leq readPos /\ readPos \leq writePos
        /\ wp[p] = writePos /\ ~Full(wp[p], rp[p])
    BY DEF RingInv, TypeOK, PositionsOK, LoadsOK, Reached
  <2> QED
    BY <2>1, RingAssumption DEF Full, Distance
<1>2. Current(p) \in Entry
  <2>1. calls[p] \in 1..MaxPush
    BY RingAssumption DEF RingInv, TypeOK, LoadsOK
  <2> QED
    BY <2>1 DEF Current, Entry
<1>3. /\ claimed \in Seq(Entry) /\ Len(claimed) = writePos
      /\ claimed' \in Seq(Entry) /\ Len(claimed') = writePos + 1
      /\ claimed'[writePos + 1] = Current(p)
      /\ \A k \in 1..writePos : claimed'[k] = claimed[k]
  <2>1. claimed \in Seq(Entry) /\ Len(claimed) = writePos /\ claimed' = Append(claimed, Current(p))
    BY DEF RingInv, TypeOK, PositionsOK
  <2> QED
    BY ONLY <1>1, <1>2, <2>1, AppendProperties
<1>4. /\ pc'[p] = "store" /\ wp[p] = writePos /\ pc[p] = "cas"
      /\ \A q \in Producers : q # p => pc'[q] = pc[q]
  BY DEF RingInv, TypeOK
<1>5. TypeOK'
  BY <1>3 DEF RingInv, TypeOK
<1>6. Reached' = Reached /\ Reached \in Nat /\ readPos \leq Reached /\ Reached \leq writePos
  BY DEF RingInv, TypeOK, PositionsOK, Reached
<1>7. Live' = Live \union {writePos} /\ Live \subseteq Nat /\ writePos \notin Live
  BY <1>1, <1>6 DEF Live
<1>8. PositionsOK'
  BY <1>1, <1>3, <1>6, RingAssumption DEF RingInv, PositionsOK
<1>9. DrainOK' /\ LoadsOK'
  BY <1>1, <1>4 DEF RingInv, TypeOK, DrainOK, LoadsOK, Published
<1>10. ~Published(writePos)
  <2>1. Index(writePos) \in Slots
    BY <1>1, IndexInSlots
  <2> QED
    BY <1>1, <2>1 DEF RingInv, TypeOK, SlotsOK, Published
<1>11. PendingOK'
  <2>1. ASSUME NEW q \in Producers, Pending(q)'
        PROVE  /\ wp[q] \in Live' /\ ~Published(wp[q])
               /\ claimed'[wp[q] + 1] = Current(q)
               /\ q # p => wp[q] \in Live
    <3>1. CASE q = p
      BY <1>3, <1>4, <1>7, <1>10, <3>1
    <3>2. CASE q # p
      <4>1. Pending(q)
        BY <1>4, <2>1, <3>2 DEF Pending
      <4>2. wp[q] \in Live /\ ~Published(wp[q]) /\ claimed[wp[q] + 1] = Current(q)
        BY <4>1 DEF RingInv, PendingOK
      <4>3. wp[q] + 1 \in 1..writePos
        BY <1>1, <1>6, <4>2 DEF Live
      <4> QED
        BY <1>3, <1>7, <4>2, <4>3
    <3> QED
      BY <3>1, <3>2
  <2>2. \A q \in Producers : pc'[q] = "publish" => slot[Index(wp[q])] = Current(q)
    BY <1>4 DEF RingInv, PendingOK
  <2>3. \A q, r \in Producers : Pending(q)' /\ Pending(r)' /\ q # r => wp[q] # wp[r]
    BY <1>4, <1>7, <2>1 DEF RingInv, PendingOK, Pending
  <2> QED
    BY <2>1, <2>2, <2>3 DEF PendingOK, Published, Current
<1>12. SlotsOK'
  <2>1. \A i \in Slots : seq[i] \leq writePos + 1
    BY <1>1 DEF RingInv, TypeOK, SlotsOK
  <2>2. ASSUME NEW q \in Producers, NEW pos \in Live
        PROVE  HeldBy(q, pos)' <=> HeldBy(q, pos)
    BY <1>4, <1>7 DEF HeldBy, Pending
  <2>3. \A pos \in Live : claimed'[pos + 1] = claimed[pos + 1]
    BY <1>1, <1>3, <1>6 DEF Live
  <2>4. ASSUME NEW pos \in Nat, pos = writePos
        PROVE  HeldBy(p, pos)'
    BY <1>4, <2>4 DEF HeldBy, Pending
  <2>5. ASSUME NEW pos \in Live'
        PROVE  \/ \E q \in Producers : HeldBy(q, pos)'
               \/ Published(pos) /\ slot[Index(pos)] = claimed'[pos + 1]
    <3>1. CASE pos = writePos
      BY <1>1, <2>4, <3>1
    <3>2. CASE pos \in Live
      <4>1. CASE \E q \in Producers : HeldBy(q, pos)
        BY <2>2, <3>2, <4>1
      <4>2. CASE Published(pos) /\ slot[Index(pos)] = claimed[pos + 1]
        BY <2>3, <3>2, <4>2
      <4> QED
        BY <3>2, <4>1, <4>2 DEF RingInv, SlotsOK
    <3> QED
      BY <1>7, <2>5, <3>1, <3>2
  <2>6. \A i \in Slots : slot[i] # Nil =>
          \E pos \in Live' : /\ Index(pos) = i
                             /\ \A q \in Producers : HeldBy(q, pos)' => pc'[q] = "publish"
    BY <1>4, <1>7, <2>2 DEF RingInv, SlotsOK, HeldBy
  <2> QED
    BY <2>1, <2>5, <2>6 DEF SlotsOK, Published
<1>13. OrderOK'
  <2>1. \A k \in 1..Len(delivered) : k \in 1..writePos
    BY <1>1, <1>6 DEF RingInv, PositionsOK
  <2>2. cpc # "idle" => \A k \in 1..Len(out) : readPos + k \in 1..writePos
    BY <1>1, <1>6 DEF RingInv, TypeOK, DrainOK, Reached
  <2> QED
    BY <1>3, <2>1, <2>2 DEF RingInv, OrderOK
<1> QED
  BY <1>5, <1>8, <1>9, <1>11, <1>12, <1>13 DEF RingInv
-----------------------------------------------------------------------------
(* Live positions are natural numbers, in distinct slots.                  *)
LEMMA LiveApart ==
  ASSUME RingInv
  PROVE  /\ Live \subseteq Nat
         /\ \A a \in Live : Index(a) \in Slots
         /\ \A a, b \in Live : a # b => Index(a) # Index(b)
<1>1. /\ writePos \in Nat /\ readPos \in Nat /\ Reached \in Nat
      /\ readPos \leq Reached /\ writePos - readPos \leq Cap
  BY DEF RingInv, TypeOK, PositionsOK, Reached
<1>2. Live \subseteq Nat
  BY <1>1 DEF Live
<1>3. \A a \in Live : Index(a) \in Slots
  BY <1>2, IndexInSlots
<1>4. ASSUME NEW a \in Live, NEW b \in Live, a # b
      PROVE  Index(a) # Index(b)
  <2>1. a \in Nat /\ b \in Nat /\ a - b < Cap /\ b - a < Cap
    BY <1>1, RingAssumption DEF Live
  <2> QED
    BY ONLY <1>4, <2>1, LiveIndex
<1> QED
  BY <1>2, <1>3, <1>4

(* Storing the entry changes only the slot of a position p holds.          *)
LEMMA StoreEntryInv ==
  ASSUME RingInv, NEW p \in Producers, StoreEntry(p)
  PROVE  RingInv'
<1> USE DEF StoreEntry, Goto, consumer, history
<1>1. /\ pc[p] = "store" /\ pc'[p] = "publish"
      /\ \A q \in Producers : q # p => pc'[q] = pc[q]
      /\ \A q \in Producers : Pending(q)' <=> Pending(q)
  BY DEF RingInv, TypeOK, Pending
<1>2. wp[p] \in Live /\ Pending(p) /\ \A q \in Producers : Pending(q) => wp[q] \in Live
  BY <1>1 DEF RingInv, PendingOK, Pending
<1>3. Live' = Live /\ Reached' = Reached
  BY DEF Live, Reached
<1>4. /\ slot'[Index(wp[p])] = Current(p)
      /\ \A i \in Slots : i # Index(wp[p]) => slot'[i] = slot[i]
      /\ \A pos \in Live : pos # wp[p] => slot'[Index(pos)] = slot[Index(pos)]
  BY <1>2, LiveApart DEF RingInv, TypeOK
<1>5. TypeOK'
  <2>1. calls[p] \in 1..MaxPush
    BY <1>1, RingAssumption DEF RingInv, TypeOK, LoadsOK
  <2>2. Current(p) \in Entry
    BY <2>1 DEF Current, Entry
  <2> QED
    BY <2>2 DEF RingInv, TypeOK
<1>6. PositionsOK' /\ DrainOK' /\ OrderOK' /\ LoadsOK'
  BY <1>1, <1>3 DEF RingInv, PositionsOK, DrainOK, OrderOK, LoadsOK, Published
<1>7. PendingOK'
  <2>1. ASSUME NEW q \in Producers, pc'[q] = "publish"
        PROVE  slot'[Index(wp[q])] = Current(q)
    <3>1. CASE q = p
      BY <1>4, <3>1
    <3>2. CASE q # p
      <4>1. pc[q] = "publish" /\ Pending(q)
        BY <1>1, <2>1, <3>2 DEF Pending
      <4>2. wp[q] \in Live /\ wp[q] # wp[p] /\ slot[Index(wp[q])] = Current(q)
        BY <1>2, <3>2, <4>1 DEF RingInv, PendingOK
      <4> QED
        BY <1>4, <4>2
    <3> QED
      BY <3>1, <3>2
  <2> QED
    BY <1>1, <1>3, <2>1 DEF RingInv, PendingOK, Published, Current
<1>8. SlotsOK'
  <2>1. ASSUME NEW q \in Producers, NEW pos \in Live
        PROVE  HeldBy(q, pos)' <=> HeldBy(q, pos)
    BY <1>1 DEF HeldBy
  <2>2. ASSUME NEW pos \in Live
        PROVE  \/ \E q \in Producers : HeldBy(q, pos)'
               \/ Published(pos) /\ slot'[Index(pos)] = claimed[pos + 1]
    <3>1. CASE pos = wp[p]
      BY <1>2, <2>1, <3>1 DEF HeldBy
    <3>2. CASE pos # wp[p]
      BY <1>4, <2>1, <3>2 DEF RingInv, SlotsOK
    <3> QED
      BY <3>1, <3>2
  <2>3. ASSUME NEW i \in Slots, slot'[i] # Nil
        PROVE  \E pos \in Live :
                 /\ Index(pos) = i
                 /\ \A q \in Producers : HeldBy(q, pos)' => pc'[q] = "publish"
    <3>1. CASE i = Index(wp[p])
      <4>1. \A q \in Producers : HeldBy(q, wp[p]) => q = p
        BY <1>2 DEF RingInv, PendingOK, HeldBy
      <4> QED
        BY <1>1, <1>2, <2>1, <3>1, <4>1
    <3>2. CASE i # Index(wp[p])
      <4>1. PICK pos \in Live :
              /\ Index(pos) = i
              /\ \A q \in Producers : HeldBy(q, pos) => pc[q] = "publish"
        BY <1>4, <2>3, <3>2 DEF RingInv, SlotsOK
      <4>2. \A q \in Producers : HeldBy(q, pos) => q # p
        BY <3>2, <4>1 DEF HeldBy
      <4> QED
        BY <1>1, <2>1, <4>1, <4>2
    <3> QED
      BY <3>1, <3>2
  <2> QED
    BY <1>3, <2>2, <2>3 DEF RingInv, SlotsOK, Published
<1> QED
  BY <1>5, <1>6, <1>7, <1>8 DEF RingInv

(* Publishing turns p's position from held to published.                   *)
LEMMA PublishInv ==
  ASSUME RingInv, NEW p \in Producers, Publish(p)
  PROVE  RingInv'
<1> USE DEF Publish, Goto, consumer, history
<1>1. /\ pc[p] = "publish" /\ pc'[p] = "idle" /\ Pending(p) /\ ~Pending(p)'
      /\ \A q \in Producers : q # p => pc'[q] = pc[q] /\ (Pending(q)' <=> Pending(q))
  BY DEF RingInv, TypeOK, Pending
<1>2. /\ writePos \in Nat
      /\ wp[p] \in Live /\ wp[p] \in Nat /\ wp[p] < writePos
      /\ claimed[wp[p] + 1] = Current(p) /\ slot[Index(wp[p])] = Current(p)
      /\ \A q \in Producers : Pending(q) => wp[q] \in Live
      /\ \A q \in Producers : Pending(q) /\ q # p => wp[q] # wp[p]
  <2>1. PendingOK /\ writePos \in Nat /\ Reached \in Nat /\ Live \subseteq Nat
    BY LiveApart DEF RingInv, TypeOK, Reached
  <2>2. /\ wp[p] \in Live /\ claimed[wp[p] + 1] = Current(p)
        /\ slot[Index(wp[p])] = Current(p)
        /\ \A q \in Producers : Pending(q) => wp[q] \in Live
        /\ \A q \in Producers : Pending(q) /\ q # p => wp[q] # wp[p]
    BY <1>1, <2>1 DEF PendingOK
  <2>3. wp[p] \in Nat /\ wp[p] < writePos
    BY <2>1, <2>2 DEF Live
  <2> QED
    BY <2>1, <2>2, <2>3
<1>3. Live' = Live /\ Reached' = Reached
  BY DEF Live, Reached
<1>4. /\ seq'[Index(wp[p])] = wp[p] + 1
      /\ \A i \in Slots : i # Index(wp[p]) => seq'[i] = seq[i]
      /\ \A pos \in Live : pos # wp[p] => seq'[Index(pos)] = seq[Index(pos)]
  BY <1>2, LiveApart DEF RingInv, TypeOK
<1>5. TypeOK'
  <2>1. seq' \in [Slots -> Nat]
    <3>1. seq \in [Slots -> Nat] /\ wp[p] + 1 \in Nat
      BY <1>2 DEF RingInv, TypeOK
    <3> QED
      BY ONLY <3>1, Publish(p) DEF Publish
  <2>2. pc' \in [Producers ->
               {"idle", "check", "loadW", "loadR", "cas", "store", "publish"}]
    BY DEF RingInv, TypeOK
  <2> QED
    BY <2>1, <2>2 DEF RingInv, TypeOK
<1>6. PositionsOK' /\ OrderOK' /\ LoadsOK'
  BY <1>1, <1>3 DEF RingInv, PositionsOK, OrderOK, LoadsOK
<1>7. DrainOK'
  <2>1. ASSUME cpc = "take"
        PROVE  seq'[Index(crp)] = crp + 1
    <3>1. Published(crp) /\ crp \in Nat /\ Index(crp) \in Slots
      BY <2>1, IndexInSlots DEF RingInv, TypeOK, DrainOK
    <3>2. crp \in Live
      BY <1>2, <2>1, <3>1 DEF RingInv, TypeOK, SlotsOK, Published, Live, Reached
    <3> QED
      BY <1>4, <3>1, <3>2 DEF Published
  <2> QED
    BY <2>1 DEF RingInv, DrainOK, Published
<1>8. PendingOK'
  <2>1. ASSUME NEW q \in Producers, Pending(q)'
        PROVE  /\ q # p /\ wp[q] \in Live /\ seq'[Index(wp[q])] # wp[q] + 1
               /\ claimed[wp[q] + 1] = Current(q)
    <3>1. q # p /\ Pending(q)
      BY <1>1, <2>1
    <3>2. wp[q] \in Live /\ wp[q] # wp[p]
      BY <1>2, <3>1
    <3> QED
      BY <1>4, <3>1, <3>2 DEF RingInv, PendingOK, Published
  <2>2. \A q \in Producers : pc'[q] = "publish" => slot[Index(wp[q])] = Current(q)
    BY <1>1 DEF RingInv, PendingOK
  <2> QED
    BY <1>1, <1>3, <2>1, <2>2 DEF RingInv, PendingOK, Published, Current
<1>9. SlotsOK'
  <2>1. \A i \in Slots : seq'[i] \leq writePos
    BY <1>2, <1>4 DEF RingInv, TypeOK, SlotsOK
  <2>2. ASSUME NEW q \in Producers, NEW pos \in Live
        PROVE  HeldBy(q, pos)' <=> HeldBy(q, pos) /\ q # p
    BY <1>1 DEF HeldBy
  <2>3. ASSUME NEW pos \in Live
        PROVE  \/ \E q \in Producers : HeldBy(q, pos)'
               \/ seq'[Index(pos)] = pos + 1 /\ slot[Index(pos)] = claimed[pos + 1]
    <3>1. CASE pos = wp[p]
      BY <1>2, <1>4, <3>1
    <3>2. CASE pos # wp[p]
      <4>1. ~HeldBy(p, pos)
        BY <3>2 DEF HeldBy
      <4> QED
        BY <1>4, <2>2, <3>2, <4>1 DEF RingInv, SlotsOK, Published
    <3> QED
      BY <3>1, <3>2
  <2>4. ASSUME NEW i \in Slots, slot[i] # Nil
        PROVE  \E pos \in Live :
                 /\ Index(pos) = i
                 /\ \A q \in Producers : HeldBy(q, pos)' => pc'[q] = "publish"
    BY <1>1, <2>2, <2>4 DEF RingInv, SlotsOK
  <2> QED
    BY <1>3, <2>1, <2>3, <2>4 DEF SlotsOK, Published
<1> QED
  BY <1>5, <1>6, <1>7, <1>8, <1>9 DEF RingInv
-----------------------------------------------------------------------------
(* Steps of drainBatch that only look: the live positions stay.            *)
ScanStep == DrainStart \/ ScanHit \/ ScanStop

LEMMA ScanStepInv ==
  ASSUME RingInv, ScanStep
  PROVE  RingInv'
<1> USE DEF ScanStep, DrainStart, ScanHit, ScanStop, shared, producer, history
<1>1. Reached' = Reached /\ Live' = Live
  BY DEF RingInv, PositionsOK, Reached, Live
<1>2. TypeOK'
  <2>1. crp' \in Nat
    BY DEF RingInv, TypeOK
  <2>3. out' \in Seq(Entry)
    <3>1. CASE out' = <<>>
      BY <3>1
    <3>2. CASE out' = out
      BY <3>2 DEF RingInv, TypeOK
    <3> QED
      BY <3>1, <3>2
  <2>2. cpc' \in {"idle", "scan", "take", "commit"}
    OBVIOUS
  <2> QED
    BY <2>1, <2>2, <2>3 DEF RingInv, TypeOK
<1>3. PositionsOK' /\ OrderOK'
  BY <1>1 DEF RingInv, TypeOK, PositionsOK, OrderOK
<1>4. DrainOK'
  BY RingAssumption DEF RingInv, TypeOK, PositionsOK, DrainOK, Published
<1>5. LoadsOK' /\ PendingOK'
  BY <1>1 DEF RingInv, LoadsOK, PendingOK, Pending, Published, Current
<1>6. SlotsOK'
  BY <1>1 DEF RingInv, SlotsOK, HeldBy, Pending, Published
<1> QED
  BY <1>2, <1>3, <1>4, <1>5, <1>6 DEF RingInv

(***************************************************************************)
(* Taking an entry: the first live position is published, so nobody holds  *)
(* it and its slot has its entry; it stops being live, and its slot is     *)
(* emptied.                                                                *)
(***************************************************************************)
LEMMA TakeInv ==
  ASSUME RingInv, Take
  PROVE  RingInv'
<1> USE DEF Take, producer, history
<1>1. /\ cpc = "take" /\ crp \in Nat /\ writePos \in Nat /\ readPos \in Nat
      /\ Reached = crp /\ Reached' = crp + 1
      /\ Published(crp) /\ Index(crp) \in Slots
      /\ crp = readPos + Len(out) /\ Len(out) < MaxBatch
  BY IndexInSlots DEF RingInv, TypeOK, DrainOK, Reached
<1>2. crp < writePos
  BY <1>1 DEF RingInv, TypeOK, SlotsOK, Published
<1>3. crp \in Live /\ Live' = Live \ {crp}
  BY <1>1, <1>2 DEF Live
<1>4. \A q \in Producers : Pending(q) => wp[q] \in Live /\ wp[q] # crp
  BY <1>1 DEF RingInv, PendingOK
<1>5. slot[Index(crp)] = claimed[crp + 1] /\ claimed[crp + 1] \in Entry
  <2>1. slot[Index(crp)] = claimed[crp + 1]
    BY <1>1, <1>3, <1>4 DEF RingInv, SlotsOK, HeldBy
  <2> QED
    BY <1>1, <1>2, <2>1 DEF RingInv, TypeOK, PositionsOK
<1>6. /\ slot'[Index(crp)] = Nil
      /\ \A i \in Slots : i # Index(crp) => slot'[i] = slot[i]
      /\ \A pos \in Live' : slot'[Index(pos)] = slot[Index(pos)]
  BY <1>1, <1>3, LiveApart DEF RingInv, TypeOK
<1>7. /\ out' \in Seq(Entry) /\ Len(out') = Len(out) + 1
      /\ out'[Len(out) + 1] = claimed[crp + 1]
      /\ \A k \in 1..Len(out) : out'[k] = out[k]
  BY <1>5 DEF RingInv, TypeOK
<1>8. TypeOK'
  <2>1. slot' \in [Slots -> Entry \union {Nil}]
    BY DEF RingInv, TypeOK
  <2>2. crp' \in Nat /\ out' \in Seq(Entry) /\ cpc' = "scan"
    BY <1>1, <1>7
  <2> QED
    BY <2>1, <2>2 DEF RingInv, TypeOK
<1>9. PositionsOK'
  <2>1. readPos \leq crp + 1 /\ crp + 1 \leq writePos
    BY <1>1, <1>2 DEF RingInv, PositionsOK
  <2> QED
    BY <1>1, <2>1 DEF RingInv, PositionsOK
<1>10. DrainOK' /\ LoadsOK'
  <2>1. Len(out') \leq MaxBatch
    BY <1>1, <1>7, RingAssumption DEF RingInv, TypeOK
  <2>2. crp + 1 = readPos + Len(out')
    BY <1>1, <1>7 DEF RingInv, TypeOK
  <2> QED
    BY <2>1, <2>2 DEF RingInv, DrainOK, LoadsOK
<1>11. PendingOK'
  <2>1. ASSUME NEW q \in Producers, Pending(q)
        PROVE  wp[q] \in Live' /\ slot'[Index(wp[q])] = slot[Index(wp[q])]
    BY <1>3, <1>4, <1>6, <2>1
  <2>2. ASSUME NEW q \in Producers
        PROVE  /\ Pending(q)' <=> Pending(q)
               /\ Published(wp[q])' <=> Published(wp[q])
               /\ Current(q)' = Current(q)
    BY DEF Pending, Published, Current
  <2>3. ASSUME NEW q \in Producers, pc[q] = "publish"
        PROVE  slot'[Index(wp[q])] = Current(q)
    BY <2>1, <2>3 DEF RingInv, PendingOK, Pending
  <2> QED
    BY <2>1, <2>2, <2>3 DEF RingInv, PendingOK
<1>12. SlotsOK'
  <2>1. ASSUME NEW pos \in Live'
        PROVE  \/ \E q \in Producers : HeldBy(q, pos)
               \/ Published(pos) /\ slot'[Index(pos)] = claimed[pos + 1]
    BY <1>3, <1>6, <2>1 DEF RingInv, SlotsOK
  <2>2. ASSUME NEW i \in Slots, slot'[i] # Nil
        PROVE  \E pos \in Live' :
                 /\ Index(pos) = i
                 /\ \A q \in Producers : HeldBy(q, pos) => pc[q] = "publish"
    <3>1. i # Index(crp) /\ slot[i] # Nil
      BY <1>6, <2>2
    <3> QED
      <4>1. PICK pos \in Live :
              /\ Index(pos) = i
              /\ \A q \in Producers : HeldBy(q, pos) => pc[q] = "publish"
        BY <3>1 DEF RingInv, SlotsOK
      <4> QED
        BY <1>3, <3>1, <4>1
  <2>3. ASSUME NEW q \in Producers, NEW pos \in Live'
        PROVE  (HeldBy(q, pos)' <=> HeldBy(q, pos)) /\ (Published(pos)' <=> Published(pos))
    BY DEF HeldBy, Pending, Published
  <2> QED
    BY <2>1, <2>2, <2>3 DEF RingInv, SlotsOK, Published, HeldBy, Pending
<1>13. OrderOK'
  <2>1. ASSUME NEW k \in 1..Len(out')
        PROVE  out'[k] = claimed[readPos + k]
    <3>1. CASE k \in 1..Len(out)
      BY <1>1, <1>7, <3>1 DEF RingInv, OrderOK
    <3>2. CASE k = Len(out) + 1
      BY <1>1, <1>7, <3>2 DEF RingInv, TypeOK
    <3> QED
      BY SMTT(30), <1>7, <3>1, <3>2 DEF RingInv, TypeOK
  <2> QED
    BY <2>1 DEF RingInv, OrderOK
<1> QED
  BY <1>8, <1>9, <1>10, <1>11, <1>12, <1>13 DEF RingInv

(* Returning the batch frees its slots and hands over its entries; what is *)
(* live stays live.                                                        *)
LEMMA CommitInv ==
  ASSUME RingInv, Commit
  PROVE  RingInv'
<1> USE DEF Commit, producer
<1>1. /\ crp \in Nat /\ readPos \in Nat /\ writePos \in Nat
      /\ crp = readPos + Len(out) /\ Reached = crp /\ cpc' = "idle"
      /\ out \in Seq(Entry) /\ delivered \in Seq(Entry) /\ Len(delivered) = readPos
      /\ crp \leq writePos /\ writePos - readPos \leq Cap
  BY DEF RingInv, TypeOK, PositionsOK, DrainOK, Reached
<1>2. readPos' = crp /\ Reached' = Reached
  BY <1>1 DEF Reached
<1>3. Live' = Live
  BY <1>2 DEF Live
<1>4. /\ delivered' \in Seq(Entry) /\ Len(delivered') = crp
      /\ \A k \in 1..readPos : delivered'[k] = delivered[k]
      /\ \A k \in 1..Len(out) : delivered'[readPos + k] = out[k]
  <2>1. delivered' = delivered \o out
    OBVIOUS
  <2>2. delivered' \in Seq(Entry) /\ Len(delivered') = readPos + Len(out)
    BY ONLY <1>1, <2>1, ConcatProperties
  <2>3. ASSUME NEW k \in 1..readPos PROVE delivered'[k] = delivered[k]
    BY ONLY <1>1, <2>1, <2>3
  <2>4. ASSUME NEW k \in 1..Len(out) PROVE delivered'[readPos + k] = out[k]
    BY ONLY <1>1, <2>1, <2>4
  <2> QED
    BY <1>1, <2>2, <2>3, <2>4
<1>5. TypeOK'
  <2>1. loop' \in {"open", "final", "over"}
    BY DEF RingInv, TypeOK, EndOfDrain
  <2> QED
    BY <1>1, <1>2, <1>4, <2>1 DEF RingInv, TypeOK
<1>6. PositionsOK' /\ DrainOK'
  <2>1. PositionsOK'
    BY SMTT(30), <1>1, <1>2, <1>4, RingAssumption DEF RingInv, PositionsOK
  <2>2. DrainOK'
    BY SMTT(30), <1>1, <1>2, <1>4 DEF RingInv, DrainOK
  <2> QED
    BY <2>1, <2>2
<1>7. LoadsOK'
  BY <1>1, <1>2 DEF RingInv, TypeOK, LoadsOK
<1>8. PendingOK' /\ SlotsOK'
  BY <1>3 DEF RingInv, PendingOK, SlotsOK, Pending, HeldBy, Published, Current
<1>9. OrderOK'
  <2>1. ASSUME NEW k \in 1..Len(delivered')
        PROVE  delivered'[k] = claimed[k]
    <3>1. CASE k \in 1..readPos
      BY <1>1, <1>4, <3>1 DEF RingInv, OrderOK
    <3>2. CASE k \notin 1..readPos
      <4>1. k - readPos \in 1..Len(out) /\ k = readPos + (k - readPos)
        BY <1>1, <1>4, <2>1, <3>2
      <4>2. delivered'[k] = out[k - readPos]
        BY <1>4, <4>1
      <4>3. out[k - readPos] = claimed[readPos + (k - readPos)]
        BY <4>1 DEF RingInv, OrderOK
      <4> QED
        BY <4>1, <4>2, <4>3
    <3> QED
      BY <3>1, <3>2
  <2> QED
    BY <1>1, <2>1 DEF OrderOK
<1> QED
  BY <1>5, <1>6, <1>7, <1>8, <1>9 DEF RingInv

(* Closing, the writer's notice of it, and steps that change nothing.      *)
LEMMA CloseInv ==
  ASSUME RingInv, Close \/ SeeClose \/ UNCHANGED vars
  PROVE  RingInv'
<1> USE DEF Close, SeeClose, vars, shared, producer, consumer, history
<1>1. TypeOK'
  BY DEF RingInv, TypeOK
<1>2. PositionsOK' /\ DrainOK' /\ LoadsOK' /\ OrderOK'
  BY DEF RingInv, PositionsOK, DrainOK, LoadsOK, OrderOK, Reached, Published
<1>3. Live' = Live
  BY DEF Live, Reached
<1>4. PendingOK'
  BY <1>3 DEF RingInv, PendingOK, Pending, Published, Current
<1>5. SlotsOK'
  BY <1>3 DEF RingInv, SlotsOK, HeldBy, Pending, Published
<1> QED
  BY <1>1, <1>2, <1>4, <1>5 DEF RingInv
-----------------------------------------------------------------------------
(* Every step of the ring preserves the invariant.                         *)
LEMMA StepInv == RingInv /\ [Next]_vars => RingInv'
<1> SUFFICES ASSUME RingInv, [Next]_vars PROVE RingInv'
  OBVIOUS
<1>1. ASSUME NEW p \in Producers, Begin(p) \/ ProducerStep(p)
      PROVE  RingInv'
  BY <1>1, LocalStepInv, ClaimInv, StoreEntryInv, PublishInv DEF ProducerStep, LocalStep
<1>2. CASE ConsumerStep
  BY <1>2, ScanStepInv, TakeInv, CommitInv, CloseInv DEF ConsumerStep, ScanStep
<1>3. CASE Close \/ UNCHANGED vars
  BY <1>3, CloseInv
<1> QED
  BY <1>1, <1>2, <1>3 DEF Next

(* The ownership invariant of the ring holds in every reachable state.     *)
THEOREM RingInvariant == Spec => []RingInv
BY InitInv, StepInv, PTL DEF Spec

(* Type correctness: no nil and no unclaimed entry is ever in a batch.     *)
THEOREM TypeCorrect == Spec => []TypeOK
<1>1. RingInv => TypeOK
  BY DEF RingInv
<1> QED
  BY <1>1, RingInvariant, PTL

(* drainBatch returns exactly what was claimed, in the order of claims.    *)
THEOREM ClaimOrderDelivery == Spec => []DeliveredInClaimOrder
<1>1. ASSUME RingInv PROVE DeliveredInClaimOrder
  <2>1. /\ delivered \in Seq(Entry) /\ out \in Seq(Entry) /\ claimed \in Seq(Entry)
        /\ Len(delivered) = readPos /\ Len(claimed) = writePos
        /\ readPos \in Nat /\ writePos \in Nat /\ readPos \leq writePos
    BY <1>1 DEF RingInv, TypeOK, PositionsOK, Reached
  <2>2. CASE cpc = "idle"
    <3>1. delivered \o <<>> = delivered
      BY <2>1
    <3> QED
      BY <1>1, <2>1, <2>2, <3>1 DEF RingInv, OrderOK, DeliveredInClaimOrder
  <2>3. CASE cpc # "idle"
    <3> DEFINE taken == delivered \o out
    <3>1. readPos + Len(out) \leq writePos
      BY <1>1, <2>3 DEF RingInv, PositionsOK, DrainOK, Reached
    <3>2. Len(taken) = readPos + Len(out)
      BY <2>1
    <3>3. ASSUME NEW i \in 1..Len(taken)
          PROVE  taken[i] = claimed[i]
      <4>1. CASE i \leq readPos
        BY <1>1, <2>1, <3>2, <4>1 DEF RingInv, OrderOK
      <4>2. CASE i > readPos
        <5>1. i - readPos \in 1..Len(out) /\ i = readPos + (i - readPos)
          BY <2>1, <3>2, <4>2
        <5>2. taken[i] = out[i - readPos]
          BY <2>1, <3>2, <4>2
        <5>3. out[i - readPos] = claimed[readPos + (i - readPos)]
          BY <1>1, <2>3, <5>1 DEF RingInv, OrderOK
        <5> QED
          BY <5>1, <5>2, <5>3
      <4> QED
        BY <2>1, <4>1, <4>2
    <3> QED
      BY <2>1, <2>3, <3>1, <3>2, <3>3 DEF DeliveredInClaimOrder
  <2> QED
    BY <2>2, <2>3
<1> QED
  BY <1>1, RingInvariant, PTL

(* No two goroutines meet at a plain access to a slot.                     *)
THEOREM SlotRaceFreedom == Spec => []NoSlotRace
<1>1. ASSUME RingInv PROVE NoSlotRace
  <2>1. ASSUME NEW p \in Producers, pc[p] = "store", cpc = "take"
        PROVE  Index(wp[p]) # Index(crp)
    <3>1. Published(crp) /\ crp \in Nat /\ Index(crp) \in Slots /\ writePos \in Nat
      BY <1>1, <2>1, IndexInSlots DEF RingInv, TypeOK, DrainOK
    <3>2. crp \in Live
      BY <1>1, <2>1, <3>1 DEF RingInv, TypeOK, SlotsOK, Published, Live, Reached
    <3>3. wp[p] \in Live /\ wp[p] # crp
      BY <1>1, <2>1, <3>1 DEF RingInv, PendingOK, Pending
    <3> QED
      BY <1>1, <3>2, <3>3, LiveApart
  <2>2. ASSUME NEW p \in Producers, NEW q \in Producers, Pending(p), Pending(q), p # q
        PROVE  Index(wp[p]) # Index(wp[q])
    BY <1>1, <2>2, LiveApart DEF RingInv, PendingOK
  <2> QED
    BY <2>1, <2>2 DEF NoSlotRace
<1> QED
  BY <1>1, RingInvariant, PTL

(***************************************************************************)
(* A push never stores over an entry the writer has not taken: the slot it *)
(* stores into is the slot of a live position, which is the position the   *)
(* producer holds and has not stored yet, so the slot is empty.            *)
(***************************************************************************)
THEOREM NoOverwrite == Spec => NeverOverwrites
<1> DEFINE Kept == \A i \in Slots : slot[i] # Nil => slot'[i] \in {slot[i], Nil}
<1>1. ASSUME RingInv, [Next]_vars PROVE Kept
  <2>1. ASSUME NEW p \in Producers, StoreEntry(p) PROVE Kept
    <3>1. /\ wp[p] \in Live /\ pc[p] = "store" /\ HeldBy(p, wp[p])
          /\ slot \in [Slots -> Entry \union {Nil}]
      BY <1>1, <2>1 DEF StoreEntry, RingInv, TypeOK, PendingOK, Pending, HeldBy
    <3>2. slot[Index(wp[p])] = Nil
      <4>1. SUFFICES ASSUME slot[Index(wp[p])] # Nil PROVE FALSE
        OBVIOUS
      <4>2. PICK pos \in Live :
              /\ Index(pos) = Index(wp[p])
              /\ \A q \in Producers : HeldBy(q, pos) => pc[q] = "publish"
        BY <1>1, <3>1, <4>1, LiveApart DEF RingInv, SlotsOK
      <4>3. pos = wp[p]
        BY <1>1, <3>1, <4>2, LiveApart
      <4> QED
        BY <3>1, <4>2, <4>3
    <3>3. slot' = [slot EXCEPT ![Index(wp[p])] = Current(p)]
      BY <2>1 DEF StoreEntry
    <3> QED
      BY <3>1, <3>2, <3>3
  <2>2. CASE Take
    BY <1>1, <2>2 DEF Take, RingInv, TypeOK
  <2>3. ASSUME NEW p \in Producers, ProducerStep(p) \/ Begin(p), ~StoreEntry(p)
        PROVE  slot' = slot
    BY <2>3 DEF ProducerStep, Begin, CheckClosed, LoadWritePos, LoadReadPos, Claim,
                LoseClaim, Publish, shared
  <2>4. CASE DrainStart \/ ScanHit \/ ScanStop \/ Commit \/ SeeClose \/ Close \/ UNCHANGED vars
    BY <2>4 DEF DrainStart, ScanHit, ScanStop, Commit, SeeClose, Close, shared, vars
  <2> QED
    BY <1>1, <2>1, <2>2, <2>3, <2>4 DEF Next, ConsumerStep
<1>2. RingInv /\ [Next]_vars => [Kept]_vars
  BY <1>1
<1> QED
  BY <1>2, RingInvariant, PTL DEF Spec, NeverOverwrites

-----------------------------------------------------------------------------
(***************************************************************************)
(* The ring implements the safety part of LogQueue.  What the mapping      *)
(* needs beyond RingInv: a claimed entry is claimed once, and the entries  *)
(* of a batch that is not yet committed stay visible.                      *)
(***************************************************************************)
ClaimsOK ==
  /\ \A i \in 1..Len(claimed) :
       LET e == claimed[i]
       IN  /\ e[2] \leq calls[e[1]]
           /\ e = Current(e[1]) => pc[e[1]] \in {"idle", "store", "publish"}
  /\ \A i, j \in 1..Len(claimed) : claimed[i] = claimed[j] => i = j

TakenOK == \A pos \in readPos..(Reached - 1) : Published(pos)

MapInv == RingInv /\ ClaimsOK /\ TakenOK

LEMMA ClaimsInv ==
  ASSUME RingInv, ClaimsOK, [Next]_vars
  PROVE  ClaimsOK'
<1>1. /\ claimed \in Seq(Entry) /\ calls \in [Producers -> 0..MaxPush] /\ MaxPush \in Nat
      /\ pc \in [Producers -> {"idle", "check", "loadW", "loadR", "cas", "store", "publish"}]
      /\ \A i \in 1..Len(claimed) : /\ claimed[i] \in Entry /\ claimed[i][1] \in Producers
                                    /\ claimed[i][2] \in Nat
  <2>1. /\ claimed \in Seq(Entry) /\ calls \in [Producers -> 0..MaxPush] /\ MaxPush \in Nat
        /\ pc \in [Producers -> {"idle", "check", "loadW", "loadR", "cas", "store", "publish"}]
    BY RingAssumption DEF RingInv, TypeOK
  <2>2. \A i \in 1..Len(claimed) : claimed[i] \in Entry
    BY <2>1
  <2> QED
    BY <2>1, <2>2 DEF Entry
<1> DEFINE Free == {"idle", "store", "publish"}
<1>2. ASSUME UNCHANGED <<claimed, calls>>,
             \A p \in Producers : pc[p] \in Free => pc'[p] \in Free
      PROVE  ClaimsOK'
  BY <1>1, <1>2 DEF ClaimsOK, Current
<1>3. ASSUME NEW p \in Producers, Begin(p) PROVE ClaimsOK'
  <2>1. /\ claimed' = claimed /\ calls' = [calls EXCEPT ![p] = calls[p] + 1]
        /\ \A q \in Producers : q # p => pc'[q] = pc[q]
    BY <1>1, <1>3 DEF Begin, Goto, history
  <2>2. ASSUME NEW i \in 1..Len(claimed)
        PROVE  LET e == claimed[i]
               IN  /\ e[2] \leq calls'[e[1]]
                   /\ e = <<e[1], calls'[e[1]]>> => pc'[e[1]] \in Free
    <3> DEFINE q == claimed[i][1]
               k == claimed[i][2]
    <3>1. k \leq calls[q] /\ (claimed[i] = <<q, calls[q]>> => pc[q] \in Free)
          /\ q \in Producers /\ k \in Nat
      BY <1>1 DEF ClaimsOK, Current
    <3> HIDE DEF q, k
    <3>2. CASE q = p
      <4>1. calls'[q] = calls[q] + 1 /\ calls[q] \in Nat
        BY <1>1, <2>1, <3>2
      <4>2. claimed[i] # <<q, calls'[q]>>
        BY <3>1, <4>1 DEF k
      <4> QED
        BY <3>1, <4>1, <4>2 DEF q, k
    <3>3. CASE q # p
      <4>1. calls'[q] = calls[q] /\ pc'[q] = pc[q]
        BY <1>1, <2>1, <3>1, <3>3
      <4> QED
        BY <3>1, <4>1 DEF q, k
    <3> QED
      BY <3>2, <3>3
  <2> QED
    BY <2>1, <2>2 DEF ClaimsOK, Current
<1>4. ASSUME NEW p \in Producers, Claim(p) PROVE ClaimsOK'
  <2>1. /\ pc[p] = "cas" /\ claimed' = Append(claimed, Current(p)) /\ calls' = calls
        /\ pc' = [pc EXCEPT ![p] = "store"]
    BY <1>4 DEF Claim, Goto
  <2>2. Current(p) \in Entry
    BY <1>1, <2>1 DEF RingInv, LoadsOK, Current, Entry
  <2>3. /\ Len(claimed') = Len(claimed) + 1 /\ Len(claimed) \in Nat
        /\ claimed'[Len(claimed) + 1] = Current(p)
        /\ \A i \in 1..Len(claimed) : claimed'[i] = claimed[i]
    BY <1>1, <2>1, <2>2
  <2>4. \A i \in 1..Len(claimed) : claimed[i] # Current(p)
    BY SMTT(30), <1>1, <2>1 DEF ClaimsOK, Current
  <2>5. \A q \in Producers : (pc[q] \in Free => pc'[q] \in Free) /\ Current(q)' = Current(q)
    BY <1>1, <2>1 DEF Current
  <2>6. ASSUME NEW i \in 1..Len(claimed')
        PROVE  LET e == claimed'[i]
               IN  /\ e[2] \leq calls'[e[1]]
                   /\ e = <<e[1], calls'[e[1]]>> => pc'[e[1]] \in Free
    <3>1. CASE i \in 1..Len(claimed)
      <4>1. PICK q \in Producers, k \in Nat : claimed[i] = <<q, k>>
        <5>1. claimed[i] \in Entry
          BY <1>1, <3>1
        <5> QED
          BY <5>1 DEF Entry
      <4>2. claimed[i][1] = q /\ claimed[i][2] = k
        BY <4>1
      <4>3. k \leq calls[q] /\ (claimed[i] = <<q, calls[q]>> => pc[q] \in Free)
        BY <3>1, <4>2 DEF ClaimsOK, Current
      <4> QED
        BY <2>1, <2>3, <2>5, <3>1, <4>2, <4>3
    <3>2. CASE i = Len(claimed) + 1
      <4>1. claimed'[i] = <<p, calls[p]>> /\ pc'[p] = "store" /\ calls[p] \in Nat
        BY <1>1, <2>1, <2>3, <3>2 DEF Current
      <4> QED
        BY <2>1, <4>1
    <3> QED
      BY <2>3, <3>1, <3>2
  <2>7. ASSUME NEW i \in 1..Len(claimed'), NEW j \in 1..Len(claimed'), claimed'[i] = claimed'[j]
        PROVE  i = j
    <3>1. CASE i \in 1..Len(claimed) /\ j \in 1..Len(claimed)
      BY <2>3, <2>7, <3>1 DEF ClaimsOK
    <3>2. (i = Len(claimed) + 1 \/ i \in 1..Len(claimed)) /\ (j = Len(claimed) + 1 \/ j \in 1..Len(claimed))
      BY <2>3
    <3> QED
      BY <2>3, <2>4, <2>7, <3>1, <3>2
  <2> QED
    BY <2>6, <2>7 DEF ClaimsOK, Current
<1>5. ASSUME NEW p \in Producers, ProducerStep(p), ~Claim(p) PROVE ClaimsOK'
  <2>1. UNCHANGED <<claimed, calls>>
    BY <1>5 DEF ProducerStep, CheckClosed, LoadWritePos, LoadReadPos, LoseClaim, StoreEntry, Publish, history
  <2>2. \A q \in Producers : pc[q] \in Free => pc'[q] \in Free
    BY <1>1, <1>5 DEF ProducerStep, CheckClosed, LoadWritePos, LoadReadPos, LoseClaim, StoreEntry,
       Publish, Goto
  <2> QED
    BY <1>2, <2>1, <2>2
<1>6. CASE ConsumerStep \/ Close \/ UNCHANGED vars
  <2>1. UNCHANGED <<claimed, calls, pc>>
    BY <1>6 DEF ConsumerStep, DrainStart, ScanHit, ScanStop, Take, Commit, SeeClose, Close, vars,
       producer, history
  <2> QED
    BY <1>2, <2>1
<1> QED
  BY <1>3, <1>4, <1>5, <1>6 DEF Next

LEMMA TakenInv ==
  ASSUME RingInv, TakenOK, [Next]_vars
  PROVE  TakenOK'
<1>1. /\ readPos \in Nat /\ writePos \in Nat /\ crp \in Nat /\ Reached \in Nat
      /\ readPos \leq Reached /\ Reached \leq writePos /\ writePos - readPos \leq Cap
      /\ seq \in [Slots -> Nat] /\ wp \in [Producers -> Nat]
  BY DEF RingInv, TypeOK, PositionsOK, Reached
<1>2. ASSUME UNCHANGED <<readPos, seq>>, Reached' = Reached PROVE TakenOK'
  BY <1>2 DEF TakenOK, Published
<1>3. ASSUME NEW p \in Producers, Publish(p) PROVE TakenOK'
  <2>1. /\ wp[p] \in Live /\ seq' = [seq EXCEPT ![Index(wp[p])] = wp[p] + 1]
        /\ readPos' = readPos /\ Reached' = Reached
    BY <1>3 DEF Publish, RingInv, PendingOK, Pending, Reached, consumer
  <2>2. ASSUME NEW pos \in readPos..(Reached - 1) PROVE Published(pos)'
    <3>1. /\ pos \in Nat /\ wp[p] \in Nat /\ pos # wp[p] /\ pos - wp[p] < Cap /\ wp[p] - pos < Cap
      <4>1. PICK w : w = wp[p] /\ w \in Reached..(writePos - 1)
        BY <2>1 DEF Live
      <4>2. PICK r \in Nat, q \in Nat : r = Reached /\ q = writePos
        BY <1>1
      <4> QED
        BY <1>1, <4>1, <4>2, RingAssumption
    <3>2. Index(pos) # Index(wp[p])
      BY <3>1, LiveIndex
    <3>3. seq'[Index(pos)] = seq[Index(pos)]
      BY <1>1, <2>1, <3>1, <3>2, IndexInSlots
    <3> QED
      BY <3>3 DEF TakenOK, Published
  <2> QED
    BY <2>1, <2>2 DEF TakenOK
<1>4. ASSUME NEW p \in Producers, Begin(p) \/ ProducerStep(p), ~Publish(p) PROVE TakenOK'
  <2>1. UNCHANGED <<readPos, seq>> /\ Reached' = Reached
    BY <1>4 DEF Begin, ProducerStep, CheckClosed, LoadWritePos, LoadReadPos, Claim, LoseClaim,
       StoreEntry, shared, consumer, Reached
  <2> QED
    BY <1>2, <2>1
<1>5. CASE DrainStart \/ ScanHit \/ ScanStop \/ SeeClose \/ Close \/ UNCHANGED vars
  <2>1. UNCHANGED <<readPos, seq>> /\ Reached' = Reached
    BY <1>5 DEF DrainStart, ScanHit, ScanStop, SeeClose, Close, vars, shared, consumer, Reached
  <2> QED
    BY <1>2, <2>1
<1>6. CASE Take
  <2>1. /\ UNCHANGED <<readPos, seq>> /\ Reached = crp /\ Reached' = crp + 1 /\ Published(crp)
    BY <1>6 DEF Take, Reached, RingInv, DrainOK
  <2> QED
    BY <1>1, <2>1 DEF TakenOK, Published
<1>7. CASE Commit
  <2>1. Reached' = readPos' /\ readPos' \in Nat
    BY <1>1, <1>7 DEF Commit, Reached
  <2>2. readPos'..(Reached' - 1) = {}
    <3>1. PICK r \in Nat : r = readPos'
      BY <2>1
    <3>2. r..(r - 1) = {}
      OBVIOUS
    <3> QED
      BY <2>1, <3>1, <3>2
  <2> QED
    BY <2>2 DEF TakenOK
<1> QED
  BY <1>3, <1>4, <1>5, <1>6, <1>7 DEF Next, ConsumerStep

(* What the mapping rests on holds in every reachable state.               *)
THEOREM MappingInvariant == Spec => []MapInv
<1>1. Init => ClaimsOK /\ TakenOK
  BY DEF Init, ClaimsOK, TakenOK, Reached
<1>2. MapInv /\ [Next]_vars => MapInv'
  BY StepInv, ClaimsInv, TakenInv DEF MapInv
<1>3. Init => MapInv
  BY <1>1, InitInv DEF MapInv
<1> QED
  BY <1>2, <1>3, PTL DEF Spec

(* A producer's stage depends on nothing but its next step.                *)
StageOf(l) == IF l = "idle" THEN "out" ELSE IF l \in {"store", "publish"} THEN "claimed" ELSE "in"

LEMMA StageFacts ==
  ASSUME TypeOK, TypeOK', NEW p \in Producers, \A q \in Producers : q # p => pc'[q] = pc[q]
  PROVE  /\ stageView[p] = StageOf(pc[p])
         /\ stageView' = [stageView EXCEPT ![p] = StageOf(pc'[p])]
         /\ StageOf(pc'[p]) = StageOf(pc[p]) => stageView' = stageView
<1>1. stageView = [q \in Producers |-> StageOf(pc[q])]
  BY DEF stageView, StageOf, Pending
<1>2. stageView' = [q \in Producers |-> StageOf(pc'[q])]
  BY DEF stageView, StageOf, Pending
<1> QED
  BY <1>1, <1>2

LEMMA FunctionIsSeq ==
  ASSUME NEW S, NEW n \in Nat, NEW f \in [1..n -> S]
  PROVE  f \in Seq(S) /\ Len(f) = n /\ DOMAIN f = 1..n
<1>1. f \in Seq(S) /\ DOMAIN f = 1..n
  BY SeqDef
<1>2. Len(f) \in Nat /\ DOMAIN f = 1..Len(f)
  BY <1>1, LenProperties
<1> QED
  BY <1>1, <1>2

(* The queue is the run of claims that readPos has not passed.             *)
Places == [entry : Entry, ready : BOOLEAN]
QueueOK ==
  /\ readPos \in Nat /\ writePos \in Nat /\ readPos \leq writePos /\ writePos - readPos \leq Cap
  /\ Len(claimed) = writePos /\ claimed \in Seq(Entry)
  /\ Len(queueView) = writePos - readPos /\ DOMAIN queueView = 1..(writePos - readPos)
  /\ queueView \in Seq(Places)
  /\ \A i \in 1..(writePos - readPos) :
       /\ readPos + i \in 1..Len(claimed) /\ claimed[readPos + i] \in Entry
       /\ queueView[i] = [entry |-> claimed[readPos + i], ready |-> Published(readPos + i - 1)]

LEMMA QueueFacts == RingInv => QueueOK
<1> SUFFICES ASSUME RingInv PROVE QueueOK
  OBVIOUS
<1>1. /\ readPos \in Nat /\ writePos \in Nat /\ readPos \leq writePos /\ writePos - readPos \leq Cap
      /\ claimed \in Seq(Entry) /\ Len(claimed) = writePos
  BY DEF RingInv, TypeOK, PositionsOK, Reached
<1>2. \A i \in 1..(writePos - readPos) : readPos + i \in 1..Len(claimed) /\ claimed[readPos + i] \in Entry
  BY <1>1
<1>3. \A i \in 1..(writePos - readPos) : Published(readPos + i - 1) \in BOOLEAN
  BY DEF Published
<1>4. queueView \in [1..(writePos - readPos) -> Places]
  BY <1>2, <1>3 DEF queueView, Places
<1>5. writePos - readPos \in Nat
  BY <1>1
<1>6. /\ queueView \in Seq(Places) /\ Len(queueView) = writePos - readPos
      /\ DOMAIN queueView = 1..(writePos - readPos)
  BY <1>4, <1>5, FunctionIsSeq
<1> QED
  BY <1>1, <1>2, <1>4, <1>6 DEF QueueOK, queueView

LEMMA QueueFactsNext == RingInv' => QueueOK'
BY QueueFacts, PTL

LEMMA QueueStays ==
  ASSUME UNCHANGED <<writePos, readPos, seq, claimed>>
  PROVE  queueView' = queueView
BY DEF queueView, Published, Index

LEMMA RefineInit == Init => Q!QueueInit
<1> SUFFICES ASSUME Init PROVE Q!QueueInit
  OBVIOUS
<1>1. stageView = [p \in Producers |-> "out"]
  <2>1. \A p \in Producers : pc[p] = "idle"
    BY DEF Init
  <2>2. stageView = [p \in Producers |-> StageOf(pc[p])]
    BY DEF stageView, StageOf, Pending
  <2> QED
    BY <2>1, <2>2 DEF StageOf
<1>2. queueView = <<>>
  <2>1. Len(queueView) = 0 /\ queueView \in Seq(Places)
    BY InitInv, QueueFacts DEF Init, QueueOK
  <2> QED
    BY <2>1, EmptySeq
<1> QED
  BY <1>1, <1>2 DEF Init, Q!QueueInit

(* The steps of tryPush that take no place in the queue.                   *)
LEMMA RefineLocal ==
  ASSUME MapInv, MapInv', NEW p \in Producers, LocalStep(p) \/ StoreEntry(p)
  PROVE  Q!Begin(p) \/ Q!Reject(p) \/ UNCHANGED Q!queueVars
<1>1. /\ TypeOK /\ TypeOK' /\ pc \in [Producers -> {"idle", "check", "loadW", "loadR", "cas", "store", "publish"}]
  BY DEF MapInv, RingInv, TypeOK
<1>2. /\ UNCHANGED <<writePos, readPos, seq, claimed, delivered, closed>>
      /\ Begin(p) \/ UNCHANGED calls
      /\ \A q \in Producers : q # p => pc'[q] = pc[q]
  BY <1>1 DEF LocalStep, Begin, CheckClosed, LoadWritePos, LoadReadPos, LoseClaim, StoreEntry, Goto,
     shared, history
<1>3. queueView' = queueView
  BY <1>2, QueueStays
<1>4. /\ stageView[p] = StageOf(pc[p])
      /\ stageView' = [stageView EXCEPT ![p] = StageOf(pc'[p])]
      /\ StageOf(pc'[p]) = StageOf(pc[p]) => stageView' = stageView
  BY <1>1, <1>2, StageFacts
<1>5. CASE Begin(p)
  <2>1. /\ pc[p] = "idle" /\ calls[p] < MaxPush /\ calls' = [calls EXCEPT ![p] = calls[p] + 1]
        /\ IF closed THEN pc' = pc ELSE pc'[p] = "loadW"
    BY <1>1, <1>5 DEF Begin, Goto
  <2>2. stageView[p] = "out"
    BY <1>4, <2>1 DEF StageOf
  <2>3. stageView' = IF closed THEN stageView ELSE [stageView EXCEPT ![p] = "in"]
    <3>1. CASE closed
      BY <1>4, <2>1, <3>1
    <3>2. CASE ~closed
      BY <1>4, <2>1, <3>2 DEF StageOf
    <3> QED
      BY <3>1, <3>2
  <2> QED
    BY <1>2, <1>3, <2>1, <2>2, <2>3 DEF Q!Begin
<1>6. CASE ~Begin(p) /\ StageOf(pc'[p]) = StageOf(pc[p])
  BY <1>2, <1>3, <1>4, <1>6 DEF Q!queueVars
<1>7. CASE ~Begin(p) /\ StageOf(pc'[p]) # StageOf(pc[p])
  <2>1. pc[p] \in {"check", "loadR"} /\ pc'[p] = "idle"
    BY <1>1, <1>7 DEF LocalStep, CheckClosed, LoadWritePos, LoadReadPos, LoseClaim, StoreEntry, Goto,
       StageOf
  <2>2. stageView[p] = "in" /\ stageView' = [stageView EXCEPT ![p] = "out"]
    BY <1>4, <2>1 DEF StageOf
  <2> QED
    BY <1>2, <1>3, <1>7, <2>2 DEF Q!Reject
<1> QED
  BY <1>5, <1>6, <1>7

LEMMA RefineClaim ==
  ASSUME MapInv, MapInv', NEW p \in Producers, Claim(p)
  PROVE  Q!Accept(p)
<1>1. /\ TypeOK /\ TypeOK' /\ RingInv /\ RingInv'
      /\ pc \in [Producers -> {"idle", "check", "loadW", "loadR", "cas", "store", "publish"}]
      /\ calls \in [Producers -> 0..MaxPush] /\ claimed \in Seq(Entry) /\ seq \in [Slots -> Nat]
      /\ rp[p] \in Nat /\ Cap \in Nat
  BY RingAssumption DEF MapInv, RingInv, TypeOK
<1>2. /\ pc[p] = "cas" /\ wp[p] = writePos /\ writePos' = writePos + 1
      /\ claimed' = Append(claimed, Current(p)) /\ pc' = [pc EXCEPT ![p] = "store"]
      /\ UNCHANGED <<readPos, seq, calls, delivered, closed>>
  BY DEF Claim, Goto
<1>3. stageView[p] = "in" /\ stageView' = [stageView EXCEPT ![p] = "claimed"]
  BY <1>1, <1>2, StageFacts DEF StageOf
<1>4. PICK r \in Nat, n \in Nat : r = readPos /\ n = writePos - readPos /\ writePos = r + n
  BY <1>1, QueueFacts DEF QueueOK
<1> DEFINE e == [entry |-> Current(p), ready |-> FALSE]
           old(i) == [entry |-> claimed[r + i], ready |-> Published(r + i - 1)]
<1>5. /\ Len(queueView) = n /\ queueView \in Seq(Places) /\ Len(claimed) = r + n
      /\ \A i \in 1..n : r + i \in 1..Len(claimed) /\ queueView[i] = old(i)
  BY <1>1, <1>4, QueueFacts DEF QueueOK
<1>6. n < Cap
  <2>1. rp[p] \leq readPos /\ ~Full(writePos, rp[p])
    BY <1>1, <1>2 DEF RingInv, LoadsOK
  <2> QED
    BY <1>1, <1>4, <2>1 DEF Full, Distance
<1>7. Current(p) \in Entry
  BY <1>1, <1>2 DEF RingInv, LoadsOK, Current, Entry
<1>8. /\ Len(queueView') = n + 1 /\ queueView' \in Seq(Places)
      /\ \A i \in 1..(n + 1) :
           queueView'[i] = [entry |-> claimed'[r + i], ready |-> Published(r + i - 1)']
  <2>1. writePos' - readPos' = n + 1 /\ readPos' = r
    BY <1>2, <1>4
  <2>2. /\ Len(queueView') = writePos' - readPos' /\ queueView' \in Seq(Places)
        /\ \A i \in 1..(writePos' - readPos') :
             queueView'[i] = [entry |-> claimed'[readPos' + i], ready |-> Published(readPos + i - 1)']
    BY <1>1, QueueFactsNext DEF QueueOK
  <2>3. ASSUME NEW i \in 1..(n + 1)
        PROVE  queueView'[i] = [entry |-> claimed'[r + i], ready |-> Published(r + i - 1)']
    <3>1. Published(readPos + i - 1)' <=> Published(r + i - 1)'
      BY <2>1 DEF Published
    <3> QED
      BY <2>1, <2>2, <3>1
  <2> QED
    BY <2>1, <2>2, <2>3
<1>9. ASSUME NEW i \in 1..n PROVE queueView'[i] = queueView[i]
  <2>1. claimed'[r + i] = claimed[r + i]
    BY <1>1, <1>2, <1>5, <1>7
  <2>2. Published(r + i - 1)' = Published(r + i - 1)
    BY <1>2 DEF Published
  <2>3. i \in 1..(n + 1)
    OBVIOUS
  <2>4. queueView'[i] = [entry |-> claimed'[r + i], ready |-> Published(r + i - 1)']
    BY <1>8, <2>3
  <2>5. queueView[i] = [entry |-> claimed[r + i], ready |-> Published(r + i - 1)]
    BY <1>5
  <2> QED
    BY <2>1, <2>2, <2>4, <2>5
<1>10. queueView'[n + 1] = e
  <2>1. claimed'[r + (n + 1)] = Current(p)
    BY <1>1, <1>2, <1>5, <1>7
  <2>2. Published(r + (n + 1) - 1)' = FALSE
    <3>1. Index(r + n) \in Slots
      BY IndexInSlots
    <3>2. seq[Index(r + n)] \leq r + n /\ seq[Index(r + n)] \in Nat
      BY <1>1, <1>4, <3>1 DEF RingInv, SlotsOK
    <3>3. ~Published(r + n)
      BY <3>2 DEF Published
    <3>4. r + (n + 1) - 1 = r + n
      OBVIOUS
    <3>5. Published(r + (n + 1) - 1)' <=> Published(r + n)
      BY <1>2, <3>4 DEF Published
    <3> QED
      BY <3>3, <3>5 DEF Published
  <2>3. n + 1 \in 1..(n + 1)
    OBVIOUS
  <2>4. queueView'[n + 1] = [entry |-> claimed'[r + (n + 1)], ready |-> Published(r + (n + 1) - 1)']
    BY <1>8, <2>3
  <2> QED
    BY <2>1, <2>2, <2>4
<1>11. queueView' = Append(queueView, e)
  <2>1. e \in Places
    BY <1>7 DEF Places
  <2> HIDE DEF e
  <2>2. /\ Append(queueView, e) \in Seq(Places) /\ Len(Append(queueView, e)) = n + 1
        /\ \A i \in 1..n : Append(queueView, e)[i] = queueView[i]
        /\ Append(queueView, e)[n + 1] = e
    BY <1>5, <2>1, AppendProperties
  <2>3. \A i \in 1..(n + 1) : queueView'[i] = Append(queueView, e)[i]
    BY <1>9, <1>10, <2>2
  <2> QED
    BY <1>8, <2>2, <2>3, SeqEqual
<1> QED
  BY <1>2, <1>3, <1>4, <1>5, <1>6, <1>11 DEF Q!Accept, Q!Current, Current

LEMMA RefinePublish ==
  ASSUME MapInv, MapInv', NEW p \in Producers, Publish(p)
  PROVE  Q!Publish(p)
<1>1. /\ TypeOK /\ TypeOK' /\ RingInv /\ RingInv' /\ ClaimsOK /\ Cap \in Nat
      /\ pc \in [Producers -> {"idle", "check", "loadW", "loadR", "cas", "store", "publish"}]
      /\ seq \in [Slots -> Nat] /\ wp[p] \in Nat
  BY RingAssumption DEF MapInv, RingInv, TypeOK
<1>2. /\ pc[p] = "publish" /\ pc' = [pc EXCEPT ![p] = "idle"]
      /\ seq' = [seq EXCEPT ![Index(wp[p])] = wp[p] + 1]
      /\ UNCHANGED <<writePos, readPos, claimed, calls, delivered, closed>>
  BY DEF Publish, Goto, history
<1>3. stageView[p] = "claimed" /\ stageView' = [stageView EXCEPT ![p] = "out"]
  BY <1>1, <1>2, StageFacts DEF StageOf
<1>4. PICK r \in Nat, n \in Nat : r = readPos /\ n = writePos - readPos /\ writePos = r + n /\ n \leq Cap
  BY <1>1, QueueFacts DEF QueueOK
<1>5. /\ Len(queueView) = n /\ queueView \in Seq(Places) /\ Len(claimed) = r + n
      /\ \A i \in 1..n : /\ r + i \in 1..Len(claimed)
                         /\ queueView[i] = [entry |-> claimed[r + i], ready |-> Published(r + i - 1)]
  BY <1>1, <1>4, QueueFacts DEF QueueOK
<1>6. /\ Len(queueView') = n /\ queueView' \in Seq(Places)
      /\ \A i \in 1..n : queueView'[i] = [entry |-> claimed[r + i], ready |-> Published(r + i - 1)']
  <2>1. /\ Len(queueView') = n /\ queueView' \in Seq(Places)
        /\ \A i \in 1..n :
             queueView'[i] = [entry |-> claimed'[readPos' + i], ready |-> Published(readPos + i - 1)']
    BY <1>1, <1>2, <1>4, QueueFactsNext DEF QueueOK
  <2>2. ASSUME NEW i \in 1..n
        PROVE  queueView'[i] = [entry |-> claimed[r + i], ready |-> Published(r + i - 1)']
    <3>1. Published(readPos + i - 1)' = Published(r + i - 1)'
      BY <1>2, <1>4 DEF Published
    <3> QED
      BY <1>2, <1>4, <2>1, <3>1
  <2> QED
    BY <2>1, <2>2
<1>7. PICK w : w = wp[p] /\ w \in r..(r + n - 1) /\ claimed[w + 1] = Current(p)
  <2>1. wp[p] \in Live /\ claimed[wp[p] + 1] = Current(p) /\ readPos \leq Reached /\ Reached \in Nat
    BY <1>1, <1>2 DEF RingInv, TypeOK, PositionsOK, PendingOK, Pending, Reached
  <2> QED
    BY <1>1, <1>4, <2>1 DEF Live
<1>8. ASSUME NEW i \in 1..n
      PROVE  queueView'[i] = IF queueView[i].entry = Current(p)
                             THEN [entry |-> Current(p), ready |-> TRUE] ELSE queueView[i]
  <2>1. /\ queueView[i] = [entry |-> claimed[r + i], ready |-> Published(r + i - 1)]
        /\ queueView'[i] = [entry |-> claimed[r + i], ready |-> Published(r + i - 1)']
        /\ r + i \in 1..Len(claimed)
    BY <1>5, <1>6
  <2>2. CASE r + i - 1 = w
    <3>1. claimed[r + i] = Current(p)
      BY <1>7, <2>2
    <3>2. Published(r + i - 1)' = TRUE
      <4>1. w \in Nat /\ Index(w) \in Slots
        BY <1>7, IndexInSlots
      <4>2. seq'[Index(w)] = w + 1
        BY <1>1, <1>2, <1>7, <4>1
      <4> QED
        BY <2>2, <4>2 DEF Published
    <3>3. queueView[i].entry = Current(p)
      BY <2>1, <3>1
    <3>4. queueView'[i] = [entry |-> Current(p), ready |-> TRUE]
      BY <2>1, <3>1, <3>2
    <3> QED
      BY <3>3, <3>4
  <2>3. CASE r + i - 1 # w
    <3>1. w + 1 \in 1..Len(claimed) /\ w + 1 # r + i
      <4>1. Len(claimed) = r + n
        BY <1>5
      <4>2. w \in r..(r + n - 1)
        BY <1>7
      <4>3. w \in Nat /\ w + 1 \in 1..(r + n) /\ w + 1 # r + i
        BY <2>3, <4>2
      <4> QED
        BY <4>1, <4>3
    <3>2. claimed[r + i] # Current(p)
      BY <1>1, <1>7, <2>1, <3>1 DEF ClaimsOK
    <3>3. PICK x \in Nat : x = r + i - 1
      OBVIOUS
    <3>4. Index(x) # Index(w)
      <4>1. w \in Nat /\ x # w /\ x - w < Cap /\ w - x < Cap
        BY <1>1, <1>4, <1>7, <2>3, <3>3
      <4> QED
        BY <4>1, LiveIndex
    <3>5. seq'[Index(x)] = seq[Index(x)]
      BY <1>1, <1>2, <1>7, <3>4, IndexInSlots
    <3>6. Published(r + i - 1)' = Published(r + i - 1)
      BY <3>3, <3>5 DEF Published
    <3> QED
      BY <2>1, <3>2, <3>6
  <2> QED
    BY <2>2, <2>3
<1>9. queueView' = [i \in 1..n |-> IF queueView[i].entry = Current(p)
                                   THEN [entry |-> Current(p), ready |-> TRUE] ELSE queueView[i]]
  <2>1. DOMAIN queueView' = 1..n /\ queueView' = [i \in 1..n |-> queueView'[i]]
    <3>1. queueView' \in [1..Len(queueView') -> Places]
      BY <1>6, LenProperties
    <3> QED
      BY <1>6, <3>1
  <2> QED
    BY <1>8, <2>1
<1>10. queueView' = Q!MarkReady(queueView, Current(p))
  BY <1>5, <1>9 DEF Q!MarkReady
<1> QED
  BY <1>2, <1>3, <1>10 DEF Q!Publish, Q!Current, Current

(* The store of readPos delivers the batch, if there is one.               *)
LEMMA RefineCommit ==
  ASSUME MapInv, MapInv', Commit
  PROVE  (\E k \in 1..Cap : Q!Deliver(k)) \/ UNCHANGED Q!queueVars
<1>1. /\ TypeOK /\ TypeOK' /\ RingInv /\ RingInv' /\ TakenOK /\ Cap \in Nat
      /\ out \in Seq(Entry) /\ Len(out) \in Nat /\ delivered \in Seq(Entry) /\ crp \in Nat
  <2>1. /\ TypeOK /\ TypeOK' /\ RingInv /\ RingInv' /\ TakenOK /\ Cap \in Nat
        /\ out \in Seq(Entry) /\ delivered \in Seq(Entry) /\ crp \in Nat
    BY RingAssumption DEF MapInv, RingInv, TypeOK
  <2> QED
    BY <2>1, LenProperties
<1>2. /\ cpc = "commit" /\ readPos' = (IF Len(out) > 0 THEN crp ELSE readPos)
      /\ delivered' = delivered \o out
      /\ UNCHANGED <<writePos, seq, claimed, calls, closed, pc>>
  BY DEF Commit, producer
<1>3. stageView' = stageView
  BY <1>2 DEF stageView, Pending
<1>4. CASE Len(out) = 0
  <2>1. out = <<>>
    BY <1>1, <1>4, EmptySeq
  <2>2. readPos' = readPos /\ delivered' = delivered
    BY <1>1, <1>2, <1>4, <2>1, ConcatEmptySeq
  <2>3. queueView' = queueView
    BY <1>2, <2>2, QueueStays
  <2> QED
    BY <1>2, <1>3, <2>2, <2>3 DEF Q!queueVars
<1>5. CASE Len(out) # 0
  <2>1. PICK k \in Nat : k = Len(out) /\ k > 0
    BY <1>1, <1>5
  <2>2. PICK r \in Nat, n \in Nat : r = readPos /\ n = writePos - readPos /\ writePos = r + n /\ n \leq Cap
    BY <1>1, QueueFacts DEF QueueOK
  <2>3. Reached = r + k /\ r + k \leq r + n /\ readPos' = r + k /\ crp = r + k
    BY <1>1, <1>2, <2>1, <2>2 DEF RingInv, DrainOK, PositionsOK, Reached
  <2>4. k \leq n /\ k \in 1..Cap
    BY <1>1, <2>1, <2>2, <2>3
  <2>5. /\ Len(queueView) = n /\ queueView \in Seq(Places) /\ Len(claimed) = r + n
        /\ claimed \in Seq(Entry)
        /\ \A i \in 1..n : queueView[i] = [entry |-> claimed[r + i], ready |-> Published(r + i - 1)]
    BY <1>1, <2>2, QueueFacts DEF QueueOK
  <2>6. \A i \in 1..k : queueView[i].ready
    <3> SUFFICES ASSUME NEW i \in 1..k PROVE queueView[i].ready
      OBVIOUS
    <3>1. i \in 1..n /\ r + i - 1 \in r..(r + k - 1)
      BY <2>4
    <3>2. Published(r + i - 1)
      BY <1>1, <2>2, <2>3, <3>1 DEF TakenOK
    <3> QED
      BY <2>5, <3>1, <3>2
  <2>7. out = [i \in 1..k |-> queueView[i].entry]
    <3>1. \A i \in 1..k : out[i] = queueView[i].entry
      <4> SUFFICES ASSUME NEW i \in 1..k PROVE out[i] = queueView[i].entry
        OBVIOUS
      <4>1. out[i] = claimed[r + i]
        BY <1>1, <1>2, <2>1, <2>2 DEF RingInv, OrderOK
      <4>2. queueView[i].entry = claimed[r + i]
        BY <2>4, <2>5
      <4> QED
        BY <4>1, <4>2
    <3>2. out = [i \in 1..k |-> out[i]]
      BY <1>1, <2>1, LenProperties
    <3> QED
      BY <3>1, <3>2
  <2>8. /\ Len(queueView') = n - k /\ queueView' \in Seq(Places)
        /\ \A i \in 1..(n - k) :
             queueView'[i] = [entry |-> claimed[r + k + i], ready |-> Published(r + k + i - 1)]
    <3>1. writePos' - readPos' = n - k /\ readPos' = r + k
      BY <1>2, <2>2, <2>3
    <3>2. /\ Len(queueView') = writePos' - readPos' /\ queueView' \in Seq(Places)
          /\ \A i \in 1..(writePos' - readPos') :
               queueView'[i] = [entry |-> claimed'[readPos' + i], ready |-> Published(readPos + i - 1)']
      BY <1>1, QueueFactsNext DEF QueueOK
    <3>3. ASSUME NEW i \in 1..(n - k)
          PROVE  queueView'[i] = [entry |-> claimed[r + k + i], ready |-> Published(r + k + i - 1)]
      <4>1. Published(readPos + i - 1)' = Published(r + k + i - 1)
        BY <1>2, <3>1 DEF Published
      <4> QED
        BY <1>2, <3>1, <3>2, <4>1
    <3> QED
      BY <3>1, <3>2, <3>3
  <2>9. queueView' = SubSeq(queueView, k + 1, Len(queueView))
    <3> DEFINE s == SubSeq(queueView, k + 1, n)
    <3>1. \A i \in (k + 1)..n : queueView[i] \in Places
      BY <2>4, <2>5, ElementOfSeq
    <3>2. /\ s \in Seq(Places) /\ Len(s) = IF k + 1 <= n THEN n - (k + 1) + 1 ELSE 0
          /\ \A i \in 1..(n - (k + 1) + 1) : s[i] = queueView[k + 1 + i - 1]
      BY <3>1, SubSeqProperties, k + 1 \in Int, n \in Int
    <3> HIDE DEF s
    <3>3. Len(s) = n - k /\ \A i \in 1..(n - k) : s[i] = queueView[k + i]
      BY <2>4, <3>2
    <3>4. ASSUME NEW i \in 1..(n - k) PROVE queueView'[i] = s[i]
      <4>1. k + i \in 1..n /\ r + (k + i) = r + k + i
        BY <2>4
      <4>2. queueView[k + i] = [entry |-> claimed[r + (k + i)], ready |-> Published(r + (k + i) - 1)]
        BY <2>5, <4>1
      <4> QED
        BY <2>8, <3>3, <4>1, <4>2
    <3>5. queueView' = s
      BY <2>8, <3>2, <3>3, <3>4, SeqEqual
    <3> QED
      BY <2>5, <3>5 DEF s
  <2>10. Q!Deliver(k)
    BY <1>2, <1>3, <2>4, <2>5, <2>6, <2>7, <2>9 DEF Q!Deliver
  <2> QED
    BY <2>4, <2>10
<1> QED
  BY <1>4, <1>5

LEMMA RefineStep ==
  ASSUME MapInv, MapInv', [Next]_vars
  PROVE  [Q!QueueNext]_(Q!queueVars)
<1>1. ASSUME NEW p \in Producers, Begin(p) \/ ProducerStep(p)
      PROVE  Q!QueueNext \/ UNCHANGED Q!queueVars
  <2>1. CASE LocalStep(p) \/ StoreEntry(p)
    BY <2>1, RefineLocal DEF Q!QueueNext
  <2>2. CASE Claim(p)
    BY <2>2, RefineClaim DEF Q!QueueNext
  <2>3. CASE Publish(p)
    BY <2>3, RefinePublish DEF Q!QueueNext
  <2> QED
    BY <1>1, <2>1, <2>2, <2>3 DEF ProducerStep, LocalStep
<1>2. CASE Commit
  BY <1>2, RefineCommit DEF Q!QueueNext
<1>3. CASE DrainStart \/ ScanHit \/ ScanStop \/ Take \/ SeeClose \/ UNCHANGED vars
  <2>1. UNCHANGED <<writePos, readPos, seq, claimed, pc, calls, delivered, closed>>
    BY <1>3 DEF DrainStart, ScanHit, ScanStop, Take, SeeClose, vars, shared, producer, history
  <2>2. queueView' = queueView /\ stageView' = stageView
    BY <2>1, QueueStays DEF stageView, Pending
  <2> QED
    BY <2>1, <2>2 DEF Q!queueVars
<1>4. CASE Close
  <2>1. /\ UNCHANGED <<writePos, readPos, seq, claimed, pc, calls, delivered>>
        /\ ~closed /\ closed' = TRUE
    BY <1>4 DEF Close, producer, history
  <2>2. queueView' = queueView /\ stageView' = stageView
    BY <2>1, QueueStays DEF stageView, Pending
  <2> QED
    BY <2>1, <2>2 DEF Q!Close, Q!QueueNext
<1> QED
  BY <1>1, <1>2, <1>3, <1>4 DEF Next, ConsumerStep

(***************************************************************************)
(* tryPush, drainBatch and close make no step that LogQueue does not: a    *)
(* push takes the next place of a queue that is not full, and a batch is   *)
(* the visible front of the queue.                                         *)
(***************************************************************************)
THEOREM RingIsALogQueue == Spec => Q!QueueInit /\ [][Q!QueueNext]_(Q!queueVars)
<1>1. MapInv /\ MapInv' /\ [Next]_vars => [Q!QueueNext]_(Q!queueVars)
  BY RefineStep
<1> QED
  BY <1>1, RefineInit, MappingInvariant, PTL DEF Spec
=============================================================================
