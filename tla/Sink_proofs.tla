----------------------------- MODULE Sink_proofs -----------------------------
(***************************************************************************)
(* Theorems about Sink, for every size of the buffers, of a file and of    *)
(* its header, any number of entries and files, and whichever calls to the *)
(* operating system fail.                                                  *)
(***************************************************************************)
EXTENDS Sink, SequenceTheorems, TLAPS

Numbers == 1..MaxEntries

(***************************************************************************)
(* The inductive invariant.                                                *)
(***************************************************************************)

(* Before the first file is there nothing has been taken; from then on     *)
(* there is a file, unless bufErr ended the writing for good.  A new file  *)
(* is the last one.  Errors that stick are failures.                       *)
Starting == wpc = "none" \/ (wpc = "install" /\ op = "start")
ControlOK ==
  /\ Starting => file = 0 /\ op = "start" /\ taken = 0 /\ ~bufErr
  /\ wpc \in {"chunk", "retire", "fill"} => op # "start"
  /\ ~Starting /\ ~bufErr => file # 0
  /\ wpc \notin {"none", "idle", "signal"} => ~bufErr
  /\ wpc \in {"retire", "install"} /\ fresh # 0 => file < fresh /\ fresh = Len(files)
  /\ InHand <= taken
  /\ midErr \/ bufErr => failed

(* Nothing is written to a file but the current one, the last with entries. *)
LastFile == ~bufErr => \A g \in 1..Len(files) : g > file => files[g] = <<>>

(* WrittenInOrder, buffer by buffer.                                       *)
FilesSorted ==
  /\ \A f \in 1..Len(files) : Ascending(files[f])
  /\ \A f, g \in 1..Len(files) : f < g => Before(Entries(f), Entries(g))
Sorted ==
  /\ FilesSorted /\ Ascending(mid) /\ Ascending(buf)
  /\ Before(InFiles, Range(mid)) /\ Before(InFiles, Range(buf))
  /\ Before(Range(mid), Range(buf))

(* What the files and the buffers hold was taken from the ring, and while  *)
(* nothing failed is all that was.                                         *)
Held == InFiles \cup Range(mid) \cup Range(buf)
HeldOK ==
  /\ Held \cup pendingAck \subseteq 1..(taken - InHand)
  /\ ~failed => Held = 1..(taken - InHand)

(* A flush has emptied the buffers when it gets to the sync.               *)
EmptiedOK ==
  /\ wpc = "flush" => buf = <<>>
  /\ ~failed /\ wpc \in {"sync", "signal"} => mid = <<>> /\ buf = <<>>
  /\ ~failed /\ wpc = "install" => mid = <<>>

(* SizeIsTracked, also before a chunk is written.                          *)
SizeOK ==
  file # 0 /\ wpc \in {"idle", "chunk", "fill", "flush", "sync", "signal"} /\ ~bufErr
    => nbytes = Header + Len(files[file]) + Len(mid)

SinkInv == TypeOK /\ ControlOK /\ LastFile /\ Sorted /\ HeldOK /\ EmptiedOK /\ SizeOK
           /\ AckedIsWritten
-----------------------------------------------------------------------------
(* Sequences of entries.                                                   *)

LEMMA RangeFacts ==
  ASSUME NEW s \in Seq(Numbers)
  PROVE  /\ \A x : x \in Range(s) <=> \E i \in 1..Len(s) : x = s[i]
         /\ Range(s) \subseteq Numbers /\ Len(s) \in Nat
         /\ (Len(s) = 0 <=> s = <<>>) /\ (Range(s) = {} <=> s = <<>>)
<1>1. Len(s) \in Nat /\ DOMAIN s = 1..Len(s) /\ \A i \in 1..Len(s) : s[i] \in Numbers
  BY LenProperties, ElementOfSeq
<1>2. Len(s) = 0 <=> s = <<>>
  BY <1>1, EmptySeq
<1>3. s # <<>> => s[1] \in Range(s)
  BY <1>1, <1>2 DEF Range
<1>4. s = <<>> => Range(s) = {}
  BY <1>1, <1>2 DEF Range
<1> QED
  BY <1>1, <1>2, <1>3, <1>4 DEF Range

LEMMA JoinFacts ==
  ASSUME NEW s \in Seq(Numbers), NEW t \in Seq(Numbers)
  PROVE  /\ s \o t \in Seq(Numbers) /\ Len(s \o t) = Len(s) + Len(t)
         /\ Range(s \o t) = Range(s) \cup Range(t)
         /\ Ascending(s \o t) <=> Ascending(s) /\ Ascending(t) /\ Before(Range(s), Range(t))
<1>1. /\ s \o t \in Seq(Numbers) /\ Len(s \o t) = Len(s) + Len(t)
      /\ \A i \in 1..(Len(s) + Len(t)) :
           (s \o t)[i] = IF i <= Len(s) THEN s[i] ELSE t[i - Len(s)]
      /\ Len(s) \in Nat /\ Len(t) \in Nat
  BY ConcatProperties, LenProperties
<1>2. Range(s \o t) = Range(s) \cup Range(t)
  BY RangeConcatenation
<1>3. /\ \A i \in 1..Len(s) : i \in 1..(Len(s) + Len(t)) /\ (s \o t)[i] = s[i]
      /\ \A i \in 1..Len(t) : Len(s) + i \in 1..(Len(s) + Len(t)) /\ (s \o t)[Len(s) + i] = t[i]
  BY <1>1
<1>4. ASSUME Ascending(s \o t)
      PROVE  Ascending(s) /\ Ascending(t) /\ Before(Range(s), Range(t))
  <2>1. Ascending(s)
    BY <1>1, <1>3, <1>4 DEF Ascending, IsSorted
  <2>2. Ascending(t)
    <3>1. ASSUME NEW i \in 1..Len(t), NEW j \in 1..Len(t), i < j PROVE t[i] < t[j]
      <4>1. Len(s) + i < Len(s) + j
        BY <1>1, <3>1
      <4> QED
        BY ZenonT(30), <1>1, <1>3, <1>4, <4>1 DEF Ascending, IsSorted
    <3> QED
      BY <3>1 DEF Ascending, IsSorted
  <2>3. ASSUME NEW i \in 1..Len(s), NEW j \in 1..Len(t) PROVE s[i] < t[j]
    <3>1. i < Len(s) + j
      BY <1>1
    <3> QED
      BY <1>1, <1>3, <1>4, <3>1 DEF Ascending, IsSorted
  <2>4. Before(Range(s), Range(t))
    BY <2>3, RangeFacts DEF Before
  <2> QED
    BY <2>1, <2>2, <2>4
<1>5. ASSUME Ascending(s), Ascending(t), Before(Range(s), Range(t))
      PROVE  Ascending(s \o t)
  <2>1. ASSUME NEW i \in 1..(Len(s) + Len(t)), NEW j \in 1..(Len(s) + Len(t)), i < j
        PROVE  (s \o t)[i] < (s \o t)[j]
    <3>1. CASE j <= Len(s)
      BY <1>1, <1>5, <2>1, <3>1 DEF Ascending, IsSorted
    <3>2. CASE i <= Len(s) /\ j > Len(s)
      <4>1. s[i] \in Range(s) /\ t[j - Len(s)] \in Range(t)
        BY <1>1, <3>2, RangeFacts
      <4> QED
        BY <1>1, <1>5, <3>2, <4>1 DEF Before
    <3>3. CASE i > Len(s)
      <4>1. i - Len(s) \in 1..Len(t) /\ j - Len(s) \in 1..Len(t) /\ i - Len(s) < j - Len(s)
        BY <1>1, <2>1, <3>3
      <4>2. t[i - Len(s)] < t[j - Len(s)]
        BY <1>1, <1>5, <4>1 DEF Ascending, IsSorted
      <4>3. ~(i <= Len(s)) /\ ~(j <= Len(s))
        BY <1>1, <2>1, <3>3
      <4>4. (s \o t)[i] = t[i - Len(s)] /\ (s \o t)[j] = t[j - Len(s)]
        BY <1>1, <2>1, <4>3
      <4> QED
        BY <4>2, <4>4
    <3> QED
      BY <1>1, <3>1, <3>2, <3>3
  <2> QED
    BY <1>1, <2>1 DEF Ascending, IsSorted
<1> QED
  BY <1>1, <1>2, <1>4, <1>5

LEMMA SplitFacts ==
  ASSUME NEW s \in Seq(Numbers), NEW n \in 0..Len(s)
  PROVE  /\ SubSeq(s, 1, n) \in Seq(Numbers) /\ Rest(s, n) \in Seq(Numbers)
         /\ Len(SubSeq(s, 1, n)) = n /\ Len(Rest(s, n)) = Len(s) - n
         /\ Range(s) = Range(SubSeq(s, 1, n)) \cup Range(Rest(s, n))
         /\ Ascending(s) => /\ Ascending(SubSeq(s, 1, n)) /\ Ascending(Rest(s, n))
                              /\ Before(Range(SubSeq(s, 1, n)), Range(Rest(s, n)))
<1> DEFINE a == SubSeq(s, 1, n)
           b == SubSeq(s, n + 1, Len(s))
<1>1. Len(s) \in Nat /\ n \in Nat /\ n <= Len(s) /\ \A i \in 1..Len(s) : s[i] \in Numbers
  BY LenProperties, ElementOfSeq
<1>2. a \in Seq(Numbers) /\ Len(a) = n /\ \A i \in 1..n : a[i] = s[i]
  <2>1. \A i \in 1..n : s[i] \in Numbers
    BY <1>1
  <2>2. /\ a \in Seq(Numbers) /\ Len(a) = IF 1 <= n THEN n - 1 + 1 ELSE 0
        /\ \A i \in 1..(n - 1 + 1) : a[i] = s[1 + i - 1]
    BY <1>1, <2>1, SubSeqProperties, 1 \in Int, n \in Int
  <2> HIDE DEF a
  <2> QED
    BY <1>1, <2>2
<1>3. b \in Seq(Numbers) /\ Len(b) = Len(s) - n /\ \A i \in 1..(Len(s) - n) : b[i] = s[n + i]
  <2>1. \A i \in (n + 1)..Len(s) : s[i] \in Numbers
    BY <1>1
  <2>2. /\ b \in Seq(Numbers) /\ Len(b) = IF n + 1 <= Len(s) THEN Len(s) - (n + 1) + 1 ELSE 0
        /\ \A i \in 1..(Len(s) - (n + 1) + 1) : b[i] = s[n + 1 + i - 1]
    BY <1>1, <2>1, SubSeqProperties, n + 1 \in Int, Len(s) \in Int
  <2> HIDE DEF b
  <2> QED
    BY <1>1, <2>2
<1> HIDE DEF a, b
<1>4. a \o b = s
  <2>1. /\ a \o b \in Seq(Numbers) /\ Len(a \o b) = Len(a) + Len(b)
        /\ \A i \in 1..(Len(a) + Len(b)) :
             (a \o b)[i] = IF i <= Len(a) THEN a[i] ELSE b[i - Len(a)]
    BY <1>2, <1>3, ConcatProperties
  <2>2. Len(a \o b) = Len(s)
    BY <1>1, <1>2, <1>3, <2>1
  <2>3. ASSUME NEW i \in 1..Len(s) PROVE (a \o b)[i] = s[i]
    <3>1. CASE i <= n
      <4>1. i \in 1..n /\ i <= Len(a) /\ i \in 1..(Len(a) + Len(b))
        BY <1>1, <1>2, <1>3, <3>1
      <4>2. (a \o b)[i] = a[i]
        BY <2>1, <4>1
      <4> QED
        BY <1>2, <4>1, <4>2
    <3>2. CASE ~(i <= n)
      <4>1. /\ i - n \in 1..(Len(s) - n) /\ ~(i <= Len(a)) /\ i \in 1..(Len(a) + Len(b))
            /\ n + (i - n) = i
        BY <1>1, <1>2, <1>3, <3>2
      <4>2. (a \o b)[i] = b[i - n]
        BY <1>2, <2>1, <4>1
      <4>3. b[i - n] = s[n + (i - n)]
        BY <1>3, <4>1
      <4> QED
        BY <4>1, <4>2, <4>3
    <3> QED
      BY <3>1, <3>2
  <2> QED
    BY <2>1, <2>2, <2>3, SeqEqual
<1>5. Range(s) = Range(a) \cup Range(b)
  BY <1>2, <1>3, <1>4, JoinFacts
<1>6. Ascending(s) => Ascending(a) /\ Ascending(b) /\ Before(Range(a), Range(b))
  BY <1>2, <1>3, <1>4, JoinFacts
<1> QED
  BY <1>2, <1>3, <1>5, <1>6 DEF a, b, Rest

-----------------------------------------------------------------------------
(* The files.                                                              *)

LEMMA FileFacts ==
  ASSUME files \in Seq(Seq(Numbers))
  PROVE  /\ Len(files) \in Nat /\ DOMAIN files = 1..Len(files)
         /\ \A f \in 1..Len(files) : files[f] \in Seq(Numbers) /\ Entries(f) \subseteq Numbers
         /\ \A x : x \in InFiles <=> \E f \in 1..Len(files) : x \in Entries(f)
         /\ InFiles \subseteq Numbers
<1>1. Len(files) \in Nat /\ DOMAIN files = 1..Len(files)
  BY LenProperties
<1>2. \A f \in 1..Len(files) : files[f] \in Seq(Numbers)
  BY ElementOfSeq
<1>3. \A f \in 1..Len(files) : Entries(f) \subseteq Numbers
  BY <1>2, RangeFacts DEF Entries
<1>4. \A x : x \in InFiles <=> \E f \in 1..Len(files) : x \in Entries(f)
  BY DEF InFiles
<1> QED
  BY <1>1, <1>2, <1>3, <1>4

LEMMA OrderSplit ==
  ASSUME mid \in Seq(Numbers), buf \in Seq(Numbers)
  PROVE  /\ WrittenInOrder <=> Sorted
         /\ Range(Kept) = Range(mid) \cup Range(buf)
<1>1. /\ Range(Kept) = Range(mid) \cup Range(buf)
      /\ Ascending(Kept) <=> Ascending(mid) /\ Ascending(buf) /\ Before(Range(mid), Range(buf))
  BY JoinFacts DEF Kept
<1>2. Before(InFiles, Range(Kept)) <=> Before(InFiles, Range(mid)) /\ Before(InFiles, Range(buf))
  BY <1>1 DEF Before
<1> QED
  BY <1>1, <1>2 DEF WrittenInOrder, Sorted, FilesSorted

(* A write to the current file.                                            *)
LEMMA WriteOut ==
  ASSUME files \in Seq(Seq(Numbers)), file \in 1..Len(files),
         NEW s \in Seq(Numbers), NEW n \in 0..Len(s),
         Extend(file, s, n),
         \A g \in 1..Len(files) : g > file => files[g] = <<>>,
         FilesSorted, Ascending(s), Before(InFiles, Range(s))
  PROVE  /\ files' \in Seq(Seq(Numbers)) /\ Len(files') = Len(files)
         /\ Len(files'[file]) = Len(files[file]) + n
         /\ \A g \in 1..Len(files) : g > file => files'[g] = <<>>
         /\ FilesSorted'
         /\ InFiles' = InFiles \cup Range(SubSeq(s, 1, n))
         /\ Before(InFiles', Range(Rest(s, n)))
<1> DEFINE a == SubSeq(s, 1, n)
           old == files[file]
<1>1. /\ a \in Seq(Numbers) /\ Len(a) = n /\ Range(s) = Range(a) \cup Range(Rest(s, n))
      /\ Ascending(a) /\ Before(Range(a), Range(Rest(s, n)))
  BY SplitFacts
<1>2. /\ old \in Seq(Numbers) /\ Ascending(old) /\ Len(files) \in Nat
      /\ file \in Nat /\ n \in Nat /\ Len(old) \in Nat
  BY FileFacts, LenProperties DEF FilesSorted
<1>3. /\ files' \in Seq(Seq(Numbers)) /\ Len(files') = Len(files)
      /\ files'[file] = old \o a
      /\ \A g \in 1..Len(files) : g # file => files'[g] = files[g]
  <2>1. old \o a \in Seq(Numbers)
    BY <1>1, <1>2, JoinFacts
  <2>2. files' = [files EXCEPT ![file] = old \o a]
    BY DEF Extend
  <2> HIDE DEF old, a
  <2>3. DOMAIN files = 1..Len(files)
    BY FileFacts
  <2> QED
    BY <2>1, <2>2, <2>3, ExceptSeq
<1> HIDE DEF a
<1>4. Range(old) \subseteq InFiles
  BY FileFacts DEF Entries
<1>5. ASSUME NEW g \in 1..Len(files), g > file
       PROVE  files'[g] = <<>>
  <2>1. g # file
    BY <1>2, <1>5
  <2>2. files'[g] = files[g]
    BY <1>3, <2>1
  <2>3. files[g] = <<>>
    BY <1>5
  <2> QED
    BY <2>2, <2>3
<1>6. Before(Range(old), Range(a)) /\ Before(InFiles, Range(a)) /\ Before(InFiles, Range(Rest(s, n)))
  BY <1>1, <1>4 DEF Before
<1>7. /\ Len(old \o a) = Len(old) + n /\ Range(old \o a) = Range(old) \cup Range(a)
      /\ Ascending(old \o a)
  BY <1>1, <1>2, <1>6, JoinFacts
<1>8. InFiles' = InFiles \cup Range(a)
  <2>1. \A f \in 1..Len(files) :
          Range(files'[f]) = IF f = file THEN Range(files[f]) \cup Range(a) ELSE Range(files[f])
    BY <1>3, <1>7
  <2> QED
    BY <1>3, <2>1 DEF InFiles, Entries
<1>9. \A f \in 1..Len(files) : Ascending(files'[f])
  BY <1>3, <1>7 DEF FilesSorted
<1>10. ASSUME NEW f \in 1..Len(files), NEW g \in 1..Len(files), f < g
      PROVE  Before(Range(files'[f]), Range(files'[g]))
  <2>1. Before(Range(files[f]), Range(files[g]))
    BY <1>10 DEF FilesSorted, Entries
  <2>2. CASE f = file
    <3>1. files'[g] = <<>>
      BY <1>10, <1>5, <2>2
    <3>2. Range(<<>>) = {}
      BY RangeFacts, <<>> \in Seq(Numbers)
    <3> QED
      BY <3>1, <3>2 DEF Before
  <2>3. CASE g = file
    <3>0. f # file
      BY <1>2, <1>10, <2>3
    <3>1. files'[f] = files[f] /\ Range(files'[g]) = Range(files[g]) \cup Range(a)
      BY <1>3, <1>7, <2>3, <3>0
    <3>2. Range(files[f]) \subseteq InFiles
      BY FileFacts DEF Entries
    <3> QED
      BY <1>6, <2>1, <3>1, <3>2 DEF Before
  <2>4. CASE f # file /\ g # file
    BY <1>3, <2>1, <2>4
  <2> QED
    BY <2>2, <2>3, <2>4
<1>11. FilesSorted'
  BY <1>3, <1>9, <1>10 DEF FilesSorted, Entries
<1>12. Before(InFiles', Range(Rest(s, n)))
  BY <1>1, <1>6, <1>8 DEF Before
<1> QED
  BY <1>3, <1>7, <1>8, <1>11, <1>12, <1>5 DEF a

(* What does not touch the files and the buffers.                          *)
LEMMA OrderStays ==
  ASSUME UNCHANGED <<files, mid, buf>>
  PROVE  (Sorted' <=> Sorted) /\ InFiles' = InFiles /\ Held' = Held
<1>1. InFiles' = InFiles
  BY DEF InFiles, Entries
<1>2. FilesSorted' <=> FilesSorted
  BY DEF FilesSorted, Entries
<1> QED
  BY <1>1, <1>2 DEF Sorted, Held

-----------------------------------------------------------------------------
(* Steps that touch neither the files nor the buffers.                     *)

LEMMA InitInv == Init => SinkInv
<1> SUFFICES ASSUME Init PROVE SinkInv
  OBVIOUS
<1> USE SinkAssumption
<1>1. /\ <<>> \in Seq(Numbers) /\ <<>> \in Seq(Seq(Numbers))
      /\ Range(<<>>) = {} /\ Len(<<>>) = 0
  BY RangeFacts, EmptySeq
<1>2. TypeOK
  <2>1. 0 \in 0..MaxTime /\ 0 \in 0..0 /\ 0 \in 0..MaxEntries /\ 0 <= bufferSize /\ 0 <= MaxFiles
    OBVIOUS
  <2>2. /\ clock \in 0..MaxTime /\ madeAt \in 0..MaxTime
        /\ nbytes \in Nat /\ taken \in 0..MaxEntries
    BY <2>1 DEF Init
  <2>3. /\ buf \in Seq(1..MaxEntries) /\ Len(buf) <= bufferSize
        /\ mid \in Seq(1..MaxEntries) /\ Len(mid) <= bufferSize
    BY <1>1, <2>1 DEF Init, Numbers
  <2>4. /\ files \in Seq(Seq(1..MaxEntries)) /\ Len(files) <= MaxFiles
        /\ file \in 0..Len(files) /\ fresh \in 0..Len(files)
    BY <1>1, <2>1 DEF Init, Numbers
  <2> QED
    BY <2>2, <2>3, <2>4 DEF Init, TypeOK
<1>3. 1..Len(files) = {}
  BY <1>1 DEF Init
<1>4. InFiles = {} /\ Held = {}
  BY <1>1, <1>3 DEF Init, InFiles, Held
<1>5. ControlOK /\ LastFile /\ EmptiedOK /\ SizeOK /\ AckedIsWritten
  BY <1>3 DEF Init, ControlOK, Starting, LastFile, EmptiedOK, SizeOK, AckedIsWritten, InHand
<1>6. Sorted
  <2>1. Ascending(<<>>)
    BY <1>1 DEF Ascending, IsSorted
  <2> QED
    BY <1>1, <1>3, <1>4, <2>1 DEF Init, Sorted, FilesSorted, Before
<1>7. HeldOK
  BY <1>4 DEF Init, HeldOK, InHand
<1> QED
  BY <1>2, <1>5, <1>6, <1>7 DEF SinkInv

LEMMA ClockStep == SinkInv /\ (Advance \/ SetLogDir \/ UNCHANGED vars) => SinkInv'
<1> SUFFICES ASSUME SinkInv, Advance \/ SetLogDir \/ UNCHANGED vars PROVE SinkInv'
  OBVIOUS
<1> USE SinkAssumption DEF SinkInv
<1>1. /\ UNCHANGED <<once, buffers, current, disk, wpc, op, fresh, acks, failed>>
      /\ clock' \in 0..MaxTime /\ dirs' \in BOOLEAN
  <2>1. CASE Advance
    BY <2>1 DEF Advance, TypeOK
  <2>2. CASE SetLogDir
    BY <2>2 DEF SetLogDir, TypeOK
  <2>3. CASE UNCHANGED vars
    BY <2>3 DEF vars, world, TypeOK
  <2> QED
    BY <2>1, <2>2, <2>3
<1> USE DEF buffers, current, disk, synced, acks
<1>2. TypeOK'
  BY <1>1 DEF TypeOK
<1>3. ControlOK' /\ LastFile' /\ EmptiedOK' /\ SizeOK' /\ InHand' = InHand
  BY <1>1 DEF ControlOK, Starting, LastFile, EmptiedOK, SizeOK, InHand
<1>4. Sorted' /\ HeldOK' /\ AckedIsWritten'
  BY <1>1, <1>3, OrderStays DEF HeldOK, AckedIsWritten
<1> QED
  BY <1>2, <1>3, <1>4

LEMMA FlushBufStep == SinkInv /\ FlushBuf => SinkInv'
<1> SUFFICES ASSUME SinkInv, FlushBuf PROVE SinkInv'
  OBVIOUS
<1> USE SinkAssumption DEF SinkInv, FlushBuf, world, buffers, current, disk, synced, acks
<1>1. TypeOK'
  BY DEF TypeOK
<1>2. InHand = 0 /\ InHand' = 0
  BY DEF InHand
<1>3. taken \in Nat
  BY DEF TypeOK
<1>4. ControlOK'
  BY <1>2, <1>3 DEF ControlOK, Starting
<1>5. LastFile' /\ SizeOK'
  BY DEF LastFile, SizeOK
<1>6. Sorted' /\ HeldOK' /\ AckedIsWritten'
  BY <1>2, OrderStays DEF HeldOK, AckedIsWritten
<1>7. EmptiedOK'
  BY DEF EmptiedOK, ControlOK
<1> QED
  BY <1>1, <1>4, <1>5, <1>6, <1>7

LEMMA SyncStep == SinkInv /\ Sync => SinkInv'
<1> SUFFICES ASSUME SinkInv, Sync PROVE SinkInv'
  OBVIOUS
<1> USE SinkAssumption DEF SinkInv, Sync, world, buffers, current, acks
<1>1. file \in 1..Len(files)
  <2>1. file # 0
    BY DEF ControlOK, Starting
  <2> QED
    BY <2>1, FileFacts DEF TypeOK, Numbers
<1>2. onDisk' \subseteq 1..MaxEntries
  BY <1>1, FileFacts DEF TypeOK, Numbers
<1>3. TypeOK'
  BY <1>2 DEF TypeOK
<1>4. InHand = 0 /\ InHand' = 0 /\ taken \in Nat
  BY DEF InHand, TypeOK
<1>5. ControlOK'
  BY <1>4 DEF ControlOK, Starting
<1>6. LastFile' /\ SizeOK' /\ EmptiedOK'
  BY DEF LastFile, SizeOK, EmptiedOK
<1>7. Sorted' /\ HeldOK' /\ AckedIsWritten'
  BY <1>4, OrderStays DEF HeldOK, AckedIsWritten
<1> QED
  BY <1>3, <1>5, <1>6, <1>7

LEMMA SignalAcksStep == SinkInv /\ SignalAcks => SinkInv'
<1> SUFFICES ASSUME SinkInv, SignalAcks PROVE SinkInv'
  OBVIOUS
<1> USE SinkAssumption DEF SinkInv, SignalAcks, world, buffers, current, disk, synced
<1>1. TypeOK'
  BY DEF TypeOK
<1>2. InHand = 0 /\ InHand' = 0 /\ taken \in Nat
  BY DEF InHand, TypeOK
<1>3. ControlOK'
  BY <1>2 DEF ControlOK, Starting
<1>4. LastFile' /\ SizeOK' /\ EmptiedOK'
  BY DEF LastFile, SizeOK, EmptiedOK
<1>5. Sorted' /\ HeldOK'
  BY <1>2, OrderStays DEF HeldOK
<1>6. AckedIsWritten'
  <2> SUFFICES ASSUME ~failed PROVE acked \cup pendingAck \subseteq InFiles
    BY OrderStays DEF AckedIsWritten
  <2>1. Range(<<>>) = {}
    BY RangeFacts, <<>> \in Seq(Numbers)
  <2>2. mid = <<>> /\ buf = <<>>
    BY DEF EmptiedOK
  <2>3. Held = InFiles
    BY <2>1, <2>2 DEF Held
  <2> QED
    BY <2>3 DEF HeldOK, AckedIsWritten
<1> QED
  BY <1>1, <1>3, <1>4, <1>5, <1>6

-----------------------------------------------------------------------------
(* FlushMid and Retire: mid is written to the current file.                *)

LEMMA MidOut ==
  ASSUME SinkInv, ~bufErr, file # 0, NEW n \in 0..Len(mid),
         Extend(file, mid, n), mid' = Rest(mid, n), UNCHANGED <<buf, bufErr, file>>
  PROVE  /\ files' \in Seq(Seq(Numbers)) /\ Len(files') = Len(files)
         /\ mid' \in Seq(Numbers) /\ Len(mid') \in Nat /\ Len(mid') <= Len(mid)
         /\ n = Len(mid) => mid' = <<>>
         /\ Len(files'[file]) + Len(mid') = Len(files[file]) + Len(mid)
         /\ LastFile' /\ Sorted'
         /\ InFiles \subseteq InFiles' /\ Held' = Held
<1> USE DEF SinkInv
<1>1. /\ files \in Seq(Seq(Numbers)) /\ mid \in Seq(Numbers) /\ buf \in Seq(Numbers)
      /\ file \in 1..Len(files)
  BY FileFacts DEF TypeOK, Numbers
<1>2. /\ SubSeq(mid, 1, n) \in Seq(Numbers) /\ mid' \in Seq(Numbers)
      /\ Len(mid') = Len(mid) - n
      /\ Range(mid) = Range(SubSeq(mid, 1, n)) \cup Range(mid') /\ Ascending(mid')
  BY <1>1, SplitFacts DEF Sorted
<1>3. \A g \in 1..Len(files) : g > file => files[g] = <<>>
  BY DEF LastFile
<1>4. FilesSorted /\ Ascending(mid) /\ Before(InFiles, Range(mid))
  BY DEF Sorted
<1>5. /\ files' \in Seq(Seq(Numbers)) /\ Len(files') = Len(files)
      /\ Len(files'[file]) = Len(files[file]) + n
      /\ \A g \in 1..Len(files) : g > file => files'[g] = <<>>
      /\ FilesSorted'
      /\ InFiles' = InFiles \cup Range(SubSeq(mid, 1, n))
      /\ Before(InFiles', Range(mid'))
  BY <1>1, <1>3, <1>4, WriteOut
<1>6. LastFile'
  BY <1>5 DEF LastFile
<1>7. Sorted'
  <2>1. Before(InFiles', Range(buf)) /\ Before(Range(mid'), Range(buf))
    BY <1>2, <1>5 DEF Sorted, Before
  <2> QED
    BY <1>2, <1>5, <2>1 DEF Sorted
<1>8. Held' = Held
  BY <1>2, <1>5 DEF Held
<1>9. Len(mid) \in Nat /\ n \in Nat /\ n <= Len(mid) /\ Len(files[file]) \in Nat
  BY <1>1, FileFacts, LenProperties
<1>10. n = Len(mid) => mid' = <<>>
  BY <1>2, <1>9, RangeFacts
<1> QED
  BY <1>2, <1>5, <1>6, <1>7, <1>8, <1>9, <1>10

LEMMA FlushMidStep == SinkInv /\ (\E n \in 0..bufferSize : FlushMid(n)) => SinkInv'
<1> SUFFICES ASSUME SinkInv, NEW n \in 0..bufferSize, FlushMid(n) PROVE SinkInv'
  OBVIOUS
<1> USE SinkAssumption DEF SinkInv, FlushMid, world, current, acks
<1>1. ~bufErr /\ file # 0 /\ Len(mid) \in Nat
  BY LenProperties DEF ControlOK, Starting, TypeOK
<1>2. n \in 0..Len(mid) /\ n <= Len(mid)
  BY <1>1 DEF Written
<1>3. /\ files' \in Seq(Seq(Numbers)) /\ Len(files') = Len(files)
      /\ mid' \in Seq(Numbers) /\ Len(mid') \in Nat /\ Len(mid') <= Len(mid)
      /\ n = Len(mid) => mid' = <<>>
      /\ Len(files'[file]) + Len(mid') = Len(files[file]) + Len(mid)
      /\ LastFile' /\ Sorted'
      /\ InFiles \subseteq InFiles' /\ Held' = Held
  BY <1>1, <1>2, MidOut
<1>4. wpc' \in {"signal", "sync"} /\ midErr' \in BOOLEAN /\ failed' \in BOOLEAN
  BY DEF TypeOK
<1>5. TypeOK'
  <2>1. mid' \in Seq(1..MaxEntries) /\ Len(mid') <= bufferSize
    BY <1>1, <1>3 DEF TypeOK, Numbers
  <2>2. files' \in Seq(Seq(1..MaxEntries)) /\ Len(files') <= MaxFiles
    BY <1>3 DEF TypeOK, Numbers
  <2>3. file' \in 0..Len(files') /\ fresh' \in 0..Len(files')
    BY <1>3 DEF TypeOK
  <2>4. wpc' \in {"none", "idle", "chunk", "retire", "install", "fill", "flush",
                  "sync", "signal"}
    BY <1>4
  <2> QED
    BY <1>4, <2>1, <2>2, <2>3, <2>4 DEF TypeOK, synced
<1>6. InHand = 0 /\ InHand' = 0 /\ taken \in Nat
  BY <1>4 DEF InHand, TypeOK
<1>7. midErr => failed
  BY DEF ControlOK
<1>8. (midErr' => failed') /\ (failed => failed')
  BY <1>7
<1>9. ControlOK'
  BY <1>1, <1>4, <1>6, <1>8 DEF ControlOK, Starting
<1>10. ~failed' => ~failed /\ n = Len(mid)
  <2>1. ~failed' => ~failed /\ ~(n < Len(mid))
    OBVIOUS
  <2>2. ~(n < Len(mid)) => n = Len(mid)
    BY <1>1, <1>2
  <2> QED
    BY <2>1, <2>2
<1>11. EmptiedOK'
  BY <1>3, <1>4, <1>10 DEF EmptiedOK
<1>12. SizeOK'
  <2> SUFFICES ASSUME TRUE PROVE nbytes' = Header + Len(files'[file']) + Len(mid')
    BY DEF SizeOK
  <2>1. nbytes = Header + Len(files[file]) + Len(mid)
    BY <1>1 DEF SizeOK
  <2>2. file \in 1..Len(files)
    BY <1>1, FileFacts DEF TypeOK, Numbers
  <2>3. Len(files[file]) \in Nat /\ Len(files'[file]) \in Nat
    <3>1. files[file] \in Seq(Numbers) /\ files'[file] \in Seq(Numbers)
      BY <1>3, <2>2, ElementOfSeq DEF TypeOK, Numbers
    <3> QED
      BY <3>1, LenProperties
  <2>4. Len(mid) \in Nat /\ Len(mid') \in Nat /\ Header \in Nat
    BY <1>1, <1>3
  <2>5. nbytes' = nbytes /\ file' = file
    OBVIOUS
  <2> HIDE DEF SinkInv, FlushMid
  <2>6. Len(files'[file]) + Len(mid') = Len(files[file]) + Len(mid)
    BY <1>3
  <2> QED
    BY <2>1, <2>3, <2>4, <2>5, <2>6
<1>13. HeldOK' /\ AckedIsWritten'
  BY <1>3, <1>6, <1>8 DEF HeldOK, AckedIsWritten
<1> QED
  BY <1>3, <1>5, <1>9, <1>11, <1>12, <1>13

LEMMA RetireStep == SinkInv /\ (\E n \in 0..bufferSize : Retire(n)) => SinkInv'
<1> SUFFICES ASSUME SinkInv, NEW n \in 0..bufferSize, Retire(n) PROVE SinkInv'
  OBVIOUS
<1> USE SinkAssumption DEF SinkInv, Retire, world, current, acks
<1>1. ~bufErr /\ file # 0 /\ op # "start" /\ Len(mid) \in Nat
  BY LenProperties DEF ControlOK, Starting, TypeOK
<1>2. n \in 0..Len(mid) /\ n <= Len(mid)
  BY <1>1 DEF Written
<1>3. /\ files' \in Seq(Seq(Numbers)) /\ Len(files') = Len(files)
      /\ mid' \in Seq(Numbers) /\ Len(mid') \in Nat /\ Len(mid') <= Len(mid)
      /\ n = Len(mid) => mid' = <<>>
      /\ LastFile' /\ Sorted'
      /\ InFiles \subseteq InFiles' /\ Held' = Held
  BY <1>1, <1>2, MidOut
<1>4. midErr' \in BOOLEAN /\ failed' \in BOOLEAN
  BY DEF TypeOK
<1>5. TypeOK'
  <2>1. mid' \in Seq(1..MaxEntries) /\ Len(mid') <= bufferSize
    BY <1>1, <1>3 DEF TypeOK, Numbers
  <2>2. files' \in Seq(Seq(1..MaxEntries)) /\ Len(files') <= MaxFiles
    BY <1>3 DEF TypeOK, Numbers
  <2>3. file' \in 0..Len(files') /\ fresh' \in 0..Len(files')
    BY <1>3 DEF TypeOK
  <2> QED
    BY <1>4, <2>1, <2>2, <2>3 DEF TypeOK, synced
<1>6. InHand' = InHand
  BY DEF InHand
<1>7. midErr => failed
  BY DEF ControlOK
<1>8. (midErr' => failed') /\ (failed => failed')
  BY <1>7
<1>9. ControlOK'
  BY <1>1, <1>3, <1>6, <1>8 DEF ControlOK, Starting
<1>10. ~failed' => ~failed /\ n = Len(mid)
  <2>1. ~failed' => ~failed /\ ~(n < Len(mid))
    OBVIOUS
  <2>2. ~(n < Len(mid)) => n = Len(mid)
    BY <1>1, <1>2
  <2> QED
    BY <2>1, <2>2
<1>11. EmptiedOK' /\ SizeOK'
  BY <1>3, <1>10 DEF EmptiedOK, SizeOK
<1>12. HeldOK' /\ AckedIsWritten'
  BY <1>3, <1>6, <1>8 DEF HeldOK, AckedIsWritten
<1> QED
  BY <1>3, <1>5, <1>9, <1>11, <1>12

-----------------------------------------------------------------------------
(* Write.                                                                  *)

LEMMA ShortFacts ==
  /\ <<>> \in Seq(Numbers) /\ Len(<<>>) = 0 /\ Range(<<>>) = {} /\ Ascending(<<>>)
  /\ \A x \in Numbers : /\ <<x>> \in Seq(Numbers) /\ Len(<<x>>) = 1
                        /\ Range(<<x>>) = {x} /\ Ascending(<<x>>)
<1>1. <<>> \in Seq(Numbers) /\ Len(<<>>) = 0 /\ Range(<<>>) = {}
  BY RangeFacts, EmptySeq
<1>2. Ascending(<<>>)
  BY <1>1 DEF Ascending, IsSorted
<1>3. ASSUME NEW x \in Numbers
      PROVE  <<x>> \in Seq(Numbers) /\ Len(<<x>>) = 1 /\ Range(<<x>>) = {x} /\ Ascending(<<x>>)
  <2>1. <<x>> \in Seq(Numbers) /\ Len(<<x>>) = 1 /\ <<x>>[1] = x
    OBVIOUS
  <2>2. Range(<<x>>) = {x}
    <3>1. DOMAIN <<x>> = 1..1 /\ \A i \in 1..1 : i = 1
      OBVIOUS
    <3> QED
      BY <2>1, <3>1 DEF Range
  <2>3. \A i, j \in 1..1 : ~(i < j)
    OBVIOUS
  <2>4. Ascending(<<x>>)
    BY <2>1, <2>3 DEF Ascending, IsSorted
  <2> QED
    BY <2>1, <2>2, <2>4
<1> QED
  BY <1>1, <1>2, <1>3

LEMMA AppendFacts ==
  ASSUME NEW s \in Seq(Numbers), NEW x \in Numbers, Ascending(s), Before(Range(s), {x})
  PROVE  /\ Append(s, x) \in Seq(Numbers) /\ Len(Append(s, x)) = Len(s) + 1
         /\ Range(Append(s, x)) = Range(s) \cup {x} /\ Ascending(Append(s, x))
<1>1. Append(s, x) = s \o <<x>>
  BY AppendIsConcat
<1>2. /\ <<x>> \in Seq(Numbers) /\ Len(<<x>>) = 1
      /\ Range(<<x>>) = {x} /\ Ascending(<<x>>)
  BY ShortFacts
<1>3. /\ s \o <<x>> \in Seq(Numbers) /\ Len(s \o <<x>>) = Len(s) + Len(<<x>>)
      /\ Range(s \o <<x>>) = Range(s) \cup Range(<<x>>)
      /\ Ascending(s) /\ Ascending(<<x>>) /\ Before(Range(s), Range(<<x>>))
           => Ascending(s \o <<x>>)
  BY <1>2, JoinFacts
<1> QED
  BY <1>1, <1>2, <1>3

LEMMA WriteStep == SinkInv /\ (\E a \in BOOLEAN : Write(a)) => SinkInv'
<1> SUFFICES ASSUME SinkInv, NEW a \in BOOLEAN, Write(a) PROVE SinkInv'
  OBVIOUS
<1> USE SinkAssumption DEF SinkInv, world, current, disk, synced
<1>1. /\ wpc = "idle" /\ taken < MaxEntries /\ taken' = taken + 1
      /\ UNCHANGED <<world, bufErr, mid, midErr, current, disk, fresh, acked, failed>>
  BY DEF Write
<1>2. /\ taken \in Nat /\ taken' \in Nat /\ taken' \in 0..MaxEntries /\ taken' \in Numbers
      /\ InHand = 0
  BY <1>1 DEF TypeOK, InHand, Numbers
<1>3. Held \cup pendingAck \subseteq 1..taken /\ (~failed => Held = 1..taken)
  BY <1>2 DEF HeldOK
<1>4. InFiles' = InFiles /\ FilesSorted' = FilesSorted
  BY <1>1 DEF InFiles, FilesSorted, Entries
<1>5. CASE ~bufErr /\ Len(buf) < bufferSize
  <2>1. /\ buf' = Append(buf, taken') /\ UNCHANGED <<wpc, op, ack>>
        /\ pendingAck' = IF a THEN pendingAck \union {taken'} ELSE pendingAck
    BY <1>5 DEF Write, Collect
  <2>2. Before(Held, {taken'})
    BY <1>1, <1>2, <1>3 DEF Before
  <2>3. /\ Ascending(buf) /\ Before(Range(buf), {taken'})
        /\ Before(InFiles, {taken'}) /\ Before(Range(mid), {taken'})
    BY <2>2 DEF Sorted, Before, Held
  <2>4. /\ buf' \in Seq(Numbers) /\ Len(buf') = Len(buf) + 1
        /\ Range(buf') = Range(buf) \cup {taken'} /\ Ascending(buf')
    BY <1>2, <2>1, <2>3, AppendFacts DEF TypeOK, Numbers
  <2>5. InHand' = 0
    BY <1>1, <2>1 DEF InHand
  <2>6. TypeOK'
    <3>1. buf' \in Seq(1..MaxEntries) /\ Len(buf') <= bufferSize
      <4>1. Len(buf) \in Nat
        BY LenProperties DEF TypeOK
      <4> QED
        BY <1>5, <2>4, <4>1 DEF Numbers
    <3>2. pendingAck' \subseteq 1..MaxEntries
      BY <1>2, <2>1 DEF TypeOK, Numbers
    <3> QED
      BY <1>1, <1>2, <2>1, <3>1, <3>2 DEF TypeOK
  <2>7. ControlOK' /\ LastFile' /\ EmptiedOK' /\ SizeOK'
    BY <1>1, <1>2, <1>5, <2>1, <2>5 DEF ControlOK, Starting, LastFile, EmptiedOK, SizeOK
  <2>8. Sorted'
    BY <1>1, <1>4, <2>3, <2>4 DEF Sorted, Before
  <2>9. HeldOK' /\ AckedIsWritten'
    <3>1. Held' = Held \cup {taken'}
      BY <1>1, <1>4, <2>4 DEF Held
    <3>2. taken' - InHand' = taken + 1 /\ 1..(taken + 1) = (1..taken) \cup {taken'}
      BY <1>1, <1>2, <2>5
    <3>3. Held' \cup pendingAck' \subseteq (1..taken) \cup {taken'}
      BY <1>3, <2>1, <3>1
    <3> QED
      BY <1>1, <1>3, <1>4, <3>1, <3>2, <3>3 DEF HeldOK, AckedIsWritten
  <2> QED
    BY <2>6, <2>7, <2>8, <2>9
<1>6. CASE ~bufErr /\ Len(buf) = bufferSize
  <2>1. /\ wpc' = "chunk" /\ op' = "write" /\ ack' = a /\ UNCHANGED <<buf, pendingAck>>
    BY <1>6 DEF Write
  <2>2. InHand' = 1
    BY <2>1 DEF InHand
  <2>3. TypeOK'
    BY <1>1, <1>2, <2>1 DEF TypeOK, synced
  <2>4. ControlOK'
    BY <1>1, <1>2, <1>6, <2>1, <2>2 DEF ControlOK, Starting
  <2>5. LastFile' /\ EmptiedOK' /\ SizeOK'
    BY <1>1, <1>6, <2>1 DEF LastFile, EmptiedOK, SizeOK
  <2>6. Sorted' /\ Held' = Held
    BY <1>1, <2>1, OrderStays
  <2>7. taken' - InHand' = taken
    BY <1>1, <1>2, <2>2
  <2>8. HeldOK' /\ AckedIsWritten'
    BY <1>1, <1>3, <1>4, <2>1, <2>6, <2>7 DEF HeldOK, AckedIsWritten
  <2> QED
    BY <2>3, <2>4, <2>5, <2>6, <2>8
<1>7. CASE bufErr
  <2>1. UNCHANGED <<buf, wpc, op, ack, pendingAck>>
    BY <1>7 DEF Write
  <2>2. InHand' = 0
    BY <1>1, <2>1 DEF InHand
  <2>3. failed
    BY <1>7 DEF ControlOK
  <2>4. TypeOK'
    BY <1>1, <1>2, <2>1 DEF TypeOK, synced
  <2>5. ControlOK' /\ LastFile' /\ EmptiedOK' /\ SizeOK'
    BY <1>1, <1>2, <1>7, <2>1, <2>2, <2>3
    DEF ControlOK, Starting, LastFile, EmptiedOK, SizeOK
  <2>6. Sorted' /\ Held' = Held
    BY <1>1, <2>1, OrderStays
  <2>7. 1..taken \subseteq 1..(taken' - InHand')
    BY <1>1, <1>2, <2>2
  <2>8. HeldOK' /\ AckedIsWritten'
    BY <1>1, <1>3, <2>1, <2>3, <2>6, <2>7 DEF HeldOK, AckedIsWritten
  <2> QED
    BY <2>4, <2>5, <2>6, <2>8
<1>8. Len(buf) < bufferSize \/ Len(buf) = bufferSize
  BY LenProperties DEF TypeOK
<1> QED
  BY <1>5, <1>6, <1>7, <1>8

-----------------------------------------------------------------------------
(* Rotation: Create and Install.                                           *)

LEMMA CreateStep == SinkInv /\ Create => SinkInv'
<1> SUFFICES ASSUME SinkInv, Create PROVE SinkInv'
  OBVIOUS
<1> USE SinkAssumption DEF SinkInv
<1>1. /\ wpc = "none" \/ wpc = "chunk"
      /\ once' = TRUE /\ dirs' = (dirs \/ ~once) /\ madeAt' = clock
      /\ wpc' = IF file = 0 THEN "install" ELSE "retire"
      /\ UNCHANGED <<clock, buf, bufErr, mid, midErr, file, nbytes, synced, op,
                     taken, ack, pendingAck, acked, failed>>
  BY DEF Create, buffers, acks
<1>2. \/ /\ files' = files /\ fresh' = 0
      \/ /\ Len(files) < MaxFiles
         /\ files' = Append(files, <<>>) /\ fresh' = Len(files')
  BY DEF Create
<1>3. /\ files \in Seq(Seq(Numbers)) /\ Len(files) \in Nat
      /\ \A f \in 1..Len(files) : files[f] \in Seq(Numbers)
  BY FileFacts DEF TypeOK, Numbers
<1>4. /\ files' \in Seq(Seq(Numbers)) /\ Len(files') \in Nat /\ Len(files') <= MaxFiles
      /\ Len(files) <= Len(files')
      /\ \A f \in 1..Len(files) : files'[f] = files[f]
      /\ \A f \in 1..Len(files') : f \in 1..Len(files) \/ files'[f] = <<>>
      /\ fresh' # 0 => fresh' = Len(files') /\ Len(files) < fresh'
      /\ fresh' \in 0..Len(files')
  <2>1. CASE files' = files /\ fresh' = 0
    BY <1>3, <2>1 DEF TypeOK
  <2>2. CASE /\ Len(files) < MaxFiles
             /\ files' = Append(files, <<>>) /\ fresh' = Len(files')
    <3>1. /\ files' \in Seq(Seq(Numbers)) /\ Len(files') = Len(files) + 1
          /\ \A f \in 1..Len(files) : files'[f] = files[f]
          /\ files'[Len(files) + 1] = <<>>
      BY <1>3, <2>2, ShortFacts, AppendProperties
    <3> QED
      BY <1>3, <2>2, <3>1
  <2> QED
    BY <1>2, <2>1, <2>2
<1>5. /\ \A f \in 1..Len(files') : /\ f \in 1..Len(files) \/ Range(files'[f]) = {}
                                   /\ Ascending(files'[f])
      /\ \A f \in 1..Len(files) : f \in 1..Len(files') /\ files'[f] = files[f]
  <2>1. \A f \in 1..Len(files) : Ascending(files[f])
    BY DEF Sorted, FilesSorted
  <2> QED
    BY <1>3, <1>4, <2>1, ShortFacts
<1>6. InFiles' = InFiles
  BY <1>5 DEF InFiles, Entries
<1>7. FilesSorted'
  <2>1. ASSUME NEW f \in 1..Len(files'), NEW g \in 1..Len(files'), f < g
        PROVE  Before(Range(files'[f]), Range(files'[g]))
    <3>1. CASE f \in 1..Len(files) /\ g \in 1..Len(files)
      BY <1>5, <2>1, <3>1 DEF Sorted, FilesSorted, Entries
    <3>2. CASE Range(files'[f]) = {} \/ Range(files'[g]) = {}
      BY <3>2 DEF Before
    <3> QED
      BY <1>5, <3>1, <3>2
  <2> QED
    BY <1>5, <2>1 DEF FilesSorted, Entries
<1>8. Sorted' /\ Held' = Held
  BY <1>1, <1>6, <1>7 DEF Sorted, Held
<1>9. file \in Nat /\ file <= Len(files)
  BY <1>3 DEF TypeOK
<1>10. TypeOK'
  <2>1. files' \in Seq(Seq(1..MaxEntries)) /\ file' \in 0..Len(files')
    BY <1>1, <1>3, <1>4, <1>9 DEF Numbers
  <2>2. once' \in BOOLEAN /\ dirs' \in BOOLEAN /\ madeAt' \in 0..MaxTime
    BY <1>1 DEF TypeOK
  <2>3. wpc' \in {"none", "idle", "chunk", "retire", "install", "fill", "flush",
                  "sync", "signal"}
    BY <1>1
  <2> QED
    BY <1>1, <1>4, <2>1, <2>2, <2>3 DEF TypeOK, synced
<1>11. \/ wpc = "none" /\ wpc' = "install" /\ op = "start"
       \/ wpc = "chunk" /\ wpc' = "retire" /\ op # "start"
  BY <1>1 DEF ControlOK, Starting
<1>12. InHand' = InHand
  BY <1>1, <1>11 DEF InHand
<1>13. ControlOK'
  <2>1. fresh' # 0 => file < fresh' /\ fresh' = Len(files')
    BY <1>3, <1>4, <1>9
  <2> QED
    BY <1>1, <1>11, <1>12, <2>1 DEF ControlOK, Starting
<1>14. LastFile'
  <2> SUFFICES ASSUME ~bufErr, NEW g \in 1..Len(files'), g > file PROVE files'[g] = <<>>
    BY <1>1 DEF LastFile
  <2> QED
    BY <1>4 DEF LastFile
<1>15. HeldOK' /\ AckedIsWritten'
  BY <1>1, <1>6, <1>8, <1>12 DEF HeldOK, AckedIsWritten
<1>16. EmptiedOK' /\ SizeOK'
  <2>1. ASSUME wpc = "none" PROVE mid = <<>>
    <3>1. taken = 0 /\ InHand = 0
      BY <2>1 DEF ControlOK, Starting, InHand
    <3>2. Range(mid) = {}
      BY <3>1 DEF HeldOK, Held
    <3> QED
      BY <3>2, RangeFacts DEF TypeOK, Numbers
  <2> QED
    BY <1>1, <1>11, <2>1 DEF EmptiedOK, SizeOK
<1> QED
  BY <1>8, <1>10, <1>13, <1>14, <1>15, <1>16

LEMMA InstallStep == SinkInv /\ Install => SinkInv'
<1> SUFFICES ASSUME SinkInv, Install PROVE SinkInv'
  OBVIOUS
<1> USE SinkAssumption DEF SinkInv
<1>1. /\ wpc = "install"
      /\ UNCHANGED <<world, madeAt, files, synced, op, fresh, taken, ack, acked>>
  BY DEF Install, disk, synced
<1>2. /\ buf \in Seq(Numbers) /\ mid \in Seq(Numbers) /\ files \in Seq(Seq(Numbers))
      /\ Len(files) \in Nat /\ fresh \in 0..Len(files) /\ taken \in Nat
  BY FileFacts DEF TypeOK, Numbers
<1>3. ~bufErr /\ (~failed => mid = <<>>)
  BY <1>1 DEF ControlOK, EmptiedOK
<1>4. /\ (mid' = mid /\ midErr' = midErr) \/ (mid' = <<>> /\ midErr' = FALSE)
      /\ nbytes' \in Nat
  <2>1. (mid' = mid /\ midErr' = midErr) \/ (mid' = <<>> /\ midErr' = FALSE)
    BY DEF Install
  <2>2. nbytes' = 0 \/ nbytes' = Header \/ nbytes' \in 0..Header
    BY DEF Install, CountHeader
  <2> QED
    BY <2>1, <2>2
<1>5. Rest(buf, 0) = buf
  BY <1>2, SubSeqFull DEF Rest
<1>6. \/ (* the header is written *)
         /\ fresh # 0 /\ mid' = <<>> /\ file' = fresh /\ nbytes' = Header
         /\ wpc' = IF op = "start" THEN "idle" ELSE "fill"
         /\ UNCHANGED <<buf, bufErr, pendingAck, failed>>
      \/ (* the first file is not made *)
         /\ op = "start" /\ wpc' = "none" /\ file' = 0
         /\ UNCHANGED <<buf, bufErr, pendingAck, failed>>
      \/ (* the rotation fails *)
         /\ op # "start" /\ wpc' = (IF op = "write" THEN "idle" ELSE "signal")
         /\ file' = fresh /\ bufErr' = TRUE /\ failed' = TRUE
         /\ UNCHANGED <<buf, pendingAck>>
  BY <1>5 DEF Install, RotationFailed, ChunkFailed, CountHeader
<1>7. buf' = buf /\ pendingAck' = pendingAck /\ (failed => failed')
  BY <1>6
<1>8. InFiles' = InFiles /\ FilesSorted' = FilesSorted
  BY <1>1 DEF InFiles, FilesSorted, Entries
<1>9. Sorted' /\ Held' \subseteq Held /\ (~failed => Held' = Held)
  BY <1>3, <1>4, <1>7, <1>8, ShortFacts DEF Sorted, Held, Before
<1>10. TypeOK'
  <2>1. file' \in 0..Len(files') /\ fresh' \in 0..Len(files')
    BY <1>1, <1>2, <1>6
  <2>2. mid' \in Seq(1..MaxEntries) /\ Len(mid') <= bufferSize
    <3>1. mid \in Seq(1..MaxEntries) /\ Len(mid) <= bufferSize /\ 0 <= bufferSize
      BY DEF TypeOK
    <3> QED
      BY <1>4, <3>1, ShortFacts DEF Numbers
  <2>3. /\ wpc' \in {"none", "idle", "chunk", "retire", "install", "fill", "flush",
                     "sync", "signal"}
        /\ bufErr' \in BOOLEAN /\ failed' \in BOOLEAN /\ midErr' \in BOOLEAN
    BY <1>4, <1>6 DEF TypeOK
  <2> QED
    BY <1>1, <1>4, <1>7, <2>1, <2>2, <2>3 DEF TypeOK, synced, world
<1>11. InHand' <= InHand /\ InHand \in 0..1 /\ InHand' \in 0..1 /\ (~failed' => InHand' = InHand)
  BY <1>1, <1>6 DEF InHand
<1>12. ControlOK'
  <2>1. midErr' \/ bufErr' => failed'
    BY <1>3, <1>4, <1>6 DEF ControlOK
  <2>2. InHand' <= taken'
    BY <1>1, <1>2, <1>11 DEF ControlOK
  <2> QED
    BY <1>1, <1>3, <1>6, <2>1, <2>2 DEF ControlOK, Starting
<1>13. LastFile'
  <2> SUFFICES ASSUME ~bufErr', NEW g \in 1..Len(files), g > file' PROVE files[g] = <<>>
    BY <1>1 DEF LastFile
  <2>1. CASE file' = fresh /\ fresh # 0
    BY <1>1, <1>2, <2>1 DEF ControlOK
  <2>2. CASE op = "start"
    <3>1. taken = 0 /\ InHand = 0
      BY <1>1, <2>2 DEF ControlOK, Starting, InHand
    <3>2. InFiles = {}
      BY <3>1 DEF HeldOK, Held
    <3>3. Range(files[g]) = {}
      BY <3>2 DEF InFiles, Entries
    <3> QED
      BY <1>2, <3>3, FileFacts, RangeFacts
  <2> QED
    BY <1>6, <2>1, <2>2
<1>14. HeldOK'
  <2>1. 1..(taken - InHand) \subseteq 1..(taken' - InHand')
    <3>1. taken' = taken /\ taken \in Nat /\ InHand \in Nat /\ InHand' \in Nat
      BY <1>1, <1>2, <1>11
    <3>2. \A t \in Nat, h, k \in Nat : k <= h => 1..(t - h) \subseteq 1..(t - k)
      OBVIOUS
    <3> QED
      BY <1>11, <3>1, <3>2
  <2>2. ~failed' => taken' - InHand' = taken - InHand
    BY <1>1, <1>11
  <2> QED
    BY <1>7, <1>9, <2>1, <2>2 DEF HeldOK
<1>15. EmptiedOK'
  BY <1>6 DEF EmptiedOK
<1>16. SizeOK'
  <2> SUFFICES ASSUME file' # 0, ~bufErr'
               PROVE  nbytes' = Header + Len(files'[file']) + Len(mid')
    BY DEF SizeOK
  <2>1. fresh # 0 /\ mid' = <<>> /\ file' = fresh /\ nbytes' = Header
    BY <1>6
  <2>2. fresh \in 1..Len(files) /\ fresh > file
    BY <1>1, <1>2, <2>1 DEF ControlOK
  <2>3. files'[file'] = <<>>
    BY <1>1, <1>3, <2>1, <2>2 DEF LastFile
  <2> QED
    BY <2>1, <2>3, ShortFacts
<1>17. AckedIsWritten'
  BY <1>1, <1>7, <1>8 DEF AckedIsWritten
<1> QED
  BY <1>9, <1>10, <1>12, <1>13, <1>14, <1>15, <1>16, <1>17

-----------------------------------------------------------------------------
(* Fill.                                                                   *)

Filling == wpc = "fill" \/ wpc = "chunk"

LEMMA FillStart ==
  ASSUME SinkInv, Filling
  PROVE  /\ op # "start" /\ ~bufErr /\ file \in 1..Len(files)
         /\ InHand = IF op = "write" THEN 1 ELSE 0
         /\ taken \in Nat /\ InHand <= taken
         /\ nbytes = Header + Len(files[file]) + Len(mid)
<1> USE DEF SinkInv, Filling
<1>1. op # "start" /\ ~bufErr /\ file # 0 /\ InHand <= taken
  BY DEF ControlOK, Starting
<1>2. file \in 1..Len(files) /\ taken \in Nat
  BY <1>1, FileFacts DEF TypeOK, Numbers
<1>3. InHand = IF op = "write" THEN 1 ELSE 0
  BY DEF InHand
<1>4. nbytes = Header + Len(files[file]) + Len(mid)
  BY <1>1 DEF SizeOK
<1> QED
  BY <1>1, <1>2, <1>3, <1>4

LEMMA ChunkTaken ==
  ASSUME SinkInv, Filling, ChunkWritten,
         mid' \in Seq(Numbers), FilesSorted', Ascending(mid'),
         Before(InFiles', Range(mid')), InFiles' \cup Range(mid') = Held,
         UNCHANGED <<taken, op, failed>>
  PROVE  /\ buf' \in Seq(Numbers) /\ Len(buf') <= bufferSize /\ bufErr' = bufErr
         /\ pendingAck' \subseteq Numbers
         /\ wpc' \in {"idle", "flush"} /\ (wpc' = "flush" => buf' = <<>>)
         /\ InHand' = 0 /\ Sorted' /\ HeldOK'
<1> USE SinkAssumption
<1>1. /\ InHand = IF op = "write" THEN 1 ELSE 0
      /\ taken \in Nat /\ taken <= MaxEntries /\ InHand <= taken
  BY FillStart DEF SinkInv, TypeOK
<1>2. wpc' = (IF op = "write" THEN "idle" ELSE "flush") /\ bufErr' = bufErr
  BY DEF ChunkWritten
<1>3. InHand' = 0
  BY <1>2 DEF InHand
<1>4. Held \cup pendingAck \subseteq 1..(taken - InHand) /\ (~failed => Held = 1..(taken - InHand))
  BY DEF SinkInv, HeldOK
<1>5. CASE op = "write"
  <2>1. buf' = <<taken>> /\ pendingAck' \subseteq pendingAck \cup {taken}
    BY <1>5 DEF ChunkWritten
  <2>2. taken \in Numbers /\ taken >= 1 /\ InHand = 1
    BY <1>1, <1>5 DEF Numbers
  <2>3. /\ 1..(taken - InHand) \subseteq Nat /\ \A x \in 1..(taken - InHand) : x < taken
        /\ 1..taken = (1..(taken - InHand)) \cup {taken} /\ 1..taken \subseteq Numbers
    BY <1>1, <2>2 DEF Numbers
  <2>4. buf' \in Seq(Numbers) /\ Len(buf') = 1 /\ Range(buf') = {taken} /\ Ascending(buf')
    BY <2>1, <2>2, ShortFacts
  <2>5. Before(Held, Range(buf'))
    BY <1>4, <2>3, <2>4 DEF Before
  <2>6. Sorted'
    BY <2>4, <2>5 DEF Sorted, Before
  <2>7. Held' = Held \cup {taken}
    BY <2>4 DEF Held
  <2>8. taken' - InHand' = taken
    BY <1>1, <1>3
  <2>9. HeldOK'
    BY <1>4, <2>1, <2>3, <2>7, <2>8 DEF HeldOK
  <2>10. pendingAck' \subseteq Numbers
    BY <1>4, <2>1, <2>2, <2>3
  <2> QED
    BY <1>2, <1>3, <1>5, <2>4, <2>6, <2>9, <2>10
<1>6. CASE op # "write"
  <2>1. buf' = <<>> /\ pendingAck' = pendingAck
    BY <1>6 DEF ChunkWritten
  <2>2. buf' \in Seq(Numbers) /\ Len(buf') = 0 /\ Range(buf') = {} /\ Ascending(buf')
    BY <2>1, ShortFacts
  <2>3. Sorted'
    BY <2>2 DEF Sorted, Before
  <2>4. Held' = Held
    BY <2>2 DEF Held
  <2>5. taken' - InHand' = taken /\ taken - InHand = taken
    BY <1>1, <1>3, <1>6
  <2>6. HeldOK'
    BY <1>4, <2>1, <2>4, <2>5 DEF HeldOK
  <2>7. pendingAck' \subseteq Numbers
    BY <2>1 DEF SinkInv, TypeOK, Numbers
  <2> QED
    BY <1>2, <1>3, <2>1, <2>2, <2>3, <2>6, <2>7
<1> QED
  BY <1>5, <1>6

(* A chunk that failed: the buffer keeps its rest and everything stops.    *)
LEMMA ChunkKept ==
  ASSUME SinkInv, Filling, NEW n \in 0..Len(buf), ChunkFailed(n),
         failed' = TRUE, UNCHANGED <<file, op, taken>>, Held' \subseteq Held
  PROVE  /\ buf' \in Seq(Numbers) /\ Len(buf') <= bufferSize /\ pendingAck' = pendingAck
         /\ wpc' \in {"idle", "signal"} /\ bufErr' = TRUE
         /\ ControlOK' /\ LastFile' /\ HeldOK' /\ EmptiedOK' /\ SizeOK' /\ AckedIsWritten'
<1>1. /\ buf' = Rest(buf, n) /\ bufErr' = TRUE /\ pendingAck' = pendingAck
      /\ wpc' = IF op = "write" THEN "idle" ELSE "signal"
  BY DEF ChunkFailed
<1>2. /\ op # "start" /\ InHand \in 0..1 /\ taken \in Nat
  BY FillStart
<1>3. InHand' = 0
  BY <1>1 DEF InHand
<1>4. buf' \in Seq(Numbers) /\ Len(buf') <= bufferSize
  <2>1. /\ buf \in Seq(Numbers) /\ Len(buf) \in Nat /\ Len(buf) <= bufferSize
        /\ bufferSize \in Nat
    BY LenProperties, SinkAssumption DEF SinkInv, TypeOK, Numbers
  <2>2. Rest(buf, n) \in Seq(Numbers) /\ Len(Rest(buf, n)) = Len(buf) - n
    BY <2>1, SplitFacts
  <2> QED
    BY <1>1, <2>1, <2>2
<1>5. ControlOK'
  BY <1>1, <1>2, <1>3 DEF ControlOK, Starting
<1>6. LastFile' /\ EmptiedOK' /\ SizeOK' /\ AckedIsWritten'
  BY <1>1 DEF LastFile, EmptiedOK, SizeOK, AckedIsWritten
<1>7. HeldOK'
  <2>1. Held \cup pendingAck \subseteq 1..(taken - InHand)
    BY DEF SinkInv, HeldOK
  <2>2. taken' - InHand' = taken /\ 1..(taken - InHand) \subseteq 1..taken
    BY <1>2, <1>3
  <2> QED
    BY <1>1, <2>1, <2>2 DEF HeldOK
<1> QED
  BY <1>1, <1>4, <1>5, <1>6, <1>7

LEMMA ChunkTakenInv ==
  ASSUME SinkInv, Filling, ChunkWritten,
         files' \in Seq(Seq(Numbers)), Len(files') = Len(files), LastFile',
         mid' \in Seq(Numbers), Len(mid') <= bufferSize, nbytes' \in Nat,
         nbytes' = Header + Len(files'[file]) + Len(mid'),
         FilesSorted', Ascending(mid'),
         Before(InFiles', Range(mid')), InFiles' \cup Range(mid') = Held, InFiles \subseteq InFiles',
         UNCHANGED <<world, file, madeAt, synced, op, fresh, taken, ack, acked, midErr, failed>>
  PROVE  SinkInv'
<1>1. /\ buf' \in Seq(Numbers) /\ Len(buf') <= bufferSize /\ bufErr' = bufErr
      /\ pendingAck' \subseteq Numbers
      /\ wpc' \in {"idle", "flush"} /\ (wpc' = "flush" => buf' = <<>>)
      /\ InHand' = 0 /\ Sorted' /\ HeldOK'
  BY ChunkTaken
<1>2. /\ op # "start" /\ ~bufErr /\ file \in 1..Len(files) /\ taken \in Nat
  BY FillStart
<1> USE DEF SinkInv
<1>3. TypeOK'
  <2>1. /\ file' \in 0..Len(files') /\ fresh' \in 0..Len(files')
        /\ Len(files') <= MaxFiles
    BY DEF TypeOK
  <2>2. wpc' \in {"none", "idle", "chunk", "retire", "install", "fill", "flush",
                  "sync", "signal"}
    BY <1>1
  <2> QED
    BY <1>1, <2>1, <2>2 DEF TypeOK, synced, Numbers, world
<1>4. ControlOK'
  <2>1. file' # 0 /\ midErr' = midErr /\ failed' = failed /\ InHand' <= taken'
    BY <1>1, <1>2
  <2> QED
    BY <1>1, <1>2, <2>1 DEF ControlOK, Starting
<1>5. EmptiedOK' /\ SizeOK' /\ AckedIsWritten'
  BY <1>1 DEF EmptiedOK, SizeOK, AckedIsWritten
<1> QED
  BY <1>1, <1>3, <1>4, <1>5

LEMMA ChunkKeptInv ==
  ASSUME SinkInv, Filling, NEW n \in 0..Len(buf), ChunkFailed(n),
         files' \in Seq(Seq(Numbers)), Len(files') = Len(files),
         mid' \in Seq(Numbers), Len(mid') <= bufferSize, nbytes' \in Nat,
         Held' \subseteq Held, Sorted', midErr' \in BOOLEAN, failed' = TRUE,
         UNCHANGED <<world, file, madeAt, synced, op, fresh, taken, ack, acked>>
  PROVE  SinkInv'
<1>1. /\ buf' \in Seq(Numbers) /\ Len(buf') <= bufferSize /\ pendingAck' = pendingAck
      /\ wpc' \in {"idle", "signal"} /\ bufErr' = TRUE
      /\ ControlOK' /\ LastFile' /\ HeldOK' /\ EmptiedOK' /\ SizeOK' /\ AckedIsWritten'
  BY ChunkKept
<1> USE DEF SinkInv
<1>2. TypeOK'
  <2>1. /\ file' \in 0..Len(files') /\ fresh' \in 0..Len(files')
        /\ Len(files') <= MaxFiles
    BY DEF TypeOK
  <2>2. wpc' \in {"none", "idle", "chunk", "retire", "install", "fill", "flush",
                  "sync", "signal"}
    BY <1>1
  <2> QED
    BY <1>1, <2>1, <2>2 DEF TypeOK, synced, Numbers, world
<1> QED
  BY <1>1, <1>2

LEMMA FillStep == SinkInv /\ Fill => SinkInv'
<1> SUFFICES ASSUME SinkInv, Fill PROVE SinkInv'
  OBVIOUS
<1> USE SinkAssumption
<1>1. /\ Filling
      /\ UNCHANGED <<world, file, madeAt, synced, op, fresh, taken, ack, acked>>
  BY DEF Fill, Filling
<1>2. /\ mid \in Seq(Numbers) /\ buf \in Seq(Numbers) /\ files \in Seq(Seq(Numbers))
      /\ Len(mid) \in Nat /\ Len(buf) \in Nat /\ Len(files) \in Nat
      /\ Len(mid) <= bufferSize /\ Len(buf) <= bufferSize /\ nbytes \in Nat
      /\ midErr \in BOOLEAN /\ failed \in BOOLEAN
  BY LenProperties DEF SinkInv, TypeOK, Numbers
<1>3. /\ ~bufErr /\ file \in 1..Len(files)
      /\ nbytes = Header + Len(files[file]) + Len(mid) /\ Len(files[file]) \in Nat
  BY <1>1, <1>2, FillStart, FileFacts, LenProperties
<1>4. /\ FilesSorted /\ Ascending(mid) /\ Ascending(buf)
      /\ Before(InFiles, Range(mid)) /\ Before(InFiles, Range(buf))
      /\ Before(Range(mid), Range(buf))
  BY DEF SinkInv, Sorted
<1>5. \A g \in 1..Len(files) : g > file => files[g] = <<>>
  BY <1>3 DEF SinkInv, LastFile
<1>6. Held = InFiles \cup Range(mid) \cup Range(buf)
  BY DEF Held
<1>7. CASE midErr
  <2>1. ChunkFailed(0) /\ UNCHANGED <<files, mid, midErr, nbytes, failed>>
    BY <1>7 DEF Fill
  <2>2. failed' = TRUE
    BY <1>2, <1>7, <2>1 DEF SinkInv, ControlOK
  <2>3. buf' = buf
    BY <1>2, <2>1, SubSeqFull DEF ChunkFailed, Rest
  <2>4. Sorted' /\ Held' = Held
    BY <2>1, <2>3, OrderStays DEF SinkInv
  <2> QED
    BY <1>1, <1>2, <2>1, <2>2, <2>4, ChunkKeptInv
<1>8. CASE ~midErr /\ Len(buf) <= Room
  <2>1. /\ mid' = mid \o buf /\ nbytes' = nbytes + Len(buf) /\ ChunkWritten
        /\ UNCHANGED <<files, midErr, failed>>
    BY <1>2, <1>8 DEF Fill, Room
  <2>2. /\ mid' \in Seq(Numbers) /\ Len(mid') = Len(mid) + Len(buf)
        /\ Range(mid') = Range(mid) \cup Range(buf) /\ Ascending(mid')
    BY <1>2, <1>4, <2>1, JoinFacts
  <2>3. Len(mid') <= bufferSize
    BY <1>2, <1>8, <2>2 DEF Room
  <2>4. InFiles' = InFiles /\ FilesSorted' /\ LastFile'
    BY <1>1, <1>4, <1>5, <2>1 DEF InFiles, Entries, FilesSorted, LastFile
  <2>5. Before(InFiles', Range(mid')) /\ InFiles' \cup Range(mid') = Held
    BY <1>4, <1>6, <2>2, <2>4 DEF Before
  <2>6. nbytes' = Header + Len(files'[file]) + Len(mid') /\ nbytes' \in Nat
    <3>1. Len(files'[file]) = Len(files[file])
      BY <2>1
    <3>2. nbytes' = Header + Len(files[file]) + Len(mid) + Len(buf)
      BY <1>3, <2>1
    <3>3. Header \in Nat /\ Len(files[file]) \in Nat /\ Len(mid) \in Nat /\ Len(buf) \in Nat
      BY <1>2, <1>3
    <3>4. PICK f \in Nat, m \in Nat, b \in Nat :
             f = Len(files[file]) /\ m = Len(mid) /\ b = Len(buf)
      BY <3>3
    <3>5. nbytes' = Header + f + m + b
      BY <3>2, <3>4
    <3>6. Len(mid') = m + b
      BY <2>2, <3>4
    <3>7. Len(files'[file]) = f
      BY <3>1, <3>4
    <3>8. Header + f + m + b = Header + f + (m + b) /\ Header + f + m + b \in Nat
      BY <3>3
    <3> QED
      BY <3>5, <3>6, <3>7, <3>8
  <2> QED
    BY <1>1, <1>2, <2>1, <2>2, <2>3, <2>4, <2>5, <2>6, ChunkTakenInv
<1>9. CASE ~midErr /\ Len(buf) > Room
  <2> DEFINE head == SubSeq(buf, 1, Room)
             tail == Rest(buf, Room)
             over == mid \o head
  <2>1. PICK n \in Written(Overflow) :
          /\ Extend(file, Overflow, n)
          /\ IF n = bufferSize
             THEN /\ mid' = tail /\ nbytes' = nbytes + Len(buf)
                  /\ ChunkWritten /\ UNCHANGED <<midErr, failed>>
             ELSE /\ mid' = Rest(Overflow, n) /\ nbytes' = nbytes + Room
                  /\ ChunkFailed(Room) /\ midErr' = TRUE /\ failed' = TRUE
    BY <1>2, <1>9 DEF Fill, Room
  <2>2. /\ Room \in 0..Len(buf) /\ Room \in Nat /\ Room + Len(mid) = bufferSize
    BY <1>2, <1>9 DEF Room
  <2>3. /\ head \in Seq(Numbers) /\ tail \in Seq(Numbers) /\ Len(head) = Room
        /\ Len(tail) = Len(buf) - Room /\ Range(buf) = Range(head) \cup Range(tail)
        /\ Ascending(head) /\ Ascending(tail) /\ Before(Range(head), Range(tail))
    BY <1>2, <1>4, <2>2, SplitFacts
  <2>4. Before(Range(mid), Range(head)) /\ Before(InFiles, Range(head))
    BY <1>4, <2>3 DEF Before
  <2>5. /\ over \in Seq(Numbers) /\ Len(over) = bufferSize
        /\ Range(over) = Range(mid) \cup Range(head) /\ Ascending(over)
    <3>1. /\ over \in Seq(Numbers) /\ Len(over) = Len(mid) + Len(head)
          /\ Range(over) = Range(mid) \cup Range(head) /\ Ascending(over)
      BY <1>2, <1>4, <2>3, <2>4, JoinFacts
    <3> QED
      BY <1>2, <2>2, <2>3, <3>1
  <2> HIDE DEF head, tail, over
  <2>6. Overflow = over
    BY DEF Overflow, over, head
  <2>7. n \in 0..Len(over) /\ n \in Nat /\ n <= bufferSize
    BY <2>1, <2>5, <2>6 DEF Written
  <2>8. Before(InFiles, Range(over))
    BY <1>4, <2>4, <2>5 DEF Before
  <2>9. /\ files' \in Seq(Seq(Numbers)) /\ Len(files') = Len(files)
        /\ Len(files'[file]) = Len(files[file]) + n
        /\ \A g \in 1..Len(files) : g > file => files'[g] = <<>>
        /\ FilesSorted'
        /\ InFiles' = InFiles \cup Range(SubSeq(over, 1, n))
        /\ Before(InFiles', Range(Rest(over, n)))
    BY <1>2, <1>3, <1>4, <1>5, <2>1, <2>5, <2>6, <2>7, <2>8, WriteOut
  <2>10. /\ Rest(over, n) \in Seq(Numbers) /\ Len(Rest(over, n)) = bufferSize - n
         /\ Range(over) = Range(SubSeq(over, 1, n)) \cup Range(Rest(over, n))
         /\ Ascending(Rest(over, n))
    BY <2>5, <2>7, SplitFacts
  <2>11. Before(InFiles', Range(tail)) /\ Before(Range(Rest(over, n)), Range(tail))
    BY <1>4, <2>3, <2>5, <2>9, <2>10 DEF Before
  <2>12. Len(tail) <= bufferSize /\ Len(Rest(over, n)) <= bufferSize
    BY <1>2, <2>2, <2>3, <2>7, <2>10
  <2>13. CASE n = bufferSize
    <3>1. /\ mid' = tail /\ nbytes' = nbytes + Len(buf)
          /\ ChunkWritten /\ UNCHANGED <<midErr, failed>>
      BY <2>1, <2>13
    <3>2. Range(Rest(over, n)) = {}
      <4>1. Len(Rest(over, n)) = 0
        BY <2>10, <2>13
      <4> QED
        BY <2>10, <4>1, RangeFacts
    <3>3. InFiles' \cup Range(mid') = Held
      BY <1>6, <2>3, <2>5, <2>9, <2>10, <3>1, <3>2
    <3>4. LastFile' /\ InFiles \subseteq InFiles'
      BY <1>1, <2>9 DEF LastFile
    <3>5. nbytes' = Header + Len(files'[file]) + Len(mid') /\ nbytes' \in Nat
      <4>1. nbytes' = Header + Len(files[file]) + Len(mid) + Len(buf)
        BY <1>3, <3>1
      <4>2. Len(files'[file]) = Len(files[file]) + bufferSize
        BY <2>9, <2>13
      <4>3. Len(mid') = Len(buf) - Room
        BY <2>3, <3>1
      <4>4. /\ Header \in Nat /\ Len(files[file]) \in Nat /\ Len(mid) \in Nat
            /\ Len(buf) \in Nat /\ Room \in Nat /\ Room + Len(mid) = bufferSize
        BY <1>2, <1>3, <2>2
      <4>5. PICK f \in Nat, m \in Nat, b \in Nat, r \in Nat :
               f = Len(files[file]) /\ m = Len(mid) /\ b = Len(buf) /\ r = Room
        BY <4>4
      <4>6. nbytes' = Header + f + m + b
        BY <4>1, <4>5
      <4>7. Len(mid') = b - r
        BY <4>3, <4>5
      <4>8. Len(files'[file]) = f + (r + m)
        BY <4>2, <4>4, <4>5
      <4>9. /\ Header + f + m + b = Header + (f + (r + m)) + (b - r)
            /\ Header + f + m + b \in Nat
        BY <4>4
      <4> QED
        BY <4>6, <4>7, <4>8, <4>9
    <3> QED
      BY <1>1, <2>3, <2>9, <2>11, <2>12, <3>1, <3>3, <3>4, <3>5, ChunkTakenInv
  <2>14. CASE n # bufferSize
    <3>1. /\ mid' = Rest(over, n) /\ nbytes' = nbytes + Room
          /\ ChunkFailed(Room) /\ midErr' = TRUE /\ failed' = TRUE
      BY <2>1, <2>6, <2>14
    <3>2. buf' = tail
      BY <3>1 DEF ChunkFailed, tail
    <3>3. Sorted'
      BY <2>3, <2>9, <2>10, <2>11, <3>1, <3>2 DEF Sorted
    <3>4. Held' = Held
      BY <1>6, <2>3, <2>5, <2>9, <2>10, <3>1, <3>2 DEF Held
    <3>5. nbytes' \in Nat
      BY <1>2, <2>2, <3>1
    <3> QED
      BY <1>1, <2>2, <2>9, <2>10, <2>12, <3>1, <3>3, <3>4, <3>5, ChunkKeptInv
  <2> QED
    BY <2>13, <2>14
<1> QED
  <2>1. Len(buf) <= Room \/ Len(buf) > Room
    BY <1>2 DEF Room
  <2> QED
    BY <1>7, <1>8, <1>9, <2>1
-----------------------------------------------------------------------------
LEMMA StepInv == SinkInv /\ [Next]_vars => SinkInv'
<1> SUFFICES ASSUME SinkInv, [Next]_vars PROVE SinkInv'
  OBVIOUS
<1>1. CASE Advance \/ SetLogDir \/ UNCHANGED vars
  BY <1>1, ClockStep
<1>2. CASE \E a \in BOOLEAN : Write(a)
  BY <1>2, WriteStep
<1>3. CASE FlushBuf
  BY <1>3, FlushBufStep
<1>4. CASE Sync
  BY <1>4, SyncStep
<1>5. CASE SignalAcks
  BY <1>5, SignalAcksStep
<1>6. CASE Fill
  BY <1>6, FillStep
<1>7. CASE Create
  BY <1>7, CreateStep
<1>8. CASE Install
  BY <1>8, InstallStep
<1>9. CASE \E n \in 0..bufferSize : FlushMid(n) \/ Retire(n)
  BY <1>9, FlushMidStep, RetireStep
<1> QED
  BY <1>1, <1>2, <1>3, <1>4, <1>5, <1>6, <1>7, <1>8, <1>9 DEF Next

-----------------------------------------------------------------------------
(* What has been synced when the acks are signalled.                       *)

(* AckedIsSynced, and the same of the acks that are about to be signalled. *)
SyncedOK ==
  ~failed /\ ~syncFailed =>
    /\ acked \subseteq onDisk \cup Retired
    /\ wpc = "signal" => pendingAck \subseteq onDisk \cup Retired

(* A file that is not the current one any more is not written to.          *)
LEMMA RetiredFilesStay ==
  ASSUME SinkInv, [Next]_vars
  PROVE  \A g \in 1..(file - 1) : files'[g] = files[g]
<1>1. \/ files' = files
      \/ files' = Append(files, <<>>)
      \/ \E s, n : Extend(file, s, n)
  BY DEF Next, vars, world, buffers, current, disk, synced, acks, Advance, SetLogDir, Write,
         FlushBuf, FlushMid, Sync, SignalAcks, Fill, Create, Retire, Install
<1>2. /\ files \in Seq(Seq(Numbers)) /\ DOMAIN files = 1..Len(files) /\ Len(files) \in Nat
      /\ file \in 0..Len(files)
  BY FileFacts DEF SinkInv, TypeOK, Numbers
<1>3. \A g \in 1..(file - 1) : g \in 1..Len(files) /\ g # file
  BY <1>2
<1>4. CASE files' = Append(files, <<>>)
  BY <1>2, <1>3, <1>4, ShortFacts, AppendProperties
<1>5. CASE \E s, n : Extend(file, s, n)
  BY <1>2, <1>3, <1>5 DEF Extend
<1> QED
  BY <1>1, <1>4, <1>5

(* While nothing fails, what is synced or retired stays so.                *)
LEMMA SyncedGrows ==
  ASSUME SinkInv, [Next]_vars, ~failed', ~syncFailed'
  PROVE  /\ ~failed /\ ~syncFailed
         /\ onDisk \subseteq onDisk' /\ Retired \subseteq Retired'
<1>1. ~failed
  BY DEF Next, vars, world, buffers, current, disk, synced, acks, Advance, SetLogDir, Write,
         FlushBuf, FlushMid, Sync, SignalAcks, Fill, Create, Retire, Install, RotationFailed
<1>2. ~syncFailed /\ onDisk \subseteq onDisk'
  <2>1. CASE Sync
    BY <2>1 DEF Sync
  <2>2. CASE ~Sync
    <3>1. UNCHANGED synced
      BY <2>2 DEF Next, vars, world, buffers, current, disk, acks, Advance, SetLogDir, Write,
                  FlushBuf, FlushMid, SignalAcks, Fill, Create, Retire, Install
    <3> QED
      BY <3>1 DEF synced
  <2> QED
    BY <2>1, <2>2
<1>3. file' = file \/ file = 0 \/ file < file'
  <2>1. CASE Install
    <3>1. RotationFailed => file = 0
      BY <2>1 DEF RotationFailed, Install, SinkInv, ControlOK, Starting
    <3> QED
      BY <2>1, <3>1 DEF Install, SinkInv, ControlOK
  <2>2. CASE ~Install
    BY <2>2 DEF Next, vars, world, buffers, current, disk, synced, acks, Advance, SetLogDir,
                Write, FlushBuf, FlushMid, Sync, SignalAcks, Fill, Create, Retire
  <2> QED
    BY <2>1, <2>2
<1>4. /\ file \in Nat /\ file' \in Nat
  BY StepInv, FileFacts DEF SinkInv, TypeOK
<1>5. ASSUME NEW g \in 1..(file - 1)
      PROVE  g \in 1..(file' - 1) /\ Entries(g)' = Entries(g)
  <2>1. g \in 1..(file' - 1)
    <3>1. PICK m \in Nat, n \in Nat : m = file /\ n = file'
      BY <1>4
    <3>2. g \in 1..(m - 1) /\ (n = m \/ m = 0 \/ m < n)
      BY <1>3, <3>1
    <3>3. g \in 1..(n - 1)
      BY <3>2
    <3> QED
      BY <3>1, <3>3
  <2>2. files'[g] = files[g]
    BY RetiredFilesStay
  <2> QED
    BY <2>1, <2>2 DEF Entries
<1> QED
  BY <1>1, <1>2, <1>5 DEF Retired

LEMMA SyncedStep ==
  ASSUME SinkInv, SyncedOK, [Next]_vars
  PROVE  SyncedOK'
<1> DEFINE Safe == onDisk \cup Retired
<1> SUFFICES ASSUME ~failed', ~syncFailed'
             PROVE  acked' \subseteq Safe' /\ (wpc' = "signal" => pendingAck' \subseteq Safe')
  BY DEF SyncedOK
<1>1. /\ ~failed /\ ~syncFailed /\ Safe \subseteq Safe'
      /\ acked \subseteq Safe /\ (wpc = "signal" => pendingAck \subseteq Safe)
  BY SyncedGrows DEF SyncedOK
<1>2. CASE SignalAcks
  BY <1>1, <1>2 DEF SignalAcks
<1>3. CASE Sync
  <2>1. InFiles \subseteq Retired \cup Entries(file)
    <3>1. /\ files \in Seq(Seq(Numbers)) /\ Len(files) \in Nat /\ file \in 0..Len(files)
          /\ ~bufErr
      BY <1>3, FileFacts DEF SinkInv, TypeOK, Numbers, ControlOK, Sync
    <3>2. \A g \in 1..Len(files) : g > file => Entries(g) = {}
      BY <3>1, ShortFacts DEF SinkInv, LastFile, Entries
    <3>3. \A g \in 1..Len(files) : g \in 1..(file - 1) \/ g = file \/ g > file
      BY <3>1
    <3> QED
      BY <3>2, <3>3 DEF InFiles, Retired
  <2>2. pendingAck \subseteq InFiles
    <3>1. mid = <<>> /\ buf = <<>> /\ Range(<<>>) = {}
      BY <1>1, <1>3, ShortFacts DEF SinkInv, EmptiedOK, Sync
    <3> QED
      BY <1>1, <3>1 DEF SinkInv, HeldOK, Held
  <2>3. /\ onDisk' = onDisk \cup Entries(file)
        /\ acked' = acked /\ pendingAck' = pendingAck /\ files' = files /\ file' = file
    BY <1>3 DEF Sync, acks, current
  <2>4. Retired' = Retired
    BY <2>3 DEF Retired, Entries
  <2> QED
    BY <1>1, <2>1, <2>2, <2>3, <2>4
<1>4. CASE ~SignalAcks /\ ~Sync
  <2>1. ~midErr' /\ ~bufErr'
    BY StepInv DEF SinkInv, ControlOK
  <2>2. acked' = acked
    BY <1>4 DEF Next, vars, world, buffers, current, disk, synced, acks, Advance, SetLogDir,
                Write, FlushBuf, FlushMid, Fill, Create, Retire, Install
  <2>3. wpc' = "signal" => wpc = "signal" /\ pendingAck' = pendingAck
    <3>1. CASE FlushBuf \/ Fill \/ Install
      BY <2>1, <3>1 DEF FlushBuf, Fill, Install, RotationFailed, ChunkWritten, ChunkFailed, buffers
    <3>2. CASE ~(FlushBuf \/ Fill \/ Install)
      BY <1>4, <2>1, <3>2 DEF Next, vars, world, buffers, current, disk, synced, acks, Advance,
                SetLogDir, Write, FlushMid, Create, Retire, Collect
    <3> QED
      BY <3>1, <3>2
  <2> QED
    BY <1>1, <2>2, <2>3
<1> QED
  BY <1>2, <1>3, <1>4
-----------------------------------------------------------------------------
(* The theorems.                                                           *)

(* However writes, syncs and creations of files fail, and whenever files   *)
(* are rotated, SinkInv holds.                                             *)
THEOREM SinkInvariant == Spec => []SinkInv
<1> QED
  BY InitInv, StepInv, PTL DEF Spec

(* No entry is written to a file twice or before an earlier one, in one    *)
(* file or across a rotation.                                              *)
THEOREM FilesAreInOrder == Spec => []WrittenInOrder
<1>1. SinkInv => WrittenInOrder
  BY OrderSplit DEF SinkInv, TypeOK, Numbers
<1> QED
  BY SinkInvariant, <1>1, PTL

(* While no write came up short and no rotation failed, the files and the  *)
(* buffers hold every entry that the ring gave out.                        *)
THEOREM NothingIsLost == Spec => []NothingLost
<1>1. SinkInv => NothingLost
  <2> SUFFICES ASSUME SinkInv PROVE NothingLost
    OBVIOUS
  <2>1. Range(Kept) = Range(mid) \cup Range(buf)
    BY OrderSplit DEF SinkInv, TypeOK, Numbers
  <2>2. ~failed => InFiles \cup Range(mid) \cup Range(buf) = 1..(taken - InHand)
    BY DEF SinkInv, HeldOK, Held
  <2> QED
    BY <2>1, <2>2 DEF NothingLost
<1> QED
  BY SinkInvariant, <1>1, PTL

(* The size that decides on rotation is that of the file and of what waits *)
(* in its buffer.                                                          *)
THEOREM SizeIsRight == Spec => []SizeIsTracked
<1>1. SinkInv => SizeIsTracked
  BY DEF SinkInv, SizeOK, SizeIsTracked
<1> QED
  BY SinkInvariant, <1>1, PTL

(* While nothing failed, the entries acknowledged are in the files.        *)
THEOREM AckedAreWritten == Spec => []AckedIsWritten
<1>1. SinkInv => AckedIsWritten
  BY DEF SinkInv
<1> QED
  BY SinkInvariant, <1>1, PTL

(* While no write, sync or rotation failed, an ack is signalled only when  *)
(* a sync covers its entry or a rotation has closed the file that has it.  *)
THEOREM AckedAreSynced == Spec => []AckedIsSynced
<1>1. Init => SyncedOK
  BY DEF Init, SyncedOK
<1>2. SinkInv /\ SyncedOK /\ [Next]_vars => SyncedOK'
  BY SyncedStep
<1>3. SyncedOK => AckedIsSynced
  BY DEF SyncedOK, AckedIsSynced
<1> QED
  BY SinkInvariant, <1>1, <1>2, <1>3, PTL DEF Spec
=============================================================================
