-------------------------------- MODULE Sink --------------------------------
(***************************************************************************)
(* What happens to an entry after the ring: writeBatch and flushBuf of     *)
(* async_writer.go over the two buffers, sync_buffer.go with its rotation, *)
(* and create of mlog_file.go, when writes, syncs and creations may fail   *)
(* and SetLogDir is called.  One goroutine does all of this; a step is a   *)
(* call to the operating system or an operation on the buffers.            *)
(*                                                                         *)
(* Entries are numbered in the order the writer takes them from the ring.  *)
(* They all have size 1, so a line is never split between two chunks.  The *)
(* batch writer's buffer (bufio over the syncBuffer) is buf, the           *)
(* syncBuffer's own (bufio over the file) is mid; both have room for       *)
(* bufferSize entries and keep their first error for ever.                 *)
(***************************************************************************)
EXTENDS Naturals, Sequences, SequencesExt

CONSTANTS bufferSize,
          MaxSize,      (* of a file                                       *)
          Header,       (* size of what rotateFile writes to a new file    *)
          Faulty,       (* may calls to the operating system fail?         *)
          MaxEntries,   (* bound: entries taken from the ring              *)
          MaxFiles,     (* bound: files created                            *)
          MaxTime       (* bound: the clock, in seconds                    *)

ASSUME SinkAssumption ==
         /\ bufferSize \in Nat \ {0} /\ MaxSize \in Nat \ {0}
         /\ Header \in Nat
         /\ Faulty \in BOOLEAN
         /\ MaxEntries \in Nat /\ MaxFiles \in Nat /\ MaxTime \in Nat

VARIABLES
  clock,
  dirs,         (* logDirs is not empty                                    *)
  once,         (* onceLogDirs has run                                     *)
  buf, bufErr,  (* batchWriter.buf and its sticky error                    *)
  mid, midErr,  (* syncBuffer.Writer and its sticky error                  *)
  file,         (* syncBuffer.file: an index of files, 0 for nil           *)
  nbytes, madeAt,
  files,        (* the entries in each file created, in order of creation  *)
  onDisk,       (* entries that a Sync has covered                         *)
  syncFailed,   (* history: a Sync failed                                  *)
  wpc,          (* the writer's next step                                  *)
  op,           (* what it is doing: "start", "write" or "flush"           *)
  fresh,        (* rotateFile's local file, 0 if create failed             *)
  taken,        (* entries taken from the ring                             *)
  ack,          (* whether the entry in hand has an ack channel            *)
  pendingAck, acked,
  failed        (* history: a write to a file came up short, or a rotation *)
                (* failed                                                  *)

world   == <<clock, dirs, once>>
buffers == <<buf, bufErr, mid, midErr>>
current == <<file, nbytes, madeAt>>
synced  == <<onDisk, syncFailed>>
disk    == <<files, synced>>
acks    == <<taken, ack, pendingAck, acked>>
vars    == <<world, buffers, current, disk, wpc, op, fresh, acks, failed>>

TypeOK ==
  /\ clock \in 0..MaxTime /\ madeAt \in 0..MaxTime
  /\ dirs \in BOOLEAN /\ once \in BOOLEAN
  /\ buf \in Seq(1..MaxEntries) /\ Len(buf) \leq bufferSize
  /\ mid \in Seq(1..MaxEntries) /\ Len(mid) \leq bufferSize
  /\ bufErr \in BOOLEAN /\ midErr \in BOOLEAN /\ failed \in BOOLEAN /\ syncFailed \in BOOLEAN
  /\ files \in Seq(Seq(1..MaxEntries)) /\ Len(files) \leq MaxFiles
  /\ file \in 0..Len(files) /\ fresh \in 0..Len(files)
  /\ nbytes \in Nat
  /\ wpc \in {"none", "idle", "chunk", "retire", "install", "fill", "flush",
              "sync", "signal"}
  /\ op \in {"start", "write", "flush"}
  /\ taken \in 0..MaxEntries /\ ack \in BOOLEAN
  /\ onDisk \subseteq 1..MaxEntries
  /\ pendingAck \subseteq 1..MaxEntries /\ acked \subseteq 1..MaxEntries

Init ==
  /\ clock = 0 /\ dirs = FALSE /\ once = FALSE
  /\ buf = <<>> /\ bufErr = FALSE /\ mid = <<>> /\ midErr = FALSE
  /\ file = 0 /\ nbytes = 0 /\ madeAt = 0
  /\ files = <<>> /\ onDisk = {} /\ syncFailed = FALSE
  /\ wpc = "none" /\ op = "start" /\ fresh = 0
  /\ taken = 0 /\ ack = FALSE /\ pendingAck = {} /\ acked = {}
  /\ failed = FALSE

Advance ==
  /\ clock < MaxTime
  /\ clock' = clock + 1
  /\ UNCHANGED <<dirs, once, buffers, current, disk, wpc, op, fresh, acks, failed>>

SetLogDir ==
  /\ dirs' = FALSE
  /\ UNCHANGED <<clock, once, buffers, current, disk, wpc, op, fresh, acks, failed>>

(* The calls that may fail do so only in a Faulty world.                   *)
Outcome == IF Faulty THEN BOOLEAN ELSE {TRUE}

(* A write of the entries s to a file writes the first n of them.          *)
Written(s) == IF Faulty THEN 0..Len(s) ELSE {Len(s)}
Rest(s, n) == SubSeq(s, n + 1, Len(s))
Extend(f, s, n) == files' = [files EXCEPT ![f] = @ \o SubSeq(s, 1, n)]
-----------------------------------------------------------------------------
(* writeBatch, for one entry; ack tells whether it has an ack channel.     *)

Collect(a) == pendingAck' = IF a THEN pendingAck \union {taken'} ELSE pendingAck

Write(a) ==
  /\ wpc = "idle"
  /\ taken < MaxEntries
  /\ taken' = taken + 1
  /\ \/ (* the entry goes into the buffer                                  *)
        /\ ~bufErr /\ Len(buf) < bufferSize
        /\ buf' = Append(buf, taken')
        /\ Collect(a)
        /\ UNCHANGED <<wpc, op, ack>>
     \/ (* the buffer is full and is written out first                     *)
        /\ ~bufErr /\ Len(buf) = bufferSize
        /\ wpc' = "chunk" /\ op' = "write" /\ ack' = a
        /\ UNCHANGED <<buf, pendingAck>>
     \/ (* the buffer has an error: the entry is lost, its ack never comes *)
        /\ bufErr
        /\ UNCHANGED <<buf, wpc, op, ack, pendingAck>>
  /\ UNCHANGED <<world, bufErr, mid, midErr, current, disk, fresh, acked, failed>>

(* flushBuf: on a request, a tick, an ack or a full buffer, between two    *)
(* batches.                                                                *)
FlushBuf ==
  /\ wpc = "idle"
  /\ op' = "flush"
  /\ wpc' = IF bufErr THEN "signal" ELSE IF buf = <<>> THEN "flush" ELSE "chunk"
  /\ UNCHANGED <<world, buffers, current, disk, fresh, acks, failed>>

Entries(f) == Range(files[f])

(* Fault: the file is synced before its buffer is flushed.                 *)
FlushMidAfterSync(n) ==
  /\ wpc = "flush"
  /\ n \in IF midErr THEN {0} ELSE Written(mid)
  /\ Extend(file, mid, n)
  /\ mid' = Rest(mid, n)
  /\ midErr' = (midErr \/ n < Len(mid))
  /\ failed' = (failed \/ n < Len(mid))
  /\ wpc' = "signal"
  /\ onDisk' = onDisk \union Entries(file)
  /\ UNCHANGED <<world, buf, bufErr, current, syncFailed, op, fresh, acks>>

(* Fault: what a failed write has written is not taken out of the buffer.  *)
FlushMidRestarts(n) ==
  /\ wpc = "flush"
  /\ n \in IF midErr THEN {0} ELSE Written(mid)
  /\ Extend(file, mid, n)
  /\ mid' = IF n = Len(mid) THEN <<>> ELSE mid
  /\ midErr' = (midErr \/ n < Len(mid))
  /\ failed' = (failed \/ n < Len(mid))
  /\ wpc' = IF midErr' THEN "signal" ELSE "sync"
  /\ UNCHANGED <<world, buf, bufErr, current, synced, op, fresh, acks>>

(* syncBuffer.Flush: the error stays in mid, not in buf.                   *)
FlushMid(n) ==
  /\ wpc = "flush"
  /\ n \in IF midErr THEN {0} ELSE Written(mid)
  /\ Extend(file, mid, n)
  /\ mid' = Rest(mid, n)
  /\ midErr' = (midErr \/ n < Len(mid))
  /\ failed' = (failed \/ n < Len(mid))
  /\ wpc' = IF midErr' THEN "signal" ELSE "sync"
  /\ UNCHANGED <<world, buf, bufErr, current, synced, op, fresh, acks>>

Sync ==
  /\ wpc = "sync"
  /\ \E ok \in Outcome :
       /\ onDisk' = IF ok THEN onDisk \union Entries(file) ELSE onDisk
       /\ syncFailed' = (syncFailed \/ ~ok)
  /\ wpc' = "signal"
  /\ UNCHANGED <<world, buffers, current, files, op, fresh, acks, failed>>

SignalAcks ==
  /\ wpc = "signal"
  /\ acked' = acked \union pendingAck
  /\ pendingAck' = {}
  /\ wpc' = "idle"
  /\ UNCHANGED <<world, buffers, current, disk, op, fresh, taken, ack, failed>>
-----------------------------------------------------------------------------
(* syncBuffer.Write(buf), called by bufio when buf is written out.         *)

Due == nbytes + Len(buf) \geq MaxSize /\ clock # madeAt

(* Fault: the file's own buffer is not flushed after the batch writer's.   *)
ChunkWrittenOnly ==
  /\ buf' = IF op = "write" THEN <<taken>> ELSE <<>>
  /\ pendingAck' = IF op = "write" /\ ack THEN pendingAck \union {taken} ELSE pendingAck
  /\ wpc' = IF op = "write" THEN "idle" ELSE "sync"
  /\ UNCHANGED bufErr

(* What bufio does with the outcome of syncBuffer.Write: on success the    *)
(* buffer is empty, and takes the entry in hand; on an error it keeps what *)
(* was not written, and the error.                                         *)
ChunkWritten ==
  /\ buf' = IF op = "write" THEN <<taken>> ELSE <<>>
  /\ pendingAck' = IF op = "write" /\ ack THEN pendingAck \union {taken} ELSE pendingAck
  /\ wpc' = IF op = "write" THEN "idle" ELSE "flush"
  /\ UNCHANGED bufErr

ChunkFailed(n) ==
  /\ buf' = Rest(buf, n)
  /\ bufErr' = TRUE
  /\ wpc' = IF op = "write" THEN "idle" ELSE "signal"
  /\ UNCHANGED pendingAck

(* sb.Writer.Write: mid takes the chunk, and is written to the file when   *)
(* it overflows.                                                           *)
Room == bufferSize - Len(mid)
Overflow == mid \o SubSeq(buf, 1, Room)

Fill ==
  /\ wpc = "fill" \/ (wpc = "chunk" /\ ~Due)
  /\ \/ /\ midErr
        /\ ChunkFailed(0)
        /\ UNCHANGED <<files, mid, midErr, nbytes, failed>>
     \/ /\ ~midErr /\ Len(buf) \leq Room
        /\ mid' = mid \o buf
        /\ nbytes' = nbytes + Len(buf)
        /\ ChunkWritten
        /\ UNCHANGED <<files, midErr, failed>>
     \/ /\ ~midErr /\ Len(buf) > Room
        /\ \E n \in Written(Overflow) :
             /\ Extend(file, Overflow, n)
             /\ IF n = bufferSize
                THEN /\ mid' = Rest(buf, Room)
                     /\ nbytes' = nbytes + Len(buf)
                     /\ ChunkWritten
                     /\ UNCHANGED <<midErr, failed>>
                ELSE /\ mid' = Rest(Overflow, n)
                     /\ nbytes' = nbytes + Room
                     /\ ChunkFailed(Room)
                     /\ midErr' = TRUE /\ failed' = TRUE
  /\ UNCHANGED <<world, file, madeAt, synced, op, fresh, taken, ack, acked>>
-----------------------------------------------------------------------------
(* rotateFile, from syncBuffer.Write or from the first Emit.               *)

(* create: onceLogDirs fills logDirs the first time only.                  *)
Create ==
  /\ wpc = "none" \/ (wpc = "chunk" /\ Due)
  /\ once' = TRUE
  /\ dirs' = (dirs \/ ~once)
  /\ \E ok \in Outcome :
       IF ok /\ dirs'
       THEN /\ Len(files) < MaxFiles
            /\ files' = Append(files, <<>>)
            /\ fresh' = Len(files')
       ELSE /\ fresh' = 0
            /\ UNCHANGED files
  /\ madeAt' = clock
  /\ wpc' = IF file = 0 THEN "install" ELSE "retire"
  /\ UNCHANGED <<clock, buffers, file, nbytes, synced, op, acks, failed>>

(* Fault: the old file is closed without flushing mid.                     *)
RetireUnflushed(n) ==
  /\ wpc = "retire" /\ n = 0
  /\ wpc' = "install"
  /\ UNCHANGED <<world, buffers, current, disk, op, fresh, acks, failed>>

(* The old file: flush mid into it, whatever comes of it, and close it,    *)
(* without a sync.                                                         *)
Retire(n) ==
  /\ wpc = "retire"
  /\ n \in IF midErr THEN {0} ELSE Written(mid)
  /\ Extend(file, mid, n)
  /\ mid' = Rest(mid, n)
  /\ midErr' = (midErr \/ n < Len(mid))
  /\ failed' = (failed \/ n < Len(mid))
  /\ wpc' = "install"
  /\ UNCHANGED <<world, buf, bufErr, current, synced, op, fresh, acks>>

(* rotateFile returns an error.  Emit gives its syncBuffer up and makes a  *)
(* new one the next time; the writer has its chunk fail.                   *)
RotationFailed ==
  IF op = "start"
  THEN /\ wpc' = "none" /\ file' = 0
       /\ UNCHANGED <<buf, bufErr, pendingAck, failed>>
  ELSE /\ ChunkFailed(0)
       /\ file' = fresh
       /\ failed' = TRUE

(* Fault: the size of the old file is not forgotten.                       *)
CountHeaderOnTop == nbytes' = nbytes + Header

CountHeader == nbytes' = Header

(* The new file, its buffer and its header.                                *)
Install ==
  /\ wpc = "install"
  /\ IF fresh = 0
     THEN /\ RotationFailed
          /\ nbytes' = 0
          /\ UNCHANGED <<mid, midErr>>
     ELSE /\ mid' = <<>> /\ midErr' = FALSE
          /\ \E ok \in Outcome :
               IF ok
               THEN /\ file' = fresh
                    /\ CountHeader
                    /\ wpc' = IF op = "start" THEN "idle" ELSE "fill"
                    /\ UNCHANGED <<buf, bufErr, pendingAck, failed>>
               ELSE /\ RotationFailed
                    /\ nbytes' \in 0..Header
  /\ UNCHANGED <<world, madeAt, disk, op, fresh, taken, ack, acked>>
-----------------------------------------------------------------------------
Next ==
  \/ Advance \/ SetLogDir
  \/ \E a \in BOOLEAN : Write(a)
  \/ FlushBuf \/ Sync \/ SignalAcks \/ Fill \/ Create \/ Install
  \/ \E n \in 0..bufferSize : FlushMid(n) \/ Retire(n)

Spec == Init /\ [][Next]_vars
-----------------------------------------------------------------------------
(* The entries in the files, and those in the buffers on their way there.  *)
InFiles == UNION {Entries(f) : f \in 1..Len(files)}
Kept == mid \o buf

Ascending(s) == IsSorted(s, <)
Before(S, T) == \A x \in S, y \in T : x < y

(* However writes, rotations and syncs fail, no entry is written twice or  *)
(* before an earlier one: not in a file, not across files, and not by what *)
(* the buffers still hold.                                                 *)
WrittenInOrder ==
  /\ \A f \in 1..Len(files) : Ascending(files[f])
  /\ \A f, g \in 1..Len(files) : f < g => Before(Entries(f), Entries(g))
  /\ Ascending(Kept) /\ Before(InFiles, Range(Kept))

(* While no write came up short and no rotation failed, nothing is lost:   *)
(* not in a rotation with both buffers full, and not by a failed sync or a *)
(* failed first attempt to create a file.                                  *)
InHand == IF op = "write" /\ wpc \in {"chunk", "retire", "install", "fill"} THEN 1 ELSE 0
NothingLost == ~failed => InFiles \cup Range(Kept) = 1..(taken - InHand)

(* nbytes, on which rotation is decided, is what the file holds and will   *)
(* hold when mid is flushed, through failed and partial writes.            *)
SizeIsTracked ==
  file # 0 /\ wpc \in {"idle", "fill", "flush", "sync", "signal"} /\ ~bufErr
    => nbytes = Header + Len(files[file]) + Len(mid)

(* While nothing failed, an acknowledged entry has left both buffers.      *)
AckedIsWritten == ~failed => acked \subseteq InFiles

(* What an ack does promise of the disk: while no write, sync or rotation  *)
(* failed, an acknowledged entry is synced, or in a file that a rotation   *)
(* has closed.  So it is synced if it is in the current file, whichever    *)
(* of its two buffers it was in when the flush began.                      *)
Retired == UNION {Entries(f) : f \in 1..(file - 1)}
AckedIsSynced == ~failed /\ ~syncFailed => acked \subseteq onDisk \cup Retired
-----------------------------------------------------------------------------
(* Promises that the code does not keep.                                   *)

(* README: ERROR and above wait for the ack, which guarantees that the     *)
(* entry is durable.  Without any failure, a rotation between the write    *)
(* and the flush closes the old file without a sync, and the sync before   *)
(* the ack is of the new file.                                             *)
AckedIsOnDisk == ~failed => acked \subseteq onDisk

(* The comment in SetLogDir: create will re-evaluate logDirs on its next   *)
(* use.  It does so only if create never ran before: after that, the       *)
(* rotation that follows a SetLogDir finds no directory.                   *)
DirsAreReevaluated == [][Create => dirs']_vars
=============================================================================
