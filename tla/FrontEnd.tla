------------------------------ MODULE FrontEnd ------------------------------
(***************************************************************************)
(* The calls of the package (mlog.go, structured.go), from the log mode    *)
(* that routes them through the sinks that get their records (logsink.go)  *)
(* to the end of the process, where FATAL and Exit lead (mlog.go,          *)
(* logsink_fatal.go).                                                      *)
(*                                                                         *)
(* A function is its family, its severity and its form, the suffix of its  *)
(* name ("print" for none).  What its arguments, format and depth do to    *)
(* the text and the call site is left out.  The file sink's ring and       *)
(* writer (AsyncWriter, EntryPool) appear as sets of records.              *)
(***************************************************************************)
EXTENDS Naturals, Sequences, FiniteSets, Functions

CONSTANTS Callers,          (* goroutines, of one call each                *)
          Uses(_),          (* the functions a goroutine may call          *)
          Settings,         (* what the flags may enable, see outputs      *)
          StructuredSinks,  (* sinks registered there, in a sequence       *)
          Nil

Low        == {"DEBUG", "INFO", "WARNING"}
Severities == Low \cup {"ERROR", "FATAL"}
Forms == {"print", "Depth", "Depthf", "ln", "f",
          "Context", "Contextf", "ContextDepth", "ContextDepthf"}

DebugCalls   == [family : {"level"}, sev : {"DEBUG"}, form : Forms]
InfoCalls    == [family : {"level"}, sev : {"INFO"}, form : Forms]
WarningCalls == [family : {"level"}, sev : {"WARNING"}, form : Forms]
ErrorCalls   == [family : {"level"}, sev : {"ERROR"}, form : Forms]
FatalCalls   == [family : {"fatal"}, sev : {"FATAL"}, form : Forms]
ExitCalls    == [family : {"exit"}, sev : {"FATAL"}, form : Forms]
VerboseCalls == [family : {"verbose"}, sev : {"INFO"}, form : Forms]
LoggerCalls  == [family : {"logger"}, sev : Severities, form : {"print", "f", "ln"}]
BridgeCalls  == [family : {"bridge"}, sev : Severities \ {"DEBUG"}, form : {"print"}]

Functions == DebugCalls \cup InfoCalls \cup WarningCalls \cup ErrorCalls \cup FatalCalls
             \cup ExitCalls \cup VerboseCalls \cup LoggerCalls \cup BridgeCalls

TextSinks == {"stderr", "file"}
AllSinks  == TextSinks \cup Range(StructuredSinks)

(* Records: a caller logs one, and another if its abort comes back.        *)
Records == Callers \X {1, 2}
Buffers == 1..Cardinality(Records)

Messages == [rec : Records, buf : Buffers]
Deaths   == [by : Callers, code : {"abort", "exit1", "exit2"}]

ASSUME FrontEndAssumption ==
         /\ IsFiniteSet(Callers)
         /\ \A c \in Callers : Uses(c) \subseteq Functions
         /\ Settings \subseteq [{"low", "severe"} -> SUBSET TextSinks]
         /\ \A s \in Settings : /\ "file" \in s["low"] <=> "file" \in s["severe"]
                                /\ s["low"] \subseteq s["severe"]
         /\ StructuredSinks \in Seq(STRING)
         /\ Nil \notin Nat \cup Records \cup Messages \cup Deaths

VARIABLES mode,       (* logMode                                           *)
          modeSet,    (* modeSetOnce: done                                 *)
          flagRead,   (* flagModeOnce: done, or too late to change modeSet *)
          outputs,    (* the text sinks that are registered and enabled,   *)
                      (* below ERROR and from there on                     *)
          text,       (* the record in each buffer; Nil in the pool (bufs) *)
                      (* and before the buffer is made, which is the same, *)
                      (* as Get resets it                                  *)
          fatalMessage,   (* the message of the first FATAL, in its buffer *)
          reported,   (* sinkErrOnce: done                                 *)
          writer,     (* the asyncWriter: none, open, closing or closed    *)
          queue,      (* the severe records in the ring or the buffers     *)
          acked,      (* those flushed, as far as their calls wait for it  *)
          late,       (* history: those in queue whose calls went on       *)
          call,       (* per caller: where its call is                     *)
          dead        (* how the process ended, and by whom, or Nil        *)

modes  == <<mode, modeSet, flagRead, outputs>>
fatal  == <<text, fatalMessage>>
file   == <<writer, queue, acked, late>>
vars   == <<modes, fatal, reported, file, call, dead>>

Pcs == {"idle", "route", "filter", "emit", "ack", "structured sinks",
        "push", "push ack", "close", "closing", "end", "returned"}

Locals == [pc : Pcs,
           fn : Functions \cup {Nil},           (* Nil past the routing    *)
           sev : {"low", "ERROR", "FATAL"},
           bound : BOOLEAN,   (* history: it began in structured mode      *)
           n : {1, 2},                          (* its record              *)
           todo : Seq(AllSinks),                (* the sinks to come       *)
           buf : Buffers \cup {Nil},
           offered : SUBSET AllSinks,           (* history: those before   *)
           sampled : BOOLEAN, failed : BOOLEAN,
           then : {"return", "abort", "exit1", "exit2"}]

Idle == [pc |-> "idle", fn |-> Nil, sev |-> "low", bound |-> FALSE, n |-> 1,
         todo |-> <<>>, buf |-> Nil, offered |-> {}, sampled |-> FALSE,
         failed |-> FALSE, then |-> "return"]

(* The type invariant.  A call has its own text in the buffer it uses.     *)
TypeOK ==
  /\ mode \in {"printf", "structured"}
  /\ modeSet \in BOOLEAN /\ flagRead \in BOOLEAN /\ reported \in BOOLEAN
  /\ outputs \in Settings
  /\ text \in [Buffers -> Records \cup {Nil}]
  /\ fatalMessage \in Messages \cup {Nil}
  /\ writer \in {"none", "open", "closing", "closed"}
  /\ queue \subseteq Records /\ acked \subseteq Records /\ late \subseteq Records
  /\ call \in [Callers -> Locals]
  /\ dead \in Deaths \cup {Nil}
  /\ \A c \in Callers : call[c].buf # Nil => text[call[c].buf] = <<c, call[c].n>>

Init ==
  /\ mode = "printf"
  /\ modeSet = FALSE /\ flagRead = FALSE
  /\ outputs \in Settings
  /\ text = [b \in Buffers |-> Nil] /\ fatalMessage = Nil
  /\ reported = FALSE
  /\ writer = "none" /\ queue = {} /\ acked = {} /\ late = {}
  /\ call = [c \in Callers |-> Idle]
  /\ dead = Nil
-----------------------------------------------------------------------------
(* The log mode and the routes of each family *)

(* A step of a call at l; nothing runs in a dead process.                  *)
At(c, l) == dead = Nil /\ call[c].pc = l
Goto(c, l) == call' = [call EXCEPT ![c].pc = l]
Sev(c) == call[c].sev
Record(c) == <<c, call[c].n>>
Severe(c) == Sev(c) # "low"

(* Fault: every call of SetLogMode has its way.                            *)
SetLogModeAgain(m) ==
  /\ dead = Nil
  /\ mode' = m /\ modeSet' = TRUE /\ flagRead' = TRUE
  /\ UNCHANGED <<outputs, fatal, reported, file, call, dead>>

(* Only the first call of SetLogMode does anything.                        *)
SetLogMode(m) ==
  /\ dead = Nil
  /\ ~modeSet
  /\ mode' = m /\ modeSet' = TRUE /\ flagRead' = TRUE
  /\ UNCHANGED <<outputs, fatal, reported, file, call, dead>>

(* Verbose.Infof and the bridge from the standard logger do not ask.       *)
AsksMode(f) == ~(f.family = "verbose" /\ f.form = "f") /\ f.family # "bridge"

Call(c) ==
  /\ At(c, "idle")
  /\ \E f \in Uses(c) :
       call' = [call EXCEPT ![c].pc = "route", ![c].fn = f,
                               ![c].sev = IF f.sev \in Low THEN "low" ELSE f.sev,
                               ![c].bound = (mode = "structured" /\ AsksMode(f))]
  /\ UNCHANGED <<modes, fatal, reported, file, dead>>

(* initLogModeFromFlag, by the first getMode, whatever the flag says:      *)
(* -log_mode=structured counts as the call of SetLogMode if there was none.*)
ReadFlag(c) ==
  /\ At(c, "route")
  /\ AsksMode(call[c].fn)
  /\ ~flagRead /\ flagRead' = TRUE
  /\ \/ mode' = "structured" /\ modeSet' = TRUE
     \/ UNCHANGED <<mode, modeSet>>
  /\ UNCHANGED <<outputs, fatal, reported, file, call, dead>>

To(pc, f, then) == [pc |-> pc, fn |-> f, then |-> then]

(* Info and InfoContext go through InfoDepth and InfoContextDepth, which   *)
(* ask for the mode once more; the other forms emit.                       *)
Delegate(f) == [f EXCEPT !.form = IF f.form = "print" THEN "Depth" ELSE "ContextDepth"]

FamilyRoute(f, m, then, before) ==
  CASE m = "structured" -> To("push", f, then)
    [] m = "printf" /\ f.form \in {"print", "Context"} -> To("route", Delegate(f), before)
    [] OTHER -> To("filter", f, then)

(* The severities up to ERROR; then stays, as Errorf is called by          *)
(* flushAndAbort too.                                                      *)
LevelRoute(f, m, then) == FamilyRoute(f, m, then, then)

(* Fault: one form does not call flushAndAbort in structured mode.         *)
FatalRouteForgets(f, m, then) ==
  FamilyRoute(f, m, IF m = "structured" /\ f.form = "Contextf" THEN then ELSE "abort", then)

FatalRoute(f, m, then) == FamilyRoute(f, m, "abort", then)
ExitRoute(f, m, then)  == FamilyRoute(f, m, "exit1", then)

VerboseRoute(f, m, then) ==
  IF AsksMode(f) THEN FamilyRoute(f, m, then, then) ELSE To("filter", f, then)

(* The methods of Logger call the global functions in printf mode.  In     *)
(* structured mode Fatalf and Fatalln end the process and Fatal does not.  *)
LoggerRoute(f, m, then) ==
  LET global == [family |-> IF f.sev = "FATAL" THEN "fatal" ELSE "level", sev |-> f.sev,
                 form |-> CASE f.form = "print" -> "Depth" [] f.form = "f" -> "Depthf"
                            [] OTHER -> "ln"]
  IN  IF m = "structured"
      THEN To("push", f, IF f.sev = "FATAL" /\ f.form # "print" THEN "abort" ELSE then)
      ELSE IF f.sev = "FATAL" /\ f.form = "f" THEN To("filter", f, "abort")
      ELSE To("route", global, then)

RouteOf(f, m, then) ==
  CASE f.family = "level"   -> LevelRoute(f, m, then)
    [] f.family = "fatal"   -> FatalRoute(f, m, then)
    [] f.family = "exit"    -> ExitRoute(f, m, then)
    [] f.family = "verbose" -> VerboseRoute(f, m, then)
    [] f.family = "logger"  -> LoggerRoute(f, m, then)
    [] f.family = "bridge"  -> To("filter", f, then)

Route(c) ==
  /\ At(c, "route")
  /\ AsksMode(call[c].fn) => flagRead
  /\ LET r == RouteOf(call[c].fn, mode, call[c].then)
     IN  call' = [call EXCEPT ![c].pc = r.pc, ![c].then = r.then,
                              ![c].fn = IF r.pc = "route" THEN r.fn ELSE Nil]
  /\ UNCHANGED <<modes, fatal, reported, file, dead>>

(* A method of a Verbose that is false.                                    *)
NotVerbose(c) ==
  /\ At(c, "route")
  /\ call[c].fn.family = "verbose"
  /\ Goto(c, "returned")
  /\ UNCHANGED <<modes, fatal, reported, file, dead>>
-----------------------------------------------------------------------------
(* The printf pipeline: ctxlogf, sinkf, LogsinkPrintf and textPrintf *)

Enabled(c) == outputs[IF Severe(c) THEN "severe" ELSE "low"]
InOrder(sinks) == (IF "stderr" \in sinks THEN <<"stderr">> ELSE <<>>)
                  \o (IF "file" \in sinks THEN <<"file">> ELSE <<>>)

ToStructuredSinks(c, sampled) ==
  call' = [call EXCEPT ![c].pc = "structured sinks", ![c].todo = StructuredSinks,
                       ![c].buf = Nil, ![c].sampled = sampled]

(* The start of textPrintf, up to the formatting.                          *)
NoTextSinks(c) ==
  /\ At(c, "filter")
  /\ Enabled(c) = {} /\ Sev(c) # "FATAL"
  /\ ToStructuredSinks(c, FALSE)
  /\ UNCHANGED <<modes, fatal, reported, file, dead>>

Sampled(c) ==
  /\ At(c, "filter")
  /\ Enabled(c) # {} /\ ~Severe(c)
  /\ ToStructuredSinks(c, TRUE)
  /\ UNCHANGED <<modes, fatal, reported, file, dead>>

Free == {b \in Buffers : text[b] = Nil}
Use(c, b) ==
  /\ text' = [text EXCEPT ![b] = Record(c)]
  /\ call' = [call EXCEPT ![c].pc = "emit", ![c].buf = b, ![c].todo = InOrder(Enabled(c))]

(* Fault: all calls format in one buffer.                                  *)
FormatInOne(c) ==
  /\ At(c, "filter")
  /\ Enabled(c) # {} \/ Sev(c) = "FATAL"
  /\ Use(c, 1)
  /\ UNCHANGED <<modes, fatalMessage, reported, file, dead>>

Format(c) ==
  /\ At(c, "filter")
  /\ Enabled(c) # {} \/ Sev(c) = "FATAL"
  /\ Use(c, CHOOSE b \in Free : \A d \in Free : b <= d)
  /\ UNCHANGED <<modes, fatalMessage, reported, file, dead>>

(* The call goes on to its end, or to the end of the process; of its       *)
(* locals only n and then are used from here.                              *)
Leave(c) ==
  call' = [call EXCEPT
    ![c] = [Idle EXCEPT !.pc = IF call[c].then = "return" THEN "returned" ELSE "close",
                        !.n = call[c].n, !.then = call[c].then]]

(* The next sink has been offered the record.                              *)
Offered(c, l, err) ==
  call' = [call EXCEPT ![c].pc = l, ![c].todo = Tail(@),
                       ![c].offered = @ \cup {Head(call[c].todo)},
                       ![c].failed = @ \/ err]

EmitStderr(c) ==
  /\ At(c, "emit") /\ call[c].todo # <<>> /\ Head(call[c].todo) = "stderr"
  /\ \E err \in BOOLEAN : Offered(c, "emit", err)
  /\ UNCHANGED <<modes, fatal, reported, file, dead>>

(* The writer is there, or is made now.                                    *)
Ready == writer' = IF writer = "none" THEN "open" ELSE writer

(* tryPush may fail on an open ring too, and succeed on one that was       *)
(* closed after it looked.  Nobody waits for the records below ERROR: they *)
(* are not followed further.                                               *)
TryPush(c) ==
  \/ Severe(c) /\ queue' = queue \cup {Record(c)}
  \/ UNCHANGED queue

(* fileSinkSet.Emit, for a file that cannot be made, and for one that can. *)
EmitNoFile(c) ==
  /\ At(c, "emit") /\ call[c].todo # <<>> /\ Head(call[c].todo) = "file"
  /\ writer = "none"
  /\ Offered(c, "emit", TRUE)
  /\ UNCHANGED <<modes, fatal, reported, file, dead>>

(* Fault: no wait for the ack of FATAL, as the process ends anyway.        *)
EmitFileFatalGoesOn(c) ==
  /\ At(c, "emit") /\ call[c].todo # <<>> /\ Head(call[c].todo) = "file"
  /\ Ready
  /\ TryPush(c)
  /\ Offered(c, IF Sev(c) = "ERROR" THEN "ack" ELSE "emit", FALSE)
  /\ UNCHANGED <<modes, fatal, reported, acked, late, dead>>

EmitFile(c) ==
  /\ At(c, "emit") /\ call[c].todo # <<>> /\ Head(call[c].todo) = "file"
  /\ Ready
  /\ TryPush(c)
  /\ Offered(c, IF Severe(c) THEN "ack" ELSE "emit", FALSE)
  /\ UNCHANGED <<modes, fatal, reported, acked, late, dead>>

(* The ack of the record was closed, or 5 s are over.                      *)
Acked(c) == Record(c) \in acked /\ acked' = acked \ {Record(c)} /\ UNCHANGED late
TimedOut(c) == /\ late' = late \cup ({Record(c)} \cap queue)
               /\ acked' = acked \ {Record(c)}

EmitAck(c) ==
  /\ At(c, "ack")
  /\ Acked(c) \/ TimedOut(c)
  /\ Goto(c, "emit")
  /\ UNCHANGED <<modes, fatal, reported, writer, queue, dead>>

(* Fault: the buffer of the fatal message goes back to the pool.           *)
StorePutsAlways(c) ==
  /\ At(c, "emit") /\ call[c].todo = <<>>
  /\ fatalMessage' = IF Sev(c) = "FATAL" /\ fatalMessage = Nil
                     THEN [rec |-> Record(c), buf |-> call[c].buf] ELSE fatalMessage
  /\ text' = [text EXCEPT ![call[c].buf] = Nil]
  /\ ToStructuredSinks(c, FALSE)
  /\ UNCHANGED <<modes, reported, file, dead>>

(* The end of textPrintf, with fatalMessageStore.  A buffer that is not    *)
(* stored goes back to the pool or, of a later FATAL, is garbage.          *)
Store(c) ==
  /\ At(c, "emit") /\ call[c].todo = <<>>
  /\ IF Sev(c) = "FATAL" /\ fatalMessage = Nil
     THEN fatalMessage' = [rec |-> Record(c), buf |-> call[c].buf] /\ UNCHANGED text
     ELSE text' = [text EXCEPT ![call[c].buf] = Nil] /\ UNCHANGED fatalMessage
  /\ ToStructuredSinks(c, FALSE)
  /\ UNCHANGED <<modes, reported, file, dead>>

(* Fault: an error ends the round of the sinks.                            *)
StructuredSinkStops(c) ==
  /\ At(c, "structured sinks") /\ call[c].todo # <<>>
  /\ \/ Offered(c, "structured sinks", FALSE)
     \/ call' = [call EXCEPT ![c].todo = <<>>, ![c].failed = TRUE]
  /\ UNCHANGED <<modes, fatal, reported, file, dead>>

(* The loop of LogsinkPrintf.                                              *)
StructuredSink(c) ==
  /\ At(c, "structured sinks") /\ call[c].todo # <<>>
  /\ \E err \in BOOLEAN : Offered(c, "structured sinks", err)
  /\ UNCHANGED <<modes, fatal, reported, file, dead>>

(* The rest of sinkf: the first error is reported.                         *)
Sinkf(c) ==
  /\ At(c, "structured sinks") /\ call[c].todo = <<>>
  /\ reported' = (reported \/ call[c].failed)
  /\ Leave(c)
  /\ UNCHANGED <<modes, fatal, file, dead>>
-----------------------------------------------------------------------------
(* The structured pipeline: Logger.log, ctxlogStructured, structuredEmit.  *)
(* It has no sinks and no errors: a record that is refused by the sampler, *)
(* or finds no file, is gone.                                              *)

PushNothing(c) ==
  /\ At(c, "push")
  /\ ~Severe(c) \/ writer = "none"
  /\ Leave(c)
  /\ UNCHANGED <<modes, fatal, reported, file, dead>>

Push(c) ==
  /\ At(c, "push")
  /\ Ready
  /\ TryPush(c)
  /\ IF Severe(c) THEN Goto(c, "push ack") ELSE Leave(c)
  /\ UNCHANGED <<modes, fatal, reported, acked, late, dead>>

PushAck(c) ==
  /\ At(c, "push ack")
  /\ Acked(c) \/ TimedOut(c)
  /\ Leave(c)
  /\ UNCHANGED <<modes, fatal, reported, writer, queue, dead>>
-----------------------------------------------------------------------------
(* The end of a call, and of the process *)

(* Close: only the first waits for the writer.                             *)
CloseCall(c) ==
  /\ At(c, "close")
  /\ IF writer = "open" THEN Goto(c, "closing") /\ writer' = "closing"
                        ELSE Goto(c, "end") /\ UNCHANGED writer
  /\ UNCHANGED <<modes, fatal, reported, queue, acked, late, dead>>

CloseReturn(c) ==
  /\ At(c, "closing")
  /\ writer = "closed"
  /\ Goto(c, "end")
  /\ UNCHANGED <<modes, fatal, reported, file, dead>>

(* abortProcess, os.Exit.  The other goroutines are gone.                  *)
End(c) ==
  /\ At(c, "end")
  /\ dead' = [by |-> c, code |-> call[c].then]
  /\ call' = [d \in Callers |-> IF d = c THEN call[c] ELSE Idle]
  /\ UNCHANGED <<modes, fatal, reported, file>>

(* Errorf, when abortProcess returns: a call within the call.              *)
AbortReturns(c) ==
  /\ At(c, "end")
  /\ call[c].then = "abort"
  /\ call' = [call EXCEPT ![c] = [Idle EXCEPT !.pc = "route", !.n = 2, !.sev = "ERROR",
                !.fn = [family |-> "level", sev |-> "ERROR", form |-> "f"],
                !.bound = (mode = "structured"), !.then = "exit2"]]
  /\ UNCHANGED <<modes, fatal, reported, file, dead>>

(* The writer goroutine.  Its last drain may leave records behind.         *)
WriteOne ==
  /\ dead = Nil
  /\ writer \in {"open", "closing"}
  /\ \E r \in queue :
       /\ queue' = queue \ {r}
       /\ acked' = acked \cup ({r} \ late) /\ late' = late \ {r}
  /\ UNCHANGED <<modes, fatal, reported, writer, call, dead>>

WriterExit ==
  /\ dead = Nil
  /\ writer = "closing" /\ writer' = "closed"
  /\ UNCHANGED <<modes, fatal, reported, queue, acked, late, call, dead>>

Step(c) ==
  \/ ReadFlag(c) \/ Route(c) \/ NotVerbose(c)
  \/ NoTextSinks(c) \/ Sampled(c) \/ Format(c)
  \/ EmitStderr(c) \/ EmitNoFile(c) \/ EmitFile(c) \/ EmitAck(c)
  \/ Store(c) \/ StructuredSink(c) \/ Sinkf(c)
  \/ PushNothing(c) \/ Push(c) \/ PushAck(c)
  \/ CloseCall(c) \/ CloseReturn(c) \/ End(c) \/ AbortReturns(c)

Next ==
  \/ \E m \in {"printf", "structured"} : SetLogMode(m)
  \/ \E c \in Callers : Call(c) \/ Step(c)
  \/ WriteOne \/ WriterExit

(* Goroutines are scheduled, the writer among them, and a wait for an ack  *)
(* ends after 5 s.                                                         *)
Fairness ==
  /\ \A c \in Callers : WF_vars(Step(c))
  /\ WF_vars(WriteOne \/ WriterExit)

Spec == Init /\ [][Next]_vars /\ Fairness
-----------------------------------------------------------------------------
(* Properties *)

(* LogsinkFatalMessage has the first FATAL message, whole: no other FATAL  *)
(* call replaces it, and no other call formats in its buffer.              *)
FatalMessageFrozen ==
  [][fatalMessage # Nil =>
       fatalMessage' = fatalMessage /\ text'[fatalMessage.buf] = fatalMessage.rec]_vars

(* A call that began in structured mode is not handed to the text sinks,   *)
(* whatever the forms it is passed through, the flag and SetLogMode do.    *)
StructuredForGood ==
  \A c \in Callers :
    call[c].pc \in {"filter", "emit", "ack", "structured sinks"} => ~call[c].bound

(* The record of an ERROR or FATAL call that the ring took is flushed      *)
(* (by the writer; what a flush does with it is Sink's) before the call    *)
(* goes on from its sinks, and so before it ends the process, unless the   *)
(* ack took longer than 5 s.                                               *)
SevereIsFlushed ==
  \A c \in Callers :
    call[c].pc \in {"structured sinks", "close", "closing", "end", "returned"}
      => (Record(c) \in queue => Record(c) \in late)

(* When a call leaves the sinks, every one has been offered its record,    *)
(* whatever those before it answered, text sinks only if the sampler let   *)
(* it through; and an error has been reported, by this call or before.     *)
LeavesSinks(c) == /\ call[c].pc = "structured sinks" /\ call'[c].pc # "structured sinks"
                  /\ dead' = Nil

OfferedToAll ==
  [][\A c \in Callers : LeavesSinks(c) =>
       /\ ~call[c].sampled => Enabled(c) \subseteq call[c].offered
       /\ Range(StructuredSinks) \subseteq call[c].offered
       /\ call[c].failed => reported']_vars

(* A call that must not return ends the process, or another such call      *)
(* does: no Close on the way waits for ever.  The bridge at FATAL and, in  *)
(* structured mode, Logger.Fatal return.                                   *)
Kills(f) == \/ f.family \in {"fatal", "exit"}
            \/ f.family = "logger" /\ f.sev = "FATAL" /\ f.form # "print"

FatalKills ==
  (\E c \in Callers : call[c].pc = "route" /\ Kills(call[c].fn)) ~> dead # Nil
=============================================================================
