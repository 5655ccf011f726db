--------------------------- MODULE FrontEnd_proofs ---------------------------
(***************************************************************************)
(* Theorems about FrontEnd, for every finite set of callers, whatever      *)
(* functions they call, any setting of the flags and any structured sinks. *)
(***************************************************************************)
EXTENDS FrontEnd, NatFacts, FiniteSetTheorems, SequenceTheorems, TLAPS

(***************************************************************************)
(* The inductive invariant.                                                *)
(***************************************************************************)

(* Structured mode is for good, and a call that found it on is on its way  *)
(* to the structured pipeline.                                             *)
ModeOK ==
  /\ mode = "structured" => modeSet /\ flagRead
  /\ \A c \in Callers :
       /\ call[c].bound => mode = "structured"
       /\ call[c].pc = "route" => call[c].fn \in Functions
       /\ call[c].pc = "route" /\ call[c].bound => AsksMode(call[c].fn)

(* Only calls that do not return get to Close, and the Errorf inside a     *)
(* flushAndAbort exits.                                                    *)
EndsOK ==
  \A c \in Callers :
    /\ call[c].pc \in {"close", "closing", "end"} => call[c].then # "return"
    /\ call[c].pc = "idle" => call[c].n = 1
    /\ call[c].n = 2 => call[c].then = "exit2"
    /\ call[c].n = 2 /\ call[c].pc = "route" => call[c].fn.family = "level"

(* No record is in two buffers; the fatal message is in one of its own.    *)
BuffersOK ==
  /\ \A a, b \in Buffers : text[a] = text[b] /\ text[a] # Nil => a = b
  /\ fatalMessage # Nil => text[fatalMessage.buf] = fatalMessage.rec
  /\ \A c \in Callers :
       /\ call[c].pc \in {"emit", "ack"} <=> call[c].buf # Nil
       /\ call[c].buf # Nil /\ fatalMessage # Nil => fatalMessage.buf # call[c].buf

(* A record that is still to be formatted is in no buffer.                 *)
FreshOK ==
  dead = Nil => \A c \in Callers, b \in Buffers :
    /\ call[c].pc \in {"idle", "route", "filter"} => text[b] # Record(c)
    /\ call[c].n = 1 => text[b] # <<c, 2>>

(* Only a call that waits for its ack has its record in the ring, or       *)
(* flushed and not taken note of, unless it gave up waiting.               *)
DiskOK ==
  dead = Nil => \A c \in Callers :
    /\ call[c].pc \in {"ack", "push ack"} => Record(c) \notin acked \cap queue
    /\ call[c].pc \notin {"ack", "push ack"} =>
         Record(c) \notin acked /\ (Record(c) \in queue => Record(c) \in late)
    /\ call[c].n = 1 => <<c, 2>> \notin queue \cup acked

(* A sink that is to get the record has been offered it or is still to be. *)
SinksOK ==
  \A c \in Callers :
    /\ call[c].pc \in {"emit", "ack"} => Enabled(c) \subseteq call[c].offered \cup Range(call[c].todo)
    /\ call[c].pc = "structured sinks" =>
         /\ ~call[c].sampled => Enabled(c) \subseteq call[c].offered
         /\ Range(StructuredSinks) \subseteq call[c].offered \cup Range(call[c].todo)

FrontInv == TypeOK /\ ModeOK /\ StructuredForGood /\ EndsOK /\ BuffersOK /\ FreshOK
            /\ DiskOK /\ SevereIsFlushed /\ SinksOK
-----------------------------------------------------------------------------
(* The constants.                                                          *)

LEMMA RecordsAreFinite ==
  /\ IsFiniteSet(Records) /\ Cardinality(Records) \in Nat
  /\ IsFiniteSet(Buffers) /\ Cardinality(Buffers) = Cardinality(Records)
<1>1. IsFiniteSet(1..2) /\ {1, 2} = 1..2
  <2>1. {1, 2} = 1..2
    OBVIOUS
  <2>2. IsFiniteSet(1..2)
    BY FS_Interval, 1 \in Int, 2 \in Int
  <2> QED
    BY <2>1, <2>2
<1>2. IsFiniteSet(Records)
  BY <1>1, FS_Product, FrontEndAssumption DEF Records
<1>3. Cardinality(Records) \in Nat
  BY <1>2, FS_CardinalityType
<1> QED
  BY <1>2, <1>3, FS_Interval DEF Buffers

LEMMA NilIsNoValue ==
  /\ Nil \notin Records /\ Nil \notin Buffers /\ Nil \notin Messages /\ Nil \notin Deaths
  /\ \A c \in Callers : <<c, 1>> \in Records /\ <<c, 2>> \in Records
BY FrontEndAssumption, RecordsAreFinite DEF Buffers, Records

LEMMA StructuredSinksType == StructuredSinks \in Seq(AllSinks)
<1>1. \A i \in 1..Len(StructuredSinks) : StructuredSinks[i] \in AllSinks
  BY FrontEndAssumption DEF AllSinks, Range
<1> QED
  BY <1>1, FrontEndAssumption

LEMMA InOrderFacts ==
  ASSUME NEW S \in SUBSET TextSinks
  PROVE  InOrder(S) \in Seq(AllSinks) /\ Range(InOrder(S)) = S
<1> DEFINE a == IF "stderr" \in S THEN <<"stderr">> ELSE <<>>
           b == IF "file" \in S THEN <<"file">> ELSE <<>>
<1>0. ASSUME NEW s \in AllSinks
      PROVE  /\ <<s>> \in Seq(AllSinks) /\ Range(<<s>>) = {s}
             /\ <<>> \in Seq(AllSinks) /\ Range(<<>>) = {}
  <2>1. DOMAIN <<s>> = {1} /\ <<s>>[1] = s /\ DOMAIN <<>> = {}
    OBVIOUS
  <2> QED
    BY <2>1 DEF Range
<1>1. a \in Seq(AllSinks) /\ Range(a) = {"stderr"} \cap S
  BY <1>0 DEF AllSinks, TextSinks
<1>2. b \in Seq(AllSinks) /\ Range(b) = {"file"} \cap S
  BY ZenonT(30), <1>0 DEF AllSinks, TextSinks
<1>3. InOrder(S) = a \o b
  BY DEF InOrder
<1> HIDE DEF a, b
<1>4. InOrder(S) \in Seq(AllSinks) /\ Range(InOrder(S)) = Range(a) \cup Range(b)
  BY <1>1, <1>2, <1>3, ConcatProperties, RangeConcatenation
<1>5. \A x \in S : x = "stderr" \/ x = "file"
  BY DEF TextSinks
<1> QED
  BY <1>1, <1>2, <1>4, <1>5

(* Taking the next sink.                                                   *)
LEMMA NextSink ==
  ASSUME NEW s \in Seq(AllSinks), s # <<>>
  PROVE  /\ Tail(s) \in Seq(AllSinks) /\ Head(s) \in AllSinks
         /\ Range(s) = {Head(s)} \cup Range(Tail(s))
<1>1. /\ Tail(s) \in Seq(AllSinks) /\ Len(Tail(s)) = Len(s) - 1 /\ Head(s) \in AllSinks
      /\ \A i \in 1..Len(Tail(s)) : Tail(s)[i] = s[i + 1]
      /\ Len(s) \in Nat /\ Len(s) >= 1 /\ Head(s) = s[1]
      /\ DOMAIN s = 1..Len(s) /\ DOMAIN Tail(s) = 1..Len(Tail(s))
  BY HeadTailProperties
<1>2. ASSUME NEW x \in Range(s) PROVE x = Head(s) \/ x \in Range(Tail(s))
  <2>1. PICK i \in 1..Len(s) : x = s[i]
    BY <1>1 DEF Range
  <2>2. CASE i # 1
    <3>1. i - 1 \in 1..Len(Tail(s)) /\ Tail(s)[i - 1] = x
      BY <1>1, <2>1, <2>2
    <3> QED
      BY <1>1, <3>1 DEF Range
  <2> QED
    BY <1>1, <2>1, <2>2
<1>3. ASSUME NEW x, x = Head(s) \/ x \in Range(Tail(s)) PROVE x \in Range(s)
  <2>1. CASE x = Head(s)
    BY <1>1, <2>1 DEF Range
  <2>2. CASE x \in Range(Tail(s))
    <3>1. PICK i \in 1..Len(Tail(s)) : x = Tail(s)[i]
      BY <1>1, <2>2 DEF Range
    <3>2. i + 1 \in 1..Len(s) /\ s[i + 1] = x
      BY <1>1, <3>1
    <3> QED
      BY <1>1, <3>2 DEF Range
  <2> QED
    BY <1>3, <2>1, <2>2
<1> QED
  BY <1>1, <1>2, <1>3
-----------------------------------------------------------------------------
(* The routes.                                                             *)
Thens == {"return", "abort", "exit1", "exit2"}

LEMMA FamilyRouteFacts ==
  ASSUME NEW f \in Functions, f.family \notin {"logger", "bridge"},
         NEW m \in {"printf", "structured"}, NEW t \in Thens, NEW b \in Thens
  PROVE  LET r == FamilyRoute(f, m, t, b)
         IN  /\ r.pc \in {"push", "route", "filter"} /\ r.then \in {t, b}
             /\ r.pc = "route" => r.fn \in Functions /\ r.fn.family = f.family
             /\ m = "structured" => r.pc = "push"
<1>1. CASE m = "printf" /\ f.form \in {"print", "Context"}
  <2>1. FamilyRoute(f, m, t, b) = To("route", Delegate(f), b)
    BY <1>1 DEF FamilyRoute
  <2>2. Delegate(f) \in Functions /\ Delegate(f).family = f.family
    BY <1>1 DEF Delegate, Functions, DebugCalls, InfoCalls, WarningCalls, ErrorCalls, FatalCalls,
       ExitCalls, VerboseCalls, LoggerCalls, BridgeCalls, Forms
  <2> QED
    BY <1>1, <2>1, <2>2 DEF To
<1>2. CASE m = "structured"
  BY <1>2 DEF FamilyRoute, To
<1>3. CASE m = "printf" /\ f.form \notin {"print", "Context"}
  BY <1>3 DEF FamilyRoute, To
<1> QED
  BY <1>1, <1>2, <1>3

(* What a route leads to, with f the function, m the mode, t what the call *)
(* does in the end.                                                        *)
LEMMA RouteFacts ==
  ASSUME NEW f \in Functions, NEW m \in {"printf", "structured"}, NEW t \in Thens
  PROVE  LET r == RouteOf(f, m, t)
         IN  /\ r.pc \in {"push", "route", "filter"} /\ r.then \in Thens
             /\ r.pc = "route" => r.fn \in Functions
             /\ m = "structured" /\ AsksMode(f) => r.pc = "push"
             /\ f.family = "level" => r.then = t /\ (r.pc = "route" => r.fn.family = "level")
<1> USE DEF Thens
<1>1. CASE f.family = "level"
  <2>1. RouteOf(f, m, t) = FamilyRoute(f, m, t, t)
    BY <1>1 DEF RouteOf, LevelRoute
  <2> QED
    BY <1>1, <2>1, FamilyRouteFacts
<1>2. CASE f.family \in {"fatal", "exit"}
  <2>1. PICK u \in Thens : RouteOf(f, m, t) = FamilyRoute(f, m, u, t)
    BY <1>2 DEF RouteOf, FatalRoute, ExitRoute
  <2> QED
    BY <1>2, <2>1, FamilyRouteFacts
<1>3. CASE f.family = "verbose"
  <2>1. RouteOf(f, m, t) = IF AsksMode(f) THEN FamilyRoute(f, m, t, t) ELSE To("filter", f, t)
    BY <1>3 DEF RouteOf, VerboseRoute
  <2>2. CASE AsksMode(f)
    BY <1>3, <2>1, <2>2, FamilyRouteFacts
  <2>3. CASE ~AsksMode(f)
    BY <1>3, <2>1, <2>3 DEF To
  <2> QED
    BY <2>2, <2>3
<1>4. CASE f.family = "logger"
  <2> DEFINE global == [family |-> IF f.sev = "FATAL" THEN "fatal" ELSE "level", sev |-> f.sev,
                        form |-> CASE f.form = "print" -> "Depth" [] f.form = "f" -> "Depthf"
                                   [] OTHER -> "ln"]
  <2>1. RouteOf(f, m, t) = LoggerRoute(f, m, t)
    BY <1>4 DEF RouteOf
  <2>2. CASE m = "structured"
    <3>1. \E u \in Thens : LoggerRoute(f, m, t) = To("push", f, u)
      BY <2>2 DEF LoggerRoute
    <3> QED
      BY <1>4, <2>1, <3>1 DEF To
  <2>3. CASE m = "printf"
    <3>1. \/ LoggerRoute(f, m, t) = To("filter", f, "abort")
          \/ LoggerRoute(f, m, t) = To("route", global, t)
      BY <2>3 DEF LoggerRoute
    <3>2. global \in Functions
      <4>1. f.sev \in Severities /\ f.form \in {"print", "f", "ln"}
        BY <1>4 DEF Functions, DebugCalls, InfoCalls, WarningCalls, ErrorCalls, FatalCalls,
           ExitCalls, VerboseCalls, LoggerCalls, BridgeCalls
      <4>2. /\ global.family \in {"level", "fatal"} /\ (global.family = "fatal" <=> f.sev = "FATAL")
            /\ global.sev = f.sev /\ global.form \in Forms
        BY <4>1 DEF Forms
      <4> QED
        BY <4>1, <4>2 DEF Functions, DebugCalls, InfoCalls, WarningCalls, ErrorCalls, FatalCalls,
           Severities, Low
    <3> HIDE DEF global
    <3> QED
      BY <1>4, <2>1, <2>3, <3>1, <3>2 DEF To
  <2> QED
    BY <2>2, <2>3
<1>5. CASE f.family = "bridge"
  BY <1>5 DEF RouteOf, To, AsksMode
<1>6. f.family \in {"level", "fatal", "exit", "verbose", "logger", "bridge"}
  BY DEF Functions, DebugCalls, InfoCalls, WarningCalls, ErrorCalls, FatalCalls,
     ExitCalls, VerboseCalls, LoggerCalls, BridgeCalls
<1> QED
  BY <1>1, <1>2, <1>3, <1>4, <1>5, <1>6

-----------------------------------------------------------------------------
(* What the steps do to a call.                                            *)

Others(c) == \A d \in Callers : d # c => call'[d] = call[d]
CallType == call \in [Callers -> Locals]

(* The fields that no step changes between the routing and the end.        *)
SameCall(c) == /\ call'[c].fn = call[c].fn /\ call'[c].sev = call[c].sev
               /\ call'[c].bound = call[c].bound /\ call'[c].n = call[c].n
               /\ call'[c].then = call[c].then
SameSinks(c) == /\ call'[c].todo = call[c].todo /\ call'[c].offered = call[c].offered
                /\ call'[c].sampled = call[c].sampled

LEMMA SetFields ==
  ASSUME NEW l \in Locals
  PROVE  /\ \A x \in Pcs : [l EXCEPT !.pc = x] \in Locals
         /\ \A x \in Functions \cup {Nil} : [l EXCEPT !.fn = x] \in Locals
         /\ \A x \in {"low", "ERROR", "FATAL"} : [l EXCEPT !.sev = x] \in Locals
         /\ \A x \in BOOLEAN : /\ [l EXCEPT !.bound = x] \in Locals
                               /\ [l EXCEPT !.sampled = x] \in Locals
                               /\ [l EXCEPT !.failed = x] \in Locals
         /\ \A x \in {1, 2} : [l EXCEPT !.n = x] \in Locals
         /\ \A x \in Seq(AllSinks) : [l EXCEPT !.todo = x] \in Locals
         /\ \A x \in Buffers \cup {Nil} : [l EXCEPT !.buf = x] \in Locals
         /\ \A x \in SUBSET AllSinks : [l EXCEPT !.offered = x] \in Locals
         /\ \A x \in Thens : [l EXCEPT !.then = x] \in Locals
BY ZenonT(30) DEF Locals, Thens

LEMMA SetCall ==
  ASSUME CallType, NEW c \in Callers, NEW l \in Locals, call' = [call EXCEPT ![c] = l]
  PROVE  CallType' /\ call'[c] = l /\ Others(c)
BY DEF CallType, Others

LEMMA GotoFacts ==
  ASSUME CallType, NEW c \in Callers, NEW x \in Pcs, Goto(c, x)
  PROVE  /\ CallType' /\ Others(c) /\ SameCall(c) /\ SameSinks(c)
         /\ call'[c].pc = x /\ call'[c].buf = call[c].buf
<1> DEFINE l == [call[c] EXCEPT !.pc = x]
<1>1. call[c] \in Locals
  BY DEF CallType
<1>2. l \in Locals /\ call' = [call EXCEPT ![c] = l]
  BY <1>1, SetFields DEF Goto
<1>3. CallType' /\ call'[c] = l /\ Others(c)
  BY <1>2, SetCall
<1> QED
  BY <1>1, <1>3 DEF SameCall, SameSinks, Locals

LEMMA OfferedFacts ==
  ASSUME CallType, NEW c \in Callers, NEW x \in Pcs, NEW err \in BOOLEAN,
         call[c].todo # <<>>, Offered(c, x, err)
  PROVE  /\ CallType' /\ Others(c) /\ SameCall(c)
         /\ call'[c].pc = x /\ call'[c].buf = call[c].buf
         /\ call'[c].sampled = call[c].sampled
         /\ Range(call[c].todo) = {Head(call[c].todo)} \cup Range(call'[c].todo)
         /\ call'[c].offered = call[c].offered \cup {Head(call[c].todo)}
<1> DEFINE s == call[c].todo
           l1 == [call[c] EXCEPT !.pc = x]
           l2 == [l1 EXCEPT !.todo = Tail(s)]
           l3 == [l2 EXCEPT !.offered = call[c].offered \cup {Head(s)}]
           l4 == [l3 EXCEPT !.failed = call[c].failed \/ err]
<1>1. call[c] \in Locals /\ s \in Seq(AllSinks) /\ call[c].offered \subseteq AllSinks
      /\ call[c].failed \in BOOLEAN
  BY DEF CallType, Locals
<1>2. /\ Tail(s) \in Seq(AllSinks) /\ Head(s) \in AllSinks
      /\ Range(s) = {Head(s)} \cup Range(Tail(s))
  BY <1>1, NextSink
<1>3. l1 \in Locals
  BY <1>1, SetFields
<1>4. l2 \in Locals
  BY <1>2, <1>3, SetFields
<1>5. l3 \in Locals
  BY <1>1, <1>2, <1>4, SetFields
<1>6. l4 \in Locals
  BY <1>1, <1>5, SetFields
<1>7. call' = [call EXCEPT ![c] = l4]
  BY <1>1 DEF Offered, CallType, Locals
<1>8. CallType' /\ call'[c] = l4 /\ Others(c)
  BY <1>6, <1>7, SetCall
<1>9. /\ l4.pc = x /\ l4.todo = Tail(s) /\ l4.offered = call[c].offered \cup {Head(s)}
      /\ l4.fn = call[c].fn /\ l4.sev = call[c].sev /\ l4.bound = call[c].bound
      /\ l4.n = call[c].n /\ l4.then = call[c].then /\ l4.buf = call[c].buf
      /\ l4.sampled = call[c].sampled
  BY <1>1 DEF Locals
<1> QED
  BY <1>2, <1>8, <1>9 DEF SameCall

LEMMA ToSinksFacts ==
  ASSUME CallType, NEW c \in Callers, NEW x \in BOOLEAN, ToStructuredSinks(c, x)
  PROVE  /\ CallType' /\ Others(c) /\ SameCall(c)
         /\ call'[c].pc = "structured sinks" /\ call'[c].buf = Nil
         /\ call'[c].sampled = x /\ call'[c].offered = call[c].offered
         /\ call'[c].todo = StructuredSinks
<1> DEFINE l1 == [call[c] EXCEPT !.pc = "structured sinks"]
           l2 == [l1 EXCEPT !.todo = StructuredSinks]
           l3 == [l2 EXCEPT !.buf = Nil]
           l4 == [l3 EXCEPT !.sampled = x]
<1>1. call[c] \in Locals /\ "structured sinks" \in Pcs
  BY DEF CallType, Pcs
<1>2. l1 \in Locals
  BY <1>1, SetFields
<1>3. l2 \in Locals
  BY <1>2, SetFields, StructuredSinksType
<1>4. l3 \in Locals
  BY <1>3, SetFields
<1>5. l4 \in Locals
  BY <1>4, SetFields
<1>6. call' = [call EXCEPT ![c] = l4]
  BY <1>1 DEF ToStructuredSinks, CallType, Locals
<1>7. CallType' /\ call'[c] = l4 /\ Others(c)
  BY <1>5, <1>6, SetCall
<1>8. /\ l4.pc = "structured sinks" /\ l4.todo = StructuredSinks /\ l4.offered = call[c].offered
      /\ l4.fn = call[c].fn /\ l4.sev = call[c].sev /\ l4.bound = call[c].bound
      /\ l4.n = call[c].n /\ l4.then = call[c].then /\ l4.buf = Nil /\ l4.sampled = x
  BY <1>1 DEF Locals
<1> QED
  BY <1>7, <1>8 DEF SameCall

LEMMA IdleType == Idle \in Locals
BY DEF Idle, Locals, Pcs

LEMMA LeaveFacts ==
  ASSUME CallType, NEW c \in Callers, Leave(c)
  PROVE  /\ CallType' /\ Others(c)
         /\ call'[c].pc = IF call[c].then = "return" THEN "returned" ELSE "close"
         /\ call'[c].n = call[c].n /\ call'[c].then = call[c].then
         /\ call'[c].bound = FALSE /\ call'[c].buf = Nil
<1> DEFINE x == IF call[c].then = "return" THEN "returned" ELSE "close"
           l1 == [Idle EXCEPT !.pc = x]
           l2 == [l1 EXCEPT !.n = call[c].n]
           l3 == [l2 EXCEPT !.then = call[c].then]
<1>1. call[c].n \in {1, 2} /\ call[c].then \in Thens
  BY DEF CallType, Locals, Thens
<1>2. l1 \in Locals
  BY IdleType, SetFields DEF Pcs
<1>3. l2 \in Locals
  BY <1>1, <1>2, SetFields
<1>4. l3 \in Locals
  BY <1>1, <1>3, SetFields
<1>5. call' = [call EXCEPT ![c] = l3]
  BY DEF Leave
<1>6. CallType' /\ call'[c] = l3 /\ Others(c)
  BY <1>4, <1>5, SetCall
<1>7. l3.pc = x /\ l3.n = call[c].n /\ l3.then = call[c].then /\ l3.bound = FALSE /\ l3.buf = Nil
  BY DEF Idle
<1> QED
  BY <1>6, <1>7

LEMMA UseFacts ==
  ASSUME CallType, outputs \in Settings, NEW c \in Callers, NEW b \in Buffers, Use(c, b)
  PROVE  /\ CallType' /\ Others(c) /\ SameCall(c)
         /\ call'[c].pc = "emit" /\ call'[c].buf = b
         /\ call'[c].offered = call[c].offered /\ Range(call'[c].todo) = Enabled(c)
<1> DEFINE s == InOrder(Enabled(c))
           l1 == [call[c] EXCEPT !.pc = "emit"]
           l2 == [l1 EXCEPT !.buf = b]
           l3 == [l2 EXCEPT !.todo = s]
<1>1. call[c] \in Locals /\ "emit" \in Pcs
  BY DEF CallType, Pcs
<1>2. s \in Seq(AllSinks) /\ Range(s) = Enabled(c)
  <2>1. Enabled(c) \in SUBSET TextSinks
    BY FrontEndAssumption DEF Enabled
  <2> QED
    BY <2>1, InOrderFacts
<1> HIDE DEF s
<1>3. l1 \in Locals
  BY <1>1, SetFields
<1>4. l2 \in Locals
  BY <1>3, SetFields
<1>5. l3 \in Locals
  BY <1>2, <1>4, SetFields
<1>6. call' = [call EXCEPT ![c] = l3]
  BY <1>1 DEF Use, CallType, Locals, s
<1>7. CallType' /\ call'[c] = l3 /\ Others(c)
  BY <1>5, <1>6, SetCall
<1>8. /\ l3.pc = "emit" /\ l3.todo = s /\ l3.offered = call[c].offered
      /\ l3.fn = call[c].fn /\ l3.sev = call[c].sev /\ l3.bound = call[c].bound
      /\ l3.n = call[c].n /\ l3.then = call[c].then /\ l3.buf = b
  BY <1>1 DEF Locals
<1> QED
  BY <1>2, <1>7, <1>8 DEF SameCall

LEMMA CallFacts ==
  ASSUME CallType, NEW c \in Callers, Call(c)
  PROVE  /\ CallType' /\ Others(c) /\ SameSinks(c)
         /\ call[c].pc = "idle" /\ call'[c].pc = "route" /\ call'[c].fn \in Functions
         /\ call'[c].bound <=> (mode = "structured" /\ AsksMode(call'[c].fn))
         /\ call'[c].n = call[c].n /\ call'[c].then = call[c].then
         /\ call'[c].buf = call[c].buf
<1>1. call[c] \in Locals /\ "route" \in Pcs /\ call[c].pc = "idle"
  BY DEF CallType, Pcs, Call, At
<1>2. PICK f \in Uses(c) :
        call' = [call EXCEPT ![c].pc = "route", ![c].fn = f,
                             ![c].sev = IF f.sev \in Low THEN "low" ELSE f.sev,
                             ![c].bound = (mode = "structured" /\ AsksMode(f))]
  BY DEF Call
<1> DEFINE x == IF f.sev \in Low THEN "low" ELSE f.sev
           y == mode = "structured" /\ AsksMode(f)
           l1 == [call[c] EXCEPT !.pc = "route"]
           l2 == [l1 EXCEPT !.fn = f]
           l3 == [l2 EXCEPT !.sev = x]
           l4 == [l3 EXCEPT !.bound = y]
<1>3. f \in Functions
  BY FrontEndAssumption
<1>4. x \in {"low", "ERROR", "FATAL"}
  BY <1>3 DEF Functions, DebugCalls, InfoCalls, WarningCalls, ErrorCalls, FatalCalls,
     ExitCalls, VerboseCalls, LoggerCalls, BridgeCalls, Low, Severities
<1>5. y \in BOOLEAN
  OBVIOUS
<1>6. l1 \in Locals
  BY <1>1, SetFields
<1>7. l2 \in Locals
  BY <1>3, <1>6, SetFields
<1> HIDE DEF x
<1>8. l3 \in Locals
  BY <1>4, <1>7, SetFields
<1>9. l4 \in Locals
  <2> HIDE DEF y, l3
  <2> QED
    BY <1>5, <1>8, SetFields
<1>10. call' = [call EXCEPT ![c] = l4]
  BY <1>1, <1>2 DEF CallType, Locals, x
<1>11. CallType' /\ call'[c] = l4 /\ Others(c)
  BY <1>9, <1>10, SetCall
<1>12. /\ l4.pc = "route" /\ l4.todo = call[c].todo /\ l4.offered = call[c].offered
       /\ l4.sampled = call[c].sampled /\ l4.fn = f /\ l4.bound = y
       /\ l4.n = call[c].n /\ l4.then = call[c].then /\ l4.buf = call[c].buf
  BY <1>1 DEF Locals
<1> QED
  BY <1>1, <1>3, <1>11, <1>12 DEF SameSinks

LEMMA RouteStepFacts ==
  ASSUME TypeOK, ModeOK, NEW c \in Callers, Route(c)
  PROVE  LET f == call[c].fn
         IN  /\ CallType' /\ Others(c) /\ SameSinks(c)
             /\ call[c].pc = "route" /\ call'[c].pc \in {"push", "route", "filter"}
             /\ f \in Functions /\ (call'[c].pc = "route" => call'[c].fn \in Functions)
             /\ mode = "structured" /\ AsksMode(f) => call'[c].pc = "push"
             /\ f.family = "level" => /\ call'[c].then = call[c].then
                                      /\ call'[c].pc = "route" => call'[c].fn.family = "level"
             /\ call'[c].n = call[c].n /\ call'[c].bound = call[c].bound
             /\ call'[c].buf = call[c].buf
<1> DEFINE f == call[c].fn
           t == call[c].then
           r == RouteOf(f, mode, t)
           x == IF r.pc = "route" THEN r.fn ELSE Nil
           l1 == [call[c] EXCEPT !.pc = r.pc]
           l2 == [l1 EXCEPT !.then = r.then]
           l3 == [l2 EXCEPT !.fn = x]
<1>1. /\ CallType /\ call[c] \in Locals /\ call[c].pc = "route" /\ f \in Functions
      /\ mode \in {"printf", "structured"} /\ t \in Thens
      /\ call' = [call EXCEPT ![c].pc = r.pc, ![c].then = r.then,
                              ![c].fn = IF r.pc = "route" THEN r.fn ELSE Nil]
  BY DEF CallType, TypeOK, ModeOK, Route, At, Locals, Thens
<1>2. /\ r.pc \in {"push", "route", "filter"} /\ r.then \in Thens
      /\ r.pc = "route" => r.fn \in Functions
      /\ mode = "structured" /\ AsksMode(f) => r.pc = "push"
      /\ f.family = "level" => r.then = t /\ (r.pc = "route" => r.fn.family = "level")
  BY <1>1, RouteFacts
<1> HIDE DEF r
<1>3. l1 \in Locals
  BY <1>1, <1>2, SetFields DEF Pcs
<1>4. l2 \in Locals
  BY <1>2, <1>3, SetFields
<1>5. x \in Functions \cup {Nil}
  BY <1>2
<1>6. l3 \in Locals
  BY <1>4, <1>5, SetFields
<1>7. call' = [call EXCEPT ![c] = l3]
  BY <1>1 DEF CallType, Locals
<1>8. CallType' /\ call'[c] = l3 /\ Others(c)
  BY <1>1, <1>6, <1>7, SetCall
<1>9. /\ l3.pc = r.pc /\ l3.then = r.then /\ l3.fn = x /\ l3.n = call[c].n
      /\ l3.bound = call[c].bound /\ l3.buf = call[c].buf /\ l3.todo = call[c].todo
      /\ l3.offered = call[c].offered /\ l3.sampled = call[c].sampled
  BY <1>1 DEF Locals
<1> QED
  BY ZenonT(30), <1>1, <1>2, <1>8, <1>9 DEF SameSinks

LEMMA AbortFacts ==
  ASSUME CallType, NEW c \in Callers, AbortReturns(c)
  PROVE  /\ CallType' /\ Others(c)
         /\ call[c].pc = "end" /\ call[c].then = "abort" /\ call'[c].pc = "route"
         /\ call'[c].n = 2 /\ call'[c].then = "exit2" /\ call'[c].buf = Nil
         /\ call'[c].fn \in Functions /\ call'[c].fn.family = "level" /\ AsksMode(call'[c].fn)
         /\ call'[c].bound <=> mode = "structured"
<1> DEFINE f == [family |-> "level", sev |-> "ERROR", form |-> "f"]
           b == mode = "structured"
           l1 == [Idle EXCEPT !.pc = "route"]
           l2 == [l1 EXCEPT !.n = 2]
           l3 == [l2 EXCEPT !.sev = "ERROR"]
           l4 == [l3 EXCEPT !.fn = f]
           l5 == [l4 EXCEPT !.bound = b]
           l6 == [l5 EXCEPT !.then = "exit2"]
<1>1. f \in Functions /\ f.family = "level" /\ AsksMode(f)
  BY DEF Functions, ErrorCalls, Forms, AsksMode
<1>2. call' = [call EXCEPT ![c] = l6] /\ call[c].pc = "end" /\ call[c].then = "abort"
  BY DEF AbortReturns, At
<1>3. l1 \in Locals
  BY IdleType, SetFields DEF Pcs
<1>4. l2 \in Locals
  BY <1>3, SetFields
<1>5. l3 \in Locals
  BY <1>4, SetFields
<1> HIDE DEF f
<1>6. l4 \in Locals
  BY <1>1, <1>5, SetFields
<1>7. l5 \in Locals
  <2>1. b \in BOOLEAN
    OBVIOUS
  <2> HIDE DEF b, l4
  <2> QED
    BY <1>6, <2>1, SetFields
<1>8. l6 \in Locals
  BY <1>7, SetFields DEF Thens
<1>9. CallType' /\ call'[c] = l6 /\ Others(c)
  BY <1>2, <1>8, SetCall
<1>10. l6.pc = "route" /\ l6.n = 2 /\ l6.then = "exit2" /\ l6.buf = Nil /\ l6.fn = f /\ l6.bound = b
  BY DEF Idle
<1> HIDE DEF l6
<1>11. /\ call'[c].pc = "route" /\ call'[c].n = 2 /\ call'[c].then = "exit2" /\ call'[c].buf = Nil
       /\ call'[c].fn = f /\ call'[c].bound = b
  BY <1>9, <1>10
<1> QED
  BY <1>1, <1>2, <1>9, <1>11

LEMMA EndFacts ==
  ASSUME CallType, NEW c \in Callers, End(c)
  PROVE  /\ CallType' /\ call[c].pc = "end" /\ call'[c] = call[c]
         /\ \A d \in Callers : d # c => call'[d] = Idle
         /\ dead = Nil /\ dead' = [by |-> c, code |-> call[c].then]
BY IdleType DEF End, At, CallType

(* textPrintf always finds a buffer for its record: the records in buffers *)
(* are distinct, and the call's own is not among them.                     *)
LEMMA FormatFacts ==
  ASSUME TypeOK, BuffersOK, FreshOK, NEW c \in Callers, Format(c)
  PROVE  \E b \in Buffers : text[b] = Nil /\ Use(c, b)
<1>1. dead = Nil /\ call[c].pc = "filter" /\ Record(c) \in Records
      /\ text \in [Buffers -> Records \cup {Nil}]
  BY DEF Format, At, TypeOK, Record, Records, Locals
<1>2. ASSUME Free = {} PROVE FALSE
  <2> DEFINE S == Records \ {Record(c)}
  <2>1. \A b \in Buffers : text[b] \in S
    BY <1>1, <1>2 DEF Free, FreshOK
  <2>2. text \in [Buffers -> S]
    BY <1>1, <2>1
  <2>3. IsFiniteSet(S) /\ Cardinality(S) = Cardinality(Records) - 1
    BY <1>1, RecordsAreFinite, FS_RemoveElement
  <2>4. Cardinality(S) < Cardinality(Buffers)
    BY <2>3, RecordsAreFinite
  <2> HIDE DEF S
  <2>5. PICK x, y \in Buffers : x # y /\ text[x] = text[y]
    BY <2>2, <2>3, <2>4, RecordsAreFinite, FS_PigeonHole
  <2>6. text[x] # Nil
    BY <2>1, NilIsNoValue DEF S
  <2> QED
    BY <2>5, <2>6 DEF BuffersOK
<1>3. Free \subseteq Nat
  BY RecordsAreFinite DEF Free, Buffers
<1> DEFINE b == CHOOSE b \in Free : \A d \in Free : b <= d
<1>4. b \in Free
  BY <1>2, <1>3, LeastIsIn
<1>5. Use(c, b)
  BY DEF Format
<1> HIDE DEF b
<1> QED
  BY <1>4, <1>5 DEF Free

(* The steps between the routing and the end, and the last of a pipeline.  *)
SettledStep(c) ==
  \/ NotVerbose(c) \/ NoTextSinks(c) \/ Sampled(c) \/ Format(c)
  \/ EmitStderr(c) \/ EmitNoFile(c) \/ EmitFile(c) \/ EmitAck(c) \/ Store(c)
  \/ StructuredSink(c) \/ (Push(c) /\ Severe(c)) \/ CloseCall(c) \/ CloseReturn(c)

LeavingStep(c) == Sinkf(c) \/ PushNothing(c) \/ (Push(c) /\ ~Severe(c)) \/ PushAck(c)

Settled ==
  {<<"route", "returned">>, <<"filter", "structured sinks">>, <<"filter", "emit">>,
   <<"emit", "emit">>, <<"emit", "ack">>, <<"ack", "emit">>, <<"emit", "structured sinks">>,
   <<"structured sinks", "structured sinks">>, <<"push", "push ack">>,
   <<"close", "closing">>, <<"close", "end">>, <<"closing", "end">>}

LEMMA StepKinds ==
  ASSUME NEW c \in Callers, Step(c)
  PROVE  ReadFlag(c) \/ Route(c) \/ SettledStep(c) \/ LeavingStep(c) \/ End(c) \/ AbortReturns(c)
BY DEF Step, SettledStep, LeavingStep

LEMMA SettledFacts ==
  ASSUME TypeOK, BuffersOK, FreshOK, NEW c \in Callers, SettledStep(c)
  PROVE  /\ CallType' /\ Others(c) /\ SameCall(c) /\ dead = Nil
         /\ <<call[c].pc, call'[c].pc>> \in Settled
<1>0. CallType /\ outputs \in Settings
  BY DEF TypeOK, CallType
<1> USE DEF Settled, Pcs, At
<1>1. CASE NotVerbose(c)
  BY <1>0, <1>1, GotoFacts DEF NotVerbose
<1>2. CASE NoTextSinks(c) \/ Sampled(c)
  BY <1>0, <1>2, ToSinksFacts DEF NoTextSinks, Sampled
<1>3. CASE Format(c)
  <2>1. PICK b \in Buffers : Use(c, b)
    BY <1>3, FormatFacts
  <2>2. dead = Nil /\ call[c].pc = "filter"
    BY <1>3 DEF Format
  <2> QED
    BY <1>0, <2>1, <2>2, UseFacts
<1>4. CASE EmitStderr(c) \/ EmitNoFile(c) \/ StructuredSink(c)
  <2>1. PICK x \in {"emit", "structured sinks"}, err \in BOOLEAN :
          dead = Nil /\ call[c].pc = x /\ call[c].todo # <<>> /\ Offered(c, x, err)
    BY <1>4 DEF EmitStderr, EmitNoFile, StructuredSink
  <2> QED
    BY <1>0, <2>1, OfferedFacts
<1>5. CASE EmitFile(c)
  <2>1. PICK x \in {"emit", "ack"} :
          dead = Nil /\ call[c].pc = "emit" /\ call[c].todo # <<>> /\ Offered(c, x, FALSE)
    BY <1>5 DEF EmitFile
  <2> QED
    BY <1>0, <2>1, OfferedFacts
<1>6. CASE EmitAck(c)
  BY <1>0, <1>6, GotoFacts DEF EmitAck
<1>7. CASE Store(c)
  BY <1>0, <1>7, ToSinksFacts DEF Store
<1>8. CASE Push(c) /\ Severe(c)
  BY <1>0, <1>8, GotoFacts DEF Push
<1>9. CASE CloseCall(c)
  BY <1>0, <1>9, GotoFacts DEF CloseCall
<1>10. CASE CloseReturn(c)
  BY <1>0, <1>10, GotoFacts DEF CloseReturn
<1> QED
  BY <1>1, <1>2, <1>3, <1>4, <1>5, <1>6, <1>7, <1>8, <1>9, <1>10 DEF SettledStep

LEMMA LeavingFacts ==
  ASSUME TypeOK, NEW c \in Callers, LeavingStep(c)
  PROVE  /\ CallType' /\ Others(c) /\ dead = Nil
         /\ call[c].pc \in {"structured sinks", "push", "push ack"}
         /\ call'[c].pc = IF call[c].then = "return" THEN "returned" ELSE "close"
         /\ call'[c].n = call[c].n /\ call'[c].then = call[c].then
         /\ call'[c].bound = FALSE /\ call'[c].buf = Nil
<1>1. Leave(c) /\ dead = Nil /\ call[c].pc \in {"structured sinks", "push", "push ack"}
  BY DEF LeavingStep, Sinkf, PushNothing, Push, PushAck, At
<1>2. CallType
  BY DEF TypeOK, CallType
<1> QED
  BY <1>1, <1>2, LeaveFacts

-----------------------------------------------------------------------------
(* Preservation, part by part.                                             *)

LEMMA ModeInv ==
  ASSUME FrontInv, Next
  PROVE  ModeOK' /\ StructuredForGood'
<1>1. /\ TypeOK /\ ModeOK /\ StructuredForGood /\ BuffersOK /\ FreshOK /\ CallType
  BY DEF FrontInv, TypeOK, CallType
<1> DEFINE P == {"filter", "emit", "ack", "structured sinks"}
           Good(c) == /\ call[c].bound => mode = "structured"
                      /\ call[c].pc = "route" => call[c].fn \in Functions
                      /\ call[c].pc = "route" /\ call[c].bound => AsksMode(call[c].fn)
                      /\ call[c].pc \in P => ~call[c].bound
<1>2. \A c \in Callers : Good(c)
  BY <1>1 DEF ModeOK, StructuredForGood
<1>3. ASSUME UNCHANGED modes, \A c \in Callers : Good(c)'
      PROVE  ModeOK' /\ StructuredForGood'
  BY <1>1, <1>3 DEF ModeOK, StructuredForGood, modes
<1>4. ASSUME UNCHANGED modes, NEW c \in Callers, Others(c), Good(c)'
      PROVE  ModeOK' /\ StructuredForGood'
  <2>1. ASSUME NEW d \in Callers, d # c PROVE Good(d)'
    <3>1. call'[d] = call[d] /\ mode' = mode
      BY <1>4, <2>1 DEF Others, modes
    <3> QED
      BY <1>2, <3>1 DEF AsksMode
  <2> HIDE DEF Good
  <2> QED
    BY <1>3, <1>4, <2>1
<1>5. ASSUME NEW m, SetLogMode(m) PROVE ModeOK' /\ StructuredForGood'
  <2>1. ~modeSet /\ modeSet' = TRUE /\ flagRead' = TRUE /\ call' = call
    BY <1>5 DEF SetLogMode
  <2>2. \A c \in Callers : ~call[c].bound
    <3>1. \A c \in Callers : call[c].bound \in BOOLEAN
      BY <1>1 DEF CallType, Locals
    <3> QED
      BY <1>1, <2>1, <3>1 DEF ModeOK
  <2> QED
    BY <1>1, <2>1, <2>2 DEF ModeOK, StructuredForGood
<1>6. ASSUME NEW c \in Callers, ReadFlag(c) PROVE ModeOK' /\ StructuredForGood'
  <2>1. /\ ~flagRead /\ flagRead' = TRUE /\ call' = call
        /\ (mode' = "structured" /\ modeSet' = TRUE) \/ (mode' = mode /\ modeSet' = modeSet)
    BY <1>6 DEF ReadFlag
  <2> QED
    BY <1>1, <2>1 DEF ModeOK, StructuredForGood, AsksMode
<1>7. ASSUME NEW c \in Callers, Call(c) PROVE ModeOK' /\ StructuredForGood'
  <2>1. UNCHANGED modes
    BY <1>7 DEF Call
  <2>2. /\ Others(c) /\ call'[c].pc = "route" /\ call'[c].fn \in Functions
        /\ call'[c].bound <=> (mode = "structured" /\ AsksMode(call'[c].fn))
    BY <1>1, <1>7, CallFacts
  <2>3. Good(c)'
    BY <2>1, <2>2 DEF modes, AsksMode
  <2> HIDE DEF Good
  <2> QED
    BY <1>4, <2>1, <2>2, <2>3
<1>8. ASSUME NEW c \in Callers, Route(c) PROVE ModeOK' /\ StructuredForGood'
  <2>1. UNCHANGED modes
    BY <1>8 DEF Route
  <2>2. /\ Others(c) /\ call[c].pc = "route" /\ call'[c].pc \in {"push", "route", "filter"}
        /\ call'[c].pc = "route" => call'[c].fn \in Functions
        /\ mode = "structured" /\ AsksMode(call[c].fn) => call'[c].pc = "push"
        /\ call'[c].bound = call[c].bound
    BY <1>1, <1>8, RouteStepFacts
  <2>3. Good(c)'
    BY <1>2, <2>1, <2>2 DEF modes
  <2> HIDE DEF Good
  <2> QED
    BY <1>4, <2>1, <2>2, <2>3
<1>9. ASSUME NEW c \in Callers, SettledStep(c) PROVE ModeOK' /\ StructuredForGood'
  <2>1. UNCHANGED modes
    BY <1>9 DEF SettledStep, NotVerbose, NoTextSinks, Sampled, Format, EmitStderr, EmitNoFile, EmitFile,
       EmitAck, Store, StructuredSink, Push, CloseCall, CloseReturn
  <2>2. Others(c) /\ SameCall(c) /\ <<call[c].pc, call'[c].pc>> \in Settled
    BY <1>1, <1>9, SettledFacts
  <2>3. call'[c].pc # "route" /\ (call'[c].pc \in P => call[c].pc \in P)
    BY <2>2 DEF Settled
  <2>4. Good(c)'
    BY <1>2, <2>1, <2>2, <2>3 DEF modes, SameCall
  <2> HIDE DEF Good
  <2> QED
    BY <1>4, <2>1, <2>2, <2>4
<1>10. ASSUME NEW c \in Callers, LeavingStep(c) PROVE ModeOK' /\ StructuredForGood'
  <2>1. UNCHANGED modes
    BY <1>10 DEF LeavingStep, Sinkf, PushNothing, Push, PushAck
  <2>2. Others(c) /\ call'[c].pc \in {"returned", "close"} /\ call'[c].bound = FALSE
    BY <1>1, <1>10, LeavingFacts
  <2>3. Good(c)'
    BY <2>2
  <2> HIDE DEF Good
  <2> QED
    BY <1>4, <2>1, <2>2, <2>3
<1>11. ASSUME NEW c \in Callers, End(c) PROVE ModeOK' /\ StructuredForGood'
  <2>1. UNCHANGED modes
    BY <1>11 DEF End
  <2>2. call'[c] = call[c] /\ \A d \in Callers : d # c => call'[d] = Idle
    BY <1>1, <1>11, EndFacts
  <2>3. ASSUME NEW d \in Callers, d # c PROVE Good(d)'
    <3>1. call'[d].pc = "idle" /\ call'[d].bound = FALSE
      BY <2>2, <2>3 DEF Idle
    <3> QED
      BY <3>1
  <2>4. Good(c)'
    BY <1>2, <2>1, <2>2 DEF modes, AsksMode
  <2>5. \A d \in Callers : Good(d)'
    BY <2>3, <2>4
  <2> HIDE DEF Good
  <2> QED
    BY <1>3, <2>1, <2>5
<1>12. ASSUME NEW c \in Callers, AbortReturns(c) PROVE ModeOK' /\ StructuredForGood'
  <2>1. UNCHANGED modes
    BY <1>12 DEF AbortReturns
  <2>2. /\ Others(c) /\ call'[c].pc = "route" /\ call'[c].fn \in Functions /\ AsksMode(call'[c].fn)
        /\ call'[c].bound <=> mode = "structured"
    BY <1>1, <1>12, AbortFacts
  <2>3. Good(c)'
    BY <2>1, <2>2 DEF modes, AsksMode
  <2> HIDE DEF Good
  <2> QED
    BY <1>4, <2>1, <2>2, <2>3
<1>13. CASE WriteOne \/ WriterExit
  <2>1. UNCHANGED <<modes, call>>
    BY <1>13 DEF WriteOne, WriterExit
  <2> QED
    BY <1>1, <2>1 DEF ModeOK, StructuredForGood, modes, AsksMode
<1> QED
  BY <1>5, <1>6, <1>7, <1>8, <1>9, <1>10, <1>11, <1>12, <1>13, StepKinds DEF Next

LEMMA EndsInv ==
  ASSUME FrontInv, Next
  PROVE  EndsOK'
<1>1. /\ TypeOK /\ ModeOK /\ EndsOK /\ BuffersOK /\ FreshOK /\ CallType
  BY DEF FrontInv, TypeOK, CallType
<1> DEFINE E == {"close", "closing", "end"}
           Good(c) == /\ call[c].pc \in E => call[c].then # "return"
                      /\ call[c].pc = "idle" => call[c].n = 1
                      /\ call[c].n = 2 => call[c].then = "exit2"
                      /\ call[c].n = 2 /\ call[c].pc = "route" => call[c].fn.family = "level"
<1>2. \A c \in Callers : Good(c)
  BY <1>1 DEF EndsOK
<1>3. ASSUME NEW c \in Callers, Others(c), Good(c)' PROVE EndsOK'
  <2>1. ASSUME NEW d \in Callers, d # c PROVE Good(d)'
    BY <1>2, <1>3, <2>1 DEF Others
  <2> QED
    BY <1>3, <2>1 DEF EndsOK
<1>4. ASSUME NEW c \in Callers, Call(c) PROVE EndsOK'
  <2>1. call[c].n = 1
    BY <1>2, <1>4 DEF Call, At
  <2>2. Good(c)' /\ Others(c)
    BY <1>1, <1>2, <1>4, CallFacts, <2>1
  <2> QED
    BY <1>3, <2>2
<1>5. ASSUME NEW c \in Callers, Route(c) PROVE EndsOK'
  <2>1. Good(c)' /\ Others(c)
    BY <1>1, <1>2, <1>5, RouteStepFacts
  <2> QED
    BY <1>3, <2>1
<1>6. ASSUME NEW c \in Callers, SettledStep(c) PROVE EndsOK'
  <2>1. Others(c) /\ SameCall(c) /\ <<call[c].pc, call'[c].pc>> \in Settled
    BY <1>1, <1>6, SettledFacts
  <2>2. call'[c].pc \notin {"route", "idle"} /\ (call'[c].pc \in E => call[c].pc \in E)
    BY <2>1 DEF Settled
  <2>3. Good(c)'
    BY <1>2, <2>1, <2>2 DEF SameCall
  <2> QED
    BY <1>3, <2>1, <2>3
<1>7. ASSUME NEW c \in Callers, LeavingStep(c) PROVE EndsOK'
  <2>1. Good(c)' /\ Others(c)
    BY <1>1, <1>2, <1>7, LeavingFacts
  <2> QED
    BY <1>3, <2>1
<1>8. ASSUME NEW c \in Callers, End(c) PROVE EndsOK'
  <2>1. call'[c] = call[c] /\ \A d \in Callers : d # c => call'[d] = Idle
    BY <1>1, <1>8, EndFacts
  <2> QED
    BY <1>2, <2>1 DEF EndsOK, Idle
<1>9. ASSUME NEW c \in Callers, AbortReturns(c) PROVE EndsOK'
  <2>1. Good(c)' /\ Others(c)
    BY <1>1, <1>9, AbortFacts
  <2> QED
    BY <1>3, <2>1
<1>10. ASSUME UNCHANGED call PROVE EndsOK'
  BY <1>1, <1>10 DEF EndsOK
<1>11. CASE WriteOne \/ WriterExit \/ (\E m : SetLogMode(m)) \/ (\E c \in Callers : ReadFlag(c))
  BY <1>10, <1>11 DEF WriteOne, WriterExit, SetLogMode, ReadFlag
<1> QED
  BY <1>4, <1>5, <1>6, <1>7, <1>8, <1>9, <1>11, StepKinds DEF Next

(* A caller's own buffer and the records it may still format.              *)
Buf(c) == /\ call[c].pc \in {"emit", "ack"} <=> call[c].buf # Nil
          /\ call[c].buf # Nil /\ fatalMessage # Nil => fatalMessage.buf # call[c].buf
          /\ call[c].buf # Nil => text[call[c].buf] = <<c, call[c].n>>
Fresh(c) == \A b \in Buffers :
              /\ call[c].pc \in {"idle", "route", "filter"} => text[b] # Record(c)
              /\ call[c].n = 1 => text[b] # <<c, 2>>
Texts == /\ \A a, b \in Buffers : text[a] = text[b] /\ text[a] # Nil => a = b
         /\ fatalMessage # Nil => text[fatalMessage.buf] = fatalMessage.rec
         /\ \A c \in Callers : Buf(c)
         /\ dead = Nil => \A c \in Callers : Fresh(c)

LEMMA TextsSplit ==
  TypeOK => (Texts <=> BuffersOK /\ FreshOK)
BY DEF Texts, Buf, Fresh, BuffersOK, FreshOK, TypeOK

(* A step that leaves the text alone.                                      *)
LEMMA TextsStay ==
  ASSUME Texts, UNCHANGED fatal, NEW c \in Callers, Others(c), Buf(c)',
         dead' = Nil => dead = Nil /\ Fresh(c)'
  PROVE  Texts'
<1>1. ASSUME NEW d \in Callers, d # c PROVE Buf(d)' /\ (dead' = Nil => Fresh(d)')
  <2>1. call'[d] = call[d] /\ UNCHANGED <<text, fatalMessage>>
    BY <1>1 DEF Others, fatal
  <2>2. Buf(d)' <=> Buf(d)
    BY <2>1 DEF Buf
  <2>3. Fresh(d)' <=> Fresh(d)
    BY <2>1 DEF Fresh, Record
  <2> QED
    BY <1>1, <2>2, <2>3 DEF Texts
<1>2. \A d \in Callers : Buf(d)' /\ (dead' = Nil => Fresh(d)')
  BY <1>1
<1> QED
  BY <1>2 DEF Texts, fatal

LEMMA FormatTexts ==
  ASSUME TypeOK, Texts, NEW c \in Callers, Format(c)
  PROVE  Texts'
<1>1. PICK b \in Buffers : text[b] = Nil /\ Use(c, b)
  BY FormatFacts, TextsSplit
<1>2. /\ dead' = dead /\ dead = Nil /\ call[c].pc = "filter" /\ fatalMessage' = fatalMessage
      /\ text \in [Buffers -> Records \cup {Nil}] /\ CallType /\ outputs \in Settings
      /\ fatalMessage \in Messages \cup {Nil}
  BY DEF Format, At, TypeOK, CallType
<1>3. text' = [text EXCEPT ![b] = Record(c)]
  BY <1>1 DEF Use
<1>4. /\ Others(c) /\ call'[c].pc = "emit" /\ call'[c].buf = b /\ call'[c].n = call[c].n
  BY <1>1, <1>2, UseFacts DEF SameCall
<1>5. \A a \in Buffers : text'[a] = IF a = b THEN Record(c) ELSE text[a]
  BY <1>2, <1>3
<1>6. \A a \in Buffers : text[a] # Record(c)
  BY <1>2 DEF Texts, Fresh
<1>7. Record(c) # Nil /\ b # Nil /\ Record(c) = <<c, call[c].n>>
  BY <1>2, NilIsNoValue DEF Record, Records, CallType, Locals
<1>8. ASSUME NEW a1 \in Buffers, NEW a2 \in Buffers, text'[a1] = text'[a2], text'[a1] # Nil
      PROVE  a1 = a2
  BY <1>5, <1>6, <1>8 DEF Texts
<1>9. fatalMessage # Nil => /\ fatalMessage.buf # b /\ fatalMessage.buf \in Buffers
                            /\ text'[fatalMessage.buf] = fatalMessage.rec
  <2>1. ASSUME fatalMessage # Nil
        PROVE fatalMessage.buf \in Buffers /\ fatalMessage.rec # Nil
    BY <1>2, <2>1, NilIsNoValue DEF Messages
  <2>2. ASSUME fatalMessage # Nil PROVE text[fatalMessage.buf] = fatalMessage.rec
    BY <2>2 DEF Texts
  <2> QED
    BY <1>1, <1>5, <2>1, <2>2
<1>10. Buf(c)'
  BY <1>2, <1>4, <1>5, <1>7, <1>9 DEF Buf
<1>11. Fresh(c)'
  <2>1. \A a \in Buffers : call[c].n = 1 => text[a] # <<c, 2>>
    BY <1>2 DEF Texts, Fresh
  <2> QED
    BY <1>4, <1>5, <1>7, <2>1 DEF Fresh
<1>12. ASSUME NEW d \in Callers, d # c PROVE Buf(d)' /\ Fresh(d)'
  <2>1. call'[d] = call[d] /\ Buf(d) /\ Fresh(d)
    BY <1>2, <1>4, <1>12 DEF Others, Texts
  <2>2. call[d].buf # Nil => call[d].buf \in Buffers /\ call[d].buf # b
    <3>1. call[d].buf \in Buffers \cup {Nil}
      BY <1>2 DEF CallType, Locals
    <3>2. <<d, call[d].n>> # Nil
      <4>1. call[d].n = 1 \/ call[d].n = 2
        BY <1>2 DEF CallType, Locals
      <4>2. <<d, 1>> # Nil /\ <<d, 2>> # Nil
        BY NilIsNoValue
      <4> QED
        BY <4>1, <4>2
    <3> QED
      BY <1>1, <2>1, <3>1, <3>2 DEF Buf
  <2>3. Buf(d)'
    BY <1>2, <1>5, <2>1, <2>2 DEF Buf
  <2>4. Fresh(d)'
    BY <1>5, <1>7, <1>12, <2>1 DEF Fresh, Record
  <2> QED
    BY <2>3, <2>4
<1>13. \A d \in Callers : Buf(d)' /\ Fresh(d)'
  BY <1>10, <1>11, <1>12
<1> QED
  BY <1>2, <1>8, <1>9, <1>13 DEF Texts

LEMMA StoreTexts ==
  ASSUME TypeOK, Texts, NEW c \in Callers, Store(c)
  PROVE  Texts'
<1> DEFINE b == call[c].buf
<1>1. /\ dead' = dead /\ dead = Nil /\ call[c].pc = "emit" /\ CallType
      /\ text \in [Buffers -> Records \cup {Nil}] /\ fatalMessage \in Messages \cup {Nil}
  BY DEF Store, At, TypeOK, CallType
<1>2. Others(c) /\ SameCall(c) /\ call'[c].pc = "structured sinks" /\ call'[c].buf = Nil
  BY <1>1, ToSinksFacts DEF Store
<1>3. b \in Buffers /\ text[b] = Record(c) /\ (fatalMessage # Nil => fatalMessage.buf # b)
  BY <1>1 DEF Texts, Buf, CallType, Locals, Record
<1>4. \/ fatalMessage = Nil /\ fatalMessage' = [rec |-> Record(c), buf |-> b] /\ text' = text
      \/ text' = [text EXCEPT ![b] = Nil] /\ fatalMessage' = fatalMessage
  BY DEF Store
<1> HIDE DEF b
<1>5. \A a \in Buffers : text'[a] = text[a] \/ (a = b /\ text'[a] = Nil)
  BY <1>1, <1>4
<1>6. ASSUME NEW a1 \in Buffers, NEW a2 \in Buffers, text'[a1] = text'[a2], text'[a1] # Nil
      PROVE  a1 = a2
  BY <1>5, <1>6 DEF Texts
<1>7. fatalMessage' # Nil => text'[fatalMessage'.buf] = fatalMessage'.rec
  BY <1>1, <1>3, <1>4 DEF Texts, Messages
<1>8. ASSUME NEW d \in Callers PROVE Fresh(d)'
  <2>1. \A a \in Buffers : text'[a] = text[a] \/ text'[a] = Nil
    BY <1>5
  <2>2. call'[d].n = call[d].n /\ (call'[d].pc \in {"idle", "route", "filter"} => call'[d].pc = call[d].pc)
    BY <1>2 DEF Others, SameCall
  <2>3. <<d, 2>> # Nil /\ <<d, call[d].n>> # Nil
    <3>1. call[d].n = 1 \/ call[d].n = 2
      BY <1>1 DEF CallType, Locals
    <3>2. <<d, 1>> # Nil /\ <<d, 2>> # Nil
      BY NilIsNoValue
    <3> QED
      BY <3>1, <3>2
  <2>4. Fresh(d)
    BY <1>1 DEF Texts
  <2> QED
    BY <2>1, <2>2, <2>3, <2>4 DEF Fresh, Record
<1>9. ASSUME NEW d \in Callers, d # c PROVE Buf(d)'
  <2>1. call'[d] = call[d] /\ Buf(d)
    BY <1>2, <1>9 DEF Others, Texts
  <2>2. ASSUME call[d].buf # Nil
        PROVE  call[d].buf \in Buffers /\ call[d].buf # b /\ text'[call[d].buf] = text[call[d].buf]
    <3>1. call[d].buf \in Buffers
      BY <1>1, <2>2 DEF CallType, Locals
    <3>2. text[call[d].buf] # text[b]
      BY <1>3, <1>9, <2>1, <2>2 DEF Buf, Record
    <3> QED
      BY <1>5, <3>1, <3>2
  <2>3. ASSUME call[d].buf # Nil, fatalMessage' # Nil PROVE fatalMessage'.buf # call[d].buf
    BY <1>4, <2>1, <2>2, <2>3 DEF Buf
  <2> QED
    BY <2>1, <2>2, <2>3 DEF Buf
<1>10. Buf(c)'
  BY <1>2 DEF Buf
<1> QED
  BY <1>1, <1>6, <1>7, <1>8, <1>9, <1>10 DEF Texts

LEMMA TextsInv ==
  ASSUME FrontInv, Next
  PROVE  Texts'
<1>1. /\ TypeOK /\ ModeOK /\ EndsOK /\ BuffersOK /\ FreshOK /\ CallType /\ Texts
  BY TextsSplit DEF FrontInv, TypeOK, CallType
<1>2. ASSUME UNCHANGED <<fatal, call, dead>> PROVE Texts'
  <2>1. \A c \in Callers : (Buf(c)' <=> Buf(c)) /\ (Fresh(c)' <=> Fresh(c))
    BY <1>2 DEF fatal, Buf, Fresh, Record
  <2> QED
    BY <1>1, <1>2, <2>1 DEF Texts, fatal
<1>3. ASSUME UNCHANGED fatal, NEW c \in Callers, Others(c), dead' = dead, call'[c].n = call[c].n,
             \/ call'[c].buf = call[c].buf /\ (call'[c].pc \in {"emit", "ack"} <=> call[c].pc \in {"emit", "ack"})
             \/ call'[c].buf = Nil /\ call'[c].pc \notin {"emit", "ack"},
             call'[c].pc \in {"idle", "route", "filter"} => call[c].pc \in {"idle", "route", "filter"}
      PROVE  Texts'
  <2>1. UNCHANGED <<text, fatalMessage>> /\ Buf(c) /\ (dead = Nil => Fresh(c))
    BY <1>1, <1>3 DEF fatal, Texts
  <2>2. Buf(c)'
    BY <1>3, <2>1 DEF Buf
  <2>3. dead = Nil => Fresh(c)'
    BY <1>3, <2>1 DEF Fresh, Record
  <2> QED
    BY <1>1, <1>3, <2>2, <2>3, TextsStay
<1>4. ASSUME NEW c \in Callers, Call(c) PROVE Texts'
  <2>1. UNCHANGED <<fatal, dead>>
    BY <1>4 DEF Call
  <2> QED
    BY <1>1, <1>3, <1>4, <2>1, CallFacts
<1>5. ASSUME NEW c \in Callers, Route(c) PROVE Texts'
  <2>1. UNCHANGED <<fatal, dead>>
    BY <1>5 DEF Route
  <2> QED
    BY <1>1, <1>3, <1>5, <2>1, RouteStepFacts
<1>6. ASSUME NEW c \in Callers, SettledStep(c), ~Format(c), ~Store(c) PROVE Texts'
  <2>1. UNCHANGED <<fatal, dead>>
    BY <1>6 DEF SettledStep, NotVerbose, NoTextSinks, Sampled, EmitStderr, EmitNoFile, EmitFile,
       EmitAck, StructuredSink, Push, CloseCall, CloseReturn
  <2>2. Others(c) /\ SameCall(c) /\ <<call[c].pc, call'[c].pc>> \in Settled
    BY <1>1, <1>6, SettledFacts
  <2>3. call'[c].n = call[c].n /\ call'[c].pc \notin {"idle", "route", "filter"}
    BY <2>2 DEF Settled, SameCall
  <2>4. \/ call'[c].buf = call[c].buf
        \/ call'[c].buf = Nil /\ call'[c].pc \notin {"emit", "ack"}
    <3>1. CASE NoTextSinks(c) \/ Sampled(c)
      BY <1>1, <3>1, ToSinksFacts DEF NoTextSinks, Sampled
    <3>2. CASE EmitStderr(c) \/ EmitNoFile(c) \/ EmitFile(c) \/ StructuredSink(c)
      <4>1. PICK x \in {"emit", "ack", "structured sinks"}, err \in BOOLEAN :
              call[c].todo # <<>> /\ Offered(c, x, err)
        BY <3>2 DEF EmitStderr, EmitNoFile, EmitFile, StructuredSink
      <4> QED
        BY <1>1, <4>1, OfferedFacts DEF Pcs
    <3>3. CASE NotVerbose(c) \/ EmitAck(c) \/ (Push(c) /\ Severe(c)) \/ CloseCall(c) \/ CloseReturn(c)
      <4>1. PICK x \in {"returned", "emit", "push ack", "closing", "end"} : Goto(c, x)
        BY <3>3 DEF NotVerbose, EmitAck, Push, CloseCall, CloseReturn
      <4> QED
        BY <1>1, <4>1, GotoFacts DEF Pcs
    <3> QED
      BY <1>6, <3>1, <3>2, <3>3 DEF SettledStep
  <2>5. ~Format(c) /\ ~Store(c) => \/ call'[c].pc \notin {"emit", "ack"} /\ call[c].pc \notin {"emit", "ack"}
                                   \/ call'[c].pc \in {"emit", "ack"} /\ call[c].pc \in {"emit", "ack"}
    <3>1. CASE call[c].pc = "filter"
      <4>1. NoTextSinks(c) \/ Sampled(c)
        BY <1>6, <3>1 DEF SettledStep, NotVerbose, EmitStderr, EmitNoFile, EmitFile, At,
           EmitAck, StructuredSink, Push, CloseCall, CloseReturn
      <4> QED
        BY <1>1, <3>1, <4>1, ToSinksFacts DEF NoTextSinks, Sampled
    <3>2. CASE call[c].pc = "emit"
      <4>1. EmitStderr(c) \/ EmitNoFile(c) \/ EmitFile(c)
        BY <1>6, <3>2 DEF SettledStep, NotVerbose, NoTextSinks, Sampled, At,
           EmitAck, StructuredSink, Push, CloseCall, CloseReturn
      <4>2. PICK x \in {"emit", "ack"}, err \in BOOLEAN : call[c].todo # <<>> /\ Offered(c, x, err)
        BY <4>1 DEF EmitStderr, EmitNoFile, EmitFile
      <4> QED
        BY <1>1, <3>2, <4>2, OfferedFacts DEF Pcs
    <3> QED
      BY <2>2, <3>1, <3>2 DEF Settled
  <2> QED
    BY <1>3, <1>6, <2>1, <2>2, <2>3, <2>4, <2>5
<1>7. ASSUME NEW c \in Callers, LeavingStep(c) PROVE Texts'
  <2>1. UNCHANGED <<fatal, dead>>
    BY <1>7 DEF LeavingStep, Sinkf, PushNothing, Push, PushAck
  <2> QED
    BY <1>1, <1>3, <1>7, <2>1, LeavingFacts
<1>8. ASSUME NEW c \in Callers, End(c) PROVE Texts'
  <2>1. UNCHANGED fatal
    BY <1>8 DEF End
  <2>2. /\ call'[c] = call[c] /\ dead' # Nil /\ \A d \in Callers : d # c => call'[d] = Idle
    <3>1. dead' \in Deaths
      BY <1>1, <1>8, EndFacts DEF EndsOK, Deaths, CallType, Locals
    <3> QED
      BY <1>1, <1>8, <3>1, EndFacts, NilIsNoValue
  <2>3. ASSUME NEW d \in Callers, d # c PROVE Buf(d)'
    BY <2>2, <2>3 DEF Buf, Idle
  <2>4. Buf(c)'
    BY <1>1, <2>1, <2>2 DEF Buf, Texts, fatal
  <2>5. \A d \in Callers : Buf(d)'
    BY <2>3, <2>4
  <2> QED
    BY <1>1, <2>1, <2>2, <2>5 DEF Texts, fatal
<1>9. ASSUME NEW c \in Callers, AbortReturns(c) PROVE Texts'
  <2>1. UNCHANGED <<text, fatalMessage, dead>> /\ dead = Nil
    BY <1>9 DEF AbortReturns, At, fatal
  <2>2. /\ Others(c) /\ call[c].then = "abort" /\ call'[c].pc = "route" /\ call'[c].n = 2
        /\ call'[c].buf = Nil
    BY <1>1, <1>9, AbortFacts
  <2>3. call[c].n = 1
    BY <1>1, <2>2 DEF EndsOK, CallType, Locals
  <2>4. Fresh(c)'
    BY <1>1, <2>1, <2>2, <2>3 DEF Texts, Fresh, Record
  <2>5. Buf(c)'
    BY <2>2 DEF Buf
  <2> QED
    BY <1>1, <2>1, <2>2, <2>4, <2>5, TextsStay DEF fatal
<1>10. CASE WriteOne \/ WriterExit \/ (\E m : SetLogMode(m)) \/ (\E c \in Callers : ReadFlag(c))
  <2>1. UNCHANGED <<fatal, call, dead>>
    BY <1>10 DEF WriteOne, WriterExit, SetLogMode, ReadFlag
  <2> QED
    BY <1>2, <2>1
<1> QED
  BY <1>1, <1>4, <1>5, <1>6, <1>7, <1>8, <1>9, <1>10, StepKinds, FormatTexts, StoreTexts DEF Next

(* What a step leaves alone, but for the few that do not.                  *)
LEMMA Frames ==
  ASSUME NEW c \in Callers, Call(c) \/ Step(c)
  PROVE  /\ dead = Nil
         /\ ~ReadFlag(c) => UNCHANGED modes
         /\ ~Format(c) /\ ~Store(c) => UNCHANGED fatal
         /\ ~Sinkf(c) => UNCHANGED reported
         /\ ~End(c) => UNCHANGED dead
         /\ ~EmitFile(c) /\ ~EmitAck(c) /\ ~Push(c) /\ ~PushAck(c) => UNCHANGED <<queue, acked, late>>
<1>1. CASE Call(c)
  BY <1>1 DEF Call, At, fatal, file
<1>2. CASE ReadFlag(c) \/ Route(c)
  BY <1>2 DEF ReadFlag, Route, At, fatal, file
<1>3. CASE NotVerbose(c) \/ NoTextSinks(c) \/ Sampled(c) \/ Format(c)
  BY <1>3 DEF NotVerbose, NoTextSinks, Sampled, Format, At, fatal, file
<1>4. CASE EmitStderr(c) \/ EmitNoFile(c) \/ StructuredSink(c) \/ Store(c)
  BY <1>4 DEF EmitStderr, EmitNoFile, StructuredSink, Store, At, fatal, file
<1>5. CASE EmitFile(c) \/ EmitAck(c) \/ Push(c) \/ PushAck(c)
  BY <1>5 DEF EmitFile, EmitAck, Push, PushAck, At, fatal
<1>6. CASE Sinkf(c) \/ PushNothing(c)
  BY <1>6 DEF Sinkf, PushNothing, At, fatal, file
<1>7. CASE CloseCall(c) \/ CloseReturn(c) \/ End(c) \/ AbortReturns(c)
  BY <1>7 DEF CloseCall, CloseReturn, End, AbortReturns, At, fatal, file
<1> QED
  BY <1>1, <1>2, <1>3, <1>4, <1>5, <1>6, <1>7 DEF Step

LEMMA CallInv ==
  ASSUME FrontInv, Next
  PROVE  CallType'
<1>1. TypeOK /\ ModeOK /\ BuffersOK /\ FreshOK /\ CallType
  BY DEF FrontInv, TypeOK, CallType
<1>2. ASSUME UNCHANGED call PROVE CallType'
  BY <1>1, <1>2 DEF CallType
<1>3. CASE WriteOne \/ WriterExit \/ (\E m : SetLogMode(m)) \/ (\E c \in Callers : ReadFlag(c))
  BY <1>2, <1>3 DEF WriteOne, WriterExit, SetLogMode, ReadFlag
<1> QED
  BY <1>1, <1>3, StepKinds, CallFacts, RouteStepFacts, SettledFacts, LeavingFacts, EndFacts,
     AbortFacts DEF Next

LEMMA TypeInv ==
  ASSUME FrontInv, Next
  PROVE  TypeOK'
<1>1. /\ TypeOK /\ EndsOK /\ BuffersOK /\ FreshOK /\ CallType /\ CallType' /\ Texts'
  BY CallInv, TextsInv DEF FrontInv, TypeOK, CallType
<1> USE DEF TypeOK
<1>2. /\ mode' \in {"printf", "structured"} /\ modeSet' \in BOOLEAN /\ flagRead' \in BOOLEAN
      /\ outputs' \in Settings
  <2>1. ASSUME NEW c \in Callers, ReadFlag(c)
        PROVE  /\ mode' \in {"printf", "structured"} /\ modeSet' \in BOOLEAN
               /\ flagRead' \in BOOLEAN /\ outputs' = outputs
    BY <1>1, <2>1 DEF ReadFlag
  <2>2. ASSUME NEW m \in {"printf", "structured"}, SetLogMode(m)
        PROVE  /\ mode' \in {"printf", "structured"} /\ modeSet' \in BOOLEAN
               /\ flagRead' \in BOOLEAN /\ outputs' = outputs
    BY <2>2 DEF SetLogMode
  <2>3. CASE UNCHANGED modes
    BY <1>1, <2>3 DEF modes
  <2>4. CASE WriteOne \/ WriterExit
    BY <2>3, <2>4 DEF WriteOne, WriterExit
  <2> QED
    BY <1>1, <2>1, <2>2, <2>3, <2>4, Frames DEF Next
<1>3. text' \in [Buffers -> Records \cup {Nil}] /\ fatalMessage' \in Messages \cup {Nil}
  <2>1. ASSUME NEW c \in Callers PROVE Record(c) \in Records
    BY <1>1, NilIsNoValue DEF Record, CallType, Locals
  <2>2. ASSUME NEW c \in Callers, Format(c)
        PROVE  text' \in [Buffers -> Records \cup {Nil}] /\ fatalMessage' = fatalMessage
    BY <1>1, <2>1, <2>2 DEF Format, Use
  <2>3. ASSUME NEW c \in Callers, Store(c)
        PROVE  text' \in [Buffers -> Records \cup {Nil}] /\ fatalMessage' \in Messages \cup {Nil}
    <3>1. call[c].buf \in Buffers
      BY <1>1, <2>3 DEF Store, At, BuffersOK, CallType, Locals
    <3> QED
      BY <1>1, <2>1, <2>3, <3>1 DEF Store, Messages
  <2>4. CASE UNCHANGED fatal
    BY <1>1, <2>4 DEF fatal
  <2>5. CASE WriteOne \/ WriterExit \/ \E m : SetLogMode(m)
    BY <2>4, <2>5 DEF WriteOne, WriterExit, SetLogMode
  <2> QED
    BY <1>1, <2>2, <2>3, <2>4, <2>5, Frames DEF Next
<1>4. writer' \in {"none", "open", "closing", "closed"}
  <2>1. CASE UNCHANGED writer
    BY <1>1, <2>1
  <2>2. ASSUME NEW c \in Callers, EmitFile(c) \/ Push(c) \/ CloseCall(c)
        PROVE  writer' \in {"none", "open", "closing", "closed"}
    BY <1>1, <2>2 DEF EmitFile, Push, CloseCall, Ready
  <2>3. CASE WriteOne \/ WriterExit \/ \E m : SetLogMode(m)
    BY <2>1, <2>3 DEF WriteOne, WriterExit, SetLogMode, file
  <2>4. ASSUME NEW c \in Callers, Call(c) \/ Step(c), ~EmitFile(c), ~Push(c), ~CloseCall(c)
        PROVE  UNCHANGED writer
    BY <2>4 DEF Call, Step, ReadFlag, Route, NotVerbose, NoTextSinks, Sampled, Format, EmitStderr,
       EmitNoFile, EmitAck, Store, StructuredSink, Sinkf, PushNothing, PushAck, CloseReturn, End,
       AbortReturns, file
  <2> QED
    BY <2>1, <2>2, <2>3, <2>4 DEF Next
<1>5. queue' \subseteq Records /\ acked' \subseteq Records /\ late' \subseteq Records
  <2>1. ASSUME NEW c \in Callers PROVE Record(c) \in Records
    BY <1>1, NilIsNoValue DEF Record, CallType, Locals
  <2>2. ASSUME NEW c \in Callers, EmitFile(c) \/ Push(c)
        PROVE  queue' \subseteq Records /\ UNCHANGED <<acked, late>>
    BY <1>1, <2>1, <2>2 DEF EmitFile, Push, TryPush
  <2>3. ASSUME NEW c \in Callers, EmitAck(c) \/ PushAck(c)
        PROVE  UNCHANGED queue /\ acked' \subseteq Records /\ late' \subseteq Records
    BY <1>1, <2>1, <2>3 DEF EmitAck, PushAck, Acked, TimedOut
  <2>4. CASE UNCHANGED <<queue, acked, late>>
    BY <1>1, <2>4
  <2>5. CASE WriterExit \/ \E m : SetLogMode(m)
    BY <2>4, <2>5 DEF WriterExit, SetLogMode, file
  <2>6. CASE WriteOne
    BY <1>1, <2>6 DEF WriteOne
  <2> QED
    BY <1>1, <2>2, <2>3, <2>4, <2>5, <2>6, Frames DEF Next
<1>6. dead' \in Deaths \cup {Nil} /\ reported' \in BOOLEAN
  <2>1. ASSUME NEW c \in Callers, End(c) PROVE dead' \in Deaths
    BY <1>1, <2>1, EndFacts DEF EndsOK, Deaths, CallType, Locals
  <2>2. ASSUME NEW c \in Callers, Sinkf(c) PROVE reported' \in BOOLEAN
    BY <1>1, <2>2 DEF Sinkf, CallType, Locals
  <2>3. CASE WriteOne \/ WriterExit \/ \E m : SetLogMode(m)
    BY <1>1, <2>3 DEF WriteOne, WriterExit, SetLogMode
  <2> QED
    BY <1>1, <2>1, <2>2, <2>3, Frames DEF Next
<1>7. \A c \in Callers : call'[c].buf # Nil => text'[call'[c].buf] = <<c, call'[c].n>>
  BY <1>1 DEF Texts, Buf
<1> HIDE DEF TypeOK
<1> QED
  BY <1>1, <1>2, <1>3, <1>4, <1>5, <1>6, <1>7 DEF TypeOK, CallType

LEMMA BuffersInv ==
  ASSUME FrontInv, Next
  PROVE  BuffersOK' /\ FreshOK'
BY TypeInv, TextsInv, TextsSplit DEF Texts, Buf, Fresh, BuffersOK, FreshOK, TypeOK, Record

(* A caller's records that are not flushed, and those that are.            *)
Waits == {"ack", "push ack"}
Disk(c) == /\ call[c].pc \in Waits => Record(c) \notin acked \cap queue
           /\ call[c].pc \notin Waits =>
                Record(c) \notin acked /\ (Record(c) \in queue => Record(c) \in late)
           /\ call[c].n = 1 => <<c, 2>> \notin queue \cup acked

LEMMA DiskInv ==
  ASSUME FrontInv, Next
  PROVE  DiskOK' /\ SevereIsFlushed'
<1>1. /\ TypeOK /\ EndsOK /\ BuffersOK /\ FreshOK /\ CallType /\ CallType' /\ TypeOK'
  BY CallInv, TypeInv DEF FrontInv, TypeOK, CallType
<1>2. dead = Nil => \A c \in Callers : Disk(c)
  BY DEF FrontInv, DiskOK, Disk, Waits
<1>3. ASSUME \A c \in Callers : Disk(c)' PROVE DiskOK' /\ SevereIsFlushed'
  BY <1>3 DEF DiskOK, SevereIsFlushed, Disk, Waits
<1>4. ASSUME NEW c \in Callers, Disk(c)', Others(c), dead = Nil,
             \A r \in Records : r[1] # c => /\ r \in queue' <=> r \in queue
                                            /\ r \in acked' <=> r \in acked
                                            /\ r \in late' <=> r \in late
      PROVE  DiskOK' /\ SevereIsFlushed'
  <2>1. ASSUME NEW d \in Callers, d # c PROVE Disk(d)'
    <3>1. Disk(d) /\ call'[d] = call[d]
      BY <1>2, <1>4, <2>1 DEF Others
    <3>2. \A i \in {1, 2} : <<d, i>> \in Records /\ <<d, i>>[1] # c
      BY <2>1 DEF Records
    <3>3. call[d].n \in {1, 2}
      BY <1>1 DEF CallType, Locals
    <3>4. \A i \in {1, 2} : /\ <<d, i>> \in queue' <=> <<d, i>> \in queue
                            /\ <<d, i>> \in acked' <=> <<d, i>> \in acked
                            /\ <<d, i>> \in late' <=> <<d, i>> \in late
      BY <1>4, <3>2
    <3> QED
      BY <3>1, <3>3, <3>4 DEF Disk, Record
  <2> QED
    BY <1>3, <1>4, <2>1
(* The call does not touch its record, nor waits for it. *)
<1>5. ASSUME NEW c \in Callers, Others(c), dead = Nil, UNCHANGED <<queue, acked, late>>,
             call[c].pc \notin Waits, call'[c].pc \notin Waits, call'[c].n = call[c].n
      PROVE  DiskOK' /\ SevereIsFlushed'
  <2>1. Disk(c)'
    BY <1>2, <1>5 DEF Disk, Record
  <2> QED
    BY <1>4, <1>5, <2>1
<1>6. ASSUME NEW c \in Callers, Others(c), dead = Nil, call'[c].n = call[c].n,
             call[c].pc \notin Waits, TryPush(c), UNCHANGED <<acked, late>>,
             call'[c].pc \in Waits \/ (queue' = queue /\ call'[c].pc \notin Waits)
      PROVE  DiskOK' /\ SevereIsFlushed'
  <2>1. queue' = queue \/ queue' = queue \cup {Record(c)}
    BY <1>6 DEF TryPush
  <2>2. Disk(c)'
    BY <1>2, <1>6, <2>1 DEF Disk, Record
  <2> QED
    BY <1>4, <1>6, <2>1, <2>2 DEF Record
<1>7. ASSUME NEW c \in Callers, Others(c), dead = Nil, call'[c].n = call[c].n,
             call[c].pc \in Waits, call'[c].pc \notin Waits, UNCHANGED queue,
             Acked(c) \/ TimedOut(c)
      PROVE  DiskOK' /\ SevereIsFlushed'
  <2>1. /\ acked' = acked \ {Record(c)}
        /\ \/ Record(c) \in acked /\ late' = late
           \/ late' = late \cup ({Record(c)} \cap queue)
    BY <1>7 DEF Acked, TimedOut
  <2>2. Disk(c)'
    BY <1>2, <1>7, <2>1 DEF Disk, Record
  <2> QED
    BY <1>4, <1>7, <2>1, <2>2 DEF Record
<1>8. ASSUME NEW c \in Callers, Call(c) \/ Route(c) PROVE DiskOK' /\ SevereIsFlushed'
  <2>1. UNCHANGED <<queue, acked, late>> /\ dead = Nil
    BY <1>8 DEF Call, Route, file, At
  <2>2. call[c].pc \notin Waits /\ call'[c].pc \notin Waits /\ call'[c].n = call[c].n /\ Others(c)
    BY <1>1, <1>8, CallFacts, RouteStepFacts DEF Waits, FrontInv
  <2> QED
    BY <1>5, <2>1, <2>2
<1>9. ASSUME NEW c \in Callers, EmitFile(c) \/ Push(c) PROVE DiskOK' /\ SevereIsFlushed'
  <2>1. TryPush(c) /\ UNCHANGED <<acked, late>> /\ dead = Nil /\ call[c].pc \notin Waits
    BY <1>9 DEF EmitFile, Push, At, Waits
  <2>2. ~Severe(c) => queue' = queue
    BY <2>1 DEF TryPush
  <2>3. CASE EmitFile(c)
    <3>1. PICK x \in Pcs : call[c].todo # <<>> /\ Offered(c, x, FALSE)
                           /\ x = IF Severe(c) THEN "ack" ELSE "emit"
      BY <2>3 DEF EmitFile, Pcs
    <3>2. Others(c) /\ call'[c].n = call[c].n /\ (call'[c].pc = IF Severe(c) THEN "ack" ELSE "emit")
      BY <1>1, <3>1, OfferedFacts DEF SameCall
    <3> QED
      BY <1>6, <2>1, <2>2, <3>2 DEF Waits
  <2>4. CASE Push(c) /\ Severe(c)
    <3>1. Others(c) /\ call'[c].n = call[c].n /\ call'[c].pc = "push ack"
      BY <1>1, <2>4, GotoFacts DEF SameCall, Push, Pcs
    <3> QED
      BY <1>6, <2>1, <3>1 DEF Waits
  <2>5. CASE Push(c) /\ ~Severe(c)
    <3>1. Others(c) /\ call'[c].n = call[c].n /\ call'[c].pc \notin Waits
      BY <1>1, <2>5, LeaveFacts DEF Push, Waits
    <3> QED
      BY <1>6, <2>1, <2>2, <2>5, <3>1
  <2> QED
    BY <1>9, <2>3, <2>4, <2>5
<1>10. ASSUME NEW c \in Callers, EmitAck(c) \/ PushAck(c) PROVE DiskOK' /\ SevereIsFlushed'
  <2>1. dead = Nil /\ call[c].pc \in Waits /\ UNCHANGED queue /\ (Acked(c) \/ TimedOut(c))
    BY <1>10 DEF EmitAck, PushAck, At, Waits
  <2>2. Others(c) /\ call'[c].n = call[c].n /\ call'[c].pc \notin Waits
    BY <1>1, <1>10, GotoFacts, LeaveFacts DEF SameCall, EmitAck, PushAck, Pcs, Waits
  <2> QED
    BY <1>7, <2>1, <2>2
<1>11. ASSUME NEW c \in Callers, SettledStep(c) \/ LeavingStep(c), ~EmitFile(c), ~Push(c),
              ~EmitAck(c), ~PushAck(c)
       PROVE  DiskOK' /\ SevereIsFlushed'
  <2>1. UNCHANGED <<queue, acked, late>>
    BY <1>11, Frames DEF SettledStep, LeavingStep, Step
  <2>2. Others(c) /\ call'[c].n = call[c].n /\ dead = Nil
    BY <1>1, <1>11, SettledFacts, LeavingFacts DEF SameCall
  <2>3. call[c].pc \notin Waits
    BY <1>11 DEF SettledStep, LeavingStep, NotVerbose, NoTextSinks, Sampled, Format, EmitStderr,
       EmitNoFile, Store, StructuredSink, CloseCall, CloseReturn, Sinkf, PushNothing, At, Waits
  <2>4. call'[c].pc \notin Waits
    <3>1. CASE LeavingStep(c)
      BY <1>1, <3>1, LeavingFacts DEF Waits
    <3>2. CASE EmitStderr(c) \/ EmitNoFile(c) \/ StructuredSink(c)
      <4>1. PICK x \in {"emit", "structured sinks"}, err \in BOOLEAN :
              call[c].todo # <<>> /\ Offered(c, x, err)
        BY <3>2 DEF EmitStderr, EmitNoFile, StructuredSink
      <4> QED
        BY <1>1, <4>1, OfferedFacts DEF Pcs, Waits
    <3>3. CASE SettledStep(c) /\ ~EmitStderr(c) /\ ~EmitNoFile(c) /\ ~StructuredSink(c)
      <4>1. call[c].pc # "emit" \/ Store(c)
        BY <1>11, <3>3 DEF SettledStep, NotVerbose, NoTextSinks, Sampled, Format, CloseCall,
           CloseReturn, At
      <4>2. call[c].pc # "push"
        BY <1>11, <3>3 DEF SettledStep, NotVerbose, NoTextSinks, Sampled, Format, CloseCall,
           CloseReturn, Store, At
      <4>3. Store(c) => call'[c].pc = "structured sinks"
        BY <1>1, ToSinksFacts DEF Store
      <4> QED
        BY <1>1, <3>3, <4>1, <4>2, <4>3, SettledFacts DEF Settled, Waits
    <3> QED
      BY <1>11, <3>1, <3>2, <3>3
  <2> QED
    BY <1>5, <2>1, <2>2, <2>3, <2>4
<1>12. ASSUME NEW c \in Callers, End(c) PROVE DiskOK' /\ SevereIsFlushed'
  <2>1. /\ call'[c] = call[c] /\ \A d \in Callers : d # c => call'[d] = Idle
        /\ dead' # Nil /\ UNCHANGED <<queue, late>>
    <3>1. dead' \in Deaths
      BY <1>1, <1>12, EndFacts DEF EndsOK, Deaths, CallType, Locals
    <3> QED
      BY <1>1, <1>12, <3>1, EndFacts, NilIsNoValue DEF End, file
  <2>2. DiskOK'
    BY <2>1 DEF DiskOK
  <2> DEFINE S == {"structured sinks", "close", "closing", "end", "returned"}
  <2>3. ASSUME NEW d \in Callers, call'[d].pc \in S, Record(d)' \in queue'
        PROVE  Record(d)' \in late'
    <3>1. d = c
      <4>1. Idle.pc = "idle" /\ "idle" \notin S
        BY DEF Idle
      <4>2. d # c => call'[d] = Idle
        BY <2>1
      <4> HIDE DEF S
      <4> QED
        BY <2>3, <4>1, <4>2
    <3>2. Record(d)' = Record(d) /\ call[d].pc \in S
      BY <2>1, <2>3, <3>1 DEF Record
    <3> QED
      BY <2>1, <2>3, <3>2 DEF FrontInv, SevereIsFlushed
  <2> QED
    BY <2>2, <2>3 DEF SevereIsFlushed
<1>13. ASSUME NEW c \in Callers, AbortReturns(c) PROVE DiskOK' /\ SevereIsFlushed'
  <2>1. UNCHANGED <<queue, acked, late>> /\ dead = Nil
    BY <1>13 DEF AbortReturns, At, file
  <2>2. /\ Others(c) /\ call[c].then = "abort" /\ call'[c].pc = "route" /\ call'[c].n = 2
    BY <1>1, <1>13, AbortFacts
  <2>3. call[c].n = 1
    BY <1>1, <2>2 DEF EndsOK, CallType, Locals
  <2>4. Disk(c)'
    BY <1>2, <2>1, <2>2, <2>3 DEF Disk, Record, Waits
  <2> QED
    BY <1>4, <2>1, <2>2, <2>4
<1>14. CASE WriteOne
  <2>1. PICK r \in queue : /\ queue' = queue \ {r}
                           /\ acked' = acked \cup ({r} \ late) /\ late' = late \ {r}
    BY <1>14 DEF WriteOne
  <2>2. call' = call /\ dead = Nil
    BY <1>14 DEF WriteOne
  <2>3. ASSUME NEW c \in Callers PROVE Disk(c)'
    BY <1>2, <2>1, <2>2 DEF Disk, Record
  <2> QED
    BY <1>3, <2>3
<1>15. CASE WriterExit \/ (\E m : SetLogMode(m)) \/ (\E c \in Callers : ReadFlag(c))
  <2>1. UNCHANGED <<queue, acked, late, call>> /\ dead = Nil
    BY <1>15 DEF WriterExit, SetLogMode, ReadFlag, file, At
  <2>2. \A c \in Callers : Disk(c)'
    BY <1>2, <2>1 DEF Disk, Record
  <2> QED
    BY <1>3, <2>2
<1> QED
  BY <1>8, <1>9, <1>10, <1>11, <1>12, <1>13, <1>14, <1>15, StepKinds DEF Next

(* The sinks a call's record is still to be offered to.                    *)
Sinks(c) == /\ call[c].pc \in {"emit", "ack"} => Enabled(c) \subseteq call[c].offered \cup Range(call[c].todo)
            /\ call[c].pc = "structured sinks" =>
                 /\ ~call[c].sampled => Enabled(c) \subseteq call[c].offered
                 /\ Range(StructuredSinks) \subseteq call[c].offered \cup Range(call[c].todo)

LEMMA SinksInv ==
  ASSUME FrontInv, Next
  PROVE  SinksOK'
<1>1. /\ TypeOK /\ ModeOK /\ BuffersOK /\ FreshOK /\ CallType /\ outputs \in Settings
      /\ \A c \in Callers : Sinks(c)
  BY DEF FrontInv, TypeOK, CallType, SinksOK, Sinks
<1>2. outputs' = outputs
  <2>1. ASSUME NEW c \in Callers, ReadFlag(c) PROVE outputs' = outputs
    BY <2>1 DEF ReadFlag
  <2>2. CASE WriteOne \/ WriterExit \/ \E m : SetLogMode(m)
    BY <2>2 DEF WriteOne, WriterExit, SetLogMode, modes
  <2> QED
    BY <2>1, <2>2, Frames DEF Next, modes
<1>3. ASSUME NEW c \in Callers, call'[c] = call[c] PROVE Sinks(c)'
  <2>1. Sinks(c) /\ Enabled(c)' = Enabled(c)
    BY <1>1, <1>2, <1>3 DEF Enabled, Severe, Sev
  <2> QED
    BY <1>3, <2>1 DEF Sinks
<1>4. ASSUME NEW c \in Callers, Others(c), Sinks(c)' PROVE SinksOK'
  <2>1. \A d \in Callers : Sinks(d)'
    BY <1>3, <1>4 DEF Others
  <2> QED
    BY <2>1 DEF SinksOK, Sinks
<1>5. ASSUME NEW c \in Callers, Others(c), call'[c].pc \notin {"emit", "ack", "structured sinks"}
      PROVE  SinksOK'
  <2>1. Sinks(c)'
    BY <1>5 DEF Sinks
  <2> QED
    BY <1>4, <1>5, <2>1
<1>6. ASSUME NEW c \in Callers, Call(c) \/ Route(c) \/ LeavingStep(c) \/ AbortReturns(c) PROVE SinksOK'
  <2>1. Others(c) /\ call'[c].pc \notin {"emit", "ack", "structured sinks"}
    BY <1>1, <1>6, CallFacts, RouteStepFacts, LeavingFacts, AbortFacts
  <2> QED
    BY <1>5, <2>1
<1>7. ASSUME NEW c \in Callers, SettledStep(c) PROVE SinksOK'
  <2>1. Others(c) /\ SameCall(c) /\ <<call[c].pc, call'[c].pc>> \in Settled
    BY <1>1, <1>7, SettledFacts
  <2>2. Enabled(c)' = Enabled(c) /\ Sinks(c)
    BY <1>1, <1>2, <2>1 DEF Enabled, Severe, Sev, SameCall
  <2>3. CASE NotVerbose(c) \/ Push(c) \/ CloseCall(c) \/ CloseReturn(c)
    <3>1. call'[c].pc \notin {"emit", "ack", "structured sinks"}
      BY <2>1, <2>3 DEF NotVerbose, Push, CloseCall, CloseReturn, At, Settled
    <3> QED
      BY <1>5, <2>1, <3>1
  <2>4. CASE EmitAck(c)
    <3>1. SameSinks(c) /\ call'[c].pc = "emit" /\ call[c].pc = "ack"
      BY <1>1, <2>4, GotoFacts DEF EmitAck, At, Pcs
    <3>2. Sinks(c)'
      BY <2>2, <3>1 DEF Sinks, SameSinks
    <3> QED
      BY <1>4, <2>1, <3>2
  <2>5. CASE NoTextSinks(c) \/ Sampled(c)
    <3>1. /\ call'[c].pc = "structured sinks" /\ call'[c].todo = StructuredSinks
          /\ ~call'[c].sampled => Enabled(c) = {}
      BY <1>1, <2>5, ToSinksFacts DEF NoTextSinks, Sampled
    <3>2. Sinks(c)'
      BY <2>2, <3>1 DEF Sinks
    <3> QED
      BY <1>4, <2>1, <3>2
  <2>6. CASE Format(c)
    <3>1. call'[c].pc = "emit" /\ Range(call'[c].todo) = Enabled(c)
      BY <1>1, <2>6, FormatFacts, UseFacts
    <3>2. Sinks(c)'
      BY <2>2, <3>1 DEF Sinks
    <3> QED
      BY <1>4, <2>1, <3>2
  <2>7. CASE EmitStderr(c) \/ EmitNoFile(c) \/ EmitFile(c) \/ StructuredSink(c)
    <3>1. PICK x \in {"emit", "ack", "structured sinks"}, err \in BOOLEAN :
            /\ call[c].todo # <<>> /\ Offered(c, x, err)
            /\ x = "structured sinks" <=> call[c].pc = "structured sinks"
            /\ call[c].pc \in {"emit", "structured sinks"}
      <4>1. CASE EmitStderr(c) \/ EmitNoFile(c) \/ EmitFile(c)
        <5>1. /\ call[c].pc = "emit" /\ call[c].todo # <<>>
              /\ \E x \in {"emit", "ack"}, err \in BOOLEAN : Offered(c, x, err)
          BY <4>1 DEF EmitStderr, EmitNoFile, EmitFile, At
        <5> QED
          BY <5>1
      <4>2. CASE StructuredSink(c)
        BY <4>2 DEF StructuredSink, At
      <4> QED
        BY <2>7, <4>1, <4>2
    <3>2. /\ call'[c].pc = x /\ call'[c].sampled = call[c].sampled
          /\ Range(call[c].todo) = {Head(call[c].todo)} \cup Range(call'[c].todo)
          /\ call'[c].offered = call[c].offered \cup {Head(call[c].todo)}
      BY <1>1, <3>1, OfferedFacts DEF Pcs
    <3>3. Sinks(c)'
      BY <2>2, <3>1, <3>2 DEF Sinks
    <3> QED
      BY <1>4, <2>1, <3>3
  <2>8. CASE Store(c)
    <3>1. /\ call[c].pc = "emit" /\ call[c].todo = <<>> /\ call'[c].pc = "structured sinks"
          /\ call'[c].todo = StructuredSinks /\ call'[c].offered = call[c].offered
      BY <1>1, <2>8, ToSinksFacts DEF Store, At
    <3>2. Range(call[c].todo) = {}
      <4>1. DOMAIN <<>> = {}
        OBVIOUS
      <4> QED
        BY <3>1, <4>1 DEF Range
    <3>3. Sinks(c)'
      BY <2>2, <3>1, <3>2 DEF Sinks
    <3> QED
      BY <1>4, <2>1, <3>3
  <2> QED
    BY <1>7, <2>3, <2>4, <2>5, <2>6, <2>7, <2>8 DEF SettledStep
<1>8. ASSUME NEW c \in Callers, End(c) PROVE SinksOK'
  <2>1. call'[c] = call[c] /\ \A d \in Callers : d # c => call'[d] = Idle
    BY <1>1, <1>8, EndFacts
  <2>2. Idle.pc = "idle"
    BY DEF Idle
  <2>3. \A d \in Callers : Sinks(d)'
    BY <1>3, <2>1, <2>2 DEF Sinks
  <2> QED
    BY <2>3 DEF SinksOK, Sinks
<1>9. CASE WriteOne \/ WriterExit \/ (\E m : SetLogMode(m)) \/ (\E c \in Callers : ReadFlag(c))
  <2>1. call' = call
    BY <1>9 DEF WriteOne, WriterExit, SetLogMode, ReadFlag
  <2>2. \A c \in Callers : Sinks(c)'
    BY <1>3, <2>1
  <2> QED
    BY <2>2 DEF SinksOK, Sinks
<1> QED
  BY <1>6, <1>7, <1>8, <1>9, StepKinds DEF Next

LEMMA FrontInvStart == Init => FrontInv
<1> SUFFICES ASSUME Init PROVE FrontInv
  OBVIOUS
<1>1. TypeOK
  BY IdleType DEF Init, TypeOK, Idle
<1>2. ModeOK /\ StructuredForGood /\ EndsOK /\ SinksOK
  <2>1. \A c \in Callers : call[c] = Idle
    BY DEF Init
  <2>2. Idle.pc = "idle" /\ Idle.bound = FALSE /\ Idle.n = 1
    BY DEF Idle
  <2>3. mode = "printf"
    BY DEF Init
  <2>4. \A c \in Callers : call[c].pc = "idle" /\ ~call[c].bound /\ call[c].n = 1
    BY <2>1, <2>2
  <2>5. ModeOK /\ StructuredForGood
    BY <2>3, <2>4 DEF ModeOK, StructuredForGood
  <2>6. EndsOK
    BY <2>4 DEF EndsOK
  <2>7. SinksOK
    <3>1. \A c \in Callers : call[c].pc \notin {"emit", "ack", "structured sinks"}
      BY <2>4
    <3> QED
      BY <3>1 DEF SinksOK
  <2> QED
    BY <2>5, <2>6, <2>7
<1>3. BuffersOK /\ FreshOK
  <2>1. \A b \in Buffers : text[b] = Nil
    BY DEF Init
  <2>2. \A c \in Callers : <<c, 1>> # Nil /\ <<c, 2>> # Nil
    BY NilIsNoValue
  <2> QED
    BY <2>1, <2>2 DEF Init, BuffersOK, FreshOK, Record, Idle
<1>4. DiskOK /\ SevereIsFlushed
  BY DEF Init, DiskOK, SevereIsFlushed, Idle
<1> QED
  BY <1>1, <1>2, <1>3, <1>4 DEF FrontInv

LEMMA FrontInvStep == FrontInv /\ [Next]_vars => FrontInv'
<1>1. ASSUME FrontInv, Next PROVE FrontInv'
  BY <1>1, TypeInv, ModeInv, EndsInv, BuffersInv, DiskInv, SinksInv DEF FrontInv
<1>2. ASSUME FrontInv, UNCHANGED vars PROVE FrontInv'
  <2>1. /\ UNCHANGED <<mode, modeSet, flagRead, outputs, text, fatalMessage, reported>>
        /\ UNCHANGED <<writer, queue, acked, late, call, dead>>
    BY <1>2 DEF vars, modes, fatal, file
  <2>2. TypeOK' /\ ModeOK' /\ StructuredForGood' /\ EndsOK'
    BY <1>2, <2>1 DEF FrontInv, TypeOK, ModeOK, StructuredForGood, EndsOK, AsksMode
  <2>3. BuffersOK' /\ FreshOK'
    BY <1>2, <2>1 DEF FrontInv, BuffersOK, FreshOK, Record
  <2>4. DiskOK' /\ SevereIsFlushed' /\ SinksOK'
    BY <1>2, <2>1 DEF FrontInv, DiskOK, SevereIsFlushed, SinksOK, Record, Enabled, Severe, Sev
  <2> QED
    BY <2>2, <2>3, <2>4 DEF FrontInv
<1> QED
  BY <1>1, <1>2
-----------------------------------------------------------------------------
(* The theorems.                                                           *)

(* The inductive invariant holds in every reachable state.                 *)
THEOREM FrontInvariant == Spec => []FrontInv
BY FrontInvStart, FrontInvStep, PTL DEF Spec

(* The program stays within the types of its variables, and a call finds   *)
(* its own text in its buffer whenever it holds one (bufs, textPrintf).    *)
THEOREM TypeCorrect == Spec => []TypeOK
<1>1. FrontInv => TypeOK
  BY DEF FrontInv
<1> QED
  BY <1>1, FrontInvariant, PTL

(* A call that found structured mode on never gets to the printf pipeline, *)
(* whatever forms it goes through and whoever sets the mode (getMode).     *)
THEOREM StructuredStays == Spec => []StructuredForGood
<1>1. FrontInv => StructuredForGood
  BY DEF FrontInv
<1> QED
  BY <1>1, FrontInvariant, PTL

(* An ERROR or FATAL record the ring took is flushed before its call goes  *)
(* on, unless the wait for the ack timed out (fileSinkSet.Emit, and        *)
(* structuredEmit).                                                        *)
THEOREM SevereFlushedFirst == Spec => []SevereIsFlushed
<1>1. FrontInv => SevereIsFlushed
  BY DEF FrontInv
<1> QED
  BY <1>1, FrontInvariant, PTL

(* The first fatal message stays, and no one formats into its buffer       *)
(* (fatalMessageStore).                                                    *)
THEOREM FatalMessageStays == Spec => FatalMessageFrozen
<1> DEFINE Frozen == fatalMessage # Nil =>
                       fatalMessage' = fatalMessage /\ text'[fatalMessage.buf] = fatalMessage.rec
<1>1. ASSUME FrontInv, [Next]_vars PROVE Frozen
  <2>1. /\ TypeOK /\ BuffersOK /\ FreshOK /\ fatalMessage \in Messages \cup {Nil}
        /\ text \in [Buffers -> Records \cup {Nil}]
    BY <1>1 DEF FrontInv, TypeOK
  <2>2. CASE UNCHANGED fatal
    BY <2>1, <2>2 DEF fatal, BuffersOK
  <2>3. ASSUME NEW c \in Callers, Format(c) \/ Store(c), fatalMessage # Nil PROVE Frozen
    <3>1. fatalMessage' = fatalMessage
      BY <2>3 DEF Format, Store
    <3>2. BuffersOK' /\ fatalMessage' # Nil
      <4>1. Next
        BY <2>3 DEF Next, Step
      <4> QED
        BY <1>1, <2>3, <3>1, <4>1, BuffersInv
    <3> QED
      BY <3>1, <3>2 DEF BuffersOK
  <2>4. CASE WriteOne \/ WriterExit \/ \E m : SetLogMode(m)
    BY <2>2, <2>4 DEF WriteOne, WriterExit, SetLogMode
  <2>5. CASE UNCHANGED vars
    BY <2>2, <2>5 DEF vars
  <2> QED
    BY <1>1, <2>2, <2>3, <2>4, <2>5, Frames DEF Next
<1> QED
  BY <1>1, FrontInvariant, PTL DEF Spec, FatalMessageFrozen

(* A record leaves the sinks only when each has been offered it, and an    *)
(* error of theirs is reported (sinkf, LogsinkPrintf).                     *)
THEOREM SinksAreOffered == Spec => OfferedToAll
<1> DEFINE All == \A c \in Callers : LeavesSinks(c) =>
                    /\ ~call[c].sampled => Enabled(c) \subseteq call[c].offered
                    /\ Range(StructuredSinks) \subseteq call[c].offered
                    /\ call[c].failed => reported'
<1>1. ASSUME FrontInv, [Next]_vars PROVE All
  <2> SUFFICES ASSUME NEW c \in Callers, LeavesSinks(c)
               PROVE  /\ ~call[c].sampled => Enabled(c) \subseteq call[c].offered
                      /\ Range(StructuredSinks) \subseteq call[c].offered
                      /\ call[c].failed => reported'
    OBVIOUS
  <2>1. /\ TypeOK /\ ModeOK /\ EndsOK /\ BuffersOK /\ FreshOK /\ CallType
        /\ call[c].pc = "structured sinks" /\ call'[c] # call[c] /\ dead' = Nil
    BY <1>1 DEF FrontInv, TypeOK, CallType, LeavesSinks
  <2>2. Call(c) \/ Step(c)
    <3>1. ASSUME NEW d \in Callers, Call(d) \/ Step(d), ~End(d), ~ReadFlag(d) PROVE Others(d)
      BY <2>1, <3>1, StepKinds, CallFacts, RouteStepFacts, SettledFacts, LeavingFacts, AbortFacts
    <3>2. ASSUME NEW d \in Callers, End(d) PROVE FALSE
      <4>1. /\ call[d].then \in {"abort", "exit1", "exit2"}
            /\ dead' = [by |-> d, code |-> call[d].then]
        <5>1. call[d].pc = "end" /\ dead' = [by |-> d, code |-> call[d].then]
          BY <2>1, <3>2, EndFacts
        <5>2. call[d].then \in {"return", "abort", "exit1", "exit2"}
          BY <2>1 DEF CallType, Locals
        <5> QED
          BY <2>1, <5>1, <5>2 DEF EndsOK
      <4>2. dead' \in Deaths
        BY <4>1 DEF Deaths
      <4> QED
        BY <2>1, <4>2, NilIsNoValue
    <3>3. CASE WriteOne \/ WriterExit \/ UNCHANGED vars \/ (\E m : SetLogMode(m))
      BY <2>1, <3>3 DEF WriteOne, WriterExit, SetLogMode, vars
    <3>4. ASSUME NEW d \in Callers, ReadFlag(d) PROVE FALSE
      BY <2>1, <3>4 DEF ReadFlag
    <3> QED
      BY <1>1, <2>1, <3>1, <3>2, <3>3, <3>4 DEF Next, Others
  <2>3. Sinkf(c) \/ StructuredSink(c)
    BY <2>1, <2>2 DEF Call, Step, ReadFlag, Route, NotVerbose, NoTextSinks, Sampled, Format,
       EmitStderr, EmitNoFile, EmitFile, EmitAck, Store, PushNothing, Push, PushAck, CloseCall,
       CloseReturn, End, AbortReturns, At
  <2>4. ~StructuredSink(c)
    BY <2>1, OfferedFacts DEF StructuredSink, LeavesSinks, Pcs
  <2>5. call[c].todo = <<>> /\ (call[c].failed => reported')
    BY <2>3, <2>4 DEF Sinkf
  <2>6. Range(call[c].todo) = {}
    BY <2>5 DEF Range
  <2> QED
    BY <1>1, <2>1, <2>5, <2>6 DEF FrontInv, SinksOK
<1> QED
  BY <1>1, FrontInvariant, PTL DEF Spec, OfferedToAll
=============================================================================
