------------------------ MODULE VerboseFlags_proofs ------------------------
(***************************************************************************)
(* Theorems about VerboseFlags, for every set of goroutines, call sites,   *)
(* levels and values of -vmodule, and any number of calls.                 *)
(***************************************************************************)
EXTENDS VerboseFlags, NatFacts, FiniteSetTheorems, TLAPS

(***************************************************************************)
(* The inductive invariant.  While vModuleFlag.Set runs, the newest cache  *)
(* is that of the filters before it; while Level.Set runs, it is empty.    *)
(***************************************************************************)
HoldsMu(s) == spc[s] \in {"level", "length", "cache"}
Running(l) == mu # Free /\ spc[mu] = l

(* The setters exclude each other, for either mutex.                       *)
OwnersOK ==
  /\ \A s \in Setters : HoldsMu(s) <=> mu = s
  /\ \A s \in Setters : spc[s] = "locs" <=> traceMu = s

(* There are enough caches, and no call meets more Sets than there are.    *)
CountsOK ==
  /\ mu # Free => sets > 0
  /\ current <= sets
  /\ Running("length") \/ Running("cache") => current < sets
  /\ \A r \in Readers : overlaps[r] <= sets

LengthsOK ==
  /\ Running("length") => moduleLength = Len(before)
  /\ ~Running("length") => moduleLength = Len(module)
  /\ mu = Free \/ Running("level") => before = module
  /\ traceMu = Free => locsLen = Cardinality(locs)
  /\ traceMu # Free => locsLen = Cardinality(arg[traceMu].locs)

Old == [v |-> v, module |-> before]

CachesOK ==
  /\ \A s \in Sites : maps[current][s] \in {NoLevel, LevelFor(Old, s)}
  /\ Running("level") => maps[current] = EmptyMap
  /\ \A n \in 0..MaxSets : n > current => maps[n] = EmptyMap

(* A call on its way has seen what is in force, and knows of a Set that is *)
(* running.  The level it found in a cache is that of a setting it saw.    *)
(* One that found no filters will answer with -v: either that is still the *)
(* level of a setting it saw, or two Sets have overlapped it.              *)
InV(r)     == rpc[r] \in {"length", "v", "map", "lookup", "fill", "done"}
InMatch(r) == rpc[r] \in {"locsLen", "scan", "traced"}

VInForce(r) ==
  /\ \E w \in window[r] : w.module = <<>>
  /\ overlaps[r] <= 1 => /\ [v |-> v, module |-> <<>>] \in window[r]
                         /\ module # <<>> => overlaps[r] = 1 /\ ~Running("level")

FoundInForce(r) ==
  \/ maps[held[r]][site[r]] = NoLevel
  \/ \E w \in window[r] : maps[held[r]][site[r]] = LevelFor(w, site[r])

WindowOK(r) ==
  /\ InV(r) <=> window[r] # {}
  /\ InV(r) => InForce \subseteq window[r] /\ (mu # Free => overlaps[r] >= 1)
  /\ rpc[r] = "v" => VInForce(r)
  /\ rpc[r] = "lookup" => FoundInForce(r)

TraceOK(r) ==
  /\ InMatch(r) <=> traceWindow[r] # {}
  /\ InMatch(r) => LocsInForce \subseteq traceWindow[r]

WindowsOK == \A r \in Readers : WindowOK(r)
TracesOK  == \A r \in Readers : TraceOK(r)

FlagsInv == /\ TypeOK /\ OwnersOK /\ CountsOK /\ LengthsOK /\ CachesOK
            /\ WindowsOK /\ TracesOK /\ AnswerWasInForce
-----------------------------------------------------------------------------
(* What the operators of the model return.                                 *)

LEMMA LevelForType ==
  ASSUME NEW w \in Setting, NEW s \in Sites
  PROVE  LevelFor(w, s) \in Levels
<1> DEFINE hits == {i \in DOMAIN w.module : s \in w.module[i].sites}
<1>1. w.v \in Levels /\ w.module \in Seq(Filter)
  BY VerboseAssumption DEF Setting
<1>2. CASE hits = {}
  BY <1>1, <1>2 DEF LevelFor
<1>3. CASE hits # {}
  <2>1. hits \subseteq Nat
    BY <1>1
  <2>2. PICK i \in hits : \A j \in hits : i <= j
    BY <1>3, <2>1, LeastIsIn
  <2>3. (CHOOSE k \in hits : \A j \in hits : k <= j) \in hits
    BY <2>2
  <2>4. ASSUME NEW k \in hits PROVE w.module[k].level \in Levels
    <3>1. w.module[k] \in Filter
      BY <1>1
    <3> QED
      BY <3>1 DEF Filter
  <2> QED
    BY <1>3, <2>3, <2>4 DEF LevelFor
<1> QED
  BY <1>2, <1>3

(* Without filters the level is that of -v.                                *)
LEMMA LevelForNone ==
  ASSUME NEW x \in Levels, NEW s \in Sites
  PROVE  LevelFor([v |-> x, module |-> <<>>], s) = x
BY DEF LevelFor

(* An empty sequence is the only one of length 0.                          *)
LEMMA NoFilters ==
  ASSUME NEW m \in Modules, Len(m) = 0
  PROVE  m = <<>>
BY VerboseAssumption
(* What is counted is a number.                                            *)
LEMMA CountTypes ==
  ASSUME TypeOK
  PROVE  /\ MaxSets \in Nat /\ sets \in Nat /\ current \in Nat
         /\ \A r \in Readers : overlaps[r] \in Nat
BY VerboseAssumption DEF TypeOK
-----------------------------------------------------------------------------
(* Init and the setters.                                                   *)

LEMMA InitInv == Init => FlagsInv
<1> SUFFICES ASSUME Init PROVE FlagsInv
  OBVIOUS
<1> USE VerboseAssumption DEF Init
<1>1. TypeOK
  <2>1. (CHOOSE s \in Sites : TRUE) \in Sites
    OBVIOUS
  <2>2. Cardinality({}) = 0
    BY FS_EmptySet
  <2>3. moduleLength \in Nat
    OBVIOUS
  <2> QED
    BY <2>1, <2>2, <2>3 DEF TypeOK, EmptyMap
<1>2. OwnersOK
  BY DEF OwnersOK, HoldsMu
<1>3. CountsOK
  BY DEF CountsOK, Running
<1>4. LengthsOK
  BY FS_EmptySet DEF LengthsOK, Running
<1>5. CachesOK
  BY DEF CachesOK, Running, EmptyMap
<1>6. WindowsOK /\ TracesOK
  BY DEF WindowsOK, WindowOK, TracesOK, TraceOK, InV, InMatch
<1>7. AnswerWasInForce
  BY DEF AnswerWasInForce
<1> QED
  BY <1>1, <1>2, <1>3, <1>4, <1>5, <1>6, <1>7 DEF FlagsInv

(* What a setter adds to the history of a call refutes no answer.          *)
LEMMA AnswerStands ==
  ASSUME AnswerWasInForce, UNCHANGED readers,
         \A r \in Readers :
           /\ window[r] \subseteq window'[r]
           /\ traceWindow[r] \subseteq traceWindow'[r]
           /\ rpc[r] = "done" /\ overlaps[r] > 1 => overlaps'[r] > 1
  PROVE  AnswerWasInForce'
<1> SUFFICES ASSUME NEW r \in Readers
             PROVE  /\ rpc[r] = "done" =>
                         \/ \E w \in window'[r] : answer[r] = LevelFor(w, site[r])
                         \/ /\ overlaps'[r] > 1
                            /\ \E w \in window'[r] : w.module = <<>>
                            /\ \E w \in window'[r] : w.v = answer[r]
                    /\ rpc[r] = "traced" =>
                         \E l \in traceWindow'[r] : traced[r] = (site[r] \in l)
  BY DEF AnswerWasInForce, readers
<1> QED
  BY DEF AnswerWasInForce

LEMMA OverlapType ==
  ASSUME TypeOK, CountsOK, Overlap, sets < MaxSets
  PROVE  overlaps' \in [Readers -> 0..MaxSets]
<1>1. ASSUME NEW r \in Readers
      PROVE  (IF window[r] = {} THEN 0 ELSE overlaps[r] + 1) \in 0..MaxSets
  <2>1. overlaps[r] \in 0..MaxSets /\ sets \in 0..MaxSets /\ MaxSets \in Nat
    BY VerboseAssumption DEF TypeOK
  <2>2. overlaps[r] <= sets
    BY DEF CountsOK
  <2> QED
    BY <2>1, <2>2
<1> QED
  BY <1>1 DEF Overlap

LEMMA SetLevelInv ==
  ASSUME FlagsInv, NEW s \in Setters, SetLevel(s)
  PROVE  FlagsInv'
<1> USE VerboseAssumption
<1>1. PICK x \in Levels : arg' = [arg EXCEPT ![s].level = x]
  BY DEF SetLevel
<1>2. /\ mu = Free /\ mu' = s
      /\ spc[s] = "idle" /\ spc' = [spc EXCEPT ![s] = "level"]
      /\ sets < MaxSets /\ sets' = sets + 1
      /\ current' = current + 1
      /\ \A r \in Readers : overlaps'[r] = IF window[r] = {} THEN 0 ELSE overlaps[r] + 1
  BY DEF SetLevel, BeginSet, SetterGoes, NewCache, Overlap
<1>3. UNCHANGED <<v, module, moduleLength, maps, before, trace, readers, window, traceWindow>>
  BY DEF SetLevel
<1> USE DEF trace, readers, FlagsInv, Running
<1>4. \A t \in Setters : arg'[t].locs = arg[t].locs
  BY <1>1 DEF TypeOK
<1>5. TypeOK'
  <2>1. arg' \in [Setters -> [level : Levels, locs : SUBSET Sites]]
    <3>1. arg[s] \in [level : Levels, locs : SUBSET Sites]
      BY DEF TypeOK
    <3>2. [arg[s] EXCEPT !.level = x] \in [level : Levels, locs : SUBSET Sites]
      BY <3>1
    <3> QED
      BY <1>1, <3>2 DEF TypeOK
  <2>2. overlaps' \in [Readers -> 0..MaxSets]
    BY <1>2, OverlapType DEF SetLevel
  <2>3. current' \in 0..MaxSets /\ sets' \in 0..MaxSets
    BY <1>2 DEF TypeOK, CountsOK
  <2> QED
    BY <1>2, <1>3, <2>1, <2>2, <2>3 DEF TypeOK
<1>6. OwnersOK'
  BY <1>2, <1>3 DEF TypeOK, OwnersOK, HoldsMu
<1>7. CountsOK'
  <2>1. \A r \in Readers : overlaps'[r] <= sets'
    <3> SUFFICES ASSUME NEW r \in Readers PROVE overlaps'[r] <= sets'
      OBVIOUS
    <3>1. overlaps[r] \in Nat /\ sets \in Nat /\ overlaps[r] <= sets
      BY CountTypes DEF CountsOK
    <3> QED
      BY <1>2, <3>1
  <2>2. (~(Running("length") \/ Running("cache")))'
    BY <1>2 DEF TypeOK
  <2> QED
    BY <1>2, <2>1, <2>2 DEF TypeOK, CountsOK
<1>8. LengthsOK'
  BY <1>2, <1>3, <1>4 DEF TypeOK, LengthsOK
<1>9. CachesOK'
  <2>1. current' > current /\ current' \in 0..MaxSets
    BY <1>2, <1>5 DEF TypeOK
  <2>2. maps'[current'] = EmptyMap
    BY <1>3, <2>1 DEF CachesOK, TypeOK
  <2>3. \A n \in 0..MaxSets : n > current' => maps'[n] = EmptyMap
    BY <1>2, <1>3, <2>1 DEF CachesOK, TypeOK
  <2> QED
    BY <2>2, <2>3 DEF CachesOK, EmptyMap
<1>10. WindowsOK'
  <2> SUFFICES ASSUME NEW r \in Readers
               PROVE  WindowOK(r)'
    BY DEF WindowsOK
  <2>1. overlaps[r] \in Nat /\ overlaps'[r] = IF window[r] = {} THEN 0 ELSE overlaps[r] + 1
    BY <1>2 DEF TypeOK
  <2>2. (InV(r) <=> window[r] # {})'
    BY <1>3 DEF WindowsOK, WindowOK, InV
  <2>3. (InV(r) => InForce \subseteq window[r] /\ (mu # Free => overlaps[r] >= 1))'
    BY <1>3, <2>1, <2>2 DEF WindowsOK, WindowOK, InV, InForce, Now
  <2>4. (rpc[r] = "v" => VInForce(r))'
    BY <1>2, <1>3, <2>1, <2>2 DEF WindowsOK, WindowOK, InV, VInForce
  <2>5. (rpc[r] = "lookup" => FoundInForce(r))'
    BY <1>3 DEF WindowsOK, WindowOK, FoundInForce
  <2> QED
    BY <2>2, <2>3, <2>4, <2>5 DEF WindowOK
<1>11. TracesOK'
  BY <1>2, <1>3, <1>4 DEF TypeOK, TracesOK, TraceOK, InMatch, LocsInForce, OwnersOK
<1>12. AnswerWasInForce'
  <2>1. ASSUME NEW r \in Readers, rpc[r] = "done", overlaps[r] > 1
        PROVE  overlaps'[r] > 1
    BY <1>2, <2>1, CountTypes DEF WindowsOK, WindowOK, InV
  <2> QED
    BY <1>3, <2>1, AnswerStands
<1> QED
  BY <1>5, <1>6, <1>7, <1>8, <1>9, <1>10, <1>11, <1>12 DEF FlagsInv

LEMMA StoreLevelInv ==
  ASSUME FlagsInv, NEW s \in Setters, StoreLevel(s)
  PROVE  FlagsInv'
<1> USE VerboseAssumption
<1> DEFINE x == arg[s].level
<1>1. /\ spc[s] = "level" /\ spc' = [spc EXCEPT ![s] = "idle"]
      /\ v' = x /\ mu' = Free
      /\ arg' = [arg EXCEPT ![s].level = 0]
      /\ window' = Add(window, [v |-> x, module |-> module])
  BY DEF StoreLevel, SetterGoes
<1>2. UNCHANGED <<module, moduleLength, maps, current, before, trace, sets, readers,
                  traceWindow, overlaps>>
  BY DEF StoreLevel
<1> USE DEF trace, readers, FlagsInv, Running
<1>3. mu = s /\ s # Free /\ before = module
  BY <1>1 DEF OwnersOK, HoldsMu, LengthsOK
<1>4. arg[s] \in [level : Levels, locs : SUBSET Sites]
  BY DEF TypeOK
<1>5. x \in Levels
  BY <1>4
<1>6. \A t \in Setters : arg'[t].locs = arg[t].locs
  BY <1>1, <1>4 DEF TypeOK
<1>7. \A r \in Readers : /\ window[r] = {} => window'[r] = {}
                         /\ window[r] # {} =>
                              window'[r] = window[r] \cup {[v |-> x, module |-> module]}
  BY <1>1 DEF Add
<1>8. TypeOK'
  <2>1. arg' \in [Setters -> [level : Levels, locs : SUBSET Sites]]
    <3>1. [arg[s] EXCEPT !.level = 0] \in [level : Levels, locs : SUBSET Sites]
      BY <1>4
    <3> QED
      BY <1>1, <3>1 DEF TypeOK
  <2>2. window' \in [Readers -> SUBSET Setting]
    <3>1. [v |-> x, module |-> module] \in Setting
      BY <1>5 DEF TypeOK, Setting
    <3> QED
      BY <1>1, <3>1 DEF TypeOK, Add
  <2>3. moduleLength = Len(module)
    BY <1>1, <1>3 DEF LengthsOK
  <2> QED
    BY <1>1, <1>2, <1>5, <2>1, <2>2, <2>3 DEF TypeOK
<1>9. OwnersOK'
  BY <1>1, <1>2, <1>3 DEF TypeOK, OwnersOK, HoldsMu
<1>10. CountsOK'
  BY <1>1, <1>2 DEF CountsOK
<1>11. LengthsOK'
  BY <1>1, <1>2, <1>3, <1>6 DEF TypeOK, LengthsOK
<1>12. CachesOK'
  <2>1. maps[current] = EmptyMap
    BY <1>1, <1>3 DEF CachesOK
  <2> QED
    BY <1>1, <1>2, <2>1 DEF CachesOK, EmptyMap
<1>13. WindowsOK'
  <2> SUFFICES ASSUME NEW r \in Readers
               PROVE  WindowOK(r)'
    BY DEF WindowsOK
  <2>1. (InV(r) <=> window[r] # {})'
    BY <1>2, <1>7 DEF WindowsOK, WindowOK, InV
  <2>2. (InV(r) => InForce \subseteq window[r] /\ (mu # Free => overlaps[r] >= 1))'
    BY <1>1, <1>2, <1>3, <1>7, <2>1 DEF InV, InForce, Now
  <2>3. (rpc[r] = "v" => VInForce(r))'
    BY <1>1, <1>2, <1>3, <1>7, <2>1, CountTypes DEF WindowsOK, WindowOK, InV, VInForce
  <2>4. (rpc[r] = "lookup" => FoundInForce(r))'
    BY <1>2, <1>7 DEF WindowsOK, WindowOK, FoundInForce
  <2> QED
    BY <2>1, <2>2, <2>3, <2>4 DEF WindowOK
<1>14. TracesOK'
  BY <1>1, <1>2, <1>6 DEF TypeOK, TracesOK, TraceOK, InMatch, LocsInForce
<1>15. AnswerWasInForce'
  BY <1>2, <1>7, AnswerStands
<1> QED
  BY <1>8, <1>9, <1>10, <1>11, <1>12, <1>13, <1>14, <1>15 DEF FlagsInv

LEMMA SetModuleInv ==
  ASSUME FlagsInv, NEW s \in Setters, SetModule(s)
  PROVE  FlagsInv'
<1> USE VerboseAssumption
<1>1. /\ mu = Free /\ mu' = s
      /\ spc[s] = "idle" /\ spc' = [spc EXCEPT ![s] = "length"]
      /\ sets < MaxSets /\ sets' = sets + 1
      /\ module' \in Modules
      /\ window' = Add(window, [v |-> v, module |-> module'])
      /\ \A r \in Readers : overlaps'[r] = IF window[r] = {} THEN 0 ELSE overlaps[r] + 1
  BY DEF SetModule, BeginSet, SetterGoes, Overlap
<1>2. UNCHANGED <<v, moduleLength, maps, current, before, trace, arg, readers, traceWindow>>
  BY DEF SetModule
<1> USE DEF trace, readers, FlagsInv, Running
<1>3. before = module
  BY <1>1 DEF LengthsOK
<1>4. \A r \in Readers : /\ window[r] = {} => window'[r] = {}
                         /\ window[r] # {} =>
                              window'[r] = window[r] \cup {[v |-> v, module |-> module']}
  BY <1>1 DEF Add
<1>5. TypeOK'
  <2>1. overlaps' \in [Readers -> 0..MaxSets]
    BY <1>1, OverlapType DEF SetModule
  <2>2. window' \in [Readers -> SUBSET Setting]
    <3>1. [v |-> v, module |-> module'] \in Setting
      BY <1>1 DEF TypeOK, Setting
    <3> QED
      BY <1>1, <3>1 DEF TypeOK, Add
  <2>3. sets' \in 0..MaxSets
    BY <1>1 DEF TypeOK
  <2> QED
    BY <1>1, <1>2, <2>1, <2>2, <2>3 DEF TypeOK
<1>6. OwnersOK'
  BY <1>1, <1>2 DEF TypeOK, OwnersOK, HoldsMu
<1>7. CountsOK'
  <2>1. \A r \in Readers : overlaps'[r] <= sets'
    <3> SUFFICES ASSUME NEW r \in Readers PROVE overlaps'[r] <= sets'
      OBVIOUS
    <3>1. overlaps[r] \in Nat /\ sets \in Nat /\ overlaps[r] <= sets
      BY CountTypes DEF CountsOK
    <3> QED
      BY <1>1, <3>1
  <2> QED
    BY <1>1, <1>2, <2>1, CountTypes DEF CountsOK
<1>8. LengthsOK'
  BY <1>1, <1>2, <1>3 DEF TypeOK, LengthsOK
<1>9. CachesOK'
  BY <1>1, <1>2 DEF TypeOK, CachesOK, Old
<1>10. WindowsOK'
  <2> SUFFICES ASSUME NEW r \in Readers
               PROVE  WindowOK(r)'
    BY DEF WindowsOK
  <2>1. overlaps[r] \in Nat /\ overlaps'[r] = IF window[r] = {} THEN 0 ELSE overlaps[r] + 1
    BY <1>1 DEF TypeOK
  <2>2. (InV(r) <=> window[r] # {})'
    BY <1>2, <1>4 DEF WindowsOK, WindowOK, InV
  <2>3. (InV(r) => InForce \subseteq window[r] /\ (mu # Free => overlaps[r] >= 1))'
    BY <1>2, <1>3, <1>4, <2>1, <2>2 DEF WindowsOK, WindowOK, InV, InForce, Now
  <2>4. (rpc[r] = "v" => VInForce(r))'
    <3>1. (~Running("level"))'
      BY <1>1 DEF TypeOK
    <3>2. SUFFICES ASSUME rpc[r] = "v" PROVE VInForce(r)'
      BY <1>2
    <3>3. window[r] # {} /\ VInForce(r) /\ window[r] \subseteq window'[r]
      BY <1>4, <3>2 DEF WindowsOK, WindowOK, InV
    <3> QED
      BY <1>2, <2>1, <3>1, <3>3 DEF VInForce
  <2>5. (rpc[r] = "lookup" => FoundInForce(r))'
    BY <1>2, <1>4 DEF WindowsOK, WindowOK, FoundInForce
  <2> QED
    BY <2>2, <2>3, <2>4, <2>5 DEF WindowOK
<1>11. TracesOK'
  BY <1>1, <1>2 DEF TypeOK, TracesOK, TraceOK, InMatch, LocsInForce
<1>12. AnswerWasInForce'
  <2>1. ASSUME NEW r \in Readers, rpc[r] = "done", overlaps[r] > 1
        PROVE  overlaps'[r] > 1
    BY <1>1, <2>1, CountTypes DEF WindowsOK, WindowOK, InV
  <2> QED
    BY <1>2, <1>4, <2>1, AnswerStands
<1> QED
  BY <1>5, <1>6, <1>7, <1>8, <1>9, <1>10, <1>11, <1>12 DEF FlagsInv

(* Two steps that log calls learn nothing from.                            *)
LEMMA StoreLengthInv ==
  ASSUME FlagsInv, NEW s \in Setters, StoreLength(s)
  PROVE  FlagsInv'
<1> USE VerboseAssumption
<1>1. /\ spc[s] = "length" /\ spc' = [spc EXCEPT ![s] = "cache"]
      /\ moduleLength' = Len(module)
  BY DEF StoreLength, SetterGoes
<1>2. UNCHANGED <<v, module, maps, current, mu, before, trace, sets, arg, readers, history>>
  BY DEF StoreLength
<1> USE DEF trace, readers, history, FlagsInv, Running
<1>3. mu = s /\ s # Free
  BY <1>1 DEF OwnersOK, HoldsMu
<1>4. TypeOK'
  <2>1. Len(module) \in Nat
    BY DEF TypeOK
  <2> QED
    BY <1>1, <1>2, <1>3, <2>1 DEF TypeOK
<1>5. OwnersOK'
  BY <1>1, <1>2 DEF TypeOK, OwnersOK, HoldsMu
<1>6. CountsOK'
  BY <1>1, <1>2, <1>3 DEF CountsOK
<1>7. LengthsOK'
  BY <1>1, <1>2, <1>3 DEF TypeOK, LengthsOK
<1>8. CachesOK'
  BY <1>1, <1>2, <1>3 DEF TypeOK, CachesOK, Old
<1>9. WindowsOK'
  <2> SUFFICES ASSUME NEW r \in Readers
               PROVE  (rpc[r] = "v" => VInForce(r))' /\ (rpc[r] = "lookup" => FoundInForce(r))'
    BY <1>2 DEF WindowsOK, WindowOK, InV, InForce, Now
  <2>1. (~Running("level"))'
    BY <1>1, <1>2, <1>3 DEF TypeOK
  <2> QED
    BY <1>2, <2>1 DEF WindowsOK, WindowOK, VInForce, FoundInForce
<1>10. TracesOK'
  BY <1>1, <1>2 DEF TypeOK, TracesOK, TraceOK, InMatch, LocsInForce
<1>11. AnswerWasInForce'
  BY <1>2, AnswerStands
<1> QED
  BY <1>4, <1>5, <1>6, <1>7, <1>8, <1>9, <1>10, <1>11 DEF FlagsInv

LEMMA StoreCacheInv ==
  ASSUME FlagsInv, NEW s \in Setters, StoreCache(s)
  PROVE  FlagsInv'
<1> USE VerboseAssumption
<1>1. /\ spc[s] = "cache" /\ spc' = [spc EXCEPT ![s] = "idle"]
      /\ current' = current + 1
      /\ before' = module /\ mu' = Free
  BY DEF StoreCache, SetterGoes, NewCache
<1>2. UNCHANGED <<v, module, moduleLength, maps, trace, sets, arg, readers, history>>
  BY DEF StoreCache
<1> USE DEF trace, readers, history, FlagsInv, Running
<1>3. mu = s /\ s # Free
  BY <1>1 DEF OwnersOK, HoldsMu
<1>4. TypeOK'
  <2>1. current' \in 0..MaxSets
    BY <1>1, <1>3 DEF TypeOK, CountsOK
  <2> QED
    BY <1>1, <1>2, <1>3, <2>1 DEF TypeOK, LengthsOK
<1>5. OwnersOK'
  BY <1>1, <1>2, <1>3 DEF TypeOK, OwnersOK, HoldsMu
<1>6. CountsOK'
  BY <1>1, <1>2, <1>3, CountTypes DEF CountsOK
<1>7. LengthsOK'
  BY <1>1, <1>2, <1>3 DEF TypeOK, LengthsOK
<1>8. CachesOK'
  <2>1. current' > current /\ current' \in 0..MaxSets
    BY <1>1, <1>4, CountTypes DEF TypeOK
  <2>2. maps'[current'] = EmptyMap
    BY <1>2, <2>1 DEF CachesOK, TypeOK
  <2>3. \A n \in 0..MaxSets : n > current' => maps'[n] = EmptyMap
    BY <1>1, <1>2, <2>1 DEF CachesOK, TypeOK
  <2> QED
    BY <2>2, <2>3 DEF CachesOK, EmptyMap
<1>9. WindowsOK'
  BY <1>1, <1>2, <1>3 DEF WindowsOK, WindowOK, InV, VInForce, FoundInForce, InForce, Now
<1>10. TracesOK'
  BY <1>1, <1>2 DEF TypeOK, TracesOK, TraceOK, InMatch, LocsInForce
<1>11. AnswerWasInForce'
  BY <1>2, AnswerStands
<1> QED
  BY <1>4, <1>5, <1>6, <1>7, <1>8, <1>9, <1>10, <1>11 DEF FlagsInv

LEMMA SetTraceInv ==
  ASSUME FlagsInv, NEW s \in Setters, SetTrace(s)
  PROVE  FlagsInv'
<1> USE VerboseAssumption
<1>1. PICK x \in SUBSET Sites : /\ arg' = [arg EXCEPT ![s].locs = x]
                                /\ locsLen' = Cardinality(x)
                                /\ traceWindow' = Add(traceWindow, x)
  BY DEF SetTrace
<1>2. /\ traceMu = Free /\ traceMu' = s
      /\ spc[s] = "idle" /\ spc' = [spc EXCEPT ![s] = "locs"]
      /\ sets < MaxSets /\ sets' = sets + 1
  BY DEF SetTrace, BeginSet, SetterGoes
<1>3. UNCHANGED <<flags, locs, readers, window, overlaps>>
  BY DEF SetTrace
<1> USE DEF flags, readers, FlagsInv, Running
<1>4. arg'[s].locs = x /\ arg' \in [Setters -> [level : Levels, locs : SUBSET Sites]]
  <2>1. arg[s] \in [level : Levels, locs : SUBSET Sites]
    BY DEF TypeOK
  <2>2. /\ [arg[s] EXCEPT !.locs = x] \in [level : Levels, locs : SUBSET Sites]
        /\ [arg[s] EXCEPT !.locs = x].locs = x
    BY <2>1
  <2> QED
    BY <1>1, <2>2 DEF TypeOK
<1>5. \A r \in Readers : /\ traceWindow[r] = {} => traceWindow'[r] = {}
                         /\ traceWindow[r] # {} => traceWindow'[r] = traceWindow[r] \cup {x}
  BY <1>1 DEF Add
<1>6. mu \in Setters => mu # s
  BY <1>2 DEF OwnersOK, HoldsMu
<1>7. TypeOK'
  <2>1. Cardinality(x) \in Nat
    BY FS_Subset, FS_CardinalityType
  <2>2. traceWindow' \in [Readers -> SUBSET SUBSET Sites]
    BY <1>1 DEF TypeOK, Add
  <2>3. sets' \in 0..MaxSets
    BY <1>2 DEF TypeOK
  <2> QED
    BY <1>1, <1>2, <1>3, <1>4, <2>1, <2>2, <2>3 DEF TypeOK
<1>8. OwnersOK'
  BY <1>2, <1>3 DEF TypeOK, OwnersOK, HoldsMu
<1>9. \A l \in {"level", "length", "cache"} : Running(l)' <=> Running(l)
  BY <1>2, <1>3, <1>6 DEF TypeOK
<1>10. CountsOK'
  BY <1>2, <1>3, <1>9, CountTypes DEF CountsOK
<1>11. LengthsOK'
  BY <1>1, <1>2, <1>3, <1>4, <1>9 DEF LengthsOK
<1>12. CachesOK'
  BY <1>3, <1>9 DEF CachesOK, Old
<1>13. WindowsOK'
  BY <1>3, <1>9 DEF WindowsOK, WindowOK, InV, VInForce, FoundInForce, InForce, Now
<1>14. TracesOK'
  <2>1. {t \in Setters : spc'[t] = "locs"} = {s}
    BY <1>2 DEF TypeOK, OwnersOK
  <2>2. LocsInForce' = {locs, x}
    BY <1>3, <1>4, <2>1 DEF LocsInForce
  <2>3. locs \in LocsInForce
    BY DEF LocsInForce
  <2> QED
    BY <1>3, <1>5, <2>2, <2>3 DEF TracesOK, TraceOK, InMatch
<1>15. AnswerWasInForce'
  BY <1>3, <1>5, AnswerStands
<1> QED
  BY <1>7, <1>8, <1>10, <1>11, <1>12, <1>13, <1>14, <1>15 DEF FlagsInv

LEMMA StoreLocsInv ==
  ASSUME FlagsInv, NEW s \in Setters, StoreLocs(s)
  PROVE  FlagsInv'
<1> USE VerboseAssumption
<1>1. /\ spc[s] = "locs" /\ spc' = [spc EXCEPT ![s] = "idle"]
      /\ locs' = arg[s].locs /\ traceMu' = Free
      /\ arg' = [arg EXCEPT ![s].locs = {}]
  BY DEF StoreLocs, SetterGoes
<1>2. UNCHANGED <<flags, locsLen, sets, readers, history>>
  BY DEF StoreLocs
<1> USE DEF flags, readers, history, FlagsInv, Running
<1>3. traceMu = s /\ s # Free
  BY <1>1 DEF OwnersOK
<1>4. arg[s] \in [level : Levels, locs : SUBSET Sites]
  BY DEF TypeOK
<1>5. arg' \in [Setters -> [level : Levels, locs : SUBSET Sites]]
  <2>1. [arg[s] EXCEPT !.locs = {}] \in [level : Levels, locs : SUBSET Sites]
    BY <1>4
  <2> QED
    BY <1>1, <2>1 DEF TypeOK
<1>6. mu \in Setters => mu # s
  BY <1>1 DEF OwnersOK, HoldsMu
<1>7. locsLen = Cardinality(arg[s].locs)
  BY <1>3 DEF LengthsOK
<1>8. TypeOK'
  BY <1>1, <1>2, <1>4, <1>5, <1>7 DEF TypeOK
<1>9. OwnersOK'
  BY <1>1, <1>2, <1>3 DEF TypeOK, OwnersOK, HoldsMu
<1>10. \A l \in {"level", "length", "cache"} : Running(l)' <=> Running(l)
  BY <1>1, <1>2, <1>6 DEF TypeOK
<1>11. CountsOK'
  BY <1>2, <1>10 DEF CountsOK
<1>12. LengthsOK'
  BY <1>1, <1>2, <1>7, <1>10 DEF LengthsOK
<1>13. CachesOK'
  BY <1>2, <1>10 DEF CachesOK, Old
<1>14. WindowsOK'
  BY <1>2, <1>10 DEF WindowsOK, WindowOK, InV, VInForce, FoundInForce, InForce, Now
<1>15. TracesOK'
  <2>1. LocsInForce' \subseteq LocsInForce
    BY <1>1, <1>2, <1>3 DEF TypeOK, OwnersOK, LocsInForce
  <2> QED
    BY <1>2, <2>1 DEF TracesOK, TraceOK, InMatch
<1>16. AnswerWasInForce'
  BY <1>2, AnswerStands
<1> QED
  BY <1>8, <1>9, <1>11, <1>12, <1>13, <1>14, <1>15, <1>16 DEF FlagsInv
-----------------------------------------------------------------------------
(* The log calls.                                                          *)

AnswerOK(r) ==
  /\ rpc[r] = "done" =>
       \/ \E w \in window[r] : answer[r] = LevelFor(w, site[r])
       \/ /\ overlaps[r] > 1
          /\ \E w \in window[r] : w.module = <<>>
          /\ \E w \in window[r] : w.v = answer[r]
  /\ rpc[r] = "traced" => \E l \in traceWindow[r] : traced[r] = (site[r] \in l)

(* What one call does with its locals and its history concerns no other.   *)
Local(r) == <<rpc[r], site[r], held[r], answer[r], traced[r], window[r],
              traceWindow[r], overlaps[r]>>

LEMMA OneReader ==
  ASSUME FlagsInv, NEW r \in Readers, UNCHANGED <<flags, trace, setters>>,
         \A q \in Readers : q # r => Local(q)' = Local(q),
         TypeOK', overlaps'[r] <= sets, WindowOK(r)', TraceOK(r)', AnswerOK(r)'
  PROVE  FlagsInv'
<1> USE DEF FlagsInv, flags, trace, setters, Running
<1>1. OwnersOK' /\ CachesOK' /\ LengthsOK'
  BY DEF OwnersOK, HoldsMu, CachesOK, LengthsOK, Old
<1>2. CountsOK'
  BY DEF CountsOK, Local
<1>3. ASSUME NEW q \in Readers, q # r
      PROVE  WindowOK(q)' /\ TraceOK(q)' /\ AnswerOK(q)'
  <2>1. WindowOK(q) /\ TraceOK(q) /\ AnswerOK(q)
    BY DEF WindowsOK, TracesOK, AnswerWasInForce, AnswerOK
  <2>2. Local(q)' = Local(q)
    BY <1>3
  <2>3. WindowOK(q)'
    BY <2>1, <2>2 DEF WindowOK, Local, InV, VInForce, FoundInForce, InForce, Now
  <2>4. TraceOK(q)'
    BY <2>1, <2>2 DEF TraceOK, Local, InMatch, LocsInForce
  <2>5. AnswerOK(q)'
    BY <2>1, <2>2 DEF AnswerOK, Local
  <2> QED
    BY <2>3, <2>4, <2>5
<1>4. WindowsOK' /\ TracesOK' /\ AnswerWasInForce'
  BY <1>3 DEF WindowsOK, TracesOK, AnswerWasInForce, AnswerOK
<1> QED
  BY <1>1, <1>2, <1>4

LEMMA CallVInv ==
  ASSUME FlagsInv, NEW r \in Readers, CallV(r)
  PROVE  FlagsInv'
<1> USE VerboseAssumption
<1>1. PICK s \in Sites : site' = [site EXCEPT ![r] = s]
  BY DEF CallV, Begin
<1>2. /\ rpc[r] = "idle" /\ rpc' = [rpc EXCEPT ![r] = "length"]
      /\ calls[r] < MaxCalls /\ calls' = [calls EXCEPT ![r] = @ + 1]
      /\ window' = [window EXCEPT ![r] = InForce]
      /\ overlaps' = [overlaps EXCEPT ![r] = IF mu = Free THEN 0 ELSE 1]
  BY DEF CallV, Begin, ReaderGoes
<1>3. UNCHANGED <<flags, trace, setters, held, answer, traced, traceWindow>>
  BY DEF CallV, Begin
<1> USE DEF FlagsInv
<1>4. (IF mu = Free THEN 0 ELSE 1) <= sets /\ sets \in Nat
  BY CountTypes DEF CountsOK
<1>5. TypeOK'
  <2>1. InForce \subseteq Setting
    BY DEF TypeOK, InForce, Now, Setting
  <2>2. calls' \in [Readers -> 0..MaxCalls]
    BY <1>2 DEF TypeOK
  <2>3. overlaps' \in [Readers -> 0..MaxSets]
    BY <1>2, <1>4 DEF TypeOK
  <2> QED
    BY <1>1, <1>2, <1>3, <2>1, <2>2, <2>3 DEF TypeOK, flags, trace, setters
<1>6. overlaps'[r] <= sets
  BY <1>2, <1>4 DEF TypeOK
<1>7. rpc'[r] = "length" /\ window'[r] = InForce /\ InForce # {} /\ InForce' = InForce
  BY <1>2, <1>3 DEF TypeOK, InForce, Now, flags
<1>8. WindowOK(r)'
  BY <1>2, <1>3, <1>7 DEF WindowOK, InV, TypeOK, flags
<1>9. TraceOK(r)'
  BY <1>2, <1>3, <1>7 DEF TracesOK, TraceOK, InMatch
<1>10. AnswerOK(r)'
  BY <1>7 DEF AnswerOK
<1>11. \A q \in Readers : q # r => Local(q)' = Local(q)
  BY <1>1, <1>2, <1>3 DEF TypeOK, Local
<1> QED
  BY <1>3, <1>5, <1>6, <1>8, <1>9, <1>10, <1>11, OneReader

LEMMA CallMatchInv ==
  ASSUME FlagsInv, NEW r \in Readers, CallMatch(r)
  PROVE  FlagsInv'
<1> USE VerboseAssumption
<1>1. PICK s \in Sites : site' = [site EXCEPT ![r] = s]
  BY DEF CallMatch, Begin
<1>2. /\ rpc[r] = "idle" /\ rpc' = [rpc EXCEPT ![r] = "locsLen"]
      /\ calls[r] < MaxCalls /\ calls' = [calls EXCEPT ![r] = @ + 1]
      /\ traceWindow' = [traceWindow EXCEPT ![r] = LocsInForce]
  BY DEF CallMatch, Begin, ReaderGoes
<1>3. UNCHANGED <<flags, trace, setters, held, answer, traced, window, overlaps>>
  BY DEF CallMatch, Begin
<1> USE DEF FlagsInv
<1>4. TypeOK'
  <2>1. \A t \in Setters : arg[t].locs \in SUBSET Sites
    BY DEF TypeOK
  <2>2. LocsInForce \subseteq SUBSET Sites
    BY <2>1 DEF TypeOK, LocsInForce
  <2>3. calls' \in [Readers -> 0..MaxCalls]
    BY <1>2 DEF TypeOK
  <2> QED
    BY <1>1, <1>2, <1>3, <2>2, <2>3 DEF TypeOK, flags, trace, setters
<1>5. overlaps'[r] <= sets
  BY <1>3 DEF CountsOK
<1>6. /\ rpc'[r] = "locsLen" /\ traceWindow'[r] = LocsInForce
      /\ LocsInForce # {} /\ LocsInForce' = LocsInForce
  BY <1>2, <1>3 DEF TypeOK, LocsInForce, trace, setters
<1>7. WindowOK(r)'
  BY <1>2, <1>3, <1>6 DEF WindowsOK, WindowOK, InV
<1>8. TraceOK(r)'
  BY <1>6 DEF TraceOK, InMatch
<1>9. AnswerOK(r)'
  BY <1>6 DEF AnswerOK
<1>10. \A q \in Readers : q # r => Local(q)' = Local(q)
  BY <1>1, <1>2, <1>3 DEF TypeOK, Local
<1> QED
  BY <1>3, <1>4, <1>5, <1>7, <1>8, <1>9, <1>10, OneReader

LEMMA LoadLengthInv ==
  ASSUME FlagsInv, NEW r \in Readers, LoadLength(r)
  PROVE  FlagsInv'
<1> USE VerboseAssumption
<1>1. /\ rpc[r] = "length"
      /\ rpc' = [rpc EXCEPT ![r] = IF moduleLength = 0 THEN "v" ELSE "map"]
      /\ UNCHANGED <<flags, trace, setters, site, held, answer, traced, calls, history>>
  BY DEF LoadLength, ReaderGoes
<1> USE DEF FlagsInv, history
<1>2. TypeOK'
  BY <1>1 DEF TypeOK, flags, trace, setters
<1>3. rpc'[r] = IF moduleLength = 0 THEN "v" ELSE "map"
  BY <1>1 DEF TypeOK
<1>4. InForce' = InForce /\ Now' = Now
  BY <1>1 DEF InForce, Now, flags
<1>5. WindowOK(r) /\ InV(r)
  BY <1>1 DEF WindowsOK, InV
<1>6. moduleLength = 0 => VInForce(r)
  <2> SUFFICES ASSUME moduleLength = 0 PROVE VInForce(r)
    OBVIOUS
  <2>1. overlaps[r] \in Nat /\ InForce \subseteq window[r] /\ (mu # Free => overlaps[r] >= 1)
    BY <1>5, CountTypes DEF WindowOK
  <2>2. CASE Running("length")
    <3>1. before = <<>>
      BY <2>2, NoFilters DEF TypeOK, LengthsOK
    <3>2. [v |-> v, module |-> <<>>] \in window[r]
      BY <2>1, <3>1 DEF InForce
    <3> QED
      BY <2>1, <2>2, <3>2 DEF VInForce, Running
  <2>3. CASE ~Running("length")
    <3>1. module = <<>>
      BY <2>3, NoFilters DEF TypeOK, LengthsOK
    <3>2. [v |-> v, module |-> <<>>] \in window[r]
      BY <2>1, <3>1 DEF InForce, Now
    <3> QED
      BY <3>1, <3>2 DEF VInForce
  <2> QED
    BY <2>2, <2>3
<1>7. WindowOK(r)'
  BY <1>1, <1>3, <1>4, <1>5, <1>6 DEF WindowOK, InV, VInForce, flags, setters, Running
<1>8. TraceOK(r)'
  BY <1>1, <1>3 DEF TracesOK, TraceOK, InMatch
<1>9. AnswerOK(r)'
  BY <1>3 DEF AnswerOK
<1>10. \A q \in Readers : q # r => Local(q)' = Local(q)
  BY <1>1 DEF TypeOK, Local
<1> QED
  BY <1>1, <1>2, <1>7, <1>8, <1>9, <1>10, OneReader DEF CountsOK

LEMMA LoadVInv ==
  ASSUME FlagsInv, NEW r \in Readers, LoadV(r)
  PROVE  FlagsInv'
<1> USE VerboseAssumption
<1>1. /\ rpc[r] = "v" /\ rpc' = [rpc EXCEPT ![r] = "done"]
      /\ answer' = [answer EXCEPT ![r] = v]
      /\ UNCHANGED <<flags, trace, setters, site, held, traced, calls, history>>
  BY DEF LoadV, Answer, ReaderGoes
<1> USE DEF FlagsInv, history
<1>2. TypeOK'
  BY <1>1 DEF TypeOK, flags, trace, setters
<1>3. rpc'[r] = "done" /\ answer'[r] = v /\ site[r] \in Sites /\ v \in Levels
  BY <1>1 DEF TypeOK
<1>4. WindowOK(r) /\ InV(r) /\ VInForce(r)
  BY <1>1 DEF WindowsOK, WindowOK, InV
<1>5. WindowOK(r)'
  BY <1>1, <1>3, <1>4 DEF WindowOK, InV, InForce, Now, flags
<1>6. TraceOK(r)'
  BY <1>1, <1>3 DEF TracesOK, TraceOK, InMatch
<1>7. AnswerOK(r)'
  <2>1. SUFFICES \/ \E w \in window[r] : v = LevelFor(w, site[r])
                 \/ /\ overlaps[r] > 1
                    /\ \E w \in window[r] : w.module = <<>>
                    /\ \E w \in window[r] : w.v = v
    BY <1>1, <1>3 DEF AnswerOK
  <2>2. CASE overlaps[r] <= 1
    <3>1. [v |-> v, module |-> <<>>] \in window[r]
      BY <1>4, <2>2 DEF VInForce
    <3> QED
      BY <1>3, <3>1, LevelForNone
  <2>3. CASE overlaps[r] > 1
    <3>1. Now \in window[r] /\ Now.v = v
      BY <1>4 DEF WindowOK, InForce, Now
    <3> QED
      BY <1>4, <2>3, <3>1 DEF VInForce
  <2> QED
    BY <2>2, <2>3, CountTypes
<1>8. \A q \in Readers : q # r => Local(q)' = Local(q)
  BY <1>1 DEF TypeOK, Local
<1> QED
  BY <1>1, <1>2, <1>5, <1>6, <1>7, <1>8, OneReader DEF CountsOK

LEMMA LoadMapInv ==
  ASSUME FlagsInv, NEW r \in Readers, LoadMap(r)
  PROVE  FlagsInv'
<1> USE VerboseAssumption
<1>1. /\ rpc[r] = "map" /\ rpc' = [rpc EXCEPT ![r] = "lookup"]
      /\ held' = [held EXCEPT ![r] = current]
      /\ UNCHANGED <<flags, trace, setters, site, answer, traced, calls, history>>
  BY DEF LoadMap, ReaderGoes
<1> USE DEF FlagsInv, history
<1>2. TypeOK'
  BY <1>1 DEF TypeOK, flags, trace, setters
<1>3. rpc'[r] = "lookup" /\ held'[r] = current /\ site[r] \in Sites
  BY <1>1 DEF TypeOK
<1>4. WindowOK(r) /\ InV(r)
  BY <1>1 DEF WindowsOK, InV
<1>5. FoundInForce(r)'
  <2>1. maps[current][site[r]] \in {NoLevel, LevelFor(Old, site[r])}
    BY <1>3 DEF CachesOK
  <2>2. Old \in window[r]
    BY <1>4 DEF WindowOK, InForce, Old
  <2> QED
    BY <1>1, <1>3, <2>1, <2>2 DEF FoundInForce, flags
<1>6. WindowOK(r)'
  BY <1>1, <1>3, <1>4, <1>5 DEF WindowOK, InV, InForce, Now, flags
<1>7. TraceOK(r)'
  BY <1>1, <1>3 DEF TracesOK, TraceOK, InMatch
<1>8. AnswerOK(r)'
  BY <1>3 DEF AnswerOK
<1>9. \A q \in Readers : q # r => Local(q)' = Local(q)
  BY <1>1 DEF TypeOK, Local
<1> QED
  BY <1>1, <1>2, <1>6, <1>7, <1>8, <1>9, OneReader DEF CountsOK

LEMMA LookupInv ==
  ASSUME FlagsInv, NEW r \in Readers, Lookup(r)
  PROVE  FlagsInv'
<1> USE VerboseAssumption
<1> DEFINE cached == maps[held[r]][site[r]]
<1>1. /\ rpc[r] = "lookup"
      /\ UNCHANGED <<flags, trace, setters, site, held, traced, calls, history>>
      /\ \/ /\ cached = NoLevel /\ answer' = answer
            /\ rpc' = [rpc EXCEPT ![r] = "fill"]
         \/ /\ cached # NoLevel /\ answer' = [answer EXCEPT ![r] = cached]
            /\ rpc' = [rpc EXCEPT ![r] = "done"]
  BY DEF Lookup, Answer, ReaderGoes
<1> USE DEF FlagsInv, history
<1>2. TypeOK'
  <2>1. cached \in Levels \cup {NoLevel}
    BY DEF TypeOK
  <2> QED
    BY <1>1, <2>1 DEF TypeOK, flags, trace, setters
<1>3. \/ rpc'[r] = "fill"
      \/ rpc'[r] = "done" /\ answer'[r] = cached /\ cached # NoLevel
  BY <1>1 DEF TypeOK
<1>4. WindowOK(r) /\ InV(r) /\ FoundInForce(r)
  BY <1>1 DEF WindowsOK, WindowOK, InV
<1>5. WindowOK(r)'
  BY <1>1, <1>3, <1>4 DEF WindowOK, InV, InForce, Now, flags
<1>6. TraceOK(r)'
  BY <1>1, <1>3 DEF TracesOK, TraceOK, InMatch
<1>7. AnswerOK(r)'
  BY <1>1, <1>3, <1>4 DEF AnswerOK, FoundInForce
<1>8. \A q \in Readers : q # r => Local(q)' = Local(q)
  BY <1>1 DEF TypeOK, Local
<1> QED
  BY <1>1, <1>2, <1>5, <1>6, <1>7, <1>8, OneReader DEF CountsOK

LEMMA LoadLocsLenInv ==
  ASSUME FlagsInv, NEW r \in Readers, LoadLocsLen(r)
  PROVE  FlagsInv'
<1> USE VerboseAssumption
<1>1. /\ rpc[r] = "locsLen"
      /\ UNCHANGED <<flags, trace, setters, site, held, answer, calls, history>>
      /\ \/ /\ locsLen = 0 /\ traced' = [traced EXCEPT ![r] = FALSE]
            /\ rpc' = [rpc EXCEPT ![r] = "traced"]
         \/ traced' = traced /\ rpc' = [rpc EXCEPT ![r] = "scan"]
  BY DEF LoadLocsLen, Traced, ReaderGoes
<1> USE DEF FlagsInv, history
<1>2. TypeOK'
  BY <1>1 DEF TypeOK, flags, trace, setters
<1>3. \/ rpc'[r] = "traced" /\ traced'[r] = FALSE /\ locsLen = 0
      \/ rpc'[r] = "scan"
  BY <1>1 DEF TypeOK
<1>4. TraceOK(r) /\ InMatch(r)
  BY <1>1 DEF TracesOK, InMatch
<1>5. locsLen = 0 => {} \in LocsInForce
  <2>1. CASE traceMu = Free
    <3>1. locs \subseteq Sites /\ locsLen = Cardinality(locs)
      BY <2>1 DEF TypeOK, LengthsOK
    <3>2. locsLen = 0 => locs = {}
      BY <3>1, FS_Subset, FS_EmptySet
    <3> QED
      BY <3>2 DEF LocsInForce
  <2>2. CASE traceMu # Free
    <3>1. traceMu \in Setters /\ spc[traceMu] = "locs"
      BY <2>2 DEF TypeOK, OwnersOK
    <3>2. arg[traceMu].locs \subseteq Sites
      BY <3>1 DEF TypeOK
    <3>3. locsLen = Cardinality(arg[traceMu].locs)
      BY <2>2 DEF LengthsOK
    <3>4. locsLen = 0 => arg[traceMu].locs = {}
      BY <3>2, <3>3, FS_Subset, FS_EmptySet
    <3> QED
      BY <3>1, <3>4 DEF LocsInForce
  <2> QED
    BY <2>1, <2>2
<1>6. WindowOK(r)'
  BY <1>1, <1>3 DEF WindowsOK, WindowOK, InV
<1>7. TraceOK(r)'
  BY <1>1, <1>3, <1>4 DEF TraceOK, InMatch, LocsInForce, trace, setters
<1>8. AnswerOK(r)'
  <2>1. rpc'[r] # "done" /\ site' = site /\ traceWindow' = traceWindow
    BY <1>1, <1>3
  <2>2. CASE rpc'[r] = "traced"
    <3>1. traced'[r] = FALSE /\ {} \in traceWindow[r]
      BY <1>3, <1>4, <1>5, <2>2 DEF TraceOK
    <3>2. FALSE = (site[r] \in {})
      OBVIOUS
    <3> QED
      BY <2>1, <3>1, <3>2 DEF AnswerOK
  <2> QED
    BY <2>1, <2>2 DEF AnswerOK
<1>9. \A q \in Readers : q # r => Local(q)' = Local(q)
  BY <1>1 DEF TypeOK, Local
<1> QED
  BY <1>1, <1>2, <1>6, <1>7, <1>8, <1>9, OneReader DEF CountsOK

LEMMA ScanInv ==
  ASSUME FlagsInv, NEW r \in Readers, Scan(r)
  PROVE  FlagsInv'
<1> USE VerboseAssumption
<1>1. /\ rpc[r] = "scan" /\ rpc' = [rpc EXCEPT ![r] = "traced"]
      /\ traced' = [traced EXCEPT ![r] = site[r] \in locs]
      /\ UNCHANGED <<flags, trace, setters, site, held, answer, calls, history>>
  BY DEF Scan, Traced, ReaderGoes
<1> USE DEF FlagsInv, history
<1>2. TypeOK'
  <2>1. traced' \in [Readers -> BOOLEAN]
    BY <1>1 DEF TypeOK
  <2> QED
    BY <1>1, <2>1 DEF TypeOK, flags, trace, setters
<1>3. rpc'[r] = "traced" /\ traced'[r] = (site[r] \in locs)
  BY <1>1 DEF TypeOK
<1>4. TraceOK(r) /\ InMatch(r)
  BY <1>1 DEF TracesOK, InMatch
<1>5. locs \in traceWindow[r]
  BY <1>4 DEF TraceOK, LocsInForce
<1>6. WindowOK(r)'
  BY <1>1, <1>3 DEF WindowsOK, WindowOK, InV
<1>7. TraceOK(r)'
  BY <1>1, <1>3, <1>4 DEF TraceOK, InMatch, LocsInForce, trace, setters
<1>8. AnswerOK(r)'
  <2>1. rpc'[r] # "done" /\ site' = site /\ traceWindow' = traceWindow
    BY <1>1, <1>3
  <2> QED
    BY <1>3, <1>5, <2>1 DEF AnswerOK
<1>9. \A q \in Readers : q # r => Local(q)' = Local(q)
  BY <1>1 DEF TypeOK, Local
<1> QED
  BY <1>1, <1>2, <1>6, <1>7, <1>8, <1>9, OneReader DEF CountsOK

LEMMA ReturnInv ==
  ASSUME FlagsInv, NEW r \in Readers, Return(r)
  PROVE  FlagsInv'
<1> USE VerboseAssumption
<1>1. /\ rpc[r] \in {"done", "traced"} /\ rpc' = [rpc EXCEPT ![r] = "idle"]
      /\ window' = [window EXCEPT ![r] = {}]
      /\ traceWindow' = [traceWindow EXCEPT ![r] = {}]
      /\ overlaps' = [overlaps EXCEPT ![r] = 0]
      /\ site' = [site EXCEPT ![r] = CHOOSE s \in Sites : TRUE]
      /\ held' = [held EXCEPT ![r] = 0]
      /\ answer' = [answer EXCEPT ![r] = 0]
      /\ traced' = [traced EXCEPT ![r] = FALSE]
      /\ UNCHANGED <<flags, trace, setters, calls>>
  BY DEF Return, ReaderGoes
<1> USE DEF FlagsInv
<1>2. TypeOK'
  <2>1. (CHOOSE s \in Sites : TRUE) \in Sites
    OBVIOUS
  <2> QED
    BY <1>1, <2>1 DEF TypeOK, flags, trace, setters
<1>3. rpc'[r] = "idle" /\ window'[r] = {} /\ traceWindow'[r] = {} /\ overlaps'[r] = 0
  BY <1>1 DEF TypeOK
<1>4. WindowOK(r)' /\ TraceOK(r)' /\ AnswerOK(r)'
  BY <1>3 DEF WindowOK, InV, TraceOK, InMatch, AnswerOK
<1>5. \A q \in Readers : q # r => Local(q)' = Local(q)
  BY <1>1 DEF TypeOK, Local
<1> QED
  BY <1>1, <1>2, <1>3, <1>4, <1>5, OneReader, CountTypes

(* The one step of a log call that others see: it stores a level in the    *)
(* newest cache, under the mutex, and so that of what is in force.         *)
LEMMA FillInv ==
  ASSUME FlagsInv, NEW r \in Readers, Fill(r)
  PROVE  FlagsInv'
<1> USE VerboseAssumption
<1> DEFINE level == LevelFor(Now, site[r])
<1>1. /\ rpc[r] = "fill" /\ mu = Free
      /\ rpc' = [rpc EXCEPT ![r] = "done"]
      /\ answer' = [answer EXCEPT ![r] = level]
      /\ maps' = [maps EXCEPT ![current][site[r]] = level]
  BY DEF Fill, Answer, ReaderGoes
<1>2. UNCHANGED <<v, module, moduleLength, current, mu, before, trace, setters,
                  site, held, traced, calls, history>>
  BY DEF Fill
<1> USE DEF FlagsInv, history, trace, setters, Running
<1>3. site[r] \in Sites /\ current \in 0..MaxSets /\ Now \in Setting /\ level \in Levels
  BY LevelForType DEF TypeOK, Now, Setting
<1>4. before = module /\ Old = Now
  BY <1>1 DEF LengthsOK, Old, Now
<1>5. /\ maps' \in [0..MaxSets -> [Sites -> Levels \cup {NoLevel}]]
      /\ maps'[current][site[r]] = level
      /\ \A n \in 0..MaxSets, s \in Sites :
           n # current \/ s # site[r] => maps'[n][s] = maps[n][s]
      /\ \A n \in 0..MaxSets : n # current => maps'[n] = maps[n]
  <2>1. maps[current] \in [Sites -> Levels \cup {NoLevel}]
    BY <1>3 DEF TypeOK
  <2>2. maps' = [maps EXCEPT ![current] = [maps[current] EXCEPT ![site[r]] = level]]
    BY <1>1
  <2> HIDE DEF level
  <2> QED
    BY <1>3, <2>1, <2>2 DEF TypeOK
<1> HIDE DEF level
<1>6. TypeOK'
  BY <1>1, <1>2, <1>3, <1>5 DEF TypeOK
<1>7. OwnersOK' /\ CountsOK' /\ LengthsOK'
  BY <1>2 DEF OwnersOK, HoldsMu, CountsOK, LengthsOK
<1>8. CachesOK'
  <2>1. \A s \in Sites : maps'[current][s] \in {NoLevel, LevelFor(Old, s)}
    BY <1>3, <1>4, <1>5 DEF CachesOK, level
  <2>2. Old' = Old
    BY <1>2 DEF Old
  <2>3. \A n \in 0..MaxSets : n > current => maps'[n] = EmptyMap
    BY <1>3, <1>5 DEF CachesOK
  <2> QED
    BY <1>1, <1>2, <2>1, <2>2, <2>3 DEF CachesOK
<1>9. ASSUME NEW q \in Readers
      PROVE  WindowOK(q)' /\ TraceOK(q)' /\ AnswerOK(q)'
  <2>1. WindowOK(q) /\ TraceOK(q) /\ AnswerOK(q)
    BY DEF WindowsOK, TracesOK, AnswerWasInForce, AnswerOK
  <2>2. \/ q # r /\ rpc'[q] = rpc[q] /\ answer'[q] = answer[q]
        \/ q = r /\ rpc[q] = "fill" /\ rpc'[q] = "done" /\ answer'[q] = level
    BY <1>1 DEF TypeOK
  <2>3. rpc'[q] = "lookup" => FoundInForce(q)'
    <3> SUFFICES ASSUME rpc'[q] = "lookup" PROVE FoundInForce(q)'
      OBVIOUS
    <3>1. FoundInForce(q) /\ Now \in window[q]
      BY <2>1, <2>2 DEF WindowOK, InV, InForce
    <3>2. held[q] \in 0..MaxSets /\ site[q] \in Sites
      BY DEF TypeOK
    <3>3. CASE held[q] = current /\ site[q] = site[r]
      BY <1>2, <1>5, <3>1, <3>3 DEF FoundInForce, level
    <3>4. CASE ~(held[q] = current /\ site[q] = site[r])
      BY <1>2, <1>5, <3>1, <3>2, <3>4 DEF FoundInForce
    <3> QED
      BY <3>3, <3>4
  <2>4. WindowOK(q)'
    BY <1>2, <2>1, <2>2, <2>3 DEF WindowOK, InV, VInForce, InForce, Now
  <2>5. TraceOK(q)'
    BY <1>2, <2>1, <2>2 DEF TraceOK, InMatch, LocsInForce
  <2>6. AnswerOK(q)'
    <3>1. CASE q = r
      <4>1. Now \in window[r] /\ answer'[r] = level /\ rpc'[r] = "done"
        BY <2>1, <2>2, <3>1 DEF WindowOK, InV, InForce
      <4> QED
        BY <1>2, <3>1, <4>1 DEF AnswerOK, level
    <3>2. CASE q # r
      BY <1>2, <2>1, <2>2, <3>2 DEF AnswerOK
    <3> QED
      BY <3>1, <3>2
  <2> QED
    BY <2>4, <2>5, <2>6
<1>10. WindowsOK' /\ TracesOK' /\ AnswerWasInForce'
  BY <1>9 DEF WindowsOK, TracesOK, AnswerWasInForce, AnswerOK
<1> QED
  BY <1>6, <1>7, <1>8, <1>10
-----------------------------------------------------------------------------
LEMMA StutterInv ==
  ASSUME FlagsInv, UNCHANGED vars
  PROVE  FlagsInv'
<1> USE DEF FlagsInv, vars, flags, trace, setters, readers, history, Running
<1>1. TypeOK'
  BY DEF TypeOK
<1>2. OwnersOK' /\ CountsOK' /\ LengthsOK' /\ CachesOK'
  BY DEF OwnersOK, HoldsMu, CountsOK, LengthsOK, CachesOK, Old
<1>3. WindowsOK'
  BY DEF WindowsOK, WindowOK, InV, VInForce, FoundInForce, InForce, Now
<1>4. TracesOK'
  BY DEF TracesOK, TraceOK, InMatch, LocsInForce
<1>5. AnswerWasInForce'
  BY AnswerStands
<1> QED
  BY <1>1, <1>2, <1>3, <1>4, <1>5

LEMMA StepInv == FlagsInv /\ [Next]_vars => FlagsInv'
<1> SUFFICES ASSUME FlagsInv, [Next]_vars PROVE FlagsInv'
  OBVIOUS
<1>1. ASSUME NEW s \in Setters, SetterStep(s) PROVE FlagsInv'
  BY <1>1, SetLevelInv, StoreLevelInv, SetModuleInv, StoreLengthInv, StoreCacheInv,
     SetTraceInv, StoreLocsInv DEF SetterStep
<1>2. ASSUME NEW r \in Readers, CallV(r) \/ CallMatch(r) PROVE FlagsInv'
  BY <1>2, CallVInv, CallMatchInv
<1>3. ASSUME NEW r \in Readers, ReaderStep(r) PROVE FlagsInv'
  BY <1>3, LoadLengthInv, LoadVInv, LoadMapInv, LookupInv, FillInv, LoadLocsLenInv,
     ScanInv, ReturnInv DEF ReaderStep
<1>4. CASE UNCHANGED vars
  BY <1>4, StutterInv
<1> QED
  BY <1>1, <1>2, <1>3, <1>4 DEF Next

(* The inductive invariant holds in every behaviour of the flags.          *)
THEOREM FlagsInvariant == Spec => []FlagsInv
<1> QED
  BY InitInv, StepInv, PTL DEF Spec

(* All variables have their types, and the lengths that are read without   *)
(* the mutex are those of the filters and locations when nobody sets them. *)
THEOREM FlagTypes == Spec => []TypeOK
<1>1. FlagsInv => TypeOK
  BY DEF FlagsInv
<1> QED
  BY <1>1, FlagsInvariant, PTL

(* The newest cache never holds a level that is not its site's under the   *)
(* flags, however log calls fill caches while Set replaces them.           *)
THEOREM CacheCurrency == Spec => []CacheIsCurrent
<1>1. FlagsInv => CacheIsCurrent
  BY DEF FlagsInv, CacheIsCurrent, CachesOK, LengthsOK, Old, Now
<1> QED
  BY <1>1, FlagsInvariant, PTL

(* Whatever Sets overlap a call of V or a traced line, it goes by what was *)
(* in force while it ran; only two overlapping Sets can make it mix two.   *)
THEOREM AnswersInForce == Spec => []AnswerWasInForce
<1>1. FlagsInv => AnswerWasInForce
  BY DEF FlagsInv
<1> QED
  BY <1>1, FlagsInvariant, PTL
=============================================================================
