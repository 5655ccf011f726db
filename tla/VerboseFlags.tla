---------------------------- MODULE VerboseFlags ----------------------------
(***************************************************************************)
(* mlog_flags.go: the -v and -vmodule flags behind V, with the cache of    *)
(* levels per call site, and the -log_backtrace_at list.  Flags are set    *)
(* under a mutex while log calls read lengths, level and cache without it; *)
(* each atomic load or store, and each section that only lock holders can  *)
(* tell apart, is a step.                                                  *)
(*                                                                         *)
(* A call site stands for a program counter.  A filter of -vmodule is the  *)
(* set of sites its pattern matches, with its level.                       *)
(***************************************************************************)
EXTENDS Integers, Sequences, FiniteSets

CONSTANTS Readers,   (* goroutines that call V or log at a traced line     *)
          Setters,   (* goroutines that set the flags                      *)
          Sites,
          Levels,    (* values of -v and of filters                        *)
          Modules,   (* values of -vmodule: sequences of filters           *)
          NoLevel,   (* a site that is not in a cache                      *)
          Free,      (* an unlocked mutex                                  *)
          MaxSets,   (* bound: calls of Set                                *)
          MaxCalls   (* bound: calls by each reader                        *)

Filter == [sites : SUBSET Sites, level : Levels]

ASSUME VerboseAssumption ==
         /\ NoLevel \notin Levels
         /\ Free \notin Setters
         /\ Sites # {} /\ IsFiniteSet(Sites)
         /\ Modules \subseteq Seq(Filter)
         /\ <<>> \in Modules
         /\ 0 \in Levels
         /\ MaxSets \in Nat /\ MaxCalls \in Nat

VARIABLES v, module, moduleLength,
          maps,        (* the sync.Maps made so far, by number             *)
          current,     (* moduleLevelCache: the number of the newest       *)
          mu,          (* verboseFlags.mu: its holder                      *)
          locs, locsLen, traceMu,  (* traceLocations                       *)
          sets,        (* calls of Set so far                              *)
          spc, arg,    (* per setter: its next step and what it will store *)
          rpc, site, held, answer, traced, calls,  (* per reader           *)
          before,      (* history: -vmodule as it was before the running Set *)
          window, traceWindow, overlaps    (* history, per reader: what    *)
                       (* was in force during its call; Sets it overlapped *)

flags   == <<v, module, moduleLength, maps, current, mu, before>>
trace   == <<locs, locsLen, traceMu>>
setters == <<sets, spc, arg>>
readers == <<rpc, site, held, answer, traced, calls>>
history == <<window, traceWindow, overlaps>>
vars    == <<flags, trace, setters, readers, history>>

Setting == [v : Levels, module : Modules]

(* The type invariant, with what lock-free readers go by: the lengths that *)
(* are kept beside the filters and the locations.                          *)
TypeOK ==
  /\ v \in Levels /\ module \in Modules /\ before \in Modules
  /\ moduleLength \in Nat /\ (mu = Free => moduleLength = Len(module))
  /\ current \in 0..MaxSets
  /\ maps \in [0..MaxSets -> [Sites -> Levels \cup {NoLevel}]]
  /\ mu \in Setters \cup {Free} /\ traceMu \in Setters \cup {Free}
  /\ locs \in SUBSET Sites
  /\ locsLen \in Nat /\ (traceMu = Free => locsLen = Cardinality(locs))
  /\ sets \in 0..MaxSets
  /\ spc \in [Setters -> {"idle", "level", "length", "cache", "locs"}]
  /\ arg \in [Setters -> [level : Levels, locs : SUBSET Sites]]
  /\ rpc \in [Readers -> {"idle", "length", "v", "map", "lookup", "fill", "done",
                          "locsLen", "scan", "traced"}]
  /\ site \in [Readers -> Sites]
  /\ held \in [Readers -> 0..MaxSets]
  /\ answer \in [Readers -> Levels] /\ traced \in [Readers -> BOOLEAN]
  /\ calls \in [Readers -> 0..MaxCalls]
  /\ window \in [Readers -> SUBSET Setting]
  /\ traceWindow \in [Readers -> SUBSET SUBSET Sites]
  /\ overlaps \in [Readers -> 0..MaxSets]

EmptyMap == [s \in Sites |-> NoLevel]

(* The program starts logging with the flags of its command line.          *)
Init ==
  /\ v \in Levels /\ module \in Modules
  /\ moduleLength = Len(module) /\ before = module
  /\ maps = [n \in 0..MaxSets |-> EmptyMap] /\ current = 0
  /\ mu = Free
  /\ locs = {} /\ locsLen = 0 /\ traceMu = Free
  /\ sets = 0
  /\ spc = [s \in Setters |-> "idle"] /\ arg = [s \in Setters |-> [level |-> 0, locs |-> {}]]
  /\ rpc = [r \in Readers |-> "idle"]
  /\ site = [r \in Readers |-> CHOOSE s \in Sites : TRUE]
  /\ held = [r \in Readers |-> 0] /\ answer = [r \in Readers |-> 0] /\ traced = [r \in Readers |-> FALSE]
  /\ calls = [r \in Readers |-> 0]
  /\ window = [r \in Readers |-> {}] /\ traceWindow = [r \in Readers |-> {}]
  /\ overlaps = [r \in Readers |-> 0]

(* The level of the first filter that matches the site, else that of -v.   *)
LevelFor(w, s) ==
  LET hits == {i \in DOMAIN w.module : s \in w.module[i].sites}
  IN  IF hits = {} THEN w.v
      ELSE w.module[CHOOSE i \in hits : \A j \in hits : i \leq j].level

Now == [v |-> v, module |-> module]

(* While a flag is being set, the old and the new value count as in force. *)
InForce == {Now, [v |-> v, module |-> before]}
LocsInForce == {locs} \cup {arg[s].locs : s \in {t \in Setters : spc[t] = "locs"}}

(* What a step that changes a flag adds to the history of running calls.   *)
Add(h, x) == [r \in Readers |-> IF h[r] = {} THEN {} ELSE h[r] \cup {x}]
Overlap == overlaps' = [r \in Readers |->
                          IF window[r] = {} THEN 0 ELSE overlaps[r] + 1]

SetterGoes(s, l) == spc' = [spc EXCEPT ![s] = l]
ReaderGoes(r, l) == rpc' = [rpc EXCEPT ![r] = l]
-----------------------------------------------------------------------------
(* Setting the flags *)

BeginSet(s, l) ==
  /\ spc[s] = "idle"
  /\ sets < MaxSets
  /\ sets' = sets + 1
  /\ SetterGoes(s, l)

NewCache == current' = current + 1

(* Fault: -v leaves the cache as it is.                                    *)
SetLevelKeepsCache(s) ==
  /\ mu = Free /\ mu' = s
  /\ BeginSet(s, "level") /\ Overlap
  /\ \E x \in Levels : arg' = [arg EXCEPT ![s].level = x]
  /\ UNCHANGED <<v, module, moduleLength, maps, current, before, trace, readers,
                 window, traceWindow>>

(* Level.Set for -v: a new cache, then the level.                          *)
SetLevel(s) ==
  /\ mu = Free /\ mu' = s
  /\ BeginSet(s, "level") /\ Overlap
  /\ \E x \in Levels : arg' = [arg EXCEPT ![s].level = x]
  /\ NewCache
  /\ UNCHANGED <<v, module, moduleLength, maps, before, trace, readers,
                 window, traceWindow>>

StoreLevel(s) ==
  /\ spc[s] = "level"
  /\ v' = arg[s].level
  /\ mu' = Free
  /\ SetterGoes(s, "idle")
  /\ arg' = [arg EXCEPT ![s].level = 0]
  /\ window' = Add(window, [v |-> arg[s].level, module |-> module])
  /\ UNCHANGED <<module, moduleLength, maps, current, before, trace, sets, readers,
                 traceWindow, overlaps>>

(* vModuleFlag.Set: the filters, their number, then a new cache.           *)
SetModule(s) ==
  /\ mu = Free /\ mu' = s
  /\ BeginSet(s, "length") /\ Overlap
  /\ module' \in Modules
  /\ window' = Add(window, [v |-> v, module |-> module'])
  /\ UNCHANGED <<v, moduleLength, maps, current, before, trace, arg, readers,
                 traceWindow>>

(* Fault: the length is only ever raised.                                  *)
StoreLengthIfMore(s) ==
  /\ spc[s] = "length"
  /\ moduleLength' = IF Len(module) > moduleLength THEN Len(module) ELSE moduleLength
  /\ SetterGoes(s, "cache")
  /\ UNCHANGED <<v, module, maps, current, mu, before, trace, sets, arg, readers, history>>

StoreLength(s) ==
  /\ spc[s] = "length"
  /\ moduleLength' = Len(module)
  /\ SetterGoes(s, "cache")
  /\ UNCHANGED <<v, module, maps, current, mu, before, trace, sets, arg, readers, history>>

StoreCache(s) ==
  /\ spc[s] = "cache"
  /\ NewCache
  /\ before' = module
  /\ mu' = Free
  /\ SetterGoes(s, "idle")
  /\ UNCHANGED <<v, module, moduleLength, maps, trace, sets, arg, readers, history>>

(* traceLocations.Set: the number of locations, then the locations.        *)
SetTrace(s) ==
  /\ traceMu = Free /\ traceMu' = s
  /\ BeginSet(s, "locs")
  /\ \E x \in SUBSET Sites :
       /\ arg' = [arg EXCEPT ![s].locs = x] /\ locsLen' = Cardinality(x)
       /\ traceWindow' = Add(traceWindow, x)
  /\ UNCHANGED <<flags, locs, readers, window, overlaps>>

(* Fault: the new locations are appended to the old ones.                  *)
StoreLocsAppends(s) ==
  /\ spc[s] = "locs"
  /\ locs' = locs \cup arg[s].locs
  /\ arg' = [arg EXCEPT ![s].locs = {}]
  /\ traceMu' = Free
  /\ SetterGoes(s, "idle")
  /\ UNCHANGED <<flags, locsLen, sets, readers, history>>

StoreLocs(s) ==
  /\ spc[s] = "locs"
  /\ locs' = arg[s].locs
  /\ arg' = [arg EXCEPT ![s].locs = {}]
  /\ traceMu' = Free
  /\ SetterGoes(s, "idle")
  /\ UNCHANGED <<flags, locsLen, sets, readers, history>>

SetterStep(s) ==
  \/ SetLevel(s) \/ StoreLevel(s)
  \/ SetModule(s) \/ StoreLength(s) \/ StoreCache(s)
  \/ SetTrace(s) \/ StoreLocs(s)
-----------------------------------------------------------------------------
(* Log calls *)

Begin(r, l) ==
  /\ rpc[r] = "idle"
  /\ calls[r] < MaxCalls
  /\ calls' = [calls EXCEPT ![r] = @ + 1]
  /\ \E s \in Sites : site' = [site EXCEPT ![r] = s]
  /\ ReaderGoes(r, l)
  /\ UNCHANGED <<flags, trace, setters, held, answer, traced>>

(* V: the history starts with what is in force and the Set that is running. *)
CallV(r) ==
  /\ Begin(r, "length")
  /\ window' = [window EXCEPT ![r] = InForce]
  /\ overlaps' = [overlaps EXCEPT ![r] = IF mu = Free THEN 0 ELSE 1]
  /\ UNCHANGED traceWindow

(* A log call asks whether its line is in the list.                        *)
CallMatch(r) ==
  /\ Begin(r, "locsLen")
  /\ traceWindow' = [traceWindow EXCEPT ![r] = LocsInForce]
  /\ UNCHANGED <<window, overlaps>>

(* The end of enabled, which compares the level with the one asked for,    *)
(* and of match.                                                           *)
Answer(r, a) == answer' = [answer EXCEPT ![r] = a] /\ ReaderGoes(r, "done")
Traced(r, t) == traced' = [traced EXCEPT ![r] = t] /\ ReaderGoes(r, "traced")

LoadLength(r) ==
  /\ rpc[r] = "length"
  /\ ReaderGoes(r, IF moduleLength = 0 THEN "v" ELSE "map")
  /\ UNCHANGED <<flags, trace, setters, site, held, answer, traced, calls, history>>

LoadV(r) ==
  /\ rpc[r] = "v"
  /\ Answer(r, v)
  /\ UNCHANGED <<flags, trace, setters, site, held, traced, calls, history>>

LoadMap(r) ==
  /\ rpc[r] = "map"
  /\ held' = [held EXCEPT ![r] = current]
  /\ ReaderGoes(r, "lookup")
  /\ UNCHANGED <<flags, trace, setters, site, answer, traced, calls, history>>

Lookup(r) ==
  /\ rpc[r] = "lookup"
  /\ LET cached == maps[held[r]][site[r]]
     IN  IF cached = NoLevel THEN ReaderGoes(r, "fill") /\ UNCHANGED answer
         ELSE Answer(r, cached)
  /\ UNCHANGED <<flags, trace, setters, site, held, traced, calls, history>>

(* Fault: a miss is computed and cached without the mutex.                 *)
FillUnlocked(r) ==
  /\ rpc[r] = "fill"
  /\ Answer(r, LevelFor(Now, site[r]))
  /\ maps' = [maps EXCEPT ![current][site[r]] = LevelFor(Now, site[r])]
  /\ UNCHANGED <<v, module, moduleLength, current, mu, before, trace, setters,
                 site, held, traced, calls, history>>

(* The locked part of levelForPC: it fills the newest cache, which may not *)
(* be the one it looked in.                                                *)
Fill(r) ==
  /\ rpc[r] = "fill"
  /\ mu = Free
  /\ Answer(r, LevelFor(Now, site[r]))
  /\ maps' = [maps EXCEPT ![current][site[r]] = LevelFor(Now, site[r])]
  /\ UNCHANGED <<v, module, moduleLength, current, mu, before, trace, setters,
                 site, held, traced, calls, history>>

LoadLocsLen(r) ==
  /\ rpc[r] = "locsLen"
  /\ IF locsLen = 0 THEN Traced(r, FALSE)
     ELSE ReaderGoes(r, "scan") /\ UNCHANGED traced
  /\ UNCHANGED <<flags, trace, setters, site, held, answer, calls, history>>

Scan(r) ==
  /\ rpc[r] = "scan"
  /\ traceMu = Free
  /\ Traced(r, site[r] \in locs)
  /\ UNCHANGED <<flags, trace, setters, site, held, answer, calls, history>>

(* The locals and the history of the call end with it.                     *)
Return(r) ==
  /\ rpc[r] \in {"done", "traced"}
  /\ ReaderGoes(r, "idle")
  /\ window' = [window EXCEPT ![r] = {}]
  /\ traceWindow' = [traceWindow EXCEPT ![r] = {}]
  /\ overlaps' = [overlaps EXCEPT ![r] = 0]
  /\ site' = [site EXCEPT ![r] = CHOOSE s \in Sites : TRUE]
  /\ held' = [held EXCEPT ![r] = 0]
  /\ answer' = [answer EXCEPT ![r] = 0]
  /\ traced' = [traced EXCEPT ![r] = FALSE]
  /\ UNCHANGED <<flags, trace, setters, calls>>

ReaderStep(r) ==
  \/ LoadLength(r) \/ LoadV(r) \/ LoadMap(r) \/ Lookup(r) \/ Fill(r)
  \/ LoadLocsLen(r) \/ Scan(r) \/ Return(r)

Next ==
  \/ \E s \in Setters : SetterStep(s)
  \/ \E r \in Readers : CallV(r) \/ CallMatch(r) \/ ReaderStep(r)

Spec == Init /\ [][Next]_vars
-----------------------------------------------------------------------------
(* No stale level survives in the newest cache: whenever no Set is running *)
(* what is cached for a site is its level under the flags as they are.     *)
(* Every fill has to happen on the right side of every replacement.        *)
CacheIsCurrent ==
  mu = Free => \A s \in Sites : maps[current][s] \in {NoLevel, LevelFor(Now, s)}

(* A call goes by flags that were in force while it ran, never by older    *)
(* ones.  V: only when two Sets overlap it may the answer mix two          *)
(* settings, -vmodule empty at one moment and -v as it was at another.  A  *)
(* traced line gets its backtrace exactly if the list asked for it at some *)
(* moment, although length and list are stored apart.                      *)
AnswerWasInForce ==
  \A r \in Readers :
    /\ rpc[r] = "done" =>
         \/ \E w \in window[r] : answer[r] = LevelFor(w, site[r])
         \/ /\ overlaps[r] > 1
            /\ \E w \in window[r] : w.module = <<>>
            /\ \E w \in window[r] : w.v = answer[r]
    /\ rpc[r] = "traced" => \E l \in traceWindow[r] : traced[r] = (site[r] \in l)
=============================================================================
