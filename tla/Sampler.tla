------------------------------ MODULE Sampler -------------------------------
(***************************************************************************)
(* sampler.go: the lock-free token bucket that limits how many entries     *)
(* below ERROR get through.  Callers run allow; each of its loads and      *)
(* compare-and-swaps is a step of its own.                                 *)
(***************************************************************************)
EXTENDS Integers

CONSTANTS Callers,    (* the goroutines that log                           *)
          Rate,       (* refillRate, in tokens per Second                  *)
          Burst,      (* maxTokens                                         *)
          Second,     (* 10^9 in the code: clock units in a second         *)
          Word,       (* 2^64 in the code: the range of an int64           *)
          MaxTime,    (* bound: the clock's range                          *)
          MaxCalls    (* bound: the calls of allow by each caller          *)

ASSUME SamplerAssumption ==
         /\ Rate \in Nat \ {0}
         /\ Burst \in Nat \ {0}
         /\ Second \in Nat \ {0}
         /\ Word \in Nat /\ Word > 1
         /\ MaxTime \in Nat /\ MaxCalls \in Nat

VARIABLES clock,        (* what time.Now().UnixNano() returns              *)
          tokens,
          lastRefill,
          pc,           (* per caller: its next step in allow              *)
          now, last,    (* per caller: the locals of refill                *)
          current,      (* per caller: its last load of tokens             *)
          calls,        (* per caller: calls of allow so far               *)
          admitted      (* history: calls that returned true               *)

locals == <<now, last, current, calls>>
vars   == <<clock, tokens, lastRefill, pc, locals, admitted>>

(* The type invariant: the bucket never holds a debt, nor more than Burst. *)
TypeOK ==
  /\ clock \in 0..MaxTime
  /\ tokens \in 0..Burst
  /\ lastRefill \in 0..MaxTime
  /\ pc \in [Callers -> {"idle", "clock", "claim", "load", "credit", "check", "take"}]
  /\ now \in [Callers -> 0..MaxTime] /\ last \in [Callers -> 0..MaxTime]
  /\ current \in [Callers -> 0..Burst]
  /\ calls \in [Callers -> 0..MaxCalls]
  /\ admitted \in Nat

Init ==
  /\ clock = 0 /\ lastRefill = 0
  /\ tokens = Burst
  /\ pc = [c \in Callers |-> "idle"]
  /\ now = [c \in Callers |-> 0]
  /\ last = [c \in Callers |-> 0]
  /\ current = [c \in Callers |-> 0]
  /\ calls = [c \in Callers |-> 0]
  /\ admitted = 0

(* The wall clock goes on, and may be set back.                            *)
Advance ==
  /\ clock' \in {clock - 1, clock + 1} \cap (0..MaxTime)
  /\ UNCHANGED <<tokens, lastRefill, pc, locals, admitted>>

Goto(c, l) == pc' = [pc EXCEPT ![c] = l]
-----------------------------------------------------------------------------
(* refill *)

ReadClock(c) ==
  /\ pc[c] = "idle"
  /\ calls[c] < MaxCalls
  /\ calls' = [calls EXCEPT ![c] = @ + 1]
  /\ now' = [now EXCEPT ![c] = clock]
  /\ Goto(c, "clock")
  /\ UNCHANGED <<clock, tokens, lastRefill, last, current, admitted>>

(* The int64 product elapsed * refillRate, then the division, which rounds *)
(* towards zero: a product that wraps to a negative number gives no tokens *)
(* to add, whatever the quotient.                                          *)
Wrapped(n) == n % Word
Negative(n) == 2 * Wrapped(n) \geq Word
Earned(elapsed) ==
  IF elapsed \leq 0 \/ Negative(elapsed * Rate) THEN 0
  ELSE Wrapped(elapsed * Rate) \div Second

NewTokens(c) ==
  LET n == Earned(now[c] - last[c]) IN IF n > Burst THEN Burst ELSE n

(* Fault: a single token is not worth a refill.                            *)
LoadLastRefillOfTwo(c) ==
  /\ pc[c] = "clock"
  /\ last' = [last EXCEPT ![c] = lastRefill]
  /\ Goto(c, IF Earned(now[c] - lastRefill) \leq 1 THEN "check" ELSE "claim")
  /\ UNCHANGED <<clock, tokens, lastRefill, now, current, calls, admitted>>

LoadLastRefill(c) ==
  /\ pc[c] = "clock"
  /\ last' = [last EXCEPT ![c] = lastRefill]
  /\ Goto(c, IF Earned(now[c] - lastRefill) = 0 THEN "check" ELSE "claim")
  /\ UNCHANGED <<clock, tokens, lastRefill, now, current, calls, admitted>>

(* Fault: lastRefill is stored instead of compared and swapped.            *)
ClaimIntervalBlind(c) ==
  /\ pc[c] = "claim"
  /\ lastRefill' = now[c]
  /\ Goto(c, "load")
  /\ UNCHANGED <<clock, tokens, locals, admitted>>

(* Of those who would refill for the same interval, one does.              *)
ClaimInterval(c) ==
  /\ pc[c] = "claim"
  /\ IF lastRefill = last[c]
     THEN lastRefill' = now[c] /\ Goto(c, "load")
     ELSE UNCHANGED lastRefill /\ Goto(c, "check")
  /\ UNCHANGED <<clock, tokens, locals, admitted>>

LoadTokens(c) ==
  /\ pc[c] = "load"
  /\ current' = [current EXCEPT ![c] = tokens]
  /\ Goto(c, "credit")
  /\ UNCHANGED <<clock, tokens, lastRefill, now, last, calls, admitted>>

(* Fault: the cap on the bucket is forgotten.                              *)
Uncapped(n) == n

Capped(n) == IF n > Burst THEN Burst ELSE n

Credit(c) ==
  /\ pc[c] = "credit"
  /\ IF tokens = current[c]
     THEN tokens' = Capped(tokens + NewTokens(c)) /\ Goto(c, "check")
     ELSE UNCHANGED tokens /\ Goto(c, "load")
  /\ UNCHANGED <<clock, lastRefill, locals, admitted>>
-----------------------------------------------------------------------------
(* allow, after refill *)

(* The load of tokens; a call that finds none is denied.                   *)
CheckTokens(c) ==
  /\ pc[c] = "check"
  /\ current' = [current EXCEPT ![c] = tokens]
  /\ Goto(c, IF tokens \leq 0 THEN "idle" ELSE "take")
  /\ UNCHANGED <<clock, tokens, lastRefill, now, last, calls, admitted>>

(* Fault: after a lost compare-and-swap tokens is not loaded again.        *)
TakeStale(c) ==
  /\ pc[c] = "take"
  /\ IF tokens = current[c]
     THEN tokens' = tokens - 1 /\ admitted' = admitted + 1 /\ Goto(c, "idle")
     ELSE UNCHANGED <<tokens, admitted, pc>>
  /\ UNCHANGED <<clock, lastRefill, locals>>

Take(c) ==
  /\ pc[c] = "take"
  /\ IF tokens = current[c]
     THEN tokens' = tokens - 1 /\ admitted' = admitted + 1 /\ Goto(c, "idle")
     ELSE UNCHANGED <<tokens, admitted>> /\ Goto(c, "check")
  /\ UNCHANGED <<clock, lastRefill, locals>>

AllowStep(c) ==
  \/ LoadLastRefill(c) \/ ClaimInterval(c) \/ LoadTokens(c) \/ Credit(c)
  \/ CheckTokens(c) \/ Take(c)
-----------------------------------------------------------------------------
Next == Advance \/ \E c \in Callers : ReadClock(c) \/ AllowStep(c)

Spec == Init /\ [][Next]_vars

(* A goroutine in the middle of allow is scheduled again.                  *)
FairSpec == Spec /\ \A c \in Callers : WF_vars(AllowStep(c))
-----------------------------------------------------------------------------
(* What got through is within the burst and what the rate gives for the    *)
(* time that has been accounted for, whatever the interleaving of refills  *)
(* and takes, and though the clock may be set back.  What is left in the   *)
(* bucket is part of the same budget.                                      *)
WithinRate ==
  Second * (admitted + tokens) \leq Second * Burst + Rate * lastRefill

Denied(c) == pc[c] = "check" /\ pc'[c] = "idle"
Accrued(c) == (now[c] - last[c]) * Rate

(* No call is denied while the token that fell due before it is unclaimed: *)
(* either no token was due when it looked, or the time was claimed, by     *)
(* this call or by another one.  It holds as long as products do not wrap. *)
DueIsClaimed ==
  [][\A c \in Callers :
       Denied(c) => Accrued(c) < Second \/ lastRefill # last[c]]_vars

(* allow returns: no compare-and-swap is tried for ever.                   *)
AllowReturns == \A c \in Callers : pc[c] # "idle" ~> pc[c] = "idle"

(* The comment in refill: the cap recovers from integer overflow after     *)
(* long idle periods.  So a call that comes when the time for a whole      *)
(* burst has gone by is not denied, unless that time has been claimed.     *)
(* The code does not do this: a product that wraps to a negative number    *)
(* returns before the cap and leaves lastRefill where it is.               *)
RecoversFromIdle ==
  [][\A c \in Callers :
       Denied(c) /\ Accrued(c) \geq Second * Burst => lastRefill # last[c]]_vars
=============================================================================
