---------------------------- MODULE MCFrontEnd ----------------------------
(* FrontEnd for TLC: one goroutine that may call every function and one    *)
(* that calls Errorf or Fatalf; flags that enable the file and, from ERROR *)
(* on, stderr, or nothing.                                                 *)
EXTENDS FrontEnd

CONSTANT c1

MCUses(c) ==
  IF c = c1 THEN Functions
  ELSE {f \in ErrorCalls \cup FatalCalls : f.form = "f"}

MCSettings ==
  {[low |-> {"file"}, severe |-> {"stderr", "file"}], [low |-> {}, severe |-> {}]}

MCStructuredSinks == <<"structured">>
=============================================================================
