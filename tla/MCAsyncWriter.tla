--------------------------- MODULE MCAsyncWriter ---------------------------
(* The writer for TLC: the producers that log below ERROR, the callers of  *)
(* Flush and the callers of Close are each interchangeable.                *)
EXTENDS AsyncWriter, TLC

Interchangeable == Permutations(Producers \ ErrorProducers)
                     \union Permutations(Flushers)
                     \union Permutations(Closers)

(* A view for the liveness run: no action and no temporal property reads   *)
(* flushMark or closeMark, and no step changes only them.                  *)
WithoutHistory ==
  <<emitters, channels, writer, fpc, flushes, kpc, awClosed>>
=============================================================================
