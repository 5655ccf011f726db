--------------------------- MODULE MCVerboseFlags ---------------------------
(* Values of -vmodule for VerboseFlags: none, one filter, and two filters  *)
(* of which the first hides the second at one site.                        *)
EXTENDS VerboseFlags, TLC

MCModules ==
  LET one == CHOOSE s \in Sites : TRUE
  IN  {<<>>, <<[sites |-> {one}, level |-> 1]>>,
       <<[sites |-> {one}, level |-> 0], [sites |-> Sites, level |-> 1]>>}

Interchangeable == Permutations(Readers) \cup Permutations(Setters)
=============================================================================
