--------------------------- MODULE MCObservationRing ---------------------------
(* ObservationRing on small instances, with the parsers its observer feeds *)
(* the bytes to.  Observations and slabs are interchangeable.              *)
EXTENDS ObservationRing, TLC

Symmetry == Permutations(Observations) \cup Permutations(Slabs)

Shallow == INSTANCE ResponseScanner WITH Slots <- 2, MaxDepth <- 2
Deep    == INSTANCE ResponseScanner WITH Slots <- 2, MaxDepth <- 4
Stream  == INSTANCE EventStream WITH MaxEventBytes <- 5, MaxEvents <- 2, ClassifyBytes <- 2

ReadsTheDocument == Shallow!OnlyDocuments /\ Deep!NamesTheChosen /\ Deep!SameRequest
ReadsTheStream   == Stream!ReadsTheStream

(* What is reported of a body at its end is what the body says: every byte *)
(* of it was scanned, and a scan that never has more than a stack, a node  *)
(* and one event's state finds what a reader of the whole would find, in a *)
(* document and in a stream of them.                                       *)
ReportsTheBody == WholeAtEOF /\ ReadsTheDocument /\ ReadsTheStream
=============================================================================
