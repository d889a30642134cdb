-------------------------- MODULE ObservationChannel --------------------------
(***************************************************************************)
(* What the ring between a response body and its observer promises: for    *)
(* each observation a bounded channel that hands the observer the bytes of *)
(* its own body, from the first, in order and without a hole.  Nothing     *)
(* here says that all bytes arrive: a channel may be given up at any time. *)
(***************************************************************************)
EXTENDS Naturals, Sequences

CONSTANTS Observations,   \* the observed responses
          Capacity        \* bytes a channel holds

VARIABLES sent,           \* the bytes put into the channel of each observation
          got             \* the bytes its observer has consumed

vars == <<sent, got>>

\* The kth byte of the body of o.
Byte(o, k)   == <<o, k>>
Bytes(o, n)  == [k \in 1 .. n |-> Byte(o, k)]

Init == sent = [o \in Observations |-> <<>>] /\ got = [o \in Observations |-> <<>>]

Put(o) ==
    /\ \E n \in Len(sent[o]) + 1 .. Len(got[o]) + Capacity : sent' = [sent EXCEPT ![o] = Bytes(o, n)]
    /\ UNCHANGED got

Get(o) ==
    /\ \E n \in Len(got[o]) + 1 .. Len(sent[o]) : got' = [got EXCEPT ![o] = SubSeq(sent[o], 1, n)]
    /\ UNCHANGED sent

\* Given up: what was not consumed is gone.
Drop(o) ==
    /\ sent' = [sent EXCEPT ![o] = got[o]]
    /\ UNCHANGED got

Next == \E o \in Observations : Put(o) \/ Get(o) \/ Drop(o)

Spec == Init /\ [][Next]_vars
=============================================================================
