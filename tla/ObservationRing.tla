--------------------------- MODULE ObservationRing ---------------------------
(***************************************************************************)
(* The lock-free ring through which an observer watches a response body.   *)
(* Each observation leases one slab of a fixed pool.  Three goroutines     *)
(* meet on it: the reader that copies the body to the client (tap.Read),   *)
(* whoever closes the body (tap.Close, at any time and more than once) and *)
(* the observer.  One action is one atomic operation, or one access to the *)
(* slab, of one of them.                                                   *)
(*                                                                         *)
(* Abstracted: a byte is its place in its body; the parser may stop the    *)
(* observation after any scan, or panic in it; wrapping of the 64-bit      *)
(* positions.  An observation that gets no slab leaves no trace.           *)
(***************************************************************************)
EXTENDS Naturals, Sequences

CONSTANTS Observations,   \* the observed responses
          Slabs,          \* the preallocated slabs
          Size,           \* bytes of a slab
          BodyLength,     \* bound: bytes of a body
          MaxCloses,      \* bound: calls of Close for one body
          NoSlab          \* a nil buffer

ASSUME RingAssumption ==
    /\ Size \in Nat \ {0} /\ BodyLength \in Nat /\ MaxCloses \in Nat
    /\ NoSlab \notin Slabs

VARIABLES pool,           \* slabs to be leased
          content,        \* the bytes in each slab
          obs,            \* obs: the shared state of an observation
          tap,            \* the goroutine that reads the body
          closer,         \* the one that closes it
          observer,       \* the one that observes
          scanned         \* the bytes its parser has consumed

vars == <<pool, content, obs, tap, closer, observer, scanned>>

Zero       == <<>>                                          \* a cleared byte
Cells      == 0 .. Size - 1
Clear      == [i \in Cells |-> Zero]
Byte(o, k) == <<o, k>>
Errors     == {"nil", "EOF"}   \* EOF for any error

\* state packs closed, consumerDone, released and readers; wake is the slot of
\* wakeCh.
Obs == [buf : Slabs \cup {NoSlab}, head : 0 .. BodyLength, tail : 0 .. BodyLength,
        done : BOOLEAN, closed : BOOLEAN, consumerDone : BOOLEAN, released : BOOLEAN,
        readers : 0 .. 1, overrun : BOOLEAN, finalErr : Errors, wake : BOOLEAN]

\* delivered are the bytes of the body returned so far, n and err the result
\* of the current Read.
Tap == [step : {"none", "read", "pin", "write", "copy", "publish", "overrun", "unpin", "release",
                "err", "done", "wake", "end"},
        enabled : BOOLEAN, delivered : 0 .. BodyLength, n : 0 .. BodyLength, err : Errors]

Closer == [step : {"none", "done", "wake", "closed", "release"}, calls : 0 .. MaxCloses]

\* limit is the head that drainInto loaded.
Observer == [step : {"none", "overrun", "drain", "scan", "tail", "judge", "done", "empty", "finish",
                     "wait", "consumer", "release", "end"},
             limit : 0 .. BodyLength, outcome : {"none", "early"} \cup Errors]

TypeOK ==
    /\ pool \subseteq Slabs
    /\ content \in [Slabs -> [Cells -> {Zero} \cup (Observations \X (1 .. BodyLength))]]
    /\ obs \in [Observations -> Obs]
    /\ tap \in [Observations -> Tap]
    /\ closer \in [Observations -> Closer]
    /\ observer \in [Observations -> Observer]
    /\ scanned \in [Observations -> Seq(Observations \X (1 .. BodyLength))]

Init ==
    /\ pool = Slabs
    /\ content = [s \in Slabs |-> Clear]
    /\ obs = [o \in Observations |->
                [buf |-> NoSlab, head |-> 0, tail |-> 0, done |-> FALSE, closed |-> FALSE,
                 consumerDone |-> FALSE, released |-> FALSE, readers |-> 0, overrun |-> FALSE,
                 finalErr |-> "nil", wake |-> FALSE]]
    /\ tap = [o \in Observations |->
                [step |-> "none", enabled |-> TRUE, delivered |-> 0, n |-> 0, err |-> "nil"]]
    /\ closer = [o \in Observations |-> [step |-> "none", calls |-> 0]]
    /\ observer = [o \in Observations |->
                [step |-> "none", limit |-> 0, outcome |-> "none"]]
    /\ scanned = [o \in Observations |-> <<>>]

SetTap(o, step)      == tap' = [tap EXCEPT ![o].step = step]
SetCloser(o, step)   == closer' = [closer EXCEPT ![o].step = step]
SetObserver(o, step) == observer' = [observer EXCEPT ![o].step = step]

-----------------------------------------------------------------------------
(* Install, and the one release site.                                      *)

\* Without a slab the response is delivered unobserved.
Install(o) ==
    /\ tap[o].step = "none"
    /\ \E s \in pool :
         /\ pool' = pool \ {s}
         /\ obs' = [obs EXCEPT ![o].buf = s]
    /\ SetTap(o, "read")
    /\ SetObserver(o, "overrun")
    /\ UNCHANGED <<content, closer, scanned>>

\* Mutant: a reader is not waited for.
QuiescentConsumer(x) == x.closed /\ x.consumerDone /\ ~x.released

\* The release predicate.
Quiescent(x) == x.closed /\ x.consumerDone /\ x.readers = 0 /\ ~x.released

\* Mutant: the slab goes back as it is.
PutDirty(x) ==
    /\ content' = content
    /\ pool' = pool \cup {x.buf}

Put(x) ==
    /\ content' = [content EXCEPT ![x.buf] = Clear]
    /\ pool' = pool \cup {x.buf}

\* tryRelease: one compare-and-swap can win.
TryRelease(o) ==
    IF Quiescent(obs[o])
    THEN /\ obs' = [obs EXCEPT ![o].released = TRUE, ![o].buf = NoSlab]
         /\ Put(obs[o])
    ELSE UNCHANGED <<obs, content, pool>>

-----------------------------------------------------------------------------
(* tap.Read.                                                               *)

\* The wrapped body returns up to the rest of its bytes and maybe an error,
\* then enabled is loaded.
Read(o) ==
    /\ tap[o].step = "read"
    /\ \E n \in 0 .. BodyLength - tap[o].delivered, err \in Errors :
         /\ n = 0 => err # "nil"
         /\ tap' = [tap EXCEPT ![o].n = n, ![o].err = err, ![o].delivered = @ + n,
                               ![o].step = IF n > 0 /\ tap[o].enabled THEN "pin" ELSE "err"]
    /\ UNCHANGED <<pool, content, obs, closer, observer, scanned>>

Pin(o) ==
    /\ tap[o].step = "pin"
    /\ IF obs[o].closed
       THEN SetTap(o, "err") /\ UNCHANGED obs
       ELSE SetTap(o, "write") /\ obs' = [obs EXCEPT ![o].readers = @ + 1]
    /\ UNCHANGED <<pool, content, closer, observer, scanned>>

\* Mutant: one byte more than the free space is accepted.
FitsAlmost(o) == tap[o].n <= Size - (obs[o].head - obs[o].tail) + 1

Fits(o) == tap[o].n <= Size - (obs[o].head - obs[o].tail)

\* write loads the positions; head is its own.
LoadTail(o) ==
    /\ tap[o].step = "write"
    /\ SetTap(o, IF Fits(o) THEN "copy" ELSE "overrun")
    /\ UNCHANGED <<pool, content, obs, closer, observer, scanned>>

\* The chunk at its place in the slab, wrapped at the end.
Copied(o) ==
    LET h     == obs[o].head
        first == tap[o].delivered - tap[o].n
    IN [i \in Cells |-> LET j == (i + Size - (h % Size)) % Size
                        IN IF j < tap[o].n THEN Byte(o, first + j + 1) ELSE content[obs[o].buf][i]]

Copy(o) ==
    /\ tap[o].step = "copy"
    /\ content' = [content EXCEPT ![obs[o].buf] = Copied(o)]
    /\ SetTap(o, "publish")
    /\ UNCHANGED <<pool, obs, closer, observer, scanned>>

Publish(o) ==
    /\ tap[o].step = "publish"
    /\ obs' = [obs EXCEPT ![o].head = @ + tap[o].n]
    /\ SetTap(o, "unpin")
    /\ UNCHANGED <<pool, content, closer, observer, scanned>>

Overrun(o) ==
    /\ tap[o].step = "overrun"
    /\ obs' = [obs EXCEPT ![o].overrun = TRUE]
    /\ tap' = [tap EXCEPT ![o].enabled = FALSE, ![o].step = "unpin"]
    /\ UNCHANGED <<pool, content, closer, observer, scanned>>

Unpin(o) ==
    /\ tap[o].step = "unpin"
    /\ obs' = [obs EXCEPT ![o].readers = @ - 1]
    /\ SetTap(o, "release")
    /\ UNCHANGED <<pool, content, closer, observer, scanned>>

\* Mutant: the reader leaves the release to the others.
NoReleaseAfterRead(o) ==
    /\ tap[o].step = "release"
    /\ SetTap(o, "err")
    /\ UNCHANGED <<pool, content, obs, closer, observer, scanned>>

ReleaseAfterRead(o) ==
    /\ tap[o].step = "release"
    /\ TryRelease(o)
    /\ SetTap(o, "err")
    /\ UNCHANGED <<closer, observer, scanned>>

\* finalErr is a plain variable.
SetErr(o) ==
    /\ tap[o].step = "err"
    /\ IF tap[o].err = "nil"
       THEN SetTap(o, "wake") /\ UNCHANGED obs
       ELSE SetTap(o, "done") /\ obs' = [obs EXCEPT ![o].finalErr = tap[o].err]
    /\ UNCHANGED <<pool, content, closer, observer, scanned>>

SetDone(o) ==
    /\ tap[o].step = "done"
    /\ obs' = [obs EXCEPT ![o].done = TRUE]
    /\ SetTap(o, "wake")
    /\ UNCHANGED <<pool, content, closer, observer, scanned>>

\* A copy loop ends at the first error.
Wake(o) ==
    /\ tap[o].step = "wake"
    /\ obs' = [obs EXCEPT ![o].wake = TRUE]
    /\ tap' = [tap EXCEPT ![o].n = 0, ![o].step = IF tap[o].err = "nil" THEN "read" ELSE "end"]
    /\ UNCHANGED <<pool, content, closer, observer, scanned>>

-----------------------------------------------------------------------------
(* tap.Close.                                                              *)

Close(o) ==
    /\ tap[o].step # "none"
    /\ closer[o].step = "none" /\ closer[o].calls < MaxCloses
    /\ tap' = [tap EXCEPT ![o].enabled = FALSE]
    /\ closer' = [closer EXCEPT ![o].step = "done", ![o].calls = @ + 1]
    /\ UNCHANGED <<pool, content, obs, observer, scanned>>

CloseDone(o) ==
    /\ closer[o].step = "done"
    /\ obs' = [obs EXCEPT ![o].done = TRUE]
    /\ SetCloser(o, "wake")
    /\ UNCHANGED <<pool, content, tap, observer, scanned>>

CloseWake(o) ==
    /\ closer[o].step = "wake"
    /\ obs' = [obs EXCEPT ![o].wake = TRUE]
    /\ SetCloser(o, "closed")
    /\ UNCHANGED <<pool, content, tap, observer, scanned>>

SetClosed(o) ==
    /\ closer[o].step = "closed"
    /\ obs' = [obs EXCEPT ![o].closed = TRUE]
    /\ SetCloser(o, "release")
    /\ UNCHANGED <<pool, content, tap, observer, scanned>>

ReleaseAfterClose(o) ==
    /\ closer[o].step = "release"
    /\ TryRelease(o)
    /\ SetCloser(o, "none")
    /\ UNCHANGED <<tap, observer, scanned>>

-----------------------------------------------------------------------------
(* runObserver.                                                            *)

\* finalize offers the outcome to the sink; the deferred calls follow.
Finalized(o, outcome) ==
    observer' = [observer EXCEPT ![o].outcome = outcome, ![o].step = "consumer"]

CheckOverrun(o) ==
    /\ observer[o].step = "overrun"
    /\ IF obs[o].overrun THEN Finalized(o, "early") ELSE SetObserver(o, "drain")
    /\ UNCHANGED <<pool, content, obs, tap, closer, scanned>>

\* drainInto loads the positions; tail is its own.
LoadHead(o) ==
    /\ observer[o].step = "drain"
    /\ IF obs[o].head = obs[o].tail
       THEN SetObserver(o, "done")
       ELSE observer' = [observer EXCEPT ![o].limit = obs[o].head, ![o].step = "scan"]
    /\ UNCHANGED <<pool, content, obs, tap, closer, scanned>>

\* The bytes of the slab between two positions.
Window(slab, from, to) == [k \in 1 .. to - from |-> content[slab][(from + k - 1) % Size]]

\* The parser consumes them, or panics in it: then no outcome is offered.
Scan(o) ==
    /\ observer[o].step = "scan"
    /\ \/ /\ scanned' = [scanned EXCEPT ![o] = @ \o Window(obs[o].buf, obs[o].tail, observer[o].limit)]
          /\ SetObserver(o, "tail")
       \/ SetObserver(o, "consumer") /\ UNCHANGED scanned
    /\ UNCHANGED <<pool, content, obs, tap, closer>>

StoreTail(o) ==
    /\ observer[o].step = "tail"
    /\ obs' = [obs EXCEPT ![o].tail = observer[o].limit]
    /\ observer' = [observer EXCEPT ![o].limit = 0, ![o].step = "judge"]
    /\ UNCHANGED <<pool, content, tap, closer, scanned>>

\* Too large or malformed, at a terminal event, or to be continued.
Judge(o) ==
    /\ observer[o].step = "judge"
    /\ Finalized(o, "early") \/ SetObserver(o, "overrun")
    /\ UNCHANGED <<pool, content, obs, tap, closer, scanned>>

\* Mutant: the final look at the positions is left out.
CheckDoneOnly(o) ==
    /\ observer[o].step = "done"
    /\ SetObserver(o, IF obs[o].done THEN "finish" ELSE "wait")
    /\ UNCHANGED <<pool, content, obs, tap, closer, scanned>>

CheckDone(o) ==
    /\ observer[o].step = "done"
    /\ SetObserver(o, IF obs[o].done THEN "empty" ELSE "wait")
    /\ UNCHANGED <<pool, content, obs, tap, closer, scanned>>

CheckEmpty(o) ==
    /\ observer[o].step = "empty"
    /\ SetObserver(o, IF obs[o].tail = obs[o].head THEN "finish" ELSE "wait")
    /\ UNCHANGED <<pool, content, obs, tap, closer, scanned>>

\* The body has ended: with finalErr, or without one if it was closed.
FinishAtEOF(o) ==
    /\ observer[o].step = "finish"
    /\ Finalized(o, obs[o].finalErr)
    /\ UNCHANGED <<pool, content, obs, tap, closer, scanned>>

Wait(o) ==
    /\ observer[o].step = "wait"
    /\ obs[o].wake
    /\ obs' = [obs EXCEPT ![o].wake = FALSE]
    /\ SetObserver(o, "overrun")
    /\ UNCHANGED <<pool, content, tap, closer, scanned>>

SetConsumerDone(o) ==
    /\ observer[o].step = "consumer"
    /\ obs' = [obs EXCEPT ![o].consumerDone = TRUE]
    /\ SetObserver(o, "release")
    /\ UNCHANGED <<pool, content, tap, closer, scanned>>

ReleaseAfterObserving(o) ==
    /\ observer[o].step = "release"
    /\ TryRelease(o)
    /\ SetObserver(o, "end")
    /\ UNCHANGED <<tap, closer, scanned>>

-----------------------------------------------------------------------------
Reader(o) == Pin(o) \/ LoadTail(o) \/ Copy(o) \/ Publish(o) \/ Overrun(o) \/ Unpin(o)
                \/ ReleaseAfterRead(o) \/ SetErr(o) \/ SetDone(o) \/ Wake(o)

Closing(o) == CloseDone(o) \/ CloseWake(o) \/ SetClosed(o) \/ ReleaseAfterClose(o)

Observing(o) == CheckOverrun(o) \/ LoadHead(o) \/ Scan(o) \/ StoreTail(o) \/ Judge(o) \/ CheckDone(o)
                \/ CheckEmpty(o) \/ FinishAtEOF(o) \/ Wait(o) \/ SetConsumerDone(o)
                \/ ReleaseAfterObserving(o)

Next == \E o \in Observations :
    Install(o) \/ Read(o) \/ Reader(o) \/ Close(o) \/ Closing(o) \/ Observing(o)

Spec == Init /\ [][Next]_vars

\* Goroutines are scheduled, and a response body is closed in the end; a body
\* that never returns from a Read is allowed.
Fairness == \A o \in Observations :
    /\ WF_vars(Reader(o))
    /\ WF_vars(closer[o].calls = 0 /\ Close(o))
    /\ WF_vars(Closing(o))
    /\ WF_vars(Observing(o))

FairSpec == Spec /\ Fairness

-----------------------------------------------------------------------------
(* Properties.                                                             *)

Leased(o) == obs[o].buf # NoSlab

\* Between its pin and its unpin, resp. inside drainInto.
Copying(o)  == tap[o].step \in {"write", "copy", "publish", "overrun", "unpin"}
Draining(o) == observer[o].step \in {"drain", "scan", "tail"}

(* A slab is in the pool or leased to one observation, never both and      *)
(* never neither, and a slab in the pool holds nobody's bytes.             *)
SlabsAreConserved ==
    /\ \A s \in Slabs : s \in pool <=> ~ \E o \in Observations : obs[o].buf = s
    /\ \A o, p \in Observations : (Leased(o) /\ obs[o].buf = obs[p].buf) => o = p
    /\ \A s \in pool : content[s] = Clear

(* No goroutine is inside the slab of an observation that gave it back.    *)
NoUseAfterRelease ==
    \A o \in Observations : Copying(o) \/ Draining(o) => Leased(o)

\* The bytes of each observation in its slab.
InRing(o) == IF Leased(o) THEN Window(obs[o].buf, obs[o].tail, obs[o].head) ELSE <<>>

(* The ring is a bounded channel of the body's own bytes, in order and     *)
(* without a hole, although slabs are used again and the positions wrap.   *)
Channel == INSTANCE ObservationChannel WITH
    Capacity <- Size,
    got  <- [o \in Observations |-> SubSeq(scanned[o], 1, obs[o].tail)],
    sent <- [o \in Observations |-> SubSeq(scanned[o], 1, obs[o].tail) \o InRing(o)]
Promise == Channel!Spec

(* The slab of an observation goes back to the pool once its body is       *)
(* closed, whatever the reader does, and its observation ends: no wake is  *)
(* lost.                                                                   *)
SlabComesBack ==
    \A o \in Observations :
        /\ Leased(o) ~> ~Leased(o)
        /\ (observer[o].step # "none") ~> (observer[o].step = "end")

(* The observation of a body that was read to its end and not closed       *)
(* before has seen every byte, unless it is abandoned or was ended early.  *)
WholeAtEOF ==
    \A o \in Observations :
        (observer[o].outcome = "EOF" /\ ~obs[o].overrun /\ closer[o].calls = 0)
            => Len(scanned[o]) = tap[o].delivered

=============================================================================
