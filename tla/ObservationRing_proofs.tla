------------------------- MODULE ObservationRing_proofs -------------------------
(***************************************************************************)
(* The ownership of slabs, the bytes in them, and that the ring implements *)
(* its channel, for any number of observations, slabs, bytes and calls of  *)
(* Close.                                                                  *)
(***************************************************************************)
EXTENDS ObservationRing, SequenceTheorems, TLAPS

\* The types without the bounds on positions and without the bytes.
ObsShape == [buf : Slabs \cup {NoSlab}, head : Nat, tail : Nat, done : BOOLEAN, closed : BOOLEAN,
             consumerDone : BOOLEAN, released : BOOLEAN, readers : 0 .. 1, overrun : BOOLEAN,
             finalErr : Errors, wake : BOOLEAN]
TapSteps == {"none", "read", "pin", "write", "copy", "publish", "overrun", "unpin", "release",
             "err", "done", "wake", "end"}
TapShape == [step : TapSteps, enabled : BOOLEAN, delivered : Nat, n : Nat, err : Errors]
CloserSteps == {"none", "done", "wake", "closed", "release"}
CloserShape == [step : CloserSteps, calls : Nat]
ObserverSteps == {"none", "overrun", "drain", "scan", "tail", "judge", "done", "empty", "finish",
                  "wait", "consumer", "release", "end"}
ObserverShape == [step : ObserverSteps, limit : Nat, outcome : {"none", "early"} \cup Errors]

Shape ==
    /\ pool \subseteq Slabs
    /\ DOMAIN content = Slabs
    /\ obs \in [Observations -> ObsShape]
    /\ tap \in [Observations -> TapShape]
    /\ closer \in [Observations -> CloserShape]
    /\ observer \in [Observations -> ObserverShape]

\* The state word tells where the goroutines are: a reader is counted while it
\* is inside the slab, the consumer is done once the observer only releases,
\* and a slab is leased from Install to the one release.
Sound(x, m, c, d) ==
    /\ m.step = "none" <=> d.step = "none"
    /\ c.step # "none" => m.step # "none"
    /\ x.readers = IF m.step \in {"write", "copy", "publish", "overrun", "unpin"} THEN 1 ELSE 0
    /\ x.consumerDone <=> d.step \in {"release", "end"}
    /\ x.released => x.closed /\ x.consumerDone /\ x.readers = 0
    /\ x.buf # NoSlab <=> (m.step # "none" /\ ~x.released)
    /\ x.closed => m.step # "none"

Protocol(o) == Sound(obs[o], tap[o], closer[o], observer[o])

\* The inductive invariant.
RInv == Shape /\ (\A o \in Observations : Protocol(o)) /\ SlabsAreConserved

-----------------------------------------------------------------------------
LEMMA InitHolds == Init => RInv
  <1> SUFFICES ASSUME Init PROVE RInv
    OBVIOUS
  <1>1. Shape
    BY SMT DEF Init, Shape, ObsShape, TapShape, TapSteps, CloserShape, CloserSteps, ObserverShape,
               ObserverSteps, Clear, Errors
  <1>2. ASSUME NEW o \in Observations PROVE Protocol(o)
    <2>1. /\ tap[o].step = "none" /\ observer[o].step = "none" /\ closer[o].step = "none"
          /\ obs[o].readers = 0 /\ obs[o].buf = NoSlab
          /\ ~obs[o].consumerDone /\ ~obs[o].released /\ ~obs[o].closed
      BY SMT DEF Init
    <2> QED
      BY <2>1, SMT DEF Protocol, Sound
  <1>3. SlabsAreConserved
    BY RingAssumption, SMT DEF Init, SlabsAreConserved, Leased
  <1> QED
    BY <1>1, <1>2, <1>3 DEF RInv

\* The last move of a goroutine of o that may give the slab back: one of its
\* steps changes, and tryRelease is applied to the state of o.
LEMMA ReleaseKeeps ==
  ASSUME RInv, NEW o \in Observations, TryRelease(o)
  PROVE  /\ pool' \subseteq Slabs
         /\ DOMAIN content' = Slabs
         /\ obs' \in [Observations -> ObsShape]
         /\ SlabsAreConserved'
         /\ \A q \in Observations \ {o} : obs'[q] = obs[q]
         /\ obs'[o].readers = obs[o].readers
         /\ obs'[o].consumerDone = obs[o].consumerDone
         /\ obs'[o].closed = obs[o].closed
         /\ obs'[o].released => obs[o].closed /\ obs[o].consumerDone /\ obs[o].readers = 0
         /\ obs[o].released => obs'[o].released
         /\ obs'[o].buf # NoSlab <=> (obs[o].buf # NoSlab /\ ~obs'[o].released)
  <1>1. CASE ~Quiescent(obs[o])
    BY <1>1, SMT DEF TryRelease, RInv, Shape, SlabsAreConserved, Leased, Protocol, Sound, ObsShape
  <1>2. CASE Quiescent(obs[o])
    <2> DEFINE s == obs[o].buf
    <2>1. /\ obs' = [obs EXCEPT ![o].released = TRUE, ![o].buf = NoSlab]
          /\ content' = [content EXCEPT ![s] = Clear]
          /\ pool' = pool \cup {s}
      BY <1>2 DEF TryRelease, Put
    <2>2. obs[o] \in ObsShape /\ s \in Slabs /\ s \notin pool
      BY <1>2, SMT DEF RInv, Shape, Protocol, Sound, Leased, Quiescent, SlabsAreConserved, ObsShape
    <2> HIDE DEF s
    <2>3. obs'[o] = [obs[o] EXCEPT !.released = TRUE, !.buf = NoSlab]
      BY <2>1, SMT DEF RInv, Shape
    <2>4. \A q \in Observations \ {o} : obs'[q] = obs[q]
      BY <2>1, SMT DEF RInv, Shape
    <2>5. obs'[o] \in ObsShape
      <3>1. \A x \in ObsShape : [x EXCEPT !.released = TRUE, !.buf = NoSlab] \in ObsShape
        BY Zenon DEF ObsShape
      <3> QED
        BY <2>2, <2>3, <3>1
    <2>6. obs'[o].buf = NoSlab
      BY <2>2, <2>3, SMT DEF ObsShape
    <2>7. /\ obs'[o].released
          /\ obs'[o].readers = obs[o].readers
          /\ obs'[o].consumerDone = obs[o].consumerDone
          /\ obs'[o].closed = obs[o].closed
      BY <2>2, <2>3, SMT DEF ObsShape
    <2>8. obs' \in [Observations -> ObsShape]
      BY <2>1, <2>5, SMT DEF RInv, Shape
    <2>9. \A q \in Observations \ {o} : obs'[q].buf = obs[q].buf
      BY <2>4
    <2>10. SlabsAreConserved'
      <3>1. \A x \in pool' : content'[x] = Clear
        BY <2>1, <2>2, SMT DEF RInv, Shape, SlabsAreConserved
      <3>2. \A x \in Slabs : x \in pool' <=> ~ \E q \in Observations : obs'[q].buf = x
        <4> TAKE x \in Slabs
        <4>1. CASE x = s
          <5>1. \A q \in Observations : obs'[q].buf # s
            BY <2>2, <2>6, <2>9, RingAssumption, SMT DEF RInv, SlabsAreConserved, Leased, s
          <5> QED
            BY <5>1, <4>1, <2>1
        <4>2. CASE x # s
          <5>1. x \in pool' <=> x \in pool
            BY <4>2, <2>1
          <5>2. obs'[o].buf # x /\ obs[o].buf # x
            BY <4>2, <2>6, RingAssumption DEF s
          <5> QED
            BY <5>1, <5>2, <2>9, SMT DEF RInv, SlabsAreConserved
        <4> QED
          BY <4>1, <4>2
      <3>3. \A q, r \in Observations : (obs'[q].buf # NoSlab /\ obs'[q].buf = obs'[r].buf) => q = r
        BY <2>6, <2>9, SMT DEF RInv, SlabsAreConserved, Leased
      <3> QED
        BY <3>1, <3>2, <3>3 DEF SlabsAreConserved, Leased
    <2>11. pool' \subseteq Slabs /\ DOMAIN content' = Slabs
      BY <2>1, <2>2 DEF RInv, Shape
    <2> QED
      BY <2>4, <2>6, <2>7, <2>8, <2>10, <2>11, <1>2 DEF Quiescent
  <1> QED
    BY <1>1, <1>2

\* A step of the goroutines of o that leaves its lease alone.
Moves(o, x, m, c, d) ==
    /\ obs' = [obs EXCEPT ![o] = x] /\ tap' = [tap EXCEPT ![o] = m]
    /\ closer' = [closer EXCEPT ![o] = c] /\ observer' = [observer EXCEPT ![o] = d]
    /\ pool' = pool /\ DOMAIN content' = Slabs
    /\ \A s \in pool : content'[s] = content[s]

LEMMA MovesKeep ==
  ASSUME RInv, NEW o \in Observations,
         NEW x \in ObsShape, NEW m \in TapShape, NEW c \in CloserShape, NEW d \in ObserverShape,
         Moves(o, x, m, c, d), Sound(x, m, c, d), x.buf = obs[o].buf
  PROVE  RInv'
  <1>1. /\ obs'[o] = x /\ tap'[o] = m /\ closer'[o] = c /\ observer'[o] = d
        /\ \A q \in Observations \ {o} : /\ obs'[q] = obs[q] /\ tap'[q] = tap[q]
                                         /\ closer'[q] = closer[q] /\ observer'[q] = observer[q]
    BY DEF Moves, RInv, Shape
  <1>2. Shape'
    BY DEF Moves, RInv, Shape
  <1>3. ASSUME NEW q \in Observations PROVE Protocol(q)'
    BY <1>1, <1>3 DEF RInv, Protocol
  <1>4. \A q \in Observations : obs'[q].buf = obs[q].buf
    BY <1>1
  <1>5. SlabsAreConserved'
    BY <1>4 DEF Moves, RInv, SlabsAreConserved, Leased
  <1> QED
    BY <1>2, <1>3, <1>5 DEF RInv

\* One observation's four records.
Part(o) == obs[o] \in ObsShape /\ tap[o] \in TapShape /\ closer[o] \in CloserShape
              /\ observer[o] \in ObserverShape

LEMMA Parts == ASSUME RInv, NEW o \in Observations PROVE Part(o) /\ Protocol(o)
  BY DEF RInv, Shape, Part

\* What an update of one record leaves in its type.
LEMMA ObsUpdates ==
  ASSUME NEW x \in ObsShape
  PROVE  /\ [x EXCEPT !.done = TRUE] \in ObsShape /\ [x EXCEPT !.wake = TRUE] \in ObsShape
         /\ [x EXCEPT !.wake = FALSE] \in ObsShape /\ [x EXCEPT !.overrun = TRUE] \in ObsShape
         /\ [x EXCEPT !.closed = TRUE] \in ObsShape
         /\ [x EXCEPT !.consumerDone = TRUE] \in ObsShape
         /\ \A s \in Slabs : [x EXCEPT !.buf = s] \in ObsShape
         /\ \A e \in Errors : [x EXCEPT !.finalErr = e] \in ObsShape
         /\ \A k \in Nat : [x EXCEPT !.head = k] \in ObsShape
         /\ \A k \in Nat : [x EXCEPT !.tail = k] \in ObsShape
         /\ \A r \in 0 .. 1 : [x EXCEPT !.readers = r] \in ObsShape
  BY Zenon DEF ObsShape

LEMMA TapUpdates ==
  ASSUME NEW m \in TapShape, NEW s \in TapSteps
  PROVE  /\ [m EXCEPT !.step = s] \in TapShape
         /\ [m EXCEPT !.enabled = FALSE] \in TapShape
         /\ [m EXCEPT !.enabled = FALSE, !.step = s] \in TapShape
         /\ \A k \in Nat : [m EXCEPT !.n = k, !.step = s] \in TapShape
         /\ \A k, j \in Nat, e \in Errors :
               [m EXCEPT !.n = k, !.err = e, !.delivered = j, !.step = s] \in TapShape
  BY Zenon DEF TapShape

LEMMA CloserUpdates ==
  ASSUME NEW c \in CloserShape, NEW s \in CloserSteps
  PROVE  /\ [c EXCEPT !.step = s] \in CloserShape
         /\ \A k \in Nat : [c EXCEPT !.step = s, !.calls = k] \in CloserShape
  BY Zenon DEF CloserShape

LEMMA ObserverUpdates ==
  ASSUME NEW d \in ObserverShape, NEW s \in ObserverSteps
  PROVE  /\ [d EXCEPT !.step = s] \in ObserverShape
         /\ \A k \in Nat : [d EXCEPT !.limit = k, !.step = s] \in ObserverShape
         /\ \A r \in {"none", "early"} \cup Errors :
               [d EXCEPT !.outcome = r, !.step = s] \in ObserverShape
  BY Zenon DEF ObserverShape

-----------------------------------------------------------------------------
(* One lemma per step of a goroutine that leaves the lease alone.          *)

LEMMA PinKeeps ==
  ASSUME RInv, NEW o \in Observations, Pin(o)
  PROVE  RInv'
  <1>1. CASE obs[o].closed
    <2> DEFINE m == [tap[o] EXCEPT !.step = "err"]
    <2>1. Part(o) /\ Protocol(o)
      BY Parts
    <2>2. m \in TapShape
      BY <2>1, TapUpdates DEF Part, TapSteps
    <2>3. Sound(obs[o], m, closer[o], observer[o])
      BY <1>1, <2>1 DEF Pin, SetTap, Part, Protocol, Sound, ObsShape, TapShape, CloserShape,
         ObserverShape
    <2>4. Moves(o, obs[o], m, closer[o], observer[o])
      BY <1>1, <2>1 DEF Pin, SetTap, Moves, RInv, Shape
    <2> QED
      BY <2>1, <2>2, <2>3, <2>4, MovesKeep DEF Part
  <1>2. CASE ~obs[o].closed
    <2> DEFINE x == [obs[o] EXCEPT !.readers = @ + 1]
                 m == [tap[o] EXCEPT !.step = "write"]
    <2>1. Part(o) /\ Protocol(o)
      BY Parts
    <2>2. tap[o].step = "pin" /\ obs[o].readers + 1 \in 0 .. 1
      BY <2>1 DEF Pin, Protocol, Sound
    <2>3. x \in ObsShape
      BY <2>1, <2>2, ObsUpdates DEF Part
    <2>4. m \in TapShape
      BY <2>1, TapUpdates DEF Part, TapSteps
    <2>5. Sound(x, m, closer[o], observer[o]) /\ x.buf = obs[o].buf
      BY <1>2, <2>1 DEF Pin, SetTap, Part, Protocol, Sound, ObsShape, TapShape, CloserShape,
         ObserverShape
    <2>6. Moves(o, x, m, closer[o], observer[o])
      BY <1>2, <2>1 DEF Pin, SetTap, Moves, RInv, Shape
    <2> QED
      BY <2>1, <2>3, <2>4, <2>5, <2>6, MovesKeep DEF Part
  <1> QED
    BY <1>1, <1>2

LEMMA LoadTailKeeps ==
  ASSUME RInv, NEW o \in Observations, LoadTail(o)
  PROVE  RInv'
  <1> DEFINE m == [tap[o] EXCEPT !.step = IF Fits(o) THEN "copy" ELSE "overrun"]
  <1>1. Part(o) /\ Protocol(o)
    BY Parts
  <1>2. (IF Fits(o) THEN "copy" ELSE "overrun") \in TapSteps
    BY DEF TapSteps
  <1>3. m \in TapShape
    BY <1>1, <1>2, TapUpdates DEF Part, TapSteps
  <1>4. Sound(obs[o], m, closer[o], observer[o])
    BY <1>1 DEF LoadTail, SetTap, Part, Protocol, Sound, ObsShape, TapShape, CloserShape,
       ObserverShape
  <1>5. Moves(o, obs[o], m, closer[o], observer[o])
    BY <1>1 DEF LoadTail, SetTap, Moves, RInv, Shape
  <1> QED
    BY <1>1, <1>3, <1>4, <1>5, MovesKeep DEF Part

LEMMA CopyKeeps ==
  ASSUME RInv, NEW o \in Observations, Copy(o)
  PROVE  RInv'
  <1> DEFINE m == [tap[o] EXCEPT !.step = "publish"]
  <1>1. Part(o) /\ Protocol(o)
    BY Parts
  <1>2. m \in TapShape
    BY <1>1, TapUpdates DEF Part, TapSteps
  <1>3. Sound(obs[o], m, closer[o], observer[o])
    BY <1>1 DEF Copy, SetTap, Part, Protocol, Sound, ObsShape, TapShape, CloserShape, ObserverShape
  <1>4. Moves(o, obs[o], m, closer[o], observer[o])
    BY <1>1 DEF Copy, SetTap, Moves, RInv, Shape, Part, Protocol, Sound, SlabsAreConserved
  <1> QED
    BY <1>1, <1>2, <1>3, <1>4, MovesKeep DEF Part

LEMMA PublishKeeps ==
  ASSUME RInv, NEW o \in Observations, Publish(o)
  PROVE  RInv'
  <1> DEFINE x == [obs[o] EXCEPT !.head = @ + tap[o].n]
               m == [tap[o] EXCEPT !.step = "unpin"]
  <1>1. Part(o) /\ Protocol(o)
    BY Parts
  <1>2. obs[o].head + tap[o].n \in Nat
    BY <1>1 DEF Part, ObsShape, TapShape
  <1>3. x \in ObsShape
    BY <1>1, <1>2, ObsUpdates DEF Part
  <1>4. m \in TapShape
    BY <1>1, TapUpdates DEF Part, TapSteps
  <1>5. Sound(x, m, closer[o], observer[o]) /\ x.buf = obs[o].buf
    BY <1>1 DEF Publish, SetTap, Part, Protocol, Sound, ObsShape, TapShape, CloserShape,
       ObserverShape
  <1>6. Moves(o, x, m, closer[o], observer[o])
    BY <1>1 DEF Publish, SetTap, Moves, RInv, Shape
  <1> QED
    BY <1>1, <1>3, <1>4, <1>5, <1>6, MovesKeep DEF Part

LEMMA OverrunKeeps ==
  ASSUME RInv, NEW o \in Observations, Overrun(o)
  PROVE  RInv'
  <1> DEFINE x == [obs[o] EXCEPT !.overrun = TRUE]
               m == [tap[o] EXCEPT !.enabled = FALSE, !.step = "unpin"]
  <1>1. Part(o) /\ Protocol(o)
    BY Parts
  <1>2. x \in ObsShape
    BY <1>1, ObsUpdates DEF Part
  <1>3. m \in TapShape
    BY <1>1, TapUpdates DEF Part, TapSteps
  <1>4. Sound(x, m, closer[o], observer[o]) /\ x.buf = obs[o].buf
    BY <1>1 DEF Overrun, Part, Protocol, Sound, ObsShape, TapShape, CloserShape, ObserverShape
  <1>5. Moves(o, x, m, closer[o], observer[o])
    BY <1>1 DEF Overrun, Moves, RInv, Shape
  <1> QED
    BY <1>1, <1>2, <1>3, <1>4, <1>5, MovesKeep DEF Part

LEMMA UnpinKeeps ==
  ASSUME RInv, NEW o \in Observations, Unpin(o)
  PROVE  RInv'
  <1> DEFINE x == [obs[o] EXCEPT !.readers = @ - 1]
               m == [tap[o] EXCEPT !.step = "release"]
  <1>1. Part(o) /\ Protocol(o)
    BY Parts
  <1>2. obs[o].readers - 1 \in 0 .. 1
    BY <1>1 DEF Unpin, Protocol, Sound
  <1>3. x \in ObsShape
    BY <1>1, <1>2, ObsUpdates DEF Part
  <1>4. m \in TapShape
    BY <1>1, TapUpdates DEF Part, TapSteps
  <1>5. Sound(x, m, closer[o], observer[o]) /\ x.buf = obs[o].buf
    BY <1>1 DEF Unpin, SetTap, Part, Protocol, Sound, ObsShape, TapShape, CloserShape, ObserverShape
  <1>6. Moves(o, x, m, closer[o], observer[o])
    BY <1>1 DEF Unpin, SetTap, Moves, RInv, Shape
  <1> QED
    BY <1>1, <1>3, <1>4, <1>5, <1>6, MovesKeep DEF Part

LEMMA SetErrKeeps ==
  ASSUME RInv, NEW o \in Observations, SetErr(o)
  PROVE  RInv'
  <1>1. CASE tap[o].err = "nil"
    <2> DEFINE m == [tap[o] EXCEPT !.step = "wake"]
    <2>1. Part(o) /\ Protocol(o)
      BY Parts
    <2>2. m \in TapShape
      BY <2>1, TapUpdates DEF Part, TapSteps
    <2>3. Sound(obs[o], m, closer[o], observer[o])
      BY <1>1, <2>1 DEF SetErr, SetTap, Part, Protocol, Sound, ObsShape, TapShape, CloserShape,
         ObserverShape
    <2>4. Moves(o, obs[o], m, closer[o], observer[o])
      BY <1>1, <2>1 DEF SetErr, SetTap, Moves, RInv, Shape
    <2> QED
      BY <2>1, <2>2, <2>3, <2>4, MovesKeep DEF Part
  <1>2. CASE tap[o].err # "nil"
    <2> DEFINE x == [obs[o] EXCEPT !.finalErr = tap[o].err]
                 m == [tap[o] EXCEPT !.step = "done"]
    <2>1. Part(o) /\ Protocol(o)
      BY Parts
    <2>2. tap[o].err \in Errors
      BY <2>1 DEF Part, TapShape
    <2>3. x \in ObsShape
      BY <2>1, <2>2, ObsUpdates DEF Part
    <2>4. m \in TapShape
      BY <2>1, TapUpdates DEF Part, TapSteps
    <2>5. Sound(x, m, closer[o], observer[o]) /\ x.buf = obs[o].buf
      BY <1>2, <2>1 DEF SetErr, SetTap, Part, Protocol, Sound, ObsShape, TapShape, CloserShape,
         ObserverShape
    <2>6. Moves(o, x, m, closer[o], observer[o])
      BY <1>2, <2>1 DEF SetErr, SetTap, Moves, RInv, Shape
    <2> QED
      BY <2>1, <2>3, <2>4, <2>5, <2>6, MovesKeep DEF Part
  <1> QED
    BY <1>1, <1>2

LEMMA SetDoneKeeps ==
  ASSUME RInv, NEW o \in Observations, SetDone(o)
  PROVE  RInv'
  <1> DEFINE x == [obs[o] EXCEPT !.done = TRUE]
               m == [tap[o] EXCEPT !.step = "wake"]
  <1>1. Part(o) /\ Protocol(o)
    BY Parts
  <1>2. x \in ObsShape
    BY <1>1, ObsUpdates DEF Part
  <1>3. m \in TapShape
    BY <1>1, TapUpdates DEF Part, TapSteps
  <1>4. Sound(x, m, closer[o], observer[o]) /\ x.buf = obs[o].buf
    BY <1>1 DEF SetDone, SetTap, Part, Protocol, Sound, ObsShape, TapShape, CloserShape,
       ObserverShape
  <1>5. Moves(o, x, m, closer[o], observer[o])
    BY <1>1 DEF SetDone, SetTap, Moves, RInv, Shape
  <1> QED
    BY <1>1, <1>2, <1>3, <1>4, <1>5, MovesKeep DEF Part

LEMMA WakeKeeps ==
  ASSUME RInv, NEW o \in Observations, Wake(o)
  PROVE  RInv'
  <1> DEFINE x == [obs[o] EXCEPT !.wake = TRUE]
               m == [tap[o] EXCEPT !.n = 0, !.step = IF tap[o].err = "nil" THEN "read" ELSE "end"]
  <1>1. Part(o) /\ Protocol(o)
    BY Parts
  <1>2. x \in ObsShape
    BY <1>1, ObsUpdates DEF Part
  <1>3. (IF tap[o].err = "nil" THEN "read" ELSE "end") \in TapSteps
    BY DEF TapSteps
  <1>4. m \in TapShape
    BY <1>1, <1>3, TapUpdates DEF Part, TapSteps
  <1>5. Sound(x, m, closer[o], observer[o]) /\ x.buf = obs[o].buf
    BY <1>1 DEF Wake, Part, Protocol, Sound, ObsShape, TapShape, CloserShape, ObserverShape
  <1>6. Moves(o, x, m, closer[o], observer[o])
    BY <1>1 DEF Wake, Moves, RInv, Shape
  <1> QED
    BY <1>1, <1>2, <1>4, <1>5, <1>6, MovesKeep DEF Part

LEMMA CloseKeeps ==
  ASSUME RInv, NEW o \in Observations, Close(o)
  PROVE  RInv'
  <1> DEFINE m == [tap[o] EXCEPT !.enabled = FALSE]
               c == [closer[o] EXCEPT !.step = "done", !.calls = @ + 1]
  <1>1. Part(o) /\ Protocol(o)
    BY Parts
  <1>2. "none" \in TapSteps
    BY DEF TapSteps
  <1>3. m \in TapShape
    BY <1>1, <1>2, TapUpdates DEF Part, TapSteps
  <1>4. closer[o].calls + 1 \in Nat
    BY <1>1 DEF Part, CloserShape
  <1>5. c \in CloserShape
    BY <1>1, <1>4, CloserUpdates DEF Part, CloserSteps
  <1>6. Sound(obs[o], m, c, observer[o])
    BY <1>1 DEF Close, Part, Protocol, Sound, ObsShape, TapShape, CloserShape, ObserverShape
  <1>7. Moves(o, obs[o], m, c, observer[o])
    BY <1>1 DEF Close, Moves, RInv, Shape
  <1> QED
    BY <1>1, <1>3, <1>5, <1>6, <1>7, MovesKeep DEF Part

LEMMA CloseDoneKeeps ==
  ASSUME RInv, NEW o \in Observations, CloseDone(o)
  PROVE  RInv'
  <1> DEFINE x == [obs[o] EXCEPT !.done = TRUE]
               c == [closer[o] EXCEPT !.step = "wake"]
  <1>1. Part(o) /\ Protocol(o)
    BY Parts
  <1>2. x \in ObsShape
    BY <1>1, ObsUpdates DEF Part
  <1>3. c \in CloserShape
    BY <1>1, CloserUpdates DEF Part, CloserSteps
  <1>4. Sound(x, tap[o], c, observer[o]) /\ x.buf = obs[o].buf
    BY <1>1 DEF CloseDone, SetCloser, Part, Protocol, Sound, ObsShape, TapShape, CloserShape,
       ObserverShape
  <1>5. Moves(o, x, tap[o], c, observer[o])
    BY <1>1 DEF CloseDone, SetCloser, Moves, RInv, Shape
  <1> QED
    BY <1>1, <1>2, <1>3, <1>4, <1>5, MovesKeep DEF Part

LEMMA CloseWakeKeeps ==
  ASSUME RInv, NEW o \in Observations, CloseWake(o)
  PROVE  RInv'
  <1> DEFINE x == [obs[o] EXCEPT !.wake = TRUE]
               c == [closer[o] EXCEPT !.step = "closed"]
  <1>1. Part(o) /\ Protocol(o)
    BY Parts
  <1>2. x \in ObsShape
    BY <1>1, ObsUpdates DEF Part
  <1>3. c \in CloserShape
    BY <1>1, CloserUpdates DEF Part, CloserSteps
  <1>4. Sound(x, tap[o], c, observer[o]) /\ x.buf = obs[o].buf
    BY <1>1 DEF CloseWake, SetCloser, Part, Protocol, Sound, ObsShape, TapShape, CloserShape,
       ObserverShape
  <1>5. Moves(o, x, tap[o], c, observer[o])
    BY <1>1 DEF CloseWake, SetCloser, Moves, RInv, Shape
  <1> QED
    BY <1>1, <1>2, <1>3, <1>4, <1>5, MovesKeep DEF Part

LEMMA SetClosedKeeps ==
  ASSUME RInv, NEW o \in Observations, SetClosed(o)
  PROVE  RInv'
  <1> DEFINE x == [obs[o] EXCEPT !.closed = TRUE]
               c == [closer[o] EXCEPT !.step = "release"]
  <1>1. Part(o) /\ Protocol(o)
    BY Parts
  <1>2. x \in ObsShape
    BY <1>1, ObsUpdates DEF Part
  <1>3. c \in CloserShape
    BY <1>1, CloserUpdates DEF Part, CloserSteps
  <1>4. Sound(x, tap[o], c, observer[o]) /\ x.buf = obs[o].buf
    BY <1>1 DEF SetClosed, SetCloser, Part, Protocol, Sound, ObsShape, TapShape, CloserShape,
       ObserverShape
  <1>5. Moves(o, x, tap[o], c, observer[o])
    BY <1>1 DEF SetClosed, SetCloser, Moves, RInv, Shape
  <1> QED
    BY <1>1, <1>2, <1>3, <1>4, <1>5, MovesKeep DEF Part

LEMMA CheckOverrunKeeps ==
  ASSUME RInv, NEW o \in Observations, CheckOverrun(o)
  PROVE  RInv'
  <1>1. CASE obs[o].overrun
    <2> DEFINE d == [observer[o] EXCEPT !.outcome = "early", !.step = "consumer"]
    <2>1. Part(o) /\ Protocol(o)
      BY Parts
    <2>2. d \in ObserverShape
      BY <2>1, ObserverUpdates DEF Part, ObserverSteps, Errors
    <2>3. Sound(obs[o], tap[o], closer[o], d)
      BY <1>1, <2>1 DEF CheckOverrun, SetObserver, Finalized, Part, Protocol, Sound, ObsShape,
         TapShape, CloserShape, ObserverShape
    <2>4. Moves(o, obs[o], tap[o], closer[o], d)
      BY <1>1, <2>1 DEF CheckOverrun, SetObserver, Finalized, Moves, RInv, Shape
    <2> QED
      BY <2>1, <2>2, <2>3, <2>4, MovesKeep DEF Part
  <1>2. CASE ~obs[o].overrun
    <2> DEFINE d == [observer[o] EXCEPT !.step = "drain"]
    <2>1. Part(o) /\ Protocol(o)
      BY Parts
    <2>2. d \in ObserverShape
      BY <2>1, ObserverUpdates DEF Part, ObserverSteps, Errors
    <2>3. Sound(obs[o], tap[o], closer[o], d)
      BY <1>2, <2>1 DEF CheckOverrun, SetObserver, Finalized, Part, Protocol, Sound, ObsShape,
         TapShape, CloserShape, ObserverShape
    <2>4. Moves(o, obs[o], tap[o], closer[o], d)
      BY <1>2, <2>1 DEF CheckOverrun, SetObserver, Finalized, Moves, RInv, Shape
    <2> QED
      BY <2>1, <2>2, <2>3, <2>4, MovesKeep DEF Part
  <1> QED
    BY <1>1, <1>2

LEMMA LoadHeadKeeps ==
  ASSUME RInv, NEW o \in Observations, LoadHead(o)
  PROVE  RInv'
  <1>1. CASE obs[o].head = obs[o].tail
    <2> DEFINE d == [observer[o] EXCEPT !.step = "done"]
    <2>1. Part(o) /\ Protocol(o)
      BY Parts
    <2>2. d \in ObserverShape
      BY <2>1, ObserverUpdates DEF Part, ObserverSteps, Errors
    <2>3. Sound(obs[o], tap[o], closer[o], d)
      BY <1>1, <2>1 DEF LoadHead, SetObserver, Part, Protocol, Sound, ObsShape, TapShape,
         CloserShape, ObserverShape
    <2>4. Moves(o, obs[o], tap[o], closer[o], d)
      BY <1>1, <2>1 DEF LoadHead, SetObserver, Moves, RInv, Shape
    <2> QED
      BY <2>1, <2>2, <2>3, <2>4, MovesKeep DEF Part
  <1>2. CASE obs[o].head # obs[o].tail
    <2> DEFINE d == [observer[o] EXCEPT !.limit = obs[o].head, !.step = "scan"]
    <2>1. Part(o) /\ Protocol(o)
      BY Parts
    <2>2. obs[o].head \in Nat
      BY <2>1 DEF Part, ObsShape
    <2>3. d \in ObserverShape
      BY <2>1, <2>2, ObserverUpdates DEF Part, ObserverSteps, Errors
    <2>4. Sound(obs[o], tap[o], closer[o], d)
      BY <1>2, <2>1 DEF LoadHead, SetObserver, Part, Protocol, Sound, ObsShape, TapShape,
         CloserShape, ObserverShape
    <2>5. Moves(o, obs[o], tap[o], closer[o], d)
      BY <1>2, <2>1 DEF LoadHead, SetObserver, Moves, RInv, Shape
    <2> QED
      BY <2>1, <2>3, <2>4, <2>5, MovesKeep DEF Part
  <1> QED
    BY <1>1, <1>2

LEMMA ScanKeeps ==
  ASSUME RInv, NEW o \in Observations, Scan(o)
  PROVE  RInv'
  <1>1. CASE SetObserver(o, "tail")
    <2> DEFINE d == [observer[o] EXCEPT !.step = "tail"]
    <2>1. Part(o) /\ Protocol(o)
      BY Parts
    <2>2. d \in ObserverShape
      BY <2>1, ObserverUpdates DEF Part, ObserverSteps, Errors
    <2>3. Sound(obs[o], tap[o], closer[o], d)
      BY <1>1, <2>1 DEF Scan, SetObserver, Part, Protocol, Sound, ObsShape, TapShape,
         CloserShape, ObserverShape
    <2>4. Moves(o, obs[o], tap[o], closer[o], d)
      BY <1>1, <2>1 DEF Scan, SetObserver, Moves, RInv, Shape
    <2> QED
      BY <2>1, <2>2, <2>3, <2>4, MovesKeep DEF Part
  <1>2. CASE SetObserver(o, "consumer")
    <2> DEFINE d == [observer[o] EXCEPT !.step = "consumer"]
    <2>1. Part(o) /\ Protocol(o)
      BY Parts
    <2>2. d \in ObserverShape
      BY <2>1, ObserverUpdates DEF Part, ObserverSteps, Errors
    <2>3. Sound(obs[o], tap[o], closer[o], d)
      BY <1>2, <2>1 DEF Scan, SetObserver, Part, Protocol, Sound, ObsShape, TapShape,
         CloserShape, ObserverShape
    <2>4. Moves(o, obs[o], tap[o], closer[o], d)
      BY <1>2, <2>1 DEF Scan, SetObserver, Moves, RInv, Shape
    <2> QED
      BY <2>1, <2>2, <2>3, <2>4, MovesKeep DEF Part
  <1> QED
    BY <1>1, <1>2 DEF Scan, SetObserver

LEMMA StoreTailKeeps ==
  ASSUME RInv, NEW o \in Observations, StoreTail(o)
  PROVE  RInv'
  <1> DEFINE x == [obs[o] EXCEPT !.tail = observer[o].limit]
               d == [observer[o] EXCEPT !.limit = 0, !.step = "judge"]
  <1>1. Part(o) /\ Protocol(o)
    BY Parts
  <1>2. observer[o].limit \in Nat
    BY <1>1 DEF Part, ObserverShape
  <1>3. x \in ObsShape
    BY <1>1, <1>2, ObsUpdates DEF Part
  <1>4. d \in ObserverShape
    BY <1>1, ObserverUpdates DEF Part, ObserverSteps, Errors
  <1>5. Sound(x, tap[o], closer[o], d) /\ x.buf = obs[o].buf
    BY <1>1 DEF StoreTail, Part, Protocol, Sound, ObsShape, TapShape, CloserShape, ObserverShape
  <1>6. Moves(o, x, tap[o], closer[o], d)
    BY <1>1 DEF StoreTail, Moves, RInv, Shape
  <1> QED
    BY <1>1, <1>3, <1>4, <1>5, <1>6, MovesKeep DEF Part

LEMMA JudgeKeeps ==
  ASSUME RInv, NEW o \in Observations, Judge(o)
  PROVE  RInv'
  <1>1. CASE Finalized(o, "early")
    <2> DEFINE d == [observer[o] EXCEPT !.outcome = "early", !.step = "consumer"]
    <2>1. Part(o) /\ Protocol(o)
      BY Parts
    <2>2. d \in ObserverShape
      BY <2>1, ObserverUpdates DEF Part, ObserverSteps, Errors
    <2>3. Sound(obs[o], tap[o], closer[o], d)
      BY <1>1, <2>1 DEF Judge, SetObserver, Finalized, Part, Protocol, Sound, ObsShape, TapShape,
         CloserShape, ObserverShape
    <2>4. Moves(o, obs[o], tap[o], closer[o], d)
      BY <1>1, <2>1 DEF Judge, SetObserver, Finalized, Moves, RInv, Shape
    <2> QED
      BY <2>1, <2>2, <2>3, <2>4, MovesKeep DEF Part
  <1>2. CASE SetObserver(o, "overrun")
    <2> DEFINE d == [observer[o] EXCEPT !.step = "overrun"]
    <2>1. Part(o) /\ Protocol(o)
      BY Parts
    <2>2. d \in ObserverShape
      BY <2>1, ObserverUpdates DEF Part, ObserverSteps, Errors
    <2>3. Sound(obs[o], tap[o], closer[o], d)
      BY <1>2, <2>1 DEF Judge, SetObserver, Finalized, Part, Protocol, Sound, ObsShape, TapShape,
         CloserShape, ObserverShape
    <2>4. Moves(o, obs[o], tap[o], closer[o], d)
      BY <1>2, <2>1 DEF Judge, SetObserver, Finalized, Moves, RInv, Shape
    <2> QED
      BY <2>1, <2>2, <2>3, <2>4, MovesKeep DEF Part
  <1> QED
    BY <1>1, <1>2 DEF Judge, SetObserver, Finalized

LEMMA CheckDoneKeeps ==
  ASSUME RInv, NEW o \in Observations, CheckDone(o)
  PROVE  RInv'
  <1> DEFINE d == [observer[o] EXCEPT !.step = IF obs[o].done THEN "empty" ELSE "wait"]
  <1>1. Part(o) /\ Protocol(o)
    BY Parts
  <1>2. (IF obs[o].done THEN "empty" ELSE "wait") \in ObserverSteps
    BY DEF ObserverSteps
  <1>3. d \in ObserverShape
    BY <1>1, <1>2, ObserverUpdates DEF Part, ObserverSteps, Errors
  <1>4. Sound(obs[o], tap[o], closer[o], d)
    BY <1>1 DEF CheckDone, SetObserver, Part, Protocol, Sound, ObsShape, TapShape, CloserShape,
       ObserverShape
  <1>5. Moves(o, obs[o], tap[o], closer[o], d)
    BY <1>1 DEF CheckDone, SetObserver, Moves, RInv, Shape
  <1> QED
    BY <1>1, <1>3, <1>4, <1>5, MovesKeep DEF Part

LEMMA CheckEmptyKeeps ==
  ASSUME RInv, NEW o \in Observations, CheckEmpty(o)
  PROVE  RInv'
  <1> DEFINE d == [observer[o] EXCEPT !.step = IF obs[o].tail = obs[o].head THEN "finish" ELSE "wait"]
  <1>1. Part(o) /\ Protocol(o)
    BY Parts
  <1>2. (IF obs[o].tail = obs[o].head THEN "finish" ELSE "wait") \in ObserverSteps
    BY DEF ObserverSteps
  <1>3. d \in ObserverShape
    BY <1>1, <1>2, ObserverUpdates DEF Part, ObserverSteps, Errors
  <1>4. Sound(obs[o], tap[o], closer[o], d)
    BY <1>1 DEF CheckEmpty, SetObserver, Part, Protocol, Sound, ObsShape, TapShape, CloserShape,
       ObserverShape
  <1>5. Moves(o, obs[o], tap[o], closer[o], d)
    BY <1>1 DEF CheckEmpty, SetObserver, Moves, RInv, Shape
  <1> QED
    BY <1>1, <1>3, <1>4, <1>5, MovesKeep DEF Part

LEMMA FinishAtEOFKeeps ==
  ASSUME RInv, NEW o \in Observations, FinishAtEOF(o)
  PROVE  RInv'
  <1> DEFINE d == [observer[o] EXCEPT !.outcome = obs[o].finalErr, !.step = "consumer"]
  <1>1. Part(o) /\ Protocol(o)
    BY Parts
  <1>2. obs[o].finalErr \in {"none", "early"} \cup Errors
    BY <1>1 DEF Part, ObsShape
  <1>3. d \in ObserverShape
    BY <1>1, <1>2, ObserverUpdates DEF Part, ObserverSteps, Errors
  <1>4. Sound(obs[o], tap[o], closer[o], d)
    BY <1>1 DEF FinishAtEOF, Finalized, Part, Protocol, Sound, ObsShape, TapShape, CloserShape,
       ObserverShape
  <1>5. Moves(o, obs[o], tap[o], closer[o], d)
    BY <1>1 DEF FinishAtEOF, Finalized, Moves, RInv, Shape
  <1> QED
    BY <1>1, <1>3, <1>4, <1>5, MovesKeep DEF Part

LEMMA WaitKeeps ==
  ASSUME RInv, NEW o \in Observations, Wait(o)
  PROVE  RInv'
  <1> DEFINE x == [obs[o] EXCEPT !.wake = FALSE]
               d == [observer[o] EXCEPT !.step = "overrun"]
  <1>1. Part(o) /\ Protocol(o)
    BY Parts
  <1>2. x \in ObsShape
    BY <1>1, ObsUpdates DEF Part
  <1>3. d \in ObserverShape
    BY <1>1, ObserverUpdates DEF Part, ObserverSteps, Errors
  <1>4. Sound(x, tap[o], closer[o], d) /\ x.buf = obs[o].buf
    BY <1>1 DEF Wait, SetObserver, Part, Protocol, Sound, ObsShape, TapShape, CloserShape,
       ObserverShape
  <1>5. Moves(o, x, tap[o], closer[o], d)
    BY <1>1 DEF Wait, SetObserver, Moves, RInv, Shape
  <1> QED
    BY <1>1, <1>2, <1>3, <1>4, <1>5, MovesKeep DEF Part

LEMMA SetConsumerDoneKeeps ==
  ASSUME RInv, NEW o \in Observations, SetConsumerDone(o)
  PROVE  RInv'
  <1> DEFINE x == [obs[o] EXCEPT !.consumerDone = TRUE]
               d == [observer[o] EXCEPT !.step = "release"]
  <1>1. Part(o) /\ Protocol(o)
    BY Parts
  <1>2. x \in ObsShape
    BY <1>1, ObsUpdates DEF Part
  <1>3. d \in ObserverShape
    BY <1>1, ObserverUpdates DEF Part, ObserverSteps, Errors
  <1>4. Sound(x, tap[o], closer[o], d) /\ x.buf = obs[o].buf
    BY <1>1 DEF SetConsumerDone, SetObserver, Part, Protocol, Sound, ObsShape, TapShape,
       CloserShape, ObserverShape
  <1>5. Moves(o, x, tap[o], closer[o], d)
    BY <1>1 DEF SetConsumerDone, SetObserver, Moves, RInv, Shape
  <1> QED
    BY <1>1, <1>2, <1>3, <1>4, <1>5, MovesKeep DEF Part

\* A body is read: at most the reader's step and its counts change.
LEMMA ReadKeeps ==
  ASSUME RInv, NEW o \in Observations, Read(o)
  PROVE  RInv'
  <1>1. Part(o) /\ Protocol(o)
    BY Parts
  <1>2. PICK n \in 0 .. BodyLength - tap[o].delivered, err \in Errors :
          tap' = [tap EXCEPT ![o].n = n, ![o].err = err, ![o].delivered = @ + n,
                             ![o].step = IF n > 0 /\ tap[o].enabled THEN "pin" ELSE "err"]
    BY DEF Read
  <1> DEFINE s == IF n > 0 /\ tap[o].enabled THEN "pin" ELSE "err"
             m == [tap[o] EXCEPT !.n = n, !.err = err, !.delivered = @ + n, !.step = s]
  <1>3. n \in Nat /\ tap[o].delivered + n \in Nat
    BY <1>1, RingAssumption DEF Part, TapShape
  <1>4. s \in TapSteps /\ s \in {"pin", "err"}
    BY DEF TapSteps
  <1>5. m \in TapShape
    BY <1>1, <1>3, <1>4, TapUpdates DEF Part
  <1>6. tap[o].step = "read" /\ m.step \in {"pin", "err"}
    BY <1>1, <1>4 DEF Read, Part, TapShape
  <1>7. Moves(o, obs[o], m, closer[o], observer[o])
    BY <1>2 DEF Read, Moves, RInv, Shape
  <1> HIDE DEF m, s
  <1>8. Sound(obs[o], m, closer[o], observer[o])
    BY <1>1, <1>6 DEF Protocol, Sound
  <1> QED
    BY <1>1, <1>5, <1>7, <1>8, MovesKeep DEF Part

-----------------------------------------------------------------------------
(* The steps that move a slab.                                             *)

\* An observation starts: it takes a slab that nobody has.
LEMMA InstallKeeps ==
  ASSUME RInv, NEW o \in Observations, Install(o)
  PROVE  RInv'
  <1>1. Part(o) /\ Protocol(o)
    BY Parts
  <1>2. PICK s \in pool : pool' = pool \ {s} /\ obs' = [obs EXCEPT ![o].buf = s]
    BY DEF Install
  <1> DEFINE x == [obs[o] EXCEPT !.buf = s]
             m == [tap[o] EXCEPT !.step = "read"]
             d == [observer[o] EXCEPT !.step = "overrun"]
  <1>3. s \in Slabs /\ s # NoSlab
    BY RingAssumption DEF RInv, Shape
  <1>4. x \in ObsShape
    BY <1>1, <1>3, ObsUpdates DEF Part
  <1>5. m \in TapShape
    BY <1>1, TapUpdates DEF Part, TapSteps
  <1>6. d \in ObserverShape
    BY <1>1, ObserverUpdates DEF Part, ObserverSteps
  <1>7. /\ obs' = [obs EXCEPT ![o] = x] /\ tap' = [tap EXCEPT ![o] = m]
        /\ observer' = [observer EXCEPT ![o] = d] /\ UNCHANGED <<content, closer>>
    BY <1>2 DEF Install, SetTap, SetObserver
  <1>8. Sound(x, m, closer[o], d)
    BY <1>1, <1>3 DEF Install, Part, Protocol, Sound, ObsShape, TapShape, CloserShape, ObserverShape
  <1>9. obs[o].buf = NoSlab /\ x.buf = s
    BY <1>1 DEF Install, Part, Protocol, Sound, ObsShape
  <1> HIDE DEF x, m, d
  <1>10. /\ obs'[o] = x /\ tap'[o] = m /\ closer'[o] = closer[o] /\ observer'[o] = d
         /\ \A q \in Observations \ {o} : /\ obs'[q] = obs[q] /\ tap'[q] = tap[q]
                                          /\ closer'[q] = closer[q] /\ observer'[q] = observer[q]
    BY <1>7 DEF RInv, Shape
  <1>11. Shape'
    BY <1>2, <1>4, <1>5, <1>6, <1>7 DEF RInv, Shape
  <1>12. ASSUME NEW q \in Observations PROVE Protocol(q)'
    BY <1>8, <1>10, <1>12 DEF RInv, Protocol
  <1>13. obs'[o].buf = s /\ \A q \in Observations \ {o} : obs'[q].buf = obs[q].buf
    BY <1>9, <1>10
  <1>14. \A q \in Observations : obs[q].buf # s
    BY <1>3 DEF RInv, SlabsAreConserved
  <1>15. SlabsAreConserved'
    <2>1. \A b \in Slabs : b \in pool' <=> ~ \E q \in Observations : obs'[q].buf = b
      <3> TAKE b \in Slabs
      <3>1. CASE b = s
        BY <3>1, <1>2, <1>13
      <3>2. CASE b # s
        <4>1. (\E q \in Observations : obs'[q].buf = b) <=> \E q \in Observations : obs[q].buf = b
          BY <3>2, <1>3, <1>9, <1>13, RingAssumption
        <4> QED
          BY <4>1, <3>2, <1>2 DEF RInv, SlabsAreConserved
      <3> QED
        BY <3>1, <3>2
    <2>2. \A q, r \in Observations : (obs'[q].buf # NoSlab /\ obs'[q].buf = obs'[r].buf) => q = r
      BY <1>13, <1>14 DEF RInv, SlabsAreConserved, Leased
    <2>3. \A b \in pool' : content'[b] = Clear
      BY <1>2, <1>7 DEF RInv, SlabsAreConserved
    <2> QED
      BY <2>1, <2>2, <2>3 DEF SlabsAreConserved, Leased
  <1> QED
    BY <1>11, <1>12, <1>15 DEF RInv

\* The last move of one of the three goroutines of o: it may be the one that
\* gives the slab back.
LEMMA LastMoveKeeps ==
  ASSUME RInv, NEW o \in Observations, TryRelease(o),
         NEW m \in TapShape, NEW c \in CloserShape, NEW d \in ObserverShape,
         tap' = [tap EXCEPT ![o] = m], closer' = [closer EXCEPT ![o] = c],
         observer' = [observer EXCEPT ![o] = d],
         Sound(obs[o], m, c, d)
  PROVE  RInv'
  <1>1. /\ tap'[o] = m /\ closer'[o] = c /\ observer'[o] = d
        /\ \A q \in Observations \ {o} : /\ tap'[q] = tap[q] /\ closer'[q] = closer[q]
                                         /\ observer'[q] = observer[q]
    BY DEF RInv, Shape
  <1>2. \A q \in Observations \ {o} : obs'[q] = obs[q]
    BY ReleaseKeeps
  <1>3. Shape'
    BY ReleaseKeeps DEF RInv, Shape
  <1>4. Sound(obs'[o], m, c, d)
    <2>1. /\ obs'[o].readers = obs[o].readers /\ obs'[o].consumerDone = obs[o].consumerDone
          /\ obs'[o].closed = obs[o].closed
          /\ obs'[o].released => obs[o].closed /\ obs[o].consumerDone /\ obs[o].readers = 0
          /\ obs[o].released => obs'[o].released
          /\ obs'[o].buf # NoSlab <=> (obs[o].buf # NoSlab /\ ~obs'[o].released)
      BY ReleaseKeeps
    <2>2. obs[o].closed => m.step # "none"
      BY DEF Sound
    <2> QED
      BY <2>1, <2>2 DEF Sound
  <1>5. ASSUME NEW q \in Observations PROVE Protocol(q)'
    BY <1>1, <1>2, <1>4, <1>5 DEF RInv, Protocol
  <1>6. SlabsAreConserved'
    BY ReleaseKeeps
  <1> QED
    BY <1>3, <1>5, <1>6 DEF RInv

LEMMA ReleaseAfterReadKeeps ==
  ASSUME RInv, NEW o \in Observations, ReleaseAfterRead(o)
  PROVE  RInv'
  <1> DEFINE m == [tap[o] EXCEPT !.step = "err"]
  <1>1. Part(o) /\ Protocol(o)
    BY Parts
  <1>2. m \in TapShape
    BY <1>1, TapUpdates DEF Part, TapSteps
  <1>3. Sound(obs[o], m, closer[o], observer[o])
    BY <1>1 DEF ReleaseAfterRead, Part, Protocol, Sound, TapShape
  <1>4. /\ TryRelease(o) /\ tap' = [tap EXCEPT ![o] = m]
        /\ closer' = [closer EXCEPT ![o] = closer[o]] /\ observer' = [observer EXCEPT ![o] = observer[o]]
    BY DEF ReleaseAfterRead, SetTap, RInv, Shape
  <1> QED
    BY <1>1, <1>2, <1>3, <1>4, LastMoveKeeps DEF Part

LEMMA ReleaseAfterCloseKeeps ==
  ASSUME RInv, NEW o \in Observations, ReleaseAfterClose(o)
  PROVE  RInv'
  <1> DEFINE c == [closer[o] EXCEPT !.step = "none"]
  <1>1. Part(o) /\ Protocol(o)
    BY Parts
  <1>2. c \in CloserShape
    BY <1>1, CloserUpdates DEF Part, CloserSteps
  <1>3. Sound(obs[o], tap[o], c, observer[o])
    BY <1>1 DEF ReleaseAfterClose, Part, Protocol, Sound, CloserShape
  <1>4. /\ TryRelease(o) /\ closer' = [closer EXCEPT ![o] = c]
        /\ tap' = [tap EXCEPT ![o] = tap[o]] /\ observer' = [observer EXCEPT ![o] = observer[o]]
    BY DEF ReleaseAfterClose, SetCloser, RInv, Shape
  <1> QED
    BY <1>1, <1>2, <1>3, <1>4, LastMoveKeeps DEF Part

LEMMA ReleaseAfterObservingKeeps ==
  ASSUME RInv, NEW o \in Observations, ReleaseAfterObserving(o)
  PROVE  RInv'
  <1> DEFINE d == [observer[o] EXCEPT !.step = "end"]
  <1>1. Part(o) /\ Protocol(o)
    BY Parts
  <1>2. d \in ObserverShape
    BY <1>1, ObserverUpdates DEF Part, ObserverSteps
  <1>3. Sound(obs[o], tap[o], closer[o], d)
    BY <1>1 DEF ReleaseAfterObserving, Part, Protocol, Sound, ObserverShape
  <1>4. /\ TryRelease(o) /\ observer' = [observer EXCEPT ![o] = d]
        /\ tap' = [tap EXCEPT ![o] = tap[o]] /\ closer' = [closer EXCEPT ![o] = closer[o]]
    BY DEF ReleaseAfterObserving, SetObserver, RInv, Shape
  <1> QED
    BY <1>1, <1>2, <1>3, <1>4, LastMoveKeeps DEF Part

-----------------------------------------------------------------------------
(* Every step keeps the invariant.                                         *)
LEMMA NextKeeps == RInv /\ [Next]_vars => RInv'
  <1> SUFFICES ASSUME RInv, [Next]_vars PROVE RInv'
    OBVIOUS
  <1>1. CASE UNCHANGED vars
    BY <1>1 DEF vars, RInv, Shape, Protocol, SlabsAreConserved, Leased
  <1>2. ASSUME NEW o \in Observations,
               Install(o) \/ Read(o) \/ Reader(o) \/ Close(o) \/ Closing(o) \/ Observing(o)
        PROVE  RInv'
    <2>1. CASE Install(o) \/ Read(o) \/ Close(o)
      BY <2>1, InstallKeeps, ReadKeeps, CloseKeeps
    <2>2. CASE Reader(o)
      BY <2>2, PinKeeps, LoadTailKeeps, CopyKeeps, PublishKeeps, OverrunKeeps, UnpinKeeps,
         ReleaseAfterReadKeeps, SetErrKeeps, SetDoneKeeps, WakeKeeps DEF Reader
    <2>3. CASE Closing(o)
      BY <2>3, CloseDoneKeeps, CloseWakeKeeps, SetClosedKeeps, ReleaseAfterCloseKeeps DEF Closing
    <2>4. CASE Observing(o)
      BY <2>4, CheckOverrunKeeps, LoadHeadKeeps, ScanKeeps, StoreTailKeeps, JudgeKeeps,
         CheckDoneKeeps, CheckEmptyKeeps, FinishAtEOFKeeps, WaitKeeps, SetConsumerDoneKeeps,
         ReleaseAfterObservingKeeps DEF Observing
    <2> QED
      BY <1>2, <2>1, <2>2, <2>3, <2>4
  <1> QED
    BY <1>1, <1>2 DEF Next

(* The state word of observation.go always tells where the goroutines are. *)
THEOREM RingInvariant == Spec => []RInv
  <1> QED
    BY InitHolds, NextKeeps, PTL DEF Spec

(* ring.go: a slab is in the pool or leased to one observation, and one in *)
(* the pool is cleared, however reads, closes and observers interleave.    *)
THEOREM SlabsConserved == Spec => []SlabsAreConserved
  <1>1. RInv => SlabsAreConserved
    BY DEF RInv
  <1> QED
    BY <1>1, RingInvariant, PTL

(* NoUseAfterRelease follows from the invariant alone.                     *)
LEMMA InvariantMeansNoUse == RInv => NoUseAfterRelease
  BY SMT DEF RInv, Protocol, Sound, Leased, NoUseAfterRelease, Copying, Draining, Shape, ObsShape

(* observation.go, tap.go: no goroutine copies into, or scans, a slab that *)
(* its observation has given back, for any number of calls of Close.       *)
THEOREM NoUse == Spec => []NoUseAfterRelease
  BY InvariantMeansNoUse, RingInvariant, PTL

-----------------------------------------------------------------------------
(* The bytes.                                                              *)

\* The first n bytes of the body of o.
Prefix(o, n) == [k \in 1 .. n |-> Byte(o, k)]

Writing == {"pin", "write", "copy", "publish"}

\* Where the positions are: what was delivered and not written is the chunk in
\* hand, or the tap is disabled for good.
Placed(x, m, d) ==
    /\ x.tail <= x.head /\ x.head <= x.tail + Size
    /\ x.head <= m.delivered /\ m.n <= m.delivered /\ m.delivered <= BodyLength
    /\ m.step = "none" => m.delivered = 0
    /\ m.step \in Writing => m.n > 0 /\ x.head + m.n = m.delivered
    /\ m.step \in {"copy", "publish"} => x.head + m.n <= x.tail + Size
    /\ (m.enabled /\ m.step \notin Writing \cup {"overrun"}) => x.head = m.delivered
    /\ d.limit <= x.head
    /\ d.step \in {"scan", "tail"} => x.tail < d.limit

\* How an observation ends: until the body is closed, done is the reader's last
\* word and the observer's last look finds nothing behind it.
Ended(x, m, c, d) ==
    /\ c.calls <= MaxCloses
    /\ c.step # "none" \/ x.closed => c.calls > 0
    /\ c.calls > 0 => ~m.enabled
    /\ d.outcome # "none" => d.step \in {"consumer", "release", "end"}
    /\ c.calls = 0 =>
         /\ m.enabled \/ x.overrun
         /\ m.step = "done" => m.err # "nil"
         /\ x.done => m.step \in {"wake", "end"} /\ m.err # "nil"
         /\ d.step \in {"empty", "finish"} => x.done
         /\ d.step = "finish" \/ d.outcome = "EOF" => x.done /\ x.tail = x.head

\* What the parser has, and what the slab holds for it: up to the head, and up
\* to the new head while a chunk that was copied is not yet published.
Holds(o, x, m, d, g, slab) ==
    /\ g = Prefix(o, IF d.step = "tail" THEN d.limit ELSE x.tail)
    /\ x.buf # NoSlab =>
         \A k \in x.tail + 1 .. x.head + (IF m.step = "publish" THEN m.n ELSE 0) :
             slab[(k - 1) % Size] = Byte(o, k)

Own(o) == /\ Placed(obs[o], tap[o], observer[o])
          /\ Ended(obs[o], tap[o], closer[o], observer[o])
          /\ Holds(o, obs[o], tap[o], observer[o], scanned[o], content[obs[o].buf])

Contents == [Slabs -> [Cells -> {Zero} \cup (Observations \X (1 .. BodyLength))]]

\* The inductive invariant of the bytes, on top of the one of the slabs.
BInv == /\ content \in Contents
        /\ scanned \in [Observations -> Seq(Observations \X Nat)]
        /\ \A o \in Observations : Own(o)

\* A step of one observation: its four records and what its parser has.
Steps(o, x, m, c, d, g) ==
    /\ obs' = [obs EXCEPT ![o] = x] /\ tap' = [tap EXCEPT ![o] = m]
    /\ closer' = [closer EXCEPT ![o] = c] /\ observer' = [observer EXCEPT ![o] = d]
    /\ scanned' = [scanned EXCEPT ![o] = g]

\* Nothing of another observation is disturbed: its slab is another one.
LEMMA StepKeepsBytes ==
  ASSUME RInv, BInv, NEW o \in Observations, NEW x, NEW m, NEW c, NEW d,
         NEW g \in Seq(Observations \X Nat), Steps(o, x, m, c, d, g),
         content' \in Contents, \A s \in Slabs : s # obs[o].buf => content'[s] = content[s],
         Placed(x, m, d), Ended(x, m, c, d), Holds(o, x, m, d, g, content'[x.buf])
  PROVE  BInv'
  <1>1. /\ obs'[o] = x /\ tap'[o] = m /\ closer'[o] = c /\ observer'[o] = d /\ scanned'[o] = g
        /\ \A q \in Observations \ {o} : /\ obs'[q] = obs[q] /\ tap'[q] = tap[q]
                                         /\ closer'[q] = closer[q] /\ observer'[q] = observer[q]
                                         /\ scanned'[q] = scanned[q]
    BY DEF Steps, RInv, BInv, Shape
  <1>2. Own(o)'
    BY <1>1 DEF Own
  <1>3. ASSUME NEW q \in Observations \ {o} PROVE Own(q)'
    <2>1. Own(q)
      BY DEF BInv
    <2>2. Holds(q, obs[q], tap[q], observer[q], scanned[q], content'[obs[q].buf])
      <3>1. CASE obs[q].buf = NoSlab
        BY <2>1, <3>1 DEF Own, Holds
      <3>2. CASE obs[q].buf # NoSlab
        <4>1. obs[q].buf \in Slabs /\ obs[q].buf # obs[o].buf
          BY <3>2, Parts DEF Part, ObsShape, RInv, SlabsAreConserved, Leased
        <4>2. content'[obs[q].buf] = content[obs[q].buf]
          BY <4>1
        <4> QED
          BY <2>1, <4>2 DEF Own
      <3> QED
        BY <3>1, <3>2
    <2> QED
      BY <1>1, <2>1, <2>2 DEF Own
  <1>4. scanned' \in [Observations -> Seq(Observations \X Nat)]
    BY DEF Steps, BInv
  <1> QED
    BY <1>2, <1>3, <1>4 DEF BInv

\* The same for a step that leaves the slabs and the parser alone.
LEMMA StepsKeepBytes ==
  ASSUME RInv, BInv, NEW o \in Observations, NEW x, NEW m, NEW c, NEW d,
         Steps(o, x, m, c, d, scanned[o]), content' = content, x.buf = obs[o].buf,
         Placed(x, m, d), Ended(x, m, c, d),
         Holds(o, x, m, d, scanned[o], content[obs[o].buf])
  PROVE  BInv'
  <1>1. content' \in Contents /\ scanned[o] \in Seq(Observations \X Nat)
    BY DEF BInv
  <1>2. Holds(o, x, m, d, scanned[o], content'[x.buf])
    OBVIOUS
  <1> QED
    BY <1>1, <1>2, StepKeepsBytes

\* Two states of an observation for which its slab holds the same.
SameHold(x, m, d, y, n, e) ==
    /\ y.tail = x.tail /\ y.head = x.head /\ y.buf = x.buf
    /\ n.step = "publish" <=> m.step = "publish"
    /\ m.step = "publish" => n.n = m.n
    /\ d.step # "tail" \/ e.limit = d.limit
    /\ e.step = "tail" <=> d.step = "tail"

LEMMA HoldsStay ==
  ASSUME NEW o, NEW x, NEW m, NEW d, NEW g, NEW slab, NEW y, NEW n, NEW e,
         Holds(o, x, m, d, g, slab), SameHold(x, m, d, y, n, e)
  PROVE  Holds(o, y, n, e, g, slab)
  <1>1. /\ (IF n.step = "publish" THEN n.n ELSE 0) = (IF m.step = "publish" THEN m.n ELSE 0)
        /\ (IF e.step = "tail" THEN e.limit ELSE y.tail) = (IF d.step = "tail" THEN d.limit ELSE x.tail)
    BY DEF SameHold
  <1> QED
    BY <1>1 DEF Holds, SameHold

-----------------------------------------------------------------------------
(* Places in a slab, and prefixes of a body.                               *)

LEMMA RemainderOf ==
  ASSUME NEW S \in Nat \ {0}, NEW q \in Nat, NEW r \in 0 .. S - 1
  PROVE  (S * q + r) % S = r
  OBVIOUS

LEMMA QuotientOf ==
  ASSUME NEW a \in Nat, NEW S \in Nat \ {0}
  PROVE  \E q \in Nat : a = S * q + (a % S)
  <1>1. a \div S \in Nat
    OBVIOUS
  <1>2. a = S * (a \div S) + (a % S)
    OBVIOUS
  <1> QED
    BY <1>1, <1>2, Zenon

LEMMA NextRow ==
  ASSUME NEW q \in Nat, NEW S \in Nat \ {0}
  PROVE  S * (q + 1) = (S * q) + S /\ S * q \in Nat
  OBVIOUS

LEMMA RoundTheSlab ==
  ASSUME NEW a \in Nat, NEW S \in Nat \ {0}
  PROVE  (a + S) % S = a % S
  <1>1. PICK q \in Nat : a = S * q + (a % S)
    BY QuotientOf
  <1>2. PICK r \in 0 .. S - 1 : r = a % S
    OBVIOUS
  <1>3. (S * (q + 1) + r) % S = r
    BY RemainderOf
  <1>4. a + S = S * (q + 1) + r
    BY <1>1, <1>2, NextRow
  <1> QED
    BY <1>2, <1>3, <1>4

\* The place of the position t bytes after a, counted from the place of a.
LEMMA PlaceAfter ==
  ASSUME NEW a \in Nat, NEW S \in Nat \ {0}, NEW t \in 0 .. S - 1
  PROVE  (((a + t) % S) + S - (a % S)) % S = t
  <1>1. PICK q \in Nat : a = S * q + (a % S)
    BY QuotientOf
  <1>2. PICK r \in 0 .. S - 1 : r = a % S
    OBVIOUS
  <1>3. PICK p \in Nat : p = S * q /\ S * (q + 1) = p + S
    BY NextRow
  <1>4. CASE r + t < S
    <2>1. PICK u \in 0 .. S - 1 : u = r + t
      BY <1>4
    <2>2. (S * q + u) % S = u
      BY RemainderOf
    <2>3. a + t = S * q + u
      BY <1>1, <1>2, <1>3, <2>1
    <2>4. (S * 1 + t) % S = t
      BY RemainderOf
    <2>5. u + S - r = S * 1 + t
      BY <2>1
    <2> QED
      BY <1>2, <2>2, <2>3, <2>4, <2>5
  <1>5. CASE r + t >= S
    <2>1. PICK v \in 0 .. S - 1 : v = r + t - S
      BY <1>5
    <2>2. (S * (q + 1) + v) % S = v
      BY RemainderOf
    <2>3. a + t = S * (q + 1) + v
      BY <1>1, <1>2, <1>3, <2>1
    <2>4. v + S - r = t
      BY <2>1
    <2>5. t % S = t
      OBVIOUS
    <2> QED
      BY <1>2, <2>2, <2>3, <2>4, <2>5
  <1> QED
    BY <1>4, <1>5

\* The place of p, counted from the place of h, when both are in one slab's
\* length of each other.
LEMMA PlaceFrom ==
  ASSUME NEW h \in Nat, NEW p \in Nat, p < h + Size, h <= p + Size
  PROVE  /\ p >= h => ((p % Size) + Size - (h % Size)) % Size = p - h
         /\ (p < h /\ h < p + Size) => ((p % Size) + Size - (h % Size)) % Size = p + Size - h
  <1>1. Size \in Nat \ {0}
    BY RingAssumption
  <1>2. CASE p >= h
    <2>1. PICK t \in 0 .. Size - 1 : t = p - h
      BY <1>1, <1>2
    <2>2. h + t = p
      BY <2>1
    <2>3. (((h + t) % Size) + Size - (h % Size)) % Size = t
      BY <1>1, PlaceAfter
    <2> QED
      BY <1>2, <2>1, <2>2, <2>3
  <1>3. CASE p < h /\ h < p + Size
    <2>1. PICK t \in 0 .. Size - 1 : t = p + Size - h
      BY <1>1, <1>3
    <2>2. h + t = p + Size
      BY <1>1, <2>1
    <2>3. (((h + t) % Size) + Size - (h % Size)) % Size = t
      BY <1>1, PlaceAfter
    <2>4. (p + Size) % Size = p % Size
      BY <1>1, RoundTheSlab
    <2> QED
      BY <1>3, <2>1, <2>2, <2>3, <2>4
  <1> QED
    BY <1>1, <1>2, <1>3

LEMMA ByteIsByte ==
  ASSUME NEW o \in Observations, NEW k \in Nat
  PROVE  Byte(o, k) \in Observations \X Nat
  BY DEF Byte

LEMMA PrefixIsSeq ==
  ASSUME NEW o \in Observations, NEW n \in Nat
  PROVE  /\ Prefix(o, n) \in Seq(Observations \X Nat)
         /\ Len(Prefix(o, n)) = n
         /\ \A k \in 1 .. n : Prefix(o, n)[k] = Byte(o, k)
  <1>1. \A k \in 1 .. n : Byte(o, k) \in Observations \X Nat
    BY ByteIsByte
  <1>2. Prefix(o, n) \in [1 .. n -> Observations \X Nat]
    BY <1>1 DEF Prefix
  <1>3. Prefix(o, n) \in Seq(Observations \X Nat)
    BY <1>2
  <1>4. DOMAIN Prefix(o, n) = 1 .. n
    BY DEF Prefix
  <1>5. Len(Prefix(o, n)) = n
    BY <1>3, <1>4
  <1> QED
    BY <1>3, <1>5 DEF Prefix

\* What a window adds to a prefix.
LEMMA PrefixGrows ==
  ASSUME NEW o \in Observations, NEW a \in Nat, NEW b \in Nat, a <= b, NEW slab \in Slabs,
         \A k \in a + 1 .. b : content[slab][(k - 1) % Size] = Byte(o, k)
  PROVE  Prefix(o, a) \o Window(slab, a, b) = Prefix(o, b)
  <1> DEFINE w == Window(slab, a, b)
  <1>1. b - a \in Nat
    OBVIOUS
  <1>2. ASSUME NEW k \in 1 .. b - a PROVE w[k] = Byte(o, a + k)
    <2>1. a + k \in a + 1 .. b
      OBVIOUS
    <2>2. w[k] = content[slab][(a + k - 1) % Size]
      BY DEF Window
    <2> QED
      BY <2>1, <2>2
  <1>3. DOMAIN w = 1 .. b - a /\ w = [k \in 1 .. b - a |-> w[k]]
    BY DEF Window
  <1> HIDE DEF w
  <1>4. ASSUME NEW k \in 1 .. b - a PROVE w[k] \in Observations \X Nat
    <2>1. a + k \in Nat
      OBVIOUS
    <2> QED
      BY <2>1, <1>2, ByteIsByte
  <1>5. w \in Seq(Observations \X Nat) /\ Len(w) = b - a
    <2>1. w \in [1 .. b - a -> Observations \X Nat]
      BY <1>3, <1>4
    <2>2. w \in Seq(Observations \X Nat)
      BY <1>1, <2>1
    <2> QED
      BY <1>1, <1>3, <2>2
  <1>6. Prefix(o, a) \in Seq(Observations \X Nat) /\ Len(Prefix(o, a)) = a
    BY PrefixIsSeq
  <1>7. Prefix(o, b) \in Seq(Observations \X Nat) /\ Len(Prefix(o, b)) = b
    BY PrefixIsSeq
  <1>8. /\ Prefix(o, a) \o w \in Seq(Observations \X Nat)
        /\ Len(Prefix(o, a) \o w) = b
        /\ \A i \in 1 .. b : (Prefix(o, a) \o w)[i] = IF i <= a THEN Prefix(o, a)[i] ELSE w[i - a]
    BY <1>5, <1>6, ConcatProperties
  <1>9. ASSUME NEW i \in 1 .. b PROVE (Prefix(o, a) \o w)[i] = Prefix(o, b)[i]
    <2>1. CASE i <= a
      <3>1. (Prefix(o, a) \o w)[i] = Prefix(o, a)[i]
        BY <1>8, <2>1
      <3>2. Prefix(o, a)[i] = Byte(o, i) /\ Prefix(o, b)[i] = Byte(o, i)
        BY <2>1, PrefixIsSeq
      <3> QED
        BY <3>1, <3>2
    <2>2. CASE i > a
      <3>1. i - a \in 1 .. b - a /\ a + (i - a) = i
        BY <2>2
      <3>2. w[i - a] = Byte(o, i)
        BY <3>1, <1>2
      <3>3. (Prefix(o, a) \o w)[i] = w[i - a]
        <4>1. (Prefix(o, a) \o w)[i] = IF i <= a THEN Prefix(o, a)[i] ELSE w[i - a]
          BY <1>8
        <4>2. ~(i <= a)
          BY <2>2
        <4> QED
          BY <4>1, <4>2
      <3>4. Prefix(o, b)[i] = Byte(o, i)
        BY PrefixIsSeq
      <3> QED
        BY <3>2, <3>3, <3>4
    <2>3. i <= a \/ i > a
      OBVIOUS
    <2> QED
      BY <2>1, <2>2, <2>3, Zenon
  <1>10. Prefix(o, a) \o w = Prefix(o, b)
    BY <1>7, <1>8, <1>9, SeqEqual
  <1> QED
    BY <1>10 DEF w

LEMMA PrefixCut ==
  ASSUME NEW o \in Observations, NEW a \in Nat, NEW b \in Nat, a <= b
  PROVE  SubSeq(Prefix(o, b), 1, a) = Prefix(o, a)
  <1>1. ASSUME NEW i \in 1 .. a
        PROVE  Prefix(o, b)[i] = Byte(o, i) /\ Byte(o, i) \in Observations \X Nat
    <2>1. i \in 1 .. b /\ i \in Nat
      OBVIOUS
    <2> QED
      BY <2>1, PrefixIsSeq, ByteIsByte
  <1>2. /\ SubSeq(Prefix(o, b), 1, a) \in Seq(Observations \X Nat)
        /\ Len(SubSeq(Prefix(o, b), 1, a)) = IF 1 <= a THEN a - 1 + 1 ELSE 0
        /\ \A i \in 1 .. a - 1 + 1 : SubSeq(Prefix(o, b), 1, a)[i] = Prefix(o, b)[1 + i - 1]
    <2>1. \A i \in 1 .. a : Prefix(o, b)[i] \in Observations \X Nat
      BY <1>1
    <2> QED
      BY <2>1, SubSeqProperties
  <1>3. Len(SubSeq(Prefix(o, b), 1, a)) = a
    BY <1>2
  <1>4. ASSUME NEW i \in 1 .. a PROVE SubSeq(Prefix(o, b), 1, a)[i] = Prefix(o, a)[i]
    <2>1. SubSeq(Prefix(o, b), 1, a)[i] = Prefix(o, b)[i]
      BY <1>2
    <2>2. Prefix(o, a)[i] = Byte(o, i)
      BY PrefixIsSeq
    <2> QED
      BY <1>1, <2>1, <2>2
  <1> QED
    BY <1>2, <1>3, <1>4, PrefixIsSeq, SeqEqual

LEMMA PinKeepsBytes ==
  ASSUME RInv, BInv, NEW o \in Observations, Pin(o)
  PROVE  BInv'
  <1>1. CASE obs[o].closed
    <2> DEFINE m == [tap[o] EXCEPT !.step = "err"]
    <2>1. Part(o) /\ Protocol(o) /\ Own(o)
      BY Parts DEF BInv
    <2>2. Placed(obs[o], m, observer[o])
      BY <1>1, <2>1, RingAssumption DEF Pin, SetTap, Own, Placed, Ended, Writing, Part, ObsShape,
         TapShape, CloserShape, ObserverShape
    <2>3. Ended(obs[o], m, closer[o], observer[o])
      BY <1>1, <2>1, RingAssumption DEF Pin, SetTap, Own, Placed, Ended, Writing, Errors, Part,
         ObsShape,
         TapShape, CloserShape, ObserverShape
    <2>4. Holds(o, obs[o], m, observer[o], scanned[o], content[obs[o].buf])
      <3>1. Holds(o, obs[o], tap[o], observer[o], scanned[o], content[obs[o].buf])
        BY <2>1 DEF Own
      <3>2. SameHold(obs[o], tap[o], observer[o], obs[o], m, observer[o])
        BY <1>1, <2>1 DEF SameHold, Pin, SetTap, Part, ObsShape, TapShape, ObserverShape
      <3> QED
        BY <3>1, <3>2, HoldsStay
    <2>5. Steps(o, obs[o], m, closer[o], observer[o], scanned[o]) /\ content' = content
      BY <1>1, <2>1 DEF Pin, SetTap, Steps, RInv, BInv, Shape
    <2> QED
      BY <2>1, <2>2, <2>3, <2>4, <2>5, StepsKeepBytes DEF BInv
  <1>2. CASE ~obs[o].closed
    <2> DEFINE x == [obs[o] EXCEPT !.readers = @ + 1]
               m == [tap[o] EXCEPT !.step = "write"]
    <2>1. Part(o) /\ Protocol(o) /\ Own(o)
      BY Parts DEF BInv
    <2>2. Placed(x, m, observer[o])
      BY <1>2, <2>1, RingAssumption DEF Pin, SetTap, Own, Placed, Ended, Writing, Part, ObsShape,
         TapShape, CloserShape, ObserverShape
    <2>3. Ended(x, m, closer[o], observer[o])
      BY <1>2, <2>1, RingAssumption DEF Pin, SetTap, Own, Placed, Ended, Writing, Errors, Part,
         ObsShape,
         TapShape, CloserShape, ObserverShape
    <2>4. Holds(o, x, m, observer[o], scanned[o], content[obs[o].buf])
      <3>1. Holds(o, obs[o], tap[o], observer[o], scanned[o], content[obs[o].buf])
        BY <2>1 DEF Own
      <3>2. SameHold(obs[o], tap[o], observer[o], x, m, observer[o])
        BY <1>2, <2>1 DEF SameHold, Pin, SetTap, Part, ObsShape, TapShape, ObserverShape
      <3> QED
        BY <3>1, <3>2, HoldsStay
    <2>5. Steps(o, x, m, closer[o], observer[o], scanned[o]) /\ content' = content
      BY <1>2, <2>1 DEF Pin, SetTap, Steps, RInv, BInv, Shape
    <2>6. x.buf = obs[o].buf
      BY <1>2, <2>1 DEF Part, ObsShape
    <2> QED
      BY <2>1, <2>2, <2>3, <2>4, <2>5, <2>6, StepsKeepBytes DEF BInv
  <1> QED
    BY <1>1, <1>2

LEMMA LoadTailKeepsBytes ==
  ASSUME RInv, BInv, NEW o \in Observations, LoadTail(o)
  PROVE  BInv'
  <1>1. CASE Fits(o)
    <2> DEFINE m == [tap[o] EXCEPT !.step = "copy"]
    <2>1. Part(o) /\ Protocol(o) /\ Own(o)
      BY Parts DEF BInv
    <2>2. Placed(obs[o], m, observer[o])
      BY <1>1, <2>1, RingAssumption DEF LoadTail, SetTap, Fits, Own, Placed, Ended, Writing,
         Part, ObsShape,
         TapShape, CloserShape, ObserverShape
    <2>3. Ended(obs[o], m, closer[o], observer[o])
      BY <1>1, <2>1, RingAssumption DEF LoadTail, SetTap, Fits, Own, Placed, Ended, Writing,
         Errors, Part, ObsShape,
         TapShape, CloserShape, ObserverShape
    <2>4. Holds(o, obs[o], m, observer[o], scanned[o], content[obs[o].buf])
      <3>1. Holds(o, obs[o], tap[o], observer[o], scanned[o], content[obs[o].buf])
        BY <2>1 DEF Own
      <3>2. SameHold(obs[o], tap[o], observer[o], obs[o], m, observer[o])
        BY <1>1, <2>1 DEF SameHold, LoadTail, SetTap, Fits, Part, ObsShape, TapShape, ObserverShape
      <3> QED
        BY <3>1, <3>2, HoldsStay
    <2>5. Steps(o, obs[o], m, closer[o], observer[o], scanned[o]) /\ content' = content
      BY <1>1, <2>1 DEF LoadTail, SetTap, Fits, Steps, RInv, BInv, Shape
    <2> QED
      BY <2>1, <2>2, <2>3, <2>4, <2>5, StepsKeepBytes DEF BInv
  <1>2. CASE ~Fits(o)
    <2> DEFINE m == [tap[o] EXCEPT !.step = "overrun"]
    <2>1. Part(o) /\ Protocol(o) /\ Own(o)
      BY Parts DEF BInv
    <2>2. Placed(obs[o], m, observer[o])
      BY <1>2, <2>1, RingAssumption DEF LoadTail, SetTap, Fits, Own, Placed, Ended, Writing,
         Part, ObsShape,
         TapShape, CloserShape, ObserverShape
    <2>3. Ended(obs[o], m, closer[o], observer[o])
      BY <1>2, <2>1, RingAssumption DEF LoadTail, SetTap, Fits, Own, Placed, Ended, Writing,
         Errors, Part, ObsShape,
         TapShape, CloserShape, ObserverShape
    <2>4. Holds(o, obs[o], m, observer[o], scanned[o], content[obs[o].buf])
      <3>1. Holds(o, obs[o], tap[o], observer[o], scanned[o], content[obs[o].buf])
        BY <2>1 DEF Own
      <3>2. SameHold(obs[o], tap[o], observer[o], obs[o], m, observer[o])
        BY <1>2, <2>1 DEF SameHold, LoadTail, SetTap, Fits, Part, ObsShape, TapShape, ObserverShape
      <3> QED
        BY <3>1, <3>2, HoldsStay
    <2>5. Steps(o, obs[o], m, closer[o], observer[o], scanned[o]) /\ content' = content
      BY <1>2, <2>1 DEF LoadTail, SetTap, Fits, Steps, RInv, BInv, Shape
    <2> QED
      BY <2>1, <2>2, <2>3, <2>4, <2>5, StepsKeepBytes DEF BInv
  <1> QED
    BY <1>1, <1>2

LEMMA OverrunKeepsBytes ==
  ASSUME RInv, BInv, NEW o \in Observations, Overrun(o)
  PROVE  BInv'
  <1> DEFINE x == [obs[o] EXCEPT !.overrun = TRUE]
             m == [tap[o] EXCEPT !.enabled = FALSE, !.step = "unpin"]
  <1>1. Part(o) /\ Protocol(o) /\ Own(o)
    BY Parts DEF BInv
  <1>2. Placed(x, m, observer[o])
    BY <1>1, RingAssumption DEF Overrun, Own, Placed, Ended, Writing, Part, ObsShape,
       TapShape, CloserShape, ObserverShape
  <1>3. Ended(x, m, closer[o], observer[o])
    BY <1>1, RingAssumption DEF Overrun, Own, Placed, Ended, Writing, Errors, Part, ObsShape,
       TapShape, CloserShape, ObserverShape
  <1>4. Holds(o, x, m, observer[o], scanned[o], content[obs[o].buf])
    <2>1. Holds(o, obs[o], tap[o], observer[o], scanned[o], content[obs[o].buf])
      BY <1>1 DEF Own
    <2>2. SameHold(obs[o], tap[o], observer[o], x, m, observer[o])
      BY <1>1 DEF SameHold, Overrun, Part, ObsShape, TapShape, ObserverShape
    <2> QED
      BY <2>1, <2>2, HoldsStay
  <1>5. Steps(o, x, m, closer[o], observer[o], scanned[o]) /\ content' = content
    BY <1>1 DEF Overrun, Steps, RInv, BInv, Shape
  <1>6. x.buf = obs[o].buf
    BY <1>1 DEF Part, ObsShape
  <1> QED
    BY <1>1, <1>2, <1>3, <1>4, <1>5, <1>6, StepsKeepBytes DEF BInv

LEMMA UnpinKeepsBytes ==
  ASSUME RInv, BInv, NEW o \in Observations, Unpin(o)
  PROVE  BInv'
  <1> DEFINE x == [obs[o] EXCEPT !.readers = @ - 1]
             m == [tap[o] EXCEPT !.step = "release"]
  <1>1. Part(o) /\ Protocol(o) /\ Own(o)
    BY Parts DEF BInv
  <1>2. Placed(x, m, observer[o])
    BY <1>1, RingAssumption DEF Unpin, SetTap, Own, Placed, Ended, Writing, Part, ObsShape,
       TapShape, CloserShape, ObserverShape
  <1>3. Ended(x, m, closer[o], observer[o])
    BY <1>1, RingAssumption DEF Unpin, SetTap, Own, Placed, Ended, Writing, Errors, Part, ObsShape,
       TapShape, CloserShape, ObserverShape
  <1>4. Holds(o, x, m, observer[o], scanned[o], content[obs[o].buf])
    <2>1. Holds(o, obs[o], tap[o], observer[o], scanned[o], content[obs[o].buf])
      BY <1>1 DEF Own
    <2>2. SameHold(obs[o], tap[o], observer[o], x, m, observer[o])
      BY <1>1 DEF SameHold, Unpin, SetTap, Part, ObsShape, TapShape, ObserverShape
    <2> QED
      BY <2>1, <2>2, HoldsStay
  <1>5. Steps(o, x, m, closer[o], observer[o], scanned[o]) /\ content' = content
    BY <1>1 DEF Unpin, SetTap, Steps, RInv, BInv, Shape
  <1>6. x.buf = obs[o].buf
    BY <1>1 DEF Part, ObsShape
  <1> QED
    BY <1>1, <1>2, <1>3, <1>4, <1>5, <1>6, StepsKeepBytes DEF BInv

LEMMA SetErrKeepsBytes ==
  ASSUME RInv, BInv, NEW o \in Observations, SetErr(o)
  PROVE  BInv'
  <1>1. CASE tap[o].err = "nil"
    <2> DEFINE m == [tap[o] EXCEPT !.step = "wake"]
    <2>1. Part(o) /\ Protocol(o) /\ Own(o)
      BY Parts DEF BInv
    <2>2. Placed(obs[o], m, observer[o])
      BY <1>1, <2>1, RingAssumption DEF SetErr, SetTap, Own, Placed, Ended, Writing, Part, ObsShape,
         TapShape, CloserShape, ObserverShape
    <2>3. Ended(obs[o], m, closer[o], observer[o])
      BY <1>1, <2>1, RingAssumption DEF SetErr, SetTap, Own, Placed, Ended, Writing, Errors,
         Part, ObsShape,
         TapShape, CloserShape, ObserverShape
    <2>4. Holds(o, obs[o], m, observer[o], scanned[o], content[obs[o].buf])
      <3>1. Holds(o, obs[o], tap[o], observer[o], scanned[o], content[obs[o].buf])
        BY <2>1 DEF Own
      <3>2. SameHold(obs[o], tap[o], observer[o], obs[o], m, observer[o])
        BY <1>1, <2>1 DEF SameHold, SetErr, SetTap, Part, ObsShape, TapShape, ObserverShape
      <3> QED
        BY <3>1, <3>2, HoldsStay
    <2>5. Steps(o, obs[o], m, closer[o], observer[o], scanned[o]) /\ content' = content
      BY <1>1, <2>1 DEF SetErr, SetTap, Steps, RInv, BInv, Shape
    <2> QED
      BY <2>1, <2>2, <2>3, <2>4, <2>5, StepsKeepBytes DEF BInv
  <1>2. CASE tap[o].err # "nil"
    <2> DEFINE x == [obs[o] EXCEPT !.finalErr = tap[o].err]
               m == [tap[o] EXCEPT !.step = "done"]
    <2>1. Part(o) /\ Protocol(o) /\ Own(o)
      BY Parts DEF BInv
    <2>2. Placed(x, m, observer[o])
      BY <1>2, <2>1, RingAssumption DEF SetErr, SetTap, Own, Placed, Ended, Writing, Part, ObsShape,
         TapShape, CloserShape, ObserverShape
    <2>3. Ended(x, m, closer[o], observer[o])
      BY <1>2, <2>1, RingAssumption DEF SetErr, SetTap, Own, Placed, Ended, Writing, Errors,
         Part, ObsShape,
         TapShape, CloserShape, ObserverShape
    <2>4. Holds(o, x, m, observer[o], scanned[o], content[obs[o].buf])
      <3>1. Holds(o, obs[o], tap[o], observer[o], scanned[o], content[obs[o].buf])
        BY <2>1 DEF Own
      <3>2. SameHold(obs[o], tap[o], observer[o], x, m, observer[o])
        BY <1>2, <2>1 DEF SameHold, SetErr, SetTap, Part, ObsShape, TapShape, ObserverShape
      <3> QED
        BY <3>1, <3>2, HoldsStay
    <2>5. Steps(o, x, m, closer[o], observer[o], scanned[o]) /\ content' = content
      BY <1>2, <2>1 DEF SetErr, SetTap, Steps, RInv, BInv, Shape
    <2>6. x.buf = obs[o].buf
      BY <1>2, <2>1 DEF Part, ObsShape
    <2> QED
      BY <2>1, <2>2, <2>3, <2>4, <2>5, <2>6, StepsKeepBytes DEF BInv
  <1> QED
    BY <1>1, <1>2

LEMMA SetDoneKeepsBytes ==
  ASSUME RInv, BInv, NEW o \in Observations, SetDone(o)
  PROVE  BInv'
  <1> DEFINE x == [obs[o] EXCEPT !.done = TRUE]
             m == [tap[o] EXCEPT !.step = "wake"]
  <1>1. Part(o) /\ Protocol(o) /\ Own(o)
    BY Parts DEF BInv
  <1>2. Placed(x, m, observer[o])
    BY <1>1, RingAssumption DEF SetDone, SetTap, Own, Placed, Ended, Writing, Part, ObsShape,
       TapShape, CloserShape, ObserverShape
  <1>3. Ended(x, m, closer[o], observer[o])
    BY <1>1, RingAssumption DEF SetDone, SetTap, Own, Placed, Ended, Writing, Errors, Part, ObsShape,
       TapShape, CloserShape, ObserverShape
  <1>4. Holds(o, x, m, observer[o], scanned[o], content[obs[o].buf])
    <2>1. Holds(o, obs[o], tap[o], observer[o], scanned[o], content[obs[o].buf])
      BY <1>1 DEF Own
    <2>2. SameHold(obs[o], tap[o], observer[o], x, m, observer[o])
      BY <1>1 DEF SameHold, SetDone, SetTap, Part, ObsShape, TapShape, ObserverShape
    <2> QED
      BY <2>1, <2>2, HoldsStay
  <1>5. Steps(o, x, m, closer[o], observer[o], scanned[o]) /\ content' = content
    BY <1>1 DEF SetDone, SetTap, Steps, RInv, BInv, Shape
  <1>6. x.buf = obs[o].buf
    BY <1>1 DEF Part, ObsShape
  <1> QED
    BY <1>1, <1>2, <1>3, <1>4, <1>5, <1>6, StepsKeepBytes DEF BInv

LEMMA WakeKeepsBytes ==
  ASSUME RInv, BInv, NEW o \in Observations, Wake(o)
  PROVE  BInv'
  <1> DEFINE x == [obs[o] EXCEPT !.wake = TRUE]
             m == [tap[o] EXCEPT !.n = 0, !.step = IF tap[o].err = "nil" THEN "read" ELSE "end"]
  <1>1. Part(o) /\ Protocol(o) /\ Own(o)
    BY Parts DEF BInv
  <1>2. Placed(x, m, observer[o])
    BY <1>1, RingAssumption DEF Wake, Own, Placed, Ended, Writing, Part, ObsShape,
       TapShape, CloserShape, ObserverShape
  <1>3. Ended(x, m, closer[o], observer[o])
    BY <1>1, RingAssumption DEF Wake, Own, Placed, Ended, Writing, Errors, Part, ObsShape,
       TapShape, CloserShape, ObserverShape
  <1>4. Holds(o, x, m, observer[o], scanned[o], content[obs[o].buf])
    <2>1. Holds(o, obs[o], tap[o], observer[o], scanned[o], content[obs[o].buf])
      BY <1>1 DEF Own
    <2>2. SameHold(obs[o], tap[o], observer[o], x, m, observer[o])
      BY <1>1 DEF SameHold, Wake, Part, ObsShape, TapShape, ObserverShape
    <2> QED
      BY <2>1, <2>2, HoldsStay
  <1>5. Steps(o, x, m, closer[o], observer[o], scanned[o]) /\ content' = content
    BY <1>1 DEF Wake, Steps, RInv, BInv, Shape
  <1>6. x.buf = obs[o].buf
    BY <1>1 DEF Part, ObsShape
  <1> QED
    BY <1>1, <1>2, <1>3, <1>4, <1>5, <1>6, StepsKeepBytes DEF BInv

LEMMA CloseKeepsBytes ==
  ASSUME RInv, BInv, NEW o \in Observations, Close(o)
  PROVE  BInv'
  <1> DEFINE m == [tap[o] EXCEPT !.enabled = FALSE]
             c == [closer[o] EXCEPT !.step = "done", !.calls = @ + 1]
  <1>1. Part(o) /\ Protocol(o) /\ Own(o)
    BY Parts DEF BInv
  <1>2. Placed(obs[o], m, observer[o])
    BY <1>1, RingAssumption DEF Close, Own, Placed, Ended, Writing, Part, ObsShape,
       TapShape, CloserShape, ObserverShape
  <1>3. Ended(obs[o], m, c, observer[o])
    BY <1>1, RingAssumption DEF Close, Own, Placed, Ended, Writing, Errors, Part, ObsShape,
       TapShape, CloserShape, ObserverShape
  <1>4. Holds(o, obs[o], m, observer[o], scanned[o], content[obs[o].buf])
    <2>1. Holds(o, obs[o], tap[o], observer[o], scanned[o], content[obs[o].buf])
      BY <1>1 DEF Own
    <2>2. SameHold(obs[o], tap[o], observer[o], obs[o], m, observer[o])
      BY <1>1 DEF SameHold, Close, Part, ObsShape, TapShape, ObserverShape
    <2> QED
      BY <2>1, <2>2, HoldsStay
  <1>5. Steps(o, obs[o], m, c, observer[o], scanned[o]) /\ content' = content
    BY <1>1 DEF Close, Steps, RInv, BInv, Shape
  <1> QED
    BY <1>1, <1>2, <1>3, <1>4, <1>5, StepsKeepBytes DEF BInv

LEMMA CloseDoneKeepsBytes ==
  ASSUME RInv, BInv, NEW o \in Observations, CloseDone(o)
  PROVE  BInv'
  <1> DEFINE x == [obs[o] EXCEPT !.done = TRUE]
             c == [closer[o] EXCEPT !.step = "wake"]
  <1>1. Part(o) /\ Protocol(o) /\ Own(o)
    BY Parts DEF BInv
  <1>2. Placed(x, tap[o], observer[o])
    BY <1>1, RingAssumption DEF CloseDone, SetCloser, Own, Placed, Ended, Writing, Part, ObsShape,
       TapShape, CloserShape, ObserverShape
  <1>3. Ended(x, tap[o], c, observer[o])
    BY <1>1, RingAssumption DEF CloseDone, SetCloser, Own, Placed, Ended, Writing, Errors, Part,
       ObsShape,
       TapShape, CloserShape, ObserverShape
  <1>4. Holds(o, x, tap[o], observer[o], scanned[o], content[obs[o].buf])
    <2>1. Holds(o, obs[o], tap[o], observer[o], scanned[o], content[obs[o].buf])
      BY <1>1 DEF Own
    <2>2. SameHold(obs[o], tap[o], observer[o], x, tap[o], observer[o])
      BY <1>1 DEF SameHold, CloseDone, SetCloser, Part, ObsShape, TapShape, ObserverShape
    <2> QED
      BY <2>1, <2>2, HoldsStay
  <1>5. Steps(o, x, tap[o], c, observer[o], scanned[o]) /\ content' = content
    BY <1>1 DEF CloseDone, SetCloser, Steps, RInv, BInv, Shape
  <1>6. x.buf = obs[o].buf
    BY <1>1 DEF Part, ObsShape
  <1> QED
    BY <1>1, <1>2, <1>3, <1>4, <1>5, <1>6, StepsKeepBytes DEF BInv

LEMMA CloseWakeKeepsBytes ==
  ASSUME RInv, BInv, NEW o \in Observations, CloseWake(o)
  PROVE  BInv'
  <1> DEFINE x == [obs[o] EXCEPT !.wake = TRUE]
             c == [closer[o] EXCEPT !.step = "closed"]
  <1>1. Part(o) /\ Protocol(o) /\ Own(o)
    BY Parts DEF BInv
  <1>2. Placed(x, tap[o], observer[o])
    BY <1>1, RingAssumption DEF CloseWake, SetCloser, Own, Placed, Ended, Writing, Part, ObsShape,
       TapShape, CloserShape, ObserverShape
  <1>3. Ended(x, tap[o], c, observer[o])
    BY <1>1, RingAssumption DEF CloseWake, SetCloser, Own, Placed, Ended, Writing, Errors, Part,
       ObsShape,
       TapShape, CloserShape, ObserverShape
  <1>4. Holds(o, x, tap[o], observer[o], scanned[o], content[obs[o].buf])
    <2>1. Holds(o, obs[o], tap[o], observer[o], scanned[o], content[obs[o].buf])
      BY <1>1 DEF Own
    <2>2. SameHold(obs[o], tap[o], observer[o], x, tap[o], observer[o])
      BY <1>1 DEF SameHold, CloseWake, SetCloser, Part, ObsShape, TapShape, ObserverShape
    <2> QED
      BY <2>1, <2>2, HoldsStay
  <1>5. Steps(o, x, tap[o], c, observer[o], scanned[o]) /\ content' = content
    BY <1>1 DEF CloseWake, SetCloser, Steps, RInv, BInv, Shape
  <1>6. x.buf = obs[o].buf
    BY <1>1 DEF Part, ObsShape
  <1> QED
    BY <1>1, <1>2, <1>3, <1>4, <1>5, <1>6, StepsKeepBytes DEF BInv

LEMMA SetClosedKeepsBytes ==
  ASSUME RInv, BInv, NEW o \in Observations, SetClosed(o)
  PROVE  BInv'
  <1> DEFINE x == [obs[o] EXCEPT !.closed = TRUE]
             c == [closer[o] EXCEPT !.step = "release"]
  <1>1. Part(o) /\ Protocol(o) /\ Own(o)
    BY Parts DEF BInv
  <1>2. Placed(x, tap[o], observer[o])
    BY <1>1, RingAssumption DEF SetClosed, SetCloser, Own, Placed, Ended, Writing, Part, ObsShape,
       TapShape, CloserShape, ObserverShape
  <1>3. Ended(x, tap[o], c, observer[o])
    BY <1>1, RingAssumption DEF SetClosed, SetCloser, Own, Placed, Ended, Writing, Errors, Part,
       ObsShape,
       TapShape, CloserShape, ObserverShape
  <1>4. Holds(o, x, tap[o], observer[o], scanned[o], content[obs[o].buf])
    <2>1. Holds(o, obs[o], tap[o], observer[o], scanned[o], content[obs[o].buf])
      BY <1>1 DEF Own
    <2>2. SameHold(obs[o], tap[o], observer[o], x, tap[o], observer[o])
      BY <1>1 DEF SameHold, SetClosed, SetCloser, Part, ObsShape, TapShape, ObserverShape
    <2> QED
      BY <2>1, <2>2, HoldsStay
  <1>5. Steps(o, x, tap[o], c, observer[o], scanned[o]) /\ content' = content
    BY <1>1 DEF SetClosed, SetCloser, Steps, RInv, BInv, Shape
  <1>6. x.buf = obs[o].buf
    BY <1>1 DEF Part, ObsShape
  <1> QED
    BY <1>1, <1>2, <1>3, <1>4, <1>5, <1>6, StepsKeepBytes DEF BInv

LEMMA CheckOverrunKeepsBytes ==
  ASSUME RInv, BInv, NEW o \in Observations, CheckOverrun(o)
  PROVE  BInv'
  <1>1. CASE obs[o].overrun
    <2> DEFINE d == [observer[o] EXCEPT !.outcome = "early", !.step = "consumer"]
    <2>1. Part(o) /\ Protocol(o) /\ Own(o)
      BY Parts DEF BInv
    <2>2. Placed(obs[o], tap[o], d)
      BY <1>1, <2>1, RingAssumption DEF CheckOverrun, SetObserver, Finalized, Own, Placed, Ended,
         Writing, Part, ObsShape,
         TapShape, CloserShape, ObserverShape
    <2>3. Ended(obs[o], tap[o], closer[o], d)
      BY <1>1, <2>1, RingAssumption DEF CheckOverrun, SetObserver, Finalized, Own, Placed, Ended,
         Writing, Errors, Part, ObsShape,
         TapShape, CloserShape, ObserverShape
    <2>4. Holds(o, obs[o], tap[o], d, scanned[o], content[obs[o].buf])
      <3>1. Holds(o, obs[o], tap[o], observer[o], scanned[o], content[obs[o].buf])
        BY <2>1 DEF Own
      <3>2. SameHold(obs[o], tap[o], observer[o], obs[o], tap[o], d)
        BY <1>1, <2>1 DEF SameHold, CheckOverrun, SetObserver, Finalized, Part, ObsShape,
           TapShape, ObserverShape
      <3> QED
        BY <3>1, <3>2, HoldsStay
    <2>5. Steps(o, obs[o], tap[o], closer[o], d, scanned[o]) /\ content' = content
      BY <1>1, <2>1 DEF CheckOverrun, SetObserver, Finalized, Steps, RInv, BInv, Shape
    <2> QED
      BY <2>1, <2>2, <2>3, <2>4, <2>5, StepsKeepBytes DEF BInv
  <1>2. CASE ~obs[o].overrun
    <2> DEFINE d == [observer[o] EXCEPT !.step = "drain"]
    <2>1. Part(o) /\ Protocol(o) /\ Own(o)
      BY Parts DEF BInv
    <2>2. Placed(obs[o], tap[o], d)
      BY <1>2, <2>1, RingAssumption DEF CheckOverrun, SetObserver, Finalized, Own, Placed, Ended,
         Writing, Part, ObsShape,
         TapShape, CloserShape, ObserverShape
    <2>3. Ended(obs[o], tap[o], closer[o], d)
      BY <1>2, <2>1, RingAssumption DEF CheckOverrun, SetObserver, Finalized, Own, Placed, Ended,
         Writing, Errors, Part, ObsShape,
         TapShape, CloserShape, ObserverShape
    <2>4. Holds(o, obs[o], tap[o], d, scanned[o], content[obs[o].buf])
      <3>1. Holds(o, obs[o], tap[o], observer[o], scanned[o], content[obs[o].buf])
        BY <2>1 DEF Own
      <3>2. SameHold(obs[o], tap[o], observer[o], obs[o], tap[o], d)
        BY <1>2, <2>1 DEF SameHold, CheckOverrun, SetObserver, Finalized, Part, ObsShape,
           TapShape, ObserverShape
      <3> QED
        BY <3>1, <3>2, HoldsStay
    <2>5. Steps(o, obs[o], tap[o], closer[o], d, scanned[o]) /\ content' = content
      BY <1>2, <2>1 DEF CheckOverrun, SetObserver, Finalized, Steps, RInv, BInv, Shape
    <2> QED
      BY <2>1, <2>2, <2>3, <2>4, <2>5, StepsKeepBytes DEF BInv
  <1> QED
    BY <1>1, <1>2

LEMMA LoadHeadKeepsBytes ==
  ASSUME RInv, BInv, NEW o \in Observations, LoadHead(o)
  PROVE  BInv'
  <1>1. CASE obs[o].head = obs[o].tail
    <2> DEFINE d == [observer[o] EXCEPT !.step = "done"]
    <2>1. Part(o) /\ Protocol(o) /\ Own(o)
      BY Parts DEF BInv
    <2>2. Placed(obs[o], tap[o], d)
      BY <1>1, <2>1, RingAssumption DEF LoadHead, SetObserver, Own, Placed, Ended, Writing, Part,
         ObsShape,
         TapShape, CloserShape, ObserverShape
    <2>3. Ended(obs[o], tap[o], closer[o], d)
      BY <1>1, <2>1, RingAssumption DEF LoadHead, SetObserver, Own, Placed, Ended, Writing,
         Errors, Part, ObsShape,
         TapShape, CloserShape, ObserverShape
    <2>4. Holds(o, obs[o], tap[o], d, scanned[o], content[obs[o].buf])
      <3>1. Holds(o, obs[o], tap[o], observer[o], scanned[o], content[obs[o].buf])
        BY <2>1 DEF Own
      <3>2. SameHold(obs[o], tap[o], observer[o], obs[o], tap[o], d)
        BY <1>1, <2>1 DEF SameHold, LoadHead, SetObserver, Part, ObsShape, TapShape, ObserverShape
      <3> QED
        BY <3>1, <3>2, HoldsStay
    <2>5. Steps(o, obs[o], tap[o], closer[o], d, scanned[o]) /\ content' = content
      BY <1>1, <2>1 DEF LoadHead, SetObserver, Steps, RInv, BInv, Shape
    <2> QED
      BY <2>1, <2>2, <2>3, <2>4, <2>5, StepsKeepBytes DEF BInv
  <1>2. CASE obs[o].head # obs[o].tail
    <2> DEFINE d == [observer[o] EXCEPT !.limit = obs[o].head, !.step = "scan"]
    <2>1. Part(o) /\ Protocol(o) /\ Own(o)
      BY Parts DEF BInv
    <2>2. Placed(obs[o], tap[o], d)
      BY <1>2, <2>1, RingAssumption DEF LoadHead, SetObserver, Own, Placed, Ended, Writing, Part,
         ObsShape,
         TapShape, CloserShape, ObserverShape
    <2>3. Ended(obs[o], tap[o], closer[o], d)
      BY <1>2, <2>1, RingAssumption DEF LoadHead, SetObserver, Own, Placed, Ended, Writing,
         Errors, Part, ObsShape,
         TapShape, CloserShape, ObserverShape
    <2>4. Holds(o, obs[o], tap[o], d, scanned[o], content[obs[o].buf])
      <3>1. Holds(o, obs[o], tap[o], observer[o], scanned[o], content[obs[o].buf])
        BY <2>1 DEF Own
      <3>2. SameHold(obs[o], tap[o], observer[o], obs[o], tap[o], d)
        BY <1>2, <2>1 DEF SameHold, LoadHead, SetObserver, Part, ObsShape, TapShape, ObserverShape
      <3> QED
        BY <3>1, <3>2, HoldsStay
    <2>5. Steps(o, obs[o], tap[o], closer[o], d, scanned[o]) /\ content' = content
      BY <1>2, <2>1 DEF LoadHead, SetObserver, Steps, RInv, BInv, Shape
    <2> QED
      BY <2>1, <2>2, <2>3, <2>4, <2>5, StepsKeepBytes DEF BInv
  <1> QED
    BY <1>1, <1>2

LEMMA JudgeKeepsBytes ==
  ASSUME RInv, BInv, NEW o \in Observations, Judge(o)
  PROVE  BInv'
  <1>1. CASE Finalized(o, "early")
    <2> DEFINE d == [observer[o] EXCEPT !.outcome = "early", !.step = "consumer"]
    <2>1. Part(o) /\ Protocol(o) /\ Own(o)
      BY Parts DEF BInv
    <2>2. Placed(obs[o], tap[o], d)
      BY <1>1, <2>1, RingAssumption DEF Judge, SetObserver, Finalized, Own, Placed, Ended,
         Writing, Part, ObsShape,
         TapShape, CloserShape, ObserverShape
    <2>3. Ended(obs[o], tap[o], closer[o], d)
      BY <1>1, <2>1, RingAssumption DEF Judge, SetObserver, Finalized, Own, Placed, Ended,
         Writing, Errors, Part, ObsShape,
         TapShape, CloserShape, ObserverShape
    <2>4. Holds(o, obs[o], tap[o], d, scanned[o], content[obs[o].buf])
      <3>1. Holds(o, obs[o], tap[o], observer[o], scanned[o], content[obs[o].buf])
        BY <2>1 DEF Own
      <3>2. SameHold(obs[o], tap[o], observer[o], obs[o], tap[o], d)
        BY <1>1, <2>1 DEF SameHold, Judge, SetObserver, Finalized, Part, ObsShape, TapShape,
           ObserverShape
      <3> QED
        BY <3>1, <3>2, HoldsStay
    <2>5. Steps(o, obs[o], tap[o], closer[o], d, scanned[o]) /\ content' = content
      BY <1>1, <2>1 DEF Judge, SetObserver, Finalized, Steps, RInv, BInv, Shape
    <2> QED
      BY <2>1, <2>2, <2>3, <2>4, <2>5, StepsKeepBytes DEF BInv
  <1>2. CASE SetObserver(o, "overrun")
    <2> DEFINE d == [observer[o] EXCEPT !.step = "overrun"]
    <2>1. Part(o) /\ Protocol(o) /\ Own(o)
      BY Parts DEF BInv
    <2>2. Placed(obs[o], tap[o], d)
      BY <1>2, <2>1, RingAssumption DEF Judge, SetObserver, Finalized, Own, Placed, Ended,
         Writing, Part, ObsShape,
         TapShape, CloserShape, ObserverShape
    <2>3. Ended(obs[o], tap[o], closer[o], d)
      BY <1>2, <2>1, RingAssumption DEF Judge, SetObserver, Finalized, Own, Placed, Ended,
         Writing, Errors, Part, ObsShape,
         TapShape, CloserShape, ObserverShape
    <2>4. Holds(o, obs[o], tap[o], d, scanned[o], content[obs[o].buf])
      <3>1. Holds(o, obs[o], tap[o], observer[o], scanned[o], content[obs[o].buf])
        BY <2>1 DEF Own
      <3>2. SameHold(obs[o], tap[o], observer[o], obs[o], tap[o], d)
        BY <1>2, <2>1 DEF SameHold, Judge, SetObserver, Finalized, Part, ObsShape, TapShape,
           ObserverShape
      <3> QED
        BY <3>1, <3>2, HoldsStay
    <2>5. Steps(o, obs[o], tap[o], closer[o], d, scanned[o]) /\ content' = content
      BY <1>2, <2>1 DEF Judge, SetObserver, Finalized, Steps, RInv, BInv, Shape
    <2> QED
      BY <2>1, <2>2, <2>3, <2>4, <2>5, StepsKeepBytes DEF BInv
  <1> QED
    BY <1>1, <1>2 DEF Judge

LEMMA CheckDoneKeepsBytes ==
  ASSUME RInv, BInv, NEW o \in Observations, CheckDone(o)
  PROVE  BInv'
  <1> DEFINE d == [observer[o] EXCEPT !.step = IF obs[o].done THEN "empty" ELSE "wait"]
  <1>1. Part(o) /\ Protocol(o) /\ Own(o)
    BY Parts DEF BInv
  <1>2. Placed(obs[o], tap[o], d)
    BY <1>1, RingAssumption DEF CheckDone, SetObserver, Own, Placed, Ended, Writing, Part, ObsShape,
       TapShape, CloserShape, ObserverShape
  <1>3. Ended(obs[o], tap[o], closer[o], d)
    BY <1>1, RingAssumption DEF CheckDone, SetObserver, Own, Placed, Ended, Writing, Errors,
       Part, ObsShape,
       TapShape, CloserShape, ObserverShape
  <1>4. Holds(o, obs[o], tap[o], d, scanned[o], content[obs[o].buf])
    <2>1. Holds(o, obs[o], tap[o], observer[o], scanned[o], content[obs[o].buf])
      BY <1>1 DEF Own
    <2>2. SameHold(obs[o], tap[o], observer[o], obs[o], tap[o], d)
      BY <1>1 DEF SameHold, CheckDone, SetObserver, Part, ObsShape, TapShape, ObserverShape
    <2> QED
      BY <2>1, <2>2, HoldsStay
  <1>5. Steps(o, obs[o], tap[o], closer[o], d, scanned[o]) /\ content' = content
    BY <1>1 DEF CheckDone, SetObserver, Steps, RInv, BInv, Shape
  <1> QED
    BY <1>1, <1>2, <1>3, <1>4, <1>5, StepsKeepBytes DEF BInv

LEMMA CheckEmptyKeepsBytes ==
  ASSUME RInv, BInv, NEW o \in Observations, CheckEmpty(o)
  PROVE  BInv'
  <1> DEFINE d == [observer[o] EXCEPT !.step = IF obs[o].tail = obs[o].head THEN "finish" ELSE "wait"]
  <1>1. Part(o) /\ Protocol(o) /\ Own(o)
    BY Parts DEF BInv
  <1>2. Placed(obs[o], tap[o], d)
    BY <1>1, RingAssumption DEF CheckEmpty, SetObserver, Own, Placed, Ended, Writing, Part, ObsShape,
       TapShape, CloserShape, ObserverShape
  <1>3. Ended(obs[o], tap[o], closer[o], d)
    BY <1>1, RingAssumption DEF CheckEmpty, SetObserver, Own, Placed, Ended, Writing, Errors,
       Part, ObsShape,
       TapShape, CloserShape, ObserverShape
  <1>4. Holds(o, obs[o], tap[o], d, scanned[o], content[obs[o].buf])
    <2>1. Holds(o, obs[o], tap[o], observer[o], scanned[o], content[obs[o].buf])
      BY <1>1 DEF Own
    <2>2. SameHold(obs[o], tap[o], observer[o], obs[o], tap[o], d)
      BY <1>1 DEF SameHold, CheckEmpty, SetObserver, Part, ObsShape, TapShape, ObserverShape
    <2> QED
      BY <2>1, <2>2, HoldsStay
  <1>5. Steps(o, obs[o], tap[o], closer[o], d, scanned[o]) /\ content' = content
    BY <1>1 DEF CheckEmpty, SetObserver, Steps, RInv, BInv, Shape
  <1> QED
    BY <1>1, <1>2, <1>3, <1>4, <1>5, StepsKeepBytes DEF BInv

LEMMA FinishAtEOFKeepsBytes ==
  ASSUME RInv, BInv, NEW o \in Observations, FinishAtEOF(o)
  PROVE  BInv'
  <1> DEFINE d == [observer[o] EXCEPT !.outcome = obs[o].finalErr, !.step = "consumer"]
  <1>1. Part(o) /\ Protocol(o) /\ Own(o)
    BY Parts DEF BInv
  <1>2. Placed(obs[o], tap[o], d)
    BY <1>1, RingAssumption DEF FinishAtEOF, Finalized, Own, Placed, Ended, Writing, Part, ObsShape,
       TapShape, CloserShape, ObserverShape
  <1>3. Ended(obs[o], tap[o], closer[o], d)
    BY <1>1, RingAssumption DEF FinishAtEOF, Finalized, Own, Placed, Ended, Writing, Errors,
       Part, ObsShape,
       TapShape, CloserShape, ObserverShape
  <1>4. Holds(o, obs[o], tap[o], d, scanned[o], content[obs[o].buf])
    <2>1. Holds(o, obs[o], tap[o], observer[o], scanned[o], content[obs[o].buf])
      BY <1>1 DEF Own
    <2>2. SameHold(obs[o], tap[o], observer[o], obs[o], tap[o], d)
      BY <1>1 DEF SameHold, FinishAtEOF, Finalized, Part, ObsShape, TapShape, ObserverShape
    <2> QED
      BY <2>1, <2>2, HoldsStay
  <1>5. Steps(o, obs[o], tap[o], closer[o], d, scanned[o]) /\ content' = content
    BY <1>1 DEF FinishAtEOF, Finalized, Steps, RInv, BInv, Shape
  <1> QED
    BY <1>1, <1>2, <1>3, <1>4, <1>5, StepsKeepBytes DEF BInv

LEMMA WaitKeepsBytes ==
  ASSUME RInv, BInv, NEW o \in Observations, Wait(o)
  PROVE  BInv'
  <1> DEFINE x == [obs[o] EXCEPT !.wake = FALSE]
             d == [observer[o] EXCEPT !.step = "overrun"]
  <1>1. Part(o) /\ Protocol(o) /\ Own(o)
    BY Parts DEF BInv
  <1>2. Placed(x, tap[o], d)
    BY <1>1, RingAssumption DEF Wait, SetObserver, Own, Placed, Ended, Writing, Part, ObsShape,
       TapShape, CloserShape, ObserverShape
  <1>3. Ended(x, tap[o], closer[o], d)
    BY <1>1, RingAssumption DEF Wait, SetObserver, Own, Placed, Ended, Writing, Errors, Part,
       ObsShape,
       TapShape, CloserShape, ObserverShape
  <1>4. Holds(o, x, tap[o], d, scanned[o], content[obs[o].buf])
    <2>1. Holds(o, obs[o], tap[o], observer[o], scanned[o], content[obs[o].buf])
      BY <1>1 DEF Own
    <2>2. SameHold(obs[o], tap[o], observer[o], x, tap[o], d)
      BY <1>1 DEF SameHold, Wait, SetObserver, Part, ObsShape, TapShape, ObserverShape
    <2> QED
      BY <2>1, <2>2, HoldsStay
  <1>5. Steps(o, x, tap[o], closer[o], d, scanned[o]) /\ content' = content
    BY <1>1 DEF Wait, SetObserver, Steps, RInv, BInv, Shape
  <1>6. x.buf = obs[o].buf
    BY <1>1 DEF Part, ObsShape
  <1> QED
    BY <1>1, <1>2, <1>3, <1>4, <1>5, <1>6, StepsKeepBytes DEF BInv

LEMMA SetConsumerDoneKeepsBytes ==
  ASSUME RInv, BInv, NEW o \in Observations, SetConsumerDone(o)
  PROVE  BInv'
  <1> DEFINE x == [obs[o] EXCEPT !.consumerDone = TRUE]
             d == [observer[o] EXCEPT !.step = "release"]
  <1>1. Part(o) /\ Protocol(o) /\ Own(o)
    BY Parts DEF BInv
  <1>2. Placed(x, tap[o], d)
    BY <1>1, RingAssumption DEF SetConsumerDone, SetObserver, Own, Placed, Ended, Writing, Part,
       ObsShape,
       TapShape, CloserShape, ObserverShape
  <1>3. Ended(x, tap[o], closer[o], d)
    BY <1>1, RingAssumption DEF SetConsumerDone, SetObserver, Own, Placed, Ended, Writing,
       Errors, Part, ObsShape,
       TapShape, CloserShape, ObserverShape
  <1>4. Holds(o, x, tap[o], d, scanned[o], content[obs[o].buf])
    <2>1. Holds(o, obs[o], tap[o], observer[o], scanned[o], content[obs[o].buf])
      BY <1>1 DEF Own
    <2>2. SameHold(obs[o], tap[o], observer[o], x, tap[o], d)
      BY <1>1 DEF SameHold, SetConsumerDone, SetObserver, Part, ObsShape, TapShape, ObserverShape
    <2> QED
      BY <2>1, <2>2, HoldsStay
  <1>5. Steps(o, x, tap[o], closer[o], d, scanned[o]) /\ content' = content
    BY <1>1 DEF SetConsumerDone, SetObserver, Steps, RInv, BInv, Shape
  <1>6. x.buf = obs[o].buf
    BY <1>1 DEF Part, ObsShape
  <1> QED
    BY <1>1, <1>2, <1>3, <1>4, <1>5, <1>6, StepsKeepBytes DEF BInv

-----------------------------------------------------------------------------
(* The steps that read the body, move bytes or move a slab.                *)

LEMMA ReadKeepsBytes ==
  ASSUME RInv, BInv, NEW o \in Observations, Read(o)
  PROVE  BInv'
  <1>1. Part(o) /\ Protocol(o) /\ Own(o)
    BY Parts DEF BInv
  <1>2. PICK n \in 0 .. BodyLength - tap[o].delivered, err \in Errors :
          /\ n = 0 => err # "nil"
          /\ tap' = [tap EXCEPT ![o].n = n, ![o].err = err, ![o].delivered = @ + n,
                                ![o].step = IF n > 0 /\ tap[o].enabled THEN "pin" ELSE "err"]
    BY DEF Read
  <1> DEFINE s == IF n > 0 /\ tap[o].enabled THEN "pin" ELSE "err"
             m == [tap[o] EXCEPT !.n = n, !.err = err, !.delivered = @ + n, !.step = s]
  <1>3. /\ m.step = s /\ m.n = n /\ m.err = err /\ m.delivered = tap[o].delivered + n
        /\ m.enabled = tap[o].enabled
    BY <1>1 DEF Part, TapShape
  <1>4. n \in Nat /\ tap[o].delivered + n <= BodyLength /\ tap[o].delivered \in Nat
    BY <1>1, RingAssumption DEF Part, TapShape
  <1>5. Steps(o, obs[o], m, closer[o], observer[o], scanned[o]) /\ content' = content
    BY <1>2 DEF Read, Steps, RInv, BInv, Shape
  <1> HIDE DEF m
  <1>6. Placed(obs[o], m, observer[o])
    BY <1>1, <1>3, <1>4 DEF Read, Own, Placed, Writing, Part, ObsShape
  <1>7. Ended(obs[o], m, closer[o], observer[o])
    BY <1>1, <1>3 DEF Read, Own, Ended
  <1>8. Holds(o, obs[o], m, observer[o], scanned[o], content[obs[o].buf])
    <2>1. SameHold(obs[o], tap[o], observer[o], obs[o], m, observer[o])
      BY <1>3 DEF SameHold, Read
    <2> QED
      BY <1>1, <2>1, HoldsStay DEF Own
  <1> QED
    BY <1>5, <1>6, <1>7, <1>8, StepsKeepBytes

\* The chunk lands behind the bytes that are not yet read.
LEMMA CopiedHolds ==
  ASSUME NEW o \in Observations, Part(o), Own(o), tap[o].step = "copy", Leased(o),
         NEW k \in obs[o].tail + 1 .. obs[o].head + tap[o].n
  PROVE  Copied(o)[(k - 1) % Size] = Byte(o, k)
  <1> DEFINE h == obs[o].head
             n == tap[o].n
             i == (k - 1) % Size
             j == (i + Size - (h % Size)) % Size
  <1>1. /\ h \in Nat /\ n \in Nat /\ obs[o].tail \in Nat /\ tap[o].delivered \in Nat
        /\ Size \in Nat \ {0}
    BY RingAssumption DEF Part, ObsShape, TapShape
  <1>2. /\ n > 0 /\ h + n = tap[o].delivered /\ h + n <= obs[o].tail + Size /\ obs[o].tail <= h
    BY DEF Own, Placed, Writing
  <1>3. k - 1 \in Nat /\ k - 1 < h + Size /\ h < (k - 1) + Size
    BY <1>1, <1>2
  <1>4. i \in Cells
    BY <1>1, <1>3 DEF Cells
  <1>5. Copied(o)[i] = IF j < n THEN Byte(o, (tap[o].delivered - n) + j + 1) ELSE content[obs[o].buf][i]
    BY <1>4 DEF Copied
  <1>6. CASE k - 1 >= h
    <2>1. j = (k - 1) - h
      BY <1>1, <1>3, <1>6, PlaceFrom
    <2> HIDE DEF i, j, n, h
    <2>2. j < n /\ (tap[o].delivered - n) + j + 1 = k
      BY <1>1, <1>2, <1>6, <2>1 DEF n, h
    <2> QED
      BY <1>5, <2>2 DEF i
  <1>7. CASE k - 1 < h
    <2>1. j = (k - 1) + Size - h
      <3>1. PICK p \in Nat : p = k - 1
        BY <1>3
      <3>2. p < h + Size /\ h <= p + Size /\ p < h /\ h < p + Size
        BY <1>1, <1>3, <1>7, <3>1
      <3>3. ((p % Size) + Size - (h % Size)) % Size = p + Size - h
        BY <1>1, <3>2, PlaceFrom
      <3> QED
        BY <3>1, <3>3
    <2> HIDE DEF i, j, n, h
    <2>2. ~(j < n)
      BY <1>1, <1>2, <2>1
    <2>3. k \in obs[o].tail + 1 .. obs[o].head
      BY <1>1, <1>7 DEF h
    <2>4. content[obs[o].buf][(k - 1) % Size] = Byte(o, k)
      BY <1>1, <2>3 DEF Own, Holds, Leased, h
    <2> QED
      BY <1>5, <2>2, <2>4 DEF i
  <1> QED
    BY <1>1, <1>3, <1>6, <1>7

LEMMA CopiedIsContent ==
  ASSUME content \in Contents, NEW o \in Observations, Part(o), Own(o), tap[o].step = "copy",
         Leased(o)
  PROVE  Copied(o) \in [Cells -> {Zero} \cup (Observations \X (1 .. BodyLength))]
  <1> DEFINE j(i) == (i + Size - (obs[o].head % Size)) % Size
             first == tap[o].delivered - tap[o].n
  <1>1. ASSUME NEW i \in Cells, j(i) < tap[o].n
        PROVE  Byte(o, first + j(i) + 1) \in Observations \X (1 .. BodyLength)
    <2>1. obs[o].head \in Nat /\ tap[o].delivered \in Nat /\ tap[o].n \in Nat /\ Size \in Nat \ {0}
      BY RingAssumption DEF Part, ObsShape, TapShape
    <2>2. obs[o].head % Size \in 0 .. Size - 1
      BY <2>1
    <2>3. i + Size - (obs[o].head % Size) \in Nat
      BY <2>1, <2>2 DEF Cells
    <2>4. j(i) \in Nat
      BY <2>1, <2>3
    <2>5. first \in Nat /\ first + tap[o].n <= BodyLength
      BY <2>1 DEF Own, Placed
    <2> HIDE DEF j, first
    <2>6. first + j(i) + 1 \in 1 .. BodyLength
      BY <1>1, <2>1, <2>4, <2>5, RingAssumption
    <2> QED
      BY <2>6 DEF Byte
  <1>2. \A i \in Cells : content[obs[o].buf][i] \in {Zero} \cup (Observations \X (1 .. BodyLength))
    BY DEF Contents, Part, ObsShape, Leased
  <1> QED
    BY <1>1, <1>2 DEF Copied

LEMMA CopyKeepsBytes ==
  ASSUME RInv, BInv, NEW o \in Observations, Copy(o)
  PROVE  BInv'
  <1> DEFINE m == [tap[o] EXCEPT !.step = "publish"]
  <1>1. Part(o) /\ Protocol(o) /\ Own(o) /\ Leased(o) /\ tap[o].step = "copy"
    BY Parts DEF BInv, Copy, Protocol, Sound, Leased
  <1>2. m.step = "publish" /\ m.n = tap[o].n /\ m.delivered = tap[o].delivered /\ m.enabled = tap[o].enabled
        /\ m.err = tap[o].err
    BY <1>1 DEF Part, TapShape
  <1>3. Steps(o, obs[o], m, closer[o], observer[o], scanned[o])
    BY DEF Copy, SetTap, Steps, RInv, BInv, Shape
  <1>4. content' = [content EXCEPT ![obs[o].buf] = Copied(o)] /\ obs[o].buf \in Slabs
    BY <1>1 DEF Copy, Leased, Part, ObsShape
  <1>5. content' \in Contents
    BY <1>1, <1>4, CopiedIsContent DEF BInv, Contents
  <1>6. content'[obs[o].buf] = Copied(o)
    BY <1>4 DEF BInv, Contents
  <1>7. \A s \in Slabs : s # obs[o].buf => content'[s] = content[s]
    BY <1>4 DEF BInv, Contents
  <1> HIDE DEF m
  <1>8. Placed(obs[o], m, observer[o])
    BY <1>1, <1>2 DEF Own, Placed, Writing
  <1>9. Ended(obs[o], m, closer[o], observer[o])
    BY <1>1, <1>2 DEF Own, Ended
  <1>10. Holds(o, obs[o], m, observer[o], scanned[o], Copied(o))
    <2>1. scanned[o] = Prefix(o, IF observer[o].step = "tail" THEN observer[o].limit ELSE obs[o].tail)
      BY <1>1 DEF Own, Holds
    <2>2. \A k \in obs[o].tail + 1 .. obs[o].head + tap[o].n : Copied(o)[(k - 1) % Size] = Byte(o, k)
      BY <1>1, CopiedHolds
    <2> QED
      BY <1>2, <2>1, <2>2 DEF Holds
  <1>11. scanned[o] \in Seq(Observations \X Nat)
    BY DEF BInv
  <1> QED
    BY <1>3, <1>5, <1>6, <1>7, <1>8, <1>9, <1>10, <1>11, StepKeepsBytes

LEMMA PublishKeepsBytes ==
  ASSUME RInv, BInv, NEW o \in Observations, Publish(o)
  PROVE  BInv'
  <1> DEFINE x == [obs[o] EXCEPT !.head = @ + tap[o].n]
             m == [tap[o] EXCEPT !.step = "unpin"]
  <1>1. Part(o) /\ Protocol(o) /\ Own(o)
    BY Parts DEF BInv
  <1>2. Placed(x, m, observer[o])
    BY <1>1 DEF Publish, SetTap, Own, Placed, Writing, Part, ObsShape, TapShape, ObserverShape
  <1>3. Ended(x, m, closer[o], observer[o])
    BY <1>1 DEF Publish, SetTap, Own, Placed, Ended, Writing, Part, ObsShape, TapShape,
       CloserShape, ObserverShape
  <1>4. /\ x.tail = obs[o].tail /\ x.head = obs[o].head + tap[o].n /\ x.buf = obs[o].buf
        /\ m.step = "unpin" /\ tap[o].step = "publish" /\ obs[o].head \in Nat /\ tap[o].n \in Nat
    BY <1>1 DEF Publish, Part, ObsShape, TapShape
  <1>5. Steps(o, x, m, closer[o], observer[o], scanned[o]) /\ content' = content
    BY DEF Publish, SetTap, Steps, RInv, BInv, Shape
  <1> HIDE DEF x, m
  <1>6. Holds(o, x, m, observer[o], scanned[o], content[obs[o].buf])
    BY <1>1, <1>4 DEF Own, Holds
  <1> QED
    BY <1>2, <1>3, <1>4, <1>5, <1>6, StepsKeepBytes

LEMMA ScanKeepsBytes ==
  ASSUME RInv, BInv, NEW o \in Observations, Scan(o)
  PROVE  BInv'
  <1>1. Part(o) /\ Protocol(o) /\ Own(o) /\ observer[o].step = "scan"
    BY Parts DEF BInv, Scan
  <1>2. obs[o].buf \in Slabs /\ Leased(o)
    BY <1>1 DEF Part, Protocol, Sound, ObsShape, Leased
  <1>3. CASE /\ scanned' = [scanned EXCEPT ![o] = @ \o Window(obs[o].buf, obs[o].tail, observer[o].limit)]
             /\ SetObserver(o, "tail")
    <2> DEFINE d == [observer[o] EXCEPT !.step = "tail"]
    <2>1. d.step = "tail" /\ d.limit = observer[o].limit /\ d.outcome = observer[o].outcome
      BY <1>1 DEF Part, ObserverShape
    <2>2. Prefix(o, obs[o].tail) \o Window(obs[o].buf, obs[o].tail, observer[o].limit)
            = Prefix(o, observer[o].limit)
      <3>1. /\ obs[o].tail \in Nat /\ observer[o].limit \in Nat /\ obs[o].tail <= observer[o].limit
            /\ observer[o].limit <= obs[o].head /\ obs[o].head \in Nat /\ tap[o].n \in Nat
        BY <1>1 DEF Part, ObsShape, ObserverShape, TapShape, Own, Placed
      <3>2. \A k \in obs[o].tail + 1 .. observer[o].limit :
               content[obs[o].buf][(k - 1) % Size] = Byte(o, k)
        <4> TAKE k \in obs[o].tail + 1 .. observer[o].limit
        <4>1. k \in obs[o].tail + 1 .. obs[o].head + (IF tap[o].step = "publish" THEN tap[o].n ELSE 0)
          BY <3>1
        <4> QED
          BY <1>1, <1>2, <4>1 DEF Own, Holds, Leased
      <3> QED
        BY <1>2, <3>1, <3>2, PrefixGrows
    <2>3. scanned[o] = Prefix(o, obs[o].tail)
      BY <1>1 DEF Own, Holds
    <2>4. Steps(o, obs[o], tap[o], closer[o], d, Prefix(o, observer[o].limit)) /\ content' = content
      BY <1>3, <2>2, <2>3 DEF Scan, SetObserver, Steps, RInv, BInv, Shape
    <2> HIDE DEF d
    <2>5. Placed(obs[o], tap[o], d)
      BY <1>1, <2>1 DEF Own, Placed
    <2>6. Ended(obs[o], tap[o], closer[o], d)
      BY <1>1, <2>1 DEF Own, Ended
    <2>7. Holds(o, obs[o], tap[o], d, Prefix(o, observer[o].limit), content'[obs[o].buf])
      BY <1>1, <2>1, <2>4 DEF Own, Holds
    <2>8. Prefix(o, observer[o].limit) \in Seq(Observations \X Nat)
      BY <1>1, PrefixIsSeq DEF Part, ObserverShape
    <2>9. content' \in Contents
      BY <2>4 DEF BInv
    <2> QED
      BY <2>4, <2>5, <2>6, <2>7, <2>8, <2>9, StepKeepsBytes
  <1>4. CASE SetObserver(o, "consumer") /\ UNCHANGED scanned
    <2> DEFINE d == [observer[o] EXCEPT !.step = "consumer"]
    <2>1. d.step = "consumer" /\ d.limit = observer[o].limit /\ d.outcome = observer[o].outcome
      BY <1>1 DEF Part, ObserverShape
    <2>2. Steps(o, obs[o], tap[o], closer[o], d, scanned[o]) /\ content' = content
      BY <1>4 DEF Scan, SetObserver, Steps, RInv, BInv, Shape
    <2> HIDE DEF d
    <2>3. Placed(obs[o], tap[o], d)
      BY <1>1, <2>1 DEF Own, Placed
    <2>4. Ended(obs[o], tap[o], closer[o], d)
      BY <1>1, <2>1 DEF Own, Ended
    <2>5. SameHold(obs[o], tap[o], observer[o], obs[o], tap[o], d)
      BY <1>1, <2>1 DEF SameHold
    <2>6. Holds(o, obs[o], tap[o], d, scanned[o], content[obs[o].buf])
      BY <1>1, <2>5, HoldsStay DEF Own
    <2> QED
      BY <2>2, <2>3, <2>4, <2>6, StepsKeepBytes
  <1> QED
    BY <1>3, <1>4 DEF Scan

LEMMA StoreTailKeepsBytes ==
  ASSUME RInv, BInv, NEW o \in Observations, StoreTail(o)
  PROVE  BInv'
  <1> DEFINE x == [obs[o] EXCEPT !.tail = observer[o].limit]
             d == [observer[o] EXCEPT !.limit = 0, !.step = "judge"]
  <1>1. Part(o) /\ Protocol(o) /\ Own(o) /\ observer[o].step = "tail"
    BY Parts DEF BInv, StoreTail
  <1>2. /\ x.tail = observer[o].limit /\ x.head = obs[o].head /\ x.buf = obs[o].buf
        /\ x.closed = obs[o].closed /\ x.done = obs[o].done /\ x.overrun = obs[o].overrun
        /\ d.step = "judge" /\ d.limit = 0 /\ d.outcome = observer[o].outcome
        /\ obs[o].tail \in Nat /\ obs[o].head \in Nat /\ tap[o].n \in Nat /\ observer[o].limit \in Nat
    BY <1>1 DEF Part, ObsShape, ObserverShape, TapShape
  <1>3. Steps(o, x, tap[o], closer[o], d, scanned[o]) /\ content' = content
    BY DEF StoreTail, Steps, RInv, BInv, Shape
  <1> HIDE DEF x, d
  <1>4. Placed(x, tap[o], d)
    BY <1>1, <1>2, RingAssumption DEF Own, Placed
  <1>5. Ended(x, tap[o], closer[o], d)
    BY <1>1, <1>2 DEF Own, Ended
  <1>6. Holds(o, x, tap[o], d, scanned[o], content[obs[o].buf])
    BY <1>1, <1>2 DEF Own, Holds, Placed
  <1> QED
    BY <1>2, <1>3, <1>4, <1>5, <1>6, StepsKeepBytes

LEMMA InstallKeepsBytes ==
  ASSUME RInv, BInv, NEW o \in Observations, Install(o)
  PROVE  BInv'
  <1>1. Part(o) /\ Protocol(o) /\ Own(o) /\ tap[o].step = "none" /\ observer[o].step = "none"
    BY Parts DEF BInv, Install, Protocol, Sound
  <1>2. PICK s \in pool : obs' = [obs EXCEPT ![o].buf = s]
    BY DEF Install
  <1> DEFINE x == [obs[o] EXCEPT !.buf = s]
             m == [tap[o] EXCEPT !.step = "read"]
             d == [observer[o] EXCEPT !.step = "overrun"]
  <1>3. /\ x.tail = obs[o].tail /\ x.head = obs[o].head
        /\ x.closed = obs[o].closed /\ x.done = obs[o].done /\ x.overrun = obs[o].overrun
        /\ m.step = "read" /\ m.n = tap[o].n /\ m.delivered = tap[o].delivered
        /\ m.enabled = tap[o].enabled /\ m.err = tap[o].err
        /\ d.step = "overrun" /\ d.limit = observer[o].limit /\ d.outcome = observer[o].outcome
        /\ obs[o].tail \in Nat /\ obs[o].head \in Nat /\ tap[o].delivered \in Nat
    BY <1>1 DEF Part, ObsShape, ObserverShape, TapShape
  <1>4. Steps(o, x, m, closer[o], d, scanned[o]) /\ content' = content
    BY <1>2 DEF Install, SetTap, SetObserver, Steps, RInv, BInv, Shape
  <1> HIDE DEF x, m, d
  <1>5. Placed(x, m, d)
    BY <1>1, <1>3 DEF Own, Placed, Writing
  <1>6. Ended(x, m, closer[o], d)
    BY <1>1, <1>3 DEF Own, Ended
  <1>7. Holds(o, x, m, d, scanned[o], content'[x.buf])
    BY <1>1, <1>3 DEF Own, Holds, Placed
  <1>8. content' \in Contents /\ scanned[o] \in Seq(Observations \X Nat)
    BY <1>4 DEF BInv
  <1> QED
    BY <1>4, <1>5, <1>6, <1>7, <1>8, StepKeepsBytes

\* The last move of a goroutine: a slab given back holds nothing any more.
LEMMA LastMoveKeepsBytes ==
  ASSUME RInv, BInv, NEW o \in Observations, TryRelease(o), NEW m, NEW c, NEW d,
         tap' = [tap EXCEPT ![o] = m], closer' = [closer EXCEPT ![o] = c],
         observer' = [observer EXCEPT ![o] = d], scanned' = scanned,
         Placed(obs[o], m, d), Ended(obs[o], m, c, d),
         SameHold(obs[o], tap[o], observer[o], obs[o], m, d)
  PROVE  BInv'
  <1>1. Part(o) /\ Protocol(o) /\ Own(o) /\ scanned[o] \in Seq(Observations \X Nat)
    BY Parts DEF BInv
  <1>2. Holds(o, obs[o], m, d, scanned[o], content[obs[o].buf])
    BY <1>1, HoldsStay DEF Own
  <1>3. CASE ~Quiescent(obs[o])
    <2>1. Steps(o, obs[o], m, c, d, scanned[o]) /\ content' = content
      BY <1>3 DEF TryRelease, Steps, RInv, BInv, Shape
    <2> QED
      BY <1>2, <2>1, StepsKeepBytes
  <1>4. CASE Quiescent(obs[o])
    <2> DEFINE x == [obs[o] EXCEPT !.released = TRUE, !.buf = NoSlab]
    <2>1. /\ x.buf = NoSlab /\ x.tail = obs[o].tail /\ x.head = obs[o].head
          /\ x.closed = obs[o].closed /\ x.done = obs[o].done /\ x.overrun = obs[o].overrun
      BY <1>1 DEF Part, ObsShape
    <2>2. Steps(o, x, m, c, d, scanned[o])
      BY <1>4 DEF TryRelease, Steps, RInv, BInv, Shape
    <2>3. content' = [content EXCEPT ![obs[o].buf] = Clear]
      BY <1>4 DEF TryRelease, Put
    <2>4. content' \in Contents /\ \A s \in Slabs : s # obs[o].buf => content'[s] = content[s]
      BY <2>3 DEF BInv, Contents, Clear
    <2> HIDE DEF x
    <2>5. Placed(x, m, d)
      BY <2>1 DEF Placed
    <2>6. Ended(x, m, c, d)
      BY <2>1 DEF Ended
    <2>7. Holds(o, x, m, d, scanned[o], content'[x.buf])
      BY <1>2, <2>1 DEF Holds
    <2> QED
      BY <1>1, <2>2, <2>4, <2>5, <2>6, <2>7, StepKeepsBytes
  <1> QED
    BY <1>3, <1>4

LEMMA ReleaseAfterReadKeepsBytes ==
  ASSUME RInv, BInv, NEW o \in Observations, ReleaseAfterRead(o)
  PROVE  BInv'
  <1> DEFINE m == [tap[o] EXCEPT !.step = "err"]
  <1>1. Part(o) /\ Protocol(o) /\ Own(o)
    BY Parts DEF BInv
  <1>2. Placed(obs[o], m, observer[o])
    BY <1>1 DEF ReleaseAfterRead, Own, Placed, Writing, Part, TapShape, ObserverShape
  <1>3. Ended(obs[o], m, closer[o], observer[o])
    BY <1>1 DEF ReleaseAfterRead, Own, Ended, Part, TapShape, CloserShape, ObserverShape
  <1>4. SameHold(obs[o], tap[o], observer[o], obs[o], m, observer[o])
    BY <1>1 DEF ReleaseAfterRead, SameHold, Part, TapShape, ObserverShape
  <1>5. /\ TryRelease(o) /\ tap' = [tap EXCEPT ![o] = m]
        /\ closer' = [closer EXCEPT ![o] = closer[o]] /\ observer' = [observer EXCEPT ![o] = observer[o]]
        /\ scanned' = scanned
    BY DEF ReleaseAfterRead, SetTap, RInv, Shape
  <1> QED
    BY <1>2, <1>3, <1>4, <1>5, LastMoveKeepsBytes

LEMMA ReleaseAfterCloseKeepsBytes ==
  ASSUME RInv, BInv, NEW o \in Observations, ReleaseAfterClose(o)
  PROVE  BInv'
  <1> DEFINE c == [closer[o] EXCEPT !.step = "none"]
  <1>1. Part(o) /\ Protocol(o) /\ Own(o)
    BY Parts DEF BInv
  <1>2. Placed(obs[o], tap[o], observer[o])
    BY <1>1 DEF ReleaseAfterClose, Own, Placed, Writing, Part, TapShape, ObserverShape
  <1>3. Ended(obs[o], tap[o], c, observer[o])
    BY <1>1 DEF ReleaseAfterClose, Own, Ended, Part, TapShape, CloserShape, ObserverShape
  <1>4. SameHold(obs[o], tap[o], observer[o], obs[o], tap[o], observer[o])
    BY <1>1 DEF ReleaseAfterClose, SameHold, Part, TapShape, ObserverShape
  <1>5. /\ TryRelease(o) /\ tap' = [tap EXCEPT ![o] = tap[o]]
        /\ closer' = [closer EXCEPT ![o] = c] /\ observer' = [observer EXCEPT ![o] = observer[o]]
        /\ scanned' = scanned
    BY DEF ReleaseAfterClose, SetCloser, RInv, Shape
  <1> QED
    BY <1>2, <1>3, <1>4, <1>5, LastMoveKeepsBytes

LEMMA ReleaseAfterObservingKeepsBytes ==
  ASSUME RInv, BInv, NEW o \in Observations, ReleaseAfterObserving(o)
  PROVE  BInv'
  <1> DEFINE d == [observer[o] EXCEPT !.step = "end"]
  <1>1. Part(o) /\ Protocol(o) /\ Own(o)
    BY Parts DEF BInv
  <1>2. Placed(obs[o], tap[o], d)
    BY <1>1 DEF ReleaseAfterObserving, Own, Placed, Writing, Part, TapShape, ObserverShape
  <1>3. Ended(obs[o], tap[o], closer[o], d)
    BY <1>1 DEF ReleaseAfterObserving, Own, Ended, Part, TapShape, CloserShape, ObserverShape
  <1>4. SameHold(obs[o], tap[o], observer[o], obs[o], tap[o], d)
    BY <1>1 DEF ReleaseAfterObserving, SameHold, Part, TapShape, ObserverShape
  <1>5. /\ TryRelease(o) /\ tap' = [tap EXCEPT ![o] = tap[o]]
        /\ closer' = [closer EXCEPT ![o] = closer[o]] /\ observer' = [observer EXCEPT ![o] = d]
        /\ scanned' = scanned
    BY DEF ReleaseAfterObserving, SetObserver, RInv, Shape
  <1> QED
    BY <1>2, <1>3, <1>4, <1>5, LastMoveKeepsBytes

-----------------------------------------------------------------------------
(* Every step keeps the invariant of the bytes.                            *)

LEMMA InitHoldsBytes == Init => BInv
  <1> SUFFICES ASSUME Init PROVE BInv
    OBVIOUS
  <1>1. content \in Contents
    BY DEF Init, Contents, Clear
  <1>2. scanned \in [Observations -> Seq(Observations \X Nat)]
    BY DEF Init
  <1>3. ASSUME NEW o \in Observations PROVE Own(o)
    <2>1. /\ obs[o].head = 0 /\ obs[o].tail = 0 /\ obs[o].buf = NoSlab /\ ~obs[o].closed /\ ~obs[o].done
          /\ tap[o].step = "none" /\ tap[o].delivered = 0 /\ tap[o].n = 0 /\ tap[o].enabled
          /\ closer[o].step = "none" /\ closer[o].calls = 0
          /\ observer[o].step = "none" /\ observer[o].limit = 0 /\ observer[o].outcome = "none"
          /\ scanned[o] = <<>>
      BY DEF Init
    <2>2. Placed(obs[o], tap[o], observer[o])
      BY <2>1, RingAssumption DEF Placed, Writing
    <2>3. Ended(obs[o], tap[o], closer[o], observer[o])
      BY <2>1, RingAssumption DEF Ended
    <2>4. Prefix(o, 0) = <<>>
      BY PrefixIsSeq, EmptySeq
    <2>5. Holds(o, obs[o], tap[o], observer[o], scanned[o], content[obs[o].buf])
      BY <2>1, <2>4 DEF Holds
    <2> QED
      BY <2>2, <2>3, <2>5 DEF Own
  <1> QED
    BY <1>1, <1>2, <1>3 DEF BInv

LEMMA NextKeepsBytes == RInv /\ BInv /\ [Next]_vars => BInv'
  <1> SUFFICES ASSUME RInv, BInv, [Next]_vars PROVE BInv'
    OBVIOUS
  <1>1. CASE UNCHANGED vars
    BY <1>1 DEF vars, BInv, Own
  <1>2. ASSUME NEW o \in Observations,
               Install(o) \/ Read(o) \/ Reader(o) \/ Close(o) \/ Closing(o) \/ Observing(o)
        PROVE  BInv'
    <2>1. CASE Install(o) \/ Read(o) \/ Close(o)
      BY <2>1, InstallKeepsBytes, ReadKeepsBytes, CloseKeepsBytes
    <2>2. CASE Reader(o)
      BY <2>2, PinKeepsBytes, LoadTailKeepsBytes, CopyKeepsBytes, PublishKeepsBytes,
         OverrunKeepsBytes, UnpinKeepsBytes, ReleaseAfterReadKeepsBytes, SetErrKeepsBytes,
         SetDoneKeepsBytes, WakeKeepsBytes DEF Reader
    <2>3. CASE Closing(o)
      BY <2>3, CloseDoneKeepsBytes, CloseWakeKeepsBytes, SetClosedKeepsBytes,
         ReleaseAfterCloseKeepsBytes DEF Closing
    <2>4. CASE Observing(o)
      BY <2>4, CheckOverrunKeepsBytes, LoadHeadKeepsBytes, ScanKeepsBytes, StoreTailKeepsBytes,
         JudgeKeepsBytes, CheckDoneKeepsBytes, CheckEmptyKeepsBytes, FinishAtEOFKeepsBytes,
         WaitKeepsBytes, SetConsumerDoneKeepsBytes, ReleaseAfterObservingKeepsBytes DEF Observing
    <2> QED
      BY <1>2, <2>1, <2>2, <2>3, <2>4
  <1> QED
    BY <1>1, <1>2 DEF Next

(* The positions of ring.go and what lies between them in the slab are the *)
(* body's own bytes, whatever the sizes and however the goroutines meet.   *)
THEOREM RingBytes == Spec => [](RInv /\ BInv)
  <1>1. Init => RInv /\ BInv
    BY InitHolds, InitHoldsBytes
  <1>2. (RInv /\ BInv) /\ [Next]_vars => (RInv /\ BInv)'
    BY NextKeeps, NextKeepsBytes
  <1> QED
    BY <1>1, <1>2, PTL DEF Spec

LEMMA InvariantMeansTypes == RInv /\ BInv => TypeOK
  <1> SUFFICES ASSUME RInv, BInv PROVE TypeOK
    OBVIOUS
  <1>1. ASSUME NEW o \in Observations
        PROVE  /\ obs[o] \in Obs /\ tap[o] \in Tap /\ closer[o] \in Closer /\ observer[o] \in Observer
               /\ scanned[o] \in Seq(Observations \X (1 .. BodyLength))
    <2>1. Part(o) /\ Own(o)
      BY Parts DEF BInv
    <2>2. /\ obs[o].head \in 0 .. BodyLength /\ obs[o].tail \in 0 .. BodyLength
          /\ tap[o].delivered \in 0 .. BodyLength /\ tap[o].n \in 0 .. BodyLength
          /\ closer[o].calls \in 0 .. MaxCloses /\ observer[o].limit \in 0 .. BodyLength
      BY <2>1, RingAssumption DEF Part, Own, Placed, Ended, ObsShape, TapShape, CloserShape,
         ObserverShape
    <2>3. obs[o] \in Obs
      BY <2>1, <2>2 DEF Part, ObsShape, Obs
    <2>4. tap[o] \in Tap
      BY <2>1, <2>2 DEF Part, TapShape, TapSteps, Tap
    <2>5. closer[o] \in Closer
      BY <2>1, <2>2 DEF Part, CloserShape, CloserSteps, Closer
    <2>6. observer[o] \in Observer
      BY <2>1, <2>2 DEF Part, ObserverShape, ObserverSteps, Observer
    <2>7. scanned[o] \in Seq(Observations \X (1 .. BodyLength))
      <3>1. PICK n \in 0 .. BodyLength : scanned[o] = Prefix(o, n)
        BY <2>1, <2>2 DEF Own, Holds
      <3>2. \A k \in 1 .. n : Byte(o, k) \in Observations \X (1 .. BodyLength)
        BY RingAssumption DEF Byte
      <3>3. Prefix(o, n) \in [1 .. n -> Observations \X (1 .. BodyLength)]
        BY <3>2 DEF Prefix
      <3> QED
        BY <3>1, <3>3
    <2> QED
      BY <2>3, <2>4, <2>5, <2>6, <2>7
  <1> QED
    BY <1>1 DEF RInv, Shape, BInv, Contents, TypeOK

(* The types of the ring's state: no position passes the body, none is off *)
(* a slab's end.                                                           *)
THEOREM RingTypes == Spec => []TypeOK
  BY RingBytes, InvariantMeansTypes, PTL

LEMMA InvariantMeansWhole == RInv /\ BInv => WholeAtEOF
  <1> SUFFICES ASSUME RInv, BInv, NEW o \in Observations,
                      observer[o].outcome = "EOF" /\ ~obs[o].overrun /\ closer[o].calls = 0
               PROVE  Len(scanned[o]) = tap[o].delivered
    BY DEF WholeAtEOF
  <1>1. Part(o) /\ Own(o)
    BY Parts DEF BInv
  <1>2. /\ tap[o].enabled /\ obs[o].tail = obs[o].head /\ tap[o].step \in {"wake", "end"}
        /\ observer[o].step \in {"consumer", "release", "end"}
    BY <1>1 DEF Own, Ended
  <1>3. obs[o].head = tap[o].delivered /\ obs[o].tail \in Nat
    BY <1>1, <1>2 DEF Own, Placed, Writing, Part, ObsShape
  <1>4. scanned[o] = Prefix(o, obs[o].tail)
    BY <1>1, <1>2 DEF Own, Holds
  <1> QED
    BY <1>2, <1>3, <1>4, PrefixIsSeq

(* tap.go, drainInto, runObserver: an observation that ends at EOF without *)
(* an overrun and without a Close has scanned every byte the client got:   *)
(* done is looked at before the positions, and the positions are stored    *)
(* before done.                                                            *)
THEOREM WholeBody == Spec => []WholeAtEOF
  BY RingBytes, InvariantMeansWhole, PTL

-----------------------------------------------------------------------------
(* The ring implements the channel.                                        *)

\* What the channel of o has, read off the positions.
Got(o)  == Prefix(o, obs[o].tail)
Sent(o) == Prefix(o, IF Leased(o) THEN obs[o].head ELSE obs[o].tail)

GotBar  == [o \in Observations |-> SubSeq(scanned[o], 1, obs[o].tail)]
SentBar == [o \in Observations |-> SubSeq(scanned[o], 1, obs[o].tail) \o InRing(o)]

Mapped == /\ GotBar = [o \in Observations |-> Got(o)]
          /\ SentBar = [o \in Observations |-> Sent(o)]

LEMMA Mapping == RInv /\ BInv => Mapped
  <1> SUFFICES ASSUME RInv, BInv PROVE Mapped
    OBVIOUS
  <1>1. ASSUME NEW o \in Observations
        PROVE  /\ SubSeq(scanned[o], 1, obs[o].tail) = Got(o)
               /\ SubSeq(scanned[o], 1, obs[o].tail) \o InRing(o) = Sent(o)
    <2>1. Part(o) /\ Protocol(o) /\ Own(o)
      BY Parts DEF BInv
    <2>2. /\ obs[o].tail \in Nat /\ obs[o].head \in Nat /\ obs[o].tail <= obs[o].head
          /\ observer[o].limit \in Nat /\ tap[o].n \in Nat
          /\ observer[o].step = "tail" => obs[o].tail <= observer[o].limit
      BY <2>1 DEF Part, ObsShape, TapShape, ObserverShape, Own, Placed
    <2>3. SubSeq(scanned[o], 1, obs[o].tail) = Got(o)
      <3>1. PICK n \in Nat : scanned[o] = Prefix(o, n) /\ obs[o].tail <= n
        BY <2>1, <2>2 DEF Own, Holds
      <3> QED
        BY <2>2, <3>1, PrefixCut DEF Got
    <2>4. CASE Leased(o)
      <3>1. obs[o].buf \in Slabs
        BY <2>1, <2>4 DEF Part, ObsShape, Leased
      <3>2. \A k \in obs[o].tail + 1 .. obs[o].head : content[obs[o].buf][(k - 1) % Size] = Byte(o, k)
        <4> TAKE k \in obs[o].tail + 1 .. obs[o].head
        <4>1. k \in obs[o].tail + 1 .. obs[o].head + (IF tap[o].step = "publish" THEN tap[o].n ELSE 0)
          BY <2>2
        <4> QED
          BY <2>1, <2>4, <4>1 DEF Own, Holds, Leased
      <3>3. Prefix(o, obs[o].tail) \o Window(obs[o].buf, obs[o].tail, obs[o].head) = Prefix(o, obs[o].head)
        BY <2>2, <3>1, <3>2, PrefixGrows
      <3> QED
        BY <2>3, <2>4, <3>3 DEF Got, Sent, InRing
    <2>5. CASE ~Leased(o)
      <3>1. Prefix(o, obs[o].tail) \o <<>> = Prefix(o, obs[o].tail)
        BY <2>2, PrefixIsSeq, ConcatEmptySeq
      <3> QED
        BY <2>3, <2>5, <3>1 DEF Got, Sent, InRing
    <2> QED
      BY <2>3, <2>4, <2>5
  <1> QED
    BY <1>1 DEF Mapped, GotBar, SentBar

LEMMA MappingNext == RInv' /\ BInv' => Mapped'
  BY Mapping, PTL

\* What a step may do to the positions and the lease of o.
Rests(o)    == /\ obs'[o].tail = obs[o].tail /\ obs'[o].head = obs[o].head
               /\ Leased(o)' <=> Leased(o)
Fills(o)    == /\ obs'[o].tail = obs[o].tail /\ obs'[o].head > obs[o].head
               /\ Leased(o) /\ Leased(o)'
Drains(o)   == /\ obs'[o].tail > obs[o].tail /\ obs'[o].tail <= obs[o].head
               /\ obs'[o].head = obs[o].head /\ Leased(o) /\ Leased(o)'
GivesUp(o)  == /\ obs'[o].tail = obs[o].tail /\ obs'[o].head = obs[o].head
               /\ Leased(o) /\ ~Leased(o)'
Takes(o)    == /\ obs'[o].tail = obs[o].tail /\ obs'[o].head = obs[o].head
               /\ obs[o].head = obs[o].tail

Others(o) == \A q \in Observations \ {o} : obs'[q] = obs[q]

\* One step of the ring is a step of the channel of the observation that takes
\* it, or none.
LEMMA ChannelStep ==
  ASSUME RInv, BInv, RInv', BInv', NEW o \in Observations, Others(o),
         Rests(o) \/ Fills(o) \/ Drains(o) \/ GivesUp(o) \/ Takes(o)
  PROVE  [Channel!Next]_(Channel!vars)
  <1>1. Mapped /\ Mapped'
    BY Mapping, MappingNext
  <1>2. Channel!vars = <<SentBar, GotBar>> /\ Channel!vars' = <<SentBar', GotBar'>>
    BY DEF Channel!vars, SentBar, GotBar
  <1>3. /\ GotBar = [q \in Observations |-> Prefix(q, obs[q].tail)]
        /\ GotBar' = [q \in Observations |-> Prefix(q, obs'[q].tail)]
    BY <1>1 DEF Mapped, Got, Prefix, Byte
  <1>4. /\ SentBar = [q \in Observations |-> Prefix(q, IF Leased(q) THEN obs[q].head ELSE obs[q].tail)]
        /\ SentBar' = [q \in Observations |-> Prefix(q, IF Leased(q)' THEN obs'[q].head ELSE obs'[q].tail)]
    BY <1>1 DEF Mapped, Sent, Prefix, Byte, Leased
  <1>5. \A q \in Observations \ {o} : obs'[q].tail = obs[q].tail /\ obs'[q].head = obs[q].head
                                        /\ (Leased(q)' <=> Leased(q))
    BY DEF Others, Leased
  <1>6. /\ obs[o].tail \in Nat /\ obs[o].head \in Nat /\ obs[o].tail <= obs[o].head
        /\ obs'[o].tail \in Nat /\ obs'[o].head \in Nat /\ obs'[o].head <= obs'[o].tail + Size
    BY DEF RInv, Shape, ObsShape, BInv, Own, Placed
  <1>7. CASE Rests(o) \/ Takes(o)
    <2>1. GotBar' = GotBar
      BY <1>3, <1>5, <1>7 DEF Rests, Takes
    <2>2. SentBar' = SentBar
      BY <1>4, <1>5, <1>7 DEF Rests, Takes
    <2> QED
      BY <1>2, <2>1, <2>2
  <1>8. CASE Fills(o)
    <2>1. GotBar' = GotBar
      BY <1>3, <1>5, <1>8 DEF Fills
    <2>2. SentBar' = [SentBar EXCEPT ![o] = Prefix(o, obs'[o].head)]
      BY <1>4, <1>5, <1>8 DEF Fills
    <2>3. SentBar[o] = Prefix(o, obs[o].head) /\ GotBar[o] = Prefix(o, obs[o].tail)
      BY <1>3, <1>4, <1>8 DEF Fills
    <2>4. Len(SentBar[o]) = obs[o].head /\ Len(GotBar[o]) = obs[o].tail
      BY <1>6, <2>3, PrefixIsSeq
    <2>5. obs'[o].head \in Len(SentBar[o]) + 1 .. Len(GotBar[o]) + Size
      BY <1>6, <1>8, <2>4 DEF Fills
    <2>6. Channel!Bytes(o, obs'[o].head) = Prefix(o, obs'[o].head)
      BY DEF Channel!Bytes, Channel!Byte, Prefix, Byte
    <2>7. Channel!Put(o)
      BY <2>1, <2>2, <2>5, <2>6 DEF Channel!Put, SentBar, GotBar
    <2> QED
      BY <2>7 DEF Channel!Next
  <1>9. CASE Drains(o)
    <2>1. SentBar' = SentBar
      BY <1>4, <1>5, <1>9 DEF Drains
    <2>2. GotBar' = [GotBar EXCEPT ![o] = Prefix(o, obs'[o].tail)]
      BY <1>3, <1>5, <1>9 DEF Drains
    <2>3. SentBar[o] = Prefix(o, obs[o].head) /\ GotBar[o] = Prefix(o, obs[o].tail)
      BY <1>3, <1>4, <1>9 DEF Drains
    <2>4. Len(SentBar[o]) = obs[o].head /\ Len(GotBar[o]) = obs[o].tail
      BY <1>6, <2>3, PrefixIsSeq
    <2>5. obs'[o].tail \in Len(GotBar[o]) + 1 .. Len(SentBar[o])
      BY <1>6, <1>9, <2>4 DEF Drains
    <2>6. SubSeq(SentBar[o], 1, obs'[o].tail) = Prefix(o, obs'[o].tail)
      BY <1>6, <1>9, <2>3, PrefixCut DEF Drains
    <2>7. Channel!Get(o)
      BY <2>1, <2>2, <2>5, <2>6 DEF Channel!Get, SentBar, GotBar
    <2> QED
      BY <2>7 DEF Channel!Next
  <1>10. CASE GivesUp(o)
    <2>1. GotBar' = GotBar
      BY <1>3, <1>5, <1>10 DEF GivesUp
    <2>2. SentBar' = [SentBar EXCEPT ![o] = GotBar[o]]
      BY <1>3, <1>4, <1>5, <1>10 DEF GivesUp
    <2>3. Channel!Drop(o)
      BY <2>1, <2>2 DEF Channel!Drop, SentBar, GotBar
    <2> QED
      BY <2>3 DEF Channel!Next
  <1> QED
    BY <1>7, <1>8, <1>9, <1>10

\* tryRelease gives a channel up, or leaves it.
LEMMA ReleaseStep ==
  ASSUME RInv, NEW o \in Observations, TryRelease(o)
  PROVE  Others(o) /\ (Rests(o) \/ GivesUp(o))
  <1>1. Part(o) /\ Protocol(o)
    BY Parts
  <1>2. CASE ~Quiescent(obs[o])
    BY <1>2 DEF TryRelease, Others, Rests, Leased
  <1>3. CASE Quiescent(obs[o])
    <2>1. obs' = [obs EXCEPT ![o].released = TRUE, ![o].buf = NoSlab]
      BY <1>3 DEF TryRelease
    <2>2. obs'[o] = [obs[o] EXCEPT !.released = TRUE, !.buf = NoSlab] /\ Others(o)
      BY <2>1 DEF RInv, Shape, Others
    <2>3. obs'[o].tail = obs[o].tail /\ obs'[o].head = obs[o].head /\ obs'[o].buf = NoSlab
      BY <1>1, <2>2 DEF Part, ObsShape
    <2>4. Leased(o)
      BY <1>1, <1>3 DEF Quiescent, Protocol, Sound, Leased
    <2> QED
      BY <2>2, <2>3, <2>4 DEF GivesUp, Leased
  <1> QED
    BY <1>2, <1>3

\* The steps that change neither position nor lease.
LEMMA RestingSteps ==
  ASSUME RInv, NEW o \in Observations,
         \/ obs' = obs
         \/ \E v \in BOOLEAN : \/ obs' = [obs EXCEPT ![o].done = v] \/ obs' = [obs EXCEPT ![o].wake = v]
                               \/ obs' = [obs EXCEPT ![o].overrun = v] \/ obs' = [obs EXCEPT ![o].closed = v]
                               \/ obs' = [obs EXCEPT ![o].consumerDone = v]
         \/ \E r \in Int : obs' = [obs EXCEPT ![o].readers = r]
         \/ \E e \in Errors : obs' = [obs EXCEPT ![o].finalErr = e]
  PROVE  Others(o) /\ Rests(o)
  BY DEF RInv, Shape, ObsShape, Others, Rests, Leased

LEMMA StepsImplement ==
  ASSUME RInv, BInv, RInv', BInv', NEW o \in Observations,
         Install(o) \/ Read(o) \/ Reader(o) \/ Close(o) \/ Closing(o) \/ Observing(o)
  PROVE  [Channel!Next]_(Channel!vars)
  <1>0. Part(o) /\ Protocol(o) /\ Own(o)
    BY Parts DEF BInv
  <1>1. CASE Install(o)
    <2>1. PICK s \in pool : obs' = [obs EXCEPT ![o].buf = s]
      BY <1>1 DEF Install
    <2>2. obs'[o] = [obs[o] EXCEPT !.buf = s] /\ Others(o)
      BY <2>1 DEF RInv, Shape, Others
    <2>3. obs'[o].tail = obs[o].tail /\ obs'[o].head = obs[o].head
      BY <1>0, <2>2 DEF Part, ObsShape
    <2>4. obs[o].head = obs[o].tail
      BY <1>0, <1>1 DEF Install, Own, Placed, Part, ObsShape, TapShape
    <2> QED
      BY <2>2, <2>3, <2>4, ChannelStep DEF Takes
  <1>2. CASE Publish(o)
    <2>1. obs'[o] = [obs[o] EXCEPT !.head = @ + tap[o].n] /\ Others(o)
      BY <1>2 DEF Publish, RInv, Shape, Others
    <2>2. /\ obs'[o].tail = obs[o].tail /\ obs'[o].head = obs[o].head + tap[o].n
          /\ obs'[o].buf = obs[o].buf /\ obs[o].head \in Nat /\ tap[o].n \in Nat
      BY <1>0, <2>1 DEF Part, ObsShape, TapShape
    <2>3. tap[o].n > 0 /\ Leased(o)
      BY <1>0, <1>2 DEF Publish, Own, Placed, Writing, Protocol, Sound, Leased
    <2>4. Fills(o)
      BY <2>2, <2>3 DEF Fills, Leased
    <2> QED
      BY <2>1, <2>4, ChannelStep
  <1>3. CASE StoreTail(o)
    <2>1. obs'[o] = [obs[o] EXCEPT !.tail = observer[o].limit] /\ Others(o)
      BY <1>3 DEF StoreTail, RInv, Shape, Others
    <2>2. obs'[o].tail = observer[o].limit /\ obs'[o].head = obs[o].head /\ obs'[o].buf = obs[o].buf
      BY <1>0, <2>1 DEF Part, ObsShape
    <2>3. observer[o].limit > obs[o].tail /\ observer[o].limit <= obs[o].head /\ Leased(o)
      BY <1>0, <1>3 DEF StoreTail, Own, Placed, Protocol, Sound, Leased, Part, ObsShape, ObserverShape
    <2>4. Drains(o)
      BY <2>2, <2>3 DEF Drains, Leased
    <2> QED
      BY <2>1, <2>4, ChannelStep
  <1>4. CASE ReleaseAfterRead(o) \/ ReleaseAfterClose(o) \/ ReleaseAfterObserving(o)
    <2>1. TryRelease(o)
      BY <1>4 DEF ReleaseAfterRead, ReleaseAfterClose, ReleaseAfterObserving
    <2> QED
      BY <2>1, ReleaseStep, ChannelStep
  <1>5. CASE Read(o) \/ LoadTail(o) \/ Copy(o) \/ Close(o)
               \/ CheckOverrun(o) \/ LoadHead(o) \/ Scan(o) \/ Judge(o) \/ CheckDone(o) \/ CheckEmpty(o)
               \/ FinishAtEOF(o)
    <2>1. obs' = obs
      BY <1>5 DEF Read, LoadTail, Copy, Close, CheckOverrun, LoadHead, Scan, Judge, CheckDone,
         CheckEmpty, FinishAtEOF
    <2> QED
      BY <2>1, RestingSteps, ChannelStep
  <1>6. CASE Pin(o) \/ Unpin(o)
    <2>1. obs' = obs \/ \E r \in Int : obs' = [obs EXCEPT ![o].readers = r]
      <3>1. obs[o].readers + 1 \in Int /\ obs[o].readers - 1 \in Int
        BY <1>0 DEF Part, ObsShape
      <3> QED
        BY <1>6, <3>1 DEF Pin, Unpin
    <2> QED
      BY <2>1, RestingSteps, ChannelStep
  <1>7. CASE SetErr(o)
    <2>1. obs' = obs \/ \E e \in Errors : obs' = [obs EXCEPT ![o].finalErr = e]
      BY <1>0, <1>7 DEF SetErr, Part, TapShape
    <2> QED
      BY <2>1, RestingSteps, ChannelStep
  <1>8. CASE Overrun(o) \/ SetDone(o) \/ Wake(o) \/ CloseDone(o) \/ CloseWake(o) \/ SetClosed(o)
               \/ Wait(o) \/ SetConsumerDone(o)
    <2>1. \E v \in BOOLEAN : \/ obs' = [obs EXCEPT ![o].done = v] \/ obs' = [obs EXCEPT ![o].wake = v]
                             \/ obs' = [obs EXCEPT ![o].overrun = v] \/ obs' = [obs EXCEPT ![o].closed = v]
                             \/ obs' = [obs EXCEPT ![o].consumerDone = v]
      BY <1>8 DEF Overrun, SetDone, Wake, CloseDone, CloseWake, SetClosed, Wait, SetConsumerDone
    <2> QED
      BY <2>1, RestingSteps, ChannelStep
  <1> QED
    BY <1>1, <1>2, <1>3, <1>4, <1>5, <1>6, <1>7, <1>8 DEF Reader, Closing, Observing

LEMMA InitImplements == Init => Channel!Init
  <1> SUFFICES ASSUME Init PROVE Channel!Init
    OBVIOUS
  <1>1. RInv /\ BInv
    BY InitHolds, InitHoldsBytes
  <1>2. Mapped
    BY <1>1, Mapping
  <1>3. ASSUME NEW o \in Observations PROVE Got(o) = <<>> /\ Sent(o) = <<>>
    <2>1. obs[o].tail = 0 /\ obs[o].head = 0
      BY DEF Init
    <2>2. Prefix(o, 0) = <<>>
      BY PrefixIsSeq, EmptySeq
    <2> QED
      BY <2>1, <2>2 DEF Got, Sent
  <1> QED
    BY <1>2, <1>3 DEF Channel!Init, Mapped, GotBar, SentBar

LEMMA NextImplements == RInv /\ BInv /\ RInv' /\ BInv' /\ [Next]_vars => [Channel!Next]_(Channel!vars)
  <1> SUFFICES ASSUME RInv, BInv, RInv', BInv', [Next]_vars PROVE [Channel!Next]_(Channel!vars)
    OBVIOUS
  <1>1. CASE UNCHANGED vars
    BY <1>1 DEF vars, Channel!vars, InRing, Window, Leased
  <1>2. CASE Next
    BY <1>2, StepsImplement DEF Next
  <1> QED
    BY <1>1, <1>2

(* The ring keeps the promise of the channel: what an observer consumes is *)
(* a prefix of its own body, at most Size bytes behind what was put in,    *)
(* for every size, every body and every interleaving of ring.go's loads,   *)
(* copies and stores.                                                      *)
THEOREM RingKeepsPromise == Spec => Promise
  <1> QED
    BY InitImplements, NextImplements, RingBytes, PTL DEF Spec, Promise, Channel!Spec
=============================================================================
