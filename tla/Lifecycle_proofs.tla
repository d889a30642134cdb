--------------------------- MODULE Lifecycle_proofs ---------------------------
(***************************************************************************)
(* Lifecycle: destruction is alone, a lock name stands for one lock, and   *)
(* an exclusion that does not proceed removes only its own files.          *)
(***************************************************************************)
EXTENDS LifecycleInvariant, FiniteSetTheorems, TLAPS

-----------------------------------------------------------------------------
(* What the operators of the model return.                                 *)

(* Of several locks, setup.lock is taken first.                            *)
LEMMA FirstIsOne ==
    ASSUME NEW locks \in SUBSET Locks, locks # {}
    PROVE  /\ First(locks) \in locks
           /\ "setup" \in locks => First(locks) = "setup"
<1>1. \E l \in locks : \A k \in locks : Rank[l] <= Rank[k]
  <2>1. CASE "setup" \in locks  BY <2>1 DEF Locks, Rank
  <2>2. CASE "setup" \notin locks /\ "connect" \in locks  BY <2>2 DEF Locks, Rank
  <2>3. CASE locks \cap {"setup", "connect"} = {} /\ "flush" \in locks  BY <2>3 DEF Locks, Rank
  <2>4. CASE locks = {"update"}  BY <2>4 DEF Rank
  <2> QED BY <2>1, <2>2, <2>3, <2>4 DEF Locks
<1>2. First(locks) \in locks /\ \A k \in locks : Rank[First(locks)] <= Rank[k]
  BY <1>1 DEF First
<1>3. ASSUME "setup" \in locks PROVE First(locks) = "setup"
  <2>1. Rank[First(locks)] <= 1 /\ First(locks) \in Locks
    BY <1>2, <1>3 DEF Rank
  <2> QED BY <2>1 DEF Locks, Rank
<1> QED BY <1>2, <1>3

LEMMA LastIsOne ==
    ASSUME NEW locks \in SUBSET Locks, locks # {}
    PROVE  Last(locks) \in locks
<1>1. \E l \in locks : \A k \in locks : Rank[l] >= Rank[k]
  <2>1. CASE "update" \in locks  BY <2>1 DEF Locks, Rank
  <2>2. CASE "update" \notin locks /\ "flush" \in locks  BY <2>2 DEF Locks, Rank
  <2>3. CASE locks \cap {"update", "flush"} = {} /\ "connect" \in locks  BY <2>3 DEF Locks, Rank
  <2>4. CASE locks = {"setup"}  BY <2>4 DEF Rank
  <2> QED BY <2>1, <2>2, <2>3, <2>4 DEF Locks
<1> QED BY <1>1 DEF Last

LEMMA PurgeNextIsOne ==
    ASSUME NEW locks \in SUBSET PurgeSet, locks # {}
    PROVE  PurgeNext(locks) \in locks
<1>1. CASE locks = {"setup"}  BY <1>1 DEF PurgeNext
<1>2. CASE locks # {"setup"}
  <2>1. locks \ {"setup"} \in SUBSET Locks /\ locks \ {"setup"} # {}
    BY <1>2 DEF PurgeSet, Locks
  <2> QED BY <2>1, <1>2, FirstIsOne DEF PurgeNext
<1> QED BY <1>1, <1>2

(* A process uses at most one file of each name, so a number is left.      *)
LEMMA FreshIsFile ==
    ASSUME TypeOK, NEW l \in Locks, \A p \in Processes : AnyAt(p)
    PROVE  FreshFile(l) \in Files
<1> DEFINE Used(p) == IF Holds(p, l) THEN proc[p].held[l] ELSE Opened(p, l)
           N == Cardinality(Processes)
<1>1. IsFiniteSet(Processes) /\ N \in Nat
  BY KindsAssumption, FS_CardinalityType
<1>2. InUse(l) \subseteq {Used(p) : p \in Processes} \cup {NoFile}
  <2> SUFFICES ASSUME NEW p \in Processes
               PROVE  {proc[p].held[l], Opened(p, l)} \subseteq {Used(p), NoFile}
    BY DEF InUse
  <2>1. CASE Holds(p, l)
    <3>1. Opened(p, l) = NoFile
      <4> SUFFICES ASSUME proc[p].step = "flock", l = Trying(p) PROVE FALSE
        BY DEF Opened
      <4>1. proc[p].todo \in SUBSET Locks /\ proc[p].todo # {} /\ l \notin proc[p].todo
        BY <2>1 DEF TypeOK, Memory, AnyAt, Holding, Holds
      <4> QED BY <4>1, FirstIsOne DEF Trying
    <3> QED BY <2>1, <3>1
  <2>2. CASE ~Holds(p, l)
    BY <2>2 DEF Holds
  <2> QED BY <2>1, <2>2
<1> DEFINE Images == {Used(p) : p \in Processes}
<1>3. IsFiniteSet(Images) /\ Cardinality(Images) <= N
  <2> DEFINE use == [p \in Processes |-> Used(p)]
  <2>1. use \in Surjection(Processes, Images)
    BY DEF Surjection
  <2> QED BY <1>1, <2>1, FS_Surjection
<1>4. IsFiniteSet(Files) /\ Cardinality(Files) = N + 1
  BY <1>1, FS_Interval DEF Files
<1>5. ~(Files \subseteq Images)
  <2> SUFFICES ASSUME Files \subseteq Images PROVE FALSE
    OBVIOUS
  <2>1. Cardinality(Files) <= Cardinality(Images)
    BY <1>3, FS_Subset
  <2>2. Cardinality(Images) \in Nat
    BY <1>3, FS_CardinalityType
  <2> QED BY <1>1, <1>3, <1>4, <2>1, <2>2
<1>6. NoFile \notin Files
  BY DEF NoFile, Files
<1>7. \E file \in Files \ InUse(l) : TRUE
  BY <1>2, <1>5, <1>6
<1> QED BY <1>7 DEF FreshFile

(* Each process is of one kind.                                            *)
LEMMA Kinds ==
    /\ Nobody \notin Processes
    /\ \A p \in Processes : p \in Ordinary <=> p \notin Destructive
    /\ \A p \in Destructive : p \in Gated /\ p \in Processes
    /\ \A p \in Destructive : p \in Uninstalls <=> p \notin Upgrades
    /\ \A p \in Setups : p \notin Connects \cup Flushes \cup Upgrades \cup Uninstalls /\ p \in Gated \cap Ordinary
    /\ \A p \in Connects : p \notin Setups \cup Flushes \cup Upgrades \cup Uninstalls /\ p \in Gated \cap Ordinary
    /\ \A p \in Flushes : p \notin Setups \cup Connects \cup Upgrades \cup Uninstalls /\ p \in Ordinary
    /\ \A p \in Upgrades : p \notin Setups \cup Connects \cup Flushes \cup Uninstalls /\ p \in Destructive
    /\ \A p \in Uninstalls : p \notin Setups \cup Connects \cup Flushes \cup Upgrades /\ p \in Destructive
    /\ \A p \in Ordinary : p \in Setups \/ p \in Connects \/ p \in Flushes
BY KindsAssumption DEF Processes, Ordinary, Destructive, Gated, Ungated

LEMMA WantedLocks ==
    ASSUME NEW p \in Processes, NEW goals \in SUBSET Goals
    PROVE  /\ Wanted(p, goals) \in SUBSET Locks
           /\ p \in Destructive => "setup" \in Wanted(p, goals)
           /\ p \in Upgrades => "update" \in Wanted(p, goals)
           /\ p \in Uninstalls /\ goals # {} => "connect" \in Wanted(p, goals) /\ "flush" \in Wanted(p, goals)
           /\ p \in Uninstalls /\ "binary" \in goals => "update" \in Wanted(p, goals)
           /\ p \in Setups => Wanted(p, goals) = {"setup"}
           /\ p \in Connects => Wanted(p, goals) = {"connect"}
           /\ p \in Flushes => Wanted(p, goals) = {"flush"}
<1>1. CASE p \in Setups  BY <1>1, Kinds DEF Wanted, Locks
<1>2. CASE p \in Connects  BY <1>2, Kinds DEF Wanted, Locks
<1>3. CASE p \in Flushes  BY <1>3, Kinds DEF Wanted, Locks
<1>4. CASE p \in Upgrades  BY <1>4, Kinds DEF Wanted, Locks, Destructive
<1>5. CASE p \in Uninstalls  BY <1>5, Kinds DEF Wanted, Locks, Destructive
<1> QED BY <1>1, <1>2, <1>3, <1>4, <1>5, Kinds

-----------------------------------------------------------------------------
(* What a step of one process leaves to the others.                        *)

LEMMA OthersStay ==
    ASSUME TypeOK, NEW p \in Processes, NEW m \in Memory, Set(p, m)
    PROVE  /\ proc' \in [Processes -> Memory]
           /\ proc'[p] = m
           /\ \A q \in Processes \ {p} :
                /\ proc'[q] = proc[q]
                /\ Stands(q) => Stands(q)'
                /\ PastGate(q)' <=> PastGate(q)
                /\ Cleared(q)' = Cleared(q)
                /\ \A l \in Locks : Opened(q, l)' = Opened(q, l) /\ (Holds(q, l)' <=> Holds(q, l))
<1>1. /\ proc' \in [Processes -> Memory]
      /\ proc'[p] = m
      /\ \A q \in Processes \ {p} : proc'[q] = proc[q]
  BY DEF Set, TypeOK
<1> SUFFICES ASSUME NEW q \in Processes, q # p
             PROVE  /\ Stands(q) => Stands(q)'
                    /\ PastGate(q)' <=> PastGate(q)
                    /\ Cleared(q)' = Cleared(q)
                    /\ \A l \in Locks : Opened(q, l)' = Opened(q, l) /\ (Holds(q, l)' <=> Holds(q, l))
  BY <1>1
<1>2. proc'[q] = proc[q]
  BY <1>1
<1>3. Holding(q)' = Holding(q) /\ Trying(q)' = Trying(q)
  BY <1>2 DEF Holding, Trying
<1>4. PastGate(q)' <=> PastGate(q)
  BY <1>2, <1>3 DEF PastGate
<1>5. Cleared(q)' = Cleared(q)
  BY <1>2, <1>3 DEF Cleared
<1>6. \A l \in Locks : Opened(q, l)' = Opened(q, l) /\ (Holds(q, l)' <=> Holds(q, l))
  BY <1>2, <1>3 DEF Opened, Holds
<1>7. Stands(q) => Stands(q)'
  BY <1>2, <1>3 DEF Stands, AnyAt, OrdinaryAt, DestructiveAt
<1> QED BY <1>4, <1>5, <1>6, <1>7

(* A step keeps the invariant if the process that takes it is in order     *)
(* afterwards, locks no file that is locked, gives no name another file    *)
(* while somebody past the gate uses it, and takes no lock that the gate's *)
(* holder has made its own.                                                *)
LEMMA StepKeeps ==
    ASSUME IInv, NEW p \in Processes, NEW m \in Memory, Set(p, m),
           named' \in [Locks -> Files \cup {NoFile}], stateDir' \in BOOLEAN, binary' \in BOOLEAN,
           gate' = gate \/ {gate, gate'} \subseteq {p, Nobody},
           InStateDir', Stands(p)', GateIsHeld(p)', Named(p)', Exclusive(p)',
           \A l \in Locks : \/ m.held[l] \in {proc[p].held[l], NoFile}
                            \/ ~Locked(l, m.held[l]),
           \A l \in Locks : \/ named'[l] = named[l]
                            \/ \A q \in Gated \ {p} : ~Holds(q, l) /\ Opened(q, l) = NoFile,
           \A q \in Destructive \ {p} : gate = q /\ p \in Gated =>
               \A l \in Cleared(q) : m.held[l] # NoFile => Holds(p, l)
    PROVE  IInv'
<1>1. TypeOK
  BY DEF IInv
<1>2. /\ proc' \in [Processes -> Memory]
      /\ proc'[p] = m
      /\ \A q \in Processes \ {p} :
           /\ proc'[q] = proc[q]
           /\ Stands(q) => Stands(q)'
           /\ PastGate(q)' <=> PastGate(q)
           /\ Cleared(q)' = Cleared(q)
           /\ \A l \in Locks : Opened(q, l)' = Opened(q, l) /\ (Holds(q, l)' <=> Holds(q, l))
  BY <1>1, OthersStay
<1>3. TypeOK'
  BY <1>1, <1>2 DEF TypeOK
<1>4. LockedOnce'
  <2> SUFFICES ASSUME NEW l \in Locks, NEW q \in Processes, NEW r \in Processes,
                      proc'[q].held[l] # NoFile, proc'[q].held[l] = proc'[r].held[l]
               PROVE  q = r
    BY DEF LockedOnce, Holds
  <2>1. \A x, y \in Processes :
           proc[x].held[l] # NoFile /\ proc[x].held[l] = proc[y].held[l] => x = y
    BY DEF IInv, LockedOnce, Holds
  <2>2. \A x \in Processes : ~Locked(l, m.held[l]) => proc[x].held[l] # m.held[l]
    BY DEF Locked
  <2> QED BY <1>2, <2>1, <2>2
<1>5. ASSUME NEW q \in Processes, q # p
      PROVE  Stands(q)' /\ GateIsHeld(q)' /\ Named(q)' /\ Exclusive(q)'
  <2>1. Stands(q) /\ GateIsHeld(q) /\ Named(q) /\ Exclusive(q)
    BY DEF IInv
  <2>2. gate' = q <=> gate = q
    BY <1>5, Kinds
  <2>3. GateIsHeld(q)'
    BY <1>2, <1>5, <2>1, <2>2 DEF GateIsHeld
  <2>4. Named(q)'
    BY <1>2, <1>5, <2>1 DEF Named, Holds
  <2>5. Exclusive(q)'
    <3> SUFFICES ASSUME q \in Destructive, gate = q, NEW l \in Cleared(q), NEW r \in Gated \ {q}
                 PROVE  ~Holds(r, l)'
      BY <1>2, <1>5, <2>2 DEF Exclusive
    <3>1. ~Holds(r, l)
      BY <2>1 DEF Exclusive
    <3>2. r \in Processes
      BY DEF Gated
    <3>3. CASE r = p
      BY <1>2, <3>1, <3>3 DEF Holds
    <3>4. CASE r # p
      BY <1>2, <3>1, <3>2, <3>4 DEF Holds
    <3> QED BY <3>3, <3>4
  <2> QED BY <1>2, <1>5, <2>1, <2>3, <2>4, <2>5
<1> QED BY <1>3, <1>4, <1>5 DEF IInv

(* The gate's holder is through with setup.lock before any other.          *)
LEMMA SetupFirst ==
    ASSUME IInv, NEW p \in Destructive, Cleared(p) # {}, proc[p].step # "idle"
    PROVE  "setup" \in Cleared(p) /\ Cleared(p) \subseteq Locks
<1>1. /\ p \in Processes /\ Stands(p) /\ DestructiveAt(p)
      /\ proc[p] \in Memory /\ proc[p].goals \in SUBSET Goals
  BY Kinds DEF IInv, Stands, TypeOK, Memory
<1>2. /\ Wanted(p, proc[p].goals) \in SUBSET Locks
      /\ "setup" \in Wanted(p, proc[p].goals)
  BY <1>1, WantedLocks
<1>3. Holding(p) \cup proc[p].created \subseteq Locks /\ "setup" \in Locks
  BY <1>1 DEF Holding, Memory, Locks
<1>4. CASE proc[p].step \in {"open", "flock"}
  BY <1>1, <1>2, <1>4 DEF Cleared, DestructiveAt
<1>5. CASE proc[p].step = "release"
  BY <1>3, <1>5 DEF Cleared
<1>6. CASE proc[p].step \notin {"open", "flock", "release"}
  BY <1>2, <1>6 DEF Cleared
<1> QED BY <1>4, <1>5, <1>6

(* Nobody else past the gate uses a lock its holder has made its own: not  *)
(* even a setup that goes for connect.lock, which it does only while it    *)
(* holds setup.lock.                                                       *)
LEMMA OthersAreOut ==
    ASSUME IInv, NEW p \in Destructive, gate = p, NEW l \in Cleared(p), NEW q \in Gated \ {p}
    PROVE  /\ ~Holds(q, l)
           /\ Opened(q, l) = NoFile
<1>1. p \in Processes /\ q \in Processes
  BY Kinds DEF Gated
<1>2. /\ Exclusive(p) /\ GateIsHeld(p) /\ GateIsHeld(q) /\ Stands(q) /\ TypeOK
  BY <1>1 DEF IInv
<1>3. proc[p].step # "idle"
  BY <1>2 DEF GateIsHeld, PastGate
<1>4. "setup" \in Cleared(p)
  BY <1>3, SetupFirst
<1>5. ~Holds(q, l) /\ ~Holds(q, "setup")
  BY <1>2, <1>4 DEF Exclusive
<1>6. proc[q].step # "flock"
  <2> SUFFICES ASSUME proc[q].step = "flock" PROVE FALSE
    OBVIOUS
  <2>1. ~PastGate(q)
    BY <1>2 DEF GateIsHeld
  <2>2. q \in Ordinary /\ Holding(q) # {}
    BY <2>1, <1>1, Kinds DEF PastGate
  <2>3. "setup" \in Holding(q)
    BY <1>2, <2>2 DEF Stands, OrdinaryAt
  <2> QED BY <1>5, <2>3 DEF Holding, Holds
<1> QED BY <1>5, <1>6 DEF Opened

(* A step that opens, locks and names nothing keeps the invariant if the   *)
(* process that takes it is in order afterwards and makes no further lock  *)
(* its own.                                                                *)
LEMMA QuietStep ==
    ASSUME IInv, NEW p \in Processes, NEW m \in Memory, Set(p, m),
           UNCHANGED <<named, stateDir>>, binary' \in BOOLEAN,
           gate' = gate \/ {gate, gate'} \subseteq {p, Nobody},
           m.step # "flock", Stands(p)', GateIsHeld(p)',
           \A l \in Locks : m.held[l] \in {proc[p].held[l], NoFile},
           p \in Destructive /\ gate' = p =>
               Cleared(p)' = {} \/ (gate = p /\ Cleared(p)' \subseteq Cleared(p))
    PROVE  IInv'
<1>1. TypeOK /\ InStateDir /\ Named(p) /\ Exclusive(p)
  BY DEF IInv
<1>2. /\ proc'[p] = m
      /\ \A q \in Processes \ {p} : \A l \in Locks : Holds(q, l)' <=> Holds(q, l)
  BY <1>1, OthersStay
<1>3. named' \in [Locks -> Files \cup {NoFile}] /\ stateDir' \in BOOLEAN /\ InStateDir'
  BY <1>1 DEF TypeOK, InStateDir
<1>4. Named(p)'
  BY <1>1, <1>2 DEF Named, Holds, Opened
<1>5. Exclusive(p)'
  <2> SUFFICES ASSUME p \in Destructive, gate' = p, NEW l \in Cleared(p)', NEW q \in Gated \ {p}
               PROVE  ~Holds(q, l)'
    BY DEF Exclusive
  <2>1. gate = p /\ l \in Cleared(p)
    OBVIOUS
  <2>2. ~Holds(q, l)
    BY <1>1, <2>1 DEF Exclusive
  <2>3. l \in Locks /\ q \in Processes
    <3>1. GateIsHeld(p)
      BY DEF IInv
    <3>2. proc[p].step # "idle"
      BY <2>1, <3>1 DEF GateIsHeld, PastGate
    <3> QED BY <2>1, <3>2, SetupFirst DEF Gated
  <2> QED BY <1>2, <2>2, <2>3
<1>6. \A l \in Locks : m.held[l] # NoFile => Holds(p, l)
  BY DEF Holds
<1>7. \A q \in Destructive \ {p} : gate = q /\ p \in Gated =>
         \A l \in Cleared(q) : m.held[l] # NoFile => Holds(p, l)
  <2> SUFFICES ASSUME NEW q \in Destructive, gate = q, NEW l \in Cleared(q)
               PROVE  l \in Locks
    BY <1>6
  <2>1. GateIsHeld(q)
    BY Kinds DEF IInv
  <2>2. proc[q].step # "idle"
    BY <2>1 DEF GateIsHeld, PastGate
  <2> QED BY <2>2, SetupFirst
<1> QED BY <1>3, <1>4, <1>5, <1>7, StepKeeps

(* What is known of the process that takes a step.                         *)
LEMMA Self ==
    ASSUME IInv, NEW p \in Processes
    PROVE  /\ proc[p] \in Memory /\ Stands(p) /\ GateIsHeld(p) /\ Named(p)
           /\ TypeOK /\ gate \in Processes \cup {Nobody} /\ binary \in BOOLEAN
           /\ Idle \in Memory
BY DEF IInv, TypeOK, Idle, Memory, Steps

LEMMA BackToIdle ==
    ASSUME IInv, NEW p \in Processes, Set(p, Idle), UNCHANGED <<named, stateDir, binary>>,
           gate' # p, gate' = gate \/ {gate, gate'} \subseteq {p, Nobody}
    PROVE  IInv'
<1>1. TypeOK /\ Idle \in Memory /\ binary' \in BOOLEAN
  BY Self
<1>2. proc'[p] = Idle
  BY <1>1, OthersStay
<1>3. Holding(p)' = {}
  BY <1>2 DEF Holding, Idle
<1>4. Stands(p)'
  BY <1>2, <1>3 DEF Stands, AnyAt, OrdinaryAt, DestructiveAt, Idle
<1>5. GateIsHeld(p)'
  BY <1>2 DEF GateIsHeld, PastGate, Idle
<1>6. \A l \in Locks : Idle.held[l] \in {proc[p].held[l], NoFile}
  BY DEF Idle
<1>7. Idle.step # "flock"
  BY DEF Idle
<1> QED BY <1>1, <1>4, <1>5, <1>6, <1>7, QuietStep

-----------------------------------------------------------------------------
(* One lemma per action.                                                   *)

LEMMA BeginKeeps ==
    ASSUME IInv, NEW p \in Processes, Begin(p)
    PROVE  IInv'
<1>1. /\ TypeOK /\ Stands(p) /\ GateIsHeld(p) /\ Idle \in Memory /\ binary' \in BOOLEAN
      /\ gate # p
  BY Self DEF Begin, GateIsHeld, PastGate
<1>2. PICK goals \in SUBSET Goals :
         /\ Set(p, [Idle EXCEPT !.goals = goals, !.todo = Wanted(p, goals),
                                !.step = IF p \in Ungated THEN "open" ELSE "gate"])
         /\ p \notin Uninstalls => goals = {}
  BY DEF Begin
<1> DEFINE m == [Idle EXCEPT !.goals = goals, !.todo = Wanted(p, goals),
                             !.step = IF p \in Ungated THEN "open" ELSE "gate"]
<1>3. Wanted(p, goals) \in SUBSET Locks
  BY WantedLocks
<1>4. /\ m \in Memory /\ m.held = [l \in Locks |-> NoFile] /\ m.created = {} /\ m.goals = goals
      /\ m.todo = Wanted(p, goals) /\ m.step = IF p \in Ungated THEN "open" ELSE "gate"
  BY <1>1, <1>3 DEF Idle, Memory, Steps
<1> HIDE DEF m
<1>5. proc'[p] = m
  BY <1>1, <1>2, <1>4, OthersStay DEF m
<1>6. Holding(p)' = {}
  BY <1>4, <1>5 DEF Holding
<1>7. Stands(p)'
  <2>1. AnyAt(p)'
    BY <1>4, <1>5, <1>6, WantedLocks, Kinds, KindsAssumption DEF AnyAt, Gated, Ungated
  <2>2. p \in Ordinary => OrdinaryAt(p)'
    BY <1>4, <1>5, <1>6, WantedLocks, Kinds DEF OrdinaryAt
  <2>3. p \in Destructive => DestructiveAt(p)'
    BY <1>2, <1>4, <1>5, <1>6, Kinds DEF DestructiveAt, Gated
  <2> QED BY <2>1, <2>2, <2>3 DEF Stands
<1>8. gate' = gate /\ GateIsHeld(p)'
  BY <1>1, <1>4, <1>5 DEF GateIsHeld, PastGate, Gated, Begin
<1>9. Set(p, m) /\ m.step # "flock" /\ UNCHANGED <<named, stateDir>>
  BY <1>2, <1>4 DEF m, Begin
<1>10. \A l \in Locks : m.held[l] \in {proc[p].held[l], NoFile}
  BY <1>4
<1> QED BY <1>1, <1>4, <1>7, <1>8, <1>9, <1>10, QuietStep

LEMMA PassGateKeeps ==
    ASSUME IInv, NEW p \in Processes, PassGate(p)
    PROVE  IInv'
<1> DEFINE m == [proc[p] EXCEPT !.step = "open"]
<1>1. /\ TypeOK /\ Stands(p) /\ GateIsHeld(p) /\ proc[p] \in Memory /\ binary' \in BOOLEAN
      /\ gate' = p /\ gate = Nobody /\ Set(p, m) /\ UNCHANGED <<named, stateDir>>
      /\ proc[p].step = "gate"
  BY Self DEF PassGate, Goto
<1>2. /\ m \in Memory /\ m.held = proc[p].held /\ m.created = proc[p].created /\ m.goals = proc[p].goals
      /\ m.todo = proc[p].todo /\ m.step = "open"
  BY <1>1 DEF Memory, Steps
<1> HIDE DEF m
<1>3. proc'[p] = m
  BY <1>1, <1>2, OthersStay
<1>4. Holding(p) = {} /\ Holding(p)' = {} /\ proc[p].created = {}
  BY <1>1, <1>2, <1>3 DEF Holding, Stands, AnyAt
<1>5. Wanted(p, proc[p].goals) # {}
  BY <1>1, WantedLocks, Kinds DEF Memory
<1>6. Stands(p)'
  <2>1. AnyAt(p)'
    BY <1>1, <1>2, <1>3, <1>4, <1>5, Kinds DEF AnyAt, Stands, OrdinaryAt, DestructiveAt
  <2>2. p \in Ordinary => OrdinaryAt(p)'
    BY <1>1, <1>2, <1>3, <1>4 DEF OrdinaryAt, Stands
  <2>3. p \in Destructive => DestructiveAt(p)'
    BY <1>1, <1>2, <1>3, <1>4 DEF DestructiveAt, Stands
  <2> QED BY <2>1, <2>2, <2>3 DEF Stands
<1>7. p \in Gated
  BY <1>1 DEF Stands, AnyAt
<1>8. GateIsHeld(p)'
  BY <1>1, <1>2, <1>3, <1>4, <1>7, Kinds DEF GateIsHeld, PastGate
<1>9. p \in Destructive => Cleared(p)' = {}
  BY <1>1, <1>2, <1>3 DEF Stands, DestructiveAt, Cleared
<1> QED BY <1>1, <1>2, <1>6, <1>8, <1>9, QuietStep

LEMMA RefusedAtGateKeeps ==
    ASSUME IInv, NEW p \in Processes, RefusedAtGate(p)
    PROVE  IInv'
<1>1. gate # p
  BY Self DEF RefusedAtGate, GateIsHeld, PastGate
<1> QED BY <1>1, BackToIdle DEF RefusedAtGate

LEMMA LockAbsentKeeps ==
    ASSUME IInv, NEW p \in Processes, LockAbsent(p)
    PROVE  IInv'
<1>1. gate # p
  BY Self DEF LockAbsent, GateIsHeld, PastGate, Gated, Ungated
<1> QED BY <1>1, BackToIdle DEF LockAbsent

LEMMA FinishKeeps ==
    ASSUME IInv, NEW p \in Processes, Finish(p)
    PROVE  IInv'
<1>1. gate # p
  BY Self, Kinds DEF Finish, GateIsHeld, PastGate, Stands, DestructiveAt
<1> QED BY <1>1, BackToIdle DEF Finish

LEMMA ReleaseGateKeeps ==
    ASSUME IInv, NEW p \in Processes, ReleaseGate(p)
    PROVE  IInv'
BY Kinds, BackToIdle DEF ReleaseGate

LEMMA KillKeeps ==
    ASSUME IInv, NEW p \in Processes, Kill(p)
    PROVE  IInv'
BY Kinds, BackToIdle DEF Kill

(* Past its locks, a destructive operation keeps the invariant as long as  *)
(* it only lets go of locks, and names anew only what has no file or what  *)
(* it has made its own and let go of.                                      *)
Working == {"decide", "apply", "purge", "remove", "replace", "replacing"}

LEMMA DestructiveStep ==
    ASSUME IInv, NEW p \in Destructive, NEW m \in Memory, Set(p, m), gate' = gate,
           named' \in [Locks -> Files \cup {NoFile}], stateDir' \in BOOLEAN, binary' \in BOOLEAN,
           InStateDir',
           proc[p].step \in Working \cup {"release"},
           m.step \in IF p \in Upgrades THEN {"replace", "replacing", "release"}
                      ELSE {"decide", "apply", "purge", "remove", "release"},
           proc[p].step = "release" => m.step = "release",
           m.goals = proc[p].goals, m.created \subseteq proc[p].created,
           m.step = "purge" => "state" \in m.goals /\ m.todo # {} /\ m.todo \subseteq PurgeSet,
           m.step = "remove" => "binary" \in m.goals,
           \A l \in Locks : m.held[l] \in {proc[p].held[l], NoFile},
           \A l \in Locks : \/ named'[l] = named[l] \/ named[l] = NoFile
                            \/ l \in Cleared(p) /\ m.held[l] = NoFile
    PROVE  IInv'
<1>1. p \in Processes /\ p \in Gated /\ p \notin Ordinary
  BY Kinds
<1>2. TypeOK /\ Stands(p) /\ GateIsHeld(p) /\ Named(p) /\ Exclusive(p)
  BY <1>1, Self DEF IInv
<1>3. /\ proc'[p] = m
      /\ \A q \in Processes \ {p} : \A l \in Locks : Holds(q, l)' <=> Holds(q, l)
  BY <1>1, <1>2, OthersStay
<1>4. Holding(p)' \subseteq Holding(p)
  BY <1>3 DEF Holding
<1>5. /\ proc[p].step \notin {"idle", "gate", "open", "flock"}
      /\ m.step \notin {"idle", "gate", "open", "flock"}
  BY DEF Working
<1>6. gate = p /\ GateIsHeld(p)'
  BY <1>1, <1>2, <1>3, <1>5 DEF GateIsHeld, PastGate
<1>7. proc[p].step # "release" => Holding(p) \cup proc[p].created \subseteq Wanted(p, proc[p].goals)
  BY <1>1, <1>2 DEF Stands, DestructiveAt, Working
<1>8. Stands(p)'
  <2>1. p \in Upgrades => m.goals = {}
    BY <1>1, <1>2 DEF Stands, DestructiveAt
  <2> QED BY <1>1, <1>3, <1>4, <1>5, <1>7, <2>1 DEF Stands, AnyAt, DestructiveAt
<1>9. Cleared(p)' \subseteq Cleared(p)
  <2>1. CASE m.step # "release"
    BY <1>3, <1>5, <2>1 DEF Cleared
  <2>2. CASE m.step = "release" /\ proc[p].step = "release"
    BY <1>3, <1>4, <2>2 DEF Cleared
  <2>3. CASE m.step = "release" /\ proc[p].step # "release"
    <3>1. "setup" \in Wanted(p, proc[p].goals)
      BY <1>1, <1>2, WantedLocks DEF TypeOK, Memory
    <3> QED BY <1>3, <1>4, <1>5, <1>7, <2>3, <3>1 DEF Cleared
  <2> QED BY <2>1, <2>2, <2>3
<1>10. Cleared(p) # {} => Cleared(p) \subseteq Locks
  BY <1>5, SetupFirst
<1>11. Exclusive(p)'
  BY <1>2, <1>3, <1>6, <1>9, <1>10 DEF Exclusive, Gated
<1>12. Named(p)'
  <2> SUFFICES ASSUME NEW l \in Locks, m.held[l] # NoFile PROVE named'[l] = m.held[l]
    BY <1>3, <1>5 DEF Named, Holds, Opened
  <2> QED BY <1>1, <1>2 DEF Named, Holds
<1>13. \A l \in Locks : \/ named'[l] = named[l]
                        \/ \A q \in Gated \ {p} : ~Holds(q, l) /\ Opened(q, l) = NoFile
  <2> SUFFICES ASSUME NEW l \in Locks, named[l] = NoFile \/ l \in Cleared(p), NEW q \in Gated \ {p}
               PROVE  ~Holds(q, l) /\ Opened(q, l) = NoFile
    OBVIOUS
  <2>1. CASE named[l] = NoFile
    <3>1. q \in Processes /\ Named(q)
      BY DEF Gated, IInv
    <3> QED BY <2>1, <3>1 DEF Named, Holds
  <2>2. CASE l \in Cleared(p)
    BY <1>6, <2>2, OthersAreOut
  <2> QED BY <2>1, <2>2
<1>14. \A q \in Destructive \ {p} : gate # q
  BY <1>6
<1> QED BY <1>1, <1>8, <1>6, <1>11, <1>12, <1>13, <1>14, StepKeeps

LEMMA DecideKeeps ==
    ASSUME IInv, NEW p \in Processes, Decide(p)
    PROVE  IInv'
<1>1. p \in Destructive /\ p \notin Upgrades
  BY Self, Kinds DEF Decide, Stands, OrdinaryAt, DestructiveAt
<1>2. /\ proc[p] \in Memory /\ Stands(p) /\ gate' = gate /\ binary' \in BOOLEAN /\ stateDir' \in BOOLEAN
      /\ named' \in [Locks -> Files \cup {NoFile}] /\ InStateDir' /\ named' = named
  BY Self DEF Decide, IInv, TypeOK, InStateDir
<1>3. ASSUME Set(p, [proc[p] EXCEPT !.applied = TRUE, !.step = "apply"]) PROVE IInv'
  <2> DEFINE m == [proc[p] EXCEPT !.applied = TRUE, !.step = "apply"]
  <2>1. /\ m \in Memory /\ m.step = "apply" /\ m.goals = proc[p].goals
        /\ m.created = proc[p].created
        /\ \A l \in Locks : m.held[l] \in {proc[p].held[l], NoFile}
        /\ Set(p, m)
    BY <1>2, <1>3 DEF Memory, Steps, Goto, Decide, Set
  <2>2. /\ proc[p].step \in Working
        /\ m.step = "purge" => "state" \in m.goals /\ m.todo # {} /\ m.todo \subseteq PurgeSet
        /\ m.step = "remove" => "binary" \in m.goals
    BY <1>1, <1>2, <1>3, <2>1 DEF Decide, Working, Stands
  <2> HIDE DEF m
  <2>3. /\ m.step \in IF p \in Upgrades THEN {"replace", "replacing", "release"}
                      ELSE {"decide", "apply", "purge", "remove", "release"}
        /\ proc[p].step # "release"
    BY <1>1, <2>1, <2>2 DEF Working, AfterPurge
  <2> QED BY <1>1, <1>2, <2>1, <2>2, <2>3, DestructiveStep
<1>4. ASSUME Goto(p, "release") PROVE IInv'
  <2> DEFINE m == [proc[p] EXCEPT !.step = "release"]
  <2>1. /\ m \in Memory /\ m.step = "release" /\ m.goals = proc[p].goals
        /\ m.created = proc[p].created
        /\ \A l \in Locks : m.held[l] \in {proc[p].held[l], NoFile}
        /\ Set(p, m)
    BY <1>2, <1>4 DEF Memory, Steps, Goto, Decide, Set
  <2>2. /\ proc[p].step \in Working
        /\ m.step = "purge" => "state" \in m.goals /\ m.todo # {} /\ m.todo \subseteq PurgeSet
        /\ m.step = "remove" => "binary" \in m.goals
    BY <1>1, <1>2, <1>4, <2>1 DEF Decide, Working, Stands
  <2> HIDE DEF m
  <2>3. /\ m.step \in IF p \in Upgrades THEN {"replace", "replacing", "release"}
                      ELSE {"decide", "apply", "purge", "remove", "release"}
        /\ proc[p].step # "release"
    BY <1>1, <2>1, <2>2 DEF Working, AfterPurge
  <2> QED BY <1>1, <1>2, <2>1, <2>2, <2>3, DestructiveStep
<1> QED BY <1>3, <1>4 DEF Decide

LEMMA ApplyKeeps ==
    ASSUME IInv, NEW p \in Processes, Apply(p)
    PROVE  IInv'
<1>1. p \in Destructive /\ p \notin Upgrades
  BY Self, Kinds DEF Apply, Stands, OrdinaryAt, DestructiveAt
<1>2. /\ proc[p] \in Memory /\ Stands(p) /\ gate' = gate /\ binary' \in BOOLEAN /\ stateDir' \in BOOLEAN
      /\ named' \in [Locks -> Files \cup {NoFile}] /\ InStateDir' /\ named' = named
  BY Self DEF Apply, IInv, TypeOK, InStateDir
<1>3. ASSUME "state" \in proc[p].goals PROVE IInv'
  <2> DEFINE m == [proc[p] EXCEPT !.step = "purge", !.todo = PurgeSet]
  <2>1. /\ m \in Memory /\ m.step = "purge" /\ m.goals = proc[p].goals
        /\ m.created = proc[p].created
        /\ \A l \in Locks : m.held[l] \in {proc[p].held[l], NoFile}
        /\ Set(p, m)
    BY <1>2, <1>3 DEF Memory, Steps, Goto, Apply, PurgeSet, Locks
  <2>2. /\ proc[p].step \in Working
        /\ m.step = "purge" => "state" \in m.goals /\ m.todo # {} /\ m.todo \subseteq PurgeSet
        /\ m.step = "remove" => "binary" \in m.goals
    BY <1>1, <1>2, <1>3, <2>1 DEF Apply, Working, PurgeSet
  <2> HIDE DEF m
  <2>3. /\ m.step \in IF p \in Upgrades THEN {"replace", "replacing", "release"}
                      ELSE {"decide", "apply", "purge", "remove", "release"}
        /\ proc[p].step # "release"
    BY <1>1, <2>1, <2>2 DEF Working, AfterPurge
  <2> QED BY <1>1, <1>2, <2>1, <2>2, <2>3, DestructiveStep
<1>4. ASSUME "state" \notin proc[p].goals PROVE IInv'
  <2> DEFINE m == [proc[p] EXCEPT !.step = AfterPurge(proc[p])]
  <2>1. /\ m \in Memory /\ m.step = AfterPurge(proc[p]) /\ m.goals = proc[p].goals
        /\ m.created = proc[p].created
        /\ \A l \in Locks : m.held[l] \in {proc[p].held[l], NoFile}
        /\ Set(p, m)
    BY <1>2, <1>4 DEF Memory, Steps, Goto, Apply, AfterPurge
  <2>2. /\ proc[p].step \in Working
        /\ m.step = "purge" => "state" \in m.goals /\ m.todo # {} /\ m.todo \subseteq PurgeSet
        /\ m.step = "remove" => "binary" \in m.goals
    BY <1>1, <1>2, <1>4, <2>1 DEF Apply, Working, AfterPurge
  <2> HIDE DEF m
  <2>3. /\ m.step \in IF p \in Upgrades THEN {"replace", "replacing", "release"}
                      ELSE {"decide", "apply", "purge", "remove", "release"}
        /\ proc[p].step # "release"
    BY <1>1, <2>1, <2>2 DEF Working, AfterPurge
  <2> QED BY <1>1, <1>2, <2>1, <2>2, <2>3, DestructiveStep
<1> QED BY <1>3, <1>4 DEF Apply

LEMMA PurgeReleaseKeeps ==
    ASSUME IInv, NEW p \in Processes, PurgeRelease(p)
    PROVE  IInv'
<1>1. p \in Destructive /\ p \notin Upgrades
  BY Self, Kinds DEF PurgeRelease, Stands, OrdinaryAt, DestructiveAt
<1>2. /\ proc[p] \in Memory /\ Stands(p) /\ gate' = gate /\ binary' \in BOOLEAN /\ stateDir' \in BOOLEAN
      /\ named' \in [Locks -> Files \cup {NoFile}] /\ InStateDir' /\ named' = named
  BY Self DEF PurgeRelease, IInv, TypeOK, InStateDir
<1>3. ASSUME TRUE PROVE IInv'
  <2> DEFINE m == [proc[p] EXCEPT !.held[PurgeNext(proc[p].todo)] = NoFile]
  <2>1. /\ m \in Memory /\ m.step = "purge" /\ m.goals = proc[p].goals
        /\ m.created = proc[p].created
        /\ \A l \in Locks : m.held[l] \in {proc[p].held[l], NoFile}
        /\ Set(p, m)
    BY <1>2, <1>3 DEF Memory, Steps, Goto, PurgeRelease, Locks
  <2>2. /\ proc[p].step \in Working
        /\ m.step = "purge" => "state" \in m.goals /\ m.todo # {} /\ m.todo \subseteq PurgeSet
        /\ m.step = "remove" => "binary" \in m.goals
    BY <1>1, <1>2, <1>3, <2>1 DEF PurgeRelease, Working, Stands, DestructiveAt
  <2> HIDE DEF m
  <2>3. /\ m.step \in IF p \in Upgrades THEN {"replace", "replacing", "release"}
                      ELSE {"decide", "apply", "purge", "remove", "release"}
        /\ proc[p].step # "release"
    BY <1>1, <2>1, <2>2 DEF Working, AfterPurge
  <2> QED BY <1>1, <1>2, <2>1, <2>2, <2>3, DestructiveStep
<1> QED BY <1>3 DEF PurgeRelease

LEMMA RemoveBinaryKeeps ==
    ASSUME IInv, NEW p \in Processes, RemoveBinary(p)
    PROVE  IInv'
<1>1. p \in Destructive /\ p \notin Upgrades
  BY Self, Kinds DEF RemoveBinary, Stands, OrdinaryAt, DestructiveAt
<1>2. /\ proc[p] \in Memory /\ Stands(p) /\ gate' = gate /\ binary' \in BOOLEAN /\ stateDir' \in BOOLEAN
      /\ named' \in [Locks -> Files \cup {NoFile}] /\ InStateDir' /\ named' = named
  BY Self DEF RemoveBinary, IInv, TypeOK, InStateDir
<1>3. ASSUME Set(p, [proc[p] EXCEPT !.held["update"] = NoFile]) PROVE IInv'
  <2> DEFINE m == [proc[p] EXCEPT !.held["update"] = NoFile]
  <2>1. /\ m \in Memory /\ m.step = "remove" /\ m.goals = proc[p].goals
        /\ m.created = proc[p].created
        /\ \A l \in Locks : m.held[l] \in {proc[p].held[l], NoFile}
        /\ Set(p, m)
    BY <1>2, <1>3 DEF Memory, Steps, Goto, RemoveBinary, Locks
  <2>2. /\ proc[p].step \in Working
        /\ m.step = "purge" => "state" \in m.goals /\ m.todo # {} /\ m.todo \subseteq PurgeSet
        /\ m.step = "remove" => "binary" \in m.goals
    BY <1>1, <1>2, <1>3, <2>1 DEF RemoveBinary, Working, Stands, DestructiveAt
  <2> HIDE DEF m
  <2>3. /\ m.step \in IF p \in Upgrades THEN {"replace", "replacing", "release"}
                      ELSE {"decide", "apply", "purge", "remove", "release"}
        /\ proc[p].step # "release"
    BY <1>1, <2>1, <2>2 DEF Working, AfterPurge
  <2> QED BY <1>1, <1>2, <2>1, <2>2, <2>3, DestructiveStep
<1>4. ASSUME Goto(p, "release") PROVE IInv'
  <2> DEFINE m == [proc[p] EXCEPT !.step = "release"]
  <2>1. /\ m \in Memory /\ m.step = "release" /\ m.goals = proc[p].goals
        /\ m.created = proc[p].created
        /\ \A l \in Locks : m.held[l] \in {proc[p].held[l], NoFile}
        /\ Set(p, m)
    BY <1>2, <1>4 DEF Memory, Steps, Goto, RemoveBinary, Set
  <2>2. /\ proc[p].step \in Working
        /\ m.step = "purge" => "state" \in m.goals /\ m.todo # {} /\ m.todo \subseteq PurgeSet
        /\ m.step = "remove" => "binary" \in m.goals
    BY <1>1, <1>2, <1>4, <2>1 DEF RemoveBinary, Working, Stands
  <2> HIDE DEF m
  <2>3. /\ m.step \in IF p \in Upgrades THEN {"replace", "replacing", "release"}
                      ELSE {"decide", "apply", "purge", "remove", "release"}
        /\ proc[p].step # "release"
    BY <1>1, <2>1, <2>2 DEF Working, AfterPurge
  <2> QED BY <1>1, <1>2, <2>1, <2>2, <2>3, DestructiveStep
<1> QED BY <1>3, <1>4 DEF RemoveBinary

LEMMA ReplacedKeeps ==
    ASSUME IInv, NEW p \in Processes, Replaced(p)
    PROVE  IInv'
<1>1. p \in Destructive /\ p \in Upgrades
  BY Self, Kinds DEF Replaced, Stands, OrdinaryAt, DestructiveAt
<1>2. /\ proc[p] \in Memory /\ Stands(p) /\ gate' = gate /\ binary' \in BOOLEAN /\ stateDir' \in BOOLEAN
      /\ named' \in [Locks -> Files \cup {NoFile}] /\ InStateDir' /\ named' = named
  BY Self DEF Replaced, IInv, TypeOK, InStateDir
<1>3. ASSUME TRUE PROVE IInv'
  <2> DEFINE m == [proc[p] EXCEPT !.step = "release"]
  <2>1. /\ m \in Memory /\ m.step = "release" /\ m.goals = proc[p].goals
        /\ m.created = proc[p].created
        /\ \A l \in Locks : m.held[l] \in {proc[p].held[l], NoFile}
        /\ Set(p, m)
    BY <1>2, <1>3 DEF Memory, Steps, Goto, Replaced, Set
  <2>2. /\ proc[p].step \in Working
        /\ m.step = "purge" => "state" \in m.goals /\ m.todo # {} /\ m.todo \subseteq PurgeSet
        /\ m.step = "remove" => "binary" \in m.goals
    BY <1>1, <1>2, <1>3, <2>1 DEF Replaced, Working, Stands
  <2> HIDE DEF m
  <2>3. /\ m.step \in IF p \in Upgrades THEN {"replace", "replacing", "release"}
                      ELSE {"decide", "apply", "purge", "remove", "release"}
        /\ proc[p].step # "release"
    BY <1>1, <2>1, <2>2 DEF Working, AfterPurge
  <2> QED BY <1>1, <1>2, <2>1, <2>2, <2>3, DestructiveStep
<1> QED BY <1>3 DEF Replaced

LEMMA ReleaseLockKeeps ==
    ASSUME IInv, NEW p \in Processes, ReleaseLock(p)
    PROVE  IInv'
<1> DEFINE m == [proc[p] EXCEPT !.held[Last(Holding(p))] = NoFile]
<1>1. p \in Destructive
  BY Self, Kinds DEF ReleaseLock, Stands, OrdinaryAt
<1>2. /\ proc[p] \in Memory /\ gate' = gate /\ binary' \in BOOLEAN /\ stateDir' \in BOOLEAN
      /\ named' \in [Locks -> Files \cup {NoFile}] /\ InStateDir' /\ named' = named
  BY Self DEF ReleaseLock, IInv, TypeOK, InStateDir
<1>3. Last(Holding(p)) \in Locks
  BY LastIsOne DEF ReleaseLock, Holding
<1>4. /\ m \in Memory /\ m.step = "release" /\ m.goals = proc[p].goals
      /\ m.created = proc[p].created /\ Set(p, m) /\ proc[p].step = "release"
      /\ \A l \in Locks : m.held[l] \in {proc[p].held[l], NoFile}
  BY <1>2, <1>3 DEF Memory, ReleaseLock
<1> HIDE DEF m
<1> QED BY <1>1, <1>2, <1>4, DestructiveStep

LEMMA RemoveCreatedKeeps ==
    ASSUME IInv, NEW p \in Processes, RemoveCreated(p)
    PROVE  IInv'
<1> DEFINE l == Last(proc[p].created)
           m == [proc[p] EXCEPT !.created = @ \ {Last(@)}]
<1>1. p \in Destructive
  BY Self, Kinds DEF RemoveCreated, Stands, OrdinaryAt
<1>2. /\ proc[p] \in Memory /\ gate' = gate /\ binary' \in BOOLEAN /\ stateDir' \in BOOLEAN
      /\ named \in [Locks -> Files \cup {NoFile}] /\ InStateDir
      /\ stateDir' = stateDir /\ named' = [named EXCEPT ![l] = NoFile]
  BY Self DEF RemoveCreated, IInv, TypeOK
<1>3. proc[p].created # {} /\ proc[p].created \in SUBSET Locks
  BY <1>2 DEF RemoveCreated, Undoes, Memory
<1>4. l \in proc[p].created
  BY <1>3, LastIsOne
<1>5. /\ m \in Memory /\ m.step = "release" /\ m.goals = proc[p].goals
      /\ m.created \subseteq proc[p].created /\ Set(p, m) /\ proc[p].step = "release"
      /\ m.held = proc[p].held
  BY <1>2, <1>3 DEF Memory, RemoveCreated
<1>6. l \in Cleared(p)
  BY <1>4, <1>5 DEF Cleared
<1>7. m.held[l] = NoFile
  BY <1>3, <1>4, <1>5 DEF RemoveCreated, Holding
<1> HIDE DEF m, l
<1>8. /\ named' \in [Locks -> Files \cup {NoFile}] /\ InStateDir'
      /\ \A k \in Locks : k # l => named'[k] = named[k]
  BY <1>2 DEF InStateDir, Locks
<1> QED BY <1>1, <1>2, <1>5, <1>6, <1>7, <1>8, DestructiveStep

LEMMA PurgeRemoveKeeps ==
    ASSUME IInv, NEW p \in Processes, PurgeRemove(p)
    PROVE  IInv'
<1> DEFINE l == PurgeNext(proc[p].todo)
           left == proc[p].todo \ {l}
           m == [proc[p] EXCEPT !.todo = left, !.step = IF left # {} THEN @ ELSE AfterPurge(proc[p])]
<1>1. p \in Destructive /\ p \notin Upgrades
  BY Self, Kinds DEF PurgeRemove, Stands, OrdinaryAt, DestructiveAt
<1>2. /\ proc[p] \in Memory /\ gate' = gate /\ binary' \in BOOLEAN
      /\ named \in [Locks -> Files \cup {NoFile}] /\ InStateDir /\ stateDir \in BOOLEAN
      /\ proc[p].step = "purge" /\ Set(p, m) /\ proc[p].held[l] = NoFile
  BY Self DEF PurgeRemove, IInv, TypeOK, Holds
<1>3. /\ proc[p].todo # {} /\ proc[p].todo \subseteq PurgeSet
      /\ "state" \in proc[p].goals
  BY <1>1, <1>2, Self DEF Stands, DestructiveAt
<1>4. l \in PurgeSet
  BY <1>3, PurgeNextIsOne
<1>5. /\ m \in Memory /\ m.goals = proc[p].goals /\ m.created = proc[p].created
      /\ m.held = proc[p].held /\ m.todo = left
      /\ m.step = IF left # {} THEN "purge" ELSE AfterPurge(proc[p])
  BY <1>2 DEF Memory, Steps, AfterPurge
<1>6. l \in Cleared(p)
  <2>1. proc[p].goals \in SUBSET Goals /\ p \in Uninstalls
    BY <1>1, <1>2, Kinds DEF Memory
  <2>2. PurgeSet \subseteq Wanted(p, proc[p].goals)
    BY <1>1, <1>3, <2>1, WantedLocks DEF PurgeSet
  <2> QED BY <1>2, <1>4, <2>2 DEF Cleared
<1>7. /\ named' \in [Locks -> Files \cup {NoFile}] /\ InStateDir' /\ stateDir' \in BOOLEAN
      /\ \A k \in Locks : k # l => named'[k] = named[k]
  <2>1. CASE named' = [named EXCEPT ![l] = NoFile] /\ stateDir' = (stateDir /\ l # "connect")
    BY <1>2, <1>4, <2>1 DEF InStateDir, Locks, PurgeSet
  <2>2. CASE UNCHANGED <<named, stateDir>>
    BY <1>2, <2>2 DEF InStateDir
  <2> QED BY <2>1, <2>2 DEF PurgeRemove
<1> HIDE DEF m, l
<1>8. /\ m.step = "purge" => m.todo # {} /\ m.todo \subseteq PurgeSet
      /\ m.step = "remove" => "binary" \in m.goals
      /\ m.step \in {"purge", "remove", "release"}
  BY <1>3, <1>5 DEF AfterPurge
<1> QED BY <1>1, <1>2, <1>3, <1>5, <1>6, <1>7, <1>8, DestructiveStep DEF Working

LEMMA RemoveUpdateLockKeeps ==
    ASSUME IInv, NEW p \in Processes, RemoveUpdateLock(p)
    PROVE  IInv'
<1> DEFINE m == [proc[p] EXCEPT !.step = "release"]
<1>1. p \in Destructive /\ p \notin Upgrades
  BY Self, Kinds DEF RemoveUpdateLock, Stands, OrdinaryAt, DestructiveAt
<1>2. /\ proc[p] \in Memory /\ gate' = gate /\ binary' \in BOOLEAN /\ stateDir' = stateDir
      /\ named \in [Locks -> Files \cup {NoFile}] /\ InStateDir /\ stateDir \in BOOLEAN
      /\ proc[p].step = "remove" /\ Set(p, m) /\ proc[p].held["update"] = NoFile
      /\ named' = [named EXCEPT !["update"] = NoFile]
  BY Self DEF RemoveUpdateLock, IInv, TypeOK, Holds, Goto
<1>3. "binary" \in proc[p].goals
  BY <1>1, <1>2, Self DEF Stands, DestructiveAt
<1>4. "update" \in Cleared(p)
  BY <1>1, <1>2, <1>3, WantedLocks, Kinds DEF Cleared, Memory
<1>5. /\ m \in Memory /\ m.goals = proc[p].goals /\ m.created = proc[p].created
      /\ m.held = proc[p].held /\ m.step = "release"
  BY <1>2 DEF Memory, Steps
<1>6. /\ named' \in [Locks -> Files \cup {NoFile}] /\ InStateDir'
      /\ \A k \in Locks : k # "update" => named'[k] = named[k]
  BY <1>2 DEF InStateDir, Locks
<1> HIDE DEF m
<1> QED BY <1>1, <1>2, <1>4, <1>5, <1>6, DestructiveStep DEF Working

LEMMA EnsureFlushLockKeeps ==
    ASSUME IInv, NEW p \in Processes, EnsureFlushLock(p)
    PROVE  IInv'
<1>1. PICK step \in {"release", "replacing"} : Goto(p, step)
  BY DEF EnsureFlushLock
<1> DEFINE m == [proc[p] EXCEPT !.step = step]
<1>2. p \in Destructive /\ p \in Upgrades
  BY Self, Kinds DEF EnsureFlushLock, Stands, OrdinaryAt, DestructiveAt
<1>3. /\ proc[p] \in Memory /\ gate' = gate /\ binary' \in BOOLEAN /\ stateDir' = stateDir
      /\ named \in [Locks -> Files \cup {NoFile}] /\ InStateDir /\ stateDir \in BOOLEAN
      /\ proc[p].step = "replace" /\ Set(p, m)
  BY <1>1, Self DEF EnsureFlushLock, IInv, TypeOK, Goto
<1>4. /\ m \in Memory /\ m.goals = proc[p].goals /\ m.created = proc[p].created
      /\ m.held = proc[p].held /\ m.step = step
  BY <1>3 DEF Memory, Steps
<1>5. FreshFile("flush") \in Files
  BY Self, FreshIsFile DEF IInv, Stands, Locks
<1>6. /\ named' \in [Locks -> Files \cup {NoFile}] /\ InStateDir'
      /\ \A k \in Locks : named'[k] = named[k] \/ named[k] = NoFile
  BY <1>3, <1>5 DEF InStateDir, Locks, EnsureFlushLock
<1> HIDE DEF m
<1> QED BY <1>2, <1>3, <1>4, <1>6, DestructiveStep DEF Working

(* Setups that run connect in their own process.                           *)
LEMMA ConnectInProcessKeeps ==
    ASSUME IInv, NEW p \in Processes, ConnectInProcess(p)
    PROVE  IInv'
<1> DEFINE m == [proc[p] EXCEPT !.todo = {"connect"}, !.step = "open"]
<1>1. /\ proc[p] \in Memory /\ gate' = gate /\ binary' \in BOOLEAN /\ TypeOK
      /\ UNCHANGED <<named, stateDir>>
      /\ p \in Setups /\ proc[p].step = "work" /\ Holding(p) = {"setup"} /\ Set(p, m)
  BY Self DEF ConnectInProcess
<1>2. /\ m \in Memory /\ m.created = proc[p].created
      /\ m.held = proc[p].held /\ m.todo = {"connect"} /\ m.step = "open"
  BY <1>1 DEF Memory, Steps, Locks
<1> HIDE DEF m
<1>3. proc'[p] = m /\ Holding(p)' = {"setup"}
  BY <1>1, <1>2, OthersStay DEF Holding
<1>4. p \in Ordinary /\ p \notin Destructive /\ p \in Gated
  BY <1>1, Kinds
<1>5. Stands(p)'
  BY <1>1, <1>2, <1>3, <1>4, Self DEF Stands, AnyAt, OrdinaryAt
<1>6. GateIsHeld(p)'
  BY <1>1, <1>2, <1>3, <1>4, Self DEF GateIsHeld, PastGate
<1> QED BY <1>1, <1>2, <1>4, <1>5, <1>6, QuietStep

LEMMA ConnectReturnsKeeps ==
    ASSUME IInv, NEW p \in Processes, ConnectReturns(p)
    PROVE  IInv'
<1> DEFINE m == [proc[p] EXCEPT !.held["connect"] = NoFile]
<1>1. /\ proc[p] \in Memory /\ gate' = gate /\ binary' \in BOOLEAN /\ TypeOK
      /\ UNCHANGED <<named, stateDir>>
      /\ p \in Setups /\ proc[p].step = "work" /\ Set(p, m) /\ Holds(p, "connect")
  BY Self DEF ConnectReturns
<1>2. /\ m \in Memory /\ m.created = proc[p].created /\ m.step = "work"
      /\ \A l \in Locks : m.held[l] = IF l = "connect" THEN NoFile ELSE proc[p].held[l]
  BY <1>1 DEF Memory, Locks
<1> HIDE DEF m
<1>3. proc'[p] = m /\ Holding(p)' = Holding(p) \ {"connect"}
  BY <1>1, <1>2, OthersStay DEF Holding
<1>4. p \in Ordinary /\ p \notin Destructive /\ p \in Gated
  BY <1>1, Kinds
<1>5. Stands(p)'
  BY <1>1, <1>2, <1>3, <1>4, Self DEF Stands, AnyAt, OrdinaryAt, Holding, Holds
<1>6. GateIsHeld(p)'
  BY <1>1, <1>2, <1>3, <1>4, Self DEF GateIsHeld, PastGate
<1> QED BY <1>1, <1>2, <1>4, <1>5, <1>6, QuietStep

LEMMA BusyKeeps ==
    ASSUME IInv, NEW p \in Processes, Busy(p)
    PROVE  IInv'
<1> DEFINE m == [proc[p] EXCEPT !.opened = NoFile, !.todo = {},
                                !.step = IF p \in Ordinary THEN "work" ELSE "release"]
<1>1. /\ proc[p] \in Memory /\ binary' \in BOOLEAN /\ TypeOK /\ proc[p].step = "flock"
      /\ UNCHANGED <<named, stateDir, binary>> /\ gate' = AfterTry(p)
      /\ Stands(p) /\ GateIsHeld(p)
  BY Self DEF Busy
<1>2. gate' = gate \/ {gate, gate'} \subseteq {p, Nobody}
  BY <1>1 DEF AfterTry
<1>3. CASE p \in Ordinary /\ Holding(p) = {}
  BY <1>1, <1>2, <1>3, BackToIdle, Kinds DEF Busy, AfterTry
<1>4. CASE ~(p \in Ordinary /\ Holding(p) = {})
  <2>1. /\ m \in Memory /\ m.created = proc[p].created /\ m.goals = proc[p].goals
        /\ m.held = proc[p].held /\ m.todo = {}
        /\ m.step = (IF p \in Ordinary THEN "work" ELSE "release") /\ Set(p, m)
    BY <1>1, <1>4 DEF Memory, Steps, Busy, NoFile
  <2> HIDE DEF m
  <2>2. proc'[p] = m /\ Holding(p)' = Holding(p)
    BY <1>1, <2>1, OthersStay DEF Holding
  <2>3. CASE p \in Ordinary
    <3>1. p \notin Destructive
      BY <2>3, Kinds
    <3>2. Stands(p)'
      BY <1>1, <1>4, <2>1, <2>2, <2>3, <3>1 DEF Stands, AnyAt, OrdinaryAt
    <3>3. GateIsHeld(p)'
      BY <1>1, <2>1, <2>2, <2>3, <3>1, Kinds DEF GateIsHeld, PastGate, AfterTry
    <3> QED BY <1>1, <1>2, <2>1, <3>1, <3>2, <3>3, QuietStep
  <2>4. CASE p \notin Ordinary
    <3>1. p \in Destructive /\ gate' = gate
      BY <1>1, <2>4, Kinds DEF AfterTry
    <3>2. Stands(p)'
      BY <1>1, <2>1, <2>2, <3>1, <2>4 DEF Stands, AnyAt, DestructiveAt
    <3>3. gate = p /\ GateIsHeld(p)'
      BY <1>1, <2>1, <2>2, <3>1, <2>4, Kinds DEF GateIsHeld, PastGate
    <3>4. Holding(p) \cup proc[p].created \subseteq Cleared(p)
      BY <1>1, <3>1 DEF Stands, DestructiveAt, Cleared
    <3>5. Cleared(p)' \subseteq Cleared(p)
      BY <1>1, <2>1, <2>2, <2>4, <3>1, <3>4, SetupFirst DEF Cleared
    <3> QED BY <1>1, <1>2, <2>1, <2>4, <3>1, <3>2, <3>3, <3>5, QuietStep
  <2> QED BY <2>3, <2>4
<1> QED BY <1>3, <1>4

(* The lock a process is about to try is one it has yet to take.           *)
LEMMA TryingIsTodo ==
    ASSUME IInv, NEW p \in Processes, proc[p].step \in {"open", "flock"}
    PROVE  /\ Trying(p) \in proc[p].todo /\ Trying(p) \in Locks
           /\ "setup" \in proc[p].todo => Trying(p) = "setup"
           /\ proc[p].held[Trying(p)] = NoFile
           /\ p \in Ordinary => proc[p].todo = {Trying(p)}
<1>1. proc[p] \in Memory /\ Stands(p)
  BY Self
<1>2. proc[p].todo \in SUBSET Locks /\ proc[p].todo # {} /\ proc[p].todo \cap Holding(p) = {}
  BY <1>1 DEF Memory, Stands, AnyAt
<1>3. /\ Trying(p) \in proc[p].todo
      /\ "setup" \in proc[p].todo => Trying(p) = "setup"
  BY <1>2, FirstIsOne DEF Trying
<1>4. p \in Ordinary => \E l \in Locks : proc[p].todo = {l}
  BY <1>1 DEF Stands, OrdinaryAt, Locks
<1> QED BY <1>2, <1>3, <1>4 DEF Holding

(* A lock that no other process past the gate holds may become the gate    *)
(* holder's own.                                                           *)
LEMMA OneMoreCleared ==
    ASSUME IInv, NEW p \in Processes, NEW m \in Memory, Set(p, m), gate' = p => gate = p,
           NEW l \in Locks, p \in Destructive => Cleared(p)' \subseteq Cleared(p) \cup {l},
           \A q \in Gated \ {p} : ~Holds(q, l)
    PROVE  Exclusive(p)'
<1> SUFFICES ASSUME p \in Destructive, gate' = p, NEW k \in Cleared(p)', NEW q \in Gated \ {p}
             PROVE  ~Holds(q, k)'
  BY DEF Exclusive
<1>1. ~Holds(q, k) /\ k \in Locks
  <2>1. CASE k = l  BY <2>1
  <2>2. CASE k # l
    <3>1. k \in Cleared(p) /\ gate = p
      BY <2>2
    <3>2. GateIsHeld(p)
      BY Self
    <3>3. proc[p].step # "idle"
      BY <3>1, <3>2 DEF GateIsHeld, PastGate
    <3> QED BY <3>1, <3>3, OthersAreOut, SetupFirst
  <2> QED BY <2>1, <2>2
<1>2. q \in Processes /\ q # p /\ TypeOK
  BY Self DEF Gated
<1> QED BY <1>1, <1>2, OthersStay

LEMMA SkipLockKeeps ==
    ASSUME IInv, NEW p \in Processes, SkipLock(p)
    PROVE  IInv'
<1> DEFINE m == TakeNext(p, [proc[p] EXCEPT !.todo = @ \ {"connect"}])
<1>1. /\ proc[p] \in Memory /\ gate' = gate /\ binary' \in BOOLEAN /\ TypeOK /\ InStateDir
      /\ UNCHANGED <<named, stateDir>> /\ Stands(p) /\ GateIsHeld(p) /\ Named(p)
      /\ p \in Destructive /\ p \in Gated /\ Set(p, m)
      /\ proc[p].step = "open" /\ Trying(p) = "connect" /\ ~stateDir
  BY Self, Kinds DEF SkipLock, IInv
<1>2. /\ m \in Memory /\ m.created = proc[p].created /\ m.goals = proc[p].goals
      /\ m.held = proc[p].held /\ m.todo = proc[p].todo \ {"connect"}
      /\ m.step = IF m.todo # {} THEN "open" ELSE IF p \in Upgrades THEN "replace" ELSE "decide"
  BY <1>1, Kinds DEF Memory, Steps, TakeNext, Started
<1> HIDE DEF m
<1>3. proc'[p] = m /\ Holding(p)' = Holding(p)
  BY <1>1, <1>2, OthersStay DEF Holding
<1>4. "setup" \notin proc[p].todo /\ "connect" \in proc[p].todo
  BY <1>1, TryingIsTodo
<1>5. Stands(p)'
  BY <1>1, <1>2, <1>3, <1>4, Kinds DEF Stands, AnyAt, DestructiveAt
<1>6. GateIsHeld(p)'
  BY <1>1, <1>2, <1>3 DEF GateIsHeld, PastGate
<1>7. Cleared(p)' \subseteq Cleared(p) \cup {"connect"}
  BY <1>1, <1>2, <1>3 DEF Cleared
<1>8. \A q \in Gated \ {p} : ~Holds(q, "connect")
  <2> SUFFICES ASSUME NEW q \in Gated, Holds(q, "connect") PROVE FALSE
    OBVIOUS
  <2>1. Named(q)
    BY DEF IInv, Gated
  <2>2. named["connect"] # NoFile
    BY <2>1 DEF Named, Holds, Locks
  <2> QED BY <1>1, <2>2 DEF InStateDir
<1>9. "connect" \in Locks
  BY DEF Locks
<1>10. Exclusive(p)'
  BY <1>1, <1>2, <1>7, <1>8, <1>9, OneMoreCleared
<1>11. Named(p)'
  BY <1>1, <1>2, <1>3 DEF Named, Holds, Opened
<1>12. gate = p
  BY <1>1 DEF GateIsHeld, PastGate
<1>13. named' \in [Locks -> Files \cup {NoFile}] /\ stateDir' \in BOOLEAN /\ InStateDir'
  BY <1>1 DEF TypeOK, InStateDir
<1> QED BY <1>1, <1>2, <1>5, <1>6, <1>10, <1>11, <1>12, <1>13, StepKeeps

LEMMA OpenKeeps ==
    ASSUME IInv, NEW p \in Processes, Open(p)
    PROVE  IInv'
<1> DEFINE l == Trying(p)
           file == IF named[l] = NoFile THEN FreshFile(l) ELSE named[l]
           m == [proc[p] EXCEPT !.existed = (named[l] # NoFile), !.opened = file, !.step = "flock"]
<1>1. /\ proc[p] \in Memory /\ gate' = gate /\ binary' \in BOOLEAN /\ TypeOK /\ InStateDir
      /\ Stands(p) /\ GateIsHeld(p) /\ Named(p) /\ Exclusive(p) /\ Set(p, m)
      /\ proc[p].step = "open" /\ named' = [named EXCEPT ![l] = file]
      /\ stateDir' = (stateDir \/ l = "connect") /\ stateDir \in BOOLEAN
      /\ named \in [Locks -> Files \cup {NoFile}]
  BY Self DEF Open, IInv, TypeOK
<1>2. l \in Locks /\ l \in proc[p].todo /\ proc[p].held[l] = NoFile
  BY <1>1, TryingIsTodo
<1>3. file \in Files /\ file # NoFile
  <2>1. FreshFile(l) \in Files
    BY <1>1, <1>2, FreshIsFile DEF IInv, Stands
  <2>2. NoFile \notin Files
    BY DEF NoFile, Files
  <2> QED BY <1>1, <1>2, <2>1, <2>2
<1>4. /\ m \in Memory /\ m.created = proc[p].created /\ m.goals = proc[p].goals
      /\ m.held = proc[p].held /\ m.todo = proc[p].todo /\ m.step = "flock" /\ m.opened = file
  BY <1>1, <1>3 DEF Memory, Steps
<1>5. /\ named' \in [Locks -> Files \cup {NoFile}] /\ stateDir' \in BOOLEAN /\ InStateDir'
      /\ \A k \in Locks : named'[k] = IF k = l THEN file ELSE named[k]
      /\ \A k \in Locks : named'[k] = named[k] \/ named[k] = NoFile
  BY <1>1, <1>2, <1>3 DEF InStateDir, Locks
<1> HIDE DEF m, file, l
<1>6. proc'[p] = m /\ Holding(p)' = Holding(p) /\ Trying(p)' = l
  BY <1>1, <1>4, OthersStay DEF Holding, Trying, l
<1>7. Stands(p)'
  <2>1. AnyAt(p)'
    BY <1>1, <1>3, <1>4, <1>6 DEF Stands, AnyAt
  <2>2. p \in Ordinary => OrdinaryAt(p)'
    BY <1>1, <1>4, <1>6 DEF Stands, OrdinaryAt
  <2>3. p \in Destructive => DestructiveAt(p)'
    BY <1>1, <1>4, <1>6 DEF Stands, DestructiveAt
  <2> QED BY <2>1, <2>2, <2>3 DEF Stands
<1>8. GateIsHeld(p)'
  BY <1>1, <1>4, <1>6 DEF GateIsHeld, PastGate
<1>9. Exclusive(p)'
  <2>1. Cleared(p)' = Cleared(p)
    BY <1>1, <1>4, <1>6 DEF Cleared
  <2>2. ASSUME p \in Destructive, gate = p, NEW k \in Cleared(p), NEW q \in Gated \ {p}
        PROVE  ~Holds(q, k)'
    <3>1. ~Holds(q, k) /\ k \in Locks /\ q \in Processes
      BY <1>1, <2>2, OthersAreOut, SetupFirst DEF Gated
    <3> QED BY <1>1, <1>4, <2>2, <3>1, OthersStay
  <2> QED BY <1>1, <2>1, <2>2 DEF Exclusive
<1>10. Named(p)'
  <2> SUFFICES ASSUME p \in Gated, NEW k \in Locks
               PROVE  /\ proc'[p].held[k] # NoFile => named'[k] = proc'[p].held[k]
                      /\ Opened(p, k)' # NoFile => named'[k] = Opened(p, k)'
    BY DEF Named, Holds
  <2>1. CASE k = l
    BY <1>2, <1>4, <1>5, <1>6, <2>1 DEF Opened
  <2>2. CASE k # l
    BY <1>1, <1>4, <1>5, <1>6, <2>2 DEF Named, Holds, Opened
  <2> QED BY <2>1, <2>2
<1>11. \A k \in Locks : \/ named'[k] = named[k]
                        \/ \A q \in Gated \ {p} : ~Holds(q, k) /\ Opened(q, k) = NoFile
  <2> SUFFICES ASSUME NEW k \in Locks, named[k] = NoFile, NEW q \in Gated
               PROVE  ~Holds(q, k) /\ Opened(q, k) = NoFile
    BY <1>5
  <2>1. Named(q)
    BY DEF IInv, Gated
  <2> QED BY <2>1 DEF Named, Holds
<1>12. \A q \in Destructive \ {p} : gate = q /\ p \in Gated =>
          \A k \in Cleared(q) : m.held[k] # NoFile => Holds(p, k)
  BY <1>4 DEF Holds
<1>13. \A k \in Locks : m.held[k] \in {proc[p].held[k], NoFile}
  BY <1>4
<1> QED BY <1>1, <1>4, <1>5, <1>7, <1>8, <1>9, <1>10, <1>11, <1>12, <1>13, StepKeeps

LEMMA AcquireKeeps ==
    ASSUME IInv, NEW p \in Processes, Acquire(p)
    PROVE  IInv'
<1> DEFINE l == Trying(p)
           m == TakeNext(p, [proc[p] EXCEPT !.held[l] = proc[p].opened, !.opened = NoFile,
                                            !.todo = @ \ {l}, !.created = Created(p, proc[p], l)])
<1>1. /\ proc[p] \in Memory /\ gate' = AfterTry(p) /\ binary' \in BOOLEAN /\ TypeOK /\ InStateDir
      /\ Stands(p) /\ GateIsHeld(p) /\ Named(p) /\ Set(p, m)
      /\ proc[p].step = "flock" /\ UNCHANGED <<named, stateDir>>
      /\ ~Locked(l, proc[p].opened)
  BY Self DEF Acquire, IInv
<1>2. /\ l \in Locks /\ l \in proc[p].todo /\ proc[p].held[l] = NoFile
      /\ "setup" \in proc[p].todo => l = "setup"
      /\ p \in Ordinary => proc[p].todo = {l}
  BY <1>1, TryingIsTodo
<1>3. proc[p].opened \in Files /\ proc[p].opened # NoFile
  BY <1>1 DEF Stands, AnyAt, Memory
<1>4. /\ m \in Memory /\ m.created = Created(p, proc[p], l) /\ m.goals = proc[p].goals
      /\ \A k \in Locks : m.held[k] = IF k = l THEN proc[p].opened ELSE proc[p].held[k]
      /\ m.todo = proc[p].todo \ {l}
      /\ m.step = IF m.todo = {} THEN Started(p) ELSE "open"
  BY <1>1, <1>2, <1>3 DEF Memory, Steps, TakeNext, Started, Created, NoFile
<1> HIDE DEF m, l
<1>5. proc'[p] = m /\ Holding(p)' = Holding(p) \cup {l}
  BY <1>1, <1>2, <1>3, <1>4, OthersStay DEF Holding
<1>6. m.created \subseteq proc[p].created \cup {l} /\ (p \notin Uninstalls => m.created = proc[p].created)
  BY <1>4 DEF Created
<1>7. gate' = gate \/ {gate, gate'} \subseteq {p, Nobody}
  BY <1>1 DEF AfterTry
<1>8. Stands(p)' /\ GateIsHeld(p)' /\ (p \in Destructive => Cleared(p)' \subseteq Cleared(p) \cup {l})
  <2>1. CASE p \in Ordinary
    <3>1. p \notin Destructive /\ p \notin Uninstalls /\ m.step = "work"
      BY <1>2, <1>4, <2>1, Kinds DEF Started
    <3>2. Stands(p)'
      BY <1>1, <1>2, <1>4, <1>5, <1>6, <2>1, <3>1 DEF Stands, AnyAt, OrdinaryAt
    <3>3. GateIsHeld(p)'
      BY <1>1, <1>4, <1>5, <2>1, <3>1, Kinds DEF GateIsHeld, PastGate, AfterTry
    <3> QED BY <3>1, <3>2, <3>3
  <2>2. CASE p \notin Ordinary
    <3>1. p \in Destructive /\ gate' = gate /\ p \in Gated
      BY <1>1, <2>2, Kinds DEF AfterTry
    <3>2. m.step = IF m.todo # {} THEN "open" ELSE IF p \in Upgrades THEN "replace" ELSE "decide"
      BY <1>4, <2>2 DEF Started
    <3>3. Stands(p)'
      BY <1>1, <1>2, <1>4, <1>5, <1>6, <3>1, <3>2, <2>2, Kinds DEF Stands, AnyAt, DestructiveAt
    <3>4. GateIsHeld(p)'
      BY <1>1, <1>5, <3>1, <3>2, <2>2 DEF GateIsHeld, PastGate
    <3>5. Cleared(p)' \subseteq Cleared(p) \cup {l}
      BY <1>1, <1>4, <1>5, <3>2 DEF Cleared
    <3> QED BY <3>3, <3>4, <3>5
  <2> QED BY <2>1, <2>2
<1>9. \A q \in Gated \ {p} : p \in Gated => ~Holds(q, l)
  <2> SUFFICES ASSUME NEW q \in Gated, p \in Gated, Holds(q, l) PROVE FALSE
    OBVIOUS
  <2>1. Named(q) /\ q \in Processes
    BY DEF IInv, Gated
  <2>2. Opened(p, l) = proc[p].opened
    BY <1>1 DEF Opened, l
  <2>3. named[l] = proc[p].opened /\ named[l] = proc[q].held[l]
    BY <1>1, <1>2, <1>3, <2>1, <2>2 DEF Named, Holds
  <2> QED BY <1>1, <2>1, <2>3 DEF Locked
<1>10. gate' = p => gate = p
  BY <1>1, Kinds DEF AfterTry
<1>11. Exclusive(p)'
  <2>1. CASE p \in Gated
    BY <1>1, <1>2, <1>4, <1>8, <1>9, <1>10, <2>1, OneMoreCleared
  <2>2. CASE p \notin Gated
    BY <2>2, Kinds DEF Exclusive
  <2> QED BY <2>1, <2>2
<1>12. Named(p)'
  <2> SUFFICES ASSUME p \in Gated, NEW k \in Locks, m.held[k] # NoFile
               PROVE  named[k] = m.held[k]
    <3>1. proc'[p].step # "flock"
      BY <1>4, <1>5 DEF Started
    <3> QED BY <1>1, <1>5, <3>1 DEF Named, Holds, Opened
  <2>1. CASE k = l
    BY <1>1, <1>2, <1>3, <1>4, <2>1 DEF Named, Opened, l
  <2>2. CASE k # l
    BY <1>1, <1>4, <2>2 DEF Named, Holds
  <2> QED BY <2>1, <2>2
<1>13. \A k \in Locks : \/ m.held[k] \in {proc[p].held[k], NoFile}
                        \/ ~Locked(k, m.held[k])
  BY <1>1, <1>4
<1>14. \A q \in Destructive \ {p} : gate = q /\ p \in Gated =>
          \A k \in Cleared(q) : m.held[k] # NoFile => Holds(p, k)
  <2> SUFFICES ASSUME NEW q \in Destructive \ {p}, gate = q, p \in Gated, NEW k \in Cleared(q),
                      m.held[k] # NoFile
               PROVE  Holds(p, k)
    OBVIOUS
  <2>1. Opened(p, k) = NoFile /\ ~Holds(p, k)
    BY OthersAreOut
  <2>2. k \in Locks
    <3>1. GateIsHeld(q)
      BY Kinds DEF IInv
    <3>2. proc[q].step # "idle"
      BY <3>1 DEF GateIsHeld, PastGate
    <3> QED BY <3>2, SetupFirst
  <2>3. k # l
    BY <1>1, <1>3, <2>1 DEF Opened, l
  <2> QED BY <1>4, <2>2, <2>3 DEF Holds
<1>15. named' \in [Locks -> Files \cup {NoFile}] /\ stateDir' \in BOOLEAN /\ InStateDir'
  BY <1>1 DEF TypeOK, InStateDir
<1> QED BY <1>1, <1>4, <1>7, <1>8, <1>11, <1>12, <1>13, <1>14, <1>15, StepKeeps

-----------------------------------------------------------------------------
(* The invariant, and what follows from it.                                *)

LEMMA InitIInv == Init => IInv
<1> SUFFICES ASSUME Init PROVE IInv
  OBVIOUS
<1>1. Cardinality(Processes) \in Nat
  BY KindsAssumption, FS_CardinalityType
<1>2. TypeOK
  BY <1>1 DEF Init, TypeOK, Idle, Memory, Steps, Files, NoFile
<1>3. \A p \in Processes : proc[p] = Idle /\ Holding(p) = {}
  BY DEF Init, Holding, Idle
<1>4. InStateDir /\ LockedOnce
  BY <1>3 DEF Init, InStateDir, LockedOnce, Holds, Idle
<1>5. ASSUME NEW p \in Processes
      PROVE  Stands(p) /\ GateIsHeld(p) /\ Named(p) /\ Exclusive(p)
  <2>1. Stands(p)
    BY <1>3 DEF Stands, AnyAt, OrdinaryAt, DestructiveAt, Idle
  <2>2. gate # p /\ GateIsHeld(p) /\ Exclusive(p)
    BY <1>3, Kinds DEF Init, GateIsHeld, PastGate, Exclusive, Idle
  <2>3. Named(p)
    BY <1>3 DEF Named, Holds, Opened, Idle
  <2> QED BY <2>1, <2>2, <2>3
<1> QED BY <1>2, <1>4, <1>5 DEF IInv

LEMMA NextIInv == IInv /\ [Next]_vars => IInv'
<1> SUFFICES ASSUME IInv, [Next]_vars PROVE IInv'
  OBVIOUS
<1>1. ASSUME NEW p \in Processes,
             \/ Begin(p) \/ PassGate(p) \/ RefusedAtGate(p)
             \/ SkipLock(p) \/ Open(p) \/ LockAbsent(p) \/ Acquire(p) \/ Busy(p)
      PROVE  IInv'
  BY <1>1, BeginKeeps, PassGateKeeps, RefusedAtGateKeeps, SkipLockKeeps, OpenKeeps,
     LockAbsentKeeps, AcquireKeeps, BusyKeeps
<1>2. ASSUME NEW p \in Processes,
             \/ ConnectInProcess(p) \/ ConnectReturns(p) \/ Finish(p)
             \/ Decide(p) \/ Apply(p) \/ PurgeRelease(p) \/ PurgeRemove(p)
      PROVE  IInv'
  BY <1>2, ConnectInProcessKeeps, ConnectReturnsKeeps, FinishKeeps, DecideKeeps, ApplyKeeps,
     PurgeReleaseKeeps, PurgeRemoveKeeps
<1>3. ASSUME NEW p \in Processes,
             \/ RemoveBinary(p) \/ RemoveUpdateLock(p) \/ EnsureFlushLock(p) \/ Replaced(p)
             \/ ReleaseLock(p) \/ RemoveCreated(p) \/ ReleaseGate(p) \/ Kill(p)
      PROVE  IInv'
  BY <1>3, RemoveBinaryKeeps, RemoveUpdateLockKeeps, EnsureFlushLockKeeps, ReplacedKeeps,
     ReleaseLockKeeps, RemoveCreatedKeeps, ReleaseGateKeeps, KillKeeps
<1>4. CASE UNCHANGED vars
  <2> USE <1>4 DEF vars
  <2>1. TypeOK' /\ InStateDir' /\ LockedOnce'
    BY DEF IInv, TypeOK, InStateDir, LockedOnce, Holds
  <2>2. ASSUME NEW p \in Processes
        PROVE  Stands(p)' /\ GateIsHeld(p)' /\ Named(p)' /\ Exclusive(p)'
    <3>1. Stands(p) /\ GateIsHeld(p) /\ Named(p) /\ Exclusive(p)
      BY DEF IInv
    <3>2. Holding(p)' = Holding(p)
      BY DEF Holding
    <3>3. Stands(p)'
      BY <3>1, <3>2 DEF Stands, AnyAt, OrdinaryAt, DestructiveAt
    <3>4. GateIsHeld(p)' /\ Named(p)'
      BY <3>1, <3>2 DEF GateIsHeld, PastGate, Named, Holds, Opened, Trying
    <3>5. Exclusive(p)'
      BY <3>1, <3>2 DEF Exclusive, Cleared, Holds
    <3> QED BY <3>1, <3>3, <3>4, <3>5
  <2> QED BY <2>1, <2>2 DEF IInv
<1> QED BY <1>1, <1>2, <1>3, <1>4 DEF Next

(* What the gate, the lock files and the processes owe each other holds    *)
(* after any number of steps, whoever is killed on the way.                *)
THEOREM InstallationInvariant == Spec => []IInv
BY InitIInv, NextIInv, PTL DEF Spec

(* Two operations that passed the gate never hold two files of one name,   *)
(* although a purge unlinks lock files and open creates them again.        *)
THEOREM OneHolderAlways == Spec => []OneHolder
<1>1. IInv => OneHolder
  <2> SUFFICES ASSUME IInv, NEW l \in Locks, NEW p \in Gated, NEW q \in Gated, Holds(p, l), Holds(q, l)
               PROVE  p = q
    BY DEF OneHolder, IInv, Gated
  <2>1. p \in Processes /\ q \in Processes /\ Named(p) /\ Named(q)
    BY DEF IInv, Gated
  <2>2. proc[p].held[l] = proc[q].held[l]
    BY <2>1 DEF Named
  <2> QED BY <2>1, <2>2 DEF IInv, LockedOnce
<1> QED BY <1>1, InstallationInvariant, PTL

(* Nobody that passed the gate is at work in what another process removes  *)
(* or replaces for good.                                                   *)
THEOREM DestructionAlone == Spec => []DestructionIsAlone
<1>1. IInv => DestructionIsAlone
  <2> SUFFICES ASSUME IInv, NEW p \in Destructive, Destroying(p)
               PROVE  /\ \A q \in Setups : ~AtWork(q)
                      /\ proc[p].goals # {} => \A q \in Connects \cup Flushes : ~AtWork(q)
                      /\ \A q \in Destructive : q # p => ~Destroying(q)
    BY DEF DestructionIsAlone
  <2>1. /\ p \in Processes /\ p \in Gated /\ proc[p].goals \in SUBSET Goals
        /\ Stands(p)
    BY Kinds, Self DEF Memory
  <2>2. \A q \in Destructive : Destroying(q) => gate = q
    <3> SUFFICES ASSUME NEW q \in Destructive, Destroying(q) PROVE gate = q
      OBVIOUS
    <3>1. q \in Processes /\ q \in Gated /\ GateIsHeld(q)
      BY Kinds DEF IInv
    <3> QED BY <3>1 DEF GateIsHeld, PastGate, Destroying
  <2>3. gate = p
    BY <2>2
  <2>4. Cleared(p) = Wanted(p, proc[p].goals)
    BY DEF Destroying, Cleared
  <2>5. ASSUME NEW q \in Ordinary \ Sandboxed, NEW l \in Wanted(p, proc[p].goals)
        PROVE  l \notin Holding(q)
    <3>1. q \in Gated /\ q # p
      BY Kinds DEF Gated, Ungated, Processes
    <3>2. ~Holds(q, l)
      BY <2>3, <2>4, <3>1, OthersAreOut
    <3> QED BY <3>2 DEF Holding, Holds
  <2>6. ASSUME NEW q \in Ordinary \ Sandboxed, Holding(q) # {}
        PROVE  (IF q \in Setups THEN "setup" ELSE IF q \in Connects THEN "connect" ELSE "flush")
                   \in Holding(q)
    <3>1. Stands(q)
      BY DEF IInv, Processes
    <3> QED BY <2>6, <3>1 DEF Stands, OrdinaryAt
  <2>7. "setup" \in Wanted(p, proc[p].goals)
    BY <2>1, WantedLocks
  <2>8. proc[p].goals # {} => /\ "connect" \in Wanted(p, proc[p].goals)
                              /\ "flush" \in Wanted(p, proc[p].goals)
    BY <2>1, WantedLocks, Kinds DEF Stands, DestructiveAt
  <2>9. \A q \in Setups : ~AtWork(q)
    BY <2>5, <2>6, <2>7 DEF AtWork
  <2>10. proc[p].goals # {} => \A q \in Connects \cup Flushes : ~AtWork(q)
    BY <2>5, <2>6, <2>8, Kinds DEF AtWork
  <2> QED BY <2>2, <2>9, <2>10
<1> QED BY <1>1, InstallationInvariant, PTL

(* An exclusion that does not proceed unlinks a lock file only while no    *)
(* other operation that passed the gate has it open.                       *)
THEOREM OnlyItsOwnRemoved == Spec => RemovesOnlyItsOwn
<1> DEFINE Own == \A p \in Uninstalls, l \in Locks :
                     (proc[p].step = "release" /\ proc'[p].created # proc[p].created
                          /\ named[l] # NoFile /\ named'[l] = NoFile)
                       => \A q \in Processes \ (Ungated \cup {p}) :
                              named[l] \notin {Opened(q, l), proc[q].held[l]}
<1>1. IInv /\ [Next]_vars => [Own]_vars
  <2> SUFFICES ASSUME IInv, Next, NEW p \in Uninstalls, NEW l \in Locks, proc[p].step = "release",
                      proc'[p].created # proc[p].created, named[l] # NoFile, named'[l] = NoFile,
                      NEW q \in Processes \ (Ungated \cup {p})
               PROVE  named[l] \notin {Opened(q, l), proc[q].held[l]}
    OBVIOUS
  <2>1. /\ p \in Processes /\ p \in Destructive /\ p \in Gated /\ q \in Gated \ {p}
        /\ GateIsHeld(p) /\ proc \in [Processes -> Memory] /\ named \in [Locks -> Files \cup {NoFile}]
    BY Kinds DEF IInv, Gated, TypeOK, Destructive, Processes
  <2>2. gate = p
    BY <2>1 DEF GateIsHeld, PastGate
  <2>3. l \in proc[p].created
    <3>1. PICK r \in Processes :
             \/ PurgeRemove(r) \/ RemoveUpdateLock(r) \/ RemoveCreated(r)
             \/ EnsureFlushLock(r) \/ Open(r)
      BY DEF Next, Begin, PassGate, RefusedAtGate, SkipLock, LockAbsent, Acquire, Busy, ConnectInProcess,
             ConnectReturns, Finish, Decide, Apply, PurgeRelease, RemoveBinary, Replaced, ReleaseLock,
             ReleaseGate, Kill
    <3>2. r = p
      BY <2>1, <3>1 DEF PurgeRemove, RemoveUpdateLock, RemoveCreated, EnsureFlushLock, Open, Set, Goto
    <3>3. RemoveCreated(p)
      BY <3>1, <3>2 DEF PurgeRemove, RemoveUpdateLock, EnsureFlushLock, Open
    <3>4. proc[p].created # {} /\ proc[p].created \in SUBSET Locks
      BY <2>1, <3>3 DEF RemoveCreated, Undoes, Memory
    <3>5. l = Last(proc[p].created)
      BY <2>1, <3>3 DEF RemoveCreated
    <3> QED BY <3>4, <3>5, LastIsOne
  <2>4. l \in Cleared(p)
    BY <2>3 DEF Cleared
  <2>5. ~Holds(q, l) /\ Opened(q, l) = NoFile
    BY <2>1, <2>2, <2>4, OthersAreOut
  <2> QED BY <2>5 DEF Holds
<1>2. Spec => [][Own]_vars
  BY <1>1, InstallationInvariant, PTL DEF Spec
<1> QED BY <1>2 DEF RemovesOnlyItsOwn
=============================================================================
