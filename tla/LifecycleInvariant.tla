-------------------------- MODULE LifecycleInvariant --------------------------
(***************************************************************************)
(* The inductive invariant behind OneHolder, DestructionIsAlone and        *)
(* RemovesOnlyItsOwn: what the gate, the lock files and the processes owe  *)
(* each other between any two steps of Lifecycle.                          *)
(***************************************************************************)
EXTENDS Lifecycle

Gated == Processes \ Ungated

\* A process past the gate that still holds it: an ordinary operation until its
\* lock is tried, a destructive one to its end.
PastGate(p) ==
    /\ p \in Gated
    /\ proc[p].step \notin {"idle", "gate"}
    /\ p \in Destructive \/ (proc[p].step \in {"open", "flock"} /\ Holding(p) = {})

GateIsHeld(p) == gate = p <=> PastGate(p)

\* Where an ordinary operation can be, and what it holds there.  Only a setup
\* goes for a second lock, and it keeps the first.
OrdinaryAt(p) ==
    LET m == proc[p]
        own == IF p \in Setups THEN "setup" ELSE IF p \in Connects THEN "connect" ELSE "flush"
    IN
    /\ m.step \in {"idle", "gate", "open", "flock", "work"}
    /\ m.step \in {"gate", "open", "flock"} /\ Holding(p) = {} => m.todo = {own}
    /\ m.step \in {"open", "flock"} /\ Holding(p) # {} =>
           p \in Setups /\ Holding(p) = {"setup"} /\ m.todo = {"connect"}
    /\ Holding(p) \subseteq {own} \cup (IF p \in Setups THEN {"connect"} ELSE {})
    /\ Holding(p) # {} => own \in Holding(p)
    /\ m.created = {}

\* Where a destructive operation can be; what it still wants it does not hold.
DestructiveAt(p) ==
    LET m      == proc[p]
        wanted == Wanted(p, m.goals)
    IN
    /\ m.step \in IF p \in Upgrades
                  THEN {"idle", "gate", "open", "flock", "replace", "replacing", "release"}
                  ELSE {"idle", "gate", "open", "flock", "decide", "apply", "purge", "remove", "release"}
    /\ m.step = "gate" => m.todo = wanted
    /\ m.step \in {"open", "flock"} => /\ m.todo \subseteq wanted
                                       /\ Holding(p) \cup m.created \subseteq wanted \ m.todo
                                       /\ "setup" \in m.todo => m.todo = wanted
    /\ m.step \in {"apply", "decide", "purge", "remove", "replace", "replacing"} =>
           Holding(p) \cup m.created \subseteq wanted
    /\ m.step = "purge" => /\ "state" \in m.goals /\ m.todo # {} /\ m.todo \subseteq PurgeSet
    /\ m.step = "remove" => "binary" \in m.goals
    /\ p \in Upgrades => m.goals = {}

\* What every process keeps to.
AnyAt(p) ==
    LET m == proc[p] IN
    /\ m.step \in {"idle", "gate"} => Holding(p) = {} /\ m.created = {}
    /\ m.step \in {"open", "flock"} => m.todo # {} /\ m.todo \cap Holding(p) = {}
    /\ m.step = "gate" => p \in Gated
    /\ m.step = "flock" => m.opened # NoFile

Stands(p) ==
    /\ AnyAt(p)
    /\ p \in Ordinary => OrdinaryAt(p)
    /\ p \in Destructive => DestructiveAt(p)

\* A file that a process past the gate has locked or is about to try is the
\* one its name stands for.
Named(p) ==
    p \in Gated => \A l \in Locks :
        /\ Holds(p, l) => named[l] = proc[p].held[l]
        /\ Opened(p, l) # NoFile => named[l] = Opened(p, l)

\* A file is locked once.
LockedOnce ==
    \A l \in Locks, p, q \in Processes :
        Holds(p, l) /\ proc[p].held[l] = proc[q].held[l] => p = q

\* The locks a destructive operation has made its own: those it is through with,
\* held or skipped, and after a refusal those it holds or has created.
Cleared(p) ==
    LET m   == proc[p]
        own == Holding(p) \cup m.created
    IN IF m.step \in {"open", "flock"} THEN Wanted(p, m.goals) \ m.todo
       ELSE IF m.step = "release" THEN own \cup (IF own = {} THEN {} ELSE {"setup"})
       ELSE Wanted(p, m.goals)

\* Nobody else that passed the gate holds one of them.
Exclusive(p) ==
    p \in Destructive /\ gate = p =>
        \A l \in Cleared(p), q \in Gated \ {p} : ~Holds(q, l)

\* connect.lock lies in the state directory.
InStateDir == named["connect"] # NoFile => stateDir

IInv ==
    /\ TypeOK /\ InStateDir /\ LockedOnce
    /\ \A p \in Processes : Stands(p) /\ GateIsHeld(p) /\ Named(p) /\ Exclusive(p)
=============================================================================
