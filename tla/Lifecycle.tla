------------------------------- MODULE Lifecycle -------------------------------
(***************************************************************************)
(* Who may act on an installation while another process destroys or        *)
(* replaces it.  Ordinary operations (setup, connect, flush) pass the      *)
(* lifecycle gate to take their own lock; destructive ones (uninstall,     *)
(* upgrade) keep the gate and every operation lock they need.  All of      *)
(* these are advisory locks on files, and the operation locks' files can   *)
(* be unlinked while a process has them open: a lock is on a file, not on  *)
(* a name.  The gate's file is never removed, so the gate is just a lock.  *)
(*                                                                         *)
(* Abstracted: one installation, whose configuration does not change; what *)
(* an operation does while it works; a process that ended may start again; *)
(* POSIX (Windows does not unlink open files).                             *)
(***************************************************************************)
EXTENDS Naturals, FiniteSets

CONSTANTS Setups, Connects, Flushes,       \* ordinary operations
          Sandboxed,       \* flushes that may write neither the gate nor the miner root
          Uninstalls,      \* uninstall, with or without -purge-state and -binary
          Upgrades,        \* upgrade and rollback
          Nobody           \* no process

Ordinary    == Setups \cup Connects \cup Flushes
Destructive == Uninstalls \cup Upgrades
Processes   == Ordinary \cup Destructive

ASSUME KindsAssumption ==
    /\ Sandboxed \subseteq Flushes
    /\ Setups \cap Connects = {} /\ (Setups \cup Connects) \cap Flushes = {}
    /\ Ordinary \cap Destructive = {} /\ Uninstalls \cap Upgrades = {}
    /\ IsFiniteSet(Processes) /\ Nobody \notin Processes

\* The operation locks, in the one order in which they are taken.
Locks == {"setup", "connect", "flush", "update"}
Rank  == [setup |-> 1, connect |-> 2, flush |-> 3, update |-> 4]
First(locks) == CHOOSE l \in locks : \A k \in locks : Rank[l] <= Rank[k]
Last(locks)  == CHOOSE l \in locks : \A k \in locks : Rank[l] >= Rank[k]

\* A lock file is its name and a number, so that a name unlinked and created
\* again is a different file.  Numbers nobody uses any more are used again.
Files  == 1 .. Cardinality(Processes) + 1
NoFile == 0

VARIABLES gate,        \* the process that holds the gate
          named,       \* the file each lock name stands for
          stateDir,    \* the directory of connect.lock exists
          binary,      \* the executable is at its path
          proc         \* the processes

vars == <<gate, named, stateDir, binary, proc>>

Steps == {"idle", "gate", "open", "flock", "work", "decide", "apply", "purge", "remove",
          "replace", "replacing", "release"}
Goals == {"state", "binary"}

\* todo are the locks still to take or, in a purge, the lock files still to
\* remove; opened is the file whose lock is being tried; created are the lock
\* files an exclusion brought into existence.
Memory == [step : Steps, goals : SUBSET Goals, todo : SUBSET Locks, existed : BOOLEAN,
           opened : Files \cup {NoFile}, held : [Locks -> Files \cup {NoFile}],
           created : SUBSET Locks, applied : BOOLEAN]

Idle == [step |-> "idle", goals |-> {}, todo |-> {}, existed |-> FALSE, opened |-> NoFile,
         held |-> [l \in Locks |-> NoFile], created |-> {}, applied |-> FALSE]

TypeOK ==
    /\ gate \in Processes \cup {Nobody}
    /\ named \in [Locks -> Files \cup {NoFile}]
    /\ stateDir \in BOOLEAN /\ binary \in BOOLEAN
    /\ proc \in [Processes -> Memory]

\* Any lock file may be there already, the one in the state directory only
\* with the directory.
Init ==
    /\ gate = Nobody
    /\ named \in [Locks -> {1, NoFile}]
    /\ stateDir \in BOOLEAN
    /\ named["connect"] # NoFile => stateDir
    /\ binary = TRUE
    /\ proc = [p \in Processes |-> Idle]

Holding(p)      == {l \in Locks : proc[p].held[l] # NoFile}
Holds(p, l)     == proc[p].held[l] # NoFile
Trying(p)       == First(proc[p].todo)
Opened(p, l)    == IF proc[p].step = "flock" /\ l = Trying(p) THEN proc[p].opened ELSE NoFile
InUse(l)        == UNION {{proc[p].held[l], Opened(p, l)} : p \in Processes}
FreshFile(l)    == CHOOSE file \in Files \ InUse(l) : TRUE
Locked(l, file) == \E q \in Processes : proc[q].held[l] = file

Set(p, m)     == proc' = [proc EXCEPT ![p] = m]
Goto(p, step) == Set(p, [proc[p] EXCEPT !.step = step])

-----------------------------------------------------------------------------
(* The gate.                                                               *)

\* Mutant: an upgrade trusts the gate to keep setups out.
WantedWithoutSetup(p, goals) ==
    CASE p \in Setups     -> {"setup"}
      [] p \in Connects   -> {"connect"}
      [] p \in Flushes    -> {"flush"}
      [] p \in Upgrades   -> {"update"}
      [] OTHER            -> {"setup"} \cup (IF goals # {} THEN {"connect", "flush"} ELSE {})
                               \cup (IF "binary" \in goals THEN {"update"} ELSE {})

\* The operation locks each operation wants.
Wanted(p, goals) ==
    CASE p \in Setups     -> {"setup"}
      [] p \in Connects   -> {"connect"}
      [] p \in Flushes    -> {"flush"}
      [] p \in Upgrades   -> {"setup", "update"}
      [] OTHER            -> {"setup"} \cup (IF goals # {} THEN {"connect", "flush"} ELSE {})
                               \cup (IF "binary" \in goals THEN {"update"} ELSE {})

\* A sandboxed flush cannot open the gate, and admitOrdinary lets it pass without.
Ungated == Sandboxed

Begin(p) ==
    /\ proc[p].step = "idle"
    /\ \E goals \in IF p \in Uninstalls THEN SUBSET Goals ELSE {{}} :
         Set(p, [Idle EXCEPT !.goals = goals, !.todo = Wanted(p, goals),
                             !.step = IF p \in Ungated THEN "open" ELSE "gate"])
    /\ UNCHANGED <<gate, named, stateDir, binary>>

\* Mutant: an ordinary operation goes through the gate and does not keep it.
PassThrough(p) ==
    /\ proc[p].step = "gate"
    /\ gate = Nobody
    /\ gate' = IF p \in Ordinary THEN Nobody ELSE p
    /\ Goto(p, "open")
    /\ UNCHANGED <<named, stateDir, binary>>

PassGate(p) ==
    /\ proc[p].step = "gate"
    /\ gate = Nobody
    /\ gate' = p
    /\ Goto(p, "open")
    /\ UNCHANGED <<named, stateDir, binary>>

\* A detached child at once, a person's command after a while.
RefusedAtGate(p) ==
    /\ proc[p].step = "gate"
    /\ gate # Nobody
    /\ Set(p, Idle)
    /\ UNCHANGED <<gate, named, stateDir, binary>>

-----------------------------------------------------------------------------
(* tryLockFile: open, creating the file if need be, then flock.            *)

\* The operation lock was tried, or the last of several was taken.
Started(p) == IF p \in Ordinary THEN "work" ELSE IF p \in Upgrades THEN "replace" ELSE "decide"
TakeNext(p, m) == [m EXCEPT !.step = IF m.todo = {} THEN Started(p) ELSE "open"]

\* hold skips a lock whose directory does not exist.
SkipLock(p) ==
    /\ proc[p].step = "open"
    /\ p \in Destructive /\ Trying(p) = "connect" /\ ~stateDir
    /\ Set(p, TakeNext(p, [proc[p] EXCEPT !.todo = @ \ {"connect"}]))
    /\ UNCHANGED <<gate, named, stateDir, binary>>

\* connect has made the state directory before (auth.OpenStore).
Open(p) ==
    LET l    == Trying(p)
        file == IF named[l] = NoFile THEN FreshFile(l) ELSE named[l]
    IN
    /\ proc[p].step = "open"
    /\ p \in Destructive /\ l = "connect" => stateDir
    /\ p \in Sandboxed => named[l] # NoFile
    /\ Set(p, [proc[p] EXCEPT !.existed = (named[l] # NoFile), !.opened = file, !.step = "flock"])
    /\ named' = [named EXCEPT ![l] = file]
    /\ stateDir' = (stateDir \/ l = "connect")
    /\ UNCHANGED <<gate, binary>>

\* errFlushLockAbsent: a sandboxed flush cannot create the file.
LockAbsent(p) ==
    /\ proc[p].step = "open"
    /\ p \in Sandboxed /\ named["flush"] = NoFile
    /\ Set(p, Idle)
    /\ UNCHANGED <<gate, named, stateDir, binary>>

\* An uninstall records the files it brought into existence, for release to
\* remove; an upgrade leaves them.
Created(p, m, l) == IF p \in Uninstalls /\ ~m.existed THEN m.created \cup {l} ELSE m.created

\* An ordinary operation lets go of the gate once its own lock has been tried.
AfterTry(p) == IF p \in Ordinary /\ gate = p THEN Nobody ELSE gate

Acquire(p) ==
    LET m == proc[p]
        l == Trying(p)
    IN
    /\ m.step = "flock"
    /\ ~Locked(l, m.opened)
    /\ Set(p, TakeNext(p, [m EXCEPT !.held[l] = m.opened, !.opened = NoFile, !.todo = @ \ {l},
                                    !.created = Created(p, m, l)]))
    /\ gate' = AfterTry(p)
    /\ UNCHANGED <<named, stateDir, binary>>

\* A held operation lock is a refusal, except for the connect that setup runs
\* in its own process, which then has nothing to do.
Busy(p) ==
    LET m == proc[p] IN
    /\ m.step = "flock"
    /\ Locked(Trying(p), m.opened)
    /\ Set(p, IF p \in Ordinary /\ Holding(p) = {} THEN Idle
              ELSE [m EXCEPT !.opened = NoFile, !.todo = {},
                             !.step = IF p \in Ordinary THEN "work" ELSE "release"])
    /\ gate' = AfterTry(p)
    /\ UNCHANGED <<named, stateDir, binary>>

-----------------------------------------------------------------------------
(* Ordinary operations at work.                                            *)

\* setup runs connect in its own process, which is already admitted.
ConnectInProcess(p) ==
    /\ p \in Setups
    /\ proc[p].step = "work" /\ Holding(p) = {"setup"}
    /\ Set(p, [proc[p] EXCEPT !.todo = {"connect"}, !.step = "open"])
    /\ UNCHANGED <<gate, named, stateDir, binary>>

ConnectReturns(p) ==
    /\ p \in Setups
    /\ proc[p].step = "work" /\ Holds(p, "connect")
    /\ Set(p, [proc[p] EXCEPT !.held["connect"] = NoFile])
    /\ UNCHANGED <<gate, named, stateDir, binary>>

Finish(p) ==
    /\ proc[p].step = "work"
    /\ Set(p, Idle)
    /\ UNCHANGED <<gate, named, stateDir, binary>>

-----------------------------------------------------------------------------
(* Destructive operations at work.                                         *)

\* The participant confirms, and the run proceeds; or nothing was changed.
Decide(p) ==
    /\ proc[p].step = "decide"
    /\ \/ Set(p, [proc[p] EXCEPT !.applied = TRUE, !.step = "apply"])
       \/ Goto(p, "release")
    /\ UNCHANGED <<gate, named, stateDir, binary>>

\* The lock files a purge removes, the state directory with connect.lock
\* first and setup.lock last.
PurgeSet == {"connect", "flush", "setup"}
PurgeNext(todo) == IF todo = {"setup"} THEN "setup" ELSE First(todo \ {"setup"})
AfterPurge(m) == IF "binary" \in m.goals THEN "remove" ELSE "release"

\* Integrations and environment, then the state, then the binary.
Apply(p) ==
    /\ proc[p].step = "apply"
    /\ Set(p, IF "state" \in proc[p].goals
              THEN [proc[p] EXCEPT !.step = "purge", !.todo = PurgeSet]
              ELSE [proc[p] EXCEPT !.step = AfterPurge(proc[p])])
    /\ UNCHANGED <<gate, named, stateDir, binary>>

\* applyPurge lets go of a lock right before it removes its file.
PurgeRelease(p) ==
    LET l == PurgeNext(proc[p].todo) IN
    /\ proc[p].step = "purge"
    /\ Holds(p, l)
    /\ Set(p, [proc[p] EXCEPT !.held[l] = NoFile])
    /\ UNCHANGED <<gate, named, stateDir, binary>>

\* RemoveAll, which may fail.
PurgeRemove(p) ==
    LET l    == PurgeNext(proc[p].todo)
        left == proc[p].todo \ {l}
    IN
    /\ proc[p].step = "purge"
    /\ ~Holds(p, l)
    /\ \/ named' = [named EXCEPT ![l] = NoFile] /\ stateDir' = (stateDir /\ l # "connect")
       \/ UNCHANGED <<named, stateDir>>
    /\ Set(p, [proc[p] EXCEPT !.todo = left, !.step = IF left # {} THEN @ ELSE AfterPurge(proc[p])])
    /\ UNCHANGED <<gate, binary>>

\* applyBinary: the update lock goes only once the binary has left its path.
RemoveBinary(p) ==
    /\ proc[p].step = "remove"
    /\ Holds(p, "update")
    /\ \/ binary' = FALSE /\ Set(p, [proc[p] EXCEPT !.held["update"] = NoFile])
       \/ UNCHANGED binary /\ Goto(p, "release")
    /\ UNCHANGED <<gate, named, stateDir>>

RemoveUpdateLock(p) ==
    /\ proc[p].step = "remove"
    /\ ~Holds(p, "update")
    /\ named' = [named EXCEPT !["update"] = NoFile]
    /\ Goto(p, "release")
    /\ UNCHANGED <<gate, stateDir, binary>>

\* ensureUpgradeFlushLock, then the replacement, which needs a binary and a
\* release that can be prepared.
EnsureFlushLock(p) ==
    /\ proc[p].step = "replace"
    /\ named' = IF named["flush"] = NoFile
                THEN [named EXCEPT !["flush"] = FreshFile("flush")] ELSE named
    /\ \E step \in {"release"} \cup (IF binary THEN {"replacing"} ELSE {}) : Goto(p, step)
    /\ UNCHANGED <<gate, stateDir, binary>>

Replaced(p) ==
    /\ proc[p].step = "replacing"
    /\ Goto(p, "release")
    /\ UNCHANGED <<gate, named, stateDir, binary>>

-----------------------------------------------------------------------------
(* release: the operation locks in reverse order, then the created files   *)
(* of a run that did not proceed, then the gate.                           *)

\* Mutant: the gate is let go with the first operation lock.
ReleaseLockAndGate(p) ==
    /\ proc[p].step = "release"
    /\ Holding(p) # {}
    /\ Set(p, [proc[p] EXCEPT !.held[Last(Holding(p))] = NoFile])
    /\ gate' = IF gate = p THEN Nobody ELSE gate
    /\ UNCHANGED <<named, stateDir, binary>>

ReleaseLock(p) ==
    /\ proc[p].step = "release"
    /\ Holding(p) # {}
    /\ Set(p, [proc[p] EXCEPT !.held[Last(Holding(p))] = NoFile])
    /\ UNCHANGED <<gate, named, stateDir, binary>>

Undoes(m) == ~m.applied /\ m.created # {}

RemoveCreated(p) ==
    /\ proc[p].step = "release"
    /\ Holding(p) = {}
    /\ Undoes(proc[p])
    /\ named' = [named EXCEPT ![Last(proc[p].created)] = NoFile]
    /\ Set(p, [proc[p] EXCEPT !.created = @ \ {Last(@)}])
    /\ UNCHANGED <<gate, stateDir, binary>>

ReleaseGate(p) ==
    /\ proc[p].step = "release"
    /\ Holding(p) = {} /\ ~Undoes(proc[p])
    /\ gate' = IF gate = p THEN Nobody ELSE gate
    /\ Set(p, Idle)
    /\ UNCHANGED <<named, stateDir, binary>>

\* The process dies; the kernel lets go of its locks and the files stay.
Kill(p) ==
    /\ proc[p].step # "idle"
    /\ gate' = IF gate = p THEN Nobody ELSE gate
    /\ Set(p, Idle)
    /\ UNCHANGED <<named, stateDir, binary>>

-----------------------------------------------------------------------------
Next == \E p \in Processes :
    \/ Begin(p) \/ PassGate(p) \/ RefusedAtGate(p)
    \/ SkipLock(p) \/ Open(p) \/ LockAbsent(p) \/ Acquire(p) \/ Busy(p)
    \/ ConnectInProcess(p) \/ ConnectReturns(p) \/ Finish(p)
    \/ Decide(p) \/ Apply(p) \/ PurgeRelease(p) \/ PurgeRemove(p)
    \/ RemoveBinary(p) \/ RemoveUpdateLock(p) \/ EnsureFlushLock(p) \/ Replaced(p)
    \/ ReleaseLock(p) \/ RemoveCreated(p) \/ ReleaseGate(p) \/ Kill(p)

Spec == Init /\ [][Next]_vars

-----------------------------------------------------------------------------
(* Properties.                                                             *)

\* Changing the installation for good.
Destroying(p) == proc[p].step \in {"apply", "purge", "remove", "replacing"}

\* Holding the operation lock it was admitted for.
AtWork(q) == q \in Ordinary \ Sandboxed /\ Holding(q) # {}

(* While a process changes an installation for good, no operation that     *)
(* passed the gate is at work in the part it changes, and no other process *)
(* does the same: setups are kept out by every one of them, connects and   *)
(* flushes by a purge.                                                     *)
DestructionIsAlone ==
    \A p \in Destructive : Destroying(p) =>
        /\ \A q \in Setups : ~AtWork(q)
        /\ proc[p].goals # {} => \A q \in Connects \cup Flushes : ~AtWork(q)
        /\ \A q \in Destructive : q # p => ~Destroying(q)

(* A lock name stands for one lock: two operations that passed the gate    *)
(* never hold two files of the same name, one of them unlinked. The type    *)
(* invariant is checked with it.                                            *)
OneHolder ==
    /\ TypeOK
    /\ \A l \in Locks, p, q \in Processes \ Ungated : (Holds(p, l) /\ Holds(q, l)) => p = q

(* An exclusion that does not proceed removes the lock files it made only  *)
(* while no other operation that passed the gate has them open: whoever    *)
(* locked such a file would be alone on a name nobody else finds any more. *)
RemovesOnlyItsOwn ==
    [][\A p \in Uninstalls, l \in Locks :
         (proc[p].step = "release" /\ proc'[p].created # proc[p].created
              /\ named[l] # NoFile /\ named'[l] = NoFile)
           => \A q \in Processes \ (Ungated \cup {p}) :
                  named[l] \notin {Opened(q, l), proc[q].held[l]}]_vars

=============================================================================
