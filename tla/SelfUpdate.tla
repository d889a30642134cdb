----------------------------- MODULE SelfUpdate -----------------------------
(***************************************************************************)
(* `dropin-miner upgrade`, `upgrade -rollback` and the removal of the      *)
(* program by `uninstall -binary`: internal/selfupdate and upgrade.go.     *)
(* What is replaced is the file the commands themselves run from, so every *)
(* rename is a step, a step can fail, a process can die between two steps, *)
(* and a machine that loses power forgets the renames its directory was    *)
(* not synced after (`durable` is every directory it could wake up with).  *)
(*                                                                         *)
(* A binary is its version; Broken are the releases whose binary does not  *)
(* report the version it was released as. The two platforms take different *)
(* roads: POSIX renames over the executable and keeps a copy; Windows,     *)
(* which cannot replace a running image, moves it aside first.             *)
(***************************************************************************)
EXTENDS Naturals, FiniteSets

CONSTANTS Processes,      \* the commands that run one at a time or wait
          Versions,       \* release versions, in their order
          Broken,         \* releases whose binary does not run as one
          Temps,          \* names os.CreateTemp can make beside the binary
          Absent, Partial, \* no file; a file not yet wholly written
          MoveAttempts,   \* moveAsideAttempts
          MaxBegun,       \* bound: commands begun
          MaxFaults       \* bound: failures, kills and power losses

ASSUME VersionsAssumption == Versions \subseteq Nat \ {0} /\ Broken \subseteq Versions

VARIABLES platform,       \* "posix" or "windows"
          fs,             \* the directory, as a process sees it
          durable,        \* the directories a power loss could leave
          holder,         \* who holds the lifecycle gate and the update lock
          proc,           \* the commands
          latest,         \* the newest published release
          accepted,       \* ghost: the last binary a transaction settled on
          removed,        \* ghost: an uninstall has begun to delete
          begun, faults   \* the bounds' counters

vars == <<platform, fs, durable, holder, proc, latest, accepted, removed, begun, faults>>

Exe == "exe"
Prev == "previous"
None == "none"
Files == {Exe, Prev} \cup Temps

ASSUME NamesAssumption ==
    /\ {Exe, Prev, None} \cap Temps = {} /\ None \notin Processes
    /\ Absent # Partial /\ {Absent, Partial} \cap Versions = {}

Kinds == {None, "ok", "no_change", "downgrade", "unavailable", "release_invalid",
          "staging", "candidate_invalid", "no_previous", "previous_invalid",
          "replacement_failed", "previous_in_use", "incomplete",
          "manual_intervention"}

Idle == [pc |-> "idle", does |-> None, image |-> 0, want |-> 0, from |-> Absent,
         target |-> 0, cand |-> None, kept |-> None, tries |-> 0, out |-> FALSE,
         kind |-> None, paths |-> {}, exe0 |-> 0, prev0 |-> 0]

Become(p, m) == proc' = [proc EXCEPT ![p] = m]
Goto(p, l) == Become(p, [proc[p] EXCEPT !.pc = l])

(* What is left when power is lost: any of the renames since the last sync *)
(* may be missing. Windows renames with WRITE_THROUGH.                     *)
Rename(s, a, b) ==
    IF s[a] = Absent THEN s ELSE [s EXCEPT ![b] = s[a], ![a] = Absent]
Set(s, n, c) == [s EXCEPT ![n] = c]

OnDisk(dirs)  == durable' = IF platform = "windows" THEN {fs'} ELSE durable \cup dirs
Sets(n, c)    == fs' = Set(fs, n, c) /\ OnDisk({Set(s, n, c) : s \in durable})
Renames(a, b) == fs' = Rename(fs, a, b) /\ OnDisk({Rename(s, a, b) : s \in durable})
Syncs == fs' = fs /\ durable' = {fs}
WritesAndSyncs(n, c) == fs' = Set(fs, n, c) /\ durable' = {fs'}
Files0 == UNCHANGED <<fs, durable>>

Unused == {t \in Temps : fs[t] = Absent /\ \A s \in durable : s[t] = Absent}
Fresh == CHOOSE t \in Unused : TRUE

(* A call that fails: bounded, and told apart from what the program does.  *)
Misfortune == faults < MaxFaults /\ faults' = faults + 1
Fortune == UNCHANGED faults

Init ==
    /\ platform \in {"posix", "windows"}
    /\ latest \in Versions
    /\ \E v \in Versions \ Broken, w \in (Versions \ Broken) \cup {Absent} :
         /\ v <= latest
         /\ fs = [n \in Files |-> IF n = Exe THEN v ELSE IF n = Prev THEN w ELSE Absent]
         /\ accepted = v
    /\ durable = {fs}
    /\ holder = None
    /\ proc = [p \in Processes |-> Idle]
    /\ removed = FALSE
    /\ begun = 0 /\ faults = 0

(* upgradeRun ends with a kind and the paths its report names. A candidate *)
(* is then discarded, unless the report names it.                          *)
Ends(p, kind, paths) ==
    Become(p, [proc[p] EXCEPT !.pc = "discard", !.kind = kind, !.paths = paths])

-----------------------------------------------------------------------------
(* The command, up to the locks.                                           *)

Bounded == begun < MaxBegun /\ begun' = begun + 1
Others == UNCHANGED <<platform, latest, accepted, removed, begun>>

(* The version a command compares with is the one compiled into its image, *)
(* read before it waits for the gate.                                      *)
Begin(p, does, want) ==
    /\ proc[p].pc = "idle" /\ Bounded
    /\ fs[Exe] \in Versions
    /\ Become(p, [Idle EXCEPT !.pc = "wait", !.does = does,
                              !.image = fs[Exe], !.want = want])
    /\ Files0 /\ Fortune
    /\ UNCHANGED <<platform, holder, latest, accepted, removed>>

(* excludeForUpgrade: the gate, then the setup and update locks.           *)
ExcludeForUpgrade(p) ==
    /\ proc[p].pc = "wait" /\ holder = None
    /\ holder' = p
    /\ Become(p, [proc[p] EXCEPT !.pc = CASE proc[p].does = "upgrade" -> "release"
                                          [] proc[p].does = "rollback" -> "previous"
                                          [] OTHER -> "remove",
                                 !.exe0 = fs[Exe], !.prev0 = fs[Prev]])
    /\ removed' = (removed \/ proc[p].does = "uninstall")
    /\ Files0 /\ Fortune
    /\ UNCHANGED <<platform, latest, accepted, begun>>

(* The gate was not freed within lifecycleForegroundWait.                  *)
LifecycleBusy(p) ==
    /\ proc[p].pc = "wait" /\ holder # None
    /\ Become(p, Idle)
    /\ Files0 /\ Fortune /\ UNCHANGED holder /\ Others

-----------------------------------------------------------------------------
(* Prepare: choose the release, fetch it, verify it, stage it, run it.     *)

Chosen(p) == IF proc[p].want = 0 THEN latest ELSE proc[p].want

(* GitHub is asked for the release; one it does not have, an answer that   *)
(* is not the one requested, and an archive whose checksum or contents do  *)
(* not hold are all the release's fault; an unreachable host is not.       *)
Release(p) ==
    /\ proc[p].pc = "release"
    /\ \/ /\ Misfortune
          /\ \E k \in {"unavailable", "release_invalid"} : Ends(p, k, {})
       \/ /\ Fortune
          /\ LET v == Chosen(p) IN
               \/ v > latest /\ Ends(p, "release_invalid", {})
               \/ v <= latest /\ v = proc[p].image /\ Ends(p, "no_change", {})
               \/ v <= latest /\ v < proc[p].image /\ Ends(p, "downgrade", {})
               \/ /\ v <= latest /\ v > proc[p].image
                  /\ Become(p, [proc[p] EXCEPT !.pc = "stage", !.target = v, !.from = v])
    /\ Files0 /\ UNCHANGED holder /\ Others

(* readPrevious: the bytes a rollback will stage.                          *)
ReadPrevious(p) ==
    /\ proc[p].pc = "previous"
    /\ \/ Misfortune /\ Ends(p, "previous_invalid", {})
       \/ /\ Fortune
          /\ IF fs[Prev] = Absent THEN Ends(p, "no_previous", {})
             ELSE Become(p, [proc[p] EXCEPT !.pc = "stage", !.from = fs[Prev]])
    /\ Files0 /\ UNCHANGED holder /\ Others

(* StageCandidate: create the file beside the executable, then write it,   *)
(* sync it and sync the directory; what fails removes it.                  *)
Stage(p) ==
    /\ proc[p].pc = "stage" /\ Unused # {}
    /\ LET t == Fresh IN
         /\ Sets(t, Partial)
         /\ Become(p, [proc[p] EXCEPT !.pc = "fill", !.cand = t])
    /\ Fortune /\ UNCHANGED holder /\ Others

Fill(p) ==
    /\ proc[p].pc = "fill"
    /\ \/ /\ Fortune
          /\ WritesAndSyncs(proc[p].cand, proc[p].from)
          /\ Goto(p, "check")
       \/ /\ Misfortune
          /\ Sets(proc[p].cand, Absent)
          /\ Ends(p, "staging", {})
    /\ UNCHANGED holder /\ Others

(* candidateVersion: run it, once more if it timed out. Two timeouts say   *)
(* nothing about the binary; what a working binary says is its version.    *)
Runs(content) == content \in Versions \ Broken
Slow == Misfortune

(* validateCandidate before an upgrade; the version of what a rollback     *)
(* staged, which may not be the version already running. A candidate that  *)
(* fails is removed.                                                       *)
Check(p) ==
    /\ proc[p].pc = "check"
    /\ LET c == proc[p].from
           upgrade == proc[p].does = "upgrade"
           invalid == IF upgrade THEN "candidate_invalid" ELSE "previous_invalid"
       IN \/ Slow /\ Ends(p, "replacement_failed", {})
          \/ Fortune /\ ~Runs(c) /\ Ends(p, invalid, {})
          \/ Fortune /\ Runs(c) /\ ~upgrade /\ c = proc[p].image /\ Ends(p, invalid, {})
          \/ /\ Fortune /\ Runs(c) /\ (upgrade \/ c # proc[p].image)
             /\ Become(p, [proc[p] EXCEPT !.target = c,
                                         !.pc = IF platform = "windows" THEN "reserve" ELSE "snapshot"])
    /\ Files0 /\ UNCHANGED holder /\ Others

-----------------------------------------------------------------------------
(* replacePOSIX: one rename installs, another keeps what was replaced. An  *)
(* uninstall that had the locks first has left nothing to replace.         *)

DurableSnapshot(p) ==
    /\ proc[p].pc = "snapshot"
    /\ IF fs[Exe] = Absent THEN Ends(p, "replacement_failed", {}) /\ Files0
       ELSE /\ Unused # {}
            /\ LET t == Fresh IN
                 /\ Sets(t, Partial)
                 /\ Become(p, [proc[p] EXCEPT !.pc = "copy", !.kept = t])
    /\ Fortune /\ UNCHANGED holder /\ Others

\* Mutant: the copy of the old binary is not durable when the candidate is renamed over it.
CopyUnsynced(p) ==
    /\ proc[p].pc = "copy" /\ Fortune
    /\ Sets(proc[p].kept, fs[Exe])
    /\ Goto(p, "install")
    /\ UNCHANGED holder /\ Others

CopyExecutable(p) ==
    /\ proc[p].pc = "copy"
    /\ \/ /\ Fortune
          /\ WritesAndSyncs(proc[p].kept, fs[Exe])
          /\ Goto(p, "install")
       \/ /\ Misfortune
          /\ Sets(proc[p].kept, Absent)
          /\ Ends(p, "replacement_failed", {})
    /\ UNCHANGED holder /\ Others

\* Mutant: the executable is removed before the candidate is renamed to it.
InstallByRemoving(p) ==
    /\ proc[p].pc = "install" /\ Fortune
    /\ fs' = Rename(fs, proc[p].cand, Exe)
    /\ durable' = durable \cup UNION {{Set(s, Exe, Absent), Rename(s, proc[p].cand, Exe)} : s \in durable}
    /\ Goto(p, "sync")
    /\ UNCHANGED holder /\ Others

InstallCandidate(p) ==
    /\ proc[p].pc = "install"
    /\ \/ /\ Fortune
          /\ Renames(proc[p].cand, Exe)
          /\ Goto(p, "sync")
       \/ /\ Misfortune
          /\ Sets(proc[p].kept, Absent)
          /\ Ends(p, "replacement_failed", {})
    /\ UNCHANGED holder /\ Others

SyncInstalled(p) ==
    /\ proc[p].pc = "sync"
    /\ \/ Fortune /\ Syncs /\ Goto(p, "validate")
       \/ Misfortune /\ Files0 /\ Goto(p, "restore")
    /\ UNCHANGED holder /\ Others

KeepPrevious(p) ==
    /\ proc[p].pc = "keep"
    /\ \/ /\ Fortune
          /\ Renames(proc[p].kept, Prev)
          /\ Goto(p, "syncKept")
          /\ accepted' = proc[p].target
       \/ /\ Misfortune /\ Files0
          /\ Ends(p, "incomplete", {Exe, proc[p].kept, Prev})
          /\ accepted' = proc[p].target
    /\ UNCHANGED <<platform, holder, latest, removed, begun>>

SyncKept(p) ==
    /\ proc[p].pc = "syncKept"
    /\ \/ Fortune /\ Syncs /\ Ends(p, "ok", {})
       \/ Misfortune /\ Files0 /\ Ends(p, "incomplete", {Exe, Prev})
    /\ UNCHANGED holder /\ Others

RestorePOSIX(p) ==
    /\ proc[p].pc = "restore"
    /\ \/ /\ Fortune
          /\ Renames(proc[p].kept, Exe)
          /\ Goto(p, "syncRestored")
       \/ /\ Misfortune /\ Files0
          /\ Ends(p, "manual_intervention", {Exe, proc[p].kept})
    /\ UNCHANGED holder /\ Others

SyncRestored(p) ==
    /\ proc[p].pc = "syncRestored"
    /\ \/ Fortune /\ Syncs /\ Ends(p, "replacement_failed", {})
       \/ Misfortune /\ Files0 /\ Ends(p, "incomplete", {Exe})
    /\ UNCHANGED holder /\ Others

-----------------------------------------------------------------------------
(* replaceWindows: aside, in, and the old one to .previous; a failure goes *)
(* back the way it came.                                                   *)

Reserve(p) ==
    /\ proc[p].pc = "reserve" /\ Unused # {}
    /\ Become(p, [proc[p] EXCEPT !.pc = "aside", !.kept = Fresh])
    /\ Files0 /\ Fortune /\ UNCHANGED holder /\ Others

(* A holder that passes (a scanner) is waited out, MoveAttempts times.     *)
MoveAside(p) ==
    /\ proc[p].pc = "aside"
    /\ \/ Fortune /\ fs[Exe] = Absent /\ Files0 /\ Ends(p, "replacement_failed", {})
       \/ /\ Fortune /\ fs[Exe] # Absent
          /\ Renames(Exe, proc[p].kept)
          /\ Goto(p, "place")
       \/ /\ Misfortune /\ Files0
          /\ IF proc[p].tries + 1 < MoveAttempts
             THEN Become(p, [proc[p] EXCEPT !.tries = @ + 1])
             ELSE Ends(p, "replacement_failed", {})
    /\ UNCHANGED holder /\ Others

PlaceCandidate(p) ==
    /\ proc[p].pc = "place"
    /\ \/ /\ Fortune
          /\ Renames(proc[p].cand, Exe)
          /\ Goto(p, "validate")
       \/ /\ Misfortune /\ Files0
          /\ Become(p, [proc[p] EXCEPT !.pc = "putback", !.kind = "replacement_failed"])
    /\ UNCHANGED holder /\ Others

(* The installed binary is run where it stands, on either platform.        *)
ValidateInstalled(p) ==
    /\ proc[p].pc = "validate"
    /\ \/ /\ Fortune /\ Runs(fs[Exe]) /\ fs[Exe] = proc[p].target
          /\ Goto(p, IF platform = "windows" THEN "displace" ELSE "keep")
       \/ /\ Slow
          /\ IF platform = "windows"
             THEN Become(p, [proc[p] EXCEPT !.pc = "moveout", !.out = TRUE,
                                            !.kind = "replacement_failed"])
             ELSE Goto(p, "restore")
    /\ Files0 /\ UNCHANGED holder /\ Others

(* The rename over .previous is refused while a process runs from it.      *)
KeepDisplaced(p) ==
    /\ proc[p].pc = "displace"
    /\ \/ /\ Fortune
          /\ Renames(proc[p].kept, Prev)
          /\ Ends(p, "ok", {})
          /\ accepted' = proc[p].target
       \/ /\ Misfortune /\ Files0
          /\ \E k \in {"previous_in_use", "replacement_failed"} :
               Become(p, [proc[p] EXCEPT !.pc = "moveout", !.out = TRUE, !.kind = k])
          /\ UNCHANGED accepted
    /\ UNCHANGED <<platform, holder, latest, removed, begun>>

(* restoreWindows: the new binary back under its staged name, then the old *)
(* one under its own.                                                      *)
MoveOut(p) ==
    /\ proc[p].pc = "moveout"
    /\ \/ /\ Fortune
          /\ Renames(Exe, proc[p].cand)
          /\ Goto(p, "putback")
       \/ /\ Misfortune /\ Files0
          /\ Ends(p, "manual_intervention", {Exe, proc[p].kept})
    /\ UNCHANGED holder /\ Others

PutBack(p) ==
    /\ proc[p].pc = "putback"
    /\ \/ /\ Fortune
          /\ Renames(proc[p].kept, Exe)
          /\ Ends(p, proc[p].kind, {})
       \/ /\ Misfortune /\ Files0
          /\ Ends(p, "manual_intervention",
                  {proc[p].kept} \cup (IF proc[p].out THEN {proc[p].cand} ELSE {}))
    /\ UNCHANGED holder /\ Others

-----------------------------------------------------------------------------
(* DiscardAfterInstall, and a rollback's own discard: the staged candidate *)
(* goes, unless the report sends the person to it.                         *)
Preserves(p, n) == n \in proc[p].paths

\* Mutant: the candidate goes whatever the report says of it.
DiscardAlways(p) ==
    /\ proc[p].pc = "discard"
    /\ IF proc[p].cand = None THEN Files0
       ELSE Sets(proc[p].cand, Absent)
    /\ Goto(p, "done")
    /\ Fortune /\ UNCHANGED holder /\ Others

Discard(p) ==
    /\ proc[p].pc = "discard"
    /\ IF proc[p].cand = None \/ Preserves(p, proc[p].cand) THEN Files0
       ELSE Sets(proc[p].cand, Absent)
    /\ Goto(p, "done")
    /\ Fortune /\ UNCHANGED holder /\ Others

Exit(p) ==
    /\ proc[p].pc = "done"
    /\ Become(p, Idle)
    /\ holder' = None
    /\ Files0 /\ Fortune /\ Others

\* Mutant: only the names the transaction itself knows are looked for.
BinaryAndPrevious(p) == {n \in {Exe, Prev} : fs[n] # Absent} \ proc[p].paths

(* uninstall -binary: everything of the update's that is beside the binary,*)
(* then .previous, then the binary, which Windows can only move aside.     *)
(* What could not be removed is named at the end.                          *)
BinarySet(p) == {n \in Files : fs[n] # Absent} \ proc[p].paths

NextRemoved(p) ==
    LET left == BinarySet(p) IN
    IF left \cap Temps # {} THEN CHOOSE t \in left \cap Temps : TRUE
    ELSE IF Prev \in left THEN Prev ELSE Exe

RemoveBinary(p) ==
    /\ proc[p].pc = "remove"
    /\ IF BinarySet(p) = {} THEN Ends(p, "ok", proc[p].paths) /\ Files0 /\ Fortune
       ELSE LET n == NextRemoved(p) IN
            \/ /\ Fortune /\ (n # Exe \/ platform = "posix")
               /\ Sets(n, Absent) /\ UNCHANGED proc
            \/ /\ Fortune /\ n = Exe /\ platform = "windows" /\ Unused # {}
               /\ LET t == Fresh IN
                    /\ Renames(Exe, t)
                    /\ Become(p, [proc[p] EXCEPT !.paths = @ \cup {t}])
            \/ /\ Misfortune /\ Files0
               /\ Become(p, [proc[p] EXCEPT !.paths = @ \cup {n}])
    /\ UNCHANGED holder /\ Others

-----------------------------------------------------------------------------
(* The world: releases come out, processes are killed, power is lost.      *)

Publish ==
    /\ \E v \in Versions : v > latest /\ latest' = v
    /\ Files0 /\ Fortune
    /\ UNCHANGED <<platform, holder, proc, accepted, removed, begun>>

Kill(p) ==
    /\ proc[p].pc # "idle" /\ Misfortune
    /\ Become(p, Idle)
    /\ holder' = IF holder = p THEN None ELSE holder
    /\ Files0 /\ Others

PowerLoss ==
    /\ Cardinality(durable) > 1 /\ Misfortune
    /\ \E s \in durable : fs' = s /\ durable' = {s}
    /\ proc' = [p \in Processes |-> Idle]
    /\ holder' = None
    /\ Others

Next ==
    \/ \E p \in Processes :
         \/ \E w \in Versions \cup {0} : Begin(p, "upgrade", w)
         \/ Begin(p, "rollback", 0) \/ Begin(p, "uninstall", 0)
         \/ ExcludeForUpgrade(p) \/ LifecycleBusy(p)
         \/ Release(p) \/ ReadPrevious(p) \/ Stage(p) \/ Fill(p) \/ Check(p)
         \/ DurableSnapshot(p) \/ CopyExecutable(p) \/ InstallCandidate(p)
         \/ SyncInstalled(p) \/ KeepPrevious(p) \/ SyncKept(p)
         \/ RestorePOSIX(p) \/ SyncRestored(p)
         \/ Reserve(p) \/ MoveAside(p) \/ PlaceCandidate(p)
         \/ ValidateInstalled(p) \/ KeepDisplaced(p) \/ MoveOut(p) \/ PutBack(p)
         \/ Discard(p) \/ Exit(p) \/ RemoveBinary(p) \/ Kill(p)
    \/ Publish \/ PowerLoss

Spec == Init /\ [][Next]_vars

-----------------------------------------------------------------------------
(* Properties.                                                             *)

Contents == Versions \cup {Absent, Partial}

(* The variables have their types; one process is past the locks, and it   *)
(* is the holder; the directory a process sees is one power loss can leave *)
(* only if nothing is missing from it.                                     *)
TypeOK ==
    /\ platform \in {"posix", "windows"}
    /\ fs \in [Files -> Contents]
    /\ durable # {} /\ durable \subseteq [Files -> Contents]
    /\ fs \in durable
    /\ holder \in Processes \cup {None}
    /\ \A p \in Processes : /\ (proc[p].pc \notin {"idle", "wait"}) <=> (holder = p)
                            /\ proc[p].kind \in Kinds
                            /\ proc[p].paths \subseteq Files
    /\ latest \in Versions /\ accepted \in Versions

(* The binary that stood before a replacement is somewhere in the          *)
(* directory, whole, at every instant of the replacement and in every      *)
(* directory a power loss could leave, until another has been validated in *)
(* its place and kept (replace.go: no step removes the only copy).         *)
OldBinarySurvives ==
    ~removed => \A s \in durable \cup {fs} : \E n \in Files : s[n] = accepted

(* On POSIX there is never an instant, nor a power loss, without a whole   *)
(* binary at the canonical path; on Windows the path is empty only between *)
(* two renames or after a failure that names where the binary is. Neither  *)
(* platform ever keeps a half-written .previous. The type invariant is     *)
(* checked with it.                                                        *)
ExecutableStands ==
    /\ TypeOK
    /\ ~removed => \A s \in durable \cup {fs} :
        /\ platform = "posix" => Runs(s[Exe])
        /\ s[Exe] # Partial /\ s[Prev] # Partial

(* What a finished command says is so. Success: the target is installed    *)
(* and what it replaced is .previous, for good, so a rollback has put back *)
(* what .previous held and a second one swaps again. A plain failure: the  *)
(* executable and .previous are as they were found. A report that names    *)
(* files names files that are there, and the old binary among them unless  *)
(* it is the new one that stands.                                          *)
ReportIsTrue ==
    \A p \in Processes : proc[p].pc = "done" /\ proc[p].does # "uninstall" =>
        LET r == proc[p] IN
        CASE r.kind = "ok" ->
               /\ \A s \in durable : s[Exe] = r.target /\ s[Prev] = r.exe0
               /\ r.does = "rollback" => r.target = r.prev0
          [] r.kind = "incomplete" ->
               /\ \A n \in r.paths \ {Prev} : fs[n] \in Versions
               /\ fs[Exe] = r.target => \E n \in r.paths : fs[n] = r.exe0
          [] r.kind = "manual_intervention" ->
               /\ \A n \in r.paths : fs[n] \in Versions
               /\ \E n \in r.paths \ {Exe} : fs[n] = r.exe0
               /\ fs[Prev] = r.prev0
          [] OTHER -> fs[Exe] = r.exe0 /\ fs[Prev] = r.prev0

(* When uninstall has finished with the binary, every file an update left  *)
(* beside it is gone or is named in the report, whatever was interrupted   *)
(* before (uninstall.go, StagingLeftovers).                                *)
NothingUnreported ==
    \A p \in Processes : proc[p].pc = "done" /\ proc[p].does = "uninstall" =>
        \A n \in Files : fs[n] # Absent => n \in proc[p].paths

=============================================================================
