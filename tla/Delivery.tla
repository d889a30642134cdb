------------------------------- MODULE Delivery -------------------------------
(***************************************************************************)
(* The mining plane's delivery path: `search` records one intake file per  *)
(* served request; `flush`, one process at a time under flush.lock, finds  *)
(* the target epoch, drops what another installation's epoch made          *)
(* worthless, promotes intake into the durable spool and delivers the      *)
(* spool once.  Processes may be killed, power may be lost and storage may *)
(* fail at every step.                                                     *)
(*                                                                         *)
(* Abstracted: one slot; wall-clock freshness (the stamp may be used or    *)
(* not) and backoff deadlines (a record already tried may be skipped) are  *)
(* free choices; every intake record builds; no file is unreadable; the    *)
(* attempt ceiling stays the same, so that no undecided record is found    *)
(* beyond it.                                                              *)
(***************************************************************************)
EXTENDS Directory, EpochServer, FiniteSetsExt

CONSTANTS Searches,               \* requests the router serves
          Flushes,                \* flush processes
          ConfiguredMaxAttempts,  \* mining.collector_max_attempts
          DefaultMaxAttempts,     \* collector.DefaultMaxAttempts
          MaxConflicts,           \* store.go maxEpochConflicts
          MaxFaults,              \* bound: storage faults of a behaviour
          MaxCrashes,             \* bound: kills and losses of power
          Unnamed,                \* intake content without a client_record_id
          Nobody                  \* no process, search or record

ASSUME BoundsAssumption ==
    /\ ConfiguredMaxAttempts \in Nat
    /\ DefaultMaxAttempts \in Nat \ {0}
    /\ MaxConflicts \in Nat \ {0}
    /\ MaxFaults \in Nat
    /\ MaxCrashes \in Nat
ASSUME ModelValuesAssumption ==
    /\ Nobody \notin Searches \cup RecordIds \cup Flushes
    /\ Unnamed \notin RecordIds
    /\ NoFile \notin RecordIds \cup {Unnamed}

\* productionMaxAttempts: an omitted or zero setting is the default.
MaxAttempts == IF ConfiguredMaxAttempts = 0 THEN DefaultMaxAttempts ELSE ConfiguredMaxAttempts

Verdicts == {"", "permanent", "attempts_exhausted"}

\* spool.Record: delivery context, retry state, terminal and removal markers.
\* place says which of the spool's two directories the file is in.
File == [epoch : Epochs, attempts : Nat, terminal : Verdicts,
         removal : BOOLEAN, place : {"active", "quarantine"}]

ASSUME NoFileAssumption == NoFile \notin File

VARIABLES served,      \* searches the router answered
          recorded,    \* searches told that their observation is recorded
          forfeited,   \* searches dropped for another installation's epoch
          exposed,     \* searches retired before their evidence was on disk
          owner,       \* the search each client_record_id was minted for
          sent,        \* submissions of a record since its file was created
          intake,      \* <miner root>/intake
          spool,       \* the spool directory and its quarantine
          conflicts,   \* epoch_conflicts.json
          stamp,       \* the target epoch in the flush stamp
          flushLock,   \* holder of flush.lock
          pass,        \* the memory of each flush process
          faults,      \* storage faults so far
          crashes      \* kills and losses of power so far

historyVars == <<served, recorded, forfeited, exposed, owner, sent>>
lockVars    == <<flushLock, crashes>>
vars == <<serverVars, historyVars, intake, spool, conflicts, stamp, lockVars, pass, faults>>

Steps == {"idle", "busy", "target", "participate", "stamp", "drop", "dropping", "promote",
          "promoting", "unlink", "drain", "draining", "mark", "settle", "retire"}
Answers == {"none", "satisfied", "permanent", "retry"}

\* The memory of a flush process.  queue are the records, and intake the files,
\* that it still has to look at; record and search are at work.
Memory == [step : Steps, epoch : Epochs \cup {NoEpoch}, intake : SUBSET Searches,
           queue : SUBSET RecordIds, search : Searches \cup {Nobody},
           record : RecordIds \cup {Nobody}, answer : Answers]

Idle == [step |-> "idle", epoch |-> NoEpoch, intake |-> {}, queue |-> {},
         search |-> Nobody, record |-> Nobody, answer |-> "none"]

TypeOK ==
    /\ ServerTypeOK
    /\ served \in SUBSET Searches /\ recorded \in SUBSET served
    /\ forfeited \in SUBSET Searches /\ exposed \in SUBSET Searches
    /\ owner \in [RecordIds -> Searches \cup {Nobody}]
    /\ sent \in [RecordIds -> Nat]
    /\ intake \in Directories(Searches, RecordIds \cup {Unnamed})
    /\ spool \in Directories(RecordIds, File)
    /\ conflicts \in SUBSET Epochs /\ Cardinality(conflicts) <= MaxConflicts
    /\ stamp \in Epochs \cup {NoEpoch}
    /\ flushLock \in Flushes \cup {Nobody}
    /\ pass \in [Flushes -> Memory]
    /\ faults \in 0 .. MaxFaults /\ crashes \in 0 .. MaxCrashes

\* Any of the searches may have been recorded by a release that minted no id.
Init ==
    /\ ServerInit
    /\ served \in SUBSET Searches /\ recorded = served
    /\ forfeited = {} /\ exposed = {}
    /\ owner = [id \in RecordIds |-> Nobody]
    /\ sent = [id \in RecordIds |-> 0]
    /\ intake = Settled([s \in Searches |-> IF s \in served THEN Unnamed ELSE NoFile])
    /\ spool = Settled([id \in RecordIds |-> NoFile])
    /\ conflicts = {} /\ stamp = NoEpoch
    /\ flushLock = Nobody
    /\ pass = [f \in Flushes |-> Idle]
    /\ faults = 0 /\ crashes = 0

Spend(n) == faults + n <= MaxFaults /\ faults' = faults + n

Fresh(id) == owner[id] = Nobody
IsActive(id) == spool.shown[id] # NoFile /\ spool.shown[id].place = "active"

-----------------------------------------------------------------------------
(* recordSearchForMining, of a search the router served while mining is    *)
(* on: writeIntake mints the id once and publishes the file durably.  A    *)
(* file that cannot be written is left at that.  The flush that a search   *)
(* starts comes whenever one begins (StartFlush); the epoch noted for the  *)
(* doctor is left out.                                                     *)

Search(s) ==
    /\ s \notin served
    /\ \E id \in RecordIds, outcome \in Outcomes :
        /\ Fresh(id)
        /\ Spend(Faults(outcome))
        /\ owner' = [owner EXCEPT ![id] = s]
        /\ intake' = Write(intake, s, id, outcome)
        /\ recorded' = IF outcome = "stored" THEN recorded \cup {s} ELSE recorded
    /\ served' = served \cup {s}
    /\ UNCHANGED <<serverVars, forfeited, exposed, sent, spool, conflicts, stamp, lockVars, pass>>

-----------------------------------------------------------------------------
(* flush: the lock and the target.                                         *)

\* tryFlushLock does not wait: a flush that finds the lock held leaves.
StartFlush(f) ==
    /\ pass[f].step = "idle"
    /\ IF flushLock = Nobody
       THEN flushLock' = f /\ pass' = [pass EXCEPT ![f].step = "target"]
       ELSE UNCHANGED flushLock /\ pass' = [pass EXCEPT ![f].step = "busy"]
    /\ UNCHANGED <<serverVars, historyVars, intake, spool, conflicts, stamp, faults, crashes>>

LeaveBusy(f) ==
    /\ pass[f].step = "busy"
    /\ pass' = [pass EXCEPT ![f] = Idle]
    /\ UNCHANGED <<serverVars, historyVars, intake, spool, conflicts, stamp, lockVars, faults>>

\* The stamp's answer when it is fresh: the server is not asked.
UseStamp(f) ==
    /\ pass[f].step = "target"
    /\ stamp # NoEpoch
    /\ pass' = [pass EXCEPT ![f].step = "drop", ![f].epoch = stamp]
    /\ UNCHANGED <<serverVars, historyVars, intake, spool, conflicts, stamp, lockVars, faults>>

AskTarget(f) ==
    /\ pass[f].step = "target"
    /\ target # NoEpoch
    /\ pass' = [pass EXCEPT ![f].step = "participate", ![f].epoch = target]
    /\ UNCHANGED <<serverVars, historyVars, intake, spool, conflicts, stamp, lockVars, faults>>

\* Nothing open, or the server could not answer: deliverOnly.
NoTarget(f) ==
    /\ pass[f].step = "target"
    /\ pass' = [pass EXCEPT ![f].step = "drain"]
    /\ UNCHANGED <<serverVars, historyVars, intake, spool, conflicts, stamp, lockVars, faults>>

\* SaveEpochConflict: when the set is full the oldest entry is evicted.  The
\* target a pass asked for never moves back, so the oldest is the smallest.
WithConflict(set, e) ==
    LET grown == set \cup {e}
    IN  IF Cardinality(grown) > MaxConflicts THEN grown \ {Min(grown)} ELSE grown

\* joinIfNeeded and ensure: join the epoch, or learn that another installation
\* holds it and write that down, or be refused or cut off and learn nothing.
\* The pass goes on in every case.
Participate(f) ==
    LET e == pass[f].epoch IN
    /\ pass[f].step = "participate"
    /\ \/ BindHere(e) /\ UNCHANGED <<conflicts, faults>>
       \/ /\ holder[e] = "elsewhere"
          /\ conflicts' = WithConflict(conflicts, e)
          /\ UNCHANGED <<holder, faults>>
       \/ UNCHANGED <<holder, conflicts, faults>>
    /\ pass' = [pass EXCEPT ![f].step = "stamp"]
    /\ UNCHANGED <<target, ledger, historyVars, intake, spool, stamp, lockVars>>

\* saveFlushStamp: a cache, whose failure stops nothing.
SaveStamp(f) ==
    /\ pass[f].step = "stamp"
    /\ \/ stamp' = pass[f].epoch /\ UNCHANGED faults
       \/ Spend(1) /\ UNCHANGED stamp
    /\ pass' = [pass EXCEPT ![f].step = "drop"]
    /\ UNCHANGED <<serverVars, historyVars, intake, spool, conflicts, lockVars>>

-----------------------------------------------------------------------------
(* flush: dropConflictedObservationsPastTarget.                            *)

\* Mutant: the current target itself is dropped.
IsDueInclusive(c, e) == c <= e

\* The conflicted epochs a pass on epoch e may act on.
IsDue(c, e) == c < e

BeginDrop(f) ==
    LET e   == pass[f].epoch
        due == {c \in conflicts : IsDue(c, e)}
    IN
    /\ pass[f].step = "drop"
    /\ \/ /\ due # {}
          /\ pass' = [pass EXCEPT ![f].step = "dropping",
                        ![f].queue = {id \in RecordIds :
                                        IsActive(id) /\ spool.shown[id].epoch \in due}]
          /\ UNCHANGED faults
       \/ /\ due # {}                       \* the spool cannot be opened or read
          /\ Spend(1)
          /\ pass' = [pass EXCEPT ![f].step = "promote"]
       \/ /\ due = {}
          /\ pass' = [pass EXCEPT ![f].step = "promote"]
          /\ UNCHANGED faults
    /\ UNCHANGED <<serverVars, historyVars, intake, spool, conflicts, stamp, lockVars>>

(***************************************************************************)
(* Spool.Remove.  A removal that was published and not synchronised is     *)
(* undone by writing the record back; that write may be stored, be         *)
(* published only, or fail.  Only "removed" returns no error.              *)
(***************************************************************************)
Removals == {"removed", "kept", "restored", "uncertain", "lost"}
RemovalFaults(how) == IF how = "removed" THEN 0 ELSE IF how \in {"kept", "restored"} THEN 1 ELSE 2

Removed(d, id, how) ==
    LET file     == d.shown[id]
        unlinked == Put(d, id, NoFile)
    IN  CASE how = "removed"   -> Sync(unlinked)
          [] how = "restored"  -> Sync(Put(unlinked, id, file))
          [] how = "uncertain" -> Put(unlinked, id, file)
          [] how = "lost"      -> unlinked
          [] OTHER             -> d

\* An error of one removal does not stop the others, and is forgotten.
DropOne(f, id) ==
    /\ pass[f].step = "dropping"
    /\ id \in pass[f].queue
    /\ \E how \in Removals :
        /\ Spend(RemovalFaults(how))
        /\ spool' = Removed(spool, id, how)
        /\ forfeited' = IF how \in {"kept", "restored"} THEN forfeited ELSE forfeited \cup {owner[id]}
    /\ pass' = [pass EXCEPT ![f].queue = @ \ {id}]
    /\ UNCHANGED <<serverVars, served, recorded, exposed, owner, sent, intake, conflicts, stamp,
                   lockVars>>

\* RemoveEpochConflicts, whatever became of the records.
ForgetConflicts(f) ==
    LET e == pass[f].epoch IN
    /\ pass[f].step = "dropping"
    /\ pass[f].queue = {}
    /\ \/ conflicts' = {c \in conflicts : ~IsDue(c, e)} /\ UNCHANGED faults
       \/ Spend(1) /\ UNCHANGED conflicts
    /\ pass' = [pass EXCEPT ![f].step = "promote"]
    /\ UNCHANGED <<serverVars, historyVars, intake, spool, stamp, lockVars>>

-----------------------------------------------------------------------------
(* flush: promoteIntake, one record at a time.                             *)

\* readIntake: the records this pass will look at; later ones wait.  When the
\* directory cannot be read the pass goes on to deliver.
ReadIntake(f) ==
    /\ pass[f].step = "promote"
    /\ \/ /\ pass' = [pass EXCEPT ![f].step = "promoting",
                        ![f].intake = {s \in Searches : intake.shown[s] # NoFile}]
          /\ UNCHANGED faults
       \/ /\ pass' = [pass EXCEPT ![f].step = "promoting", ![f].intake = {}]
          /\ Spend(1)
    /\ UNCHANGED <<serverVars, historyVars, intake, spool, conflicts, stamp, lockVars>>

\* A record of an earlier release gets its id, rewritten in place.  When the
\* rewrite reports an error this pass leaves the record alone.
NameIntake(f, s) ==
    /\ pass[f].step = "promoting"
    /\ s \in pass[f].intake
    /\ intake.shown[s] = Unnamed
    /\ \E id \in RecordIds, outcome \in Outcomes :
        /\ Fresh(id)
        /\ Spend(Faults(outcome))
        /\ owner' = [owner EXCEPT ![id] = s]
        /\ intake' = Write(intake, s, id, outcome)
        /\ pass' = IF outcome = "stored" THEN pass ELSE [pass EXCEPT ![f].intake = @ \ {s}]
    /\ UNCHANGED <<serverVars, served, recorded, forfeited, exposed, sent, spool, conflicts, stamp,
                   lockVars>>

NewFile(e) == [epoch |-> e, attempts |-> 0, terminal |-> "", removal |-> FALSE, place |-> "active"]

\* Mutant: an id found in the intake file is trusted to be on disk.
UnconfirmedIntake(d) == d

\* fsx.SyncDirectory on the intake directory, before anything is promoted: a
\* name published by an earlier pass may not have reached the disk.
ConfirmedIntake(d) == Sync(d)

\* Mutant: a replay does not retry the directory barrier.
EnqueuedUnsynced(d, id, e, outcome) ==
    IF d.shown[id] = NoFile THEN Write(d, id, NewFile(e), outcome) ELSE d

\* Mutant: a replay is spooled anew under the epoch of this pass.
EnqueuedAnew(d, id, e, outcome) == Write(d, id, NewFile(e), outcome)

\* Spool.Enqueue under epoch e: new evidence is published; known evidence keeps
\* its file, and an active one only retries the directory barrier.
Enqueued(d, id, e, outcome) ==
    IF d.shown[id] = NoFile THEN Write(d, id, NewFile(e), outcome)
    ELSE IF d.shown[id].place = "active" /\ outcome = "stored" THEN Sync(d)
    ELSE d

\* The intake file may go only when Enqueue returned no error.
SpoolIntake(f, s) ==
    LET id == intake.shown[s] IN
    /\ pass[f].step = "promoting"
    /\ s \in pass[f].intake
    /\ id \in RecordIds
    /\ \/ \E outcome \in Outcomes :
            /\ Spend(Faults(outcome))
            /\ intake' = ConfirmedIntake(intake)
            /\ spool' = Enqueued(spool, id, pass[f].epoch, outcome)
            /\ sent' = IF spool.shown[id] = NoFile THEN [sent EXCEPT ![id] = 0] ELSE sent
            /\ pass' = IF outcome = "stored"
                       THEN [pass EXCEPT ![f].step = "unlink", ![f].search = s]
                       ELSE [pass EXCEPT ![f].intake = @ \ {s}]
       \/ /\ Spend(1)                       \* the intake barrier fails
          /\ pass' = [pass EXCEPT ![f].intake = @ \ {s}]
          /\ UNCHANGED <<intake, spool, sent>>
    /\ UNCHANGED <<serverVars, served, recorded, forfeited, exposed, owner, conflicts, stamp,
                   lockVars>>

\* os.Remove, with no directory sync; it may fail.
UnlinkIntake(f) ==
    LET s == pass[f].search IN
    /\ pass[f].step = "unlink"
    /\ \/ intake' = Put(intake, s, NoFile) /\ UNCHANGED faults
       \/ Spend(1) /\ UNCHANGED intake
    /\ pass' = [pass EXCEPT ![f].step = "promoting", ![f].search = Nobody,
                            ![f].intake = @ \ {s}]
    /\ UNCHANGED <<serverVars, historyVars, spool, conflicts, stamp, lockVars>>

-----------------------------------------------------------------------------
(* flush: one Collector.drain.                                             *)

\* Pending: the active records, in one scan; none when the scan fails.
ReadPending(f) ==
    /\ \/ pass[f].step = "drain"
       \/ pass[f].step = "promoting" /\ pass[f].intake = {}
    /\ \/ /\ pass' = [pass EXCEPT ![f].step = "draining",
                                   ![f].queue = {id \in RecordIds : IsActive(id)}]
          /\ UNCHANGED faults
       \/ /\ pass' = [pass EXCEPT ![f].step = "draining", ![f].queue = {}]
          /\ Spend(1)
    /\ UNCHANGED <<serverVars, historyVars, intake, spool, conflicts, stamp, lockVars>>

\* The pass turns to record id; it will not look at it again.
Take(f, id, step, answer) ==
    pass' = [pass EXCEPT ![f].step = step, ![f].record = id, ![f].answer = answer,
                         ![f].queue = @ \ {id}]

\* Back to the queue, or on to the last step for the record.
Resume(f, step) ==
    pass' = [pass EXCEPT ![f].step = step, ![f].answer = "none",
                         ![f].record = IF step = "draining" THEN Nobody ELSE @]

\* Mutant: the acknowledgement marker is ignored.
UndecidedByReason(file) == file.terminal = ""

Undecided(file) == file.terminal = "" /\ ~file.removal

\* Mutant: only acknowledged records are cleaned up.
CleanUpAcknowledged(f, id) ==
    /\ pass[f].step = "draining"
    /\ id \in pass[f].queue
    /\ spool.shown[id].removal
    /\ Take(f, id, "settle", "none")
    /\ UNCHANGED <<serverVars, historyVars, intake, spool, conflicts, stamp, lockVars, faults>>

\* Terminal and acknowledged records are cleanup work, never submissions.
CleanUp(f, id) ==
    LET file == spool.shown[id] IN
    /\ pass[f].step = "draining"
    /\ id \in pass[f].queue
    /\ ~Undecided(file)
    /\ Take(f, id, IF file.terminal # "" THEN "retire" ELSE "settle", "none")
    /\ UNCHANGED <<serverVars, historyVars, intake, spool, conflicts, stamp, lockVars, faults>>

\* now < NextAttemptAt, which only a failed attempt sets.
WaitOut(f, id) ==
    LET file == spool.shown[id] IN
    /\ pass[f].step = "draining"
    /\ id \in pass[f].queue
    /\ Undecided(file)
    /\ file.attempts > 0
    /\ pass' = [pass EXCEPT ![f].queue = @ \ {id}]
    /\ UNCHANGED <<serverVars, historyVars, intake, spool, conflicts, stamp, lockVars, faults>>

\* Submitter.Submit: the capability is for the record's own epoch.  The answer
\* of a server that accepted may be lost or fail validation.
Submit(f, id) ==
    LET file == spool.shown[id] IN
    /\ pass[f].step = "draining"
    /\ id \in pass[f].queue
    /\ Undecided(file)
    /\ sent' = [sent EXCEPT ![id] = @ + 1]
    /\ \/ /\ holder[file.epoch] = "here"
          /\ Accept(id)
          /\ \E answer \in {"satisfied", "retry"} : Take(f, id, "mark", answer)
       \/ /\ holder[file.epoch] = "here"
          /\ Take(f, id, "mark", "permanent")
          /\ UNCHANGED ledger
       \/ Take(f, id, "mark", "retry") /\ UNCHANGED ledger
    /\ UNCHANGED <<target, holder, served, recorded, forfeited, exposed, owner, intake, spool,
                   conflicts, stamp, lockVars, faults>>

\* Mutant: a refused record is removed like an accepted one.
MarkedDiscarding(file, answer) ==
    CASE answer \in {"satisfied", "permanent"} -> [file EXCEPT !.removal = TRUE]
      [] OTHER -> [file EXCEPT !.attempts = @ + 1]

\* Mutant: a failed attempt is not counted.
MarkedUncounted(file, answer) ==
    CASE answer = "satisfied" -> [file EXCEPT !.removal = TRUE]
      [] answer = "permanent" -> [file EXCEPT !.terminal = "permanent"]
      [] OTHER -> file

\* What one answer makes of a record: deliver, markTerminal, scheduleRetry.
Marked(file, answer) ==
    CASE answer = "satisfied" -> [file EXCEPT !.removal = TRUE]
      [] answer = "permanent" -> [file EXCEPT !.attempts = @ + 1, !.terminal = "permanent"]
      [] OTHER -> [file EXCEPT !.attempts = @ + 1,
                               !.terminal = IF file.attempts + 1 >= MaxAttempts
                                            THEN "attempts_exhausted" ELSE ""]

\* Rewrite; on any error the pass leaves the record for the next one.
Mark(f) ==
    LET id  == pass[f].record
        new == Marked(spool.shown[id], pass[f].answer)
    IN
    /\ pass[f].step = "mark"
    /\ \E outcome \in Outcomes :
        /\ Spend(Faults(outcome))
        /\ spool' = Write(spool, id, new, outcome)
        /\ Resume(f, IF outcome # "stored" \/ Undecided(new) THEN "draining"
                     ELSE IF new.removal THEN "settle" ELSE "retire")
    /\ UNCHANGED <<serverVars, historyVars, intake, conflicts, stamp, lockVars>>

\* finishRemoval.
Settle(f) ==
    LET id == pass[f].record IN
    /\ pass[f].step = "settle"
    /\ \E how \in Removals :
        /\ Spend(RemovalFaults(how))
        /\ spool' = Removed(spool, id, how)
    /\ Resume(f, "draining")
    /\ UNCHANGED <<serverVars, historyVars, intake, conflicts, stamp, lockVars>>

\* Spool.Quarantine: the evidence is kept, out of the delivery path.
Retire(f) ==
    LET id == pass[f].record IN
    /\ pass[f].step = "retire"
    /\ \E outcome \in Outcomes :
        /\ Spend(Faults(outcome))
        /\ spool' = Write(spool, id, [spool.shown[id] EXCEPT !.place = "quarantine"], outcome)
        /\ exposed' = IF outcome = "unsynced" /\ NoFile \in spool.left[id]
                      THEN exposed \cup {owner[id]} ELSE exposed
    /\ Resume(f, "draining")
    /\ UNCHANGED <<serverVars, served, recorded, forfeited, owner, sent, intake, conflicts, stamp,
                   lockVars>>

\* The queue is done or the pass's context ended; or spool.Open failed.
EndFlush(f) ==
    /\ \/ pass[f].step = "draining" /\ UNCHANGED faults
       \/ pass[f].step \in {"promote", "drain"} /\ Spend(1)
    /\ pass' = [pass EXCEPT ![f] = Idle]
    /\ flushLock' = Nobody
    /\ UNCHANGED <<serverVars, historyVars, intake, spool, conflicts, stamp, crashes>>

-----------------------------------------------------------------------------
(* Failures outside the code: a killed flush, a loss of power.             *)

Kill(f) ==
    /\ pass[f].step \notin {"idle", "busy"}
    /\ crashes < MaxCrashes
    /\ crashes' = crashes + 1
    /\ pass' = [pass EXCEPT ![f] = Idle]
    /\ flushLock' = Nobody
    /\ UNCHANGED <<serverVars, historyVars, intake, spool, conflicts, stamp, faults>>

PowerLoss ==
    /\ crashes < MaxCrashes
    /\ crashes' = crashes + 1
    /\ pass' = [f \in Flushes |-> Idle]
    /\ flushLock' = Nobody
    /\ intake' \in AfterPowerLoss(intake)
    /\ spool' \in AfterPowerLoss(spool)
    /\ stamp' \in NoEpoch .. stamp      \* written without a sync
    /\ UNCHANGED <<serverVars, historyVars, conflicts, faults>>

-----------------------------------------------------------------------------
Server ==
    /\ OpenNextTarget \/ BindElsewhere
    /\ UNCHANGED <<historyVars, intake, spool, conflicts, stamp, lockVars, pass, faults>>

Flush(f) ==
    \/ StartFlush(f) \/ LeaveBusy(f) \/ UseStamp(f) \/ AskTarget(f) \/ NoTarget(f)
    \/ Participate(f) \/ SaveStamp(f)
    \/ BeginDrop(f) \/ ForgetConflicts(f) \/ \E id \in RecordIds : DropOne(f, id)
    \/ ReadIntake(f) \/ UnlinkIntake(f)
    \/ \E s \in Searches : NameIntake(f, s) \/ SpoolIntake(f, s)
    \/ ReadPending(f) \/ Mark(f) \/ Settle(f) \/ Retire(f) \/ EndFlush(f)
    \/ \E id \in RecordIds : CleanUp(f, id) \/ WaitOut(f, id) \/ Submit(f, id)

Next ==
    \/ \E s \in Searches : Search(s)
    \/ \E f \in Flushes : Flush(f) \/ Kill(f)
    \/ PowerLoss
    \/ Server

Spec == Init /\ [][Next]_vars

-----------------------------------------------------------------------------
(* Properties.                                                             *)

\* The evidence of search s is on this machine, in intake or in the spool.
Held == {s \in Searches : \/ intake.shown[s] # NoFile
                          \/ \E id \in RecordIds : owner[id] = s /\ spool.shown[id] # NoFile}
Accepted == {s \in Searches : \E id \in ledger : owner[id] = s}

\* The delivery path keeps the promise of ObservationCustody: every step of it
\* records, holds, delivers, releases or gives up as that specification allows.
Custody == INSTANCE ObservationCustody
               WITH held <- Held, accepted <- Accepted, givenup <- forfeited \cup exposed
Promise == Custody!Spec

\* Some name that holds the evidence of s is on disk.
OnDisk(s) == \/ NoFile \notin intake.left[s]
             \/ \E id \in RecordIds : owner[id] = s /\ NoFile \notin spool.left[id]

(* A search that was told "recorded" is never lost, and not by a loss of   *)
(* power either: until the server accepted it or it was forfeited, some    *)
(* name that holds its evidence is durable.  The order sync, enqueue,      *)
(* unlink of promoteIntake and the order mark, remove of the collector     *)
(* exist for this.  (exposed: a replay found in a quarantine file that a   *)
(* storage fault left unsynchronised, and whose intake file then goes.)    *)
KeptThroughPowerLoss == \A s \in recorded \ (Accepted \cup forfeited \cup exposed) : OnDisk(s)

(* One search is known to the spool and to the server under at most one    *)
(* client_record_id, also when an id was minted for a record of an earlier *)
(* release and its publication did not reach the disk: the server's        *)
(* idempotency is by that id, so two of them would count one search twice. *)
Published(id) == id \in ledger \/ spool.left[id] # {NoFile}

OneIdentity ==
    \A id1, id2 \in RecordIds :
        (Published(id1) /\ Published(id2) /\ owner[id1] = owner[id2]) => id1 = id2

(* A record leaves the spool only when the server has accepted it, when    *)
(* another installation holds its epoch and the server's target has passed *)
(* it, or when its own publication was undone and the intake file is still *)
(* there to be promoted again.  (exposed is the exception of               *)
(* KeptThroughPowerLoss.)                                                  *)
GivenUp(file) == holder[file.epoch] = "elsewhere" /\ file.epoch < target

LetGoOnlyForCause ==
    [][\A id \in RecordIds :
         (spool.shown[id] # NoFile /\ spool'.shown[id] = NoFile)
           => \/ id \in ledger \/ owner[id] \in exposed
              \/ GivenUp(spool.shown[id])
              \/ intake'.shown[owner[id]] # NoFile]_vars

(* What became durable of a record's fate stands, whatever crashes, faults *)
(* and replays follow: quarantined evidence stays on this machine, and     *)
(* evidence durably terminal or durably acknowledged is never submitted    *)
(* from that file again.                                                   *)
Durably(P(_), dir, id) == \A c \in dir.left[id] : c # NoFile /\ P(c)
IsQuarantined(c) == c.place = "quarantine"
IsDecided(c)     == c.terminal # "" \/ c.removal

VerdictStands ==
    [][\A id \in RecordIds :
         /\ Durably(IsQuarantined, spool, id) => Durably(IsQuarantined, spool', id)
         /\ Durably(IsDecided, spool, id) => sent'[id] = sent[id]]_vars

(* The slot and epoch a record was first spooled under stay its delivery   *)
(* context while it is owed: a replay of its intake file under a later     *)
(* target never moves evidence to another epoch.  (Evidence that was let   *)
(* go of, acknowledged or forfeited, may be spooled anew, and a removal    *)
(* that had not reached the disk brings the old file back.)                *)
ContextStands ==
    [][\A id \in RecordIds :
         (spool.shown[id] # NoFile /\ spool'.shown[id] # NoFile)
           => \/ spool'.shown[id].epoch = spool.shown[id].epoch
              \/ id \in ledger \/ owner[id] \in forfeited]_vars

(* The retry budget is durable: a record is submitted at most MaxAttempts  *)
(* times, plus once for every crash or storage fault that kept an attempt  *)
(* from being written down.                                                *)
AttemptBudget == \A id \in RecordIds : sent[id] <= MaxAttempts + faults + crashes

-----------------------------------------------------------------------------
(* Liveness.                                                               *)

(* Flushes keep being started, by searches, session hooks and people; a    *)
(* running flush takes its next step; the server sometimes has an open     *)
(* target and answers; a backoff ends.  A kill, a loss of power and a      *)
(* storage fault are bounded and nothing requires them.                    *)
Proceed(f) ==
    \/ Participate(f) \/ SaveStamp(f)
    \/ BeginDrop(f) \/ ForgetConflicts(f) \/ \E id \in RecordIds : DropOne(f, id)
    \/ ReadIntake(f) \/ UnlinkIntake(f)
    \/ \E s \in Searches : NameIntake(f, s) \/ SpoolIntake(f, s)
    \/ ReadPending(f) \/ Mark(f) \/ Settle(f) \/ Retire(f)

Fairness ==
    /\ WF_vars(OpenNextTarget /\ target = NoEpoch /\ Server)
    /\ \A f \in Flushes :
        /\ WF_vars(StartFlush(f)) /\ WF_vars(LeaveBusy(f)) /\ WF_vars(Proceed(f))
        /\ WF_vars(EndFlush(f))
        /\ SF_vars(UseStamp(f) \/ AskTarget(f))
        /\ \A id \in RecordIds : SF_vars(CleanUp(f, id) \/ Submit(f, id))

FairSpec == Spec /\ Fairness

\* Evidence of s that some flush still has to act on.
Waiting(s) == \/ intake.shown[s] # NoFile
              \/ \E id \in RecordIds : owner[id] = s /\ IsActive(id)

(* Every recorded observation is eventually through for good: delivered    *)
(* and removed, forfeited, or retired to quarantine.  No record waits      *)
(* forever, behind another or behind its own failures, and the ones that   *)
(* a loss of power brings back are worked off again.                       *)
EventuallyThrough == \A s \in Searches : <>[](s \in recorded => ~Waiting(s))
=============================================================================
