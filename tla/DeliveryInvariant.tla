--------------------------- MODULE DeliveryInvariant ---------------------------
(***************************************************************************)
(* The inductive invariants of Delivery: what the files, the disk and the  *)
(* memory of the running flush owe each other between any two steps.  IInv *)
(* is behind TypeOK and KeptThroughPowerLoss; FateInv adds what the        *)
(* identity, the retry budget and the fate of a record need.               *)
(***************************************************************************)
EXTENDS Delivery

\* An intake name only ever held ids minted for its search, and no spool file
\* exists for an id nobody minted.
Minted ==
    /\ \A s \in Searches : \A id \in intake.left[s] \cap RecordIds : owner[id] = s
    /\ \A id \in RecordIds : (\E c \in spool.left[id] : c # NoFile) => owner[id] # Nobody

\* A removal marker, on disk or only visible, follows the server's acceptance.
Acknowledged ==
    \A id \in RecordIds : (\E c \in spool.left[id] : c # NoFile /\ c.removal) => id \in ledger

\* Nothing is owed for the search of id any more.
Closed(s) == s \in Accepted \cup forfeited \cup exposed

\* Evidence shown in quarantine is on disk, unless nothing is owed for it.
FiledAway ==
    \A id \in RecordIds :
        (/\ spool.shown[id] # NoFile
         /\ spool.shown[id].place = "quarantine"
         /\ NoFile \in spool.left[id]) => Closed(owner[id])

\* A pass past the lock holds it.
HoldsLock(f) == pass[f].step \notin {"idle", "busy"} => flushLock = f

\* The records a pass still has to look at are in the spool, and so is the one
\* it is working on, which the server has accepted when it is to be removed.
AtWork(f) ==
    /\ pass[f].step \in {"dropping", "draining", "mark", "settle", "retire"} =>
         \A id \in pass[f].queue : spool.shown[id] # NoFile
    /\ pass[f].step \in {"mark", "settle", "retire"} =>
         /\ pass[f].record \in RecordIds \ pass[f].queue
         /\ spool.shown[pass[f].record] # NoFile
    /\ (pass[f].step = "settle" \/ (pass[f].step = "mark" /\ pass[f].answer = "satisfied")) =>
         pass[f].record \in ledger

\* The spool holds the evidence of s, on disk.
SpooledOnDisk(s) == \E id \in RecordIds : owner[id] = s /\ NoFile \notin spool.left[id]

\* An intake file is about to go only when its evidence is on disk elsewhere.
ReadyToUnlink(f) ==
    pass[f].step = "unlink" =>
        /\ pass[f].search \in Searches
        /\ SpooledOnDisk(pass[f].search) \/ Closed(pass[f].search)

\* A pass that may join, stamp, drop or spool has a target epoch.
HasTarget(f) ==
    pass[f].step \in {"participate", "stamp", "drop", "dropping", "promote", "promoting", "unlink"}
        => pass[f].epoch \in Epochs

PassSound(f) == HoldsLock(f) /\ HasTarget(f) /\ AtWork(f) /\ ReadyToUnlink(f)

Evidence ==
    /\ Coherent(intake) /\ Coherent(spool)
    /\ Minted /\ Acknowledged /\ FiledAway
    /\ KeptThroughPowerLoss

IInv == TypeOK /\ Evidence /\ \A f \in Flushes : PassSound(f)
-----------------------------------------------------------------------------
(* The fate of a record.                                                   *)

\* An id that reached the spool or the server is the only one of its search, whose
\* intake file holds no other.
Identified(id) ==
    Published(id) => /\ owner[id] \in served
                     /\ intake.left[owner[id]] \subseteq {id, NoFile}

\* An attempt that is on its way to the disk.
Attempting(id) == \E f \in Flushes : pass[f].step = "mark" /\ pass[f].record = id
Allowance(id)  == faults + crashes + IF Attempting(id) THEN 1 ELSE 0

\* Every undecided content the disk may bring back counts the attempts made, short
\* of one for every fault, crash and attempt under way.
Counted(id) ==
    /\ sent[id] <= MaxAttempts + faults + crashes
    /\ \A c \in spool.left[id] : c # NoFile /\ Undecided(c) =>
          c.attempts < MaxAttempts /\ sent[id] <= c.attempts + Allowance(id)

\* A record that a loss of power may take away is one that may go, or its intake file
\* stays.
Replayable(id) ==
    (spool.shown[id] # NoFile /\ NoFile \in spool.left[id]) =>
        \/ owner[id] \in exposed
        \/ /\ IsActive(id)
           /\ \/ id \in ledger
              \/ GivenUp(spool.shown[id])
              \/ NoFile \notin intake.left[owner[id]]

\* Whatever the disk may bring back of a record that is still owed has its context.
OneContext(id) ==
    \/ id \in ledger
    \/ owner[id] \in forfeited
    \/ \A c \in spool.left[id] : c # NoFile =>
          spool.shown[id] # NoFile /\ c.epoch = spool.shown[id].epoch

RecordSound(id) == Identified(id) /\ Counted(id) /\ Replayable(id) /\ OneContext(id)

\* A conflict was learned from the server, and nobody is ahead of its target.
InStep ==
    /\ \A c \in conflicts : holder[c] = "elsewhere"
    /\ stamp <= target
    /\ \A f \in Flushes : pass[f].epoch <= target

\* A pass works on active records; what it drops is another installation's, what it
\* submitted was undecided, and what it unlinks from the intake is in the spool.
Handles(f) ==
    /\ pass[f].step \in {"dropping", "draining", "mark", "settle", "retire"} =>
          \A id \in pass[f].queue : IsActive(id)
    /\ pass[f].step = "dropping" => \A id \in pass[f].queue : GivenUp(spool.shown[id])
    /\ pass[f].step \in {"mark", "settle", "retire"} => IsActive(pass[f].record)
    /\ pass[f].step = "mark" => Undecided(spool.shown[pass[f].record])
    /\ pass[f].step = "unlink" =>
          \E id \in RecordIds :
              /\ owner[id] = pass[f].search
              /\ spool.shown[id] # NoFile
              /\ NoFile \notin spool.left[id] \/ pass[f].search \in exposed

\* Only a served search has an intake file.
Unserved == \A s \in Searches \ served : intake.left[s] \subseteq {NoFile}

Fate ==
    /\ Unserved
    /\ \A id \in RecordIds : RecordSound(id)
    /\ OneIdentity /\ InStep
    /\ \A f \in Flushes : Handles(f)

FateInv == IInv /\ Fate
=============================================================================
