---------------------------- MODULE Delivery_proofs ----------------------------
(***************************************************************************)
(* Delivery keeps its type invariant, and keeps every recorded search      *)
(* through a loss of power, for every number of searches, flushes, record  *)
(* ids, epochs, faults and crashes.  What becomes of one record: its       *)
(* identity, its retry budget, its verdict and its delivery context stand, *)
(* and it is let go of only for a cause.                                   *)
(***************************************************************************)
EXTENDS DeliveryInvariant, FiniteSetTheorems, WellFoundedInduction, TLAPS

-----------------------------------------------------------------------------
(* What the operations of Directory do to one name, stated once: which     *)
(* content is visible afterwards and what a loss of power may leave.       *)

(* A settled directory leaves exactly what it shows.                       *)
LEMMA SettledFacts ==
    ASSUME NEW Names, NEW Contents, NEW shown \in [Names -> Contents \cup {NoFile}]
    PROVE  /\ Settled(shown) \in Directories(Names, Contents)
           /\ Settled(shown).shown = shown
           /\ \A m \in Names : Settled(shown).left[m] = {shown[m]}
<1> QED BY DEF Settled, Directories

(* A name operation without a barrier adds one possibility to its name and *)
(* leaves the others alone.                                                *)
LEMMA PutFacts ==
    ASSUME NEW Names, NEW Contents, NEW d \in Directories(Names, Contents),
           NEW n \in Names, NEW c \in Contents \cup {NoFile}
    PROVE  /\ Put(d, n, c) \in Directories(Names, Contents)
           /\ Put(d, n, c).shown[n] = c
           /\ Put(d, n, c).left[n] = d.left[n] \cup {c}
           /\ \A m \in Names \ {n} : /\ Put(d, n, c).shown[m] = d.shown[m]
                                    /\ Put(d, n, c).left[m] = d.left[m]
<1> QED BY DEF Put, Directories

(* The directory barrier leaves the visible contents and nothing else.     *)
LEMMA SyncFacts ==
    ASSUME NEW Names, NEW Contents, NEW d \in Directories(Names, Contents)
    PROVE  /\ Sync(d) \in Directories(Names, Contents)
           /\ \A m \in Names : /\ Sync(d).shown[m] = d.shown[m]
                               /\ Sync(d).left[m] = {d.shown[m]}
<1>1. d.shown \in [Names -> Contents \cup {NoFile}]
  BY DEF Directories
<1> QED BY <1>1, SettledFacts DEF Sync

(* A durable write that succeeds shows the content and settles every name. *)
LEMMA StoredFacts ==
    ASSUME NEW Names, NEW Contents, NEW d \in Directories(Names, Contents),
           NEW n \in Names, NEW c \in Contents \cup {NoFile}
    PROVE  LET e == Sync(Put(d, n, c)) IN
           /\ e \in Directories(Names, Contents)
           /\ e.shown[n] = c
           /\ \A m \in Names \ {n} : e.shown[m] = d.shown[m]
           /\ \A m \in Names : e.left[m] = {e.shown[m]}
<1> DEFINE put == Put(d, n, c)
<1>1. /\ put \in Directories(Names, Contents)
      /\ put.shown[n] = c
      /\ \A m \in Names \ {n} : put.shown[m] = d.shown[m]
  BY PutFacts
<1>2. /\ Sync(put) \in Directories(Names, Contents)
      /\ \A m \in Names : /\ Sync(put).shown[m] = put.shown[m]
                          /\ Sync(put).left[m] = {put.shown[m]}
  <2> HIDE DEF put
  <2> QED BY <1>1, SyncFacts
<1> QED BY <1>1, <1>2

-----------------------------------------------------------------------------
\* e differs from d in the name n, by contents of C, and is durable wherever d is.
Narrows(d, e, n, C) ==
    /\ e.shown[n] \in {d.shown[n]} \cup C
    /\ e.left[n] \subseteq d.left[n] \cup C
    /\ \A m \in DOMAIN d.shown \ {n} : /\ e.shown[m] = d.shown[m]
                                      /\ e.left[m] \subseteq d.left[m]

(* The barrier alone.                                                      *)
LEMMA SyncNarrows ==
    ASSUME NEW Names, NEW Contents, NEW d \in Directories(Names, Contents),
           Coherent(d), NEW n \in Names
    PROVE  /\ Sync(d) \in Directories(Names, Contents)
           /\ Coherent(Sync(d))
           /\ Narrows(d, Sync(d), n, {})
           /\ Sync(d).shown[n] = d.shown[n]
           /\ Sync(d).left[n] = {d.shown[n]}
<1>1. /\ DOMAIN d.shown = Names
      /\ Sync(d) \in Directories(Names, Contents) => DOMAIN Sync(d).shown = Names
  BY DEF Directories
<1>2. /\ Sync(d) \in Directories(Names, Contents)
      /\ \A m \in Names : /\ Sync(d).shown[m] = d.shown[m]
                          /\ Sync(d).left[m] = {d.shown[m]}
  BY SyncFacts
<1> QED BY <1>1, <1>2 DEF Coherent, Narrows

(* A name operation without a barrier.                                     *)
LEMMA PutNarrows ==
    ASSUME NEW Names, NEW Contents, NEW d \in Directories(Names, Contents),
           Coherent(d), NEW n \in Names, NEW c \in Contents \cup {NoFile}
    PROVE  /\ Put(d, n, c) \in Directories(Names, Contents)
           /\ Coherent(Put(d, n, c))
           /\ Narrows(d, Put(d, n, c), n, {c})
           /\ Put(d, n, c).shown[n] = c
           /\ Put(d, n, c).left[n] = d.left[n] \cup {c}
<1>1. /\ DOMAIN d.shown = Names
      /\ Put(d, n, c) \in Directories(Names, Contents) => DOMAIN Put(d, n, c).shown = Names
  BY DEF Directories
<1>2. /\ Put(d, n, c) \in Directories(Names, Contents)
      /\ Put(d, n, c).shown[n] = c
      /\ Put(d, n, c).left[n] = d.left[n] \cup {c}
      /\ \A m \in Names \ {n} : /\ Put(d, n, c).shown[m] = d.shown[m]
                               /\ Put(d, n, c).left[m] = d.left[m]
  BY PutFacts
<1> QED BY <1>1, <1>2 DEF Coherent, Narrows

(* A name operation and the barrier.                                       *)
LEMMA StoredNarrows ==
    ASSUME NEW Names, NEW Contents, NEW d \in Directories(Names, Contents),
           Coherent(d), NEW n \in Names, NEW c \in Contents \cup {NoFile}
    PROVE  LET e == Sync(Put(d, n, c)) IN
           /\ e \in Directories(Names, Contents)
           /\ Coherent(e)
           /\ Narrows(d, e, n, {c})
           /\ e.shown[n] = c
           /\ e.left[n] = {c}
<1> DEFINE e == Sync(Put(d, n, c))
<1>1. /\ DOMAIN d.shown = Names
      /\ e \in Directories(Names, Contents) => DOMAIN e.shown = Names
  BY DEF Directories
<1>2. /\ e \in Directories(Names, Contents)
      /\ e.shown[n] = c
      /\ \A m \in Names \ {n} : e.shown[m] = d.shown[m]
      /\ \A m \in Names : e.left[m] = {e.shown[m]}
  BY StoredFacts
<1>3. /\ Coherent(e)
      /\ Narrows(d, e, n, {c})
      /\ e.left[n] = {c}
  <2> HIDE DEF e
  <2> QED BY <1>1, <1>2 DEF Coherent, Narrows
<1> QED BY <1>2, <1>3

\* e is d after a durable write of c under the name n that ended in outcome.
Written(d, e, n, c, outcome) ==
    /\ Narrows(d, e, n, {c})
    /\ outcome = "stored" => e.shown[n] = c /\ e.left[n] = {c}
    /\ outcome = "unsynced" => e.shown[n] = c /\ e.left[n] = d.left[n] \cup {c}
    /\ outcome = "failed" => e.shown[n] = d.shown[n] /\ e.left[n] = d.left[n]

(* A durable write, whatever its outcome; what it guarantees is up to the  *)
(* outcome.                                                                *)
LEMMA WriteNarrows ==
    ASSUME NEW Names, NEW Contents, NEW d \in Directories(Names, Contents),
           Coherent(d), NEW n \in Names, NEW c \in Contents \cup {NoFile},
           NEW outcome \in Outcomes
    PROVE  /\ Write(d, n, c, outcome) \in Directories(Names, Contents)
           /\ Coherent(Write(d, n, c, outcome))
           /\ Written(d, Write(d, n, c, outcome), n, c, outcome)
<1>1. CASE outcome = "stored"
  <2>1. Write(d, n, c, outcome) = Sync(Put(d, n, c))
    BY <1>1 DEF Write
  <2> QED BY SMTT(40), <1>1, <2>1, StoredNarrows DEF Written
<1>2. CASE outcome = "unsynced"
  <2>1. Write(d, n, c, outcome) = Put(d, n, c)
    BY <1>2 DEF Write
  <2> QED BY SMTT(40), <1>2, <2>1, PutNarrows DEF Written
<1>3. CASE outcome = "failed"
  <2>1. Write(d, n, c, outcome) = d
    BY <1>3 DEF Write
  <2> QED BY <1>3, <2>1 DEF Narrows, Written
<1> QED BY <1>1, <1>2, <1>3 DEF Outcomes

-----------------------------------------------------------------------------
(* A loss of power leaves one of the possibilities of every name, settled. *)
LEMMA PowerLossFacts ==
    ASSUME NEW Names, NEW Contents, NEW d \in Directories(Names, Contents),
           NEW e \in AfterPowerLoss(d)
    PROVE  /\ e \in Directories(Names, Contents)
           /\ Coherent(e)
           /\ \A m \in Names : e.shown[m] \in d.left[m] /\ e.left[m] = {e.shown[m]}
<1>1. DOMAIN d.shown = Names
  BY DEF Directories
<1>2. PICK shown \in [Names -> UNION {d.left[n] : n \in DOMAIN d.left}] :
          e = Settled(shown) /\ \A m \in Names : shown[m] \in d.left[m]
  BY <1>1 DEF AfterPowerLoss
<1>3. shown \in [Names -> Contents \cup {NoFile}]
  BY <1>2 DEF Directories
<1>4. /\ e \in Directories(Names, Contents)
      /\ e.shown = shown
      /\ \A m \in Names : e.left[m] = {shown[m]}
  BY <1>2, <1>3, SettledFacts
<1> QED BY <1>2, <1>4 DEF Coherent, Directories

-----------------------------------------------------------------------------
(* What the invariant says of one process.                                 *)

(* While a flush is past the lock every other one is idle or leaving.      *)
LEMMA OneAtWork ==
    ASSUME IInv, NEW f \in Flushes, pass[f].step \notin {"idle", "busy"},
           NEW g \in Flushes \ {f}
    PROVE  pass[g].step \in {"idle", "busy"}
<1> QED BY DEF IInv, PassSound, HoldsLock

(* A process at rest has no obligations.                                   *)
LEMMA RestIsSound ==
    ASSUME NEW f \in Flushes, pass[f].step \in {"idle", "busy"}
    PROVE  PassSound(f)
<1> QED BY DEF PassSound, HoldsLock, HasTarget, AtWork, ReadyToUnlink

(* What has been given up or accepted stays so.                            *)
LEMMA ClosedStays ==
    ASSUME TypeOK, ledger \subseteq ledger', forfeited \subseteq forfeited',
           exposed \subseteq exposed',
           \A id \in RecordIds : owner[id] # Nobody => owner'[id] = owner[id],
           NEW s \in Searches, Closed(s)
    PROVE  Closed(s)'
<1>1. Nobody \notin Searches
  BY ModelValuesAssumption
<1> QED BY <1>1 DEF Closed, Accepted, TypeOK, ServerTypeOK

-----------------------------------------------------------------------------
(* Evidence survives a step that changes one record of the spool, if every *)
(* content it adds is minted and honestly marked, and if it removes the    *)
(* record only when nothing is owed for it.                                *)
LEMMA SpoolStep ==
    ASSUME IInv, TypeOK',
           NEW id \in RecordIds, NEW C,
           Coherent(spool'), Narrows(spool, spool', id, C),
           Coherent(intake'), \A s \in Searches : intake'.left[s] \subseteq intake.left[s],
           recorded' = recorded, owner' = owner, ledger \subseteq ledger',
           forfeited \subseteq forfeited', exposed \subseteq exposed',
           \A c \in C : c # NoFile => owner[id] # Nobody /\ (c.removal => id \in ledger'),
           NoFile \in C => Closed(owner[id])',
           (/\ spool'.shown[id] # NoFile
            /\ spool'.shown[id].place = "quarantine"
            /\ NoFile \in spool'.left[id]) => Closed(owner[id])'
    PROVE  Evidence'
<1>1. DOMAIN spool.shown = RecordIds
  BY DEF IInv, TypeOK, Directories
<1>2. \A n \in RecordIds \ {id} : /\ spool'.shown[n] = spool.shown[n]
                                  /\ spool'.left[n] \subseteq spool.left[n]
  BY <1>1 DEF Narrows
<1>3. spool'.left[id] \subseteq spool.left[id] \cup C
  BY DEF Narrows
<1>4. \A s \in Searches : Closed(s) => Closed(s)'
  BY ClosedStays DEF IInv
<1>5. Minted'
  <2>1. \A s \in Searches : \A i \in intake'.left[s] \cap RecordIds : owner'[i] = s
    BY DEF IInv, Evidence, Minted
  <2>2. ASSUME NEW n \in RecordIds, NEW c \in spool'.left[n], c # NoFile
        PROVE  owner'[n] # Nobody
    <3>1. CASE n = id
      BY <1>3, <2>2, <3>1 DEF IInv, Evidence, Minted
    <3>2. CASE n # id
      BY <1>2, <2>2, <3>2 DEF IInv, Evidence, Minted
    <3> QED BY <3>1, <3>2
  <2> QED BY <2>1, <2>2 DEF Minted
<1>6. Acknowledged'
  <2>1. ASSUME NEW n \in RecordIds, NEW c \in spool'.left[n], c # NoFile, c.removal
        PROVE  n \in ledger'
    <3>1. CASE n = id
      BY <1>3, <2>1, <3>1 DEF IInv, Evidence, Acknowledged
    <3>2. CASE n # id
      BY <1>2, <2>1, <3>2 DEF IInv, Evidence, Acknowledged
    <3> QED BY <3>1, <3>2
  <2> QED BY <2>1 DEF Acknowledged
<1>7. FiledAway'
  <2>1. ASSUME NEW n \in RecordIds, spool'.shown[n] # NoFile,
               spool'.shown[n].place = "quarantine", NoFile \in spool'.left[n]
        PROVE  Closed(owner[n])'
    <3>1. CASE n = id
      BY <2>1, <3>1
    <3>2. CASE n # id
      <4>1. /\ spool.shown[n] # NoFile /\ spool.shown[n].place = "quarantine"
            /\ NoFile \in spool.left[n]
            /\ spool.shown[n] \in spool.left[n]
        BY <1>1, <1>2, <2>1, <3>2 DEF IInv, Evidence, Coherent
      <4>2. Closed(owner[n]) /\ owner[n] \in Searches
        BY <4>1 DEF IInv, Evidence, FiledAway, Minted, TypeOK
      <4> QED BY <1>4, <4>2 DEF Closed, Accepted
    <3> QED BY <3>1, <3>2
  <2> QED BY <2>1 DEF FiledAway
<1>8. KeptThroughPowerLoss'
  <2>1. ASSUME NEW s \in recorded', ~Closed(s)'
        PROVE  OnDisk(s)'
    <3>1. s \in Searches /\ s \in recorded
      BY DEF IInv, TypeOK
    <3>2. OnDisk(s)
      BY <1>4, <2>1, <3>1 DEF IInv, Evidence, KeptThroughPowerLoss, Closed
    <3>3. CASE NoFile \notin intake.left[s]
      BY <3>1, <3>3 DEF OnDisk
    <3>4. ASSUME NEW n \in RecordIds, owner[n] = s, NoFile \notin spool.left[n]
          PROVE  OnDisk(s)'
      <4>1. NoFile \notin spool'.left[n]
        <5>1. CASE n = id
          BY <1>3, <2>1, <3>4, <5>1
        <5>2. CASE n # id
          BY <1>2, <3>4, <5>2
        <5> QED BY <5>1, <5>2
      <4> QED BY <3>4, <4>1 DEF OnDisk
    <3> QED BY <3>2, <3>3, <3>4 DEF OnDisk
  <2> QED BY <2>1 DEF KeptThroughPowerLoss, Closed
<1> QED BY <1>5, <1>6, <1>7, <1>8 DEF Evidence

(* Evidence survives a step that changes one file of the intake, if the    *)
(* ids it adds are minted for that search and the search, when recorded,   *)
(* is still on disk afterwards.                                            *)
LEMMA IntakeStep ==
    ASSUME IInv, TypeOK',
           NEW s \in Searches, NEW C,
           Coherent(intake'), Narrows(intake, intake', s, C),
           spool' = spool, ledger' = ledger, forfeited' = forfeited, exposed' = exposed,
           \A id \in RecordIds : owner[id] # Nobody => owner'[id] = owner[id],
           recorded' \subseteq recorded \cup {s},
           \A id \in C \cap RecordIds : owner'[id] = s,
           s \in recorded' /\ ~Closed(s)' => OnDisk(s)'
    PROVE  Evidence'
<1>1. DOMAIN intake.shown = Searches
  BY DEF IInv, TypeOK, Directories
<1>2. \A n \in Searches \ {s} : intake'.left[n] \subseteq intake.left[n]
  BY <1>1 DEF Narrows
<1>3. intake'.left[s] \subseteq intake.left[s] \cup C
  BY DEF Narrows
<1>4. \A n \in Searches : Closed(n) => Closed(n)'
  BY ClosedStays DEF IInv
<1>5. Minted'
  <2>1. ASSUME NEW n \in Searches, NEW id \in intake'.left[n] \cap RecordIds
        PROVE  owner'[id] = n
    <3>1. CASE id \in intake.left[n]
      <4>1. owner[id] = n /\ n # Nobody
        BY <2>1, <3>1, ModelValuesAssumption DEF IInv, Evidence, Minted
      <4> QED BY <2>1, <4>1
    <3>2. CASE id \notin intake.left[n]
      BY <1>2, <1>3, <2>1, <3>2
    <3> QED BY <3>1, <3>2
  <2>2. \A id \in RecordIds : (\E c \in spool'.left[id] : c # NoFile) => owner'[id] # Nobody
    BY DEF IInv, Evidence, Minted
  <2> QED BY <2>1, <2>2 DEF Minted
<1>6. Acknowledged'
  BY DEF IInv, Evidence, Acknowledged
<1>7. FiledAway'
  <2>1. ASSUME NEW n \in RecordIds, spool.shown[n] # NoFile,
               spool.shown[n].place = "quarantine", NoFile \in spool.left[n]
        PROVE  Closed(owner[n])'
    <3>1. spool.shown[n] \in spool.left[n]
      BY DEF IInv, TypeOK, Directories, Evidence, Coherent
    <3>2. Closed(owner[n]) /\ owner[n] \in Searches /\ owner'[n] = owner[n]
      BY <2>1, <3>1 DEF IInv, Evidence, FiledAway, Minted, TypeOK
    <3> QED BY <1>4, <3>2 DEF Closed, Accepted
  <2> QED BY <2>1 DEF FiledAway
<1>8. KeptThroughPowerLoss'
  <2>1. ASSUME NEW n \in recorded', ~Closed(n)', n # s
        PROVE  OnDisk(n)'
    <3>1. n \in Searches /\ n \in recorded /\ n # Nobody
      BY <2>1, ModelValuesAssumption DEF IInv, TypeOK
    <3>2. OnDisk(n)
      BY <1>4, <2>1, <3>1 DEF IInv, Evidence, KeptThroughPowerLoss, Closed
    <3> QED BY <1>2, <2>1, <3>1, <3>2 DEF OnDisk
  <2> QED BY <2>1 DEF KeptThroughPowerLoss, Closed
<1> QED BY <1>5, <1>6, <1>7, <1>8 DEF IInv, Evidence, Coherent

(* Evidence survives a step that touches no file and forgets nothing.      *)
LEMMA QuietStep ==
    ASSUME IInv, TypeOK', UNCHANGED <<intake, spool, recorded, owner>>,
           ledger \subseteq ledger', forfeited' = forfeited, exposed' = exposed
    PROVE  Evidence'
<1>1. \A s \in Searches : Closed(s) => Closed(s)'
  BY ClosedStays DEF IInv
<1>2. Minted' /\ Acknowledged'
  BY DEF IInv, Evidence, Minted, Acknowledged
<1>3. FiledAway'
  <2>1. ASSUME NEW n \in RecordIds, spool.shown[n] # NoFile,
               spool.shown[n].place = "quarantine", NoFile \in spool.left[n]
        PROVE  Closed(owner[n])'
    <3>1. spool.shown[n] \in spool.left[n]
      BY DEF IInv, TypeOK, Directories, Evidence, Coherent
    <3>2. Closed(owner[n]) /\ owner[n] \in Searches
      BY <2>1, <3>1 DEF IInv, Evidence, FiledAway, Minted, TypeOK
    <3> QED BY <1>1, <3>2 DEF Closed, Accepted
  <2> QED BY <2>1 DEF FiledAway
<1>4. KeptThroughPowerLoss'
  <2>1. ASSUME NEW n \in recorded, ~Closed(n)'
        PROVE  OnDisk(n)
    BY <1>1, <2>1 DEF IInv, TypeOK, Evidence, KeptThroughPowerLoss, Closed
  <2> QED BY <2>1 DEF KeptThroughPowerLoss, Closed, OnDisk
<1> QED BY <1>2, <1>3, <1>4 DEF IInv, Evidence, Coherent

(* A step of the flush past the lock leaves the others sound.              *)
LEMMA OthersStep ==
    ASSUME IInv, NEW f \in Flushes, pass[f].step \notin {"idle", "busy"},
           \A g \in Flushes \ {f} : pass'[g] = pass[g]
    PROVE  \A g \in Flushes \ {f} : PassSound(g)'
<1>1. \A g \in Flushes \ {f} : pass[g].step \in {"idle", "busy"}
  BY OneAtWork
<1> QED BY <1>1 DEF PassSound, HoldsLock, HasTarget, AtWork, ReadyToUnlink

(* A process that a step does not touch stays sound, if the step leaves    *)
(* the spool alone.                                                        *)
LEMMA UntouchedIsSound ==
    ASSUME IInv, NEW g \in Flushes, pass'[g] = pass[g],
           flushLock' = flushLock, spool' = spool, ledger \subseteq ledger',
           forfeited' = forfeited, exposed' = exposed,
           \A id \in RecordIds : owner[id] # Nobody => owner'[id] = owner[id]
    PROVE  PassSound(g)'
<1>1. PassSound(g) /\ TypeOK
  BY DEF IInv
<1>2. HoldsLock(g)' /\ HasTarget(g)' /\ AtWork(g)'
  BY <1>1 DEF PassSound, HoldsLock, HasTarget, AtWork
<1>3. ReadyToUnlink(g)'
  <2>1. SUFFICES ASSUME pass[g].step = "unlink"
                 PROVE  /\ pass[g].search \in Searches
                        /\ SpooledOnDisk(pass[g].search)' \/ Closed(pass[g].search)'
    BY DEF ReadyToUnlink, SpooledOnDisk, Closed, Accepted
  <2>2. /\ pass[g].search \in Searches /\ pass[g].search # Nobody
        /\ SpooledOnDisk(pass[g].search) \/ Closed(pass[g].search)
    BY <1>1, <2>1, ModelValuesAssumption DEF PassSound, ReadyToUnlink
  <2>3. Closed(pass[g].search) => \A s \in {pass[g].search} : Closed(s)'
    BY <1>1, <2>2, ClosedStays
  <2> QED BY <2>2, <2>3 DEF SpooledOnDisk, Closed, Accepted
<1> QED BY <1>2, <1>3 DEF PassSound

-----------------------------------------------------------------------------
(* The initial states.                                                     *)
LEMMA InitIsSound == Init => IInv
<1>1. SUFFICES ASSUME Init PROVE IInv
  OBVIOUS
<1>2. TypeOK
  <2>1. /\ [s \in Searches |-> IF s \in served THEN Unnamed ELSE NoFile]
              \in [Searches -> (RecordIds \cup {Unnamed}) \cup {NoFile}]
        /\ [id \in RecordIds |-> NoFile] \in [RecordIds -> File \cup {NoFile}]
    OBVIOUS
  <2>2. intake \in Directories(Searches, RecordIds \cup {Unnamed})
    BY <1>1, <2>1, SettledFacts DEF Init
  <2>3. spool \in Directories(RecordIds, File)
    BY <1>1, <2>1, SettledFacts DEF Init
  <2>4. Cardinality({}) = 0
    BY FS_EmptySet
  <2>5. pass \in [Flushes -> Memory]
    BY <1>1 DEF Init, Idle, Memory, Steps, Answers
  <2> QED BY <1>1, <2>2, <2>3, <2>4, <2>5, BoundsAssumption, MaxEpochAssumption
          DEF Init, TypeOK, ServerInit, ServerTypeOK, Bindings
<1>3. Evidence
  <2>1. /\ \A s \in Searches : intake.left[s] = {intake.shown[s]}
        /\ \A s \in Searches : intake.shown[s] = IF s \in served THEN Unnamed ELSE NoFile
        /\ \A id \in RecordIds : spool.shown[id] = NoFile /\ spool.left[id] = {NoFile}
        /\ DOMAIN intake.shown = Searches /\ DOMAIN spool.shown = RecordIds
    BY <1>1 DEF Init, Settled
  <2>2. Coherent(intake) /\ Coherent(spool)
    BY <2>1 DEF Coherent
  <2>3. Minted
    <3>1. \A s \in Searches : intake.left[s] \cap RecordIds = {}
      <4>1. \A s \in Searches : intake.shown[s] \in {Unnamed, NoFile}
        BY <2>1
      <4> QED BY <2>1, <4>1, ModelValuesAssumption
    <3> QED BY <2>1, <3>1 DEF Minted
  <2>5. Acknowledged /\ FiledAway
    <3>1. \A id \in RecordIds : ~\E c \in spool.left[id] : c # NoFile
      BY <2>1
    <3>2. \A id \in RecordIds : spool.shown[id] = NoFile
      BY <2>1
    <3> QED BY <3>1, <3>2, Zenon DEF Acknowledged, FiledAway
  <2>4. KeptThroughPowerLoss
    BY <1>1, <2>1, ModelValuesAssumption DEF KeptThroughPowerLoss, OnDisk, Init
  <2> QED BY <2>2, <2>3, <2>4, <2>5 DEF Evidence
<1>4. \A f \in Flushes : PassSound(f)
  BY <1>1 DEF Init, Idle, PassSound, HoldsLock, HasTarget, AtWork, ReadyToUnlink
<1> QED BY <1>2, <1>3, <1>4 DEF IInv

-----------------------------------------------------------------------------
(* The steps that touch no file of the intake or the spool.                *)

LEMMA StartFlushIsSound ==
    ASSUME IInv, NEW f \in Flushes, StartFlush(f)
    PROVE  IInv'
<1>1. TypeOK'
  BY DEF IInv, TypeOK, ServerTypeOK, StartFlush, Memory, Steps, serverVars, historyVars
<1>2. Evidence'
  BY <1>1, QuietStep DEF StartFlush, serverVars, historyVars
<1>3. ASSUME NEW g \in Flushes PROVE PassSound(g)'
  <2>1. CASE g = f
    <3>1. \/ pass'[g].step = "target" /\ flushLock' = g
          \/ pass'[g].step = "busy"
      BY <2>1 DEF IInv, TypeOK, StartFlush, Memory
    <3> QED BY <3>1 DEF PassSound, HoldsLock, HasTarget, AtWork, ReadyToUnlink
  <2>2. CASE g # f /\ flushLock = Nobody
    <3>1. pass[g].step \in {"idle", "busy"} /\ pass'[g] = pass[g]
      BY <2>2, ModelValuesAssumption DEF IInv, TypeOK, PassSound, HoldsLock, StartFlush
    <3> QED BY <3>1 DEF PassSound, HoldsLock, HasTarget, AtWork, ReadyToUnlink
  <2>3. CASE g # f /\ flushLock # Nobody
    BY <2>3, UntouchedIsSound DEF IInv, TypeOK, StartFlush, serverVars, historyVars
  <2> QED BY <2>1, <2>2, <2>3
<1> QED BY <1>1, <1>2, <1>3 DEF IInv

LEMMA LeaveBusyIsSound ==
    ASSUME IInv, NEW f \in Flushes, LeaveBusy(f)
    PROVE  IInv'
<1>1. TypeOK'
  BY DEF IInv, TypeOK, ServerTypeOK, LeaveBusy, Memory, Steps, Answers, Idle, serverVars,
         historyVars, lockVars
<1>2. Evidence'
  BY <1>1, QuietStep DEF LeaveBusy, serverVars, historyVars
<1>3. ASSUME NEW g \in Flushes PROVE PassSound(g)'
  <2>1. CASE g = f
    BY <2>1 DEF IInv, TypeOK, LeaveBusy, Idle, PassSound, HoldsLock, HasTarget, AtWork, ReadyToUnlink
  <2>2. CASE g # f
    BY <2>2, UntouchedIsSound DEF IInv, TypeOK, LeaveBusy, serverVars, historyVars, lockVars
  <2> QED BY <2>1, <2>2
<1> QED BY <1>1, <1>2, <1>3 DEF IInv

(* A step of the flush past the lock that touches no file and forgets      *)
(* nothing preserves the invariant if the pass keeps its own obligations.  *)
LEMMA QuietPassStep ==
    ASSUME IInv, TypeOK', NEW f \in Flushes, pass[f].step \notin {"idle", "busy"},
           \A g \in Flushes \ {f} : pass'[g] = pass[g],
           UNCHANGED <<flushLock, intake, spool, recorded, forfeited, exposed, owner>>,
           ledger \subseteq ledger',
           HasTarget(f)', AtWork(f)', pass'[f].step # "unlink"
    PROVE  IInv'
<1>1. Evidence'
  BY QuietStep
<1>2. PassSound(f)'
  BY DEF IInv, PassSound, HoldsLock, ReadyToUnlink
<1>3. \A g \in Flushes \ {f} : PassSound(g)'
  BY OthersStep
<1> QED BY <1>1, <1>2, <1>3 DEF IInv

LEMMA UseStampIsSound ==
    ASSUME IInv, NEW f \in Flushes, UseStamp(f)
    PROVE  IInv'
<1>1. TypeOK'
  <2>1. pass' \in [Flushes -> Memory]
    <3>1. stamp \in Epochs \cup {NoEpoch} /\ pass \in [Flushes -> Memory]
      BY DEF IInv, TypeOK, ServerTypeOK
    <3>2. [pass[f] EXCEPT !.step = "drop", !.epoch = stamp] \in Memory
      BY <3>1 DEF Memory, Steps
    <3>3. pass' = [pass EXCEPT ![f] = [pass[f] EXCEPT !.step = "drop", !.epoch = stamp]]
      BY <3>1 DEF UseStamp
    <3> QED BY <3>1, <3>2, <3>3
  <2> QED BY <2>1 DEF IInv, TypeOK, ServerTypeOK, UseStamp, serverVars, historyVars, lockVars
<1>2. /\ pass[f].step \notin {"idle", "busy"} /\ pass'[f].step # "unlink"
      /\ HasTarget(f)' /\ AtWork(f)'
  <2>1. stamp \in Epochs
    BY DEF IInv, TypeOK, ServerTypeOK, UseStamp
  <2> QED BY <2>1 DEF IInv, TypeOK, Memory, UseStamp, HasTarget, AtWork
<1>3. \A g \in Flushes \ {f} : pass'[g] = pass[g]
  BY DEF IInv, TypeOK, UseStamp
<1> QED BY <1>1, <1>2, <1>3, QuietPassStep DEF UseStamp, serverVars, historyVars, lockVars

LEMMA AskTargetIsSound ==
    ASSUME IInv, NEW f \in Flushes, AskTarget(f)
    PROVE  IInv'
<1>1. TypeOK'
  <2>1. pass' \in [Flushes -> Memory]
    <3>1. target \in Epochs \cup {NoEpoch} /\ pass \in [Flushes -> Memory]
      BY DEF IInv, TypeOK, ServerTypeOK
    <3>2. [pass[f] EXCEPT !.step = "participate", !.epoch = target] \in Memory
      BY <3>1 DEF Memory, Steps
    <3>3. pass' = [pass EXCEPT ![f] = [pass[f] EXCEPT !.step = "participate", !.epoch = target]]
      BY <3>1 DEF AskTarget
    <3> QED BY <3>1, <3>2, <3>3
  <2> QED BY <2>1 DEF IInv, TypeOK, ServerTypeOK, AskTarget, serverVars, historyVars, lockVars
<1>2. /\ pass[f].step \notin {"idle", "busy"} /\ pass'[f].step # "unlink"
      /\ HasTarget(f)' /\ AtWork(f)'
  <2>1. target \in Epochs
    BY DEF IInv, TypeOK, ServerTypeOK, AskTarget
  <2> QED BY <2>1 DEF IInv, TypeOK, Memory, AskTarget, HasTarget, AtWork
<1>3. \A g \in Flushes \ {f} : pass'[g] = pass[g]
  BY DEF IInv, TypeOK, AskTarget
<1> QED BY <1>1, <1>2, <1>3, QuietPassStep DEF AskTarget, serverVars, historyVars, lockVars

LEMMA NoTargetIsSound ==
    ASSUME IInv, NEW f \in Flushes, NoTarget(f)
    PROVE  IInv'
<1>1. TypeOK'
  BY DEF IInv, TypeOK, ServerTypeOK, NoTarget, Memory, Steps, Answers, serverVars, historyVars,
         lockVars
<1>2. /\ pass[f].step \notin {"idle", "busy"} /\ pass'[f].step # "unlink"
      /\ HasTarget(f)' /\ AtWork(f)'
  BY DEF IInv, TypeOK, Memory, NoTarget, PassSound, HasTarget, AtWork
<1>3. \A g \in Flushes \ {f} : pass'[g] = pass[g]
  BY DEF IInv, TypeOK, NoTarget
<1> QED BY <1>1, <1>2, <1>3, QuietPassStep DEF NoTarget, serverVars, historyVars, lockVars

LEMMA SaveStampIsSound ==
    ASSUME IInv, NEW f \in Flushes, SaveStamp(f)
    PROVE  IInv'
<1>1. TypeOK'
  BY DEF IInv, TypeOK, ServerTypeOK, SaveStamp, Memory, Steps, Answers, Spend, serverVars,
         historyVars, lockVars
<1>2. /\ pass[f].step \notin {"idle", "busy"} /\ pass'[f].step # "unlink"
      /\ HasTarget(f)' /\ AtWork(f)'
  BY DEF IInv, TypeOK, Memory, SaveStamp, PassSound, HasTarget, AtWork
<1>3. \A g \in Flushes \ {f} : pass'[g] = pass[g]
  BY DEF IInv, TypeOK, SaveStamp
<1> QED BY <1>1, <1>2, <1>3, QuietPassStep DEF SaveStamp, serverVars, historyVars, lockVars

LEMMA BeginDropIsSound ==
    ASSUME IInv, NEW f \in Flushes, BeginDrop(f)
    PROVE  IInv'
<1>1. TypeOK'
  BY DEF IInv, TypeOK, ServerTypeOK, BeginDrop, Memory, Steps, Answers, Spend, serverVars,
         historyVars, lockVars
<1>2. /\ pass[f].step \notin {"idle", "busy"} /\ pass'[f].step # "unlink"
      /\ HasTarget(f)' /\ AtWork(f)'
  <2>1. /\ pass'[f].step \in {"dropping", "promote"}
        /\ pass'[f].step \in {"dropping", "draining"} =>
              \A id \in pass'[f].queue : spool.shown[id] # NoFile
    BY DEF IInv, TypeOK, Memory, BeginDrop, IsActive
  <2>2. HasTarget(f)'
    BY DEF IInv, TypeOK, Memory, BeginDrop, PassSound, HasTarget
  <2> QED BY <2>1, <2>2 DEF BeginDrop, AtWork
<1>3. \A g \in Flushes \ {f} : pass'[g] = pass[g]
  BY DEF IInv, TypeOK, BeginDrop
<1> QED BY <1>1, <1>2, <1>3, QuietPassStep DEF BeginDrop, serverVars, historyVars, lockVars

LEMMA ReadIntakeIsSound ==
    ASSUME IInv, NEW f \in Flushes, ReadIntake(f)
    PROVE  IInv'
<1>1. TypeOK'
  BY DEF IInv, TypeOK, ServerTypeOK, ReadIntake, Memory, Steps, Answers, Spend, serverVars,
         historyVars, lockVars
<1>2. /\ pass[f].step \notin {"idle", "busy"} /\ pass'[f].step # "unlink"
      /\ HasTarget(f)' /\ AtWork(f)'
  BY DEF IInv, TypeOK, Memory, ReadIntake, PassSound, HasTarget, AtWork
<1>3. \A g \in Flushes \ {f} : pass'[g] = pass[g]
  BY DEF IInv, TypeOK, ReadIntake
<1> QED BY <1>1, <1>2, <1>3, QuietPassStep DEF ReadIntake, serverVars, historyVars, lockVars

LEMMA ReadPendingIsSound ==
    ASSUME IInv, NEW f \in Flushes, ReadPending(f)
    PROVE  IInv'
<1>1. TypeOK'
  BY DEF IInv, TypeOK, ServerTypeOK, ReadPending, Memory, Steps, Answers, Spend, serverVars,
         historyVars, lockVars
<1>2. /\ pass[f].step \notin {"idle", "busy"} /\ pass'[f].step # "unlink"
      /\ HasTarget(f)' /\ AtWork(f)'
  <2>1. /\ pass'[f].step \in {"draining"}
        /\ pass'[f].step \in {"dropping", "draining"} =>
              \A id \in pass'[f].queue : spool.shown[id] # NoFile
    BY DEF IInv, TypeOK, Memory, ReadPending, IsActive
  <2>2. HasTarget(f)'
    BY DEF IInv, TypeOK, Memory, ReadPending, PassSound, HasTarget
  <2> QED BY <2>1, <2>2 DEF ReadPending, AtWork
<1>3. \A g \in Flushes \ {f} : pass'[g] = pass[g]
  BY DEF IInv, TypeOK, ReadPending
<1> QED BY <1>1, <1>2, <1>3, QuietPassStep DEF ReadPending, serverVars, historyVars, lockVars

-----------------------------------------------------------------------------
(* The set of conflicted epochs never grows past its bound.                *)
LEMMA LeastIsMember ==
    ASSUME NEW S \in SUBSET Nat, S # {}
    PROVE  Min(S) \in S
<1> DEFINE less == OpToRel(<, Nat)
<1>1. IsWellFoundedOn(less, Nat)
  BY NatLessThanWellFounded
<1>2. PICK x \in S : \A y \in S : ~(<<y, x>> \in less)
  <2> HIDE DEF less
  <2> QED BY <1>1, WFMin
<1>3. ASSUME NEW y \in S PROVE x <= y
  <2>1. x \in Nat /\ y \in Nat
    OBVIOUS
  <2>2. <<y, x>> \in Nat \X Nat /\ (y < x => <<y, x>>[1] < <<y, x>>[2])
    BY <2>1
  <2>3. y < x => <<y, x>> \in {p \in Nat \X Nat : p[1] < p[2]}
    BY <2>2
  <2>4. y < x => <<y, x>> \in less
    BY <2>3, Zenon DEF OpToRel
  <2>5. ~(y < x)
    BY <1>2, <2>4
  <2> QED BY <2>1, <2>5
<1> QED BY <1>3 DEF Min

LEMMA EpochsAreFinite == IsFiniteSet(Epochs) /\ Epochs \subseteq Nat
<1> QED BY FS_Interval, MaxEpochAssumption DEF Epochs

LEMMA WithConflictFacts ==
    ASSUME NEW set \in SUBSET Epochs, Cardinality(set) <= MaxConflicts, NEW e \in Epochs
    PROVE  /\ WithConflict(set, e) \in SUBSET Epochs
           /\ Cardinality(WithConflict(set, e)) <= MaxConflicts
<1> DEFINE grown == set \cup {e}
<1>1. IsFiniteSet(Epochs) /\ Epochs \subseteq Nat
  BY EpochsAreFinite
<1>2. IsFiniteSet(set) /\ Cardinality(set) \in Nat
  BY <1>1, FS_Subset, FS_CardinalityType
<1>3. /\ IsFiniteSet(grown) /\ Cardinality(grown) \in Nat
      /\ Cardinality(grown) <= MaxConflicts + 1
  <2>1. IsFiniteSet(grown) /\ Cardinality(grown) = IF e \in set THEN Cardinality(set)
                                                                ELSE Cardinality(set) + 1
    BY <1>2, FS_AddElement
  <2> QED BY <1>2, <2>1, FS_CardinalityType, BoundsAssumption
<1>4. Min(grown) \in grown
  BY <1>1, LeastIsMember
<1>5. Cardinality(grown \ {Min(grown)}) = Cardinality(grown) - 1
  <2> HIDE DEF grown
  <2> QED BY <1>3, <1>4, FS_RemoveElement
<1> QED BY <1>3, <1>5, BoundsAssumption DEF WithConflict

LEMMA ParticipateIsSound ==
    ASSUME IInv, NEW f \in Flushes, Participate(f)
    PROVE  IInv'
<1>1. TypeOK'
  <2>1. /\ pass[f].epoch \in Epochs
        /\ pass' \in [Flushes -> Memory]
    BY DEF IInv, PassSound, HasTarget, Participate, TypeOK, Memory, Steps
  <2>2. conflicts' \in SUBSET Epochs /\ Cardinality(conflicts') <= MaxConflicts
    BY <2>1, WithConflictFacts DEF IInv, TypeOK, Participate
  <2>3. holder' \in [Epochs -> Bindings]
    BY <2>1 DEF IInv, TypeOK, ServerTypeOK, Participate, BindHere, Bindings
  <2>4. faults' = faults
    BY DEF Participate
  <2> QED BY <2>1, <2>2, <2>3, <2>4
          DEF IInv, TypeOK, ServerTypeOK, Participate, historyVars, lockVars
<1>2. /\ pass[f].step \notin {"idle", "busy"} /\ pass'[f].step # "unlink"
      /\ HasTarget(f)' /\ AtWork(f)'
  BY DEF IInv, TypeOK, Memory, Participate, PassSound, HasTarget, AtWork
<1>3. \A g \in Flushes \ {f} : pass'[g] = pass[g]
  BY DEF IInv, TypeOK, Participate
<1> QED BY <1>1, <1>2, <1>3, QuietPassStep DEF Participate, historyVars, lockVars

LEMMA ForgetConflictsIsSound ==
    ASSUME IInv, NEW f \in Flushes, ForgetConflicts(f)
    PROVE  IInv'
<1>1. TypeOK'
  <2>1. conflicts' \in SUBSET Epochs /\ Cardinality(conflicts') <= MaxConflicts
    <3>1. conflicts' \subseteq conflicts /\ conflicts \subseteq Epochs
      BY DEF IInv, TypeOK, ForgetConflicts
    <3>2. IsFiniteSet(conflicts)
      BY <3>1, EpochsAreFinite, FS_Subset
    <3>3. /\ Cardinality(conflicts') <= Cardinality(conflicts)
          /\ Cardinality(conflicts') \in Nat /\ Cardinality(conflicts) \in Nat
      BY <3>1, <3>2, FS_Subset, FS_CardinalityType
    <3> QED BY <3>1, <3>3, BoundsAssumption DEF IInv, TypeOK
  <2>2. pass' \in [Flushes -> Memory]
    BY DEF ForgetConflicts, IInv, TypeOK, Memory, Steps
  <2>3. faults' \in 0 .. MaxFaults
    BY DEF ForgetConflicts, IInv, TypeOK, Spend
  <2> QED BY <2>1, <2>2, <2>3
          DEF IInv, TypeOK, ServerTypeOK, ForgetConflicts, serverVars, historyVars, lockVars
<1>2. /\ pass[f].step \notin {"idle", "busy"} /\ pass'[f].step # "unlink"
      /\ HasTarget(f)' /\ AtWork(f)'
  BY DEF IInv, TypeOK, Memory, ForgetConflicts, PassSound, HasTarget, AtWork
<1>3. \A g \in Flushes \ {f} : pass'[g] = pass[g]
  BY DEF IInv, TypeOK, ForgetConflicts
<1> QED BY <1>1, <1>2, <1>3, QuietPassStep DEF ForgetConflicts, serverVars, historyVars, lockVars

-----------------------------------------------------------------------------
(* The decisions of a collector about one pending record.                  *)

LEMMA TakeFacts ==
    ASSUME TypeOK, NEW f \in Flushes, NEW id \in RecordIds, NEW step \in Steps,
           NEW answer \in Answers, Take(f, id, step, answer)
    PROVE  /\ pass' \in [Flushes -> Memory]
           /\ \A g \in Flushes \ {f} : pass'[g] = pass[g]
           /\ pass'[f].step = step /\ pass'[f].record = id /\ pass'[f].answer = answer
           /\ pass'[f].queue = pass[f].queue \ {id} /\ pass'[f].epoch = pass[f].epoch
<1> DEFINE m == [pass[f] EXCEPT !.step = step, !.record = id, !.answer = answer,
                               !.queue = @ \ {id}]
<1>1. pass \in [Flushes -> Memory]
  BY DEF TypeOK
<1>2. m \in Memory /\ m.step = step /\ m.record = id /\ m.answer = answer
      /\ m.queue = pass[f].queue \ {id} /\ m.epoch = pass[f].epoch
  BY <1>1 DEF Memory
<1>3. pass' = [pass EXCEPT ![f] = m]
  BY <1>1 DEF Take
<1> HIDE DEF m
<1> QED BY <1>1, <1>2, <1>3

(* A record taken from the queue of a draining pass, with the server's     *)
(* acceptance when it is taken to be removed.                              *)
LEMMA TakeIsSound ==
    ASSUME IInv, TypeOK', NEW f \in Flushes, NEW id \in RecordIds,
           NEW step \in {"mark", "settle", "retire"}, NEW answer \in Answers,
           pass[f].step = "draining", id \in pass[f].queue, Take(f, id, step, answer),
           UNCHANGED <<flushLock, intake, spool, recorded, forfeited, exposed, owner>>,
           ledger \subseteq ledger',
           step = "settle" \/ answer = "satisfied" => id \in ledger'
    PROVE  IInv'
<1>1. /\ \A g \in Flushes \ {f} : pass'[g] = pass[g]
      /\ pass'[f].step = step /\ pass'[f].record = id /\ pass'[f].answer = answer
      /\ pass'[f].queue = pass[f].queue \ {id}
  BY TakeFacts DEF IInv, Steps
<1>2. \A i \in pass[f].queue : spool.shown[i] # NoFile
  BY DEF IInv, PassSound, AtWork
<1>3. HasTarget(f)' /\ AtWork(f)'
  BY <1>1, <1>2 DEF HasTarget, AtWork
<1> QED BY <1>1, <1>3, QuietPassStep

LEMMA CleanUpIsSound ==
    ASSUME IInv, NEW f \in Flushes, NEW id \in RecordIds, CleanUp(f, id)
    PROVE  IInv'
<1> DEFINE step == IF spool.shown[id].terminal # "" THEN "retire" ELSE "settle"
<1>1. Take(f, id, step, "none") /\ step \in {"mark", "settle", "retire"}
  BY DEF CleanUp
<1>2. TypeOK'
  <2>1. pass' \in [Flushes -> Memory]
    BY <1>1, TakeFacts DEF IInv, Steps, Answers
  <2> QED BY <2>1 DEF IInv, TypeOK, ServerTypeOK, CleanUp, serverVars, historyVars, lockVars
<1>3. step = "settle" => id \in ledger
  <2>1. spool.shown[id] \in spool.left[id] /\ spool.shown[id] # NoFile
    BY DEF CleanUp, IInv, TypeOK, Directories, Evidence, Coherent, PassSound, AtWork
  <2>2. step = "settle" => spool.shown[id].removal
    BY <2>1 DEF CleanUp, Undecided, IInv, TypeOK, Directories, File
  <2> QED BY <2>1, <2>2 DEF IInv, Evidence, Acknowledged
<1> QED BY <1>1, <1>2, <1>3, TakeIsSound DEF CleanUp, Answers, serverVars, historyVars, lockVars

LEMMA SubmitIsSound ==
    ASSUME IInv, NEW f \in Flushes, NEW id \in RecordIds, Submit(f, id)
    PROVE  IInv'
<1>1. PICK answer \in {"satisfied", "retry", "permanent"} :
          /\ Take(f, id, "mark", answer)
          /\ answer = "satisfied" => id \in ledger'
          /\ ledger' \in {ledger, ledger \cup {id}}
  BY DEF Submit, Accept
<1>2. TypeOK'
  <2>1. pass' \in [Flushes -> Memory]
    BY <1>1, TakeFacts DEF IInv, Steps, Answers
  <2>2. sent' \in [RecordIds -> Nat]
    BY DEF IInv, TypeOK, Submit
  <2>3. ledger' \in SUBSET RecordIds
    BY <1>1 DEF IInv, TypeOK, ServerTypeOK
  <2> QED BY <2>1, <2>2, <2>3 DEF IInv, TypeOK, ServerTypeOK, Submit, lockVars
<1>3. UNCHANGED <<flushLock, intake, spool, recorded, forfeited, exposed, owner>>
  BY DEF Submit, lockVars
<1>4. pass[f].step = "draining" /\ id \in pass[f].queue
  BY DEF Submit
<1> QED BY <1>1, <1>2, <1>3, <1>4, TakeIsSound DEF Answers

LEMMA WaitOutIsSound ==
    ASSUME IInv, NEW f \in Flushes, NEW id \in RecordIds, WaitOut(f, id)
    PROVE  IInv'
<1>1. TypeOK'
  BY DEF IInv, TypeOK, ServerTypeOK, WaitOut, Memory, serverVars, historyVars, lockVars
<1>2. /\ pass[f].step \notin {"idle", "busy"} /\ pass'[f].step = pass[f].step
      /\ pass'[f].queue \subseteq pass[f].queue
      /\ \A g \in Flushes \ {f} : pass'[g] = pass[g]
  BY DEF IInv, TypeOK, Memory, WaitOut
<1>3. HasTarget(f)' /\ AtWork(f)' /\ pass'[f].step # "unlink"
  BY <1>2 DEF IInv, WaitOut, PassSound, HasTarget, AtWork
<1> QED BY <1>1, <1>2, <1>3, QuietPassStep DEF WaitOut, serverVars, historyVars, lockVars

-----------------------------------------------------------------------------
(* The steps that remove a record of the spool.                            *)

(* Spool.Remove adds at most the absence of the record, and not even that  *)
(* when the record was kept or written back durably.                       *)
LEMMA RemovedFacts ==
    ASSUME NEW d \in Directories(RecordIds, File), Coherent(d), NEW id \in RecordIds,
           NEW how \in Removals
    PROVE  LET e == Removed(d, id, how) IN
           /\ e \in Directories(RecordIds, File)
           /\ Coherent(e)
           /\ Narrows(d, e, id, {NoFile})
           /\ how \in {"kept", "restored"} => Narrows(d, e, id, {})
<1> DEFINE file == d.shown[id]
           unlinked == Put(d, id, NoFile)
<1>1. /\ DOMAIN d.shown = RecordIds
      /\ file \in File \cup {NoFile} /\ file \in d.left[id]
  BY DEF Directories, Coherent
<1>2. /\ unlinked \in Directories(RecordIds, File)
      /\ Coherent(unlinked)
      /\ Narrows(d, unlinked, id, {NoFile})
      /\ unlinked.left[id] = d.left[id] \cup {NoFile}
      /\ unlinked.shown[id] = NoFile
  BY SMTT(40), PutNarrows
<1>3. DOMAIN unlinked.shown = RecordIds
  BY <1>2 DEF Directories
<1>4. CASE how = "removed"
  <2>1. Removed(d, id, how) = Sync(unlinked)
    BY <1>4 DEF Removed
  <2>2. /\ Sync(unlinked) \in Directories(RecordIds, File)
        /\ Coherent(Sync(unlinked))
        /\ Narrows(unlinked, Sync(unlinked), id, {})
    <3> HIDE DEF unlinked
    <3> QED BY <1>2, SyncNarrows
  <2>3. Narrows(d, Sync(unlinked), id, {NoFile})
    <3> HIDE DEF unlinked
    <3> QED BY <1>1, <1>2, <1>3, <2>2 DEF Narrows
  <2> QED BY <1>4, <2>1, <2>2, <2>3
<1>5. CASE how = "lost"
  <2>1. Removed(d, id, how) = unlinked
    BY <1>5 DEF Removed
  <2> QED BY <1>2, <1>5, <2>1
<1>6. CASE how = "restored"
  <2> DEFINE e == Sync(Put(unlinked, id, file))
  <2>1. Removed(d, id, how) = e
    BY <1>6 DEF Removed
  <2>2. /\ e \in Directories(RecordIds, File)
        /\ Coherent(e)
        /\ Narrows(unlinked, e, id, {file})
        /\ e.shown[id] = file /\ e.left[id] = {file}
    <3> HIDE DEF unlinked
    <3> QED BY SMTT(40), <1>1, <1>2, StoredNarrows
  <2>3. Narrows(d, e, id, {}) /\ Narrows(d, e, id, {NoFile})
    <3> HIDE DEF unlinked, e
    <3> QED BY <1>1, <1>2, <1>3, <2>2 DEF Narrows
  <2> QED BY <2>1, <2>2, <2>3
<1>7. CASE how = "uncertain"
  <2> DEFINE e == Put(unlinked, id, file)
  <2>1. Removed(d, id, how) = e
    BY <1>7 DEF Removed
  <2>2. /\ e \in Directories(RecordIds, File)
        /\ Coherent(e)
        /\ Narrows(unlinked, e, id, {file})
        /\ e.shown[id] = file /\ e.left[id] = unlinked.left[id] \cup {file}
    <3> HIDE DEF unlinked
    <3> QED BY SMTT(40), <1>1, <1>2, PutNarrows
  <2>3. Narrows(d, e, id, {NoFile})
    <3> HIDE DEF unlinked, e
    <3> QED BY <1>1, <1>2, <1>3, <2>2 DEF Narrows
  <2> QED BY <1>7, <2>1, <2>2, <2>3
<1>8. CASE how = "kept"
  <2>1. Removed(d, id, how) = d
    BY <1>8 DEF Removed
  <2> QED BY <2>1 DEF Narrows
<1> QED BY <1>4, <1>5, <1>6, <1>7, <1>8 DEF Removals

(* A record in the spool has an owner and may be on disk as it is shown.   *)
LEMMA RecordFacts ==
    ASSUME IInv, NEW id \in RecordIds, spool.shown[id] # NoFile
    PROVE  /\ spool.shown[id] \in File /\ spool.shown[id] \in spool.left[id]
           /\ owner[id] \in Searches /\ owner[id] # Nobody
<1> QED BY ModelValuesAssumption DEF IInv, TypeOK, Directories, Evidence, Coherent, Minted

LEMMA RemovalEvidence ==
    ASSUME IInv, TypeOK', NEW id \in RecordIds, spool.shown[id] # NoFile,
           NEW how \in Removals, spool' = Removed(spool, id, how),
           UNCHANGED <<intake, recorded, exposed, owner, ledger>>,
           forfeited \subseteq forfeited',
           how \notin {"kept", "restored"} => Closed(owner[id])'
    PROVE  /\ Evidence'
           /\ \A n \in RecordIds \ {id} : spool'.shown[n] = spool.shown[n]
<1>1. /\ Coherent(spool')
      /\ Narrows(spool, spool', id, {NoFile})
      /\ how \in {"kept", "restored"} => Narrows(spool, spool', id, {})
  BY RemovedFacts DEF IInv, TypeOK, Evidence
<1>2. Coherent(intake') /\ \A s \in Searches : intake'.left[s] \subseteq intake.left[s]
  BY DEF IInv, Evidence
<1>3. ASSUME spool'.shown[id] # NoFile, spool'.shown[id].place = "quarantine",
             NoFile \in spool'.left[id], how \in {"kept", "restored"}
      PROVE  Closed(owner[id])'
  <2>1. spool'.shown[id] = spool.shown[id] /\ NoFile \in spool.left[id]
    BY <1>1, <1>3 DEF Narrows
  <2>2. Closed(owner[id])
    BY <1>3, <2>1 DEF IInv, Evidence, FiledAway
  <2> QED BY <2>2 DEF Closed, Accepted
<1>4. Evidence'
  <2>1. CASE how \in {"kept", "restored"}
    BY <1>1, <1>2, <1>3, <2>1, SpoolStep
  <2>2. CASE how \notin {"kept", "restored"}
    <3> DEFINE C == {NoFile}
    <3>1. \A c \in C : c # NoFile => owner[id] # Nobody /\ (c.removal => id \in ledger')
      OBVIOUS
    <3>2. NoFile \in C => Closed(owner[id])'
      BY <2>2
    <3>3. Narrows(spool, spool', id, C)
      BY <1>1
    <3> HIDE DEF C
    <3> QED BY <1>1, <1>2, <2>2, <3>1, <3>2, <3>3, SpoolStep
  <2> QED BY <2>1, <2>2
<1>5. \A n \in RecordIds \ {id} : spool'.shown[n] = spool.shown[n]
  BY <1>1 DEF Narrows, IInv, TypeOK, Directories
<1> QED BY <1>4, <1>5

LEMMA DropOneIsSound ==
    ASSUME IInv, NEW f \in Flushes, NEW id \in RecordIds, DropOne(f, id)
    PROVE  IInv'
<1>1. spool.shown[id] # NoFile /\ pass[f].step = "dropping" /\ id \in pass[f].queue
  BY DEF DropOne, IInv, PassSound, AtWork
<1>2. PICK how \in Removals :
          /\ Spend(RemovalFaults(how))
          /\ spool' = Removed(spool, id, how)
          /\ forfeited' = IF how \in {"kept", "restored"} THEN forfeited
                                                        ELSE forfeited \cup {owner[id]}
  BY DEF DropOne
<1>3. owner[id] \in Searches
  BY <1>1, RecordFacts
<1>4. TypeOK'
  <2>1. spool' \in Directories(RecordIds, File)
    BY <1>2, RemovedFacts DEF IInv, TypeOK, Evidence
  <2>2. faults' \in 0 .. MaxFaults
    BY <1>2 DEF IInv, TypeOK, Spend, RemovalFaults
  <2>3. forfeited' \in SUBSET Searches
    BY <1>2, <1>3 DEF IInv, TypeOK
  <2>4. pass' \in [Flushes -> Memory]
    BY DEF IInv, TypeOK, DropOne, Memory
  <2> QED BY <2>1, <2>2, <2>3, <2>4 DEF IInv, TypeOK, ServerTypeOK, DropOne, serverVars, lockVars
<1>5. how \notin {"kept", "restored"} => Closed(owner[id])'
  BY <1>2 DEF Closed, DropOne
<1>6. /\ Evidence'
      /\ \A n \in RecordIds \ {id} : spool'.shown[n] = spool.shown[n]
  BY <1>1, <1>2, <1>4, <1>5, RemovalEvidence DEF DropOne, serverVars
<1>7. /\ pass'[f].step = "dropping" /\ pass'[f].queue = pass[f].queue \ {id}
      /\ pass'[f].epoch = pass[f].epoch
      /\ \A g \in Flushes \ {f} : pass'[g] = pass[g]
  BY DEF IInv, TypeOK, DropOne, Memory
<1>8. pass[f].queue \subseteq RecordIds
  BY DEF IInv, TypeOK, Memory
<1>9. PassSound(f)'
  BY <1>1, <1>6, <1>7, <1>8
     DEF IInv, PassSound, HoldsLock, HasTarget, AtWork, ReadyToUnlink, DropOne, lockVars
<1> QED BY <1>1, <1>4, <1>6, <1>7, <1>9, OthersStep DEF IInv

-----------------------------------------------------------------------------
(* The steps that finish the record at work.                               *)

LEMMA ResumeFacts ==
    ASSUME TypeOK, NEW f \in Flushes, NEW step \in Steps, Resume(f, step)
    PROVE  /\ pass' \in [Flushes -> Memory]
           /\ \A g \in Flushes \ {f} : pass'[g] = pass[g]
           /\ pass'[f].step = step /\ pass'[f].queue = pass[f].queue
           /\ pass'[f].answer = "none" /\ pass'[f].epoch = pass[f].epoch
           /\ step # "draining" => pass'[f].record = pass[f].record
<1> DEFINE m == [pass[f] EXCEPT !.step = step, !.answer = "none",
                               !.record = IF step = "draining" THEN Nobody ELSE @]
<1>1. pass \in [Flushes -> Memory]
  BY DEF TypeOK
<1>2. /\ m \in Memory /\ m.step = step /\ m.queue = pass[f].queue /\ m.answer = "none"
      /\ m.epoch = pass[f].epoch
      /\ step # "draining" => m.record = pass[f].record
  BY <1>1 DEF Memory, Answers
<1>3. pass' = [pass EXCEPT ![f] = m]
  BY <1>1 DEF Resume
<1> HIDE DEF m
<1> QED BY <1>1, <1>2, <1>3

(* What the running flush still has to look at is left alone by a step     *)
(* that works on one record.                                               *)
LEMMA ResumeIsSound ==
    ASSUME IInv, TypeOK', Evidence', NEW f \in Flushes,
           NEW step \in {"draining", "settle", "retire"}, Resume(f, step),
           pass[f].step \in {"mark", "settle", "retire"}, flushLock' = flushLock,
           \A n \in RecordIds \ {pass[f].record} : spool'.shown[n] = spool.shown[n],
           step # "draining" => spool'.shown[pass[f].record] # NoFile,
           step = "settle" => pass[f].record \in ledger'
    PROVE  IInv'
<1>1. /\ \A g \in Flushes \ {f} : pass'[g] = pass[g]
      /\ pass'[f].step = step /\ pass'[f].queue = pass[f].queue
      /\ step # "draining" => pass'[f].record = pass[f].record
  BY ResumeFacts DEF IInv, Steps
<1>2. /\ pass[f].queue \subseteq RecordIds
      /\ pass[f].record \in RecordIds \ pass[f].queue
      /\ \A n \in pass[f].queue : spool.shown[n] # NoFile
      /\ flushLock = f
  BY DEF IInv, TypeOK, Memory, PassSound, AtWork, HoldsLock
<1>3. PassSound(f)'
  BY <1>1, <1>2 DEF PassSound, HoldsLock, HasTarget, AtWork, ReadyToUnlink
<1>4. \A g \in Flushes \ {f} : PassSound(g)'
  BY <1>1, OthersStep
<1> QED BY <1>3, <1>4 DEF IInv

LEMMA SettleIsSound ==
    ASSUME IInv, NEW f \in Flushes, Settle(f)
    PROVE  IInv'
<1>0. PICK id \in RecordIds : id = pass[f].record
  BY DEF Settle, IInv, PassSound, AtWork
<1>1. /\ pass[f].step = "settle" /\ spool.shown[id] # NoFile
      /\ id \in ledger
  BY <1>0 DEF Settle, IInv, PassSound, AtWork
<1>2. PICK how \in Removals : Spend(RemovalFaults(how)) /\ spool' = Removed(spool, id, how)
  BY <1>0 DEF Settle
<1>3. TypeOK'
  <2>1. spool' \in Directories(RecordIds, File)
    BY <1>1, <1>2, RemovedFacts DEF IInv, TypeOK, Evidence
  <2>2. faults' \in 0 .. MaxFaults
    BY <1>2 DEF IInv, TypeOK, Spend, RemovalFaults
  <2>3. pass' \in [Flushes -> Memory]
    BY ResumeFacts DEF IInv, Settle, Steps
  <2> QED BY <2>1, <2>2, <2>3
          DEF IInv, TypeOK, ServerTypeOK, Settle, serverVars, historyVars, lockVars
<1>4. Closed(owner[id])'
  BY <1>1, RecordFacts DEF Closed, Accepted, Settle, serverVars, historyVars
<1>5. /\ Evidence'
      /\ \A n \in RecordIds \ {id} : spool'.shown[n] = spool.shown[n]
  BY <1>1, <1>2, <1>3, <1>4, RemovalEvidence DEF Settle, serverVars, historyVars
<1> QED BY <1>0, <1>1, <1>3, <1>5, ResumeIsSound DEF Settle, lockVars

(* What one answer makes of a record stays a record, under the same epoch  *)
(* and in the same place, and is marked for removal only when it was or    *)
(* when the server accepted it.                                            *)
LEMMA MarkedFacts ==
    ASSUME NEW file \in File, NEW answer \in Answers
    PROVE  /\ Marked(file, answer) \in File
           /\ Marked(file, answer) # NoFile
           /\ Marked(file, answer).place = file.place
           /\ Marked(file, answer).epoch = file.epoch
           /\ Marked(file, answer).removal => file.removal \/ answer = "satisfied"
<1>1. CASE answer = "satisfied"
  <2>1. Marked(file, answer) = [file EXCEPT !.removal = TRUE]
    BY <1>1 DEF Marked
  <2> QED BY <1>1, <2>1, NoFileAssumption DEF File
<1>2. CASE answer = "permanent"
  <2>1. Marked(file, answer) = [file EXCEPT !.attempts = @ + 1, !.terminal = "permanent"]
    BY <1>2 DEF Marked
  <2>2. file.attempts + 1 \in Nat
    BY DEF File
  <2>3. [file EXCEPT !.attempts = @ + 1, !.terminal = "permanent"] \in File
    BY <2>2 DEF File, Verdicts
  <2>4. /\ Marked(file, answer).place = file.place /\ Marked(file, answer).epoch = file.epoch
        /\ Marked(file, answer).removal = file.removal
    BY <2>1 DEF File
  <2> QED BY <2>1, <2>3, <2>4, NoFileAssumption
<1>3. CASE answer \in {"none", "retry"}
  <2>1. PICK verdict \in Verdicts :
            Marked(file, answer) = [file EXCEPT !.attempts = @ + 1, !.terminal = verdict]
    BY <1>3 DEF Marked, Verdicts
  <2>2. file.attempts + 1 \in Nat
    BY DEF File
  <2>3. [file EXCEPT !.attempts = @ + 1, !.terminal = verdict] \in File
    BY <2>2 DEF File
  <2>4. /\ Marked(file, answer).place = file.place /\ Marked(file, answer).epoch = file.epoch
        /\ Marked(file, answer).removal = file.removal
    BY <2>1 DEF File
  <2> QED BY <2>1, <2>3, <2>4, NoFileAssumption
<1> QED BY <1>1, <1>2, <1>3 DEF Answers

LEMMA MarkIsSound ==
    ASSUME IInv, NEW f \in Flushes, Mark(f)
    PROVE  IInv'
<1>0. PICK id \in RecordIds : id = pass[f].record
  BY DEF Mark, IInv, PassSound, AtWork
<1> DEFINE file == spool.shown[id]
           new  == Marked(file, pass[f].answer)
<1>1. /\ pass[f].step = "mark" /\ file # NoFile
      /\ pass[f].answer = "satisfied" => id \in ledger
      /\ pass[f].answer \in Answers
  BY <1>0 DEF Mark, IInv, TypeOK, Memory, PassSound, AtWork
<1>2. file \in File /\ file \in spool.left[id] /\ owner[id] \in Searches /\ owner[id] # Nobody
  BY <1>1, RecordFacts
<1>3. /\ new \in File /\ new # NoFile /\ new.place = file.place
      /\ new.removal => id \in ledger
  BY <1>1, <1>2, MarkedFacts DEF IInv, Evidence, Acknowledged
<1> HIDE DEF new
<1>4. PICK outcome \in Outcomes, step \in {"draining", "settle", "retire"} :
          /\ Spend(Faults(outcome))
          /\ spool' = Write(spool, id, new, outcome)
          /\ Resume(f, step)
          /\ step # "draining" => outcome = "stored"
          /\ step = "settle" => new.removal
  BY <1>0 DEF Mark, new
<1>5. /\ spool' \in Directories(RecordIds, File)
      /\ Coherent(spool')
      /\ Narrows(spool, spool', id, {new})
      /\ outcome = "stored" => spool'.shown[id] = new /\ spool'.left[id] = {new}
      /\ outcome = "unsynced" => /\ spool'.shown[id] = new
                                /\ spool'.left[id] = spool.left[id] \cup {new}
      /\ outcome = "failed" => /\ spool'.shown[id] = spool.shown[id]
                              /\ spool'.left[id] = spool.left[id]
  <2>1. /\ spool \in Directories(RecordIds, File) /\ Coherent(spool)
        /\ new \in File \cup {NoFile}
    BY <1>3 DEF IInv, TypeOK, Evidence
  <2>2. /\ spool' \in Directories(RecordIds, File) /\ Coherent(spool')
        /\ Written(spool, spool', id, new, outcome)
    BY <1>4, <2>1, WriteNarrows
  <2> QED BY <2>2 DEF Written
<1>6. TypeOK'
  <2>1. faults' \in 0 .. MaxFaults
    BY <1>4 DEF IInv, TypeOK, Spend, Faults
  <2>2. pass' \in [Flushes -> Memory]
    BY <1>4, ResumeFacts DEF IInv, Steps
  <2> QED BY <1>5, <2>1, <2>2
          DEF IInv, TypeOK, ServerTypeOK, Mark, serverVars, historyVars, lockVars
<1>7. Evidence'
  <2>1. ASSUME spool'.shown[id] # NoFile, spool'.shown[id].place = "quarantine",
               NoFile \in spool'.left[id]
        PROVE  Closed(owner[id])'
    <3>1. file.place = "quarantine" /\ NoFile \in spool.left[id]
      BY <1>3, <1>5, <2>1 DEF Outcomes
    <3>2. Closed(owner[id])
      BY <1>1, <3>1 DEF IInv, Evidence, FiledAway
    <3> QED BY <3>2 DEF Closed, Accepted, Mark, serverVars, historyVars
  <2>2. \A c \in {new} : c # NoFile => owner[id] # Nobody /\ (c.removal => id \in ledger')
    BY <1>2, <1>3 DEF Mark, serverVars
  <2>3. /\ UNCHANGED <<intake, recorded, owner, ledger, forfeited, exposed>>
        /\ Coherent(intake') /\ \A s \in Searches : intake'.left[s] \subseteq intake.left[s]
    BY DEF Mark, serverVars, historyVars, IInv, Evidence
  <2> QED BY <1>1, <1>3, <1>5, <1>6, <2>1, <2>2, <2>3, SpoolStep
<1>8. \A n \in RecordIds \ {id} : spool'.shown[n] = spool.shown[n]
  BY <1>5 DEF Narrows, IInv, TypeOK, Directories
<1>9. /\ step # "draining" => spool'.shown[id] # NoFile
      /\ step = "settle" => id \in ledger'
      /\ flushLock' = flushLock
  BY <1>3, <1>4, <1>5 DEF Mark, serverVars, lockVars
<1> QED BY <1>0, <1>1, <1>4, <1>6, <1>7, <1>8, <1>9, ResumeIsSound

LEMMA RetireIsSound ==
    ASSUME IInv, NEW f \in Flushes, Retire(f)
    PROVE  IInv'
<1>0. PICK id \in RecordIds : id = pass[f].record
  BY DEF Retire, IInv, PassSound, AtWork
<1>1. /\ pass[f].step = "retire" /\ spool.shown[id] # NoFile
  BY <1>0 DEF Retire, IInv, PassSound, AtWork
<1>2. /\ spool.shown[id] \in File /\ spool.shown[id] \in spool.left[id]
      /\ owner[id] \in Searches /\ owner[id] # Nobody
  BY <1>1, RecordFacts
<1>3. PICK new \in File : /\ new = [spool.shown[id] EXCEPT !.place = "quarantine"]
                          /\ new # NoFile
                          /\ new.removal => id \in ledger
  <2>1. /\ [spool.shown[id] EXCEPT !.place = "quarantine"] \in File
        /\ [spool.shown[id] EXCEPT !.place = "quarantine"].removal = spool.shown[id].removal
    BY <1>2 DEF File
  <2> QED BY <1>1, <1>2, <2>1, NoFileAssumption DEF IInv, Evidence, Acknowledged
<1>4. PICK outcome \in Outcomes :
          /\ Spend(Faults(outcome))
          /\ spool' = Write(spool, id, new, outcome)
          /\ exposed' = IF outcome = "unsynced" /\ NoFile \in spool.left[id]
                        THEN exposed \cup {owner[id]} ELSE exposed
  BY <1>0, <1>3 DEF Retire
<1>5. /\ spool' \in Directories(RecordIds, File)
      /\ Coherent(spool')
      /\ Narrows(spool, spool', id, {new})
      /\ outcome = "stored" => spool'.shown[id] = new /\ spool'.left[id] = {new}
      /\ outcome = "unsynced" => /\ spool'.shown[id] = new
                                /\ spool'.left[id] = spool.left[id] \cup {new}
      /\ outcome = "failed" => /\ spool'.shown[id] = spool.shown[id]
                              /\ spool'.left[id] = spool.left[id]
  <2>1. /\ spool \in Directories(RecordIds, File) /\ Coherent(spool)
        /\ new \in File \cup {NoFile}
    BY <1>3 DEF IInv, TypeOK, Evidence
  <2>2. /\ spool' \in Directories(RecordIds, File) /\ Coherent(spool')
        /\ Written(spool, spool', id, new, outcome)
    BY <1>4, <2>1, WriteNarrows
  <2> QED BY <2>2 DEF Written
<1>6. TypeOK'
  <2>1. faults' \in 0 .. MaxFaults
    BY <1>4 DEF IInv, TypeOK, Spend, Faults
  <2>2. pass' \in [Flushes -> Memory]
    BY ResumeFacts DEF IInv, Retire, Steps
  <2>3. exposed' \in SUBSET Searches
    BY <1>2, <1>4 DEF IInv, TypeOK
  <2> QED BY <1>5, <2>1, <2>2, <2>3
          DEF IInv, TypeOK, ServerTypeOK, Retire, serverVars, lockVars
<1>7. Evidence'
  <2>1. ASSUME spool'.shown[id] # NoFile, spool'.shown[id].place = "quarantine",
               NoFile \in spool'.left[id]
        PROVE  Closed(owner[id])'
    <3>1. CASE outcome = "unsynced"
      <4>1. owner[id] \in exposed'
        BY <1>3, <1>4, <1>5, <2>1, <3>1
      <4> QED BY <4>1 DEF Closed, Retire
    <3>2. CASE outcome = "failed"
      <4>1. Closed(owner[id])
        BY <1>1, <1>5, <2>1, <3>2 DEF IInv, Evidence, FiledAway
      <4>2. exposed' = exposed
        BY <1>4, <3>2
      <4> QED BY <4>1, <4>2 DEF Closed, Accepted, Retire, serverVars
    <3>3. CASE outcome = "stored"
      BY <1>3, <1>5, <2>1, <3>3
    <3> QED BY <3>1, <3>2, <3>3 DEF Outcomes
  <2>2. \A c \in {new} : c # NoFile => owner[id] # Nobody /\ (c.removal => id \in ledger')
    BY <1>2, <1>3 DEF Retire, serverVars
  <2>3. /\ UNCHANGED <<intake, recorded, owner, ledger, forfeited>>
        /\ exposed \subseteq exposed'
        /\ Coherent(intake') /\ \A s \in Searches : intake'.left[s] \subseteq intake.left[s]
    BY <1>4 DEF Retire, serverVars, IInv, Evidence
  <2> QED BY <1>1, <1>3, <1>5, <1>6, <2>1, <2>2, <2>3, SpoolStep
<1>8. \A n \in RecordIds \ {id} : spool'.shown[n] = spool.shown[n]
  BY <1>5 DEF Narrows, IInv, TypeOK, Directories
<1> QED BY <1>0, <1>1, <1>6, <1>7, <1>8, ResumeIsSound DEF Retire, lockVars

-----------------------------------------------------------------------------
(* The steps on the intake.                                                *)

LEMMA SearchIsSound ==
    ASSUME IInv, NEW s \in Searches, Search(s)
    PROVE  IInv'
<1>1. PICK id \in RecordIds, outcome \in Outcomes :
          /\ Fresh(id)
          /\ Spend(Faults(outcome))
          /\ owner' = [owner EXCEPT ![id] = s]
          /\ intake' = Write(intake, s, id, outcome)
          /\ recorded' = IF outcome = "stored" THEN recorded \cup {s} ELSE recorded
  BY DEF Search
<1>2. /\ intake' \in Directories(Searches, RecordIds \cup {Unnamed}) /\ Coherent(intake')
      /\ Written(intake, intake', s, id, outcome)
  BY <1>1, WriteNarrows DEF IInv, TypeOK, Evidence
<1>3. TypeOK'
  <2>1. faults' \in 0 .. MaxFaults
    BY <1>1 DEF IInv, TypeOK, Spend, Faults
  <2>2. owner' \in [RecordIds -> Searches \cup {Nobody}]
    BY <1>1 DEF IInv, TypeOK
  <2>3. served' \in SUBSET Searches /\ recorded' \in SUBSET served'
    BY <1>1 DEF IInv, TypeOK, Search
  <2> QED BY <1>2, <2>1, <2>2, <2>3 DEF IInv, TypeOK, ServerTypeOK, Search, serverVars, lockVars
<1>4. \A n \in RecordIds : owner[n] # Nobody => owner'[n] = owner[n]
  BY <1>1 DEF Fresh, IInv, TypeOK
<1>5. UNCHANGED <<spool, ledger, forfeited, exposed, flushLock, pass>>
  BY DEF Search, serverVars, lockVars
<1>6. Evidence'
  <2>1. s \in recorded' => OnDisk(s)'
    <3>1. CASE outcome = "stored"
      BY <1>2, <3>1, ModelValuesAssumption DEF Written, OnDisk
    <3>2. CASE outcome # "stored"
      BY <1>1, <3>2 DEF Search, IInv, TypeOK
    <3> QED BY <3>1, <3>2
  <2>2. owner'[id] = s /\ recorded' \subseteq recorded \cup {s}
    BY <1>1 DEF IInv, TypeOK
  <2>3. Narrows(intake, intake', s, {id})
    BY <1>2 DEF Written
  <2> QED BY <1>2, <1>3, <1>4, <1>5, <2>1, <2>2, <2>3, IntakeStep
<1>7. \A f \in Flushes : PassSound(f)'
  BY <1>4, <1>5, UntouchedIsSound
<1> QED BY <1>3, <1>6, <1>7 DEF IInv

LEMMA NameIntakeIsSound ==
    ASSUME IInv, NEW f \in Flushes, NEW s \in Searches, NameIntake(f, s)
    PROVE  IInv'
<1>1. PICK id \in RecordIds, outcome \in Outcomes :
          /\ Fresh(id)
          /\ Spend(Faults(outcome))
          /\ owner' = [owner EXCEPT ![id] = s]
          /\ intake' = Write(intake, s, id, outcome)
          /\ pass' = IF outcome = "stored" THEN pass ELSE [pass EXCEPT ![f].intake = @ \ {s}]
  BY DEF NameIntake
<1>2. /\ intake' \in Directories(Searches, RecordIds \cup {Unnamed}) /\ Coherent(intake')
      /\ Written(intake, intake', s, id, outcome)
  BY <1>1, WriteNarrows DEF IInv, TypeOK, Evidence
<1>3. TypeOK'
  <2>1. faults' \in 0 .. MaxFaults
    BY <1>1 DEF IInv, TypeOK, Spend, Faults
  <2>2. owner' \in [RecordIds -> Searches \cup {Nobody}]
    BY <1>1 DEF IInv, TypeOK
  <2>3. pass' \in [Flushes -> Memory]
    BY <1>1 DEF IInv, TypeOK, Memory
  <2> QED BY <1>2, <2>1, <2>2, <2>3 DEF IInv, TypeOK, ServerTypeOK, NameIntake, serverVars, lockVars
<1>4. \A n \in RecordIds : owner[n] # Nobody => owner'[n] = owner[n]
  BY <1>1 DEF Fresh, IInv, TypeOK
<1>5. UNCHANGED <<recorded, spool, ledger, forfeited, exposed, flushLock>>
  BY DEF NameIntake, serverVars, lockVars
<1>6. Evidence'
  <2>1. ASSUME s \in recorded', ~Closed(s)'
        PROVE  OnDisk(s)'
    <3>1. OnDisk(s)
      <4>1. Closed(s) => Closed(s)'
        BY <1>4, <1>5, ClosedStays DEF IInv
      <4> QED BY <1>5, <2>1, <4>1 DEF IInv, Evidence, KeptThroughPowerLoss, Closed
    <3>2. CASE NoFile \notin intake.left[s]
      <4>1. NoFile \notin intake'.left[s]
        BY <1>2, <3>2, ModelValuesAssumption DEF Written, Narrows
      <4> QED BY <4>1 DEF OnDisk
    <3>3. CASE \E n \in RecordIds : owner[n] = s /\ NoFile \notin spool.left[n]
      BY <1>4, <1>5, <3>3, ModelValuesAssumption DEF OnDisk
    <3> QED BY <3>1, <3>2, <3>3 DEF OnDisk
  <2>2. owner'[id] = s
    BY <1>1 DEF IInv, TypeOK
  <2>3. Narrows(intake, intake', s, {id})
    BY <1>2 DEF Written
  <2> QED BY <1>2, <1>3, <1>4, <1>5, <2>1, <2>2, <2>3, IntakeStep
<1>7. /\ pass[f].step = "promoting" /\ pass'[f].step = "promoting"
      /\ pass'[f].epoch = pass[f].epoch
      /\ \A g \in Flushes \ {f} : pass'[g] = pass[g]
  BY <1>1 DEF NameIntake, IInv, TypeOK, Memory
<1>8. PassSound(f)'
  BY <1>5, <1>7 DEF IInv, PassSound, HoldsLock, HasTarget, AtWork, ReadyToUnlink
<1> QED BY <1>3, <1>6, <1>7, <1>8, OthersStep DEF IInv

LEMMA UnlinkIntakeIsSound ==
    ASSUME IInv, NEW f \in Flushes, UnlinkIntake(f)
    PROVE  IInv'
<1>1. PICK s \in Searches : /\ s = pass[f].search
                            /\ SpooledOnDisk(s) \/ Closed(s)
  BY DEF UnlinkIntake, IInv, PassSound, ReadyToUnlink
<1>2. /\ UNCHANGED <<owner, recorded, spool, ledger, forfeited, exposed, flushLock>>
      /\ intake' \in {intake, Put(intake, s, NoFile)}
  BY <1>1 DEF UnlinkIntake, serverVars, historyVars, lockVars
<1>3. /\ intake' \in Directories(Searches, RecordIds \cup {Unnamed}) /\ Coherent(intake')
      /\ Narrows(intake, intake', s, {NoFile})
  <2>1. intake \in Directories(Searches, RecordIds \cup {Unnamed}) /\ Coherent(intake)
    BY DEF IInv, TypeOK, Evidence
  <2>2. CASE intake' = intake
    BY <2>1, <2>2 DEF Narrows
  <2>3. CASE intake' = Put(intake, s, NoFile)
    BY <2>1, <2>3, PutNarrows
  <2> QED BY <1>2, <2>2, <2>3
<1>4. /\ pass' \in [Flushes -> Memory]
      /\ pass[f].step = "unlink" /\ pass'[f].step = "promoting"
      /\ pass'[f].epoch = pass[f].epoch
      /\ \A g \in Flushes \ {f} : pass'[g] = pass[g]
  <2> DEFINE m == [pass[f] EXCEPT !.step = "promoting", !.search = Nobody, !.intake = @ \ {s}]
  <2>1. pass \in [Flushes -> Memory] /\ pass[f].step = "unlink"
    BY DEF UnlinkIntake, IInv, TypeOK
  <2>2. m \in Memory /\ m.step = "promoting" /\ m.epoch = pass[f].epoch
    BY <2>1 DEF Memory, Steps
  <2>3. pass' = [pass EXCEPT ![f] = m]
    BY <1>1, <2>1 DEF UnlinkIntake
  <2> HIDE DEF m
  <2> QED BY <2>1, <2>2, <2>3
<1>5. TypeOK'
  <2>1. faults' \in 0 .. MaxFaults
    BY DEF UnlinkIntake, IInv, TypeOK, Spend
  <2> QED BY <1>3, <1>4, <2>1
          DEF IInv, TypeOK, ServerTypeOK, UnlinkIntake, serverVars, historyVars, lockVars
<1>6. Evidence'
  <2>1. s \in recorded' /\ ~Closed(s)' => OnDisk(s)'
    BY <1>1, <1>2 DEF Closed, Accepted, SpooledOnDisk, OnDisk
  <2>2. \A n \in RecordIds : owner[n] # Nobody => owner'[n] = owner[n]
    BY <1>2
  <2>3. \A n \in {NoFile} \cap RecordIds : owner'[n] = s
    BY ModelValuesAssumption
  <2> QED BY <1>2, <1>3, <1>5, <2>1, <2>2, <2>3, IntakeStep
<1>7. PassSound(f)'
  BY <1>2, <1>4 DEF IInv, PassSound, HoldsLock, HasTarget, AtWork, ReadyToUnlink
<1> QED BY <1>4, <1>5, <1>6, <1>7, OthersStep DEF IInv

LEMMA NewFileFacts ==
    ASSUME NEW e \in Epochs
    PROVE  /\ NewFile(e) \in File /\ NewFile(e) # NoFile
           /\ ~NewFile(e).removal /\ NewFile(e).place = "active"
<1>1. "" \in Verdicts /\ 0 \in Nat
  BY DEF Verdicts
<1>2. NewFile(e) \in File
  BY <1>1 DEF NewFile, File
<1> QED BY <1>2, NoFileAssumption DEF NewFile

(* Spool.Enqueue adds at most the new record, which is on disk when it     *)
(* returns no error; a record already there is on disk then, or it is in   *)
(* quarantine and stays as it is.                                          *)
LEMMA EnqueuedFacts ==
    ASSUME NEW d \in Directories(RecordIds, File), Coherent(d), NEW id \in RecordIds,
           NEW e \in Epochs, NEW outcome \in Outcomes
    PROVE  /\ Enqueued(d, id, e, outcome) \in Directories(RecordIds, File)
           /\ Coherent(Enqueued(d, id, e, outcome))
           /\ d.shown[id] = NoFile => Written(d, Enqueued(d, id, e, outcome), id, NewFile(e), outcome)
           /\ d.shown[id] # NoFile => Narrows(d, Enqueued(d, id, e, outcome), id, {})
           /\ d.shown[id] # NoFile /\ d.shown[id].place = "active" /\ outcome = "stored" =>
                Enqueued(d, id, e, outcome).left[id] = {d.shown[id]}
<1> DEFINE en == Enqueued(d, id, e, outcome)
<1>1. CASE d.shown[id] = NoFile
  <2>1. en = Write(d, id, NewFile(e), outcome)
    BY <1>1 DEF Enqueued
  <2>2. /\ en \in Directories(RecordIds, File) /\ Coherent(en)
        /\ Written(d, en, id, NewFile(e), outcome)
    <3>1. NewFile(e) \in File \cup {NoFile}
      BY NewFileFacts
    <3> HIDE DEF en
    <3> QED BY <2>1, <3>1, WriteNarrows
  <2> QED BY <1>1, <2>2
<1>2. CASE d.shown[id] # NoFile /\ d.shown[id].place = "active" /\ outcome = "stored"
  <2>1. en = Sync(d)
    BY <1>2 DEF Enqueued
  <2> QED BY <1>2, <2>1, SyncNarrows
<1>3. CASE d.shown[id] # NoFile /\ ~(d.shown[id].place = "active" /\ outcome = "stored")
  <2>1. en = d
    BY <1>3 DEF Enqueued
  <2> QED BY <1>3, <2>1 DEF Narrows
<1> QED BY <1>1, <1>2, <1>3

LEMMA SpoolIntakeIsSound ==
    ASSUME IInv, NEW f \in Flushes, NEW s \in Searches, SpoolIntake(f, s)
    PROVE  IInv'
<1>1. PICK id \in RecordIds : id = intake.shown[s]
  BY DEF SpoolIntake
<1>2. /\ pass[f].step = "promoting" /\ pass[f].epoch \in Epochs /\ flushLock = f
      /\ owner[id] = s /\ s # Nobody
  <2>1. id \in intake.left[s]
    BY <1>1 DEF IInv, TypeOK, Directories, Evidence, Coherent
  <2> QED BY <2>1, ModelValuesAssumption
          DEF SpoolIntake, IInv, Evidence, Minted, PassSound, HasTarget, HoldsLock
<1>3. UNCHANGED <<recorded, owner, ledger, forfeited, exposed, flushLock>>
  BY DEF SpoolIntake, serverVars, lockVars
<1>4. CASE UNCHANGED <<intake, spool, sent>> /\ Spend(1)
             /\ pass' = [pass EXCEPT ![f].intake = @ \ {s}]
  <2>1. TypeOK'
    BY <1>4 DEF IInv, TypeOK, ServerTypeOK, SpoolIntake, Memory, Spend, serverVars, lockVars
  <2>2. /\ pass'[f].step = "promoting" /\ pass'[f].epoch = pass[f].epoch
        /\ \A g \in Flushes \ {f} : pass'[g] = pass[g]
    BY <1>2, <1>4 DEF IInv, TypeOK, Memory
  <2>3. HasTarget(f)' /\ AtWork(f)'
    BY <1>2, <2>2 DEF HasTarget, AtWork
  <2> QED BY <1>2, <1>3, <1>4, <2>1, <2>2, <2>3, QuietPassStep
<1>5. ASSUME NEW outcome \in Outcomes,
             Spend(Faults(outcome)), intake' = ConfirmedIntake(intake),
             spool' = Enqueued(spool, id, pass[f].epoch, outcome),
             sent' = IF spool.shown[id] = NoFile THEN [sent EXCEPT ![id] = 0] ELSE sent,
             pass' = IF outcome = "stored"
                       THEN [pass EXCEPT ![f].step = "unlink", ![f].search = s]
                       ELSE [pass EXCEPT ![f].intake = @ \ {s}]
      PROVE  IInv'
  <2>1. /\ spool' \in Directories(RecordIds, File) /\ Coherent(spool')
        /\ spool.shown[id] = NoFile =>
              Written(spool, spool', id, NewFile(pass[f].epoch), outcome)
        /\ spool.shown[id] # NoFile => Narrows(spool, spool', id, {})
        /\ spool.shown[id] # NoFile /\ spool.shown[id].place = "active" /\ outcome = "stored" =>
              spool'.left[id] = {spool.shown[id]}
    BY <1>2, <1>5, EnqueuedFacts DEF IInv, TypeOK, Evidence
  <2>2. /\ intake' \in Directories(Searches, RecordIds \cup {Unnamed}) /\ Coherent(intake')
        /\ \A n \in Searches : intake'.left[n] \subseteq intake.left[n]
    <3>1. intake \in Directories(Searches, RecordIds \cup {Unnamed}) /\ Coherent(intake)
      BY DEF IInv, TypeOK, Evidence
    <3>2. DOMAIN intake.shown = Searches
      BY <3>1 DEF Directories
    <3>3. /\ intake' \in Directories(Searches, RecordIds \cup {Unnamed})
          /\ \A n \in Searches : /\ intake'.shown[n] = intake.shown[n]
                                 /\ intake'.left[n] = {intake.shown[n]}
      BY <1>5, <3>1, SyncFacts DEF ConfirmedIntake
    <3>4. DOMAIN intake'.shown = Searches
      BY <3>3 DEF Directories
    <3> QED BY <3>1, <3>2, <3>3, <3>4 DEF Coherent
  <2>3. /\ pass' \in [Flushes -> Memory]
        /\ pass'[f].epoch = pass[f].epoch
        /\ outcome = "stored" => pass'[f].step = "unlink" /\ pass'[f].search = s
        /\ outcome # "stored" => pass'[f].step = "promoting"
        /\ \A g \in Flushes \ {f} : pass'[g] = pass[g]
    <3>1. pass \in [Flushes -> Memory]
      BY DEF IInv, TypeOK
    <3>2. CASE outcome = "stored"
      <4> DEFINE m == [pass[f] EXCEPT !.step = "unlink", !.search = s]
      <4>1. m \in Memory /\ m.step = "unlink" /\ m.search = s /\ m.epoch = pass[f].epoch
        BY <3>1 DEF Memory, Steps
      <4>2. pass' = [pass EXCEPT ![f] = m]
        BY <1>5, <3>1, <3>2
      <4> HIDE DEF m
      <4> QED BY <3>1, <3>2, <4>1, <4>2
    <3>3. CASE outcome # "stored"
      BY <1>2, <1>5, <3>1, <3>3 DEF Memory
    <3> QED BY <3>2, <3>3
  <2>4. TypeOK'
    <3>1. faults' \in 0 .. MaxFaults
      BY <1>5 DEF IInv, TypeOK, Spend, Faults
    <3>2. sent' \in [RecordIds -> Nat]
      BY <1>5 DEF IInv, TypeOK
    <3> QED BY <2>1, <2>2, <2>3, <3>1, <3>2
            DEF IInv, TypeOK, ServerTypeOK, SpoolIntake, serverVars, lockVars
  <2>5. ASSUME spool.shown[id] # NoFile, spool.shown[id].place = "quarantine",
               NoFile \in spool.left[id]
        PROVE  Closed(owner[id])'
    <3>1. Closed(owner[id])
      BY <2>5 DEF IInv, Evidence, FiledAway
    <3> QED BY <1>3, <3>1 DEF Closed, Accepted
  <2>6. Evidence'
    <3>1. CASE spool.shown[id] = NoFile
      <4>1. ~NewFile(pass[f].epoch).removal /\ NewFile(pass[f].epoch).place = "active"
            /\ NewFile(pass[f].epoch) # NoFile
        BY <1>2, NewFileFacts
      <4>2. spool'.shown[id] \in {NoFile, NewFile(pass[f].epoch)}
        BY <2>1, <3>1 DEF Written, Narrows
      <4>3. \A c \in {NewFile(pass[f].epoch)} :
               c # NoFile => owner[id] # Nobody /\ (c.removal => id \in ledger')
        BY <1>2, <4>1
      <4>4. Narrows(spool, spool', id, {NewFile(pass[f].epoch)})
        BY <2>1, <3>1 DEF Written
      <4> QED BY <1>3, <2>1, <2>2, <2>4, <4>1, <4>2, <4>3, <4>4, SpoolStep
    <3>2. CASE spool.shown[id] # NoFile
      <4>1. spool'.shown[id] = spool.shown[id]
            /\ (NoFile \in spool'.left[id] => NoFile \in spool.left[id])
        BY <2>1, <3>2 DEF Narrows
      <4> QED BY <1>3, <2>1, <2>2, <2>4, <2>5, <3>2, <4>1, SpoolStep
    <3> QED BY <3>1, <3>2
  <2>7. outcome = "stored" => SpooledOnDisk(s)' \/ Closed(s)'
    <3>1. SUFFICES ASSUME outcome = "stored" PROVE SpooledOnDisk(s)' \/ Closed(s)'
      OBVIOUS
    <3>2. CASE NoFile \notin spool'.left[id]
      BY <1>2, <1>3, <3>2 DEF SpooledOnDisk
    <3>3. CASE NoFile \in spool'.left[id]
      <4>1. spool.shown[id] # NoFile
        BY <1>2, <2>1, <3>1, <3>3, NewFileFacts DEF Written
      <4>2. spool.shown[id].place = "quarantine" /\ NoFile \in spool.left[id]
        BY <2>1, <3>1, <3>3, <4>1, RecordFacts DEF Narrows, File
      <4> QED BY <1>2, <1>3, <2>5, <4>1, <4>2 DEF Closed, Accepted
    <3> QED BY <3>2, <3>3
  <2>8. PassSound(f)'
    BY <1>2, <1>3, <2>3, <2>7 DEF PassSound, HoldsLock, HasTarget, AtWork, ReadyToUnlink
  <2> QED BY <1>2, <2>3, <2>4, <2>6, <2>8, OthersStep DEF IInv
<1> QED BY <1>1, <1>4, <1>5 DEF SpoolIntake

-----------------------------------------------------------------------------
(* The end of a flush, by itself or by force; a loss of power; the server. *)

(* A pass that ends forgets its obligations and frees the lock.            *)
LEMMA PassOverIsSound ==
    ASSUME IInv, NEW f \in Flushes, pass[f].step \notin {"idle", "busy"},
           pass' = [pass EXCEPT ![f] = Idle]
    PROVE  /\ pass' \in [Flushes -> Memory]
           /\ \A g \in Flushes : PassSound(g)'
<1>1. Idle \in Memory /\ Idle.step = "idle"
  BY DEF Idle, Memory, Steps, Answers
<1>2. pass' \in [Flushes -> Memory]
  BY <1>1 DEF IInv, TypeOK
<1>3. \A g \in Flushes : pass'[g].step \in {"idle", "busy"}
  BY <1>1, OneAtWork DEF IInv, TypeOK
<1>4. \A g \in Flushes : PassSound(g)'
  BY <1>3 DEF PassSound, HoldsLock, HasTarget, AtWork, ReadyToUnlink
<1> QED BY <1>2, <1>4

LEMMA EndFlushIsSound ==
    ASSUME IInv, NEW f \in Flushes, EndFlush(f)
    PROVE  IInv'
<1>1. /\ pass' \in [Flushes -> Memory]
      /\ \A g \in Flushes : PassSound(g)'
  BY PassOverIsSound DEF EndFlush
<1>2. TypeOK'
  BY <1>1 DEF EndFlush, Spend, IInv, TypeOK, ServerTypeOK, serverVars, historyVars
<1>3. Evidence'
  BY <1>2, QuietStep DEF EndFlush, serverVars, historyVars
<1> QED BY <1>1, <1>2, <1>3 DEF IInv

LEMMA KillIsSound ==
    ASSUME IInv, NEW f \in Flushes, Kill(f)
    PROVE  IInv'
<1>1. /\ pass' \in [Flushes -> Memory]
      /\ \A g \in Flushes : PassSound(g)'
  BY PassOverIsSound DEF Kill
<1>2. TypeOK'
  BY <1>1, BoundsAssumption DEF Kill, IInv, TypeOK, ServerTypeOK, serverVars, historyVars
<1>3. Evidence'
  BY <1>2, QuietStep DEF Kill, serverVars, historyVars
<1> QED BY <1>1, <1>2, <1>3 DEF IInv

LEMMA PowerLossIsSound ==
    ASSUME IInv, PowerLoss
    PROVE  IInv'
<1>1. /\ intake' \in Directories(Searches, RecordIds \cup {Unnamed}) /\ Coherent(intake')
      /\ \A s \in Searches : /\ intake'.shown[s] \in intake.left[s]
                             /\ intake'.left[s] = {intake'.shown[s]}
  BY PowerLossFacts DEF PowerLoss, IInv, TypeOK
<1>2. /\ spool' \in Directories(RecordIds, File) /\ Coherent(spool')
      /\ \A id \in RecordIds : /\ spool'.shown[id] \in spool.left[id]
                               /\ spool'.left[id] = {spool'.shown[id]}
  BY PowerLossFacts DEF PowerLoss, IInv, TypeOK
<1>3. UNCHANGED <<recorded, owner, ledger, forfeited, exposed>>
  BY DEF PowerLoss, serverVars, historyVars
<1>4. TypeOK'
  <2>1. pass' \in [Flushes -> Memory]
    BY DEF PowerLoss, Idle, Memory, Steps, Answers
  <2>2. stamp' \in Epochs \cup {NoEpoch}
    BY MaxEpochAssumption DEF PowerLoss, IInv, TypeOK, Epochs, NoEpoch
  <2>3. crashes' \in 0 .. MaxCrashes
    BY BoundsAssumption DEF PowerLoss, IInv, TypeOK
  <2>4. flushLock' \in Flushes \cup {Nobody}
    BY DEF PowerLoss
  <2> QED BY <1>1, <1>2, <2>1, <2>2, <2>3, <2>4
          DEF PowerLoss, IInv, TypeOK, ServerTypeOK, serverVars, historyVars
<1>5. Evidence'
  <2>1. Minted'
    BY <1>1, <1>2, <1>3 DEF IInv, Evidence, Minted
  <2>2. Acknowledged'
    BY <1>2, <1>3 DEF IInv, Evidence, Acknowledged
  <2>3. FiledAway'
    BY <1>2 DEF FiledAway
  <2>4. KeptThroughPowerLoss'
    <3>1. ASSUME NEW s \in recorded, s \notin Accepted \cup forfeited \cup exposed
          PROVE  OnDisk(s)'
      <4>1. s \in Searches /\ OnDisk(s)
        BY <3>1 DEF IInv, TypeOK, Evidence, KeptThroughPowerLoss
      <4> QED BY <1>1, <1>2, <1>3, <4>1 DEF OnDisk
    <3> QED BY <1>3, <3>1 DEF KeptThroughPowerLoss, Accepted
  <2> QED BY <1>1, <1>2, <2>1, <2>2, <2>3, <2>4 DEF Evidence
<1>6. \A f \in Flushes : PassSound(f)'
  BY DEF PowerLoss, Idle, PassSound, HoldsLock, HasTarget, AtWork, ReadyToUnlink
<1> QED BY <1>4, <1>5, <1>6 DEF IInv

LEMMA ServerIsSound ==
    ASSUME IInv, Server
    PROVE  IInv'
<1>1. TypeOK'
  <2>1. target' \in Epochs \cup {NoEpoch} /\ holder' \in [Epochs -> Bindings]
        /\ ledger' \in SUBSET RecordIds
    BY MaxEpochAssumption DEF Server, OpenNextTarget, BindElsewhere, IInv, TypeOK, ServerTypeOK,
       Epochs, NoEpoch, Bindings
  <2> QED BY <2>1 DEF Server, IInv, TypeOK, ServerTypeOK, historyVars, lockVars
<1>2. ledger' = ledger
  BY DEF Server, OpenNextTarget, BindElsewhere
<1>3. Evidence'
  BY <1>1, <1>2, QuietStep DEF Server, historyVars
<1>4. \A f \in Flushes : PassSound(f)'
  BY <1>2, UntouchedIsSound DEF Server, historyVars, lockVars
<1> QED BY <1>1, <1>3, <1>4 DEF IInv

LEMMA StutterIsSound ==
    ASSUME IInv, UNCHANGED vars
    PROVE  IInv'
<1>1. TypeOK'
  BY DEF IInv, TypeOK, ServerTypeOK, vars, serverVars, historyVars, lockVars
<1>2. Evidence'
  BY <1>1, QuietStep DEF vars, serverVars, historyVars
<1>3. \A f \in Flushes : PassSound(f)'
  BY UntouchedIsSound DEF vars, serverVars, historyVars, lockVars
<1> QED BY <1>1, <1>2, <1>3 DEF IInv

-----------------------------------------------------------------------------
(* The invariant is inductive.                                             *)

LEMMA FlushIsSound ==
    ASSUME IInv, NEW f \in Flushes, Flush(f)
    PROVE  IInv'
<1>1. CASE StartFlush(f) \/ LeaveBusy(f) \/ EndFlush(f)
  BY <1>1, StartFlushIsSound, LeaveBusyIsSound, EndFlushIsSound
<1>2. CASE UseStamp(f) \/ AskTarget(f) \/ NoTarget(f) \/ Participate(f) \/ SaveStamp(f)
  BY <1>2, UseStampIsSound, AskTargetIsSound, NoTargetIsSound, ParticipateIsSound,
     SaveStampIsSound
<1>3. CASE BeginDrop(f) \/ ForgetConflicts(f) \/ \E id \in RecordIds : DropOne(f, id)
  BY <1>3, BeginDropIsSound, ForgetConflictsIsSound, DropOneIsSound
<1>4. CASE \/ ReadIntake(f) \/ UnlinkIntake(f)
           \/ \E s \in Searches : NameIntake(f, s) \/ SpoolIntake(f, s)
  BY <1>4, ReadIntakeIsSound, UnlinkIntakeIsSound, NameIntakeIsSound, SpoolIntakeIsSound
<1>5. CASE ReadPending(f) \/ Mark(f) \/ Settle(f) \/ Retire(f)
  BY <1>5, ReadPendingIsSound, MarkIsSound, SettleIsSound, RetireIsSound
<1>6. CASE \E id \in RecordIds : CleanUp(f, id) \/ WaitOut(f, id) \/ Submit(f, id)
  BY <1>6, CleanUpIsSound, WaitOutIsSound, SubmitIsSound
<1> QED BY <1>1, <1>2, <1>3, <1>4, <1>5, <1>6 DEF Flush

LEMMA StepIsSound == IInv /\ [Next]_vars => IInv'
<1>1. SUFFICES ASSUME IInv, [Next]_vars PROVE IInv'
  OBVIOUS
<1>2. CASE \E s \in Searches : Search(s)
  BY <1>1, <1>2, SearchIsSound
<1>3. CASE \E f \in Flushes : Flush(f) \/ Kill(f)
  BY <1>1, <1>3, FlushIsSound, KillIsSound
<1>4. CASE PowerLoss \/ Server
  BY <1>1, <1>4, PowerLossIsSound, ServerIsSound
<1>5. CASE UNCHANGED vars
  BY <1>1, <1>5, StutterIsSound
<1> QED BY <1>1, <1>2, <1>3, <1>4, <1>5 DEF Next

(* The delivery plane keeps its invariant in every reachable state.        *)
THEOREM InductiveInvariant == Spec => []IInv
<1> QED BY InitIsSound, StepIsSound, PTL DEF Spec

(* Every variable keeps its type; in particular the list of conflicted     *)
(* epochs that SaveEpochConflict grows never exceeds its cap.              *)
THEOREM TypeCorrect == Spec => []TypeOK
<1>1. IInv => TypeOK
  BY DEF IInv
<1> QED BY <1>1, InductiveInvariant, PTL

(* Whatever flushes are killed, power is lost and storage fails: a search  *)
(* that was told its observation is recorded has a durable name holding    *)
(* the evidence until the server accepts it or it is given up.             *)
THEOREM RecordedIsKept == Spec => []KeptThroughPowerLoss
<1>1. IInv => KeptThroughPowerLoss
  BY DEF IInv, Evidence
<1> QED BY <1>1, InductiveInvariant, PTL

-----------------------------------------------------------------------------
(* A step seen from a record it is not about.                              *)

\* What only grows, in every step.
Onward ==
    /\ served \subseteq served' /\ ledger \subseteq ledger'
    /\ forfeited \subseteq forfeited' /\ exposed \subseteq exposed'
    /\ faults <= faults' /\ crashes <= crashes' /\ target <= target'
    /\ \A e \in Epochs : holder[e] = "elsewhere" => holder'[e] = "elsewhere"

\* The intake file of n may go when the spool shows n.
Spooled(n) == spool.shown[n] # NoFile => NoFile \notin spool.left[n] \/ owner[n] \in exposed

Bystander(n) ==
    /\ spool'.shown[n] = spool.shown[n]
    /\ spool'.left[n] \subseteq spool.left[n]
    /\ sent'[n] = sent[n]
    /\ n \in ledger' => n \in ledger
    /\ Attempting(n) => Attempting(n)' \/ crashes < crashes'
    /\ Published(n) =>
         /\ owner'[n] = owner[n]
         /\ intake'.left[owner[n]] \subseteq intake.left[owner[n]] \cup {NoFile}
         /\ NoFile \in intake'.left[owner[n]] => NoFile \in intake.left[owner[n]] \/ Spooled(n)

(* The numbers of the model are natural numbers.                           *)
LEMMA NumberFacts ==
    ASSUME TypeOK
    PROVE  /\ faults \in Nat /\ crashes \in Nat /\ target \in Nat /\ stamp \in Nat
           /\ sent \in [RecordIds -> Nat] /\ MaxAttempts \in Nat /\ MaxAttempts > 0
           /\ \A f \in Flushes : pass[f].epoch \in Nat
<1>1. MaxAttempts \in Nat /\ MaxAttempts > 0
  BY BoundsAssumption DEF MaxAttempts
<1> QED BY <1>1, MaxEpochAssumption, BoundsAssumption
        DEF TypeOK, ServerTypeOK, Epochs, NoEpoch, Memory

(* The spool holds records under every name.                               *)
LEMMA SpoolFacts ==
    ASSUME IInv, NEW n \in RecordIds
    PROVE  /\ spool.shown[n] \in spool.left[n]
           /\ \A c \in spool.left[n] : c # NoFile => c \in File
           /\ ~Published(n) => spool.shown[n] = NoFile /\ spool.left[n] = {NoFile} /\ n \notin ledger
<1> QED BY DEF IInv, TypeOK, Directories, Evidence, Coherent, Published

LEMMA SumsGrow ==
    ASSUME NEW i \in Nat, NEW j \in Nat, NEW k \in Nat, NEW l \in Nat, i <= k, j <= l
    PROVE  i + j <= k + l
<1> QED OBVIOUS

LEMMA SumsCarry ==
    ASSUME NEW i \in Nat, NEW j \in Nat, NEW k \in Nat, NEW l \in Nat, i + j <= k + l,
           NEW m \in Nat, NEW n \in Nat, n <= m + i + j
    PROVE  n <= m + k + l
<1> QED OBVIOUS

(* The attempts a record may owe only grow.                                *)
LEMMA AllowanceGrows ==
    ASSUME TypeOK, TypeOK', Onward, NEW n \in RecordIds
    PROVE  (Attempting(n) => Attempting(n)' \/ crashes < crashes') =>
           /\ Allowance(n) \in Nat /\ Allowance(n)' \in Nat /\ Allowance(n) <= Allowance(n)'
           /\ faults + crashes <= faults' + crashes'
<1>1. /\ faults \in Nat /\ crashes \in Nat /\ faults' \in Nat /\ crashes' \in Nat
      /\ faults <= faults' /\ crashes <= crashes'
  BY BoundsAssumption DEF TypeOK, Onward
<1>2. PICK a, b : a = Allowance(n) /\ b = Allowance(n)'
  OBVIOUS
<1>3. /\ Attempting(n) => a = faults + crashes + 1
      /\ ~Attempting(n) => a = faults + crashes
  BY <1>1, <1>2 DEF Allowance
<1>4. /\ Attempting(n)' => b = faults' + crashes' + 1
      /\ ~Attempting(n)' => b = faults' + crashes'
  <2>1. b = faults' + crashes' + IF Attempting(n)' THEN 1 ELSE 0
    BY <1>2 DEF Allowance
  <2>2. CASE Attempting(n)'
    BY <1>1, <2>1, <2>2
  <2>3. CASE ~Attempting(n)'
    BY <1>1, <2>1, <2>3
  <2> QED BY <2>2, <2>3
<1>5. /\ a \in Nat /\ b \in Nat
      /\ a = faults + crashes \/ b = faults' + crashes' + 1 \/ crashes < crashes' => a <= b
      /\ faults + crashes <= faults' + crashes'
  <2>1. a = faults + crashes + 1 \/ a = faults + crashes
    BY <1>3, Zenon
  <2>2. b = faults' + crashes' + 1 \/ b = faults' + crashes'
    BY <1>4, Zenon
  <2>3. a \in Nat /\ b \in Nat
    BY <1>1, <2>1, <2>2
  <2>4. ASSUME a = faults + crashes PROVE a <= b
    BY <1>1, <2>2, <2>4
  <2>5. ASSUME b = faults' + crashes' + 1 PROVE a <= b
    BY <1>1, <2>1, <2>5
  <2>6. ASSUME crashes < crashes' PROVE a <= b
    BY <1>1, <2>1, <2>2, <2>6
  <2>7. faults + crashes <= faults' + crashes'
    BY <1>1, SumsGrow
  <2> QED BY <2>3, <2>4, <2>5, <2>6, <2>7
<1>6. (Attempting(n) => Attempting(n)' \/ crashes < crashes') => a <= b
  BY <1>3, <1>4, <1>5, Zenon
<1> QED BY <1>2, <1>5, <1>6, Zenon

(* A conflict that was given up is given up for good.                      *)
LEMMA GivenUpStays ==
    ASSUME TypeOK, TypeOK', Onward, NEW file \in File, GivenUp(file)
    PROVE  GivenUp(file)'
<1> QED BY NumberFacts, MaxEpochAssumption
        DEF GivenUp, Onward, File, TypeOK, ServerTypeOK, Epochs, NoEpoch

LEMMA BystanderFate ==
    ASSUME FateInv, IInv', Onward, NEW n \in RecordIds, Bystander(n)
    PROVE  /\ RecordSound(n)'
           /\ Published(n)' => Published(n)
           /\ Published(n) => owner'[n] = owner[n]
<1>1. /\ TypeOK /\ TypeOK' /\ IInv
      /\ Identified(n) /\ Counted(n) /\ Replayable(n) /\ OneContext(n)
  BY DEF FateInv, IInv, Fate, RecordSound
<1>2. /\ spool.shown[n] \in spool.left[n]
      /\ \A c \in spool.left[n] : c # NoFile => c \in File
      /\ ~Published(n) => spool.shown[n] = NoFile /\ spool.left[n] = {NoFile} /\ n \notin ledger
  BY <1>1, SpoolFacts
<1>3. /\ spool'.shown[n] \in spool'.left[n]
  BY DEF IInv, TypeOK, Directories, Evidence, Coherent
<1>4. Published(n)' => Published(n)
  <2>1. ASSUME ~Published(n) PROVE ~Published(n)'
    <3>1. spool'.left[n] = {NoFile} /\ n \notin ledger'
      BY <1>2, <1>3, <2>1 DEF Bystander
    <3> QED BY <3>1 DEF Published
  <2> QED BY <2>1
<1>5. Published(n) => owner'[n] = owner[n]
  BY DEF Bystander
<1>6. Identified(n)'
  BY <1>1, <1>4 DEF Bystander, Identified, Onward
<1>7. Counted(n)'
  <2>1. /\ sent'[n] = sent[n] /\ sent[n] \in Nat /\ MaxAttempts \in Nat
        /\ faults \in Nat /\ crashes \in Nat /\ faults' \in Nat /\ crashes' \in Nat
    BY <1>1, NumberFacts, BoundsAssumption DEF Bystander, TypeOK
  <2>2. /\ Allowance(n) \in Nat /\ Allowance(n)' \in Nat /\ Allowance(n) <= Allowance(n)'
        /\ faults + crashes <= faults' + crashes'
    BY <1>1, AllowanceGrows DEF Bystander
  <2>3. sent'[n] <= MaxAttempts + faults' + crashes'
    BY <1>1, <2>1, <2>2 DEF Counted
  <2>4. ASSUME NEW c \in spool'.left[n], c # NoFile, Undecided(c)
        PROVE  c.attempts < MaxAttempts /\ sent'[n] <= c.attempts + Allowance(n)'
    <3>1. c \in spool.left[n] /\ c.attempts \in Nat
      BY <1>2, <2>4 DEF Bystander, File
    <3>2. c.attempts < MaxAttempts /\ sent[n] <= c.attempts + Allowance(n)
      BY <1>1, <2>4, <3>1 DEF Counted
    <3> QED BY <2>1, <2>2, <3>1, <3>2
  <2> QED BY <2>3, <2>4 DEF Counted
<1>8. Replayable(n)'
  <2>1. SUFFICES ASSUME spool'.shown[n] # NoFile, NoFile \in spool'.left[n]
                 PROVE  \/ owner'[n] \in exposed'
                        \/ /\ IsActive(n)'
                           /\ \/ n \in ledger'
                              \/ GivenUp(spool.shown[n])'
                              \/ NoFile \notin intake'.left[owner'[n]]
    BY DEF Bystander, Replayable
  <2>2. /\ spool.shown[n] # NoFile /\ NoFile \in spool.left[n] /\ Published(n)
        /\ spool.shown[n] \in File
    BY <1>2, <2>1 DEF Bystander
  <2>3. owner'[n] = owner[n] /\ (IsActive(n) => IsActive(n)')
    BY <2>2 DEF Bystander, IsActive
  <2>4. GivenUp(spool.shown[n]) => GivenUp(spool.shown[n])'
    <3>1. ASSUME NEW file \in File, GivenUp(file), file = spool.shown[n] PROVE GivenUp(file)'
      BY <1>1, <3>1, GivenUpStays
    <3>2. spool'.shown[n] = spool.shown[n]
      BY DEF Bystander
    <3> QED BY <2>2, <3>1, <3>2 DEF GivenUp
  <2> QED BY <1>1, <2>2, <2>3, <2>4
          DEF Bystander, Spooled, Replayable, Onward
<1>9. OneContext(n)'
  <2>1. CASE ~Published(n)
    BY <1>2, <2>1 DEF Bystander, OneContext
  <2>2. CASE Published(n)
    BY <1>1, <2>2 DEF Bystander, Onward, OneContext
  <2> QED BY <2>1, <2>2
<1> QED BY <1>4, <1>5, <1>6, <1>7, <1>8, <1>9 DEF RecordSound

-----------------------------------------------------------------------------
(* The invariant after a step about at most one record.                    *)

LEMMA FateStep ==
    ASSUME FateInv, IInv', Onward, NEW id \in RecordIds \cup {Nobody},
           \A n \in RecordIds \ {id} : Bystander(n),
           id \in RecordIds =>
              /\ RecordSound(id)' /\ owner'[id] = owner[id]
              /\ \/ Published(id)
                 \/ \A n \in RecordIds : Published(n) /\ owner[n] = owner[id] => n = id,
           \A s \in Searches \ served' : intake'.left[s] \subseteq intake.left[s] \cup {NoFile},
           InStep', \A g \in Flushes : Handles(g)'
    PROVE  FateInv'
<1>1. ASSUME NEW n \in RecordIds
      PROVE  /\ RecordSound(n)'
             /\ Published(n)' => owner'[n] = owner[n] /\ (Published(n) \/ n = id)
  <2>1. CASE n = id
    BY <2>1
  <2>2. CASE n # id
    BY <2>2, BystanderFate
  <2> QED BY <2>1, <2>2
<1>2. OneIdentity'
  <2>1. ASSUME NEW n1 \in RecordIds, NEW n2 \in RecordIds, Published(n1)', Published(n2)',
               owner'[n1] = owner'[n2], n1 # n2
        PROVE  FALSE
    <3>1. /\ owner[n1] = owner[n2]
          /\ Published(n1) \/ n1 = id
          /\ Published(n2) \/ n2 = id
      BY <1>1, <2>1
    <3>2. ~(Published(n1) /\ Published(n2))
      BY <2>1, <3>1 DEF FateInv, Fate, OneIdentity
    <3> QED BY <2>1, <3>1, <3>2
  <2> QED BY <2>1 DEF OneIdentity
<1>3. Unserved'
  BY DEF FateInv, Fate, Unserved, Onward
<1> QED BY <1>1, <1>2, <1>3 DEF FateInv, Fate

(* A record is a bystander of a step that touches no file of the spool,    *)
(* submits nothing and keeps its identity.                                 *)
LEMMA SpoolStands ==
    ASSUME UNCHANGED <<spool, ledger, sent>>,
           \A g \in Flushes : pass[g].step = "mark" => pass'[g] = pass[g] \/ crashes < crashes',
           NEW n \in RecordIds,
           Published(n) => /\ owner'[n] = owner[n]
                           /\ \/ intake'.left[owner[n]] \subseteq intake.left[owner[n]]
                              \/ /\ intake'.left[owner[n]] \subseteq intake.left[owner[n]] \cup {NoFile}
                                 /\ Spooled(n)
    PROVE  Bystander(n)
<1>1. Attempting(n) => Attempting(n)' \/ crashes < crashes'
  BY DEF Attempting
<1> QED BY <1>1 DEF Bystander

(* A pass at rest handles nothing; one that a step does not touch handles  *)
(* what it did, if the step leaves the spool alone.                        *)
LEMMA HandlesNothing ==
    ASSUME NEW g \in Flushes,
           pass[g].step \notin {"dropping", "draining", "mark", "settle", "retire", "unlink"}
    PROVE  Handles(g)
<1> QED BY DEF Handles

LEMMA HandlesStays ==
    ASSUME FateInv, IInv', Onward, NEW g \in Flushes, pass'[g] = pass[g], spool' = spool,
           \A n \in RecordIds : owner[n] # Nobody => owner'[n] = owner[n]
    PROVE  Handles(g)'
<1>1. TypeOK /\ TypeOK' /\ IInv /\ Handles(g) /\ PassSound(g)
  BY DEF FateInv, IInv, Fate
<1>2. ASSUME pass[g].step = "dropping", NEW n \in pass[g].queue
      PROVE  GivenUp(spool.shown[n])'
  <2>1. n \in RecordIds /\ GivenUp(spool.shown[n]) /\ spool.shown[n] # NoFile
    BY <1>1, <1>2 DEF Handles, TypeOK, Memory, PassSound, AtWork
  <2>2. PICK file \in File : file = spool.shown[n]
    BY <1>1, <2>1, RecordFacts
  <2>3. GivenUp(file)'
    BY <1>1, <2>1, <2>2, GivenUpStays
  <2> QED BY <2>2, <2>3 DEF GivenUp
<1>3. ASSUME pass[g].step = "unlink"
      PROVE  \E n \in RecordIds :
                /\ owner'[n] = pass[g].search
                /\ spool.shown[n] # NoFile
                /\ NoFile \notin spool.left[n] \/ pass[g].search \in exposed'
  <2>1. PICK n \in RecordIds : /\ owner[n] = pass[g].search
                               /\ spool.shown[n] # NoFile
                               /\ NoFile \notin spool.left[n] \/ pass[g].search \in exposed
    BY <1>1, <1>3 DEF Handles
  <2>2. owner[n] # Nobody
    BY <1>1, <2>1, RecordFacts
  <2> QED BY <2>1, <2>2 DEF Onward
<1> QED BY <1>1, <1>2, <1>3 DEF Handles, IsActive

(* The server only moves ahead of the target that the stamp and the passes *)
(* took from it.                                                           *)
LEMMA InStepStays ==
    ASSUME FateInv, IInv', Onward, conflicts' \subseteq conflicts,
           stamp' <= stamp \/ stamp' <= target \/ \E g \in Flushes : stamp' = pass[g].epoch,
           \A g \in Flushes : pass'[g].epoch \in {pass[g].epoch, NoEpoch, stamp, target}
    PROVE  InStep'
<1>1. TypeOK /\ TypeOK' /\ InStep
  BY DEF FateInv, IInv, Fate
<1>2. /\ target \in Nat /\ target' \in Nat /\ stamp \in Nat /\ stamp' \in Nat /\ NoEpoch = 0
      /\ \A g \in Flushes : pass[g].epoch \in Nat
      /\ target <= target'
  BY <1>1, NumberFacts, MaxEpochAssumption
     DEF TypeOK, ServerTypeOK, Onward, Epochs, NoEpoch
<1>3. stamp' <= target'
  BY <1>1, <1>2 DEF InStep
<1>4. ASSUME NEW g \in Flushes PROVE pass'[g].epoch <= target'
  BY <1>1, <1>2 DEF InStep
<1>5. ASSUME NEW c \in conflicts' PROVE holder'[c] = "elsewhere"
  BY <1>1, <1>5 DEF InStep, Onward, TypeOK
<1> QED BY <1>3, <1>4, <1>5 DEF InStep

(* A step of one pass that touches no file.                                *)
LEMMA QuietPassFate ==
    ASSUME FateInv, IInv', Onward, NEW f \in Flushes,
           \A g \in Flushes \ {f} : pass'[g] = pass[g],
           UNCHANGED <<served, owner, intake, spool, ledger, sent>>,
           pass[f].step = "mark" => crashes < crashes',
           InStep', Handles(f)'
    PROVE  FateInv'
<1>1. \A n \in RecordIds : Bystander(n)
  BY SpoolStands
<1>2. \A g \in Flushes : Handles(g)'
  BY HandlesStays
<1>3. Nobody \notin RecordIds
  BY ModelValuesAssumption
<1> QED BY <1>1, <1>2, <1>3, FateStep

-----------------------------------------------------------------------------
(* The steps that touch no file.                                           *)

LEMMA QuietOnward ==
    ASSUME TypeOK, UNCHANGED serverVars,
           served \subseteq served', forfeited \subseteq forfeited', exposed \subseteq exposed',
           faults' = faults \/ \E k \in 0 .. 2 : Spend(k),
           crashes' \in {crashes, crashes + 1}
    PROVE  Onward
<1>1. faults \in Nat /\ crashes \in Nat /\ target \in Nat
  BY NumberFacts
<1>2. faults <= faults'
  BY <1>1 DEF Spend
<1>3. crashes <= crashes' /\ target <= target'
  BY <1>1 DEF serverVars
<1> QED BY <1>2, <1>3 DEF Onward, serverVars

(* A pass that a step leaves out of all work on records.                   *)
LEMMA RestingPassFate ==
    ASSUME FateInv, IInv', NEW f \in Flushes,
           \A g \in Flushes \ {f} : pass'[g] = pass[g],
           UNCHANGED serverVars, UNCHANGED historyVars, UNCHANGED <<intake, spool>>,
           conflicts' \subseteq conflicts, stamp' \in {stamp, pass[f].epoch},
           faults' = faults \/ Spend(1), crashes' \in {crashes, crashes + 1},
           pass[f].step = "mark" => crashes < crashes',
           pass'[f].epoch \in {pass[f].epoch, NoEpoch, stamp, target},
           pass'[f].step \notin {"dropping", "draining", "mark", "settle", "retire", "unlink"}
    PROVE  FateInv'
<1>1. TypeOK /\ TypeOK' /\ stamp \in Nat
  BY NumberFacts DEF FateInv, IInv
<1>2. Onward
  BY <1>1, QuietOnward DEF historyVars
<1>3. InStep'
  <2>1. stamp' <= stamp \/ \E g \in Flushes : stamp' = pass[g].epoch
    BY <1>1
  <2>2. \A g \in Flushes : pass'[g].epoch \in {pass[g].epoch, NoEpoch, stamp, target}
    OBVIOUS
  <2> QED BY <1>2, <2>1, <2>2, InStepStays
<1>4. Handles(f)'
  BY HandlesNothing DEF Handles
<1> QED BY <1>2, <1>3, <1>4, QuietPassFate DEF historyVars, serverVars

LEMMA StartFlushFate ==
    ASSUME FateInv, IInv', NEW f \in Flushes, StartFlush(f)
    PROVE  FateInv'
<1>1. pass \in [Flushes -> Memory] /\ crashes \in Nat
  BY BoundsAssumption DEF FateInv, IInv, TypeOK
<1>2. /\ \A g \in Flushes \ {f} : pass'[g] = pass[g]
      /\ pass'[f].epoch \in {pass[f].epoch, NoEpoch, stamp, target}
      /\ pass'[f].step \notin {"dropping", "draining", "mark", "settle", "retire", "unlink"}
  BY <1>1 DEF StartFlush, Idle, Memory
<1>3. pass[f].step = "mark" => crashes < crashes'
  BY <1>1 DEF StartFlush
<1> QED BY <1>1, <1>2, <1>3, RestingPassFate
        DEF StartFlush, lockVars, serverVars

LEMMA LeaveBusyFate ==
    ASSUME FateInv, IInv', NEW f \in Flushes, LeaveBusy(f)
    PROVE  FateInv'
<1>1. pass \in [Flushes -> Memory] /\ crashes \in Nat
  BY BoundsAssumption DEF FateInv, IInv, TypeOK
<1>2. /\ \A g \in Flushes \ {f} : pass'[g] = pass[g]
      /\ pass'[f].epoch \in {pass[f].epoch, NoEpoch, stamp, target}
      /\ pass'[f].step \notin {"dropping", "draining", "mark", "settle", "retire", "unlink"}
  BY <1>1 DEF LeaveBusy, Idle, Memory
<1>3. pass[f].step = "mark" => crashes < crashes'
  BY <1>1 DEF LeaveBusy
<1> QED BY <1>1, <1>2, <1>3, RestingPassFate
        DEF LeaveBusy, lockVars, serverVars

LEMMA UseStampFate ==
    ASSUME FateInv, IInv', NEW f \in Flushes, UseStamp(f)
    PROVE  FateInv'
<1>1. pass \in [Flushes -> Memory] /\ crashes \in Nat
  BY BoundsAssumption DEF FateInv, IInv, TypeOK
<1>2. /\ \A g \in Flushes \ {f} : pass'[g] = pass[g]
      /\ pass'[f].epoch \in {pass[f].epoch, NoEpoch, stamp, target}
      /\ pass'[f].step \notin {"dropping", "draining", "mark", "settle", "retire", "unlink"}
  BY <1>1 DEF UseStamp, Idle, Memory
<1>3. pass[f].step = "mark" => crashes < crashes'
  BY <1>1 DEF UseStamp
<1> QED BY <1>1, <1>2, <1>3, RestingPassFate
        DEF UseStamp, lockVars, serverVars

LEMMA AskTargetFate ==
    ASSUME FateInv, IInv', NEW f \in Flushes, AskTarget(f)
    PROVE  FateInv'
<1>1. pass \in [Flushes -> Memory] /\ crashes \in Nat
  BY BoundsAssumption DEF FateInv, IInv, TypeOK
<1>2. /\ \A g \in Flushes \ {f} : pass'[g] = pass[g]
      /\ pass'[f].epoch \in {pass[f].epoch, NoEpoch, stamp, target}
      /\ pass'[f].step \notin {"dropping", "draining", "mark", "settle", "retire", "unlink"}
  BY <1>1 DEF AskTarget, Idle, Memory
<1>3. pass[f].step = "mark" => crashes < crashes'
  BY <1>1 DEF AskTarget
<1> QED BY <1>1, <1>2, <1>3, RestingPassFate
        DEF AskTarget, lockVars, serverVars

LEMMA NoTargetFate ==
    ASSUME FateInv, IInv', NEW f \in Flushes, NoTarget(f)
    PROVE  FateInv'
<1>1. pass \in [Flushes -> Memory] /\ crashes \in Nat
  BY BoundsAssumption DEF FateInv, IInv, TypeOK
<1>2. /\ \A g \in Flushes \ {f} : pass'[g] = pass[g]
      /\ pass'[f].epoch \in {pass[f].epoch, NoEpoch, stamp, target}
      /\ pass'[f].step \notin {"dropping", "draining", "mark", "settle", "retire", "unlink"}
  BY <1>1 DEF NoTarget, Idle, Memory
<1>3. pass[f].step = "mark" => crashes < crashes'
  BY <1>1 DEF NoTarget
<1> QED BY <1>1, <1>2, <1>3, RestingPassFate
        DEF NoTarget, lockVars, serverVars

LEMMA SaveStampFate ==
    ASSUME FateInv, IInv', NEW f \in Flushes, SaveStamp(f)
    PROVE  FateInv'
<1>1. pass \in [Flushes -> Memory] /\ crashes \in Nat
  BY BoundsAssumption DEF FateInv, IInv, TypeOK
<1>2. /\ \A g \in Flushes \ {f} : pass'[g] = pass[g]
      /\ pass'[f].epoch \in {pass[f].epoch, NoEpoch, stamp, target}
      /\ pass'[f].step \notin {"dropping", "draining", "mark", "settle", "retire", "unlink"}
  BY <1>1 DEF SaveStamp, Idle, Memory
<1>3. pass[f].step = "mark" => crashes < crashes'
  BY <1>1 DEF SaveStamp
<1> QED BY <1>1, <1>2, <1>3, RestingPassFate
        DEF SaveStamp, lockVars, serverVars

LEMMA ForgetConflictsFate ==
    ASSUME FateInv, IInv', NEW f \in Flushes, ForgetConflicts(f)
    PROVE  FateInv'
<1>1. pass \in [Flushes -> Memory] /\ crashes \in Nat
  BY BoundsAssumption DEF FateInv, IInv, TypeOK
<1>2. /\ \A g \in Flushes \ {f} : pass'[g] = pass[g]
      /\ pass'[f].epoch \in {pass[f].epoch, NoEpoch, stamp, target}
      /\ pass'[f].step \notin {"dropping", "draining", "mark", "settle", "retire", "unlink"}
  BY <1>1 DEF ForgetConflicts, Idle, Memory
<1>3. pass[f].step = "mark" => crashes < crashes'
  BY <1>1 DEF ForgetConflicts
<1> QED BY <1>1, <1>2, <1>3, RestingPassFate
        DEF ForgetConflicts, lockVars, serverVars

LEMMA EndFlushFate ==
    ASSUME FateInv, IInv', NEW f \in Flushes, EndFlush(f)
    PROVE  FateInv'
<1>1. pass \in [Flushes -> Memory] /\ crashes \in Nat
  BY BoundsAssumption DEF FateInv, IInv, TypeOK
<1>2. /\ \A g \in Flushes \ {f} : pass'[g] = pass[g]
      /\ pass'[f].epoch \in {pass[f].epoch, NoEpoch, stamp, target}
      /\ pass'[f].step \notin {"dropping", "draining", "mark", "settle", "retire", "unlink"}
  BY <1>1 DEF EndFlush, Idle, Memory
<1>3. pass[f].step = "mark" => crashes < crashes'
  BY <1>1 DEF EndFlush
<1> QED BY <1>1, <1>2, <1>3, RestingPassFate
        DEF EndFlush, lockVars, serverVars

LEMMA KillFate ==
    ASSUME FateInv, IInv', NEW f \in Flushes, Kill(f)
    PROVE  FateInv'
<1>1. pass \in [Flushes -> Memory] /\ crashes \in Nat
  BY BoundsAssumption DEF FateInv, IInv, TypeOK
<1>2. /\ \A g \in Flushes \ {f} : pass'[g] = pass[g]
      /\ pass'[f].epoch \in {pass[f].epoch, NoEpoch, stamp, target}
      /\ pass'[f].step \notin {"dropping", "draining", "mark", "settle", "retire", "unlink"}
  BY <1>1 DEF Kill, Idle, Memory
<1>3. pass[f].step = "mark" => crashes < crashes'
  BY <1>1 DEF Kill
<1> QED BY <1>1, <1>2, <1>3, RestingPassFate
        DEF Kill, lockVars, serverVars

LEMMA ParticipateFate ==
    ASSUME FateInv, IInv', NEW f \in Flushes, Participate(f)
    PROVE  FateInv'
<1>1. /\ IInv /\ TypeOK /\ TypeOK' /\ pass \in [Flushes -> Memory] /\ InStep
      /\ pass[f].epoch \in Epochs
  BY DEF FateInv, IInv, TypeOK, Fate, Participate, PassSound, HasTarget
<1>2. /\ \A g \in Flushes \ {f} : pass'[g] = pass[g]
      /\ pass[f].step = "participate" /\ pass'[f].step = "stamp"
      /\ \A g \in Flushes : pass'[g].epoch = pass[g].epoch
  BY <1>1 DEF Participate, Memory
<1>3. Onward
  <2>1. \A e \in Epochs : holder[e] = "elsewhere" => holder'[e] = "elsewhere"
    BY <1>1 DEF Participate, BindHere, TypeOK, ServerTypeOK
  <2> QED BY <1>1, <2>1, NumberFacts DEF Participate, historyVars, lockVars, Onward
<1>4. InStep'
  <2>1. \A c \in conflicts' : holder'[c] = "elsewhere"
    BY <1>1, <1>3 DEF Participate, WithConflict, InStep, Onward, TypeOK
  <2> QED BY <1>1, <1>2, <2>1 DEF InStep, Participate
<1>5. Handles(f)'
  BY <1>2 DEF Handles
<1> QED BY <1>2, <1>3, <1>4, <1>5, QuietPassFate DEF Participate, historyVars

LEMMA ReadIntakeFate ==
    ASSUME FateInv, IInv', NEW f \in Flushes, ReadIntake(f)
    PROVE  FateInv'
<1>1. pass \in [Flushes -> Memory] /\ crashes \in Nat
  BY BoundsAssumption DEF FateInv, IInv, TypeOK
<1>2. /\ \A g \in Flushes \ {f} : pass'[g] = pass[g]
      /\ pass'[f].epoch = pass[f].epoch
      /\ pass[f].step = "promote" /\ pass'[f].step = "promoting"
      /\ faults' = faults \/ Spend(1)
  BY <1>1 DEF ReadIntake, Memory
<1> QED BY <1>1, <1>2, RestingPassFate DEF ReadIntake, lockVars, serverVars

(* A pass that turns to the records of its queue: what it handles is       *)
(* proved by the step.                                                     *)
LEMMA WorkingPassFate ==
    ASSUME FateInv, IInv', NEW f \in Flushes,
           \A g \in Flushes \ {f} : pass'[g] = pass[g],
           UNCHANGED serverVars, UNCHANGED historyVars,
           UNCHANGED <<intake, spool, conflicts, stamp, crashes>>,
           faults' = faults \/ Spend(1),
           pass[f].step # "mark", pass'[f].epoch = pass[f].epoch,
           Handles(f)'
    PROVE  FateInv'
<1>1. TypeOK /\ TypeOK' /\ stamp \in Nat
  BY NumberFacts DEF FateInv, IInv
<1>2. Onward
  BY <1>1, QuietOnward DEF historyVars
<1>3. InStep'
  <2>1. stamp' <= stamp
    BY <1>1
  <2>2. \A g \in Flushes : pass'[g].epoch \in {pass[g].epoch, NoEpoch, stamp, target}
    OBVIOUS
  <2> QED BY <1>2, <2>1, <2>2, InStepStays
<1> QED BY <1>2, <1>3, QuietPassFate DEF historyVars, serverVars

LEMMA BeginDropFate ==
    ASSUME FateInv, IInv', NEW f \in Flushes, BeginDrop(f)
    PROVE  FateInv'
<1>1. /\ pass \in [Flushes -> Memory] /\ InStep /\ TypeOK /\ IInv
  BY DEF FateInv, IInv, TypeOK, Fate
<1>2. /\ \A g \in Flushes \ {f} : pass'[g] = pass[g]
      /\ pass[f].step = "drop" /\ pass'[f].epoch = pass[f].epoch
      /\ pass'[f].step \in {"dropping", "promote"}
      /\ pass'[f].step = "dropping" =>
            \A n \in pass'[f].queue :
                /\ n \in RecordIds /\ IsActive(n)
                /\ spool.shown[n].epoch \in conflicts /\ spool.shown[n].epoch < pass[f].epoch
      /\ faults' = faults \/ Spend(1)
  BY <1>1 DEF BeginDrop, IsDue, Memory
<1>3. Handles(f)'
  <2>1. ASSUME pass'[f].step = "dropping", NEW n \in pass'[f].queue
        PROVE  IsActive(n)' /\ GivenUp(spool.shown[n])'
    <3>1. /\ n \in RecordIds /\ IsActive(n)
          /\ holder[spool.shown[n].epoch] = "elsewhere"
          /\ spool.shown[n].epoch < pass[f].epoch /\ pass[f].epoch <= target
          /\ spool.shown[n].epoch \in Nat
      BY <1>1, <1>2, <2>1, MaxEpochAssumption DEF InStep, TypeOK, Epochs
    <3>2. GivenUp(spool.shown[n])
      BY <1>1, <3>1, NumberFacts DEF GivenUp
    <3> QED BY <3>1, <3>2 DEF IsActive, GivenUp, BeginDrop, serverVars
  <2> QED BY <1>2, <2>1 DEF Handles
<1> QED BY <1>2, <1>3, WorkingPassFate DEF BeginDrop, lockVars

LEMMA ReadPendingFate ==
    ASSUME FateInv, IInv', NEW f \in Flushes, ReadPending(f)
    PROVE  FateInv'
<1>1. pass \in [Flushes -> Memory]
  BY DEF FateInv, IInv, TypeOK
<1>2. /\ \A g \in Flushes \ {f} : pass'[g] = pass[g]
      /\ pass[f].step # "mark" /\ pass'[f].epoch = pass[f].epoch
      /\ pass'[f].step = "draining"
      /\ \A n \in pass'[f].queue : IsActive(n)
      /\ faults' = faults \/ Spend(1)
  BY <1>1 DEF ReadPending, Memory
<1>3. Handles(f)'
  BY <1>2 DEF Handles, IsActive, ReadPending
<1> QED BY <1>2, <1>3, WorkingPassFate DEF ReadPending, lockVars

LEMMA WaitOutFate ==
    ASSUME FateInv, IInv', NEW f \in Flushes, NEW id \in RecordIds, WaitOut(f, id)
    PROVE  FateInv'
<1>1. pass \in [Flushes -> Memory] /\ Handles(f)
  BY DEF FateInv, IInv, TypeOK, Fate
<1>2. /\ \A g \in Flushes \ {f} : pass'[g] = pass[g]
      /\ pass'[f].epoch = pass[f].epoch
      /\ pass[f].step = "draining" /\ pass'[f].step = "draining"
      /\ pass'[f].queue \subseteq pass[f].queue
  BY <1>1 DEF WaitOut, Memory
<1>3. Handles(f)'
  BY <1>1, <1>2 DEF Handles, IsActive, WaitOut
<1> QED BY <1>2, <1>3, WorkingPassFate DEF WaitOut, lockVars

LEMMA CleanUpFate ==
    ASSUME FateInv, IInv', NEW f \in Flushes, NEW id \in RecordIds, CleanUp(f, id)
    PROVE  FateInv'
<1> DEFINE step == IF spool.shown[id].terminal # "" THEN "retire" ELSE "settle"
<1>1. Take(f, id, step, "none") /\ step \in {"settle", "retire"} /\ TypeOK /\ Handles(f)
  BY DEF CleanUp, FateInv, IInv, Fate
<1>2. /\ \A g \in Flushes \ {f} : pass'[g] = pass[g]
      /\ pass'[f].step = step /\ pass'[f].record = id
      /\ pass'[f].queue = pass[f].queue \ {id} /\ pass'[f].epoch = pass[f].epoch
  BY <1>1, TakeFacts DEF Steps, Answers
<1>3. pass[f].step = "draining" /\ id \in pass[f].queue
  BY DEF CleanUp
<1>4. Handles(f)'
  BY <1>1, <1>2, <1>3 DEF Handles, IsActive, CleanUp
<1> QED BY <1>2, <1>3, <1>4, WorkingPassFate DEF CleanUp, lockVars

-----------------------------------------------------------------------------
(* The server, and the steps on the intake.                                *)

LEMMA ServerFate ==
    ASSUME FateInv, IInv', Server
    PROVE  FateInv'
<1>1. TypeOK /\ target \in Nat /\ stamp \in Nat
  BY NumberFacts DEF FateInv, IInv
<1>2. Onward
  <2>1. target <= target' /\ faults <= faults' /\ crashes <= crashes'
    BY <1>1, NumberFacts DEF Server, OpenNextTarget, BindElsewhere, lockVars
  <2>2. \A e \in Epochs : holder[e] = "elsewhere" => holder'[e] = "elsewhere"
    BY <1>1 DEF Server, OpenNextTarget, BindElsewhere, TypeOK, ServerTypeOK
  <2> QED BY <2>1, <2>2
          DEF Server, OpenNextTarget, BindElsewhere, Onward, historyVars
<1>3. UNCHANGED <<ledger, served, owner, sent, intake, spool, conflicts, stamp, pass>>
  BY DEF Server, OpenNextTarget, BindElsewhere, historyVars
<1>4. InStep'
  <2>1. stamp' <= stamp /\ conflicts' \subseteq conflicts
    BY <1>1, <1>3
  <2> QED BY <1>2, <1>3, <2>1, InStepStays
<1>5. \A n \in RecordIds : Bystander(n)
  BY <1>3, SpoolStands
<1>6. \A g \in Flushes : Handles(g)'
  BY <1>2, <1>3, HandlesStays
<1>7. Nobody \notin RecordIds
  BY ModelValuesAssumption
<1> QED BY <1>1, <1>2, <1>3, <1>4, <1>5, <1>6, <1>7, FateStep

(* An id minted for a search that no published id names.                   *)
LEMMA MintFate ==
    ASSUME FateInv, IInv', Onward, NEW s \in Searches, NEW id \in RecordIds, Fresh(id),
           owner' = [owner EXCEPT ![id] = s], s \in served',
           \A n \in RecordIds : Published(n) => owner[n] # s,
           \A n \in Searches \ {s} : intake'.left[n] \subseteq intake.left[n],
           UNCHANGED <<spool, ledger, sent, conflicts, stamp>>,
           \A g \in Flushes : /\ pass[g].step = "mark" => pass'[g] = pass[g]
                              /\ pass'[g].epoch = pass[g].epoch,
           \A g \in Flushes : Handles(g)'
    PROVE  FateInv'
<1>1. TypeOK /\ IInv /\ stamp \in Nat
  BY NumberFacts DEF FateInv, IInv
<1>2. s \in served' /\ \A n \in Searches \ served' : intake'.left[n] \subseteq intake.left[n]
  OBVIOUS
<1>3. ASSUME NEW n \in RecordIds, Published(n)
      PROVE  owner'[n] = owner[n] /\ intake'.left[owner[n]] \subseteq intake.left[owner[n]]
  <2>1. owner[n] \in served /\ owner[n] # s
    BY <1>3 DEF FateInv, Fate, RecordSound, Identified
  <2>2. owner[n] \in Searches /\ owner[n] # Nobody
    BY <1>1, <2>1, ModelValuesAssumption DEF TypeOK
  <2> QED BY <1>1, <2>1, <2>2 DEF Fresh, TypeOK
<1>4. \A n \in RecordIds : Bystander(n)
  BY <1>3, SpoolStands
<1>5. InStep'
  <2>1. stamp' <= stamp /\ conflicts' \subseteq conflicts
    BY <1>1
  <2> QED BY <2>1, InStepStays
<1>6. Nobody \notin RecordIds
  BY ModelValuesAssumption
<1> QED BY <1>2, <1>4, <1>5, <1>6, FateStep

LEMMA SearchFate ==
    ASSUME FateInv, IInv', NEW s \in Searches, Search(s)
    PROVE  FateInv'
<1>1. PICK id \in RecordIds, outcome \in Outcomes :
          /\ Fresh(id)
          /\ Spend(Faults(outcome))
          /\ owner' = [owner EXCEPT ![id] = s]
          /\ intake' = Write(intake, s, id, outcome)
  BY DEF Search
<1>2. /\ IInv /\ TypeOK /\ TypeOK'
  BY DEF FateInv, IInv
<1>3. \A n \in Searches \ {s} : intake'.left[n] \subseteq intake.left[n]
  <2>1. intake \in Directories(Searches, RecordIds \cup {Unnamed}) /\ Coherent(intake)
    BY <1>2 DEF IInv, TypeOK, Evidence
  <2>2. Written(intake, intake', s, id, outcome)
    BY <1>1, <2>1, WriteNarrows
  <2> QED BY <2>1, <2>2 DEF Written, Narrows, Directories
<1>4. /\ UNCHANGED serverVars /\ UNCHANGED <<spool, ledger, sent, conflicts, stamp, pass>>
      /\ UNCHANGED <<forfeited, exposed, crashes>> /\ served' = served \cup {s}
  BY DEF Search, serverVars, lockVars
<1>5. Onward
  <2>1. \E k \in 0 .. 2 : Spend(k)
    BY <1>1 DEF Faults
  <2> QED BY <1>2, <1>4, <2>1, QuietOnward
<1>6. \A n \in RecordIds : Published(n) => owner[n] # s
  BY DEF FateInv, Fate, RecordSound, Identified, Search
<1>7. \A g \in Flushes : Handles(g)'
  <2>1. \A n \in RecordIds : owner[n] # Nobody => owner'[n] = owner[n]
    BY <1>1, <1>2 DEF Fresh, TypeOK
  <2> QED BY <1>4, <1>5, <2>1, HandlesStays
<1> QED BY <1>1, <1>3, <1>4, <1>5, <1>6, <1>7, MintFate

LEMMA NameIntakeFate ==
    ASSUME FateInv, IInv', NEW f \in Flushes, NEW s \in Searches, NameIntake(f, s)
    PROVE  FateInv'
<1>1. PICK id \in RecordIds, outcome \in Outcomes :
          /\ Fresh(id)
          /\ Spend(Faults(outcome))
          /\ owner' = [owner EXCEPT ![id] = s]
          /\ intake' = Write(intake, s, id, outcome)
          /\ pass' = IF outcome = "stored" THEN pass ELSE [pass EXCEPT ![f].intake = @ \ {s}]
  BY DEF NameIntake
<1>2. /\ IInv /\ TypeOK /\ TypeOK' /\ pass \in [Flushes -> Memory]
  BY DEF FateInv, IInv, TypeOK
<1>3. \A n \in Searches \ {s} : intake'.left[n] \subseteq intake.left[n]
  <2>1. intake \in Directories(Searches, RecordIds \cup {Unnamed}) /\ Coherent(intake)
    BY <1>2 DEF IInv, TypeOK, Evidence
  <2>2. Written(intake, intake', s, id, outcome)
    BY <1>1, <2>1, WriteNarrows
  <2> QED BY <2>1, <2>2 DEF Written, Narrows, Directories
<1>4. /\ UNCHANGED serverVars /\ UNCHANGED <<spool, ledger, sent, conflicts, stamp>>
      /\ UNCHANGED <<served, forfeited, exposed, crashes>>
  BY DEF NameIntake, serverVars, lockVars
<1>5. Onward
  <2>1. \E k \in 0 .. 2 : Spend(k)
    BY <1>1 DEF Faults
  <2> QED BY <1>2, <1>4, <2>1, QuietOnward
<1>6. \A n \in RecordIds : Published(n) => owner[n] # s
  <2>1. Unnamed \in intake.left[s]
    BY <1>2 DEF NameIntake, IInv, TypeOK, Directories, Evidence, Coherent
  <2> QED BY <2>1, ModelValuesAssumption DEF FateInv, Fate, RecordSound, Identified
<1>7. s \in served'
  <2>1. Unnamed \in intake.left[s] /\ Unnamed # NoFile
    BY <1>2, ModelValuesAssumption DEF NameIntake, IInv, TypeOK, Directories, Evidence, Coherent
  <2> QED BY <1>4, <2>1 DEF FateInv, Fate, Unserved
<1>8. /\ \A g \in Flushes : pass'[g].epoch = pass[g].epoch /\ pass'[g].step = pass[g].step
      /\ \A g \in Flushes \ {f} : pass'[g] = pass[g]
      /\ pass[f].step = "promoting"
  BY <1>1, <1>2 DEF Memory, NameIntake
<1>9. \A g \in Flushes : Handles(g)'
  <2>1. \A n \in RecordIds : owner[n] # Nobody => owner'[n] = owner[n]
    BY <1>1, <1>2 DEF Fresh, TypeOK
  <2>2. Handles(f)'
    BY <1>8 DEF Handles
  <2> QED BY <1>4, <1>5, <1>8, <2>1, <2>2, HandlesStays
<1> QED BY <1>1, <1>3, <1>4, <1>5, <1>6, <1>7, <1>8, <1>9, MintFate

LEMMA UnlinkIntakeFate ==
    ASSUME FateInv, IInv', NEW f \in Flushes, UnlinkIntake(f)
    PROVE  FateInv'
<1>1. /\ IInv /\ TypeOK /\ TypeOK' /\ pass \in [Flushes -> Memory] /\ Handles(f)
      /\ stamp \in Nat
  BY NumberFacts DEF FateInv, IInv, TypeOK, Fate
<1>2. PICK s \in Searches : s = pass[f].search
  BY <1>1 DEF UnlinkIntake, IInv, PassSound, ReadyToUnlink
<1>3. PICK id \in RecordIds : /\ owner[id] = s
                              /\ spool.shown[id] # NoFile
                              /\ NoFile \notin spool.left[id] \/ s \in exposed
  BY <1>1, <1>2 DEF UnlinkIntake, Handles
<1>4. /\ \A n \in Searches \ {s} : intake'.left[n] \subseteq intake.left[n]
      /\ intake'.left[s] \subseteq intake.left[s] \cup {NoFile}
  <2>1. intake \in Directories(Searches, RecordIds \cup {Unnamed}) /\ Coherent(intake)
    BY <1>1 DEF IInv, TypeOK, Evidence
  <2>2. CASE intake' = intake
    BY <2>2
  <2>3. CASE intake' = Put(intake, s, NoFile)
    <3>1. Narrows(intake, intake', s, {NoFile})
      BY <2>1, <2>3, PutNarrows
    <3> QED BY <2>1, <3>1 DEF Narrows, Directories
  <2> QED BY <1>2, <2>2, <2>3 DEF UnlinkIntake
<1>5. /\ UNCHANGED serverVars /\ UNCHANGED historyVars
      /\ UNCHANGED <<spool, conflicts, stamp, crashes>>
      /\ faults' = faults \/ Spend(1)
  BY DEF UnlinkIntake, lockVars
<1>6. /\ pass[f].step = "unlink" /\ pass'[f].step = "promoting"
      /\ pass'[f].epoch = pass[f].epoch
      /\ \A g \in Flushes \ {f} : pass'[g] = pass[g]
  <2> DEFINE m == [pass[f] EXCEPT !.step = "promoting", !.search = Nobody, !.intake = @ \ {s}]
  <2>1. m.step = "promoting" /\ m.epoch = pass[f].epoch
    BY <1>1 DEF Memory
  <2>2. pass' = [pass EXCEPT ![f] = m] /\ pass[f].step = "unlink"
    BY <1>1, <1>2 DEF UnlinkIntake
  <2> HIDE DEF m
  <2> QED BY <1>1, <2>1, <2>2
<1>7. Onward
  BY <1>1, <1>5, QuietOnward DEF historyVars
<1>8. ASSUME NEW n \in RecordIds PROVE Bystander(n)
  <2>1. ASSUME Published(n)
        PROVE  \/ intake'.left[owner[n]] \subseteq intake.left[owner[n]]
               \/ /\ intake'.left[owner[n]] \subseteq intake.left[owner[n]] \cup {NoFile}
                  /\ Spooled(n)
    <3>1. CASE owner[n] = s
      <4>1. Published(id)
        BY <1>1, <1>3, SpoolFacts
      <4>2. n = id
        BY <1>3, <2>1, <3>1, <4>1 DEF FateInv, Fate, OneIdentity
      <4> QED BY <1>3, <1>4, <4>2 DEF Spooled
    <3>2. CASE owner[n] # s
      <4>1. owner[n] \in served
        BY <2>1 DEF FateInv, Fate, RecordSound, Identified
      <4> QED BY <1>1, <1>4, <3>2, <4>1 DEF TypeOK
    <3> QED BY <3>1, <3>2
  <2> QED BY <1>5, <1>6, <2>1, SpoolStands DEF serverVars, historyVars
<1>9. InStep'
  <2>1. stamp' <= stamp /\ conflicts' \subseteq conflicts
    BY <1>1, <1>5
  <2>2. \A g \in Flushes : pass'[g].epoch = pass[g].epoch
    BY <1>6
  <2> QED BY <1>7, <2>1, <2>2, InStepStays
<1>10. \A g \in Flushes : Handles(g)'
  <2>1. Handles(f)'
    BY <1>6 DEF Handles
  <2> QED BY <1>5, <1>6, <1>7, <2>1, HandlesStays DEF historyVars
<1>11. Nobody \notin RecordIds
  BY ModelValuesAssumption
<1> QED BY <1>4, <1>7, <1>8, <1>9, <1>10, <1>11, FateStep

-----------------------------------------------------------------------------
(* The steps of a pass at work on one record.                              *)

(* What such a step leaves to prove: the record itself, and what the pass  *)
(* handles next.                                                           *)
LEMMA WorkFate ==
    ASSUME FateInv, IInv', Onward, NEW f \in Flushes, NEW id \in RecordIds,
           pass[f].step \in {"dropping", "promoting", "draining", "mark", "settle", "retire"},
           pass[f].step = "mark" => pass[f].record = id,
           \A g \in Flushes \ {f} : pass'[g] = pass[g],
           pass'[f].epoch = pass[f].epoch,
           UNCHANGED <<served, owner, conflicts, stamp>>,
           \A s \in Searches : intake'.left[s] \subseteq intake.left[s],
           \A n \in RecordIds \ {id} : /\ spool'.shown[n] = spool.shown[n]
                                       /\ spool'.left[n] \subseteq spool.left[n]
                                       /\ sent'[n] = sent[n],
           ledger' \subseteq ledger \cup {id},
           Published(id) \/ \A n \in RecordIds : Published(n) /\ owner[n] = owner[id] => n = id,
           RecordSound(id)', Handles(f)'
    PROVE  FateInv'
<1>1. /\ TypeOK /\ IInv /\ stamp \in Nat
      /\ pass[f].step \notin {"idle", "busy"}
  BY NumberFacts DEF FateInv, IInv
<1>2. \A g \in Flushes \ {f} : pass[g].step \in {"idle", "busy"}
  BY <1>1, OneAtWork
<1>3. ASSUME NEW n \in RecordIds \ {id} PROVE Bystander(n)
  <2>1. ~Attempting(n)
    BY <1>2, <1>3 DEF Attempting
  <2>2. Published(n) => owner[n] \in Searches
    BY <1>1 DEF FateInv, Fate, RecordSound, Identified, TypeOK
  <2> QED BY <2>1, <2>2 DEF Bystander
<1>4. \A g \in Flushes \ {f} : Handles(g)'
  BY <1>2 DEF Handles
<1>5. InStep'
  <2>1. stamp' <= stamp
    BY <1>1
  <2> QED BY <2>1, InStepStays
<1> QED BY <1>3, <1>4, <1>5, FateStep

LEMMA SubmitFate ==
    ASSUME FateInv, IInv', NEW f \in Flushes, NEW id \in RecordIds, Submit(f, id)
    PROVE  FateInv'
<1>1. PICK answer \in {"satisfied", "retry", "permanent"} :
          /\ Take(f, id, "mark", answer)
          /\ ledger' \in {ledger, ledger \cup {id}}
  BY DEF Submit, Accept
<1>2. /\ IInv /\ TypeOK /\ TypeOK' /\ Handles(f) /\ RecordSound(id)
      /\ pass[f].step = "draining" /\ id \in pass[f].queue
      /\ PassSound(f)
  BY DEF FateInv, IInv, Fate, Submit
<1>3. /\ \A g \in Flushes \ {f} : pass'[g] = pass[g]
      /\ pass'[f].step = "mark" /\ pass'[f].record = id
      /\ pass'[f].queue = pass[f].queue \ {id} /\ pass'[f].epoch = pass[f].epoch
  BY <1>1, <1>2, TakeFacts DEF Steps, Answers
<1>4. UNCHANGED <<target, holder, served, owner, forfeited, exposed, intake, spool, conflicts,
                  stamp, faults, crashes>>
  BY DEF Submit, lockVars
<1>5. Onward
  BY <1>1, <1>2, <1>4, NumberFacts DEF Onward
<1>6. /\ spool.shown[id] # NoFile /\ IsActive(id) /\ Undecided(spool.shown[id])
      /\ spool.shown[id] \in spool.left[id] /\ spool.shown[id] \in File
  BY <1>2, RecordFacts DEF PassSound, AtWork, Handles, Submit
<1>7. RecordSound(id)'
  <2>1. Identified(id)'
    <3>1. Published(id)
      BY <1>2, <1>6, SpoolFacts
    <3> QED BY <1>2, <1>4, <3>1 DEF RecordSound, Identified
  <2>2. Counted(id)'
    <3>1. ~Attempting(id) /\ Attempting(id)'
      <4>1. \A g \in Flushes \ {f} : pass[g].step \in {"idle", "busy"}
        BY <1>2, OneAtWork
      <4> QED BY <1>2, <1>3, <4>1 DEF Attempting
    <3>2. PICK k \in Nat : k = faults + crashes
      BY <1>2, NumberFacts
    <3>3. /\ faults' + crashes' = k
          /\ Allowance(id) = k /\ Allowance(id)' = k + 1
      <4>1. Allowance(id) = k + 0
        BY <3>1, <3>2 DEF Allowance
      <4>2. Allowance(id)' = faults' + crashes' + 1
        BY <3>1 DEF Allowance
      <4> QED BY <1>4, <3>2, <4>1, <4>2
    <3>4. /\ sent'[id] = sent[id] + 1 /\ sent[id] \in Nat
          /\ MaxAttempts \in Nat
      BY <1>2, NumberFacts DEF Submit, TypeOK
    <3>5. /\ spool.shown[id].attempts \in Nat
          /\ spool.shown[id].attempts < MaxAttempts
          /\ sent[id] <= spool.shown[id].attempts + k
      BY <1>2, <1>6, <3>3 DEF RecordSound, Counted, File
    <3>6. /\ faults \in Nat /\ crashes \in Nat
      BY <1>2, NumberFacts
    <3>7. sent'[id] <= MaxAttempts + faults' + crashes'
      BY <1>4, <3>2, <3>4, <3>5, <3>6
    <3>8. ASSUME NEW c \in spool'.left[id], c # NoFile, Undecided(c)
          PROVE  c.attempts < MaxAttempts /\ sent'[id] <= c.attempts + Allowance(id)'
      <4>1. /\ c.attempts \in Nat /\ c.attempts < MaxAttempts
            /\ sent[id] <= c.attempts + k
        BY <1>2, <1>4, <3>3, <3>8, SpoolFacts DEF RecordSound, Counted, File
      <4> QED BY <3>3, <3>4, <4>1
    <3> QED BY <3>7, <3>8 DEF Counted
  <2>3. Replayable(id)'
    BY <1>2, <1>4, <1>5 DEF RecordSound, Replayable, IsActive, GivenUp, Onward
  <2>4. OneContext(id)'
    BY <1>2, <1>4, <1>5 DEF RecordSound, OneContext, Onward
  <2> QED BY <2>1, <2>2, <2>3, <2>4 DEF RecordSound
<1>8. Handles(f)'
  BY <1>2, <1>3, <1>4, <1>6 DEF Handles, IsActive
<1>9. Published(id)
  BY <1>2, <1>6, SpoolFacts
<1>10. \A n \in RecordIds \ {id} : sent'[n] = sent[n]
  BY <1>2 DEF Submit, TypeOK
<1> QED BY <1>1, <1>2, <1>3, <1>4, <1>5, <1>7, <1>8, <1>9, <1>10, WorkFate

(* A record removed for a cause, whatever becomes of its file.             *)
LEMMA RemovalFate ==
    ASSUME FateInv, IInv', Onward, NEW id \in RecordIds, IsActive(id), spool.shown[id] # NoFile,
           NEW how \in Removals, spool' = Removed(spool, id, how),
           UNCHANGED <<owner, intake, sent, crashes>>, ledger' = ledger, ~Attempting(id),
           \/ id \in ledger
           \/ /\ GivenUp(spool.shown[id])
              /\ how \notin {"kept", "restored"} => owner[id] \in forfeited'
    PROVE  /\ RecordSound(id)' /\ Published(id)
           /\ \A n \in RecordIds \ {id} : /\ spool'.shown[n] = spool.shown[n]
                                          /\ spool'.left[n] \subseteq spool.left[n]
<1>1. /\ IInv /\ TypeOK /\ TypeOK' /\ Identified(id) /\ Counted(id)
      /\ spool \in Directories(RecordIds, File) /\ Coherent(spool)
  BY DEF FateInv, IInv, Fate, TypeOK, Evidence, RecordSound
<1>2. /\ Narrows(spool, spool', id, {NoFile})
      /\ how \in {"kept", "restored"} => Narrows(spool, spool', id, {})
  BY <1>1, RemovedFacts
<1>3. Published(id) /\ spool.shown[id] \in File
  BY <1>1, SpoolFacts
<1>4. \A n \in RecordIds \ {id} : /\ spool'.shown[n] = spool.shown[n]
                                  /\ spool'.left[n] \subseteq spool.left[n]
  BY <1>1, <1>2 DEF Narrows, Directories
<1>5. RecordSound(id)'
  <2>1. CASE how \in {"kept", "restored"}
    <3>1. Bystander(id)
      BY <1>2, <2>1 DEF Bystander, Narrows
    <3> QED BY <3>1, BystanderFate
  <2>2. CASE how \notin {"kept", "restored"}
    <3>1. /\ spool'.shown[id] \in {spool.shown[id], NoFile}
          /\ spool'.left[id] \subseteq spool.left[id] \cup {NoFile}
      BY <1>2 DEF Narrows
    <3>2. Identified(id)'
      BY <1>1, <1>3 DEF Identified, Onward
    <3>3. Counted(id)'
      <4>1. /\ sent'[id] = sent[id] /\ sent[id] \in Nat /\ MaxAttempts \in Nat
            /\ faults \in Nat /\ crashes \in Nat /\ faults' \in Nat /\ crashes' \in Nat
        BY <1>1, NumberFacts, BoundsAssumption DEF TypeOK
      <4>2. /\ Allowance(id) \in Nat /\ Allowance(id)' \in Nat
            /\ Allowance(id) <= Allowance(id)'
            /\ faults + crashes <= faults' + crashes'
        BY <1>1, AllowanceGrows
      <4>3. sent'[id] <= MaxAttempts + faults' + crashes'
        <5>1. sent'[id] <= MaxAttempts + faults + crashes
          BY <1>1, <4>1 DEF Counted
        <5> QED BY <4>1, <4>2, <5>1, SumsCarry
      <4>4. ASSUME NEW c \in spool'.left[id], c # NoFile, Undecided(c)
            PROVE  c.attempts < MaxAttempts /\ sent'[id] <= c.attempts + Allowance(id)'
        <5>1. c \in spool.left[id] /\ c.attempts \in Nat
          BY <1>1, <3>1, <4>4, SpoolFacts DEF File
        <5>2. c.attempts < MaxAttempts /\ sent[id] <= c.attempts + Allowance(id)
          BY <1>1, <4>4, <5>1 DEF Counted
        <5> QED BY <4>1, <4>2, <5>1, <5>2
      <4> QED BY <4>3, <4>4 DEF Counted
    <3>4. Replayable(id)'
      <4>1. ASSUME spool'.shown[id] # NoFile
            PROVE  IsActive(id)' /\ (id \in ledger' \/ GivenUp(spool.shown[id])')
        <5>1. spool'.shown[id] = spool.shown[id]
          BY <3>1, <4>1
        <5>2. PICK file \in File : file = spool.shown[id]
          BY <1>3
        <5>3. GivenUp(file) => GivenUp(file)'
          BY <1>1, GivenUpStays
        <5> QED BY <5>1, <5>2, <5>3 DEF IsActive, GivenUp
      <4> QED BY <4>1 DEF Replayable
    <3>5. OneContext(id)'
      BY <2>2 DEF OneContext
    <3> QED BY <3>2, <3>3, <3>4, <3>5 DEF RecordSound
  <2> QED BY <2>1, <2>2
<1> QED BY <1>3, <1>4, <1>5

LEMMA DropOneFate ==
    ASSUME FateInv, IInv', NEW f \in Flushes, NEW id \in RecordIds, DropOne(f, id)
    PROVE  FateInv'
<1>1. PICK how \in Removals :
          /\ Spend(RemovalFaults(how))
          /\ spool' = Removed(spool, id, how)
          /\ forfeited' = IF how \in {"kept", "restored"} THEN forfeited
                          ELSE forfeited \cup {owner[id]}
  BY DEF DropOne
<1>2. /\ IInv /\ TypeOK /\ TypeOK' /\ Handles(f) /\ PassSound(f)
      /\ pass \in [Flushes -> Memory]
      /\ pass[f].step = "dropping" /\ id \in pass[f].queue
  BY DEF FateInv, IInv, Fate, TypeOK, DropOne
<1>3. /\ \A g \in Flushes \ {f} : pass'[g] = pass[g]
      /\ pass'[f].step = "dropping" /\ pass'[f].queue = pass[f].queue \ {id}
      /\ pass'[f].epoch = pass[f].epoch
  BY <1>2 DEF DropOne, Memory
<1>4. UNCHANGED serverVars /\ UNCHANGED <<served, exposed, owner, sent, intake, conflicts, stamp,
                                          crashes>>
  BY DEF DropOne, lockVars
<1>5. Onward
  <2>1. \E k \in 0 .. 2 : Spend(k)
    BY <1>1 DEF RemovalFaults
  <2> QED BY <1>1, <1>2, <1>4, <2>1, QuietOnward
<1>6. spool.shown[id] # NoFile /\ IsActive(id) /\ GivenUp(spool.shown[id])
  BY <1>2 DEF PassSound, AtWork, Handles
<1>7. ~Attempting(id)
  <2>1. \A g \in Flushes \ {f} : pass[g].step \in {"idle", "busy"}
    BY <1>2, OneAtWork
  <2> QED BY <1>2, <2>1 DEF Attempting
<1>8. /\ RecordSound(id)' /\ Published(id)
      /\ \A n \in RecordIds \ {id} : /\ spool'.shown[n] = spool.shown[n]
                                     /\ spool'.left[n] \subseteq spool.left[n]
  BY <1>1, <1>4, <1>5, <1>6, <1>7, RemovalFate DEF serverVars
<1>9. Handles(f)'
  <2>1. ASSUME NEW n \in pass'[f].queue PROVE IsActive(n)' /\ GivenUp(spool.shown[n])'
    <3>1. n \in RecordIds \ {id} /\ IsActive(n) /\ GivenUp(spool.shown[n])
      BY <1>2, <1>3, <2>1 DEF Handles, Memory
    <3> QED BY <1>4, <1>8, <3>1 DEF IsActive, GivenUp, serverVars
  <2> QED BY <1>3, <2>1 DEF Handles
<1> QED BY <1>2, <1>3, <1>4, <1>5, <1>8, <1>9, WorkFate DEF serverVars

LEMMA SettleFate ==
    ASSUME FateInv, IInv', NEW f \in Flushes, Settle(f)
    PROVE  FateInv'
<1>0. PICK id \in RecordIds : id = pass[f].record
  BY DEF Settle, FateInv, IInv, PassSound, AtWork
<1>1. PICK how \in Removals : Spend(RemovalFaults(how)) /\ spool' = Removed(spool, id, how)
  BY <1>0 DEF Settle
<1>2. /\ IInv /\ TypeOK /\ TypeOK' /\ Handles(f) /\ PassSound(f)
      /\ pass \in [Flushes -> Memory] /\ pass[f].step = "settle"
  BY DEF FateInv, IInv, Fate, TypeOK, Settle
<1>3. /\ \A g \in Flushes \ {f} : pass'[g] = pass[g]
      /\ pass'[f].step = "draining" /\ pass'[f].queue = pass[f].queue
      /\ pass'[f].epoch = pass[f].epoch
  BY <1>2, ResumeFacts DEF Settle, Steps
<1>4. UNCHANGED serverVars /\ UNCHANGED historyVars
      /\ UNCHANGED <<intake, conflicts, stamp, crashes>>
  BY DEF Settle, lockVars
<1>5. Onward
  <2>1. \E k \in 0 .. 2 : Spend(k)
    BY <1>1 DEF RemovalFaults
  <2> QED BY <1>2, <1>4, <2>1, QuietOnward DEF historyVars
<1>6. /\ spool.shown[id] # NoFile /\ IsActive(id) /\ id \in ledger
      /\ id \notin pass[f].queue /\ \A n \in pass[f].queue : n \in RecordIds /\ IsActive(n)
  BY <1>0, <1>2 DEF PassSound, AtWork, Handles, Memory
<1>7. ~Attempting(id)
  <2>1. \A g \in Flushes \ {f} : pass[g].step \in {"idle", "busy"}
    BY <1>2, OneAtWork
  <2> QED BY <1>2, <2>1 DEF Attempting
<1>8. /\ RecordSound(id)' /\ Published(id)
      /\ \A n \in RecordIds \ {id} : /\ spool'.shown[n] = spool.shown[n]
                                     /\ spool'.left[n] \subseteq spool.left[n]
  BY <1>1, <1>4, <1>5, <1>6, <1>7, RemovalFate DEF serverVars, historyVars
<1>9. Handles(f)'
  BY <1>3, <1>6, <1>8 DEF Handles, IsActive
<1> QED BY <1>0, <1>2, <1>3, <1>4, <1>5, <1>8, <1>9, WorkFate DEF serverVars, historyVars

(* A record rewritten in place or moved to quarantine keeps its identity   *)
(* and its delivery context.                                               *)
LEMMA RewrittenFate ==
    ASSUME FateInv, IInv', Onward, NEW id \in RecordIds, spool.shown[id] # NoFile,
           NEW new \in File, new.epoch = spool.shown[id].epoch, NEW outcome \in Outcomes,
           Written(spool, spool', id, new, outcome),
           UNCHANGED <<owner, intake, ledger>>
    PROVE  /\ Identified(id)' /\ OneContext(id)' /\ Published(id)
           /\ \A n \in RecordIds \ {id} : /\ spool'.shown[n] = spool.shown[n]
                                          /\ spool'.left[n] \subseteq spool.left[n]
<1>1. /\ IInv /\ Identified(id) /\ OneContext(id) /\ new # NoFile
      /\ spool \in Directories(RecordIds, File)
  BY NoFileAssumption DEF FateInv, IInv, Fate, TypeOK, RecordSound
<1>2. Published(id)
  BY <1>1, SpoolFacts
<1>3. /\ spool'.shown[id] \in {spool.shown[id], new}
      /\ spool'.left[id] \subseteq spool.left[id] \cup {new}
      /\ \A n \in RecordIds \ {id} : /\ spool'.shown[n] = spool.shown[n]
                                     /\ spool'.left[n] \subseteq spool.left[n]
  BY <1>1 DEF Written, Narrows, Directories
<1>4. Identified(id)'
  BY <1>1, <1>2 DEF Identified, Onward
<1>5. OneContext(id)'
  <2>1. CASE id \in ledger \/ owner[id] \in forfeited
    BY <2>1 DEF OneContext, Onward
  <2>2. CASE \A c \in spool.left[id] : c # NoFile => c.epoch = spool.shown[id].epoch
    BY <1>1, <1>3, <2>2 DEF OneContext
  <2> QED BY <1>1, <2>1, <2>2 DEF OneContext
<1> QED BY <1>2, <1>3, <1>4, <1>5

(* What Rewrite and Quarantine write of a record that is still undecided.  *)
LEMMA MarkedUndecided ==
    ASSUME NEW file \in File, NEW answer \in Answers, Undecided(file),
           Undecided(Marked(file, answer))
    PROVE  /\ Marked(file, answer).attempts = file.attempts + 1
           /\ Marked(file, answer).attempts < MaxAttempts
<1>1. file.attempts \in Nat /\ MaxAttempts \in Nat
  BY BoundsAssumption DEF File, MaxAttempts
<1>2. answer \notin {"satisfied", "permanent"}
  BY DEF Marked, Undecided, File
<1>3. Marked(file, answer) = [file EXCEPT !.attempts = @ + 1,
                               !.terminal = IF file.attempts + 1 >= MaxAttempts
                                            THEN "attempts_exhausted" ELSE ""]
  BY <1>2 DEF Marked
<1>4. /\ Marked(file, answer).attempts = file.attempts + 1
      /\ Marked(file, answer).terminal = IF file.attempts + 1 >= MaxAttempts
                                         THEN "attempts_exhausted" ELSE ""
  BY <1>3 DEF File
<1> HIDE DEF Marked
<1>5. Marked(file, answer).terminal = ""
  BY DEF Undecided
<1>6. ~(file.attempts + 1 >= MaxAttempts)
  BY <1>4, <1>5
<1>7. PICK k \in Nat : k = file.attempts + 1
  BY <1>1
<1>8. k < MaxAttempts
  BY <1>1, <1>6, <1>7
<1> QED BY <1>4, <1>7, <1>8

LEMMA MarkFate ==
    ASSUME FateInv, IInv', NEW f \in Flushes, Mark(f)
    PROVE  FateInv'
<1>0. PICK id \in RecordIds : id = pass[f].record
  BY DEF Mark, FateInv, IInv, PassSound, AtWork
<1> DEFINE file == spool.shown[id]
           new  == Marked(file, pass[f].answer)
<1>1. /\ IInv /\ TypeOK /\ TypeOK' /\ Handles(f) /\ PassSound(f)
      /\ Counted(id) /\ Replayable(id)
      /\ spool \in Directories(RecordIds, File) /\ Coherent(spool)
      /\ pass \in [Flushes -> Memory] /\ pass[f].step = "mark" /\ pass[f].answer \in Answers
  BY DEF FateInv, IInv, Fate, RecordSound, TypeOK, Evidence, Mark, Memory
<1>2. /\ file # NoFile /\ file \in File /\ file \in spool.left[id]
      /\ IsActive(id) /\ Undecided(file)
      /\ id \notin pass[f].queue /\ \A n \in pass[f].queue : n \in RecordIds /\ IsActive(n)
  BY <1>0, <1>1, RecordFacts DEF PassSound, AtWork, Handles, Memory
<1>3. /\ new \in File /\ new # NoFile /\ new.place = "active" /\ new.epoch = file.epoch
      /\ Undecided(new) => new.attempts = file.attempts + 1 /\ new.attempts < MaxAttempts
  BY <1>1, <1>2, MarkedFacts, MarkedUndecided DEF IsActive
<1> HIDE DEF new
<1>4. PICK outcome \in Outcomes, step \in {"draining", "settle", "retire"} :
          /\ Spend(Faults(outcome))
          /\ spool' = Write(spool, id, new, outcome)
          /\ Resume(f, step)
          /\ step # "draining" => outcome = "stored"
  BY <1>0 DEF Mark, new
<1>5. Written(spool, spool', id, new, outcome)
  BY <1>1, <1>3, <1>4, WriteNarrows
<1>6. /\ spool'.shown[id] \in {file, new}
      /\ spool'.left[id] \subseteq spool.left[id] \cup {new}
      /\ outcome = "stored" => spool'.shown[id] = new /\ spool'.left[id] = {new}
  BY <1>5 DEF Written, Narrows
<1>7. UNCHANGED serverVars /\ UNCHANGED historyVars
      /\ UNCHANGED <<intake, conflicts, stamp, crashes>>
  BY DEF Mark, lockVars
<1>8. /\ \A g \in Flushes \ {f} : pass'[g] = pass[g]
      /\ pass'[f].step = step /\ pass'[f].queue = pass[f].queue
      /\ pass'[f].epoch = pass[f].epoch
      /\ step # "draining" => pass'[f].record = id
  BY <1>0, <1>1, <1>4, ResumeFacts DEF Steps
<1>9. Onward
  <2>1. \E k \in 0 .. 2 : Spend(k)
    BY <1>4 DEF Faults
  <2> QED BY <1>1, <1>7, <2>1, QuietOnward DEF historyVars
<1>10. /\ Identified(id)' /\ OneContext(id)' /\ Published(id)
       /\ \A n \in RecordIds \ {id} : /\ spool'.shown[n] = spool.shown[n]
                                      /\ spool'.left[n] \subseteq spool.left[n]
  BY <1>2, <1>3, <1>5, <1>7, <1>9, RewrittenFate DEF serverVars, historyVars
<1>11. Counted(id)'
  <2>1. /\ sent'[id] = sent[id] /\ sent[id] \in Nat /\ MaxAttempts \in Nat
        /\ faults \in Nat /\ crashes \in Nat /\ faults' \in Nat /\ crashes' = crashes
        /\ outcome = "stored" => faults' = faults
        /\ outcome # "stored" => faults' = faults + 1
    BY <1>1, <1>4, <1>7, NumberFacts, BoundsAssumption
       DEF TypeOK, historyVars, Spend, Faults
  <2>2. Allowance(id) = faults + crashes + 1
    <3>1. Attempting(id)
      BY <1>0, <1>1 DEF Attempting
    <3> QED BY <2>1, <3>1 DEF Allowance
  <2>3. Allowance(id)' = faults' + crashes'
    <3>1. \A g \in Flushes \ {f} : pass[g].step \in {"idle", "busy"}
      BY <1>1, OneAtWork
    <3>2. ~Attempting(id)'
      BY <1>8, <3>1 DEF Attempting
    <3>3. Allowance(id)' = faults' + crashes' + 0
      BY <3>2 DEF Allowance
    <3> QED BY <2>1, <3>3
  <2>4. sent'[id] <= MaxAttempts + faults' + crashes'
    <3>1. sent'[id] <= MaxAttempts + faults + crashes
      BY <1>1, <2>1 DEF Counted
    <3>2. faults + crashes <= faults' + crashes'
      BY <1>9, <2>1, SumsGrow DEF Onward
    <3> QED BY <2>1, <3>1, <3>2, SumsCarry
  <2>5. ASSUME NEW c \in spool'.left[id], c # NoFile, Undecided(c)
        PROVE  c.attempts < MaxAttempts /\ sent'[id] <= c.attempts + Allowance(id)'
    <3>1. /\ file.attempts \in Nat
          /\ sent[id] <= file.attempts + faults + crashes + 1
      <4>1. file.attempts \in Nat /\ sent[id] <= file.attempts + Allowance(id)
        BY <1>1, <1>2 DEF Counted, File
      <4> QED BY <2>1, <2>2, <4>1
    <3>2. CASE c = new
      <4>1. c.attempts = file.attempts + 1 /\ c.attempts < MaxAttempts
        BY <1>3, <2>5, <3>2
      <4>2. faults <= faults'
        BY <2>1 DEF Outcomes
      <4> QED BY <2>1, <2>3, <3>1, <4>1, <4>2
    <3>3. CASE c # new
      <4>1. /\ c \in spool.left[id] /\ outcome # "stored"
            /\ c.attempts \in Nat
        BY <1>1, <1>6, <2>5, <3>3, SpoolFacts DEF File
      <4>2. c.attempts < MaxAttempts /\ sent[id] <= c.attempts + Allowance(id)
        BY <1>1, <2>5, <4>1 DEF Counted
      <4>3. Allowance(id)' = Allowance(id) /\ Allowance(id) \in Nat
        BY <2>1, <2>2, <2>3, <4>1
      <4> QED BY <2>1, <4>2, <4>3
    <3> QED BY <3>2, <3>3
  <2> QED BY <2>4, <2>5 DEF Counted
<1>12. Replayable(id)'
  <2>1. SUFFICES ASSUME NoFile \in spool'.left[id]
                 PROVE  \/ owner[id] \in exposed
                        \/ /\ IsActive(id)'
                           /\ \/ id \in ledger
                              \/ GivenUp(spool.shown[id])'
                              \/ NoFile \notin intake.left[owner[id]]
    BY <1>7 DEF Replayable, serverVars, historyVars
  <2>2. NoFile \in spool.left[id]
    BY <1>3, <1>6, <2>1
  <2>3. IsActive(id)' /\ (GivenUp(spool.shown[id]) => GivenUp(spool.shown[id])')
    BY <1>2, <1>3, <1>6, <1>7 DEF IsActive, GivenUp, serverVars
  <2> QED BY <1>1, <1>2, <2>2, <2>3 DEF Replayable
<1>13. Handles(f)'
  BY <1>2, <1>3, <1>4, <1>6, <1>8, <1>10 DEF Handles, IsActive
<1>14. RecordSound(id)'
  BY <1>10, <1>11, <1>12 DEF RecordSound
<1> QED BY <1>0, <1>1, <1>7, <1>8, <1>9, <1>10, <1>13, <1>14, WorkFate DEF serverVars, historyVars

LEMMA RetireFate ==
    ASSUME FateInv, IInv', NEW f \in Flushes, Retire(f)
    PROVE  FateInv'
<1>0. PICK id \in RecordIds : id = pass[f].record
  BY DEF Retire, FateInv, IInv, PassSound, AtWork
<1> DEFINE file == spool.shown[id]
           new  == [file EXCEPT !.place = "quarantine"]
<1>1. /\ IInv /\ TypeOK /\ TypeOK' /\ Handles(f) /\ PassSound(f)
      /\ Counted(id) /\ Replayable(id)
      /\ spool \in Directories(RecordIds, File) /\ Coherent(spool)
      /\ pass \in [Flushes -> Memory] /\ pass[f].step = "retire"
  BY DEF FateInv, IInv, Fate, RecordSound, TypeOK, Evidence, Retire
<1>2. /\ file # NoFile /\ file \in File /\ file \in spool.left[id] /\ IsActive(id)
      /\ id \notin pass[f].queue /\ \A n \in pass[f].queue : n \in RecordIds /\ IsActive(n)
  BY <1>0, <1>1, RecordFacts DEF PassSound, AtWork, Handles, Memory
<1>3. /\ new \in File /\ new # NoFile /\ new.epoch = file.epoch
      /\ new.attempts = file.attempts /\ (Undecided(new) => Undecided(file))
  <2>1. new \in File
    BY <1>2 DEF File
  <2> QED BY <1>2, <2>1, NoFileAssumption DEF File, Undecided
<1> HIDE DEF new
<1>4. PICK outcome \in Outcomes :
          /\ Spend(Faults(outcome))
          /\ spool' = Write(spool, id, new, outcome)
          /\ exposed' = IF outcome = "unsynced" /\ NoFile \in spool.left[id]
                        THEN exposed \cup {owner[id]} ELSE exposed
  BY <1>0 DEF Retire, new
<1>5. Written(spool, spool', id, new, outcome)
  BY <1>1, <1>3, <1>4, WriteNarrows
<1>6. /\ spool'.left[id] \subseteq spool.left[id] \cup {new}
      /\ outcome = "stored" => spool'.left[id] = {new}
      /\ outcome = "failed" => spool'.shown[id] = file
  BY <1>5 DEF Written, Narrows
<1>7. UNCHANGED serverVars /\ UNCHANGED <<served, recorded, forfeited, owner, sent>>
      /\ UNCHANGED <<intake, conflicts, stamp, crashes>>
  BY DEF Retire, lockVars
<1>8. /\ \A g \in Flushes \ {f} : pass'[g] = pass[g]
      /\ pass'[f].step = "draining" /\ pass'[f].queue = pass[f].queue
      /\ pass'[f].epoch = pass[f].epoch
  BY <1>1, ResumeFacts DEF Retire, Steps
<1>9. Onward
  <2>1. \E k \in 0 .. 2 : Spend(k)
    BY <1>4 DEF Faults
  <2> QED BY <1>1, <1>4, <1>7, <2>1, QuietOnward
<1>10. /\ Identified(id)' /\ OneContext(id)' /\ Published(id)
       /\ \A n \in RecordIds \ {id} : /\ spool'.shown[n] = spool.shown[n]
                                      /\ spool'.left[n] \subseteq spool.left[n]
  BY <1>2, <1>3, <1>5, <1>7, <1>9, RewrittenFate DEF serverVars
<1>11. Counted(id)'
  <2>1. /\ sent'[id] = sent[id] /\ sent[id] \in Nat /\ MaxAttempts \in Nat
        /\ faults \in Nat /\ crashes \in Nat /\ faults' \in Nat /\ crashes' \in Nat
    BY <1>1, <1>7, NumberFacts, BoundsAssumption DEF TypeOK
  <2>2. ~Attempting(id)
    <3>1. \A g \in Flushes \ {f} : pass[g].step \in {"idle", "busy"}
      BY <1>1, OneAtWork
    <3> QED BY <1>1, <3>1 DEF Attempting
  <2>3. /\ Allowance(id) \in Nat /\ Allowance(id)' \in Nat /\ Allowance(id) <= Allowance(id)'
        /\ faults + crashes <= faults' + crashes'
    BY <1>1, <1>9, <2>2, AllowanceGrows
  <2>4. sent'[id] <= MaxAttempts + faults' + crashes'
    <3>1. sent'[id] <= MaxAttempts + faults + crashes
      BY <1>1, <2>1 DEF Counted
    <3> QED BY <2>1, <2>3, <3>1, SumsCarry
  <2>5. ASSUME NEW c \in spool'.left[id], c # NoFile, Undecided(c)
        PROVE  c.attempts < MaxAttempts /\ sent'[id] <= c.attempts + Allowance(id)'
    <3>1. PICK d \in spool.left[id] : d # NoFile /\ Undecided(d) /\ d.attempts = c.attempts
      BY <1>2, <1>3, <1>6, <2>5
    <3>2. /\ d.attempts \in Nat /\ d.attempts < MaxAttempts
          /\ sent[id] <= d.attempts + Allowance(id)
      BY <1>1, <3>1, SpoolFacts DEF Counted, File
    <3> QED BY <2>1, <2>3, <3>1, <3>2
  <2> QED BY <2>4, <2>5 DEF Counted
<1>12. Replayable(id)'
  <2>1. ASSUME NoFile \in spool'.left[id], outcome = "failed" PROVE Replayable(id)'
    <3>1. /\ spool'.shown[id] = file /\ spool'.left[id] = spool.left[id] /\ exposed' = exposed
      BY <1>4, <1>5, <2>1 DEF Written
    <3> QED BY <1>1, <1>7, <3>1 DEF Replayable, IsActive, GivenUp, serverVars
  <2>2. ASSUME NoFile \in spool'.left[id], outcome = "unsynced" PROVE owner[id] \in exposed'
    BY <1>3, <1>4, <1>6, <2>2
  <2>3. outcome = "stored" => NoFile \notin spool'.left[id]
    BY <1>3, <1>6
  <2>4. owner'[id] = owner[id]
    BY <1>7
  <2> QED BY <2>1, <2>2, <2>3, <2>4 DEF Replayable, Outcomes
<1>13. Handles(f)'
  BY <1>2, <1>8, <1>10 DEF Handles, IsActive
<1>14. RecordSound(id)'
  BY <1>10, <1>11, <1>12 DEF RecordSound
<1> QED BY <1>0, <1>1, <1>7, <1>8, <1>9, <1>10, <1>13, <1>14, WorkFate DEF serverVars

(* A record spooled for the first time is the only one of its search, and  *)
(* owes no attempt yet.                                                    *)
LEMMA FirstSpoolingFate ==
    ASSUME FateInv, IInv', Onward, NEW id \in RecordIds, owner[id] \in served,
           spool.shown[id] = NoFile, NEW e \in Epochs, NEW outcome \in Outcomes,
           Written(spool, spool', id, NewFile(e), outcome),
           intake'.left[owner[id]] = {id}, sent'[id] = 0,
           UNCHANGED <<owner, ledger>>
    PROVE  RecordSound(id)'
<1>1. /\ IInv /\ TypeOK /\ TypeOK' /\ Counted(id) /\ OneContext(id)
      /\ NewFile(e) \in File /\ NewFile(e) # NoFile /\ NewFile(e).place = "active"
      /\ NewFile(e).attempts = 0
  BY NewFileFacts DEF FateInv, IInv, Fate, RecordSound, NewFile
<1>2. /\ spool'.shown[id] \in {NoFile, NewFile(e)}
      /\ spool'.left[id] \subseteq spool.left[id] \cup {NewFile(e)}
      /\ outcome # "failed" => spool'.shown[id] = NewFile(e)
      /\ outcome = "failed" => spool'.left[id] = spool.left[id]
  BY DEF Written, Narrows, Outcomes
<1>3. Identified(id)'
  BY DEF Identified, Onward
<1>4. Counted(id)'
  <2>1. /\ MaxAttempts \in Nat /\ MaxAttempts > 0
        /\ faults' \in Nat /\ crashes' \in Nat
    BY <1>1, NumberFacts, BoundsAssumption DEF TypeOK
  <2>2. Allowance(id)' \in Nat
    <3>1. Allowance(id)' \in {faults' + crashes' + 1, faults' + crashes' + 0}
      BY DEF Allowance
    <3> QED BY <2>1, <3>1
  <2>3. ASSUME NEW c \in spool'.left[id], c # NoFile, Undecided(c)
        PROVE  c.attempts \in Nat /\ c.attempts < MaxAttempts
    <3>1. CASE c = NewFile(e)
      BY <1>1, <2>1, <3>1
    <3>2. CASE c # NewFile(e)
      <4>1. c \in spool.left[id] /\ c.attempts \in Nat
        BY <1>1, <1>2, <2>3, <3>2, SpoolFacts DEF File
      <4> QED BY <1>1, <2>3, <4>1 DEF Counted
    <3> QED BY <3>1, <3>2
  <2>4. sent'[id] <= MaxAttempts + faults' + crashes'
    BY <2>1
  <2>5. ASSUME NEW c \in spool'.left[id], c # NoFile, Undecided(c)
        PROVE  c.attempts < MaxAttempts /\ sent'[id] <= c.attempts + Allowance(id)'
    <3>1. c.attempts \in Nat /\ c.attempts < MaxAttempts
      BY <2>3, <2>5
    <3>2. 0 <= c.attempts + Allowance(id)'
      BY <2>2, <3>1
    <3> QED BY <3>1, <3>2
  <2> QED BY <2>4, <2>5 DEF Counted
<1>5. Replayable(id)'
  <2>1. NoFile \notin intake'.left[owner[id]] /\ owner'[id] = owner[id]
    BY ModelValuesAssumption
  <2>2. spool'.shown[id] # NoFile => IsActive(id)'
    BY <1>1, <1>2 DEF IsActive
  <2> QED BY <2>1, <2>2 DEF Replayable
<1>6. OneContext(id)'
  <2>1. CASE id \in ledger \/ owner[id] \in forfeited
    BY <2>1 DEF OneContext, Onward
  <2>2. CASE \A c \in spool.left[id] : c = NoFile
    BY <1>2, <2>2 DEF OneContext, Outcomes
  <2> QED BY <1>1, <2>1, <2>2 DEF OneContext
<1> QED BY <1>3, <1>4, <1>5, <1>6 DEF RecordSound

LEMMA SpoolIntakeFate ==
    ASSUME FateInv, IInv', NEW f \in Flushes, NEW s \in Searches, SpoolIntake(f, s)
    PROVE  FateInv'
<1>1. PICK id \in RecordIds : id = intake.shown[s]
  BY DEF SpoolIntake
<1>2. /\ IInv /\ TypeOK /\ TypeOK' /\ pass \in [Flushes -> Memory]
      /\ intake \in Directories(Searches, RecordIds \cup {Unnamed})
      /\ spool \in Directories(RecordIds, File) /\ Coherent(spool)
      /\ pass[f].step = "promoting" /\ pass[f].epoch \in Epochs
  BY DEF FateInv, IInv, TypeOK, Evidence, SpoolIntake, PassSound, HasTarget
<1>3. /\ id \in intake.left[s] /\ owner[id] = s /\ s \in served
  <2>1. id \in intake.left[s] /\ id # NoFile
    BY <1>1, <1>2, ModelValuesAssumption DEF IInv, Directories, Evidence, Coherent
  <2> QED BY <1>2, <2>1 DEF IInv, Evidence, Minted, FateInv, Fate, Unserved
<1>4. /\ UNCHANGED serverVars /\ UNCHANGED <<served, forfeited, exposed, owner, conflicts, stamp, crashes>>
      /\ \E k \in 0 .. 2 : Spend(k)
  BY DEF SpoolIntake, lockVars, Faults
<1>5. Onward
  BY <1>2, <1>4, QuietOnward
<1>6. CASE UNCHANGED <<intake, spool, sent>> /\ pass' = [pass EXCEPT ![f].intake = @ \ {s}]
  <2>1. /\ pass'[f].step = "promoting" /\ pass'[f].epoch = pass[f].epoch
        /\ \A g \in Flushes \ {f} : pass'[g] = pass[g]
    BY <1>2, <1>6 DEF Memory
  <2>2. Handles(f)'
    BY <2>1 DEF Handles
  <2>3. InStep'
    <3>1. stamp' <= stamp /\ conflicts' \subseteq conflicts
      BY <1>2, <1>4, NumberFacts
    <3>2. \A g \in Flushes : pass'[g].epoch = pass[g].epoch
      BY <2>1
    <3> QED BY <1>5, <3>1, <3>2, InStepStays
  <2> QED BY <1>2, <1>4, <1>5, <1>6, <2>1, <2>2, <2>3, QuietPassFate DEF serverVars
<1>7. ASSUME NEW outcome \in Outcomes,
             intake' = ConfirmedIntake(intake),
             spool' = Enqueued(spool, id, pass[f].epoch, outcome),
             sent' = IF spool.shown[id] = NoFile THEN [sent EXCEPT ![id] = 0] ELSE sent,
             pass' = IF outcome = "stored"
                       THEN [pass EXCEPT ![f].step = "unlink", ![f].search = s]
                       ELSE [pass EXCEPT ![f].intake = @ \ {s}]
      PROVE  FateInv'
  <2>1. /\ spool.shown[id] = NoFile =>
              Written(spool, spool', id, NewFile(pass[f].epoch), outcome)
        /\ spool.shown[id] # NoFile => Narrows(spool, spool', id, {})
        /\ spool.shown[id] # NoFile /\ spool.shown[id].place = "active" /\ outcome = "stored" =>
              spool'.left[id] = {spool.shown[id]}
    BY <1>2, <1>7, EnqueuedFacts
  <2>2. \A n \in Searches : intake'.left[n] = {intake.shown[n]} /\ intake.shown[n] \in intake.left[n]
    <3>1. \A n \in Searches : intake'.left[n] = {intake.shown[n]}
      BY <1>2, <1>7, SyncFacts DEF ConfirmedIntake
    <3> QED BY <1>2, <3>1 DEF IInv, Evidence, Coherent, Directories
  <2>3. /\ pass'[f].epoch = pass[f].epoch
        /\ outcome = "stored" => pass'[f].step = "unlink" /\ pass'[f].search = s
        /\ outcome # "stored" => pass'[f].step = "promoting"
        /\ \A g \in Flushes \ {f} : pass'[g] = pass[g]
    <3>1. CASE outcome = "stored"
      <4> DEFINE m == [pass[f] EXCEPT !.step = "unlink", !.search = s]
      <4>1. m.step = "unlink" /\ m.search = s /\ m.epoch = pass[f].epoch
        BY <1>2 DEF Memory
      <4>2. pass' = [pass EXCEPT ![f] = m]
        BY <1>2, <1>7, <3>1
      <4> HIDE DEF m
      <4> QED BY <1>2, <3>1, <4>1, <4>2
    <3>2. CASE outcome # "stored"
      BY <1>2, <1>7, <3>2 DEF Memory
    <3> QED BY <3>1, <3>2
  <2>4. \A n \in RecordIds \ {id} : /\ spool'.shown[n] = spool.shown[n]
                                    /\ spool'.left[n] \subseteq spool.left[n]
                                    /\ sent'[n] = sent[n]
    BY <1>2, <1>7, <2>1 DEF Written, Narrows, Directories, TypeOK
  <2>5. RecordSound(id)'
    <3>1. CASE spool.shown[id] = NoFile
      <4>1. sent'[id] = 0 /\ intake'.left[owner[id]] = {id}
        BY <1>1, <1>2, <1>3, <1>7, <2>2, <3>1 DEF TypeOK
      <4> QED BY <1>2, <1>3, <1>4, <1>5, <2>1, <3>1, <4>1, FirstSpoolingFate DEF serverVars
    <3>2. CASE spool.shown[id] # NoFile
      <4>1. Attempting(id) => Attempting(id)'
        BY <1>2, <2>3 DEF Attempting
      <4>2. Bystander(id)
        BY <1>3, <1>4, <1>7, <2>1, <2>2, <3>2, <4>1 DEF Bystander, Narrows, serverVars
      <4> QED BY <1>5, <4>2, BystanderFate
    <3> QED BY <3>1, <3>2
  <2>6. \A n \in RecordIds : Published(n) /\ owner[n] = owner[id] => n = id
    BY <1>3, ModelValuesAssumption DEF FateInv, Fate, RecordSound, Identified
  <2>7. Handles(f)'
    <3>1. CASE outcome # "stored"
      BY <2>3, <3>1 DEF Handles
    <3>2. CASE outcome = "stored"
      <4>1. spool'.shown[id] # NoFile
        BY <1>2, <2>1, <3>2, NewFileFacts DEF Written, Narrows
      <4>2. NoFile \notin spool'.left[id] \/ s \in exposed
        <5>1. CASE spool.shown[id] = NoFile
          BY <1>2, <2>1, <3>2, <5>1, NewFileFacts DEF Written
        <5>2. CASE IsActive(id)
          BY <2>1, <3>2, <5>2 DEF IsActive
        <5>3. CASE spool.shown[id] # NoFile /\ ~IsActive(id)
          BY <1>3, <2>1, <5>3 DEF Narrows, FateInv, Fate, RecordSound, Replayable
        <5> QED BY <5>1, <5>2, <5>3 DEF IsActive
      <4>3. /\ pass'[f].step = "unlink" /\ pass'[f].search = s
            /\ owner'[id] = s /\ exposed' = exposed
        BY <1>3, <1>4, <2>3, <3>2
      <4> QED BY <4>1, <4>2, <4>3 DEF Handles
    <3> QED BY <3>1, <3>2
  <2> QED BY <1>2, <1>4, <1>5, <2>2, <2>3, <2>4, <2>5, <2>6, <2>7, WorkFate DEF serverVars
<1> QED BY <1>1, <1>6, <1>7 DEF SpoolIntake

-----------------------------------------------------------------------------
(* A loss of power, and the whole.                                         *)

LEMMA PowerLossFate ==
    ASSUME FateInv, IInv', PowerLoss
    PROVE  FateInv'
<1>1. /\ IInv /\ TypeOK /\ TypeOK' /\ InStep
  BY DEF FateInv, IInv, Fate
<1>2. \A s \in Searches : /\ intake'.shown[s] \in intake.left[s]
                          /\ intake'.left[s] = {intake'.shown[s]}
  BY <1>1, PowerLossFacts DEF PowerLoss, TypeOK
<1>3. \A n \in RecordIds : /\ spool'.shown[n] \in spool.left[n]
                           /\ spool'.left[n] = {spool'.shown[n]}
  BY <1>1, PowerLossFacts DEF PowerLoss, TypeOK
<1>4. UNCHANGED serverVars /\ UNCHANGED historyVars /\ UNCHANGED <<conflicts, faults>>
      /\ crashes' = crashes + 1
      /\ \A g \in Flushes : pass'[g].step = "idle" /\ pass'[g].epoch = NoEpoch
  BY DEF PowerLoss, Idle
<1>5. Onward /\ crashes < crashes'
  <2>1. crashes < crashes'
    BY <1>1, <1>4, NumberFacts
  <2> QED BY <1>1, <1>4, <2>1, QuietOnward DEF historyVars
<1>6. ASSUME NEW n \in RecordIds
      PROVE  RecordSound(n)' /\ (Published(n)' => Published(n))
  <2>1. Identified(n) /\ Counted(n)
    BY DEF FateInv, Fate, RecordSound
  <2>2. Published(n)' => Published(n)
    BY <1>3, <1>4 DEF Published, serverVars
  <2>3. Identified(n)'
    <3>1. Published(n) => owner[n] \in Searches
      BY <1>1, <2>1 DEF Identified, TypeOK
    <3> QED BY <1>2, <1>4, <2>1, <2>2, <3>1 DEF Identified, historyVars
  <2>4. Counted(n)'
    <3>1. /\ sent'[n] = sent[n] /\ sent[n] \in Nat /\ MaxAttempts \in Nat
          /\ faults \in Nat /\ crashes \in Nat /\ faults' \in Nat /\ crashes' \in Nat
      BY <1>1, <1>4, NumberFacts, BoundsAssumption DEF TypeOK, historyVars
    <3>2. /\ Allowance(n) \in Nat /\ Allowance(n)' \in Nat /\ Allowance(n) <= Allowance(n)'
          /\ faults + crashes <= faults' + crashes'
      BY <1>1, <1>5, AllowanceGrows
    <3>3. sent'[n] <= MaxAttempts + faults' + crashes'
      <4>1. sent'[n] <= MaxAttempts + faults + crashes
        BY <2>1, <3>1 DEF Counted
      <4> QED BY <3>1, <3>2, <4>1, SumsCarry
    <3>4. ASSUME NEW c \in spool'.left[n], c # NoFile, Undecided(c)
          PROVE  c.attempts < MaxAttempts /\ sent'[n] <= c.attempts + Allowance(n)'
      <4>1. c \in spool.left[n] /\ c.attempts \in Nat
        BY <1>1, <1>3, <3>4, SpoolFacts DEF File
      <4>2. c.attempts < MaxAttempts /\ sent[n] <= c.attempts + Allowance(n)
        BY <2>1, <3>4, <4>1 DEF Counted
      <4> QED BY <3>1, <3>2, <4>1, <4>2
    <3> QED BY <3>3, <3>4 DEF Counted
  <2>5. Replayable(n)' /\ OneContext(n)'
    BY <1>3 DEF Replayable, OneContext
  <2> QED BY <2>2, <2>3, <2>4, <2>5 DEF RecordSound
<1>7. OneIdentity'
  <2>1. owner' = owner
    BY <1>4 DEF historyVars
  <2> QED BY <1>6, <2>1 DEF FateInv, Fate, OneIdentity
<1>8. Unserved'
  BY <1>2, <1>4 DEF FateInv, Fate, Unserved, historyVars
<1>9. InStep'
  <2>1. stamp' <= stamp
    BY <1>1, NumberFacts, MaxEpochAssumption DEF PowerLoss, NoEpoch
  <2> QED BY <1>4, <1>5, <2>1, InStepStays
<1>10. \A g \in Flushes : Handles(g)'
  BY <1>4 DEF Handles
<1> QED BY <1>6, <1>7, <1>8, <1>9, <1>10 DEF FateInv, Fate

LEMMA InitFate == Init => FateInv
<1>1. SUFFICES ASSUME Init PROVE FateInv
  OBVIOUS
<1>2. IInv /\ TypeOK
  BY <1>1, InitIsSound DEF IInv
<1>3. /\ \A s \in Searches : /\ intake.left[s] = {intake.shown[s]}
                             /\ s \notin served => intake.shown[s] = NoFile
      /\ \A id \in RecordIds : spool.shown[id] = NoFile /\ spool.left[id] = {NoFile}
  BY <1>1 DEF Init, Settled
<1>4. \A id \in RecordIds : ~Published(id)
  BY <1>1, <1>3 DEF Init, ServerInit, Published
<1>5. \A id \in RecordIds : RecordSound(id)
  <2>1. ASSUME NEW id \in RecordIds PROVE Counted(id)
    <3>1. sent[id] = 0 /\ faults = 0 /\ crashes = 0 /\ MaxAttempts \in Nat
      BY <1>1, <1>2, NumberFacts DEF Init
    <3> QED BY <1>3, <3>1 DEF Counted
  <2> QED BY <1>3, <1>4, <2>1 DEF RecordSound, Identified, Replayable, OneContext
<1>6. OneIdentity /\ Unserved
  BY <1>3, <1>4 DEF OneIdentity, Unserved
<1>7. InStep
  BY <1>1 DEF Init, ServerInit, Idle, InStep, NoEpoch
<1>8. \A f \in Flushes : Handles(f)
  BY <1>1 DEF Init, Idle, Handles
<1> QED BY <1>2, <1>5, <1>6, <1>7, <1>8 DEF FateInv, Fate

LEMMA FlushFate ==
    ASSUME FateInv, IInv', NEW f \in Flushes, Flush(f)
    PROVE  FateInv'
<1>1. CASE StartFlush(f) \/ LeaveBusy(f) \/ EndFlush(f)
  BY <1>1, StartFlushFate, LeaveBusyFate, EndFlushFate
<1>2. CASE UseStamp(f) \/ AskTarget(f) \/ NoTarget(f) \/ Participate(f) \/ SaveStamp(f)
  BY <1>2, UseStampFate, AskTargetFate, NoTargetFate, ParticipateFate, SaveStampFate
<1>3. CASE BeginDrop(f) \/ ForgetConflicts(f) \/ \E id \in RecordIds : DropOne(f, id)
  BY <1>3, BeginDropFate, ForgetConflictsFate, DropOneFate
<1>4. CASE \/ ReadIntake(f) \/ UnlinkIntake(f)
           \/ \E s \in Searches : NameIntake(f, s) \/ SpoolIntake(f, s)
  BY <1>4, ReadIntakeFate, UnlinkIntakeFate, NameIntakeFate, SpoolIntakeFate
<1>5. CASE ReadPending(f) \/ Mark(f) \/ Settle(f) \/ Retire(f)
  BY <1>5, ReadPendingFate, MarkFate, SettleFate, RetireFate
<1>6. CASE \E id \in RecordIds : CleanUp(f, id) \/ WaitOut(f, id) \/ Submit(f, id)
  BY <1>6, CleanUpFate, WaitOutFate, SubmitFate
<1> QED BY <1>1, <1>2, <1>3, <1>4, <1>5, <1>6 DEF Flush

LEMMA StutterFate ==
    ASSUME FateInv, IInv', UNCHANGED vars
    PROVE  FateInv'
<1>1. UNCHANGED <<target, holder, ledger, served, recorded, forfeited, exposed, owner, sent,
                  intake, spool, conflicts, stamp, flushLock, pass, faults, crashes>>
  BY DEF vars, serverVars, historyVars, lockVars
<1>2. Fate'
  BY <1>1 DEF FateInv, Fate, Unserved, RecordSound, Identified, Counted, Replayable, OneContext,
              OneIdentity, Published, InStep, Handles, Allowance, Attempting, IsActive, GivenUp
<1> QED BY <1>2 DEF FateInv

LEMMA NextFate == FateInv /\ [Next]_vars => FateInv'
<1>1. SUFFICES ASSUME FateInv, [Next]_vars PROVE FateInv'
  OBVIOUS
<1>2. IInv'
  BY <1>1, StepIsSound DEF FateInv
<1>3. CASE \E s \in Searches : Search(s)
  BY <1>1, <1>2, <1>3, SearchFate
<1>4. CASE \E f \in Flushes : Flush(f) \/ Kill(f)
  BY <1>1, <1>2, <1>4, FlushFate, KillFate
<1>5. CASE PowerLoss \/ Server
  BY <1>1, <1>2, <1>5, PowerLossFate, ServerFate
<1>6. CASE UNCHANGED vars
  BY <1>1, <1>2, <1>6, StutterFate
<1> QED BY <1>1, <1>3, <1>4, <1>5, <1>6 DEF Next

(* The fate of every record is sound in every reachable state.             *)
THEOREM FateInvariant == Spec => []FateInv
<1> QED BY InitFate, NextFate, PTL DEF Spec

(* One search is known to the spool and to the server under at most one    *)
(* client_record_id, whatever is renamed, replayed, killed or lost.        *)
THEOREM OneIdentityEach == Spec => []OneIdentity
<1>1. FateInv => OneIdentity
  BY DEF FateInv, Fate
<1> QED BY <1>1, FateInvariant, PTL

(* A record is submitted at most MaxAttempts times, plus once for every    *)
(* crash and storage fault that kept an attempt from being written down.   *)
THEOREM BudgetIsDurable == Spec => []AttemptBudget
<1>1. FateInv => AttemptBudget
  BY DEF FateInv, Fate, RecordSound, Counted, AttemptBudget
<1> QED BY <1>1, FateInvariant, PTL

-----------------------------------------------------------------------------
(* What one step may do to one record.                                     *)

Untouched(id) == /\ spool'.shown[id] = spool.shown[id]
                 /\ spool'.left[id] \subseteq spool.left[id]
                 /\ sent'[id] = sent[id]

Attempted(id) == /\ spool' = spool
                 /\ spool.shown[id] # NoFile /\ Undecided(spool.shown[id])

\* A record of the delivery path rewritten, retired or removed.
Handled(id) ==
    /\ spool.shown[id] # NoFile /\ IsActive(id) /\ sent'[id] = sent[id]
    /\ spool'.shown[id] = NoFile => id \in ledger \/ GivenUp(spool.shown[id])
    /\ spool'.shown[id] # NoFile => spool'.shown[id].epoch = spool.shown[id].epoch

\* A loss of power leaves one of the contents the disk had.
CutOff(id) ==
    /\ spool'.shown[id] \in spool.left[id] /\ spool'.left[id] = {spool'.shown[id]}
    /\ sent'[id] = sent[id]
    /\ spool.shown[id] # NoFile => intake'.shown[owner[id]] \in intake.left[owner[id]]

\* A record the spool does not show may be spooled.
RecordStep(id) ==
    \/ Untouched(id) \/ Attempted(id) \/ Handled(id) \/ CutOff(id)
    \/ spool.shown[id] = NoFile

LEMMA QuietRecord ==
    ASSUME UNCHANGED <<spool, sent>>, NEW id \in RecordIds
    PROVE  RecordStep(id)
<1> QED BY DEF RecordStep, Untouched

LEMMA OtherRecords ==
    ASSUME NEW C, NEW id \in RecordIds, spool \in Directories(RecordIds, File),
           Narrows(spool, spool', id, C), sent' = sent
    PROVE  \A n \in RecordIds \ {id} : RecordStep(n)
<1> QED BY DEF Narrows, Directories, RecordStep, Untouched

LEMMA DropOneRecord ==
    ASSUME FateInv, NEW f \in Flushes, NEW id \in RecordIds, DropOne(f, id),
           NEW n \in RecordIds
    PROVE  RecordStep(n)
<1>1. PICK how \in Removals : spool' = Removed(spool, id, how)
  BY DEF DropOne
<1>2. /\ spool \in Directories(RecordIds, File) /\ Coherent(spool) /\ sent' = sent
      /\ Handles(f) /\ PassSound(f)
  BY DEF FateInv, IInv, TypeOK, Evidence, Fate, DropOne
<1>3. Narrows(spool, spool', id, {NoFile})
  BY <1>1, <1>2, RemovedFacts
<1>4. Handled(id)
  <2>1. spool.shown[id] # NoFile /\ IsActive(id) /\ GivenUp(spool.shown[id])
    BY <1>2 DEF DropOne, PassSound, AtWork, Handles
  <2> QED BY <1>2, <1>3, <2>1 DEF Handled, Narrows
<1> QED BY <1>2, <1>3, <1>4, OtherRecords DEF RecordStep

LEMMA SettleRecord ==
    ASSUME FateInv, NEW f \in Flushes, Settle(f), NEW n \in RecordIds
    PROVE  RecordStep(n)
<1>0. PICK id \in RecordIds : id = pass[f].record
  BY DEF Settle, FateInv, IInv, PassSound, AtWork
<1>1. PICK how \in Removals : spool' = Removed(spool, id, how)
  BY <1>0 DEF Settle
<1>2. /\ spool \in Directories(RecordIds, File) /\ Coherent(spool) /\ sent' = sent
      /\ Handles(f) /\ PassSound(f)
  BY DEF FateInv, IInv, TypeOK, Evidence, Fate, Settle, historyVars
<1>3. Narrows(spool, spool', id, {NoFile})
  BY <1>1, <1>2, RemovedFacts
<1>4. Handled(id)
  <2>1. spool.shown[id] # NoFile /\ IsActive(id) /\ id \in ledger
    BY <1>0, <1>2 DEF Settle, PassSound, AtWork, Handles
  <2> QED BY <1>2, <1>3, <2>1 DEF Handled, Narrows
<1> QED BY <1>2, <1>3, <1>4, OtherRecords DEF RecordStep

LEMMA RewrittenRecord ==
    ASSUME FateInv, NEW id \in RecordIds, IsActive(id), NEW new \in File,
           new.epoch = spool.shown[id].epoch, NEW outcome \in Outcomes,
           spool' = Write(spool, id, new, outcome), sent' = sent, NEW n \in RecordIds
    PROVE  RecordStep(n)
<1>1. spool \in Directories(RecordIds, File) /\ Coherent(spool) /\ new # NoFile
  BY NoFileAssumption DEF FateInv, IInv, TypeOK, Evidence
<1>2. Narrows(spool, spool', id, {new})
  BY <1>1, WriteNarrows DEF Written
<1>3. Handled(id)
  BY <1>1, <1>2 DEF Handled, Narrows, IsActive
<1> QED BY <1>1, <1>2, <1>3, OtherRecords DEF RecordStep

LEMMA MarkRecord ==
    ASSUME FateInv, NEW f \in Flushes, Mark(f), NEW n \in RecordIds
    PROVE  RecordStep(n)
<1>0. PICK id \in RecordIds : id = pass[f].record
  BY DEF Mark, FateInv, IInv, PassSound, AtWork
<1>1. /\ IInv /\ IsActive(id) /\ spool.shown[id] # NoFile /\ pass[f].answer \in Answers
  BY <1>0 DEF FateInv, IInv, TypeOK, Fate, Handles, PassSound, AtWork, Mark, Memory
<1>2. spool.shown[id] \in File
  BY <1>1, RecordFacts
<1> DEFINE new == Marked(spool.shown[id], pass[f].answer)
<1>3. new \in File /\ new.epoch = spool.shown[id].epoch
  BY <1>1, <1>2, MarkedFacts DEF IsActive
<1>4. \E outcome \in Outcomes : spool' = Write(spool, id, new, outcome)
  BY <1>0 DEF Mark
<1>5. sent' = sent
  BY DEF Mark, historyVars
<1> HIDE DEF new
<1> QED BY <1>1, <1>3, <1>4, <1>5, RewrittenRecord

LEMMA RetireRecord ==
    ASSUME FateInv, NEW f \in Flushes, Retire(f), NEW n \in RecordIds
    PROVE  RecordStep(n)
<1>0. PICK id \in RecordIds : id = pass[f].record
  BY DEF Retire, FateInv, IInv, PassSound, AtWork
<1>1. /\ IInv /\ IsActive(id) /\ spool.shown[id] # NoFile
  BY <1>0 DEF FateInv, IInv, Fate, Handles, PassSound, AtWork, Retire
<1>2. spool.shown[id] \in File
  BY <1>1, RecordFacts
<1> DEFINE new == [spool.shown[id] EXCEPT !.place = "quarantine"]
<1>3. new \in File /\ new.epoch = spool.shown[id].epoch
  BY <1>2 DEF File
<1>4. \E outcome \in Outcomes : spool' = Write(spool, id, new, outcome)
  BY <1>0 DEF Retire
<1>5. sent' = sent
  BY DEF Retire
<1> HIDE DEF new
<1> QED BY <1>1, <1>3, <1>4, <1>5, RewrittenRecord

LEMMA SubmitRecord ==
    ASSUME FateInv, NEW f \in Flushes, NEW id \in RecordIds, Submit(f, id), NEW n \in RecordIds
    PROVE  RecordStep(n)
<1>1. spool.shown[id] # NoFile /\ Undecided(spool.shown[id])
  BY DEF FateInv, IInv, PassSound, AtWork, Submit
<1>2. spool' = spool /\ \A m \in RecordIds \ {id} : sent'[m] = sent[m]
  BY DEF FateInv, IInv, TypeOK, Submit
<1> QED BY <1>1, <1>2 DEF RecordStep, Untouched, Attempted

LEMMA SpoolIntakeRecord ==
    ASSUME FateInv, NEW f \in Flushes, NEW s \in Searches, SpoolIntake(f, s), NEW n \in RecordIds
    PROVE  RecordStep(n)
<1>1. PICK id \in RecordIds : id = intake.shown[s]
  BY DEF SpoolIntake
<1>2. /\ spool \in Directories(RecordIds, File) /\ Coherent(spool) /\ pass[f].epoch \in Epochs
      /\ sent \in [RecordIds -> Nat]
  BY DEF FateInv, IInv, TypeOK, Evidence, SpoolIntake, PassSound, HasTarget
<1>3. CASE UNCHANGED <<intake, spool, sent>>
  BY <1>3, QuietRecord
<1>4. ASSUME NEW outcome \in Outcomes, spool' = Enqueued(spool, id, pass[f].epoch, outcome),
             sent' = IF spool.shown[id] = NoFile THEN [sent EXCEPT ![id] = 0] ELSE sent
      PROVE  RecordStep(n)
  <2>1. \E C : Narrows(spool, spool', id, C) /\ (spool.shown[id] # NoFile => C = {})
    BY <1>2, <1>4, EnqueuedFacts DEF Written
  <2>2. CASE n # id
    BY <1>2, <1>4, <2>1, <2>2 DEF Narrows, Directories, RecordStep, Untouched
  <2>3. CASE n = id
    BY <1>4, <2>1, <2>3 DEF Narrows, RecordStep, Untouched
  <2> QED BY <2>2, <2>3
<1> QED BY <1>1, <1>3, <1>4 DEF SpoolIntake

LEMMA PowerLossRecord ==
    ASSUME FateInv, PowerLoss, NEW n \in RecordIds
    PROVE  RecordStep(n)
<1>1. /\ spool \in Directories(RecordIds, File)
      /\ intake \in Directories(Searches, RecordIds \cup {Unnamed})
      /\ sent' = sent
  BY DEF FateInv, IInv, TypeOK, PowerLoss, historyVars
<1>2. spool'.shown[n] \in spool.left[n] /\ spool'.left[n] = {spool'.shown[n]}
  BY <1>1, PowerLossFacts DEF PowerLoss
<1>3. \A s \in Searches : intake'.shown[s] \in intake.left[s]
  BY <1>1, PowerLossFacts DEF PowerLoss
<1>4. spool.shown[n] # NoFile => owner[n] \in Searches
  BY RecordFacts DEF FateInv
<1> QED BY <1>1, <1>2, <1>3, <1>4 DEF RecordStep, CutOff

LEMMA FlushRecord ==
    ASSUME FateInv, NEW f \in Flushes, Flush(f), NEW n \in RecordIds
    PROVE  RecordStep(n)
<1>1. CASE \/ StartFlush(f) \/ LeaveBusy(f) \/ UseStamp(f) \/ AskTarget(f) \/ NoTarget(f)
           \/ Participate(f) \/ SaveStamp(f) \/ BeginDrop(f) \/ ForgetConflicts(f)
           \/ ReadIntake(f) \/ UnlinkIntake(f) \/ ReadPending(f) \/ EndFlush(f)
           \/ \E s \in Searches : NameIntake(f, s)
           \/ \E id \in RecordIds : CleanUp(f, id) \/ WaitOut(f, id)
  <2>1. UNCHANGED <<spool, sent>>
    BY <1>1 DEF StartFlush, LeaveBusy, UseStamp, AskTarget, NoTarget, Participate, SaveStamp,
                BeginDrop, ForgetConflicts, ReadIntake, UnlinkIntake, ReadPending, EndFlush,
                NameIntake, CleanUp, WaitOut, historyVars
  <2> QED BY <2>1, QuietRecord
<1>2. CASE \/ \E id \in RecordIds : DropOne(f, id) \/ Submit(f, id)
           \/ \E s \in Searches : SpoolIntake(f, s)
           \/ Mark(f) \/ Settle(f) \/ Retire(f)
  BY <1>2, DropOneRecord, SubmitRecord, SpoolIntakeRecord, MarkRecord, SettleRecord, RetireRecord
<1> QED BY <1>1, <1>2 DEF Flush

(* One step is of one of these kinds for every record.                     *)
LEMMA EveryStep ==
    ASSUME FateInv, Next, NEW n \in RecordIds
    PROVE  RecordStep(n)
<1>1. CASE \/ \E s \in Searches : Search(s)
           \/ \E f \in Flushes : Kill(f)
           \/ Server
  <2>1. UNCHANGED <<spool, sent>>
    BY <1>1 DEF Search, Kill, Server, historyVars
  <2> QED BY <2>1, QuietRecord
<1>2. CASE (\E f \in Flushes : Flush(f)) \/ PowerLoss
  BY <1>2, FlushRecord, PowerLossRecord
<1> QED BY <1>1, <1>2 DEF Next

(* What became durable of a record's fate stands: a file that is           *)
(* quarantined on disk stays so, and evidence that is decided on disk is   *)
(* never submitted from that file again.                                   *)
THEOREM DurableVerdicts == Spec => VerdictStands
<1>1. ASSUME FateInv, Next, NEW id \in RecordIds
      PROVE  /\ Durably(IsQuarantined, spool, id) => Durably(IsQuarantined, spool', id)
             /\ Durably(IsDecided, spool, id) => sent'[id] = sent[id]
  <2>1. RecordStep(id) /\ spool.shown[id] \in spool.left[id]
    BY <1>1, EveryStep, SpoolFacts DEF FateInv
  <2> QED BY <2>1 DEF RecordStep, Untouched, Attempted, Handled, CutOff, Durably, IsQuarantined,
                      IsDecided, IsActive, Undecided
<1>2. FateInv /\ [Next]_vars =>
        [\A id \in RecordIds :
           /\ Durably(IsQuarantined, spool, id) => Durably(IsQuarantined, spool', id)
           /\ Durably(IsDecided, spool, id) => sent'[id] = sent[id]]_vars
  BY <1>1
<1> QED BY <1>2, FateInvariant, PTL DEF Spec, VerdictStands

(* A record leaves the spool only when the server has accepted it, when    *)
(* its epoch was given up, when it was retired before it was on disk, or   *)
(* when its intake file is there to be promoted again.                     *)
THEOREM NothingLetGo == Spec => LetGoOnlyForCause
<1>1. ASSUME FateInv, Next, NEW id \in RecordIds,
             spool.shown[id] # NoFile, spool'.shown[id] = NoFile
      PROVE  \/ id \in ledger \/ owner[id] \in exposed
             \/ GivenUp(spool.shown[id])
             \/ intake'.shown[owner[id]] # NoFile
  <2>1. RecordStep(id) /\ Replayable(id)
    BY <1>1, EveryStep DEF FateInv, Fate, RecordSound
  <2> QED BY <1>1, <2>1 DEF RecordStep, Untouched, Attempted, Handled, CutOff, Replayable
<1>2. FateInv /\ [Next]_vars =>
        [\A id \in RecordIds :
           (spool.shown[id] # NoFile /\ spool'.shown[id] = NoFile)
             => \/ id \in ledger \/ owner[id] \in exposed
                \/ GivenUp(spool.shown[id])
                \/ intake'.shown[owner[id]] # NoFile]_vars
  BY <1>1
<1> QED BY <1>2, FateInvariant, PTL DEF Spec, LetGoOnlyForCause

(* The epoch a record was first spooled under stays its delivery context   *)
(* while it is owed.                                                       *)
THEOREM ContextIsKept == Spec => ContextStands
<1>1. ASSUME FateInv, Next, NEW id \in RecordIds,
             spool.shown[id] # NoFile, spool'.shown[id] # NoFile
      PROVE  \/ spool'.shown[id].epoch = spool.shown[id].epoch
             \/ id \in ledger \/ owner[id] \in forfeited
  <2>1. RecordStep(id) /\ OneContext(id)
    BY <1>1, EveryStep DEF FateInv, Fate, RecordSound
  <2> QED BY <1>1, <2>1 DEF RecordStep, Untouched, Attempted, Handled, CutOff, OneContext
<1>2. FateInv /\ [Next]_vars =>
        [\A id \in RecordIds :
           (spool.shown[id] # NoFile /\ spool'.shown[id] # NoFile)
             => \/ spool'.shown[id].epoch = spool.shown[id].epoch
                \/ id \in ledger \/ owner[id] \in forfeited]_vars
  BY <1>1
<1> QED BY <1>2, FateInvariant, PTL DEF Spec, ContextStands

-----------------------------------------------------------------------------
(* The delivery path implements ObservationCustody.                        *)

CustodyStep == [Custody!Next]_(Custody!vars)

\* Whether the evidence of t is on this machine is not changed by the step.
SameHolding(t) == t \in Held' <=> t \in Held

LEMMA HoldingStands ==
    ASSUME NEW t \in Searches,
           intake'.shown[t] = NoFile <=> intake.shown[t] = NoFile,
           \A n \in RecordIds : owner[n] = t \/ owner'[n] = t =>
              /\ spool'.shown[n] = NoFile <=> spool.shown[n] = NoFile
              /\ spool.shown[n] # NoFile => owner'[n] = owner[n]
    PROVE  SameHolding(t)
<1> QED BY DEF SameHolding, Held

(* What the spool shows and what the server accepted keep their search.    *)
LEMMA KnownOwners ==
    ASSUME FateInv, NEW n \in RecordIds, Fresh(n)
    PROVE  ~Published(n) /\ spool.shown[n] = NoFile /\ n \notin ledger
<1>1. ~Published(n)
  BY ModelValuesAssumption DEF FateInv, IInv, TypeOK, Fate, RecordSound, Identified, Fresh
<1> QED BY <1>1, SpoolFacts DEF FateInv

LEMMA AcceptedStands ==
    ASSUME ledger' = ledger, \A n \in ledger : owner'[n] = owner[n]
    PROVE  Accepted' = Accepted
<1> QED BY DEF Accepted

LEMMA CustodyStands ==
    ASSUME UNCHANGED <<recorded, forfeited, exposed>>, Accepted' = Accepted,
           \A t \in Searches : SameHolding(t)
    PROVE  CustodyStep
<1>1. Held' = Held
  BY DEF SameHolding, Held
<1> QED BY <1>1 DEF CustodyStep, Custody!vars

\* The steps that neither move nor accept evidence.
LEMMA QuietCustody ==
    ASSUME UNCHANGED <<recorded, forfeited, exposed, owner, intake, spool, ledger>>
    PROVE  CustodyStep
<1>1. Accepted' = Accepted
  BY AcceptedStands
<1>2. ASSUME NEW t \in Searches PROVE SameHolding(t)
  BY HoldingStands
<1> QED BY <1>1, <1>2, CustodyStands

LEMMA SearchCustody ==
    ASSUME FateInv, NEW s \in Searches, Search(s)
    PROVE  CustodyStep
<1>1. PICK id \in RecordIds, outcome \in Outcomes :
          /\ Fresh(id)
          /\ owner' = [owner EXCEPT ![id] = s]
          /\ intake' = Write(intake, s, id, outcome)
          /\ recorded' = IF outcome = "stored" THEN recorded \cup {s} ELSE recorded
  BY DEF Search
<1>2. /\ intake \in Directories(Searches, RecordIds \cup {Unnamed}) /\ Coherent(intake)
      /\ UNCHANGED <<ledger, forfeited, exposed, spool>>
      /\ id # NoFile /\ owner \in [RecordIds -> Searches \cup {Nobody}]
      /\ ledger \in SUBSET RecordIds
  BY ModelValuesAssumption DEF FateInv, IInv, TypeOK, ServerTypeOK, Evidence, Search, serverVars
<1>3. Written(intake, intake', s, id, outcome)
  BY <1>1, <1>2, WriteNarrows
<1>4. \A n \in RecordIds : n \in ledger \/ spool.shown[n] # NoFile => n # id /\ owner'[n] = owner[n]
  BY <1>1, <1>2, KnownOwners
<1>5. Accepted' = Accepted
  BY <1>2, <1>4, AcceptedStands
<1>6. ASSUME NEW t \in Searches \ {s} PROVE SameHolding(t)
  <2>1. intake'.shown[t] = intake.shown[t]
    BY <1>2, <1>3 DEF Written, Narrows, Directories
  <2> QED BY <1>2, <1>4, <2>1, HoldingStands
<1>7. CASE outcome = "failed"
  <2>1. intake'.shown[s] = intake.shown[s]
    BY <1>3, <1>7 DEF Written
  <2>2. SameHolding(s)
    BY <1>2, <1>4, <2>1, HoldingStands
  <2> QED BY <1>1, <1>2, <1>5, <1>6, <1>7, <2>2, CustodyStands
<1>8. CASE outcome # "failed"
  <2>1. s \in Held'
    BY <1>2, <1>3, <1>8 DEF Written, Outcomes, Held
  <2>2. Held' = Held \cup {s}
    BY <1>6, <2>1 DEF SameHolding, Held
  <2>3. Custody!Record(s) \/ Custody!HoldUnreported(s)
    BY <1>1, <1>2, <1>5, <2>2 DEF Custody!Record, Custody!HoldUnreported
  <2> QED BY <2>3 DEF CustodyStep, Custody!Next
<1> QED BY <1>7, <1>8

LEMMA NameIntakeCustody ==
    ASSUME FateInv, NEW f \in Flushes, NEW s \in Searches, NameIntake(f, s)
    PROVE  CustodyStep
<1>1. PICK id \in RecordIds, outcome \in Outcomes :
          /\ Fresh(id)
          /\ owner' = [owner EXCEPT ![id] = s]
          /\ intake' = Write(intake, s, id, outcome)
  BY DEF NameIntake
<1>2. /\ intake \in Directories(Searches, RecordIds \cup {Unnamed}) /\ Coherent(intake)
      /\ UNCHANGED <<ledger, recorded, forfeited, exposed, spool>>
      /\ id # NoFile /\ owner \in [RecordIds -> Searches \cup {Nobody}]
      /\ ledger \in SUBSET RecordIds
      /\ intake.shown[s] # NoFile
  BY ModelValuesAssumption
     DEF FateInv, IInv, TypeOK, ServerTypeOK, Evidence, NameIntake, serverVars
<1>3. Written(intake, intake', s, id, outcome)
  BY <1>1, <1>2, WriteNarrows
<1>4. \A n \in RecordIds : n \in ledger \/ spool.shown[n] # NoFile => n # id /\ owner'[n] = owner[n]
  BY <1>1, <1>2, KnownOwners
<1>5. Accepted' = Accepted
  BY <1>2, <1>4, AcceptedStands
<1>6. ASSUME NEW t \in Searches PROVE SameHolding(t)
  <2>1. intake'.shown[t] = NoFile <=> intake.shown[t] = NoFile
    BY <1>2, <1>3 DEF Written, Narrows, Directories
  <2> QED BY <1>2, <1>4, <2>1, HoldingStands
<1> QED BY <1>2, <1>5, <1>6, CustodyStands

LEMMA SpoolIntakeCustody ==
    ASSUME FateInv, NEW f \in Flushes, NEW s \in Searches, SpoolIntake(f, s)
    PROVE  CustodyStep
<1>1. PICK id \in RecordIds : id = intake.shown[s]
  BY DEF SpoolIntake
<1>2. /\ spool \in Directories(RecordIds, File) /\ Coherent(spool) /\ pass[f].epoch \in Epochs
      /\ intake \in Directories(Searches, RecordIds \cup {Unnamed}) /\ Coherent(intake)
      /\ UNCHANGED <<ledger, recorded, forfeited, exposed, owner>>
      /\ id # NoFile
  BY ModelValuesAssumption
     DEF FateInv, IInv, TypeOK, Evidence, SpoolIntake, PassSound, HasTarget, serverVars
<1>3. owner[id] = s
  <2>1. id \in intake.left[s]
    BY <1>1, <1>2 DEF Coherent, Directories
  <2> QED BY <2>1 DEF FateInv, IInv, Evidence, Minted
<1>4. Accepted' = Accepted
  BY <1>2, AcceptedStands
<1>5. CASE UNCHANGED <<intake, spool, sent>>
  BY <1>2, <1>5, QuietCustody
<1>6. ASSUME NEW outcome \in Outcomes, intake' = ConfirmedIntake(intake),
             spool' = Enqueued(spool, id, pass[f].epoch, outcome)
      PROVE  CustodyStep
  <2>1. \A t \in Searches : intake'.shown[t] = intake.shown[t]
    BY <1>2, <1>6, SyncFacts DEF ConfirmedIntake
  <2>2. \A n \in RecordIds \ {id} : spool'.shown[n] = spool.shown[n]
    <3>1. \E C : Narrows(spool, spool', id, C)
      BY <1>2, <1>6, EnqueuedFacts DEF Written
    <3> QED BY <1>2, <3>1 DEF Narrows, Directories
  <2>3. SameHolding(s)
    BY <1>1, <1>2, <2>1 DEF SameHolding, Held
  <2>4. ASSUME NEW t \in Searches \ {s} PROVE SameHolding(t)
    BY <1>2, <1>3, <2>1, <2>2, HoldingStands
  <2> QED BY <1>2, <1>4, <2>3, <2>4, CustodyStands
<1> QED BY <1>1, <1>5, <1>6 DEF SpoolIntake

LEMMA UnlinkIntakeCustody ==
    ASSUME FateInv, NEW f \in Flushes, UnlinkIntake(f)
    PROVE  CustodyStep
<1>1. PICK s \in Searches : s = pass[f].search
  BY DEF UnlinkIntake, FateInv, IInv, PassSound, ReadyToUnlink
<1>2. PICK id \in RecordIds : owner[id] = s /\ spool.shown[id] # NoFile
  BY <1>1 DEF UnlinkIntake, FateInv, Fate, Handles
<1>3. /\ intake \in Directories(Searches, RecordIds \cup {Unnamed})
      /\ UNCHANGED <<ledger, recorded, forfeited, exposed, owner, spool>>
  BY DEF FateInv, IInv, TypeOK, UnlinkIntake, serverVars, historyVars
<1>4. \A t \in Searches \ {s} : intake'.shown[t] = intake.shown[t]
  <2>1. intake' = intake \/ intake' = Put(intake, s, NoFile)
    BY <1>1 DEF UnlinkIntake
  <2> QED BY <1>3, <2>1, PutFacts
<1>5. SameHolding(s)
  BY <1>2, <1>3 DEF SameHolding, Held
<1>6. ASSUME NEW t \in Searches \ {s} PROVE SameHolding(t)
  BY <1>3, <1>4, HoldingStands
<1>7. Accepted' = Accepted
  BY <1>3, AcceptedStands
<1> QED BY <1>3, <1>5, <1>6, <1>7, CustodyStands

LEMMA SubmitCustody ==
    ASSUME FateInv, NEW f \in Flushes, NEW id \in RecordIds, Submit(f, id)
    PROVE  CustodyStep
<1>1. /\ UNCHANGED <<recorded, forfeited, exposed, owner, intake, spool>>
      /\ ledger' \in {ledger, ledger \cup {id}}
  BY DEF Submit, Accept
<1>2. spool.shown[id] # NoFile /\ owner[id] \in Searches
  BY RecordFacts DEF FateInv, IInv, PassSound, AtWork, Submit
<1>3. CASE ledger' = ledger
  BY <1>1, <1>3, QuietCustody
<1>4. CASE ledger' = ledger \cup {id}
  <2>1. owner[id] \in Held
    BY <1>2 DEF Held
  <2>2. Held' = Held
    BY <1>1 DEF Held
  <2>3. Accepted' = Accepted \cup {owner[id]}
    BY <1>1, <1>2, <1>4 DEF Accepted
  <2>4. Custody!AcceptHeld(owner[id])
    BY <1>1, <2>1, <2>2, <2>3 DEF Custody!AcceptHeld
  <2> QED BY <1>2, <2>4 DEF CustodyStep, Custody!Next
<1> QED BY <1>1, <1>3, <1>4

(* A removal takes at most the evidence of its own search.                 *)
LEMMA RemovalHolding ==
    ASSUME IInv, NEW id \in RecordIds, spool.shown[id] # NoFile, NEW C,
           Narrows(spool, spool', id, C), UNCHANGED <<owner, intake>>
    PROVE  /\ owner[id] \in Held
           /\ Held' \in {Held, Held \ {owner[id]}}
           /\ spool'.shown[id] # NoFile => Held' = Held
<1>1. owner[id] \in Searches /\ spool \in Directories(RecordIds, File)
  BY RecordFacts DEF IInv, TypeOK
<1>2. \A n \in RecordIds \ {id} : spool'.shown[n] = spool.shown[n]
  BY <1>1 DEF Narrows, Directories
<1>3. ASSUME NEW t \in Searches \ {owner[id]} PROVE t \in Held' <=> t \in Held
  BY <1>2, HoldingStands DEF SameHolding
<1>4. owner[id] \in Held
  BY <1>1 DEF Held
<1>5. Held' \in {Held, Held \ {owner[id]}}
  <2>1. Held \subseteq Searches /\ Held' \subseteq Searches
    BY DEF Held
  <2> QED BY <1>3, <1>4, <2>1
<1>6. spool'.shown[id] # NoFile => owner[id] \in Held'
  BY <1>1 DEF Held
<1> QED BY <1>4, <1>5, <1>6

LEMMA DropOneCustody ==
    ASSUME FateInv, NEW f \in Flushes, NEW id \in RecordIds, DropOne(f, id)
    PROVE  CustodyStep
<1>1. PICK how \in Removals :
          /\ spool' = Removed(spool, id, how)
          /\ forfeited' = IF how \in {"kept", "restored"} THEN forfeited
                          ELSE forfeited \cup {owner[id]}
  BY DEF DropOne
<1>2. /\ IInv /\ spool \in Directories(RecordIds, File) /\ Coherent(spool)
      /\ UNCHANGED <<ledger, recorded, exposed, owner, intake>>
      /\ spool.shown[id] # NoFile
  BY DEF FateInv, IInv, TypeOK, Evidence, DropOne, PassSound, AtWork, serverVars
<1>3. /\ Narrows(spool, spool', id, {NoFile})
      /\ how \in {"kept", "restored"} => Narrows(spool, spool', id, {})
  BY <1>1, <1>2, RemovedFacts
<1>4. Accepted' = Accepted /\ owner[id] \in Searches
  BY <1>2, AcceptedStands, RecordFacts
<1>5. /\ owner[id] \in Held /\ Held' \in {Held, Held \ {owner[id]}}
      /\ spool'.shown[id] # NoFile => Held' = Held
  BY <1>2, <1>3, RemovalHolding
<1>6. CASE how \in {"kept", "restored"}
  <2>1. Held' = Held
    BY <1>2, <1>3, <1>5, <1>6 DEF Narrows
  <2> QED BY <1>1, <1>2, <1>4, <1>6, <2>1 DEF CustodyStep, Custody!vars
<1>7. CASE how \notin {"kept", "restored"}
  <2>1. Custody!GiveUp(owner[id])
    BY <1>1, <1>2, <1>4, <1>5, <1>7 DEF Custody!GiveUp
  <2> QED BY <1>4, <2>1 DEF CustodyStep, Custody!Next
<1> QED BY <1>6, <1>7

LEMMA SettleCustody ==
    ASSUME FateInv, NEW f \in Flushes, Settle(f)
    PROVE  CustodyStep
<1>0. PICK id \in RecordIds : id = pass[f].record
  BY DEF Settle, FateInv, IInv, PassSound, AtWork
<1>1. PICK how \in Removals : spool' = Removed(spool, id, how)
  BY <1>0 DEF Settle
<1>2. /\ IInv /\ spool \in Directories(RecordIds, File) /\ Coherent(spool)
      /\ UNCHANGED <<ledger, recorded, forfeited, exposed, owner, intake>>
      /\ spool.shown[id] # NoFile /\ id \in ledger
  BY <1>0 DEF FateInv, IInv, TypeOK, Evidence, Settle, PassSound, AtWork, serverVars, historyVars
<1>3. Narrows(spool, spool', id, {NoFile})
  BY <1>1, <1>2, RemovedFacts
<1>4. Accepted' = Accepted /\ owner[id] \in Searches
  BY <1>2, AcceptedStands, RecordFacts
<1>5. Held' \in {Held, Held \ {owner[id]}}
  BY <1>2, <1>3, RemovalHolding
<1>6. CASE Held' = Held
  BY <1>2, <1>4, <1>6 DEF CustodyStep, Custody!vars
<1>7. CASE Held' = Held \ {owner[id]}
  <2>1. owner[id] \in Accepted
    BY <1>2, <1>4 DEF Accepted
  <2>2. Custody!Release(owner[id])
    BY <1>2, <1>4, <1>7, <2>1 DEF Custody!Release
  <2> QED BY <1>4, <2>2 DEF CustodyStep, Custody!Next
<1> QED BY <1>5, <1>6, <1>7

(* A record rewritten or retired stays on this machine.                    *)
LEMMA RewrittenHolding ==
    ASSUME IInv, NEW id \in RecordIds, spool.shown[id] # NoFile, NEW new \in File,
           NEW outcome \in Outcomes, spool' = Write(spool, id, new, outcome),
           UNCHANGED <<owner, intake>>
    PROVE  owner[id] \in Held /\ Held' = Held
<1>1. spool \in Directories(RecordIds, File) /\ Coherent(spool) /\ new # NoFile
  BY NoFileAssumption DEF IInv, TypeOK, Evidence
<1>2. Narrows(spool, spool', id, {new})
  BY <1>1, WriteNarrows DEF Written
<1>3. spool'.shown[id] # NoFile
  BY <1>1, <1>2 DEF Narrows
<1> QED BY <1>2, <1>3, RemovalHolding

LEMMA MarkCustody ==
    ASSUME FateInv, NEW f \in Flushes, Mark(f)
    PROVE  CustodyStep
<1>0. PICK id \in RecordIds : id = pass[f].record
  BY DEF Mark, FateInv, IInv, PassSound, AtWork
<1>1. /\ IInv /\ spool.shown[id] # NoFile /\ pass[f].answer \in Answers
      /\ UNCHANGED <<ledger, recorded, forfeited, exposed, owner, intake>>
  BY <1>0 DEF FateInv, IInv, TypeOK, PassSound, AtWork, Mark, Memory, serverVars, historyVars
<1>2. IsActive(id) /\ spool.shown[id] \in File
  BY <1>0, <1>1, RecordFacts DEF FateInv, Fate, Handles, Mark
<1> DEFINE new == Marked(spool.shown[id], pass[f].answer)
<1>3. new \in File
  BY <1>1, <1>2, MarkedFacts DEF IsActive
<1>4. \E outcome \in Outcomes : spool' = Write(spool, id, new, outcome)
  BY <1>0 DEF Mark
<1> HIDE DEF new
<1>5. Held' = Held
  BY <1>1, <1>3, <1>4, RewrittenHolding
<1>6. Accepted' = Accepted
  BY <1>1, AcceptedStands
<1> QED BY <1>1, <1>5, <1>6 DEF CustodyStep, Custody!vars

LEMMA RetireCustody ==
    ASSUME FateInv, NEW f \in Flushes, Retire(f)
    PROVE  CustodyStep
<1>0. PICK id \in RecordIds : id = pass[f].record
  BY DEF Retire, FateInv, IInv, PassSound, AtWork
<1>1. /\ IInv /\ spool.shown[id] # NoFile
      /\ UNCHANGED <<ledger, recorded, forfeited, owner, intake>>
      /\ exposed' \in {exposed, exposed \cup {owner[id]}}
  BY <1>0 DEF FateInv, IInv, PassSound, AtWork, Retire, serverVars
<1>2. spool.shown[id] \in File /\ owner[id] \in Searches
  BY <1>1, RecordFacts
<1> DEFINE new == [spool.shown[id] EXCEPT !.place = "quarantine"]
<1>3. new \in File
  BY <1>2 DEF File
<1>4. \E outcome \in Outcomes : spool' = Write(spool, id, new, outcome)
  BY <1>0 DEF Retire
<1> HIDE DEF new
<1>5. owner[id] \in Held /\ Held' = Held
  BY <1>1, <1>3, <1>4, RewrittenHolding
<1>6. Accepted' = Accepted
  BY <1>1, AcceptedStands
<1>7. CASE exposed' = exposed
  BY <1>1, <1>5, <1>6, <1>7 DEF CustodyStep, Custody!vars
<1>8. CASE exposed' = exposed \cup {owner[id]}
  <2>1. Custody!GiveUp(owner[id])
    BY <1>1, <1>5, <1>6, <1>8 DEF Custody!GiveUp
  <2> QED BY <1>2, <2>1 DEF CustodyStep, Custody!Next
<1> QED BY <1>1, <1>7, <1>8

LEMMA PowerLossCustody ==
    ASSUME FateInv, IInv', PowerLoss
    PROVE  CustodyStep
<1>1. UNCHANGED <<ledger, recorded, forfeited, exposed, owner>>
  BY DEF PowerLoss, serverVars, historyVars
<1>2. Accepted' = Accepted
  BY <1>1, AcceptedStands
<1>3. ASSUME NEW s \in recorded, s \notin Accepted, s \notin forfeited \cup exposed
      PROVE  s \in Held'
  <2>1. OnDisk(s)' /\ s \in Searches
    BY <1>1, <1>2, <1>3 DEF IInv, TypeOK, Evidence, KeptThroughPowerLoss
  <2> QED BY <2>1 DEF OnDisk, IInv, TypeOK, Directories, Evidence, Coherent, Held
<1>4. Held' \in SUBSET Searches
  BY DEF Held
<1>5. Custody!LosePower
  BY <1>1, <1>2, <1>3, <1>4 DEF Custody!LosePower
<1> QED BY <1>5 DEF CustodyStep, Custody!Next

LEMMA FlushCustody ==
    ASSUME FateInv, NEW f \in Flushes, Flush(f)
    PROVE  CustodyStep
<1>1. CASE \/ StartFlush(f) \/ LeaveBusy(f) \/ UseStamp(f) \/ AskTarget(f) \/ NoTarget(f)
           \/ Participate(f) \/ SaveStamp(f) \/ BeginDrop(f) \/ ForgetConflicts(f)
           \/ ReadIntake(f) \/ ReadPending(f) \/ EndFlush(f)
           \/ \E id \in RecordIds : CleanUp(f, id) \/ WaitOut(f, id)
  <2>1. UNCHANGED <<recorded, forfeited, exposed, owner, intake, spool, ledger>>
    BY <1>1 DEF StartFlush, LeaveBusy, UseStamp, AskTarget, NoTarget, Participate, SaveStamp,
                BeginDrop, ForgetConflicts, ReadIntake, ReadPending, EndFlush, CleanUp, WaitOut,
                serverVars, historyVars
  <2> QED BY <2>1, QuietCustody
<1>2. CASE \/ \E id \in RecordIds : DropOne(f, id) \/ Submit(f, id)
           \/ Mark(f) \/ Settle(f) \/ Retire(f)
  BY <1>2, DropOneCustody, SubmitCustody, MarkCustody, SettleCustody, RetireCustody
<1>3. CASE \/ \E s \in Searches : NameIntake(f, s) \/ SpoolIntake(f, s)
           \/ UnlinkIntake(f)
  BY <1>3, NameIntakeCustody, SpoolIntakeCustody, UnlinkIntakeCustody
<1> QED BY <1>1, <1>2, <1>3 DEF Flush

LEMMA NextCustody ==
    ASSUME FateInv, IInv', [Next]_vars
    PROVE  CustodyStep
<1>1. CASE \E s \in Searches : Search(s)
  BY <1>1, SearchCustody
<1>2. CASE (\E f \in Flushes : Flush(f)) \/ PowerLoss
  BY <1>2, FlushCustody, PowerLossCustody
<1>3. CASE (\E f \in Flushes : Kill(f)) \/ Server \/ UNCHANGED vars
  <2>1. UNCHANGED <<recorded, forfeited, exposed, owner, intake, spool, ledger>>
    BY <1>3 DEF Kill, Server, OpenNextTarget, BindElsewhere, vars, serverVars, historyVars
  <2> QED BY <2>1, QuietCustody
<1> QED BY <1>1, <1>2, <1>3 DEF Next

LEMMA InitCustody == Init => Custody!Init
<1>1. SUFFICES ASSUME Init PROVE Custody!Init
  OBVIOUS
<1>2. /\ recorded \in SUBSET Searches
      /\ \A s \in Searches : intake.shown[s] # NoFile <=> s \in recorded
      /\ \A id \in RecordIds : spool.shown[id] = NoFile
      /\ ledger = {} /\ forfeited = {} /\ exposed = {}
  BY <1>1, ModelValuesAssumption DEF Init, ServerInit, Settled
<1> QED BY <1>2 DEF Custody!Init, Held, Accepted

(* The delivery path keeps the promise of ObservationCustody: it starts as *)
(* that specification does, and each of its steps records, holds,          *)
(* delivers, releases or gives up as that specification allows, or is none *)
(* of its concern.                                                         *)
THEOREM PromiseKept == Spec => Promise
<1>1. FateInv /\ FateInv' /\ [Next]_vars => [Custody!Next]_(Custody!vars)
  BY NextCustody DEF FateInv, CustodyStep
<1> QED BY <1>1, InitCustody, FateInvariant, PTL DEF Spec, Promise, Custody!Spec
=============================================================================
