----------------------------- MODULE Wallet_proofs -----------------------------
(***************************************************************************)
(* Wallet: no transfer is forgotten before its outcome is known, a payment *)
(* that is repeated until its outcome is told is made once, and the        *)
(* address that is shown can be spent from after one storage fault.        *)
(***************************************************************************)
EXTENDS WalletInvariant, TLAPS

-----------------------------------------------------------------------------
(* What the operations of Directory do to one name, stated once: which     *)
(* content is visible afterwards and what a loss of power may leave.       *)

(* A settled directory leaves exactly what it shows.                       *)
LEMMA SettledFacts ==
    ASSUME NEW Names, NEW Contents, NEW shown \in [Names -> Contents \cup {NoFile}]
    PROVE  /\ Settled(shown) \in Directories(Names, Contents)
           /\ Settled(shown).shown = shown
           /\ \A m \in Names : Settled(shown).left[m] = {shown[m]}
<1> QED BY DEF Settled, Directories

(* A name operation without a barrier adds one possibility to its name and *)
(* leaves the others alone.                                                *)
LEMMA PutFacts ==
    ASSUME NEW Names, NEW Contents, NEW d \in Directories(Names, Contents),
           NEW n \in Names, NEW c \in Contents \cup {NoFile}
    PROVE  /\ Put(d, n, c) \in Directories(Names, Contents)
           /\ Put(d, n, c).shown[n] = c
           /\ Put(d, n, c).left[n] = d.left[n] \cup {c}
           /\ \A m \in Names \ {n} : /\ Put(d, n, c).shown[m] = d.shown[m]
                                    /\ Put(d, n, c).left[m] = d.left[m]
<1> QED BY DEF Put, Directories

(* The directory barrier leaves the visible contents and nothing else.     *)
LEMMA SyncFacts ==
    ASSUME NEW Names, NEW Contents, NEW d \in Directories(Names, Contents)
    PROVE  /\ Sync(d) \in Directories(Names, Contents)
           /\ \A m \in Names : /\ Sync(d).shown[m] = d.shown[m]
                               /\ Sync(d).left[m] = {d.shown[m]}
<1>1. d.shown \in [Names -> Contents \cup {NoFile}]
  BY DEF Directories
<1> QED BY <1>1, SettledFacts DEF Sync

(* A durable write that succeeds shows the content and settles every name. *)
LEMMA StoredFacts ==
    ASSUME NEW Names, NEW Contents, NEW d \in Directories(Names, Contents),
           NEW n \in Names, NEW c \in Contents \cup {NoFile}
    PROVE  LET e == Sync(Put(d, n, c)) IN
           /\ e \in Directories(Names, Contents)
           /\ e.shown[n] = c
           /\ \A m \in Names \ {n} : e.shown[m] = d.shown[m]
           /\ \A m \in Names : e.left[m] = {e.shown[m]}
<1> DEFINE put == Put(d, n, c)
<1>1. /\ put \in Directories(Names, Contents)
      /\ put.shown[n] = c
      /\ \A m \in Names \ {n} : put.shown[m] = d.shown[m]
  BY PutFacts
<1>2. /\ Sync(put) \in Directories(Names, Contents)
      /\ \A m \in Names : /\ Sync(put).shown[m] = put.shown[m]
                          /\ Sync(put).left[m] = {put.shown[m]}
  <2> HIDE DEF put
  <2> QED BY <1>1, SyncFacts
<1> QED BY <1>1, <1>2

-----------------------------------------------------------------------------
\* e differs from d in the name n, by contents of C, and is durable wherever d is.
Narrows(d, e, n, C) ==
    /\ e.shown[n] \in {d.shown[n]} \cup C
    /\ e.left[n] \subseteq d.left[n] \cup C
    /\ \A m \in DOMAIN d.shown \ {n} : /\ e.shown[m] = d.shown[m]
                                      /\ e.left[m] \subseteq d.left[m]

(* A name operation without a barrier.                                     *)
LEMMA PutNarrows ==
    ASSUME NEW Names, NEW Contents, NEW d \in Directories(Names, Contents),
           Coherent(d), NEW n \in Names, NEW c \in Contents \cup {NoFile}
    PROVE  /\ Put(d, n, c) \in Directories(Names, Contents)
           /\ Coherent(Put(d, n, c))
           /\ Narrows(d, Put(d, n, c), n, {c})
           /\ Put(d, n, c).shown[n] = c
           /\ Put(d, n, c).left[n] = d.left[n] \cup {c}
<1>1. /\ DOMAIN d.shown = Names
      /\ Put(d, n, c) \in Directories(Names, Contents) => DOMAIN Put(d, n, c).shown = Names
  BY DEF Directories
<1>2. /\ Put(d, n, c) \in Directories(Names, Contents)
      /\ Put(d, n, c).shown[n] = c
      /\ Put(d, n, c).left[n] = d.left[n] \cup {c}
      /\ \A m \in Names \ {n} : /\ Put(d, n, c).shown[m] = d.shown[m]
                               /\ Put(d, n, c).left[m] = d.left[m]
  BY PutFacts
<1> QED BY <1>1, <1>2 DEF Coherent, Narrows

(* A name operation and the barrier.                                       *)
LEMMA StoredNarrows ==
    ASSUME NEW Names, NEW Contents, NEW d \in Directories(Names, Contents),
           Coherent(d), NEW n \in Names, NEW c \in Contents \cup {NoFile}
    PROVE  LET e == Sync(Put(d, n, c)) IN
           /\ e \in Directories(Names, Contents)
           /\ Coherent(e)
           /\ Narrows(d, e, n, {c})
           /\ e.shown[n] = c
           /\ e.left[n] = {c}
<1> DEFINE e == Sync(Put(d, n, c))
<1>1. /\ DOMAIN d.shown = Names
      /\ e \in Directories(Names, Contents) => DOMAIN e.shown = Names
  BY DEF Directories
<1>2. /\ e \in Directories(Names, Contents)
      /\ e.shown[n] = c
      /\ \A m \in Names \ {n} : e.shown[m] = d.shown[m]
      /\ \A m \in Names : e.left[m] = {e.shown[m]}
  BY StoredFacts
<1>3. /\ Coherent(e)
      /\ Narrows(d, e, n, {c})
      /\ e.left[n] = {c}
  <2> HIDE DEF e
  <2> QED BY <1>1, <1>2 DEF Coherent, Narrows
<1> QED BY <1>2, <1>3

\* e is d after a durable write of c under the name n that ended in outcome.
Written(d, e, n, c, outcome) ==
    /\ Narrows(d, e, n, {c})
    /\ outcome = "stored" => e.shown[n] = c /\ e.left[n] = {c}
    /\ outcome = "unsynced" => e.shown[n] = c /\ e.left[n] = d.left[n] \cup {c}
    /\ outcome = "failed" => e.shown[n] = d.shown[n] /\ e.left[n] = d.left[n]

(* A durable write, whatever its outcome; what it guarantees is up to the  *)
(* outcome.                                                                *)
LEMMA WriteNarrows ==
    ASSUME NEW Names, NEW Contents, NEW d \in Directories(Names, Contents),
           Coherent(d), NEW n \in Names, NEW c \in Contents \cup {NoFile},
           NEW outcome \in Outcomes
    PROVE  /\ Write(d, n, c, outcome) \in Directories(Names, Contents)
           /\ Coherent(Write(d, n, c, outcome))
           /\ Written(d, Write(d, n, c, outcome), n, c, outcome)
<1>1. CASE outcome = "stored"
  <2>1. Write(d, n, c, outcome) = Sync(Put(d, n, c))
    BY <1>1 DEF Write
  <2> QED BY SMTT(40), <1>1, <2>1, StoredNarrows DEF Written
<1>2. CASE outcome = "unsynced"
  <2>1. Write(d, n, c, outcome) = Put(d, n, c)
    BY <1>2 DEF Write
  <2> QED BY SMTT(40), <1>2, <2>1, PutNarrows DEF Written
<1>3. CASE outcome = "failed"
  <2>1. Write(d, n, c, outcome) = d
    BY <1>3 DEF Write
  <2> QED BY <1>3, <2>1 DEF Narrows, Written
<1> QED BY <1>1, <1>2, <1>3 DEF Outcomes

-----------------------------------------------------------------------------
(* A loss of power leaves one of the possibilities of every name, settled. *)
LEMMA PowerLossFacts ==
    ASSUME NEW Names, NEW Contents, NEW d \in Directories(Names, Contents),
           NEW e \in AfterPowerLoss(d)
    PROVE  /\ e \in Directories(Names, Contents)
           /\ Coherent(e)
           /\ \A m \in Names : e.shown[m] \in d.left[m] /\ e.left[m] = {e.shown[m]}
<1>1. DOMAIN d.shown = Names
  BY DEF Directories
<1>2. PICK shown \in [Names -> UNION {d.left[n] : n \in DOMAIN d.left}] :
          e = Settled(shown) /\ \A m \in Names : shown[m] \in d.left[m]
  BY <1>1 DEF AfterPowerLoss
<1>3. shown \in [Names -> Contents \cup {NoFile}]
  BY <1>2 DEF Directories
<1>4. /\ e \in Directories(Names, Contents)
      /\ e.shown = shown
      /\ \A m \in Names : e.left[m] = {shown[m]}
  BY <1>2, <1>3, SettledFacts
<1> QED BY <1>2, <1>4 DEF Coherent, Directories

OnChain == mempool \cup paid \cup failed

-----------------------------------------------------------------------------
(* What the operations on the directory do.                                *)

\* The part of the invariant that is about the directory alone.
DirOK == /\ dir \in Directories(Files, Keys \cup Txs) /\ Coherent(dir)
         /\ Named
         /\ faults \in 0 .. MaxFaults

\* The journal is untouched, except that it may be settled as it is shown.
JournalStays ==
    /\ dir'.shown["journal"] = dir.shown["journal"]
    /\ dir'.left["journal"] \subseteq dir.left["journal"]
    /\ \A t : dir.left["journal"] = {t} => dir'.left["journal"] = {t}

\* The other files are still there.
Others == \A n \in {"key", "sidecar"} : dir.shown[n] # NoFile => dir'.shown[n] # NoFile

(* What is shown is a content of its file.                                 *)
LEMMA ShownFacts ==
    ASSUME DirOK
    PROVE  /\ Journal \in dir.left["journal"]
           /\ Journal # NoFile => Journal \in Txs /\ Journal \in Journals
           /\ \A n \in {"key", "sidecar"} : dir.shown[n] \in Keys \cup {NoFile}
<1>1. \A n \in Files : dir.shown[n] \in dir.left[n]
  BY DEF DirOK, Coherent, Directories
<1> QED BY <1>1 DEF DirOK, Named, Journals, Journal, Files

(* A write of the key or the sidecar.                                      *)
LEMMA KeyStored ==
    ASSUME DirOK, NEW n \in {"key", "sidecar"}, NEW k \in Keys, NEW outcome \in Outcomes,
           Store(n, k, outcome)
    PROVE  /\ DirOK' /\ JournalStays /\ Others
           /\ outcome = "stored" => dir'.shown[n] = k
<1>1. n \in Files /\ k \in (Keys \cup Txs) \cup {NoFile}
  BY DEF Files
<1>2. /\ dir' \in Directories(Files, Keys \cup Txs)
      /\ Coherent(dir')
      /\ Written(dir, dir', n, k, outcome)
  BY <1>1, WriteNarrows DEF Store, DirOK
<1>3. DOMAIN dir.shown = Files /\ DOMAIN dir'.shown = Files
  BY <1>2 DEF Directories, DirOK
<1>4. \A m \in Files \ {n} : /\ dir'.shown[m] = dir.shown[m]
                             /\ dir'.left[m] \subseteq dir.left[m]
  BY <1>2, <1>3 DEF Written, Narrows
<1>5. /\ dir'.shown[n] \in {dir.shown[n]} \cup {k}
      /\ dir'.left[n] \subseteq dir.left[n] \cup {k}
      /\ outcome = "stored" => dir'.shown[n] = k
  BY <1>2 DEF Written, Narrows
<1>6. dir'.shown["journal"] \in dir'.left["journal"]
  BY <1>2, <1>3 DEF Coherent, Files
<1>7. faults' \in 0 .. MaxFaults
  BY WalletAssumption DEF Store, Faults, DirOK
<1>8. JournalStays
  BY <1>4, <1>6 DEF JournalStays, Files
<1>9. Others
  BY <1>4, <1>5, FilesAssumption DEF Others, Files
<1>10. Named'
  BY <1>4, <1>5 DEF Named, Journals, DirOK, Files
<1> QED BY <1>2, <1>5, <1>7, <1>8, <1>9, <1>10 DEF DirOK

(* A write of the journal.                                                 *)
LEMMA JournalStored ==
    ASSUME DirOK, NEW t \in Txs, NEW outcome \in Outcomes, Store("journal", t, outcome)
    PROVE  /\ DirOK' /\ Others
           /\ Journals' \subseteq Journals \cup {t}
           /\ outcome = "stored" => dir'.left["journal"] = {t}
<1>1. "journal" \in Files /\ t \in (Keys \cup Txs) \cup {NoFile}
  BY DEF Files
<1>2. /\ dir' \in Directories(Files, Keys \cup Txs)
      /\ Coherent(dir')
      /\ Written(dir, dir', "journal", t, outcome)
  BY <1>1, WriteNarrows DEF Store, DirOK
<1>3. DOMAIN dir.shown = Files /\ DOMAIN dir'.shown = Files
  BY <1>2 DEF Directories, DirOK
<1>4. \A m \in Files \ {"journal"} : /\ dir'.shown[m] = dir.shown[m]
                                     /\ dir'.left[m] \subseteq dir.left[m]
  BY <1>2, <1>3 DEF Written, Narrows
<1>5. /\ dir'.left["journal"] \subseteq dir.left["journal"] \cup {t}
      /\ outcome = "stored" => dir'.left["journal"] = {t}
  BY <1>2 DEF Written, Narrows
<1>6. faults' \in 0 .. MaxFaults
  BY WalletAssumption DEF Store, Faults, DirOK
<1>7. Others
  BY <1>4 DEF Others, Files
<1>8. Named'
  BY <1>4, <1>5 DEF Named, Journals, DirOK, Files
<1> QED BY <1>2, <1>5, <1>6, <1>7, <1>8 DEF DirOK, Journals

(* A removal of the journal, which may fail.                               *)
LEMMA JournalRemoved ==
    ASSUME DirOK, RemoveJournal
    PROVE  /\ DirOK' /\ Others
           /\ Journals' \subseteq Journals
<1>1. "journal" \in Files /\ NoFile \in (Keys \cup Txs) \cup {NoFile}
  BY DEF Files
<1>2. CASE dir' = Put(dir, "journal", NoFile) /\ UNCHANGED faults
  <2>1. /\ dir' \in Directories(Files, Keys \cup Txs)
        /\ Coherent(dir')
        /\ Narrows(dir, dir', "journal", {NoFile})
    BY <1>1, <1>2, PutNarrows DEF DirOK
  <2>2. DOMAIN dir.shown = Files
    BY DEF Directories, DirOK
  <2>3. \A m \in Files \ {"journal"} : /\ dir'.shown[m] = dir.shown[m]
                                       /\ dir'.left[m] \subseteq dir.left[m]
    BY <2>1, <2>2 DEF Narrows
  <2>4. dir'.left["journal"] \subseteq dir.left["journal"] \cup {NoFile}
    BY <2>1 DEF Narrows
  <2>5. Others
    BY <2>3 DEF Others, Files
  <2>6. Named'
    BY <2>3, <2>4 DEF Named, Journals, DirOK, Files
  <2> QED BY <1>2, <2>1, <2>4, <2>5, <2>6 DEF DirOK, Journals
<1>3. CASE faults < MaxFaults /\ faults' = faults + 1 /\ UNCHANGED dir
  <2>1. faults' \in 0 .. MaxFaults
    BY <1>3, WalletAssumption DEF DirOK
  <2> QED BY <1>3, <2>1 DEF DirOK, Named, Journals, Others
<1> QED BY <1>2, <1>3 DEF RemoveJournal

(* A loss of power leaves the journal as it is or what it may be.          *)
LEMMA PowerLossLeaves ==
    ASSUME DirOK, dir' \in AfterPowerLoss(dir), UNCHANGED faults
    PROVE  /\ DirOK' /\ Journals' \subseteq Journals
           /\ \A t : dir.left["journal"] = {t} => dir'.left["journal"] = {t}
<1>1. /\ dir' \in Directories(Files, Keys \cup Txs)
      /\ Coherent(dir')
      /\ \A m \in Files : dir'.shown[m] \in dir.left[m] /\ dir'.left[m] = {dir'.shown[m]}
  BY PowerLossFacts DEF DirOK
<1>2. \A m \in Files : dir'.left[m] \subseteq dir.left[m]
  BY <1>1
<1>3. Named'
  BY <1>2 DEF Named, Journals, DirOK, Files
<1> QED BY <1>1, <1>2, <1>3 DEF DirOK, Journals, Files

-----------------------------------------------------------------------------
(* What a step leaves to the invariant.                                    *)

\* Nothing that is excused or told is taken back.
Remembered == told \subseteq told' /\ abandoned \subseteq abandoned' /\ lapses \subseteq lapses'

(* A step that brings no transfer to the chain and none to the journal     *)
(* keeps the two safety properties if it keeps what is known of each       *)
(* transfer on the chain.                                                  *)
LEMMA NothingNew ==
    ASSUME IInv, Remembered, Journals' \subseteq Journals,
           OnChain' \subseteq OnChain,
           mempool' \cup paid' \subseteq mempool \cup paid,
           \A t \in OnChain : Known(t) => Known(t)'
    PROVE  KnownOrJournaled' /\ OneAlive'
<1>1. KnownOrJournaled'
  BY DEF IInv, KnownOrJournaled, OnChain
<1>2. OneAlive'
  BY DEF IInv, OneAlive, Remembered, Excused
<1> QED BY <1>1, <1>2

(* What is known of a transfer stays known if the journal keeps it and     *)
(* whoever reports it goes on to do so, or it is excused or told.          *)
LEMMA KnownStays ==
    ASSUME Remembered, NEW t, Known(t),
           dir.left["journal"] = {t} => Known(t)',
           \A p \in Payments : step[p] = "report" /\ tx[p] = t => Known(t)'
    PROVE  Known(t)'
BY DEF Known, Remembered

(* Another command's part of the invariant.  Unless d holds the lock the   *)
(* journal and the chain are not its concern; if it does, no step of       *)
(* another command changes the journal or brings a transfer to the chain.  *)
LEMMA OtherAtWork ==
    ASSUME IInv, NEW d \in Commands, Others, Remembered,
           step'[d] = step[d], tx'[d] = tx[d],
           paid \subseteq paid', failed \subseteq failed',
           lock = d => /\ JournalStays /\ OnChain' \subseteq OnChain
                       /\ ToldPaid(d)' => ToldPaid(d)
    PROVE  /\ Creating(d)' /\ Resolving(d)'
           /\ d \in Payments => Sending(d)'
<1>1. step[d] \in Locked <=> lock = d
  BY DEF IInv, TypeOK
<1>2. Creating(d) /\ Resolving(d) /\ (d \in Payments => Sending(d))
  BY DEF IInv, AtWork
<1>3. Creating(d)'
  BY <1>2 DEF Creating, Others
<1>4. Resolving(d)'
  <2>1. CASE step[d] \in {"clear", "sign", "resolve"}
    <3>1. lock = d
      BY <1>1, <2>1 DEF Locked
    <3> QED BY <1>2, <3>1 DEF Resolving, JournalStays, Journal, Remembered
  <2>2. CASE step[d] \notin {"clear", "sign", "resolve"}
    BY <2>2 DEF Resolving
  <2> QED BY <2>1, <2>2
<1>5. ASSUME d \in Payments
      PROVE  Sending(d)'
  <2>1. CASE step[d] \in {"broadcast", "refused"}
    <3>1. lock = d
      BY <1>1, <2>1 DEF Locked
    <3>2. tx[d] \in OnChain' => Excused(tx[d])'
      BY <1>2, <1>5, <2>1, <3>1 DEF Sending, OnChain, Excused, Remembered
    <3>3. dir'.left["journal"] = {tx'[d]}
      BY <1>2, <1>5, <2>1, <3>1 DEF Sending, JournalStays
    <3> QED BY <1>2, <1>5, <2>1, <3>2, <3>3 DEF Sending, OnChain, Excused
  <2>2. CASE step[d] \notin {"broadcast", "refused"}
    BY <1>2, <1>5, <2>2 DEF Sending, InBlock
  <2> QED BY <2>1, <2>2
<1> QED BY <1>3, <1>4, <1>5

(* The types of a step of one command.                                     *)
\* c goes to the step next and builds or drops the transfer t.
Moves(c, next, t) ==
    /\ step' = [step EXCEPT ![c] = next]
    /\ tx' = [tx EXCEPT ![c] = t]
    /\ lock' = (IF next \in Locked THEN c ELSE IF lock = c THEN Nobody ELSE lock)
    /\ next \in Locked => lock \in {c, Nobody}

Placed ==
    /\ lock \in Commands \cup {Nobody}
    /\ \A c \in Commands : step[c] \in Locked <=> lock = c
    /\ step \in [Commands -> Steps]
    /\ tx \in [Commands -> Txs \cup {NoFile}]

(* Wherever a command goes, the lock is with the one that needs it.        *)
LEMMA MovesPlaced ==
    ASSUME Placed, NEW c \in Commands, NEW next \in Steps, NEW t \in Txs \cup {NoFile},
           Moves(c, next, t)
    PROVE  /\ Placed'
           /\ step'[c] = next /\ tx'[c] = t
           /\ \A d \in Commands \ {c} : step'[d] = step[d] /\ tx'[d] = tx[d]
<1>1. /\ step' \in [Commands -> Steps] /\ tx' \in [Commands -> Txs \cup {NoFile}]
      /\ step'[c] = next /\ tx'[c] = t
      /\ \A d \in Commands \ {c} : step'[d] = step[d] /\ tx'[d] = tx[d]
  BY DEF Moves, Placed
<1>2. lock' \in Commands \cup {Nobody}
  BY DEF Moves, Placed
<1>3. ASSUME NEW d \in Commands
      PROVE  step'[d] \in Locked <=> lock' = d
  <2>1. d # Nobody /\ c # Nobody
    BY WalletAssumption
  <2>2. step[d] \in Locked <=> lock = d
    BY DEF Placed
  <2>3. CASE d = c
    BY <1>1, <2>1, <2>3 DEF Moves
  <2>4. CASE d # c
    BY <1>1, <2>1, <2>2, <2>4 DEF Moves
  <2> QED BY <2>3, <2>4
<1> QED BY <1>1, <1>2, <1>3 DEF Placed

(* A command that ends, that goes on, and that starts with the lock.       *)
LEMMA ExitMoves ==
    ASSUME Placed, NEW c \in Commands, Exit(c)
    PROVE  Moves(c, "idle", NoFile)
BY DEF Exit, Goto, Moves, Locked

(* A command that goes on keeps its transfer.                              *)
LEMMA GotoMoves ==
    ASSUME Placed, NEW c \in Commands, NEW next \in Steps, Goto(c, next), UNCHANGED <<lock, tx>>,
           next \in Locked <=> step[c] \in Locked
    PROVE  Moves(c, next, tx[c]) /\ tx[c] \in Txs \cup {NoFile}
<1>1. tx \in [Commands -> Txs \cup {NoFile}] /\ (step[c] \in Locked <=> lock = c)
  BY DEF Placed
<1>2. tx' = [tx EXCEPT ![c] = tx[c]]
  BY <1>1
<1> QED BY <1>1, <1>2 DEF Goto, Moves

\* The types of the chain and of what the user was told.
Typed ==
    /\ sequence \in [Keys -> 0 .. MaxSequence + 1]
    /\ mempool \subseteq Txs /\ paid \subseteq Txs /\ failed \subseteq Txs
    /\ told \subseteq Txs /\ abandoned \subseteq Txs /\ lapses \subseteq Txs
    /\ phrases \subseteq Keys /\ handed \subseteq Keys

(* The invariant by its subjects.                                          *)
LEMMA Parts == IInv <=> /\ Placed /\ DirOK /\ Typed
                        /\ Ordered /\ AtWork /\ KnownOrJournaled /\ OneAlive
BY DEF IInv, TypeOK, Placed, DirOK, Typed

\* The command c's own part of the invariant.
Own(c) == Creating(c) /\ Resolving(c) /\ (c \in Payments => Sending(c))

(* A step of one command, put together.                                    *)
LEMMA OneMoves ==
    ASSUME IInv, NEW c \in Commands, NEW next \in Steps, NEW t \in Txs \cup {NoFile},
           Moves(c, next, t),
           DirOK', Others, Remembered, Typed', Ordered', KnownOrJournaled', OneAlive',
           paid \subseteq paid', failed \subseteq failed',
           \A d \in Commands \ {c} : lock = d =>
               /\ JournalStays /\ OnChain' \subseteq OnChain
               /\ ToldPaid(d)' => ToldPaid(d),
           Own(c)'
    PROVE  IInv'
<1>1. /\ Placed'
      /\ \A d \in Commands \ {c} : step'[d] = step[d] /\ tx'[d] = tx[d]
  BY MovesPlaced, Parts
<1>2. ASSUME NEW d \in Commands
      PROVE  Own(d)'
  <2>1. CASE d = c
    BY <2>1
  <2>2. CASE d # c
    BY <1>1, <2>2, OtherAtWork DEF Own
  <2> QED BY <2>1, <2>2
<1>3. AtWork'
  BY <1>2 DEF AtWork, Own, Commands
<1> QED BY <1>1, <1>3 DEF IInv, TypeOK, Placed, DirOK, Typed

(* A step that changes nothing but where a command is.                     *)
LEMMA QuietMove ==
    ASSUME IInv, NEW c \in Commands, NEW next \in Steps, NEW t \in Txs \cup {NoFile},
           Moves(c, next, t), UNCHANGED <<dir, chain, user, lapses, faults>>,
           step[c] # "report", Own(c)'
    PROVE  IInv'
<1>1. /\ DirOK' /\ Typed' /\ Ordered' /\ Others /\ Remembered /\ JournalStays
      /\ OnChain' = OnChain /\ \A d \in Commands : ToldPaid(d)' <=> ToldPaid(d)
  BY Parts DEF DirOK, Named, Journals, Typed, Ordered, Admissible, Others, Remembered,
               JournalStays, OnChain, ToldPaid, chain, user
<1>2. \A d \in Commands \ {c} : step'[d] = step[d] /\ tx'[d] = tx[d]
  BY MovesPlaced, Parts
<1>3. \A u : Known(u) => Known(u)'
  BY <1>2 DEF Known, user, Commands
<1>4. KnownOrJournaled' /\ OneAlive'
  <2>1. Journals' = Journals /\ mempool' = mempool /\ paid' = paid /\ failed' = failed
    BY DEF Journals, chain
  <2> QED BY <1>1, <1>3, <2>1, NothingNew
<1>5. paid' = paid /\ failed' = failed
  BY DEF chain
<1> QED BY <1>1, <1>4, <1>5, OneMoves

(* Nobody is told that a command which is not a send has paid.             *)
LEMMA KeepersPayNothing ==
    ASSUME IInv, NEW c \in Keepers
    PROVE  ~ToldPaid(c)
BY WalletAssumption DEF IInv, TypeOK, ToldPaid, Txs

(* A command that takes the lock.                                          *)
LEMMA StartKeeps ==
    ASSUME IInv, NEW c \in Commands, StartInit(c) \/ StartSend(c) \/ StartBalance(c)
    PROVE  IInv'
<1>1. PICK next \in {"create", "resolve"} :
        /\ Take(c, next) /\ UNCHANGED <<dir, tx, chain, user, lapses, faults>>
        /\ next = "resolve" => c \in Keepers \/ ~ToldPaid(c)
  BY DEF StartInit, StartSend, StartBalance
<1>2. /\ next \in Steps /\ tx[c] \in Txs \cup {NoFile}
      /\ Moves(c, next, tx[c])
  BY <1>1, Parts DEF Take, Goto, Moves, Steps, Locked, Placed
<1>3. step'[c] = next
  BY <1>2, MovesPlaced, Parts
<1>4. ToldPaid(c)' <=> ToldPaid(c)
  BY <1>1 DEF ToldPaid, chain, user
<1>5. Own(c)'
  BY <1>1, <1>3, <1>4, KeepersPayNothing DEF Own, Creating, Resolving, Sending
<1> QED BY <1>1, <1>2, <1>5, QuietMove DEF Take

(* A command that finds no journal.                                        *)
LEMMA ResolveNoneKeeps ==
    ASSUME IInv, NEW c \in Commands, ResolveNone(c)
    PROVE  IInv'
<1>1. /\ step[c] = "resolve" /\ Journal = NoFile
      /\ UNCHANGED <<dir, chain, user, lapses, faults>>
  BY DEF ResolveNone
<1>2. Journal' = NoFile /\ (ToldPaid(c)' <=> ToldPaid(c)) /\ ~ToldPaid(c)
  BY <1>1 DEF Journal, ToldPaid, chain, user, IInv, AtWork, Resolving
<1>3. CASE Goto(c, "sign") /\ UNCHANGED <<tx, lock>>
  <2>1. Moves(c, "sign", tx[c]) /\ tx[c] \in Txs \cup {NoFile} /\ "sign" \in Steps
    BY <1>1, <1>3, GotoMoves, Parts DEF Locked, Steps
  <2>2. step'[c] = "sign"
    BY <2>1, MovesPlaced, Parts
  <2>3. Own(c)'
    BY <1>2, <2>2 DEF Own, Creating, Resolving, Sending
  <2> QED BY <1>1, <2>1, <2>3, QuietMove
<1>4. CASE Exit(c)
  <2>1. Moves(c, "idle", NoFile) /\ "idle" \in Steps
    BY <1>4, ExitMoves, Parts DEF Steps
  <2>2. step'[c] = "idle"
    BY <2>1, MovesPlaced, Parts
  <2>3. Own(c)'
    BY <2>2 DEF Own, Creating, Resolving, Sending
  <2> QED BY <1>1, <2>1, <2>3, QuietMove
<1> QED BY <1>3, <1>4 DEF ResolveNone

(* A command that ends with nothing done.                                  *)
LEMMA LeaveKeeps ==
    ASSUME IInv, NEW c \in Commands, Leave(c)
    PROVE  IInv'
<1>1. /\ step[c] # "report" /\ Exit(c) /\ UNCHANGED <<dir, chain, user, lapses, faults>>
  BY DEF Leave
<1>2. Moves(c, "idle", NoFile) /\ "idle" \in Steps
  BY <1>1, ExitMoves, Parts DEF Steps
<1>3. step'[c] = "idle"
  BY <1>2, MovesPlaced, Parts
<1>4. Own(c)'
  BY <1>3 DEF Own, Creating, Resolving, Sending
<1> QED BY <1>1, <1>2, <1>4, QuietMove

(* The mempool's refusal and the sight of the block are steps of the send  *)
(* alone.                                                                  *)
LEMMA LookKeeps ==
    ASSUME IInv, NEW p \in Payments, Refuse(p) \/ SeeBlock(p)
    PROVE  IInv'
<1>1. PICK next \in {"refused", "cleanup"} :
        /\ Goto(p, next) /\ UNCHANGED <<dir, lock, tx, chain, user, lapses, faults>>
        /\ step[p] = (IF next = "refused" THEN "broadcast" ELSE "wait")
        /\ next = "cleanup" => InBlock(tx[p])
  BY DEF Refuse, SeeBlock
<1>2. p \in Commands /\ next \in Steps
  BY DEF Commands, Steps
<1>3. /\ tx[p] \in Txs \cup {NoFile}
      /\ Moves(p, next, tx[p])
  BY <1>1, <1>2, GotoMoves, Parts DEF Locked
<1>4. step'[p] = next /\ tx'[p] = tx[p]
  BY <1>2, <1>3, MovesPlaced, Parts
<1>5. Sending(p)
  BY DEF IInv, AtWork
<1>6. Own(p)'
  BY <1>1, <1>4, <1>5
  DEF Own, Creating, Resolving, Sending, chain, InBlock, Excused, user
<1> QED BY <1>1, <1>2, <1>3, <1>6, QuietMove

-----------------------------------------------------------------------------
(* Creation of the wallet: the journal and the chain are not concerned.    *)
LEMMA CreateMove ==
    ASSUME IInv, NEW c \in Commands, NEW next \in Steps, NEW t \in Txs \cup {NoFile},
           Moves(c, next, t), UNCHANGED <<chain, told, abandoned, lapses>>,
           DirOK', JournalStays, Others, phrases' \subseteq Keys, handed' \subseteq Keys,
           step[c] # "report", Own(c)'
    PROVE  IInv'
<1>1. /\ Typed' /\ Ordered' /\ Remembered
      /\ OnChain' = OnChain /\ \A d \in Commands : ToldPaid(d)' <=> ToldPaid(d)
  BY Parts DEF Typed, Ordered, Admissible, Remembered, OnChain, ToldPaid, chain
<1>2. \A d \in Commands \ {c} : step'[d] = step[d] /\ tx'[d] = tx[d]
  BY MovesPlaced, Parts
<1>3. \A u : Known(u) => Known(u)'
  BY <1>2 DEF Known, JournalStays, Commands
<1>4. KnownOrJournaled' /\ OneAlive'
  <2>1. /\ Journals' \subseteq Journals
        /\ mempool' = mempool /\ paid' = paid /\ failed' = failed
    BY DEF Journals, chain, JournalStays
  <2> QED BY <1>1, <1>3, <2>1, NothingNew
<1>5. paid' = paid /\ failed' = failed
  BY DEF chain
<1> QED BY <1>1, <1>4, <1>5, OneMoves
(* A command that has ended owes nothing.                                  *)
LEMMA ExitOwes ==
    ASSUME IInv, NEW c \in Commands, Exit(c)
    PROVE  /\ Moves(c, "idle", NoFile) /\ "idle" \in Steps
           /\ step'[c] = "idle" /\ tx'[c] = NoFile
           /\ \A d \in Commands \ {c} : step'[d] = step[d] /\ tx'[d] = tx[d]
           /\ Own(c)'
<1>1. Moves(c, "idle", NoFile) /\ "idle" \in Steps
  BY ExitMoves, Parts DEF Steps
<1>2. /\ step'[c] = "idle" /\ tx'[c] = NoFile
      /\ \A d \in Commands \ {c} : step'[d] = step[d] /\ tx'[d] = tx[d]
  BY <1>1, MovesPlaced, Parts
<1>3. Own(c)'
  BY <1>2 DEF Own, Creating, Resolving, Sending
<1> QED BY <1>1, <1>2, <1>3

(* A new key is written.                                                   *)
LEMMA GenerateKeyKeeps ==
    ASSUME IInv, NEW c \in Commands, GenerateKey(c)
    PROVE  IInv'
<1>1. PICK k \in Keys, outcome \in Outcomes :
        /\ Store("key", k, outcome)
        /\ IF outcome = "stored" THEN Goto(c, "sidecar") /\ UNCHANGED <<tx, lock>> ELSE Exit(c)
  BY DEF GenerateKey
<1>2. /\ step[c] = "create" /\ UNCHANGED <<chain, user, lapses>>
      /\ phrases' \subseteq Keys /\ handed' \subseteq Keys
      /\ UNCHANGED <<chain, told, abandoned, lapses>>
  BY Parts DEF GenerateKey, user, Typed
<1>3. /\ DirOK' /\ JournalStays /\ Others
      /\ outcome = "stored" => dir'.shown["key"] = k
  BY <1>1, KeyStored, Parts
<1>4. CASE outcome = "stored"
  <2>1. Moves(c, "sidecar", tx[c]) /\ tx[c] \in Txs \cup {NoFile} /\ "sidecar" \in Steps
    BY <1>1, <1>2, <1>4, GotoMoves, Parts DEF Locked, Steps
  <2>2. step'[c] = "sidecar"
    BY <2>1, MovesPlaced, Parts
  <2>3. Own(c)'
    BY <1>3, <1>4, <2>2, FilesAssumption DEF Own, Creating, Resolving, Sending
  <2> QED BY <1>2, <1>3, <2>1, <2>3, CreateMove
<1>5. CASE outcome # "stored"
  BY <1>1, <1>2, <1>3, <1>5, ExitOwes, CreateMove
<1> QED BY <1>4, <1>5

(* The sidecar of a new key is written.                                    *)
LEMMA WriteSidecarKeeps ==
    ASSUME IInv, NEW c \in Commands, WriteSidecar(c)
    PROVE  IInv'
<1>1. PICK outcome \in Outcomes :
        /\ Store("sidecar", dir.shown["key"], outcome)
        /\ IF outcome = "stored"
           THEN Goto(c, "phrase") /\ lock' = Nobody /\ UNCHANGED tx
           ELSE Exit(c)
  BY DEF WriteSidecar
<1>2. /\ step[c] = "sidecar" /\ UNCHANGED <<chain, user, lapses>>
      /\ phrases' \subseteq Keys /\ handed' \subseteq Keys
      /\ UNCHANGED <<chain, told, abandoned, lapses>>
  BY Parts DEF WriteSidecar, user, Typed
<1>3. dir.shown["key"] \in Keys
  BY <1>2, ShownFacts, Parts DEF IInv, AtWork, Creating
<1>4. /\ DirOK' /\ JournalStays /\ Others
      /\ outcome = "stored" => dir'.shown["sidecar"] = dir.shown["key"]
  BY <1>1, <1>3, KeyStored, Parts
<1>5. CASE outcome = "stored"
  <2>1. /\ tx[c] \in Txs \cup {NoFile} /\ tx' = [tx EXCEPT ![c] = tx[c]] /\ "phrase" \in Steps
        /\ lock = c
    BY <1>1, <1>2, <1>5, Parts DEF Placed, Locked, Steps
  <2>2. Moves(c, "phrase", tx[c])
    BY <1>1, <1>5, <2>1 DEF Moves, Goto, Locked
  <2>3. step'[c] = "phrase"
    BY <2>1, <2>2, MovesPlaced, Parts
  <2>4. Own(c)'
    BY <1>3, <1>4, <1>5, <2>3, FilesAssumption DEF Own, Creating, Resolving, Sending
  <2> QED BY <1>2, <1>4, <2>1, <2>2, <2>4, CreateMove
<1>6. CASE outcome # "stored"
  BY <1>1, <1>2, <1>4, <1>6, ExitOwes, CreateMove
<1> QED BY <1>5, <1>6

(* A missing sidecar is written anew.                                      *)
LEMMA RepairKeeps ==
    ASSUME IInv, NEW c \in Commands, Repair(c)
    PROVE  IInv'
<1>1. PICK outcome \in Outcomes :
        /\ Store("sidecar", dir.shown["key"], outcome)
        /\ IF outcome = "stored" THEN Hand(dir.shown["key"]) ELSE UNCHANGED user
  BY DEF Repair
<1>2. step[c] = "create" /\ Exit(c) /\ UNCHANGED <<chain, lapses>>
  BY DEF Repair
<1>3. dir.shown["key"] \in Keys
  BY ShownFacts, Parts DEF Repair
<1>4. DirOK' /\ JournalStays /\ Others
  BY <1>1, <1>3, KeyStored, Parts
<1>5. /\ phrases' \subseteq Keys /\ handed' \subseteq Keys
      /\ UNCHANGED <<chain, told, abandoned, lapses>>
  BY <1>1, <1>2, <1>3, Parts DEF user, Hand, Typed
<1> QED BY <1>2, <1>4, <1>5, ExitOwes, CreateMove

(* Addresses that are only handed out.                                     *)
LEMMA HandKeeps ==
    ASSUME IInv, NEW c \in Commands, ShowPhrase(c) \/ Reuse(c)
    PROVE  IInv'
<1>1. dir.shown["sidecar"] \in Keys
  BY ShownFacts, Parts DEF IInv, AtWork, Creating, ShowPhrase, Reuse
<1>2. /\ step[c] # "report" /\ Exit(c)
      /\ phrases' \subseteq Keys /\ handed' \subseteq Keys
      /\ UNCHANGED <<chain, told, abandoned, lapses>> /\ UNCHANGED <<dir, faults>>
  BY <1>1, Parts DEF ShowPhrase, Reuse, Hand, Typed
<1>3. DirOK' /\ JournalStays /\ Others
  BY <1>2, Parts DEF DirOK, Named, Journals, JournalStays, Others
<1> QED BY <1>2, <1>3, ExitOwes, CreateMove

(* An address is read.                                                     *)
LEMMA ReadAddressKeeps ==
    ASSUME IInv, ReadAddress
    PROVE  IInv'
<1>1. dir.shown["sidecar"] \in Keys
  BY ShownFacts, Parts DEF ReadAddress
<1> QED BY <1>1 DEF ReadAddress, Hand, chain, IInv, TypeOK, Named, Journals, Ordered, Admissible,
                    AtWork, Creating, Resolving, Sending, ToldPaid, InBlock, Excused,
                    KnownOrJournaled, Known, OneAlive, Journal

-----------------------------------------------------------------------------
(* The outcome is told, and the journal goes.                              *)

(* A settled journal is told.                                              *)
LEMMA ResolveSettledKeeps ==
    ASSUME IInv, NEW c \in Commands, ResolveSettled(c)
    PROVE  IInv'
<1>1. /\ step[c] = "resolve" /\ Journal # NoFile /\ InBlock(Journal) /\ Tell(Journal)
      /\ UNCHANGED <<dir, lock, tx, chain, lapses, faults>> /\ Goto(c, "clear")
  BY DEF ResolveSettled
<1>2. lock = c /\ Journal \in Txs
  BY <1>1, ShownFacts, Parts DEF Placed, Locked
<1>3. /\ Moves(c, "clear", tx[c]) /\ tx[c] \in Txs \cup {NoFile} /\ "clear" \in Steps
  BY <1>1, GotoMoves, Parts DEF Locked, Steps
<1>4. /\ step'[c] = "clear"
      /\ \A d \in Commands \ {c} : step'[d] = step[d] /\ tx'[d] = tx[d]
  BY <1>3, MovesPlaced, Parts
<1>5. /\ DirOK' /\ Typed' /\ Ordered' /\ Others /\ Remembered
      /\ OnChain' = OnChain
  BY <1>1, <1>2, Parts DEF Tell, DirOK, Named, Journals, Typed, Ordered, Admissible, Others,
                           Remembered, OnChain, chain, InBlock
<1>6. \A u : Known(u) => Known(u)'
  BY <1>1, <1>4 DEF Known, Tell, Commands
<1>7. /\ Journals' = Journals /\ mempool' = mempool /\ paid' = paid /\ failed' = failed
  BY <1>1 DEF Journals, chain
<1>8. KnownOrJournaled' /\ OneAlive'
  BY <1>5, <1>6, <1>7, NothingNew
<1>9. Own(c)'
  BY <1>1, <1>4 DEF Own, Creating, Resolving, Sending, Tell, Journal
<1> QED BY <1>2, <1>3, <1>5, <1>7, <1>8, <1>9, WalletAssumption, OneMoves

(* A send reports its transfer.                                            *)
LEMMA ReportKeeps ==
    ASSUME IInv, NEW p \in Payments, Report(p)
    PROVE  IInv'
<1>1. /\ step[p] = "report" /\ Tell(tx[p]) /\ Exit(p)
      /\ UNCHANGED <<dir, chain, lapses, faults>> /\ p \in Commands
  BY DEF Report, Commands
<1>2. tx[p] \in Txs /\ tx[p].to = p /\ InBlock(tx[p])
  BY <1>1 DEF IInv, AtWork, Sending
<1>3. /\ Moves(p, "idle", NoFile) /\ "idle" \in Steps /\ Own(p)'
      /\ \A d \in Commands \ {p} : step'[d] = step[d] /\ tx'[d] = tx[d]
  BY <1>1, ExitOwes
<1>4. /\ DirOK' /\ Typed' /\ Ordered' /\ Others /\ Remembered /\ JournalStays
      /\ OnChain' = OnChain
  BY <1>1, <1>2, Parts DEF Tell, DirOK, Named, Journals, Typed, Ordered, Admissible, Others,
                           Remembered, OnChain, chain, InBlock, JournalStays
<1>5. \A u : Known(u) => Known(u)'
  BY <1>1, <1>3 DEF Known, Tell, Commands
<1>6. /\ Journals' = Journals /\ mempool' = mempool /\ paid' = paid /\ failed' = failed
  BY <1>1 DEF Journals, chain
<1>7. KnownOrJournaled' /\ OneAlive'
  BY <1>4, <1>5, <1>6, NothingNew
<1>8. \A d \in Commands \ {p} : ToldPaid(d)' => ToldPaid(d)
  BY <1>1, <1>2, <1>6 DEF ToldPaid, Tell
<1> QED BY <1>1, <1>3, <1>4, <1>6, <1>7, <1>8, OneMoves

(* A removal of the journal by a command that is at work on it.            *)
LEMMA RemoveMove ==
    ASSUME IInv, NEW c \in Commands, NEW next \in Steps, NEW t \in Txs \cup {NoFile},
           Moves(c, next, t), RemoveJournal, UNCHANGED <<chain, user, lapses>>,
           lock \in {c, Nobody}, step[c] # "report", Own(c)',
           \A u \in OnChain : dir.left["journal"] = {u} => Known(u)'
    PROVE  IInv'
<1>1. /\ DirOK' /\ Others /\ Journals' \subseteq Journals
  BY JournalRemoved, Parts
<1>2. /\ Typed' /\ Ordered' /\ Remembered /\ OnChain' = OnChain
      /\ mempool' = mempool /\ paid' = paid /\ failed' = failed
  BY Parts DEF Typed, Ordered, Admissible, Remembered, OnChain, chain, user
<1>3. \A d \in Commands \ {c} : step'[d] = step[d] /\ tx'[d] = tx[d]
  BY MovesPlaced, Parts
<1>4. ASSUME NEW u \in OnChain, Known(u)
      PROVE  Known(u)'
  <2>1. ASSUME NEW p \in Payments, step[p] = "report", tx[p] = u
        PROVE  Known(u)'
    BY <1>3, <2>1 DEF Known, Commands
  <2> QED BY <1>2, <1>4, <2>1, KnownStays
<1>5. KnownOrJournaled' /\ OneAlive'
  BY <1>1, <1>2, <1>4, NothingNew
<1>6. \A d \in Commands \ {c} : lock # d
  BY WalletAssumption
<1> QED BY <1>1, <1>2, <1>5, <1>6, OneMoves

(* A settled or refused journal is removed.                                *)
LEMMA ClearKeeps ==
    ASSUME IInv, NEW c \in Commands, ClearSettled(c) \/ (c \in Payments /\ ClearRefused(c))
    PROVE  IInv'
<1>1. /\ step[c] \in {"clear", "refused"}
      /\ step[c] = "refused" => c \in Payments
      /\ RemoveJournal /\ Exit(c) /\ UNCHANGED <<chain, user, lapses>>
  BY DEF ClearSettled, ClearRefused
<1>2. lock = c
  BY <1>1, Parts DEF Placed, Locked
<1>3. ASSUME NEW u \in OnChain, dir.left["journal"] = {u}
      PROVE  u \in told \cup abandoned \cup lapses
  <2>1. Journal = u
    BY <1>3, ShownFacts, Parts
  <2>2. CASE step[c] = "clear"
    BY <2>1, <2>2 DEF IInv, AtWork, Resolving
  <2>3. CASE step[c] = "refused"
    <3>1. Sending(c)
      BY <1>1, <2>3 DEF IInv, AtWork
    <3> QED BY <1>3, <2>3, <3>1 DEF Sending, Excused, OnChain
  <2> QED BY <1>1, <2>2, <2>3
<1>4. \A u \in OnChain : dir.left["journal"] = {u} => Known(u)'
  BY <1>1, <1>3 DEF Known, user
<1> QED BY <1>1, <1>2, <1>4, ExitOwes, RemoveMove

(* A send removes its own journal.                                         *)
LEMMA CleanupKeeps ==
    ASSUME IInv, NEW p \in Payments, Cleanup(p)
    PROVE  IInv'
<1>1. /\ step[p] = "cleanup" /\ Goto(p, "report") /\ p \in Commands
      /\ UNCHANGED <<lock, tx, chain, user, lapses>>
  BY DEF Cleanup, Commands
<1>2. Moves(p, "report", tx[p]) /\ tx[p] \in Txs \cup {NoFile} /\ "report" \in Steps
  BY <1>1, GotoMoves, Parts DEF Locked, Steps
<1>3. step'[p] = "report" /\ tx'[p] = tx[p]
  BY <1>1, <1>2, MovesPlaced, Parts
<1>4. Sending(p)
  BY DEF IInv, AtWork
<1>5. Own(p)'
  BY <1>1, <1>3, <1>4 DEF Own, Creating, Resolving, Sending, chain, InBlock
<1>6. CASE lock = Nobody /\ Journal = tx[p]
  <2>1. \A u \in OnChain : dir.left["journal"] = {u} => u = tx[p]
    BY <1>6, ShownFacts, Parts
  <2>2. \A u \in OnChain : dir.left["journal"] = {u} => Known(u)'
    BY <1>3, <2>1 DEF Known
  <2>3. RemoveJournal
    BY <1>6 DEF Cleanup
  <2> QED BY <1>1, <1>2, <1>5, <1>6, <2>2, <2>3, RemoveMove
<1>7. CASE ~(lock = Nobody /\ Journal = tx[p])
  <2>1. UNCHANGED <<dir, chain, user, lapses, faults>>
    BY <1>1, <1>7 DEF Cleanup
  <2> QED BY <1>1, <1>2, <1>5, <2>1, QuietMove
<1> QED BY <1>6, <1>7

(* The user gives a journal up.                                            *)
LEMMA AbandonKeeps ==
    ASSUME IInv, Abandon
    PROVE  IInv'
<1>1. /\ lock = Nobody /\ Journal # NoFile /\ abandoned' = abandoned \cup {Journal}
      /\ RemoveJournal /\ UNCHANGED <<lock, step, tx, chain, told, phrases, handed, lapses>>
  BY DEF Abandon
<1>2. Journal \in Txs
  BY <1>1, ShownFacts, Parts
<1>3. /\ DirOK' /\ Others /\ Journals' \subseteq Journals
  BY <1>1, JournalRemoved, Parts
<1>4. /\ Placed' /\ Typed' /\ Ordered' /\ Remembered /\ OnChain' = OnChain
      /\ mempool' = mempool /\ paid' = paid /\ failed' = failed
  BY <1>1, <1>2, Parts DEF Placed, Typed, Ordered, Admissible, Remembered, OnChain, chain
<1>5. ASSUME NEW u \in OnChain, Known(u)
      PROVE  Known(u)'
  <2>1. dir.left["journal"] = {u} => u = Journal
    BY ShownFacts, Parts
  <2> QED BY <1>1, <1>5, <2>1 DEF Known
<1>6. KnownOrJournaled' /\ OneAlive'
  BY <1>3, <1>4, <1>5, NothingNew
<1>7. \A d \in Commands : lock # d /\ step'[d] = step[d] /\ tx'[d] = tx[d]
  BY <1>1, WalletAssumption
<1>8. AtWork'
  <2>1. ASSUME NEW d \in Commands
        PROVE  Own(d)'
    BY <1>3, <1>4, <1>7, OtherAtWork DEF Own
  <2> QED BY <2>1 DEF AtWork, Own, Commands
<1> QED BY <1>3, <1>4, <1>6, <1>8 DEF IInv, TypeOK, Placed, DirOK, Typed

-----------------------------------------------------------------------------
(* A transfer reaches the chain.                                           *)

(* The command that holds the lock brings the journaled transfer j to the  *)
(* mempool; if the journal is not on disk, j is a lapse.                   *)
LEMMA AdmitMove ==
    ASSUME IInv, NEW c \in Commands, NEW next \in Steps, NEW t \in Txs \cup {NoFile},
           Moves(c, next, t), lock = c, step[c] # "report", Own(c)',
           NEW j \in Txs, j \in Journals, Admissible(j), Admit(j),
           UNCHANGED <<dir, user, faults>>, lapses \subseteq lapses', lapses' \subseteq Txs,
           dir.left["journal"] = {j} \/ j \in lapses'
    PROVE  IInv'
<1>1. /\ DirOK' /\ Others /\ Remembered /\ Journals' = Journals
      /\ Typed' /\ Ordered'
  BY Parts DEF DirOK, Named, Journals, Others, Remembered, Typed, Ordered, Admissible, Admit, user
<1>2. \A d \in Commands \ {c} : step'[d] = step[d] /\ tx'[d] = tx[d]
  BY MovesPlaced, Parts
<1>3. KnownOrJournaled'
  <2>1. \A u : Known(u) => Known(u)'
    BY <1>2, <1>1 DEF Known, Commands, Remembered
  <2>2. Known(j)'
    BY DEF Known
  <2> QED BY <2>1, <2>2 DEF IInv, KnownOrJournaled, Admit
<1>4. OneAlive'
  <2> SUFFICES ASSUME NEW v \in mempool' \cup paid' \cup Journals', NEW u \in mempool' \cup paid',
                      v.to = u.to, v # u
               PROVE  Excused(v)' \/ Excused(u)'
    BY DEF OneAlive
  <2>1. \A w : Excused(w) => Excused(w)'
    BY <1>1 DEF Excused, Remembered
  <2>2. CASE u # j
    <3>1. u \in mempool \cup paid /\ v \in mempool \cup paid \cup Journals
      BY <1>1, <2>2 DEF Admit
    <3> QED BY <2>1, <3>1 DEF IInv, OneAlive
  <2>3. CASE u = j /\ v \in mempool \cup paid
    BY <2>1, <2>3 DEF IInv, OneAlive
  <2>4. CASE u = j /\ v \notin mempool \cup paid
    <3>1. v \in Journals
      BY <1>1, <2>4 DEF Admit
    <3> QED BY <2>4, <3>1 DEF Journals, Excused
  <2> QED BY <2>2, <2>3, <2>4
<1>5. paid' = paid /\ failed' = failed
  BY DEF Admit
<1> QED BY <1>1, <1>3, <1>4, <1>5, WalletAssumption, OneMoves

(* A journal is sent again.                                                *)
LEMMA ResendKeeps ==
    ASSUME IInv, NEW c \in Commands, Resend(c)
    PROVE  IInv'
<1>1. /\ step[c] = "resolve" /\ Exit(c) /\ UNCHANGED <<dir, user, faults>>
      /\ lapses' = lapses \cup (IF dir.left["journal"] = {Journal} THEN {} ELSE {Journal})
  BY DEF Resend
<1>2. Journal \in Txs /\ Journal \in Journals /\ lock = c
  BY <1>1, ShownFacts, Parts DEF Resend, Placed, Locked
<1>3. CASE Admissible(Journal) /\ Admit(Journal)
  <2>1. /\ lapses \subseteq lapses' /\ lapses' \subseteq Txs
        /\ dir.left["journal"] = {Journal} \/ Journal \in lapses'
    BY <1>1, <1>2, Parts DEF Typed
  <2> QED BY <1>1, <1>2, <1>3, <2>1, ExitOwes, AdmitMove
<1>4. CASE UNCHANGED chain
  <2>1. /\ DirOK' /\ Typed' /\ Ordered' /\ Others /\ Remembered /\ Journals' = Journals
        /\ OnChain' = OnChain /\ mempool' = mempool /\ paid' = paid /\ failed' = failed
    BY <1>1, <1>2, <1>4, Parts DEF DirOK, Named, Journals, Typed, Ordered, Admissible, Others,
                                   Remembered, OnChain, chain, user
  <2>2. \A d \in Commands \ {c} : step'[d] = step[d] /\ tx'[d] = tx[d]
    BY <1>1, ExitOwes
  <2>3. \A u : Known(u) => Known(u)'
    BY <1>1, <2>1, <2>2 DEF Known, Commands, Remembered
  <2>4. KnownOrJournaled' /\ OneAlive'
    BY <2>1, <2>3, NothingNew
  <2> QED BY <1>1, <1>2, <2>1, <2>4, ExitOwes, WalletAssumption, OneMoves
<1> QED BY <1>3, <1>4 DEF Resend

(* The two ends of a broadcast that may have reached the mempool.          *)
LEMMA BroadcastKeeps ==
    ASSUME IInv, NEW p \in Payments, LoseAnswer(p) \/ Accept(p)
    PROVE  IInv'
<1>1. /\ p \in Commands /\ step[p] = "broadcast"
      /\ UNCHANGED <<dir, user, lapses, faults>>
  BY DEF LoseAnswer, Accept, Commands
<1>2. lock = p
  BY <1>1, Parts DEF Placed, Locked
<1>3. tx[p] \in Txs /\ tx[p].to = p /\ dir.left["journal"] = {tx[p]}
  BY <1>1 DEF IInv, AtWork, Sending
<1>4. tx[p] \in Journals /\ lapses \subseteq lapses' /\ lapses' \subseteq Txs
  BY <1>1, <1>3, FilesAssumption, Parts DEF Journals, Typed
<1>5. CASE Accept(p)
  <2>1. Goto(p, "wait") /\ lock' = Nobody /\ UNCHANGED tx
    BY <1>5 DEF Accept
  <2>2. /\ "wait" \in Steps /\ Moves(p, "wait", tx[p])
    BY <1>1, <1>2, <2>1, Parts DEF Goto, Moves, Steps, Locked, Placed
  <2>3. step'[p] = "wait" /\ tx'[p] = tx[p]
    BY <1>1, <1>3, <2>2, MovesPlaced, Parts
  <2>4. Own(p)'
    BY <1>3, <2>3 DEF Own, Creating, Resolving, Sending
  <2> QED BY <1>1, <1>2, <1>3, <1>4, <1>5, <2>2, <2>4, AdmitMove DEF Accept
<1>6. CASE LoseAnswer(p) /\ UNCHANGED chain
  <2>1. Exit(p)
    BY <1>6 DEF LoseAnswer
  <2> QED BY <1>1, <1>6, <2>1, ExitOwes, QuietMove
<1>7. CASE LoseAnswer(p) /\ Admissible(tx[p]) /\ Admit(tx[p])
  <2>1. Exit(p)
    BY <1>7 DEF LoseAnswer
  <2> QED BY <1>1, <1>2, <1>3, <1>4, <1>7, <2>1, ExitOwes, AdmitMove
<1> QED BY <1>5, <1>6, <1>7 DEF LoseAnswer
(* What is on the mempool has not been told of.                            *)
LEMMA UntoldYet ==
    ASSUME IInv, NEW t \in mempool
    PROVE  t \notin paid \cup failed /\ t \notin told
<1>1. t \in Txs /\ t.seq = sequence[t.from] /\ t.seq \in Nat
  BY WalletAssumption DEF IInv, TypeOK, Ordered, Admissible, Txs
<1>2. t \notin paid \cup failed
  BY <1>1 DEF IInv, Ordered
<1> QED BY <1>2 DEF IInv, Ordered

(* When a send signs, what the chain holds for its payment is excused.     *)
LEMMA NothingOpen ==
    ASSUME IInv, NEW p \in Payments, step[p] = "sign", NEW u \in OnChain, u.to = p,
           u \in failed => u \notin told
    PROVE  Excused(u)
<1>1. Journal = NoFile /\ ~ToldPaid(p)
  BY DEF IInv, AtWork, Resolving, Commands
<1>2. u \in Txs
  BY DEF IInv, TypeOK, OnChain
<1>3. dir.left["journal"] # {u}
  BY <1>1, <1>2, ShownFacts, Parts, FilesAssumption
<1>4. u \notin told
  <2>1. CASE u \in mempool
    BY <2>1, UntoldYet
  <2>2. CASE u \in paid
    BY <1>1, <2>2 DEF ToldPaid
  <2> QED BY <2>1, <2>2 DEF OnChain
<1>5. ASSUME NEW q \in Payments, step[q] = "report", tx[q] = u
      PROVE  FALSE
  <2>1. tx[q].to = q
    BY <1>5 DEF IInv, AtWork, Sending
  <2> QED BY <1>5, <2>1
<1>6. Known(u)
  BY DEF IInv, KnownOrJournaled, OnChain
<1> QED BY <1>3, <1>4, <1>5, <1>6 DEF Known, Excused

(* A new transfer is signed and journaled.                                 *)
LEMMA SignKeeps ==
    ASSUME IInv, NEW p \in Payments, Sign(p)
    PROVE  IInv'
<1> DEFINE s == Signed(p)
<1>1. PICK outcome \in Outcomes :
        /\ Store("journal", s, outcome)
        /\ IF outcome = "stored"
           THEN Goto(p, "broadcast") /\ tx' = [tx EXCEPT ![p] = s] /\ UNCHANGED lock
           ELSE Exit(p)
  BY DEF Sign
<1>2. /\ step[p] = "sign" /\ p \in Commands
      /\ UNCHANGED <<chain, user, lapses>>
  BY DEF Sign, Commands
<1>3. lock = p /\ Journal = NoFile
  BY <1>2, Parts DEF Placed, Locked, IInv, AtWork, Resolving
<1>4. s \in Txs /\ s.to = p /\ s.seq = sequence[s.from]
  <2>1. dir.shown["key"] \in Keys /\ dir.shown["sidecar"] \in Keys
    BY ShownFacts, Parts DEF Sign
  <2>2. sequence[dir.shown["sidecar"]] \in 0 .. MaxSequence
    BY <2>1, Parts, WalletAssumption DEF Sign, Typed
  <2> QED BY <2>1, <2>2 DEF Signed, Txs
<1> HIDE DEF s
<1>5. /\ DirOK' /\ Others /\ Journals' \subseteq Journals \cup {s}
      /\ outcome = "stored" => dir'.left["journal"] = {s}
  BY <1>1, <1>4, JournalStored, Parts
<1>6. /\ Typed' /\ Ordered' /\ Remembered /\ OnChain' = OnChain
      /\ mempool' = mempool /\ paid' = paid /\ failed' = failed
      /\ told' = told /\ abandoned' = abandoned /\ lapses' = lapses
  BY <1>2, Parts DEF Typed, Ordered, Admissible, Remembered, OnChain, chain, user
<1>7. /\ \A d \in Commands \ {p} : step'[d] = step[d] /\ tx'[d] = tx[d]
      /\ \E next \in Steps, t \in Txs \cup {NoFile} : Moves(p, next, t)
      /\ outcome = "stored" => /\ Moves(p, "broadcast", s) /\ "broadcast" \in Steps
                               /\ step'[p] = "broadcast" /\ tx'[p] = s
  <2>1. CASE outcome = "stored"
    <3>1. Moves(p, "broadcast", s) /\ "broadcast" \in Steps
      BY <1>1, <1>3, <2>1 DEF Moves, Goto, Locked, Steps
    <3> QED BY <1>2, <1>4, <3>1, MovesPlaced, Parts
  <2>2. CASE outcome # "stored"
    <3>1. Exit(p)
      BY <1>1, <2>2
    <3> QED BY <1>2, <2>2, <3>1, ExitOwes
  <2> QED BY <2>1, <2>2
<1>8. KnownOrJournaled'
  <2> SUFFICES ASSUME NEW u \in OnChain
               PROVE  Known(u)'
    BY <1>6 DEF KnownOrJournaled, OnChain
  <2>1. Known(u) /\ u \in Txs
    BY DEF IInv, KnownOrJournaled, OnChain, TypeOK
  <2>2. dir.left["journal"] # {u}
    BY <1>3, <2>1, ShownFacts, Parts, FilesAssumption
  <2>3. \A q \in Payments : step[q] = "report" /\ tx[q] = u => q \in Commands \ {p}
    BY <1>2 DEF Commands
  <2> QED BY <1>6, <1>7, <2>1, <2>2, <2>3 DEF Known
<1>9. OneAlive'
  <2> SUFFICES ASSUME NEW v \in mempool \cup paid \cup Journals', NEW u \in mempool \cup paid,
                      v.to = u.to, v # u
               PROVE  Excused(v) \/ Excused(u)
    BY <1>6 DEF OneAlive, Excused
  <2>1. CASE v \in mempool \cup paid \cup Journals
    BY <2>1 DEF IInv, OneAlive
  <2>2. CASE v = s
    <3>1. u \in OnChain /\ u.to = p
      BY <1>4, <2>2 DEF OnChain
    <3>2. u \notin told
      <4>1. CASE u \in mempool
        BY <4>1, UntoldYet
      <4>2. CASE u \in paid
        BY <1>2, <3>1, <4>2 DEF IInv, AtWork, Resolving, ToldPaid
      <4> QED BY <4>1, <4>2
    <3> QED BY <1>2, <3>1, <3>2, NothingOpen
  <2> QED BY <1>5, <2>1, <2>2
<1>10. CASE outcome = "stored"
  <2>1. s \notin paid \cup failed /\ s \notin told
    <3>1. s.seq \in Nat
      BY <1>4, WalletAssumption DEF Txs
    <3> QED BY <1>4, <3>1 DEF IInv, Ordered
  <2>2. s \in OnChain => Excused(s)
    BY <1>2, <1>4, <2>1, NothingOpen
  <2>3. Own(p)'
    BY <1>4, <1>5, <1>6, <1>7, <1>10, <2>2
    DEF Own, Creating, Resolving, Sending, OnChain, Excused
  <2> QED BY <1>2, <1>3, <1>4, <1>5, <1>6, <1>7, <1>8, <1>9, <1>10, <2>3, WalletAssumption, OneMoves
<1>11. CASE outcome # "stored"
  <2>1. Exit(p)
    BY <1>1, <1>11
  <2> QED BY <1>2, <1>3, <1>5, <1>6, <1>8, <1>9, <2>1, ExitOwes, WalletAssumption, OneMoves
<1> QED BY <1>10, <1>11

-----------------------------------------------------------------------------
(* Steps of the chain.                                                     *)
LEMMA ChainMove ==
    ASSUME IInv, UNCHANGED <<dir, lock, step, tx, user, lapses, faults>>,
           Typed', Ordered', OnChain' \subseteq OnChain,
           mempool' \cup paid' \subseteq mempool \cup paid,
           paid \subseteq paid', failed \subseteq failed',
           paid' \subseteq paid \cup mempool
    PROVE  IInv'
<1>1. /\ Placed' /\ DirOK' /\ Others /\ Remembered /\ JournalStays /\ Journals' = Journals
  BY Parts DEF Placed, DirOK, Named, Journals, Others, Remembered, JournalStays, user
<1>2. \A t : Known(t) => Known(t)'
  BY DEF Known, user
<1>3. KnownOrJournaled' /\ OneAlive'
  BY <1>1, <1>2, NothingNew
<1>4. \A d : ToldPaid(d)' => ToldPaid(d)
  BY UntoldYet DEF ToldPaid, user
<1>5. ASSUME NEW d \in Commands
      PROVE  Own(d)'
  BY <1>1, <1>4, OtherAtWork DEF Own
<1>6. AtWork'
  BY <1>5 DEF AtWork, Own, Commands
<1> QED BY <1>1, <1>3, <1>6 DEF IInv, TypeOK, Placed, DirOK, Typed

(* A block executes a transfer.                                            *)
LEMMA CommitKeeps ==
    ASSUME IInv, NEW t \in mempool, Commit(t)
    PROVE  IInv'
<1>1. /\ t \in Txs /\ t.from \in Keys /\ t.seq \in 0 .. MaxSequence /\ t.seq = sequence[t.from]
      /\ sequence' = [sequence EXCEPT ![t.from] = @ + 1]
      /\ mempool' = {u \in mempool : u.from # t.from}
      /\ \/ paid' = paid \cup {t} /\ failed' = failed
         \/ failed' = failed \cup {t} /\ paid' = paid
      /\ UNCHANGED <<dir, lock, step, tx, user, lapses, faults>>
  BY Parts DEF Commit, Admissible, Typed, Txs
<1>2. /\ sequence' \in [Keys -> 0 .. MaxSequence + 1]
      /\ sequence'[t.from] = sequence[t.from] + 1
      /\ \A k \in Keys \ {t.from} : sequence'[k] = sequence[k]
  BY <1>1, Parts, WalletAssumption DEF Typed
<1>3. Typed'
  BY <1>1, <1>2, Parts DEF Typed, user
<1>4. Ordered'
  <2>1. \A u \in mempool' : Admissible(u)'
    <3> SUFFICES ASSUME NEW u \in mempool'
                 PROVE  Admissible(u)'
      OBVIOUS
    <3>1. u \in mempool /\ u \in Txs /\ u.from \in Keys \ {t.from}
      BY <1>1, Parts DEF Typed, Txs
    <3> QED BY <1>2, <3>1 DEF IInv, Ordered, Admissible
  <2>2. ASSUME NEW u \in paid' \cup failed'
        PROVE  u.seq < sequence'[u.from]
    <3>1. u \in paid \cup failed \cup {t}
      BY <1>1
    <3>2. u \in Txs /\ u.from \in Keys /\ u.seq \in Nat /\ sequence[u.from] \in Nat
      BY <1>1, <3>1, Parts, WalletAssumption DEF Typed, Txs
    <3>3. u.seq < sequence[u.from] \/ u = t
      BY <3>1 DEF IInv, Ordered
    <3> QED BY <1>1, <1>2, <3>2, <3>3
  <2>3. told' \subseteq paid' \cup failed'
    BY <1>1 DEF IInv, Ordered, user
  <2> QED BY <2>1, <2>2, <2>3 DEF Ordered
<1> QED BY <1>1, <1>3, <1>4, ChainMove DEF OnChain

(* The mempool drops a transfer.                                           *)
LEMMA EvictKeeps ==
    ASSUME IInv, NEW t \in mempool, Evict(t)
    PROVE  IInv'
<1>1. /\ mempool' = mempool \ {t} /\ UNCHANGED <<sequence, paid, failed>>
      /\ UNCHANGED <<dir, lock, step, tx, user, lapses, faults>>
  BY DEF Evict
<1>2. Typed' /\ Ordered'
  BY <1>1, Parts DEF Typed, Ordered, Admissible, user
<1> QED BY <1>1, <1>2, ChainMove DEF OnChain

-----------------------------------------------------------------------------
(* Kills and losses of power.                                              *)

(* Whoever was about to report a transfer leaves it journaled, told or     *)
(* among the lapses.                                                       *)
LEMMA StoppedReports ==
    ASSUME IInv, NEW stopped \in SUBSET Commands, lapses' = lapses \cup Unreported(stopped),
           UNCHANGED user
    PROVE  /\ lapses \subseteq lapses' /\ lapses' \subseteq Txs
           /\ \A u, p : p \in Payments \cap stopped /\ step[p] = "report" /\ tx[p] = u
                => Known(u)'
<1>1. \A p \in Payments : step[p] = "report" => tx[p] \in Txs
  BY DEF IInv, AtWork, Sending
<1>2. lapses' \subseteq Txs
  BY <1>1, Parts DEF Unreported, Typed
<1>3. ASSUME NEW u, NEW p \in Payments \cap stopped, step[p] = "report", tx[p] = u
      PROVE  Known(u)'
  <2>1. dir'.left["journal"] = {u} \/ u \in told \/ u \in lapses'
    BY <1>3 DEF Unreported
  <2> QED BY <2>1 DEF Known, user
<1> QED BY <1>2, <1>3

(* A command is killed.                                                    *)
LEMMA KillKeeps ==
    ASSUME IInv, NEW c \in Commands, Kill(c)
    PROVE  IInv'
<1>1. /\ Exit(c) /\ UNCHANGED <<dir, chain, user, faults>>
      /\ lapses' = lapses \cup Unreported({c})
  BY DEF Kill
<1>2. /\ lapses \subseteq lapses' /\ lapses' \subseteq Txs
      /\ \A u, p : p \in Payments \cap {c} /\ step[p] = "report" /\ tx[p] = u
           => Known(u)'
  <2>1. {c} \in SUBSET Commands
    OBVIOUS
  <2> QED BY <1>1, <2>1, StoppedReports
<1>3. /\ DirOK' /\ Typed' /\ Ordered' /\ Others /\ Remembered /\ JournalStays
      /\ Journals' = Journals /\ OnChain' = OnChain
      /\ mempool' = mempool /\ paid' = paid /\ failed' = failed
      /\ \A d \in Commands : ToldPaid(d)' <=> ToldPaid(d)
  BY <1>1, <1>2, Parts DEF DirOK, Named, Journals, Typed, Ordered, Admissible, Others, Remembered,
                           JournalStays, OnChain, ToldPaid, chain, user
<1>4. \A d \in Commands \ {c} : step'[d] = step[d] /\ tx'[d] = tx[d]
  BY <1>1, ExitOwes
<1>5. ASSUME NEW u \in OnChain, Known(u)
      PROVE  Known(u)'
  <2>1. dir.left["journal"] = {u} => Known(u)'
    BY <1>1 DEF Known
  <2>2. ASSUME NEW p \in Payments, step[p] = "report", tx[p] = u
        PROVE  Known(u)'
    <3>1. CASE p = c
      BY <1>2, <2>2, <3>1
    <3>2. CASE p # c
      BY <1>4, <2>2, <3>2 DEF Known, Commands
    <3> QED BY <3>1, <3>2
  <2> QED BY <1>3, <1>5, <2>1, <2>2, KnownStays
<1>6. KnownOrJournaled' /\ OneAlive'
  BY <1>3, <1>5, NothingNew
<1> QED BY <1>1, <1>3, <1>6, ExitOwes, OneMoves

(* The power fails.                                                        *)
LEMMA PowerLossKeeps ==
    ASSUME IInv, PowerLoss
    PROVE  IInv'
<1>1. /\ dir' \in AfterPowerLoss(dir) /\ UNCHANGED <<chain, user, faults>>
      /\ lapses' = lapses \cup Unreported(Commands)
      /\ step' = [c \in Commands |-> "idle"] /\ tx' = [c \in Commands |-> NoFile]
      /\ lock' = Nobody
  BY DEF PowerLoss
<1>2. /\ DirOK' /\ Journals' \subseteq Journals
      /\ \A t : dir.left["journal"] = {t} => dir'.left["journal"] = {t}
  BY <1>1, PowerLossLeaves, Parts
<1>3. /\ lapses \subseteq lapses' /\ lapses' \subseteq Txs
      /\ \A u, p : p \in Payments \cap Commands /\ step[p] = "report" /\ tx[p] = u
           => Known(u)'
  <2>1. Commands \in SUBSET Commands
    OBVIOUS
  <2> QED BY <1>1, <2>1, StoppedReports
<1>4. /\ Typed' /\ Ordered' /\ Remembered /\ OnChain' = OnChain
      /\ mempool' = mempool /\ paid' = paid /\ failed' = failed
  BY <1>1, <1>3, Parts DEF Typed, Ordered, Admissible, Remembered, OnChain, chain, user
<1>5. Placed'
  BY <1>1, WalletAssumption DEF Placed, Steps, Locked
<1>6. ASSUME NEW u \in OnChain, Known(u)
      PROVE  Known(u)'
  <2>1. dir.left["journal"] = {u} => Known(u)'
    BY <1>2 DEF Known
  <2>2. \A p \in Payments : step[p] = "report" /\ tx[p] = u => Known(u)'
    BY <1>3 DEF Commands
  <2> QED BY <1>4, <1>6, <2>1, <2>2, KnownStays
<1>7. KnownOrJournaled' /\ OneAlive'
  BY <1>2, <1>4, <1>6, NothingNew
<1>8. AtWork'
  BY <1>1 DEF AtWork, Creating, Resolving, Sending, Commands
<1> QED BY <1>2, <1>4, <1>5, <1>7, <1>8 DEF IInv, TypeOK, Placed, DirOK, Typed

-----------------------------------------------------------------------------
(* The theorems.                                                           *)

(* An empty directory, nobody at work and nothing on the chain.            *)
LEMMA InitKeeps == Init => IInv
<1> SUFFICES ASSUME Init
             PROVE  IInv
  OBVIOUS
<1> DEFINE none == [n \in Files |-> NoFile]
<1>1. none \in [Files -> (Keys \cup Txs) \cup {NoFile}]
  OBVIOUS
<1>2. /\ dir \in Directories(Files, Keys \cup Txs)
      /\ dir.shown = none
      /\ \A n \in Files : dir.left[n] = {NoFile}
  BY <1>1, SettledFacts DEF Init
<1>3. DirOK
  <2>1. Coherent(dir)
    BY <1>2 DEF Coherent
  <2> QED BY <1>2, <2>1, WalletAssumption DEF DirOK, Named, Journals, Init, Files
<1>4. Placed
  BY WalletAssumption DEF Init, Placed, Steps, Locked
<1>5. Typed /\ Ordered
  BY WalletAssumption DEF Init, Typed, Ordered
<1>6. AtWork
  BY DEF Init, AtWork, Creating, Resolving, Sending, Commands
<1>7. KnownOrJournaled /\ OneAlive
  BY DEF Init, KnownOrJournaled, OneAlive
<1> QED BY <1>3, <1>4, <1>5, <1>6, <1>7, Parts

(* A step that changes nothing.                                            *)
LEMMA StutterKeeps ==
    ASSUME IInv, UNCHANGED vars
    PROVE  IInv'
<1>1. /\ UNCHANGED <<dir, lock, step, tx, sequence, mempool, paid, failed>>
      /\ UNCHANGED <<told, abandoned, phrases, handed, lapses, faults>>
  BY DEF vars, chain, user
<1>2. Placed' /\ DirOK' /\ Typed' /\ Ordered'
  BY <1>1, Parts DEF Placed, DirOK, Named, Journals, Typed, Ordered, Admissible
<1>3. AtWork'
  BY <1>1 DEF IInv, AtWork, Creating, Resolving, Sending, Journal, ToldPaid, Excused, InBlock
<1>4. KnownOrJournaled' /\ OneAlive'
  BY <1>1 DEF IInv, KnownOrJournaled, Known, OneAlive, Excused, Journals
<1> QED BY <1>2, <1>3, <1>4 DEF IInv, TypeOK, Placed, DirOK, Typed

(* Every step keeps the invariant.                                         *)
LEMMA NextKeeps == IInv /\ [Next]_vars => IInv'
<1> SUFFICES ASSUME IInv, [Next]_vars
             PROVE  IInv'
  OBVIOUS
<1> USE DEF Commands
<1>1. ASSUME NEW c \in Commands,
             StartInit(c) \/ GenerateKey(c) \/ WriteSidecar(c) \/ ShowPhrase(c) \/ Reuse(c)
             \/ Repair(c)
      PROVE  IInv'
  BY <1>1, StartKeeps, GenerateKeyKeeps, WriteSidecarKeeps, HandKeeps, RepairKeeps
<1>2. ASSUME NEW c \in Commands,
             StartBalance(c) \/ ResolveNone(c) \/ ResolveSettled(c) \/ ClearSettled(c)
             \/ Resend(c) \/ Leave(c) \/ Kill(c)
      PROVE  IInv'
  BY <1>2, StartKeeps, ResolveNoneKeeps, ResolveSettledKeeps, ClearKeeps, ResendKeeps,
     LeaveKeeps, KillKeeps
<1>3. ASSUME NEW p \in Payments,
             StartSend(p) \/ Sign(p) \/ LoseAnswer(p) \/ Accept(p) \/ Refuse(p)
             \/ ClearRefused(p) \/ SeeBlock(p) \/ Cleanup(p) \/ Report(p)
      PROVE  IInv'
  BY <1>3, StartKeeps, SignKeeps, BroadcastKeeps, LookKeeps, ClearKeeps, CleanupKeeps, ReportKeeps
<1>4. ASSUME NEW t \in mempool, Commit(t) \/ Evict(t)
      PROVE  IInv'
  BY <1>4, CommitKeeps, EvictKeeps
<1>5. CASE ReadAddress \/ Abandon \/ PowerLoss
  BY <1>5, ReadAddressKeeps, AbandonKeeps, PowerLossKeeps
<1>6. CASE UNCHANGED vars
  BY <1>6, StutterKeeps
<1> QED BY <1>1, <1>2, <1>3, <1>4, <1>5, <1>6 DEF Next

(* Files, chain, user and commands owe each other what IInv says in every  *)
(* reachable state, for any payments, commands, keys and bounds            *)
(* (wallet.go, wallet_journal.go, wallet_store.go).                        *)
THEOREM WalletIsInductive == Spec => []IInv
<1> QED BY InitKeeps, NextKeeps, PTL DEF Spec

(* The state stays within its types, and wallet.lock has the one holder    *)
(* that is at a step which needs it (wallet_store.go, lockWalletDir).      *)
THEOREM WalletTyped == Spec => []TypeOK
<1>1. IInv => TypeOK
  BY DEF IInv
<1> QED BY <1>1, WalletIsInductive, PTL

(* What the chain has or may still execute is told, journaled or about to  *)
(* be reported, save what the user abandoned and the two lapses            *)
(* (wallet.go, walletSend; wallet_journal.go, resolvePendingTxLocked).     *)
THEOREM NothingForgotten == Spec => []KnownOrJournaled
<1>1. IInv => KnownOrJournaled
  BY DEF IInv
<1> QED BY <1>1, WalletIsInductive, PTL

(* A payment repeated until its outcome is told is made once, with the     *)
(* same exceptions (wallet_journal.go, pendingTx).                         *)
THEOREM PaymentsOnce == Spec => []PaidOnce
<1>1. IInv => PaidOnce
  BY DEF IInv, OneAlive, PaidOnce, Excused
<1> QED BY <1>1, WalletIsInductive, PTL

-----------------------------------------------------------------------------
(* The keys.                                                               *)

\* What a loss of power may leave of the key and the sidecar only shrinks.
KeysSettle == \A n \in {"key", "sidecar"} : dir'.left[n] \subseteq dir.left[n]

\* An address that is handed out has its key on disk or its phrase shown.
HandsOut == /\ phrases \subseteq phrases'
            /\ \A k \in handed' \ handed : k \in phrases' \/ dir'.left["key"] = {k}

(* Each file is among what a loss of power may leave of it.                *)
LEMMA KeysShown ==
    ASSUME DirOK
    PROVE  \A n \in {"key", "sidecar"} : /\ dir.shown[n] \in dir.left[n]
                                         /\ dir.left[n] \subseteq Keys \cup {NoFile}
BY DEF DirOK, Coherent, Directories, Named, Files

(* A step that writes neither the key nor the sidecar.                     *)
LEMMA SettlingKeepsKeys ==
    ASSUME IInv, IInv', KeysKept, KeysSettle, HandsOut, faults <= faults'
    PROVE  KeysKept'
<1>1. /\ dir.shown["key"] \in dir.left["key"] /\ dir'.shown["key"] \in dir'.left["key"]
      /\ faults \in Nat /\ faults' \in Nat
  BY KeysShown, Parts, WalletAssumption DEF IInv, TypeOK, Coherent, Directories, Files
<1>2. SUFFICES ASSUME faults' <= 1
               PROVE  /\ AddressIsSpendable'
                      /\ faults' = 0 => dir'.left["key"] = {dir'.shown["key"]}
  BY DEF KeysKept
<1>3. /\ AddressIsSpendable
      /\ faults = 0 => dir.left["key"] = {dir.shown["key"]}
  BY <1>1, <1>2 DEF KeysKept
<1>4. \A k : dir.left["key"] = {k} => dir'.left["key"] = {k}
  BY <1>1 DEF KeysSettle
<1>5. AddressIsSpendable'
  BY <1>3, <1>4 DEF AddressIsSpendable, KeysSettle, HandsOut
<1>6. faults' = 0 => dir'.left["key"] = {dir'.shown["key"]}
  BY <1>1, <1>3, <1>4
<1> QED BY <1>5, <1>6

(* The first write of a key: before it there is no sidecar, and whatever   *)
(* was handed out before has its phrase.                                   *)
LEMMA NewKeyKeepsKeys ==
    ASSUME IInv, IInv', KeysKept, dir.shown["key"] = NoFile,
           NEW k \in Keys, NEW outcome \in Outcomes, Store("key", k, outcome),
           phrases \subseteq phrases', handed' = handed
    PROVE  KeysKept'
<1>1. /\ dir.shown["key"] \in dir.left["key"] /\ dir'.shown["key"] \in dir'.left["key"]
      /\ dir.left["sidecar"] \subseteq Keys \cup {NoFile}
      /\ DirOK /\ faults \in Nat /\ faults' \in Nat
  BY KeysShown, Parts, WalletAssumption DEF IInv, TypeOK, Coherent, Directories, Files
<1>2. NoFile \notin Keys
  BY FilesAssumption
<1>3. faults' = faults + Faults(outcome) /\ dir' = Write(dir, "key", k, outcome)
  BY DEF Store
<1>4. "key" \in Files /\ k \in (Keys \cup Txs) \cup {NoFile} /\ "sidecar" \in Files
  BY DEF Files
<1>5. Written(dir, dir', "key", k, outcome)
  BY <1>1, <1>3, <1>4, WriteNarrows DEF DirOK
<1>6. dir'.left["sidecar"] \subseteq dir.left["sidecar"]
  BY <1>1, <1>4, <1>5 DEF Written, Narrows, DirOK, Directories
<1>7. SUFFICES ASSUME faults' <= 1
               PROVE  /\ AddressIsSpendable'
                      /\ faults' = 0 => dir'.left["key"] = {dir'.shown["key"]}
  BY DEF KeysKept
<1>8. faults <= 1 /\ AddressIsSpendable
  <2>1. faults <= 1
    BY <1>1, <1>3, <1>7 DEF Faults
  <2> QED BY <2>1 DEF KeysKept
<1>9. \A h \in Keys : dir.left["key"] # {h}
  BY <1>1, <1>2
<1>10. dir.left["sidecar"] \subseteq {NoFile} /\ \A h \in handed : h \in phrases
  BY <1>1, <1>8, <1>9, Parts DEF AddressIsSpendable, Typed
<1>11. AddressIsSpendable'
  BY <1>6, <1>10 DEF AddressIsSpendable
<1>12. faults' = 0 => dir'.left["key"] = {dir'.shown["key"]}
  BY <1>1, <1>3, <1>5 DEF Faults, Written
<1> QED BY <1>11, <1>12

(* A write of the sidecar of the key that is there: before the first fault *)
(* that key is on disk, and after it the write settles or leaves the name. *)
LEMMA SidecarKeepsKeys ==
    ASSUME IInv, IInv', KeysKept, dir.shown["key"] \in Keys,
           NEW outcome \in Outcomes, Store("sidecar", dir.shown["key"], outcome),
           phrases \subseteq phrases',
           \A k \in handed' \ handed : outcome = "stored" /\ k = dir.shown["key"]
    PROVE  KeysKept'
<1> DEFINE k == dir.shown["key"]
<1>1. /\ k \in dir.left["key"] /\ dir'.shown["key"] \in dir'.left["key"]
      /\ DirOK /\ faults \in Nat /\ faults' \in Nat
  BY KeysShown, Parts, WalletAssumption DEF IInv, TypeOK, Coherent, Directories, Files
<1>2. NoFile \notin Keys
  BY FilesAssumption
<1>3. faults' = faults + Faults(outcome) /\ dir' = Write(dir, "sidecar", k, outcome)
  BY DEF Store
<1>4. "key" \in Files /\ k \in (Keys \cup Txs) \cup {NoFile} /\ "sidecar" \in Files
  BY DEF Files
<1>5. Written(dir, dir', "sidecar", k, outcome)
  BY <1>1, <1>3, <1>4, WriteNarrows DEF DirOK
<1>6. dir'.left["key"] \subseteq dir.left["key"] /\ dir'.shown["key"] = k
  BY <1>1, <1>4, <1>5 DEF Written, Narrows, DirOK, Directories
<1>7. outcome = "stored" => dir'.left["key"] = {k}
  <2>1. SUFFICES ASSUME outcome = "stored" PROVE dir'.left["key"] = {k}
    OBVIOUS
  <2>2. dir' = Sync(Put(dir, "sidecar", k))
    BY <1>3, <2>1 DEF Write
  <2>3. dir \in Directories(Files, Keys \cup Txs)
    BY <1>1 DEF DirOK
  <2> HIDE DEF k
  <2>4. Put(dir, "sidecar", k) \in Directories(Files, Keys \cup Txs)
    BY <1>4, <2>3, PutFacts
  <2>5. dir'.left["key"] = {Put(dir, "sidecar", k).shown["key"]}
    BY <1>4, <2>2, <2>4, SyncFacts
  <2>6. dir'.shown["key"] = Put(dir, "sidecar", k).shown["key"]
    BY <1>4, <2>2, <2>4, SyncFacts
  <2> QED BY <1>6, <2>5, <2>6
<1>8. SUFFICES ASSUME faults' <= 1
               PROVE  /\ AddressIsSpendable'
                      /\ faults' = 0 => dir'.left["key"] = {dir'.shown["key"]}
  BY DEF KeysKept
<1>9. /\ faults <= 1 /\ AddressIsSpendable
      /\ faults = 0 => dir.left["key"] = {k}
  <2>1. faults <= 1
    BY <1>1, <1>3, <1>8 DEF Faults
  <2> QED BY <2>1 DEF KeysKept
<1> HIDE DEF k
<1>10. CASE outcome = "stored"
  <2>1. dir'.left["sidecar"] = {k} /\ dir'.left["key"] = {k}
    BY <1>5, <1>7, <1>10 DEF Written
  <2>2. \A h \in handed : h \in phrases \/ h = k
    BY <1>1, <1>9 DEF AddressIsSpendable
  <2> QED BY <1>6, <2>1, <2>2 DEF AddressIsSpendable, k
<1>11. CASE outcome # "stored"
  <2>1. dir.left["key"] = {k}
    BY <1>1, <1>3, <1>8, <1>9, <1>11 DEF Faults
  <2>2. dir'.left["key"] = {k}
    BY <1>1, <1>6, <2>1
  <2>3. dir'.left["sidecar"] \subseteq dir.left["sidecar"] \cup {k}
    BY <1>5 DEF Written, Narrows
  <2>4. \A h \in dir.left["sidecar"] \ {NoFile} : h = k
    BY <1>9, <2>1 DEF AddressIsSpendable
  <2> QED BY <1>6, <1>9, <1>11, <2>1, <2>2, <2>3, <2>4 DEF AddressIsSpendable, k
<1> QED BY <1>10, <1>11

(* Writes and removals of the journal leave the other files or settle them.*)
LEMMA JournalSettlesKeys ==
    ASSUME DirOK, \/ UNCHANGED <<dir, faults>>
                  \/ RemoveJournal
                  \/ \E t \in Txs, outcome \in Outcomes : Store("journal", t, outcome)
                  \/ dir' \in AfterPowerLoss(dir) /\ UNCHANGED faults
    PROVE  KeysSettle /\ faults <= faults'
<1>1. dir \in Directories(Files, Keys \cup Txs) /\ Coherent(dir) /\ "journal" \in Files
      /\ DOMAIN dir.shown = Files /\ faults \in Nat
  BY WalletAssumption DEF DirOK, Directories, Files
<1>2. CASE UNCHANGED <<dir, faults>>
  BY <1>1, <1>2 DEF KeysSettle
<1>3. CASE RemoveJournal
  <2>1. CASE dir' = Put(dir, "journal", NoFile) /\ UNCHANGED faults
    BY <1>1, <2>1, PutNarrows DEF Narrows, KeysSettle, Files
  <2>2. CASE UNCHANGED dir /\ faults' = faults + 1
    BY <1>1, <2>2 DEF KeysSettle
  <2> QED BY <1>3, <2>1, <2>2 DEF RemoveJournal
<1>4. ASSUME NEW t \in Txs, NEW outcome \in Outcomes, Store("journal", t, outcome)
      PROVE  KeysSettle /\ faults <= faults'
  <2>1. Written(dir, dir', "journal", t, outcome)
    BY <1>1, <1>4, WriteNarrows DEF Store
  <2>2. KeysSettle
    BY <1>1, <2>1 DEF Written, Narrows, KeysSettle, Files
  <2>3. faults <= faults'
    BY <1>1, <1>4 DEF Store, Faults
  <2> QED BY <2>2, <2>3
<1>5. CASE dir' \in AfterPowerLoss(dir) /\ UNCHANGED faults
  <2>1. \A m \in Files : dir'.shown[m] \in dir.left[m] /\ dir'.left[m] = {dir'.shown[m]}
    BY <1>1, <1>5, PowerLossFacts
  <2> QED BY <1>1, <1>5, <2>1 DEF KeysSettle, Files
<1> QED BY <1>2, <1>3, <1>4, <1>5

(* Every step keeps the keys.                                              *)
LEMMA NextKeepsKeys == IInv /\ KeysKept /\ IInv' /\ [Next]_vars => KeysKept'
<1> SUFFICES ASSUME IInv, KeysKept, IInv', [Next]_vars
             PROVE  KeysKept'
  OBVIOUS
<1>1. DirOK /\ DirOK' /\ Typed /\ NoFile \notin Keys
  BY Parts, FilesAssumption DEF IInv, TypeOK, DirOK
<1>2. CASE UNCHANGED vars
  BY <1>1, <1>2, JournalSettlesKeys, SettlingKeepsKeys DEF vars, user, HandsOut
<1>3. ASSUME NEW c \in Commands, GenerateKey(c)
      PROVE  KeysKept'
  BY <1>3, NewKeyKeepsKeys DEF GenerateKey, user
<1>4. ASSUME NEW c \in Commands, WriteSidecar(c)
      PROVE  KeysKept'
  <2>1. dir.shown["key"] \in Keys
    BY <1>1, <1>4, ShownFacts DEF IInv, AtWork, Creating, WriteSidecar
  <2> QED BY <1>4, <2>1, SidecarKeepsKeys DEF WriteSidecar, user
<1>5. ASSUME NEW c \in Commands, Repair(c)
      PROVE  KeysKept'
  <2>1. dir.shown["key"] \in Keys
    BY <1>1, <1>5, ShownFacts DEF Repair
  <2>2. PICK outcome \in Outcomes :
          /\ Store("sidecar", dir.shown["key"], outcome)
          /\ IF outcome = "stored" THEN Hand(dir.shown["key"]) ELSE UNCHANGED user
    BY <1>5 DEF Repair
  <2>3. /\ phrases \subseteq phrases'
        /\ \A k \in handed' \ handed : outcome = "stored" /\ k = dir.shown["key"]
    BY <2>2 DEF Hand, user
  <2> QED BY <2>1, <2>2, <2>3, SidecarKeepsKeys
<1>6. ASSUME NEW c \in Commands, ShowPhrase(c)
      PROVE  KeysKept'
  BY <1>1, <1>6, JournalSettlesKeys, SettlingKeepsKeys DEF ShowPhrase, HandsOut
<1>7. ASSUME \/ ReadAddress
             \/ \E c \in Commands : Reuse(c)
      PROVE  KeysKept'
  <2>1. /\ UNCHANGED <<dir, faults>> /\ dir.shown["sidecar"] # NoFile
        /\ phrases' = phrases /\ handed' = handed \cup {dir.shown["sidecar"]}
    BY <1>7 DEF ReadAddress, Reuse, Hand
  <2>2. KeysSettle /\ faults <= faults'
    BY <1>1, <2>1, JournalSettlesKeys
  <2>3. dir.shown["sidecar"] \in dir.left["sidecar"] /\ faults \in Nat
    BY <1>1, KeysShown, WalletAssumption DEF DirOK
  <2>4. CASE faults <= 1
    <3>1. dir'.left["key"] = {dir.shown["sidecar"]}
      BY <2>1, <2>3, <2>4 DEF KeysKept, AddressIsSpendable
    <3> QED BY <2>1, <2>2, <3>1, SettlingKeepsKeys DEF HandsOut
  <2>5. CASE ~(faults <= 1)
    BY <2>1, <2>5 DEF KeysKept
  <2> QED BY <2>4, <2>5
<1>8. ASSUME NEW c \in Commands,
             \/ StartInit(c) \/ StartBalance(c) \/ ResolveNone(c) \/ ResolveSettled(c)
             \/ ClearSettled(c) \/ Resend(c) \/ Leave(c) \/ Kill(c)
      PROVE  KeysKept'
  <2>1. /\ UNCHANGED <<dir, faults>> \/ RemoveJournal
        /\ phrases' = phrases /\ handed' = handed
    BY <1>8 DEF StartInit, StartBalance, ResolveNone, ResolveSettled, Tell, ClearSettled, Resend,
                Leave, Kill, user
  <2> QED BY <1>1, <2>1, JournalSettlesKeys, SettlingKeepsKeys DEF HandsOut
<1>9. ASSUME NEW p \in Payments,
             \/ StartSend(p) \/ LoseAnswer(p) \/ Accept(p) \/ Refuse(p)
             \/ ClearRefused(p) \/ SeeBlock(p) \/ Cleanup(p) \/ Report(p)
      PROVE  KeysKept'
  <2>1. /\ UNCHANGED <<dir, faults>> \/ RemoveJournal
        /\ phrases' = phrases /\ handed' = handed
    BY <1>9 DEF StartSend, LoseAnswer, Accept, Refuse, ClearRefused, SeeBlock, Cleanup, Report,
                Tell, user
  <2> QED BY <1>1, <2>1, JournalSettlesKeys, SettlingKeepsKeys DEF HandsOut
<1>10. ASSUME NEW p \in Payments, Sign(p)
       PROVE  KeysKept'
  <2>1. Signed(p) \in Txs
    <3>1. dir.shown["key"] \in Keys /\ dir.shown["sidecar"] \in Keys
      BY <1>1, <1>10, ShownFacts DEF Sign
    <3>2. sequence[dir.shown["sidecar"]] \in 0 .. MaxSequence
      BY <1>1, <1>10, <3>1, WalletAssumption DEF Sign, Typed
    <3> QED BY <3>1, <3>2 DEF Signed, Txs
  <2>2. \E t \in Txs, outcome \in Outcomes : Store("journal", t, outcome)
    BY <1>10, <2>1 DEF Sign
  <2>3. phrases' = phrases /\ handed' = handed
    BY <1>10 DEF Sign, user
  <2> QED BY <1>1, <2>2, <2>3, JournalSettlesKeys, SettlingKeepsKeys DEF HandsOut
<1>11. ASSUME \/ Abandon \/ PowerLoss
              \/ \E t \in mempool : Commit(t) \/ Evict(t)
       PROVE  KeysKept'
  <2>1. /\ \/ UNCHANGED <<dir, faults>> \/ RemoveJournal
           \/ dir' \in AfterPowerLoss(dir) /\ UNCHANGED faults
        /\ phrases' = phrases /\ handed' = handed
    BY <1>11 DEF Abandon, PowerLoss, Commit, Evict, user
  <2> QED BY <1>1, <2>1, JournalSettlesKeys, SettlingKeepsKeys DEF HandsOut
<1> QED BY <1>2, <1>3, <1>4, <1>5, <1>6, <1>7, <1>8, <1>9, <1>10, <1>11 DEF Next

(* wallet_store.go, writeWalletFile; wallet.go, createOrRecoverWallet:     *)
(* while at most one storage operation has failed, the key of an address   *)
(* that was handed out survives a loss of power or its phrase was shown,   *)
(* and a sidecar is never without the key it names, whatever bound there   *)
(* is on faults and however many commands are killed.                      *)
THEOREM AddressesSpendable == Spec => [](faults <= 1 => AddressIsSpendable)
<1>1. Init => KeysKept
  <2> SUFFICES ASSUME Init PROVE KeysKept
    OBVIOUS
  <2>1. /\ dir.left["key"] = {NoFile} /\ dir.shown["key"] = NoFile /\ dir.left["sidecar"] = {NoFile}
        /\ handed = {}
    BY DEF Init, Settled, Files
  <2> QED BY <2>1 DEF KeysKept, AddressIsSpendable
<1>2. KeysKept => (faults <= 1 => AddressIsSpendable)
  BY DEF KeysKept
<1> QED BY <1>1, <1>2, NextKeepsKeys, WalletIsInductive, PTL DEF Spec
=============================================================================
