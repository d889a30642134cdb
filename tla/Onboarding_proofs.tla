--------------------------- MODULE Onboarding_proofs ---------------------------
(***************************************************************************)
(* Onboarding: an installation has one agent in use, its key is never      *)
(* lost, and only an address that was in force is noted as declared.       *)
(* Setup: so it is while an installation that was set aside is adopted,    *)
(* which moves all of it or leaves it whole.                               *)
(***************************************************************************)
EXTENDS SetupInvariant, FiniteSetTheorems, SequenceTheorems, TLAPS

-----------------------------------------------------------------------------
(* The type invariant by parts.                                            *)

Filed ==
    /\ platform \in [Agents -> Usable \cup {"none", "gone"}]
    /\ credentials \in 0 .. Damaged
    /\ registration \in Record /\ Sound(registration) /\ backup \in BOOLEAN
    /\ pending \in Journal /\ (pending # NoJournal => pending.agent # None)

Paid ==
    /\ payout \in Addresses \cup {NoAddress} /\ declared \in Addresses \cup {NoAddress}
    /\ active \in Addresses \cup {NoAddress} /\ inForce \subseteq Addresses

Marked  == orphans \subseteq Agents /\ givenUp \subseteq Agents /\ crossed \in BOOLEAN
Counted == faults \in 0 .. MaxFaults /\ acts \in 0 .. MaxActs

Fitting(p, m) == m \in Memory /\ Kind(p, m) /\ Sound(m.record)

Manned ==
    /\ proc \in [Processes -> Memory] /\ \A p \in Processes : Fitting(p, proc[p])
    /\ lock \in Locking \cup {Nobody}
    /\ lock # Nobody => proc[lock].step # "idle"

Typed == Filed /\ Paid /\ Marked /\ Counted /\ Manned

LEMMA Parts == TypeOK /\ Recorded <=> Typed
BY DEF TypeOK, Recorded, Typed, Filed, Paid, Marked, Counted, Manned, Fitting, Mine, Locking

LEMMA PartsNext == (TypeOK /\ Recorded)' <=> Typed'
BY Parts, PTL

\* A step of process p, to m in its memory; who ends lets go of the lock.
Moved(p, m) ==
    /\ Fitting(p, m) /\ Become(p, m)
    /\ lock' = IF m.step = "idle" /\ lock = p THEN Nobody ELSE lock

LEMMA Numbers ==
    /\ MaxAgents \in Nat /\ MaxFaults \in Nat /\ MaxActs \in Nat
    /\ None \in 0 .. MaxAgents /\ None \in 0 .. Stranger /\ None \notin Agents
    /\ Agents \subseteq 0 .. MaxAgents /\ Agents \subseteq Keys /\ Keys \subseteq 0 .. Stranger
    /\ 0 .. MaxAgents \subseteq 0 .. Stranger /\ 0 .. Stranger \subseteq 0 .. Damaged
    /\ Damaged \notin Keys /\ Stranger \notin Agents /\ None \notin Keys /\ Damaged \in 0 .. Damaged
    /\ \A a \in 0 .. MaxAgents : a # None <=> a \in Agents
<1>1. MaxAgents \in Nat /\ MaxFaults \in Nat /\ MaxActs \in Nat
  BY OnboardingAssumption
<1> QED BY <1>1 DEF None, Stranger, Damaged, Agents, Keys

LEMMA Whereabouts ==
    ASSUME Manned, NEW p \in Processes
    PROVE  /\ proc[p] \in Memory /\ Kind(p, proc[p]) /\ Sound(Mine(p)) /\ Mine(p) \in Record
           /\ p \in Locking <=> p \notin Enables
           /\ p # Nobody
BY OnboardingAssumption DEF Manned, Fitting, Mine, Memory, Locking, Processes

LEMMA OnlyOne ==
    ASSUME Manned, NEW p \in Processes, NEW m, Become(p, m)
    PROVE  proc'[p] = m /\ \A q \in Processes \ {p} : proc'[q] = proc[q]
BY DEF Manned, Become

LEMMA MovedMans ==
    ASSUME Manned, NEW p \in Processes, NEW m, Moved(p, m)
    PROVE  Manned'
<1>1. m \in Memory /\ Become(p, m) /\ Fitting(p, m)
  BY DEF Moved, Fitting
<1>2. proc' \in [Processes -> Memory]
  BY <1>1 DEF Manned, Become
<1>3. \A q \in Processes : Fitting(q, proc'[q])
  BY <1>1, OnlyOne DEF Manned
<1>4. lock' \in Locking \cup {Nobody} /\ (lock' # Nobody => proc'[lock'].step # "idle")
  <2>1. lock # Nobody => lock \in Processes
    BY DEF Manned, Locking, Processes
  <2> QED BY <1>1, <2>1, OnlyOne DEF Moved, Manned
<1> QED BY <1>2, <1>3, <1>4 DEF Manned

\* Where p may go with record r and address a in memory.
MayGo(p, s, r, a) ==
    /\ s \in Registering => p \in Connects
    /\ s \in Publishing \cup {"load", "key"} => p \in Locking
    /\ s \in {"look", "resave", "choose"} => p \in Enables
    /\ s \notin {"idle", "load", "me", "decide", "register"} => r.agent # None
    /\ s \in {"standing", "declare", "note"} => a \in Addresses

\* p is at s with record r, and remembers everything else as it did.
Lands(p, m, s, r) ==
    /\ Moved(p, m) /\ m.step = s /\ m.record = r
    /\ m.force = proc[p].force /\ m.key = proc[p].key
    /\ m.old = proc[p].old /\ m.address = proc[p].address

LEMMA HoldMoves ==
    ASSUME Manned, NEW p \in Processes, NEW r \in Record, NEW s \in Steps \ {"idle"},
           Sound(r), MayGo(p, s, r, proc[p].address), Hold(p, r, s), UNCHANGED lock
    PROVE  \E m : Lands(p, m, s, r)
<1>1. PICK m : m = [proc[p] EXCEPT !.record = r, !.step = s]
  OBVIOUS
<1>2. /\ m \in Memory /\ m.step = s /\ m.record = r
      /\ m.force = proc[p].force /\ m.key = proc[p].key
      /\ m.old = proc[p].old /\ m.address = proc[p].address
  BY <1>1, Whereabouts DEF Memory
<1>3. Become(p, m)
  BY <1>1 DEF Hold
<1>4. Fitting(p, m)
  BY <1>2 DEF Fitting, Kind, MayGo
<1> QED BY <1>2, <1>3, <1>4 DEF Lands, Moved

LEMMA GotoMoves ==
    ASSUME Manned, NEW p \in Processes, NEW s \in Steps \ {"idle"},
           MayGo(p, s, Mine(p), proc[p].address), Goto(p, s), UNCHANGED lock
    PROVE  \E m : Lands(p, m, s, Mine(p))
<1>1. Hold(p, Mine(p), s)
  BY Whereabouts DEF Hold, Goto, Mine, Memory, Become
<1> QED BY <1>1, Whereabouts, HoldMoves

LEMMA IdleIs ==
    /\ Absent \in Record /\ Sound(Absent)
    /\ Idle \in Memory
<1>1. Absent \in Record /\ Sound(Absent)
  <2>1. Absent.agent = 0 /\ Absent.status = "absent"
    BY DEF Absent, None
  <2>2. "absent" \notin Usable /\ 0 \in 0 .. MaxAgents
    BY Numbers DEF Usable, Live, None
  <2>3. Absent \in Record
    BY <2>1, <2>2 DEF Absent, Record, None
  <2> QED BY <2>1, <2>2, <2>3 DEF Sound, None
<1>2. None \in 0 .. Stranger /\ None \in 0 .. MaxAgents /\ "idle" \in Steps
  BY Numbers DEF None, Steps
<1> HIDE DEF None, Absent
<1> QED BY <1>1, <1>2 DEF Idle, Memory

LEMMA IdleFits ==
    ASSUME NEW p \in Processes, NEW code \in {"", "ok", "failed"}
    PROVE  LET m == [Idle EXCEPT !.ended = code] IN Fitting(p, m) /\ m.step = "idle"
<1>1. [Idle EXCEPT !.ended = code] \in Memory
  BY IdleIs DEF Memory
<1>2. /\ [Idle EXCEPT !.ended = code].step = "idle"
      /\ [Idle EXCEPT !.ended = code].record = Absent
  BY DEF Idle
<1> QED BY <1>1, <1>2, IdleIs DEF Fitting, Kind, Registering, Publishing

\* p ends.
Ends(p, m) == Moved(p, m) /\ m.step = "idle"

LEMMA ExitMoves ==
    ASSUME Manned, NEW p \in Processes, NEW code \in {"ok", "failed"}, Exit(p, code)
    PROVE  \E m : Ends(p, m)
<1>1. PICK c \in {"", "ok", "failed"} : c = IF p \in Connects THEN code ELSE ""
  OBVIOUS
<1>2. PICK m : m = [Idle EXCEPT !.ended = c]
  OBVIOUS
<1>3. Fitting(p, m) /\ m.step = "idle"
  BY <1>2, IdleFits
<1>4. Become(p, m)
  BY <1>1, <1>2 DEF Exit
<1> QED BY <1>3, <1>4 DEF Ends, Moved, Exit

LEMMA Bounded ==
    ASSUME Counted, Fault \/ Act \/ UNCHANGED bounds
    PROVE  Counted'
BY OnboardingAssumption DEF Counted, Fault, Act, bounds

-----------------------------------------------------------------------------
(* What a step leaves of the identity.                                     *)

\* The journal is the same, and no agent comes into use or loses its key on file.
Spared ==
    /\ UNCHANGED pending /\ InUse' \subseteq InUse
    /\ \A a \in InUse' : credentials = a => credentials' = a

\* Whoever was the subject of the files still is.
Followed == \A x : About(x) => About(x)'

\* Nobody loses what was in hand.
InHandStill == \A a : InHand(a) => InHand(a)'

LEMMA HandsStay ==
    ASSUME Manned, NEW p \in Processes, NEW m, Become(p, m), ~At(p, "journal")
    PROVE  InHandStill
BY OnlyOne DEF InHandStill, InHand, At, Mine

LEMMA SomewhereStays ==
    ASSUME KeyIsSomewhere, Spared, InHandStill, Matched'
    PROVE  KeyIsSomewhere'
BY DEF KeyIsSomewhere, Spared, InHandStill

LEMMA HoldsStays ==
    ASSUME Spared, Followed, NEW m, Holds(m)
    PROVE  Holds(m)'
<1>1. JournalIs(m)'
  BY DEF Holds, JournalIs, Spared
<1>2. StillAbout(m)'
  <2>1. StillAbout(m)
    BY DEF Holds
  <2>2. \A x : About(x) => About(x)'
    BY DEF Followed
  <2> HIDE DEF About
  <2> QED BY <2>1, <2>2 DEF StillAbout
<1>3. Alone(m)'
  <2>1. Alone(m)
    BY DEF Holds
  <2> QED BY <2>1 DEF Alone, Spared
<1> QED BY <1>1, <1>2, <1>3 DEF Holds

LEMMA IdleHolds ==
    ASSUME NEW m, m.step \notin Registering \cup Publishing
    PROVE  Holds(m)
BY DEF Holds, JournalIs, StillAbout, Alone, Registering, Publishing

LEMMA IdleHoldsNext ==
    ASSUME NEW m, m.step \notin Registering \cup Publishing
    PROVE  Holds(m)'
BY DEF Holds, JournalIs, StillAbout, Alone, Registering, Publishing

(* A step of one process that holds what it should holds it for everyone.  *)
LEMMA IdentityStep ==
    ASSUME Manned, Identity, NEW p \in Processes, NEW m, Moved(p, m), KeyIsSomewhere',
           ~At(p, "idle") \/ p \in Enables,
           p \in Locking => Holds(m)',
           p \in Enables => Spared /\ Followed
    PROVE  Identity'
<1>1. proc'[p] = m /\ \A q \in Processes \ {p} : proc'[q] = proc[q]
  BY OnlyOne DEF Moved
<1>2. p \in Locking => lock = p
  BY Whereabouts DEF Identity, Exclusive
<1>3. Exclusive'
  <2> SUFFICES ASSUME NEW q \in Locking, proc'[q].step # "idle"
               PROVE  lock' = q
    BY DEF Exclusive, At
  <2>1. CASE q = p
    BY <1>1, <1>2, <2>1 DEF Moved
  <2>2. CASE q # p
    <3>1. lock = q
      BY <1>1, <2>2 DEF Identity, Exclusive, At, Locking, Processes
    <3> QED BY <2>2, <3>1 DEF Moved
  <2> QED BY <2>1, <2>2
<1>4. ASSUME NEW q \in Locking PROVE Holds(proc[q])'
  <2>0. q \in Processes
    BY DEF Locking, Processes
  <2>1. CASE q = p
    <3>1. Holds(m)'
      BY <1>4, <2>1
    <3> QED BY <1>1, <2>1, <3>1 DEF Holds, JournalIs, StillAbout, Alone
  <2>2. CASE q # p /\ p \in Enables
    <3>1. PICK n : n = proc[q]
      OBVIOUS
    <3>2. Holds(n)
      BY <3>1 DEF Identity
    <3>3. Holds(n)'
      BY <2>2, <3>2, HoldsStays
    <3>4. proc'[q] = n
      BY <1>1, <2>0, <2>2, <3>1
    <3> QED BY <3>3, <3>4 DEF Holds, JournalIs, StillAbout, Alone
  <2>3. CASE q # p /\ p \in Locking
    <3>1. proc'[q].step = "idle"
      BY <1>1, <1>2, <2>0, <2>3 DEF Identity, Exclusive, At
    <3> QED BY <3>1 DEF Holds, JournalIs, StillAbout, Alone, Registering, Publishing
  <2> QED BY <2>1, <2>2, <2>3, Whereabouts
<1> QED BY <1>3, <1>4 DEF Identity

LEMMA Uncrossed == ASSUME IInv, ~crossed PROVE Identity
BY DEF IInv

LEMMA TypedIInv == IInv => Typed
BY Parts DEF IInv

(* What every step of a process owes.                                      *)
LEMMA Step ==
    ASSUME IInv, NEW p \in Processes, NEW m, Moved(p, m),
           ~At(p, "idle") \/ p \in Enables,
           Filed', Paid', Marked', Counted', ~crossed' => ~crossed,
           ~crossed' => /\ KeyIsSomewhere'
                        /\ p \in Locking => Holds(m)'
                        /\ p \in Enables => Spared /\ Followed
    PROVE  IInv'
<1>1. Typed'
  BY TypedIInv, MovedMans DEF Typed
<1>2. ~crossed' => Identity'
  BY TypedIInv, IdentityStep, Uncrossed DEF Typed
<1> QED BY <1>1, <1>2, PartsNext DEF IInv

\* Nothing of the identity is touched.
Untouched == UNCHANGED <<platform, identity, orphans, givenUp, crossed>>

LEMMA UntouchedSpares ==
    ASSUME Untouched
    PROVE  Spared /\ Followed /\ (Filed => Filed') /\ (Marked => Marked') /\ (Matched => Matched')
<1>1. /\ platform' = platform /\ credentials' = credentials /\ registration' = registration
      /\ backup' = backup /\ pending' = pending /\ orphans' = orphans /\ givenUp' = givenUp
      /\ crossed' = crossed
  BY DEF Untouched, identity
<1> QED BY <1>1 DEF Spared, Followed, Filed, Marked, Matched, InUse, About

LEMMA UntouchedStep ==
    ASSUME IInv, NEW p \in Processes, NEW m, Moved(p, m),
           ~At(p, "idle") \/ p \in Enables, ~At(p, "journal"),
           Untouched, Paid', Counted',
           p \in Locking /\ ~crossed => Holds(m)
    PROVE  IInv'
<1>1. Filed' /\ Marked' /\ Spared /\ Followed /\ (~crossed' => ~crossed)
  BY TypedIInv, UntouchedSpares DEF Typed, Untouched
<1>2. ASSUME ~crossed PROVE KeyIsSomewhere'
  <2>1. InHandStill
    BY TypedIInv, HandsStay DEF Typed, Moved
  <2> QED BY <1>1, <1>2, <2>1, Uncrossed, UntouchedSpares, SomewhereStays DEF Identity, KeyIsSomewhere
<1>3. p \in Locking /\ ~crossed => Holds(m)'
  BY <1>1, HoldsStays
<1> QED BY <1>1, <1>2, <1>3, Step

(* A step that touches neither files nor agents.                           *)
Calm == UNCHANGED <<platform, identity, payouts, ghosts>> /\ (Fault \/ Act \/ UNCHANGED bounds)

LEMMA CalmStep ==
    ASSUME IInv, NEW p \in Processes, NEW m, Moved(p, m),
           ~At(p, "idle") \/ p \in Enables, ~At(p, "journal"), Calm,
           p \in Locking /\ ~crossed => Holds(m)
    PROVE  IInv'
<1>1. Untouched /\ Counted'
  BY TypedIInv, Bounded DEF Calm, Untouched, Typed, ghosts
<1>2. Paid'
  BY TypedIInv DEF Calm, Typed, Paid, payouts
<1> QED BY <1>1, <1>2, UntouchedStep

LEMMA CalmEnd ==
    ASSUME IInv, NEW p \in Processes, NEW code \in {"ok", "failed"}, Exit(p, code),
           ~At(p, "idle"), ~At(p, "journal"), Calm
    PROVE  IInv'
<1>1. PICK m : Ends(p, m)
  BY TypedIInv, ExitMoves DEF Typed
<1>2. Holds(m)
  BY <1>1, IdleHolds DEF Ends, Registering, Publishing
<1> QED BY <1>1, <1>2, CalmStep DEF Ends

(* The holder of the lock is the only one to have an agent in hand.        *)
LEMMA AtWork ==
    ASSUME IInv, ~crossed, NEW p \in Locking, ~At(p, "idle")
    PROVE  /\ lock = p /\ Holds(proc[p]) /\ KeyIsSomewhere
           /\ \A a : InHand(a) => At(p, "journal") /\ Mine(p).agent = a
<1>1. Identity
  BY Uncrossed
<1>2. lock = p /\ Holds(proc[p]) /\ KeyIsSomewhere
  BY <1>1 DEF Identity, Exclusive
<1>3. ASSUME NEW q \in Processes, At(q, "journal") PROVE q = p
  <2>1. q \in Locking
    BY <1>3, TypedIInv DEF Typed, Manned, Fitting, Kind, At, Registering, Locking
  <2>2. lock = q
    BY <1>1, <1>3, <2>1 DEF Identity, Exclusive, At
  <2> QED BY <1>2, <2>2
<1> QED BY <1>2, <1>3 DEF InHand

LEMMA OnFile ==
    ASSUME IInv, ~crossed, NEW p \in Locking, ~At(p, "idle"), ~At(p, "journal"),
           pending = NoJournal
    PROVE  InUse \subseteq {credentials} /\ Matched
<1>1. None \notin InUse
  BY Numbers DEF InUse
<1>2. pending.agent = None
  BY DEF NoJournal
<1> QED BY <1>1, <1>2, AtWork DEF KeyIsSomewhere

-----------------------------------------------------------------------------
(* connectRun.                                                             *)

LEMMA BeginKeeps ==
    ASSUME IInv, NEW p \in Processes, Begin(p)
    PROVE  IInv'
<1>1. p \in Locking /\ At(p, "idle") /\ lock = Nobody /\ lock' = p /\ Calm
  BY DEF Begin, Locking, Calm
<1>2. PICK f \in BOOLEAN : Become(p, [Idle EXCEPT !.step = "load", !.force = f])
  <2>1. CASE Become(p, [Idle EXCEPT !.step = "load"])
    <3>1. [Idle EXCEPT !.step = "load"] = [Idle EXCEPT !.step = "load", !.force = Idle.force]
      BY IdleIs DEF Memory
    <3>2. Idle.force = FALSE
      BY DEF Idle
    <3> QED BY <2>1, <3>1, <3>2
  <2>2. CASE Become(p, [Idle EXCEPT !.step = "load", !.force = TRUE])
    BY <2>2
  <2> QED BY <2>1, <2>2 DEF Begin
<1>3. PICK m : m = [Idle EXCEPT !.step = "load", !.force = f]
  OBVIOUS
<1>4. Idle \in Memory /\ Sound(Idle.record)
  BY IdleIs DEF Idle
<1>5. m \in Memory /\ m.step = "load" /\ m.record = Idle.record
  BY <1>3, <1>4 DEF Memory, Steps
<1>6. Fitting(p, m)
  BY <1>1, <1>4, <1>5 DEF Fitting, Kind, Registering, Publishing
<1>7. /\ proc' \in [Processes -> Memory] /\ proc'[p] = m
      /\ \A q \in Processes \ {p} : proc'[q] = proc[q]
  BY <1>2, <1>3, <1>5, TypedIInv, OnlyOne DEF Typed, Manned, Become
<1>8. Manned'
  BY <1>1, <1>5, <1>6, <1>7, TypedIInv DEF Typed, Manned
<1>9. Untouched /\ Counted' /\ Paid'
  BY <1>1, TypedIInv, Bounded DEF Calm, Untouched, Typed, ghosts, Paid, payouts
<1>10. Filed' /\ Marked' /\ Spared /\ Followed /\ (Matched => Matched')
  BY <1>9, TypedIInv, UntouchedSpares DEF Typed
<1>11. ASSUME ~crossed PROVE Identity'
  <2>1. Identity
    BY <1>11, Uncrossed
  <2>2. InHandStill
    BY <1>1, <1>2, <1>3, TypedIInv, HandsStay DEF Typed, At
  <2>3. KeyIsSomewhere'
    BY <1>10, <2>1, <2>2, SomewhereStays DEF Identity, KeyIsSomewhere
  <2>4. \A q \in Locking \ {p} : proc'[q].step = "idle"
    BY <1>1, <1>7, <2>1, OnboardingAssumption DEF Identity, Exclusive, At, Locking, Processes
  <2>5. Exclusive'
    BY <1>1, <2>4 DEF Exclusive, At
  <2>6. \A q \in Locking : proc'[q].step \notin Registering \cup Publishing
    BY <1>5, <1>7, <2>4 DEF Registering, Publishing
  <2>7. \A q \in Locking : Holds(proc[q])'
    BY <2>6 DEF Holds, JournalIs, StillAbout, Alone, Registering, Publishing
  <2> QED BY <2>3, <2>5, <2>7 DEF Identity
<1> QED BY <1>8, <1>9, <1>10, <1>11, PartsNext DEF IInv, Typed, Untouched

LEMMA RecoverKeeps ==
    ASSUME IInv, NEW p \in Processes, Recover(p)
    PROVE  IInv'
<1>1. /\ At(p, "load") /\ pending # NoJournal /\ Calm /\ lock' = lock
      /\ Become(p, [proc[p] EXCEPT !.record = [agent |-> pending.agent, status |-> "unclaimed"],
                                   !.old = pending.old, !.force = FALSE, !.step = "credential"])
  BY DEF Recover, Calm
<1>2. PICK r : r = [agent |-> pending.agent, status |-> "unclaimed"]
  OBVIOUS
<1>3. r \in Record /\ Sound(r) /\ r.agent = pending.agent /\ r.agent # None
  BY <1>1, <1>2, TypedIInv DEF Typed, Filed, Journal, Record, Sound, Usable, Live
<1>4. PICK m : m = [proc[p] EXCEPT !.record = r, !.old = pending.old, !.force = FALSE,
                                   !.step = "credential"]
  OBVIOUS
<1>5. /\ m \in Memory /\ m.step = "credential" /\ m.record = r /\ m.old = pending.old
      /\ Become(p, m) /\ proc[p].step = "load"
  <2>1. pending.old \in 0 .. MaxAgents /\ proc[p] \in Memory /\ Become(p, m)
    BY <1>1, <1>2, <1>4, TypedIInv, Whereabouts DEF Typed, Filed, Journal
  <2>2. proc[p].step = "load"
    BY <1>1 DEF At
  <2> QED BY <1>3, <1>4, <2>1, <2>2 DEF Memory, Steps
<1>6. p \in Locking
  BY <1>5, TypedIInv, Whereabouts DEF Typed, Kind
<1>7. Moved(p, m)
  BY <1>1, <1>3, <1>5, <1>6 DEF Moved, Fitting, Kind, Registering, Publishing
<1>8. Holds(m)
  <2>1. pending = [agent |-> m.record.agent, old |-> m.old]
    BY <1>3, <1>5, TypedIInv DEF Typed, Filed, Journal
  <2> QED BY <1>5, <2>1 DEF Holds, JournalIs, StillAbout, Alone, Registering, Publishing
<1> QED BY <1>1, <1>5, <1>7, <1>8, CalmStep DEF At

LEMMA LoadKeeps ==
    ASSUME IInv, NEW p \in Processes, Load(p)
    PROVE  IInv'
<1>1. /\ At(p, "load") /\ pending = NoJournal /\ registration.status \in Usable /\ Calm
      /\ ~At(p, "idle") /\ ~At(p, "journal")
  BY DEF Load, Calm, At
<1>2. p \in Locking
  BY <1>1, TypedIInv, Whereabouts DEF Typed, Kind, At
<1>3. CASE After(p, registration) = "leave"
  BY <1>1, <1>3, CalmEnd DEF Load
<1>4. CASE After(p, registration) # "leave"
  <2>1. PICK s : s = After(p, registration)
    OBVIOUS
  <2>2. s \in {"verify", "key", "ask"} /\ (s \in {"verify", "ask"} => p \in Connects)
    BY <1>2, <1>4, <2>1 DEF After, Resuming, Locking
  <2>3. registration \in Record /\ Sound(registration) /\ registration.agent # None
    BY <1>1, TypedIInv DEF Typed, Filed, Sound
  <2>4. Hold(p, registration, s) /\ UNCHANGED lock
    BY <1>4, <2>1 DEF Load
  <2>5. s \in Steps \ {"idle"} /\ MayGo(p, s, registration, proc[p].address)
    BY <1>2, <2>2, <2>3 DEF Steps, MayGo, Registering, Publishing
  <2>6. PICK m : Lands(p, m, s, registration)
    BY <2>3, <2>4, <2>5, TypedIInv, HoldMoves DEF Typed
  <2>7. ASSUME ~crossed PROVE Holds(m)
    <3>1. About(registration.agent)
      BY <1>1, <1>2, <2>7, OnFile DEF About, Matched
    <3> QED BY <1>1, <2>2, <2>6, <3>1 DEF Holds, JournalIs, StillAbout, Alone, Publishing, Lands
  <2> QED BY <1>1, <2>6, <2>7, CalmStep DEF Lands
<1> QED BY <1>3, <1>4

LEMMA LoadNothingKeeps ==
    ASSUME IInv, NEW p \in Processes, LoadNothing(p)
    PROVE  IInv'
<1>1. /\ At(p, "load") /\ pending = NoJournal /\ registration.status \notin Usable
      /\ ~At(p, "idle") /\ ~At(p, "journal")
  BY DEF LoadNothing, At
<1>2. Calm
  BY DEF LoadNothing, Calm
<1>3. p \in Locking
  BY <1>1, TypedIInv, Whereabouts DEF Typed, Kind, At
<1>4. registration \in Record /\ Sound(registration) /\ registration.agent = None
  BY <1>1, TypedIInv DEF Typed, Filed, Sound
<1>5. CASE ~Resuming(p) /\ HasKey /\ UNCHANGED lock
           /\ Become(p, [proc[p] EXCEPT !.record = registration, !.key = credentials, !.step = "me"])
  <2>1. p \in Connects
    BY <1>3, <1>5 DEF Locking, Resuming
  <2>2. PICK k : k = credentials /\ k \in 0 .. Stranger
    BY <1>5, Numbers DEF HasKey
  <2>3. PICK m : m = [proc[p] EXCEPT !.record = registration, !.key = k, !.step = "me"]
    OBVIOUS
  <2>4. m \in Memory /\ m.step = "me" /\ m.record = registration /\ m.key = credentials
    BY <1>4, <2>2, <2>3, TypedIInv, Whereabouts DEF Typed, Memory, Steps
  <2>5. Moved(p, m)
    BY <1>4, <1>5, <2>1, <2>2, <2>3, <2>4 DEF Moved, Fitting, Kind, Registering, Publishing
  <2>6. Holds(m)
    <3>1. About(m.key)
      BY <1>4, <2>4 DEF About
    <3> QED BY <1>1, <2>4, <3>1 DEF Holds, JournalIs, StillAbout, Alone, Publishing
  <2> QED BY <1>1, <1>2, <2>5, <2>6, CalmStep
<1>6. CASE ~Resuming(p) /\ (credentials = None \/ (HasKey /\ proc[p].force))
           /\ Goto(p, "decide") /\ UNCHANGED lock
  <2>1. p \in Connects
    BY <1>3, <1>6 DEF Locking, Resuming
  <2>2. "decide" \in Steps \ {"idle"} /\ MayGo(p, "decide", Mine(p), proc[p].address)
    BY <2>1 DEF Steps, MayGo, Registering, Publishing
  <2>3. PICK m : Lands(p, m, "decide", Mine(p))
    BY <1>6, <2>2, TypedIInv, GotoMoves DEF Typed
  <2>4. ASSUME ~crossed PROVE Holds(m)
    <3>1. \A a \in InUse : a = credentials /\ credentials # None
      BY <1>1, <1>3, <2>4, OnFile, Numbers DEF InUse
    <3>2. m.step = "decide" /\ m.force = proc[p].force
      BY <2>3 DEF Lands
    <3> QED BY <1>1, <1>6, <3>1, <3>2 DEF Holds, JournalIs, StillAbout, Alone, Publishing
  <2> QED BY <1>1, <1>2, <2>3, <2>4, CalmStep DEF Lands
<1>7. CASE Exit(p, "ok") \/ Exit(p, "failed")
  BY <1>1, <1>2, <1>7, CalmEnd
<1> QED BY <1>5, <1>6, <1>7 DEF LoadNothing, Fail

(* The holder writes a record of the agent it works on, or puts one away.  *)
LEMMA RecordWritten ==
    ASSUME IInv, NEW p \in Processes, NEW m, Moved(p, m),
           proc[p].step \in {"preserve", "rebuild", "ask", "verify"},
           UNCHANGED <<platform, credentials, pending, payouts, ghosts>>,
           Fault \/ UNCHANGED bounds,
           registration' \in Record, Sound(registration'), backup' \in BOOLEAN,
           registration' = registration \/ registration'.agent \in {None, Mine(p).agent},
           m.step \in {"rebuild", "ask", "verify"} => m.record.agent = Mine(p).agent,
           m.step \in {"rebuild", "ask", "verify", "key", "idle"}
    PROVE  IInv'
<1>1. p \in Locking /\ ~At(p, "idle") /\ ~At(p, "journal")
  BY TypedIInv, Whereabouts DEF Typed, Kind, Registering, At, Locking
<1>2. Filed' /\ Paid' /\ Marked' /\ Counted' /\ crossed' = crossed
  BY TypedIInv, Bounded DEF Typed, Filed, Paid, Marked, payouts, ghosts
<1>3. ASSUME ~crossed PROVE KeyIsSomewhere' /\ Holds(m)'
  <2>1. KeyIsSomewhere /\ Holds(proc[p])
    BY <1>1, <1>3, AtWork
  <2>2. pending = NoJournal /\ About(Mine(p).agent)
    BY <2>1 DEF Holds, JournalIs, StillAbout, Registering, Mine
  <2>3. /\ credentials' \in Agents => credentials' = Mine(p).agent
        /\ registration'.agent # None => registration'.agent = Mine(p).agent
    BY <2>2 DEF About
  <2>4. Matched'
    BY <2>3 DEF Matched, Sound
  <2>5. Spared /\ InHandStill
    BY <1>1, TypedIInv, HandsStay DEF Typed, Moved, Spared, InUse, ghosts
  <2>6. KeyIsSomewhere'
    BY <2>1, <2>4, <2>5, SomewhereStays
  <2>7. m.step \in {"rebuild", "ask", "verify"} => About(m.record.agent)'
    BY <2>3 DEF About
  <2>8. Holds(m)'
    BY <2>2, <2>7 DEF Holds, JournalIs, StillAbout, Alone, Publishing
  <2> QED BY <2>6, <2>8
<1> QED BY <1>1, <1>2, <1>3, TypedIInv, Whereabouts, Step DEF Typed

LEMMA MeKeeps ==
    ASSUME IInv, NEW p \in Processes, Me(p)
    PROVE  IInv'
<1>1. At(p, "me") /\ ~At(p, "idle") /\ ~At(p, "journal") /\ p \in Connects /\ p \in Locking
  <2>1. proc[p].step = "me"
    BY DEF Me, At
  <2> QED BY <2>1, TypedIInv, Whereabouts DEF Typed, Kind, Registering, At, Locking
<1>2. Calm
  BY DEF Me, Calm
<1>3. PICK k : k = proc[p].key
  OBVIOUS
<1>4. CASE Known(k, k) /\ UNCHANGED lock
           /\ Hold(p, [agent |-> k, status |-> platform[k]],
                   IF Mine(p).status = "damaged" THEN "preserve" ELSE "rebuild")
  <2>1. PICK s \in {"preserve", "rebuild"} :
               s = IF Mine(p).status = "damaged" THEN "preserve" ELSE "rebuild"
    OBVIOUS
  <2>2. PICK r : r = [agent |-> k, status |-> platform[k]]
    OBVIOUS
  <2>3. k \in Agents /\ platform[k] \in Usable
    BY <1>4 DEF Known, Answer, Usable, Live
  <2>4. r \in Record /\ Sound(r) /\ r.agent = k /\ r.agent # None
    BY <2>2, <2>3, Numbers DEF Record, Sound
  <2>5. s \in Steps \ {"idle"} /\ MayGo(p, s, r, proc[p].address)
    BY <1>1, <2>1, <2>4 DEF Steps, MayGo, Registering, Publishing
  <2>6. PICK m : Lands(p, m, s, r)
    BY <1>4, <2>1, <2>2, <2>4, <2>5, TypedIInv, HoldMoves DEF Typed
  <2>7. ASSUME ~crossed PROVE Holds(m)
    <3>1. pending = NoJournal /\ About(k)
      BY <1>1, <1>3, <2>7, AtWork DEF Holds, JournalIs, StillAbout, Registering, At
    <3> QED BY <2>1, <2>4, <2>6, <3>1 DEF Lands, Holds, JournalIs, StillAbout, Alone, Publishing
  <2> QED BY <1>1, <1>2, <2>6, <2>7, CalmStep DEF Lands
<1>5. CASE Exit(p, "failed")
  BY <1>1, <1>2, <1>5, CalmEnd
<1> QED BY <1>3, <1>4, <1>5 DEF Me, Fail

LEMMA PreserveKeeps ==
    ASSUME IInv, NEW p \in Processes, Preserve(p)
    PROVE  IInv'
<1>1. /\ proc[p].step = "preserve" /\ p \in Connects
      /\ Mine(p) \in Record /\ Sound(Mine(p)) /\ Mine(p).agent # None
  <2>1. proc[p].step = "preserve"
    BY DEF Preserve, At
  <2> QED BY <2>1, TypedIInv, Whereabouts DEF Typed, Kind, Registering, Mine
<1>2. /\ registration \in Record /\ Sound(registration) /\ backup \in BOOLEAN
  BY TypedIInv DEF Typed, Filed
<1>3. UNCHANGED <<platform, credentials, pending, payouts, ghosts>> /\ UNCHANGED bounds
  BY DEF Preserve
<1>4. CASE Preserved /\ Goto(p, "rebuild") /\ UNCHANGED lock
  <2>1. "rebuild" \in Steps \ {"idle"} /\ MayGo(p, "rebuild", Mine(p), proc[p].address)
    BY <1>1 DEF Steps, MayGo, Registering, Publishing
  <2>2. PICK m : Lands(p, m, "rebuild", Mine(p))
    BY <1>4, <2>1, TypedIInv, GotoMoves DEF Typed
  <2>3. registration'.agent = None /\ registration' \in Record /\ Sound(registration')
    <3>1. registration' = Absent
      BY <1>4 DEF Preserved
    <3>2. Absent.agent = None
      BY DEF Absent
    <3> QED BY <3>1, <3>2, IdleIs
  <2> QED BY <1>1, <1>2, <1>3, <1>4, <2>2, <2>3, RecordWritten DEF Preserved, Lands
<1>5. CASE Exit(p, "failed") /\ UNCHANGED <<registration, backup>>
  <2>1. PICK m : Ends(p, m)
    BY <1>5, TypedIInv, ExitMoves DEF Typed
  <2> QED BY <1>1, <1>2, <1>3, <1>5, <2>1, RecordWritten DEF Ends
<1> QED BY <1>4, <1>5 DEF Preserve, Fail

LEMMA RebuildKeeps ==
    ASSUME IInv, NEW p \in Processes, Rebuild(p)
    PROVE  IInv'
<1>1. /\ proc[p].step = "rebuild" /\ p \in Connects
      /\ Mine(p) \in Record /\ Sound(Mine(p)) /\ Mine(p).agent # None
  <2>1. proc[p].step = "rebuild"
    BY DEF Rebuild, At
  <2> QED BY <2>1, TypedIInv, Whereabouts DEF Typed, Kind, Registering, Mine
<1>2. /\ registration \in Record /\ Sound(registration) /\ backup' \in BOOLEAN
      /\ registration' \in {registration, Mine(p)}
      /\ UNCHANGED <<platform, credentials, pending, payouts, ghosts>>
      /\ Fault \/ UNCHANGED bounds
  BY TypedIInv DEF Typed, Filed, Rebuild
<1>3. CASE Goto(p, After(p, Mine(p))) /\ UNCHANGED lock
  <2>1. PICK s : s = After(p, Mine(p))
    OBVIOUS
  <2>2. s \in {"verify", "ask", "key"}
    BY <1>1, <2>1, OnboardingAssumption DEF After, Resuming
  <2>3. s \in Steps \ {"idle"} /\ MayGo(p, s, Mine(p), proc[p].address)
    BY <1>1, <2>2 DEF Steps, MayGo, Registering, Publishing, Locking
  <2>4. PICK m : Lands(p, m, s, Mine(p))
    BY <1>3, <2>1, <2>3, TypedIInv, GotoMoves DEF Typed
  <2> QED BY <1>1, <1>2, <2>2, <2>4, RecordWritten DEF Lands
<1>4. CASE Exit(p, "ok") \/ Exit(p, "failed")
  <2>1. PICK m : Ends(p, m)
    BY <1>4, TypedIInv, ExitMoves DEF Typed
  <2> QED BY <1>1, <1>2, <2>1, RecordWritten DEF Ends
<1> QED BY <1>3, <1>4 DEF Rebuild, Fail

LEMMA AskKeeps ==
    ASSUME IInv, NEW p \in Processes, Ask(p)
    PROVE  IInv'
<1>1. /\ proc[p].step = "ask" /\ p \in Connects /\ p \in Locking
      /\ Mine(p) \in Record /\ Sound(Mine(p)) /\ Mine(p).agent # None
  <2>1. proc[p].step = "ask"
    BY DEF Ask, At
  <2> QED BY <2>1, TypedIInv, Whereabouts DEF Typed, Kind, Registering, Mine, Locking
<1>2. PICK dead : dead = [Mine(p) EXCEPT !.status = "expired"]
  OBVIOUS
<1>3. dead \in Record /\ Sound(dead) /\ dead.agent = Mine(p).agent /\ "expired" \in Usable
  BY <1>1, <1>2 DEF Record, Sound, Usable
<1>4. /\ registration \in Record /\ Sound(registration) /\ backup' \in BOOLEAN
      /\ registration' \in {registration, dead}
      /\ UNCHANGED <<platform, credentials, pending, payouts, ghosts>>
      /\ Fault \/ UNCHANGED bounds
  BY <1>2, TypedIInv DEF Typed, Filed, Ask
<1>5. CASE Hold(p, dead, "verify") /\ UNCHANGED lock
  <2>1. "verify" \in Steps \ {"idle"} /\ MayGo(p, "verify", dead, proc[p].address)
    BY <1>1, <1>3 DEF Steps, MayGo, Registering, Publishing
  <2>2. PICK m : Lands(p, m, "verify", dead)
    BY <1>3, <1>5, <2>1, TypedIInv, HoldMoves DEF Typed
  <2> QED BY <1>1, <1>3, <1>4, <2>2, RecordWritten DEF Lands
<1>6. CASE Goto(p, "key") /\ UNCHANGED lock
  <2>1. "key" \in Steps \ {"idle"} /\ MayGo(p, "key", Mine(p), proc[p].address)
    BY <1>1 DEF Steps, MayGo, Registering, Publishing
  <2>2. PICK m : Lands(p, m, "key", Mine(p))
    BY <1>6, <2>1, TypedIInv, GotoMoves DEF Typed
  <2> QED BY <1>1, <1>3, <1>4, <2>2, RecordWritten DEF Lands
<1>7. CASE Exit(p, "failed")
  <2>1. PICK m : Ends(p, m)
    BY <1>7, TypedIInv, ExitMoves DEF Typed
  <2> QED BY <1>1, <1>3, <1>4, <2>1, RecordWritten DEF Ends
<1> QED BY <1>2, <1>5, <1>6, <1>7 DEF Ask, Fail

LEMMA VerifyKeeps ==
    ASSUME IInv, NEW p \in Processes, Verify(p)
    PROVE  IInv'
<1>1. /\ proc[p].step = "verify" /\ p \in Connects /\ p \in Locking
      /\ Mine(p) \in Record /\ Sound(Mine(p)) /\ Mine(p).agent # None
  <2>1. proc[p].step = "verify"
    BY DEF Verify, At
  <2> QED BY <2>1, TypedIInv, Whereabouts DEF Typed, Kind, Registering, Mine, Locking
<1>2. ~At(p, "idle") /\ ~At(p, "journal")
  BY <1>1 DEF At
<1>3. PICK a \in 0 .. MaxAgents : a = Mine(p).agent
  BY <1>1 DEF Record
<1>4. PICK s : s = Answer(a, credentials)
  OBVIOUS
<1>5. PICK now : now = [Mine(p) EXCEPT !.status = s]
  OBVIOUS
<1>6. CASE s = "expired" /\ Become(p, [proc[p] EXCEPT !.old = a, !.step = "decide"])
           /\ UNCHANGED <<registration, lock, bounds>>
  <2>1. Calm
    BY <1>6 DEF Verify, Calm, identity
  <2>2. PICK m : m = [proc[p] EXCEPT !.old = a, !.step = "decide"]
    OBVIOUS
  <2>3. m \in Memory /\ m.step = "decide" /\ m.record = Mine(p)
    BY <2>2, <1>3, TypedIInv, Whereabouts DEF Typed, Memory, Steps, Mine
  <2>4. Moved(p, m)
    BY <1>1, <1>6, <2>2, <2>3 DEF Moved, Fitting, Kind, Registering, Publishing
  <2>5. ASSUME ~crossed PROVE Holds(m)
    <3>1. pending = NoJournal
      BY <1>1, <1>2, <2>5, AtWork DEF Holds, JournalIs, Registering
    <3>2. platform[credentials] = "expired" /\ "expired" \notin Live
      BY <1>4, <1>6 DEF Answer, Live
    <3>3. InUse = {}
      BY <1>1, <1>2, <2>5, <3>1, <3>2, OnFile DEF InUse
    <3> QED BY <2>3, <3>1, <3>3 DEF Holds, JournalIs, StillAbout, Alone, Publishing
  <2> QED BY <1>2, <2>1, <2>4, <2>5, CalmStep
<1>7. CASE /\ s \in Live /\ registration' = now
           /\ Hold(p, now, "key") /\ UNCHANGED <<lock, bounds>>
  <2>1. now \in Record /\ Sound(now) /\ now.agent = Mine(p).agent
    BY <1>1, <1>5, <1>7 DEF Record, Sound, Usable
  <2>2. "key" \in Steps \ {"idle"} /\ MayGo(p, "key", now, proc[p].address)
    BY <1>1, <2>1 DEF Steps, MayGo, Registering, Publishing
  <2>3. PICK m : Lands(p, m, "key", now)
    BY <1>7, <2>1, <2>2, TypedIInv, HoldMoves DEF Typed
  <2>4. /\ UNCHANGED <<platform, credentials, pending, payouts, ghosts>>
        /\ backup' \in BOOLEAN
    BY TypedIInv DEF Typed, Filed, Verify
  <2> QED BY <1>1, <1>7, <2>1, <2>3, <2>4, RecordWritten DEF Lands
<1>8. CASE Exit(p, "failed") /\ (Fault \/ UNCHANGED bounds) /\ UNCHANGED registration
  BY <1>2, <1>8, CalmEnd DEF Verify, Calm, identity
<1> QED BY <1>3, <1>4, <1>5, <1>6, <1>7, <1>8 DEF Verify, Fail

LEMMA DecideKeeps ==
    ASSUME IInv, NEW p \in Processes, Decide(p)
    PROVE  IInv'
<1>1. proc[p].step = "decide" /\ p \in Connects /\ p \in Locking
  <2>1. proc[p].step = "decide"
    BY DEF Decide, At
  <2> QED BY <2>1, TypedIInv, Whereabouts DEF Typed, Kind, Registering, Locking
<1>2. ~At(p, "idle") /\ ~At(p, "journal") /\ Calm
  BY <1>1 DEF At, Decide, Calm
<1>3. CASE Goto(p, "register") /\ UNCHANGED lock
  <2>1. "register" \in Steps \ {"idle"} /\ MayGo(p, "register", Mine(p), proc[p].address)
    BY <1>1 DEF Steps, MayGo, Registering, Publishing
  <2>2. PICK m : Lands(p, m, "register", Mine(p))
    BY <1>3, <2>1, TypedIInv, GotoMoves DEF Typed
  <2>3. ASSUME ~crossed PROVE Holds(m)
    <3>1. Holds(proc[p])
      BY <1>1, <1>2, <2>3, AtWork
    <3>2. pending = NoJournal /\ \A a \in InUse : proc[p].force /\ a = credentials
      BY <1>1, <3>1 DEF Holds, JournalIs, Alone, Registering
    <3> QED BY <2>2, <3>2 DEF Lands, Holds, JournalIs, StillAbout, Alone, Publishing
  <2> QED BY <1>2, <2>2, <2>3, CalmStep DEF Lands
<1>4. CASE Exit(p, "failed")
  BY <1>2, <1>4, CalmEnd
<1> QED BY <1>3, <1>4 DEF Decide, Fail

-----------------------------------------------------------------------------
(* Registration.                                                           *)

LEMMA RegisterKeeps ==
    ASSUME IInv, NEW p \in Processes, Register(p)
    PROVE  IInv'
<1>1. proc[p].step = "register" /\ p \in Connects /\ p \in Locking
  <2>1. proc[p].step = "register"
    BY DEF Register, At
  <2> QED BY <2>1, TypedIInv, Whereabouts DEF Typed, Kind, Registering, Locking
<1>2. ~At(p, "idle") /\ ~At(p, "journal") /\ UNCHANGED <<identity, payouts>>
  BY <1>1 DEF At, Register
<1>3. Paid'
  BY <1>2, TypedIInv DEF Typed, Paid, payouts
<1>4. ASSUME ~crossed
      PROVE  /\ KeyIsSomewhere /\ pending = NoJournal
             /\ \A b \in InUse : proc[p].force /\ b = credentials
  BY <1>1, <1>2, <1>4, AtWork DEF Holds, JournalIs, Alone, Registering
<1>5. ASSUME NEW a \in Unminted, platform' = [platform EXCEPT ![a] = "unclaimed"],
             Hold(p, [agent |-> a, status |-> "unclaimed"], "journal"),
             UNCHANGED <<lock, orphans, crossed, bounds>>,
             givenUp' = IF proc[p].force
                        THEN givenUp \cup ({credentials, registration.agent, pending.agent} \cap Agents)
                        ELSE givenUp
      PROVE  IInv'
  <2>1. a \in Agents /\ a # None
    BY Numbers DEF Unminted
  <2>2. PICK r : r = [agent |-> a, status |-> "unclaimed"]
    OBVIOUS
  <2>3. r \in Record /\ Sound(r) /\ r.agent = a
    BY <2>1, <2>2, Numbers DEF Record, Sound, Usable, Live
  <2>4. "journal" \in Steps \ {"idle"} /\ MayGo(p, "journal", r, proc[p].address)
    BY <1>1, <2>1, <2>3 DEF Steps, MayGo, Registering, Publishing
  <2>5. PICK m : Lands(p, m, "journal", r)
    BY <1>5, <2>2, <2>3, <2>4, TypedIInv, HoldMoves DEF Typed
  <2>6. Filed' /\ Marked' /\ Counted' /\ crossed' = crossed
    <3>1. platform' \in [Agents -> Usable \cup {"none", "gone"}]
      BY <1>5, <2>1, TypedIInv DEF Typed, Filed, Usable, Live
    <3>2. givenUp' \subseteq Agents
      BY <1>5, TypedIInv DEF Typed, Marked
    <3> QED BY <1>2, <1>5, <3>1, <3>2, TypedIInv, Bounded DEF Typed, Filed, Marked, identity
  <2>7. ASSUME ~crossed PROVE KeyIsSomewhere' /\ Holds(m)'
    <3>1. InUse' \subseteq {a}
      <4> SUFFICES ASSUME NEW b \in InUse', b # a PROVE FALSE
        OBVIOUS
      <4>1. b \in Agents /\ b \notin orphans /\ b \notin givenUp' /\ platform'[b] \in Live
        BY <1>5 DEF InUse
      <4>2. b \notin givenUp /\ platform[b] \in Live
        BY <1>5, <2>1, <4>1, TypedIInv DEF Typed, Filed
      <4>3. proc[p].force /\ b = credentials
        BY <1>4, <2>7, <4>1, <4>2 DEF InUse
      <4> QED BY <1>5, <4>1, <4>3
    <3>2. InHand(a)'
      BY <2>3, <2>5, TypedIInv, OnlyOne DEF Lands, Moved, InHand, At, Mine, Typed
    <3>3. Matched' /\ pending' = NoJournal
      BY <1>2, <1>4, <2>7 DEF KeyIsSomewhere, Matched, identity
    <3>4. KeyIsSomewhere'
      BY <3>1, <3>2, <3>3 DEF KeyIsSomewhere
    <3>5. Holds(m)'
      BY <2>3, <2>5, <3>1, <3>3 DEF Lands, Holds, JournalIs, StillAbout, Alone, Publishing
    <3> QED BY <3>4, <3>5
  <2> QED BY <1>1, <1>2, <1>3, <2>5, <2>6, <2>7, TypedIInv, Whereabouts, Step DEF Lands, Typed
<1>6. ASSUME NEW a \in Unminted, platform' = [platform EXCEPT ![a] = "unclaimed"],
             Fault, orphans' = orphans \cup {a}, Exit(p, "failed"), UNCHANGED <<givenUp, crossed>>
      PROVE  IInv'
  <2>1. a \in Agents
    BY DEF Unminted
  <2>2. PICK m : Ends(p, m)
    BY <1>6, TypedIInv, ExitMoves DEF Typed
  <2>3. Filed' /\ Marked' /\ Counted'
    <3>1. platform' \in [Agents -> Usable \cup {"none", "gone"}]
      BY <1>6, <2>1, TypedIInv DEF Typed, Filed, Usable, Live
    <3> QED BY <1>2, <1>6, <2>1, <3>1, TypedIInv, Bounded DEF Typed, Filed, Marked, identity
  <2>4. ASSUME ~crossed PROVE KeyIsSomewhere' /\ Holds(m)'
    <3>1. InUse' \subseteq InUse
      BY <1>6, <2>1, TypedIInv DEF InUse, Typed, Filed
    <3>2. Spared /\ Matched' /\ InHandStill
      BY <1>2, <1>4, <2>2, <2>4, <3>1, TypedIInv, HandsStay
         DEF Spared, identity, KeyIsSomewhere, Matched, Ends, Moved, Typed
    <3>3. Holds(m)'
      BY <2>2, IdleHoldsNext DEF Ends, Registering, Publishing
    <3> QED BY <1>4, <2>4, <3>2, <3>3, SomewhereStays
  <2> QED BY <1>1, <1>2, <1>3, <1>6, <2>2, <2>3, <2>4, TypedIInv, Whereabouts, Step DEF Ends, Typed
<1>7. CASE Exit(p, "failed") /\ UNCHANGED <<platform, ghosts>> /\ (Fault \/ UNCHANGED bounds)
  BY <1>2, <1>7, CalmEnd DEF Calm
<1> QED BY <1>5, <1>6, <1>7 DEF Register, Fail

LEMMA SavePendingKeeps ==
    ASSUME IInv, NEW p \in Processes, SavePendingRegistration(p)
    PROVE  IInv'
<1>1. /\ proc[p].step = "journal" /\ p \in Connects /\ p \in Locking
      /\ Mine(p) \in Record /\ Sound(Mine(p)) /\ Mine(p).agent # None
      /\ proc[p].old \in 0 .. MaxAgents
  <2>1. proc[p].step = "journal"
    BY DEF SavePendingRegistration, At
  <2> QED BY <2>1, TypedIInv, Whereabouts DEF Typed, Kind, Registering, Mine, Locking, Memory
<1>2. /\ ~At(p, "idle")
      /\ UNCHANGED <<platform, credentials, registration, backup, payouts, givenUp, crossed>>
  BY <1>1 DEF At, SavePendingRegistration
<1>3. PICK j : j = [agent |-> Mine(p).agent, old |-> proc[p].old]
  OBVIOUS
<1>4. j \in Journal /\ j.agent = Mine(p).agent /\ j.old = proc[p].old /\ j.agent # None
      /\ j # NoJournal /\ j.agent \in Agents
  BY <1>1, <1>3, Numbers DEF Journal, NoJournal, Record
<1>5. Paid'
  BY <1>2, TypedIInv DEF Typed, Paid, payouts
<1>6. ASSUME ~crossed
      PROVE  KeyIsSomewhere /\ pending = NoJournal /\ InUse \subseteq {Mine(p).agent}
  BY <1>1, <1>2, <1>6, AtWork DEF Holds, JournalIs, Alone, Registering, Mine
<1>7. ASSUME NEW m, Moved(p, m), pending' = j, UNCHANGED orphans, Fault \/ UNCHANGED bounds,
             m.step = "idle" \/ (m.step = "credential" /\ m.record = Mine(p) /\ m.old = proc[p].old)
      PROVE  IInv'
  <2>1. Filed' /\ Marked' /\ Counted'
    BY <1>2, <1>4, <1>7, TypedIInv, Bounded DEF Typed, Filed, Marked
  <2>2. ASSUME ~crossed PROVE KeyIsSomewhere' /\ Holds(m)'
    <3>1. InUse' \subseteq {j.agent} /\ pending'.agent = j.agent /\ pending' # NoJournal
      BY <1>2, <1>4, <1>6, <1>7, <2>2 DEF InUse
    <3>2. KeyIsSomewhere'
      BY <3>1 DEF KeyIsSomewhere, Matched
    <3>3. Holds(m)'
      BY <1>3, <1>7 DEF Holds, JournalIs, StillAbout, Alone, Registering, Publishing
    <3> QED BY <3>2, <3>3
  <2> QED BY <1>1, <1>2, <1>5, <1>7, <2>1, <2>2, TypedIInv, Whereabouts, Step DEF Typed
<1>8. CASE pending' = j /\ Goto(p, "credential") /\ UNCHANGED <<lock, orphans, bounds>>
  <2>1. "credential" \in Steps \ {"idle"} /\ MayGo(p, "credential", Mine(p), proc[p].address)
    BY <1>1 DEF Steps, MayGo, Registering, Publishing
  <2>2. PICK m : Lands(p, m, "credential", Mine(p))
    BY <1>8, <2>1, TypedIInv, GotoMoves DEF Typed
  <2> QED BY <1>7, <1>8, <2>2 DEF Lands
<1>9. CASE pending' = j /\ Fault /\ Exit(p, "failed") /\ UNCHANGED orphans
  <2>1. PICK m : Ends(p, m)
    BY <1>9, TypedIInv, ExitMoves DEF Typed
  <2> QED BY <1>7, <1>9, <2>1 DEF Ends
<1>10. CASE Fault /\ Exit(p, "failed") /\ orphans' = orphans \cup {j.agent} /\ UNCHANGED pending
  <2>1. PICK m : Ends(p, m)
    BY <1>10, TypedIInv, ExitMoves DEF Typed
  <2>2. Filed' /\ Marked' /\ Counted'
    BY <1>2, <1>4, <1>10, TypedIInv, Bounded DEF Typed, Filed, Marked
  <2>3. ASSUME ~crossed PROVE KeyIsSomewhere' /\ Holds(m)'
    <3>1. InUse' = {}
      BY <1>2, <1>4, <1>6, <1>10, <2>3 DEF InUse
    <3>2. Matched'
      BY <1>2, <1>6, <1>10, <2>3 DEF KeyIsSomewhere, Matched
    <3>3. Holds(m)'
      BY <2>1, IdleHoldsNext DEF Ends, Registering, Publishing
    <3> QED BY <3>1, <3>2, <3>3 DEF KeyIsSomewhere
  <2> QED BY <1>1, <1>2, <1>5, <2>1, <2>2, <2>3, TypedIInv, Whereabouts, Step DEF Ends, Typed
<1> QED BY <1>3, <1>8, <1>9, <1>10 DEF SavePendingRegistration, Fail

(* While the journal is there, what becomes of the two files loses nobody. *)
LEMMA PublishStep ==
    ASSUME IInv, NEW p \in Processes, NEW m, Moved(p, m),
           proc[p].step \in {"credential", "record"},
           UNCHANGED <<platform, pending, payouts, ghosts>>, Fault \/ UNCHANGED bounds,
           credentials' \in {credentials, Mine(p).agent},
           registration' \in {registration, Absent, Mine(p)}, backup' \in BOOLEAN,
           \/ m.step = "idle"
           \/ /\ m.step \in {"credential", "record", "confirm"}
              /\ m.record = Mine(p) /\ m.old = proc[p].old
    PROVE  IInv'
<1>1. /\ p \in Locking /\ ~At(p, "idle")
      /\ Mine(p) \in Record /\ Sound(Mine(p)) /\ Mine(p).agent # None
  BY TypedIInv, Whereabouts DEF Typed, Kind, Publishing, At, Mine
<1>2. Mine(p).agent \in 0 .. Damaged
  BY <1>1, Numbers DEF Record
<1>3. Filed' /\ Paid' /\ Marked' /\ Counted' /\ crossed' = crossed
  BY <1>1, <1>2, IdleIs, TypedIInv, Bounded DEF Typed, Filed, Paid, Marked, payouts, ghosts
<1>4. ASSUME ~crossed PROVE KeyIsSomewhere' /\ Holds(m)'
  <2>1. KeyIsSomewhere /\ pending = [agent |-> Mine(p).agent, old |-> proc[p].old]
    BY <1>1, <1>4, AtWork DEF Holds, JournalIs, Publishing, Mine
  <2>2. pending' # NoJournal
    BY <1>1, <2>1 DEF NoJournal
  <2>3. InUse' \subseteq {pending'.agent}
    BY <2>1, <2>2 DEF KeyIsSomewhere, InUse, ghosts
  <2>4. KeyIsSomewhere'
    BY <2>2, <2>3 DEF KeyIsSomewhere, Matched
  <2>5. Holds(m)'
    BY <2>1 DEF Holds, JournalIs, StillAbout, Alone, Registering, Publishing
  <2> QED BY <2>4, <2>5
<1> QED BY <1>1, <1>3, <1>4, TypedIInv, Whereabouts, Step DEF Typed

LEMMA PublishKeyKeeps ==
    ASSUME IInv, NEW p \in Processes, PublishKey(p)
    PROVE  IInv'
<1>1. /\ proc[p].step = "credential" /\ p \in Locking /\ Mine(p).agent # None
  <2>1. proc[p].step = "credential"
    BY DEF PublishKey, At
  <2> QED BY <2>1, TypedIInv, Whereabouts DEF Typed, Kind, Publishing, Mine
<1>2. /\ UNCHANGED <<platform, pending, payouts, ghosts>> /\ (Fault \/ UNCHANGED bounds)
      /\ credentials' \in {credentials, Mine(p).agent}
      /\ registration' \in {registration, Absent, Mine(p)} /\ backup' \in BOOLEAN
  BY TypedIInv DEF PublishKey, WriteCredentials, Typed, Filed
<1>3. CASE Goto(p, "record") /\ UNCHANGED lock
  <2>1. "record" \in Steps \ {"idle"} /\ MayGo(p, "record", Mine(p), proc[p].address)
    BY <1>1 DEF Steps, MayGo, Registering, Publishing
  <2>2. PICK m : Lands(p, m, "record", Mine(p))
    BY <1>3, <2>1, TypedIInv, GotoMoves DEF Typed
  <2> QED BY <1>1, <1>2, <2>2, PublishStep DEF Lands
<1>4. CASE Exit(p, "failed")
  <2>1. PICK m : Ends(p, m)
    BY <1>4, TypedIInv, ExitMoves DEF Typed
  <2> QED BY <1>1, <1>2, <2>1, PublishStep DEF Ends
<1> QED BY <1>3, <1>4 DEF PublishKey, Fail

LEMMA PublishRecordKeeps ==
    ASSUME IInv, NEW p \in Processes, PublishRecord(p)
    PROVE  IInv'
<1>1. /\ proc[p].step = "record" /\ p \in Locking /\ Mine(p).agent # None
  <2>1. proc[p].step = "record"
    BY DEF PublishRecord, At
  <2> QED BY <2>1, TypedIInv, Whereabouts DEF Typed, Kind, Publishing, Mine
<1>2. /\ UNCHANGED <<platform, pending, payouts, ghosts>> /\ (Fault \/ UNCHANGED bounds)
      /\ credentials' \in {credentials, Mine(p).agent}
      /\ registration' \in {registration, Absent, Mine(p)} /\ backup' \in BOOLEAN
  BY TypedIInv DEF PublishRecord, Preserved, Typed, Filed
<1>3. CASE Goto(p, "confirm") /\ UNCHANGED lock
  <2>1. "confirm" \in Steps \ {"idle"} /\ MayGo(p, "confirm", Mine(p), proc[p].address)
    BY <1>1 DEF Steps, MayGo, Registering, Publishing
  <2>2. PICK m : Lands(p, m, "confirm", Mine(p))
    BY <1>3, <2>1, TypedIInv, GotoMoves DEF Typed
  <2> QED BY <1>1, <1>2, <2>2, PublishStep DEF Lands
<1>4. CASE Exit(p, "failed")
  <2>1. PICK m : Ends(p, m)
    BY <1>4, TypedIInv, ExitMoves DEF Typed
  <2> QED BY <1>1, <1>2, <2>1, PublishStep DEF Ends
<1>5. CASE UNCHANGED <<proc, lock>>
  <2>1. PICK m : m = proc[p]
    OBVIOUS
  <2>2. Become(p, m)
    BY <1>5, <2>1, TypedIInv DEF Typed, Manned, Become
  <2>3. Moved(p, m) /\ m.step = "record" /\ m.record = Mine(p) /\ m.old = proc[p].old
    BY <1>1, <1>5, <2>1, <2>2, TypedIInv DEF Typed, Manned, Moved, Mine
  <2> QED BY <1>1, <1>2, <2>3, PublishStep
<1> QED BY <1>3, <1>4, <1>5 DEF PublishRecord, Fail

LEMMA ConfirmKeeps ==
    ASSUME IInv, NEW p \in Processes, Confirm(p)
    PROVE  IInv'
<1>1. /\ proc[p].step = "confirm" /\ p \in Locking /\ Mine(p).agent # None
  <2>1. proc[p].step = "confirm"
    BY DEF Confirm, At
  <2> QED BY <2>1, TypedIInv, Whereabouts DEF Typed, Kind, Publishing, Mine
<1>2. ~At(p, "idle") /\ ~At(p, "journal") /\ Calm
  BY <1>1 DEF At, Confirm, Calm
<1>3. CASE credentials = Mine(p).agent /\ registration = Mine(p)
           /\ Goto(p, "clear") /\ UNCHANGED lock
  <2>1. "clear" \in Steps \ {"idle"} /\ MayGo(p, "clear", Mine(p), proc[p].address)
    BY <1>1 DEF Steps, MayGo, Registering, Publishing
  <2>2. PICK m : Lands(p, m, "clear", Mine(p))
    BY <1>3, <2>1, TypedIInv, GotoMoves DEF Typed
  <2>3. ASSUME ~crossed PROVE Holds(m)
    <3>1. KeyIsSomewhere /\ pending = [agent |-> Mine(p).agent, old |-> proc[p].old]
      BY <1>1, <1>2, <2>3, AtWork DEF Holds, JournalIs, Publishing, Mine
    <3>2. pending # NoJournal
      BY <1>1, <3>1 DEF NoJournal
    <3>3. InUse \subseteq {credentials} /\ About(Mine(p).agent)
      BY <1>3, <3>1, <3>2 DEF KeyIsSomewhere, About
    <3> QED BY <2>2, <3>1, <3>3 DEF Lands, Holds, JournalIs, StillAbout, Alone, Registering
  <2> QED BY <1>2, <2>2, <2>3, CalmStep DEF Lands
<1>4. CASE Exit(p, "failed")
  BY <1>2, <1>4, CalmEnd
<1> QED BY <1>3, <1>4 DEF Confirm, Fail

LEMMA ClearPendingKeeps ==
    ASSUME IInv, NEW p \in Processes, ClearPendingRegistration(p)
    PROVE  IInv'
<1>1. /\ proc[p].step = "clear" /\ p \in Locking /\ Mine(p).agent # None
  <2>1. proc[p].step = "clear"
    BY DEF ClearPendingRegistration, At
  <2> QED BY <2>1, TypedIInv, Whereabouts DEF Typed, Kind, Publishing, Mine
<1>2. ~At(p, "idle") /\ ~At(p, "journal")
      /\ UNCHANGED <<platform, credentials, registration, backup, payouts, ghosts>>
  BY <1>1 DEF At, ClearPendingRegistration
<1>3. CASE pending' = NoJournal /\ Goto(p, "key") /\ UNCHANGED <<lock, bounds>>
  <2>1. "key" \in Steps \ {"idle"} /\ MayGo(p, "key", Mine(p), proc[p].address)
    BY <1>1 DEF Steps, MayGo, Registering, Publishing
  <2>2. PICK m : Lands(p, m, "key", Mine(p))
    BY <1>3, <2>1, TypedIInv, GotoMoves DEF Typed
  <2>3. NoJournal \in Journal
    BY Numbers DEF NoJournal, Journal
  <2>4. Filed' /\ Paid' /\ Marked' /\ Counted' /\ crossed' = crossed
    BY <1>2, <1>3, <2>3, TypedIInv, Bounded DEF Typed, Filed, Paid, Marked, payouts, ghosts
  <2>5. ASSUME ~crossed PROVE KeyIsSomewhere' /\ Holds(m)'
    <3>1. InUse \subseteq {credentials} /\ About(Mine(p).agent)
      BY <1>1, <1>2, <2>5, AtWork DEF Holds, StillAbout, Alone, Mine
    <3>2. InUse' \subseteq {credentials'}
      BY <1>2, <3>1 DEF InUse, ghosts
    <3>3. Matched'
      BY <1>2, <3>1, <2>4 DEF Matched, About, Filed, Sound
    <3>4. KeyIsSomewhere'
      BY <1>3, <3>2, <3>3 DEF KeyIsSomewhere
    <3>5. Holds(m)'
      BY <2>2 DEF Lands, Holds, JournalIs, StillAbout, Alone, Registering, Publishing
    <3> QED BY <3>4, <3>5
  <2> QED BY <1>1, <1>2, <2>2, <2>4, <2>5, TypedIInv, Whereabouts, Step DEF Lands, Typed
<1>4. CASE Fault /\ Exit(p, "failed") /\ UNCHANGED pending
  BY <1>2, <1>4, CalmEnd DEF Calm, identity
<1> QED BY <1>3, <1>4 DEF ClearPendingRegistration, Fail

-----------------------------------------------------------------------------
(* Polling.                                                                *)

LEMMA PlatformKeyKeeps ==
    ASSUME IInv, NEW p \in Processes, PlatformKey(p)
    PROVE  IInv'
<1>1. /\ proc[p].step = "key" /\ Mine(p).agent # None /\ Mine(p) \in Record /\ Sound(Mine(p))
      /\ proc[p] \in Memory
  <2>1. proc[p].step = "key"
    BY DEF PlatformKey, At
  <2> QED BY <2>1, TypedIInv, Whereabouts DEF Typed, Kind, Mine
<1>2. ~At(p, "idle") /\ ~At(p, "journal") /\ Calm
  BY <1>1 DEF At, PlatformKey, Calm
<1>3. CASE /\ HasKey /\ UNCHANGED lock
           /\ Become(p, [proc[p] EXCEPT !.key = credentials, !.step = "poll"])
  <2>1. PICK k : k = credentials /\ k \in 0 .. Stranger
    BY <1>3, Numbers DEF HasKey
  <2>2. PICK m : m = [proc[p] EXCEPT !.key = k, !.step = "poll"]
    OBVIOUS
  <2>3. m \in Memory /\ m.step = "poll" /\ m.record = Mine(p)
    BY <1>1, <2>1, <2>2 DEF Memory, Steps, Mine
  <2>4. Moved(p, m)
    BY <1>1, <1>3, <2>1, <2>2, <2>3 DEF Moved, Fitting, Kind, Registering, Publishing
  <2>5. Holds(m)
    BY <2>3, IdleHolds DEF Registering, Publishing
  <2> QED BY <1>2, <2>4, <2>5, CalmStep
<1>4. CASE Exit(p, "failed")
  BY <1>2, <1>4, CalmEnd
<1> QED BY <1>3, <1>4 DEF PlatformKey, Fail

\* A poll, or the end.
LEMMA AgainMoves ==
    ASSUME IInv, NEW p \in Processes, Again(p, "ok"), Mine(p).agent # None
    PROVE  \E m : Moved(p, m) /\ m.step \in {"poll", "idle"}
<1>1. CASE Exit(p, "ok")
  <2>1. PICK m : Ends(p, m)
    BY <1>1, TypedIInv, ExitMoves DEF Typed
  <2> QED BY <2>1 DEF Ends
<1>2. CASE Goto(p, "poll") /\ UNCHANGED lock
  <2>1. "poll" \in Steps \ {"idle"} /\ MayGo(p, "poll", Mine(p), proc[p].address)
    BY DEF Steps, MayGo, Registering, Publishing
  <2>2. PICK m : Lands(p, m, "poll", Mine(p))
    BY <1>2, <2>1, TypedIInv, GotoMoves DEF Typed
  <2> QED BY <2>2 DEF Lands
<1> QED BY <1>1, <1>2 DEF Again

LEMMA PollKeeps ==
    ASSUME IInv, NEW p \in Processes, Poll(p)
    PROVE  IInv'
<1>1. /\ proc[p].step = "poll" /\ Mine(p).agent # None /\ Mine(p) \in Record /\ Sound(Mine(p))
  <2>1. proc[p].step = "poll"
    BY DEF Poll, At
  <2> QED BY <2>1, TypedIInv, Whereabouts DEF Typed, Kind, Mine
<1>2. ~At(p, "idle") /\ ~At(p, "journal") /\ Calm
  BY <1>1 DEF At, Poll, Calm
<1>3. PICK r : r = IF registration.agent = Mine(p).agent THEN registration ELSE Mine(p)
  OBVIOUS
<1>4. r \in Record /\ r.agent # None
  BY <1>1, <1>3, TypedIInv DEF Typed, Filed
<1>5. PICK s : s = Answer(r.agent, proc[p].key)
  OBVIOUS
<1>6. CASE s \in Usable /\ Hold(p, [r EXCEPT !.status = s], "save") /\ UNCHANGED lock
  <2>1. PICK n : n = [r EXCEPT !.status = s]
    OBVIOUS
  <2>2. n \in Record /\ Sound(n) /\ n.agent # None
    BY <1>4, <1>6, <2>1 DEF Record, Sound
  <2>3. "save" \in Steps \ {"idle"} /\ MayGo(p, "save", n, proc[p].address)
    BY <2>2 DEF Steps, MayGo, Registering, Publishing
  <2>4. PICK m : Lands(p, m, "save", n)
    BY <1>6, <2>1, <2>2, <2>3, TypedIInv, HoldMoves DEF Typed
  <2>5. Holds(m)
    BY <2>4, IdleHolds DEF Lands, Registering, Publishing
  <2> QED BY <1>2, <2>4, <2>5, CalmStep DEF Lands
<1>7. CASE Exit(p, "failed")
  BY <1>2, <1>7, CalmEnd
<1>8. CASE Again(p, "ok")
  <2>1. PICK m : Moved(p, m) /\ m.step \in {"poll", "idle"}
    BY <1>1, <1>8, AgainMoves
  <2>2. Holds(m)
    BY <2>1, IdleHolds DEF Registering, Publishing
  <2> QED BY <1>2, <2>1, <2>2, CalmStep
<1> QED BY <1>3, <1>5, <1>6, <1>7, <1>8 DEF Poll, Fail

(* A record written by who may be crossed: of the same agent, or crossed.  *)
LEMMA CrossingStep ==
    ASSUME IInv, NEW p \in Processes, NEW m, Moved(p, m), ~At(p, "idle"), ~At(p, "journal"),
           registration' = Mine(p), Mine(p).agent # None, Crosses(p),
           UNCHANGED <<platform, credentials, backup, pending, payouts, orphans, givenUp>>,
           Fault \/ UNCHANGED bounds,
           m.step \notin Registering \cup Publishing
    PROVE  IInv'
<1>1. /\ Mine(p) \in Record /\ Sound(Mine(p)) /\ Mine(p).agent \in Agents
      /\ Mine(p).status \in Usable
  <2>1. Mine(p) \in Record /\ Sound(Mine(p))
    BY TypedIInv, Whereabouts DEF Typed
  <2> QED BY <2>1, Numbers DEF Sound, Record
<1>2. Filed' /\ Paid' /\ Marked' /\ Counted' /\ (~crossed' => ~crossed)
  BY <1>1, TypedIInv, Bounded DEF Typed, Filed, Paid, Marked, payouts, Crosses
<1>3. ASSUME ~crossed' PROVE KeyIsSomewhere' /\ Holds(m)' /\ Spared /\ Followed
  <2>1. /\ registration.agent = None => Mine(p).agent = credentials
        /\ registration.agent # None => Mine(p).agent = registration.agent
    BY <1>3 DEF Crosses
  <2>2. KeyIsSomewhere
    BY <1>2, <1>3, Uncrossed DEF Identity
  <2>3. Matched'
    <3>1. Matched /\ Sound(registration)
      BY <2>2, TypedIInv DEF KeyIsSomewhere, Typed, Filed
    <3> QED BY <2>1, <3>1 DEF Matched, Sound
  <2>4. Followed
    BY <1>1, <2>1 DEF Followed, About
  <2>5. Spared /\ InHandStill
    BY TypedIInv, HandsStay DEF Spared, InUse, Moved, Typed
  <2>6. Holds(m)'
    BY IdleHoldsNext
  <2> QED BY <2>2, <2>3, <2>4, <2>5, <2>6, SomewhereStays
<1> QED BY <1>2, <1>3, Step

LEMMA SavePolledKeeps ==
    ASSUME IInv, NEW p \in Processes, SavePolled(p)
    PROVE  IInv'
<1>1. /\ proc[p].step = "save" /\ Mine(p).agent # None /\ Mine(p) \in Record /\ Sound(Mine(p))
      /\ proc[p] \in Memory
  <2>1. proc[p].step = "save"
    BY DEF SavePolled, At
  <2> QED BY <2>1, TypedIInv, Whereabouts DEF Typed, Kind, Mine
<1>2. /\ ~At(p, "idle") /\ ~At(p, "journal") /\ (Fault \/ UNCHANGED bounds)
      /\ UNCHANGED <<platform, credentials, backup, pending, payouts, orphans, givenUp>>
  BY <1>1 DEF At, SavePolled
<1>3. ASSUME NEW m, Moved(p, m), m.step \in {"poll", "standing", "idle"},
             registration' = Mine(p) /\ Crosses(p)
      PROVE  IInv'
  <2>1. m.step \notin Registering \cup Publishing
    BY <1>3 DEF Registering, Publishing
  <2> QED BY <1>1, <1>2, <1>3, <2>1, CrossingStep
<1>4. CASE registration' = Mine(p) /\ Crosses(p) /\ Again(p, "ok")
  <2>1. PICK m : Moved(p, m) /\ m.step \in {"poll", "idle"}
    BY <1>1, <1>4, AgainMoves
  <2> QED BY <1>3, <1>4, <2>1
<1>5. CASE /\ registration' = Mine(p) /\ Crosses(p) /\ Undeclared /\ UNCHANGED lock
           /\ Become(p, [proc[p] EXCEPT !.address = payout, !.step = "standing"])
  <2>1. PICK a \in Addresses : a = payout
    BY <1>5, TypedIInv DEF Undeclared, Typed, Paid
  <2>2. PICK m : m = [proc[p] EXCEPT !.address = a, !.step = "standing"]
    OBVIOUS
  <2>3. m \in Memory /\ m.step = "standing" /\ m.record = Mine(p) /\ m.address \in Addresses
    BY <1>1, <2>1, <2>2 DEF Memory, Steps, Mine
  <2>4. Moved(p, m)
    BY <1>1, <1>5, <2>1, <2>2, <2>3 DEF Moved, Fitting, Kind, Registering, Publishing
  <2> QED BY <1>3, <1>5, <2>3, <2>4
<1>6. CASE registration' = Mine(p) /\ Crosses(p) /\ (Exit(p, "ok") \/ Exit(p, "failed"))
  <2>1. PICK m : Ends(p, m)
    BY <1>6, TypedIInv, ExitMoves DEF Typed
  <2> QED BY <1>3, <1>6, <2>1 DEF Ends
<1>7. CASE Exit(p, "failed") /\ UNCHANGED <<registration, crossed>>
  BY <1>2, <1>7, CalmEnd DEF Calm, identity, ghosts
<1> QED BY <1>4, <1>5, <1>6, <1>7 DEF SavePolled, Fail

LEMMA StandingKeeps ==
    ASSUME IInv, NEW p \in Processes, Standing(p)
    PROVE  IInv'
<1>1. proc[p].step = "standing" /\ Mine(p).agent # None /\ proc[p].address \in Addresses
  <2>1. proc[p].step = "standing"
    BY DEF Standing, At
  <2> QED BY <2>1, TypedIInv, Whereabouts DEF Typed, Kind, Mine
<1>2. ~At(p, "idle") /\ ~At(p, "journal") /\ Calm
  BY <1>1 DEF At, Standing, Calm
<1>3. ASSUME NEW s \in {"note", "declare"}, Goto(p, s), UNCHANGED lock PROVE IInv'
  <2>1. s \in Steps \ {"idle"} /\ MayGo(p, s, Mine(p), proc[p].address)
    BY <1>1 DEF Steps, MayGo, Registering, Publishing
  <2>2. PICK m : Lands(p, m, s, Mine(p))
    BY <1>3, <2>1, TypedIInv, GotoMoves DEF Typed
  <2>3. Holds(m)
    BY <2>2, IdleHolds DEF Lands, Registering, Publishing
  <2> QED BY <1>2, <2>2, <2>3, CalmStep DEF Lands
<1>4. CASE Exit(p, "ok")
  BY <1>2, <1>4, CalmEnd
<1> QED BY <1>3, <1>4 DEF Standing

LEMMA DeclareKeeps ==
    ASSUME IInv, NEW p \in Processes, DeclarePayoutAddress(p)
    PROVE  IInv'
<1>1. proc[p].step = "declare" /\ Mine(p).agent # None /\ proc[p].address \in Addresses
  <2>1. proc[p].step = "declare"
    BY DEF DeclarePayoutAddress, At
  <2> QED BY <2>1, TypedIInv, Whereabouts DEF Typed, Kind, Mine
<1>2. /\ ~At(p, "idle") /\ ~At(p, "journal") /\ Untouched
      /\ UNCHANGED <<payout, declared>> /\ (Fault \/ UNCHANGED bounds)
      /\ Accepts(p) \/ UNCHANGED <<active, inForce>>
  BY <1>1 DEF At, DeclarePayoutAddress, Untouched, ghosts
<1>3. Paid' /\ Counted'
  BY <1>1, <1>2, TypedIInv, Bounded DEF Typed, Paid, Accepts, InForce
<1>4. CASE Goto(p, "note") /\ UNCHANGED lock
  <2>1. "note" \in Steps \ {"idle"} /\ MayGo(p, "note", Mine(p), proc[p].address)
    BY <1>1 DEF Steps, MayGo, Registering, Publishing
  <2>2. PICK m : Lands(p, m, "note", Mine(p))
    BY <1>4, <2>1, TypedIInv, GotoMoves DEF Typed
  <2>3. Holds(m)
    BY <2>2, IdleHolds DEF Lands, Registering, Publishing
  <2> QED BY <1>2, <1>3, <2>2, <2>3, UntouchedStep DEF Lands
<1>5. CASE Exit(p, "ok")
  <2>1. PICK m : Ends(p, m)
    BY <1>5, TypedIInv, ExitMoves DEF Typed
  <2>2. Holds(m)
    BY <2>1, IdleHolds DEF Ends, Registering, Publishing
  <2> QED BY <1>2, <1>3, <2>1, <2>2, UntouchedStep DEF Ends
<1> QED BY <1>4, <1>5 DEF DeclarePayoutAddress

LEMMA NoteDeclaredKeeps ==
    ASSUME IInv, NEW p \in Processes, NoteDeclared(p)
    PROVE  IInv'
<1>1. proc[p].step = "note" /\ proc[p].address \in Addresses
  <2>1. proc[p].step = "note"
    BY DEF NoteDeclared, At
  <2> QED BY <2>1, TypedIInv, Whereabouts DEF Typed, Kind
<1>2. ~At(p, "idle") /\ ~At(p, "journal") /\ Untouched /\ Exit(p, "ok")
  BY <1>1 DEF At, NoteDeclared, Untouched, ghosts
<1>3. Paid' /\ Counted'
  BY <1>1, TypedIInv, Bounded DEF Typed, Paid, NoteDeclared
<1>4. PICK m : Ends(p, m)
  BY <1>2, TypedIInv, ExitMoves DEF Typed
<1>5. Holds(m)
  BY <1>4, IdleHolds DEF Ends, Registering, Publishing
<1> QED BY <1>2, <1>3, <1>4, <1>5, UntouchedStep DEF Ends

-----------------------------------------------------------------------------
(* mining enable.                                                          *)

LEMMA BeginEnableKeeps ==
    ASSUME IInv, NEW p \in Processes, BeginEnable(p)
    PROVE  IInv'
<1>1. /\ p \in Enables /\ At(p, "idle") /\ ~At(p, "journal") /\ Calm /\ lock' = lock
      /\ registration.status \in Usable /\ HasKey
      /\ Become(p, [Idle EXCEPT !.record = registration, !.key = credentials, !.step = "look"])
  BY DEF BeginEnable, Calm, At
<1>2. registration \in Record /\ Sound(registration) /\ registration.agent # None
  BY <1>1, TypedIInv DEF Typed, Filed, Sound
<1>3. PICK k : k = credentials /\ k \in 0 .. Stranger
  BY <1>1, Numbers DEF HasKey
<1>4. PICK m : m = [Idle EXCEPT !.record = registration, !.key = k, !.step = "look"]
  OBVIOUS
<1>5. m \in Memory /\ m.step = "look" /\ m.record = registration
  BY <1>2, <1>3, <1>4, IdleIs DEF Memory, Steps
<1>6. Moved(p, m)
  BY <1>1, <1>2, <1>3, <1>4, <1>5 DEF Moved, Fitting, Kind, Registering, Publishing
<1>7. Holds(m)
  BY <1>5, IdleHolds DEF Registering, Publishing
<1> QED BY <1>1, <1>6, <1>7, CalmStep

LEMMA LookKeeps ==
    ASSUME IInv, NEW p \in Processes, Look(p)
    PROVE  IInv'
<1>1. /\ proc[p].step = "look" /\ p \in Enables /\ Mine(p).agent # None
      /\ Mine(p) \in Record /\ Sound(Mine(p))
  <2>1. proc[p].step = "look"
    BY DEF Look, At
  <2> QED BY <2>1, TypedIInv, Whereabouts DEF Typed, Kind, Mine
<1>2. ~At(p, "idle") /\ ~At(p, "journal") /\ Calm /\ UNCHANGED lock
  BY <1>1 DEF At, Look, Calm
<1>3. ASSUME NEW s \in {"resave", "choose"}, NEW r \in Record, Sound(r), r.agent # None, Hold(p, r, s)
      PROVE  IInv'
  <2>1. s \in Steps \ {"idle"} /\ MayGo(p, s, r, proc[p].address)
    BY <1>1, <1>3 DEF Steps, MayGo, Registering, Publishing
  <2>2. PICK m : Lands(p, m, s, r)
    BY <1>2, <1>3, <2>1, TypedIInv, HoldMoves DEF Typed
  <2>3. Holds(m)
    BY <2>2, IdleHolds DEF Lands, Registering, Publishing
  <2> QED BY <1>2, <2>2, <2>3, CalmStep DEF Lands
<1>4. PICK s : s = Answer(Mine(p).agent, proc[p].key)
  OBVIOUS
<1>5. CASE s \in Usable /\ Hold(p, [Mine(p) EXCEPT !.status = s], "resave")
  <2>1. PICK r : r = [Mine(p) EXCEPT !.status = s]
    OBVIOUS
  <2>2. r \in Record /\ Sound(r) /\ r.agent # None
    BY <1>1, <1>5, <2>1 DEF Record, Sound
  <2> QED BY <1>3, <1>5, <2>1, <2>2
<1>6. CASE Goto(p, "choose")
  <2>1. Hold(p, Mine(p), "choose")
    BY <1>6, TypedIInv, Whereabouts DEF Hold, Goto, Mine, Memory, Become, Typed
  <2> QED BY <1>1, <1>3, <2>1
<1> QED BY <1>4, <1>5, <1>6 DEF Look

LEMMA ResaveKeeps ==
    ASSUME IInv, NEW p \in Processes, Resave(p)
    PROVE  IInv'
<1>1. /\ proc[p].step = "resave" /\ p \in Enables /\ Mine(p).agent # None
  <2>1. proc[p].step = "resave"
    BY DEF Resave, At
  <2> QED BY <2>1, TypedIInv, Whereabouts DEF Typed, Kind, Mine
<1>2. /\ ~At(p, "idle") /\ ~At(p, "journal") /\ UNCHANGED bounds
      /\ UNCHANGED <<platform, credentials, backup, pending, payouts, orphans, givenUp>>
      /\ registration' = Mine(p) /\ Crosses(p) /\ Goto(p, "choose") /\ UNCHANGED lock
  BY <1>1 DEF At, Resave
<1>3. "choose" \in Steps \ {"idle"} /\ MayGo(p, "choose", Mine(p), proc[p].address)
  BY <1>1 DEF Steps, MayGo, Registering, Publishing
<1>4. PICK m : Lands(p, m, "choose", Mine(p))
  BY <1>2, <1>3, TypedIInv, GotoMoves DEF Typed
<1>5. m.step \notin Registering \cup Publishing
  BY <1>4 DEF Lands, Registering, Publishing
<1> QED BY <1>1, <1>2, <1>4, <1>5, CrossingStep DEF Lands

LEMMA FinishKeeps ==
    ASSUME IInv, NEW p \in Processes, FinishMiningEnabled(p)
    PROVE  IInv'
<1>1. /\ proc[p].step = "choose" /\ p \in Enables /\ Mine(p).agent # None
  <2>1. proc[p].step = "choose"
    BY DEF FinishMiningEnabled, At
  <2> QED BY <2>1, TypedIInv, Whereabouts DEF Typed, Kind, Mine
<1>2. /\ ~At(p, "idle") /\ ~At(p, "journal") /\ Untouched
      /\ UNCHANGED <<lock, declared, active, inForce, bounds>>
      /\ payout' \in Addresses \cup {payout}
  BY <1>1 DEF At, FinishMiningEnabled, SavePayoutAddress, Untouched, ghosts
<1>3. Paid' /\ Counted'
  BY <1>2, TypedIInv, Bounded DEF Typed, Paid
<1>4. CASE Goto(p, "poll")
  <2>1. "poll" \in Steps \ {"idle"} /\ MayGo(p, "poll", Mine(p), proc[p].address)
    BY <1>1 DEF Steps, MayGo, Registering, Publishing
  <2>2. PICK m : Lands(p, m, "poll", Mine(p))
    BY <1>2, <1>4, <2>1, TypedIInv, GotoMoves DEF Typed
  <2>3. Holds(m)
    BY <2>2, IdleHolds DEF Lands, Registering, Publishing
  <2> QED BY <1>2, <1>3, <2>2, <2>3, UntouchedStep DEF Lands
<1>5. CASE Become(p, Idle)
  <2>1. PICK m : m = Idle
    OBVIOUS
  <2>2. m.step = "idle"
    BY <2>1 DEF Idle
  <2>3. Fitting(p, m)
    <3>1. Sound(Idle.record)
      BY IdleIs DEF Idle
    <3> QED BY <2>1, <2>2, <3>1, IdleIs DEF Fitting, Kind, Registering, Publishing
  <2>4. p # lock
    BY <1>1, TypedIInv, Whereabouts DEF Typed, Manned
  <2>5. Moved(p, m)
    BY <1>2, <1>5, <2>1, <2>3, <2>4 DEF Moved
  <2>6. Holds(m)
    BY <2>2, IdleHolds DEF Registering, Publishing
  <2> QED BY <1>2, <1>3, <2>5, <2>6, UntouchedStep
<1> QED BY <1>4, <1>5 DEF FinishMiningEnabled, Answered

LEMMA KillKeeps ==
    ASSUME IInv, NEW p \in Processes, Kill(p)
    PROVE  IInv'
<1>1. /\ ~At(p, "idle") /\ Fault /\ Exit(p, "failed")
      /\ UNCHANGED <<platform, identity, payouts, givenUp, crossed>>
      /\ orphans' = IF At(p, "journal") THEN orphans \cup {Mine(p).agent} ELSE orphans
  BY DEF Kill, Fail
<1>2. CASE ~At(p, "journal")
  BY <1>1, <1>2, CalmEnd DEF Calm, ghosts
<1>3. CASE At(p, "journal")
  <2>1. /\ p \in Locking /\ Mine(p) \in Record /\ Mine(p).agent \in Agents
    <3>1. /\ proc[p].step = "journal" /\ Mine(p) \in Record /\ p \in Connects
          /\ Mine(p).agent # None
      BY <1>3, TypedIInv, Whereabouts DEF Typed, Kind, Registering, Mine, At
    <3> QED BY <3>1, Numbers DEF Record, Locking
  <2>2. PICK m : Ends(p, m)
    BY <1>1, TypedIInv, ExitMoves DEF Typed
  <2>3. Filed' /\ Paid' /\ Marked' /\ Counted'
    BY <1>1, <1>3, <2>1, TypedIInv, Bounded DEF Typed, Filed, Paid, Marked, identity, payouts
  <2>4. ASSUME ~crossed PROVE KeyIsSomewhere' /\ Holds(m)'
    <3>1. Holds(proc[p]) /\ KeyIsSomewhere
      BY <1>1, <2>1, <2>4, AtWork
    <3>2. InUse \subseteq {Mine(p).agent} /\ pending = NoJournal /\ Matched
      BY <1>3, <3>1 DEF Holds, Alone, JournalIs, Registering, At, Mine, KeyIsSomewhere
    <3>3. InUse' = {}
      BY <1>1, <1>3, <3>2 DEF InUse
    <3>4. Matched' /\ pending' = NoJournal
      BY <1>1, <3>2 DEF Matched, identity
    <3>5. Holds(m)'
      BY <2>2, IdleHoldsNext DEF Ends, Registering, Publishing
    <3> QED BY <3>3, <3>4, <3>5 DEF KeyIsSomewhere
  <2> QED BY <1>1, <2>1, <2>2, <2>3, <2>4, TypedIInv, Whereabouts, Step DEF Ends, Typed
<1> QED BY <1>2, <1>3

-----------------------------------------------------------------------------
(* People and the platform.                                                *)

LEMMA OutsideStep ==
    ASSUME IInv, UNCHANGED <<proc, lock, crossed>>, Filed', Paid', Marked', Counted',
           ~crossed => Spared /\ Followed /\ Matched'
    PROVE  IInv'
<1>1. Typed'
  BY TypedIInv DEF Typed, Manned
<1>2. ASSUME ~crossed PROVE Identity'
  <2>1. Identity
    BY <1>2, Uncrossed
  <2>2. Exclusive'
    BY <2>1 DEF Identity, Exclusive, At
  <2>3. KeyIsSomewhere'
    <3>1. InHandStill
      BY DEF InHandStill, InHand, At, Mine
    <3> QED BY <1>2, <2>1, <3>1, SomewhereStays DEF Identity
  <2>4. ASSUME NEW q \in Locking PROVE Holds(proc[q])'
    <3>1. PICK n : n = proc[q]
      OBVIOUS
    <3>2. Holds(n)'
      BY <1>2, <2>1, <3>1, HoldsStays DEF Identity
    <3>3. proc'[q] = n
      BY <3>1
    <3> QED BY <3>2, <3>3 DEF Holds, JournalIs, StillAbout, Alone
  <2> QED BY <2>2, <2>3, <2>4 DEF Identity
<1> QED BY <1>1, <1>2, PartsNext DEF IInv

LEMMA LoginKeeps == ASSUME IInv, Login PROVE IInv'
<1>1. /\ Act /\ credentials' \in {None, Stranger} \cup ({registration.agent} \cap Agents)
      /\ givenUp' = givenUp \cup ({credentials} \cap Agents)
      /\ UNCHANGED <<platform, registration, backup, pending, lock, proc, payouts, orphans, crossed>>
  BY DEF Login
<1>2. credentials' \in 0 .. Damaged
  BY <1>1, Numbers DEF Keys
<1>3. Filed' /\ Paid' /\ Marked' /\ Counted'
  BY <1>1, <1>2, TypedIInv, Bounded DEF Typed, Filed, Paid, Marked, payouts
<1>4. credentials' \in Agents => credentials' = registration.agent /\ registration.agent # None
  BY <1>1, Numbers
<1>5. Spared
  BY <1>1 DEF Spared, InUse
<1>6. Followed
  BY <1>1, <1>4 DEF Followed, About
<1>7. Matched'
  BY <1>1, <1>4 DEF Matched
<1> QED BY <1>1, <1>3, <1>5, <1>6, <1>7, OutsideStep

\* The platform changes an agent's status, and brings none into use.
LEMMA StatusStep ==
    ASSUME IInv, NEW a \in Agents, NEW s \in Usable \cup {"gone"},
           platform' = [platform EXCEPT ![a] = s], s \in Live => platform[a] \in Live,
           UNCHANGED <<identity, lock, proc, payouts, ghosts>>, Act \/ UNCHANGED bounds
    PROVE  IInv'
<1>1. Filed' /\ Paid' /\ Marked' /\ Counted' /\ UNCHANGED crossed
  BY TypedIInv, Bounded DEF Typed, Filed, Paid, Marked, identity, payouts, ghosts
<1>2. InUse' \subseteq InUse
  BY TypedIInv DEF Typed, Filed, InUse, ghosts
<1>3. Spared /\ Followed /\ (Matched => Matched')
  BY <1>2 DEF Spared, Followed, About, Matched, identity
<1> QED BY <1>1, <1>3, Uncrossed, OutsideStep DEF Identity, KeyIsSomewhere

LEMMA PlatformKeeps == ASSUME IInv, Claim \/ Expire \/ Remove PROVE IInv'
<1>1. CASE Claim
  BY <1>1, StatusStep DEF Claim, Usable, Live
<1>2. CASE Expire
  BY <1>2, StatusStep DEF Expire, Usable, Live
<1>3. CASE Remove
  BY <1>3, StatusStep DEF Remove, Usable, Live
<1> QED BY <1>1, <1>2, <1>3

LEMMA InForceKeeps == ASSUME IInv, Activate \/ PayoutSet PROVE IInv'
<1>1. /\ UNCHANGED <<platform, identity, lock, proc, payout, declared, ghosts>> /\ Act
      /\ \E a \in Addresses : InForce(a)
  BY DEF Activate, PayoutSet
<1>2. Untouched /\ UNCHANGED <<proc, lock, crossed>>
  BY <1>1 DEF Untouched, ghosts
<1>3. Paid' /\ Counted'
  BY <1>1, TypedIInv, Bounded DEF Typed, Paid, InForce
<1> QED BY <1>2, <1>3, TypedIInv, UntouchedSpares, Uncrossed, OutsideStep
        DEF Typed, Identity, KeyIsSomewhere

LEMMA DamageKeeps == ASSUME IInv, Damage PROVE IInv'
<1>1. Fault /\ UNCHANGED <<platform, backup, pending, lock, proc, payouts, orphans, crossed>>
  BY DEF Damage
<1>2. Paid' /\ Counted'
  BY <1>1, TypedIInv, Bounded DEF Typed, Paid, payouts
<1>3. ASSUME ~crossed PROVE Matched
  BY <1>3, Uncrossed DEF Identity, KeyIsSomewhere
<1>4. CASE /\ registration' = [agent |-> None, status |-> "damaged"]
           /\ UNCHANGED <<credentials, givenUp>>
  <2>1. registration'.agent = None /\ registration'.status = "damaged"
    BY <1>4
  <2>2. registration' \in Record /\ Sound(registration')
    BY <1>4, <2>1, Numbers DEF Record, Sound, Usable, Live
  <2>3. Filed' /\ Marked'
    BY <1>1, <1>4, <2>2, TypedIInv DEF Typed, Filed, Marked
  <2>4. Spared /\ Followed
    BY <1>1, <1>4, <2>1 DEF Spared, Followed, InUse, About
  <2>5. Matched'
    BY <2>1 DEF Matched, Usable, Live
  <2> QED BY <1>1, <1>2, <2>3, <2>4, <2>5, OutsideStep
<1>5. CASE /\ credentials' = Damaged /\ UNCHANGED registration
           /\ givenUp' = givenUp \cup ({credentials} \cap Agents)
  <2>1. credentials' \in 0 .. Damaged /\ credentials' \notin Agents
    BY <1>5, Numbers DEF Keys
  <2>2. Filed' /\ Marked'
    BY <1>1, <1>5, <2>1, TypedIInv DEF Typed, Filed, Marked
  <2>3. Spared /\ Followed
    BY <1>1, <1>5, <2>1 DEF Spared, Followed, InUse, About
  <2>4. Matched'
    BY <2>1 DEF Matched
  <2> QED BY <1>1, <1>2, <2>2, <2>3, <2>4, OutsideStep
<1> QED BY <1>4, <1>5 DEF Damage

-----------------------------------------------------------------------------
(* The theorems.                                                           *)

LEMMA ContinueKeeps ==
    ASSUME IInv, NEW p \in Processes, Continue(p)
    PROVE  IInv'
BY RecoverKeeps, LoadKeeps, LoadNothingKeeps, MeKeeps, PreserveKeeps, RebuildKeeps, AskKeeps,
   VerifyKeeps, DecideKeeps, RegisterKeeps, SavePendingKeeps, PublishKeyKeeps, PublishRecordKeeps,
   ConfirmKeeps, ClearPendingKeeps, PlatformKeyKeeps, PollKeeps, SavePolledKeeps, StandingKeeps,
   DeclareKeeps, NoteDeclaredKeeps, LookKeeps, ResaveKeeps, FinishKeeps DEF Continue

LEMMA OutsideKeeps == ASSUME IInv, Outside PROVE IInv'
BY LoginKeeps, PlatformKeeps, InForceKeeps, DamageKeeps DEF Outside

LEMMA StutterKeeps == ASSUME IInv, UNCHANGED vars PROVE IInv'
<1>1. Untouched /\ UNCHANGED <<proc, lock, crossed>>
  BY DEF vars, Untouched, ghosts
<1>2. Paid' /\ Counted'
  BY TypedIInv, Bounded DEF Typed, Paid, vars, payouts
<1> QED BY <1>1, <1>2, TypedIInv, UntouchedSpares, Uncrossed, OutsideStep
        DEF Typed, Identity, KeyIsSomewhere

LEMMA NextKeeps == IInv /\ [Next]_vars => IInv'
<1> SUFFICES ASSUME IInv, [Next]_vars PROVE IInv'
  OBVIOUS
<1>1. ASSUME NEW p \in Processes, Begin(p) \/ BeginEnable(p) \/ Continue(p) \/ Kill(p)
      PROVE  IInv'
  BY <1>1, BeginKeeps, BeginEnableKeeps, ContinueKeeps, KillKeeps
<1> QED BY <1>1, OutsideKeeps, StutterKeeps DEF Next

LEMMA QuietManned ==
    ASSUME lock = Nobody, proc = [p \in Processes |-> Idle]
    PROVE  Manned /\ \A p \in Processes : proc[p].step = "idle"
<1>1. \A p \in Processes : proc[p] = Idle
  OBVIOUS
<1>2. Idle.step = "idle" /\ Sound(Idle.record)
  BY IdleIs DEF Idle
<1>3. \A p \in Processes : Fitting(p, Idle)
  BY <1>2, IdleIs DEF Fitting, Kind, Registering, Publishing
<1> QED BY <1>1, <1>2, <1>3, IdleIs DEF Manned

LEMMA Starts == Init => IInv
<1> SUFFICES ASSUME Init PROVE IInv
  OBVIOUS
<1>1. Manned /\ \A p \in Processes : proc[p].step = "idle"
  BY QuietManned DEF Init, Quiet
<1>2. Filed
  <2>1. NoJournal \in Journal
    BY Numbers DEF NoJournal, Journal
  <2>2. None \in 0 .. Damaged
    BY Numbers
  <2> QED BY <2>1, <2>2, IdleIs DEF Init, Fresh, Filed
<1>3. Paid /\ Marked /\ Counted
  <2>1. Paid /\ Marked
    BY DEF Init, Quiet, Paid, Marked
  <2>2. 0 \in 0 .. MaxFaults /\ 0 \in 0 .. MaxActs
    BY Numbers
  <2>3. Counted
    BY <2>2 DEF Init, Quiet, Counted
  <2> QED BY <2>1, <2>3
<1>4. InUse = {}
  BY DEF Init, Fresh, InUse, Live
<1>5. Matched
  BY Numbers DEF Init, Fresh, Matched
<1>6. KeyIsSomewhere
  BY <1>4, <1>5 DEF KeyIsSomewhere
<1>7. Exclusive /\ \A p \in Locking : Holds(proc[p])
  <2>1. \A p \in Locking : proc[p].step = "idle"
    BY <1>1 DEF Locking, Processes
  <2> QED BY <2>1 DEF Exclusive, At, Holds, JournalIs, StillAbout, Alone, Registering, Publishing
<1> QED BY <1>1, <1>2, <1>3, <1>6, <1>7, Parts DEF IInv, Typed, Identity

LEMMA Alive == IInv /\ ~crossed => \A a, b \in InUse : a = b
<1> SUFFICES ASSUME IInv, ~crossed, NEW a \in InUse, NEW b \in InUse PROVE a = b
  OBVIOUS
<1>1. Identity /\ None \notin InUse
  BY Uncrossed, Numbers DEF InUse
<1>2. CASE pending # NoJournal
  BY <1>1, <1>2 DEF Identity, KeyIsSomewhere
<1>3. CASE pending = NoJournal /\ \E q \in Processes : At(q, "journal")
  <2>1. PICK q \in Processes : proc[q].step = "journal"
    BY <1>3 DEF At
  <2>2. q \in Locking
    BY <2>1, TypedIInv, Whereabouts DEF Typed, Kind, Registering, Locking
  <2>3. InUse \subseteq {Mine(q).agent}
    BY <1>1, <2>1, <2>2 DEF Identity, Holds, Alone, Mine
  <2> QED BY <2>3
<1>4. CASE pending = NoJournal /\ ~\E q \in Processes : At(q, "journal")
  <2>1. pending.agent = None
    BY <1>4 DEF NoJournal
  <2> QED BY <1>1, <1>4, <2>1 DEF Identity, KeyIsSomewhere, InHand
<1> QED BY <1>2, <1>3, <1>4

LEMMA OneInUse == IInv => OneAgentInUse
<1> SUFFICES ASSUME IInv PROVE OneAgentInUse
  OBVIOUS
<1>1. TypeOK
  BY DEF IInv
<1>2. ASSUME ~crossed PROVE Cardinality(InUse) <= 1
  <2>1. CASE InUse = {}
    BY <2>1, FS_EmptySet
  <2>2. CASE InUse # {}
    <3>1. PICK a : InUse = {a}
      BY <1>2, <2>2, Alive
    <3> QED BY <3>1, FS_Singleton
  <2> QED BY <2>1, <2>2
<1> QED BY <1>1, <1>2 DEF OneAgentInUse, InUse

LEMMA KeyKept == IInv => KeyIsKept
BY DEF IInv, Identity, KeyIsSomewhere, Matched, KeyIsKept, InUse

(* Between any two steps of connect, its resumes, mining enable, login and *)
(* the platform, agents, files and lock are as IInv says.                  *)
THEOREM IdentityInvariant == Spec => []IInv
<1>1. Init => IInv
  BY Starts
<1> QED BY <1>1, NextKeeps, PTL DEF Spec

(* connect.go, connectRun, startRegistration: however many commands race,  *)
(* are killed or fail, the installation has one agent in use unless one    *)
(* was given up, lost before its journal, or crossed.                      *)
THEOREM AgentIsOne == Spec => []OneAgentInUse
BY IdentityInvariant, OneInUse, PTL

(* connect.go, publishRegistration: the key of the agent in use is on      *)
(* file, in the journal or in hand, and without a journal the two files    *)
(* name the same agent.                                                    *)
THEOREM KeyIsNeverLost == Spec => []KeyIsKept
BY IdentityInvariant, KeyKept, PTL

-----------------------------------------------------------------------------
(* The declaration.                                                        *)

\* p goes somewhere else than to the note.
Unnoted(p) == \E m : Become(p, m) /\ m.step # "note"

LEMMA UnnotedMoves ==
    ASSUME Manned, NEW p \in Processes
    PROVE  /\ \A s, r : Hold(p, r, s) /\ s # "note" => Unnoted(p)
           /\ \A s : Goto(p, s) /\ s # "note" => Unnoted(p)
           /\ \A code : Exit(p, code) => Unnoted(p)
<1>1. proc[p] \in Memory
  BY Whereabouts
<1>2. ASSUME NEW s, NEW r, Hold(p, r, s), s # "note" PROVE Unnoted(p)
  <2>1. [proc[p] EXCEPT !.record = r, !.step = s].step = s
    BY <1>1 DEF Memory
  <2> QED BY <1>2, <2>1 DEF Hold, Unnoted
<1>3. ASSUME NEW s, Goto(p, s), s # "note" PROVE Unnoted(p)
  <2>1. [proc[p] EXCEPT !.step = s].step = s
    BY <1>1 DEF Memory
  <2> QED BY <1>3, <2>1 DEF Goto, Unnoted
<1>4. ASSUME NEW code, Exit(p, code) PROVE Unnoted(p)
  <2>1. PICK c : c = IF p \in Connects THEN code ELSE ""
    OBVIOUS
  <2>2. Become(p, [Idle EXCEPT !.ended = c])
    BY <1>4, <2>1 DEF Exit
  <2>3. [Idle EXCEPT !.ended = c].step = "idle"
    BY DEF Idle
  <2> QED BY <2>2, <2>3 DEF Unnoted
<1> QED BY <1>2, <1>3, <1>4

LEMMA MostElsewhere ==
    ASSUME Manned, NEW p \in Processes,
           \/ Begin(p) \/ BeginEnable(p) \/ Kill(p)
           \/ Recover(p) \/ Load(p) \/ LoadNothing(p) \/ Me(p) \/ Preserve(p) \/ Rebuild(p)
           \/ Ask(p) \/ Verify(p) \/ Decide(p) \/ Register(p) \/ SavePendingRegistration(p)
           \/ PublishKey(p) \/ PublishRecord(p) \/ Confirm(p) \/ ClearPendingRegistration(p)
           \/ PlatformKey(p) \/ Poll(p) \/ SavePolled(p)
           \/ Look(p) \/ Resave(p) \/ FinishMiningEnabled(p)
    PROVE  (Unnoted(p) \/ UNCHANGED proc) /\ UNCHANGED <<declared, active, inForce>>
<1>1. proc[p] \in Memory
  BY Whereabouts
<1>2. CASE Begin(p)
  <2>1. /\ [Idle EXCEPT !.step = "load"].step = "load"
        /\ [Idle EXCEPT !.step = "load", !.force = TRUE].step = "load"
    BY IdleIs DEF Memory
  <2> QED BY <1>2, <2>1 DEF Begin, Unnoted, payouts
<1>3. CASE BeginEnable(p)
  <2>1. [Idle EXCEPT !.record = registration, !.key = credentials, !.step = "look"].step = "look"
    BY IdleIs DEF Memory
  <2> QED BY <1>3, <2>1 DEF BeginEnable, Unnoted, payouts
<1>4. CASE Kill(p)
  BY <1>4, UnnotedMoves DEF Kill, Fail, payouts
<1>5. CASE Recover(p)
  <2>1. PICK r, o : /\ r = [agent |-> pending.agent, status |-> "unclaimed"]
                    /\ o = pending.old
    OBVIOUS
  <2>2. [proc[p] EXCEPT !.record = r, !.old = o, !.force = FALSE,
                        !.step = "credential"].step = "credential"
    BY <1>1 DEF Memory
  <2> QED BY <1>5, <2>1, <2>2 DEF Recover, Unnoted, payouts
<1>6. CASE Load(p)
  BY <1>6, UnnotedMoves DEF Load, After, payouts
<1>7. CASE LoadNothing(p)
  <2>1. [proc[p] EXCEPT !.record = registration, !.key = credentials, !.step = "me"].step = "me"
    BY <1>1 DEF Memory
  <2>2. Become(p, [proc[p] EXCEPT !.record = registration, !.key = credentials, !.step = "me"])
            => Unnoted(p)
    BY <2>1 DEF Unnoted
  <2> QED BY <1>7, <2>2, UnnotedMoves DEF LoadNothing, Fail, payouts
<1>8. CASE Me(p)
  BY <1>8, UnnotedMoves DEF Me, Fail, payouts
<1>9. CASE Preserve(p) \/ Decide(p) \/ Confirm(p) \/ ClearPendingRegistration(p)
  BY <1>9, UnnotedMoves DEF Preserve, Decide, Confirm, ClearPendingRegistration, Fail, payouts
<1>10. CASE Rebuild(p)
  BY <1>10, UnnotedMoves DEF Rebuild, After, Fail, payouts
<1>11. CASE Ask(p)
  BY <1>11, UnnotedMoves DEF Ask, Fail, payouts
<1>12. CASE Verify(p)
  <2>1. \A a : [proc[p] EXCEPT !.old = a, !.step = "decide"].step = "decide"
    BY <1>1 DEF Memory
  <2>2. \A a : Become(p, [proc[p] EXCEPT !.old = a, !.step = "decide"]) => Unnoted(p)
    BY <2>1 DEF Unnoted
  <2> QED BY <1>12, <2>2, UnnotedMoves DEF Verify, Fail, payouts
<1>13. CASE Register(p)
  BY <1>13, UnnotedMoves DEF Register, Fail, payouts
<1>14. CASE SavePendingRegistration(p)
  BY <1>14, UnnotedMoves DEF SavePendingRegistration, Fail, payouts
<1>15. CASE PublishKey(p)
  BY <1>15, UnnotedMoves DEF PublishKey, Fail, payouts
<1>16. CASE PublishRecord(p)
  BY <1>16, UnnotedMoves DEF PublishRecord, Fail, payouts
<1>17. CASE PlatformKey(p)
  <2>1. \A k : [proc[p] EXCEPT !.key = k, !.step = "poll"].step = "poll"
    BY <1>1 DEF Memory
  <2>2. \A k : Become(p, [proc[p] EXCEPT !.key = k, !.step = "poll"]) => Unnoted(p)
    BY <2>1 DEF Unnoted
  <2> QED BY <1>17, <2>2, UnnotedMoves DEF PlatformKey, Fail, payouts
<1>18. CASE Poll(p)
  BY <1>18, UnnotedMoves DEF Poll, Again, Fail, payouts
<1>19. CASE SavePolled(p)
  <2>1. \A a : [proc[p] EXCEPT !.address = a, !.step = "standing"].step = "standing"
    BY <1>1 DEF Memory
  <2>2. \A a : Become(p, [proc[p] EXCEPT !.address = a, !.step = "standing"]) => Unnoted(p)
    BY <2>1 DEF Unnoted
  <2> QED BY <1>19, <2>2, UnnotedMoves DEF SavePolled, Again, Fail, payouts
<1>20. CASE Look(p) \/ Resave(p)
  BY <1>20, UnnotedMoves DEF Look, Resave, payouts
<1>21. CASE FinishMiningEnabled(p)
  <2>1. Idle.step # "note"
    BY DEF Idle
  <2> QED BY <1>21, <2>1, UnnotedMoves DEF FinishMiningEnabled, Answered, Unnoted
<1> QED BY <1>2, <1>3, <1>4, <1>5, <1>6, <1>7, <1>8, <1>9, <1>10, <1>11, <1>12, <1>13, <1>14,
           <1>15, <1>16, <1>17, <1>18, <1>19, <1>20, <1>21

LEMMA AddressedKeeps ==
    ASSUME IInv, Addressed, [Next]_vars
    PROVE  Addressed'
<1>1. Manned /\ Paid
  BY TypedIInv DEF Typed
<1>2. ASSUME NEW p \in Processes, Unnoted(p) \/ UNCHANGED proc, UNCHANGED <<declared, active, inForce>>
      PROVE  Addressed'
  <2>1. \A q \in Processes : At(q, "note")' => At(q, "note") /\ proc'[q] = proc[q]
    <3>1. CASE UNCHANGED proc
      BY <3>1 DEF At
    <3>2. CASE Unnoted(p)
      BY <1>1, <3>2, OnlyOne DEF Unnoted, At
    <3> QED BY <1>2, <3>1, <3>2
  <2> QED BY <1>2, <2>1 DEF Addressed
<1>3. ASSUME NEW p \in Processes, Standing(p) PROVE Addressed'
  <2>1. UNCHANGED <<declared, active, inForce>>
    BY <1>3 DEF Standing, payouts
  <2>2. CASE active = proc[p].address /\ Goto(p, "note")
    <3>1. PICK m : m = [proc[p] EXCEPT !.step = "note"]
      OBVIOUS
    <3>2. m.step = "note" /\ m.address = proc[p].address /\ Become(p, m)
      BY <1>1, <2>2, <3>1, Whereabouts DEF Memory, Goto
    <3>3. proc[p].address # NoAddress
      <4>1. proc[p].address \in Addresses
        BY <1>1, <1>3, Whereabouts DEF Kind, Standing, At
      <4> QED BY <4>1, OnboardingAssumption
    <3>4. m.address \in inForce
      BY <2>2, <3>2, <3>3 DEF Addressed
    <3> QED BY <1>1, <2>1, <3>2, <3>4, OnlyOne DEF Addressed, At
  <2>3. CASE Exit(p, "ok") \/ Goto(p, "declare")
    BY <1>1, <1>2, <2>1, <2>3, UnnotedMoves
  <2> QED BY <1>3, <2>2, <2>3 DEF Standing
<1>4. ASSUME NEW p \in Processes, DeclarePayoutAddress(p) PROVE Addressed'
  <2>1. /\ declared' = declared /\ inForce \subseteq inForce'
        /\ active' # NoAddress => active' \in inForce'
    BY <1>4 DEF DeclarePayoutAddress, Accepts, InForce, Addressed
  <2>2. CASE active \in {NoAddress, proc[p].address} /\ Accepts(p) /\ Goto(p, "note")
    <3>1. PICK m : m = [proc[p] EXCEPT !.step = "note"]
      OBVIOUS
    <3>2. m.step = "note" /\ m.address = proc[p].address /\ Become(p, m)
      BY <1>1, <2>2, <3>1, Whereabouts DEF Memory, Goto
    <3>3. proc[p].address # NoAddress
      <4>1. proc[p].address \in Addresses
        BY <1>1, <1>4, Whereabouts DEF Kind, DeclarePayoutAddress, At
      <4> QED BY <4>1, OnboardingAssumption
    <3>4. m.address \in inForce'
      BY <2>2, <3>2, <3>3 DEF Addressed, Accepts, InForce
    <3> QED BY <1>1, <2>1, <3>2, <3>4, OnlyOne DEF Addressed, At
  <2>3. CASE Exit(p, "ok")
    <3>1. Unnoted(p)
      BY <1>1, <2>3, UnnotedMoves
    <3> QED BY <1>1, <2>1, <3>1, OnlyOne DEF Addressed, At, Unnoted
  <2> QED BY <1>4, <2>2, <2>3 DEF DeclarePayoutAddress
<1>5. ASSUME NEW p \in Processes, NoteDeclared(p) PROVE Addressed'
  <2>1. /\ declared' \in {declared, proc[p].address} /\ UNCHANGED <<active, inForce>>
        /\ proc[p].address \in inForce
    BY <1>5 DEF NoteDeclared, Addressed
  <2>2. Unnoted(p)
    BY <1>1, <1>5, UnnotedMoves DEF NoteDeclared
  <2> QED BY <1>1, <2>1, <2>2, OnlyOne DEF Addressed, At, Unnoted
<1>6. CASE Outside
  <2>1. /\ proc' = proc /\ declared' = declared /\ inForce \subseteq inForce'
        /\ active' = active \/ active' \in inForce'
    <3>1. CASE Activate \/ PayoutSet
      BY <3>1 DEF Activate, PayoutSet, InForce
    <3>2. CASE Login \/ Claim \/ Expire \/ Remove \/ Damage
      BY <3>2 DEF Login, Claim, Expire, Remove, Damage, payouts
    <3> QED BY <1>6, <3>1, <3>2 DEF Outside
  <2> QED BY <2>1 DEF Addressed, At
<1>7. CASE UNCHANGED vars
  BY <1>7 DEF Addressed, At, vars, payouts
<1>8. ASSUME NEW p \in Processes, Begin(p) \/ BeginEnable(p) \/ Kill(p) \/ Continue(p)
      PROVE  Addressed'
  BY <1>1, <1>2, <1>3, <1>4, <1>5, <1>8, MostElsewhere DEF Continue
<1> QED BY <1>6, <1>7, <1>8 DEF Next

(* connect.go, declarePayoutIfSafe: an address is noted as declared only   *)
(* when the server had it in force, whatever the races with payout set and *)
(* the operator's activations.                                             *)
THEOREM NotedWasInForce == Spec => []DeclaredWasInForce
<1>1. Init => Addressed
  <2> SUFFICES ASSUME Init PROVE Addressed
    OBVIOUS
  <2>1. \A p \in Processes : proc[p].step = "idle"
    BY QuietManned DEF Init, Quiet
  <2> QED BY <2>1 DEF Init, Quiet, Addressed, At
<1>2. Addressed => DeclaredWasInForce
  BY DEF Addressed, DeclaredWasInForce
<1> QED BY <1>1, <1>2, AddressedKeeps, IdentityInvariant, PTL DEF Spec

-----------------------------------------------------------------------------
(* Setup: the type invariant by parts.                                     *)

Housed ==
    /\ wallet \in Wallets /\ source \in Source
    /\ asides \in [states : SUBSET Dir, wallet : BOOLEAN]
    /\ spooled \in {"none", "home", "source"}
    /\ setup \in Setting /\ torn \in BOOLEAN /\ beside \in BOOLEAN

\* The connect in a setup runs only there.
Apart == ~In("connecting") => At(InSetup, "idle")

LEMMA SetupParts == STypeOK /\ Recorded <=> Typed /\ Housed /\ Apart
BY Parts DEF STypeOK, Housed, Apart, In

LEMMA SetupPartsNext == (STypeOK /\ Recorded)' <=> (Typed /\ Housed /\ Apart)'
BY SetupParts, PTL

\* Where setup takes its steps: nothing is crossed.
Ready == SInv /\ ~crossed /\ ~beside

LEMMA ReadyHas ==
    ASSUME Ready
    PROVE  /\ IInv /\ Typed /\ Housed /\ Apart /\ Noting /\ SetApart /\ Undisturbed /\ Identity
           /\ ~torn => Accounted
           /\ ~crossed /\ ~beside
BY SetupParts DEF Ready, SInv, IInv, STypeOK

LEMMA SInvNext ==
    ASSUME IInv', Housed', Apart', Noting', SetApart',
           ~crossed' /\ ~beside' => Undisturbed',
           ~crossed' /\ ~beside' /\ ~torn' => Accounted'
    PROVE  SInv'
<1>1. Typed' /\ (STypeOK /\ Recorded)'
  BY SetupPartsNext, PartsNext DEF IInv
<1>2. ~crossed' => Identity'
  BY DEF IInv
<1> QED BY <1>1, <1>2 DEF SInv

-----------------------------------------------------------------------------
(* A state/ directory as a whole.                                          *)

LEMMA EmptyIs ==
    /\ Empty \in Dir /\ Proper(Empty) /\ OfOne(Empty)
    /\ Empty.registration = Absent /\ Empty.pending = NoJournal
<1>1. NoJournal \in Journal /\ NoJournal.agent = None /\ Absent.agent = None
  BY Numbers DEF NoJournal, Journal, Absent
<1>2. /\ Empty.registration = Absent /\ Empty.pending = NoJournal /\ Empty.backup = FALSE
      /\ Empty.payout = NoAddress /\ Empty.declared = NoAddress
  BY DEF Empty
<1>3. Empty \in Dir
  <2> HIDE DEF Absent, NoJournal
  <2> QED BY <1>1, IdleIs DEF Empty, Dir
<1>4. Proper(Empty) /\ OfOne(Empty)
  BY <1>1, <1>2, IdleIs DEF Proper, OfOne
<1> QED BY <1>2, <1>3, <1>4

LEMMA HereIs ==
    ASSUME Typed
    PROVE  /\ Here \in Dir /\ Proper(Here)
           /\ Here.registration = registration /\ Here.pending = pending
           /\ Here = Empty => registration = Absent /\ pending = NoJournal
<1>1. Here.registration = registration /\ Here.pending = pending
  BY DEF Here
<1>2. Here \in Dir
  BY DEF Here, Dir, Typed, Filed, Paid
<1>3. Proper(Here)
  BY <1>1 DEF Proper, Typed, Filed
<1> QED BY <1>1, <1>2, <1>3, EmptyIs

LEMMA HereBecomes ==
    ASSUME NEW d \in Dir, StateIs(d)
    PROVE  /\ Here' = d /\ registration' = d.registration /\ pending' = d.pending
           /\ payout' \in Addresses \cup {NoAddress} /\ declared' \in Addresses \cup {NoAddress}
           /\ registration' \in Record /\ pending' \in Journal /\ backup' \in BOOLEAN
<1>1. d = [registration |-> d.registration, backup |-> d.backup, pending |-> d.pending,
           payout |-> d.payout, declared |-> d.declared]
  BY DEF Dir
<1>2. /\ d.payout \in Addresses \cup {NoAddress} /\ d.declared \in Addresses \cup {NoAddress}
      /\ d.registration \in Record /\ d.pending \in Journal /\ d.backup \in BOOLEAN
  BY DEF Dir
<1> QED BY <1>1, <1>2 DEF StateIs, Here

LEMMA HereStays ==
    ASSUME Same
    PROVE  Here' = Here
BY DEF Same, Here

\* The files after an adoption moved state/ or the key.
LEMMA FilesMoved ==
    ASSUME Typed, UNCHANGED <<platform, active, inForce>>, credentials' \in 0 .. Damaged,
           Same \/ \E d \in Dir : Proper(d) /\ StateIs(d)
    PROVE  Filed' /\ Paid'
<1>1. CASE Same
  BY <1>1 DEF Typed, Filed, Paid, Same
<1>2. CASE \E d \in Dir : Proper(d) /\ StateIs(d)
  <2>1. PICK d \in Dir : Proper(d) /\ StateIs(d)
    BY <1>2
  <2>2. /\ registration' = d.registration /\ pending' = d.pending
        /\ payout' \in Addresses \cup {NoAddress} /\ declared' \in Addresses \cup {NoAddress}
        /\ registration' \in Record /\ pending' \in Journal /\ backup' \in BOOLEAN
    BY <2>1, HereBecomes
  <2>3. Sound(registration') /\ (pending' # NoJournal => pending'.agent # None)
    BY <2>1, <2>2 DEF Proper, Sound
  <2> QED BY <2>2, <2>3 DEF Typed, Filed, Paid, Sound
<1> QED BY <1>1, <1>2

-----------------------------------------------------------------------------
(* The journal of an adoption.                                             *)

Entries == {"room", "state", "key", "partial", "wallet"}

\* Setup goes to s with journal d, and remembers everything else as it did.
Goes(s, d) ==
    /\ setup' \in Setting /\ setup'.step = s /\ setup'.done = d
    /\ setup'.room = setup.room /\ setup'.from = setup.from /\ setup'.told = setup.told

LEMMA SettingHas ==
    ASSUME Housed
    PROVE  /\ setup.step \in SetupSteps /\ setup.done \in Seq(Entries)
           /\ setup.room \in Dir /\ setup.from \in Source
BY DEF Housed, Setting, Entries

LEMMA OnwardGoes ==
    ASSUME Housed, NEW s \in SetupSteps, Onward(s)
    PROVE  Goes(s, setup.done)
BY DEF Housed, Setting, Onward, Goes

LEMMA NotedGoes ==
    ASSUME Housed, NEW s \in SetupSteps, NEW e \in Entries, Noted(e, s)
    PROVE  Goes(s, Append(setup.done, e))
<1>1. Append(setup.done, e) \in Seq(Entries)
  BY SettingHas
<1> QED BY <1>1 DEF Housed, Setting, Noted, Goes, Entries

LEMMA BareIs == Empty \in Dir /\ Bare \in Source /\ <<>> \in Seq(Entries)
<1>1. Empty \in Dir /\ None \in 0 .. Damaged
  BY EmptyIs, Numbers
<1> HIDE DEF Empty, None
<1> QED BY <1>1 DEF Bare, Source, Wallets

LEMMA UnsetIs ==
    /\ Unset \in Setting /\ Unset.step = "idle" /\ Unset.done = <<>> /\ Unset.room = Empty
    /\ Unset.from = Bare /\ Unset.told = ""
<1> HIDE DEF Empty, Bare
<1> QED BY BareIs DEF Unset, Setting, SetupSteps, Entries

\* Setup is over, and has told what became of an adoption.
Over(told) ==
    /\ setup' \in Setting /\ setup'.step = "idle" /\ setup'.done = <<>> /\ setup'.told = told
    /\ setup'.room = Empty /\ setup'.from = IF told = "putBack" THEN setup.from ELSE Bare

LEMMA StopIs ==
    ASSUME Housed, NEW told \in {"", "conflict", "putBack", "survives"}, Stop(told)
    PROVE  Over(told)
<1>1. PICK f \in Source : f = IF told = "putBack" THEN setup.from ELSE Bare
  BY SettingHas, BareIs
<1>2. setup' = [Unset EXCEPT !.told = told, !.from = f]
  BY <1>1 DEF Stop
<1> HIDE DEF Unset, Empty, Bare
<1> QED BY <1>1, <1>2, UnsetIs DEF Setting, Over

LEMMA Kept ==
    ASSUME Housed, NEW s, Goes(s, setup.done)
    PROVE  /\ \A e : Has(e)' <=> Has(e)
           /\ \A es : OnlyHas(es)' <=> OnlyHas(es)
           /\ Once' <=> Once
           /\ WalletLast' <=> WalletLast
BY DEF Goes, Has, OnlyHas, Once, WalletLast

LEMMA Grown ==
    ASSUME Housed, NEW s, NEW e \in Entries, Goes(s, Append(setup.done, e))
    PROVE  /\ \A x : Has(x)' <=> Has(x) \/ x = e
           /\ \A es : OnlyHas(es) /\ e \in es => OnlyHas(es)'
           /\ Once /\ ~Has(e) => Once'
           /\ ~Has("wallet") => WalletLast'
<1>1. PICK d \in Seq(Entries) : d = setup.done
  BY SettingHas
<1>2. PICK n : n = Append(d, e)
  OBVIOUS
<1>3. /\ Len(d) \in Nat /\ Len(n) = Len(d) + 1 /\ n[Len(d) + 1] = e
      /\ \A i \in 1 .. Len(d) : n[i] = d[i]
  BY <1>2
<1>4. setup'.done = n
  BY <1>1, <1>2 DEF Goes
<1>5. 1 .. Len(n) = (1 .. Len(d)) \cup {Len(d) + 1} /\ Len(d) + 1 \notin 1 .. Len(d)
  BY <1>3
<1>6. \A x : Has(x)' <=> Has(x) \/ x = e
  BY <1>1, <1>3, <1>4, <1>5 DEF Has
<1>7. \A es : OnlyHas(es) /\ e \in es => OnlyHas(es)'
  BY <1>1, <1>3, <1>4, <1>5 DEF OnlyHas
<1>8. Once /\ ~Has(e) => Once'
  BY <1>1, <1>3, <1>4, <1>5 DEF Once, Has
<1>9. ~Has("wallet") => WalletLast'
  BY <1>1, <1>3, <1>4, <1>5 DEF WalletLast, Has
<1> QED BY <1>6, <1>7, <1>8, <1>9

\* The newest entry of the journal is struck out.
Struck == setup' = [setup EXCEPT !.done = SubSeq(@, 1, Len(@) - 1)]

LEMMA Shrunk ==
    ASSUME Housed, Once, WalletLast, setup.done # <<>>, Struck
    PROVE  LET e == setup.done[Len(setup.done)] IN
           /\ e \in Entries /\ Has(e)
           /\ Goes(setup.step, SubSeq(setup.done, 1, Len(setup.done) - 1))
           /\ \A x : Has(x)' <=> Has(x) /\ x # e
           /\ Once' /\ WalletLast' /\ (Has("wallet") => e = "wallet")
<1>1. PICK d \in Seq(Entries) : d = setup.done
  BY SettingHas
<1>2. PICK n : n = SubSeq(d, 1, Len(d) - 1)
  OBVIOUS
<1>3. PICK k : k = Len(d)
  OBVIOUS
<1>4. k \in Nat /\ k >= 1
  BY <1>1, <1>3
<1>5. /\ n \in Seq(Entries) /\ Len(n) = k - 1 /\ \A i \in 1 .. k - 1 : n[i] = d[i]
  BY <1>2, <1>3, <1>4
<1>6. Goes(setup.step, n) /\ setup'.done = n
  BY <1>1, <1>2, <1>5 DEF Struck, Housed, Setting, Goes, Entries
<1>7. d[k] \in Entries /\ Has(d[k])
  BY <1>1, <1>3, <1>4 DEF Has
<1>8. \A i \in 1 .. k : i = k \/ i \in 1 .. k - 1
  BY <1>4
<1>9. 1 .. k - 1 \subseteq 1 .. k /\ k \notin 1 .. k - 1
  BY <1>4
<1>10. ASSUME NEW x PROVE Has(x)' <=> Has(x) /\ x # d[k]
  <2>1. Has(x)' <=> \E i \in 1 .. k - 1 : d[i] = x
    BY <1>5, <1>6 DEF Has
  <2>2. Has(x) <=> \E i \in 1 .. k : d[i] = x
    BY <1>1, <1>3 DEF Has
  <2>3. k \in 1 .. k /\ \A i \in 1 .. k : d[i] = d[k] => i = k
    BY <1>1, <1>3, <1>4 DEF Once
  <2>4. ASSUME NEW i \in 1 .. k - 1, d[i] = x PROVE x # d[k] /\ i \in 1 .. k
    BY <1>9, <2>3, <2>4
  <2>5. ASSUME NEW i \in 1 .. k, d[i] = x, x # d[k] PROVE i \in 1 .. k - 1
    BY <1>8, <2>5
  <2> QED BY <2>1, <2>2, <2>4, <2>5
<1>11. Once'
  BY <1>1, <1>3, <1>5, <1>6, <1>9 DEF Once
<1>12. WalletLast'
  BY <1>1, <1>3, <1>5, <1>6, <1>9 DEF WalletLast
<1>13. Has("wallet") => d[k] = "wallet"
  BY <1>1, <1>3 DEF Has, WalletLast
<1> QED BY <1>1, <1>2, <1>3, <1>6, <1>7, <1>10, <1>11, <1>12, <1>13

LEMMA NothingNoted ==
    ASSUME setup'.done = <<>>
    PROVE  /\ Once' /\ WalletLast' /\ \A e : ~Has(e)'
           /\ \A es : OnlyHas(es)'
BY DEF Once, WalletLast, Has, OnlyHas

-----------------------------------------------------------------------------
(* What a step of setup owes the commands beside it.                       *)

\* Setup moved nothing of the identity.
LEMMA NothingMoved ==
    ASSUME IInv, UNCHANGED <<platform, identity, lock, proc, payouts, ghosts>>,
           Fault \/ UNCHANGED bounds
    PROVE  IInv'
<1>1. Untouched /\ UNCHANGED <<proc, lock, crossed>>
  BY DEF Untouched, ghosts
<1>2. Paid' /\ Counted'
  BY TypedIInv, Bounded DEF Typed, Paid, payouts
<1> QED BY <1>1, <1>2, TypedIInv, UntouchedSpares, Uncrossed, OutsideStep
        DEF Typed, Identity, KeyIsSomewhere

\* Part of the identity moves while nobody works on it, or what follows is crossed.
LEMMA IdentityMoved ==
    ASSUME IInv, UNCHANGED proc, lock' \in {lock, Nobody}, Filed', Paid', Marked', Counted',
           ~crossed' => KeyIsSomewhere' /\ \A p \in Processes : At(p, "idle")
    PROVE  IInv'
<1>1. Typed'
  BY TypedIInv DEF Typed, Manned
<1>2. ASSUME ~crossed' PROVE Identity'
  <2>1. \A p \in Locking : proc'[p].step = "idle"
    BY <1>2 DEF At, Locking, Processes
  <2> QED BY <1>2, <2>1
          DEF Identity, Exclusive, At, Holds, JournalIs, StillAbout, Alone, Registering, Publishing
<1> QED BY <1>1, <1>2, PartsNext DEF IInv

\* While nobody is at work, the key of the agent in use is on file or in the journal.
LEMMA AtRest ==
    ASSUME Identity, \A p \in Processes : At(p, "idle")
    PROVE  /\ \A a \in InUse : a # None /\ (credentials = a \/ pending.agent = a)
           /\ pending # NoJournal => InUse \subseteq {pending.agent}
           /\ \A a : ~InHand(a)
BY Numbers DEF Identity, KeyIsSomewhere, InHand, At, InUse

\* A command that is killed, whatever it leaves as its answer.
LEMMA KillStep ==
    ASSUME IInv, NEW p \in Processes, NEW m, Ends(p, m), Fault,
           UNCHANGED <<platform, identity, payouts, givenUp, crossed>>,
           orphans' = IF At(p, "journal") THEN orphans \cup {Mine(p).agent} ELSE orphans
    PROVE  IInv'
<1>0. m.step = "idle" /\ m.step \notin Registering \cup Publishing
  BY DEF Ends, Registering, Publishing
<1>1. CASE ~At(p, "idle") /\ ~At(p, "journal")
  BY <1>0, <1>1, IdleHolds, CalmStep DEF Ends, Calm, ghosts
<1>2. CASE At(p, "journal")
  <2>1. /\ p \in Locking /\ Mine(p) \in Record /\ Mine(p).agent \in Agents
    <3>1. /\ proc[p].step = "journal" /\ Mine(p) \in Record /\ p \in Connects
          /\ Mine(p).agent # None
      BY <1>2, TypedIInv, Whereabouts DEF Typed, Kind, Registering, Mine, At
    <3> QED BY <3>1, Numbers DEF Record, Locking
  <2>2. Filed' /\ Paid' /\ Marked' /\ Counted' /\ ~At(p, "idle")
    BY <1>2, <2>1, TypedIInv, Bounded DEF Typed, Filed, Paid, Marked, identity, payouts, At
  <2>3. ASSUME ~crossed PROVE KeyIsSomewhere' /\ Holds(m)'
    <3>1. Holds(proc[p]) /\ KeyIsSomewhere
      BY <2>1, <2>2, <2>3, AtWork
    <3>2. InUse \subseteq {Mine(p).agent} /\ pending = NoJournal /\ Matched
      BY <1>2, <3>1 DEF Holds, Alone, JournalIs, Registering, At, Mine, KeyIsSomewhere
    <3>3. InUse' = {}
      BY <1>2, <3>2 DEF InUse
    <3>4. Matched' /\ pending' = NoJournal
      BY <3>2 DEF Matched, identity
    <3> QED BY <1>0, <3>3, <3>4, IdleHoldsNext DEF KeyIsSomewhere
  <2> QED BY <2>1, <2>2, <2>3, TypedIInv, Whereabouts, Step DEF Ends, Typed
<1>3. CASE At(p, "idle")
  <2>1. Untouched /\ Counted' /\ Paid'
    BY <1>3, TypedIInv, Bounded DEF Untouched, Typed, At, Paid, payouts
  <2>2. Filed' /\ Marked' /\ Spared /\ Followed /\ (Matched => Matched') /\ UNCHANGED crossed
    BY <2>1, TypedIInv, UntouchedSpares DEF Typed, Untouched
  <2>3. Manned'
    BY TypedIInv, MovedMans DEF Typed, Ends
  <2>4. /\ lock' = lock /\ proc'[p] = m /\ \A q \in Processes \ {p} : proc'[q] = proc[q]
    <3>1. lock # p
      BY <1>3, TypedIInv, Whereabouts DEF Typed, Manned, At
    <3> QED BY <3>1, TypedIInv, OnlyOne DEF Ends, Moved, Typed
  <2>5. ASSUME ~crossed PROVE Identity'
    <3>1. Identity
      BY <2>5, Uncrossed
    <3>2. InHandStill
      BY <1>3, TypedIInv, HandsStay DEF Typed, At, Ends, Moved
    <3>3. KeyIsSomewhere'
      BY <2>2, <3>1, <3>2, SomewhereStays DEF Identity, KeyIsSomewhere
    <3>4. Exclusive'
      BY <1>0, <2>4, <3>1 DEF Identity, Exclusive, At, Locking, Processes
    <3>5. ASSUME NEW q \in Locking PROVE Holds(proc[q])'
      <4>1. PICK n : n = proc'[q]
        OBVIOUS
      <4>2. Holds(n)'
        <5>1. CASE q = p
          BY <1>0, <2>4, <4>1, <5>1, IdleHoldsNext
        <5>2. CASE q # p
          <6>1. Holds(n)
            BY <2>4, <3>1, <4>1, <5>2 DEF Identity, Locking, Processes
          <6> QED BY <2>2, <6>1, HoldsStays
        <5> QED BY <5>1, <5>2
      <4> QED BY <4>1, <4>2 DEF Holds, JournalIs, StillAbout, Alone
    <3> QED BY <3>3, <3>4, <3>5 DEF Identity
  <2> QED BY <2>1, <2>2, <2>3, <2>5, PartsNext DEF IInv, Typed
<1> QED BY <1>1, <1>2, <1>3

-----------------------------------------------------------------------------
(* Beside setup.                                                           *)

\* p takes a step, and the others stay.
Alike(p) == \A q \in Processes \ {p} : proc'[q] = proc[q]

LEMMA BesideMoves ==
    ASSUME Manned, NEW p \in Processes, Begin(p) \/ BeginEnable(p) \/ Continue(p) \/ Kill(p)
    PROVE  Alike(p)
<1>1. Unnoted(p) \/ UNCHANGED proc => Alike(p)
  BY OnlyOne DEF Unnoted, Alike
<1>2. /\ \A code : Exit(p, code) => Alike(p)
      /\ \A s : Goto(p, s) => Alike(p)
  BY OnlyOne DEF Exit, Goto, Alike
<1>3. CASE Standing(p) \/ DeclarePayoutAddress(p) \/ NoteDeclared(p)
  BY <1>2, <1>3 DEF Standing, DeclarePayoutAddress, NoteDeclared
<1> QED BY <1>1, <1>3, MostElsewhere DEF Continue

LEMMA AtItsStep ==
    ASSUME NEW p \in Processes, Continue(p)
    PROVE  ~At(p, "idle")
BY DEF Continue, Recover, Load, LoadNothing, Me, Preserve, Rebuild, Ask, Verify, Decide, Register,
       SavePendingRegistration, PublishKey, PublishRecord, Confirm, ClearPendingRegistration,
       PlatformKey, Poll, SavePolled, Standing, DeclarePayoutAddress, NoteDeclared, Look, Resave,
       FinishMiningEnabled, At

\* No identity is being moved at the step that setup goes to.
Off == {"idle", "ask", "identity", "merge", "access", "connect", "connecting"}

LEMMA OffUndisturbed ==
    ASSUME setup'.step \in Off
    PROVE  Undisturbed'
BY DEF Off, Undisturbed, Moving, In, Adopting

LEMMA OffAdopting == Housed => (Adopting <=> setup.step \notin Off)
BY SettingHas DEF Adopting, SetupSteps, Off

LEMMA NothingHad ==
    ASSUME Noting, ~Adopting, ~In("merge")
    PROVE  setup.done = <<>> /\ \A e : ~Has(e)
<1>1. setup.done = <<>>
  BY DEF Noting
<1>2. Len(setup.done) = 0
  BY <1>1
<1> QED BY <1>1, <1>2 DEF Has

(* A command that runs beside setup.                                       *)
LEMMA BesideKeeps ==
    ASSUME Ready, Beside, UNCHANGED <<wallet, source, asides, spooled, setup, torn>>,
           beside' = Adopting
    PROVE  SInv'
<1>1. IInv'
  BY ReadyHas, NextKeeps DEF Beside, Next
<1>2. Housed' /\ Noting' /\ SetApart'
  <2>1. Housed'
    BY ReadyHas DEF Housed, Adopting
  <2>2. Noting' /\ SetApart'
    <3>1. Noting /\ SetApart /\ setup' = setup /\ source' = source
      BY ReadyHas
    <3>2. Once' /\ WalletLast' /\ (\A es : OnlyHas(es)' <=> OnlyHas(es))
      BY <3>1 DEF Noting, Once, WalletLast, OnlyHas
    <3>3. Noting'
      BY <3>1, <3>2 DEF Noting, In, Adopting
    <3> QED BY <3>1, <3>3 DEF SetApart, Proper, OfOne, Sound
  <2> QED BY <2>1, <2>2
<1>3. Apart'
  <2> SUFFICES ASSUME ~In("connecting") PROVE At(InSetup, "idle")'
    BY DEF Apart, In
  <2>1. At(InSetup, "idle") /\ InSetup \in Connects /\ InSetup \in Processes
    BY ReadyHas, SetupAssumption DEF Apart, Processes
  <2>2. CASE Outside
    <3>1. proc' = proc
      BY <2>2 DEF Outside, Login, Claim, Expire, Remove, Activate, PayoutSet, Damage
    <3> QED BY <2>1, <3>1 DEF At
  <2>3. ASSUME NEW p \in Processes, p # InSetup, Begin(p) \/ BeginEnable(p) \/ Continue(p) \/ Kill(p)
        PROVE  At(InSetup, "idle")'
    <3>1. Alike(p)
      BY <2>3, ReadyHas, BesideMoves DEF Typed
    <3> QED BY <2>1, <2>3, <3>1 DEF Alike, At
  <2>4. ASSUME NEW p \in Processes, Continue(p) \/ BeginEnable(p) PROVE p # InSetup
    <3>1. BeginEnable(p) => p \in Enables
      BY DEF BeginEnable
    <3> QED BY <2>1, <2>4, <3>1, AtItsStep, OnboardingAssumption
  <2> QED BY <2>2, <2>3, <2>4 DEF Beside
<1>4. ASSUME ~beside' PROVE Undisturbed'
  <2>1. setup.step \in Off
    BY <1>4, ReadyHas, OffAdopting
  <2> QED BY <2>1, OffUndisturbed
<1>5. ASSUME ~beside', ~torn' PROVE Accounted'
  <2>1. setup.step \in Off /\ Accounted
    BY <1>5, ReadyHas, OffAdopting
  <2>2. setup.step = "identity" => \A e : ~Has(e)
    BY <2>1, ReadyHas, OffAdopting, NothingHad DEF In, Off
  <2>3. \A e : Has(e)' <=> Has(e)
    BY DEF Has
  <2>4. In("identity")' => Listed'
    BY <2>1, <2>2, <2>3 DEF Accounted, Listed, In
  <2> QED BY <2>1, <2>4 DEF Accounted, In, Adopting, InPlace, Adopted, Off
<1> QED BY <1>1, <1>2, <1>3, <1>4, <1>5, SInvNext

-----------------------------------------------------------------------------
(* The steps of setup that leave the identity alone.                       *)

LEMMA SetupStep ==
    ASSUME Ready, UNCHANGED <<platform, identity, lock, proc, payouts, ghosts, beside>>,
           Fault \/ UNCHANGED bounds,
           Housed', setup'.step # "connecting", ~In("connecting") \/ At(InSetup, "idle"),
           Noting', SetApart', Undisturbed', ~torn' => Accounted'
    PROVE  SInv'
<1>1. IInv'
  BY ReadyHas, NothingMoved
<1>2. Apart'
  BY ReadyHas DEF Apart, At
<1> QED BY <1>1, <1>2, SInvNext

LEMMA RoomStays ==
    ASSUME SetApart, UNCHANGED source, setup'.room \in {setup.room, Empty}
    PROVE  SetApart'
BY EmptyIs DEF SetApart, Proper, OfOne, Sound

LEMMA RecordFields ==
    ASSUME Housed
    PROVE  /\ \A d \in Dir : source' = [source EXCEPT !.dir = d] =>
                  /\ source' \in Source /\ source'.dir = d /\ source'.key = source.key
                  /\ source'.wallet = source.wallet
           /\ \A k \in 0 .. Damaged : source' = [source EXCEPT !.key = k] =>
                  /\ source' \in Source /\ source'.dir = source.dir /\ source'.key = k
                  /\ source'.wallet = source.wallet
           /\ \A w \in Wallets : source' = [source EXCEPT !.wallet = w] =>
                  /\ source' \in Source /\ source'.dir = source.dir /\ source'.key = source.key
                  /\ source'.wallet = w
           /\ source' = [source EXCEPT !.spool = FALSE] =>
                  /\ source' \in Source /\ source'.dir = source.dir /\ source'.key = source.key
                  /\ source'.wallet = source.wallet
BY DEF Housed, Source

\* A step of setup before an adoption, after it, or without one.
LEMMA PlainStep ==
    ASSUME Ready, UNCHANGED <<vars, wallet, source, asides, spooled, torn, beside>>,
           setup' \in Setting, setup'.step \in Off \ {"merge", "connecting"}, setup'.done = <<>>,
           setup'.room \in {setup.room, Empty},
           setup'.step # "idle" => setup'.told = "",
           ~In("connecting") \/ At(InSetup, "idle"),
           \/ setup'.from = Bare /\ setup'.step # "identity"
           \/ setup'.from = source /\ setup'.step = "identity"
    PROVE  SInv'
<1>1. Housed'
  BY ReadyHas DEF Housed
<1>2. Noting'
  BY NothingNoted DEF Noting, Off, In, Adopting
<1>3. SetApart' /\ Undisturbed'
  BY ReadyHas, RoomStays, OffUndisturbed
<1>4. Accounted'
  <2>1. setup'.step = "identity" => Listed'
    BY NothingNoted DEF Listed
  <2> QED BY <2>1 DEF Accounted, Off, In, Adopting
<1> QED BY <1>1, <1>2, <1>3, <1>4, SetupStep DEF vars, Off

LEMMA PreviousInstallationKeeps ==
    ASSUME Ready, PreviousInstallation
    PROVE  SInv'
<1>1. PICK s \in {"ask", "access"} : setup' = [Unset EXCEPT !.step = s]
  BY DEF PreviousInstallation
<1>2. /\ setup' \in Setting /\ setup'.step = s /\ setup'.done = <<>> /\ setup'.room = Empty
      /\ setup'.from = Bare /\ setup'.told = ""
  <2> HIDE DEF Unset, Empty, Bare
  <2> QED BY <1>1, UnsetIs DEF Setting, SetupSteps
<1> QED BY <1>2, PlainStep DEF PreviousInstallation, Off, In

LEMMA UseItKeeps ==
    ASSUME Ready, UseIt
    PROVE  SInv'
<1>1. /\ In("ask") /\ setup.done = <<>> /\ setup.from = Bare /\ setup.told = ""
      /\ source \in Source
  BY ReadyHas DEF UseIt, Noting, In, Adopting, Housed
<1>2. CASE setup' = [setup EXCEPT !.step = "identity", !.from = source]
  <2>1. /\ setup' \in Setting /\ setup'.step = "identity" /\ setup'.done = <<>>
        /\ setup'.room = setup.room /\ setup'.from = source /\ setup'.told = ""
    BY <1>1, <1>2, ReadyHas DEF Housed, Setting, SetupSteps
  <2> QED BY <1>1, <2>1, PlainStep DEF UseIt, Off, In
<1>3. CASE Onward("access")
  <2>1. Goes("access", setup.done)
    BY <1>3, ReadyHas, OnwardGoes DEF SetupSteps
  <2> QED BY <1>1, <2>1, PlainStep DEF UseIt, Off, In, Goes
<1>4. CASE Stop("")
  <2>1. Over("")
    BY <1>4, ReadyHas, StopIs
  <2> QED BY <1>1, <2>1, PlainStep DEF UseIt, Off, In, Over
<1> QED BY <1>2, <1>3, <1>4 DEF UseIt

LEMMA ConnectedKeeps ==
    ASSUME Ready, Connected
    PROVE  SInv'
<1>1. Over("")
  BY ReadyHas, StopIs DEF Connected
<1> QED BY <1>1, PlainStep DEF Connected, Off, Over

\* Setup goes on, or ends, after an adoption or without one.
LEMMA LaterStep ==
    ASSUME Ready, UNCHANGED <<platform, identity, lock, proc, payouts, ghosts>>,
           UNCHANGED <<wallet, source, asides, spooled, torn, beside>>, Fault \/ UNCHANGED bounds,
           In("access") \/ In("connect"),
           Over("") \/ Goes("connect", setup.done)
    PROVE  SInv'
<1>1. setup.done = <<>> /\ setup.told = ""
  BY ReadyHas DEF Noting, In, Adopting
<1>2. Housed' /\ setup'.done = <<>> /\ setup'.told = ""
  BY <1>1, ReadyHas DEF Housed, Over, Goes
<1>3. Noting'
  BY <1>2, NothingNoted DEF Noting, Over, Goes, In, Adopting
<1>4. SetApart' /\ Undisturbed'
  BY ReadyHas, RoomStays, OffUndisturbed DEF Over, Goes, Off
<1>5. ASSUME ~torn' PROVE Accounted'
  <2>1. Accounted
    BY <1>5, ReadyHas
  <2>2. CASE Over("")
    BY <2>2 DEF Accounted, Over, In, Adopting
  <2>3. CASE Goes("connect", setup.done)
    BY <1>1, <2>1, <2>3 DEF Accounted, Goes, In, Adopting, InPlace, Adopted
  <2> QED BY <2>2, <2>3
<1> QED BY <1>2, <1>3, <1>4, <1>5, SetupStep DEF Over, Goes, In

LEMMA AccessKeeps ==
    ASSUME Ready, Access
    PROVE  SInv'
<1>1. Over("") \/ Goes("connect", setup.done)
  BY ReadyHas, StopIs, OnwardGoes DEF Access, SetupSteps
<1> QED BY <1>1, LaterStep DEF Access

LEMMA ConnectKeeps ==
    ASSUME Ready, Connect
    PROVE  SInv'
<1>1. CASE lock # Nobody
  <2>1. Over("")
    BY <1>1, ReadyHas, StopIs DEF Connect
  <2> QED BY <1>1, <2>1, LaterStep DEF Connect
<1>2. CASE lock = Nobody
  <2>1. /\ lock' = InSetup /\ Become(InSetup, [Idle EXCEPT !.step = "load"])
        /\ Goes("connecting", setup.done)
        /\ UNCHANGED <<platform, identity, payouts, ghosts, bounds>>
        /\ UNCHANGED <<wallet, source, asides, spooled, torn, beside>>
    BY <1>2, ReadyHas, OnwardGoes DEF Connect, SetupSteps
  <2>2. In("connect") /\ setup.done = <<>> /\ setup.told = "" /\ At(InSetup, "idle")
    BY ReadyHas DEF Connect, Noting, In, Adopting, Apart
  <2>3. InSetup \in Processes /\ Begin(InSetup)
    BY <1>2, <2>1, <2>2, SetupAssumption DEF Begin, Processes
  <2>4. IInv'
    BY <2>3, ReadyHas, BeginKeeps
  <2>5. Housed' /\ Apart' /\ SetApart' /\ Undisturbed'
    BY <2>1, ReadyHas, RoomStays, OffUndisturbed DEF Housed, Apart, In, Goes, Off
  <2>6. Noting'
    BY <2>1, <2>2, NothingNoted DEF Noting, Goes, In, Adopting
  <2>7. ~torn' => Accounted'
    BY <2>1, <2>2, ReadyHas DEF Accounted, Goes, In, Adopting, InPlace, Adopted
  <2> QED BY <2>4, <2>5, <2>6, <2>7, SInvNext
<1> QED BY <1>1, <1>2

LEMMA KillSetupKeeps ==
    ASSUME Ready, KillSetup
    PROVE  SInv'
<1>1. /\ Over("") /\ torn' \in BOOLEAN
      /\ UNCHANGED <<platform, identity, payouts, givenUp, crossed>> /\ Fault
      /\ UNCHANGED <<wallet, source, asides, spooled, beside>>
  BY ReadyHas, StopIs DEF KillSetup
<1>2. PICK m : m = Idle
  OBVIOUS
<1>3. InSetup \in Processes
  BY SetupAssumption DEF Processes
<1>4. Idle \in Memory /\ Idle.step = "idle" /\ Sound(Idle.record)
  BY IdleIs DEF Idle
<1>5. Ends(InSetup, m)
  <2>1. Fitting(InSetup, m)
    BY <1>2, <1>4 DEF Fitting, Kind, Registering, Publishing
  <2> QED BY <1>2, <1>4, <2>1 DEF Ends, Moved, Become, KillSetup
<1>6. IInv'
  BY <1>1, <1>3, <1>5, ReadyHas, KillStep DEF KillSetup
<1>7. Housed' /\ SetApart' /\ Undisturbed'
  BY <1>1, ReadyHas, RoomStays, OffUndisturbed DEF Housed, Over, Off
<1>8. Apart'
  BY <1>2, <1>3, <1>4, <1>5, ReadyHas, OnlyOne DEF Apart, At, Ends, Moved, Typed
<1>9. Noting'
  BY <1>1, NothingNoted DEF Noting, Over, In, Adopting
<1>10. Accounted'
  BY <1>1 DEF Accounted, Over, In, Adopting
<1> QED BY <1>6, <1>7, <1>8, <1>9, <1>10, SInvNext

-----------------------------------------------------------------------------
(* The wallet's part of an adoption.                                       *)

LEMMA NotAmong ==
    ASSUME NEW es, NEW e, OnlyHas(es), e \notin es
    PROVE  ~Has(e)
BY DEF OnlyHas, Has

LEMMA AtAdopting ==
    ASSUME Ready, Adopting
    PROVE  /\ setup.told = "" /\ setup.done \in Seq(Entries) /\ Once /\ WalletLast
           /\ ~torn => Accounted /\ Listed
           /\ Goes("undo", setup.done) => Noting'
BY ReadyHas, SettingHas, Kept DEF Noting, In, Adopting, Accounted, Goes

LEMMA WalletMoved ==
    ASSUME Ready, Adopting,
           UNCHANGED <<platform, identity, lock, proc, payouts, ghosts, beside, spooled>>,
           Fault \/ UNCHANGED bounds,
           source' \in Source, source'.dir = source.dir, source'.key = source.key,
           wallet' \in Wallets, asides' \in [states : SUBSET Dir, wallet : BOOLEAN], torn' \in BOOLEAN,
           torn => torn',
           NEW s \in {"wallet", "secure", "undo", "merge"}, NEW d, Goes(s, d),
           Once', WalletLast', s = "wallet" => OnlyHas({"room", "state", "key", "partial"})',
           \A e \in {"state", "key"} : Has(e)' <=> Has(e),
           ~torn' => /\ source'.wallet = IF Has("wallet")' THEN "none" ELSE setup.from.wallet
                     /\ Has("wallet")' => wallet' = setup.from.wallet
                     /\ s # "undo" => source.dir = Empty /\ source.key = None
                     /\ s \in {"secure", "merge"} => source'.wallet = "none"
    PROVE  SInv'
<1>1. /\ setup'.step = s /\ setup'.done = d /\ setup' \in Setting /\ setup'.room = setup.room
      /\ setup'.from = setup.from /\ setup'.told = "" /\ s # "connecting" /\ ~In("connecting")
  BY AtAdopting DEF Goes, In, Adopting
<1>2. Housed'
  BY <1>1, ReadyHas DEF Housed
<1>3. Noting'
  BY <1>1 DEF Noting, In, Adopting
<1>4. SetApart'
  BY <1>1, ReadyHas DEF SetApart, Proper, OfOne, Sound
<1>5. Here' = Here
  BY DEF Here, identity, payouts
<1>6. Undisturbed'
  <2>1. /\ Has("state") => OfOne(Here)
        /\ Has("key") => credentials = 1
        /\ Has("state") \/ Has("key") => \A p \in Processes : At(p, "idle")
    BY ReadyHas DEF Undisturbed, Moving
  <2>2. ~In("state")' /\ ~In("key")' /\ credentials' = credentials
    BY <1>1 DEF In, identity
  <2>3. OfOne(Here) => OfOne(Here)'
    BY <1>5 DEF OfOne
  <2>4. \A p \in Processes : At(p, "idle")' <=> At(p, "idle")
    BY DEF At
  <2> QED BY <2>1, <2>2, <2>3, <2>4 DEF Undisturbed, Moving
<1>7. ASSUME ~torn' PROVE Accounted'
  <2>1. Listed
    BY <1>7, AtAdopting, ReadyHas
  <2>2. Listed'
    BY <1>1, <1>5, <1>7, <2>1 DEF Listed, identity
  <2> QED BY <1>1, <1>7, <2>2 DEF Accounted, In, Adopting
<1> QED BY <1>1, <1>2, <1>3, <1>4, <1>6, <1>7, SetupStep

LEMMA AdoptCustodyKeeps ==
    ASSUME Ready, AdoptCustody
    PROVE  SInv'
<1>1. /\ In("custody") /\ Adopting /\ ~Has("partial") /\ ~Has("wallet")
      /\ OnlyHas({"room", "state", "key"})
  BY ReadyHas, NotAmong DEF AdoptCustody, Noting, In, Adopting
<1>2. /\ UNCHANGED <<platform, identity, lock, proc, payouts, ghosts, beside, spooled, source>>
      /\ Fault \/ UNCHANGED bounds
  BY DEF AdoptCustody, Move, Same, Elsewhere, identity, payouts, ghosts
<1>3. /\ source \in Source /\ wallet \in Wallets /\ "none" \in Wallets /\ torn \in BOOLEAN
      /\ asides \in [states : SUBSET Dir, wallet : BOOLEAN]
      /\ [asides EXCEPT !.wallet = TRUE] \in [states : SUBSET Dir, wallet : BOOLEAN]
  BY ReadyHas DEF Housed, Wallets
<1>4. /\ Once /\ WalletLast
      /\ ~torn => /\ source.wallet = setup.from.wallet
                  /\ source.dir = Empty /\ source.key = None
  BY <1>1, ReadyHas, AtAdopting DEF Accounted, Listed, In
<1>5. ASSUME NEW s \in {"wallet", "undo", "merge"}, Goes(s, setup.done), torn' \in BOOLEAN, torn => torn',
             s = "merge" => source.wallet = "none",
             wallet' \in {wallet, "none"}, asides' \in {asides, [asides EXCEPT !.wallet = TRUE]}
      PROVE  SInv'
  <2>1. \A e : Has(e)' <=> Has(e)
    BY <1>5, ReadyHas, Kept
  <2>2. Once' /\ WalletLast' /\ OnlyHas({"room", "state", "key", "partial"})'
    <3>1. OnlyHas({"room", "state", "key", "partial"})
      BY <1>1 DEF OnlyHas
    <3> QED BY <1>4, <1>5, <3>1, ReadyHas, Kept
  <2> QED BY <1>1, <1>2, <1>3, <1>4, <1>5, <2>1, <2>2, WalletMoved
<1>6. ASSUME NEW s \in {"wallet", "undo"}, Goes(s, Append(setup.done, "partial")), UNCHANGED torn,
             wallet' = "none", asides' = [asides EXCEPT !.wallet = TRUE]
      PROVE  SInv'
  <2>1. \A e : Has(e)' <=> Has(e) \/ e = "partial"
    BY <1>6, ReadyHas, Grown DEF Entries
  <2>2. Once' /\ WalletLast' /\ OnlyHas({"room", "state", "key", "partial"})'
    <3>1. OnlyHas({"room", "state", "key", "partial"}) /\ "partial" \in Entries
      BY <1>1 DEF OnlyHas, Entries
    <3> QED BY <1>1, <1>4, <1>6, <3>1, ReadyHas, Grown
  <2> QED BY <1>1, <1>2, <1>3, <1>4, <1>6, <2>1, <2>2, WalletMoved
<1>7. /\ \A s \in {"merge", "wallet", "undo"} : Onward(s) => Goes(s, setup.done)
      /\ \A s \in {"wallet", "undo"} : Noted("partial", s) => Goes(s, Append(setup.done, "partial"))
  BY ReadyHas, OnwardGoes, NotedGoes DEF SetupSteps, Entries
<1> QED BY <1>3, <1>5, <1>6, <1>7 DEF AdoptCustody, Move

LEMMA MoveWalletKeeps ==
    ASSUME Ready, MoveWallet
    PROVE  SInv'
<1>1. /\ In("wallet") /\ Adopting /\ ~Has("wallet")
  BY ReadyHas, NotAmong DEF MoveWallet, Noting, In, Adopting
<1>2. /\ UNCHANGED <<platform, identity, lock, proc, payouts, ghosts, beside, spooled, asides>>
      /\ Fault \/ UNCHANGED bounds
  BY DEF MoveWallet, Move, Same, Elsewhere, identity, payouts, ghosts
<1>3. /\ source \in Source /\ wallet \in Wallets /\ source.wallet \in Wallets /\ torn \in BOOLEAN
      /\ asides \in [states : SUBSET Dir, wallet : BOOLEAN] /\ "none" \in Wallets
  BY ReadyHas DEF Housed, Wallets, Source
<1>4. source' = [source EXCEPT !.wallet = "none"] =>
          /\ source' \in Source /\ source'.dir = source.dir /\ source'.key = source.key
          /\ source'.wallet = "none"
  BY <1>3, ReadyHas, RecordFields
<1>5. /\ Once /\ WalletLast
      /\ ~torn => /\ source.wallet = setup.from.wallet
                  /\ source.dir = Empty /\ source.key = None
  BY <1>1, ReadyHas, AtAdopting DEF Accounted, Listed, In
<1>6. ASSUME Goes("undo", setup.done),
             \/ UNCHANGED <<wallet, source, torn>>
             \/ /\ wallet' = source.wallet /\ source' = [source EXCEPT !.wallet = "none"]
                /\ torn' = TRUE
      PROVE  SInv'
  <2>1. (\A e : Has(e)' <=> Has(e)) /\ Once' /\ WalletLast'
    BY <1>5, <1>6, ReadyHas, Kept
  <2>2. /\ source' \in Source /\ source'.dir = source.dir /\ source'.key = source.key
        /\ wallet' \in Wallets /\ torn' \in BOOLEAN /\ (torn => torn')
        /\ ~torn' => wallet' = wallet /\ source' = source
    <3>1. CASE UNCHANGED <<wallet, source, torn>>
      BY <1>3, <3>1
    <3>2. CASE /\ wallet' = source.wallet /\ source' = [source EXCEPT !.wallet = "none"]
               /\ torn' = TRUE
      BY <1>3, <1>4, <3>2
    <3> QED BY <1>6, <3>1, <3>2
  <2> QED BY <1>1, <1>2, <1>3, <1>5, <1>6, <2>1, <2>2, WalletMoved
<1>7. ASSUME NEW s \in {"secure", "undo"}, Goes(s, Append(setup.done, "wallet")), UNCHANGED torn,
             wallet' = source.wallet, source' = [source EXCEPT !.wallet = "none"]
      PROVE  SInv'
  <2>1. (\A e : Has(e)' <=> Has(e) \/ e = "wallet") /\ Once' /\ WalletLast'
    BY <1>1, <1>5, <1>7, ReadyHas, Grown DEF Entries
  <2> QED BY <1>1, <1>2, <1>3, <1>4, <1>5, <1>7, <2>1, WalletMoved
<1>8. /\ Onward("undo") => Goes("undo", setup.done)
      /\ \A s \in {"secure", "undo"} : Noted("wallet", s) => Goes(s, Append(setup.done, "wallet"))
  BY ReadyHas, OnwardGoes, NotedGoes DEF SetupSteps, Entries
<1> QED BY <1>6, <1>7, <1>8 DEF MoveWallet, Move

LEMMA SecureWalletKeeps ==
    ASSUME Ready, SecureWallet
    PROVE  SInv'
<1>1. /\ In("secure") /\ Adopting /\ (Fault \/ UNCHANGED bounds)
      /\ UNCHANGED <<platform, identity, lock, proc, payouts, ghosts, beside, spooled, asides>>
      /\ UNCHANGED <<source, wallet, torn>>
  BY DEF SecureWallet, In, Adopting
<1>2. /\ source \in Source /\ wallet \in Wallets /\ torn \in BOOLEAN
      /\ asides \in [states : SUBSET Dir, wallet : BOOLEAN]
  BY ReadyHas DEF Housed
<1>3. PICK s \in {"merge", "undo"} : Goes(s, setup.done)
  BY ReadyHas, OnwardGoes DEF SecureWallet, SetupSteps
<1>4. (\A e : Has(e)' <=> Has(e)) /\ Once' /\ WalletLast'
  BY <1>1, <1>3, ReadyHas, AtAdopting, Kept
<1>5. ~torn => /\ source.wallet = IF Has("wallet") THEN "none" ELSE setup.from.wallet
               /\ Has("wallet") => wallet = setup.from.wallet
               /\ source.dir = Empty /\ source.key = None /\ source.wallet = "none"
  BY <1>1, ReadyHas, AtAdopting DEF Accounted, Listed, In
<1> QED BY <1>1, <1>2, <1>3, <1>4, <1>5, WalletMoved

LEMMA MergeKeeps ==
    ASSUME Ready, Merge
    PROVE  SInv'
<1>1. /\ setup' = [setup EXCEPT !.step = "access", !.done = <<>>, !.room = Empty]
      /\ UNCHANGED <<platform, identity, lock, proc, payouts, ghosts, wallet, asides, torn, beside, bounds>>
      /\ spooled' \in {spooled, "source"} /\ In("merge")
      /\ source' = source \/ source' = [source EXCEPT !.spool = FALSE]
  BY DEF Merge
<1>2. setup.told = ""
  BY <1>1, ReadyHas DEF Noting, In
<1>3. /\ setup' \in Setting /\ setup'.step = "access" /\ setup'.done = <<>> /\ setup'.room = Empty
      /\ setup'.from = setup.from /\ setup'.told = ""
  <2>1. Empty \in Dir /\ <<>> \in Seq(Entries)
    BY EmptyIs
  <2> HIDE DEF Empty
  <2> QED BY <1>1, <1>2, <2>1, ReadyHas DEF Housed, Setting, SetupSteps, Entries
<1>4. /\ source' \in Source /\ source'.dir = source.dir /\ source'.key = source.key
      /\ source'.wallet = source.wallet
  BY <1>1, ReadyHas, RecordFields DEF Housed
<1>5. Housed'
  BY <1>1, <1>3, <1>4, ReadyHas DEF Housed
<1>6. Noting'
  BY <1>3, NothingNoted DEF Noting, In, Adopting
<1>7. SetApart'
  BY <1>3, <1>4, EmptyIs, ReadyHas DEF SetApart, Proper, OfOne, Sound
<1>8. Undisturbed'
  BY <1>3, OffUndisturbed DEF Off
<1>9. ASSUME ~torn' PROVE Accounted'
  <2>1. source.dir = Empty /\ source.key = None /\ source.wallet = "none"
    BY <1>1, <1>9, ReadyHas DEF Accounted, In
  <2> QED BY <1>3, <1>4, <2>1 DEF Accounted, Adopted, In, Adopting
<1> QED BY <1>1, <1>3, <1>5, <1>6, <1>7, <1>8, <1>9, SetupStep DEF In

-----------------------------------------------------------------------------
(* The identity's part of an adoption.                                     *)

LEMMA IdentityStepped ==
    ASSUME Ready, Elsewhere, lock' \in {lock, Nobody}, crossed' \in BOOLEAN,
           Fault \/ UNCHANGED bounds, credentials' \in 0 .. Damaged, givenUp' \subseteq Agents,
           Same \/ \E d \in Dir : Proper(d) /\ StateIs(d),
           wallet' \in Wallets, UNCHANGED <<spooled, beside>>, source' \in Source,
           asides' \in [states : SUBSET Dir, wallet : BOOLEAN], torn' \in BOOLEAN,
           setup' \in Setting, setup'.step # "connecting", ~In("connecting"),
           Noting', SetApart',
           ~crossed' => KeyIsSomewhere' /\ Undisturbed' /\ \A p \in Processes : At(p, "idle"),
           ~crossed' /\ ~torn' => Accounted'
    PROVE  SInv'
<1>1. Filed' /\ Paid' /\ Marked' /\ Counted'
  <2>1. Typed /\ UNCHANGED <<platform, proc, active, inForce, orphans>>
    BY ReadyHas DEF Elsewhere
  <2>2. Filed' /\ Paid'
    BY <2>1, FilesMoved
  <2>3. Marked' /\ Counted'
    BY <2>1, Bounded DEF Typed, Marked
  <2> QED BY <2>2, <2>3
<1>2. UNCHANGED proc /\ IInv
  BY ReadyHas DEF Elsewhere
<1>3. IInv'
  BY <1>1, <1>2, IdentityMoved
<1>4. Housed'
  BY ReadyHas DEF Housed
<1>5. Apart'
  BY <1>2, ReadyHas DEF Apart, At
<1> QED BY <1>3, <1>4, <1>5, SInvNext

LEMMA MarkedHas ==
    ASSUME Ready
    PROVE  /\ givenUp \subseteq Agents /\ crossed \in BOOLEAN /\ credentials \in 0 .. Damaged
           /\ TakeLock => /\ lock' = Nobody /\ crossed' \in BOOLEAN
                          /\ ~crossed' => \A p \in Processes : At(p, "idle")
           /\ \A ks : Taken(ks) => givenUp' \subseteq Agents
           /\ \A ks : Return(ks) => givenUp' \subseteq Agents
BY ReadyHas DEF Typed, Marked, Filed, TakeLock, Taken, Return

\* There is no identity here, and nobody at work: no agent is in use.
LEMMA Vacant ==
    ASSUME Ready, \A p \in Processes : At(p, "idle"), credentials = None, pending = NoJournal
    PROVE  InUse = {}
BY ReadyHas, AtRest DEF NoJournal

LEMMA HandsIdle ==
    ASSUME Elsewhere, \A p \in Processes : At(p, "idle")
    PROVE  \A a : ~InHand(a)'
BY DEF Elsewhere, InHand, At

LEMMA StartStateSomewhere ==
    ASSUME Ready, Elsewhere, \A p \in Processes : At(p, "idle"), credentials = None,
           pending = NoJournal, UNCHANGED <<givenUp, credentials>>, pending' = NoJournal
    PROVE  KeyIsSomewhere'
<1>1. InUse' = {}
  BY Vacant DEF InUse, Elsewhere
<1> QED BY <1>1, Numbers DEF KeyIsSomewhere, Matched

LEMMA AdoptIdentityKeeps ==
    ASSUME Ready, AdoptIdentity
    PROVE  SInv'
<1>1. /\ In("identity") /\ setup.done = <<>> /\ setup.told = "" /\ (\A e : ~Has(e))
      /\ ~In("connecting")
  BY ReadyHas, NothingHad DEF AdoptIdentity, Noting, In, Adopting
<1>2. /\ Elsewhere /\ UNCHANGED <<credentials, givenUp, wallet, source, spooled, beside>>
      /\ credentials' \in 0 .. Damaged /\ givenUp' \subseteq Agents /\ crossed \in BOOLEAN
      /\ wallet' \in Wallets /\ source' \in Source
      /\ asides \in [states : SUBSET Dir, wallet : BOOLEAN] /\ torn \in BOOLEAN
  BY ReadyHas, MarkedHas DEF AdoptIdentity, Housed
<1>3. ~torn => /\ source.dir = setup.from.dir /\ source.key = setup.from.key
               /\ source.wallet = setup.from.wallet
  BY <1>1, ReadyHas DEF Accounted, Listed
\* Nothing is moved.
<1>4. ASSUME Same, UNCHANGED <<asides, lock, crossed, torn, bounds>>,
             \/ Goes("custody", setup.done) /\ source.dir = Empty /\ source.key = None
             \/ Over("conflict")
      PROVE  SInv'
  <2>1. UNCHANGED <<platform, identity, lock, proc, payouts, ghosts>>
    BY <1>2, <1>4 DEF Same, Elsewhere, identity, payouts, ghosts
  <2>2. /\ setup' \in Setting /\ setup'.step \in {"custody", "idle"} /\ setup'.done = <<>>
        /\ setup'.room \in {setup.room, Empty}
        /\ setup'.step = "custody" => setup'.told = "" /\ setup'.from = setup.from
        /\ setup'.step = "idle" => setup'.from = Bare
    BY <1>1, <1>4 DEF Goes, Over
  <2>3. Once' /\ WalletLast' /\ (\A e : ~Has(e)') /\ (\A es : OnlyHas(es)')
    BY <2>2, NothingNoted
  <2>4. Noting'
    BY <2>2, <2>3 DEF Noting, In, Adopting
  <2>5. SetApart'
    BY <1>2, <2>2, ReadyHas, RoomStays
  <2>6. Undisturbed'
    BY <2>2, <2>3 DEF Undisturbed, Moving, In, Adopting
  <2>7. ASSUME ~torn' PROVE Accounted'
    <3>1. CASE setup'.step = "idle"
      BY <2>2, <3>1 DEF Accounted, In, Adopting
    <3>2. CASE setup'.step = "custody"
      <4>1. Goes("custody", setup.done) /\ source.dir = Empty /\ source.key = None
        BY <1>4, <3>2 DEF Over
      <4>2. Listed'
        BY <1>2, <1>3, <1>4, <2>2, <2>3, <2>7, <3>2 DEF Listed
      <4> QED BY <1>2, <3>2, <4>1, <4>2 DEF Accounted, In, Adopting
    <3> QED BY <2>2, <3>1, <3>2
  <2>8. Housed'
    BY <1>2, <1>4, <2>2, ReadyHas DEF Housed
  <2> QED BY <1>1, <1>2, <1>4, <2>1, <2>2, <2>4, <2>5, <2>6, <2>7, <2>8, SetupStep
\* There is none here: nothing of it, or an unfinished state/ that makes room.
<1>5. ASSUME credentials = None, registration = Absent, pending = NoJournal,
             \/ Same /\ UNCHANGED asides /\ TakeLock /\ Here = Empty
             \/ Same /\ UNCHANGED <<asides, lock, crossed>>
             \/ StateIs(Empty) /\ asides' = [asides EXCEPT !.states = @ \cup {Here}] /\ TakeLock,
             setup' \in Setting, setup'.step \in {"state", "undo"}, setup'.told = "",
             setup'.from = setup.from,
             \/ setup'.done = <<>> /\ setup'.room = setup.room
             \/ setup'.done = <<"room">> /\ setup'.room = Here,
             setup'.step = "state" => TakeLock /\ (StateIs(Empty) \/ (Same /\ Here = Empty)),
             Fault \/ UNCHANGED bounds, torn' \in BOOLEAN, torn => torn'
      PROVE  SInv'
  <2>1. /\ lock' \in {lock, Nobody} /\ crossed' \in BOOLEAN
        /\ TakeLock /\ ~crossed' => \A p \in Processes : At(p, "idle")
    BY <1>2, <1>5, MarkedHas
  <2>2. Here \in Dir /\ Proper(Here) /\ Here.registration = Absent /\ Here.pending = NoJournal
    BY <1>5, ReadyHas, HereIs
  <2>3. asides' \in [states : SUBSET Dir, wallet : BOOLEAN]
    BY <1>2, <1>5, <2>2
  <2>4. Same \/ \E d \in Dir : Proper(d) /\ StateIs(d)
    BY <1>5, EmptyIs
  <2>5. Once' /\ WalletLast' /\ OnlyHas({"room"})' /\ (\A e : Has(e)' => e = "room")
    <3>1. CASE setup'.done = <<>>
      BY <3>1, NothingNoted
    <3>2. CASE setup'.done = <<"room">>
      <4>1. Len(setup'.done) = 1 /\ setup'.done[1] = "room"
        BY <3>2
      <4>2. \A i \in 1 .. Len(setup'.done) : i = 1
        BY <4>1
      <4> QED BY <4>1, <4>2 DEF Once, WalletLast, OnlyHas, Has
    <3> QED BY <1>5, <3>1, <3>2
  <2>6. Noting'
    BY <1>5, <2>5 DEF Noting, In, Adopting
  <2>7. SetApart'
    <3>1. setup'.room \in {setup.room, Here}
      BY <1>5
    <3>2. Proper(setup'.room) /\ setup'.room.registration = Absent /\ setup'.room.pending = NoJournal
      BY <2>2, <3>1, ReadyHas DEF SetApart
    <3> QED BY <1>2, <3>2, ReadyHas DEF SetApart, Proper, OfOne, Sound
  <2>8. pending' = NoJournal /\ (setup'.step = "state" => Here' = Empty)
    <3>1. Same => pending' = pending /\ Here' = Here
      BY HereStays DEF Same
    <3>2. StateIs(Empty) => pending' = NoJournal /\ Here' = Empty
      BY EmptyIs, HereBecomes
    <3> QED BY <1>5, <3>1, <3>2
  <2>9. Elsewhere /\ credentials' = None
    BY <1>2, <1>5
  <2>10. CASE TakeLock
    <3>1. ASSUME ~crossed' PROVE KeyIsSomewhere' /\ Undisturbed'
      <4>1. \A p \in Processes : At(p, "idle")
        BY <2>1, <2>10, <3>1
      <4>2. KeyIsSomewhere'
        BY <1>2, <1>5, <2>8, <4>1, StartStateSomewhere
      <4>3. \A p \in Processes : At(p, "idle")'
        BY <2>9, <4>1 DEF At, Elsewhere
      <4>4. ~Has("state")' /\ ~Has("key")'
        BY <2>5
      <4> QED BY <1>5, <2>8, <2>9, <4>2, <4>3, <4>4 DEF Undisturbed, In
    <3>2. ASSUME ~torn' PROVE Accounted'
      <4>1. ~Has("state")' /\ ~Has("key")' /\ ~Has("wallet")'
        BY <2>5
      <4>2. Listed'
        BY <1>2, <1>3, <1>5, <3>2, <4>1 DEF Listed
      <4> QED BY <1>5, <4>2 DEF Accounted, In, Adopting
    <3> QED BY <1>1, <1>2, <1>5, <2>1, <2>3, <2>4, <2>6, <2>7, <2>10, <3>1, <3>2, IdentityStepped
  <2>11. CASE ~TakeLock
    <3>1. Same /\ UNCHANGED <<asides, lock, crossed>> /\ setup'.step = "undo"
      BY <1>5, <2>11
    <3>2. UNCHANGED <<platform, identity, lock, proc, payouts, ghosts>>
      BY <1>2, <3>1 DEF Same, Elsewhere, identity, payouts, ghosts
    <3>3. ~Has("state")' /\ ~Has("key")' /\ ~Has("wallet")'
      BY <2>5
    <3>4. Undisturbed'
      BY <3>1, <3>3 DEF Undisturbed, Moving, In
    <3>5. ASSUME ~torn' PROVE Accounted'
      <4>1. Listed'
        BY <1>2, <1>3, <1>5, <3>3, <3>5 DEF Listed
      <4> QED BY <3>1, <4>1 DEF Accounted, In, Adopting
    <3>6. Housed'
      BY <1>2, <1>5, <2>3, ReadyHas DEF Housed
    <3> QED BY <1>1, <1>2, <1>5, <2>6, <2>7, <3>1, <3>2, <3>4, <3>5, <3>6, SetupStep
  <2> QED BY <2>10, <2>11
<1>6. /\ \A s \in {"custody", "state", "undo"} : Onward(s) => Goes(s, setup.done)
      /\ Stop("conflict") => Over("conflict")
  BY ReadyHas, OnwardGoes, StopIs DEF SetupSteps
<1>7. ASSUME NEW s \in {"state", "undo"},
             setup' = [[setup EXCEPT !.room = Here] EXCEPT !.done = <<"room">>, !.step = s]
      PROVE  /\ setup' \in Setting /\ setup'.step = s /\ setup'.done = <<"room">>
             /\ setup'.room = Here /\ setup'.from = setup.from /\ setup'.told = setup.told
  <2>1. Here \in Dir /\ <<"room">> \in Seq(Entries)
    BY ReadyHas, HereIs DEF Entries
  <2> HIDE DEF Here
  <2> QED BY <1>7, <2>1, ReadyHas DEF Housed, Setting, SetupSteps, Entries
<1>8. ASSUME credentials = None, registration = Absent, pending = NoJournal, Here = Empty,
             Onward("state"), Same, TakeLock, UNCHANGED <<asides, torn, bounds>>
      PROVE  SInv'
  <2>1. /\ setup' \in Setting /\ setup'.step = "state" /\ setup'.told = ""
        /\ setup'.from = setup.from /\ setup'.done = <<>> /\ setup'.room = setup.room
    BY <1>1, <1>6, <1>8 DEF Goes
  <2> QED BY <1>2, <1>5, <1>8, <2>1
<1>9. ASSUME credentials = None, registration = Absent, pending = NoJournal,
             \/ Same /\ UNCHANGED <<asides, lock, crossed>>
             \/ StateIs(Empty) /\ asides' = [asides EXCEPT !.states = @ \cup {Here}] /\ TakeLock,
             Fault, torn' \in {torn, TRUE}, Onward("undo")
      PROVE  SInv'
  <2>1. /\ setup' \in Setting /\ setup'.step = "undo" /\ setup'.told = ""
        /\ setup'.from = setup.from /\ setup'.done = <<>> /\ setup'.room = setup.room
    BY <1>1, <1>6, <1>9 DEF Goes
  <2>2. torn' \in BOOLEAN /\ (torn => torn')
    <3>1. CASE torn' = torn
      BY <1>2, <3>1
    <3>2. CASE torn' = TRUE
      BY <3>2
    <3> QED BY <1>9, <3>1, <3>2
  <2> QED BY <1>2, <1>5, <1>9, <2>1, <2>2
<1>10. ASSUME credentials = None, registration = Absent, pending = NoJournal,
              StateIs(Empty), asides' = [asides EXCEPT !.states = @ \cup {Here}], TakeLock,
              Fault \/ UNCHANGED bounds, UNCHANGED torn, NEW s \in {"state", "undo"},
              setup' = [[setup EXCEPT !.room = Here] EXCEPT !.done = <<"room">>, !.step = s]
       PROVE  SInv'
  BY <1>1, <1>2, <1>5, <1>7, <1>10
<1> QED BY <1>4, <1>6, <1>8, <1>9, <1>10 DEF AdoptIdentity

LEMMA MoveStateKeeps ==
    ASSUME Ready, MoveState
    PROVE  SInv'
<1>1. /\ In("state") /\ Adopting /\ OnlyHas({"room"}) /\ Once /\ WalletLast /\ setup.told = ""
      /\ ~Has("state") /\ ~Has("key") /\ ~Has("wallet") /\ ~In("connecting")
  BY ReadyHas, NotAmong DEF MoveState, Noting, In, Adopting
<1>2. /\ Elsewhere /\ UNCHANGED <<credentials, wallet, asides, spooled, beside>>
      /\ credentials' = None /\ Here = Empty /\ (\A p \in Processes : At(p, "idle"))
      /\ (Fault \/ UNCHANGED bounds)
  BY <1>1, ReadyHas DEF MoveState, Move, Undisturbed, Moving
<1>3. /\ credentials' \in 0 .. Damaged /\ givenUp \subseteq Agents /\ crossed \in BOOLEAN
      /\ wallet' \in Wallets /\ asides' \in [states : SUBSET Dir, wallet : BOOLEAN]
      /\ source \in Source /\ source.dir \in Dir /\ torn \in BOOLEAN /\ setup.room \in Dir
  BY <1>2, ReadyHas, MarkedHas, SettingHas DEF Housed, Source
<1>4. /\ pending = NoJournal /\ InUse = {} /\ registration = Absent
  BY <1>2, ReadyHas, HereIs, Vacant
<1>5. ~torn => Listed
  BY <1>1, ReadyHas, AtAdopting
<1>6. /\ Proper(source.dir) /\ OfOne(source.dir) /\ source.key \in {None, 1}
      /\ Proper(setup.room) /\ setup.room.registration = Absent /\ setup.room.pending = NoJournal
  BY ReadyHas DEF SetApart
<1>7. \A p \in Processes : At(p, "idle")'
  BY <1>2 DEF At, Elsewhere
\* It stays where it is.
<1>8. ASSUME Same, UNCHANGED <<lock, givenUp, crossed, source, torn>>,
             NEW s \in {"key", "undo"}, Goes(s, setup.done),
             s = "key" => source.dir = Empty
      PROVE  SInv'
  <2>1. /\ \A e : Has(e)' <=> Has(e)
        /\ Once' /\ WalletLast' /\ OnlyHas({"room"})'
    BY <1>1, <1>8, ReadyHas, Kept
  <2>2. Noting'
    <3>1. OnlyHas({"room", "state"})'
      BY <2>1 DEF OnlyHas
    <3> QED BY <1>1, <1>8, <2>1, <3>1 DEF Noting, Goes, In, Adopting
  <2>3. SetApart'
    BY <1>6, <1>8 DEF SetApart, Goes, Proper, OfOne, Sound
  <2>4. Here' = Empty /\ OfOne(Here)'
    <3>1. Here' = Empty
      BY <1>2, <1>8, HereStays
    <3> QED BY <3>1, EmptyIs DEF OfOne
  <2>5. Undisturbed'
    BY <1>1, <1>2, <1>7, <1>8, <2>1, <2>4 DEF Undisturbed, Goes, In
  <2>6. ASSUME ~torn' PROVE Accounted'
    <3>1. Listed
      BY <1>5, <1>8, <2>6
    <3>2. Listed'
      BY <1>1, <1>8, <2>1, <3>1 DEF Listed, Goes
    <3> QED BY <1>8, <3>2 DEF Accounted, Goes, In, Adopting
  <2>7. KeyIsSomewhere'
    <3>1. pending' = NoJournal
      BY <1>4, <1>8 DEF Same
    <3> QED BY <1>2, <1>4, <1>8, <3>1, StartStateSomewhere
  <2> QED BY <1>1, <1>2, <1>3, <1>8, <2>2, <2>3, <2>5, <2>6, <2>7, IdentityStepped DEF Goes
\* It is moved.
<1>9. ASSUME StateIs(source.dir), source' = [source EXCEPT !.dir = Empty], TakeLock,
             Taken({source.dir.pending.agent}), source.dir # Empty, torn' \in BOOLEAN,
             torn => torn', NEW s \in {"key", "undo"},
             \/ Goes(s, Append(setup.done, "state"))
             \/ Goes(s, setup.done) /\ torn' /\ s = "undo"
      PROVE  SInv'
  <2>1. /\ source' \in Source /\ source'.dir = Empty /\ source'.key = source.key
        /\ source'.wallet = source.wallet
    BY <1>9, EmptyIs, ReadyHas, RecordFields
  <2>2. /\ Here' = source.dir /\ registration' = source.dir.registration
        /\ pending' = source.dir.pending
    BY <1>3, <1>9, HereBecomes
  <2>3. /\ lock' \in {lock, Nobody} /\ crossed' \in BOOLEAN /\ givenUp' \subseteq Agents
    BY <1>9, ReadyHas, MarkedHas
  <2>4. /\ setup' \in Setting /\ setup'.step = s /\ setup'.room = setup.room /\ setup'.told = ""
        /\ setup'.from = setup.from
    BY <1>1, <1>9 DEF Goes
  <2>5. /\ Once' /\ WalletLast' /\ OnlyHas({"room", "state"})' /\ ~Has("key")' /\ ~Has("wallet")'
        /\ ~torn' => Has("state")'
    <3>1. OnlyHas({"room", "state"}) /\ "state" \in Entries
      BY <1>1 DEF OnlyHas, Entries
    <3>2. CASE Goes(s, Append(setup.done, "state"))
      BY <1>1, <3>1, <3>2, ReadyHas, Grown
    <3>3. CASE Goes(s, setup.done) /\ torn'
      BY <1>1, <3>1, <3>3, ReadyHas, Kept
    <3> QED BY <1>9, <3>2, <3>3
  <2>6. Noting'
    BY <2>4, <2>5 DEF Noting, In, Adopting
  <2>7. SetApart'
    BY <1>6, <2>1, <2>4, EmptyIs DEF SetApart, Proper, OfOne, Sound
  <2>8. OfOne(Here)'
    BY <1>6, <2>2 DEF OfOne
  <2>9. Undisturbed'
    BY <1>2, <1>7, <2>4, <2>5, <2>8 DEF Undisturbed, In
  <2>10. KeyIsSomewhere'
    <3>1. InUse' \subseteq {pending'.agent}
      BY <1>2, <1>4, <1>9, <2>2 DEF InUse, Taken, Elsewhere
    <3>2. credentials' \notin Agents
      BY <1>2, Numbers
    <3> QED BY <3>1, <3>2 DEF KeyIsSomewhere, Matched
  <2>11. ASSUME ~torn' PROVE Accounted'
    <3>1. Listed
      BY <1>5, <1>9, <2>11
    <3>2. Listed'
      BY <1>1, <1>9, <2>1, <2>2, <2>4, <2>5, <2>11, <3>1 DEF Listed
    <3> QED BY <2>1, <2>4, <3>2 DEF Accounted, In, Adopting
  <2> QED BY <1>1, <1>2, <1>3, <1>6, <1>9, <2>1, <2>3, <2>4, <2>6, <2>7, <2>9, <2>10, <2>11,
             IdentityStepped
<1>10. /\ \A s \in {"key", "undo"} : Onward(s) => Goes(s, setup.done)
       /\ \A s \in {"key", "undo"} : Noted("state", s) => Goes(s, Append(setup.done, "state"))
  BY ReadyHas, OnwardGoes, NotedGoes DEF SetupSteps, Entries
<1>11. CASE Same /\ UNCHANGED <<lock, givenUp, crossed, source>>
  <2>1. \/ Onward("key") /\ source.dir = Empty /\ UNCHANGED torn
        \/ Onward("undo") /\ UNCHANGED torn
        \/ source.dir # Empty /\ StateIs(source.dir) /\ source' = [source EXCEPT !.dir = Empty]
    BY DEF MoveState, Move
  <2>2. CASE source.dir # Empty /\ StateIs(source.dir) /\ source' = [source EXCEPT !.dir = Empty]
    <3>1. source'.dir = Empty
      BY <2>2, EmptyIs, ReadyHas, RecordFields
    <3> QED BY <1>11, <2>2, <3>1
  <2> QED BY <1>8, <1>10, <1>11, <2>1, <2>2
<1>12. CASE ~(Same /\ UNCHANGED <<lock, givenUp, crossed, source>>)
  <2>1. /\ source.dir # Empty /\ StateIs(source.dir) /\ source' = [source EXCEPT !.dir = Empty]
        /\ TakeLock /\ Taken({source.dir.pending.agent})
        /\ \/ (Noted("state", "key") \/ Noted("state", "undo")) /\ UNCHANGED torn
           \/ Onward("undo") /\ torn' = TRUE
    BY <1>12 DEF MoveState, Move
  <2>2. CASE (Noted("state", "key") \/ Noted("state", "undo")) /\ UNCHANGED torn
    BY <1>3, <1>9, <1>10, <2>1, <2>2
  <2>3. CASE Onward("undo") /\ torn' = TRUE
    BY <1>9, <1>10, <2>1, <2>3
  <2> QED BY <2>1, <2>2, <2>3
<1> QED BY <1>11, <1>12

LEMMA MoveKeyKeeps ==
    ASSUME Ready, MoveKey
    PROVE  SInv'
<1>1. /\ In("key") /\ Adopting /\ OnlyHas({"room", "state"}) /\ Once /\ WalletLast
      /\ setup.told = "" /\ ~Has("key") /\ ~Has("wallet") /\ ~In("connecting")
  BY ReadyHas, NotAmong DEF MoveKey, Noting, In, Adopting
<1>2. /\ Same /\ Elsewhere /\ UNCHANGED <<lock, crossed, wallet, asides, spooled, beside>>
      /\ credentials = None /\ OfOne(Here) /\ (\A p \in Processes : At(p, "idle"))
      /\ (Fault \/ UNCHANGED bounds)
  BY <1>1, ReadyHas DEF MoveKey, Move, Undisturbed, Moving
<1>3. /\ givenUp \subseteq Agents /\ crossed \in BOOLEAN /\ credentials \in 0 .. Damaged
      /\ wallet' \in Wallets /\ asides' \in [states : SUBSET Dir, wallet : BOOLEAN]
      /\ source \in Source /\ source.key \in 0 .. Damaged /\ torn \in BOOLEAN
      /\ None \in 0 .. Damaged
  BY <1>2, ReadyHas, MarkedHas, Numbers DEF Housed, Source
<1>4. /\ KeyIsSomewhere /\ \A a \in InUse : a # None /\ pending.agent = a
  BY <1>2, ReadyHas, AtRest DEF Identity
<1>5. ~torn => Listed /\ source.dir = Empty
  BY <1>1, ReadyHas, AtAdopting DEF Accounted, In
<1>6. /\ Proper(source.dir) /\ OfOne(source.dir) /\ source.key \in {None, 1}
      /\ Proper(setup.room) /\ setup.room.registration = Absent /\ setup.room.pending = NoJournal
  BY ReadyHas DEF SetApart
<1>7. /\ \A p \in Processes : At(p, "idle")'
      /\ \A a : ~InHand(a)'
  BY <1>2, HandsIdle DEF At, Elsewhere
<1>8. /\ Here' = Here /\ registration' = registration /\ pending' = pending
      /\ registration.agent \in {None, 1} /\ pending.agent \in {None, 1}
  BY <1>2, ReadyHas, HereStays, HereIs DEF Same, OfOne
<1>9. OfOne(Here)'
  BY <1>2, <1>8 DEF OfOne
\* It stays where it is.
<1>10. ASSUME UNCHANGED <<credentials, source, givenUp, torn>>,
              NEW s \in {"custody", "undo"}, Goes(s, setup.done), s = "custody" => source.key = None
       PROVE  SInv'
  <2>1. /\ \A e : Has(e)' <=> Has(e)
        /\ Once' /\ WalletLast' /\ OnlyHas({"room", "state"})'
    BY <1>1, <1>10, ReadyHas, Kept
  <2>2. Noting'
    <3>1. OnlyHas({"room", "state", "key"})'
      BY <2>1 DEF OnlyHas
    <3> QED BY <1>1, <1>10, <2>1, <3>1 DEF Noting, Goes, In, Adopting
  <2>3. SetApart'
    BY <1>6, <1>10 DEF SetApart, Goes, Proper, OfOne, Sound
  <2>4. Undisturbed'
    BY <1>1, <1>7, <1>9, <1>10, <2>1 DEF Undisturbed, Goes, In
  <2>5. ASSUME ~torn' PROVE Accounted'
    <3>1. Listed /\ source.dir = Empty
      BY <1>5, <1>10, <2>5
    <3>2. Listed'
      BY <1>1, <1>2, <1>8, <1>10, <2>1, <3>1 DEF Listed, Goes
    <3> QED BY <1>10, <3>1, <3>2 DEF Accounted, Goes, In, Adopting
  <2>6. KeyIsSomewhere'
    BY <1>4, <1>2, <1>8, <1>10 DEF KeyIsSomewhere, Matched, InUse, Elsewhere, InHand, At, Mine
  <2> QED BY <1>1, <1>2, <1>3, <1>10, <2>2, <2>3, <2>4, <2>5, <2>6, IdentityStepped DEF Goes
\* It takes the place of whatever is there.
<1>11. ASSUME credentials' = source.key, source' = [source EXCEPT !.key = None],
              Taken({source.key}), source.key # None, torn' \in BOOLEAN, torn => torn',
              NEW s \in {"custody", "undo"},
              \/ Goes(s, Append(setup.done, "key"))
              \/ Goes(s, setup.done) /\ torn' /\ s = "undo"
       PROVE  SInv'
  <2>1. /\ source' \in Source /\ source'.dir = source.dir /\ source'.key = None
        /\ source'.wallet = source.wallet /\ credentials' = 1
    BY <1>3, <1>6, <1>11, ReadyHas, RecordFields
  <2>2. givenUp' \subseteq Agents /\ credentials' \in 0 .. Damaged
    BY <1>3, <1>11, ReadyHas, MarkedHas
  <2>3. /\ setup' \in Setting /\ setup'.step = s /\ setup'.room = setup.room /\ setup'.told = ""
        /\ setup'.from = setup.from
    BY <1>1, <1>11 DEF Goes
  <2>4. /\ Once' /\ WalletLast' /\ OnlyHas({"room", "state", "key"})' /\ ~Has("wallet")'
        /\ (Has("state")' <=> Has("state"))
        /\ ~torn' => Has("key")'
    <3>1. OnlyHas({"room", "state", "key"}) /\ "key" \in Entries
      BY <1>1 DEF OnlyHas, Entries
    <3>2. CASE Goes(s, Append(setup.done, "key"))
      BY <1>1, <3>1, <3>2, ReadyHas, Grown
    <3>3. CASE Goes(s, setup.done) /\ torn'
      BY <1>1, <3>1, <3>3, ReadyHas, Kept
    <3> QED BY <1>11, <3>2, <3>3
  <2>5. Noting'
    BY <2>3, <2>4 DEF Noting, In, Adopting
  <2>6. SetApart'
    BY <1>6, <2>1, <2>3 DEF SetApart, Proper, OfOne, Sound
  <2>7. Undisturbed'
    BY <1>7, <1>9, <2>1, <2>3 DEF Undisturbed, In
  <2>8. KeyIsSomewhere'
    <3>1. \A a \in InUse' : a = 1 \/ a \in InUse
      BY <1>2, <1>11, <1>6 DEF InUse, Taken, Elsewhere
    <3>2. \A a \in InUse' : a = 1
      BY <1>4, <1>8, <3>1
    <3>3. pending # NoJournal => pending.agent = 1
      BY <1>8, ReadyHas DEF Typed, Filed
    <3>4. registration.status \in Usable => registration.agent = 1
      BY <1>8, ReadyHas DEF Typed, Filed, Sound
    <3> QED BY <1>8, <2>1, <3>2, <3>3, <3>4 DEF KeyIsSomewhere, Matched
  <2>9. ASSUME ~torn' PROVE Accounted'
    <3>1. Listed /\ source.dir = Empty
      BY <1>5, <1>11, <2>9
    <3>2. Listed'
      BY <1>1, <1>2, <1>8, <1>11, <2>1, <2>3, <2>4, <2>9, <3>1 DEF Listed
    <3> QED BY <2>1, <2>3, <3>1, <3>2 DEF Accounted, In, Adopting
  <2> QED BY <1>1, <1>2, <1>3, <1>11, <2>1, <2>2, <2>3, <2>5, <2>6, <2>7, <2>8, <2>9,
             IdentityStepped
<1>12. /\ \A s \in {"custody", "undo"} : Onward(s) => Goes(s, setup.done)
       /\ \A s \in {"custody", "undo"} : Noted("key", s) => Goes(s, Append(setup.done, "key"))
  BY ReadyHas, OnwardGoes, NotedGoes DEF SetupSteps, Entries
<1>13. CASE source.key = None
  BY <1>10, <1>12, <1>13 DEF MoveKey
<1>14. CASE UNCHANGED <<credentials, source, givenUp, torn>> /\ Onward("undo")
  BY <1>10, <1>12, <1>14
<1>15. CASE /\ source.key # None
            /\ credentials' = source.key /\ source' = [source EXCEPT !.key = None]
            /\ Taken({source.key})
            /\ \/ (Noted("key", "custody") \/ Noted("key", "undo")) /\ UNCHANGED torn
               \/ Onward("undo") /\ torn' = TRUE
  <2>1. CASE (Noted("key", "custody") \/ Noted("key", "undo")) /\ UNCHANGED torn
    BY <1>3, <1>11, <1>12, <1>15, <2>1
  <2>2. CASE Onward("undo") /\ torn' = TRUE
    BY <1>11, <1>12, <1>15, <2>2
  <2> QED BY <1>15, <2>1, <2>2
<1> QED BY <1>13, <1>14, <1>15 DEF MoveKey, Move

-----------------------------------------------------------------------------
(* bundleTxn.fail.                                                         *)

\* What may be put back, and what it leaves.
PutBack(e) == /\ e = "room" => Here = Empty
              /\ e = "key" => credentials # None
              /\ Back(e)

LEMMA PutBackTypes ==
    ASSUME Ready, In("undo"), NEW e \in Entries, Has(e), PutBack(e), Elsewhere
    PROVE  /\ lock' \in {lock, Nobody} /\ crossed' \in BOOLEAN /\ credentials' \in 0 .. Damaged
           /\ givenUp' \subseteq Agents /\ (Same \/ \E d \in Dir : Proper(d) /\ StateIs(d))
           /\ wallet' \in Wallets /\ source' \in Source
           /\ asides' \in [states : SUBSET Dir, wallet : BOOLEAN]
           /\ Proper(source'.dir) /\ OfOne(source'.dir) /\ source'.key \in {None, 1}
<1>1. /\ givenUp \subseteq Agents /\ crossed \in BOOLEAN /\ credentials \in 0 .. Damaged
      /\ None \in 0 .. Damaged /\ {"none", "partial"} \subseteq Wallets
      /\ wallet \in Wallets /\ source \in Source
      /\ asides \in [states : SUBSET Dir, wallet : BOOLEAN] /\ setup.room \in Dir
  BY ReadyHas, MarkedHas, SettingHas, Numbers DEF Housed, Wallets
<1>2. /\ Proper(source.dir) /\ OfOne(source.dir) /\ source.key \in {None, 1}
      /\ Proper(setup.room) /\ Here \in Dir /\ Proper(Here) /\ Empty \in Dir /\ Proper(Empty)
  BY ReadyHas, HereIs, EmptyIs DEF SetApart
<1>3. (Has("state") => OfOne(Here)) /\ (Has("key") => credentials = 1)
  BY ReadyHas DEF Undisturbed, In, Adopting
<1>4. CASE e = "state"
  <2>1. /\ StateIs(Empty) /\ source' = [source EXCEPT !.dir = Here]
        /\ TakeLock /\ Return({pending.agent}) /\ UNCHANGED <<credentials, wallet, asides>>
    BY <1>4 DEF PutBack, Back
  <2>2. source' \in Source /\ source'.dir = Here /\ source'.key = source.key
    BY <1>2, <2>1, ReadyHas, RecordFields
  <2>3. givenUp' \subseteq Agents /\ lock' \in {lock, Nobody} /\ crossed' \in BOOLEAN
    BY <2>1, ReadyHas, MarkedHas
  <2> QED BY <1>1, <1>2, <1>3, <1>4, <2>1, <2>2, <2>3
<1>5. CASE e = "key"
  <2>1. /\ credentials' = None /\ source' = [source EXCEPT !.key = credentials]
        /\ Same /\ Return({credentials}) /\ UNCHANGED <<lock, crossed, wallet, asides>>
    BY <1>5 DEF PutBack, Back
  <2>2. source' \in Source /\ source'.dir = source.dir /\ source'.key = credentials
    BY <1>1, <2>1, ReadyHas, RecordFields
  <2>3. givenUp' \subseteq Agents
    BY <2>1, ReadyHas, MarkedHas
  <2> QED BY <1>1, <1>2, <1>3, <1>5, <2>1, <2>2, <2>3
<1>6. CASE e = "room"
  <2>1. /\ StateIs(setup.room) /\ asides' = [asides EXCEPT !.states = @ \ {setup.room}]
        /\ UNCHANGED <<credentials, lock, givenUp, crossed, wallet, source>>
    BY <1>6 DEF PutBack, Back
  <2>2. asides' \in [states : SUBSET Dir, wallet : BOOLEAN]
    BY <1>1, <2>1
  <2> QED BY <1>1, <1>2, <2>1, <2>2
<1>7. CASE e = "wallet"
  <2>1. /\ wallet' = "none" /\ source' = [source EXCEPT !.wallet = wallet]
        /\ Same /\ UNCHANGED <<credentials, lock, givenUp, crossed, asides>>
    BY <1>7 DEF PutBack, Back
  <2>2. source' \in Source /\ source'.dir = source.dir /\ source'.key = source.key
    BY <1>1, <2>1, ReadyHas, RecordFields
  <2> QED BY <1>1, <1>2, <2>1, <2>2
<1>8. CASE e = "partial"
  <2>1. /\ wallet' = "partial" /\ asides' = [asides EXCEPT !.wallet = FALSE]
        /\ Same /\ UNCHANGED <<credentials, lock, givenUp, crossed, source>>
    BY <1>8 DEF PutBack, Back
  <2>2. asides' \in [states : SUBSET Dir, wallet : BOOLEAN]
    BY <1>1, <2>1
  <2> QED BY <1>1, <1>2, <2>1, <2>2
<1> QED BY <1>4, <1>5, <1>6, <1>7, <1>8 DEF Entries

\* Taking part of the identity back loses no key of an agent in use.
LEMMA PutBackIdentity ==
    ASSUME Ready, In("undo"), NEW e \in Entries, Has(e), PutBack(e), Elsewhere,
           Fault \/ UNCHANGED bounds
    PROVE  IInv'
<1>1. Identity /\ Matched /\ KeyIsSomewhere /\ IInv /\ Typed
  BY ReadyHas DEF Identity, KeyIsSomewhere
<1>2. Has("state") \/ Has("key") => \A p \in Processes : At(p, "idle")
  BY ReadyHas DEF Undisturbed, Moving, In, Adopting
<1>3. UNCHANGED <<platform, proc, active, inForce, orphans>>
  BY DEF Elsewhere
<1>4. Filed' /\ Paid' /\ Marked' /\ Counted'
  <2>1. Filed' /\ Paid'
    BY <1>1, <1>3, PutBackTypes, FilesMoved
  <2>2. Marked' /\ Counted'
    BY <1>1, <1>3, PutBackTypes, Bounded DEF Typed, Marked
  <2> QED BY <2>1, <2>2
<1>5. CASE e \in {"state", "key"}
  <2>1. \A p \in Processes : At(p, "idle")
    BY <1>2, <1>5
  <2>2. /\ \A a \in InUse : a # None /\ (credentials = a \/ pending.agent = a)
        /\ pending # NoJournal => InUse \subseteq {pending.agent}
    BY <1>1, <2>1, AtRest
  <2>3. KeyIsSomewhere'
    <3>1. CASE e = "state"
      <4>1. /\ StateIs(Empty) /\ givenUp' = givenUp \cup ({pending.agent} \cap Agents)
            /\ credentials' = credentials
        BY <3>1 DEF PutBack, Back, Return
      <4>2. registration' = Absent /\ pending' = NoJournal
        BY <4>1, EmptyIs, HereBecomes
      <4>3. \A a \in InUse' : a \in InUse /\ a # pending.agent
        BY <1>3, <4>1 DEF InUse
      <4>4. "absent" \notin Usable /\ Absent.status = "absent"
        BY DEF Absent, Usable, Live
      <4>5. Matched'
        BY <4>2, <4>4 DEF Matched
      <4> QED BY <2>2, <4>1, <4>2, <4>3, <4>5 DEF KeyIsSomewhere
    <3>2. CASE e = "key"
      <4>1. /\ Same /\ givenUp' = givenUp \cup ({credentials} \cap Agents)
            /\ credentials' = None
        BY <3>2 DEF PutBack, Back, Return
      <4>2. \A a \in InUse' : a \in InUse /\ a # credentials
        BY <1>3, <4>1 DEF InUse
      <4>3. Matched'
        BY <4>1, Numbers DEF Matched
      <4>4. pending' = pending
        BY <4>1 DEF Same
      <4> QED BY <2>2, <4>2, <4>3, <4>4 DEF KeyIsSomewhere
    <3> QED BY <1>5, <3>1, <3>2
  <2> QED BY <1>1, <1>3, <1>4, <2>1, <2>3, PutBackTypes, IdentityMoved
<1>6. CASE e = "room"
  <2>1. /\ StateIs(setup.room) /\ Here = Empty
        /\ UNCHANGED <<credentials, lock, givenUp, crossed>>
    BY <1>6 DEF PutBack, Back
  <2>2. registration = Absent /\ pending = NoJournal
    BY <1>1, <2>1, HereIs
  <2>3. registration' = Absent /\ pending' = NoJournal
    BY <2>1, ReadyHas, SettingHas, HereBecomes DEF SetApart
  <2>4. Spared /\ Followed /\ Matched'
    BY <1>1, <1>3, <2>1, <2>2, <2>3 DEF Spared, Followed, InUse, About, Matched
  <2> QED BY <1>1, <1>3, <1>4, <2>1, <2>4, OutsideStep
<1>7. CASE e \in {"wallet", "partial"}
  <2>1. Same /\ UNCHANGED <<credentials, lock, givenUp, crossed>>
    BY <1>7 DEF PutBack, Back
  <2>2. UNCHANGED <<platform, identity, lock, proc, payouts, ghosts>>
    BY <1>3, <2>1 DEF Same, identity, payouts, ghosts
  <2> QED BY <1>1, <2>2, NothingMoved
<1> QED BY <1>5, <1>6, <1>7 DEF Entries

\* What is put back is where it was, and the rest is as the journal says.
LEMMA PutBackAccount ==
    ASSUME Ready, In("undo"), ~torn, NEW e \in Entries, Has(e), PutBack(e),
           \A x : Has(x)' <=> Has(x) /\ x # e, Has("wallet") => e = "wallet",
           setup'.from = setup.from
    PROVE  Listed'
<1>1. Listed
  BY ReadyHas DEF Accounted, In, Adopting
<1>2. source \in Source /\ wallet \in Wallets /\ credentials \in 0 .. Damaged
  BY ReadyHas, MarkedHas DEF Housed
<1>3. CASE e = "state"
  <2>1. /\ StateIs(Empty) /\ source' = [source EXCEPT !.dir = Here]
        /\ UNCHANGED <<credentials, wallet>>
    BY <1>3 DEF PutBack, Back
  <2>2. source'.dir = Here /\ source'.key = source.key /\ source'.wallet = source.wallet
    BY <2>1, ReadyHas, HereIs, RecordFields
  <2> QED BY <1>1, <1>3, <2>1, <2>2 DEF Listed
<1>4. CASE e = "key"
  <2>1. /\ Same /\ source' = [source EXCEPT !.key = credentials] /\ UNCHANGED wallet
    BY <1>4 DEF PutBack, Back
  <2>2. /\ source'.dir = source.dir /\ source'.key = credentials /\ source'.wallet = source.wallet
        /\ Here' = Here
    BY <1>2, <2>1, ReadyHas, HereStays, RecordFields
  <2> QED BY <1>1, <1>4, <2>1, <2>2 DEF Listed
<1>5. CASE e = "room"
  <2>1. Here = Empty /\ UNCHANGED <<credentials, wallet, source>>
    BY <1>5 DEF PutBack, Back
  <2>2. ~Has("state")
    BY <1>1, <2>1 DEF Listed
  <2> QED BY <1>1, <1>5, <2>1, <2>2 DEF Listed
<1>6. CASE e = "wallet"
  <2>1. Same /\ source' = [source EXCEPT !.wallet = wallet] /\ UNCHANGED credentials
    BY <1>6 DEF PutBack, Back
  <2>2. /\ source'.dir = source.dir /\ source'.key = source.key /\ source'.wallet = wallet
        /\ Here' = Here
    BY <1>2, <2>1, ReadyHas, HereStays, RecordFields
  <2> QED BY <1>1, <1>6, <2>1, <2>2 DEF Listed
<1>7. CASE e = "partial"
  <2>1. Same /\ UNCHANGED <<credentials, source>> /\ ~Has("wallet")
    BY <1>7 DEF PutBack, Back
  <2>2. Here' = Here
    BY <2>1, HereStays
  <2> QED BY <1>1, <1>7, <2>1, <2>2 DEF Listed
<1> QED BY <1>3, <1>4, <1>5, <1>6, <1>7 DEF Entries

\* While part of the identity is still noted, it stays agent 1's and undisturbed.
LEMMA PutBackUndisturbed ==
    ASSUME Ready, In("undo"), NEW e \in Entries, Has(e), PutBack(e), Elsewhere,
           \A x : Has(x)' <=> Has(x) /\ x # e, setup'.step = "undo"
    PROVE  Undisturbed'
<1>1. /\ Has("state") => OfOne(Here)
      /\ Has("key") => credentials = 1
      /\ Has("state") \/ Has("key") => \A p \in Processes : At(p, "idle")
  BY ReadyHas DEF Undisturbed, Moving, In, Adopting
<1>2. \A p \in Processes : At(p, "idle")' <=> At(p, "idle")
  BY DEF At, Elsewhere
<1>3. Has("state")' => OfOne(Here)'
  <2>1. CASE e = "room"
    <3>1. setup.room \in Dir /\ setup.room.registration = Absent /\ setup.room.pending = NoJournal
      BY ReadyHas, SettingHas DEF SetApart
    <3>2. Here' = setup.room
      BY <2>1, <3>1, HereBecomes DEF PutBack, Back
    <3> QED BY <3>1, <3>2 DEF OfOne, Absent, NoJournal
  <2>2. CASE e # "room" /\ e # "state"
    <3>1. Here' = Here
      BY <2>2, HereStays DEF PutBack, Back, Entries
    <3> QED BY <1>1, <3>1 DEF OfOne
  <2> QED BY <2>1, <2>2
<1>4. Has("key")' => credentials' = 1
  BY <1>1 DEF PutBack, Back, Entries
<1> QED BY <1>1, <1>2, <1>3, <1>4 DEF Undisturbed, Moving, In

LEMMA UndoKeeps ==
    ASSUME Ready, Undo
    PROVE  SInv'
<1>1. /\ In("undo") /\ Adopting /\ Once /\ WalletLast /\ setup.told = "" /\ ~In("connecting")
      /\ Elsewhere /\ UNCHANGED <<spooled, beside>> /\ (Fault \/ UNCHANGED bounds)
  BY ReadyHas DEF Undo, Noting, In, Adopting
<1>2. /\ wallet \in Wallets /\ source \in Source /\ torn \in BOOLEAN
      /\ asides \in [states : SUBSET Dir, wallet : BOOLEAN]
      /\ credentials \in 0 .. Damaged /\ givenUp \subseteq Agents /\ crossed \in BOOLEAN
  BY ReadyHas, MarkedHas DEF Housed
<1>3. ASSUME NEW t \in {"putBack", "survives"}, Over(t) PROVE Noting' /\ Undisturbed'
  BY <1>3, NothingNoted, OffUndisturbed DEF Over, Noting, Off, In, Adopting
\* All is back, or what is not stays.
<1>4. ASSUME Stay, NEW t \in {"putBack", "survives"}, Over(t), torn' \in BOOLEAN, torn => torn',
             t = "putBack" => setup.done = <<>>
      PROVE  SInv'
  <2>1. UNCHANGED <<platform, identity, lock, proc, payouts, ghosts, wallet, source, asides>>
    BY <1>1, <1>4 DEF Stay, Same, Elsewhere, identity, payouts, ghosts
  <2>2. Housed' /\ SetApart'
    BY <1>1, <1>4, <2>1, ReadyHas, RoomStays DEF Housed, Over
  <2>3. ASSUME ~torn' PROVE Accounted'
    <3>1. CASE t = "survives"
      BY <1>4, <3>1 DEF Accounted, Over, In, Adopting
    <3>2. CASE t = "putBack"
      <4>1. Listed /\ \A e : ~Has(e)
        <5>1. Len(setup.done) = 0
          BY <1>4, <3>2
        <5>2. \A e : ~Has(e)
          BY <5>1 DEF Has
        <5>3. Listed
          BY <1>1, <1>4, <2>3, ReadyHas, AtAdopting
        <5> QED BY <5>2, <5>3
      <4>2. InPlace'
        BY <1>4, <2>1, <3>2, <4>1 DEF Listed, InPlace, Over
      <4> QED BY <1>4, <3>2, <4>2 DEF Accounted, Over, In, Adopting
    <3> QED BY <1>4, <3>1, <3>2
  <2> QED BY <1>1, <1>3, <1>4, <2>1, <2>2, <2>3, SetupStep DEF Over
<1>5. ASSUME setup.done # <<>>, NEW e, e = setup.done[Len(setup.done)], PutBack(e),
             \/ Struck /\ UNCHANGED torn
             \/ Over("survives") /\ torn' = TRUE
      PROVE  SInv'
  <2>1. e \in Entries /\ Has(e)
    <3>1. PICK d \in Seq(Entries) : d = setup.done
      BY ReadyHas, SettingHas
    <3>2. Len(d) \in 1 .. Len(d) /\ d[Len(d)] \in Entries
      BY <1>5, <3>1
    <3> QED BY <1>5, <3>1, <3>2 DEF Has
  <2>2. IInv'
    BY <1>1, <2>1, <1>5, PutBackIdentity
  <2>3. Struck => /\ Goes("undo", SubSeq(setup.done, 1, Len(setup.done) - 1))
                  /\ \A x : Has(x)' <=> Has(x) /\ x # e
                  /\ Once' /\ WalletLast' /\ (Has("wallet") => e = "wallet")
    BY <1>1, <1>5, ReadyHas, Shrunk DEF In
  <2>4. /\ setup' \in Setting /\ setup'.step # "connecting" /\ setup'.room \in {setup.room, Empty}
        /\ torn' \in BOOLEAN
    BY <1>2, <1>5, <2>3 DEF Goes, Over
  <2>5. Housed' /\ SetApart'
    <3>1. Housed'
      BY <1>1, <1>5, <2>1, <2>4, PutBackTypes, ReadyHas DEF Housed
    <3>2. SetApart'
      BY <1>1, <1>5, <2>1, <2>4, PutBackTypes, EmptyIs, ReadyHas DEF SetApart, Proper, OfOne, Sound
    <3> QED BY <3>1, <3>2
  <2>6. Apart'
    BY <1>1, ReadyHas DEF Apart, At, Elsewhere
  <2>7. CASE Over("survives") /\ torn' = TRUE
    BY <1>3, <2>2, <2>5, <2>6, <2>7, SInvNext
  <2>8. CASE Struck /\ UNCHANGED torn
    <3>1. Goes("undo", SubSeq(setup.done, 1, Len(setup.done) - 1))
      BY <2>3, <2>8
    <3>2. setup'.step = "undo" /\ setup'.told = "" /\ setup'.from = setup.from
      BY <1>1, <3>1 DEF Goes
    <3>3. Noting'
      BY <2>3, <2>8, <3>2 DEF Noting, In, Adopting
    <3>4. Undisturbed'
      BY <1>1, <1>5, <2>1, <2>3, <2>8, <3>2, PutBackUndisturbed
    <3>5. ASSUME ~torn' PROVE Accounted'
      <4>1. Listed'
        BY <1>1, <1>5, <2>1, <2>3, <2>8, <3>2, <3>5, PutBackAccount
      <4> QED BY <3>2, <4>1 DEF Accounted, In, Adopting
    <3> QED BY <2>2, <2>5, <2>6, <3>3, <3>4, <3>5, SInvNext
  <2> QED BY <1>5, <2>7, <2>8
<1>6. \A t \in {"putBack", "survives"} : Stop(t) => Over(t)
  BY ReadyHas, StopIs
<1>7. CASE ~Undoing
  BY <1>2, <1>4, <1>6, <1>7 DEF Undo, Undoing
<1>8. CASE Undoing
  <2>1. PICK e : e = setup.done[Len(setup.done)]
    OBVIOUS
  <2>2. \/ PutBack(e) /\ UNCHANGED torn /\ Struck
        \/ Stop("survives") /\ torn' = TRUE /\ (Stay \/ PutBack(e))
    BY <1>8, <2>1 DEF Undo, PutBack, Struck
  <2>3. CASE Stop("survives") /\ torn' = TRUE /\ Stay
    BY <1>4, <1>6, <2>3
  <2>4. CASE PutBack(e) /\ ((Struck /\ UNCHANGED torn) \/ (Stop("survives") /\ torn' = TRUE))
    BY <1>5, <1>6, <1>8, <2>1, <2>4 DEF Undoing
  <2> QED BY <2>2, <2>3, <2>4
<1> QED BY <1>7, <1>8

-----------------------------------------------------------------------------
(* The theorems about setup.                                               *)

LEMMA SetupKeeps == SInv /\ [SNext]_allVars => SInv'
<1> SUFFICES ASSUME SInv, [SNext]_allVars PROVE SInv'
  OBVIOUS
<1>1. CASE UNCHANGED allVars
  <2>1. /\ UNCHANGED <<wallet, source, asides, spooled, setup, torn, beside>>
        /\ UNCHANGED <<platform, credentials, registration, backup, pending, lock, proc>>
        /\ UNCHANGED <<payout, declared, active, inForce, orphans, givenUp, crossed, faults, acts>>
    BY <1>1 DEF allVars, setupVars, vars, identity, payouts, ghosts, bounds
  <2>2. STypeOK' /\ Recorded'
    <3>1. Typed' /\ Housed' /\ Apart'
      BY <2>1, SetupParts DEF SInv, Typed, Filed, Paid, Marked, Counted, Manned, Housed, Apart, In, At
    <3> QED BY <3>1, SetupPartsNext
  <2>3. Noting' /\ SetApart'
    <3>1. Once' /\ WalletLast' /\ (\A es : OnlyHas(es)' <=> OnlyHas(es))
      BY <2>1 DEF SInv, Noting, Once, WalletLast, OnlyHas
    <3>2. Noting'
      BY <2>1, <3>1 DEF SInv, Noting, In, Adopting
    <3> QED BY <2>1, <3>2 DEF SInv, SetApart, Proper, OfOne, Sound
  <2>4. (\A e : Has(e)' <=> Has(e)) /\ Here' = Here
    BY <2>1 DEF Has, Here
  <2>5. ASSUME ~crossed, ~beside PROVE Identity' /\ Undisturbed'
    <3>1. Identity /\ Undisturbed
      BY <2>5 DEF SInv
    <3>2. IInv
      BY <3>1 DEF SInv, IInv, STypeOK
    <3>3. IInv'
      BY <2>1, <3>2, StutterKeeps DEF vars, identity, payouts, ghosts, bounds
    <3>4. Undisturbed'
      BY <2>1, <2>4, <3>1 DEF Undisturbed, Moving, In, Adopting, At, OfOne
    <3> QED BY <2>1, <2>5, <3>3, <3>4 DEF IInv
  <2>6. ASSUME ~crossed, ~beside, ~torn PROVE Accounted'
    <3>1. Accounted
      BY <2>6 DEF SInv
    <3>2. Listed => Listed'
      BY <2>1, <2>4 DEF Listed
    <3> QED BY <2>1, <3>1, <3>2 DEF Accounted, In, Adopting, InPlace, Adopted
  <2> QED BY <2>1, <2>2, <2>3, <2>5, <2>6 DEF SInv
<1>2. ASSUME ~crossed, ~beside, RunSetup \/ KillSetup PROVE SInv'
  <2>1. Ready
    BY <1>2 DEF Ready
  <2> QED BY <1>2, <2>1, PreviousInstallationKeeps, UseItKeeps, AdoptIdentityKeeps, MoveStateKeeps,
             MoveKeyKeeps, AdoptCustodyKeeps, MoveWalletKeeps, SecureWalletKeeps, MergeKeeps,
             UndoKeeps, AccessKeeps, ConnectKeeps, ConnectedKeeps, KillSetupKeeps
          DEF RunSetup, Adopt
<1>3. ASSUME ~crossed, ~beside, Beside, beside' = Adopting,
             UNCHANGED <<wallet, source, asides, spooled, setup, torn>>
      PROVE  SInv'
  <2>1. Ready
    BY <1>3 DEF Ready
  <2> QED BY <1>3, <2>1, BesideKeeps
<1> QED BY <1>1, <1>2, <1>3 DEF SNext, Crossed

\* An installation that may be set aside.
LEMMA SetAsideIs ==
    ASSUME NEW s \in SetAside
    PROVE  /\ s \in Source /\ Proper(s.dir) /\ OfOne(s.dir) /\ s.key \in {None, 1}
           /\ s = Bare => s.dir.registration = Absent
<1>0. /\ 1 \in Agents /\ 1 \in 0 .. MaxAgents /\ {None, 1} \subseteq 0 .. Damaged
      /\ None \in 0 .. MaxAgents
  <2>1. MaxAgents \in Nat /\ MaxAgents >= 1
    BY SetupAssumption, OnboardingAssumption
  <2> QED BY <2>1 DEF Agents, None, Damaged
<1>1. Bare.dir = Empty /\ Bare.key = None /\ Bare \in Source
  BY EmptyIs, BareIs DEF Bare
<1>2. CASE s = Bare
  BY <1>1, <1>2, EmptyIs
<1>3. CASE s # Bare
  <2>1. PICK d \in {Registered(1, "claimed"), [Empty EXCEPT !.pending.agent = 1]},
             k \in {None, 1}, w \in {"none", "key"} :
             s = [dir |-> d, key |-> k, wallet |-> w, spool |-> TRUE]
    BY <1>3 DEF SetAside
  <2>2. PICK r : r = [agent |-> 1, status |-> "claimed"]
    OBVIOUS
  <2>3. r \in Record /\ Sound(r) /\ r.agent = 1
    BY <1>0, <2>2 DEF Record, Sound, Usable, Live, None
  <2>4. PICK j : j = [agent |-> 1, old |-> None]
    OBVIOUS
  <2>5. j \in Journal /\ j.agent = 1 /\ j.agent # None
    BY <1>0, <2>4 DEF Journal, None
  <2>6. d \in Dir /\ Proper(d) /\ OfOne(d)
    <3>1. CASE d = Registered(1, "claimed")
      <4>1. d = [Empty EXCEPT !.registration = r]
        BY <2>2, <3>1 DEF Registered
      <4>2. d \in Dir /\ d.registration = r /\ d.pending = NoJournal
        BY <2>3, <4>1, EmptyIs DEF Dir
      <4> QED BY <2>3, <4>2 DEF Proper, OfOne, NoJournal
    <3>2. CASE d = [Empty EXCEPT !.pending.agent = 1]
      <4>1. d = [Empty EXCEPT !.pending = [NoJournal EXCEPT !.agent = 1]]
        BY <3>2, EmptyIs DEF Dir
      <4>2. [NoJournal EXCEPT !.agent = 1] = j
        BY <2>4 DEF NoJournal
      <4>3. d \in Dir /\ d.registration = Absent /\ d.pending = j
        BY <2>5, <4>1, <4>2, EmptyIs DEF Dir
      <4> QED BY <2>5, <4>3, IdleIs DEF Proper, OfOne, Absent
    <3> QED BY <2>1, <3>1, <3>2
  <2>7. s.dir = d /\ s.key = k
    BY <2>1
  <2>8. s \in Source
    BY <1>0, <2>1, <2>6 DEF Source, Wallets
  <2> QED BY <1>3, <2>6, <2>7, <2>8
<1> QED BY <1>2, <1>3

LEMMA SetupStarts == SInit => SInv
<1> SUFFICES ASSUME SInit PROVE SInv
  OBVIOUS
<1>1. Manned /\ \A p \in Processes : proc[p].step = "idle"
  BY QuietManned DEF SInit
<1>2. /\ source \in Source /\ Proper(source.dir) /\ OfOne(source.dir) /\ source.key \in {None, 1}
      /\ source = Bare => source.dir.registration = Absent
  BY SetAsideIs DEF SInit
<1>3. 1 \in Agents
  BY SetupAssumption, OnboardingAssumption DEF Agents
<1>4. Filed
  <2>1. NoJournal \in Journal
    BY Numbers DEF NoJournal, Journal
  <2>2. platform \in [Agents -> Usable \cup {"none", "gone"}]
    BY DEF SInit, Usable, Live
  <2> QED BY <2>1, <2>2, IdleIs, Numbers DEF SInit, Filed
<1>5. Paid /\ Marked /\ Counted
  <2>1. Paid
    BY DEF SInit, Paid
  <2>2. Marked
    BY <1>3 DEF SInit, Marked
  <2>3. 0 \in 0 .. MaxFaults /\ 0 \in 0 .. MaxActs
    BY Numbers
  <2>4. Counted
    BY <2>3 DEF SInit, Counted
  <2> QED BY <2>1, <2>2, <2>4
<1>6. InUse = {}
  <2>1. \A a \in Agents : platform[a] \in Live => a = 1 /\ source # Bare
    BY <1>2 DEF SInit, Live
  <2>2. source # Bare => 1 \in givenUp
    BY DEF SInit
  <2> QED BY <2>1, <2>2 DEF InUse
<1>7. KeyIsSomewhere
  <2>1. Matched
    BY Numbers DEF SInit, Matched
  <2> QED BY <1>6, <2>1 DEF KeyIsSomewhere
<1>8. Identity
  <2>1. \A p \in Locking : proc[p].step = "idle"
    BY <1>1 DEF Locking, Processes
  <2>2. Exclusive /\ \A p \in Locking : Holds(proc[p])
    BY <2>1 DEF Exclusive, At, Holds, JournalIs, StillAbout, Alone, Registering, Publishing
  <2> QED BY <1>7, <2>2 DEF Identity
<1>9. /\ setup \in Setting /\ setup.step = "idle" /\ setup.done = <<>> /\ setup.room = Empty
      /\ setup.from = Bare /\ setup.told = ""
  BY UnsetIs DEF SInit
<1>10. Housed
  BY <1>2, <1>9 DEF SInit, Housed, Wallets
<1>11. Apart
  BY <1>1, SetupAssumption DEF Apart, At, Processes
<1>12. Noting
  <2>1. 1 .. Len(setup.done) = {}
    <3>1. Len(<<>>) = 0
      OBVIOUS
    <3>2. 1 .. 0 = {}
      OBVIOUS
    <3> QED BY <1>9, <3>1, <3>2
  <2>2. Once /\ WalletLast
    BY <2>1 DEF Once, WalletLast
  <2> QED BY <1>9, <2>2 DEF Noting, In, Adopting
<1>13. SetApart
  BY <1>2, <1>9, EmptyIs DEF SetApart
<1>14. Undisturbed /\ Accounted
  BY <1>9 DEF Undisturbed, Moving, Accounted, In, Adopting
<1>15. STypeOK /\ Recorded
  BY <1>1, <1>4, <1>5, <1>10, <1>11, SetupParts DEF Typed
<1> QED BY <1>8, <1>12, <1>13, <1>14, <1>15 DEF SInv

(* Between any two steps of a setup, with connect, mining enable, login and *)
(* the platform beside it, what was moved is as the adoption's journal says *)
(* and what is in use as IInv says.                                        *)
THEOREM AdoptionInvariant == SSpec => []SInv
BY SetupStarts, SetupKeeps, PTL DEF SSpec

(* setup.go, runSetup: whatever setup adopts, puts back or leaves where it *)
(* was, one agent is in use and its key is here.                           *)
THEOREM OneAgentAcross == SSpec => []AgentsAcrossSetup
<1>1. SInv => AgentsAcrossSetup
  <2> SUFFICES ASSUME SInv, ~beside PROVE OneAgentInUse /\ KeyIsKept
    BY DEF AgentsAcrossSetup
  <2>1. CASE crossed
    BY <2>1 DEF SInv, STypeOK, OneAgentInUse, KeyIsKept
  <2>2. CASE ~crossed
    <3>1. IInv
      BY <2>2 DEF SInv, STypeOK, IInv
    <3> QED BY <3>1, OneInUse, KeyKept
  <2> QED BY <2>1, <2>2
<1> QED BY <1>1, AdoptionInvariant, PTL

(* setup_adopt.go, bundleTxn: an adoption leaves identity and wallet both  *)
(* here or both where they were, and says that it put everything back only *)
(* when it did, unless a part was moved by a move that failed.             *)
THEOREM AdoptedWhole == SSpec => []AdoptedTogether
<1>1. SInv => AdoptedTogether
  BY DEF SInv, Accounted, AdoptedTogether
<1> QED BY <1>1, AdoptionInvariant, PTL
=============================================================================
