------------------------- MODULE Authorization_proofs -------------------------
(***************************************************************************)
(* Authorization: a family never dies of a token that was spent twice, and *)
(* no live family is forgotten when mining was stopped.                    *)
(***************************************************************************)
EXTENDS AuthorizationInvariant, TLAPS

\* A disable that will still revoke or mark what is on file.
Disabling(u) ==
    /\ u \in Persons /\ Job(u) = "disable"
    /\ At(u, "survey") \/ At(u, "revoke") \/ At(u, "post")
       \/ ((At(u, "clear") \/ At(u, "settle")) /\ ~proc[u].seen)

\* Holding a token that others may come to hold, or nobody has seen yet.
Busied == Locked \cup {"store"}

-----------------------------------------------------------------------------
(* What a step of one process leaves to the others.                        *)

LEMMA OthersStay ==
    ASSUME TypeOK, NEW p \in Processes, NEW m \in Memory, Become(p, m)
    PROVE  /\ proc' \in [Processes -> Memory]
           /\ proc'[p] = m
           /\ \A q \in Processes \ {p} : /\ proc'[q] = proc[q] /\ Held(q)' = Held(q)
                                         /\ Disabling(q)' <=> Disabling(q)
<1>1. /\ proc' \in [Processes -> Memory]
      /\ proc'[p] = m
      /\ \A q \in Processes \ {p} : proc'[q] = proc[q]
  BY DEF Become, TypeOK
<1> QED BY <1>1 DEF Held, Disabling, Job, At

LEMMA WhoMarks == (Stopping \/ WillMark) <=> \E u \in Processes : Disabling(u)
BY DEF Stopping, WillMark, Disabling, Processes

LEMMA FaultCounts ==
    ASSUME TypeOK, Fault
    PROVE  decisions' \in 0 .. MaxDecisions /\ faults' \in 0 .. MaxFaults
BY AuthorizationAssumption DEF TypeOK, Fault

(* A mark is kept by a step that takes nothing off the books, unless the   *)
(* process was about to make one and goes away.                            *)
LEMMA MarkedStays ==
    ASSUME IInv, NEW p \in Processes, NEW m \in Memory, Become(p, m),
           decision' \in {decision, "on", "undecided"}, strays \subseteq strays', owed => owed',
           IsLive(token)' => IsLive(token) /\ token'.family = token.family,
           Disabling(p) => Disabling(p)' \/ ~IsLive(token)' \/ owed'
    PROVE  Marked'
<1> SUFFICES ASSUME decision' = "off", IsLive(token)', ~owed', token'.family \notin strays'
             PROVE  (Stopping \/ WillMark)'
  BY DEF Marked
<1>1. decision = "off" /\ IsLive(token) /\ ~owed /\ token.family \notin strays
  OBVIOUS
<1>2. Stopping \/ WillMark
  BY <1>1 DEF IInv, Marked
<1>3. PICK u \in Processes : Disabling(u)
  BY <1>2, WhoMarks
<1>4. Disabling(u)'
  BY <1>3, OthersStay DEF IInv
<1> QED BY <1>4 DEF Stopping, WillMark, Disabling

(* What is left behind becomes a stray.                                    *)
LEMMA MarkedByStrays ==
    ASSUME LeftBehind' \subseteq strays'
    PROVE  Marked'
BY DEF Marked, LeftBehind

LEMMA LeftBehindIsLive == LeftBehind \subseteq live
BY DEF LeftBehind, IsLive

(* A step of a process that has no token in hand before or after keeps     *)
(* all but the marks.                                                      *)
LEMMA QuietStep ==
    ASSUME IInv, NEW p \in Processes, NEW m \in Memory, Become(p, m),
           UNCHANGED <<token, lock, live, turn, cut, reused>>,
           decision' \in {"undecided", "on", "off"}, owed' \in BOOLEAN, slot' \in BOOLEAN,
           strays \subseteq strays', strays' \subseteq live,
           decisions' \in 0 .. MaxDecisions, faults' \in 0 .. MaxFaults,
           proc[p].step \notin Busied, m.step \notin Busied, m.held \in {Held(p), NoToken},
           Marked'
    PROVE  IInv'
<1>1. TypeOK
  BY DEF IInv
<1>2. /\ proc' \in [Processes -> Memory] /\ proc'[p] = m
      /\ \A q \in Processes \ {p} : proc'[q] = proc[q] /\ Held(q)' = Held(q)
  BY <1>1, OthersStay
<1>3. TypeOK'
  BY <1>1, <1>2 DEF TypeOK, Busied
<1>4. ASSUME NEW q \in Processes
      PROVE  InHand(q)' /\ FromFile(q)' /\ JustMinted(q)'
  <2>1. InHand(q) /\ FromFile(q) /\ JustMinted(q)
    BY DEF IInv
  <2>2. CASE q = p
    BY <1>2, <2>2 DEF InHand, FromFile, JustMinted, At, Busied, Locked
  <2>3. CASE q # p
    <3>1. InHand(q)' /\ FromFile(q)'
      BY <1>2, <2>1, <2>3 DEF InHand, FromFile, At
    <3>2. FamiliesOf({token} \cup {Held(r) : r \in Processes \ {q}})'
            \subseteq FamiliesOf({token} \cup {Held(r) : r \in Processes \ {q}})
      BY <1>2 DEF FamiliesOf, Held
    <3>3. JustMinted(q)'
      BY <1>2, <2>1, <2>3, <3>2 DEF JustMinted, At
    <3> QED BY <3>1, <3>3
  <2> QED BY <2>2, <2>3
<1>5. \A t : Current(t)' <=> Current(t)
  BY <1>2 DEF Current, IsLive, At, Held, Busied, Locked
<1>6. UpToDate'
  BY <1>2, <1>5 DEF UpToDate, At, Held, Busied, Locked, IInv
<1>7. Accounted'
  <2>1. Accounted
    BY DEF IInv
  <2> QED BY <1>2, <2>1 DEF Accounted, At, Held, Busied
<1> QED BY <1>3, <1>4, <1>6, <1>7 DEF IInv
(* The same, by the reason why nothing is forgotten: the marks stand, a     *)
(* disable is at work, or what is left behind is a stray.                  *)
LEMMA QuietAction ==
    ASSUME IInv, NEW p \in Processes, NEW m \in Memory, Become(p, m),
           UNCHANGED <<token, lock, live, turn, cut, reused>>,
           decision' \in {"undecided", "on", "off"}, owed' \in BOOLEAN, slot' \in BOOLEAN,
           strays \subseteq strays', strays' \subseteq live,
           decisions' \in 0 .. MaxDecisions, faults' \in 0 .. MaxFaults,
           proc[p].step \notin Busied, m.step \notin Busied, m.held \in {Held(p), NoToken},
           \/ /\ decision' \in {decision, "on", "undecided"}
              /\ owed => owed'
              /\ Disabling(p) => Disabling(p)' \/ ~IsLive(token) \/ owed'
           \/ Disabling(p)'
           \/ owed'
           \/ LeftBehind' \subseteq strays'
    PROVE  IInv'
<1>1. CASE /\ decision' \in {decision, "on", "undecided"}
           /\ owed => owed'
           /\ Disabling(p) => Disabling(p)' \/ ~IsLive(token) \/ owed'
  <2>1. /\ IsLive(token)' => IsLive(token) /\ token'.family = token.family
        /\ Disabling(p) => Disabling(p)' \/ ~IsLive(token)' \/ owed'
    BY <1>1 DEF IsLive
  <2>2. owed => owed'
    BY <1>1
  <2>3. Marked'
    BY <1>1, <2>1, <2>2, MarkedStays
  <2> QED BY <2>3, QuietStep
<1>2. CASE Disabling(p)'
  <2>1. (Stopping \/ WillMark)'
    BY <1>2 DEF Stopping, WillMark, Disabling
  <2>2. Marked'
    BY <2>1 DEF Marked
  <2> QED BY <2>2, QuietStep
<1>3. CASE owed'
  <2>1. Marked'
    BY <1>3 DEF Marked
  <2> QED BY <2>1, QuietStep
<1>4. CASE LeftBehind' \subseteq strays'
  BY <1>4, MarkedByStrays, QuietStep
<1> QED BY <1>1, <1>2, <1>3, <1>4

-----------------------------------------------------------------------------
(* What the small steps make of a process.                                 *)

LEMMA IdleIsMemory ==
    /\ Idle \in Memory /\ Idle.step = "idle" /\ Idle.job = "none" /\ Idle.held = NoToken
    /\ Idle.seen = FALSE
BY DEF Idle, Memory, Steps, Jobs

LEMMA Goes ==
    ASSUME TypeOK, NEW p \in Processes, NEW s \in Steps, Goto(p, s)
    PROVE  \E m \in Memory : /\ Become(p, m) /\ m.step = s /\ m.job = Job(p)
                             /\ m.held = Held(p) /\ m.seen = proc[p].seen
<1> DEFINE m == [proc[p] EXCEPT !.step = s]
<1>1. m \in Memory /\ m.step = s /\ m.job = Job(p) /\ m.held = Held(p) /\ m.seen = proc[p].seen
  BY DEF TypeOK, Memory, Job, Held
<1> QED BY <1>1 DEF Goto

LEMMA Has ==
    ASSUME TypeOK, NEW p \in Processes, NEW s \in Steps, NEW t \in Tokens \cup {NoToken},
           Have(p, t, s)
    PROVE  \E m \in Memory : /\ Become(p, m) /\ m.step = s /\ m.job = Job(p)
                             /\ m.held = t /\ m.seen = proc[p].seen
<1> DEFINE m == [proc[p] EXCEPT !.held = t, !.step = s]
<1>1. m \in Memory /\ m.step = s /\ m.job = Job(p) /\ m.held = t /\ m.seen = proc[p].seen
  BY DEF TypeOK, Memory, Job
<1> QED BY <1>1 DEF Have

LEMMA Ends ==
    ASSUME NEW p \in Processes, Finish(p)
    PROVE  Become(p, Idle)
BY DEF Finish

LEMMA Revoked ==
    ASSUME TypeOK, NEW p \in Processes, NEW done \in BOOLEAN, AfterRevocation(p, done)
    PROVE  \E m \in Memory : /\ Become(p, m) /\ m.held = NoToken
                             /\ m.step \in {"settle", "purge", "poll", "idle"}
                             /\ Job(p) = "disable" => /\ m.step = "settle" /\ m.job = "disable"
                                                      /\ m.seen = done
<1>1. CASE Job(p) = "disable"
  <2> DEFINE m == [Idle EXCEPT !.job = "disable", !.step = "settle", !.seen = done]
  <2>1. m \in Memory /\ m.step = "settle" /\ m.job = "disable" /\ m.held = NoToken /\ m.seen = done
    BY DEF Idle, Memory, Steps, Jobs
  <2>2. Become(p, m)
    BY <1>1 DEF AfterRevocation
  <2> HIDE DEF m
  <2> QED BY <2>1, <2>2
<1>2. CASE Job(p) # "disable"
  <2>1. PICK s \in {"purge", "settle", "poll", "idle"} :
            Have(p, NoToken, s) \/ (s = "idle" /\ Finish(p))
    BY <1>2 DEF AfterRevocation
  <2>2. CASE Have(p, NoToken, s)
    BY <1>2, <2>2, Has DEF Steps
  <2>3. CASE Finish(p)
    BY <1>2, <2>3, Ends, IdleIsMemory
  <2> QED BY <2>1, <2>2, <2>3
<1> QED BY <1>1, <1>2

-----------------------------------------------------------------------------
(* The steps that touch no token.  Each names what becomes of the process  *)
(* and why no family is forgotten.                                         *)

LEMMA Bounds == ASSUME IInv PROVE /\ TypeOK /\ strays \subseteq live
                                  /\ decisions \in 0 .. MaxDecisions /\ faults \in 0 .. MaxFaults
                                  /\ decision \in {"undecided", "on", "off"}
                                  /\ owed \in BOOLEAN /\ slot \in BOOLEAN
BY DEF IInv, TypeOK

(* What the quiet steps between two commands have in common: nothing is     *)
(* written but, perhaps, the slot.                                         *)
LEMMA Passing ==
    ASSUME IInv, NEW p \in Processes, NEW m \in Memory, Become(p, m),
           UNCHANGED <<token, lock, live, turn, cut, reused, strays, decision, owed>>,
           slot' \in BOOLEAN,
           decisions' \in 0 .. MaxDecisions, faults' \in 0 .. MaxFaults,
           proc[p].step \notin Busied, m.step \notin Busied, m.held \in {Held(p), NoToken},
           Disabling(p) => Disabling(p)' \/ ~IsLive(token)
    PROVE  IInv'
BY Bounds, QuietAction

LEMMA PlainSteps ==
    ASSUME IInv, NEW p \in Processes,
           \/ Marker(p) \/ Poll(p) \/ SavePolled(p) \/ Gate(p) \/ WaitForApproval(p)
           \/ Record(p) \/ SaveStatus(p)
    PROVE  IInv'
<1> DEFINE after == {"marker", "revoke", "idle", "save", "refresh", "gate", "redeem", "decide"}
<1>1. TypeOK /\ slot \in BOOLEAN /\ proc[p].seen \in BOOLEAN /\ proc[p] \in Memory
  BY Bounds DEF TypeOK, Memory
<1>2. ~Disabling(p) /\ proc[p].step \notin Busied
  BY DEF Disabling, Busied, Locked, At, Marker, Poll, SavePolled, Gate, WaitForApproval,
         Record, SaveStatus
<1>3. /\ UNCHANGED <<token, lock, live, turn, cut, reused, strays, decision, owed>>
      /\ Fault \/ UNCHANGED bounds
  BY DEF Marker, Poll, SavePolled, Gate, Enroll, WaitForApproval, Record, SaveStatus,
         files, server, ghosts, bounds
<1>4. decisions' \in 0 .. MaxDecisions /\ faults' \in 0 .. MaxFaults
  BY <1>1, <1>3, FaultCounts, Bounds DEF bounds
<1>5. slot' \in BOOLEAN
  BY <1>1 DEF Marker, Poll, SavePolled, Gate, WaitForApproval, Record, SaveStatus, files
<1>6. \E m \in Memory : Become(p, m) /\ m.step \in after /\ m.held \in {Held(p), NoToken}
  <2>1. CASE Finish(p)
    BY <2>1, Ends, IdleIsMemory
  <2>2. CASE \E s \in after : Goto(p, s)
    BY <1>1, <2>2, Goes DEF Steps
  <2>3. CASE Poll(p) /\ Become(p, [proc[p] EXCEPT !.seen = slot, !.step = "save"])
    <3> DEFINE m == [proc[p] EXCEPT !.seen = slot, !.step = "save"]
    <3>1. m \in Memory /\ m.step = "save" /\ m.held = Held(p)
      BY <1>1 DEF Memory, Steps, Held
    <3> QED BY <2>3, <3>1
  <2>4. CASE SaveStatus(p)
    <3> DEFINE m == [proc[p] EXCEPT !.seen = FALSE, !.step = "decide"]
    <3>1. m \in Memory /\ m.step = "decide" /\ m.held = Held(p)
      BY <1>1 DEF Memory, Steps, Held
    <3> QED BY <2>4, <3>1 DEF SaveStatus
  <2> QED BY <2>1, <2>2, <2>3, <2>4
          DEF Marker, Poll, SavePolled, Gate, Enroll, WaitForApproval, Record, Enrolled
<1>7. PICK m \in Memory : Become(p, m) /\ m.step \in after /\ m.held \in {Held(p), NoToken}
  BY <1>6
<1>8. m.step \notin Busied
  BY <1>7 DEF Busied, Locked
<1> QED BY <1>2, <1>3, <1>4, <1>5, <1>7, <1>8, Passing

(* A command of a person starts with nothing in hand.                      *)
LEMMA Commands ==
    ASSUME IInv, NEW p \in Processes, NEW kind \in Jobs, NEW first \in Steps, NEW known \in BOOLEAN,
           Command(p, kind, first, known)
    PROVE  /\ decisions' \in 0 .. MaxDecisions /\ faults' \in 0 .. MaxFaults
           /\ ~Disabling(p) /\ proc[p].step \notin Busied
           /\ \E m \in Memory : /\ Become(p, m) /\ m.step = first /\ m.job = kind
                                /\ m.held = NoToken /\ m.seen = known
<1>1. decisions' \in 0 .. MaxDecisions /\ faults' \in 0 .. MaxFaults
  BY Bounds, AuthorizationAssumption DEF Command
<1>2. ~Disabling(p) /\ proc[p].step \notin Busied
  BY DEF Command, Disabling, Busied, Locked, At
<1> DEFINE m == [Idle EXCEPT !.job = kind, !.step = first, !.seen = known]
<1>3. m \in Memory /\ m.step = first /\ m.job = kind /\ m.held = NoToken /\ m.seen = known
  BY DEF Idle, Memory
<1>4. Become(p, m)
  BY DEF Command
<1> HIDE DEF m
<1> QED BY <1>1, <1>2, <1>3, <1>4

LEMMA Beginnings ==
    ASSUME IInv, NEW p \in Processes,
           \/ BeginOperator(p) \/ BeginEnroll(p) \/ BeginEnable(p) \/ BeginPurge(p)
           \/ BeginResume(p) \/ BeginFlush(p)
    PROVE  IInv'
<1>1. /\ UNCHANGED <<token, lock, live, turn, cut, reused, strays, decision, owed, slot>>
  BY DEF BeginOperator, BeginEnroll, MiningClients, BeginEnable, BeginPurge, BeginResume,
         BeginFlush, files, server, ghosts
<1>2. slot \in BOOLEAN
  BY Bounds
<1>3. CASE BeginOperator(p) \/ BeginEnroll(p) \/ BeginEnable(p) \/ BeginPurge(p)
  <2>1. \E kind \in Jobs, first \in {"refresh", "redeem", "approve", "resave", "purge", "revoke"},
           known \in BOOLEAN : Command(p, kind, first, known)
    BY <1>2, <1>3 DEF BeginOperator, BeginEnroll, MiningClients, BeginEnable, BeginPurge, Jobs
  <2>2. PICK kind \in Jobs, first \in {"refresh", "redeem", "approve", "resave", "purge", "revoke"},
             known \in BOOLEAN : Command(p, kind, first, known)
    BY <2>1
  <2>3. first \in Steps /\ first \notin Busied
    BY DEF Steps, Busied, Locked
  <2> QED BY <1>1, <1>2, <2>2, <2>3, Commands, Passing
<1>4. CASE BeginResume(p) \/ BeginFlush(p)
  <2>1. ~Disabling(p) /\ proc[p].step \notin Busied /\ UNCHANGED bounds
    BY <1>4, AuthorizationAssumption
       DEF BeginResume, BeginFlush, Disabling, Busied, Locked, At
  <2>2. PICK kind \in {"resume", "flush"}, first \in {"revoke", "poll", "marker", "refresh"} :
            Become(p, [Idle EXCEPT !.job = kind, !.step = first])
    BY <1>4 DEF BeginResume, BeginFlush
  <2> DEFINE m == [Idle EXCEPT !.job = kind, !.step = first]
  <2>3. m \in Memory /\ m.step \notin Busied /\ m.held = NoToken
    BY DEF Idle, Memory, Steps, Jobs, Busied, Locked
  <2> HIDE DEF m
  <2>4. Become(p, m)
    BY <2>2 DEF m
  <2> QED BY <1>1, <1>2, <2>1, <2>3, <2>4, Passing, Bounds DEF bounds
<1> QED BY <1>3, <1>4

(* The steps that find no token, or somebody else at the lock.             *)
LEMMA NothingThere ==
    ASSUME IInv, NEW p \in Processes,
           \/ Refresh(p) /\ token = NoToken
           \/ Revoke(p) /\ token = NoToken
           \/ Busy(p) /\ ~At(p, "store")
           \/ RedeemEnrollmentAssertion(p) /\ Finish(p) /\ UNCHANGED <<server, ghosts>>
    PROVE  IInv'
<1>1. TypeOK /\ slot \in BOOLEAN
  BY Bounds
<1>2. proc[p].step \notin Busied
  BY DEF Busied, Locked, At, Refresh, Revoke, Busy, RedeemEnrollmentAssertion
<1>3. /\ UNCHANGED <<token, lock, live, turn, cut, reused, strays, decision, owed, slot>>
      /\ Fault \/ UNCHANGED bounds
  <2>1. CASE Refresh(p) /\ token = NoToken
    BY <2>1 DEF Refresh, files, server, ghosts
  <2>2. CASE Revoke(p) /\ token = NoToken
    BY <2>2 DEF Revoke, files, server, ghosts
  <2>3. CASE Busy(p) /\ ~At(p, "store")
    BY <2>3 DEF Busy, files, server
  <2>4. CASE RedeemEnrollmentAssertion(p) /\ Finish(p) /\ UNCHANGED <<server, ghosts>>
    <3>1. ~Have(p, [family |-> 0, turn |-> 0], "store")
      BY <2>4, <1>1 DEF Finish, Have, Become, Idle, TypeOK
    <3> QED BY <2>4 DEF RedeemEnrollmentAssertion, files, server, ghosts, bounds
  <2> QED BY <2>1, <2>2, <2>3, <2>4
<1>4. decisions' \in 0 .. MaxDecisions /\ faults' \in 0 .. MaxFaults
  BY <1>1, <1>3, FaultCounts, Bounds DEF bounds
<1>5. CASE Finish(p) /\ ~(At(p, "revoke") /\ Job(p) = "disable")
  <2>1. ~Disabling(p)
    BY <1>5 DEF Disabling, At, Refresh, Revoke, Busy, RedeemEnrollmentAssertion
  <2> QED BY <1>2, <1>3, <1>4, <1>1, <1>5, <2>1, Ends, IdleIsMemory, Passing DEF Busied, Locked
<1>6. CASE At(p, "revoke") /\ \E done \in BOOLEAN : /\ AfterRevocation(p, done)
                                                    /\ done => token = NoToken
  <2>1. PICK done \in BOOLEAN : AfterRevocation(p, done) /\ (done => token = NoToken)
    BY <1>6
  <2>2. PICK m \in Memory : /\ Become(p, m) /\ m.held = NoToken
                            /\ m.step \in {"settle", "purge", "poll", "idle"}
                            /\ Job(p) = "disable" => /\ m.step = "settle" /\ m.job = "disable"
                                                     /\ m.seen = done
    BY <1>1, <2>1, Revoked
  <2>3. m.step \notin Busied
    BY <2>2 DEF Busied, Locked
  <2>4. Disabling(p) => Disabling(p)' \/ ~IsLive(token)
    <3>1. proc'[p] = m
      BY <1>1, <2>2, OthersStay
    <3> QED BY <2>1, <2>2, <3>1 DEF Disabling, IsLive, Job, At
  <2> QED BY <1>1, <1>2, <1>3, <1>4, <2>2, <2>3, <2>4, Passing
<1> QED BY <1>5, <1>6 DEF Refresh, Revoke, Busy, RedeemEnrollmentAssertion, At

(* Settling: what a retry leaves on file, and what a new family supersedes, *)
(* is a stray if nothing else will revoke it.                              *)
LEMMA SettleRetries ==
    ASSUME IInv, NEW p \in Processes, SettleRetry(p) \/ Supersede(p)
    PROVE  IInv'
<1>1. TypeOK /\ strays \subseteq live
  BY Bounds
<1>2. /\ UNCHANGED <<token, lock, live, turn, cut, reused, decision, slot, decisions, faults>>
      /\ owed' = FALSE /\ strays' = strays \cup LeftBehind
  BY DEF SettleRetry, Supersede, ClearRevokePending, SaveRevokePending, server, bounds
<1>3. /\ proc[p].step \notin Busied
      /\ ~(Job(p) = "disable" /\ At(p, "settle"))
      /\ ~At(p, "survey") /\ ~At(p, "revoke") /\ ~At(p, "clear")
  BY DEF SettleRetry, Supersede, Busied, Locked, At
<1>4. \E s \in {"poll", "idle"} : Goto(p, s) \/ (s = "idle" /\ Finish(p))
  BY DEF SettleRetry, Supersede
<1>5. PICK m \in Memory : /\ Become(p, m) /\ m.step \in {"poll", "idle"}
                          /\ m.held \in {Held(p), NoToken}
  BY <1>1, <1>4, Goes, Ends, IdleIsMemory DEF Steps
<1>6. Stopping => Stopping'
  <2>1. SUFFICES ASSUME NEW u \in Persons, Job(u) = "disable",
                        At(u, "survey") \/ At(u, "revoke") \/ (At(u, "clear") /\ ~proc[u].seen)
                 PROVE  Stopping'
    BY DEF Stopping
  <2>2. u # p /\ u \in Processes
    BY <1>3, <2>1 DEF Processes
  <2>3. proc'[u] = proc[u]
    BY <1>1, <1>5, <2>2, OthersStay
  <2> QED BY <2>1, <2>3 DEF Stopping, Job, At
<1>7. LeftBehind' \subseteq LeftBehind
  BY <1>2, <1>6 DEF LeftBehind, IsLive
<1>8. LeftBehind' \subseteq strays' /\ strays' \subseteq live /\ strays \subseteq strays'
  BY <1>1, <1>2, <1>7, LeftBehindIsLive
<1>9. m.step \notin Busied
  BY <1>5 DEF Busied, Locked
<1> QED BY <1>2, <1>3, <1>5, <1>8, <1>9, QuietAction, Bounds

(* The answer to mining enable.                                            *)
LEMMA Decides ==
    ASSUME IInv, NEW p \in Processes, Decide(p)
    PROVE  IInv'
<1>1. TypeOK /\ strays \subseteq live
  BY Bounds
<1>2. /\ UNCHANGED <<token, lock, live, turn, cut, reused, owed, slot, decisions, faults>>
      /\ proc[p].step \notin Busied /\ ~Disabling(p)
  BY DEF Decide, server, bounds, Busied, Locked, Disabling, At
<1>3. CASE decision' = "on" /\ Goto(p, "supersede") /\ strays' = strays
  <2>1. PICK m \in Memory : Become(p, m) /\ m.step = "supersede" /\ m.held = Held(p)
    BY <1>1, <1>3, Goes DEF Steps
  <2>2. m.step \notin Busied
    BY <2>1 DEF Busied, Locked
  <2> QED BY <1>1, <1>2, <1>3, <2>1, <2>2, QuietAction, Bounds
<1>4. CASE decision' = "off" /\ Finish(p) /\ strays' = strays \cup LeftBehind'
  <2>1. strays' \subseteq live
    BY <1>1, <1>2, <1>4 DEF LeftBehind, IsLive
  <2> QED BY <1>2, <1>4, <2>1, QuietAction, Bounds, Ends, IdleIsMemory DEF Busied, Locked
<1> QED BY <1>3, <1>4 DEF Decide, SaveMiningEnabled

-----------------------------------------------------------------------------
(* mining disable: from the stop to the mark, the process itself is the    *)
(* reason why what is on file is not forgotten.                            *)

LEMMA DisableBegins ==
    ASSUME IInv, NEW p \in Processes, BeginDisable(p)
    PROVE  IInv'
<1>1. TypeOK
  BY Bounds
<1>2. /\ UNCHANGED <<token, lock, live, turn, cut, reused, strays, owed, slot>>
      /\ decision' = "off" /\ p \in Persons
  BY DEF BeginDisable, Command, SaveMiningEnabled, server, ghosts
<1>3. /\ decisions' \in 0 .. MaxDecisions /\ faults' \in 0 .. MaxFaults
      /\ proc[p].step \notin Busied
      /\ \E m \in Memory : /\ Become(p, m) /\ m.step = "survey" /\ m.job = "disable"
                           /\ m.held = NoToken
  <2>1. PICK known \in BOOLEAN : Command(p, "disable", "survey", known)
    BY DEF BeginDisable
  <2>2. "disable" \in Jobs /\ "survey" \in Steps
    BY DEF Jobs, Steps
  <2> QED BY <2>1, <2>2, Commands
<1>4. PICK m \in Memory : /\ Become(p, m) /\ m.step = "survey" /\ m.job = "disable"
                          /\ m.held = NoToken
  BY <1>3
<1>5. Disabling(p)'
  <2>1. proc'[p] = m
    BY <1>1, <1>4, OthersStay
  <2> QED BY <1>2, <1>4, <2>1 DEF Disabling, Job, At
<1>6. m.step \notin Busied
  BY <1>4 DEF Busied, Locked
<1> QED BY <1>2, <1>3, <1>4, <1>5, <1>6, QuietAction, Bounds

LEMMA DisableSurveys ==
    ASSUME IInv, NEW p \in Processes, Survey(p)
    PROVE  IInv'
<1>1. TypeOK /\ proc[p] \in Memory
  BY Bounds DEF TypeOK
<1>2. /\ UNCHANGED <<token, lock, live, turn, cut, reused, strays, decision, owed, slot,
                     decisions, faults>>
      /\ proc[p].step \notin Busied
  BY DEF Survey, files, server, ghosts, bounds, Busied, Locked, At
<1>3. CASE token = NoToken
  <2>1. \E m \in Memory : Become(p, m) /\ m.step \in {"idle", "clear"}
                          /\ m.held \in {Held(p), NoToken}
    <3>1. CASE Finish(p)
      BY <3>1, Ends, IdleIsMemory
    <3>2. CASE ~Finish(p)
      <4> DEFINE m == [proc[p] EXCEPT !.seen = token = NoToken, !.step = "clear"]
      <4>1. m \in Memory /\ m.step = "clear" /\ m.held = Held(p)
        BY <1>1 DEF Memory, Steps, Held
      <4> QED BY <3>2, <4>1 DEF Survey
    <3> QED BY <3>1, <3>2
  <2>2. PICK m \in Memory : Become(p, m) /\ m.step \in {"idle", "clear"}
                            /\ m.held \in {Held(p), NoToken}
    BY <2>1
  <2>3. m.step \notin Busied
    BY <2>2 DEF Busied, Locked
  <2> QED BY <1>2, <1>3, <2>2, <2>3, Passing, Bounds DEF IsLive
<1>4. CASE token # NoToken
  <2> DEFINE m == [proc[p] EXCEPT !.seen = token = NoToken, !.step = "clear"]
  <2>1. /\ m \in Memory /\ m.step = "clear" /\ m.held = Held(p) /\ m.job = Job(p)
        /\ m.seen = FALSE /\ m.step \notin Busied
    BY <1>1, <1>4 DEF Memory, Steps, Held, Job, Busied, Locked
  <2>2. Become(p, m)
    BY <1>4 DEF Survey
  <2> HIDE DEF m
  <2>3. Disabling(p) => Disabling(p)'
    <3>1. proc'[p] = m
      BY <1>1, <2>1, <2>2, OthersStay
    <3> QED BY <2>1, <3>1 DEF Disabling, Job, At
  <2> QED BY <1>2, <2>1, <2>2, <2>3, Passing, Bounds
<1> QED BY <1>3, <1>4

LEMMA DisableClears ==
    ASSUME IInv, NEW p \in Processes, ClearEnrollment(p)
    PROVE  IInv'
<1>1. TypeOK
  BY Bounds
<1>2. /\ UNCHANGED <<token, lock, live, turn, cut, reused, strays, decision, owed,
                     decisions, faults>>
      /\ slot' = FALSE /\ proc[p].step \notin Busied
  BY DEF ClearEnrollment, server, ghosts, bounds, Busied, Locked, At
<1>3. PICK m \in Memory : /\ Become(p, m) /\ m.job = Job(p) /\ m.held = Held(p)
                          /\ m.step = IF proc[p].seen THEN "settle" ELSE "revoke"
  BY <1>1, Goes DEF ClearEnrollment, Steps
<1>4. m.step \notin Busied
  BY <1>3 DEF Busied, Locked
<1>5. Disabling(p) => Disabling(p)'
  <2>1. proc'[p] = m
    BY <1>1, <1>3, OthersStay
  <2> QED BY <1>3, <2>1 DEF ClearEnrollment, Disabling, Job, At
<1>6. /\ slot' \in BOOLEAN /\ m.held \in {Held(p), NoToken} /\ Become(p, m)
      /\ decisions' \in 0 .. MaxDecisions /\ faults' \in 0 .. MaxFaults
  BY <1>2, <1>3, Bounds
<1> QED BY <1>2, <1>4, <1>5, <1>6, Passing

LEMMA DisableSettles ==
    ASSUME IInv, NEW p \in Processes, SettleDisable(p)
    PROVE  IInv'
<1>1. TypeOK /\ proc[p].seen \in BOOLEAN /\ strays \subseteq live
  BY Bounds DEF TypeOK, Memory
<1>2. /\ UNCHANGED <<token, lock, live, turn, cut, reused, decision, slot, decisions, faults>>
      /\ owed' = ~proc[p].seen /\ proc[p].step \notin Busied
      /\ strays' = strays \cup (IF proc[p].seen THEN LeftBehind' ELSE {})
  BY DEF SettleDisable, SaveRevokePending, server, bounds, Busied, Locked, At
<1>3. Become(p, Idle)
  BY Ends DEF SettleDisable
<1>4. LeftBehind' \subseteq live
  BY <1>2 DEF LeftBehind, IsLive
<1>5. owed' \/ LeftBehind' \subseteq strays'
  BY <1>1, <1>2
<1>6. Idle.step \notin Busied
  BY IdleIsMemory DEF Busied, Locked
<1> QED BY <1>1, <1>2, <1>3, <1>4, <1>5, <1>6, QuietAction, Bounds, IdleIsMemory

-----------------------------------------------------------------------------
(* The steps that touch a token.                                           *)

(* What p can tell the world of: the families it has seen.                 *)
Touched(p) == FamiliesOf({token, Held(p)})

(* A step of p that changes only what p has touched, and that leaves the    *)
(* holder of the lock alone unless p holds it, keeps what the others know. *)
LEMMA OthersKnow ==
    ASSUME IInv, NEW p \in Processes, NEW m \in Memory, Become(p, m),
           FamiliesOf({token, m.held})' \cap live \subseteq Touched(p),
           \A f \in live \ Touched(p) : f \in live' /\ turn'[f] = turn[f],
           cut \cap live' \subseteq cut',
           \/ lock \in {p, Nobody}
           \/ /\ token' \in {token, NoToken}
              /\ \A f \in live : f \in live' /\ turn'[f] = turn[f]
              /\ \A q \in Processes : IsLive(Held(q))' /\ Held(q)' = Held(q) => IsLive(Held(q)),
           NEW q \in Processes \ {p}
    PROVE  /\ InHand(q)' /\ FromFile(q)' /\ JustMinted(q)'
           /\ At(q, "spend")' => Current(Held(q))'
<1>1. /\ TypeOK /\ InHand(q) /\ FromFile(q) /\ JustMinted(q) /\ NoToken \notin Tokens
      /\ At(q, "spend") => Current(Held(q))
  BY AuthorizationAssumption DEF IInv, UpToDate
<1>2. /\ proc'[q] = proc[q] /\ Held(q)' = Held(q) /\ proc'[p] = m /\ Held(p)' = m.held
      /\ \A s : At(q, s)' <=> At(q, s)
      /\ \A r \in Processes \ {p} : Held(r)' = Held(r)
  BY <1>1, OthersStay DEF Held, At
<1>3. InHand(q)'
  BY <1>1, <1>2 DEF InHand
<1>4. JustMinted(q)'
  <2> SUFFICES ASSUME At(q, "store")
               PROVE  /\ Held(q).family \in live' /\ turn'[Held(q).family] = 0
                      /\ Held(q).family \notin
                            FamiliesOf({token} \cup {Held(r) : r \in Processes \ {q}})'
    BY <1>1, <1>2 DEF JustMinted
  <2> DEFINE g == Held(q).family
  <2>1. g \in live /\ turn[g] = 0
        /\ g \notin FamiliesOf({token} \cup {Held(r) : r \in Processes \ {q}})
    BY <1>1 DEF JustMinted
  <2>2. g \notin Touched(p)
    BY <2>1 DEF Touched, FamiliesOf
  <2>3. g \in live' /\ turn'[g] = turn[g]
    BY <2>1, <2>2
  <2>4. g \notin FamiliesOf({token, m.held})'
    BY <2>1, <2>2
  <2>5. g \notin FamiliesOf({token} \cup {Held(r) : r \in Processes \ {q}})'
    <3>1. SUFFICES ASSUME NEW r \in Processes \ {q}, Held(r)' # NoToken, Held(r)'.family = g
                   PROVE  FALSE
      BY <2>4 DEF FamiliesOf
    <3>2. CASE r = p
      BY <1>2, <2>4, <3>1, <3>2 DEF FamiliesOf
    <3>3. CASE r # p
      BY <1>2, <2>1, <3>1, <3>3 DEF FamiliesOf
    <3> QED BY <3>2, <3>3
  <2> QED BY <2>1, <2>3, <2>5
<1>5. CASE lock \in {p, Nobody}
  <2>1. proc[q].step \notin Locked
    BY <1>1, <1>5, AuthorizationAssumption DEF TypeOK
  <2> QED BY <1>2, <1>3, <1>4, <2>1 DEF FromFile, At, Locked
<1>6. CASE lock \notin {p, Nobody}
  <2>1. /\ token' \in {token, NoToken}
        /\ \A f \in live : f \in live' /\ turn'[f] = turn[f]
        /\ IsLive(Held(q))' => IsLive(Held(q))
    BY <1>2, <1>6
  <2>2. FromFile(q)'
    <3>1. At(q, "delete")' => Held(q)'.family \notin live'
      BY <1>1, <1>2, <2>1 DEF FromFile, InHand, IsLive, At
    <3> QED BY <1>1, <1>2, <2>1, <3>1 DEF FromFile, At
  <2>3. At(q, "spend")' => Current(Held(q))'
    <3> SUFFICES ASSUME At(q, "spend"), IsLive(Held(q))'
                 PROVE  Current(Held(q))'
      BY <1>2 DEF Current
    <3> DEFINE g == Held(q).family
    <3>1. IsLive(Held(q)) /\ g \in live /\ Held(q)'.family = g /\ Held(q)'.turn = Held(q).turn
      BY <1>2, <2>1 DEF IsLive
    <3>2. Held(q).turn = turn[g] \/ g \in cut
      <4>1. \A r \in Processes : At(r, "persist") => lock = r
        BY <1>1 DEF TypeOK, At, Locked
      <4>2. lock = q
        BY <1>1 DEF TypeOK, At, Locked
      <4>3. \A r \in Processes : ~At(r, "persist")
        BY <4>1, <4>2 DEF At
      <4> QED BY <1>1, <3>1, <4>3 DEF Current
    <3>3. Held(q)'.turn = turn'[g] \/ g \in cut'
      BY <2>1, <3>1, <3>2
    <3> QED BY <3>1, <3>3 DEF Current
  <2> QED BY <1>3, <1>4, <2>2, <2>3
<1> QED BY <1>5, <1>6

(* So it remains to see to the process itself and to what is on file.      *)
LEMMA Together ==
    ASSUME IInv, NEW p \in Processes, NEW m \in Memory, Become(p, m),
           FamiliesOf({token, m.held})' \cap live \subseteq Touched(p),
           \A f \in live \ Touched(p) : f \in live' /\ turn'[f] = turn[f],
           cut \cap live' \subseteq cut',
           \/ lock \in {p, Nobody}
           \/ /\ token' \in {token, NoToken}
              /\ \A f \in live : f \in live' /\ turn'[f] = turn[f]
              /\ \A q \in Processes : IsLive(Held(q))' /\ Held(q)' = Held(q) => IsLive(Held(q)),
           TypeOK', ~reused', Current(token)', Accounted', Marked',
           InHand(p)' /\ FromFile(p)' /\ JustMinted(p)',
           At(p, "spend")' => Current(Held(p))'
    PROVE  IInv'
<1>1. ASSUME NEW q \in Processes
      PROVE  /\ InHand(q)' /\ FromFile(q)' /\ JustMinted(q)'
             /\ At(q, "spend")' => Current(Held(q))'
  BY OthersKnow
<1> QED BY <1>1 DEF IInv, UpToDate

(* Type correctness, whatever token, server and lists become.              *)
LEMMA Typed ==
    ASSUME IInv, NEW p \in Processes, NEW m \in Memory, Become(p, m),
           token' \in Tokens \cup {NoToken}, lock' \in Processes \cup {Nobody},
           decision' \in {"undecided", "on", "off"}, owed' \in BOOLEAN, slot' \in BOOLEAN,
           live' \subseteq Families, turn' \in [Families -> 0 .. MaxRotations],
           cut' \subseteq live', strays' \subseteq live', reused' \in BOOLEAN,
           decisions' \in 0 .. MaxDecisions, faults' \in 0 .. MaxFaults,
           m.step \in Locked <=> lock' = p,
           \/ lock' = lock
           \/ lock' \in {p, Nobody} /\ lock \in {p, Nobody}
    PROVE  TypeOK'
<1>1. TypeOK /\ Nobody \notin Processes
  BY AuthorizationAssumption DEF IInv
<1>2. /\ proc' \in [Processes -> Memory] /\ proc'[p] = m
      /\ \A q \in Processes \ {p} : proc'[q] = proc[q]
  BY <1>1, OthersStay
<1>3. \A q \in Processes : proc'[q].step \in Locked <=> lock' = q
  BY <1>1, <1>2 DEF TypeOK
<1> QED BY <1>2, <1>3 DEF TypeOK

(* Lock and load: what is on file is what the process has in hand.         *)
LEMMA Locks ==
    ASSUME IInv, NEW p \in Processes, NEW next \in {"spend", "post"},
           \/ Refresh(p) /\ token # NoToken /\ next = "spend"
           \/ Revoke(p) /\ token # NoToken /\ next = "post"
    PROVE  IInv'
<1>1. TypeOK /\ token \in Tokens /\ NoToken \notin Tokens /\ Nobody \notin Processes
  BY AuthorizationAssumption, Bounds DEF TypeOK
<1>2. /\ UNCHANGED <<token, decision, owed, slot, live, turn, cut, strays, reused,
                     decisions, faults>>
      /\ lock = Nobody /\ lock' = p /\ Have(p, token, next)
  BY DEF Refresh, Revoke, LockAndLoad, files, server, ghosts, bounds
<1>3. PICK m \in Memory : Become(p, m) /\ m.step = next /\ m.job = Job(p) /\ m.held = token
  BY <1>1, <1>2, Has DEF Steps
<1>4. /\ proc'[p] = m /\ Held(p)' = token
      /\ \A q \in Processes \ {p} : proc'[q] = proc[q] /\ Held(q)' = Held(q)
  BY <1>1, <1>3, OthersStay DEF Held
<1>5. TypeOK'
  BY <1>1, <1>2, <1>3, Typed DEF IInv, TypeOK, Locked
<1>6. ~At(p, "persist") /\ ~At(p, "store") /\ ~At(p, "persist")' /\ ~At(p, "store")'
  BY <1>3, <1>4 DEF Refresh, Revoke, At
<1>7. Current(token)' /\ (At(p, "spend")' => Current(Held(p))')
  BY <1>2, <1>4, <1>6 DEF IInv, UpToDate, Current, IsLive, At
<1>8. Accounted'
  BY <1>2, <1>4, <1>6 DEF IInv, Accounted, At
<1>9. Marked'
  <2>1. Disabling(p) => Disabling(p)'
    BY <1>2, <1>3, <1>4 DEF Disabling, Refresh, Revoke, Job, At
  <2>2. IsLive(token)' => IsLive(token) /\ token'.family = token.family
    BY <1>2 DEF IsLive
  <2>3. decision' \in {decision, "on", "undecided"} /\ strays \subseteq strays' /\ (owed => owed')
    BY <1>2
  <2> QED BY <1>3, <2>1, <2>2, <2>3, MarkedStays
<1>10. InHand(p)' /\ FromFile(p)' /\ JustMinted(p)'
  BY <1>1, <1>2, <1>3, <1>4 DEF InHand, FromFile, JustMinted, At
<1>11. FamiliesOf({token, m.held})' \cap live \subseteq Touched(p)
  BY <1>2, <1>3 DEF FamiliesOf, Touched
<1>12. /\ \A f \in live \ Touched(p) : f \in live' /\ turn'[f] = turn[f]
       /\ cut \cap live' \subseteq cut' /\ ~reused'
  BY <1>2 DEF IInv
<1> QED BY <1>2, <1>3, <1>5, <1>7, <1>8, <1>9, <1>10, <1>11, <1>12, Together

(* What a process knows that has the lock of the token file.               *)
LEMMA UnderTheLock ==
    ASSUME IInv, NEW p \in Processes, proc[p].step \in Locked
    PROVE  /\ lock = p /\ Held(p) \in Tokens /\ Held(p) # NoToken /\ proc[p] \in Memory
           /\ Held(p).family \in Families /\ Held(p).turn \in 0 .. MaxRotations
           /\ token \in Tokens \cup {NoToken}
           /\ token # NoToken => token.family = Held(p).family
           /\ \A q \in Processes \ {p} : proc[q].step \notin Locked
BY AuthorizationAssumption
   DEF IInv, TypeOK, InHand, FromFile, At, Locked, Tokens

(* With no token on file the family in hand is a stray, if it is alive.    *)
LEMMA PurgedUnderTheLock ==
    ASSUME IInv, NEW p \in Processes, proc[p].step \in Locked, token = NoToken,
           Held(p).family \in live
    PROVE  Held(p).family \in strays
<1>1. SUFFICES ASSUME NEW q \in Processes, At(q, "store"), Held(q).family = Held(p).family
               PROVE  FALSE
  BY DEF IInv, Accounted
<1>2. q # p /\ Held(p) # NoToken
  BY <1>1, UnderTheLock DEF At, Locked
<1>3. Held(q).family \notin FamiliesOf({token} \cup {Held(r) : r \in Processes \ {q}})
  BY <1>1 DEF IInv, JustMinted
<1> QED BY <1>1, <1>2, <1>3 DEF FamiliesOf

(* A process that lets go of the lock changes the family it had in hand     *)
(* and nothing else.                                                       *)
LEMMA LetsGo ==
    ASSUME IInv, NEW p \in Processes, proc[p].step \in Locked,
           NEW m \in Memory, Become(p, m), m.held = NoToken, m.step \notin Busied,
           lock' = Nobody, UNCHANGED <<decision, owed, slot>>,
           token' \in {token, NoToken, Held(p)},
           live' \subseteq live, turn' \in [Families -> 0 .. MaxRotations],
           \A f \in live \ {Held(p).family} : f \in live' /\ turn'[f] = turn[f],
           cut' \subseteq live', cut \cap live' \subseteq cut',
           strays' \subseteq live', strays \cap live' \subseteq strays',
           decisions' \in 0 .. MaxDecisions, faults' \in 0 .. MaxFaults,
           ~reused', reused' \in BOOLEAN, Current(token)', Marked',
           token' = NoToken => token = NoToken \/ Held(p).family \notin live'
    PROVE  IInv'
<1> DEFINE g == Held(p).family
<1>1. /\ TypeOK /\ Nobody \notin Processes
      /\ lock = p /\ Held(p) \in Tokens /\ Held(p) # NoToken
      /\ token \in Tokens \cup {NoToken}
      /\ token # NoToken => token.family = g
  BY UnderTheLock, AuthorizationAssumption, Bounds
<1>2. /\ proc' \in [Processes -> Memory] /\ proc'[p] = m
      /\ \A q \in Processes \ {p} : proc'[q] = proc[q] /\ Held(q)' = Held(q)
  BY <1>1, OthersStay
<1>3. TypeOK'
  <2>1. live' \subseteq Families /\ decision' \in {"undecided", "on", "off"}
        /\ owed' \in BOOLEAN /\ slot' \in BOOLEAN
    BY Bounds, <1>1 DEF TypeOK
  <2>2. lock' # p /\ m.step \notin Locked
    BY <1>1 DEF Busied
  <2> QED BY <1>1, <2>1, <2>2, Typed
<1>4. Touched(p) = {g}
  BY <1>1 DEF Touched, FamiliesOf
<1>5. FamiliesOf({token, m.held})' \cap live \subseteq Touched(p)
  BY <1>1, <1>4 DEF FamiliesOf
<1>6. InHand(p)' /\ FromFile(p)' /\ JustMinted(p)' /\ ~At(p, "spend")'
  BY <1>2 DEF InHand, FromFile, JustMinted, At, Busied, Locked
<1>7. Accounted'
  <2> SUFFICES ASSUME NEW f \in live', f \notin strays',
                      ~\E q \in Processes : At(q, "store")' /\ Held(q)'.family = f
               PROVE  token' # NoToken /\ token'.family = f
    BY DEF Accounted
  <2>1. f \in live /\ f \notin strays
    OBVIOUS
  <2>2. \A q \in Processes : At(q, "store") => Held(q).family # f
    <3>1. ~At(p, "store")
      BY DEF At, Locked
    <3> QED BY <1>2, <3>1 DEF At
  <2>3. token # NoToken /\ token.family = f
    BY <2>1, <2>2 DEF IInv, Accounted
  <2> QED BY <1>1, <2>3
<1> QED BY <1>1, <1>3, <1>4, <1>5, <1>6, <1>7, Together

(* The exchange.  Only a family whose successor was lost dies of a token    *)
(* that was spent.                                                         *)
LEMMA Spends ==
    ASSUME IInv, NEW p \in Processes, Spend(p)
    PROVE  IInv'
<1> DEFINE t == Held(p)
           g == t.family
<1>1. /\ TypeOK /\ At(p, "spend") /\ proc[p].step \in Locked /\ proc[p].step = "spend"
      /\ UNCHANGED <<token, decision, owed, slot>>
  BY Bounds DEF Spend, files, At, Locked
<1>2. /\ lock = p /\ t \in Tokens /\ t # NoToken /\ proc[p] \in Memory
      /\ g \in Families /\ t.turn \in 0 .. MaxRotations
      /\ token \in {NoToken, t}
      /\ \A q \in Processes \ {p} : proc[q].step \notin Locked
  <2>1. token \in {NoToken, t}
    BY <1>1 DEF IInv, FromFile
  <2> QED BY <1>1, <2>1, UnderTheLock
<1>3. /\ live \subseteq Families /\ turn \in [Families -> 0 .. MaxRotations]
      /\ cut \subseteq live /\ strays \subseteq live /\ ~reused /\ MaxRotations \in Nat
  BY <1>1, AuthorizationAssumption DEF TypeOK, IInv
<1>4. Current(t) /\ Current(token)
  BY <1>1 DEF IInv, UpToDate
<1>5. \A q \in Processes : ~At(q, "persist")
  BY <1>1, <1>2 DEF At, Locked
<1>6. ~Disabling(p)
  BY <1>1 DEF Disabling, At
<1>7. CASE /\ Newest(t) /\ t.turn < MaxRotations
           /\ Rotated(t) /\ Have(p, Successor(t), "persist")
           /\ UNCHANGED <<lock, ghosts, bounds>>
  <2>1. /\ Successor(t) \in Tokens /\ Successor(t).family = g /\ Successor(t).turn = t.turn + 1
        /\ g \in live
    <3>1. t.turn + 1 \in 0 .. MaxRotations
      BY <1>2, <1>3, <1>7
    <3> QED BY <1>2, <1>7, <3>1 DEF Successor, Tokens, Newest, IsLive
  <2>2. /\ live' = live /\ turn' = [turn EXCEPT ![g] = t.turn + 1]
        /\ UNCHANGED <<lock, cut, strays, reused, decisions, faults>>
    BY <1>7 DEF Rotated, ghosts, bounds
  <2>3. PICK m \in Memory : /\ Become(p, m) /\ m.step = "persist" /\ m.job = Job(p)
                            /\ m.held = Successor(t)
    BY <1>1, <1>7, <2>1, Has DEF Steps
  <2>4. /\ proc'[p] = m /\ Held(p)' = Successor(t)
        /\ \A q \in Processes \ {p} : proc'[q] = proc[q] /\ Held(q)' = Held(q)
    BY <1>1, <2>3, OthersStay DEF Held
  <2>5. turn' \in [Families -> 0 .. MaxRotations] /\ turn'[g] = t.turn + 1
        /\ \A f \in live \ {g} : turn'[f] = turn[f]
    BY <1>2, <1>3, <2>2, <2>1 DEF Tokens
  <2>6. TypeOK'
    <3>1. m.step \in Locked /\ lock' = p
      BY <1>2, <2>2, <2>3 DEF Locked
    <3>2. /\ token' \in Tokens \cup {NoToken} /\ decision' \in {"undecided", "on", "off"}
          /\ owed' \in BOOLEAN /\ slot' \in BOOLEAN
          /\ decisions' \in 0 .. MaxDecisions /\ faults' \in 0 .. MaxFaults
      BY <1>1, <2>2 DEF TypeOK
    <3>3. live' \subseteq Families /\ cut' \subseteq live' /\ strays' \subseteq live'
          /\ reused' \in BOOLEAN
      BY <1>3, <2>2, <1>1 DEF TypeOK
    <3> QED BY <1>2, <2>2, <2>3, <2>5, <3>1, <3>2, <3>3, Typed
  <2>7. At(p, "persist")' /\ ~At(p, "spend")' /\ ~At(p, "store")'
    BY <2>3, <2>4 DEF At
  <2>8. Current(token)'
    <3> SUFFICES ASSUME IsLive(token)'
                 PROVE  \E q \in Processes : At(q, "persist")' /\ Held(q)'.family = token'.family
      BY DEF Current
    <3>1. token' = t
      BY <1>1, <1>2 DEF IsLive
    <3>2. Held(p)'.family = token'.family
      BY <2>1, <2>4, <3>1
    <3> QED BY <2>7, <3>2
  <2>9. Accounted'
    <3>1. ~At(p, "store")
      BY <1>1 DEF At
    <3> QED BY <1>1, <2>2, <2>4, <3>1 DEF IInv, Accounted, At
  <2>10. Marked'
    <3>1. IsLive(token)' => IsLive(token) /\ token'.family = token.family
      BY <1>1, <2>2 DEF IsLive
    <3> QED BY <1>1, <1>6, <2>2, <2>3, <3>1, MarkedStays
  <2>11. InHand(p)' /\ FromFile(p)' /\ JustMinted(p)'
    <3>1. proc'[p].step = "persist"
      BY <2>3, <2>4
    <3> QED BY <1>1, <1>2, <2>1, <2>2, <2>4, <2>5, <3>1 DEF InHand, FromFile, JustMinted, At
  <2>12. /\ Touched(p) = {g} /\ FamiliesOf({token, m.held})' \subseteq {g}
    BY <1>1, <1>2, <2>1, <2>3 DEF Touched, FamiliesOf
  <2>13. /\ \A f \in live \ Touched(p) : f \in live' /\ turn'[f] = turn[f]
         /\ cut \cap live' \subseteq cut' /\ ~reused'
    BY <1>3, <2>2, <2>5, <2>12
  <2> QED BY <1>2, <2>3, <2>6, <2>7, <2>8, <2>9, <2>10, <2>11, <2>12, <2>13, Together
<1>8. CASE /\ Finish(p) /\ Unlock
           /\ \/ /\ Newest(t) /\ t.turn < MaxRotations
                 /\ Rotated(t) /\ cut' = cut \cup {t.family} /\ Fault
                 /\ UNCHANGED <<strays, reused>>
              \/ /\ IsLive(t) /\ ~Newest(t) /\ Dies(t.family)
                 /\ reused' = (reused \/ t.family \notin cut) /\ UNCHANGED bounds
              \/ UNCHANGED <<server, ghosts>> /\ (Fault \/ UNCHANGED bounds)
  <2>1. Become(p, Idle) /\ Idle \in Memory /\ Idle.held = NoToken /\ Idle.step \notin Busied
        /\ lock' = Nobody
    BY <1>8, Ends, IdleIsMemory DEF Unlock, Busied, Locked
  <2>2. /\ proc'[p] = Idle
        /\ \A q \in Processes \ {p} : proc'[q] = proc[q]
    BY <1>1, <2>1, OthersStay
  <2>3. CASE /\ Newest(t) /\ t.turn < MaxRotations
             /\ Rotated(t) /\ cut' = cut \cup {t.family} /\ Fault
             /\ UNCHANGED <<strays, reused>>
    <3>1. live' = live /\ turn' = [turn EXCEPT ![g] = t.turn + 1] /\ g \in live
      BY <2>3 DEF Rotated, Newest, IsLive
    <3>2. turn' \in [Families -> 0 .. MaxRotations]
          /\ \A f \in live \ {g} : f \in live' /\ turn'[f] = turn[f]
      <4>1. t.turn + 1 \in 0 .. MaxRotations
        BY <1>2, <1>3, <2>3
      <4> QED BY <1>2, <1>3, <3>1, <4>1
    <3>3. decisions' \in 0 .. MaxDecisions /\ faults' \in 0 .. MaxFaults
      BY <1>1, <2>3, FaultCounts
    <3>4. Current(token)'
      BY <1>1, <1>2, <2>3 DEF Current, IsLive
    <3>5. Marked'
      <4>1. IsLive(token)' => IsLive(token) /\ token'.family = token.family
        BY <1>1, <3>1 DEF IsLive
      <4> QED BY <1>1, <1>6, <2>1, <2>3, <4>1, MarkedStays
    <3>6. /\ cut' \subseteq live' /\ cut \cap live' \subseteq cut'
          /\ strays' \subseteq live' /\ strays \cap live' \subseteq strays' /\ reused' = reused
      BY <1>3, <2>3, <3>1
    <3> QED BY <1>1, <1>3, <2>1, <3>1, <3>2, <3>3, <3>4, <3>5, <3>6, LetsGo DEF TypeOK
  <2>4. CASE /\ IsLive(t) /\ ~Newest(t) /\ Dies(t.family)
             /\ reused' = (reused \/ t.family \notin cut) /\ UNCHANGED bounds
    <3>1. /\ live' = live \ {g} /\ turn' = [turn EXCEPT ![g] = 0]
          /\ cut' = cut \ {g} /\ strays' = strays \ {g}
      BY <2>4 DEF Dies
    <3>2. g \in cut
      BY <1>4, <1>5, <2>4 DEF Current, Newest
    <3>3. ~reused' /\ reused' \in BOOLEAN
      BY <1>3, <2>4, <3>2
    <3>4. ~IsLive(token)'
      BY <1>1, <1>2, <3>1 DEF IsLive
    <3>5. Current(token)' /\ Marked'
      BY <3>4 DEF Current, Marked
    <3>6. turn' \in [Families -> 0 .. MaxRotations]
          /\ \A f \in live \ {g} : f \in live' /\ turn'[f] = turn[f]
      BY <1>2, <1>3, <3>1
    <3>7. decisions' \in 0 .. MaxDecisions /\ faults' \in 0 .. MaxFaults
      BY <1>1, <2>4 DEF bounds, TypeOK
    <3>8. /\ live' \subseteq live
          /\ cut' \subseteq live' /\ cut \cap live' \subseteq cut'
          /\ strays' \subseteq live' /\ strays \cap live' \subseteq strays'
      BY <1>3, <3>1
    <3> QED BY <1>1, <2>1, <3>3, <3>5, <3>6, <3>7, <3>8, LetsGo
  <2>5. CASE UNCHANGED <<server, ghosts>> /\ (Fault \/ UNCHANGED bounds)
    <3>1. UNCHANGED <<live, turn, cut, strays, reused>>
      BY <2>5 DEF server, ghosts
    <3>2. decisions' \in 0 .. MaxDecisions /\ faults' \in 0 .. MaxFaults
      BY <1>1, <2>5, FaultCounts DEF bounds, TypeOK
    <3>3. Current(token)'
      BY <1>1, <1>4, <1>5, <3>1 DEF Current, IsLive
    <3>4. Marked'
      <4>1. IsLive(token)' => IsLive(token) /\ token'.family = token.family
        BY <1>1, <3>1 DEF IsLive
      <4> QED BY <1>1, <1>6, <2>1, <3>1, <4>1, MarkedStays
    <3> QED BY <1>1, <1>3, <2>1, <3>1, <3>2, <3>3, <3>4, LetsGo DEF TypeOK
  <2> QED BY <1>8, <2>3, <2>4, <2>5
<1> QED BY <1>7, <1>8 DEF Spend

(* The successor goes to disk, or is lost on the way.                      *)
LEMMA Persists ==
    ASSUME IInv, NEW p \in Processes, Persist(p)
    PROVE  IInv'
<1> DEFINE g == Held(p).family
<1>1. /\ TypeOK /\ At(p, "persist") /\ proc[p].step \in Locked /\ proc[p].step = "persist"
      /\ UNCHANGED <<decision, owed, slot, live, turn, strays, reused>>
  BY Bounds DEF Persist, server, At, Locked
<1>2. /\ Held(p) \in Tokens /\ Held(p) # NoToken
      /\ token \in Tokens \cup {NoToken}
      /\ token # NoToken => token.family = g
  BY <1>1, UnderTheLock
<1>3. g \in live /\ Held(p).turn = turn[g]
  BY <1>1 DEF IInv, FromFile
<1>4. /\ cut \subseteq live /\ strays \subseteq live /\ ~reused
      /\ turn \in [Families -> 0 .. MaxRotations]
  BY <1>1 DEF TypeOK, IInv
<1>5. Become(p, Idle) /\ Idle \in Memory /\ Idle.held = NoToken /\ Idle.step \notin Busied
      /\ lock' = Nobody /\ ~Disabling(p)
  BY <1>1, Ends, IdleIsMemory DEF Persist, Unlock, Busied, Locked, Disabling, At
<1>6. CASE token' = Held(p) /\ UNCHANGED <<cut, bounds>>
  <2>1. decisions' \in 0 .. MaxDecisions /\ faults' \in 0 .. MaxFaults
    BY <1>1, <1>6 DEF bounds, TypeOK
  <2>2. Current(token)'
    BY <1>1, <1>3, <1>6 DEF Current
  <2>3. Marked'
    <3>1. CASE token = NoToken
      <4>1. g \in strays
        BY <1>1, <1>3, <3>1, PurgedUnderTheLock
      <4> QED BY <1>1, <1>6, <4>1 DEF Marked
    <3>2. CASE token # NoToken
      <4>1. IsLive(token)' => IsLive(token) /\ token'.family = token.family
        BY <1>1, <1>2, <1>3, <1>6, <3>2 DEF IsLive
      <4> QED BY <1>1, <1>5, <4>1, MarkedStays
    <3> QED BY <3>1, <3>2
  <2>4. token' # NoToken /\ token' \in {token, NoToken, Held(p)}
    BY <1>2, <1>6
  <2> QED BY <1>1, <1>4, <1>5, <1>6, <2>1, <2>2, <2>3, <2>4, LetsGo DEF TypeOK
<1>7. CASE Fault /\ cut' = cut \cup {g} /\ UNCHANGED token
  <2>1. decisions' \in 0 .. MaxDecisions /\ faults' \in 0 .. MaxFaults
    BY <1>1, <1>7, FaultCounts
  <2>2. Current(token)'
    BY <1>2, <1>7 DEF Current, IsLive
  <2>3. Marked'
    <3>1. IsLive(token)' => IsLive(token) /\ token'.family = token.family
      BY <1>1, <1>7 DEF IsLive
    <3> QED BY <1>1, <1>5, <3>1, MarkedStays
  <2>4. cut' \subseteq live' /\ cut \cap live' \subseteq cut'
    BY <1>1, <1>3, <1>4, <1>7
  <2> QED BY <1>1, <1>4, <1>5, <1>7, <2>1, <2>2, <2>3, <2>4, LetsGo DEF TypeOK
<1> QED BY <1>6, <1>7 DEF Persist

(* The death of the family in hand leaves nothing on file to be revoked.   *)
LEMMA Kills ==
    ASSUME IInv, NEW p \in Processes, proc[p].step \in Locked, Dies(Held(p).family), token' = token
    PROVE  /\ live' \subseteq live /\ turn' \in [Families -> 0 .. MaxRotations]
           /\ \A f \in live \ {Held(p).family} : f \in live' /\ turn'[f] = turn[f]
           /\ cut' \subseteq live' /\ cut \cap live' \subseteq cut'
           /\ strays' \subseteq live' /\ strays \cap live' \subseteq strays'
           /\ ~IsLive(token)' /\ Held(p).family \notin live' /\ Current(token)' /\ Marked'
<1> DEFINE g == Held(p).family
<1>1. /\ live' = live \ {g} /\ turn' = [turn EXCEPT ![g] = 0]
      /\ cut' = cut \ {g} /\ strays' = strays \ {g}
  BY DEF Dies
<1>2. /\ cut \subseteq live /\ strays \subseteq live /\ MaxRotations \in Nat
      /\ turn \in [Families -> 0 .. MaxRotations]
  BY AuthorizationAssumption DEF TypeOK, IInv
<1>3. ~IsLive(token)'
  BY <1>1, UnderTheLock DEF IsLive
<1>4. Current(token)' /\ Marked'
  BY <1>3 DEF Current, Marked
<1> QED BY <1>1, <1>2, <1>3, <1>4, UnderTheLock

(* The revocation.                                                         *)
LEMMA Posts ==
    ASSUME IInv, NEW p \in Processes, Post(p)
    PROVE  IInv'
<1> DEFINE g == Held(p).family
<1>1. /\ TypeOK /\ proc[p].step \in Locked /\ proc[p].step = "post" /\ ~reused
      /\ UNCHANGED <<token, decision, owed, slot>>
  BY Bounds DEF Post, files, At, Locked, IInv
<1>2. /\ Held(p) \in Tokens /\ Held(p) # NoToken /\ lock = p
      /\ token \in {NoToken, Held(p)}
  <2>1. token \in {NoToken, Held(p)}
    BY <1>1 DEF IInv, FromFile
  <2> QED BY <1>1, <2>1, UnderTheLock
<1>3. CASE /\ Dies(g) /\ Goto(p, "delete") /\ UNCHANGED <<lock, reused, bounds>>
  <2>1. PICK m \in Memory : /\ Become(p, m) /\ m.step = "delete" /\ m.held = Held(p)
    BY <1>1, <1>3, Goes DEF Steps
  <2>2. /\ proc'[p] = m /\ Held(p)' = Held(p)
        /\ \A q \in Processes \ {p} : proc'[q] = proc[q] /\ Held(q)' = Held(q)
    BY <1>1, <2>1, OthersStay DEF Held
  <2>3. /\ live' \subseteq live /\ turn' \in [Families -> 0 .. MaxRotations]
        /\ \A f \in live \ {g} : f \in live' /\ turn'[f] = turn[f]
        /\ cut' \subseteq live' /\ cut \cap live' \subseteq cut'
        /\ strays' \subseteq live' /\ strays \cap live' \subseteq strays'
        /\ g \notin live' /\ Current(token)' /\ Marked'
    BY <1>1, <1>3, Kills
  <2>4. TypeOK'
    <3>1. m.step \in Locked /\ lock' = p
      BY <1>2, <1>3, <2>1 DEF Locked
    <3>2. /\ token' \in Tokens \cup {NoToken} /\ decision' \in {"undecided", "on", "off"}
          /\ owed' \in BOOLEAN /\ slot' \in BOOLEAN
          /\ decisions' \in 0 .. MaxDecisions /\ faults' \in 0 .. MaxFaults
      BY <1>1, <1>3 DEF TypeOK, bounds
    <3>3. live' \subseteq Families /\ reused' \in BOOLEAN
      BY <1>1, <1>3, <2>3 DEF TypeOK
    <3> QED BY <1>2, <1>3, <2>1, <2>3, <3>1, <3>2, <3>3, Typed
  <2>5. Accounted'
    <3> SUFFICES ASSUME NEW f \in live', f \notin strays'
                 PROVE  \/ token' # NoToken /\ token'.family = f
                        \/ \E q \in Processes : At(q, "store")' /\ Held(q)'.family = f
      BY DEF Accounted
    <3>1. f \in live /\ f \notin strays
      BY <2>3
    <3>2. CASE \E q \in Processes : At(q, "store") /\ Held(q).family = f
      <4>1. PICK q \in Processes : At(q, "store") /\ Held(q).family = f
        BY <3>2
      <4>2. q # p
        BY <1>1, <4>1 DEF At
      <4> QED BY <2>2, <4>1, <4>2 DEF At
    <3> QED BY <1>1, <3>1, <3>2 DEF IInv, Accounted
  <2>6. proc'[p].step = "delete"
    BY <2>1, <2>2
  <2>7. InHand(p)' /\ FromFile(p)' /\ JustMinted(p)' /\ ~At(p, "spend")'
    BY <1>1, <1>2, <2>2, <2>3, <2>6 DEF InHand, FromFile, JustMinted, At
  <2>8. FamiliesOf({token, m.held})' \cap live \subseteq Touched(p) /\ Touched(p) = {g}
    BY <1>1, <1>2, <2>1 DEF FamiliesOf, Touched
  <2>9. ~reused'
    BY <1>1, <1>3
  <2> QED BY <1>2, <2>1, <2>3, <2>4, <2>5, <2>7, <2>8, <2>9, Together
<1>4. CASE /\ Fault /\ AfterRevocation(p, FALSE) /\ Unlock
           /\ \/ Dies(g) /\ UNCHANGED reused
              \/ UNCHANGED <<server, ghosts>>
  <2>1. PICK done \in BOOLEAN : ~done /\ AfterRevocation(p, done)
    BY <1>4
  <2>2. PICK m \in Memory : /\ Become(p, m) /\ m.held = NoToken
                            /\ m.step \in {"settle", "purge", "poll", "idle"}
                            /\ Job(p) = "disable" => /\ m.step = "settle" /\ m.job = "disable"
                                                     /\ m.seen = done
    BY <1>1, <2>1, Revoked
  <2>3. m.step \notin Busied /\ lock' = Nobody
    BY <1>4, <2>2 DEF Busied, Locked, Unlock
  <2>4. decisions' \in 0 .. MaxDecisions /\ faults' \in 0 .. MaxFaults
    BY <1>1, <1>4, FaultCounts
  <2>5. CASE Dies(g) /\ UNCHANGED reused
    <3>1. /\ live' \subseteq live /\ turn' \in [Families -> 0 .. MaxRotations]
          /\ \A f \in live \ {g} : f \in live' /\ turn'[f] = turn[f]
          /\ cut' \subseteq live' /\ cut \cap live' \subseteq cut'
          /\ strays' \subseteq live' /\ strays \cap live' \subseteq strays'
          /\ Current(token)' /\ Marked'
      BY <1>1, <2>5, Kills
    <3> QED BY <1>1, <2>2, <2>3, <2>4, <2>5, <3>1, LetsGo DEF TypeOK
  <2>6. CASE UNCHANGED <<server, ghosts>>
    <3>1. UNCHANGED <<live, turn, cut, strays, reused>>
      BY <2>6 DEF server, ghosts
    <3>2. /\ cut \subseteq live /\ strays \subseteq live
          /\ turn \in [Families -> 0 .. MaxRotations]
      BY <1>1 DEF TypeOK
    <3>3. Current(token)'
      <4>1. \A q \in Processes : ~At(q, "persist")
        BY <1>1, UnderTheLock DEF At, Locked
      <4> QED BY <1>1, <3>1, <4>1 DEF IInv, UpToDate, Current, IsLive
    <3>4. Marked'
      <4>1. IsLive(token)' => IsLive(token) /\ token'.family = token.family
        BY <1>1, <3>1 DEF IsLive
      <4>2. Disabling(p) => Disabling(p)'
        <5>1. proc'[p] = m
          BY <1>1, <2>2, OthersStay
        <5> QED BY <2>1, <2>2, <5>1 DEF Disabling, Job, At
      <4> QED BY <1>1, <2>2, <3>1, <4>1, <4>2, MarkedStays
    <3> QED BY <1>1, <2>2, <2>3, <2>4, <3>1, <3>2, <3>3, <3>4, LetsGo DEF TypeOK
  <2> QED BY <1>4, <2>5, <2>6
<1> QED BY <1>3, <1>4 DEF Post

(* The token goes once the server confirmed that its family is dead.       *)
LEMMA Deletes ==
    ASSUME IInv, NEW p \in Processes, DeleteToken(p)
    PROVE  IInv'
<1> DEFINE g == Held(p).family
<1>1. /\ TypeOK /\ proc[p].step \in Locked /\ proc[p].step = "delete" /\ ~reused
      /\ UNCHANGED <<decision, owed, slot, live, turn, cut, strays, reused>>
  BY Bounds DEF DeleteToken, server, ghosts, At, Locked, IInv
<1>2. /\ token \in {NoToken, Held(p)} /\ g \notin live
      /\ token' \in {token, NoToken}
  BY <1>1 DEF IInv, FromFile, At, DeleteToken
<1>3. ~IsLive(token)' /\ Current(token)' /\ Marked'
  <2>1. ~IsLive(token)'
    BY <1>1, <1>2 DEF IsLive
  <2> QED BY <2>1 DEF Current, Marked
<1>4. /\ lock' = Nobody /\ (Fault \/ UNCHANGED bounds)
      /\ \E done \in BOOLEAN : AfterRevocation(p, done)
  BY DEF DeleteToken, Unlock
<1>5. PICK m \in Memory : /\ Become(p, m) /\ m.held = NoToken
                          /\ m.step \in {"settle", "purge", "poll", "idle"}
  BY <1>1, <1>4, Revoked
<1>6. m.step \notin Busied
  BY <1>5 DEF Busied, Locked
<1>7. decisions' \in 0 .. MaxDecisions /\ faults' \in 0 .. MaxFaults
  BY <1>1, <1>4, FaultCounts DEF bounds, TypeOK
<1>8. /\ cut \subseteq live /\ strays \subseteq live /\ reused' \in BOOLEAN
      /\ turn \in [Families -> 0 .. MaxRotations]
  BY <1>1 DEF TypeOK
<1> QED BY <1>1, <1>2, <1>3, <1>4, <1>5, <1>6, <1>7, <1>8, LetsGo

(* A family comes into the world.                                          *)
LEMMA Mints ==
    ASSUME IInv, NEW p \in Processes, At(p, "redeem"),
           NEW f \in Unused, Minted(f), UNCHANGED <<token, decision, owed, slot, lock, cut, reused>>,
           \/ /\ Have(p, [family |-> f, turn |-> 0], "store")
              /\ UNCHANGED <<strays, decisions, faults>>
           \/ Fault /\ strays' = strays \cup {f} /\ Finish(p)
    PROVE  IInv'
<1> DEFINE t == [family |-> f, turn |-> 0]
<1>1. /\ TypeOK /\ proc[p].step = "redeem" /\ ~reused /\ Nobody \notin Processes
      /\ MaxRotations \in Nat
  BY Bounds, AuthorizationAssumption DEF At, IInv
<1>2. /\ f \in Families /\ f \notin live
      /\ token # NoToken => token.family # f
      /\ \A q \in Processes : Held(q) # NoToken => Held(q).family # f
  BY DEF Unused, FamiliesOf, InMemory
<1>3. /\ t \in Tokens /\ t # NoToken
  BY <1>1, <1>2, AuthorizationAssumption DEF Tokens
<1>4. /\ live' = live \cup {f} /\ turn' = [turn EXCEPT ![f] = 0]
      /\ turn \in [Families -> 0 .. MaxRotations]
      /\ turn' \in [Families -> 0 .. MaxRotations] /\ turn'[f] = 0
      /\ \A g \in live : g \in live' /\ turn'[g] = turn[g]
  BY <1>1, <1>2 DEF Minted, TypeOK
<1>5. \E m \in Memory : /\ Become(p, m)
                        /\ \/ m.step = "store" /\ m.held = t
                           \/ m.step = "idle" /\ m.held = NoToken
  BY <1>1, <1>3, Has, Ends, IdleIsMemory DEF Steps
<1>6. PICK m \in Memory : /\ Become(p, m)
                          /\ \/ m.step = "store" /\ m.held = t
                             \/ m.step = "idle" /\ m.held = NoToken
  BY <1>5
<1>7. /\ proc'[p] = m /\ Held(p)' = m.held
      /\ \A q \in Processes \ {p} : proc'[q] = proc[q] /\ Held(q)' = Held(q)
  BY <1>1, <1>6, OthersStay DEF Held
<1>8. /\ strays' \in {strays, strays \cup {f}}
      /\ m.step = "idle" => f \in strays'
  <2>1. CASE Have(p, t, "store") /\ UNCHANGED <<strays, decisions, faults>>
    <3>1. proc'[p].step = "store"
      BY <1>1, <2>1 DEF Have, Become, TypeOK, Memory
    <3> QED BY <1>7, <2>1, <3>1
  <2>2. CASE Fault /\ strays' = strays \cup {f} /\ Finish(p)
    BY <2>2
  <2> QED BY <2>1, <2>2
<1>9. decisions' \in 0 .. MaxDecisions /\ faults' \in 0 .. MaxFaults
  BY <1>1, FaultCounts DEF TypeOK
<1>10. TypeOK'
  <2>1. /\ m.step \notin Locked /\ lock # p
    BY <1>1, <1>6 DEF Locked, TypeOK
  <2>2. /\ live' \subseteq Families /\ cut' \subseteq live' /\ strays' \subseteq live'
    BY <1>1, <1>2, <1>4, <1>8 DEF TypeOK
  <2>3. /\ token' \in Tokens \cup {NoToken} /\ decision' \in {"undecided", "on", "off"}
        /\ owed' \in BOOLEAN /\ slot' \in BOOLEAN /\ reused' \in BOOLEAN
        /\ lock' \in Processes \cup {Nobody}
    BY <1>1 DEF TypeOK
  <2> QED BY <1>4, <1>6, <1>9, <2>1, <2>2, <2>3, Typed
<1>11. ~At(p, "persist") /\ ~At(p, "persist")' /\ ~At(p, "spend")' /\ ~Disabling(p)
  BY <1>1, <1>6, <1>7 DEF At, Disabling
<1>12. IsLive(token)' => IsLive(token) /\ token' = token
  BY <1>2, <1>4 DEF IsLive
<1>13. Current(token)'
  <2> SUFFICES ASSUME IsLive(token)'
               PROVE  \/ token'.turn = turn'[token'.family]
                      \/ token'.family \in cut'
                      \/ \E q \in Processes : At(q, "persist")' /\ Held(q)'.family = token'.family
    BY DEF Current
  <2>1. IsLive(token) /\ token' = token /\ turn'[token.family] = turn[token.family]
    BY <1>4, <1>12 DEF IsLive
  <2> QED BY <1>7, <1>11, <2>1 DEF IInv, UpToDate, Current, At
<1>14. Accounted'
  <2> SUFFICES ASSUME NEW g \in live', g \notin strays'
               PROVE  \/ token' # NoToken /\ token'.family = g
                      \/ \E q \in Processes : At(q, "store")' /\ Held(q)'.family = g
    BY DEF Accounted
  <2>1. CASE g = f
    BY <1>6, <1>7, <1>8, <2>1 DEF At
  <2>2. CASE g # f
    <3>1. g \in live /\ g \notin strays
      BY <1>4, <1>8, <2>2
    <3>2. CASE \E q \in Processes : At(q, "store") /\ Held(q).family = g
      <4>1. PICK q \in Processes : At(q, "store") /\ Held(q).family = g
        BY <3>2
      <4>2. q # p
        BY <1>1, <4>1 DEF At
      <4> QED BY <1>7, <4>1, <4>2 DEF At
    <3> QED BY <3>1, <3>2 DEF IInv, Accounted
  <2> QED BY <2>1, <2>2
<1>15. Marked'
  <2>1. strays \subseteq strays' /\ decision' = decision /\ owed' = owed
    BY <1>8
  <2> QED BY <1>6, <1>11, <1>12, <2>1, MarkedStays
<1>16. InHand(p)' /\ FromFile(p)' /\ JustMinted(p)'
  <2>1. InHand(p)' /\ FromFile(p)'
    BY <1>3, <1>6, <1>7 DEF InHand, FromFile, At
  <2>2. JustMinted(p)'
    <3> SUFFICES ASSUME At(p, "store")'
                 PROVE  /\ Held(p)'.family \in live' /\ Held(p)'.turn = 0
                        /\ turn'[Held(p)'.family] = 0
                        /\ Held(p)'.family \notin
                              FamiliesOf({token} \cup {Held(q) : q \in Processes \ {p}})'
      BY DEF JustMinted
    <3>1. Held(p)' = t
      BY <1>6, <1>7 DEF At
    <3>2. f \notin FamiliesOf({token} \cup {Held(q) : q \in Processes \ {p}})'
      BY <1>2, <1>7 DEF FamiliesOf
    <3> QED BY <1>4, <3>1, <3>2
  <2> QED BY <2>1, <2>2
<1>17. FamiliesOf({token, m.held})' \cap live \subseteq Touched(p)
  BY <1>2, <1>6 DEF FamiliesOf, Touched
<1>18. \A q \in Processes : IsLive(Held(q))' /\ Held(q)' = Held(q) => IsLive(Held(q))
  BY <1>2, <1>4 DEF IsLive
<1>19. cut \cap live' \subseteq cut' /\ ~reused' /\ token' \in {token, NoToken}
  BY <1>1
<1> QED BY <1>4, <1>6, <1>10, <1>11, <1>13, <1>14, <1>15, <1>16, <1>17, <1>18, <1>19, Together

(* A process without the lock ends or goes on with nothing in hand: what it *)
(* had in hand is on file now, or a stray, and so is what it overwrote or  *)
(* removed.                                                                *)
LEMMA LetsDrop ==
    ASSUME IInv, NEW p \in Processes, proc[p].step \notin Locked,
           NEW m \in Memory, Become(p, m), m.held = NoToken, m.step \notin Busied,
           UNCHANGED <<lock, live, turn, cut, reused>>,
           \/ token' \in {token, NoToken}
           \/ lock = Nobody /\ At(p, "store") /\ token' = Held(p),
           decision' \in {"undecided", "on", "off"}, owed' \in BOOLEAN, slot' \in BOOLEAN,
           strays \subseteq strays', strays' \subseteq live,
           decisions' \in 0 .. MaxDecisions, faults' \in 0 .. MaxFaults,
           At(p, "store") => token' = Held(p) \/ Held(p).family \in strays',
           IsLive(token) /\ token' # token => token.family \in strays',
           Marked'
    PROVE  IInv'
<1>1. /\ TypeOK /\ ~reused /\ Nobody \notin Processes /\ NoToken \notin Tokens /\ lock # p
      /\ token \in Tokens \cup {NoToken}
      /\ At(p, "store") => /\ Held(p) \in Tokens /\ Held(p).turn = 0 /\ turn[Held(p).family] = 0
  BY AuthorizationAssumption, Bounds DEF IInv, TypeOK, InHand, JustMinted, At
<1>2. /\ proc' \in [Processes -> Memory] /\ proc'[p] = m
      /\ \A q \in Processes \ {p} : proc'[q] = proc[q] /\ Held(q)' = Held(q)
  BY <1>1, OthersStay
<1>3. TypeOK'
  <2>1. /\ m.step \notin Locked /\ token' \in Tokens \cup {NoToken}
    BY <1>1 DEF Busied
  <2>2. /\ live \subseteq Families /\ cut \subseteq live /\ lock \in Processes \cup {Nobody}
        /\ turn \in [Families -> 0 .. MaxRotations] /\ reused \in BOOLEAN
    BY <1>1 DEF TypeOK
  <2> QED BY <1>1, <2>1, <2>2, Typed
<1>4. ~At(p, "persist") /\ ~At(p, "persist")' /\ ~At(p, "spend")'
  BY <1>2 DEF At, Locked, Busied
<1>5. Current(token)'
  <2>1. CASE token' = token
    BY <1>2, <1>4, <2>1 DEF IInv, UpToDate, Current, IsLive, At
  <2>2. CASE token' = NoToken
    BY <2>2 DEF Current, IsLive
  <2>3. CASE At(p, "store") /\ token' = Held(p)
    BY <1>1, <2>3 DEF Current
  <2> QED BY <2>1, <2>2, <2>3
<1>6. Accounted'
  <2> SUFFICES ASSUME NEW f \in live, f \notin strays'
               PROVE  \/ token' # NoToken /\ token'.family = f
                      \/ \E q \in Processes : At(q, "store")' /\ Held(q)'.family = f
    BY DEF Accounted
  <2>1. CASE token # NoToken /\ token.family = f
    <3>1. IsLive(token)
      BY <2>1 DEF IsLive
    <3> QED BY <2>1, <3>1
  <2>2. CASE \E q \in Processes : At(q, "store") /\ Held(q).family = f
    <3>1. PICK q \in Processes : At(q, "store") /\ Held(q).family = f
      BY <2>2
    <3>2. CASE q = p
      BY <1>1, <3>1, <3>2
    <3>3. CASE q # p
      BY <1>2, <3>1, <3>3 DEF At
    <3> QED BY <3>2, <3>3
  <2> QED BY <2>1, <2>2 DEF IInv, Accounted
<1>7. InHand(p)' /\ FromFile(p)' /\ JustMinted(p)'
  BY <1>2 DEF InHand, FromFile, JustMinted, At, Busied, Locked
<1>8. FamiliesOf({token, m.held})' \cap live \subseteq Touched(p)
  BY <1>1 DEF FamiliesOf, Touched
<1>9. /\ \A q \in Processes : IsLive(Held(q))' /\ Held(q)' = Held(q) => IsLive(Held(q))
      /\ \A f \in live : f \in live' /\ turn'[f] = turn[f]
      /\ cut \cap live' \subseteq cut' /\ ~reused'
  BY <1>1 DEF IsLive
<1> QED BY <1>3, <1>4, <1>5, <1>6, <1>7, <1>8, <1>9, Together

(* The family in hand before the write, and the one that is overwritten.   *)
LEMMA Stores ==
    ASSUME IInv, NEW p \in Processes, Store(p) \/ (Busy(p) /\ At(p, "store"))
    PROVE  IInv'
<1>1. /\ TypeOK /\ At(p, "store") /\ proc[p].step \notin Locked /\ strays \subseteq live
      /\ Held(p).family \in live /\ ~Disabling(p)
  BY Bounds DEF Store, At, Locked, IInv, JustMinted, Disabling
<1>2. UNCHANGED <<decision, owed, slot, lock, live, turn, cut, reused>>
  BY DEF Store, Busy, files, server
<1>3. CASE /\ lock = Nobody /\ token' = Held(p) /\ UNCHANGED bounds
           /\ Finish(p) \/ Have(p, NoToken, "record")
           /\ strays' = (strays \cup LeftBehind' \cup IF IsLive(token) THEN {token.family} ELSE {})
  <2>1. \E m \in Memory : Become(p, m) /\ m.held = NoToken /\ m.step \in {"idle", "record"}
    BY <1>1, <1>3, Has, Ends, IdleIsMemory DEF Steps
  <2>2. PICK m \in Memory : Become(p, m) /\ m.held = NoToken /\ m.step \in {"idle", "record"}
    BY <2>1
  <2>3. m.step \notin Busied
    BY <2>2 DEF Busied, Locked
  <2>4. LeftBehind' \subseteq live
    BY <1>2 DEF LeftBehind, IsLive
  <2>5. strays' \subseteq live
    BY <1>1, <1>3, <2>4 DEF IsLive
  <2>6. Marked'
    BY <1>3, MarkedByStrays
  <2>7. UNCHANGED <<decisions, faults>>
    BY <1>3 DEF bounds
  <2> QED BY <1>1, <1>2, <1>3, <2>2, <2>3, <2>5, <2>6, <2>7, LetsDrop, Bounds
<1>4. CASE /\ Finish(p) /\ (Fault \/ UNCHANGED bounds) /\ UNCHANGED token
           /\ strays' = strays \cup {Held(p).family}
  <2>1. Become(p, Idle) /\ Idle \in Memory /\ Idle.held = NoToken /\ Idle.step \notin Busied
    BY <1>4, Ends, IdleIsMemory DEF Busied, Locked
  <2>2. decisions' \in 0 .. MaxDecisions /\ faults' \in 0 .. MaxFaults
    BY <1>1, <1>4, FaultCounts DEF bounds, TypeOK
  <2>3. Marked'
    <3>1. IsLive(token)' => IsLive(token) /\ token'.family = token.family
      BY <1>2, <1>4 DEF IsLive
    <3> QED BY <1>1, <1>2, <1>4, <2>1, <3>1, MarkedStays
  <2> QED BY <1>1, <1>2, <1>4, <2>1, <2>2, <2>3, LetsDrop, Bounds
<1> QED BY <1>1, <1>3, <1>4 DEF Store, Busy, files, At

(* A purge takes the file away, revoked or not.                            *)
LEMMA Purges ==
    ASSUME IInv, NEW p \in Processes, ApplyPurge(p)
    PROVE  IInv'
<1>1. /\ TypeOK /\ strays \subseteq live /\ proc[p].step \notin Locked /\ ~At(p, "store")
  BY Bounds DEF ApplyPurge, At, Locked
<1>2. /\ UNCHANGED <<lock, live, turn, cut, reused, decisions, faults>>
      /\ token' = NoToken /\ decision' = "undecided" /\ owed' = FALSE /\ slot' = FALSE
      /\ strays' = strays \cup IF IsLive(token) THEN {token.family} ELSE {}
  BY DEF ApplyPurge, server, bounds
<1>3. Become(p, Idle) /\ Idle \in Memory /\ Idle.held = NoToken /\ Idle.step \notin Busied
  BY Ends, IdleIsMemory DEF ApplyPurge, Busied, Locked
<1>4. strays' \subseteq live
  BY <1>1, <1>2 DEF IsLive
<1>5. Marked'
  BY <1>2 DEF Marked
<1> QED BY <1>1, <1>2, <1>3, <1>4, <1>5, LetsDrop, Bounds

(* A command is killed.                                                    *)
LEMMA Crashes ==
    ASSUME IInv, NEW p \in Processes, Crash(p)
    PROVE  IInv'
<1> DEFINE g == Held(p).family
<1>1. /\ TypeOK /\ strays \subseteq live /\ cut \subseteq live /\ ~reused
      /\ UNCHANGED <<token, decision, owed, slot, live, turn, reused>>
  BY Bounds DEF Crash, files, server, TypeOK, IInv
<1>2. /\ Become(p, Idle) /\ Idle \in Memory /\ Idle.held = NoToken /\ Idle.step \notin Busied
  BY Ends, IdleIsMemory DEF Crash, Busied, Locked
<1>3. decisions' \in 0 .. MaxDecisions /\ faults' \in 0 .. MaxFaults
  BY <1>1, FaultCounts DEF Crash
<1>4. LeftBehind' \subseteq live /\ LeftBehind' \subseteq strays' /\ strays \subseteq strays'
  BY <1>1 DEF Crash, LeftBehind, IsLive
<1>5. Marked'
  BY <1>4, MarkedByStrays
<1>6. CASE proc[p].step \in Locked
  <2>1. ~At(p, "store") /\ lock' = Nobody /\ strays' = strays \cup LeftBehind'
    BY <1>6, UnderTheLock DEF Crash, At, Locked
  <2>2. cut' \in {cut, cut \cup {g}} /\ cut' \subseteq live
        /\ (At(p, "persist") => g \in cut')
    BY <1>1 DEF Crash, IInv, FromFile
  <2>3. Current(token)'
    <3> SUFFICES ASSUME IsLive(token)'
                 PROVE  token'.turn = turn'[token'.family] \/ token'.family \in cut'
      BY DEF Current
    <3>1. token.family = g /\ \A q \in Processes \ {p} : ~At(q, "persist")
      BY <1>1, <1>6, UnderTheLock DEF IsLive, At, Locked
    <3>2. token.turn = turn[token.family] \/ token.family \in cut \/ At(p, "persist")
      BY <1>1, <3>1 DEF IInv, UpToDate, Current, IsLive
    <3> QED BY <1>1, <2>2, <3>1, <3>2
  <2>4. strays' \subseteq live'
    BY <1>1, <1>4, <2>1
  <2> QED BY <1>1, <1>2, <1>3, <1>4, <1>5, <1>6, <2>1, <2>2, <2>3, <2>4, LetsGo DEF TypeOK
<1>7. CASE proc[p].step \notin Locked
  <2>1. UNCHANGED <<cut, lock>>
    BY <1>1, <1>7 DEF Crash, At, Locked, TypeOK
  <2>2. At(p, "store") => g \in live /\ g \in strays'
    BY DEF Crash, IInv, JustMinted
  <2>3. strays' \subseteq live
    BY <1>1, <1>4, <2>2 DEF Crash
  <2> QED BY <1>1, <1>2, <1>3, <1>4, <1>5, <1>7, <2>1, <2>2, <2>3, LetsDrop, Bounds
<1> QED BY <1>6, <1>7

-----------------------------------------------------------------------------
(* The theorems.                                                           *)

LEMMA InitIInv == Init => IInv
<1> SUFFICES ASSUME Init PROVE IInv
  OBVIOUS
<1> USE AuthorizationAssumption
<1>1. /\ \A p \in Processes : proc[p] = Idle
      /\ live = {} /\ token = NoToken /\ decision = "undecided" /\ ~reused
  BY DEF Init
<1>2. TypeOK
  <2>1. /\ proc \in [Processes -> Memory]
        /\ \A p \in Processes : proc[p].step \in Locked <=> lock = p
    BY <1>1, IdleIsMemory DEF Init, Locked
  <2>2. /\ turn \in [Families -> 0 .. MaxRotations]
        /\ decisions \in 0 .. MaxDecisions /\ faults \in 0 .. MaxFaults
    BY DEF Init
  <2> QED BY <2>1, <2>2 DEF Init, TypeOK
<1>3. UpToDate /\ Accounted /\ Marked
  BY <1>1, IdleIsMemory DEF UpToDate, Current, IsLive, Accounted, Marked, At
<1>4. \A p \in Processes : InHand(p) /\ FromFile(p) /\ JustMinted(p)
  BY <1>1, IdleIsMemory DEF InHand, FromFile, JustMinted, At
<1> QED BY <1>1, <1>2, <1>3, <1>4 DEF IInv

LEMMA StutterIInv == IInv /\ UNCHANGED vars => IInv'
<1> SUFFICES ASSUME IInv, UNCHANGED vars
             PROVE  IInv'
  OBVIOUS
<1> USE DEF vars, files, server, ghosts, bounds
<1>1. TypeOK' /\ ~reused'
  BY DEF IInv, TypeOK
<1>2. UpToDate' /\ Accounted'
  BY DEF IInv, UpToDate, Current, Accounted, IsLive, At, Held
<1>3. Marked'
  BY DEF IInv, Marked, IsLive, Stopping, WillMark, Job, At
<1>4. \A p \in Processes : InHand(p)' /\ FromFile(p)' /\ JustMinted(p)'
  BY DEF IInv, InHand, FromFile, JustMinted, FamiliesOf, At, Held
<1> QED BY <1>1, <1>2, <1>3, <1>4 DEF IInv

\* What a process that redeems an assertion may see.
LEMMA Redeems ==
    ASSUME IInv, NEW p \in Processes, RedeemEnrollmentAssertion(p)
    PROVE  IInv'
<1>1. CASE \E f \in Unused :
              /\ Minted(f)
              /\ \/ /\ Have(p, [family |-> f, turn |-> 0], "store") /\ UNCHANGED <<ghosts, bounds>>
                 \/ /\ Fault /\ strays' = strays \cup {f} /\ Finish(p) /\ UNCHANGED <<cut, reused>>
  <2>1. PICK f \in Unused :
              /\ Minted(f)
              /\ \/ /\ Have(p, [family |-> f, turn |-> 0], "store") /\ UNCHANGED <<ghosts, bounds>>
                 \/ /\ Fault /\ strays' = strays \cup {f} /\ Finish(p) /\ UNCHANGED <<cut, reused>>
    BY <1>1
  <2>2. /\ At(p, "redeem") /\ UNCHANGED <<token, decision, owed, slot, lock, cut, reused>>
        /\ \/ /\ Have(p, [family |-> f, turn |-> 0], "store")
              /\ UNCHANGED <<strays, decisions, faults>>
           \/ Fault /\ strays' = strays \cup {f} /\ Finish(p)
    BY <2>1 DEF RedeemEnrollmentAssertion, files, ghosts, bounds
  <2> QED BY <2>1, <2>2, Mints
<1>2. CASE Finish(p) /\ UNCHANGED <<server, ghosts>>
  BY <1>2, NothingThere
<1> QED BY <1>1, <1>2 DEF RedeemEnrollmentAssertion

LEMMA StepIInv ==
    ASSUME IInv, NEW p \in Processes,
           \/ Continue(p) \/ Crash(p)
           \/ BeginOperator(p) \/ BeginEnroll(p) \/ BeginEnable(p) \/ BeginDisable(p)
           \/ BeginPurge(p) \/ BeginResume(p) \/ BeginFlush(p)
    PROVE  IInv'
<1>1. CASE Refresh(p)
  BY <1>1, NothingThere, Locks
<1>2. CASE Busy(p)
  BY <1>2, NothingThere, Stores
<1>3. CASE Spend(p)
  BY <1>3, Spends
<1>4. CASE Persist(p)
  BY <1>4, Persists
<1>5. CASE Revoke(p)
  BY <1>5, NothingThere, Locks
<1>6. CASE Post(p)
  BY <1>6, Posts
<1>7. CASE DeleteToken(p)
  BY <1>7, Deletes
<1>8. CASE SettleRetry(p) \/ Supersede(p)
  BY <1>8, SettleRetries
<1>9. CASE \/ Marker(p) \/ Poll(p) \/ SavePolled(p) \/ Gate(p) \/ WaitForApproval(p)
           \/ Record(p) \/ SaveStatus(p)
  BY <1>9, PlainSteps
<1>10. CASE RedeemEnrollmentAssertion(p)
  BY <1>10, Redeems
<1>11. CASE Store(p)
  BY <1>11, Stores
<1>12. CASE Decide(p)
  BY <1>12, Decides
<1>13. CASE Survey(p)
  BY <1>13, DisableSurveys
<1>14. CASE ClearEnrollment(p)
  BY <1>14, DisableClears
<1>15. CASE SettleDisable(p)
  BY <1>15, DisableSettles
<1>16. CASE ApplyPurge(p)
  BY <1>16, Purges
<1>17. CASE Crash(p)
  BY <1>17, Crashes
<1>18. CASE BeginDisable(p)
  BY <1>18, DisableBegins
<1>19. CASE \/ BeginOperator(p) \/ BeginEnroll(p) \/ BeginEnable(p) \/ BeginPurge(p)
            \/ BeginResume(p) \/ BeginFlush(p)
  BY <1>19, Beginnings
<1> QED BY <1>1, <1>2, <1>3, <1>4, <1>5, <1>6, <1>7, <1>8, <1>9, <1>10, <1>11, <1>12, <1>13,
           <1>14, <1>15, <1>16, <1>17, <1>18, <1>19 DEF Continue

(* The token file, the server's families, the marker and the processes      *)
(* stay in step: what is in hand under the lock is what is on file, a live *)
(* family is on file, on its way there or a stray, and while mining is off *)
(* what is on file is marked or will be.                                   *)
THEOREM CustodyInvariant == Spec => []IInv
<1>1. IInv /\ [Next]_vars => IInv'
  BY StepIInv, StutterIInv DEF Next
<1> QED BY InitIInv, <1>1, PTL DEF Spec

(* Whatever the commands, the faults and the kills, no family dies of a     *)
(* token two processes spent: reuse detection strikes only where a         *)
(* successor was lost on its way to the disk (refreshlock.go).             *)
THEOREM NeverReused == Spec => []NoReuse
<1>1. IInv => NoReuse
  BY DEF IInv, NoReuse
<1> QED BY CustodyInvariant, <1>1, PTL

(* A stop forgets no family: once every disable has come to its end, a live *)
(* family is marked to be revoked, in the hands of an enrollment, or one   *)
(* of the strays the source lets go of (mining.go).                        *)
THEOREM StopReaches == Spec => []StopReachesEveryFamily
<1>1. IInv => StopReachesEveryFamily
  <2> SUFFICES ASSUME IInv, decision = "off", \A u \in Persons : At(u, "idle"),
                      NEW f \in live, f \notin strays,
                      ~\E p \in Processes : At(p, "store") /\ Held(p).family = f
               PROVE  owed /\ token # NoToken /\ token.family = f
    BY DEF StopReachesEveryFamily
  <2>1. token # NoToken /\ token.family = f /\ IsLive(token)
    BY DEF IInv, Accounted, IsLive
  <2>2. ~Stopping /\ ~WillMark
    BY DEF Stopping, WillMark, At
  <2> QED BY <2>1, <2>2 DEF IInv, Marked
<1> QED BY CustodyInvariant, <1>1, PTL
=============================================================================
