----------------------------- MODULE Authorization -----------------------------
(***************************************************************************)
(* The renewable authorization of an installation and the decision to      *)
(* mine: the refresh token on file and its families at the authorization   *)
(* server, the decision, the marker of a revocation still owed, and the    *)
(* slot recorded in agent.json.  Commands of a person (mining enable,      *)
(* mining disable, enroll), connect -resume and flush act on them at the   *)
(* same time; only the token file has a lock of its own.  A confirmed      *)
(* uninstall -purge-state keeps connect and flush out, tries one           *)
(* revocation and removes the files whether or not it got through.         *)
(*                                                                         *)
(* The server is external: it mints a family for an assertion, exchanges   *)
(* the newest token of a live family for its successor, and kills a family *)
(* when a spent token of it is presented.                                  *)
(*                                                                         *)
(* Abstracted: the agent is claimed with the mining scope, one slot is     *)
(* offered and a server is configured; DPoP keys, access tokens and their  *)
(* expiry (a command may refresh at any time); a decision file that cannot *)
(* be read.  What a command reads in one go without a network call between *)
(* is read in one step.                                                    *)
(***************************************************************************)
EXTENDS Naturals, FiniteSets

CONSTANTS Persons,       \* terminals of the participant
          Resumes,       \* connect and connect -resume; connect.lock admits one
          Flushes,       \* flush; flush.lock admits one
          Nobody,        \* no process
          NoToken,       \* no refresh token
          MaxFamilies,   \* bound: families that exist at one time
          MaxRotations,  \* bound: exchanges of one family
          MaxDecisions,  \* bound: commands of a person
          MaxFaults      \* bound: requests and writes that fail or lose their answer, commands killed

Processes == Persons \cup Resumes \cup Flushes
Families  == 1 .. MaxFamilies
Tokens    == [family : Families, turn : 0 .. MaxRotations]

ASSUME AuthorizationAssumption ==
    /\ Persons \cap Resumes = {} /\ (Persons \cup Resumes) \cap Flushes = {}
    /\ Nobody \notin Processes /\ NoToken \notin Tokens
    /\ MaxFamilies \in Nat /\ MaxRotations \in Nat /\ MaxDecisions \in Nat
    /\ MaxFaults \in Nat

VARIABLES token,       \* refresh.token
          lock,        \* who holds refresh.token.lock
          decision,    \* mining_decision.json
          owed,        \* revoke_pending.json exists
          slot,        \* agent.json records an enrollment
          live,        \* the server's families that are not dead
          turn,        \* the newest token of each family
          proc,        \* the processes
          cut, strays, \* families whose successor was lost; families let go of alive
          reused,      \* a family died of a spent token with no loss to excuse it
          decisions, faults

server  == <<live, turn>>
files   == <<token, decision, owed, slot>>
ghosts  == <<cut, strays, reused>>
bounds  == <<decisions, faults>>
vars    == <<files, lock, server, proc, ghosts, bounds>>

Steps == {"idle", "marker", "revoke", "post", "delete", "settle", "refresh", "spend", "persist",
          "poll", "save", "gate", "approve", "redeem", "store", "record",
          "resave", "decide", "supersede", "survey", "clear", "purge"}
Jobs  == {"none", "resume", "flush", "enable", "disable", "enroll", "operator", "purge"}

\* held is the token a process has in memory; seen is whether the registration
\* it read records an enrollment, and in a disable whether nothing is left to revoke.
Memory == [step : Steps, job : Jobs, held : Tokens \cup {NoToken}, seen : BOOLEAN]
Idle   == [step |-> "idle", job |-> "none", held |-> NoToken, seen |-> FALSE]

\* The steps under the lock of the token file.
Locked == {"post", "delete", "spend", "persist"}

TypeOK ==
    /\ token \in Tokens \cup {NoToken}
    /\ lock \in Processes \cup {Nobody}
    /\ proc \in [Processes -> Memory]
    /\ \A p \in Processes : proc[p].step \in Locked <=> lock = p
    /\ decision \in {"undecided", "on", "off"}
    /\ owed \in BOOLEAN /\ slot \in BOOLEAN
    /\ live \subseteq Families /\ turn \in [Families -> 0 .. MaxRotations]
    /\ cut \subseteq live /\ strays \subseteq live /\ reused \in BOOLEAN
    /\ decisions \in 0 .. MaxDecisions /\ faults \in 0 .. MaxFaults

Init ==
    /\ token = NoToken /\ decision = "undecided" /\ owed = FALSE /\ slot = FALSE
    /\ lock = Nobody
    /\ live = {} /\ turn = [f \in Families |-> 0]
    /\ proc = [p \in Processes |-> Idle]
    /\ cut = {} /\ strays = {} /\ reused = FALSE
    /\ decisions = 0 /\ faults = 0

(***************************************************************************)
(* Helpers.                                                                *)
(***************************************************************************)
At(p, s)        == proc[p].step = s
Job(p)          == proc[p].job
Held(p)         == proc[p].held
Become(p, m)    == proc' = [proc EXCEPT ![p] = m]
Goto(p, s)      == Become(p, [proc[p] EXCEPT !.step = s])
Have(p, t, s)   == Become(p, [proc[p] EXCEPT !.held = t, !.step = s])
Finish(p)       == Become(p, Idle)
Unlock          == lock' = Nobody
Fault           == faults < MaxFaults /\ faults' = faults + 1 /\ UNCHANGED decisions
IsLive(t)       == t # NoToken /\ t.family \in live
FamiliesOf(T)   == {t.family : t \in T \ {NoToken}}
InMemory        == {Held(p) : p \in Processes}

\* mining_decision.json, and the marker of a revocation the server did not confirm.
SaveMiningEnabled(enabled) == decision' = IF enabled THEN "on" ELSE "off"
SaveRevokePending(pending) == owed' = pending
ClearRevokePending         == SaveRevokePending(FALSE)

\* A process that is done with revoking goes on with its command.  Only mining
\* disable needs to know whether it succeeded; a purge goes on whatever it was.
AfterRevocation(p, done) ==
    \/ /\ Job(p) = "disable"
       /\ Become(p, [Idle EXCEPT !.job = "disable", !.step = "settle", !.seen = done])
    \/ Job(p) = "purge" /\ Have(p, NoToken, "purge")
    \/ Job(p) \notin {"disable", "purge"} /\ done /\ Have(p, NoToken, "settle")
    \/ Job(p) = "resume" /\ ~done /\ Have(p, NoToken, "poll")
    \/ Job(p) \notin {"disable", "purge", "resume"} /\ ~done /\ Finish(p)

-----------------------------------------------------------------------------
(* Refresh: the whole cycle under the lock of the token file.              *)

\* lockRefreshToken, and the token it protects.
LockAndLoad(p, next) ==
    /\ lock = Nobody /\ lock' = p
    /\ Have(p, token, next)

\* Mutant: the token is read before the lock is taken.
LoadUnlocked(p) ==
    /\ At(p, "refresh")
    /\ \/ Held(p) = NoToken /\ token # NoToken /\ Have(p, token, "refresh") /\ UNCHANGED lock
       \/ Held(p) # NoToken /\ lock = Nobody /\ lock' = p /\ Goto(p, "spend")
       \/ token = NoToken /\ Finish(p) /\ UNCHANGED lock
    /\ UNCHANGED <<files, server, ghosts, bounds>>

Refresh(p) ==
    /\ At(p, "refresh")
    /\ \/ token # NoToken /\ LockAndLoad(p, "spend")
       \/ token = NoToken /\ Finish(p) /\ UNCHANGED lock
    /\ UNCHANGED <<files, server, ghosts, bounds>>

\* The lock is held elsewhere until the wait expires.
Busy(p) ==
    /\ lock \notin {Nobody, p}
    /\ \/ At(p, "refresh") /\ Finish(p) /\ UNCHANGED strays
       \/ At(p, "revoke") /\ AfterRevocation(p, FALSE) /\ UNCHANGED strays
       \/ At(p, "store") /\ Finish(p) /\ strays' = strays \cup {Held(p).family}
    /\ UNCHANGED <<files, lock, server, cut, reused, bounds>>

Newest(t)    == IsLive(t) /\ t.turn = turn[t.family]
Successor(t) == [t EXCEPT !.turn = t.turn + 1]
Rotated(t)   == turn' = [turn EXCEPT ![t.family] = t.turn + 1] /\ UNCHANGED live
Dies(f)      == 
    /\ live' = live \ {f} /\ turn' = [turn EXCEPT ![f] = 0]
    /\ cut' = cut \ {f} /\ strays' = strays \ {f}

\* The refresh-token exchange.
Spend(p) ==
    /\ At(p, "spend")
    /\ LET t == Held(p) IN
       \/ /\ Newest(t) /\ t.turn < MaxRotations
          /\ Rotated(t) /\ Have(p, Successor(t), "persist")
          /\ UNCHANGED <<lock, ghosts, bounds>>
       \/ /\ Newest(t) /\ t.turn < MaxRotations     \* the answer is lost
          /\ Rotated(t) /\ cut' = cut \cup {t.family} /\ Fault
          /\ Finish(p) /\ Unlock /\ UNCHANGED <<strays, reused>>
       \/ /\ IsLive(t) /\ ~Newest(t)                \* a spent token: the family dies
          /\ Dies(t.family) /\ reused' = (reused \/ t.family \notin cut)
          /\ Finish(p) /\ Unlock /\ UNCHANGED bounds
       \/ /\ ~IsLive(t) \/ t.turn = MaxRotations    \* refused; or the bound
          /\ Finish(p) /\ Unlock /\ UNCHANGED <<server, ghosts, bounds>>
       \/ /\ Newest(t) /\ Fault
          /\ Finish(p) /\ Unlock /\ UNCHANGED <<server, ghosts>>
    /\ UNCHANGED files

\* The successor is on disk before anyone sees it.
Persist(p) ==
    /\ At(p, "persist")
    /\ \/ token' = Held(p) /\ UNCHANGED <<cut, bounds>>
       \/ Fault /\ cut' = cut \cup {Held(p).family} /\ UNCHANGED token
    /\ Finish(p) /\ Unlock
    /\ UNCHANGED <<decision, owed, slot, server, strays, reused>>

-----------------------------------------------------------------------------
(* Revoke, and the two places a revocation still owed is retried.          *)

Revoke(p) ==
    /\ At(p, "revoke")
    /\ \/ token # NoToken /\ LockAndLoad(p, "post")
       \/ token = NoToken /\ lock = Nobody /\ AfterRevocation(p, TRUE) /\ UNCHANGED lock
    /\ UNCHANGED <<files, server, ghosts, bounds>>

\* The server answers 200 for a token that is already invalid too.
Post(p) ==
    /\ At(p, "post")
    /\ \/ /\ Dies(Held(p).family) /\ Goto(p, "delete")
          /\ UNCHANGED <<lock, reused, bounds>>
       \/ /\ Fault /\ AfterRevocation(p, FALSE) /\ Unlock
          /\ \/ Dies(Held(p).family) /\ UNCHANGED reused
             \/ UNCHANGED <<server, ghosts>>
    /\ UNCHANGED files

\* Only a revocation the server confirmed removes the token.
DeleteToken(p) ==
    /\ At(p, "delete")
    /\ \/ token' = NoToken /\ AfterRevocation(p, TRUE) /\ UNCHANGED bounds
       \/ Fault /\ AfterRevocation(p, FALSE) /\ UNCHANGED token
    /\ Unlock
    /\ UNCHANGED <<decision, owed, slot, server, ghosts>>

\* The marker of retryPendingRevoke, read by a flush while mining is off.
Marker(p) ==
    /\ At(p, "marker")
    /\ \/ owed /\ Goto(p, "revoke")
       \/ ~owed /\ Finish(p)
    /\ UNCHANGED <<files, lock, server, ghosts, bounds>>

\* A disable that will still look at the token file.
Stopping == \E u \in Persons :
    /\ Job(u) = "disable"
    /\ At(u, "survey") \/ At(u, "revoke") \/ (At(u, "clear") /\ ~proc[u].seen)

\* A live family that nothing on disk says to revoke, although mining is off.
LeftBehind == IF decision = "off" /\ ~Stopping /\ IsLive(token) THEN {token.family} ELSE {}

\* Mutant: a retry that succeeded leaves the marker.
SettleRetryUnmarked(p) ==
    /\ At(p, "settle") /\ Job(p) # "disable"
    /\ IF Job(p) = "resume" THEN Goto(p, "poll") ELSE Finish(p)
    /\ UNCHANGED <<files, lock, server, ghosts, bounds>>

\* ClearRevokePending after a retry.
SettleRetry(p) ==
    /\ At(p, "settle") /\ Job(p) # "disable"
    /\ ClearRevokePending /\ strays' = strays \cup LeftBehind
    /\ IF Job(p) = "resume" THEN Goto(p, "poll") ELSE Finish(p)
    /\ UNCHANGED <<token, decision, slot, lock, server, cut, reused, bounds>>

-----------------------------------------------------------------------------
(* Enrollment: pollOnce, shared by connect, connect -resume and mining      *)
(* enable, of which only the first two hold connect.lock.                   *)

\* The registration is read again before it is changed; then the platform is asked.
Poll(p) ==
    /\ At(p, "poll")
    /\ \/ Become(p, [proc[p] EXCEPT !.seen = slot, !.step = "save"]) /\ UNCHANGED bounds
       \/ Fault /\ Finish(p)
    /\ UNCHANGED <<files, lock, server, ghosts>>

\* While mining is on, an address that is not settled is declared, which takes
\* an access token of this process's own.
Enrolled(p) == Finish(p) \/ (decision = "on" /\ Goto(p, "refresh"))

\* The whole record is written back with the status the platform gave.
SavePolled(p) ==
    /\ At(p, "save")
    /\ slot' = proc[p].seen
    /\ \/ proc[p].seen /\ Enrolled(p)
       \/ ~proc[p].seen /\ Goto(p, "gate")
    /\ UNCHANGED <<token, decision, owed, lock, server, ghosts, bounds>>

\* The platform mints an assertion for this agent and slot, or does not.
Enroll(p) ==
    \/ Goto(p, "redeem") /\ UNCHANGED bounds
    \/ Fault /\ Finish(p)

\* The local decision comes first.
Gate(p) ==
    /\ At(p, "gate")
    /\ \/ decision = "on" /\ Enroll(p)
       \/ decision # "on" /\ Finish(p) /\ UNCHANGED bounds
    /\ UNCHANGED <<files, lock, server, ghosts>>

Unused   == Families \ (live \cup FamiliesOf({token} \cup InMemory))
Minted(f) == live' = live \cup {f} /\ turn' = [turn EXCEPT ![f] = 0]

\* The browser's callback or the device's code: the participant approves, refuses or
\* walks away, and the first answer that carries this session's state counts.
WaitForApproval(p) ==
    /\ At(p, "approve")
    /\ Goto(p, "redeem") \/ Finish(p)
    /\ UNCHANGED <<files, lock, server, ghosts, bounds>>

\* The assertion, or what was approved, is spent; the answer may be lost.
RedeemEnrollmentAssertion(p) ==
    /\ At(p, "redeem")
    /\ \/ \E f \in Unused :
            /\ \A g \in Unused : f <= g
            /\ Minted(f)
            /\ \/ /\ Have(p, [family |-> f, turn |-> 0], "store")
                  /\ UNCHANGED <<ghosts, bounds>>
               \/ /\ Fault /\ strays' = strays \cup {f} /\ Finish(p)
                  /\ UNCHANGED <<cut, reused>>
       \/ Fault /\ Finish(p) /\ UNCHANGED <<server, ghosts>>
       \/ Unused = {} /\ Finish(p) /\ UNCHANGED <<server, ghosts, bounds>>    \* bound
    /\ UNCHANGED <<files, lock>>

\* Mutant: the write does not wait for the lock.
StoreUnlocked(p) ==
    /\ At(p, "store")
    /\ UNCHANGED <<decision, owed, slot, lock, server, cut, reused>>
    /\ \/ /\ token' = Held(p) /\ UNCHANGED bounds
          /\ IF Job(p) = "enroll" THEN Finish(p) ELSE Have(p, NoToken, "record")
          /\ strays' = (strays \cup LeftBehind' \cup IF IsLive(token) THEN {token.family} ELSE {})
       \/ Fault /\ strays' = strays \cup {Held(p).family} /\ Finish(p) /\ UNCHANGED token

\* persistLocked: the lock is taken for the write alone.
Store(p) ==
    /\ At(p, "store") /\ lock = Nobody
    /\ UNCHANGED <<decision, owed, slot, lock, server, cut, reused>>
    /\ \/ /\ token' = Held(p) /\ UNCHANGED bounds
          /\ IF Job(p) = "enroll" THEN Finish(p) ELSE Have(p, NoToken, "record")
          /\ strays' = (strays \cup LeftBehind' \cup IF IsLive(token) THEN {token.family} ELSE {})
       \/ Fault /\ strays' = strays \cup {Held(p).family} /\ Finish(p) /\ UNCHANGED token

\* Enrolled: the record may fail to be written.
Record(p) ==
    /\ At(p, "record")
    /\ \/ slot' = TRUE /\ Enrolled(p) /\ UNCHANGED bounds
       \/ Fault /\ Finish(p) /\ UNCHANGED slot
    /\ UNCHANGED <<token, decision, owed, lock, server, ghosts>>

-----------------------------------------------------------------------------
(* The commands of a person.                                                *)

Command(p, kind, first, known) ==
    /\ p \in Persons /\ At(p, "idle")
    /\ decisions < MaxDecisions /\ decisions' = decisions + 1
    /\ Become(p, [Idle EXCEPT !.job = kind, !.step = first, !.seen = known])
    /\ UNCHANGED faults

\* What an operator command needs of the installation: a client of its own.
MiningClients(p, kind, first) ==
    /\ Command(p, kind, first, FALSE)
    /\ UNCHANGED <<files, lock, server, ghosts>>

\* join and provider (and payout and status) first take an access token.
BeginOperator(p) == MiningClients(p, "operator", "refresh")

\* enroll: the assertion, browser and device doors all end in persistLocked.
BeginEnroll(p) == \E door \in {"redeem", "approve"} : MiningClients(p, "enroll", door)

\* mining enable reads the registration, asks the platform, saves what it said ...
BeginEnable(p) ==
    /\ Command(p, "enable", "resave", slot)
    /\ UNCHANGED <<files, lock, server, ghosts>>

SaveStatus(p) ==
    /\ At(p, "resave")
    /\ slot' = proc[p].seen \/ UNCHANGED slot
    /\ Become(p, [proc[p] EXCEPT !.seen = FALSE, !.step = "decide"])
    /\ UNCHANGED <<token, decision, owed, lock, server, ghosts, bounds>>

\* ... and asks the participant, who may also say no.
Decide(p) ==
    /\ At(p, "decide")
    /\ UNCHANGED <<token, owed, slot, lock, server, cut, reused, bounds>>
    /\ \/ SaveMiningEnabled(TRUE) /\ Goto(p, "supersede") /\ UNCHANGED strays
       \/ SaveMiningEnabled(FALSE) /\ Finish(p) /\ strays' = strays \cup LeftBehind'

\* The family to come supersedes the one still owed.
Supersede(p) ==
    /\ At(p, "supersede")
    /\ ClearRevokePending /\ strays' = strays \cup LeftBehind
    /\ Goto(p, "poll")
    /\ UNCHANGED <<token, decision, slot, lock, server, cut, reused, bounds>>

\* mining disable stops first, whatever else is true.
BeginDisable(p) ==
    /\ Command(p, "disable", "survey", FALSE)
    /\ SaveMiningEnabled(FALSE)
    /\ UNCHANGED <<token, owed, slot, lock, server, ghosts>>

\* What there is to stop: seen says that no authorization is on file.
Survey(p) ==
    /\ At(p, "survey")
    /\ IF token = NoToken /\ ~owed /\ ~slot
       THEN Finish(p)
       ELSE Become(p, [proc[p] EXCEPT !.seen = token = NoToken, !.step = "clear"])
    /\ UNCHANGED <<files, lock, server, ghosts, bounds>>

ClearEnrollment(p) ==
    /\ At(p, "clear")
    /\ slot' = FALSE
    /\ Goto(p, IF proc[p].seen THEN "settle" ELSE "revoke")
    /\ UNCHANGED <<token, decision, owed, lock, server, ghosts, bounds>>

\* seen says that nothing is left to revoke, as it was found before another disable
\* may have left its mark.
SettleDisable(p) ==
    /\ At(p, "settle") /\ Job(p) = "disable"
    /\ SaveRevokePending(~proc[p].seen)
    /\ Finish(p)
    /\ UNCHANGED <<token, decision, slot, lock, server, cut, reused, bounds>>
    /\ strays' = strays \cup (IF proc[p].seen THEN LeftBehind' ELSE {})

\* A confirmed purge holds the gate and the operation locks: no connect and no flush
\* is under way, and none begins.
Purging == \E u \in Persons : Job(u) = "purge"

BeginPurge(p) ==
    /\ \A q \in Resumes \cup Flushes : At(q, "idle")
    /\ Command(p, "purge", IF token = NoToken THEN "purge" ELSE "revoke", FALSE)
    /\ UNCHANGED <<files, lock, server, ghosts>>

\* The state directory goes, whether or not the one revocation got through.
ApplyPurge(p) ==
    /\ At(p, "purge")
    /\ token' = NoToken /\ decision' = "undecided" /\ owed' = FALSE /\ slot' = FALSE
    /\ strays' = strays \cup IF IsLive(token) THEN {token.family} ELSE {}
    /\ Finish(p)
    /\ UNCHANGED <<lock, server, cut, reused, bounds>>

-----------------------------------------------------------------------------
(* connect -resume and flush.                                               *)

\* What a search starts a resume for.
ShouldResume == owed \/ (~slot /\ decision = "on")

BeginResume(p) ==
    /\ p \in Resumes /\ ~Purging /\ \A q \in Resumes : At(q, "idle")
    /\ Become(p, [Idle EXCEPT !.job = "resume", !.step = IF owed THEN "revoke" ELSE "poll"])
    /\ UNCHANGED <<files, lock, server, ghosts, bounds>>

BeginFlush(p) ==
    /\ p \in Flushes /\ ~Purging /\ \A q \in Flushes : At(q, "idle")
    /\ decision = "off" \/ (decision = "on" /\ token # NoToken)
    /\ Become(p, [Idle EXCEPT !.job = "flush",
                              !.step = IF decision = "off" THEN "marker" ELSE "refresh"])
    /\ UNCHANGED <<files, lock, server, ghosts, bounds>>

\* A command is killed; the system lets go of its lock.
Crash(p) ==
    /\ ~At(p, "idle") /\ Fault
    /\ cut' = IF At(p, "persist") THEN cut \cup {Held(p).family} ELSE cut
    /\ lock' = IF lock = p THEN Nobody ELSE lock
    /\ Finish(p)
    /\ UNCHANGED <<files, server, reused>>
    /\ strays' = (strays \cup LeftBehind' \cup IF At(p, "store") THEN {Held(p).family} ELSE {})

Continue(p) ==
    \/ Refresh(p) \/ Busy(p) \/ Spend(p) \/ Persist(p)
    \/ Revoke(p) \/ Post(p) \/ DeleteToken(p) \/ Marker(p) \/ SettleRetry(p)
    \/ Poll(p) \/ SavePolled(p) \/ Gate(p) \/ WaitForApproval(p) \/ RedeemEnrollmentAssertion(p) \/ Store(p) \/ Record(p)
    \/ SaveStatus(p) \/ Decide(p) \/ Supersede(p)
    \/ Survey(p) \/ ClearEnrollment(p) \/ SettleDisable(p) \/ ApplyPurge(p)

Next == \E p \in Processes :
    \/ Continue(p) \/ Crash(p)
    \/ BeginOperator(p) \/ BeginEnroll(p) \/ BeginEnable(p) \/ BeginDisable(p) \/ BeginPurge(p)
    \/ BeginResume(p) \/ BeginFlush(p)

Spec == Init /\ [][Next]_vars

\* A command that started goes on; searches keep starting flushes, and a resume
\* whenever one is called for.
Fairness ==
    /\ \A p \in Processes : WF_vars(Continue(p))
    /\ \A p \in Flushes : WF_vars(BeginFlush(p))
    /\ \A p \in Resumes : WF_vars(ShouldResume /\ BeginResume(p))

FairSpec == Spec /\ Fairness

-----------------------------------------------------------------------------
(* What refreshlock.go and mining.go promise.                               *)

\* A family never dies of a spent token unless its successor was lost on the
\* way to the disk (a crash, a lost answer or a failed write): two processes
\* never spend the same token. Typing is part of it: every token on file, in hand
\* or marked is one the server minted.
NoReuse == TypeOK /\ ~reused

\* When a disable has come to an end, a live family is on file and marked to be
\* revoked, or in the hands of an enrollment, or one of the strays: minted with
\* the answer lost, overwritten on file, stored after the stop, let go of by a
\* retry or another disable that settled another family, or left by a command
\* that was killed.
StopReachesEveryFamily ==
    decision = "off" /\ (\A u \in Persons : At(u, "idle")) =>
        \A f \in live : \/ f \in strays
                        \/ owed /\ token # NoToken /\ token.family = f
                        \/ \E p \in Processes : At(p, "store") /\ Held(p).family = f

\* While mining stays off, a revocation still owed is settled in the end, by a
\* flush or by a resume.
RevocationCompletes == (owed /\ decision = "off") ~> (~owed \/ decision = "on")

\* A retry never kills the family of an installation that is enrolled and mines:
\* mining enable clears the marker before the new family is minted, so that it
\* does not survive "to be retried against the new one" (ClearRevokePending).
RetrySparesTheNew ==
    [][\A p \in Processes : At(p, "post") /\ At(p, "delete")' /\ Job(p) # "disable"
                              => ~(decision = "on" /\ slot)]_vars
=============================================================================
