------------------------------- MODULE Onboarding -------------------------------
(***************************************************************************)
(* The identity of an installation at the search platform: the agent that  *)
(* connect registers, the journal between the platform's answer and the    *)
(* two files that publish it (registration_pending.json, credentials.json, *)
(* agent.json), its expiry and replacement, its recovery from the key      *)
(* alone, and the declaration of a payout address once it is claimed.      *)
(*                                                                         *)
(* connect and connect -resume hold connect.lock.  mining enable, login    *)
(* and payout set change the same state and hold nothing.  The platform is *)
(* external, and so is the authorization server's record of addresses.     *)
(*                                                                         *)
(* Abstracted: an agent and its key are one number; claim links, names,    *)
(* scopes and intervals; the machine mode of connect, which only refuses   *)
(* earlier; mining is on and enrolled once an agent is claimed (that part  *)
(* of a poll is Authorization).  Files that are read in one go without a   *)
(* call between are read in one step.                                      *)
(***************************************************************************)
EXTENDS Naturals, FiniteSets

CONSTANTS Connects,    \* connect at a terminal, or inside a setup
          Resumes,     \* connect -resume, started by a search
          Enables,     \* mining enable
          Nobody,      \* no process
          Addresses, NoAddress,
          MaxAgents,   \* bound: agents the platform ever mints
          MaxFaults,   \* bound: requests and writes that fail, commands killed, files damaged
          MaxActs      \* bound: logins, forced connects, mining enables, addresses put in force, agents removed

Processes == Connects \cup Resumes \cup Enables
Agents    == 1 .. MaxAgents
None      == 0                  \* no agent, no key
Stranger  == MaxAgents + 1      \* a key that login stored and no agent has
Damaged   == MaxAgents + 2      \* a credentials file that cannot be trusted
Keys      == Agents \cup {Stranger}

ASSUME OnboardingAssumption ==
    /\ Connects \cap Resumes = {} /\ (Connects \cup Resumes) \cap Enables = {}
    /\ Nobody \notin Processes /\ NoAddress \notin Addresses
    /\ MaxAgents \in Nat /\ MaxFaults \in Nat /\ MaxActs \in Nat

VARIABLES platform,      \* the status of each agent at the platform
          credentials,   \* the key in credentials.json
          registration,  \* agent.json
          backup,        \* agent.json.corrupt exists
          pending,       \* registration_pending.json
          lock,          \* who holds connect.lock
          proc,          \* the processes
          payout,        \* payout.json
          declared,      \* payout_declared.json
          active,        \* the address in force at the authorization server
          orphans,       \* agents minted whose answer or journal was lost
          givenUp,       \* agents whose key a person replaced or removed
          crossed,       \* a command acted on what another one had replaced meanwhile
          inForce,       \* addresses that ever were in force
          faults, acts

identity == <<credentials, registration, backup, pending>>
payouts  == <<payout, declared, active, inForce>>
ghosts   == <<orphans, givenUp, crossed>>
bounds   == <<faults, acts>>
vars     == <<platform, identity, lock, proc, payouts, ghosts, bounds>>

Live   == {"unclaimed", "claimed"}
Usable == Live \cup {"expired"}
Steps  == {"idle", "load", "me", "preserve", "rebuild", "ask", "verify", "decide", "register",
           "journal", "credential", "record", "confirm", "clear", "key", "poll", "save",
           "standing", "declare", "note", "look", "resave", "choose"}

Record  == [agent : 0 .. MaxAgents, status : Usable \cup {"absent", "damaged"}]
Journal == [agent : 0 .. MaxAgents, old : 0 .. MaxAgents]
Absent  == [agent |-> None, status |-> "absent"]
NoJournal == [agent |-> None, old |-> None]

\* A process has in memory the record it works on, the key it uses, the expired
\* agent it replaces (whose key is that agent's own), and an address.
Memory == [step : Steps, force : BOOLEAN, record : Record, key : 0 .. Stranger,
           old : 0 .. MaxAgents, address : Addresses \cup {NoAddress}, ended : {"", "ok", "failed"}]
Idle   == [step |-> "idle", force |-> FALSE, record |-> Absent, key |-> None,
           old |-> None, address |-> NoAddress, ended |-> ""]

TypeOK ==
    /\ platform \in [Agents -> Usable \cup {"none", "gone"}]
    /\ credentials \in 0 .. Damaged
    /\ registration \in Record /\ backup \in BOOLEAN
    /\ pending \in Journal
    /\ lock \in Connects \cup Resumes \cup {Nobody}
    /\ proc \in [Processes -> Memory]
    /\ lock # Nobody => proc[lock].step # "idle"
    /\ payout \in Addresses \cup {NoAddress} /\ declared \in Addresses \cup {NoAddress}
    /\ active \in Addresses \cup {NoAddress} /\ inForce \subseteq Addresses
    /\ orphans \subseteq Agents /\ givenUp \subseteq Agents /\ crossed \in BOOLEAN
    /\ faults \in 0 .. MaxFaults /\ acts \in 0 .. MaxActs

Fresh ==
    /\ credentials = None /\ registration = Absent /\ backup = FALSE /\ pending = NoJournal
    /\ platform = [a \in Agents |-> "none"]

Quiet ==
    /\ lock = Nobody /\ proc = [p \in Processes |-> Idle]
    /\ payout = NoAddress /\ declared = NoAddress /\ active = NoAddress /\ inForce = {}
    /\ orphans = {} /\ givenUp = {} /\ crossed = FALSE
    /\ faults = 0 /\ acts = 0

Init == Fresh /\ Quiet

(***************************************************************************)
(* Helpers.                                                                *)
(***************************************************************************)
At(p, s)      == proc[p].step = s
Mine(p)       == proc[p].record
Resuming(p)   == p \in Resumes
Become(p, m)  == proc' = [proc EXCEPT ![p] = m]
Goto(p, s)    == Become(p, [proc[p] EXCEPT !.step = s])
Hold(p, r, s) == Become(p, [proc[p] EXCEPT !.record = r, !.step = s])
Exit(p, code) ==
    /\ Become(p, [Idle EXCEPT !.ended = IF p \in Connects THEN code ELSE ""])
    /\ lock' = IF lock = p THEN Nobody ELSE lock
Fault         == faults < MaxFaults /\ faults' = faults + 1 /\ UNCHANGED acts
Act           == acts < MaxActs /\ acts' = acts + 1 /\ UNCHANGED faults
Fail(p)       == Exit(p, "failed")

\* What the platform answers about agent a to whoever presents key k.
Answer(a, k) == IF a \in Agents /\ k = a THEN platform[a] ELSE "gone"
Known(a, k)  == Answer(a, k) \in Usable

\* credentials.json holds something platformKey can read.
HasKey == credentials \in Keys

\* A command that did not lock connect out writes a record of another agent than
\* the one the files are about.
Crosses(p) ==
    crossed' = (crossed \/ Mine(p).agent # IF registration.agent = None THEN credentials
                                           ELSE registration.agent)

-----------------------------------------------------------------------------
(* connectRun: what is on file decides where it begins.                    *)

Begin(p) ==
    /\ p \in Connects \cup Resumes /\ At(p, "idle") /\ lock = Nobody /\ lock' = p
    /\ \/ Become(p, [Idle EXCEPT !.step = "load"]) /\ UNCHANGED bounds
       \/ p \in Connects /\ Act /\ Become(p, [Idle EXCEPT !.step = "load", !.force = TRUE])
    /\ UNCHANGED <<platform, identity, payouts, ghosts>>

\* Mutant: the journal does not say which agent it replaces.
RecoverAnew(p) ==
    /\ At(p, "load") /\ pending # NoJournal
    /\ Become(p, [proc[p] EXCEPT !.record = [agent |-> pending.agent, status |-> "unclaimed"],
                                 !.force = FALSE, !.step = "credential"])
    /\ UNCHANGED <<platform, identity, lock, payouts, ghosts, bounds>>

\* A journal is finished before anything else is looked at, and without -force.
Recover(p) ==
    /\ At(p, "load") /\ pending # NoJournal
    /\ Become(p, [proc[p] EXCEPT !.record = [agent |-> pending.agent, status |-> "unclaimed"],
                                 !.old = pending.old, !.force = FALSE, !.step = "credential"])
    /\ UNCHANGED <<platform, identity, lock, payouts, ghosts, bounds>>

\* Where a record on file leads.
After(p, r) ==
    CASE r.status = "expired"   -> IF Resuming(p) THEN "leave" ELSE "verify"
      [] r.status = "unclaimed" -> IF Resuming(p) THEN "key" ELSE "ask"
      [] OTHER                  -> "key"

Load(p) ==
    /\ At(p, "load") /\ pending = NoJournal /\ registration.status \in Usable
    /\ IF After(p, registration) = "leave"
       THEN Exit(p, "ok")
       ELSE Hold(p, registration, After(p, registration)) /\ UNCHANGED lock
    /\ UNCHANGED <<platform, identity, payouts, ghosts, bounds>>

\* Mutant: a key on file does not keep connect from registering anew.
LoadNothingForced(p) ==
    /\ At(p, "load") /\ pending = NoJournal /\ registration.status \notin Usable
    /\ IF Resuming(p) THEN Exit(p, "ok") ELSE Goto(p, "decide") /\ UNCHANGED lock
    /\ UNCHANGED <<platform, identity, payouts, ghosts, bounds>>

\* No usable record: a readable key is asked whose it is; preflightFreshRegistration
\* lets a new registration begin only when there is none, or it is to be replaced.
LoadNothing(p) ==
    /\ At(p, "load") /\ pending = NoJournal /\ registration.status \notin Usable
    /\ \/ Resuming(p) /\ Exit(p, "ok")
       \/ /\ ~Resuming(p) /\ HasKey /\ ~proc[p].force
          /\ Become(p, [proc[p] EXCEPT !.record = registration, !.key = credentials, !.step = "me"])
          /\ UNCHANGED lock
       \/ /\ ~Resuming(p) /\ (credentials = None \/ (HasKey /\ proc[p].force))
          /\ Goto(p, "decide") /\ UNCHANGED lock
       \/ ~Resuming(p) /\ credentials = Damaged /\ Fail(p)
    /\ UNCHANGED <<platform, identity, payouts, ghosts, bounds>>

-----------------------------------------------------------------------------
(* Rebuilding the record from the key, GET /v1/agents/me.                   *)

Me(p) ==
    /\ At(p, "me")
    /\ LET k == proc[p].key IN
       \/ /\ Known(k, k)
          /\ Hold(p, [agent |-> k, status |-> platform[k]],
                  IF Mine(p).status = "damaged" THEN "preserve" ELSE "rebuild")
          /\ UNCHANGED <<lock, bounds>>
       \/ ~Known(k, k) /\ Fail(p) /\ UNCHANGED bounds
       \/ Fault /\ Fail(p)
    /\ UNCHANGED <<platform, identity, payouts, ghosts>>

\* PreserveCorruptAgentRegistration: one piece of evidence is kept, never replaced.
Preserved == registration.status = "damaged" /\ ~backup /\ backup' = TRUE /\ registration' = Absent

Preserve(p) ==
    /\ At(p, "preserve")
    /\ \/ Preserved /\ Goto(p, "rebuild") /\ UNCHANGED lock
       \/ ~(registration.status = "damaged" /\ ~backup) /\ Fail(p) /\ UNCHANGED <<registration, backup>>
    /\ UNCHANGED <<platform, credentials, pending, payouts, ghosts, bounds>>

\* An unclaimed agent whose link the platform does not serve ends the run.
Rebuild(p) ==
    /\ At(p, "rebuild")
    /\ \/ /\ registration' = Mine(p) /\ UNCHANGED bounds
          /\ \/ Goto(p, After(p, Mine(p))) /\ UNCHANGED lock
             \/ Mine(p).status = "unclaimed" /\ Exit(p, "ok")
       \/ Fault /\ Fail(p) /\ (registration' = Mine(p) \/ UNCHANGED registration)
    /\ UNCHANGED <<platform, credentials, backup, pending, payouts, ghosts>>

-----------------------------------------------------------------------------
(* A registration that expired is replaced only on the platform's word.     *)

\* An unclaimed agent is asked about first; any trouble leaves it to the poll.
Ask(p) ==
    /\ At(p, "ask")
    /\ LET dead == [Mine(p) EXCEPT !.status = "expired"] IN
       \/ /\ Answer(Mine(p).agent, credentials) = "expired"
          /\ registration' = dead /\ Hold(p, dead, "verify") /\ UNCHANGED <<lock, bounds>>
       \/ /\ Answer(Mine(p).agent, credentials) = "expired" /\ Fault
          /\ (registration' = dead \/ UNCHANGED registration) /\ Fail(p)
       \/ Goto(p, "key") /\ UNCHANGED <<registration, lock, bounds>>
    /\ UNCHANGED <<platform, credentials, backup, pending, payouts, ghosts>>

Verify(p) ==
    /\ At(p, "verify")
    /\ LET a == Mine(p).agent
           s == Answer(a, credentials)
           now == [Mine(p) EXCEPT !.status = s]
       IN \/ /\ s = "expired"
             /\ Become(p, [proc[p] EXCEPT !.old = a, !.step = "decide"])
             /\ UNCHANGED <<registration, lock, bounds>>
          \/ /\ s \in Live /\ registration' = now
             /\ Hold(p, now, "key") /\ UNCHANGED <<lock, bounds>>
          \/ s = "gone" /\ Fail(p) /\ UNCHANGED <<registration, bounds>>
          \/ Fault /\ Fail(p) /\ UNCHANGED registration
    /\ UNCHANGED <<platform, credentials, backup, pending, payouts, ghosts>>

-----------------------------------------------------------------------------
(* Registration: decision, platform, journal, the two files, journal gone.  *)

\* The participant is asked about mining, and may leave without an answer.
Decide(p) ==
    /\ At(p, "decide")
    /\ \/ Goto(p, "register") /\ UNCHANGED lock
       \/ Fail(p)
    /\ UNCHANGED <<platform, identity, payouts, ghosts, bounds>>

Unminted == {a \in Agents : platform[a] = "none"}

Register(p) ==
    /\ At(p, "register")
    /\ \/ \E a \in Unminted :
            /\ \A b \in Unminted : a <= b
            /\ platform' = [platform EXCEPT ![a] = "unclaimed"]
            /\ \/ /\ Hold(p, [agent |-> a, status |-> "unclaimed"], "journal")
                  /\ UNCHANGED <<lock, orphans, crossed, bounds>>
                  /\ givenUp' = IF proc[p].force
                                THEN givenUp \cup ({credentials, registration.agent, pending.agent} \cap Agents)
                                ELSE givenUp
               \/ Fault /\ orphans' = orphans \cup {a} /\ Fail(p) /\ UNCHANGED <<givenUp, crossed>>
       \/ Fault /\ Fail(p) /\ UNCHANGED <<platform, ghosts>>
       \/ Unminted = {} /\ Fail(p) /\ UNCHANGED <<platform, ghosts, bounds>>     \* bound
    /\ UNCHANGED <<identity, payouts>>

\* Mutant: the two files are published without a journal.
SaveNoJournal(p) ==
    /\ At(p, "journal") /\ Goto(p, "credential")
    /\ UNCHANGED <<platform, identity, lock, payouts, ghosts, bounds>>

\* A journal that reports an error may be there all the same.
SavePendingRegistration(p) ==
    /\ At(p, "journal")
    /\ LET j == [agent |-> Mine(p).agent, old |-> proc[p].old] IN
       \/ pending' = j /\ Goto(p, "credential") /\ UNCHANGED <<lock, orphans, bounds>>
       \/ pending' = j /\ Fault /\ Fail(p) /\ UNCHANGED orphans
       \/ Fault /\ Fail(p) /\ orphans' = orphans \cup {j.agent} /\ UNCHANGED pending
    /\ UNCHANGED <<platform, credentials, registration, backup, payouts, givenUp, crossed>>

\* The key may be replaced on -force, or when it is the one that expired.
MayReplaceKey(p) ==
    \/ credentials = None
    \/ HasKey /\ proc[p].force
    \/ proc[p].old # None /\ credentials = proc[p].old

\* A new file takes the place of the old one whole, or not at all.
WriteCredentials(k) == credentials' = k

PublishKey(p) ==
    /\ At(p, "credential")
    /\ LET a == Mine(p).agent IN
       \/ credentials = a /\ Goto(p, "record") /\ UNCHANGED <<credentials, lock, bounds>>
       \/ /\ credentials # a /\ MayReplaceKey(p)
          /\ WriteCredentials(a) /\ Goto(p, "record") /\ UNCHANGED <<lock, bounds>>
       \/ credentials # a /\ ~MayReplaceKey(p) /\ Fail(p) /\ UNCHANGED <<credentials, bounds>>
       \/ Fault /\ Fail(p) /\ UNCHANGED credentials
    /\ UNCHANGED <<platform, registration, backup, pending, payouts, ghosts>>

MayReplaceRecord(p) ==
    \/ registration \in {Absent, Mine(p)} \/ proc[p].force
    \/ proc[p].old # None /\ registration = [agent |-> proc[p].old, status |-> "expired"]

PublishRecord(p) ==
    /\ At(p, "record")
    /\ \/ Preserved /\ UNCHANGED <<proc, lock, bounds>>
       \/ /\ registration.status = "damaged" /\ backup /\ Fail(p)
          /\ UNCHANGED <<registration, backup, bounds>>
       \/ /\ registration.status # "damaged" /\ MayReplaceRecord(p)
          /\ registration' = Mine(p) /\ Goto(p, "confirm") /\ UNCHANGED <<lock, backup, bounds>>
       \/ /\ registration.status # "damaged" /\ ~MayReplaceRecord(p) /\ Fail(p)
          /\ UNCHANGED <<registration, backup, bounds>>
       \/ /\ registration.status # "damaged" /\ MayReplaceRecord(p) /\ Fault /\ Fail(p)
          /\ (registration' = Mine(p) \/ UNCHANGED registration) /\ UNCHANGED backup
    /\ UNCHANGED <<platform, credentials, pending, payouts, ghosts>>

\* Both are read back before the journal goes.
Confirm(p) ==
    /\ At(p, "confirm")
    /\ IF credentials = Mine(p).agent /\ registration = Mine(p)
       THEN Goto(p, "clear") /\ UNCHANGED lock
       ELSE Fail(p)
    /\ UNCHANGED <<platform, identity, payouts, ghosts, bounds>>

ClearPendingRegistration(p) ==
    /\ At(p, "clear")
    /\ \/ pending' = NoJournal /\ Goto(p, "key") /\ UNCHANGED <<lock, bounds>>
       \/ Fault /\ Fail(p) /\ UNCHANGED pending
    /\ UNCHANGED <<platform, credentials, registration, backup, payouts, ghosts>>

-----------------------------------------------------------------------------
(* pollOnce, which mining enable runs as well, without connect.lock.        *)

PlatformKey(p) ==
    /\ At(p, "key")
    /\ \/ HasKey /\ Become(p, [proc[p] EXCEPT !.key = credentials, !.step = "poll"]) /\ UNCHANGED lock
       \/ ~HasKey /\ Fail(p)
    /\ UNCHANGED <<platform, identity, payouts, ghosts, bounds>>

\* A foreground connect polls again until its budget is spent.
Again(p, code) ==
    \/ p \in Connects /\ Goto(p, "poll") /\ UNCHANGED lock
    \/ Exit(p, code)

\* The record is read again if it is still this agent's.
Poll(p) ==
    /\ At(p, "poll")
    /\ LET r == IF registration.agent = Mine(p).agent THEN registration ELSE Mine(p)
           s == Answer(r.agent, proc[p].key)
       IN \/ /\ s \in Usable /\ Hold(p, [r EXCEPT !.status = s], "save")
             /\ UNCHANGED <<lock, bounds>>
          \/ s = "gone" /\ Fail(p) /\ UNCHANGED bounds
          \/ Fault /\ Again(p, "ok")
    /\ UNCHANGED <<platform, identity, payouts, ghosts>>

\* Whether a claimed agent has an address the server is not known to have.
Undeclared == payout # NoAddress /\ declared # payout

\* The whole record goes back with the platform's status.
SavePolled(p) ==
    /\ At(p, "save")
    /\ \/ /\ registration' = Mine(p) /\ Crosses(p) /\ UNCHANGED bounds
          /\ \/ Mine(p).status = "unclaimed" /\ Again(p, "ok")
             \/ /\ Mine(p).status = "claimed" /\ Undeclared
                /\ Become(p, [proc[p] EXCEPT !.address = payout, !.step = "standing"])
                /\ UNCHANGED lock
             \/ (Mine(p).status = "expired" \/ (Mine(p).status = "claimed" /\ ~Undeclared))
                /\ Exit(p, "ok")
       \/ /\ Fault /\ Fail(p)
          /\ \/ registration' = Mine(p) /\ Crosses(p)
             \/ UNCHANGED <<registration, crossed>>
    /\ UNCHANGED <<platform, credentials, backup, pending, payouts, orphans, givenUp>>

\* declarePayoutIfSafe reads before it declares.
Standing(p) ==
    /\ At(p, "standing")
    /\ \/ active = proc[p].address /\ Goto(p, "note") /\ UNCHANGED <<lock, bounds>>
       \/ active \notin {NoAddress, proc[p].address} /\ Exit(p, "ok") /\ UNCHANGED bounds   \* held
       \/ active = NoAddress /\ Goto(p, "declare") /\ UNCHANGED <<lock, bounds>>
       \/ Fault /\ Exit(p, "ok")
    /\ UNCHANGED <<platform, identity, payouts, ghosts>>

\* The server puts a first address in force and holds every other one.
InForce(a) == active' = a /\ inForce' = inForce \cup {a}
Accepts(p) == IF active = NoAddress THEN InForce(proc[p].address) ELSE UNCHANGED <<active, inForce>>

\* Mutant: a proposal that was held counts as declared.
DeclareHeld(p) ==
    /\ At(p, "declare")
    /\ Accepts(p) /\ Goto(p, "note") /\ UNCHANGED <<lock, bounds>>
    /\ UNCHANGED <<platform, identity, payout, declared, ghosts>>

DeclarePayoutAddress(p) ==
    /\ At(p, "declare")
    /\ \/ /\ Accepts(p) /\ UNCHANGED bounds
          /\ IF active \in {NoAddress, proc[p].address}
             THEN Goto(p, "note") /\ UNCHANGED lock
             ELSE Exit(p, "ok")
       \/ Fault /\ (Accepts(p) \/ UNCHANGED <<active, inForce>>) /\ Exit(p, "ok")
    /\ UNCHANGED <<platform, identity, payout, declared, ghosts>>

\* SavePayoutDeclared; an error is ignored, and the next poll tries again.
NoteDeclared(p) ==
    /\ At(p, "note")
    /\ \/ declared' = proc[p].address /\ UNCHANGED bounds
       \/ Fault /\ UNCHANGED declared
    /\ Exit(p, "ok")
    /\ UNCHANGED <<platform, identity, payout, active, inForce, ghosts>>

-----------------------------------------------------------------------------
(* mining enable: what it read is saved after a call to the platform, then  *)
(* an address is chosen, then it polls.                                     *)

BeginEnable(p) ==
    /\ p \in Enables /\ At(p, "idle") /\ registration.status \in Usable /\ HasKey
    /\ Act
    /\ Become(p, [Idle EXCEPT !.record = registration, !.key = credentials, !.step = "look"])
    /\ UNCHANGED <<platform, identity, lock, payouts, ghosts>>

Look(p) ==
    /\ At(p, "look")
    /\ LET s == Answer(Mine(p).agent, proc[p].key) IN
       \/ s \in Usable /\ Hold(p, [Mine(p) EXCEPT !.status = s], "resave") /\ UNCHANGED bounds
       \/ s \notin Usable /\ Goto(p, "choose") /\ UNCHANGED bounds
       \/ Fault /\ Goto(p, "choose")
    /\ UNCHANGED <<platform, identity, lock, payouts, ghosts>>

Resave(p) ==
    /\ At(p, "resave")
    /\ registration' = Mine(p) /\ Crosses(p)
    /\ Goto(p, "choose")
    /\ UNCHANGED <<platform, credentials, backup, pending, lock, payouts, orphans, givenUp, bounds>>

\* An address that decodes; a file of its own, which no poll touches.
SavePayoutAddress(a) == payout' = a

\* Only an agent that mining is granted to is polled at once; the others wait for the
\* next search or connect.
Answered(p) ==
    \/ Mine(p).status = "claimed" /\ Goto(p, "poll")
    \/ Mine(p).status # "claimed" /\ Become(p, Idle)

\* An address is typed, configured or that of a new wallet, or none is given; or the
\* answer is cut off or cannot be written, and the command ends.
FinishMiningEnabled(p) ==
    /\ At(p, "choose")
    /\ \/ Answered(p) /\ \E a \in Addresses : SavePayoutAddress(a)
       \/ Answered(p) /\ UNCHANGED payout
       \/ Become(p, Idle) /\ UNCHANGED payout
    /\ UNCHANGED <<platform, identity, lock, declared, active, inForce, ghosts, bounds>>

-----------------------------------------------------------------------------
(* What people and the platform do.                                         *)

\* login stores the agent's own key again or a key of no agent here; -forget
\* removes it.
Login ==
    /\ Act
    /\ credentials' \in {None, Stranger} \cup ({registration.agent} \cap Agents)
    /\ credentials' # credentials
    /\ givenUp' = givenUp \cup ({credentials} \cap Agents)
    /\ UNCHANGED <<platform, registration, backup, pending, lock, proc, payouts, orphans, crossed>>

Claim ==
    /\ \E a \in Agents : /\ platform[a] = "unclaimed"
                         /\ platform' = [platform EXCEPT ![a] = "claimed"]
    /\ UNCHANGED <<identity, lock, proc, payouts, ghosts, bounds>>

Expire ==
    /\ \E a \in Agents : /\ platform[a] = "unclaimed"
                         /\ platform' = [platform EXCEPT ![a] = "expired"]
    /\ UNCHANGED <<identity, lock, proc, payouts, ghosts, bounds>>

\* The owner revokes an agent at the console; the platform forgets an expired one.
Remove ==
    /\ \E a \in Agents : /\ platform[a] \in {"claimed", "expired"} /\ Act
                         /\ platform' = [platform EXCEPT ![a] = "gone"]
    /\ UNCHANGED <<identity, lock, proc, payouts, ghosts>>

\* The slot operator activates another address.
Activate ==
    /\ Act /\ \E a \in Addresses \ {active} : InForce(a)
    /\ UNCHANGED <<platform, identity, lock, proc, payout, declared, ghosts>>

\* payout set declares without reading first, notes nothing and takes no lock; the
\* server holds it when another address is in force.
PayoutSet ==
    /\ Act /\ registration.status = "claimed" /\ active = NoAddress
    /\ \E a \in Addresses : InForce(a)
    /\ UNCHANGED <<platform, identity, lock, proc, payout, declared, ghosts>>

\* A file is cut short or edited by hand.
Damage ==
    /\ Fault
    /\ \/ /\ registration.status \in Usable
          /\ registration' = [agent |-> None, status |-> "damaged"] /\ UNCHANGED <<credentials, givenUp>>
       \/ /\ HasKey /\ credentials' = Damaged
          /\ givenUp' = givenUp \cup ({credentials} \cap Agents) /\ UNCHANGED registration
    /\ UNCHANGED <<platform, backup, pending, lock, proc, payouts, orphans, crossed>>

\* A command is killed; the system lets go of its lock.
Kill(p) ==
    /\ ~At(p, "idle") /\ Fault /\ Fail(p)
    /\ orphans' = IF At(p, "journal") THEN orphans \cup {Mine(p).agent} ELSE orphans
    /\ UNCHANGED <<platform, identity, payouts, givenUp, crossed>>

Continue(p) ==
    \/ Recover(p) \/ Load(p) \/ LoadNothing(p) \/ Me(p) \/ Preserve(p) \/ Rebuild(p)
    \/ Ask(p) \/ Verify(p) \/ Decide(p) \/ Register(p) \/ SavePendingRegistration(p)
    \/ PublishKey(p) \/ PublishRecord(p) \/ Confirm(p) \/ ClearPendingRegistration(p)
    \/ PlatformKey(p) \/ Poll(p) \/ SavePolled(p)
    \/ Standing(p) \/ DeclarePayoutAddress(p) \/ NoteDeclared(p)
    \/ Look(p) \/ Resave(p) \/ FinishMiningEnabled(p)

Outside == Login \/ Claim \/ Expire \/ Remove \/ Activate \/ PayoutSet \/ Damage

Next == Outside \/ \E p \in Processes : Begin(p) \/ BeginEnable(p) \/ Continue(p) \/ Kill(p)

Spec == Init /\ [][Next]_vars

\* A command that started goes on; people run connect again while it did not
\* succeed, and searches start a resume.
Fairness ==
    /\ \A p \in Processes : WF_vars(Continue(p))
    /\ \A p \in Connects \cup Resumes : SF_vars(Begin(p))

FairSpec == Spec /\ Fairness

-----------------------------------------------------------------------------
(* An installation has one agent in use: another one is minted only when   *)
(* the platform said that the one before expired, or a person gave it up   *)
(* (-force, login), or its minting was never journaled, or a command       *)
(* crossed another. The type invariant is checked with it.                 *)
OneAgentInUse ==
    /\ TypeOK
    /\ ~crossed => Cardinality({a \in Agents : platform[a] \in Live} \ (orphans \cup givenUp)) <= 1

\* The key of an agent in use is on disk, or in the hands of the connect that is
\* about to journal it: no failure between the two files loses it. Once the
\* journal is gone, key and record name the same agent.
InHand(a) == \E p \in Processes : At(p, "journal") /\ Mine(p).agent = a

KeyIsKept ==
    ~crossed =>
        /\ \A a \in Agents \ (orphans \cup givenUp) :
               platform[a] \in Live => credentials = a \/ pending.agent = a \/ InHand(a)
        /\ (pending = NoJournal /\ credentials \in Agents /\ registration.status \in Usable)
               => credentials = registration.agent

\* What is noted as declared was in force at the server.
DeclaredWasInForce == declared # NoAddress => declared \in inForce

\* A journal that cannot be finished: a person put another key or record there.
Blocked ==
    \/ credentials \notin {None, pending.agent, pending.old}
    \/ registration \notin {Absent, [agent |-> pending.agent, status |-> "unclaimed"],
                            [agent |-> pending.old, status |-> "expired"]}

(* A registration that was journaled is published in the end.              *)
JournalSettles == (pending # NoJournal) ~> (pending = NoJournal \/ Blocked)
=============================================================================
