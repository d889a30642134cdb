---------------------------------- MODULE Setup ----------------------------------
(***************************************************************************)
(* setup over an installation directory: it uses the installation found    *)
(* there, or adopts one that was set aside beside it (the identity, then   *)
(* the wallet, under one journal kept in memory), or starts fresh, and then *)
(* runs connect in its own process.  A participant's own connect and mining *)
(* enable, which setup.lock does not exclude, run beside it.               *)
(*                                                                         *)
(* state/ is the files of Onboarding plus connect.lock, so moving the      *)
(* directory takes the lock from under whoever holds it.                   *)
(*                                                                         *)
(* Abstracted: the dry run, the launch checks and targets; the spool,      *)
(* intake and session trees are one file; the profile and the agents,      *)
(* which come after connect, are in Integrations.                          *)
(***************************************************************************)
EXTENDS Onboarding, Sequences

CONSTANT InSetup        \* the connect that setup runs in its own process

\* The installation that was set aside is that of agent 1.
ASSUME SetupAssumption == InSetup \in Connects /\ MaxAgents >= 1

VARIABLES wallet,       \* wallet/ in the installation directory
          source,       \* the installation that was set aside beside it
          asides,       \* state.unenrolled-* and wallet.incomplete-*
          spooled,      \* whose spool file the directory holds
          setup,        \* the setup that holds setup.lock
          torn,         \* a killed or failed adoption left its parts in two places
          beside        \* a command ran while an adoption was moving things

setupVars == <<wallet, source, asides, spooled, setup, torn, beside>>
allVars   == <<vars, setupVars>>

Wallets == {"none", "partial", "key"}
Dir     == [registration : Record, backup : BOOLEAN, pending : Journal,
            payout : Addresses \cup {NoAddress}, declared : Addresses \cup {NoAddress}]
Empty   == [registration |-> Absent, backup |-> FALSE, pending |-> NoJournal,
            payout |-> NoAddress, declared |-> NoAddress]
Source  == [dir : Dir, key : 0 .. Damaged, wallet : Wallets, spool : BOOLEAN]
Bare    == [dir |-> Empty, key |-> None, wallet |-> "none", spool |-> FALSE]

SetupSteps == {"idle", "ask", "identity", "state", "key", "custody", "wallet", "secure",
               "merge", "undo", "access", "connect", "connecting"}

\* done is the journal, newest last; room is the state/ that was set aside; told is
\* what the last setup said of an adoption, and from is what it was to adopt.
Setting == [step : SetupSteps, done : Seq({"room", "state", "key", "partial", "wallet"}),
            room : Dir, from : Source, told : {"", "conflict", "putBack", "survives"}]
Unset   == [step |-> "idle", done |-> <<>>, room |-> Empty, from |-> Bare, told |-> ""]

\* state/ as it is now, and as a whole to come.
Here      == [registration |-> registration, backup |-> backup, pending |-> pending,
              payout |-> payout, declared |-> declared]
StateIs(d) == /\ registration' = d.registration /\ backup' = d.backup /\ pending' = d.pending
              /\ payout' = d.payout /\ declared' = d.declared
Same       == UNCHANGED <<registration, backup, pending, payout, declared>>

Registered(a, s) == [Empty EXCEPT !.registration = [agent |-> a, status |-> s]]

\* What may be set aside, and an installation directory that holds nothing, a
\* wallet without a key, or the address of an enrollment that was not finished.
SetAside ==
    {Bare} \cup [dir : {Registered(1, "claimed"), [Empty EXCEPT !.pending.agent = 1]},
                 key : {None, 1}, wallet : {"none", "key"}, spool : {TRUE}]

SInit ==
    /\ credentials = None /\ registration = Absent /\ backup = FALSE /\ pending = NoJournal
    /\ declared = NoAddress
    /\ active = NoAddress /\ inForce = {}
    /\ source \in SetAside
    /\ platform = [a \in Agents |-> IF a = 1 /\ source.dir.registration # Absent THEN "claimed"
                                    ELSE IF a = 1 /\ source # Bare THEN "unclaimed" ELSE "none"]
    /\ \/ payout = NoAddress /\ wallet = "none" /\ spooled = "none"
       \/ payout \in Addresses /\ wallet = "partial" /\ spooled = "home"
    /\ asides = [states |-> {}, wallet |-> FALSE] /\ setup = Unset /\ torn = FALSE /\ beside = FALSE
    /\ lock = Nobody /\ proc = [p \in Processes |-> Idle]
    /\ orphans = {} /\ givenUp = (IF source = Bare THEN {} ELSE {1}) /\ crossed = FALSE
    /\ faults = 0 /\ acts = 0

STypeOK ==
    /\ TypeOK
    /\ wallet \in Wallets /\ source \in Source
    /\ asides \in [states : SUBSET Dir, wallet : BOOLEAN]
    /\ spooled \in {"none", "home", "source"}
    /\ setup \in Setting /\ torn \in BOOLEAN /\ beside \in BOOLEAN
    /\ setup.step # "connecting" => At(InSetup, "idle")

(***************************************************************************)
(* Helpers.                                                                *)
(***************************************************************************)
In(s)        == setup.step = s
Onward(s)    == setup' = [setup EXCEPT !.step = s]
Stop(told)   == setup' = [Unset EXCEPT !.told = told,
                                       !.from = IF told = "putBack" THEN setup.from ELSE Bare]
Noted(e, s)  == setup' = [setup EXCEPT !.done = Append(@, e), !.step = s]
Elsewhere    == UNCHANGED <<platform, proc, active, inForce, orphans>>

\* hasInstallation: a wallet key, a record, a journal or a stored key.
HasInstallation(d, k, w) ==
    w = "key" \/ d.registration # Absent \/ d.pending # NoJournal \/ k # None

-----------------------------------------------------------------------------
(* admit and previousInstallation.                                         *)

PreviousInstallation ==
    /\ In("idle")
    /\ setup' = [Unset EXCEPT !.step =
           IF ~HasInstallation(Here, credentials, wallet)
               /\ HasInstallation(source.dir, source.key, source.wallet)
           THEN "ask" ELSE "access"]
    /\ UNCHANGED <<vars, wallet, source, asides, spooled, torn, beside>>

\* Left alone, a fresh registration follows; or setup is left at the question.
UseIt ==
    /\ In("ask")
    /\ \/ setup' = [setup EXCEPT !.step = "identity", !.from = source]
       \/ Onward("access")
       \/ Stop("")
    /\ UNCHANGED <<vars, wallet, source, asides, spooled, torn, beside>>

-----------------------------------------------------------------------------
(* The adoption: each move is noted once it succeeded.                     *)

\* How a move that has the effect moved, or none, may end: done, not done, done
\* but not restricted to its owner, done but reported as failed because the
\* directory could not be synced.
Move(moved, unmoved, entry, next) ==
    \/ moved /\ Noted(entry, next) /\ UNCHANGED <<torn, bounds>>
    \/ Fault /\ unmoved /\ Onward("undo") /\ UNCHANGED torn
    \/ Fault /\ moved /\ Noted(entry, "undo") /\ UNCHANGED torn
    \/ Fault /\ moved /\ Onward("undo") /\ torn' = TRUE

\* The lock goes with state/; whoever works on the installation is crossed.
TakeLock == lock' = Nobody /\ crossed' = (crossed \/ \E p \in Processes : ~At(p, "idle"))

\* The agent whose key is taken from the set-aside is this installation's, until the
\* key is put back.
Taken(keys)  == givenUp' = givenUp \ keys
Return(keys) == givenUp' = givenUp \cup (keys \cap Agents)

\* Mutant: an identity in the destination is taken for an unfinished state/.
AdoptOverIdentity ==
    /\ In("identity")
    /\ StateIs(Empty) /\ asides' = [asides EXCEPT !.states = @ \cup {Here}] /\ TakeLock
    /\ setup' = [setup EXCEPT !.room = Here, !.done = <<"room">>, !.step = "state"]
    /\ Elsewhere /\ UNCHANGED <<credentials, givenUp, wallet, source, spooled, beside, torn, bounds>>

\* The identity: refused when the destination has one; an unfinished state/ makes room.
AdoptIdentity ==
    /\ In("identity")
    /\ \/ /\ source.dir = Empty /\ source.key = None
          /\ Onward("custody") /\ Same /\ UNCHANGED <<asides, lock, crossed, torn, bounds>>
       \/ /\ source.dir # Empty \/ source.key # None
          /\ credentials # None \/ registration # Absent \/ pending # NoJournal
          /\ Stop("conflict") /\ Same /\ UNCHANGED <<asides, lock, crossed, torn, bounds>>
       \/ /\ source.dir # Empty \/ source.key # None
          /\ credentials = None /\ registration = Absent /\ pending = NoJournal
          /\ IF Here = Empty
             THEN /\ Onward("state") /\ Same
                  /\ TakeLock /\ UNCHANGED <<asides, torn, bounds>>
             ELSE LET room == [setup EXCEPT !.room = Here]
                      away == StateIs(Empty) /\ asides' = [asides EXCEPT !.states = @ \cup {Here}] /\ TakeLock
                      stay == Same /\ UNCHANGED <<asides, lock, crossed>>
                  IN \/ /\ away /\ UNCHANGED <<torn, bounds>>
                        /\ setup' = [room EXCEPT !.done = <<"room">>, !.step = "state"]
                     \/ Fault /\ stay /\ Onward("undo") /\ UNCHANGED torn
                     \/ /\ Fault /\ away /\ UNCHANGED torn
                        /\ setup' = [room EXCEPT !.done = <<"room">>, !.step = "undo"]
                     \/ Fault /\ away /\ Onward("undo") /\ torn' = TRUE
    /\ Elsewhere /\ UNCHANGED <<credentials, givenUp, wallet, source, spooled, beside>>

\* A directory goes nowhere when something is in its place again.
MoveState ==
    /\ In("state")
    /\ \/ /\ source.dir = Empty
          /\ Onward("key") /\ Same /\ UNCHANGED <<lock, givenUp, crossed, source, torn, bounds>>
       \/ /\ source.dir # Empty /\ Here = Empty
          /\ Move(/\ StateIs(source.dir) /\ source' = [source EXCEPT !.dir = Empty]
                  /\ TakeLock /\ Taken({source.dir.pending.agent}),
                  Same /\ UNCHANGED <<lock, givenUp, crossed, source>>, "state", "key")
       \/ /\ source.dir # Empty /\ Here # Empty
          /\ Onward("undo") /\ Same /\ UNCHANGED <<lock, givenUp, crossed, source, torn, bounds>>
    /\ Elsewhere /\ UNCHANGED <<credentials, wallet, asides, spooled, beside>>

\* A file takes the place of whatever is there.
MoveKey ==
    /\ In("key")
    /\ \/ /\ source.key = None
          /\ Onward("custody") /\ UNCHANGED <<credentials, source, givenUp, torn, bounds>>
       \/ /\ source.key # None
          /\ Move(/\ credentials' = source.key /\ source' = [source EXCEPT !.key = None]
                  /\ Taken({source.key}),
                  UNCHANGED <<credentials, source, givenUp>>, "key", "custody")
    /\ Same /\ Elsewhere /\ UNCHANGED <<lock, crossed, wallet, asides, spooled, beside>>

\* The wallet: a directory without a key makes room for the one that was chosen.
AdoptCustody ==
    /\ In("custody")
    /\ \/ source.wallet = "none" /\ Onward("merge") /\ UNCHANGED <<wallet, asides, torn, bounds>>
       \/ /\ source.wallet # "none" /\ wallet = "none"
          /\ Onward("wallet") /\ UNCHANGED <<wallet, asides, torn, bounds>>
       \/ /\ source.wallet # "none" /\ wallet # "none"
          /\ Move(wallet' = "none" /\ asides' = [asides EXCEPT !.wallet = TRUE],
                  UNCHANGED <<wallet, asides>>, "partial", "wallet")
    /\ Same /\ Elsewhere /\ UNCHANGED <<credentials, lock, givenUp, crossed, source, spooled, beside>>

MoveWallet ==
    /\ In("wallet")
    /\ Move(wallet' = source.wallet /\ source' = [source EXCEPT !.wallet = "none"],
            UNCHANGED <<wallet, source>>, "wallet", "secure")
    /\ Same /\ Elsewhere /\ UNCHANGED <<credentials, lock, givenUp, crossed, asides, spooled, beside>>

\* secureWalletTree; a failure takes the identity back out as well.
SecureWallet ==
    /\ In("secure")
    /\ \/ Onward("merge") /\ UNCHANGED bounds
       \/ Fault /\ Onward("undo")
    /\ UNCHANGED <<platform, identity, lock, proc, payouts, ghosts, wallet, source, asides, spooled, torn, beside>>

\* Committed.  The spool goes file by file, and a file already there is kept.
Merge ==
    /\ In("merge")
    /\ \/ source.spool /\ spooled = "none" /\ spooled' = "source" /\ source' = [source EXCEPT !.spool = FALSE]
       \/ UNCHANGED <<spooled, source>>
    /\ setup' = [setup EXCEPT !.step = "access", !.done = <<>>, !.room = Empty]
    /\ UNCHANGED <<platform, identity, lock, proc, payouts, ghosts, wallet, asides, torn, beside, bounds>>

-----------------------------------------------------------------------------
(* bundleTxn.fail: newest first, stopping at the first that cannot be undone. *)

\* Mutant: only the bundle that failed is put back.
UndoingWallet == setup.done # <<>> /\ setup.done[Len(setup.done)] \notin {"room", "state", "key"}

Undoing == setup.done # <<>>

\* Every change that an undo makes, by what it undoes.
Back(e) ==
    CASE e = "state"   -> /\ StateIs(Empty) /\ source' = [source EXCEPT !.dir = Here]
                          /\ TakeLock /\ Return({pending.agent}) /\ UNCHANGED <<credentials, wallet, asides>>
      [] e = "key"     -> /\ credentials' = None /\ source' = [source EXCEPT !.key = credentials]
                          /\ Same /\ Return({credentials})
                          /\ UNCHANGED <<lock, crossed, wallet, asides>>
      [] e = "room"    -> /\ StateIs(setup.room) /\ asides' = [asides EXCEPT !.states = @ \ {setup.room}]
                          /\ UNCHANGED <<credentials, lock, givenUp, crossed, wallet, source>>
      [] e = "wallet"  -> /\ wallet' = "none" /\ source' = [source EXCEPT !.wallet = wallet]
                          /\ Same /\ UNCHANGED <<credentials, lock, givenUp, crossed, asides>>
      [] e = "partial" -> /\ wallet' = "partial" /\ asides' = [asides EXCEPT !.wallet = FALSE]
                          /\ Same /\ UNCHANGED <<credentials, lock, givenUp, crossed, source>>

Stay == Same /\ UNCHANGED <<credentials, lock, givenUp, crossed, wallet, source, asides>>

Undo ==
    /\ In("undo")
    /\ \/ /\ ~Undoing
          /\ Stop("putBack") /\ Stay /\ UNCHANGED <<torn, bounds>>
       \/ /\ Undoing
          /\ LET e == setup.done[Len(setup.done)]
                 possible == (e = "room" => Here = Empty) /\ (e = "key" => credentials # None)
             IN
             \/ /\ possible /\ Back(e)
                /\ UNCHANGED <<torn, bounds>>
                /\ setup' = [setup EXCEPT !.done = SubSeq(@, 1, Len(@) - 1)]
             \/ /\ ~possible
                /\ Stop("survives") /\ Stay /\ torn' = TRUE /\ UNCHANGED bounds
             \/ /\ Fault /\ Stop("survives") /\ torn' = TRUE
                /\ (Stay \/ (possible /\ Back(e)))
    /\ Elsewhere /\ UNCHANGED <<spooled, beside>>

-----------------------------------------------------------------------------
(* The rest of the run.                                                    *)

\* directories, walletAccess, the config, the flush lock: any may stop setup.
Access ==
    /\ In("access")
    /\ \/ Onward("connect") /\ UNCHANGED bounds
       \/ Fault /\ Stop("")
    /\ UNCHANGED <<platform, identity, lock, proc, payouts, ghosts, wallet, source, asides, spooled, torn, beside>>

\* connect returns at once, and successfully, when another one is running.
Connect ==
    /\ In("connect")
    /\ \/ /\ lock # Nobody /\ Stop("") /\ UNCHANGED <<lock, proc>>
       \/ /\ lock = Nobody /\ lock' = InSetup
          /\ Become(InSetup, [Idle EXCEPT !.step = "load"]) /\ Onward("connecting")
    /\ UNCHANGED <<platform, identity, payouts, ghosts, bounds, wallet, source, asides, spooled, torn, beside>>

Connected ==
    /\ In("connecting") /\ At(InSetup, "idle")
    /\ Stop("")
    /\ UNCHANGED <<vars, wallet, source, asides, spooled, torn, beside>>

\* A killed setup takes its connect along, and its journal.
KillSetup ==
    /\ ~In("idle") /\ Fault
    /\ Stop("") /\ torn' = (torn \/ setup.done # <<>>)
    /\ proc' = [proc EXCEPT ![InSetup] = Idle]
    /\ lock' = IF lock = InSetup THEN Nobody ELSE lock
    /\ orphans' = IF At(InSetup, "journal") THEN orphans \cup {Mine(InSetup).agent} ELSE orphans
    /\ UNCHANGED <<platform, identity, payouts, givenUp, crossed, wallet, source, asides, spooled, beside>>

Adopt == \/ AdoptIdentity \/ MoveState \/ MoveKey \/ AdoptCustody \/ MoveWallet \/ SecureWallet
         \/ Merge \/ Undo

RunSetup == PreviousInstallation \/ UseIt \/ Adopt \/ Access \/ Connect \/ Connected

\* Beside setup: whatever Onboarding lets happen, but for the life of the connect in it.
Beside == \/ Outside
          \/ \E p \in Processes : Continue(p) \/ BeginEnable(p)
          \/ \E p \in Processes \ {InSetup} : Begin(p) \/ Kill(p)

Adopting == setup.step \in {"state", "key", "custody", "wallet", "secure", "undo"}

\* What follows a crossing is not looked at (bound).
Crossed == (crossed \/ beside) /\ UNCHANGED allVars

SNext ==
    \/ Crossed
    \/ ~crossed /\ ~beside /\ (RunSetup \/ KillSetup)
    \/ /\ ~crossed /\ ~beside
       /\ Beside /\ UNCHANGED <<wallet, source, asides, spooled, setup, torn>>
       /\ beside' = Adopting

SSpec == SInit /\ [][SNext]_allVars

-----------------------------------------------------------------------------
\* The installation that was chosen is here whole, or where it was.
Adopted == source.dir = Empty /\ source.key = None /\ source.wallet = "none"
InPlace == /\ source.dir = setup.from.dir
           /\ source.wallet = setup.from.wallet
           /\ source.key = setup.from.key

(* Whenever connect could run after an adoption was begun, the identity and *)
(* the wallet were both adopted, or are both where they started; and they   *)
(* are where they started when setup says that everything was put back      *)
(* (setup_adopt.go:588). Not so after a kill between two moves, or a move   *)
(* that was made and reported a failure (torn). The type invariant is       *)
(* checked with it.                                                         *)
AdoptedTogether ==
    /\ STypeOK
    /\ /\ setup.step \in {"idle", "access", "connect", "connecting"} /\ setup.from # Bare
       /\ ~torn /\ ~beside /\ ~crossed
       => InPlace \/ (setup.told # "putBack" /\ Adopted)

(* Setup changes nothing about whose the agent is: one is in use, and its   *)
(* key is here.                                                            *)
AgentsAcrossSetup == ~beside => OneAgentInUse /\ KeyIsKept

=============================================================================
