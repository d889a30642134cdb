-------------------------------- MODULE Wallet --------------------------------
(***************************************************************************)
(* The wallet directory: the key and its public sidecar, and the journal   *)
(* of the one transfer that is not yet known to be settled.  wallet init,  *)
(* send and balance may run at the same time and be killed at any step;    *)
(* wallet.lock keeps them apart except while a send waits for a block.     *)
(*                                                                         *)
(* A user pays each payment by running its send until told that it was     *)
(* paid.  The chain is external: it executes at most one transfer for a    *)
(* sequence number of an account.  Signatures are deterministic, so a      *)
(* transfer is its payment, account, signer and sequence number.           *)
(*                                                                         *)
(* Abstracted: passphrases, prompts and the checks that refuse a command   *)
(* before it acts (Leave may end it there); waiting for the lock, which    *)
(* changes nothing; files that do not parse; the directory's permissions.  *)
(* A send reads the sidecar just before it asks for the lock, here at the  *)
(* moment it signs: only an init that found no key writes over a sidecar.  *)
(***************************************************************************)
EXTENDS Directory, FiniteSets

CONSTANTS Payments,      \* what the user wants to pay; each is one `wallet send`
          Keepers,       \* the other commands: wallet init and wallet balance
          Keys,          \* the keys there are to generate
          Nobody,        \* no process
          MaxSequence,   \* bound: the last sequence number a send may use
          MaxFaults      \* bound: writes cut short and removals that fail

Commands == Payments \cup Keepers

ASSUME WalletAssumption ==
    /\ Payments \cap Keepers = {} /\ Nobody \notin Commands
    /\ MaxSequence \in Nat /\ MaxFaults \in Nat

Txs == [to : Payments, from : Keys, by : Keys, seq : 0 .. MaxSequence]
ASSUME FilesAssumption == NoFile \notin Keys \cup Txs

Files == {"key", "sidecar", "journal"}

VARIABLES dir,      \* the wallet directory
          lock,     \* the command that holds wallet.lock
          step,     \* where each command is
          tx,       \* the transfer each send has built or asks about
          sequence, mempool, paid, failed,        \* the chain: next sequence number of an
                                                  \* account, transfers by what became of them
          told,     \* transfers whose outcome the user was told
          abandoned,                              \* transfers the user gave up
          phrases, handed,                        \* keys by phrases shown, addresses handed out
          lapses,   \* transfers whose record was lost without anyone being told
          faults    \* storage faults so far

chain == <<sequence, mempool, paid, failed>>
user  == <<told, abandoned, phrases, handed>>
vars  == <<dir, lock, step, tx, chain, user, lapses, faults>>

Steps == {"idle", "resolve", "clear", "sign", "broadcast", "refused", "wait", "cleanup",
          "report", "create", "sidecar", "phrase"}

\* The steps at which a command holds wallet.lock.
Locked == {"resolve", "clear", "sign", "broadcast", "refused", "create", "sidecar"}

TypeOK ==
    /\ dir \in Directories(Files, Keys \cup Txs) /\ Coherent(dir)
    /\ lock \in Commands \cup {Nobody}
    /\ \A c \in Commands : step[c] \in Locked <=> lock = c
    /\ step \in [Commands -> Steps]
    /\ tx \in [Commands -> Txs \cup {NoFile}]
    /\ sequence \in [Keys -> 0 .. MaxSequence + 1]
    /\ mempool \subseteq Txs /\ paid \subseteq Txs /\ failed \subseteq Txs
    /\ told \subseteq Txs /\ abandoned \subseteq Txs /\ lapses \subseteq Txs
    /\ phrases \subseteq Keys /\ handed \subseteq Keys
    /\ faults \in 0 .. MaxFaults

Init ==
    /\ dir = Settled([n \in Files |-> NoFile])
    /\ lock = Nobody
    /\ step = [c \in Commands |-> "idle"]
    /\ tx = [c \in Commands |-> NoFile]
    /\ sequence = [k \in Keys |-> 0]
    /\ mempool = {} /\ paid = {} /\ failed = {}
    /\ told = {} /\ abandoned = {} /\ phrases = {} /\ handed = {}
    /\ lapses = {} /\ faults = 0

(***************************************************************************)
(* Helpers.                                                                *)
(***************************************************************************)
Journal == dir.shown["journal"]
InBlock(t) == t \in paid \cup failed

\* What the node admits to its mempool: a well-signed transfer with the
\* account's next sequence number.
Admissible(t) == t.by = t.from /\ t.seq = sequence[t.from]

Goto(c, next) == step' = [step EXCEPT ![c] = next]

\* The command ends and the lock, if it holds it, is released.
Exit(c) ==
    /\ Goto(c, "idle")
    /\ tx' = [tx EXCEPT ![c] = NoFile]
    /\ lock' = IF lock = c THEN Nobody ELSE lock

Store(name, content, outcome) ==
    /\ faults + Faults(outcome) <= MaxFaults
    /\ faults' = faults + Faults(outcome)
    /\ dir' = Write(dir, name, content, outcome)

\* os.Remove of the journal: it fails, or nothing synchronises it.
RemoveJournal ==
    \/ dir' = Put(dir, "journal", NoFile) /\ UNCHANGED faults
    \/ faults < MaxFaults /\ faults' = faults + 1 /\ UNCHANGED dir

Tell(t)  == told' = told \cup {t} /\ UNCHANGED <<abandoned, phrases, handed>>
Hand(k)  == handed' = handed \cup {k} /\ UNCHANGED <<told, abandoned, phrases>>
Admit(t) == mempool' = mempool \cup {t} /\ UNCHANGED <<sequence, paid, failed>>

(***************************************************************************)
(* Creation and repair: createOrRecoverWallet, all of it under the lock.   *)
(***************************************************************************)
Take(c, next) ==
    /\ step[c] = "idle" /\ lock = Nobody
    /\ lock' = c /\ Goto(c, next)

\* wallet init, or mining enable when it is to provide the payout address.
StartInit(c) ==
    /\ c \in Keepers /\ Take(c, "create")
    /\ UNCHANGED <<dir, tx, chain, user, lapses, faults>>

\* Mutant: a wallet without a sidecar counts as no wallet.
GenerateKeyAgain(c) ==
    /\ step[c] = "create" /\ NoFile \in {dir.shown["key"], dir.shown["sidecar"]}
    /\ \E k \in Keys \ (phrases \cup handed), outcome \in Outcomes :
        /\ Store("key", k, outcome)
        /\ IF outcome = "stored" THEN Goto(c, "sidecar") /\ UNCHANGED <<tx, lock>> ELSE Exit(c)
    /\ UNCHANGED <<chain, user, lapses>>

\* No key: one is generated and written, then the sidecar.
GenerateKey(c) ==
    /\ step[c] = "create" /\ dir.shown["key"] = NoFile
    /\ \E k \in Keys, outcome \in Outcomes :
        /\ k \notin phrases \cup handed      \* bound: entropy does not repeat
        /\ Store("key", k, outcome)
        /\ IF outcome = "stored" THEN Goto(c, "sidecar") /\ UNCHANGED <<tx, lock>> ELSE Exit(c)
    /\ UNCHANGED <<chain, user, lapses>>

\* The sidecar of a generated key; only with it the recovery phrase comes back.
WriteSidecar(c) ==
    /\ step[c] = "sidecar"
    /\ \E outcome \in Outcomes :
        /\ Store("sidecar", dir.shown["key"], outcome)
        /\ IF outcome = "stored"
           THEN Goto(c, "phrase") /\ lock' = Nobody /\ UNCHANGED tx
           ELSE Exit(c)
    /\ UNCHANGED <<chain, user, lapses>>

\* The one appearance of the phrase, with the address it restores.
ShowPhrase(c) ==
    /\ step[c] = "phrase" /\ Exit(c)
    /\ phrases' = phrases \cup {dir.shown["sidecar"]}
    /\ handed' = handed \cup {dir.shown["sidecar"]}
    /\ UNCHANGED <<dir, chain, told, abandoned, lapses, faults>>

\* A key and a valid sidecar: the sidecar's address, and nothing is written.
Reuse(c) ==
    /\ step[c] = "create" /\ NoFile \notin {dir.shown["key"], dir.shown["sidecar"]}
    /\ Hand(dir.shown["sidecar"]) /\ Exit(c)
    /\ UNCHANGED <<dir, chain, lapses, faults>>

\* A key without a sidecar: the sidecar is made anew from the key.
Repair(c) ==
    /\ step[c] = "create" /\ dir.shown["key"] # NoFile /\ dir.shown["sidecar"] = NoFile
    /\ \E outcome \in Outcomes :
        /\ Store("sidecar", dir.shown["key"], outcome)
        /\ IF outcome = "stored" THEN Hand(dir.shown["key"]) ELSE UNCHANGED user
    /\ Exit(c)
    /\ UNCHANGED <<chain, lapses>>

\* wallet address and wallet register read the sidecar without the lock.
ReadAddress ==
    /\ dir.shown["sidecar"] # NoFile /\ Hand(dir.shown["sidecar"])
    /\ UNCHANGED <<dir, lock, step, tx, chain, lapses, faults>>

(***************************************************************************)
(* The journal of an earlier send is looked at before anything else, by a  *)
(* send and by a balance.                                                  *)
(***************************************************************************)
ToldPaid(p) == \E t \in paid \cap told : t.to = p

StartSend(p) ==
    /\ p \in Payments /\ dir.shown["sidecar"] # NoFile /\ ~ToldPaid(p)
    /\ Take(p, "resolve")
    /\ UNCHANGED <<dir, tx, chain, user, lapses, faults>>

StartBalance(c) ==
    /\ c \in Keepers /\ Take(c, "resolve")
    /\ UNCHANGED <<dir, tx, chain, user, lapses, faults>>

\* No journal: a send goes on, a balance has nothing to resolve.
ResolveNone(c) ==
    /\ step[c] = "resolve" /\ Journal = NoFile
    /\ IF c \in Payments THEN Goto(c, "sign") /\ UNCHANGED <<tx, lock>> ELSE Exit(c)
    /\ UNCHANGED <<dir, chain, user, lapses, faults>>

\* The node proves inclusion: the outcome is told, then the journal goes.
ResolveSettled(c) ==
    /\ step[c] = "resolve" /\ Journal # NoFile /\ InBlock(Journal)
    /\ Tell(Journal) /\ Goto(c, "clear")
    /\ UNCHANGED <<dir, lock, tx, chain, lapses, faults>>

ClearSettled(c) ==
    /\ step[c] = "clear" /\ RemoveJournal /\ Exit(c)
    /\ UNCHANGED <<chain, user, lapses>>

\* The node does not know the hash (it may be behind): the journaled bytes are
\* sent again.  Whatever it answers, the journal stays.
Resend(c) ==
    /\ step[c] = "resolve" /\ Journal # NoFile
    /\ UNCHANGED chain \/ (Admissible(Journal) /\ Admit(Journal))
    /\ lapses' = lapses \cup (IF dir.left["journal"] = {Journal} THEN {} ELSE {Journal})
    /\ Exit(c)
    /\ UNCHANGED <<dir, user, faults>>

\* A command ends without having changed anything: the lock was not free for
\* ten seconds, the node could not be asked or proves nothing, its chain is
\* another, the user said no, or sixty seconds went by without a block.
Leave(c) ==
    /\ step[c] \in {"resolve", "sign", "wait", "create"} /\ Exit(c)
    /\ UNCHANGED <<dir, chain, user, lapses, faults>>

(***************************************************************************)
(* A new transfer: signed for the account's next sequence number,          *)
(* journaled, broadcast, waited for.                                       *)
(***************************************************************************)
Signed(p) == [to |-> p, from |-> dir.shown["sidecar"], by |-> dir.shown["key"],
              seq |-> sequence[dir.shown["sidecar"]]]

Sign(p) ==
    /\ step[p] = "sign" /\ NoFile \notin {dir.shown["key"], dir.shown["sidecar"]}
    /\ sequence[dir.shown["sidecar"]] <= MaxSequence
    /\ \E outcome \in Outcomes :
        /\ Store("journal", Signed(p), outcome)
        /\ IF outcome = "stored"
           THEN Goto(p, "broadcast") /\ tx' = [tx EXCEPT ![p] = Signed(p)] /\ UNCHANGED lock
           ELSE Exit(p)
    /\ UNCHANGED <<chain, user, lapses>>

\* Mutant: a lost answer is taken for a refusal.
TakeForRefused(p) ==
    /\ step[p] = "broadcast"
    /\ UNCHANGED chain \/ (Admissible(tx[p]) /\ Admit(tx[p]))
    /\ RemoveJournal /\ Exit(p)
    /\ UNCHANGED <<user, lapses>>

\* The answer is lost or is not about this transfer: outcome unknown.
LoseAnswer(p) ==
    /\ step[p] = "broadcast"
    /\ UNCHANGED chain \/ (Admissible(tx[p]) /\ Admit(tx[p]))
    /\ Exit(p)
    /\ UNCHANGED <<dir, user, lapses, faults>>

Accept(p) ==
    /\ step[p] = "broadcast" /\ Admissible(tx[p]) /\ Admit(tx[p])
    /\ Goto(p, "wait") /\ lock' = Nobody
    /\ UNCHANGED <<dir, tx, user, lapses, faults>>

\* The mempool refuses it, which it may do for reasons of its own.
Refuse(p) ==
    /\ step[p] = "broadcast" /\ Goto(p, "refused")
    /\ UNCHANGED <<dir, lock, tx, chain, user, lapses, faults>>

ClearRefused(p) ==
    /\ step[p] = "refused" /\ RemoveJournal /\ Exit(p)
    /\ UNCHANGED <<chain, user, lapses>>

\* The wait holds no lock.
SeeBlock(p) ==
    /\ step[p] = "wait" /\ InBlock(tx[p]) /\ Goto(p, "cleanup")
    /\ UNCHANGED <<dir, lock, tx, chain, user, lapses, faults>>

\* Mutant: whatever is in the journal is removed.
CleanupAnyJournal(p) ==
    /\ step[p] = "cleanup" /\ Goto(p, "report")
    /\ IF lock = Nobody THEN RemoveJournal ELSE UNCHANGED <<dir, faults>>
    /\ UNCHANGED <<lock, tx, chain, user, lapses>>

\* removePendingTxIfHash, under the lock; when the lock is not free in time
\* the journal is left to the next command.
Cleanup(p) ==
    /\ step[p] = "cleanup" /\ Goto(p, "report")
    /\ IF lock = Nobody /\ Journal = tx[p] THEN RemoveJournal ELSE UNCHANGED <<dir, faults>>
    /\ UNCHANGED <<lock, tx, chain, user, lapses>>

Report(p) ==
    /\ step[p] = "report" /\ Tell(tx[p]) /\ Exit(p)
    /\ UNCHANGED <<dir, chain, lapses, faults>>

\* wallet send -abandon-pending.
Abandon ==
    /\ lock = Nobody /\ dir.shown["sidecar"] # NoFile /\ Journal # NoFile
    /\ abandoned' = abandoned \cup {Journal}
    /\ RemoveJournal
    /\ UNCHANGED <<lock, step, tx, chain, told, phrases, handed, lapses>>

(***************************************************************************)
(* The chain.                                                              *)
(***************************************************************************)
\* A block executes a transfer; what its sequence number makes invalid leaves
\* the mempool with it.
Commit(t) ==
    /\ t \in mempool /\ Admissible(t)
    /\ sequence' = [sequence EXCEPT ![t.from] = @ + 1]
    /\ mempool' = {u \in mempool : u.from # t.from}
    /\ \/ paid' = paid \cup {t} /\ UNCHANGED failed
       \/ failed' = failed \cup {t} /\ UNCHANGED paid
    /\ UNCHANGED <<dir, lock, step, tx, user, lapses, faults>>

Evict(t) ==
    /\ t \in mempool /\ mempool' = mempool \ {t}
    /\ UNCHANGED <<sequence, paid, failed, dir, lock, step, tx, user, lapses, faults>>

(***************************************************************************)
(* A command is killed; the power fails.  What a send had cleared from the *)
(* journal and not yet reported is known to nobody.                        *)
(***************************************************************************)
Unreported(stopped) ==
    {tx[p] : p \in {q \in Payments \cap stopped :
                        step[q] = "report" /\ dir'.left["journal"] # {tx[q]}}} \ told

Kill(c) ==
    /\ step[c] # "idle" /\ Exit(c) /\ UNCHANGED dir
    /\ lapses' = lapses \cup Unreported({c})
    /\ UNCHANGED <<chain, user, faults>>

PowerLoss ==
    /\ dir' \in AfterPowerLoss(dir)
    /\ lapses' = lapses \cup Unreported(Commands)
    /\ step' = [c \in Commands |-> "idle"] /\ tx' = [c \in Commands |-> NoFile]
    /\ lock' = Nobody
    /\ UNCHANGED <<chain, user, faults>>

Next ==
    \/ \E c \in Commands :
        \/ StartInit(c) \/ GenerateKey(c) \/ WriteSidecar(c) \/ ShowPhrase(c)
        \/ Reuse(c) \/ Repair(c)
        \/ StartBalance(c) \/ ResolveNone(c) \/ ResolveSettled(c) \/ ClearSettled(c)
        \/ Resend(c) \/ Leave(c) \/ Kill(c)
    \/ \E p \in Payments :
        \/ StartSend(p) \/ Sign(p) \/ LoseAnswer(p) \/ Accept(p) \/ Refuse(p)
        \/ ClearRefused(p) \/ SeeBlock(p) \/ Cleanup(p) \/ Report(p)
    \/ \E t \in mempool : Commit(t) \/ Evict(t)
    \/ ReadAddress \/ Abandon \/ PowerLoss

Spec == Init /\ [][Next]_vars

(***************************************************************************)
(* Properties.                                                             *)
(***************************************************************************)
Known(t) ==
    \/ t \in told \cup abandoned \cup lapses
    \/ dir.left["journal"] = {t}
    \/ \E p \in Payments : step[p] = "report" /\ tx[p] = t

\* What the chain has or may still execute and the user was not told of is in
\* the journal whatever a loss of power leaves, or in the hands of the send
\* that is about to report it.  So no send overtakes an earlier one, and
\* nothing is removed before its outcome is known (wallet.go, walletSend;
\* wallet_journal.go, resolvePendingTxLocked).  Excepted are what the user
\* abandoned and the two lapses of the code: a journal that was never
\* synchronised and is sent again, and a send that is killed after it removed
\* its journal and before it reports.
KnownOrJournaled == \A t \in mempool \cup paid \cup failed : Known(t)

\* A payment that is run again and again until its outcome is told is made at
\* most once, with the same exceptions (pendingTx: "a rerun can never pay twice
\* under two different transaction ids for one intended send").
PaidOnce ==
    \A t, u \in paid :
        t.to = u.to /\ t # u => {t, u} \cap (abandoned \cup lapses) # {}

\* The key of an address that was handed out, for a registration or a transfer
\* to it, survives a loss of power or can be restored from the phrase that was
\* shown (wallet_store.go, writeWalletFile; wallet.go, createOrRecoverWallet).
\* And the sidecar is never trusted for a key that is not there: whatever a loss
\* of power leaves, it names the key beside it, which createOrRecoverWallet and
\* walletSend rely on and do not compare.  Both hold while at most one write is
\* cut short (MaxFaults = 1): after two a reused wallet may have neither file.
AddressIsSpendable ==
    /\ \A k \in handed : k \in phrases \/ dir.left["key"] = {k}
    /\ \A k \in dir.left["sidecar"] \ {NoFile} : dir.left["key"] = {k}
=============================================================================
