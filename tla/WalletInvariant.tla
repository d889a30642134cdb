---------------------------- MODULE WalletInvariant ----------------------------
(***************************************************************************)
(* The inductive invariants behind KnownOrJournaled and PaidOnce, and      *)
(* behind AddressIsSpendable: what the files, the chain, the user and the  *)
(* commands at work owe each other between any two steps of Wallet.        *)
(***************************************************************************)
EXTENDS Wallet

\* Everything a loss of power may leave as the journal.
Journals == dir.left["journal"] \ {NoFile}

\* Given up by the user or lost by a lapse.
Excused(t) == t \in abandoned \cup lapses

\* Each file holds what its name says.
Named ==
    /\ Journals \subseteq Txs
    /\ \A n \in {"key", "sidecar"} : dir.left[n] \subseteq Keys \cup {NoFile}

\* A transfer is executed once, in the order of the sequence numbers, and only
\* then is its outcome told.
Ordered ==
    /\ \A t \in mempool : Admissible(t)
    /\ \A t \in paid \cup failed : t.seq < sequence[t.from]
    /\ told \subseteq paid \cup failed

\* A command on its way to show the phrase finds the files it has written.
Creating(c) ==
    /\ step[c] = "sidecar" => dir.shown["key"] # NoFile
    /\ step[c] = "phrase" => dir.shown["sidecar"] # NoFile

\* A journal is cleared once its outcome is told; a send signs only when there
\* is none and when it was not told that its payment is made.
Resolving(c) ==
    /\ step[c] = "clear" => Journal \in told
    /\ step[c] = "sign" => Journal = NoFile
    /\ step[c] \in {"resolve", "sign"} => ~ToldPaid(c)

\* From the signature to the node's answer the journal, on disk, is the send's
\* own, and its transfer has not reached the chain in any other way.
Sending(p) ==
    /\ step[p] \in {"broadcast", "refused", "wait", "cleanup", "report"} =>
        tx[p] \in Txs /\ tx[p].to = p
    /\ step[p] \in {"broadcast", "refused"} =>
        /\ dir.left["journal"] = {tx[p]}
        /\ tx[p] \in mempool \cup paid \cup failed => Excused(tx[p])
    /\ step[p] \in {"cleanup", "report"} => InBlock(tx[p])

AtWork ==
    /\ \A c \in Commands : Creating(c) /\ Resolving(c)
    /\ \A p \in Payments : Sending(p)

\* Of two transfers for one payment, one of which the chain holds or has paid
\* and the other too or may still be sent from the journal, one is excused.
OneAlive ==
    \A t \in mempool \cup paid \cup Journals, u \in mempool \cup paid :
        t.to = u.to /\ t # u => Excused(t) \/ Excused(u)

IInv == TypeOK /\ Named /\ Ordered /\ AtWork /\ KnownOrJournaled /\ OneAlive

(***************************************************************************)
(* The invariant behind AddressIsSpendable.  Until a write is cut short    *)
(* the key that is there is on disk, so a first failure can only be of the *)
(* key, which leaves no sidecar, or of something that names a durable key. *)
(***************************************************************************)
KeysKept ==
    faults <= 1 => /\ AddressIsSpendable
                   /\ faults = 0 => dir.left["key"] = {dir.shown["key"]}
=============================================================================
