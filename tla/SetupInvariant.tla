----------------------------- MODULE SetupInvariant -----------------------------
(***************************************************************************)
(* The inductive invariant behind AgentsAcrossSetup and AdoptedTogether:   *)
(* what an adoption has moved at each of its steps, and what its journal   *)
(* says of it.                                                             *)
(***************************************************************************)
EXTENDS Setup, OnboardingInvariant

\* The journal says that e was moved, and says nothing but what is in es.
Has(e)      == \E i \in 1 .. Len(setup.done) : setup.done[i] = e
OnlyHas(es) == \A i \in 1 .. Len(setup.done) : setup.done[i] \in es

\* Every move is noted once, the wallet's last.
Once       == \A i, j \in 1 .. Len(setup.done) : setup.done[i] = setup.done[j] => i = j
WalletLast == \A i \in 1 .. Len(setup.done) : setup.done[i] = "wallet" => i = Len(setup.done)

\* What the journal may say at each step.
Noting ==
    /\ Once /\ WalletLast
    /\ ~Adopting /\ ~In("merge") => setup.done = <<>>
    /\ In("state")   => OnlyHas({"room"})
    /\ In("key")     => OnlyHas({"room", "state"})
    /\ In("custody") => OnlyHas({"room", "state", "key"})
    /\ In("wallet")  => OnlyHas({"room", "state", "key", "partial"})
    /\ ~In("idle") => setup.told = ""
    /\ In("ask") => setup.from = Bare

\* A state/ that the program left: its records are sound.
Proper(d) == Sound(d.registration) /\ (d.pending # NoJournal => d.pending.agent # None)

\* A state/ of the agent that was set aside, or of none.
OfOne(d) == {d.registration.agent, d.pending.agent} \subseteq {None, 1}

\* What is set aside, and the state/ that made room for it.
SetApart ==
    /\ Proper(source.dir) /\ OfOne(source.dir) /\ source.key \in {None, 1}
    /\ Proper(setup.room) /\ setup.room.registration = Absent /\ setup.room.pending = NoJournal

\* An identity that is being moved is agent 1's, and nobody works on it.
Moving == In("state") \/ In("key") \/ (Adopting /\ (Has("state") \/ Has("key")))

Undisturbed ==
    /\ In("state") => Here = Empty
    /\ In("state") \/ In("key") => credentials = None
    /\ In("key") \/ (Adopting /\ Has("state")) => OfOne(Here)
    /\ Adopting /\ Has("key") => credentials = 1
    /\ Moving => \A p \in Processes : At(p, "idle")

\* What was moved, and what was not, is as it was found.
Listed ==
    /\ source.dir = IF Has("state") THEN Empty ELSE setup.from.dir
    /\ source.key = IF Has("key") THEN None ELSE setup.from.key
    /\ source.wallet = IF Has("wallet") THEN "none" ELSE setup.from.wallet
    /\ Has("state") => Here = setup.from.dir /\ setup.from.dir # Empty
    /\ Has("key") => credentials = setup.from.key
    /\ Has("wallet") => wallet = setup.from.wallet

\* A journal that tells the truth: what is set aside at each step.
Accounted ==
    /\ Adopting \/ In("identity") => Listed
    /\ setup.step \in {"key", "custody", "wallet", "secure", "merge"} => source.dir = Empty
    /\ setup.step \in {"custody", "wallet", "secure", "merge"} => source.key = None
    /\ setup.step \in {"secure", "merge"} => source.wallet = "none"
    /\ setup.step \in {"idle", "access", "connect", "connecting"} /\ setup.from # Bare =>
           InPlace \/ (setup.told # "putBack" /\ Adopted)

SInv ==
    /\ STypeOK /\ Recorded /\ Noting /\ SetApart
    /\ ~crossed /\ ~beside => Identity /\ Undisturbed
    /\ ~crossed /\ ~beside /\ ~torn => Accounted
=============================================================================
