-------------------------- MODULE OnboardingInvariant --------------------------
(***************************************************************************)
(* The inductive invariant behind OneAgentInUse, KeyIsKept and             *)
(* DeclaredWasInForce: which agents are in use, and where the key of that  *)
(* agent is at every step of the command that holds connect.lock.          *)
(***************************************************************************)
EXTENDS Onboarding

\* The agents OneAgentInUse counts: live, not lost before the journal, not given up.
InUse == {a \in Agents : platform[a] \in Live} \ (orphans \cup givenUp)

\* connect and connect -resume.
Locking == Connects \cup Resumes

Registering == {"me", "preserve", "rebuild", "ask", "verify", "decide", "register", "journal"}
Publishing  == {"credential", "record", "confirm", "clear"}

\* Who can be where, with a record and an address in memory or without.
Kind(p, m) ==
    /\ m.step \in Registering => p \in Connects
    /\ m.step \in Publishing \cup {"load", "key"} => p \in Locking
    /\ m.step \in {"look", "resave", "choose"} => p \in Enables
    /\ m.step \notin {"idle", "load", "me", "decide", "register"} => m.record.agent # None
    /\ m.step \in {"standing", "declare", "note"} => m.address \in Addresses

\* A record names an agent exactly when it can be used.
Sound(r) == r.status \in Usable <=> r.agent # None

Recorded ==
    /\ Sound(registration) /\ (pending # NoJournal => pending.agent # None)
    /\ \A p \in Processes : Kind(p, proc[p]) /\ Sound(Mine(p))

-----------------------------------------------------------------------------
\* As long as no command crossed another one.

Exclusive == \A p \in Locking : ~At(p, "idle") => lock = p

\* The files are about agent x, or about none.
About(x) ==
    /\ credentials \in Agents => credentials = x
    /\ registration.agent # None => registration.agent = x

\* The journal belongs to the holder of the lock: there is none before it writes
\* one, and while it publishes it is the one that it wrote or found.
JournalIs(m) ==
    /\ m.step \in Registering => pending = NoJournal
    /\ m.step \in Publishing => pending = [agent |-> m.record.agent, old |-> m.old]

\* What the holder looked at, a person at login may have emptied since, and no one
\* has put another agent's in its place.
StillAbout(m) ==
    /\ m.step = "me" => About(m.key)
    /\ m.step \in {"preserve", "rebuild", "ask", "verify", "clear"} => About(m.record.agent)

\* Nobody is in use when an agent is minted, but the one that -force gives up; then
\* the new one is alone until its key is on disk.
Alone(m) ==
    /\ m.step \in {"decide", "register"} => \A a \in InUse : m.force /\ a = credentials
    /\ m.step = "journal" => InUse \subseteq {m.record.agent}
    /\ m.step = "clear" => InUse \subseteq {credentials}

Holds(m) == JournalIs(m) /\ StillAbout(m) /\ Alone(m)

\* Once the journal is gone, key and record name the same agent.
Matched ==
    (pending = NoJournal /\ credentials \in Agents /\ registration.status \in Usable)
        => credentials = registration.agent

\* Where the key of the agent in use is.
KeyIsSomewhere ==
    /\ \A a \in InUse : credentials = a \/ pending.agent = a \/ InHand(a)
    /\ pending # NoJournal => InUse \subseteq {pending.agent}
    /\ Matched

Identity == Exclusive /\ KeyIsSomewhere /\ \A p \in Locking : Holds(proc[p])

IInv == TypeOK /\ Recorded /\ (~crossed => Identity)

\* Every address that the server has, a command found there or a file notes was in force.
Addressed ==
    /\ active # NoAddress => active \in inForce
    /\ declared # NoAddress => declared \in inForce
    /\ \A p \in Processes : At(p, "note") => proc[p].address \in inForce
=============================================================================
