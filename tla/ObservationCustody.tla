-------------------------- MODULE ObservationCustody --------------------------
(***************************************************************************)
(* What the delivery plane promises about a served search, without files,  *)
(* flushes or epochs: once a search reported its observation recorded, the *)
(* evidence is held by this installation, or accepted by the server, or    *)
(* was given up: another installation holds its epoch, or a refused record *)
(* was filed away before any name of it had reached the disk.              *)
(***************************************************************************)
CONSTANT Searches

VARIABLES recorded,     \* searches whose intake record was durably written
          held,         \* searches whose evidence is on this machine
          accepted,     \* searches whose observation the server accepted
          givenup       \* searches given up

vars == <<recorded, held, accepted, givenup>>

\* Legacy searches were recorded by an earlier release.
Init ==
    /\ recorded \in SUBSET Searches
    /\ held = recorded
    /\ accepted = {}
    /\ givenup = {}

Record(s) ==
    /\ recorded' = recorded \cup {s}
    /\ held' = held \cup {s}
    /\ UNCHANGED <<accepted, givenup>>

\* The evidence of a search that reported a failure may be on disk all the same.
HoldUnreported(s) ==
    /\ held' = held \cup {s}
    /\ UNCHANGED <<recorded, accepted, givenup>>

\* The server accepts only evidence this installation still holds.
AcceptHeld(s) ==
    /\ s \in held
    /\ accepted' = accepted \cup {s}
    /\ UNCHANGED <<recorded, held, givenup>>

Release(s) ==
    /\ s \in accepted
    /\ held' = held \ {s}
    /\ UNCHANGED <<recorded, accepted, givenup>>

GiveUp(s) ==
    /\ s \in held
    /\ givenup' = givenup \cup {s}
    /\ held' \in {held, held \ {s}}
    /\ UNCHANGED <<recorded, accepted>>

\* A loss of power undoes removals that had not reached the disk, and may lose
\* what was never reported as recorded; it loses nothing else.
LosePower ==
    /\ held' \in SUBSET Searches
    /\ recorded \subseteq held' \cup accepted \cup givenup
    /\ UNCHANGED <<recorded, accepted, givenup>>

Next ==
    \/ \E s \in Searches : Record(s) \/ HoldUnreported(s) \/ AcceptHeld(s)
                              \/ Release(s) \/ GiveUp(s)
    \/ LosePower

Spec == Init /\ [][Next]_vars

\* No recorded observation is lost.
NeverLost == recorded \subseteq held \cup accepted \cup givenup
=============================================================================
