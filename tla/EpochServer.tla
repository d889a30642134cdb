----------------------------- MODULE EpochServer -----------------------------
(***************************************************************************)
(* The authorization server as the mining plane of this repository uses    *)
(* it: the target epoch of the configured slot, which installation of the  *)
(* participant each epoch is bound to, and the ledger of observations it   *)
(* accepted.  External code: every definition here is what the callers in  *)
(* src/ (driver.go, capability.go, submit.go) rely on.                     *)
(***************************************************************************)
EXTENDS Naturals

CONSTANTS MaxEpoch,      \* bound: the last epoch the server opens
          RecordIds      \* client_record_ids, the server's idempotency keys

ASSUME MaxEpochAssumption == MaxEpoch \in Nat

VARIABLES target,        \* the current target epoch, NoEpoch before the first
          holder,        \* the installation each epoch is bound to
          ledger         \* the client_record_ids accepted as observations

serverVars == <<target, holder, ledger>>

Epochs   == 1 .. MaxEpoch
NoEpoch  == 0
Bindings == {"free", "here", "elsewhere"}

ServerTypeOK ==
    /\ target \in Epochs \cup {NoEpoch}
    /\ holder \in [Epochs -> Bindings]
    /\ ledger \in SUBSET RecordIds

ServerInit ==
    /\ target = NoEpoch
    /\ holder = [e \in Epochs |-> "free"]
    /\ ledger = {}

\* Targets only move forward.
OpenNextTarget ==
    /\ target < MaxEpoch
    /\ target' = target + 1
    /\ UNCHANGED <<holder, ledger>>

\* Another installation of the same participant is bound to the target: it
\* joined first, or took over a binding this installation had.
BindElsewhere ==
    /\ target # NoEpoch
    /\ holder[target] # "elsewhere"
    /\ holder' = [holder EXCEPT ![target] = "elsewhere"]
    /\ UNCHANGED <<target, ledger>>

\* This installation's enrollment for e is accepted.
BindHere(e) ==
    /\ e = target
    /\ holder[e] = "free"
    /\ holder' = [holder EXCEPT ![e] = "here"]

\* ACCEPTED, or ALREADY_ACCEPTED when the key is on the ledger.
Accept(id) == ledger' = ledger \cup {id}
=============================================================================
