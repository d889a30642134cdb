------------------------------ MODULE Transcript ------------------------------
(***************************************************************************)
(* The narration a hook puts beside a search: currentAssistantText         *)
(* (hook.go), which reads the tail of the host's transcript.  The tail may *)
(* begin anywhere in a conversation and may go on after the call, as a     *)
(* resumed session's does.                                                 *)
(*                                                                         *)
(* An entry is what the function tells apart: a turn of the participant, a *)
(* record the host wrote for itself in answer to a tool call, a text of    *)
(* the assistant, the call that is pending (alone or after a text), another *)
(* call of the assistant.                                                  *)
(* A text stands for itself by its place in the tail; 0 is no text.        *)
(***************************************************************************)
EXTENDS Naturals, Sequences, FiniteSetsExt

Entries == {"turn", "injected", "text", "call", "textAndCall", "otherCall"}
Texts   == {"text", "textAndCall"}
Calls   == {"call", "textAndCall"}

\* Every tail of up to n entries: what a hook may find.
Tails(n) == UNION {[1 .. k -> Entries] : k \in 0 .. n}

LastOf(t, kinds, upTo) == Max({0} \cup {i \in 1 .. upTo : t[i] \in kinds})

\* A user turn the participant took: what a tool result or a skill's body is typed
\* as, but is not.
IsUserTurn == {"turn"}

\* Where the scan begins: at the entry that emits the pending call, else at the end.
Cutoff(t) == IF LastOf(t, Calls, Len(t)) = 0 THEN Len(t) ELSE LastOf(t, Calls, Len(t))

\* The scan goes back to the turn and not past it; without a turn it says nothing.
CurrentAssistantText(t) ==
    LET floor == LastOf(t, IsUserTurn, Cutoff(t))
        said  == LastOf(t, Texts, Cutoff(t))
    IN IF floor # 0 /\ said > floor THEN said ELSE 0

-----------------------------------------------------------------------------
\* A text led to the call: it is before it, in the turn the call was made in, whose
\* beginning is in the tail, and nothing was said after it.
LedTo(t, i, c) ==
    /\ i <= c /\ t[i] \in Texts
    /\ \E j \in 1 .. i : t[j] = "turn"
    /\ \A j \in i + 1 .. c : t[j] \notin {"turn"} \cup Texts

\* Of any tail the hook takes the text that led to the call it runs for, and none
\* when there is no such text: never the words of an earlier or a later turn.
NarrationLedToTheCall ==
    \A t \in Tails(5) :
        LET c == Cutoff(t) IN
        IF \E i \in 1 .. c : LedTo(t, i, c)
        THEN LedTo(t, CurrentAssistantText(t), c)
        ELSE CurrentAssistantText(t) = 0
=============================================================================
