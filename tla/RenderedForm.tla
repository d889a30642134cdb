----------------------------- MODULE RenderedForm -----------------------------
(***************************************************************************)
(* Which commands Cursor's hook answers for: matchRendered and splitForm   *)
(* (rendered_form.go).  A form is the text the skill teaches, with the     *)
(* binary, the configuration and the body left open; a command matches it  *)
(* when every literal run is there, in order, and nothing is left over.    *)
(*                                                                         *)
(* Bytes are the members of a small alphabet.  How a path is quoted, whose *)
(* binary and configuration it is and whether the body is one request are  *)
(* asked of the holes after the match and are left out.                    *)
(***************************************************************************)
EXTENDS Naturals, Sequences, FiniteSetsExt

Alphabet == {"x", "y"}
Words(n) == UNION {[1 .. k -> Alphabet] : k \in 0 .. n}

\* splitForm: a hole between any two literals, the binary in the first.  The first
\* literal may be empty, and so may the last: the form then ends with a hole.
Forms == {<<a, b>> : a \in Words(1), b \in Words(2)}
         \cup {<<a, b, c>> : a \in Words(1), b \in Words(2) \ {<<>>}, c \in Words(1)}

StandsAt(lit, cmd, i) == i + Len(lit) <= Len(cmd) /\ SubSeq(cmd, i + 1, i + Len(lit)) = lit
Occurrences(lit, cmd, from) == {i \in from .. Len(cmd) : StandsAt(lit, cmd, i)}

Failed == 100        \* past the end of every command

\* A hole ends at the first occurrence of the literal after it, and the last one, if
\* nothing follows, at the end.
EndOfHole(form, cmd, k, from) ==
    LET ends == IF k = Len(form) /\ form[k] = <<>> THEN {Len(cmd)} \ (0 .. from - 1)
                ELSE Occurrences(form[k], cmd, from)
    IN IF ends = {} THEN Failed ELSE Min(ends)

\* How many bytes are before the k-th literal.
Starts(form, cmd) ==
    LET start[k \in 1 .. Len(form)] ==
            IF k = 1 THEN IF StandsAt(form[1], cmd, 0) THEN 0 ELSE Failed
            ELSE EndOfHole(form, cmd, k, start[k - 1] + Len(form[k - 1]))
    IN start

Binary(form, start) == start[2] > start[1] + Len(form[1])
Whole(form, cmd, start) == start[Len(form)] + Len(form[Len(form)]) = Len(cmd)

MatchRendered(form, cmd) ==
    LET start == Starts(form, cmd) IN Whole(form, cmd, start) /\ Binary(form, start)

-----------------------------------------------------------------------------
\* The ways to read a command as the form with something in its holes ...
Readings(form, cmd) ==
    {r \in [1 .. Len(form) -> 0 .. Len(cmd)] :
        /\ r[1] = 0 /\ Whole(form, cmd, r) /\ Binary(form, r)
        /\ \A k \in 1 .. Len(form) : StandsAt(form[k], cmd, r[k])
        /\ \A k \in 2 .. Len(form) : r[k - 1] + Len(form[k - 1]) <= r[k]}

\* ... of which the shell takes the one where no hole holds what ends it.
AsTheShellReads(form, cmd, r) ==
    \A k \in 2 .. Len(form) :
        \/ k = Len(form) /\ form[k] = <<>>
        \/ \A i \in r[k - 1] + Len(form[k - 1]) .. r[k] - 1 : ~StandsAt(form[k], cmd, i)

\* A command is recognised exactly when the shell would read it as the form, and with
\* what the shell would find in the holes: a body that contains its own terminator is
\* refused, never cut short.
OnlyWhatIsTaught ==
    \A form \in Forms, cmd \in Words(5) :
        {r \in Readings(form, cmd) : AsTheShellReads(form, cmd, r)}
            = IF MatchRendered(form, cmd) THEN {Starts(form, cmd)} ELSE {}
=============================================================================
