---------------------------- MODULE ResponseScanner ----------------------------
(***************************************************************************)
(* The structural scanner of a search response (scanner.go) and what the   *)
(* search parser reports of it (parser.go).  The scanner never has the     *)
(* document: it reads on with a stack, the node a key resolved to and a    *)
(* table of providers by position, and keeps what stands at three paths.   *)
(*                                                                         *)
(* A token is one step: a key or a string, a number and a literal are not  *)
(* put together from bytes, and white space is left out.  "bad" is a       *)
(* string that is too long, ill-formed or looks like a credential.  A top  *)
(* number is complete at once, not only at the end.                        *)
(***************************************************************************)
LOCAL INSTANCE Integers
LOCAL INSTANCE Sequences

CONSTANTS Slots,      \* maxCandidateSlots
          MaxDepth    \* maxDepth

NumberOf == [t \in {"0", "1", "2"} |-> CASE t = "0" -> 0 [] t = "1" -> 1 [] OTHER -> 2]
Integral == DOMAIN NumberOf
Numbers  == Integral \cup {"-1", "1.5"}
Literals == {"null"}
Marks    == {"{", "}", "[", "]", ",", ":"}
IsString(t) == t \notin Numbers \cup Literals \cup Marks

NoChosen == -1

\* The whitelist; "none" is an unknown subtree.
Child(node, key) ==
    IF \/ node = "root" /\ key \in {"request_id", "chosen", "candidates"}
       \/ node = "item" /\ key = "provider"
    THEN key ELSE "none"
AnyIndex(node) == IF node = "candidates" THEN "item" ELSE "none"

Fresh == [state |-> "value", stack |-> <<>>, pending |-> "none", table |-> [i \in 0 .. Slots - 1 |-> ""],
          over |-> FALSE, id |-> "", chosen |-> NoChosen, provider |-> "", degraded |-> FALSE,
          abandoned |-> "", complete |-> FALSE]

Abandon(s, why) == [s EXCEPT !.state = "dead", !.abandoned = why]
Malformed(s)    == Abandon(s, "malformed")

Depth(s)    == Len(s.stack)
Top(s)      == s.stack[Depth(s)]
InObject(s) == s.stack # <<>> /\ ~Top(s).array

\* takePending, for the value that starts.
Node(s) == CASE s.stack = <<>> -> "root"
             [] InObject(s)    -> s.pending
             [] OTHER          -> AnyIndex(Top(s).node)
Taken(s) == IF InObject(s) THEN [s EXCEPT !.pending = "none"] ELSE s

Push(s, array) ==
    IF Depth(s) >= MaxDepth THEN Abandon(s, "depth")
    ELSE [Taken(s) EXCEPT !.stack = Append(@, [array |-> array, node |-> Node(s), index |-> 0]),
                          !.state = IF array THEN "arrayFirst" ELSE "keyOrEnd"]

\* endScalar and pop: on in the enclosing container.
EndScalar(s) ==
    [s EXCEPT !.state = CASE s.stack = <<>> -> "done" [] InObject(s) -> "objectNext" [] OTHER -> "arrayNext"]
Pop(s) == EndScalar([s EXCEPT !.stack = SubSeq(@, 1, Depth(s) - 1)])

\* The position in the innermost array around, or -1.
EnclosingArrayIndex(s) ==
    LET arrays == {d \in 1 .. Depth(s) : s.stack[d].array}
    IN IF arrays = {} THEN -1 ELSE s.stack[CHOOSE d \in arrays : \A e \in arrays : e <= d].index

\* Mutant: the last provider of a position wins.
PutLast(s, value) ==
    LET i == EnclosingArrayIndex(s)
    IN IF i \notin 0 .. Slots - 1 THEN [s EXCEPT !.over = TRUE] ELSE [s EXCEPT !.table[i] = value]

\* putCandidateProvider.
Put(s, value) ==
    LET i == EnclosingArrayIndex(s)
    IN IF i \notin 0 .. Slots - 1 THEN [s EXCEPT !.over = TRUE]
       ELSE IF s.table[i] # "" THEN s ELSE [s EXCEPT !.table[i] = value]

\* commitStringCapture.
Capture(s, node, value) ==
    CASE node \notin {"request_id", "provider"} -> s
      [] value = "bad"                          -> [s EXCEPT !.degraded = TRUE]
      [] node = "request_id" -> [s EXCEPT !.id = IF @ = "" THEN value ELSE @]
      [] OTHER               -> Put(s, value)

\* endNumber; -1 is the only number with a sign that has a meaning.
Count(s, node, n) ==
    CASE node # "chosen" -> s
      [] n \in Integral  -> [s EXCEPT !.chosen = NumberOf[n]]
      [] n = "-1"        -> [s EXCEPT !.chosen = NoChosen]
      [] OTHER           -> [s EXCEPT !.degraded = TRUE]

Value(s, t) ==
    CASE t = "{"         -> Push(s, FALSE)
      [] t = "["         -> Push(s, TRUE)
      [] IsString(t)     -> EndScalar(Capture(Taken(s), Node(s), t))
      [] t \in Numbers   -> EndScalar(Count(Taken(s), Node(s), t))
      [] t \in Literals  -> EndScalar(s)
      [] OTHER           -> Malformed(s)

\* The child is resolved when the key ends.
Key(s, t) ==
    IF IsString(t)
    THEN [s EXCEPT !.state = "colon", !.pending = Child(Top(s).node, t), !.degraded = @ \/ t = "bad"]
    ELSE Malformed(s)

\* Mutant: elements are not counted.
AdvanceNothing(s) == s

AdvanceArrayIndex(s) == [s EXCEPT !.stack[Depth(s)].index = @ + 1]

Step(s, t) ==
    CASE s.state = "value"      -> Value(s, t)
      [] s.state = "arrayFirst" -> IF t = "]" THEN Pop(s) ELSE Value(s, t)
      [] s.state = "keyOrEnd"   -> IF t = "}" THEN Pop(s) ELSE Key(s, t)
      [] s.state = "key"        -> Key(s, t)
      [] s.state = "colon" /\ t = ":"      -> [s EXCEPT !.state = "value"]
      [] s.state = "objectNext" /\ t = "," -> [s EXCEPT !.state = "key"]
      [] s.state = "objectNext" /\ t = "}" -> Pop(s)
      [] s.state = "arrayNext" /\ t = ","  -> [AdvanceArrayIndex(s) EXCEPT !.state = "value"]
      [] s.state = "arrayNext" /\ t = "]"  -> Pop(s)
      [] s.state = "dead"       -> s
      [] OTHER                  -> Malformed(s)

Feed(text) ==
    LET s[i \in 0 .. Len(text)] == IF i = 0 THEN Fresh ELSE Step(s[i - 1], text[i]) IN s[Len(text)]

ResolveChosen(s) ==
    CASE s.chosen < 0      -> s
      [] s.chosen >= Slots -> [s EXCEPT !.degraded = @ \/ s.over]
      [] OTHER             -> [s EXCEPT !.provider = s.table[s.chosen]]

\* finish.
Finish(s) ==
    LET r == ResolveChosen(s)
    IN CASE s.state = "done" -> [r EXCEPT !.complete = TRUE]
         [] s.state = "dead" -> r
         [] OTHER            -> Malformed(r)

\* finalize: the header's id is preferred to the body's.
Report(text, header, disconnected) ==
    LET r == Finish(Feed(text))
    IN [id       |-> IF header = "" THEN r.id ELSE header,
        conflict |-> header # "" /\ r.id # "" /\ r.id # header,
        provider |-> r.provider,
        degraded |-> r.degraded,
        outcome  |-> CASE disconnected     -> "disconnect"
                       [] r.abandoned # "" -> r.abandoned
                       [] OTHER            -> "done"]

-----------------------------------------------------------------------------
(* What is a document: its sentences of n tokens and at most d levels.     *)

Sentences(length) ==
    LET Join(A, mark, B) == {a \o <<mark>> \o b : a \in A, b \in B}
        Around(open, A, close) == {<<open>> \o a \o <<close>> : a \in A}
        g[kind \in {"value", "list", "members"}, d \in 0 .. MaxDepth, n \in 0 .. length] ==
            CASE kind = "value" ->
                   (IF n = 1 THEN {<<"name">>, <<"0">>} ELSE {})
                   \cup (IF n = 2 /\ d > 0 THEN {<<"[", "]">>, <<"{", "}">>} ELSE {})
                   \cup (IF n > 2 /\ d > 0
                         THEN Around("[", g["list", d - 1, n - 2], "]")
                              \cup Around("{", g["members", d - 1, n - 2], "}")
                         ELSE {})
              [] kind = "list" ->
                   g["value", d, n]
                   \cup UNION {Join(g["value", d, k], ",", g["list", d, n - 1 - k]) : k \in 1 .. n - 2}
              [] OTHER ->
                   IF n < 3 THEN {}
                   ELSE Join({<<"name">>}, ":", g["value", d, n - 2])
                        \cup UNION {Join(Join({<<"name">>}, ":", g["value", d, k]), ",",
                                         g["members", d, n - 3 - k]) : k \in 1 .. n - 4}
    IN UNION {g["value", MaxDepth, n] : n \in 1 .. length}

Alphabet == Marks \cup {"name", "0"}

\* The texts of up to n tokens the scanner has not given up on, with its state.
Alive(n) ==
    LET level[k \in 0 .. n] ==
            IF k = 0 THEN {[text |-> <<>>, scan |-> Fresh]}
            ELSE {x \in {[text |-> Append(w.text, t), scan |-> Step(w.scan, t)] :
                            w \in level[k - 1], t \in Alphabet} : x.scan.state # "dead"}
    IN UNION {level[k] : k \in 0 .. n}

-----------------------------------------------------------------------------
(* What a response says: members of one object, each with its meaning.     *)

Silent == [text |-> <<>>, id |-> "", says |-> FALSE, chosen |-> NoChosen, list |-> <<>>, bad |-> FALSE]

Candidate(text, provider, bad) == [text |-> text, provider |-> provider, bad |-> bad]
Of(name) == Candidate(<<"{", "provider", ":", name, "}">>, name, FALSE)
Candidates ==
    {Of("p"), Of("q"), Candidate(<<"{", "}">>, "", FALSE),
     Candidate(<<"{", "answer", ":", "[", "0", ",", "1", "]", ",", "provider", ":", "p", "}">>, "p", FALSE),
     Candidate(<<"{", "provider", ":", "bad", "}">>, "", TRUE),
     Candidate(<<"[", "{", "provider", ":", "q", "}", "]">>, "", FALSE)}

Join(items) ==
    LET j[i \in 0 .. Len(items)] ==
            IF i = 0 THEN <<>>
            ELSE j[i - 1] \o (IF i = 1 THEN <<>> ELSE <<",">>) \o items[i].text
    IN j[Len(items)]

Listing(items) == [Silent EXCEPT !.text = <<"candidates", ":", "[">> \o Join(items) \o <<"]">>,
                                 !.list = items, !.bad = \E i \in DOMAIN items : items[i].bad]
Choosing(n) == [Silent EXCEPT !.text = <<"chosen", ":", n>>, !.says = n \in Integral \cup {"-1"},
                              !.chosen = IF n \in Integral THEN NumberOf[n] ELSE NoChosen,
                              !.bad = n = "1.5"]
Naming(name) == [Silent EXCEPT !.text = <<"request_id", ":", name>>, !.bad = name = "bad",
                               !.id = IF name \in {"bad", "null"} THEN "" ELSE name]
Other(text)  == [Silent EXCEPT !.text = <<"usage", ":">> \o text]

Lists    == UNION {[1 .. n -> Candidates] : n \in 0 .. 2} \cup [1 .. 3 -> {Of("p"), Of("q")}]
Listings == {Listing(items) : items \in Lists}
Choices  == {Choosing(n) : n \in Numbers \cup {"name"}}
Others   == {Naming("a"), Naming("bad"), Naming("null"), Choosing("1"), Listing(<<Of("q"), Of("q")>>),
             Other(<<"{", "chosen", ":", "1", "}">>), Other(<<"[", "[", "]", ",", "null", "]">>)}

Documents == {<<c, l, o>> : c \in Choices, l \in Listings, o \in Others}
             \cup {<<o, l, c>> : c \in Choices, l \in Listings, o \in Others}
             \cup {<<l, c, o>> : c \in Choices, l \in Listings, o \in Others}
             \cup {<<a, b, l>> : a, b \in Others, l \in Listings}
Text(doc) == <<"{">> \o Join(doc) \o <<"}">>

\* The first that passes the test, or Silent, and the last.
First(doc, Is(_)) == LET N == {i \in DOMAIN doc : Is(doc[i])}
                     IN IF N = {} THEN Silent ELSE doc[CHOOSE i \in N : \A j \in N : i <= j]
Last(doc, Is(_))  == LET N == {i \in DOMAIN doc : Is(doc[i])}
                     IN IF N = {} THEN Silent ELSE doc[CHOOSE i \in N : \A j \in N : j <= i]

Chosen(doc) == Last(doc, LAMBDA m : m.says).chosen

\* Of a repeated list the first with a provider at that place counts.
ProviderAt(doc, i) ==
    LET Has(m) == i < Len(m.list) /\ m.list[i + 1].provider # ""
        m      == First(doc, Has)
    IN IF m = Silent THEN "" ELSE m.list[i + 1].provider

Beyond(doc) == \E k \in DOMAIN doc : \E i \in DOMAIN doc[k].list :
                  i > Slots /\ doc[k].list[i].provider # ""

Meaning(doc) ==
    LET c == Chosen(doc)
    IN [id       |-> First(doc, LAMBDA m : m.id # "").id,
        conflict |-> FALSE,
        provider |-> IF c \in 0 .. Slots - 1 THEN ProviderAt(doc, c) ELSE "",
        degraded |-> (\E i \in DOMAIN doc : doc[i].bad) \/ (c >= Slots /\ Beyond(doc)),
        outcome  |-> "done"]

-----------------------------------------------------------------------------
(* The scanner completes exactly the documents that nest no deeper than    *)
(* its bound: nothing is reported as done that was cut short, ran on or    *)
(* was not closed the way it was opened.                                   *)
OnlyDocuments ==
    LET length == 10
    IN {x.text : x \in {y \in Alive(length) : Finish(y.scan).complete}} = Sentences(length)

(* A complete response is reported with the provider at the chosen place   *)
(* of its candidates, in whatever order and however often its fields come, *)
(* and with nothing that stands anywhere else; a choice that was lost      *)
(* degrades the observation.                                               *)
NamesTheChosen == \A doc \in Documents : Report(Text(doc), "", FALSE) = Meaning(doc)

(* The response is the one that was asked for: of two ids the header's is  *)
(* reported and the difference is recorded; whoever left has a client      *)
(* disconnect reported whatever was read.                                  *)
SameRequest ==
    \A l \in Listings, header \in {"", "a", "b"} :
        LET doc == Report(Text(<<l, Naming("a")>>), header, FALSE)
            cut == Report(<<"{", "request_id", ":", "a">>, header, TRUE)
        IN /\ doc.id = IF header = "b" THEN "b" ELSE "a"
           /\ cut.outcome = "disconnect" /\ {doc.conflict, cut.conflict} = {header = "b"}
=============================================================================
