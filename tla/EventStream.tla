------------------------------ MODULE EventStream ------------------------------
(***************************************************************************)
(* The framer of a streamed response (sse.go).  It is fed byte by byte and *)
(* keeps no event: the data of an event runs straight into a scanner that  *)
(* is reset at its first byte.  What it reports is compared with a reading *)
(* of the whole stream by lines and events.                                *)
(*                                                                         *)
(* A byte is one of a few kinds.  "data" is the field name and "M" the     *)
(* marker [DONE], each as one byte; "x" is any other.  "{" "a" "}" is a    *)
(* document with the id a, "{" "e" "}" an error; "D" nests too deep in it. *)
(* Only the id stands for the fields that are merged: model is merged as   *)
(* it is; the last usage and the first finish reason are left out.         *)
(***************************************************************************)
LOCAL INSTANCE Integers
LOCAL INSTANCE Sequences
LOCAL INSTANCE FiniteSetsExt
LOCAL INSTANCE SequencesExt

CONSTANTS MaxEventBytes,   \* bytes of data read of one event
          MaxEvents,       \* events of one stream
          ClassifyBytes    \* classifyBytes

Space    == {"SP", "LF"}
Contents == {"a", "b", "e"}

\* The scanner, as far as a stream needs it.
Blank == [state |-> "start", id |-> ""]
ScanByte(s, c) ==
    CASE c \in Space \/ s.state \in {"deep", "malformed"} -> s
      [] s.state = "start" /\ c = "{"           -> [s EXCEPT !.state = "open"]
      [] s.state = "open" /\ c \in Contents     -> [state |-> "named", id |-> c]
      [] s.state = "named" /\ c = "}"           -> [s EXCEPT !.state = "whole"]
      [] s.state \in {"start", "open"} /\ c = "D" -> [s EXCEPT !.state = "deep"]
      [] OTHER                                  -> [s EXCEPT !.state = "malformed"]

NoEvent == [hasData |-> FALSE, json |-> FALSE, skipped |-> FALSE, bytes |-> 0, continuation |-> FALSE]

Fresh == [state |-> "lineStart", blank |-> TRUE, field |-> <<>>, event |-> NoEvent, classify |-> <<>>,
          classifying |-> FALSE, scan |-> Blank, events |-> 0, prevCR |-> FALSE, done |-> FALSE,
          error |-> FALSE, abort |-> "", id |-> "", conflict |-> FALSE, degraded |-> FALSE]

Ended(f) == f.abort # "" \/ f.done \/ f.error

Skip(f) == [f EXCEPT !.event.skipped = TRUE, !.degraded = TRUE, !.classifying = FALSE]

\* The line feed between two lines of an event's data is fed to the scanner.
BeginDataLine(f) ==
    LET first == ~f.event.json /\ ~f.event.skipped /\ ~f.event.continuation
    IN [f EXCEPT !.event.hasData = TRUE, !.event.continuation = TRUE,
                 !.scan = IF f.event.json /\ f.event.continuation THEN ScanByte(@, "LF") ELSE @,
                 !.classifying = @ \/ first, !.classify = IF first THEN <<>> ELSE @]

DataByte(f0, c) ==
    LET f == [f0 EXCEPT !.event.bytes = @ + 1]
    IN CASE f.event.bytes > MaxEventBytes -> IF f.event.skipped THEN f ELSE Skip(f)
         [] f.event.skipped               -> f
         [] f.classifying /\ f.classify = <<>> /\ c = "{" ->
              [f EXCEPT !.classifying = FALSE, !.event.json = TRUE, !.scan = ScanByte(Blank, c)]
         [] f.classifying /\ Len(f.classify) < ClassifyBytes -> [f EXCEPT !.classify = Append(@, c)]
         [] f.classifying                 -> Skip(f)
         [] f.event.json                  -> [f EXCEPT !.scan = ScanByte(@, c)]
         [] OTHER                         -> f

\* stepChar, for a byte that ends no line.
StepChar(f0, c) ==
    LET f == [f0 EXCEPT !.blank = FALSE]
        field == IF f.state = "lineStart" THEN <<>> ELSE f.field
    IN CASE f.state = "lineStart" /\ c = ":" -> [f EXCEPT !.state = "skip"]
         [] f.state \in {"lineStart", "field"} /\ c = ":" ->
              [f EXCEPT !.state = IF field = <<"data">> THEN "dataStart" ELSE "skip"]
         [] f.state \in {"lineStart", "field"} ->
              [f EXCEPT !.state = "field", !.field = Append(field, c)]
         [] f.state = "dataStart" ->
              LET g == [BeginDataLine(f) EXCEPT !.state = "data"]
              IN IF c = "SP" THEN g ELSE DataByte(g, c)
         [] f.state = "data" -> DataByte(f, c)
         [] OTHER            -> f

\* apply: the first id wins.
Merge(f, id) ==
    [f EXCEPT !.id = IF @ = "" THEN id ELSE @, !.conflict = @ \/ f.id \notin {"", id}]

\* Mutant: an event that could not be read ends the observation.
FinishAtFirst(f) ==
    IF ~f.event.hasData THEN f
    ELSE LET g == [f EXCEPT !.events = @ + 1, !.event = NoEvent]
         IN CASE g.events > MaxEvents      -> [g EXCEPT !.abort = "tooLarge"]
              [] ~f.event.json             -> g
              [] f.scan.state = "deep"     -> [g EXCEPT !.abort = "depth"]
              [] f.scan.state # "whole"    -> [g EXCEPT !.abort = "malformed"]
              [] f.scan.id = "e"           -> [g EXCEPT !.error = TRUE]
              [] OTHER                     -> Merge(g, f.scan.id)

FinishEvent(f) ==
    IF ~f.event.hasData THEN f
    ELSE LET g == [f EXCEPT !.events = @ + 1, !.event = NoEvent]
         IN CASE g.events > MaxEvents      -> [g EXCEPT !.abort = "tooLarge"]
              [] ~f.event.json             -> g
              [] f.scan.state = "deep"     -> [g EXCEPT !.abort = "depth"]
              [] f.scan.state # "whole"    -> [g EXCEPT !.degraded = TRUE]
              [] f.scan.id = "e"           -> [g EXCEPT !.error = TRUE]
              [] OTHER                     -> Merge(g, f.scan.id)

EndLine(f) ==
    LET decided == IF ~(f.state = "data" /\ f.classifying) THEN f
                   ELSE IF f.classify = <<"M">> THEN [f EXCEPT !.classifying = FALSE, !.done = TRUE]
                   ELSE Skip(f)
        g == [decided EXCEPT !.state = "lineStart", !.blank = TRUE]
    IN IF f.blank THEN FinishEvent(g) ELSE g

\* consume, byte by byte.
Consume(f, c) ==
    CASE Ended(f)                -> f
      [] f.prevCR /\ c = "LF"    -> [f EXCEPT !.prevCR = FALSE]
      [] c \in {"CR", "LF"}      -> [EndLine(f) EXCEPT !.prevCR = c = "CR"]
      [] OTHER                   -> [StepChar(f, c) EXCEPT !.prevCR = FALSE]

Feed(bytes) ==
    LET f[i \in 0 .. Len(bytes)] == IF i = 0 THEN Fresh ELSE Consume(f[i - 1], bytes[i])
    IN f[Len(bytes)]

\* finalize, at the first terminal event or at the end of the body.
Report(bytes, disconnected) ==
    LET f == Feed(bytes)
    IN [id       |-> f.id,
        conflict |-> f.conflict,
        degraded |-> f.degraded \/ (~Ended(f) /\ f.event.hasData),
        outcome  |-> CASE f.abort # "" -> f.abort
                       [] f.done       -> "done"
                       [] f.error      -> "errorEvent"
                       [] OTHER        -> IF disconnected THEN "disconnect" ELSE "eof"]

-----------------------------------------------------------------------------
(* The stream by lines.                                                    *)

\* A line ends at a CR, an LF or both.
Ends(bytes) == {i \in DOMAIN bytes : \/ bytes[i] = "CR"
                                     \/ bytes[i] = "LF" /\ (i = 1 \/ bytes[i - 1] # "CR")}
LineTo(bytes, i) ==
    LET before == {j \in Ends(bytes) : j < i}
        from   == IF before = {} THEN 1 ELSE Max(before) + 1
        second == before # {} /\ from < i /\ bytes[from] = "LF" /\ bytes[from - 1] = "CR"
    IN SubSeq(bytes, IF second THEN from + 1 ELSE from, i - 1)
Lines(bytes, I) ==
    LET ends == SetToSortSeq(I, <) IN [k \in DOMAIN ends |-> LineTo(bytes, ends[k])]

\* The values of the data lines; one with nothing after the colon does not count.
IsData(line) == Len(line) > 2 /\ line[1] = "data" /\ line[2] = ":"
Data(lines) ==
    LET found == SelectSeq(lines, IsData)
    IN [k \in DOMAIN found |-> SubSeq(found[k], IF found[k][3] = "SP" THEN 4 ELSE 3, Len(found[k]))]

Blanks(bytes) == {i \in Ends(bytes) : LineTo(bytes, i) = <<>>}
Previous(I, b) == {i \in I : i < b}
EventOf(bytes, b) ==
    LET P == Previous(Blanks(bytes), b)
    IN Data(Lines(bytes, {i \in Ends(bytes) : i < b /\ (P = {} \/ i > Max(P))}))

\* The data of the events that have any, and of the one the stream breaks off in.
Events(bytes) ==
    LET blanks == SetToSortSeq(Blanks(bytes), <)
    IN SelectSeq([k \in DOMAIN blanks |-> EventOf(bytes, blanks[k])], LAMBDA e : e # <<>>)
LastEvent(bytes)   == EventOf(bytes, Len(bytes) + 1)
LastLine(bytes)    == Data(<<LineTo(bytes, Len(bytes) + 1)>>)
BreaksOff(bytes)   == LastEvent(bytes) # <<>> \/ LastLine(bytes) # <<>>

Over(e)     == Len(FlattenSeq(e)) > MaxEventBytes
Payload(e)  == LET all == FlattenSeq(e)
               IN SelectSeq(SubSeq(all, 1, Min({Len(all), MaxEventBytes})), LAMBDA c : c # "SP")
IsDone(e)    == e # <<>> /\ e[1] = <<"M">>
IsJSON(e)    == e[1] # <<>> /\ e[1][1] = "{"
IsDeep(e)    == IsJSON(e) /\ SubSeq(Payload(e), 1, 2) = <<"{", "D">>
Has(e, c)    == IsJSON(e) /\ Payload(e) = <<"{", c, "}">>
IsGood(e)    == \E c \in Contents : Has(e, c)
Unreadable(e) == Over(e) \/ ~IsJSON(e)

\* The event that ends the observation, or the one after the last.
Final(events) ==
    Min({Len(events) + 1} \cup {k \in DOMAIN events :
          IsDone(events[k]) \/ k > MaxEvents \/ IsDeep(events[k]) \/ Has(events[k], "e")})

Meaning(bytes) ==
    LET events == Events(bytes)
        final  == Final(events)
        last   == IF final \in DOMAIN events THEN events[final] ELSE LastEvent(bytes)
        before == SubSeq(events, 1, final - 1)
        named  == SelectSeq(before, IsGood)
        outcome == CASE IsDone(last)                -> "done"
                     [] final \notin DOMAIN events  -> "eof"
                     [] final > MaxEvents           -> "tooLarge"
                     [] IsDeep(last)                -> "depth"
                     [] OTHER                       -> "errorEvent"
    IN [id       |-> IF named = <<>> THEN "" ELSE Payload(named[1])[2],
        conflict |-> \E k \in DOMAIN named : Payload(named[k])[2] # Payload(named[1])[2],
        degraded |-> \/ \E k \in DOMAIN before : Unreadable(before[k]) \/ ~IsGood(before[k])
                     \/ outcome \in {"tooLarge", "depth", "errorEvent"} /\ Unreadable(last)
                     \/ outcome = "eof" /\ BreaksOff(bytes),
        outcome  |-> outcome]

-----------------------------------------------------------------------------
(* Streams of lines, ended in every way, and cut short.                    *)

DataLine(value) == <<"data", ":", "SP">> \o value
LineTexts ==
    {<<>>, DataLine(<<"{", "a", "}">>), <<"data", ":", "{", "b", "}">>, DataLine(<<"{", "e", "}">>),
     DataLine(<<"{", "a">>), <<"data", ":", "}">>, DataLine(<<"M">>), DataLine(<<"x">>),
     DataLine(<<"x", "x", "x">>), DataLine(<<>>), <<"data", ":">>, <<":", "data">>,
     <<"x", ":", "{", "a", "}">>, DataLine(<<"{", "D">>),
     DataLine(<<"{", "a", "}", "SP", "SP", "SP">>)}

LineEnds == {<<"CR">>, <<"LF">>, <<"CR", "LF">>}
Streams ==
    {l1 \o e \o l2 \o e \o l3 \o e \o e \o l4 \o e \o e :
        l1, l2, l3 \in LineTexts, e \in LineEnds, l4 \in {DataLine(<<"{", "b", "}">>), DataLine(<<"M">>)}}
    \cup {l1 \o e \o f \o l2 \o e \o g : l1, l2 \in LineTexts, e, f, g \in LineEnds \cup {<<>>}}

-----------------------------------------------------------------------------
(* A stream is reported as its lines and events say, whichever way its     *)
(* lines end and wherever it breaks off: a document may run over several   *)
(* lines, an event that cannot be read costs only itself, what comes after *)
(* the marker or an error is not read, a partial event is not reported.    *)
ReadsTheStream == \A bytes \in Streams : Report(bytes, FALSE) = Meaning(bytes)
=============================================================================
