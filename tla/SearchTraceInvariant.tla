-------------------------- MODULE SearchTraceInvariant --------------------------
(***************************************************************************)
(* The inductive invariant behind TraceIsOwn, CallIsExact and              *)
(* NeverCountedTwice: what may be held for a file, on disk, in a temporary *)
(* file or in a hook that has read it, and what a hook or a search carries *)
(* from one step to the next.                                              *)
(***************************************************************************)
EXTENDS SearchTrace

Sidecars ==
    [harness : {"claude-code", "cursor"}, session : Sessions, call : 0 .. MaxEvents,
     window : Nat, text : Sessions \cup {Absent}]
Environments ==
    [bridge : Envelopes \cup {Absent}, harness : {Absent, "cursor"},
     lineage : Lineages \cup {Absent}, session : Cursor \cup {Absent}]
Hooks(x) ==
    [pc : {"idle", "begin", "apply", "rename", "search", "posted"},
     does : {"nothing", "start", "thought", "call", "save"} \cup Phases,
     s : Sessions \cup {Absent}, call : 0 .. MaxEvents, file : Files \cup {Absent},
     base : {x}, env : Environments, sent : Envelopes \cup {Absent}]
Temps(x) == [file : Files, pid : Pids, old : BOOLEAN, data : {x}]

Types ==
    /\ files = [f \in Files |-> files[f]] /\ aged \subseteq Files
    /\ \A t \in temps : t \in Temps(t.data) /\ t.data # Absent
    /\ cwd \in [Sessions -> Dirs]
    /\ declares \in [Cursor -> Lineages \cup {Absent}]
    /\ shell \in [Claude -> Envelopes \cup {Absent}]
    /\ hook = [p \in Pids |-> hook[p]]
    /\ \A p \in Pids : hook[p] \in Hooks(hook[p].base)
    /\ compacted \in [Sessions -> Nat]
    /\ phase \in [Sessions -> {"none", "compacting"}]
    /\ events \in 0 .. MaxEvents

\* Whatever may become, or be taken for, the content of a file.
HeldFor(f) ==
    ({files[f]} \cup {t.data : t \in {u \in temps : u.file = f}}
     \cup {hook[p].base : p \in {q \in Pids : hook[q].pc = "apply" /\ hook[q].file = f}})
    \ {Absent}

\* The hooks of compactions that no file counts yet.
Waiting(p, does) == hook[p].pc \in {"begin", "apply"} /\ hook[p].does = does
Uncounted(s) == \E p \in Pids : hook[p].s = s /\ Waiting(p, "pre")
Closing(s) ==
    phase[s] = "compacting" \/ \E p \in Pids : hook[p].s = s /\ Waiting(p, "post")
Pending == {p \in Pids : hook[p].s \in Cursor /\ Waiting(p, "pre")}

\* Of Cursor's sessions only one that shares a file is found in a workspace's; a
\* conversation's holds its own narration and its own compactions.
Sound(f, d) ==
    /\ d \in Sidecars
    /\ d.harness = IF d.session \in Claude THEN "claude-code" ELSE "cursor"
    /\ d.window + Cardinality(Pending) <= events
    /\ \A x \in Dirs : f = Ws(x) /\ d.session \in Cursor => Shares(d.session)
    /\ \A s \in Cursor : f = Conv(s) =>
         /\ d.session = s /\ d.text \in {Absent, s}
         /\ d.window <= compacted[s] /\ (Uncounted(s) => d.window < compacted[s])

\* There is room for the compaction that is still to be counted.
Counted(w) ==
    /\ w \in Windows
    /\ \A s \in Claude :
         /\ Entry(w, s).gen <= compacted[s]
         /\ Uncounted(s) \/ (Closing(s) /\ ~Entry(w, s).open) => Entry(w, s).gen < compacted[s]

Stored ==
    /\ \A f \in Lineages : \A d \in HeldFor(f) : Sound(f, d)
    /\ \A w \in HeldFor(Window) : Counted(w)

\* A hook of a compaction is alone with its session, and so is a Claude Code call.
OneAtATime ==
    /\ \A p, q \in Pids : hook[p].s = hook[q].s =>
         /\ hook[p].does \in Phases /\ hook[q].does \in Phases => p = q
         /\ hook[p].does = "call" /\ hook[q].does = "call" /\ hook[p].s \in Claude => p = q
    /\ \A s \in Sessions : phase[s] = "compacting" => s \in Claude /\ ~Busy(s, {"post", "seed"})
    /\ \A s \in Sessions : Uncounted(s) \/ Closing(s) => 0 < compacted[s]
    /\ IsFiniteSet(Pending)
    /\ Cardinality(Pending) <= events
    /\ \A s \in Claude : compacted[s] + Cardinality(Pending) <= events

\* What a hook may write.
Aims(p) ==
    LET s == hook[p].s IN
    \/ HooksWindow(p) /\ hook[p].file = Window
    \/ ~HooksWindow(p) /\ s \in Claude /\ \E x \in Dirs : hook[p].file = Ws(x)
    \/ s \in Cursor /\ hook[p].file = Conv(s)
    \/ s \in Cursor /\ Shares(s) /\ \E x \in Dirs : hook[p].file = Ws(x)

\* What identifies the session s.
Own(s, t) ==
    /\ t.session = s /\ t.text \in {Absent, s} /\ t.window <= compacted[s]
    /\ t.harness \in {"cli", IF s \in Claude THEN "claude-code" ELSE "cursor"}

\* What a call's command is given.
Given(p) ==
    LET s == hook[p].s
        e == hook[p].env
    IN \/ e = NoEnv
       \/ s \in Cursor /\ declares[s] # Absent /\ e = Prefix(s)
       \/ /\ s \in Claude /\ e = [NoEnv EXCEPT !.bridge = e.bridge]
          /\ e.bridge \in Envelopes /\ Own(s, e.bridge) /\ e.bridge.call = hook[p].call

\* What goes out with a request.
Sends(p) ==
    LET s == hook[p].s IN
    /\ hook[p].sent \in Envelopes
    /\ Shares(s) \/ Own(s, hook[p].sent)
    /\ s \in Claude => hook[p].sent.call \in {0, hook[p].call}

Does(s) == IF s \in Claude THEN {"call"} \cup Phases
           ELSE {"start", "thought", "call", "pre", "save"}

AtWork(p) ==
    /\ hook[p].pc = "idle" => hook[p] = IdleHook
    /\ hook[p].pc # "idle" => hook[p].s \in Sessions /\ hook[p].does \in Does(hook[p].s)
    /\ hook[p].pc \in {"search", "posted"} => hook[p].does = "call"
    /\ hook[p].does = "save" => hook[p].pc = "rename" /\ hook[p].file \in Lineages
    /\ hook[p].pc \in {"apply", "rename"} /\ hook[p].does # "save" => Aims(p)
    /\ hook[p].pc = "apply" /\ HooksWindow(p) => hook[p].base # Absent
    /\ hook[p].pc \in {"rename", "search"} /\ hook[p].does = "call" => Given(p)
    /\ hook[p].pc = "posted" \/ hook[p].does = "save" => Sends(p)

\* The shell holds an envelope for as long as its command runs.
Shells == \A s \in Claude : shell[s] # Absent =>
    \E p \in Pids : hook[p].s = s /\ hook[p].pc = "posted"

Declared == \A s \in Cursor : declares[s] \in {Absent, Conv(s)} \cup {Ws(x) : x \in Dirs}

TraceIInv ==
    /\ Apart /\ Types /\ Stored /\ OneAtATime /\ Shells /\ Declared
    /\ \A p \in Pids : AtWork(p)
=============================================================================
