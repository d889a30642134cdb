---------------------------- MODULE SearchTrace ----------------------------
(***************************************************************************)
(* Whose search it was: the hooks coding agents run around a search        *)
(* (hook.go), the files they leave their session in (miner.go), and what   *)
(* `search` makes of them and of its environment (search.go, searchTrace). *)
(*                                                                         *)
(* A Claude Code session hands each search its envelope in a variable on   *)
(* the command (the bridge). A Cursor conversation names a lineage file to *)
(* its later hooks, which put the name on the command. Hooks and searches  *)
(* are short processes of many sessions; they share files, take no lock,   *)
(* and fail open: a hook that cannot do its work does nothing.             *)
(*                                                                         *)
(* An identifier stands for itself (hashing is left out), a text for the   *)
(* session whose narration it is, a turn and call for one number, which is *)
(* the same for all of Cursor's. Transcript has how a text is chosen,      *)
(* RenderedForm which commands are ours. The sequence number a sidecar     *)
(* also carries is left out.                                               *)
(***************************************************************************)
EXTENDS Naturals, FiniteSets, Transcript, RenderedForm

CONSTANTS Claude, Cursor, \* sessions of each host
          Pids,          \* process ids
          Absent,        \* no file, no value
          MaxEvents,     \* bound: events the hosts deliver, and searches
          MaxMishaps     \* bound: failed renames, kills, half days passed

VARIABLES files,         \* the lineage files and the window state
          aged,          \* files last written over lineageMaxAge ago
          temps,         \* "<file>.<pid>.tmp"
          cwd,           \* the directory each session works in
          declares,      \* the lineage file a Cursor session's hooks were told
          shell,         \* a bridge left set in a session's PowerShell
          hook,          \* hooks and searches
          compacted,     \* ghost: compactions of each session
          phase,         \* the compaction a host is in the middle of
          events, mishaps \* the bounds' counters

traceVars == <<files, aged, temps, cwd, declares, shell, hook, compacted, phase, events, mishaps>>

Sessions == Claude \cup Cursor
Dirs == {"root", "package"}          \* a package inside a repository
Ws(d) == <<"workspace", d>>
Conv(s) == <<"conversation", s>>
Window == <<"window", "state">>
Lineages == {Ws(d) : d \in Dirs} \cup {Conv(s) : s \in Cursor}
Files == Lineages \cup {Window}

(* What a sidecar, an envelope and the window state are made of.           *)
Envelopes ==
    [harness : {"claude-code", "cursor", "cli"}, session : Sessions \cup {Absent},
     call : Nat, window : Nat, text : Sessions \cup {Absent}]
Windows == UNION {[D -> [gen : 0 .. MaxEvents, open : BOOLEAN]] : D \in SUBSET Claude}

(* A session is of one host, and nothing that is there is Absent.          *)
Apart ==
    /\ Claude \cap Cursor = {} /\ MaxEvents \in Nat
    /\ Absent \notin Sessions \cup Files /\ Absent \notin Envelopes /\ Absent \notin Windows

ASSUME ApartAssumption == Apart

NoEnv == [bridge |-> Absent, harness |-> Absent, lineage |-> Absent, session |-> Absent]
IdleHook == [pc |-> "idle", does |-> "nothing", s |-> Absent, call |-> 0, file |-> Absent,
             base |-> Absent, env |-> NoEnv, sent |-> Absent]

Closed == [gen |-> 0, open |-> FALSE]

(* The envelope, and the sidecar that holds one between searches.          *)
Envelope(h, s, c, w, x) == [harness |-> h, session |-> s, call |-> c, window |-> w, text |-> x]

InitTrace ==
    /\ files = [f \in Files |-> Absent]
    /\ aged = {} /\ temps = {}
    /\ cwd \in [Sessions -> Dirs]
    /\ declares = [s \in Cursor |-> Absent]
    /\ shell = [s \in Claude |-> Absent]
    /\ hook = [p \in Pids |-> IdleHook]
    /\ compacted = [s \in Sessions |-> 0]
    /\ phase = [s \in Sessions |-> "none"]
    /\ events = 0 /\ mishaps = 0

Event == events < MaxEvents /\ events' = events + 1
Misfortune == mishaps < MaxMishaps /\ mishaps' = mishaps + 1
Fortune == UNCHANGED mishaps
FilesStand == UNCHANGED <<files, aged, temps>>
World == UNCHANGED <<cwd, declares, compacted, phase, events>>

Begins(p, does, s) ==
    [IdleHook EXCEPT !.pc = "begin", !.does = does, !.s = s,
                     !.call = IF does # "call" THEN 0 ELSE IF s \in Claude THEN events + 1 ELSE 1]
Busy(s, does) == \E p \in Pids : hook[p].s = s /\ hook[p].does \in does

-----------------------------------------------------------------------------
(* What the hosts deliver.                                                 *)

(* Cursor's sessionStart names the conversation's own file and exports it  *)
(* to the session's later hooks; one that ran on 0.2.12 exported the       *)
(* workspace's. Its hook seeds the file.                                   *)
StartConversation(p, s) ==
    /\ hook[p].pc = "idle" /\ declares[s] = Absent /\ Event
    /\ \E f \in {Conv(s), Ws(cwd[s])} : declares' = [declares EXCEPT ![s] = f]
    /\ hook' = [hook EXCEPT ![p] = Begins(p, "start", s)]
    /\ FilesStand /\ Fortune /\ UNCHANGED <<cwd, shell, compacted, phase>>

(* A thought or a response, before a Cursor search.                        *)
Think(p, s) ==
    /\ hook[p].pc = "idle" /\ Event
    /\ hook' = [hook EXCEPT ![p] = Begins(p, "thought", s)]
    /\ FilesStand /\ Fortune /\ UNCHANGED <<cwd, declares, shell, compacted, phase>>

(* The agent runs our search: the hook in front of it, then the search.    *)
Call(p, s) ==
    /\ hook[p].pc = "idle" /\ Event
    /\ s \in Claude => ~Busy(s, {"call"})
    /\ hook' = [hook EXCEPT ![p] = Begins(p, "call", s)]
    /\ FilesStand /\ Fortune /\ UNCHANGED <<cwd, declares, shell, compacted, phase>>

(* Claude Code seeds its window entry at a session's start, and again when *)
(* the session is resumed.                                                 *)
StartSession(p, s) ==
    /\ hook[p].pc = "idle" /\ phase[s] = "none" /\ Event
    /\ ~Busy(s, {"pre", "post", "seed"})
    /\ hook' = [hook EXCEPT ![p] = Begins(p, "seed", s)]
    /\ FilesStand /\ Fortune /\ UNCHANGED <<cwd, declares, shell, compacted, phase>>

(* A compaction: a host delivers the event before it, the one after it, or *)
(* both. Cursor has the one before.                                        *)
Compact(p, s) ==
    /\ hook[p].pc = "idle" /\ phase[s] = "none" /\ Event
    /\ ~Busy(s, {"pre", "post", "seed"})
    /\ compacted' = [compacted EXCEPT ![s] = @ + 1]
    /\ \/ /\ hook' = [hook EXCEPT ![p] = Begins(p, "pre", s)]
          /\ \E l \in IF s \in Claude THEN {"none", "compacting"} ELSE {"none"} :
               phase' = [phase EXCEPT ![s] = l]
       \/ /\ s \in Claude
          /\ hook' = [hook EXCEPT ![p] = Begins(p, "post", s)]
          /\ UNCHANGED phase
    /\ FilesStand /\ Fortune /\ UNCHANGED <<cwd, declares, shell>>

Compacted(p, s) ==
    /\ hook[p].pc = "idle" /\ phase[s] = "compacting" /\ ~Busy(s, {"pre"})
    /\ hook' = [hook EXCEPT ![p] = Begins(p, "post", s)]
    /\ phase' = [phase EXCEPT ![s] = "none"]
    /\ FilesStand /\ Fortune /\ UNCHANGED <<cwd, declares, shell, compacted, events>>

-----------------------------------------------------------------------------
(* replaceViaTemp: sweep, write "<path>.<pid>.tmp", rename. A failure      *)
(* removes the temporary file and leaves what was at path.                 *)

Temp(p, f) == [file |-> f, pid |-> p]
SweepStaleTemps(p, f) ==
    temps \ {t \in temps : /\ t.old /\ t.pid # p
                           /\ t.file = f \/ {f, t.file} \subseteq Lineages}

WriteTemp(p, f, data) ==
    temps' = {t \in SweepStaleTemps(p, f) : ~(t.file = f /\ t.pid = p)}
             \cup {[file |-> f, pid |-> p, old |-> FALSE, data |-> data]}

\* Mutant: the file at path is removed to make room for the rename.
RenameOver(p, after) ==
    /\ hook[p].pc = "rename"
    /\ LET f == hook[p].file
           mine == {t \in temps : t.file = f /\ t.pid = p}
       IN \/ /\ mine # {} /\ Fortune
             /\ \E t \in mine : files' = [files EXCEPT ![f] = t.data]
             /\ aged' = aged \ {f} /\ temps' = temps \ mine
          \/ /\ mine = {} /\ Fortune /\ UNCHANGED <<files, aged, temps>>
          \/ /\ mine # {} /\ Misfortune /\ temps' = temps \ mine
             /\ files' = [files EXCEPT ![f] = Absent] /\ UNCHANGED aged
    /\ hook' = [hook EXCEPT ![p] = after]
    /\ UNCHANGED shell /\ World

(* A writer that was suspended for half a day may find its file swept: its *)
(* rename fails, and it has lost its own update only.                      *)
Rename(p, after) ==
    /\ hook[p].pc = "rename"
    /\ LET f == hook[p].file
           mine == {t \in temps : t.file = f /\ t.pid = p}
       IN \/ /\ mine # {} /\ Fortune
             /\ \E t \in mine : files' = [files EXCEPT ![f] = t.data]
             /\ aged' = aged \ {f} /\ temps' = temps \ mine
          \/ /\ mine = {} /\ Fortune /\ UNCHANGED <<files, aged, temps>>
          \/ /\ mine # {} /\ Misfortune /\ temps' = temps \ mine
             /\ UNCHANGED <<files, aged>>
    /\ hook' = [hook EXCEPT ![p] = after]
    /\ UNCHANGED shell /\ World

-----------------------------------------------------------------------------
(* hook window: read the state, change this session's entry, write it all. *)

Phases == {"seed", "pre", "post"}
HooksWindow(p) == hook[p].does \in Phases /\ hook[p].s \in Claude

ReadState(p) ==
    /\ hook[p].pc = "begin" /\ HooksWindow(p)
    /\ hook' = [hook EXCEPT ![p].pc = "apply", ![p].file = Window,
                  ![p].base = IF files[Window] = Absent THEN [s \in {} |-> Closed] ELSE files[Window]]
    /\ FilesStand /\ Fortune /\ UNCHANGED shell /\ World

Entry(state, s) == IF s \in DOMAIN state THEN state[s] ELSE Closed
With(state, s, e) == [x \in DOMAIN state \cup {s} |-> IF x = s THEN e ELSE state[x]]

\* Mutant: the event after a compaction always counts it.
BumpedAlways(e, does) ==
    CASE does = "pre" -> IF e.open THEN e ELSE [gen |-> e.gen + 1, open |-> TRUE]
      [] does = "post" -> [gen |-> e.gen + 1, open |-> FALSE]
      [] OTHER -> Closed

(* One bump per compaction, by whichever event comes first.                *)
Bumped(e, does) ==
    CASE does = "pre" -> IF e.open THEN e ELSE [gen |-> e.gen + 1, open |-> TRUE]
      [] does = "post" -> IF e.open THEN [e EXCEPT !.open = FALSE]
                          ELSE [gen |-> e.gen + 1, open |-> FALSE]
      [] OTHER -> Closed

ApplyWindow(p) ==
    /\ hook[p].pc = "apply" /\ HooksWindow(p)
    /\ LET s == hook[p].s
           state == hook[p].base
       IN IF hook[p].does = "seed" /\ s \in DOMAIN state
          THEN hook' = [hook EXCEPT ![p] = IdleHook] /\ UNCHANGED temps
          ELSE /\ WriteTemp(p, Window, With(state, s, Bumped(Entry(state, s), hook[p].does)))
               /\ hook' = [hook EXCEPT ![p].pc = "rename", ![p].base = Absent]
    /\ UNCHANGED <<files, aged, shell>> /\ Fortune /\ World

(* hookWindowID: none until the first compaction.                          *)
WindowID(s) == IF files[Window] = Absent THEN 0 ELSE Entry(files[Window], s).gen

-----------------------------------------------------------------------------
(* updateLineage: load the sidecar, change it, save it.                    *)

(* The file a Cursor event writes: the one its session declared, when its  *)
(* environment says so for this very conversation.                         *)
EventFile(s) == IF declares[s] # Absent THEN declares[s] ELSE Conv(s)
SidecarFile(s) == IF s \in Claude THEN Ws(cwd[s]) ELSE EventFile(s)

(* Claude Code's hook for a tool call first decides whether it is its own  *)
(* to answer: the command must be a search in a known shell, and the       *)
(* payload Claude Code's. A hook that fails open leaves the search as is.  *)
LoadLineage(p) ==
    LET s == hook[p].s IN
    /\ hook[p].pc = "begin" /\ ~HooksWindow(p)
    /\ hook' = [hook EXCEPT ![p].pc = "apply", ![p].file = SidecarFile(s),
                            ![p].base = files[SidecarFile(s)]]
    /\ FilesStand /\ Fortune /\ UNCHANGED shell /\ World

Blank == Envelope(Absent, Absent, 0, 0, Absent)

(* What each event makes of the sidecar. Claude Code's call replaces every *)
(* field; Cursor's events each set their own beside the session.           *)
Stamped(p, base) ==
    LET s == hook[p].s
        own == [base EXCEPT !.harness = "cursor", !.session = s]
    IN CASE s \in Claude -> Envelope("claude-code", s, hook[p].call, WindowID(s), s)
         [] s \in Cursor /\ hook[p].does = "thought" -> [own EXCEPT !.text = s]
         [] s \in Cursor /\ hook[p].does = "pre" -> [own EXCEPT !.window = @ + 1]
         [] s \in Cursor /\ hook[p].does = "call" -> [own EXCEPT !.call = hook[p].call]
         [] OTHER -> own

(* The identity a hook puts on the command: Claude Code's is the envelope  *)
(* it just built, Cursor's the three variables sessionStart exported.      *)
Bridge(p) == Stamped(p, Blank)
Prefix(s) ==
    IF declares[s] = Absent THEN NoEnv
    ELSE [NoEnv EXCEPT !.harness = "cursor", !.lineage = declares[s], !.session = s]

SaveLineage(p) ==
    LET s == hook[p].s
        base == IF hook[p].base = Absent THEN Blank ELSE hook[p].base
    IN /\ hook[p].pc = "apply" /\ ~HooksWindow(p)
       /\ WriteTemp(p, hook[p].file, Stamped(p, base))
       /\ hook' = [hook EXCEPT ![p].pc = "rename", ![p].base = Absent,
                     ![p].env = IF s \in Claude THEN [NoEnv EXCEPT !.bridge = Bridge(p)] ELSE NoEnv]
       /\ UNCHANGED <<files, aged, shell>> /\ Fortune /\ World

Searching(p, e) ==
    [hook[p] EXCEPT !.pc = "search", !.env = e, !.file = Absent, !.base = Absent]

(* When a hook has renamed, an event is over; a call's command runs.       *)
RenameHook(p) ==
    LET s == hook[p].s IN
    /\ hook[p].does # "save"
    /\ Rename(p, IF hook[p].does # "call" THEN IdleHook
                 ELSE Searching(p, IF s \in Claude THEN hook[p].env ELSE Prefix(s)))

(* What a search has when the hook that stamps the file did nothing: the   *)
(* command as the agent wrote it, or, in Cursor, where another hook        *)
(* (preToolUse) rewrites it, that one's prefix.                            *)
Unstamped(s) == {NoEnv} \cup IF s \in Cursor THEN {Prefix(s)} ELSE {}

(* Claude Code's entries do nothing too when Cursor runs them              *)
(* (runByAnotherHost).                                                     *)
FailOpen(p) ==
    /\ hook[p].pc = "begin" /\ hook[p].does = "call"
    /\ Misfortune
    /\ \E e \in Unstamped(hook[p].s) :
         hook' = [hook EXCEPT ![p] = Searching(p, e)]
    /\ FilesStand /\ UNCHANGED shell /\ World

-----------------------------------------------------------------------------
(* A bridge some other agent wrote, left in a Cursor shell's environment.  *)
Foreign == Envelope("claude-code", Absent, 0, 0, Absent)

(* lineageForCwd: the directory's file, then its parents'. A file of       *)
(* another session is climbed past when the session is known; the first    *)
(* that is not is taken, unless it is old or another host's.               *)
Chain(d) == IF d = "package" THEN {"package", "root"} ELSE {"root"}
Nearest(D) == IF "package" \in D THEN "package" ELSE "root"

\* Mutant: the host's name is enough, whoever's session the file holds.
AnyOfTheHost(e, d) ==
    LET here == {x \in Chain(d) : files[Ws(x)] # Absent}
        f == Ws(Nearest(here))
    IN IF e.harness # Absent /\ here # {} /\ f \notin aged /\ files[f].harness = e.harness
       THEN {f} ELSE {}

LineageForCwd(e, d) ==
    LET here == {x \in Chain(d) : /\ files[Ws(x)] # Absent
                                  /\ e.session \in {Absent, files[Ws(x)].session}}
        f == Ws(Nearest(here))
    IN IF e.harness # Absent /\ here # {} /\ f \notin aged /\ files[f].harness = e.harness
       THEN {f} ELSE {}

(* The file the host declared, if it still holds the shell's session.      *)
DeclaredLineage(e) ==
    IF /\ e.lineage # Absent /\ files[e.lineage] # Absent /\ e.lineage \notin aged
       /\ e.session \in {Absent, files[e.lineage].session}
    THEN {e.lineage} ELSE {}

Adopted(e, d) ==
    IF DeclaredLineage(e) # {} THEN DeclaredLineage(e) ELSE LineageForCwd(e, d)

Labelled(t, e) == IF e.harness = Absent THEN t ELSE [t EXCEPT !.harness = e.harness]
PerShell(p, e) == Labelled(Envelope("cli", hook[p].s, 0, 0, Absent), e)

(* A host that declared a lineage file writes no bridge: one beside it is  *)
(* somebody else's, and is dropped unread.                                 *)
Believes(e) == e.bridge # Absent /\ e.lineage = Absent

(* The request goes out with a trace; one that the router asks for again   *)
(* has none.                                                               *)
PerformSearch(p, trace) ==
    [hook[p] EXCEPT !.pc = "posted", !.does = "call", !.file = Absent, !.base = Absent,
                    !.env = NoEnv, !.sent = trace]

(* searchTrace: the bridge, or the lineage file, which is saved again, or  *)
(* an identity of the shell's own.                                         *)
TraceSearch(p, e) ==
    LET found == Adopted(e, cwd[hook[p].s])
    IN \/ /\ Believes(e)
          /\ hook' = [hook EXCEPT ![p] = PerformSearch(p, Labelled(e.bridge, e))]
          /\ UNCHANGED temps
       \/ /\ ~Believes(e) /\ found = {}
          /\ hook' = [hook EXCEPT ![p] = PerformSearch(p, PerShell(p, e))]
          /\ UNCHANGED temps
       \/ /\ ~Believes(e)
          /\ \E f \in found :
               /\ hook' = [hook EXCEPT ![p].pc = "rename", ![p].file = f, ![p].does = "save",
                                       ![p].sent = Labelled(files[f], e),
                                       ![p].env = NoEnv]
               /\ WriteTemp(p, f, files[f])

(* What withTraceBridge leaves in the environment of the command. POSIX    *)
(* scopes the bridge to the command; in PowerShell it is the shell's until *)
(* the finally removes it, and a command nothing was put on finds what the *)
(* shell still holds. A host that names a lineage file puts no bridge      *)
(* there, but another agent may.                                           *)
Exported(p) ==
    LET s == hook[p].s
        mine == hook[p].env.bridge
    IN IF s \in Claude /\ mine = Absent THEN {shell[s]}
       ELSE IF hook[p].env.lineage # Absent THEN {Absent, Foreign}
       ELSE {mine}

(* The command runs in its shell.                                          *)
RunSearch(p) ==
    LET s == hook[p].s
        mine == hook[p].env.bridge
    IN /\ hook[p].pc = "search"
       /\ shell' = IF s \in Claude /\ mine # Absent THEN [shell EXCEPT ![s] = mine] ELSE shell
       /\ \E b \in Exported(p) : TraceSearch(p, [hook[p].env EXCEPT !.bridge = b])
       /\ UNCHANGED <<files, aged>> /\ Fortune /\ World

RenameSearch(p) == hook[p].does = "save" /\ Rename(p, PerformSearch(p, hook[p].sent))

\* Mutant: the shell keeps the bridge when the search is over.
FinishLeaving(p) ==
    /\ hook[p].pc \in {"search", "posted"}
    /\ UNCHANGED shell
    /\ hook' = [hook EXCEPT ![p] = IdleHook]
    /\ FilesStand /\ Fortune /\ World

(* The search is over, refused before it was sent or however it ended, and *)
(* the finally has run.                                                    *)
FinishSearch(p) ==
    /\ hook[p].pc \in {"search", "posted"}
    /\ shell' = IF hook[p].s \in Claude THEN [shell EXCEPT ![hook[p].s] = Absent] ELSE shell
    /\ hook' = [hook EXCEPT ![p] = IdleHook]
    /\ FilesStand /\ Fortune /\ World

-----------------------------------------------------------------------------
(* The world: time passes, a hook is killed, an agent changes directory.   *)

HalfADay ==
    /\ Misfortune
    /\ aged' = {f \in Files : files[f] # Absent}
    /\ temps' = {[t EXCEPT !.old = TRUE] : t \in temps}
    /\ UNCHANGED <<files, shell, hook>> /\ World

Kill(p) ==
    /\ hook[p].pc \in {"apply", "rename"} /\ hook[p].does # "save"
    /\ Misfortune
    /\ hook' = [hook EXCEPT ![p] =
         IF hook[p].does = "call"
         THEN Searching(p, NoEnv)
         ELSE IdleHook]
    /\ FilesStand /\ UNCHANGED shell /\ World

NextTrace ==
    \/ \E p \in Pids :
         \/ \E s \in Cursor : StartConversation(p, s) \/ Think(p, s)
         \/ \E s \in Claude : StartSession(p, s) \/ Compacted(p, s)
         \/ \E s \in Sessions : Compact(p, s) \/ Call(p, s)
         \/ ReadState(p) \/ ApplyWindow(p)
         \/ LoadLineage(p) \/ SaveLineage(p)
         \/ RenameHook(p) \/ FailOpen(p)
         \/ RunSearch(p) \/ RenameSearch(p) \/ FinishSearch(p)
         \/ Kill(p)
    \/ HalfADay

TraceSpec == InitTrace /\ [][NextTrace]_traceVars

-----------------------------------------------------------------------------
(* Properties.                                                             *)

(* A conversation whose events write a file it shares with others: its     *)
(* sessionStart ran on 0.2.12 (hook.go, cursorLineage).                    *)
Shares(s) == s \in Cursor /\ declares[s] \notin {Absent, Conv(s)}

(* The variables have their types, and a sidecar is whole whenever it is   *)
(* there: it names a session, the host that session is of, and a text only *)
(* if it is somebody's.                                                    *)
TraceTypeOK ==
    /\ aged \subseteq Files
    /\ \A f \in Lineages : files[f] # Absent =>
         /\ files[f].harness = (IF files[f].session \in Claude THEN "claude-code" ELSE "cursor")
         /\ files[f].session \in Sessions
         /\ files[f].call \in 0..MaxEvents /\ files[f].window \in 0..MaxEvents
         /\ files[f].text \in Sessions \cup {Absent}
    /\ files[Window] # Absent => DOMAIN files[Window] \subseteq Claude
    /\ \A p \in Pids : hook[p].pc \in {"idle", "begin", "apply", "rename",
                                            "search", "posted"}

(* A search is sent as its own session's or as its shell's own: never with *)
(* another session's identity, call or text, whatever files lie around it  *)
(* and whatever bridge is in its environment (README.md: the alternative   *)
(* is one agent's session id and narration being sent as another's). What  *)
(* a hook takes for the narration led to the call, and it answers only for *)
(* a command that is ours. The type invariant is checked with it.          *)
TraceIsOwn ==
    /\ TraceTypeOK
    /\ NarrationLedToTheCall /\ OnlyWhatIsTaught
    /\ \A p \in Pids : hook[p].pc = "posted" /\ ~Shares(hook[p].s) =>
           /\ hook[p].sent.session = hook[p].s
           /\ hook[p].sent.text \in {Absent, hook[p].s}
           /\ hook[p].sent.harness \in
                {"cli", IF hook[p].s \in Claude THEN "claude-code" ELSE "cursor"}

(* A Claude Code search carries the identity of its own call or none: the  *)
(* envelope of an earlier command never survives in the shell (bridge.go:  *)
(* the search would be credited with another call's lineage).              *)
CallIsExact ==
    \A p \in Pids : hook[p].pc = "posted" /\ hook[p].s \in Claude =>
        hook[p].sent.call \in {0, hook[p].call}

(* No compaction is ever counted twice, whichever events came, however the *)
(* hooks of other sessions raced for the one window file, and whatever was *)
(* lost (hook.go, hookWindow).                                             *)
NeverCountedTwice ==
    /\ files[Window] # Absent =>
         \A s \in DOMAIN files[Window] : files[Window][s].gen <= compacted[s]
    /\ \A s \in Cursor : files[Conv(s)] # Absent => files[Conv(s)].window <= compacted[s]
    /\ \A p \in Pids : hook[p].pc = "posted" /\ ~Shares(hook[p].s) =>
         hook[p].sent.window <= compacted[hook[p].s]

(* What is lost is an update, never the file: once there, a lineage file   *)
(* and the window state stay there (miner.go:375-376).                     *)
NeverTheFile ==
    [][\A f \in Files : files[f] # Absent => files'[f] # Absent]_traceVars
=============================================================================
