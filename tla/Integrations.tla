------------------------------ MODULE Integrations -------------------------------
(***************************************************************************)
(* What dropin-miner writes into files that are not its own: the skill and *)
(* the configuration of a coding agent, the shell profile, the Windows user *)
(* environment; by agents install, uninstall and prefer, setup, upgrade and *)
(* uninstall, for installations that share a machine.  A command reads the *)
(* files, plans, may ask, and writes its plan; agents takes no lock.       *)
(*                                                                         *)
(* A behaviour has one kind of host: "json" (Claude Code, Cursor: hook     *)
(* entries, allow rules), "codex" (a marked TOML block), "hermes" (a marked *)
(* YAML block that Hermes rewrites as an entry of its own), "profile" (the *)
(* shell profile) or "registry" (the Windows environment).  A plug-in or an *)
(* extension follows the rule of the skill.                                *)
(*                                                                         *)
(* Abstracted: a file is what of it tells installations apart (whose parts *)
(* it has, in which rendering, which parts are the participant's, whether  *)
(* it can be read); a plan reads all its files in one step.                *)
(***************************************************************************)
EXTENDS Naturals, FiniteSets, Sequences

CONSTANTS Configs,      \* the configuration files, one of each installation
          Home,         \* the one whose user environment is looked at
          Moved,        \* the installations whose binary was moved
          Processes,    \* the commands
          Nobody, Unnamed,
          MaxBegun, MaxFaults, MaxActs   \* bounds

ASSUME IntegrationsAssumption ==
    /\ Home \in Configs /\ Moved \subseteq Configs /\ Nobody \notin Configs
    /\ MaxBegun \in Nat /\ MaxFaults \in Nat /\ MaxActs \in Nat

VARIABLES host,         \* the kind of host of this behaviour
          disk,         \* the shared files
          prefer,       \* each installation's preference file
          proc,         \* the commands under way
          stale,        \* a write took away what its plan had not read, or was cut short
          before,       \* the user environment before any setup
          begun, faults, acts

vars == <<host, disk, prefer, proc, stale, before, begun, faults, acts>>

Hosts   == {"json", "codex", "hermes", "profile", "registry"}
Agents  == {"json", "codex", "hermes"}
Callers == {c \in [cfg : Configs, bin : {1, 2}] : c.bin = 2 => c.cfg \in Moved}
Edits   == 1 .. MaxActs         \* the participant's or the host's own content

\* A part dropin-miner wrote, as it renders it now, as it did before, or no longer
\* in a form it can read.
Part    == [by : Callers, form : {"now", "before", "garbled"}]
Skill   == [by : Callers \cup {Nobody, Unnamed}, prefer : {"on", "off"}]
File    == [there : BOOLEAN, user : SUBSET Edits, inside : SUBSET Edits,
            entries : SUBSET Part, rules : SUBSET Part, block : Part \cup {Nobody},
            odd : BOOLEAN]
Setting == Configs \cup {Nobody, Unnamed}       \* a value of TOKENDROP_CONFIG
Path    == [user : SUBSET Edits, ours : BOOLEAN]
Record  == [added : BOOLEAN, set : Configs, previous : Setting]

\* Nobody is no caller, no part and no record of a setup.
ASSUME NobodyAssumption == Nobody \notin Callers \cup Part \cup Record

NoSkill == [by |-> Nobody, prefer |-> "on"]
NoFile  == [there |-> FALSE, user |-> {}, inside |-> {}, entries |-> {}, rules |-> {},
            block |-> Nobody, odd |-> FALSE]
Now(c)  == [by |-> c, form |-> "now"]

Slots   == {"skill", "file", "path", "config", "journal"}
Disk    == [skill : Skill, file : File, path : Path, config : Setting, journal : Record \cup {Nobody}]
Kinds   == {"none", "agents", "setup", "upgrade", "full"}

\* todo is the rest of the plan; of the whole uninstall: left, the candidate binaries of
\* cands it has yet to plan for; held, that by whose skill it read it leaves the target's
\* parts; failed; and whether it has been alone.
Idle    == [kind |-> "none", by |-> Nobody, todo |-> <<>>, left |-> {}, cands |-> {},
            held |-> FALSE, read |-> NoSkill, failed |-> FALSE, alone |-> FALSE]

TypeOK ==
    /\ host \in Hosts /\ disk \in Disk
    /\ prefer \in [Configs -> {"on", "off"}]
    /\ \A p \in Processes :
          /\ proc[p].kind \in Kinds /\ proc[p].by \in Callers \cup {Nobody}
          /\ proc[p].left \subseteq proc[p].cands /\ proc[p].cands \subseteq Callers
          /\ {proc[p].held, proc[p].failed, proc[p].alone} \subseteq BOOLEAN /\ proc[p].read \in Skill
          /\ \A i \in DOMAIN proc[p].todo :
                [disk EXCEPT ![proc[p].todo[i].slot] = proc[p].todo[i].to] \in Disk
    /\ stale \in BOOLEAN /\ before \in [ours : BOOLEAN, config : Setting]
    /\ begun \in 0 .. MaxBegun /\ faults \in 0 .. MaxFaults /\ acts \in 0 .. MaxActs

\* Before the first command the file may be absent, be the participant's, have hooks of
\* an earlier version of an installation, or be unreadable.
Init ==
    /\ host \in Hosts
    /\ \E f \in {NoFile} \cup {[NoFile EXCEPT !.there = TRUE, !.odd = o] : o \in BOOLEAN}
             \cup {[NoFile EXCEPT !.there = TRUE, !.entries = {[by |-> c, form |-> "before"]}] :
                     c \in {d \in Callers : d.cfg = Home}} :
          /\ f.entries # {} => host = "json"
          /\ host = "registry" => f = NoFile
          /\ \E b \in BOOLEAN, v \in {Nobody, Unnamed} :
                /\ host # "registry" => b = FALSE /\ v = Nobody
                /\ disk = [skill |-> NoSkill, file |-> f, path |-> [user |-> {}, ours |-> b],
                           config |-> v, journal |-> Nobody]
                /\ before = [ours |-> b, config |-> v]
    /\ prefer = [g \in Configs |-> "on"]
    /\ proc = [p \in Processes |-> Idle]
    /\ stale = FALSE /\ begun = 0 /\ faults = 0 /\ acts = 0

-----------------------------------------------------------------------------
(* Whose it is.                                                            *)

\* entryIsOurs, ruleIsOurs, hookCommandIsOurs: a command is a caller's when it runs
\* that binary and names that configuration.
OursOf(c, parts) == {e \in parts : e.by = c}

\* foreignOwner: the rendering names another configuration and not this one.
ForeignOwner(c, s) == s.by \in Callers /\ s.by.cfg # c.cfg

\* codexBlockOwner: the writable roots are this installation's directories; they do
\* not tell binaries apart.
CodexBlockOwner(c, f) == f.block.by.cfg = c.cfg

\* Mutant: only what stands between the markers is known.
FindMarkedOnly(c, f) == FALSE

\* Under a hooks: mapping, hook commands that run this caller's; nothing else is on the
\* lines that would go.
HermesEntryIsOurs(c, f) == OursOf(c, f.entries) # {}
HermesRunIsOurs(f)      == ~f.odd

\* findHermesOwnEntry: this caller's hook, in a form it can read and remove.
FindHermesOwnEntry(c, f) == HermesEntryIsOurs(c, f) /\ HermesRunIsOurs(f)

-----------------------------------------------------------------------------
(* The skill.                                                              *)

PlanSkill(c, v) == IF ForeignOwner(c, disk.skill) THEN disk.skill ELSE [by |-> c, prefer |-> v]

\* Only where the skill is installed.
PlanPreference(c, v) == IF disk.skill = NoSkill THEN NoSkill ELSE PlanSkill(c, v)

-----------------------------------------------------------------------------
(* JSON hooks and allow rules.                                             *)

\* One current entry of the caller's, whatever spellings of it there were.
Merged(c, parts) == (parts \ OursOf(c, parts)) \cup {Now(c)}

MergeAllowRules(c, f) == Merged(c, f.rules)

PlanHooksMerge(c, f) ==
    IF f.odd THEN f
    ELSE [f EXCEPT !.there = TRUE, !.entries = Merged(c, f.entries),
                   !.rules = MergeAllowRules(c, f)]

HooksFileIsNowOnlyOurs(f) == f.user = {} /\ f.entries = {} /\ f.rules = {}

PlanHooksRemove(c, f) ==
    LET g == [f EXCEPT !.entries = @ \ OursOf(c, @), !.rules = @ \ OursOf(c, @)]
    IN  IF f.odd \/ g = f THEN f
        ELSE IF HooksFileIsNowOnlyOurs(g) THEN NoFile ELSE g

-----------------------------------------------------------------------------
(* The Codex block, in place, other tables moved out from between its      *)
(* markers.                                                                *)

HasBlock(f)      == f.block # Nobody
Readable(f)      == f.block.form # "garbled"
Current(c, f)    == CodexBlockOwner(c, f) /\ f.block.form = "now" /\ f.inside = {}
WithBlock(f, b)  == [f EXCEPT !.there = TRUE, !.block = b, !.inside = {}, !.user = @ \cup f.inside]

PlanCodexSandbox(c, f) ==
    IF \/ f.odd
       \/ HasBlock(f) /\ (~Readable(f) \/ Current(c, f) \/ ~CodexBlockOwner(c, f))
    THEN f ELSE WithBlock(f, Now(c))

\* Mutant: the removal goes from marker to marker.
RemoveMarkedRange(c, f) ==
    IF HasBlock(f) /\ Readable(f) /\ CodexBlockOwner(c, f)
    THEN [f EXCEPT !.block = Nobody, !.inside = {}] ELSE f

RemoveOurSandboxBlock(c, f) ==
    IF HasBlock(f) /\ Readable(f) /\ CodexBlockOwner(c, f) THEN WithBlock(f, Nobody) ELSE f

-----------------------------------------------------------------------------
(* The Hermes block, and the entry Hermes makes of it.                     *)

HermesReadMarkedBlock(f) == f.block.form # "garbled"
HermesBlockLeft(c, f)    == ~HermesReadMarkedBlock(f) \/ f.block.by # c
HermesHookInstalled(c, f) == IF HasBlock(f) THEN f.block = Now(c) ELSE FindHermesOwnEntry(c, f)
HermesConfigRefusal(f)   == f.odd \/ f.entries # {}
HermesCutBlock(f)        == [f EXCEPT !.block = Nobody]
RemoveHermesOwnEntry(c, f) == [f EXCEPT !.entries = @ \ OursOf(c, @)]

PlanHermesHook(c, f) ==
    IF \/ HasBlock(f) /\ (HermesBlockLeft(c, f) \/ f.block = Now(c))
       \/ ~HasBlock(f) /\ FindHermesOwnEntry(c, f)
       \/ HermesConfigRefusal(f)
    THEN f ELSE [HermesCutBlock(f) EXCEPT !.there = TRUE, !.block = Now(c)]

PlanHermesUnhook(c, f) ==
    CASE HasBlock(f) -> IF HermesBlockLeft(c, f) THEN f ELSE HermesCutBlock(f)
      [] ~HasBlock(f) /\ FindHermesOwnEntry(c, f) -> RemoveHermesOwnEntry(c, f)
      [] OTHER -> f

-----------------------------------------------------------------------------
(* The shell profile: one well-formed block, or none, or left.  Setup of an *)
(* installation that is not the machine's own does not come here.          *)

RewriteProfile(c, f) ==
    IF f.odd THEN f ELSE [f EXCEPT !.there = TRUE, !.block = Now(c)]

RemoveProfileBlock(c, f) ==
    IF f.odd \/ ~HasBlock(f) \/ f.block.by.cfg # c.cfg THEN f ELSE [f EXCEPT !.block = Nobody]

-----------------------------------------------------------------------------
(* Plans.                                                                  *)

Installed(c, f) ==
    CASE host = "json"    -> PlanHooksMerge(c, f)
      [] host = "codex"   -> PlanCodexSandbox(c, f)
      [] host = "hermes"  -> PlanHermesHook(c, f)
      [] host = "profile" -> RewriteProfile(c, f)
      [] OTHER            -> f

Uninstalled(c, f) ==
    CASE host = "json"    -> PlanHooksRemove(c, f)
      [] host = "codex"   -> RemoveOurSandboxBlock(c, f)
      [] host = "hermes"  -> PlanHermesUnhook(c, f)
      [] host = "profile" -> RemoveProfileBlock(c, f)
      [] OTHER            -> f

\* planWrite: what is already so is not written.
Write(slot, to) ==
    IF disk[slot] = to THEN <<>> ELSE <<[slot |-> slot, saw |-> disk[slot], to |-> to]>>

PlanInstall(c) == Write("skill", PlanSkill(c, prefer[c.cfg])) \o Write("file", Installed(c, disk.file))

\* Writes come before removals, and the skill before the hooks file.
PlanRemoval(skill, file) ==
    IF file.there THEN Write("file", file) \o skill ELSE skill \o Write("file", file)

\* The skill goes, on the strength of what was read of it.
RemoveSkill(read) ==
    IF disk.skill = NoSkill THEN <<>> ELSE <<[slot |-> "skill", saw |-> read, to |-> NoSkill]>>

PlanUninstall(c) ==
    PlanRemoval(IF ForeignOwner(c, disk.skill) THEN <<>> ELSE RemoveSkill(disk.skill),
                Uninstalled(c, disk.file))

\* planUserEnvironment: what the first setup found is what is recorded; the record is
\* written before what it records is changed.
NextRecord(c) ==
    [added |-> \/ ~disk.path.ours
               \/ disk.journal # Nobody /\ disk.journal.added,
     set |-> c.cfg,
     previous |-> IF disk.journal = Nobody THEN disk.config ELSE disk.journal.previous]

\* Mutant: the record is written when what it records was changed.
PlanUserEnvironmentLast(c) ==
    Write("path", [disk.path EXCEPT !.ours = TRUE]) \o Write("config", c.cfg)
        \o Write("journal", NextRecord(c))

PlanUserEnvironment(c) ==
    Write("journal", NextRecord(c)) \o Write("path", [disk.path EXCEPT !.ours = TRUE])
        \o Write("config", c.cfg)

\* planUserEnvironmentRevert: a value that is no longer setup's is the participant's.
PlanUserEnvironmentRevert ==
    IF disk.journal = Nobody THEN <<>>
    ELSE Write("path", [disk.path EXCEPT !.ours = @ /\ ~disk.journal.added])
         \o (IF disk.config = disk.journal.set THEN Write("config", disk.journal.previous) ELSE <<>>)
         \o Write("journal", Nobody)

PlanSetup(c) ==
    IF host = "registry" THEN PlanUserEnvironment(c)
    ELSE IF host = "profile" THEN Write("file", Installed(c, disk.file)) ELSE PlanInstall(c)

-----------------------------------------------------------------------------
(* Attribution, by the whole uninstall and by upgrade.                     *)

\* attributeRemoved over what a plan of no particular binary would remove.
AttributeRemoved(cands) ==
    CASE disk.skill.by \in cands   -> "ours"
      [] disk.skill.by \in Callers \ cands -> "foreign"
      [] OTHER                     -> "unknown"

Agnostic(c) ==
    \/ disk.skill # NoSkill
    \/ host = "codex" /\ Uninstalled(c, disk.file) # disk.file

Held(c, cands) == Agnostic(c) /\ AttributeRemoved(cands) # "ours"

\* ownedHosts: installed, and nobody else's skill.
OwnedHost(c) ==
    /\ \/ disk.skill # NoSkill
       \/ host = "hermes" /\ HermesHookInstalled(c, disk.file)
    /\ disk.skill # NoSkill => AttributeRemoved({c}) = "ours"

\* One candidate of the whole uninstall; what is held keeps its skill, and codex its block.
PlanCandidate(c, r) ==
    PlanRemoval(IF r.held THEN <<>> ELSE RemoveSkill(r.read),
                IF r.held /\ host = "codex" THEN disk.file ELSE Uninstalled(c, disk.file))

-----------------------------------------------------------------------------
(* Commands.                                                               *)

Settled     == ~stale       \* what follows such a write is not looked at
Fault       == faults < MaxFaults /\ faults' = faults + 1
Running(p)  == proc[p].kind # "none"
Done(p)     == Running(p) /\ proc[p].todo = <<>> /\ proc[p].left = {}

\* The lifecycle gate and setup.lock, one at a time in an installation.
Excludes(k, c) ==
    k \in {"setup", "upgrade", "full"} =>
        \A q \in Processes : ~(proc[q].kind \in {"setup", "upgrade", "full"} /\ proc[q].by.cfg = c.cfg)

\* A command begins; whoever else is under way is no longer alone.
Begin(p, k, c, r) ==
    /\ Settled /\ ~Running(p) /\ begun < MaxBegun /\ Excludes(k, c)
    /\ proc' = [q \in Processes |->
           IF q = p THEN [r EXCEPT !.kind = k, !.by = c, !.alone = k = "full" /\ \A o \in Processes : ~Running(o)]
           ELSE [proc[q] EXCEPT !.alone = FALSE]]
    /\ begun' = begun + 1
    /\ UNCHANGED <<host, disk, stale, before, faults, acts>>

Planned(todo) == [Idle EXCEPT !.todo = todo]

AgentsInstall(p, c) ==
    /\ host \in Agents /\ PlanInstall(c) # <<>>
    /\ Begin(p, "agents", c, Planned(PlanInstall(c)))
    /\ UNCHANGED prefer

AgentsUninstall(p, c) ==
    /\ host \in Agents /\ PlanUninstall(c) # <<>>
    /\ Begin(p, "agents", c, Planned(PlanUninstall(c)))
    /\ UNCHANGED prefer

\* The preference file, then the skill of every host that has one.
AgentsPrefer(p, c, v) ==
    LET plan == Write("skill", PlanPreference(c, v))
    IN  /\ host \in Agents /\ (prefer[c.cfg] # v \/ plan # <<>>)
        /\ prefer' = [prefer EXCEPT ![c.cfg] = v]
        /\ Begin(p, "agents", c, Planned(plan))

\* The agents step, or the environment step, of setup.
Setup(p, c) ==
    /\ host = "registry" => c.cfg = Home
    /\ PlanSetup(c) # <<>>
    /\ Begin(p, "setup", c, Planned(PlanSetup(c)))
    /\ UNCHANGED prefer

\* The new binary renders what the old one did not: the child's plan is never empty.
RerenderOwned(p, c) ==
    /\ host \in Agents /\ OwnedHost(c)
    /\ Begin(p, "upgrade", c, Planned(PlanInstall(c)))
    /\ UNCHANGED prefer

\* The whole uninstall, once confirmed, knows the running binary and perhaps the one
\* the installation owns; for the environment it reads the record again.
Candidates(c) == {s \in SUBSET {d \in Callers : d.cfg = c.cfg} : c \in s}

\* Mutant: only the running binary's parts are looked for.
RunningBinary(c, cands) == IF host \in Agents THEN {c} ELSE {}

BinaryCandidates(c, cands) == IF host \in Agents THEN cands ELSE {}

ApplyEnvironment(c) ==
    CASE host = "registry" -> PlanUserEnvironmentRevert
      [] host = "profile"  -> Write("file", Uninstalled(c, disk.file))
      [] OTHER             -> <<>>

Uninstall(p, c) ==
    /\ host = "registry" => c.cfg = Home
    /\ \E cands \in Candidates(c) :
          Begin(p, "full", c,
                [Idle EXCEPT !.cands = cands, !.left = BinaryCandidates(c, cands),
                             !.held = host \in Agents /\ Held(c, cands), !.read = disk.skill,
                             !.todo = ApplyEnvironment(c)])
    /\ UNCHANGED prefer

\* Each candidate is planned for when the one before it is written.
NextCandidate(p) ==
    /\ Settled /\ proc[p].todo = <<>>
    /\ \E c \in proc[p].left :
          proc' = [proc EXCEPT ![p].left = @ \ {c}, ![p].todo = PlanCandidate(c, proc[p]),
                               ![p].failed = @ \/ (host = "json" /\ disk.file.odd)]
    /\ UNCHANGED <<host, disk, prefer, stale, before, begun, faults, acts>>

\* commitPlan goes on after a write that failed; the environment's changes stop there.
\* With its last write a command is over; the whole uninstall goes on to its report.
Onward(p, failed) ==
    LET r == proc[p]
        rest == IF failed /\ host \notin Agents THEN <<>> ELSE Tail(r.todo)
    IN proc' = [proc EXCEPT ![p] =
                   IF r.kind # "full" /\ rest = <<>> THEN Idle
                   ELSE [r EXCEPT !.todo = rest, !.failed = @ \/ (failed /\ r.kind = "full")]]

Truncated(slot) ==
    IF slot = "skill" THEN {[by |-> Unnamed, prefer |-> "on"]}
    ELSE {[NoFile EXCEPT !.there = TRUE, !.odd = o] : o \in BOOLEAN}

Put(ch) == disk' = [disk EXCEPT ![ch.slot] = ch.to]

CommitPlan(p) ==
    /\ Settled /\ proc[p].todo # <<>>
    /\ LET ch == Head(proc[p].todo)
       IN  \/ Put(ch) /\ Onward(p, FALSE) /\ stale' = (disk[ch.slot] # ch.saw)
              /\ UNCHANGED faults
           \/ Fault /\ Onward(p, TRUE) /\ UNCHANGED <<disk, stale>>
           \* Killed within os.WriteFile, which wrote the file from its start.
           \/ /\ Fault /\ host \in Agents /\ ch.to \notin {NoSkill, NoFile}
              /\ \E t \in Truncated(ch.slot) : disk' = [disk EXCEPT ![ch.slot] = t]
              /\ stale' = (disk[ch.slot] # ch.saw \/ (ch.slot = "file" /\ disk.file # NoFile))
              /\ proc' = [proc EXCEPT ![p] = Idle]
    /\ UNCHANGED <<host, prefer, before, begun, acts>>

\* Reported, or nothing to write; declined at the question; or killed between two writes.
Finish(p) ==
    /\ Settled /\ Running(p)
    /\ (Done(p) /\ UNCHANGED faults) \/ Fault
    /\ proc' = [proc EXCEPT ![p] = Idle]
    /\ UNCHANGED <<host, disk, prefer, stale, before, begun, acts>>

-----------------------------------------------------------------------------
(* The participant and the host.                                           *)

Act == /\ Settled /\ acts < MaxActs /\ acts' = acts + 1
       /\ proc' = [q \in Processes |-> [proc[q] EXCEPT !.alone = FALSE]]
       /\ UNCHANGED <<host, prefer, stale, before, begun, faults>>

FileIs(f) == disk' = [disk EXCEPT !.file = f]

\* Content of their own: in the file, or, appended by Codex, between the markers.
Edit ==
    /\ Act /\ host # "registry"
    /\ \/ FileIs([disk.file EXCEPT !.there = TRUE, !.user = @ \cup {acts'}])
       \/ host = "codex" /\ HasBlock(disk.file)
            /\ FileIs([disk.file EXCEPT !.inside = @ \cup {acts'}])

\* A comment in the JSON, a table or a hooks: mapping of their own, a stray marker; or
\* a line of the block that is not as it was written.
Disorder ==
    /\ Act /\ host # "registry"
    /\ \/ FileIs([disk.file EXCEPT !.there = TRUE, !.odd = ~@])
       \/ host \in {"codex", "hermes"} /\ HasBlock(disk.file)
            /\ FileIs([disk.file EXCEPT !.block.form = "garbled"])

\* Hermes saves its configuration without the comments, markers among them.
HermesSaves ==
    /\ Act /\ host = "hermes" /\ HasBlock(disk.file) /\ Readable(disk.file)
    /\ FileIs([disk.file EXCEPT !.block = Nobody, !.entries = {disk.file.block}])

\* The participant takes the skill away, or changes the environment.
Remove ==
    /\ Act
    /\ \/ disk.skill # NoSkill /\ disk' = [disk EXCEPT !.skill = NoSkill]
       \/ /\ host = "registry"
          /\ \/ disk' = [disk EXCEPT !.path.user = @ \cup {acts'}]
             \/ disk' = [disk EXCEPT !.path.ours = ~@]
             \/ \E v \in {Nobody, Unnamed} : disk' = [disk EXCEPT !.config = v]

Next ==
    \/ \E p \in Processes, c \in Callers :
          \/ AgentsInstall(p, c) \/ AgentsUninstall(p, c) \/ Setup(p, c)
          \/ RerenderOwned(p, c) \/ Uninstall(p, c)
          \/ \E v \in {"on", "off"} : AgentsPrefer(p, c, v)
    \/ \E p \in Processes : NextCandidate(p) \/ CommitPlan(p) \/ Finish(p)
    \/ Edit \/ Disorder \/ HermesSaves \/ Remove

Spec == Init /\ [][Next]_vars

(***************************************************************************)
(* Properties.                                                             *)
(***************************************************************************)

\* What a command for c leaves as it is when it takes f to g: every byte that is the
\* participant's or the host's, and what another installation wrote.
KeptFor(c, f, g) ==
    LET Others(parts) == {e \in parts : e.by.cfg # c.cfg}
    IN  /\ g.user \cup g.inside = f.user \cup f.inside
        /\ Others(g.entries) = Others(f.entries) /\ Others(g.rules) = Others(f.rules)
        /\ HasBlock(f) /\ f.block.by.cfg # c.cfg => g.block = f.block

\* Two installations share the files of one agent, and Codex and Hermes write into the
\* block: no command takes away or changes what is not its installation's, unless the
\* file changed after it was read (commitPlan, planHooksRemove, planCodexSandbox,
\* removeOurSandboxBlock, foreignOwner).  The profile block is the exception: setup of
\* the machine's own installation takes it over.
OthersKept ==
    [][\A p \in Processes :
          Running(p) /\ proc'[p].todo # proc[p].todo /\ ~stale' /\ (host = "profile" => proc[p].kind = "full")
          => /\ KeptFor(proc[p].by, disk.file, disk'.file)
             /\ ForeignOwner(proc[p].by, disk.skill) => disk'.skill = disk.skill
             /\ disk'.path.user = disk.path.user]_vars

\* agents install settles: on what it would leave, in every state of the files, it has
\* nothing more to write, and agents uninstall leaves no readable part of the caller's
\* (planHooksMerge, planCodexSandbox, planHermesHookFor against their removals).
\* The type invariant is checked with it.
InstallSettles ==
    /\ TypeOK
    /\ \A c \in Callers :
           LET f == Installed(c, disk.file)
               g == Uninstalled(c, f)
           IN  /\ Installed(c, f) = f
               /\ ~f.odd => OursOf(c, g.entries) = {} /\ OursOf(c, g.rules) = {}
               /\ f.block = Now(c) /\ (host = "profile" => ~f.odd) => ~HasBlock(g)
               /\ g.user \cup g.inside = disk.file.user \cup disk.file.inside

\* A whole uninstall that was alone, met no failure and reports nothing as left has
\* taken out the parts of every binary it knows, by candidates planned one after the
\* other (uninstallTargets, attributeRemoved).
UninstallIsWhole ==
    \A p \in Processes :
        LET r == proc[p]
            f == disk.file
        IN  Done(p) /\ r.kind = "full" /\ r.alone /\ ~r.failed /\ ~r.held /\ Settled =>
            /\ host \in Agents => disk.skill = NoSkill
            /\ \A e \in f.entries \cup f.rules : e.by \in r.cands => f.odd
            /\ HasBlock(f) /\ Readable(f) =>
                  /\ host = "codex" => f.block.by.cfg # r.by.cfg
                  /\ host = "hermes" => f.block.by \notin r.cands
                  /\ host = "profile" => f.odd \/ f.block.by.cfg # r.by.cfg

\* Whatever setups and uninstalls were killed or failed half way, once the record of
\* the user environment is gone and the participant changed nothing, the environment is
\* what it was before the first setup (applyUserEnvironment, applyUserEnvironmentRevert).
EnvironmentReverted ==
    host = "registry" /\ acts = 0 /\ disk.journal = Nobody /\ (\A p \in Processes : ~Running(p))
    => disk.path.ours = before.ours /\ disk.config = before.config
==================================================================================
