---------------------------- MODULE IntegrationsInvariant ----------------------------
(***************************************************************************)
(* The inductive invariant of Integrations: what a plan may still write,   *)
(* what it has written already, and what the files can look like.          *)
(***************************************************************************)
EXTENDS Integrations, Functions

Change == [slot : {"skill"},   saw : Skill,                  to : Skill]
     \cup [slot : {"file"},    saw : File,                   to : File]
     \cup [slot : {"path"},    saw : Path,                   to : Path]
     \cup [slot : {"config"},  saw : Setting,                to : Setting]
     \cup [slot : {"journal"}, saw : Record \cup {Nobody},   to : Record \cup {Nobody}]

Command == [kind : Kinds, by : Callers \cup {Nobody}, todo : Seq(Change), left : SUBSET Callers,
            cands : SUBSET Callers, held : BOOLEAN, read : Skill, failed : BOOLEAN, alone : BOOLEAN]

Typed ==
    /\ host \in Hosts /\ disk \in Disk /\ prefer \in [Configs -> {"on", "off"}]
    /\ proc \in [Processes -> Command] /\ stale \in BOOLEAN
    /\ before \in [ours : BOOLEAN, config : Setting]
    /\ begun \in 0 .. MaxBegun /\ faults \in 0 .. MaxFaults /\ acts \in 0 .. MaxActs

\* A host has parts of its own kinds only, and Hermes makes an entry of the block.
Shaped(f) ==
    /\ f.entries # {} => host \in {"json", "hermes"} /\ f.block = Nobody
    /\ f.rules # {} => host = "json"
    /\ f.block # Nobody => host \in {"codex", "hermes", "profile"}
    /\ f.inside # {} => host = "codex"

\* A change that leaves the others' as it is, if the file is what was read.
Fair(r, ch) ==
    /\ ch.slot = "file" => /\ Shaped(ch.to)
                           /\ KeptFor(r.by, ch.saw, ch.to) \/ (host = "profile" /\ r.kind = "setup")
    /\ ch.slot = "skill" => ~ForeignOwner(r.by, ch.saw)
    /\ ch.slot = "path" => ch.to.user = ch.saw.user
    /\ host # "registry" => ch.slot \in {"skill", "file"}

\* A command and its candidates are of one installation; what the whole uninstall does
\* not hold back was not a foreign skill.
Ordered(r) ==
    /\ r.kind = "none" => r = Idle
    /\ r.kind # "none" => r.by \in Callers
    /\ r.left \subseteq r.cands
    /\ r.left # {} => r.kind = "full" /\ host \in Agents
    /\ r.kind = "full" => r.by \in r.cands /\ \A c \in r.cands : c.cfg = r.by.cfg
    /\ r.kind = "full" /\ host \in Agents /\ ~r.held => ~ForeignOwner(r.by, r.read)
    /\ \A ch \in Range(r.todo) : Fair(r, ch)

\* The rest of the plan has a change of slot.
Writes(r, slot) == \E ch \in Range(r.todo) : ch.slot = slot

\* Nothing of c's is left in f that can be taken out.
Rid(c, f) ==
    /\ \A e \in f.entries \cup f.rules : e.by = c => f.odd
    /\ HasBlock(f) /\ Readable(f) =>
          /\ host = "codex" => f.block.by.cfg # c.cfg
          /\ host = "hermes" => f.block.by # c
          /\ host = "profile" => f.odd \/ f.block.by.cfg # c.cfg

\* What an undisturbed uninstall has done, or is about to, for the candidates it has
\* planned for.
Removing(r) ==
    \A c \in r.cands \ r.left :
        /\ \A ch \in Range(r.todo) : /\ ch.slot = "file" => Rid(c, ch.to)
                                     /\ ch.slot = "skill" => ch.to = NoSkill
        /\ Rid(c, disk.file) \/ Writes(r, "file")
        /\ host \in Agents => disk.skill = NoSkill \/ Writes(r, "skill")

Undisturbed(p) ==
    proc[p].alone => /\ proc[p].kind = "full" /\ \A q \in Processes \ {p} : ~Running(q)
                     /\ ~proc[p].failed /\ ~proc[p].held /\ ~stale => Removing(proc[p])

-----------------------------------------------------------------------------
(* The user environment, while the participant changes nothing.            *)

TheRecord == [added |-> ~before.ours, set |-> Home, previous |-> before.config]
Original  == disk.path.ours = before.ours /\ disk.config = before.config

\* The record tells what was there before, and goes last.
Environment ==
    /\ disk.path.ours \in {before.ours, TRUE} /\ disk.config \in {before.config, Home}
    /\ disk.journal \in {Nobody, TheRecord}
    /\ disk.journal = Nobody => Original

\* What a setup, and what an uninstall, is about to write: the record first, the record
\* last.
Changing(r) ==
    /\ r.kind = "setup" =>
          /\ \A ch \in Range(r.todo) : /\ ch.slot = "path" => ch.to.ours
                                       /\ ch.slot = "config" => ch.to = Home
                                       /\ ch.slot = "journal" => ch.to = TheRecord
          /\ \A i \in 1 .. Len(r.todo) : r.todo[i].slot = "journal" => i = 1
          /\ r.todo # <<>> /\ disk.journal = Nobody => r.todo[1].slot = "journal"
    /\ r.kind = "full" =>
          /\ \A ch \in Range(r.todo) : /\ ch.slot = "path" => ch.to.ours = before.ours
                                       /\ ch.slot = "config" => ch.to = before.config
                                       /\ ch.slot = "journal" => ch.to = Nobody
          /\ \A i \in 1 .. Len(r.todo) : r.todo[i].slot = "journal" => i = Len(r.todo)
          /\ Writes(r, "journal") =>
                /\ disk.path.ours = before.ours \/ Writes(r, "path")
                /\ disk.config = before.config \/ Writes(r, "config")

\* One command at a time has to do with it.
InTurn ==
    host = "registry" =>
        /\ \A p \in Processes : Running(p) => proc[p].kind \in {"setup", "full"} /\ proc[p].by.cfg = Home
        /\ \A p, q \in Processes : Running(p) /\ Running(q) => p = q
        /\ acts = 0 => Environment /\ \A p \in Processes : Changing(proc[p])

IInv ==
    /\ Typed /\ Shaped(disk.file) /\ InTurn
    /\ \A p \in Processes : Ordered(proc[p]) /\ Undisturbed(p)
======================================================================================
