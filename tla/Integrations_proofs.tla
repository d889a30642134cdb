-------------------------- MODULE Integrations_proofs --------------------------
(***************************************************************************)
(* Integrations: an install settles and an uninstall undoes it, nobody     *)
(* takes away what is another's, an undisturbed uninstall is whole, and    *)
(* the user environment comes back.  SearchTrace, the hooks it installs: a *)
(* search is its own session's, its call exact, a compaction counted once, *)
(* and no file is lost.                                                    *)
(***************************************************************************)
EXTENDS IntegrationsInvariant, SearchTraceInvariant,
        SequenceTheorems, FiniteSetTheorems, WellFoundedInduction, TLAPS

-----------------------------------------------------------------------------
(* Values.                                                                 *)

LEMMA Callers1 ==
    ASSUME NEW c \in Callers
    PROVE  /\ c.cfg \in Configs /\ Now(c) \in Part /\ Now(c).by = c /\ Now(c).form = "now"
           /\ Now(c) # Nobody /\ c # Nobody
<1>1. c.cfg \in Configs
  BY DEF Callers
<1>2. Now(c) \in Part
  BY DEF Now, Part
<1> QED BY <1>1, <1>2, NobodyAssumption DEF Now

LEMMA PartIs ==
    ASSUME NEW b \in Part
    PROVE  b.by \in Callers /\ b.form \in {"now", "before", "garbled"} /\ b # Nobody
BY NobodyAssumption DEF Part

LEMMA NoFileIs ==
    /\ NoFile \in File /\ Shaped(NoFile)
    /\ NoFile.user = {} /\ NoFile.inside = {} /\ NoFile.entries = {} /\ NoFile.rules = {}
    /\ NoFile.block = Nobody /\ NoFile.odd = FALSE
<1>1. /\ NoFile \in File
      /\ NoFile.user = {} /\ NoFile.inside = {} /\ NoFile.entries = {} /\ NoFile.rules = {}
      /\ NoFile.block = Nobody /\ NoFile.odd = FALSE
  BY DEF NoFile, File
<1> QED BY <1>1 DEF Shaped

LEMMA NoSkillIs ==
    /\ NoSkill \in Skill /\ NoSkill.by = Nobody
    /\ \A c \in Callers : ~ForeignOwner(c, NoSkill)
<1>1. NoSkill \in Skill /\ NoSkill.by = Nobody
  BY DEF NoSkill, Skill
<1> QED BY <1>1, NobodyAssumption DEF ForeignOwner

LEMMA IdleIs ==
    /\ Idle \in Command /\ Idle.kind = "none" /\ Idle.todo = <<>> /\ Idle.left = {}
    /\ Idle.alone = FALSE
<1>1. <<>> \in Seq(Change)
  BY EmptySeq
<1> QED BY <1>1, NoSkillIs DEF Idle, Command, Kinds

LEMMA FileHas ==
    ASSUME NEW f \in File
    PROVE  /\ f.there \in BOOLEAN /\ f.user \subseteq Edits /\ f.inside \subseteq Edits
           /\ f.entries \subseteq Part /\ f.rules \subseteq Part /\ f.block \in Part \cup {Nobody}
           /\ f.odd \in BOOLEAN
           /\ HasBlock(f) => f.block \in Part
BY DEF File, HasBlock

LEMMA DiskHas ==
    ASSUME NEW d \in Disk
    PROVE  /\ d.skill \in Skill /\ d.file \in File /\ d.path \in Path /\ d.config \in Setting
           /\ d.journal \in Record \cup {Nobody}
BY DEF Disk

LEMMA CommandHas ==
    ASSUME NEW r \in Command
    PROVE  /\ r.kind \in Kinds /\ r.by \in Callers \cup {Nobody} /\ r.todo \in Seq(Change)
           /\ r.left \subseteq Callers /\ r.cands \subseteq Callers /\ r.read \in Skill
           /\ {r.held, r.failed, r.alone} \subseteq BOOLEAN
BY DEF Command

-----------------------------------------------------------------------------
(* Plans as sequences of changes.                                          *)

LEMMA NothingPlanned == <<>> \in Seq(Change) /\ Len(<<>>) = 0 /\ Range(<<>>) = {}
<1>1. <<>> \in Seq(Change) /\ Len(<<>>) = 0
  BY EmptySeq
<1>2. DOMAIN <<>> = {}
  OBVIOUS
<1> QED BY <1>1, <1>2 DEF Range

LEMMA OnePlanned ==
    ASSUME NEW ch \in Change
    PROVE  <<ch>> \in Seq(Change) /\ Len(<<ch>>) = 1 /\ <<ch>>[1] = ch /\ Range(<<ch>>) = {ch}
<1>1. <<ch>> \in Seq(Change) /\ Len(<<ch>>) = 1 /\ <<ch>>[1] = ch /\ DOMAIN <<ch>> = 1 .. 1
  OBVIOUS
<1>2. DOMAIN <<ch>> = {1}
  BY <1>1
<1> QED BY <1>1, <1>2 DEF Range

LEMMA BothPlanned ==
    ASSUME NEW s \in Seq(Change), NEW t \in Seq(Change)
    PROVE  /\ s \o t \in Seq(Change) /\ Range(s \o t) = Range(s) \cup Range(t)
           /\ Len(s \o t) = Len(s) + Len(t)
           /\ \A i \in 1 .. Len(s) : (s \o t)[i] = s[i]
           /\ \A i \in 1 .. Len(t) : (s \o t)[Len(s) + i] = t[i]
<1>1. /\ s \o t \in Seq(Change) /\ Len(s \o t) = Len(s) + Len(t)
      /\ \A i \in 1 .. Len(s) + Len(t) : (s \o t)[i] = IF i <= Len(s) THEN s[i] ELSE t[i - Len(s)]
  BY ConcatProperties
<1>2. Len(s) \in Nat /\ Len(t) \in Nat
  OBVIOUS
<1>3. /\ \A i \in 1 .. Len(s) : i \in 1 .. Len(s) + Len(t) /\ (s \o t)[i] = s[i]
      /\ \A i \in 1 .. Len(t) : Len(s) + i \in 1 .. Len(s) + Len(t) /\ (s \o t)[Len(s) + i] = t[i]
  BY <1>1, <1>2
<1>4. DOMAIN s = 1 .. Len(s) /\ DOMAIN t = 1 .. Len(t) /\ DOMAIN (s \o t) = 1 .. Len(s) + Len(t)
  BY <1>1
<1>5. Range(s) \cup Range(t) \subseteq Range(s \o t)
  BY <1>3, <1>4 DEF Range
<1>6. Range(s \o t) \subseteq Range(s) \cup Range(t)
  <2> SUFFICES ASSUME NEW i \in 1 .. Len(s) + Len(t)
               PROVE  (s \o t)[i] \in Range(s) \cup Range(t)
    BY <1>4 DEF Range
  <2>1. CASE i <= Len(s)
    <3>1. i \in 1 .. Len(s) /\ (s \o t)[i] = s[i]
      BY <1>1, <1>2, <2>1
    <3> QED BY <1>4, <3>1 DEF Range
  <2>2. CASE i > Len(s)
    <3>1. i - Len(s) \in 1 .. Len(t) /\ (s \o t)[i] = t[i - Len(s)]
      BY <1>1, <1>2, <2>2
    <3> QED BY <1>4, <3>1 DEF Range
  <2> QED BY <1>2, <2>1, <2>2
<1> QED BY <1>1, <1>3, <1>5, <1>6

\* The plan without its first change.
LEMMA RestPlanned ==
    ASSUME NEW t \in Seq(Change), t # <<>>
    PROVE  /\ Head(t) \in Change /\ Head(t) = t[1] /\ Len(t) \in Nat /\ Len(t) >= 1
           /\ Tail(t) \in Seq(Change) /\ Len(Tail(t)) = Len(t) - 1
           /\ \A i \in 1 .. Len(Tail(t)) : Tail(t)[i] = t[i + 1]
           /\ Range(t) = {Head(t)} \cup Range(Tail(t))
           /\ (Tail(t) = <<>> <=> Len(t) = 1)
<1>1. /\ Head(t) \in Change /\ Head(t) = t[1] /\ Tail(t) \in Seq(Change)
      /\ Len(Tail(t)) = Len(t) - 1
      /\ \A i \in 1 .. Len(Tail(t)) : Tail(t)[i] = t[i + 1]
  BY HeadTailProperties
<1>2. Len(t) \in Nat /\ Len(t) >= 1
  BY EmptySeq
<1>3. DOMAIN t = 1 .. Len(t) /\ DOMAIN Tail(t) = 1 .. Len(t) - 1
  BY <1>1
<1>4. {Head(t)} \cup Range(Tail(t)) \subseteq Range(t)
  <2>1. 1 \in DOMAIN t /\ \A i \in DOMAIN Tail(t) : i + 1 \in DOMAIN t
    BY <1>2, <1>3
  <2> QED BY <1>1, <1>3, <2>1 DEF Range
<1>5. Range(t) \subseteq {Head(t)} \cup Range(Tail(t))
  <2> SUFFICES ASSUME NEW i \in 1 .. Len(t) PROVE t[i] \in {Head(t)} \cup Range(Tail(t))
    BY <1>3 DEF Range
  <2>1. CASE i = 1
    BY <1>1, <2>1
  <2>2. CASE i # 1
    <3>1. i - 1 \in 1 .. Len(t) - 1 /\ (i - 1) + 1 = i
      BY <1>2, <2>2
    <3>2. t[i] = Tail(t)[i - 1]
      BY <1>1, <3>1
    <3> QED BY <1>3, <3>1, <3>2 DEF Range
  <2> QED BY <2>1, <2>2
<1>6. Tail(t) = <<>> <=> Len(t) = 1
  <2>1. Tail(t) = <<>> => Len(Tail(t)) = 0
    BY NothingPlanned
  <2>2. Tail(t) # <<>> => Len(Tail(t)) # 0
    BY <1>1, EmptySeq
  <2> QED BY <1>1, <1>2, <2>1, <2>2
<1> QED BY <1>1, <1>2, <1>4, <1>5, <1>6

LEMMA PlanHas ==
    ASSUME NEW t \in Seq(Change)
    PROVE  /\ Len(t) \in Nat /\ \A i \in 1 .. Len(t) : t[i] \in Change /\ t[i] \in Range(t)
           /\ Range(t) \subseteq Change
<1>1. Len(t) \in Nat /\ DOMAIN t = 1 .. Len(t) /\ \A i \in 1 .. Len(t) : t[i] \in Change
  OBVIOUS
<1> QED BY <1>1 DEF Range

LEMMA ChangeIs ==
    ASSUME NEW ch \in Change
    PROVE  /\ ch.slot \in Slots
           /\ ch.slot = "skill" => ch.saw \in Skill /\ ch.to \in Skill
           /\ ch.slot = "file" => ch.saw \in File /\ ch.to \in File
           /\ ch.slot = "path" => ch.saw \in Path /\ ch.to \in Path
           /\ ch.slot = "config" => ch.saw \in Setting /\ ch.to \in Setting
           /\ ch.slot = "journal" => ch.saw \in Record \cup {Nobody} /\ ch.to \in Record \cup {Nobody}
BY DEF Change, Slots

\* What planWrite plans.
LEMMA WriteIs ==
    ASSUME disk \in Disk, NEW slot \in Slots, NEW to, NEW ch,
           ch = [slot |-> slot, saw |-> disk[slot], to |-> to], ch \in Change
    PROVE  /\ Write(slot, to) \in Seq(Change)
           /\ Write(slot, to) = IF disk[slot] = to THEN <<>> ELSE <<ch>>
           /\ Range(Write(slot, to)) = IF disk[slot] = to THEN {} ELSE {ch}
<1>1. Write(slot, to) = IF disk[slot] = to THEN <<>> ELSE <<ch>>
  BY DEF Write
<1> QED BY <1>1, NothingPlanned, OnePlanned

\* A change that is made.
LEMMA PutIs ==
    ASSUME disk \in Disk, NEW ch \in Change, disk' = [disk EXCEPT ![ch.slot] = ch.to]
    PROVE  /\ disk' \in Disk
           /\ disk'.skill = IF ch.slot = "skill" THEN ch.to ELSE disk.skill
           /\ disk'.file = IF ch.slot = "file" THEN ch.to ELSE disk.file
           /\ disk'.path = IF ch.slot = "path" THEN ch.to ELSE disk.path
           /\ disk'.config = IF ch.slot = "config" THEN ch.to ELSE disk.config
           /\ disk'.journal = IF ch.slot = "journal" THEN ch.to ELSE disk.journal
<1>1. CASE ch.slot = "skill"
  BY <1>1, ChangeIs DEF Disk
<1>2. CASE ch.slot = "file"
  BY <1>2, ChangeIs DEF Disk
<1>3. CASE ch.slot = "path"
  BY <1>3, ChangeIs DEF Disk
<1>4. CASE ch.slot = "config"
  BY <1>4, ChangeIs DEF Disk
<1>5. CASE ch.slot = "journal"
  BY <1>5, ChangeIs DEF Disk
<1> QED BY <1>1, <1>2, <1>3, <1>4, <1>5, ChangeIs DEF Slots

-----------------------------------------------------------------------------
(* What an install and an uninstall make of a file.                        *)

\* What is kept for a caller is kept for every caller of its installation.
LEMMA KeptForAll ==
    ASSUME NEW c, NEW d, c.cfg = d.cfg, NEW f, NEW g, KeptFor(c, f, g)
    PROVE  KeptFor(d, f, g)
BY DEF KeptFor

LEMMA KeptItself == ASSUME NEW c, NEW f PROVE KeptFor(c, f, f)
BY DEF KeptFor

\* Caller c's own entries are not among the others'.
LEMMA OthersStay ==
    ASSUME NEW c \in Callers, NEW parts \in SUBSET Part
    PROVE  /\ \A e \in Merged(c, parts) : e.by.cfg # c.cfg => e \in parts
           /\ \A e \in parts : e.by.cfg # c.cfg => e \in Merged(c, parts) /\ e \notin OursOf(c, parts)
           /\ Merged(c, parts) \subseteq Part /\ OursOf(c, parts) \subseteq parts
           /\ Merged(c, Merged(c, parts)) = Merged(c, parts)
           /\ Merged(c, parts) \ OursOf(c, Merged(c, parts)) = parts \ OursOf(c, parts)
           /\ Now(c) \in OursOf(c, Merged(c, parts))
<1>1. Now(c) \in Part /\ Now(c).by = c
  BY Callers1
<1> HIDE DEF Now
<1> QED BY <1>1 DEF Merged, OursOf

LEMMA WithBlockIs ==
    ASSUME NEW f \in File, NEW b \in Part \cup {Nobody}
    PROVE  /\ WithBlock(f, b) \in File
           /\ WithBlock(f, b).block = b /\ WithBlock(f, b).inside = {}
           /\ WithBlock(f, b).user = f.user \cup f.inside
           /\ WithBlock(f, b).entries = f.entries /\ WithBlock(f, b).rules = f.rules
           /\ WithBlock(f, b).odd = f.odd /\ WithBlock(f, b).there = TRUE
BY DEF WithBlock, File

\* g is what a command may make of f.
Makes(f, g) ==
    g \in File /\ Shaped(g) /\ g.odd = f.odd /\ g.user \cup g.inside = f.user \cup f.inside

LEMMA MakesItself == ASSUME NEW f \in File, Shaped(f) PROVE Makes(f, f)
BY DEF Makes

LEMMA MergeMakes ==
    ASSUME NEW c \in Callers, NEW f \in File, Shaped(f), host = "json"
    PROVE  Makes(f, PlanHooksMerge(c, f)) /\ KeptFor(c, f, PlanHooksMerge(c, f))
<1>1. CASE f.odd
  BY <1>1, KeptItself, MakesItself DEF PlanHooksMerge
<1>2. CASE ~f.odd
  <2>1. PICK g : g = PlanHooksMerge(c, f)
    OBVIOUS
  <2>2. f.entries \in SUBSET Part /\ f.rules \in SUBSET Part
    BY FileHas
  <2>3. /\ g \in File /\ g.entries = Merged(c, f.entries) /\ g.rules = Merged(c, f.rules)
        /\ g.user = f.user /\ g.inside = f.inside /\ g.block = f.block /\ g.odd = f.odd
    <3>1. PICK m \in SUBSET Part : m = Merged(c, f.entries)
      BY <2>2, OthersStay
    <3>2. PICK n \in SUBSET Part : n = Merged(c, f.rules)
      BY <2>2, OthersStay
    <3>3. g = [f EXCEPT !.there = TRUE, !.entries = m, !.rules = n]
      BY <1>2, <2>1, <3>1, <3>2 DEF PlanHooksMerge, MergeAllowRules
    <3>4. /\ g \in File /\ g.entries = m /\ g.rules = n
          /\ g.user = f.user /\ g.inside = f.inside /\ g.block = f.block /\ g.odd = f.odd
      BY <3>3 DEF File
    <3> QED BY <3>1, <3>2, <3>4
  <2>4. Shaped(g)
    BY <2>3 DEF Shaped
  <2>5. KeptFor(c, f, g)
    <3>1. ASSUME NEW parts \in SUBSET Part
          PROVE  {e \in Merged(c, parts) : e.by.cfg # c.cfg} = {e \in parts : e.by.cfg # c.cfg}
      <4>1. \A e : e \in Merged(c, parts) /\ e.by.cfg # c.cfg <=> e \in parts /\ e.by.cfg # c.cfg
        BY OthersStay
      <4> QED BY <4>1
    <3>2. /\ {e \in g.entries : e.by.cfg # c.cfg} = {e \in f.entries : e.by.cfg # c.cfg}
          /\ {e \in g.rules : e.by.cfg # c.cfg} = {e \in f.rules : e.by.cfg # c.cfg}
      BY <2>2, <2>3, <3>1
    <3> QED BY <2>3, <3>2 DEF KeptFor
  <2> QED BY <2>1, <2>3, <2>4, <2>5 DEF Makes
<1> QED BY <1>1, <1>2

LEMMA RemoveMakes ==
    ASSUME NEW c \in Callers, NEW f \in File, Shaped(f), host = "json"
    PROVE  /\ Makes(f, PlanHooksRemove(c, f)) /\ KeptFor(c, f, PlanHooksRemove(c, f))
           /\ Rid(c, PlanHooksRemove(c, f))
           /\ \A d : Rid(d, f) => Rid(d, PlanHooksRemove(c, f))
<1>1. PICK g : g = [f EXCEPT !.entries = @ \ OursOf(c, @), !.rules = @ \ OursOf(c, @)]
  OBVIOUS
<1>2. f.entries \in SUBSET Part /\ f.rules \in SUBSET Part
  BY FileHas
<1>3. /\ g \in File /\ g.entries = f.entries \ OursOf(c, f.entries)
      /\ g.rules = f.rules \ OursOf(c, f.rules)
      /\ g.user = f.user /\ g.inside = f.inside /\ g.block = f.block /\ g.odd = f.odd
  <2>1. PICK m \in SUBSET Part : m = f.entries \ OursOf(c, f.entries)
    BY <1>2
  <2>2. PICK n \in SUBSET Part : n = f.rules \ OursOf(c, f.rules)
    BY <1>2
  <2>3. g = [f EXCEPT !.entries = m, !.rules = n]
    BY <1>1, <2>1, <2>2
  <2>4. /\ g \in File /\ g.entries = m /\ g.rules = n
        /\ g.user = f.user /\ g.inside = f.inside /\ g.block = f.block /\ g.odd = f.odd
    BY <2>3 DEF File
  <2> QED BY <2>1, <2>2, <2>4
<1>4. f.block = Nobody /\ f.inside = {}
  BY DEF Shaped
<1>5. Shaped(g)
  BY <1>3, <1>4 DEF Shaped
<1>6. KeptFor(c, f, g)
  <2>1. /\ {e \in g.entries : e.by.cfg # c.cfg} = {e \in f.entries : e.by.cfg # c.cfg}
        /\ {e \in g.rules : e.by.cfg # c.cfg} = {e \in f.rules : e.by.cfg # c.cfg}
    BY <1>2, <1>3, OthersStay
  <2> QED BY <1>3, <2>1 DEF KeptFor
<1>7. \A d : Rid(d, f) => Rid(d, g)
  BY <1>3, <1>4 DEF Rid, HasBlock
<1>8. Rid(c, g)
  BY <1>3, <1>4 DEF Rid, HasBlock, OursOf
<1>9. CASE f.odd \/ g = f
  <2>1. PlanHooksRemove(c, f) = f
    BY <1>1, <1>9 DEF PlanHooksRemove
  <2>2. Rid(c, f)
    BY <1>8, <1>4, <1>9 DEF Rid, HasBlock
  <2> QED BY <2>1, <2>2, MakesItself, KeptItself
<1>10. CASE ~(f.odd \/ g = f) /\ HooksFileIsNowOnlyOurs(g)
  <2>1. PlanHooksRemove(c, f) = NoFile
    BY <1>1, <1>10 DEF PlanHooksRemove
  <2>2. Makes(f, NoFile)
    BY <1>3, <1>4, <1>10, FileHas, NoFileIs DEF Makes, HooksFileIsNowOnlyOurs
  <2>3. KeptFor(c, f, NoFile)
    BY <1>3, <1>4, <1>6, <1>10, NoFileIs DEF KeptFor, HooksFileIsNowOnlyOurs
  <2>4. \A d : Rid(d, NoFile)
    BY NoFileIs DEF Rid, HasBlock
  <2> QED BY <2>1, <2>2, <2>3, <2>4
<1>11. CASE ~(f.odd \/ g = f) /\ ~HooksFileIsNowOnlyOurs(g)
  <2>1. PlanHooksRemove(c, f) = g
    BY <1>1, <1>11 DEF PlanHooksRemove
  <2>2. Makes(f, g)
    BY <1>3, <1>5 DEF Makes
  <2> QED BY <1>6, <1>7, <1>8, <2>1, <2>2
<1> QED BY <1>9, <1>10, <1>11

LEMMA CodexInstalls ==
    ASSUME NEW c \in Callers, NEW f \in File, Shaped(f), host = "codex"
    PROVE  Makes(f, PlanCodexSandbox(c, f)) /\ KeptFor(c, f, PlanCodexSandbox(c, f))
<1>1. PICK g : g = WithBlock(f, Now(c))
  OBVIOUS
<1>2. /\ g \in File /\ g.block = Now(c) /\ g.inside = {} /\ g.user = f.user \cup f.inside
      /\ g.entries = f.entries /\ g.rules = f.rules /\ g.odd = f.odd
  BY <1>1, Callers1, WithBlockIs
<1>3. f.entries = {}
  BY DEF Shaped
<1>4. Makes(f, g)
  BY <1>2, <1>3 DEF Makes, Shaped
<1>5. ~HasBlock(f) \/ CodexBlockOwner(c, f) => KeptFor(c, f, g)
  BY <1>2 DEF KeptFor, CodexBlockOwner
<1> QED BY <1>1, <1>4, <1>5, MakesItself, KeptItself DEF PlanCodexSandbox

LEMMA CodexUninstalls ==
    ASSUME NEW c \in Callers, NEW f \in File, Shaped(f), host = "codex"
    PROVE  /\ Makes(f, RemoveOurSandboxBlock(c, f)) /\ KeptFor(c, f, RemoveOurSandboxBlock(c, f))
           /\ Rid(c, RemoveOurSandboxBlock(c, f))
           /\ \A d : Rid(d, f) => Rid(d, RemoveOurSandboxBlock(c, f))
<1>1. PICK g : g = WithBlock(f, Nobody)
  OBVIOUS
<1>2. /\ g \in File /\ g.block = Nobody /\ g.inside = {} /\ g.user = f.user \cup f.inside
      /\ g.entries = f.entries /\ g.rules = f.rules /\ g.odd = f.odd
  BY <1>1, WithBlockIs
<1>3. f.entries = {} /\ f.rules = {}
  BY DEF Shaped
<1>4. CASE HasBlock(f) /\ Readable(f) /\ CodexBlockOwner(c, f)
  <2>1. RemoveOurSandboxBlock(c, f) = g
    BY <1>1, <1>4 DEF RemoveOurSandboxBlock
  <2>2. Makes(f, g)
    BY <1>2, <1>3 DEF Makes, Shaped
  <2>3. KeptFor(c, f, g)
    BY <1>2, <1>4 DEF KeptFor, CodexBlockOwner
  <2>4. \A d : Rid(d, g)
    BY <1>2, <1>3 DEF Rid, HasBlock
  <2> QED BY <2>1, <2>2, <2>3, <2>4
<1>5. CASE ~(HasBlock(f) /\ Readable(f) /\ CodexBlockOwner(c, f))
  <2>1. RemoveOurSandboxBlock(c, f) = f
    BY <1>5 DEF RemoveOurSandboxBlock
  <2>2. Rid(c, f)
    BY <1>3, <1>5 DEF Rid, CodexBlockOwner
  <2> QED BY <2>1, <2>2, MakesItself, KeptItself
<1> QED BY <1>4, <1>5

LEMMA HermesInstalls ==
    ASSUME NEW c \in Callers, NEW f \in File, Shaped(f), host = "hermes"
    PROVE  Makes(f, PlanHermesHook(c, f)) /\ KeptFor(c, f, PlanHermesHook(c, f))
<1>1. PICK g : g = [f EXCEPT !.there = TRUE, !.block = Now(c)]
  OBVIOUS
<1>2. /\ g \in File /\ g.block = Now(c) /\ g.inside = f.inside /\ g.user = f.user
      /\ g.entries = f.entries /\ g.rules = f.rules /\ g.odd = f.odd
  <2>1. PICK b \in Part : b = Now(c)
    BY Callers1
  <2>2. g = [f EXCEPT !.there = TRUE, !.block = b]
    BY <1>1, <2>1
  <2>3. /\ g \in File /\ g.block = b /\ g.inside = f.inside /\ g.user = f.user
        /\ g.entries = f.entries /\ g.rules = f.rules /\ g.odd = f.odd
    BY <2>2 DEF File
  <2> QED BY <2>1, <2>3
<1>3. PlanHermesHook(c, f) \in {f, g}
  BY <1>1, FileHas DEF PlanHermesHook, HermesCutBlock, File
<1>4. CASE PlanHermesHook(c, f) = f
  BY <1>4, MakesItself, KeptItself
<1>5. CASE PlanHermesHook(c, f) # f
  <2>1. PlanHermesHook(c, f) = g /\ f.entries = {} /\ (HasBlock(f) => f.block.by = c)
    BY <1>3, <1>5 DEF PlanHermesHook, HermesConfigRefusal, HermesBlockLeft
  <2>2. Makes(f, g)
    BY <1>2, <2>1 DEF Makes, Shaped
  <2>3. KeptFor(c, f, g)
    BY <1>2, <2>1 DEF KeptFor
  <2> QED BY <2>1, <2>2, <2>3
<1> QED BY <1>4, <1>5

LEMMA HermesUninstalls ==
    ASSUME NEW c \in Callers, NEW f \in File, Shaped(f), host = "hermes"
    PROVE  /\ Makes(f, PlanHermesUnhook(c, f)) /\ KeptFor(c, f, PlanHermesUnhook(c, f))
           /\ Rid(c, PlanHermesUnhook(c, f))
           /\ \A d : Rid(d, f) => Rid(d, PlanHermesUnhook(c, f))
<1>1. f.rules = {} /\ f.inside = {} /\ (HasBlock(f) => f.entries = {})
  BY DEF Shaped, HasBlock
<1>2. CASE HasBlock(f) /\ HermesBlockLeft(c, f)
  <2>1. PlanHermesUnhook(c, f) = f
    BY <1>2 DEF PlanHermesUnhook
  <2>2. Rid(c, f)
    BY <1>1, <1>2 DEF Rid, HermesBlockLeft, HermesReadMarkedBlock, Readable
  <2> QED BY <2>1, <2>2, MakesItself, KeptItself
<1>3. CASE HasBlock(f) /\ ~HermesBlockLeft(c, f)
  <2>1. PICK g : g = HermesCutBlock(f)
    OBVIOUS
  <2>2. PlanHermesUnhook(c, f) = g
    BY <1>3, <2>1 DEF PlanHermesUnhook
  <2>3. /\ g \in File /\ g.block = Nobody /\ g.inside = f.inside /\ g.user = f.user
        /\ g.entries = f.entries /\ g.rules = f.rules /\ g.odd = f.odd
    BY <2>1 DEF HermesCutBlock, File
  <2>4. Makes(f, g)
    BY <1>1, <1>3, <2>3 DEF Makes, Shaped
  <2>5. KeptFor(c, f, g)
    BY <1>3, <2>3 DEF KeptFor, HermesBlockLeft
  <2>6. \A d : Rid(d, g)
    BY <1>1, <1>3, <2>3 DEF Rid, HasBlock
  <2> QED BY <2>2, <2>4, <2>5, <2>6
<1>4. CASE ~HasBlock(f) /\ FindHermesOwnEntry(c, f)
  <2>1. PICK g : g = RemoveHermesOwnEntry(c, f)
    OBVIOUS
  <2>2. PlanHermesUnhook(c, f) = g
    BY <1>4, <2>1 DEF PlanHermesUnhook
  <2>3. /\ g \in File /\ g.block = f.block /\ g.inside = f.inside /\ g.user = f.user
        /\ g.entries = f.entries \ OursOf(c, f.entries) /\ g.rules = f.rules /\ g.odd = f.odd
    <3>1. PICK m \in SUBSET Part : m = f.entries \ OursOf(c, f.entries)
      BY FileHas
    <3>2. g = [f EXCEPT !.entries = m]
      BY <2>1, <3>1 DEF RemoveHermesOwnEntry
    <3>3. /\ g \in File /\ g.block = f.block /\ g.inside = f.inside /\ g.user = f.user
          /\ g.entries = m /\ g.rules = f.rules /\ g.odd = f.odd
      BY <3>2 DEF File
    <3> QED BY <3>1, <3>3
  <2>4. Makes(f, g)
    BY <1>1, <1>4, <2>3 DEF Makes, Shaped, HasBlock
  <2>5. KeptFor(c, f, g)
    <3>1. {e \in g.entries : e.by.cfg # c.cfg} = {e \in f.entries : e.by.cfg # c.cfg}
      BY <2>3 DEF OursOf
    <3> QED BY <1>4, <2>3, <3>1 DEF KeptFor
  <2>6. Rid(c, g) /\ \A d : Rid(d, f) => Rid(d, g)
    BY <1>1, <1>4, <2>3 DEF Rid, HasBlock, OursOf
  <2> QED BY <2>2, <2>4, <2>5, <2>6
<1>5. CASE ~HasBlock(f) /\ ~FindHermesOwnEntry(c, f)
  <2>1. PlanHermesUnhook(c, f) = f
    BY <1>5 DEF PlanHermesUnhook
  <2>2. Rid(c, f)
    BY <1>1, <1>5 DEF Rid, FindHermesOwnEntry, HermesEntryIsOurs, HermesRunIsOurs, OursOf
  <2> QED BY <2>1, <2>2, MakesItself, KeptItself
<1> QED BY <1>2, <1>3, <1>4, <1>5

LEMMA ProfileInstalls ==
    ASSUME NEW c \in Callers, NEW f \in File, Shaped(f), host = "profile"
    PROVE  Makes(f, RewriteProfile(c, f))
<1>1. PICK g : g = [f EXCEPT !.there = TRUE, !.block = Now(c)]
  OBVIOUS
<1>2. /\ g \in File /\ g.block = Now(c) /\ g.inside = f.inside /\ g.user = f.user
      /\ g.entries = f.entries /\ g.rules = f.rules /\ g.odd = f.odd
  <2>1. PICK b \in Part : b = Now(c)
    BY Callers1
  <2>2. g = [f EXCEPT !.there = TRUE, !.block = b]
    BY <1>1, <2>1
  <2>3. /\ g \in File /\ g.block = b /\ g.inside = f.inside /\ g.user = f.user
        /\ g.entries = f.entries /\ g.rules = f.rules /\ g.odd = f.odd
    BY <2>2 DEF File
  <2> QED BY <2>1, <2>3
<1>3. Makes(f, g)
  BY <1>2 DEF Makes, Shaped
<1> QED BY <1>1, <1>3, MakesItself DEF RewriteProfile

LEMMA ProfileUninstalls ==
    ASSUME NEW c \in Callers, NEW f \in File, Shaped(f), host = "profile"
    PROVE  /\ Makes(f, RemoveProfileBlock(c, f)) /\ KeptFor(c, f, RemoveProfileBlock(c, f))
           /\ Rid(c, RemoveProfileBlock(c, f))
           /\ \A d : Rid(d, f) => Rid(d, RemoveProfileBlock(c, f))
<1>1. f.entries = {} /\ f.rules = {} /\ f.inside = {}
  BY DEF Shaped
<1>2. CASE f.odd \/ ~HasBlock(f) \/ f.block.by.cfg # c.cfg
  <2>1. RemoveProfileBlock(c, f) = f
    BY <1>2 DEF RemoveProfileBlock
  <2>2. Rid(c, f)
    BY <1>1, <1>2 DEF Rid
  <2> QED BY <2>1, <2>2, MakesItself, KeptItself
<1>3. CASE ~(f.odd \/ ~HasBlock(f) \/ f.block.by.cfg # c.cfg)
  <2>1. PICK g : g = [f EXCEPT !.block = Nobody]
    OBVIOUS
  <2>2. RemoveProfileBlock(c, f) = g
    BY <1>3, <2>1 DEF RemoveProfileBlock
  <2>3. /\ g \in File /\ g.block = Nobody /\ g.inside = f.inside /\ g.user = f.user
        /\ g.entries = f.entries /\ g.rules = f.rules /\ g.odd = f.odd
    BY <2>1 DEF File
  <2>4. Makes(f, g) /\ KeptFor(c, f, g) /\ \A d : Rid(d, g)
    BY <1>1, <1>3, <2>3 DEF Makes, Shaped, KeptFor, Rid, HasBlock
  <2> QED BY <2>2, <2>4
<1> QED BY <1>2, <1>3

LEMMA InstalledIs ==
    ASSUME host \in Hosts, NEW c \in Callers, NEW f \in File, Shaped(f)
    PROVE  /\ Makes(f, Installed(c, f))
           /\ host # "profile" => KeptFor(c, f, Installed(c, f))
<1>1. CASE host = "json"
  BY <1>1, MergeMakes DEF Installed
<1>2. CASE host = "codex"
  BY <1>2, CodexInstalls DEF Installed
<1>3. CASE host = "hermes"
  BY <1>3, HermesInstalls DEF Installed
<1>4. CASE host = "profile"
  BY <1>4, ProfileInstalls DEF Installed
<1>5. CASE host = "registry"
  BY <1>5, MakesItself, KeptItself DEF Installed
<1> QED BY <1>1, <1>2, <1>3, <1>4, <1>5 DEF Hosts

LEMMA UninstalledIs ==
    ASSUME host \in Hosts, NEW c \in Callers, NEW f \in File, Shaped(f)
    PROVE  /\ Makes(f, Uninstalled(c, f)) /\ KeptFor(c, f, Uninstalled(c, f))
           /\ Rid(c, Uninstalled(c, f))
           /\ \A d : Rid(d, f) => Rid(d, Uninstalled(c, f))
<1>1. CASE host = "json"
  BY <1>1, RemoveMakes DEF Uninstalled
<1>2. CASE host = "codex"
  BY <1>2, CodexUninstalls DEF Uninstalled
<1>3. CASE host = "hermes"
  BY <1>3, HermesUninstalls DEF Uninstalled
<1>4. CASE host = "profile"
  BY <1>4, ProfileUninstalls DEF Uninstalled
<1>5. CASE host = "registry"
  <2>1. Rid(c, f)
    BY <1>5 DEF Rid, Shaped
  <2> QED BY <1>5, <2>1, MakesItself, KeptItself DEF Uninstalled
<1> QED BY <1>1, <1>2, <1>3, <1>4, <1>5 DEF Hosts

-----------------------------------------------------------------------------
(* An install settles, and an uninstall after it leaves nothing of it.     *)

LEMMA InstallsOnce ==
    ASSUME host \in Hosts, NEW c \in Callers, NEW f \in File, Shaped(f)
    PROVE  Installed(c, Installed(c, f)) = Installed(c, f)
<1>1. CASE host = "json"
  <2>1. CASE f.odd
    BY <1>1, <2>1 DEF Installed, PlanHooksMerge
  <2>2. CASE ~f.odd
    <3>1. PICK m, n : m = Merged(c, f.entries) /\ n = Merged(c, f.rules)
      OBVIOUS
    <3>2. Merged(c, m) = m /\ Merged(c, n) = n
      BY <3>1, FileHas, OthersStay
    <3>3. PICK g : g = [f EXCEPT !.there = TRUE, !.entries = m, !.rules = n]
      OBVIOUS
    <3>4. Installed(c, f) = g
      BY <1>1, <2>2, <3>1, <3>3 DEF Installed, PlanHooksMerge, MergeAllowRules
    <3>5. /\ g.entries = m /\ g.rules = n /\ g.odd = f.odd
          /\ g = [g EXCEPT !.there = TRUE, !.entries = m, !.rules = n]
      BY <3>3 DEF File
    <3>6. PlanHooksMerge(c, g) = g
      BY <2>2, <3>2, <3>5 DEF PlanHooksMerge, MergeAllowRules
    <3> QED BY <1>1, <3>4, <3>6 DEF Installed
  <2> QED BY <2>1, <2>2
<1>2. CASE host = "codex"
  <2>1. CASE PlanCodexSandbox(c, f) = f
    BY <1>2, <2>1 DEF Installed
  <2>2. CASE PlanCodexSandbox(c, f) # f
    <3>1. PICK g : g = WithBlock(f, Now(c))
      OBVIOUS
    <3>2. g.block = Now(c) /\ g.inside = {}
      BY <3>1, Callers1, WithBlockIs
    <3>3. HasBlock(g) /\ Current(c, g)
      BY <3>2, Callers1 DEF HasBlock, Current, CodexBlockOwner
    <3>4. PlanCodexSandbox(c, g) = g
      BY <3>3 DEF PlanCodexSandbox
    <3>5. PlanCodexSandbox(c, f) = g
      BY <2>2, <3>1 DEF PlanCodexSandbox
    <3> QED BY <1>2, <3>4, <3>5 DEF Installed
  <2> QED BY <2>1, <2>2
<1>3. CASE host = "hermes"
  <2>1. CASE PlanHermesHook(c, f) = f
    BY <1>3, <2>1 DEF Installed
  <2>2. CASE PlanHermesHook(c, f) # f
    <3>1. PICK g : g = [HermesCutBlock(f) EXCEPT !.there = TRUE, !.block = Now(c)]
      OBVIOUS
    <3>2. g.block = Now(c)
      BY <3>1 DEF HermesCutBlock, File
    <3>3. HasBlock(g)
      BY <3>2, Callers1 DEF HasBlock
    <3>4. PlanHermesHook(c, g) = g
      BY <3>2, <3>3 DEF PlanHermesHook
    <3>5. PlanHermesHook(c, f) = g
      BY <2>2, <3>1 DEF PlanHermesHook
    <3> QED BY <1>3, <3>4, <3>5 DEF Installed
  <2> QED BY <2>1, <2>2
<1>4. CASE host = "profile"
  <2>1. CASE f.odd
    BY <1>4, <2>1 DEF Installed, RewriteProfile
  <2>2. CASE ~f.odd
    <3>1. PICK g : g = [f EXCEPT !.there = TRUE, !.block = Now(c)]
      OBVIOUS
    <3>2. g.odd = f.odd /\ g = [g EXCEPT !.there = TRUE, !.block = Now(c)]
      BY <3>1 DEF File
    <3>3. RewriteProfile(c, f) = g /\ RewriteProfile(c, g) = g
      BY <2>2, <3>1, <3>2 DEF RewriteProfile
    <3> QED BY <1>4, <3>3 DEF Installed
  <2> QED BY <2>1, <2>2
<1>5. CASE host = "registry"
  BY <1>5 DEF Installed
<1> QED BY <1>1, <1>2, <1>3, <1>4, <1>5 DEF Hosts

LEMMA UninstallUndoes ==
    ASSUME host \in Hosts, NEW c \in Callers, NEW f \in File, Shaped(f),
           NEW g, g = Uninstalled(c, f), f.block = Now(c), host = "profile" => ~f.odd
    PROVE  ~HasBlock(g)
<1>1. f.block.by = c /\ f.block.form = "now" /\ HasBlock(f) /\ Readable(f)
  BY Callers1 DEF HasBlock, Readable
<1>2. CASE host = "codex"
  <2>1. g = WithBlock(f, Nobody)
    BY <1>1, <1>2 DEF Uninstalled, RemoveOurSandboxBlock, CodexBlockOwner
  <2>2. WithBlock(f, Nobody).block = Nobody
    BY WithBlockIs
  <2> QED BY <2>1, <2>2 DEF HasBlock
<1>3. CASE host = "hermes"
  <2>1. g = HermesCutBlock(f)
    BY <1>1, <1>3 DEF Uninstalled, PlanHermesUnhook, HermesBlockLeft, HermesReadMarkedBlock, Readable
  <2>2. g.block = Nobody
    BY <2>1 DEF HermesCutBlock, File
  <2> QED BY <2>2 DEF HasBlock
<1>4. CASE host = "profile"
  <2>1. g = [f EXCEPT !.block = Nobody]
    BY <1>1, <1>4 DEF Uninstalled, RemoveProfileBlock
  <2>2. g.block = Nobody
    BY <2>1 DEF File
  <2> QED BY <2>2 DEF HasBlock
<1>5. host \notin {"codex", "hermes", "profile"} => FALSE
  BY <1>1 DEF Shaped, HasBlock
<1> QED BY <1>2, <1>3, <1>4, <1>5

-----------------------------------------------------------------------------
(* What the plans are made of.                                             *)

\* A change by a command of c's installation, if the file is what was read.
Good(c, ch) ==
    /\ ch.slot = "file" => Shaped(ch.to) /\ KeptFor(c, ch.saw, ch.to)
    /\ ch.slot = "skill" => ~ForeignOwner(c, ch.saw)
    /\ ch.slot = "path" => ch.to.user = ch.saw.user
    /\ host # "registry" => ch.slot \in {"skill", "file"}

Fine(c, t) == t \in Seq(Change) /\ \A ch \in Range(t) : Good(c, ch)

LEMMA FineBoth ==
    ASSUME NEW c, NEW s, NEW t, Fine(c, s), Fine(c, t)
    PROVE  Fine(c, s \o t) /\ Range(s \o t) = Range(s) \cup Range(t)
BY BothPlanned DEF Fine

LEMMA FineNothing == ASSUME NEW c PROVE Fine(c, <<>>)
BY NothingPlanned DEF Fine

\* What a write of one slot is.
Single(t, slot, to) ==
    /\ \A ch \in Range(t) : ch.slot = slot /\ ch.saw = disk[slot] /\ ch.to = to
    /\ disk[slot] = to \/ \E ch \in Range(t) : ch.slot = slot

LEMMA SkillWrite ==
    ASSUME disk \in Disk, NEW c, NEW to \in Skill, ForeignOwner(c, disk.skill) => to = disk.skill
    PROVE  Fine(c, Write("skill", to)) /\ Single(Write("skill", to), "skill", to)
<1>1. PICK ch : ch = [slot |-> "skill", saw |-> disk.skill, to |-> to]
  OBVIOUS
<1>2. ch \in Change /\ ch.slot = "skill" /\ ch.saw = disk.skill /\ ch.to = to
  BY <1>1, DiskHas DEF Change
<1>3. /\ Write("skill", to) \in Seq(Change)
      /\ Range(Write("skill", to)) = IF disk.skill = to THEN {} ELSE {ch}
  BY <1>1, <1>2, WriteIs DEF Slots
<1> QED BY <1>2, <1>3 DEF Fine, Good, Single

LEMMA FileWrite ==
    ASSUME disk \in Disk, NEW to \in File
    PROVE  /\ Write("file", to) \in Seq(Change) /\ Single(Write("file", to), "file", to)
           /\ \A c : Shaped(to) /\ KeptFor(c, disk.file, to) => Fine(c, Write("file", to))
<1>1. PICK ch : ch = [slot |-> "file", saw |-> disk.file, to |-> to]
  OBVIOUS
<1>2. ch \in Change /\ ch.slot = "file" /\ ch.saw = disk.file /\ ch.to = to
  BY <1>1, DiskHas DEF Change
<1>3. /\ Write("file", to) \in Seq(Change)
      /\ Range(Write("file", to)) = IF disk.file = to THEN {} ELSE {ch}
  BY <1>1, <1>2, WriteIs DEF Slots
<1> QED BY <1>2, <1>3 DEF Fine, Good, Single

LEMMA SkillGoes ==
    ASSUME disk \in Disk, NEW read \in Skill
    PROVE  /\ RemoveSkill(read) \in Seq(Change)
           /\ \A ch \in Range(RemoveSkill(read)) : ch.slot = "skill" /\ ch.saw = read /\ ch.to = NoSkill
           /\ disk.skill = NoSkill \/ \E ch \in Range(RemoveSkill(read)) : ch.slot = "skill"
           /\ \A c : ~ForeignOwner(c, read) => Fine(c, RemoveSkill(read))
<1>1. PICK ch : ch = [slot |-> "skill", saw |-> read, to |-> NoSkill]
  OBVIOUS
<1>2. ch \in Change /\ ch.slot = "skill" /\ ch.saw = read /\ ch.to = NoSkill
  BY <1>1, NoSkillIs DEF Change
<1>3. /\ RemoveSkill(read) \in Seq(Change)
      /\ Range(RemoveSkill(read)) = IF disk.skill = NoSkill THEN {} ELSE {ch}
  BY <1>1, <1>2, NothingPlanned, OnePlanned DEF RemoveSkill
<1> QED BY <1>2, <1>3 DEF Fine, Good

LEMMA RemovalPlan ==
    ASSUME disk \in Disk, NEW c, NEW s, Fine(c, s),
           NEW f \in File, Shaped(f), KeptFor(c, disk.file, f)
    PROVE  /\ Fine(c, PlanRemoval(s, f))
           /\ \A ch : ch \in Range(PlanRemoval(s, f)) <=> ch \in Range(s) \/ ch \in Range(Write("file", f))
<1>1. Fine(c, Write("file", f))
  BY FileWrite
<1> QED BY <1>1, FineBoth DEF PlanRemoval

LEMMA PlannedSkill ==
    ASSUME disk \in Disk, NEW c \in Callers, NEW v \in {"on", "off"}
    PROVE  /\ PlanSkill(c, v) \in Skill /\ PlanPreference(c, v) \in Skill
           /\ ForeignOwner(c, disk.skill) => PlanSkill(c, v) = disk.skill /\ PlanPreference(c, v) = disk.skill
<1>1. PlanSkill(c, v) \in Skill
  BY DiskHas DEF PlanSkill, Skill
<1>2. ForeignOwner(c, disk.skill) => disk.skill # NoSkill
  BY NoSkillIs
<1> QED BY <1>1, <1>2, NoSkillIs DEF PlanSkill, PlanPreference

LEMMA InstallPlan ==
    ASSUME disk \in Disk, host \in Hosts, host # "profile", Shaped(disk.file), NEW c \in Callers,
           prefer \in [Configs -> {"on", "off"}]
    PROVE  Fine(c, PlanInstall(c))
<1>1. prefer[c.cfg] \in {"on", "off"}
  BY Callers1
<1>2. Fine(c, Write("skill", PlanSkill(c, prefer[c.cfg])))
  BY <1>1, PlannedSkill, SkillWrite
<1>3. /\ Installed(c, disk.file) \in File /\ Shaped(Installed(c, disk.file))
      /\ KeptFor(c, disk.file, Installed(c, disk.file))
  BY InstalledIs, DiskHas DEF Makes
<1>4. Fine(c, Write("file", Installed(c, disk.file)))
  BY <1>3, FileWrite
<1> QED BY <1>2, <1>4, FineBoth DEF PlanInstall

LEMMA UninstallPlan ==
    ASSUME disk \in Disk, host \in Hosts, Shaped(disk.file), NEW c \in Callers
    PROVE  Fine(c, PlanUninstall(c))
<1>1. /\ Uninstalled(c, disk.file) \in File /\ Shaped(Uninstalled(c, disk.file))
      /\ KeptFor(c, disk.file, Uninstalled(c, disk.file))
  BY UninstalledIs, DiskHas DEF Makes
<1>2. Fine(c, IF ForeignOwner(c, disk.skill) THEN <<>> ELSE RemoveSkill(disk.skill))
  BY DiskHas, SkillGoes, FineNothing
<1> QED BY <1>1, <1>2, RemovalPlan DEF PlanUninstall

LEMMA PreferPlan ==
    ASSUME disk \in Disk, NEW c \in Callers, NEW v \in {"on", "off"}
    PROVE  Fine(c, Write("skill", PlanPreference(c, v)))
BY PlannedSkill, SkillWrite

\* What is planned for candidate c by the whole uninstall r.
LEMMA CandidatePlan ==
    ASSUME disk \in Disk, host \in Hosts, Shaped(disk.file), NEW c \in Callers,
           NEW r \in Command, ~r.held => ~ForeignOwner(c, r.read), NEW t, t = PlanCandidate(c, r)
    PROVE  /\ Fine(c, t)
           /\ ~r.held =>
                 /\ \A ch \in Range(t) : /\ ch.slot = "file" => ch.to = Uninstalled(c, disk.file)
                                         /\ ch.slot = "skill" => ch.to = NoSkill
                 /\ Uninstalled(c, disk.file) = disk.file \/ \E ch \in Range(t) : ch.slot = "file"
                 /\ disk.skill = NoSkill \/ \E ch \in Range(t) : ch.slot = "skill"
<1>1. /\ Uninstalled(c, disk.file) \in File /\ Shaped(Uninstalled(c, disk.file))
      /\ KeptFor(c, disk.file, Uninstalled(c, disk.file))
  BY UninstalledIs, DiskHas DEF Makes
<1>2. PICK f : f = IF r.held /\ host = "codex" THEN disk.file ELSE Uninstalled(c, disk.file)
  OBVIOUS
<1>3. PICK s : s = IF r.held THEN <<>> ELSE RemoveSkill(r.read)
  OBVIOUS
<1>4. f \in File /\ Shaped(f) /\ KeptFor(c, disk.file, f) /\ (~r.held => f = Uninstalled(c, disk.file))
  BY <1>1, <1>2, DiskHas, KeptItself
<1>5. Fine(c, s)
  BY <1>3, CommandHas, SkillGoes, FineNothing
<1>6. t = PlanRemoval(s, f)
  BY <1>2, <1>3 DEF PlanCandidate
<1>7. /\ Fine(c, t)
      /\ \A ch : ch \in Range(t) <=> ch \in Range(s) \/ ch \in Range(Write("file", f))
  BY <1>4, <1>5, <1>6, RemovalPlan
<1>8. Single(Write("file", f), "file", f)
  BY <1>4, FileWrite
<1>9. ~r.held =>
         /\ \A ch \in Range(s) : ch.slot = "skill" /\ ch.to = NoSkill
         /\ disk.skill = NoSkill \/ \E ch \in Range(s) : ch.slot = "skill"
  BY <1>3, CommandHas, SkillGoes
<1> QED BY <1>4, <1>7, <1>8, <1>9 DEF Single

-----------------------------------------------------------------------------
(* The plans for the user environment.                                     *)

LEMMA PathWrite ==
    ASSUME disk \in Disk, host = "registry", NEW c, NEW to \in Path, to.user = disk.path.user
    PROVE  Fine(c, Write("path", to)) /\ Single(Write("path", to), "path", to)
<1>1. PICK ch : ch = [slot |-> "path", saw |-> disk.path, to |-> to]
  OBVIOUS
<1>2. ch \in Change /\ ch.slot = "path" /\ ch.saw = disk.path /\ ch.to = to
  BY <1>1, DiskHas DEF Change
<1>3. /\ Write("path", to) \in Seq(Change)
      /\ Range(Write("path", to)) = IF disk.path = to THEN {} ELSE {ch}
  BY <1>1, <1>2, WriteIs DEF Slots
<1> QED BY <1>2, <1>3 DEF Fine, Good, Single

LEMMA ConfigWrite ==
    ASSUME disk \in Disk, host = "registry", NEW c, NEW to \in Setting
    PROVE  Fine(c, Write("config", to)) /\ Single(Write("config", to), "config", to)
<1>1. PICK ch : ch = [slot |-> "config", saw |-> disk.config, to |-> to]
  OBVIOUS
<1>2. ch \in Change /\ ch.slot = "config" /\ ch.saw = disk.config /\ ch.to = to
  BY <1>1, DiskHas DEF Change
<1>3. /\ Write("config", to) \in Seq(Change)
      /\ Range(Write("config", to)) = IF disk.config = to THEN {} ELSE {ch}
  BY <1>1, <1>2, WriteIs DEF Slots
<1> QED BY <1>2, <1>3 DEF Fine, Good, Single

LEMMA JournalWrite ==
    ASSUME disk \in Disk, host = "registry", NEW c, NEW to \in Record \cup {Nobody}
    PROVE  /\ Fine(c, Write("journal", to)) /\ Single(Write("journal", to), "journal", to)
           /\ Write("journal", to) = <<>> \/ \E ch \in Change : Write("journal", to) = <<ch>>
           /\ disk.journal # to => Write("journal", to) # <<>>
<1>1. PICK ch : ch = [slot |-> "journal", saw |-> disk.journal, to |-> to]
  OBVIOUS
<1>2. ch \in Change /\ ch.slot = "journal" /\ ch.saw = disk.journal /\ ch.to = to
  BY <1>1, DiskHas DEF Change
<1>3. /\ Write("journal", to) \in Seq(Change)
      /\ Write("journal", to) = IF disk.journal = to THEN <<>> ELSE <<ch>>
      /\ Range(Write("journal", to)) = IF disk.journal = to THEN {} ELSE {ch}
  BY <1>1, <1>2, WriteIs DEF Slots
<1>4. <<ch>> # <<>>
  OBVIOUS
<1> QED BY <1>2, <1>3, <1>4 DEF Fine, Good, Single

\* A plan with one change before, or after, all others.
LEMMA First ==
    ASSUME NEW u \in Seq(Change), \A x \in Range(u) : x.slot # "journal",
           NEW s, s = <<>> \/ \E ch \in Change : s = <<ch>>
    PROVE  /\ \A i \in 1 .. Len(s \o u) : (s \o u)[i].slot = "journal" => i = 1
           /\ s # <<>> => (s \o u)[1] \in Range(s)
           /\ \A i \in 1 .. Len(u \o s) : (u \o s)[i].slot = "journal" => i = Len(u \o s)
<1>1. CASE s = <<>>
  <2>1. Range(s \o u) = Range(u) /\ Range(u \o s) = Range(u)
    BY <1>1, NothingPlanned, BothPlanned
  <2>2. s \o u \in Seq(Change) /\ u \o s \in Seq(Change)
    BY <1>1, NothingPlanned, BothPlanned
  <2> QED BY <1>1, <2>1, <2>2, PlanHas
<1>2. CASE s # <<>>
  <2> PICK ch \in Change : s = <<ch>>
    BY <1>2
  <2>1. s \in Seq(Change) /\ Len(s) = 1 /\ s[1] = ch /\ Range(s) = {ch}
    BY OnePlanned
  <2>2. /\ s \o u \in Seq(Change) /\ Len(s \o u) = 1 + Len(u) /\ (s \o u)[1] = ch
        /\ \A i \in 1 .. Len(u) : (s \o u)[1 + i] = u[i]
    <3>1. 1 \in 1 .. Len(s)
      BY <2>1
    <3> QED BY <2>1, <3>1, BothPlanned
  <2>3. /\ Len(u \o s) = Len(u) + 1 /\ \A i \in 1 .. Len(u) : (u \o s)[i] = u[i]
    BY <2>1, BothPlanned
  <2>4. Len(u) \in Nat /\ \A i \in 1 .. Len(u) : u[i].slot # "journal"
    BY PlanHas
  <2>5. ASSUME NEW i \in 1 .. Len(s \o u), i # 1 PROVE (s \o u)[i].slot # "journal"
    <3>1. i - 1 \in 1 .. Len(u) /\ 1 + (i - 1) = i
      BY <2>2, <2>4, <2>5
    <3> QED BY <2>2, <2>4, <3>1
  <2>6. ASSUME NEW i \in 1 .. Len(u \o s), i # Len(u \o s) PROVE (u \o s)[i].slot # "journal"
    <3>1. i \in 1 .. Len(u)
      BY <2>3, <2>4, <2>6
    <3> QED BY <2>3, <2>4, <3>1
  <2> QED BY <2>1, <2>2, <2>5, <2>6
<1> QED BY <1>1, <1>2

LEMMA NextRecordIs ==
    ASSUME disk \in Disk, NEW c \in Callers
    PROVE  /\ NextRecord(c) \in Record
           /\ before \in [ours : BOOLEAN, config : Setting] /\ Environment /\ c.cfg = Home =>
                 NextRecord(c) = TheRecord
<1>1. disk.path.ours \in BOOLEAN /\ disk.config \in Setting
  BY DiskHas DEF Path
<1>2. disk.journal # Nobody => disk.journal.added \in BOOLEAN /\ disk.journal.previous \in Setting
  BY DiskHas DEF Record
<1>3. NextRecord(c) \in Record
  BY <1>1, <1>2, Callers1 DEF NextRecord, Record
<1>4. ASSUME before \in [ours : BOOLEAN, config : Setting], Environment, c.cfg = Home
      PROVE  NextRecord(c) = TheRecord
  <2>1. CASE disk.journal = Nobody
    BY <1>1, <1>4, <2>1 DEF NextRecord, TheRecord, Environment, Original
  <2>2. CASE disk.journal # Nobody
    <3>1. disk.journal = TheRecord /\ disk.journal.added = ~before.ours
          /\ disk.journal.previous = before.config
      BY <1>4, <2>2 DEF Environment, TheRecord
    <3>2. (~disk.path.ours \/ disk.journal.added) = ~before.ours
      BY <1>1, <1>4, <3>1 DEF Environment
    <3> QED BY <1>4, <2>2, <3>1, <3>2 DEF NextRecord, TheRecord
  <2> QED BY <2>1, <2>2
<1> QED BY <1>3, <1>4

LEMMA SetupEnvironmentPlan ==
    ASSUME disk \in Disk, host = "registry", NEW c \in Callers,
           NEW r, r.kind = "setup", r.todo = PlanUserEnvironment(c)
    PROVE  /\ Fine(c, r.todo)
           /\ before \in [ours : BOOLEAN, config : Setting] /\ Environment /\ c.cfg = Home => Changing(r)
<1>1. PICK s, t, u : /\ s = Write("journal", NextRecord(c))
                     /\ t = Write("path", [disk.path EXCEPT !.ours = TRUE])
                     /\ u = Write("config", c.cfg)
  OBVIOUS
<1>2. PICK to \in Path : to = [disk.path EXCEPT !.ours = TRUE] /\ to.ours = TRUE /\ to.user = disk.path.user
  <2>1. [disk.path EXCEPT !.ours = TRUE] \in Path
    BY DiskHas DEF Path
  <2> QED BY <2>1, DiskHas DEF Path
<1>3. Fine(c, t) /\ Single(t, "path", to)
  BY <1>1, <1>2, PathWrite
<1>4. Fine(c, u) /\ Single(u, "config", c.cfg)
  BY <1>1, Callers1, ConfigWrite DEF Setting
<1>5. /\ Fine(c, s) /\ Single(s, "journal", NextRecord(c))
      /\ s = <<>> \/ \E ch \in Change : s = <<ch>>
      /\ disk.journal # NextRecord(c) => s # <<>>
  BY <1>1, NextRecordIs, JournalWrite
<1>6. Fine(c, t \o u) /\ Range(t \o u) = Range(t) \cup Range(u)
  <2> t \in Seq(Change) /\ u \in Seq(Change)
    BY <1>3, <1>4 DEF Fine
  <2>1. t \o u \in Seq(Change) /\ Range(t \o u) = Range(t) \cup Range(u)
    BY BothPlanned
  <2> QED BY <1>3, <1>4, <2>1 DEF Fine
<1>7. r.todo = s \o (t \o u)
  <2>1. s \in Seq(Change) /\ t \in Seq(Change) /\ u \in Seq(Change)
    BY <1>3, <1>4, <1>5 DEF Fine
  <2> QED BY <1>1, <2>1, ConcatAssociative DEF PlanUserEnvironment
<1>8. Fine(c, r.todo) /\ Range(r.todo) = Range(s) \cup Range(t) \cup Range(u)
  <2> DEFINE v == t \o u
  <2> s \in Seq(Change) /\ v \in Seq(Change)
    BY <1>5, <1>6 DEF Fine
  <2> HIDE DEF v
  <2>1. s \o v \in Seq(Change) /\ Range(s \o v) = Range(s) \cup Range(v)
    BY BothPlanned
  <2> QED BY <1>5, <1>6, <1>7, <2>1 DEF Fine, v
<1>9. ASSUME before \in [ours : BOOLEAN, config : Setting], Environment, c.cfg = Home
      PROVE  Changing(r)
  <2>1. NextRecord(c) = TheRecord /\ NextRecord(c) # Nobody
    BY <1>9, NextRecordIs, NobodyAssumption
  <2>2. \A ch \in Range(r.todo) : /\ ch.slot = "path" => ch.to.ours
                                  /\ ch.slot = "config" => ch.to = Home
                                  /\ ch.slot = "journal" => ch.to = TheRecord
    BY <1>2, <1>3, <1>4, <1>5, <1>8, <1>9, <2>1 DEF Single
  <2>3. /\ t \o u \in Seq(Change) /\ \A x \in Range(t \o u) : x.slot # "journal"
    BY <1>3, <1>4, <1>6 DEF Fine, Single
  <2>4. /\ \A i \in 1 .. Len(r.todo) : r.todo[i].slot = "journal" => i = 1
        /\ s # <<>> => r.todo[1] \in Range(s)
    BY <1>5, <1>7, <2>3, First
  <2>5. disk.journal = Nobody => r.todo[1].slot = "journal"
    BY <1>5, <2>1, <2>4 DEF Single
  <2> QED BY <2>2, <2>4, <2>5 DEF Changing
<1> QED BY <1>8, <1>9

LEMMA RevertPlan ==
    ASSUME disk \in Disk, host = "registry", NEW c,
           NEW r, r.kind = "full", r.todo = PlanUserEnvironmentRevert
    PROVE  /\ Fine(c, r.todo) /\ \A ch \in Range(r.todo) : ch.slot \notin {"skill", "file"}
           /\ before \in [ours : BOOLEAN, config : Setting] /\ Environment => Changing(r)
<1>1. CASE disk.journal = Nobody
  <2>1. r.todo = <<>>
    BY <1>1 DEF PlanUserEnvironmentRevert
  <2> QED BY <2>1, NothingPlanned, FineNothing DEF Changing, Writes
<1>2. CASE disk.journal # Nobody
  <2>0. disk.journal.added \in BOOLEAN /\ disk.journal.previous \in Setting
    BY <1>2, DiskHas DEF Record
  <2>1. PICK to \in Path : /\ to = [disk.path EXCEPT !.ours = @ /\ ~disk.journal.added]
                           /\ to.ours = (disk.path.ours /\ ~disk.journal.added)
                           /\ to.user = disk.path.user
    <3>1. PICK b \in BOOLEAN : b = (disk.path.ours /\ ~disk.journal.added)
      OBVIOUS
    <3>2. [disk.path EXCEPT !.ours = b] \in Path /\ [disk.path EXCEPT !.ours = b].ours = b
          /\ [disk.path EXCEPT !.ours = b].user = disk.path.user
      BY DiskHas DEF Path
    <3> QED BY <3>1, <3>2
  <2>2. PICK s, t, u : /\ s = Write("path", to)
                       /\ t = (IF disk.config = disk.journal.set
                               THEN Write("config", disk.journal.previous) ELSE <<>>)
                       /\ u = Write("journal", Nobody)
    OBVIOUS
  <2>3. Fine(c, s) /\ Single(s, "path", to)
    BY <2>1, <2>2, PathWrite
  <2>4. /\ Fine(c, t) /\ \A ch \in Range(t) : ch.slot = "config" /\ ch.to = disk.journal.previous
        /\ disk.config = disk.journal.set =>
              disk.config = disk.journal.previous \/ \E ch \in Range(t) : ch.slot = "config"
    <3>1. CASE disk.config = disk.journal.set
      BY <2>0, <2>2, <3>1, ConfigWrite DEF Single
    <3>2. CASE disk.config # disk.journal.set
      BY <2>2, <3>2, NothingPlanned, FineNothing
    <3> QED BY <3>1, <3>2
  <2>5. /\ Fine(c, u) /\ Single(u, "journal", Nobody)
        /\ u = <<>> \/ \E ch \in Change : u = <<ch>>
    BY <2>2, JournalWrite
  <2>6. Fine(c, s \o t) /\ Range(s \o t) = Range(s) \cup Range(t)
    <3> s \in Seq(Change) /\ t \in Seq(Change)
      BY <2>3, <2>4 DEF Fine
    <3>1. s \o t \in Seq(Change) /\ Range(s \o t) = Range(s) \cup Range(t)
      BY BothPlanned
    <3> QED BY <2>3, <2>4, <3>1 DEF Fine
  <2>7. r.todo = (s \o t) \o u
    BY <1>2, <2>1, <2>2 DEF PlanUserEnvironmentRevert
  <2>8. Fine(c, r.todo) /\ Range(r.todo) = Range(s) \cup Range(t) \cup Range(u)
    <3> DEFINE v == s \o t
    <3> v \in Seq(Change) /\ u \in Seq(Change)
      BY <2>5, <2>6 DEF Fine
    <3> HIDE DEF v
    <3>1. v \o u \in Seq(Change) /\ Range(v \o u) = Range(v) \cup Range(u)
      BY BothPlanned
    <3> QED BY <2>5, <2>6, <2>7, <3>1 DEF Fine, v
  <2>9. ASSUME before \in [ours : BOOLEAN, config : Setting], Environment PROVE Changing(r)
    <3>1. /\ disk.journal.added = ~before.ours /\ disk.journal.set = Home
          /\ disk.journal.previous = before.config
      BY <1>2, <2>9 DEF Environment, TheRecord
    <3>2. disk.path.ours \in {before.ours, TRUE} /\ disk.config \in {before.config, Home}
      BY <2>9 DEF Environment
    <3>3. to.ours = before.ours
      BY <2>1, <2>9, <3>1, <3>2
    <3>4. \A ch \in Range(r.todo) : /\ ch.slot = "path" => ch.to.ours = before.ours
                                    /\ ch.slot = "config" => ch.to = before.config
                                    /\ ch.slot = "journal" => ch.to = Nobody
      BY <2>3, <2>4, <2>5, <2>8, <3>1, <3>3 DEF Single
    <3>5. s \o t \in Seq(Change) /\ \A x \in Range(s \o t) : x.slot # "journal"
      BY <2>3, <2>4, <2>6 DEF Fine, Single
    <3>6. \A i \in 1 .. Len(r.todo) : r.todo[i].slot = "journal" => i = Len(r.todo)
      BY <2>5, <2>7, <3>5, First
    <3>7. disk.path.ours = before.ours \/ Writes(r, "path")
      BY <2>3, <2>8, <3>3 DEF Single, Writes
    <3>8. disk.config = before.config \/ Writes(r, "config")
      BY <2>4, <2>8, <3>1, <3>2 DEF Writes
    <3> QED BY <3>4, <3>6, <3>7, <3>8 DEF Changing
  <2>10. \A ch \in Range(r.todo) : ch.slot \notin {"skill", "file"}
    BY <2>3, <2>4, <2>5, <2>8 DEF Single
  <2> QED BY <2>8, <2>9, <2>10
<1> QED BY <1>1, <1>2

-----------------------------------------------------------------------------
(* Steps.                                                                  *)

\* What is said of a command's record, said of it after the step.
LEMMA Later ==
    ASSUME host' = host, NEW p, NEW n, proc'[p] = n
    PROVE  /\ Ordered(n) => Ordered(proc[p])'
           /\ disk' = disk => (Removing(n) => Removing(proc[p])')
           /\ disk' = disk /\ before' = before => (Changing(n) => Changing(proc[p])')
<1>1. Ordered(n) => Ordered(proc[p])'
  BY DEF Ordered, Fair, Shaped, KeptFor, HasBlock, ForeignOwner
<1>2. disk' = disk => (Removing(n) => Removing(proc[p])')
  BY DEF Removing, Rid, Writes, HasBlock, Readable
<1>3. disk' = disk /\ before' = before => (Changing(n) => Changing(proc[p])')
  BY DEF Changing, Writes, TheRecord
<1> QED BY <1>1, <1>2, <1>3

LEMMA IdleIsFine == Ordered(Idle) /\ Changing(Idle)
<1>1. Range(Idle.todo) = {}
  BY IdleIs, NothingPlanned
<1> QED BY <1>1, IdleIs DEF Ordered, Changing

LEMMA LessAlone ==
    ASSUME NEW r \in Command, NEW m, m = [r EXCEPT !.alone = FALSE]
    PROVE  /\ m \in Command /\ m.kind = r.kind /\ m.by = r.by /\ m.alone = FALSE
           /\ Ordered(r) => Ordered(m)
           /\ r.kind = "none" => Changing(m)
<1>1. /\ m \in Command /\ m.kind = r.kind /\ m.by = r.by /\ m.todo = r.todo /\ m.left = r.left
      /\ m.cands = r.cands /\ m.held = r.held /\ m.read = r.read /\ m.failed = r.failed
      /\ m.alone = FALSE
  BY DEF Command
<1>2. r = Idle => m = Idle
  <2>1. r.alone = FALSE => m = r
    BY DEF Command
  <2> QED BY <2>1, IdleIs
<1>3. Ordered(r) => Ordered(m)
  BY <1>1, <1>2 DEF Ordered, Fair
<1> QED BY <1>1, <1>3 DEF Changing

LEMMA MoveStep ==
    ASSUME IInv, NEW p \in Processes, Running(p), NEW n \in Command, proc' = [proc EXCEPT ![p] = n],
           n = Idle \/ (n.kind = proc[p].kind /\ n.by = proc[p].by /\ n.alone = proc[p].alone),
           Ordered(n), disk' \in Disk, Shaped(disk.file)',
           stale' \in BOOLEAN, faults' \in 0 .. MaxFaults,
           UNCHANGED <<host, prefer, before, begun, acts>>,
           n.alone /\ ~n.failed /\ ~n.held /\ ~stale' => Removing(proc[p])',
           host = "registry" /\ acts = 0 => Environment' /\ Changing(proc[p])'
    PROVE  IInv'
<1>1. /\ proc \in [Processes -> Command] /\ proc' \in [Processes -> Command] /\ proc'[p] = n
      /\ \A q \in Processes \ {p} : proc'[q] = proc[q]
  BY DEF IInv, Typed
<1>2. Typed'
  BY <1>1 DEF IInv, Typed
<1>3. ASSUME NEW q \in Processes PROVE Ordered(proc[q])'
  <2>1. PICK m : m = proc'[q] /\ Ordered(m)
    BY <1>1 DEF IInv
  <2> QED BY <2>1, Later
<1>4. ASSUME NEW q \in Processes PROVE Undisturbed(q)'
  <2>1. CASE q # p
    <3>1. proc'[q].alone = FALSE
      <4>1. proc[q].alone => ~Running(p)
        BY <2>1 DEF IInv, Undisturbed
      <4>2. proc[q].alone \in BOOLEAN
        BY <1>1, CommandHas
      <4> QED BY <1>1, <2>1, <4>1, <4>2
    <3> QED BY <3>1 DEF Undisturbed
  <2>2. CASE q = p /\ ~n.alone
    BY <1>1, <2>2 DEF Undisturbed
  <2>3. CASE q = p /\ n.alone
    <3>1. proc[p].alone /\ n.kind = proc[p].kind
      BY <2>3, IdleIs
    <3>2. proc[p].kind = "full" /\ \A o \in Processes \ {p} : ~Running(o)
      BY <3>1 DEF IInv, Undisturbed
    <3>3. (\A o \in Processes \ {p} : ~Running(o))'
      BY <1>1, <3>2 DEF Running
    <3> QED BY <1>1, <2>3, <3>1, <3>2, <3>3 DEF Undisturbed
  <2> QED BY <2>1, <2>2, <2>3
<1>5. InTurn'
  <2> SUFFICES ASSUME host = "registry" PROVE InTurn'
    BY DEF InTurn
  <2>1. /\ proc[p].kind \in {"setup", "full"} /\ proc[p].by.cfg = Home
        /\ \A q \in Processes \ {p} : ~Running(q)
    BY DEF IInv, InTurn
  <2>2. \A q \in Processes \ {p} : proc'[q] = Idle
    BY <1>1, <2>1 DEF IInv, Ordered, Running
  <2>3. /\ n = Idle \/ (n.kind \in {"setup", "full"} /\ n.by.cfg = Home)
        /\ Idle.kind = "none"
    BY <2>1, IdleIs
  <2>4. (\A q \in Processes : Running(q) => proc[q].kind \in {"setup", "full"} /\ proc[q].by.cfg = Home)'
    BY <1>1, <2>2, <2>3 DEF Running
  <2>5. (\A q, o \in Processes : Running(q) /\ Running(o) => q = o)'
    BY <1>1, <2>2, <2>3 DEF Running
  <2>6. ASSUME acts = 0, NEW q \in Processes PROVE Changing(proc[q])'
    <3>1. CASE q = p
      BY <2>6, <3>1
    <3>2. CASE q # p
      <4>1. proc'[q].kind = "none"
        BY <2>2, <2>3, <3>2
      <4> QED BY <4>1 DEF Changing
    <3> QED BY <3>1, <3>2
  <2> QED BY <2>4, <2>5, <2>6 DEF InTurn
<1> QED BY <1>2, <1>3, <1>4, <1>5 DEF IInv

LEMMA BegunIs ==
    ASSUME proc \in [Processes -> Command], NEW p \in Processes, NEW k \in Kinds, NEW c \in Callers,
           NEW r \in Command, Begin(p, k, c, r)
    PROVE  /\ proc' \in [Processes -> Command]
           /\ \A q \in Processes \ {p} : proc'[q] = [proc[q] EXCEPT !.alone = FALSE]
           /\ proc'[p].kind = k /\ proc'[p].by = c /\ proc'[p].todo = r.todo /\ proc'[p].left = r.left
           /\ proc'[p].cands = r.cands /\ proc'[p].held = r.held /\ proc'[p].read = r.read
           /\ proc'[p].failed = r.failed
           /\ proc'[p].alone => k = "full" /\ \A q \in Processes : ~Running(q)
<1>1. PICK a \in BOOLEAN : a = (k = "full" /\ \A o \in Processes : ~Running(o))
  OBVIOUS
<1>2. PICK n : n = [r EXCEPT !.kind = k, !.by = c, !.alone = a]
  OBVIOUS
<1>3. /\ n \in Command /\ n.kind = k /\ n.by = c /\ n.todo = r.todo /\ n.left = r.left
      /\ n.cands = r.cands /\ n.held = r.held /\ n.read = r.read /\ n.failed = r.failed /\ n.alone = a
  BY <1>2 DEF Command
<1>4. proc' = [q \in Processes |-> IF q = p THEN n ELSE [proc[q] EXCEPT !.alone = FALSE]]
  BY <1>1, <1>2 DEF Begin
<1>5. \A q \in Processes : [proc[q] EXCEPT !.alone = FALSE] \in Command
  BY LessAlone
<1> QED BY <1>1, <1>3, <1>4, <1>5

LEMMA BeginStep ==
    ASSUME IInv, NEW p \in Processes, NEW k \in Kinds, k # "none", NEW c \in Callers,
           NEW r \in Command, Begin(p, k, c, r), prefer' \in [Configs -> {"on", "off"}],
           NEW n, n = proc'[p], Ordered(n),
           n.alone /\ ~n.failed /\ ~n.held => Removing(n),
           host = "registry" => k \in {"setup", "full"} /\ c.cfg = Home,
           host = "registry" /\ acts = 0 /\ Environment => Changing(n)
    PROVE  IInv'
<1>1. /\ proc \in [Processes -> Command] /\ proc' \in [Processes -> Command]
      /\ \A q \in Processes \ {p} : proc'[q] = [proc[q] EXCEPT !.alone = FALSE]
      /\ n.kind = k /\ n.by = c
      /\ n.alone => k = "full" /\ \A q \in Processes : ~Running(q)
  BY BegunIs DEF IInv, Typed
<1>2. /\ UNCHANGED <<host, disk, stale, before, faults, acts>>
      /\ begun < MaxBegun /\ begun' = begun + 1 /\ Excludes(k, c)
  BY DEF Begin
<1>3. Typed'
  <2>1. begun' \in 0 .. MaxBegun
    BY <1>2, IntegrationsAssumption DEF IInv, Typed
  <2> QED BY <1>1, <1>2, <2>1 DEF IInv, Typed
<1>4. \A q \in Processes \ {p} :
         /\ proc'[q].kind = proc[q].kind /\ proc'[q].by = proc[q].by /\ proc'[q].alone = FALSE
         /\ Ordered(proc'[q])
  <2> SUFFICES ASSUME NEW q \in Processes \ {p}
               PROVE  /\ proc'[q].kind = proc[q].kind /\ proc'[q].by = proc[q].by
                      /\ proc'[q].alone = FALSE /\ Ordered(proc'[q])
    OBVIOUS
  <2>1. PICK r1 \in Command : r1 = proc[q] /\ Ordered(r1)
    BY <1>1 DEF IInv
  <2>2. PICK m : m = [r1 EXCEPT !.alone = FALSE]
    OBVIOUS
  <2>3. m.kind = r1.kind /\ m.by = r1.by /\ m.alone = FALSE /\ Ordered(m)
    BY <2>1, <2>2, LessAlone
  <2> QED BY <1>1, <2>1, <2>2, <2>3
<1>5. ASSUME NEW q \in Processes PROVE Ordered(proc[q])'
  <2>1. PICK m : m = proc'[q] /\ Ordered(m)
    BY <1>4
  <2> QED BY <1>2, <2>1, Later
<1>6. ASSUME NEW q \in Processes PROVE Undisturbed(q)'
  <2>1. CASE q # p
    BY <1>4, <2>1 DEF Undisturbed
  <2>2. CASE q = p /\ ~n.alone
    BY <2>2 DEF Undisturbed
  <2>3. CASE q = p /\ n.alone
    <3>1. (\A o \in Processes \ {p} : ~Running(o))'
      BY <1>1, <1>4, <2>3 DEF Running
    <3>2. ~n.failed /\ ~n.held => Removing(proc[p])'
      BY <1>2, <2>3, Later
    <3> QED BY <1>1, <2>3, <3>1, <3>2 DEF Undisturbed
  <2> QED BY <2>1, <2>2, <2>3
<1>7. Shaped(disk.file)'
  BY <1>2 DEF IInv, Shaped
<1>8. InTurn'
  <2> SUFFICES ASSUME host = "registry" PROVE InTurn'
    BY <1>2 DEF InTurn
  <2>1. \A q \in Processes : ~Running(q)
    BY <1>2 DEF IInv, InTurn, Excludes
  <2>2. \A q \in Processes \ {p} : proc'[q].kind = "none"
    BY <1>4, <2>1 DEF Running
  <2>3. (\A q \in Processes : Running(q) => proc[q].kind \in {"setup", "full"} /\ proc[q].by.cfg = Home)'
    BY <1>1, <2>2 DEF Running
  <2>4. (\A q, o \in Processes : Running(q) /\ Running(o) => q = o)'
    BY <2>2 DEF Running
  <2>5. ASSUME acts = 0 PROVE Environment' /\ (\A q \in Processes : Changing(proc[q]))'
    <3>1. Environment
      BY <2>5 DEF IInv, InTurn
    <3>2. Environment'
      BY <1>2, <3>1 DEF Environment, Original, TheRecord
    <3>3. Changing(proc[p])'
      BY <1>2, <2>5, <3>1, Later
    <3>4. ASSUME NEW q \in Processes \ {p} PROVE Changing(proc[q])'
      BY <2>2 DEF Changing
    <3> QED BY <3>2, <3>3, <3>4
  <2> QED BY <1>2, <2>3, <2>4, <2>5 DEF InTurn
<1> QED BY <1>3, <1>5, <1>6, <1>7, <1>8 DEF IInv

\* The participant or the host changes the files.
LEMMA ActStep ==
    ASSUME IInv, Act, disk' \in Disk, Shaped(disk.file)'
    PROVE  IInv'
<1>1. /\ proc \in [Processes -> Command]
      /\ \A q \in Processes : proc'[q] = [proc[q] EXCEPT !.alone = FALSE]
      /\ UNCHANGED <<host, prefer, stale, before, begun, faults>>
      /\ acts \in 0 .. MaxActs /\ acts < MaxActs /\ acts' = acts + 1
      /\ proc' = [q \in Processes |-> [proc[q] EXCEPT !.alone = FALSE]]
  BY DEF IInv, Typed, Act
<1>2. acts' \in 0 .. MaxActs /\ acts' # 0
  BY <1>1, IntegrationsAssumption
<1>3. \A q \in Processes :
         /\ proc'[q] \in Command /\ proc'[q].kind = proc[q].kind /\ proc'[q].by = proc[q].by
         /\ proc'[q].alone = FALSE /\ Ordered(proc'[q])
  BY <1>1, LessAlone DEF IInv
<1>4. Typed'
  BY <1>1, <1>2, <1>3 DEF IInv, Typed
<1>5. ASSUME NEW q \in Processes PROVE Ordered(proc[q])'
  <2>1. PICK m : m = proc'[q] /\ Ordered(m)
    BY <1>3
  <2> QED BY <1>1, <2>1, Later
<1>6. ASSUME NEW q \in Processes PROVE Undisturbed(q)'
  BY <1>3 DEF Undisturbed
<1>7. InTurn'
  BY <1>1, <1>2, <1>3 DEF IInv, InTurn, Running
<1> QED BY <1>4, <1>5, <1>6, <1>7 DEF IInv

-----------------------------------------------------------------------------
(* The commands.                                                           *)

LEMMA IInvHas ==
    ASSUME IInv
    PROVE  /\ disk \in Disk /\ host \in Hosts /\ Shaped(disk.file) /\ disk.file \in File
           /\ prefer \in [Configs -> {"on", "off"}] /\ proc \in [Processes -> Command]
           /\ before \in [ours : BOOLEAN, config : Setting] /\ faults \in 0 .. MaxFaults
           /\ stale \in BOOLEAN
           /\ \A p \in Processes : proc[p] \in Command /\ Ordered(proc[p])
BY DiskHas DEF IInv, Typed

LEMMA PlannedIs ==
    ASSUME NEW t \in Seq(Change)
    PROVE  /\ Planned(t) \in Command /\ Planned(t).todo = t
           /\ Planned(t).left = {} /\ Planned(t).cands = {}
<1>1. Planned(t) = [Idle EXCEPT !.todo = t]
  BY DEF Planned
<1>2. Idle.cands = {}
  BY DEF Idle
<1> QED BY <1>1, <1>2, IdleIs DEF Command

LEMMA PlannedOrdered ==
    ASSUME NEW n, n.kind \in {"agents", "setup", "upgrade"}, n.by \in Callers, n.left = {}, n.cands = {},
           n.todo \in Seq(Change),
           \A ch \in Range(n.todo) : Good(n.by, ch)
                \/ (host = "profile" /\ n.kind = "setup" /\ ch.slot = "file" /\ Shaped(ch.to))
    PROVE  Ordered(n)
<1>1. \A ch \in Range(n.todo) : Fair(n, ch)
  BY DEF Fair, Good
<1> QED BY <1>1 DEF Ordered

\* A command with its whole plan, of the agents' files or of the profile.
LEMMA PlannedStep ==
    ASSUME IInv, host # "registry", NEW p \in Processes, NEW k \in {"agents", "setup", "upgrade"},
           NEW c \in Callers, NEW t \in Seq(Change), Begin(p, k, c, Planned(t)),
           prefer' \in [Configs -> {"on", "off"}],
           \A ch \in Range(t) : Good(c, ch)
                \/ (host = "profile" /\ k = "setup" /\ ch.slot = "file" /\ Shaped(ch.to))
    PROVE  IInv'
<1>1. PICK r \in Command : r = Planned(t) /\ r.todo = t /\ r.left = {} /\ r.cands = {}
  BY PlannedIs
<1>2. k \in Kinds /\ k # "none" /\ k # "full"
  BY DEF Kinds
<1>3. PICK n : n = proc'[p]
  OBVIOUS
<1>4. /\ n.kind = k /\ n.by = c /\ n.todo = t /\ n.left = {} /\ n.cands = {} /\ ~n.alone
  BY <1>1, <1>2, <1>3, BegunIs, IInvHas
<1>5. Ordered(n)
  BY <1>4, PlannedOrdered
<1> QED BY <1>1, <1>2, <1>3, <1>4, <1>5, BeginStep

LEMMA SameKept == prefer' = prefer /\ IInv => prefer' \in [Configs -> {"on", "off"}]
BY IInvHas

LEMMA InstallKeeps ==
    ASSUME IInv, NEW p \in Processes, NEW c \in Callers, AgentsInstall(p, c)
    PROVE  IInv'
<1>1. host # "registry" /\ host # "profile"
  BY DEF AgentsInstall, Agents
<1>2. Fine(c, PlanInstall(c))
  BY <1>1, IInvHas, InstallPlan
<1>3. Begin(p, "agents", c, Planned(PlanInstall(c))) /\ prefer' = prefer
  BY DEF AgentsInstall
<1> QED BY <1>1, <1>2, <1>3, SameKept, PlannedStep DEF Fine

LEMMA UninstallKeeps ==
    ASSUME IInv, NEW p \in Processes, NEW c \in Callers, AgentsUninstall(p, c)
    PROVE  IInv'
<1>1. host # "registry"
  BY DEF AgentsUninstall, Agents
<1>2. Fine(c, PlanUninstall(c))
  BY IInvHas, UninstallPlan
<1>3. Begin(p, "agents", c, Planned(PlanUninstall(c))) /\ prefer' = prefer
  BY DEF AgentsUninstall
<1> QED BY <1>1, <1>2, <1>3, SameKept, PlannedStep DEF Fine

LEMMA PreferKeeps ==
    ASSUME IInv, NEW p \in Processes, NEW c \in Callers, NEW v \in {"on", "off"}, AgentsPrefer(p, c, v)
    PROVE  IInv'
<1>1. PICK t : t = Write("skill", PlanPreference(c, v))
  OBVIOUS
<1>2. /\ host # "registry" /\ Begin(p, "agents", c, Planned(t))
      /\ prefer' = [prefer EXCEPT ![c.cfg] = v]
  BY <1>1 DEF AgentsPrefer, Agents
<1>3. prefer' \in [Configs -> {"on", "off"}]
  BY <1>2, IInvHas
<1>4. Fine(c, t)
  BY <1>1, IInvHas, PreferPlan
<1> QED BY <1>2, <1>3, <1>4, PlannedStep DEF Fine

LEMMA RerenderKeeps ==
    ASSUME IInv, NEW p \in Processes, NEW c \in Callers, RerenderOwned(p, c)
    PROVE  IInv'
<1>1. host # "registry" /\ host # "profile"
  BY DEF RerenderOwned, Agents
<1>2. Fine(c, PlanInstall(c))
  BY <1>1, IInvHas, InstallPlan
<1>3. Begin(p, "upgrade", c, Planned(PlanInstall(c))) /\ prefer' = prefer
  BY DEF RerenderOwned
<1> QED BY <1>1, <1>2, <1>3, SameKept, PlannedStep DEF Fine

LEMMA SetupKeeps ==
    ASSUME IInv, NEW p \in Processes, NEW c \in Callers, Setup(p, c)
    PROVE  IInv'
<1>1. Begin(p, "setup", c, Planned(PlanSetup(c))) /\ prefer' = prefer
  BY DEF Setup
<1>2. CASE host = "registry"
  <2>1. PICK t : t = PlanUserEnvironment(c)
    OBVIOUS
  <2>2. Begin(p, "setup", c, Planned(t)) /\ c.cfg = Home
    BY <1>2, <2>1 DEF Setup, PlanSetup
  <2>3. PICK n : n = proc'[p]
    OBVIOUS
  <2>4. t \in Seq(Change)
    <3>1. PICK m : m = [kind |-> "setup", todo |-> t]
      OBVIOUS
    <3>2. m.kind = "setup" /\ m.todo = t
      BY <3>1
    <3>3. Fine(c, m.todo)
      BY <1>2, <2>1, <3>2, IInvHas, SetupEnvironmentPlan
    <3> QED BY <3>2, <3>3 DEF Fine
  <2>5. PICK r \in Command : r = Planned(t) /\ r.todo = t /\ r.left = {} /\ r.cands = {}
    BY <2>4, PlannedIs
  <2>6. n.kind = "setup" /\ n.by = c /\ n.todo = t /\ n.left = {} /\ n.cands = {} /\ ~n.alone
    BY <2>2, <2>3, <2>5, BegunIs, IInvHas DEF Kinds
  <2>7. Fine(c, n.todo) /\ (Environment => Changing(n))
    BY <1>2, <2>1, <2>2, <2>6, IInvHas, SetupEnvironmentPlan
  <2>8. Ordered(n)
    BY <2>6, <2>7, PlannedOrdered DEF Fine
  <2> QED BY <1>1, <2>2, <2>3, <2>5, <2>6, <2>7, <2>8, SameKept, BeginStep DEF Kinds
<1>3. CASE host = "profile"
  <2>1. PICK f \in File : f = Installed(c, disk.file) /\ Shaped(f)
    BY IInvHas, InstalledIs DEF Makes
  <2>2. PICK t : t = Write("file", f)
    OBVIOUS
  <2>3. t \in Seq(Change) /\ \A ch \in Range(t) : ch.slot = "file" /\ ch.to = f
    BY <2>2, IInvHas, FileWrite DEF Single
  <2>4. Begin(p, "setup", c, Planned(t))
    BY <1>1, <1>3, <2>1, <2>2 DEF PlanSetup
  <2> QED BY <1>1, <1>3, <2>1, <2>3, <2>4, SameKept, PlannedStep
<1>4. CASE host \notin {"registry", "profile"}
  <2>1. Fine(c, PlanInstall(c))
    BY <1>4, IInvHas, InstallPlan
  <2>2. Begin(p, "setup", c, Planned(PlanInstall(c)))
    BY <1>1, <1>4 DEF PlanSetup
  <2> QED BY <1>1, <1>4, <2>1, <2>2, SameKept, PlannedStep DEF Fine
<1> QED BY <1>2, <1>3, <1>4

\* What the environment's part of a whole uninstall is.
LEMMA EnvironmentPlan ==
    ASSUME IInv, NEW c \in Callers, NEW t, t = ApplyEnvironment(c)
    PROVE  /\ Fine(c, t) /\ \A ch \in Range(t) : ch.slot # "skill"
           /\ host \in Agents => t = <<>>
           /\ host = "registry" => \A ch \in Range(t) : ch.slot # "file"
           /\ host = "registry" /\ Environment =>
                 \A n : n.kind = "full" /\ n.todo = t => Changing(n)
           /\ host = "profile" => Single(t, "file", Uninstalled(c, disk.file))
<1>1. CASE host = "registry"
  <2>1. PICK m : m = [kind |-> "full", todo |-> t]
    OBVIOUS
  <2>2. m.kind = "full" /\ m.todo = t /\ t = PlanUserEnvironmentRevert
    BY <1>1, <2>1 DEF ApplyEnvironment
  <2>3. Fine(c, t) /\ \A ch \in Range(t) : ch.slot \notin {"skill", "file"}
    BY <1>1, <2>2, IInvHas, RevertPlan
  <2>4. ASSUME Environment, NEW n, n.kind = "full", n.todo = t PROVE Changing(n)
    BY <1>1, <2>2, <2>4, IInvHas, RevertPlan
  <2> QED BY <1>1, <2>3, <2>4 DEF Agents
<1>2. CASE host = "profile"
  <2>1. PICK f \in File : /\ f = Uninstalled(c, disk.file) /\ Shaped(f) /\ KeptFor(c, disk.file, f)
    BY IInvHas, UninstalledIs DEF Makes
  <2>2. t = Write("file", f)
    BY <1>2, <2>1 DEF ApplyEnvironment
  <2> QED BY <1>2, <2>1, <2>2, IInvHas, FileWrite DEF Single, Agents
<1>3. CASE host \notin {"registry", "profile"}
  <2>1. t = <<>>
    BY <1>3 DEF ApplyEnvironment
  <2> QED BY <1>3, <2>1, FineNothing, NothingPlanned
<1> QED BY <1>1, <1>2, <1>3

\* What is not held back is not another installation's.
LEMMA NotHeld ==
    ASSUME NEW c \in Callers, NEW cands \in Candidates(c), ~Held(c, cands)
    PROVE  ~ForeignOwner(c, disk.skill)
<1>1. CASE ~Agnostic(c)
  BY <1>1, NoSkillIs DEF Agnostic
<1>2. CASE Agnostic(c)
  <2>1. AttributeRemoved(cands) = "ours"
    BY <1>2 DEF Held
  <2>2. disk.skill.by \in cands
    <3> SUFFICES ASSUME disk.skill.by \notin cands PROVE FALSE
      OBVIOUS
    <3>1. AttributeRemoved(cands) \in {"foreign", "unknown"}
      BY DEF AttributeRemoved
    <3> QED BY <2>1, <3>1
  <2> QED BY <2>2 DEF Candidates, ForeignOwner
<1> QED BY <1>1, <1>2

LEMMA WholeUninstallKeeps ==
    ASSUME IInv, NEW p \in Processes, NEW c \in Callers, Uninstall(p, c)
    PROVE  IInv'
<1>1. PICK t : t = ApplyEnvironment(c)
  OBVIOUS
<1>2. PICK cands \in Candidates(c) :
         Begin(p, "full", c,
               [Idle EXCEPT !.cands = cands, !.left = BinaryCandidates(c, cands),
                            !.held = host \in Agents /\ Held(c, cands), !.read = disk.skill,
                            !.todo = ApplyEnvironment(c)])
  BY DEF Uninstall
<1>3. PICK left : left = BinaryCandidates(c, cands)
  OBVIOUS
<1>4. PICK h \in BOOLEAN : h = (host \in Agents /\ Held(c, cands))
  OBVIOUS
<1>5. /\ cands \subseteq Callers /\ c \in cands /\ \A d \in cands : d.cfg = c.cfg
      /\ left = IF host \in Agents THEN cands ELSE {}
  BY <1>3 DEF Candidates, BinaryCandidates
<1>6. Fine(c, t)
  BY <1>1, EnvironmentPlan
<1>7. PICK r : r = [Idle EXCEPT !.cands = cands, !.left = left, !.held = h, !.read = disk.skill, !.todo = t]
  OBVIOUS
<1>8. /\ r \in Command /\ r.cands = cands /\ r.left = left /\ r.held = h /\ r.read = disk.skill
      /\ r.todo = t
  <2>1. t \in Seq(Change) /\ left \in SUBSET Callers /\ cands \in SUBSET Callers /\ disk.skill \in Skill
    BY <1>5, <1>6, IInvHas, DiskHas DEF Fine
  <2> QED BY <1>7, <2>1, IdleIs DEF Command
<1>9. Begin(p, "full", c, r)
  BY <1>1, <1>2, <1>3, <1>4, <1>7
<1>10. PICK n : n = proc'[p]
  OBVIOUS
<1>11. /\ n.kind = "full" /\ n.by = c /\ n.todo = t /\ n.left = left /\ n.cands = cands
       /\ n.held = h /\ n.read = disk.skill
  BY <1>8, <1>9, <1>10, BegunIs, IInvHas DEF Kinds
<1>12. Ordered(n)
  <2>1. \A ch \in Range(n.todo) : Fair(n, ch)
    BY <1>6, <1>11 DEF Fine, Good, Fair
  <2>2. host \in Agents /\ ~h => ~ForeignOwner(c, disk.skill)
    BY <1>4, NotHeld
  <2> QED BY <1>5, <1>11, <2>1, <2>2 DEF Ordered
<1>13. Removing(n)
  <2> SUFFICES ASSUME NEW d \in cands \ left
               PROVE  /\ \A ch \in Range(t) : /\ ch.slot = "file" => Rid(d, ch.to)
                                              /\ ch.slot = "skill" => ch.to = NoSkill
                      /\ Rid(d, disk.file) \/ Writes(n, "file")
                      /\ host \in Agents => disk.skill = NoSkill \/ Writes(n, "skill")
    BY <1>11 DEF Removing
  <2>1. host \notin Agents /\ d.cfg = c.cfg /\ host \in Hosts
    BY <1>5, IInvHas
  <2>2. \A ch \in Range(t) : ch.slot # "skill"
    BY <1>1, EnvironmentPlan
  <2>3. CASE host = "registry"
    <3>1. \A ch \in Range(t) : ch.slot # "file"
      BY <1>1, <2>3, EnvironmentPlan
    <3>2. Rid(d, disk.file)
      BY <2>3, IInvHas DEF Rid, Shaped
    <3> QED BY <2>1, <2>2, <3>1, <3>2
  <2>4. CASE host = "profile"
    <3>1. PICK f : f = Uninstalled(c, disk.file)
      OBVIOUS
    <3>2. Single(t, "file", f)
      BY <1>1, <2>4, <3>1, EnvironmentPlan
    <3>3. Rid(c, f) /\ Shaped(f)
      BY <3>1, IInvHas, UninstalledIs DEF Makes
    <3>4. Rid(d, f)
      BY <2>1, <2>4, <3>3 DEF Rid, Shaped
    <3> QED BY <1>11, <2>1, <2>2, <3>2, <3>4 DEF Single, Writes
  <2> QED BY <2>1, <2>3, <2>4 DEF Hosts, Agents
<1>14. host = "registry" => c.cfg = Home
  BY DEF Uninstall
<1>15. host = "registry" /\ Environment => Changing(n)
  BY <1>1, <1>11, EnvironmentPlan
<1>16. prefer' = prefer
  BY DEF Uninstall
<1> QED BY <1>8, <1>9, <1>10, <1>12, <1>13, <1>14, <1>15, <1>16, SameKept, BeginStep DEF Kinds

LEMMA NextCandidateKeeps ==
    ASSUME IInv, NEW p \in Processes, NextCandidate(p)
    PROVE  IInv'
<1>1. PICK r \in Command : r = proc[p] /\ Ordered(r)
  BY IInvHas
<1>2. PICK c \in r.left :
         proc' = [proc EXCEPT ![p].left = @ \ {c}, ![p].todo = PlanCandidate(c, proc[p]),
                              ![p].failed = @ \/ (host = "json" /\ disk.file.odd)]
  BY <1>1 DEF NextCandidate
<1>3. /\ UNCHANGED <<host, disk, prefer, stale, before, begun, faults, acts>>
      /\ ~stale /\ r.todo = <<>>
  BY <1>1 DEF NextCandidate, Settled
<1>4. /\ r.kind = "full" /\ host \in Agents /\ c \in r.cands /\ c \in Callers /\ c.cfg = r.by.cfg
      /\ r.by \in Callers
  BY <1>1, CommandHas DEF Ordered
<1>5. ~r.held => ~ForeignOwner(r.by, r.read) /\ ~ForeignOwner(c, r.read)
  BY <1>1, <1>4 DEF Ordered, ForeignOwner
<1>6. PICK t : t = PlanCandidate(c, r)
  OBVIOUS
<1>7. /\ Fine(c, t)
      /\ ~r.held =>
            /\ \A ch \in Range(t) : /\ ch.slot = "file" => ch.to = Uninstalled(c, disk.file)
                                    /\ ch.slot = "skill" => ch.to = NoSkill
            /\ Uninstalled(c, disk.file) = disk.file \/ \E ch \in Range(t) : ch.slot = "file"
            /\ disk.skill = NoSkill \/ \E ch \in Range(t) : ch.slot = "skill"
  BY <1>4, <1>5, <1>6, IInvHas, CandidatePlan
<1>8. PICK b \in BOOLEAN : b = (r.failed \/ (host = "json" /\ disk.file.odd))
  OBVIOUS
<1>9. PICK n : n = [r EXCEPT !.left = r.left \ {c}, !.todo = t, !.failed = b]
  OBVIOUS
<1>10. /\ n \in Command /\ n.kind = "full" /\ n.by = r.by /\ n.alone = r.alone /\ n.todo = t
       /\ n.left = r.left \ {c} /\ n.cands = r.cands /\ n.held = r.held /\ n.read = r.read
       /\ n.failed = b
  <2>1. t \in Seq(Change) /\ r.left \ {c} \in SUBSET Callers
    BY <1>7, CommandHas DEF Fine
  <2> QED BY <1>4, <1>9, <2>1 DEF Command
<1>11. proc' = [proc EXCEPT ![p] = n]
  BY <1>1, <1>2, <1>6, <1>8, <1>9, IInvHas
<1>12. Ordered(n)
  <2>1. ASSUME NEW ch \in Range(n.todo) PROVE Fair(n, ch)
    <3>1. Good(c, ch)
      BY <1>7, <1>10, <2>1 DEF Fine
    <3>2. KeptFor(c, ch.saw, ch.to) => KeptFor(n.by, ch.saw, ch.to)
      BY <1>4, <1>10, KeptForAll
    <3>3. ~ForeignOwner(c, ch.saw) => ~ForeignOwner(n.by, ch.saw)
      BY <1>4, <1>10 DEF ForeignOwner
    <3> QED BY <3>1, <3>2, <3>3 DEF Good, Fair
  <2> QED BY <1>1, <1>4, <1>5, <1>10, <2>1 DEF Ordered
<1>13. n.alone /\ ~n.failed /\ ~n.held => Removing(n)
  <2> SUFFICES ASSUME n.alone, ~n.failed, ~n.held, NEW d \in n.cands \ n.left
               PROVE  /\ \A ch \in Range(t) : /\ ch.slot = "file" => Rid(d, ch.to)
                                              /\ ch.slot = "skill" => ch.to = NoSkill
                      /\ Rid(d, disk.file) \/ Writes(n, "file")
                      /\ disk.skill = NoSkill \/ Writes(n, "skill")
    BY <1>10 DEF Removing
  <2>1. Removing(r)
    BY <1>1, <1>3, <1>8, <1>10 DEF IInv, Undisturbed
  <2>2. d # c => Rid(d, disk.file)
    BY <1>3, <1>10, <2>1, NothingPlanned DEF Removing, Writes
  <2>3. Rid(d, Uninstalled(c, disk.file))
    BY <1>4, <2>2, IInvHas, UninstalledIs
  <2>4. Uninstalled(c, disk.file) = disk.file \/ Writes(n, "file")
    BY <1>7, <1>10 DEF Writes
  <2>5. disk.skill = NoSkill \/ Writes(n, "skill")
    BY <1>7, <1>10 DEF Writes
  <2> QED BY <1>7, <1>10, <2>3, <2>4, <2>5
<1>14. proc'[p] = n /\ Running(p)
  BY <1>1, <1>4, <1>11, IInvHas DEF Running
<1>15. n.alone /\ ~n.failed /\ ~n.held => Removing(proc[p])'
  BY <1>3, <1>13, <1>14, Later
<1>16. host # "registry" /\ Shaped(disk.file)' /\ disk' \in Disk /\ stale' \in BOOLEAN
       /\ faults' \in 0 .. MaxFaults
  BY <1>3, <1>4, IInvHas DEF Agents, Shaped
<1> QED BY <1>1, <1>3, <1>4, <1>10, <1>11, <1>12, <1>14, <1>15, <1>16, MoveStep

\* What a command has after one write: nothing, or the rest of its plan.
LEMMA OnwardIs ==
    ASSUME proc \in [Processes -> Command], NEW p \in Processes, NEW r \in Command, r = proc[p],
           Ordered(r), r.todo # <<>>, NEW failed \in BOOLEAN, Onward(p, failed)
    PROVE  \E n \in Command :
              /\ proc' = [proc EXCEPT ![p] = n] /\ Ordered(n)
              /\ \/ n = Idle
                 \/ /\ n.kind = r.kind /\ n.by = r.by /\ n.alone = r.alone /\ n.left = r.left
                    /\ n.cands = r.cands /\ n.held = r.held
                    /\ n.failed = (r.failed \/ (failed /\ r.kind = "full"))
                    /\ n.todo = IF failed /\ host \notin Agents THEN <<>> ELSE Tail(r.todo)
<1>1. PICK rest : rest = IF failed /\ host \notin Agents THEN <<>> ELSE Tail(r.todo)
  OBVIOUS
<1>2. rest \in Seq(Change) /\ Range(rest) \subseteq Range(r.todo)
  BY <1>1, CommandHas, RestPlanned, NothingPlanned
<1>3. CASE r.kind # "full" /\ rest = <<>>
  <2>1. proc' = [proc EXCEPT ![p] = Idle]
    BY <1>1, <1>3 DEF Onward
  <2> QED BY <2>1, IdleIs, IdleIsFine
<1>4. CASE ~(r.kind # "full" /\ rest = <<>>)
  <2>1. PICK b \in BOOLEAN : b = (r.failed \/ (failed /\ r.kind = "full"))
    OBVIOUS
  <2>2. PICK n : n = [r EXCEPT !.todo = rest, !.failed = b]
    OBVIOUS
  <2>3. proc' = [proc EXCEPT ![p] = n]
    BY <1>1, <1>4, <2>1, <2>2 DEF Onward
  <2>4. /\ n \in Command /\ n.kind = r.kind /\ n.by = r.by /\ n.alone = r.alone /\ n.left = r.left
        /\ n.cands = r.cands /\ n.held = r.held /\ n.read = r.read /\ n.failed = b /\ n.todo = rest
    BY <1>2, <2>2 DEF Command
  <2>5. r.kind # "none"
    BY IdleIs DEF Ordered
  <2>6. \A ch \in Range(n.todo) : Fair(n, ch)
    BY <1>2, <2>4 DEF Ordered, Fair
  <2>7. Ordered(n)
    BY <2>4, <2>5, <2>6 DEF Ordered
  <2> QED BY <1>1, <2>1, <2>3, <2>4, <2>7
<1> QED BY <1>3, <1>4

\* What a write does to what an undisturbed uninstall has done.
LEMMA RemovingPut ==
    ASSUME disk \in Disk, host' = host, NEW p, NEW r \in Command, NEW n, proc'[p] = n, Removing(r),
           r.todo # <<>>, n.todo = Tail(r.todo), n.cands = r.cands, n.left = r.left,
           NEW ch \in Change, ch = Head(r.todo), Put(ch)
    PROVE  Removing(proc[p])'
<1>1. Range(r.todo) = {ch} \cup Range(n.todo)
  BY CommandHas, RestPlanned
<1>2. /\ disk'.skill = IF ch.slot = "skill" THEN ch.to ELSE disk.skill
      /\ disk'.file = IF ch.slot = "file" THEN ch.to ELSE disk.file
  BY PutIs DEF Put
<1> SUFFICES ASSUME NEW d \in n.cands \ n.left
             PROVE  /\ \A x \in Range(n.todo) : /\ x.slot = "file" => Rid(d, x.to)
                                                /\ x.slot = "skill" => x.to = NoSkill
                    /\ Rid(d, disk'.file) \/ (\E x \in Range(n.todo) : x.slot = "file")
                    /\ host \in Agents => disk'.skill = NoSkill \/ \E x \in Range(n.todo) : x.slot = "skill"
  BY DEF Removing, Writes, Rid, HasBlock, Readable
<1>3. /\ \A x \in Range(r.todo) : /\ x.slot = "file" => Rid(d, x.to)
                                  /\ x.slot = "skill" => x.to = NoSkill
      /\ Rid(d, disk.file) \/ \E x \in Range(r.todo) : x.slot = "file"
      /\ host \in Agents => disk.skill = NoSkill \/ \E x \in Range(r.todo) : x.slot = "skill"
  BY DEF Removing, Writes
<1>4. CASE ch.slot = "file"
  BY <1>1, <1>2, <1>3, <1>4
<1>5. CASE ch.slot = "skill"
  BY <1>1, <1>2, <1>3, <1>5
<1>6. CASE ch.slot \notin {"file", "skill"}
  BY <1>1, <1>2, <1>3, <1>6
<1> QED BY <1>4, <1>5, <1>6

\* What a write does to the user environment.
LEMMA EnvironmentPut ==
    ASSUME disk \in Disk, before' = before, Environment, before \in [ours : BOOLEAN, config : Setting],
           NEW r \in Command, Changing(r), r.kind \in {"setup", "full"},
           r.todo # <<>>, NEW ch \in Change, ch = Head(r.todo), Put(ch)
    PROVE  /\ Environment'
           /\ \A p, n : proc'[p] = n /\ n.kind = r.kind /\ n.todo = Tail(r.todo) => Changing(proc[p])'
<1>1. /\ disk' \in Disk
      /\ disk'.path = IF ch.slot = "path" THEN ch.to ELSE disk.path
      /\ disk'.config = IF ch.slot = "config" THEN ch.to ELSE disk.config
      /\ disk'.journal = IF ch.slot = "journal" THEN ch.to ELSE disk.journal
  BY PutIs DEF Put
<1>2. PICK t \in Seq(Change) : t = Tail(r.todo)
  BY CommandHas, RestPlanned
<1>3. /\ ch = r.todo[1] /\ Len(r.todo) \in Nat /\ Len(r.todo) >= 1 /\ Len(t) = Len(r.todo) - 1
      /\ \A i \in 1 .. Len(t) : t[i] = r.todo[i + 1] /\ i + 1 \in 1 .. Len(r.todo)
      /\ Range(r.todo) = {ch} \cup Range(t) /\ (t = <<>> <=> Len(r.todo) = 1)
  <2>1. /\ ch = r.todo[1] /\ Len(r.todo) \in Nat /\ Len(r.todo) >= 1 /\ Len(t) = Len(r.todo) - 1
        /\ \A i \in 1 .. Len(t) : t[i] = r.todo[i + 1]
        /\ Range(r.todo) = {ch} \cup Range(t) /\ (t = <<>> <=> Len(r.todo) = 1)
    BY <1>2, CommandHas, RestPlanned
  <2> QED BY <2>1
<1>4. TheRecord # Nobody /\ TheRecord' = TheRecord
  <2>1. (~before.ours) \in BOOLEAN /\ before.config \in Setting
    OBVIOUS
  <2>2. TheRecord \in Record
    BY <2>1, IntegrationsAssumption DEF TheRecord, Record
  <2> QED BY <2>2, NobodyAssumption DEF TheRecord
<1>5. 1 \in 1 .. Len(r.todo)
  BY <1>3
<1>6. CASE r.kind = "setup"
  <2>1. /\ \A x \in Range(r.todo) : /\ x.slot = "path" => x.to.ours
                                    /\ x.slot = "config" => x.to = Home
                                    /\ x.slot = "journal" => x.to = TheRecord
        /\ \A i \in 1 .. Len(r.todo) : r.todo[i].slot = "journal" => i = 1
        /\ disk.journal = Nobody => r.todo[1].slot = "journal"
    BY <1>6 DEF Changing
  <2>2. disk'.journal = TheRecord
    BY <1>1, <1>3, <2>1 DEF Environment
  <2>3. Environment'
    <3>1. disk'.path.ours \in {before.ours, TRUE}
      BY <1>1, <1>3, <2>1, ChangeIs DEF Environment, Path
    <3>2. disk'.config \in {before.config, Home}
      BY <1>1, <1>3, <2>1 DEF Environment
    <3> QED BY <1>4, <2>2, <3>1, <3>2 DEF Environment
  <2>4. ASSUME NEW p, NEW n, proc'[p] = n, n.kind = r.kind, n.todo = t PROVE Changing(proc[p])'
    <3>1. \A x \in Range(t) : /\ x.slot = "path" => x.to.ours
                              /\ x.slot = "config" => x.to = Home
                              /\ x.slot = "journal" => x.to = TheRecord
      BY <1>3, <2>1
    <3>2. \A i \in 1 .. Len(t) : t[i].slot # "journal"
      BY <1>2, <1>3, <2>1
    <3> QED BY <1>4, <1>6, <2>2, <2>4, <3>1, <3>2 DEF Changing
  <2> QED BY <1>2, <2>3, <2>4
<1>7. CASE r.kind = "full"
  <2>1. /\ \A x \in Range(r.todo) : /\ x.slot = "path" => x.to.ours = before.ours
                                    /\ x.slot = "config" => x.to = before.config
                                    /\ x.slot = "journal" => x.to = Nobody
        /\ \A i \in 1 .. Len(r.todo) : r.todo[i].slot = "journal" => i = Len(r.todo)
        /\ (\E x \in Range(r.todo) : x.slot = "journal") =>
              /\ disk.path.ours = before.ours \/ \E x \in Range(r.todo) : x.slot = "path"
              /\ disk.config = before.config \/ \E x \in Range(r.todo) : x.slot = "config"
    BY <1>7 DEF Changing, Writes
  <2>2. Environment'
    <3>1. disk'.path.ours \in {before.ours, TRUE} /\ disk'.config \in {before.config, Home}
      BY <1>1, <1>3, <2>1 DEF Environment
    <3>2. disk'.journal \in {Nobody, TheRecord}
      BY <1>1, <1>3, <2>1 DEF Environment
    <3>3. ASSUME disk'.journal = Nobody
          PROVE  disk'.path.ours = before.ours /\ disk'.config = before.config
      <4>1. CASE ch.slot = "journal"
        <5>1. Range(r.todo) = {ch}
          <6>1. t = <<>>
            BY <1>3, <1>5, <2>1, <4>1
          <6> QED BY <1>3, <6>1, NothingPlanned
        <5> QED BY <1>1, <2>1, <4>1, <5>1
      <4>2. CASE ch.slot # "journal"
        <5>1. disk.path.ours = before.ours /\ disk.config = before.config
          BY <1>1, <3>3, <4>2 DEF Environment, Original
        <5> QED BY <1>1, <1>3, <2>1, <5>1
      <4> QED BY <4>1, <4>2
    <3> QED BY <1>4, <3>1, <3>2, <3>3 DEF Environment, Original
  <2>3. ASSUME NEW p, NEW n, proc'[p] = n, n.kind = r.kind, n.todo = t PROVE Changing(proc[p])'
    <3>1. \A x \in Range(t) : /\ x.slot = "path" => x.to.ours = before.ours
                              /\ x.slot = "config" => x.to = before.config
                              /\ x.slot = "journal" => x.to = Nobody
      BY <1>3, <2>1
    <3>2. \A i \in 1 .. Len(t) : t[i].slot = "journal" => i = Len(t)
      BY <1>2, <1>3, <2>1
    <3>3. (\E x \in Range(t) : x.slot = "journal") =>
             /\ disk'.path.ours = before.ours \/ \E x \in Range(t) : x.slot = "path"
             /\ disk'.config = before.config \/ \E x \in Range(t) : x.slot = "config"
      BY <1>1, <1>3, <2>1
    <3> QED BY <1>7, <2>3, <3>1, <3>2, <3>3 DEF Changing, Writes
  <2> QED BY <1>2, <2>2, <2>3
<1> QED BY <1>6, <1>7

LEMMA WhileRunning ==
    ASSUME IInv, NEW p \in Processes, NEW r, r = proc[p], r.todo # <<>>
    PROVE  /\ Running(p) /\ r.kind # "none"
           /\ host = "registry" => r.kind \in {"setup", "full"}
           /\ host = "registry" /\ acts = 0 => Environment /\ Changing(r)
<1>1. r.kind # "none"
  BY IInvHas, IdleIs DEF Ordered
<1> QED BY <1>1 DEF Running, IInv, InTurn

LEMMA CommitKeeps ==
    ASSUME IInv, NEW p \in Processes, CommitPlan(p)
    PROVE  IInv'
<1>1. PICK r \in Command : r = proc[p] /\ Ordered(r)
  BY IInvHas
<1>2. r.todo # <<>> /\ ~stale
  BY <1>1 DEF CommitPlan, Settled
<1>3. PICK ch \in Change : ch = Head(r.todo)
  BY <1>2, CommandHas, RestPlanned
<1>4. /\ UNCHANGED <<host, prefer, before, begun, acts>>
      /\ \/ /\ Put(ch) /\ Onward(p, FALSE) /\ stale' = (disk[ch.slot] # ch.saw)
            /\ UNCHANGED faults
         \/ Fault /\ Onward(p, TRUE) /\ UNCHANGED <<disk, stale>>
         \/ /\ Fault /\ host \in Agents /\ ch.to \notin {NoSkill, NoFile}
            /\ \E t \in Truncated(ch.slot) : disk' = [disk EXCEPT ![ch.slot] = t]
            /\ stale' = (disk[ch.slot] # ch.saw \/ (ch.slot = "file" /\ disk.file # NoFile))
            /\ proc' = [proc EXCEPT ![p] = Idle]
  BY <1>1, <1>3 DEF CommitPlan
<1>5. /\ Running(p) /\ r.kind # "none"
      /\ host = "registry" => r.kind \in {"setup", "full"}
      /\ host = "registry" /\ acts = 0 => Environment /\ Changing(r)
  BY <1>1, <1>2, WhileRunning
<1>6. ch \in Range(r.todo) /\ Fair(r, ch)
  BY <1>1, <1>2, <1>3, CommandHas, RestPlanned DEF Ordered
<1>7. Fault => faults' \in 0 .. MaxFaults
  BY IInvHas, IntegrationsAssumption DEF Fault
<1>8. r.alone /\ ~r.failed /\ ~r.held => Removing(r)
  BY <1>1, <1>2 DEF IInv, Undisturbed
<1>9. r.alone => r.kind = "full"
  BY <1>1 DEF IInv, Undisturbed
<1>10. CASE Put(ch) /\ Onward(p, FALSE) /\ stale' = (disk[ch.slot] # ch.saw) /\ UNCHANGED faults
  <2>1. PICK n \in Command :
           /\ proc' = [proc EXCEPT ![p] = n] /\ Ordered(n)
           /\ \/ n = Idle
              \/ /\ n.kind = r.kind /\ n.by = r.by /\ n.alone = r.alone /\ n.left = r.left
                 /\ n.cands = r.cands /\ n.held = r.held
                 /\ n.failed = (r.failed \/ (FALSE /\ r.kind = "full"))
                 /\ n.todo = IF FALSE /\ host \notin Agents THEN <<>> ELSE Tail(r.todo)
    BY <1>1, <1>2, <1>10, IInvHas, OnwardIs
  <2>2. /\ n = Idle \/ /\ n.kind = r.kind /\ n.by = r.by /\ n.alone = r.alone /\ n.left = r.left
                       /\ n.cands = r.cands /\ n.held = r.held /\ n.failed = r.failed
                       /\ n.todo = Tail(r.todo)
    BY <2>1, CommandHas
  <2>3. proc'[p] = n
    BY <2>1, IInvHas
  <2>4. disk' \in Disk /\ disk'.file = IF ch.slot = "file" THEN ch.to ELSE disk.file
    BY <1>10, IInvHas, PutIs DEF Put
  <2>5. Shaped(disk'.file)
    BY <1>6, <2>4, IInvHas DEF Fair
  <2>6. Shaped(disk.file)'
    BY <1>4, <2>5 DEF Shaped
  <2>7. n.alone /\ ~n.failed /\ ~n.held => Removing(proc[p])'
    BY <1>2, <1>3, <1>4, <1>8, <1>10, <2>2, <2>3, IInvHas, IdleIs, RemovingPut
  <2>8. host = "registry" /\ acts = 0 => Environment' /\ Changing(proc[p])'
    <3> SUFFICES ASSUME host = "registry", acts = 0 PROVE Environment' /\ Changing(proc[p])'
      OBVIOUS
    <3>1. /\ Environment'
          /\ \A x, m : proc'[x] = m /\ m.kind = r.kind /\ m.todo = Tail(r.todo) => Changing(proc[x])'
      BY <1>2, <1>3, <1>4, <1>5, <1>10, IInvHas, EnvironmentPut
    <3>2. n = Idle => Changing(proc[p])'
      BY <2>3, IdleIs DEF Changing
    <3> QED BY <2>2, <2>3, <3>1, <3>2
  <2>9. stale' \in BOOLEAN /\ faults' \in 0 .. MaxFaults
    BY <1>10, IInvHas
  <2> QED BY <1>1, <1>4, <1>5, <2>1, <2>2, <2>4, <2>6, <2>7, <2>8, <2>9, MoveStep
<1>11. CASE Fault /\ Onward(p, TRUE) /\ UNCHANGED <<disk, stale>>
  <2>1. PICK n \in Command :
           /\ proc' = [proc EXCEPT ![p] = n] /\ Ordered(n)
           /\ \/ n = Idle
              \/ /\ n.kind = r.kind /\ n.by = r.by /\ n.alone = r.alone /\ n.left = r.left
                 /\ n.cands = r.cands /\ n.held = r.held
                 /\ n.failed = (r.failed \/ (TRUE /\ r.kind = "full"))
                 /\ n.todo = IF TRUE /\ host \notin Agents THEN <<>> ELSE Tail(r.todo)
    BY <1>1, <1>2, <1>11, IInvHas, OnwardIs
  <2>2. proc'[p] = n
    BY <2>1, IInvHas
  <2>3. n.alone => n.failed
    BY <1>9, <2>1, IdleIs
  <2>4. host = "registry" /\ acts = 0 => Environment' /\ Changing(proc[p])'
    <3> SUFFICES ASSUME host = "registry", acts = 0 PROVE Environment' /\ Changing(proc[p])'
      OBVIOUS
    <3>1. Environment'
      BY <1>4, <1>5, <1>11 DEF Environment, Original, TheRecord
    <3>2. n.todo = <<>>
      BY <2>1, IdleIs DEF Agents
    <3>3. Changing(proc[p])'
      <4>1. \A i \in 1 .. Len(n.todo) : FALSE
        BY <3>2, NothingPlanned
      <4> QED BY <2>2, <3>2, <4>1, NothingPlanned DEF Changing, Writes
    <3> QED BY <3>1, <3>3
  <2>5. Shaped(disk.file)' /\ disk' \in Disk /\ stale' \in BOOLEAN
    BY <1>4, <1>11, IInvHas DEF Shaped
  <2> QED BY <1>1, <1>4, <1>5, <1>7, <1>11, <2>1, <2>3, <2>4, <2>5, MoveStep
<1>12. CASE /\ Fault /\ host \in Agents /\ ch.to \notin {NoSkill, NoFile}
            /\ \E t \in Truncated(ch.slot) : disk' = [disk EXCEPT ![ch.slot] = t]
            /\ stale' = (disk[ch.slot] # ch.saw \/ (ch.slot = "file" /\ disk.file # NoFile))
            /\ proc' = [proc EXCEPT ![p] = Idle]
  <2>1. host # "registry" /\ ch.slot \in {"skill", "file"}
    BY <1>6, <1>12 DEF Fair, Agents
  <2>2. PICK t \in Truncated(ch.slot) : disk' = [disk EXCEPT ![ch.slot] = t]
    BY <1>12
  <2>3. disk' \in Disk /\ Shaped(disk'.file)
    <3>1. CASE ch.slot = "skill"
      <4>1. t \in Skill
        BY <2>2, <3>1 DEF Truncated, Skill
      <4>2. disk' \in Disk /\ disk'.file = disk.file
        BY <2>2, <3>1, <4>1, IInvHas DEF Disk
      <4> QED BY <4>2, IInvHas
    <3>2. CASE ch.slot = "file"
      <4>1. PICK o \in BOOLEAN : t = [NoFile EXCEPT !.there = TRUE, !.odd = o]
        BY <2>2, <3>2 DEF Truncated
      <4>2. t \in File /\ t.entries = {} /\ t.rules = {} /\ t.block = Nobody /\ t.inside = {}
        BY <4>1, NoFileIs DEF File
      <4>3. Shaped(t)
        BY <4>2 DEF Shaped
      <4>4. disk' \in Disk /\ disk'.file = t
        BY <2>2, <3>2, <4>2, IInvHas DEF Disk
      <4> QED BY <4>3, <4>4
    <3> QED BY <2>1, <3>1, <3>2
  <2>4. Shaped(disk.file)'
    BY <1>4, <2>3 DEF Shaped
  <2>5. stale' \in BOOLEAN
    BY <1>12
  <2> QED BY <1>4, <1>5, <1>7, <1>12, <2>1, <2>3, <2>4, <2>5, IdleIs, IdleIsFine, MoveStep
<1> QED BY <1>4, <1>10, <1>11, <1>12

LEMMA FinishKeeps ==
    ASSUME IInv, NEW p \in Processes, Finish(p)
    PROVE  IInv'
<1>1. /\ Running(p) /\ proc' = [proc EXCEPT ![p] = Idle]
      /\ UNCHANGED <<host, disk, prefer, stale, before, begun, acts>>
  BY DEF Finish
<1>2. faults' \in 0 .. MaxFaults
  BY IInvHas, IntegrationsAssumption DEF Finish, Fault
<1>3. Shaped(disk.file)' /\ disk' \in Disk /\ stale' \in BOOLEAN
  BY <1>1, IInvHas DEF Shaped
<1>4. host = "registry" /\ acts = 0 => Environment' /\ Changing(proc[p])'
  <2>1. proc'[p] = Idle
    BY <1>1, IInvHas
  <2>2. Changing(proc[p])'
    BY <2>1, IdleIs DEF Changing
  <2>3. host = "registry" /\ acts = 0 => Environment
    BY DEF IInv, InTurn
  <2>4. Environment => Environment'
    BY <1>1 DEF Environment, Original, TheRecord
  <2> QED BY <2>2, <2>3, <2>4
<1> QED BY <1>1, <1>2, <1>3, <1>4, IdleIs, IdleIsFine, MoveStep

-----------------------------------------------------------------------------
(* The participant and the host.                                           *)

LEMMA FileActs ==
    ASSUME IInv, Act, NEW f \in File, Shaped(f), FileIs(f)
    PROVE  IInv'
<1>1. disk' = [disk EXCEPT !.file = f]
  BY DEF FileIs
<1>2. disk' \in Disk /\ disk'.file = f
  BY <1>1, IInvHas DEF Disk
<1>3. host' = host
  BY DEF Act
<1>4. Shaped(disk.file)'
  BY <1>2, <1>3 DEF Shaped
<1> QED BY <1>2, <1>4, ActStep

LEMMA EditKeeps == ASSUME IInv, Edit PROVE IInv'
<1>1. PICK f \in File : f = disk.file /\ Shaped(f)
  BY IInvHas
<1>2. acts' \in Edits
  BY IntegrationsAssumption DEF Edit, Act, IInv, Typed, Edits
<1>3. PICK u \in SUBSET Edits : u = f.user \cup {acts'}
  BY <1>2, FileHas
<1>4. PICK i \in SUBSET Edits : i = f.inside \cup {acts'}
  BY <1>2, FileHas
<1>5. CASE FileIs([disk.file EXCEPT !.there = TRUE, !.user = @ \cup {acts'}])
  <2>1. PICK g : g = [f EXCEPT !.there = TRUE, !.user = u]
    OBVIOUS
  <2>2. /\ g \in File /\ g.entries = f.entries /\ g.rules = f.rules /\ g.block = f.block
        /\ g.inside = f.inside
    BY <2>1 DEF File
  <2>3. Shaped(g)
    BY <1>1, <2>2 DEF Shaped
  <2>4. FileIs(g)
    BY <1>1, <1>3, <1>5, <2>1
  <2> QED BY <2>2, <2>3, <2>4, FileActs DEF Edit
<1>6. CASE host = "codex" /\ FileIs([disk.file EXCEPT !.inside = @ \cup {acts'}])
  <2>1. PICK g : g = [f EXCEPT !.inside = i]
    OBVIOUS
  <2>2. /\ g \in File /\ g.entries = f.entries /\ g.rules = f.rules /\ g.block = f.block
        /\ g.inside = i
    BY <2>1 DEF File
  <2>3. Shaped(g)
    BY <1>1, <1>6, <2>2 DEF Shaped
  <2>4. FileIs(g)
    BY <1>1, <1>4, <1>6, <2>1
  <2> QED BY <2>2, <2>3, <2>4, FileActs DEF Edit
<1> QED BY <1>5, <1>6 DEF Edit

LEMMA DisorderKeeps == ASSUME IInv, Disorder PROVE IInv'
<1>1. PICK f \in File : f = disk.file /\ Shaped(f)
  BY IInvHas
<1>2. CASE FileIs([disk.file EXCEPT !.there = TRUE, !.odd = ~@])
  <2>1. PICK o \in BOOLEAN : o = ~f.odd
    BY FileHas
  <2>2. PICK g : g = [f EXCEPT !.there = TRUE, !.odd = o]
    OBVIOUS
  <2>3. /\ g \in File /\ g.entries = f.entries /\ g.rules = f.rules /\ g.block = f.block
        /\ g.inside = f.inside
    BY <2>2 DEF File
  <2>4. Shaped(g)
    BY <1>1, <2>3 DEF Shaped
  <2>5. FileIs(g)
    BY <1>1, <1>2, <2>1, <2>2
  <2> QED BY <2>3, <2>4, <2>5, FileActs DEF Disorder
<1>3. CASE /\ host \in {"codex", "hermes"} /\ HasBlock(disk.file)
           /\ FileIs([disk.file EXCEPT !.block.form = "garbled"])
  <2>1. PICK b \in Part : b = [f.block EXCEPT !.form = "garbled"]
    <3>1. f.block \in Part
      BY <1>1, <1>3, FileHas
    <3> QED BY <3>1 DEF Part
  <2>2. PICK g : g = [f EXCEPT !.block = b]
    OBVIOUS
  <2>3. /\ g \in File /\ g.entries = f.entries /\ g.rules = f.rules /\ g.block = b
        /\ g.inside = f.inside
    BY <2>2 DEF File
  <2>4. Shaped(g)
    BY <1>1, <1>3, <2>3 DEF Shaped, HasBlock
  <2>5. FileIs(g)
    BY <1>1, <1>3, <2>1, <2>2
  <2> QED BY <2>3, <2>4, <2>5, FileActs DEF Disorder
<1> QED BY <1>2, <1>3 DEF Disorder

LEMMA HermesSavesKeeps == ASSUME IInv, HermesSaves PROVE IInv'
<1>1. PICK f \in File : f = disk.file /\ Shaped(f)
  BY IInvHas
<1>2. /\ Act /\ host = "hermes" /\ HasBlock(f)
      /\ FileIs([f EXCEPT !.block = Nobody, !.entries = {f.block}])
  BY <1>1 DEF HermesSaves
<1>3. PICK e \in SUBSET Part : e = {f.block}
  BY <1>2, FileHas
<1>4. PICK g : g = [f EXCEPT !.block = Nobody, !.entries = e]
  OBVIOUS
<1>5. /\ g \in File /\ g.entries = e /\ g.rules = f.rules /\ g.block = Nobody
      /\ g.inside = f.inside
  BY <1>4 DEF File
<1>6. Shaped(g)
  BY <1>1, <1>2, <1>5 DEF Shaped
<1> QED BY <1>2, <1>3, <1>4, <1>5, <1>6, FileActs

LEMMA RemoveKeeps == ASSUME IInv, Remove PROVE IInv'
<1>1. Act /\ host' = host /\ disk \in Disk /\ disk.path \in Path
  BY IInvHas, DiskHas DEF Remove, Act
<1>2. acts' \in Edits
  BY <1>1, IntegrationsAssumption DEF Act, IInv, Typed, Edits
<1>3. disk' \in Disk /\ disk'.file = disk.file
  <2>1. CASE disk' = [disk EXCEPT !.skill = NoSkill]
    BY <1>1, <2>1, NoSkillIs DEF Disk
  <2>2. ASSUME NEW w \in Path, disk' = [disk EXCEPT !.path = w]
        PROVE  disk' \in Disk /\ disk'.file = disk.file
    BY <1>1, <2>2 DEF Disk
  <2>3. CASE disk' = [disk EXCEPT !.path.user = @ \cup {acts'}]
    <3>1. PICK u \in SUBSET Edits : u = disk.path.user \cup {acts'}
      BY <1>1, <1>2 DEF Path
    <3>2. PICK w \in Path : w = [disk.path EXCEPT !.user = u]
      BY <1>1 DEF Path
    <3>3. disk' = [disk EXCEPT !.path = w]
      BY <2>3, <3>1, <3>2
    <3> QED BY <2>2, <3>3
  <2>4. CASE disk' = [disk EXCEPT !.path.ours = ~@]
    <3>1. PICK o \in BOOLEAN : o = ~disk.path.ours
      OBVIOUS
    <3>2. PICK w \in Path : w = [disk.path EXCEPT !.ours = o]
      BY <1>1 DEF Path
    <3>3. disk' = [disk EXCEPT !.path = w]
      BY <2>4, <3>1, <3>2
    <3> QED BY <2>2, <3>3
  <2>5. ASSUME NEW v \in {Nobody, Unnamed}, disk' = [disk EXCEPT !.config = v]
        PROVE  disk' \in Disk /\ disk'.file = disk.file
    <3>1. v \in Setting
      BY DEF Setting
    <3> QED BY <1>1, <2>5, <3>1 DEF Disk
  <2> QED BY <2>1, <2>3, <2>4, <2>5 DEF Remove
<1>4. Shaped(disk.file)'
  BY <1>1, <1>3, IInvHas DEF Shaped
<1> QED BY <1>1, <1>3, <1>4, ActStep

-----------------------------------------------------------------------------
(* The invariant.                                                          *)

LEMMA InitHolds == Init => IInv
<1> SUFFICES ASSUME Init PROVE IInv
  OBVIOUS
<1>1. PICK f : /\ f \in {NoFile} \cup {[NoFile EXCEPT !.there = TRUE, !.odd = o] : o \in BOOLEAN}
                       \cup {[NoFile EXCEPT !.there = TRUE, !.entries = {[by |-> c, form |-> "before"]}] :
                               c \in {d \in Callers : d.cfg = Home}}
               /\ f.entries # {} => host = "json"
               /\ \E b \in BOOLEAN, v \in {Nobody, Unnamed} :
                     /\ disk = [skill |-> NoSkill, file |-> f, path |-> [user |-> {}, ours |-> b],
                                config |-> v, journal |-> Nobody]
                     /\ before = [ours |-> b, config |-> v]
  BY DEF Init
<1>2. /\ host \in Hosts /\ prefer = [g \in Configs |-> "on"] /\ proc = [p \in Processes |-> Idle]
      /\ stale = FALSE /\ begun = 0 /\ faults = 0 /\ acts = 0
  BY DEF Init
<1>3. f \in File /\ f.rules = {} /\ f.block = Nobody /\ f.inside = {}
  <2>1. CASE f = NoFile
    BY <2>1, NoFileIs
  <2>2. ASSUME NEW o \in BOOLEAN, f = [NoFile EXCEPT !.there = TRUE, !.odd = o]
        PROVE  f \in File /\ f.rules = {} /\ f.block = Nobody /\ f.inside = {}
    BY <2>2, NoFileIs DEF File
  <2>3. ASSUME NEW c \in Callers,
               f = [NoFile EXCEPT !.there = TRUE, !.entries = {[by |-> c, form |-> "before"]}]
        PROVE  f \in File /\ f.rules = {} /\ f.block = Nobody /\ f.inside = {}
    <3>1. PICK e \in SUBSET Part : e = {[by |-> c, form |-> "before"]}
      <4>1. [by |-> c, form |-> "before"] \in Part
        BY DEF Part
      <4> QED BY <4>1
    <3>2. f = [NoFile EXCEPT !.there = TRUE, !.entries = e]
      BY <2>3, <3>1
    <3> QED BY <3>2, NoFileIs DEF File
  <2> QED BY <1>1, <2>1, <2>2, <2>3
<1>4. PICK b \in BOOLEAN, v \in {Nobody, Unnamed} :
         /\ disk = [skill |-> NoSkill, file |-> f, path |-> [user |-> {}, ours |-> b],
                    config |-> v, journal |-> Nobody]
         /\ before = [ours |-> b, config |-> v]
  BY <1>1
<1>5. /\ disk \in Disk /\ disk.file = f /\ disk.path.ours = b /\ disk.config = v /\ disk.journal = Nobody
  BY <1>3, <1>4, NoSkillIs DEF Disk, Path, Setting
<1>6. before \in [ours : BOOLEAN, config : Setting] /\ before.ours = b /\ before.config = v
  BY <1>4 DEF Setting
<1>7. Typed
  <2>1. begun \in 0 .. MaxBegun /\ faults \in 0 .. MaxFaults /\ acts \in 0 .. MaxActs
    BY <1>2, IntegrationsAssumption
  <2> QED BY <1>2, <1>5, <1>6, <2>1, IdleIs DEF Typed
<1>8. Shaped(disk.file)
  BY <1>1, <1>3, <1>5 DEF Shaped
<1>9. \A p \in Processes : proc[p] = Idle /\ ~Running(p)
  BY <1>2, IdleIs DEF Running
<1>10. InTurn
  BY <1>5, <1>6, <1>9, IdleIsFine DEF InTurn, Environment, Original
<1>11. \A p \in Processes : Ordered(proc[p]) /\ Undisturbed(p)
  BY <1>9, IdleIs, IdleIsFine DEF Undisturbed
<1> QED BY <1>7, <1>8, <1>10, <1>11 DEF IInv

LEMMA SameHolds == ASSUME IInv, UNCHANGED vars PROVE IInv'
<1>1. UNCHANGED <<host, disk, prefer, proc, stale, before, begun, faults, acts>>
  BY DEF vars
<1>2. Typed'
  BY <1>1 DEF IInv, Typed
<1>3. Shaped(disk.file)'
  BY <1>1, IInvHas DEF Shaped
<1>4. ASSUME NEW p \in Processes PROVE Ordered(proc[p])'
  <2>1. PICK r : r = proc'[p] /\ Ordered(r)
    BY <1>1, IInvHas
  <2> QED BY <1>1, <2>1, Later
<1>5. ASSUME NEW p \in Processes PROVE Undisturbed(p)'
  <2>1. PICK r : r = proc[p] /\ r = proc'[p]
    BY <1>1
  <2>2. Removing(r) => Removing(proc[p])'
    BY <1>1, <2>1, Later
  <2> QED BY <1>1, <2>1, <2>2 DEF IInv, Undisturbed, Running
<1>6. InTurn'
  <2>1. ASSUME NEW p \in Processes, Changing(proc[p]) PROVE Changing(proc[p])'
    BY <1>1, <2>1, Later
  <2>2. Environment => Environment'
    BY <1>1 DEF Environment, Original, TheRecord
  <2> QED BY <1>1, <2>1, <2>2 DEF IInv, InTurn, Running
<1> QED BY <1>2, <1>3, <1>4, <1>5, <1>6 DEF IInv

LEMMA NextHolds == IInv /\ [Next]_vars => IInv'
<1> SUFFICES ASSUME IInv, [Next]_vars PROVE IInv'
  OBVIOUS
<1>1. ASSUME NEW p \in Processes, NEW c \in Callers, AgentsInstall(p, c) PROVE IInv'
  BY <1>1, InstallKeeps
<1>2. ASSUME NEW p \in Processes, NEW c \in Callers, AgentsUninstall(p, c) PROVE IInv'
  BY <1>2, UninstallKeeps
<1>3. ASSUME NEW p \in Processes, NEW c \in Callers, Setup(p, c) PROVE IInv'
  BY <1>3, SetupKeeps
<1>4. ASSUME NEW p \in Processes, NEW c \in Callers, RerenderOwned(p, c) PROVE IInv'
  BY <1>4, RerenderKeeps
<1>5. ASSUME NEW p \in Processes, NEW c \in Callers, Uninstall(p, c) PROVE IInv'
  BY <1>5, WholeUninstallKeeps
<1>6. ASSUME NEW p \in Processes, NEW c \in Callers, NEW v \in {"on", "off"}, AgentsPrefer(p, c, v)
      PROVE  IInv'
  BY <1>6, PreferKeeps
<1>7. ASSUME NEW p \in Processes, NextCandidate(p) PROVE IInv'
  BY <1>7, NextCandidateKeeps
<1>8. ASSUME NEW p \in Processes, CommitPlan(p) PROVE IInv'
  BY <1>8, CommitKeeps
<1>9. ASSUME NEW p \in Processes, Finish(p) PROVE IInv'
  BY <1>9, FinishKeeps
<1>10. CASE Edit \/ Disorder \/ HermesSaves \/ Remove
  BY <1>10, EditKeeps, DisorderKeeps, HermesSavesKeeps, RemoveKeeps
<1>11. CASE UNCHANGED vars
  BY <1>11, SameHolds
<1> QED BY <1>1, <1>2, <1>3, <1>4, <1>5, <1>6, <1>7, <1>8, <1>9, <1>10, <1>11 DEF Next

\* In every behaviour, whatever is begun, written, interrupted or edited: the files have
\* parts of their host's kinds, a plan leaves the others' as it read it, the whole uninstall
\* that nobody disturbed has done or will do what it was to, and the user environment can
\* be brought back from its record (commitPlan, uninstallTargets, applyUserEnvironment).
THEOREM IntegrationsInvariant == Spec => []IInv
<1>1. Init => IInv
  BY InitHolds
<1>2. IInv /\ [Next]_vars => IInv'
  BY NextHolds
<1> QED BY <1>1, <1>2, PTL DEF Spec

-----------------------------------------------------------------------------
(* What it gives.                                                          *)

LEMMA PutIn == ASSUME disk \in Disk, NEW ch \in Change PROVE [disk EXCEPT ![ch.slot] = ch.to] \in Disk
<1>1. CASE ch.slot = "skill"
  BY <1>1, ChangeIs DEF Disk
<1>2. CASE ch.slot = "file"
  BY <1>2, ChangeIs DEF Disk
<1>3. CASE ch.slot = "path"
  BY <1>3, ChangeIs DEF Disk
<1>4. CASE ch.slot = "config"
  BY <1>4, ChangeIs DEF Disk
<1>5. CASE ch.slot = "journal"
  BY <1>5, ChangeIs DEF Disk
<1> QED BY <1>1, <1>2, <1>3, <1>4, <1>5, ChangeIs DEF Slots

LEMMA TypesHold == IInv => TypeOK
<1> SUFFICES ASSUME IInv PROVE TypeOK
  OBVIOUS
<1>1. ASSUME NEW p \in Processes
      PROVE  /\ proc[p].kind \in Kinds /\ proc[p].by \in Callers \cup {Nobody}
             /\ proc[p].left \subseteq proc[p].cands /\ proc[p].cands \subseteq Callers
             /\ {proc[p].held, proc[p].failed, proc[p].alone} \subseteq BOOLEAN /\ proc[p].read \in Skill
             /\ \A i \in DOMAIN proc[p].todo :
                   [disk EXCEPT ![proc[p].todo[i].slot] = proc[p].todo[i].to] \in Disk
  <2>1. PICK r \in Command : r = proc[p] /\ Ordered(r)
    BY IInvHas
  <2>2. r.left \subseteq r.cands
    BY <2>1 DEF Ordered
  <2>3. \A i \in DOMAIN r.todo : r.todo[i] \in Change
    BY CommandHas
  <2>4. \A i \in DOMAIN r.todo : [disk EXCEPT ![r.todo[i].slot] = r.todo[i].to] \in Disk
    BY <2>3, IInvHas, PutIn
  <2> QED BY <2>1, <2>2, <2>4, CommandHas
<1> QED BY <1>1 DEF IInv, Typed, TypeOK

\* For any number of installations and commands, an install that follows an install has
\* nothing to write, and an uninstall takes out all of it that can be read
\* (planHooksMerge, planCodexSandbox, planHermesHookFor, rewriteProfile).
THEOREM Settles == Spec => []InstallSettles
<1>1. IInv => InstallSettles
  <2> SUFFICES ASSUME IInv, NEW c \in Callers
               PROVE  LET f == Installed(c, disk.file)
                          g == Uninstalled(c, f)
                      IN  /\ Installed(c, f) = f
                          /\ ~f.odd => OursOf(c, g.entries) = {} /\ OursOf(c, g.rules) = {}
                          /\ f.block = Now(c) /\ (host = "profile" => ~f.odd) => ~HasBlock(g)
                          /\ g.user \cup g.inside = disk.file.user \cup disk.file.inside
    BY TypesHold DEF InstallSettles
  <2>1. PICK f \in File : f = Installed(c, disk.file) /\ Shaped(f) /\ Makes(disk.file, f)
    BY IInvHas, InstalledIs DEF Makes
  <2>2. PICK g : g = Uninstalled(c, f)
    OBVIOUS
  <2>3. Installed(c, f) = f
    BY <2>1, IInvHas, InstallsOnce
  <2>4. Makes(f, g) /\ Rid(c, g)
    BY <2>1, <2>2, IInvHas, UninstalledIs
  <2>5. ~f.odd => OursOf(c, g.entries) = {} /\ OursOf(c, g.rules) = {}
    BY <2>4 DEF Makes, Rid, OursOf
  <2>6. f.block = Now(c) /\ (host = "profile" => ~f.odd) => ~HasBlock(g)
    BY <2>1, <2>2, IInvHas, UninstallUndoes
  <2>7. g.user \cup g.inside = disk.file.user \cup disk.file.inside
    BY <2>1, <2>4 DEF Makes
  <2> QED BY <2>1, <2>2, <2>3, <2>5, <2>6, <2>7
<1> QED BY <1>1, IntegrationsInvariant, PTL

\* The whole uninstall that nobody disturbed leaves no part of any binary it knows, however
\* many there are (uninstallTargets, attributeRemoved).
THEOREM UninstallTakesAll == Spec => []UninstallIsWhole
<1>1. IInv => UninstallIsWhole
  <2> SUFFICES ASSUME IInv, NEW p \in Processes, NEW r \in Command, r = proc[p], NEW f, f = disk.file,
                      Done(p), r.kind = "full", r.alone, ~r.failed, ~r.held, Settled
               PROVE  /\ host \in Agents => disk.skill = NoSkill
                      /\ \A e \in f.entries \cup f.rules : e.by \in r.cands => f.odd
                      /\ HasBlock(f) /\ Readable(f) =>
                            /\ host = "codex" => f.block.by.cfg # r.by.cfg
                            /\ host = "hermes" => f.block.by \notin r.cands
                            /\ host = "profile" => f.odd \/ f.block.by.cfg # r.by.cfg
    BY IInvHas DEF UninstallIsWhole
  <2>1. r.todo = <<>> /\ r.left = {}
    BY DEF Done
  <2>2. Removing(r)
    BY DEF IInv, Undisturbed, Settled
  <2>3. r.by \in r.cands
    BY IInvHas DEF Ordered
  <2>4. \A d \in r.cands : Rid(d, f)
    BY <2>1, <2>2, NothingPlanned DEF Removing, Writes
  <2>5. host \in Agents => disk.skill = NoSkill
    BY <2>1, <2>2, <2>3, NothingPlanned DEF Removing, Writes
  <2> QED BY <2>3, <2>4, <2>5 DEF Rid
<1> QED BY <1>1, IntegrationsInvariant, PTL

\* However setups and uninstalls of the user environment are cut short, an environment
\* without a record is the one there was (applyUserEnvironment,
\* applyUserEnvironmentRevert).
THEOREM EnvironmentComesBack == Spec => []EnvironmentReverted
<1>1. IInv => EnvironmentReverted
  BY DEF IInv, InTurn, Environment, Original, EnvironmentReverted
<1> QED BY <1>1, IntegrationsInvariant, PTL

\* A write of a plan, to what it was made from, takes away nothing of the others'.
LEMMA CommitSpares ==
    ASSUME IInv, NEW p \in Processes, CommitPlan(p), ~stale', host = "profile" => proc[p].kind = "full"
    PROVE  /\ KeptFor(proc[p].by, disk.file, disk'.file)
           /\ ForeignOwner(proc[p].by, disk.skill) => disk'.skill = disk.skill
           /\ disk'.path.user = disk.path.user
<1>1. PICK r \in Command : r = proc[p] /\ Ordered(r)
  BY IInvHas
<1>2. r.todo # <<>>
  BY <1>1 DEF CommitPlan
<1>3. PICK ch \in Change : ch = Head(r.todo)
  BY <1>2, CommandHas, RestPlanned
<1>4. Fair(r, ch)
  BY <1>1, <1>2, <1>3, CommandHas, RestPlanned DEF Ordered
<1>5. \/ Put(ch) /\ disk[ch.slot] = ch.saw
      \/ disk' = disk
      \/ /\ host \in Agents /\ \E t \in Truncated(ch.slot) : disk' = [disk EXCEPT ![ch.slot] = t]
         /\ disk[ch.slot] = ch.saw /\ (ch.slot = "file" => disk.file = NoFile)
  BY <1>1, <1>3 DEF CommitPlan
<1>6. CASE Put(ch) /\ disk[ch.slot] = ch.saw
  <2>1. /\ disk'.skill = IF ch.slot = "skill" THEN ch.to ELSE disk.skill
        /\ disk'.file = IF ch.slot = "file" THEN ch.to ELSE disk.file
        /\ disk'.path = IF ch.slot = "path" THEN ch.to ELSE disk.path
    BY <1>6, IInvHas, PutIs DEF Put
  <2>2. /\ ch.slot = "file" => ch.saw = disk.file
        /\ ch.slot = "skill" => ch.saw = disk.skill
        /\ ch.slot = "path" => ch.saw = disk.path
    BY <1>6
  <2>3. ch.slot = "file" => KeptFor(r.by, disk.file, ch.to)
    BY <1>1, <1>4, <2>2 DEF Fair
  <2>4. KeptFor(r.by, disk.file, disk'.file)
    BY <2>1, <2>3, KeptItself
  <2> QED BY <1>1, <1>4, <2>1, <2>2, <2>4 DEF Fair
<1>7. CASE disk' = disk
  BY <1>7, KeptItself
<1>8. CASE /\ host \in Agents /\ \E t \in Truncated(ch.slot) : disk' = [disk EXCEPT ![ch.slot] = t]
           /\ disk[ch.slot] = ch.saw /\ (ch.slot = "file" => disk.file = NoFile)
  <2>1. ch.slot \in {"skill", "file"}
    BY <1>4, <1>8 DEF Fair, Agents
  <2>2. PICK t \in Truncated(ch.slot) : disk' = [disk EXCEPT ![ch.slot] = t]
    BY <1>8
  <2>3. CASE ch.slot = "skill"
    <3>1. disk'.file = disk.file /\ disk'.path = disk.path
      BY <2>2, <2>3, IInvHas DEF Disk
    <3>2. ~ForeignOwner(r.by, disk.skill)
      BY <1>4, <1>8, <2>3 DEF Fair
    <3> QED BY <1>1, <3>1, <3>2, KeptItself
  <2>4. CASE ch.slot = "file"
    <3>1. disk'.file = t /\ disk'.path = disk.path /\ disk'.skill = disk.skill /\ disk.file = NoFile
      BY <1>8, <2>2, <2>4, IInvHas DEF Disk
    <3>2. PICK o \in BOOLEAN : t = [NoFile EXCEPT !.there = TRUE, !.odd = o]
      BY <2>2, <2>4 DEF Truncated
    <3>3. t.user = {} /\ t.inside = {} /\ t.entries = {} /\ t.rules = {}
      BY <3>2, NoFileIs DEF File
    <3>4. KeptFor(r.by, NoFile, t)
      BY <3>3, NoFileIs DEF KeptFor, HasBlock
    <3> QED BY <1>1, <3>1, <3>4
  <2> QED BY <2>1, <2>3, <2>4
<1> QED BY <1>5, <1>6, <1>7, <1>8

\* A step that has a command under way go on with its plan is that command's own write,
\* or the planning for its next candidate.
LEMMA OwnStep ==
    ASSUME IInv, Next, NEW p \in Processes, Running(p), proc'[p].todo # proc[p].todo
    PROVE  CommitPlan(p) \/ disk' = disk
<1>1. proc \in [Processes -> Command]
  BY IInvHas
<1>2. ASSUME NEW q \in Processes, CommitPlan(q), q # p PROVE FALSE
  <2>1. \E n : proc' = [proc EXCEPT ![q] = n]
    BY <1>2 DEF CommitPlan, Onward
  <2> QED BY <1>1, <1>2, <2>1
<1>3. ~Act
  <2> SUFFICES ASSUME Act PROVE FALSE
    OBVIOUS
  <2>1. proc'[p] = [proc[p] EXCEPT !.alone = FALSE]
    BY DEF Act
  <2>2. proc'[p].todo = proc[p].todo
    BY <1>1, <2>1 DEF Command
  <2> QED BY <2>2
<1>4. ASSUME NEW q \in Processes, NEW k, NEW c, NEW r, Begin(q, k, c, r) PROVE disk' = disk
  BY <1>4 DEF Begin
<1>5. ASSUME NEW q \in Processes, NEW c \in Callers,
             \/ AgentsInstall(q, c) \/ AgentsUninstall(q, c) \/ Setup(q, c)
             \/ RerenderOwned(q, c) \/ Uninstall(q, c)
             \/ \E v \in {"on", "off"} : AgentsPrefer(q, c, v)
      PROVE  disk' = disk
  BY <1>4, <1>5 DEF AgentsInstall, AgentsUninstall, Setup, RerenderOwned, Uninstall, AgentsPrefer
<1>6. ASSUME NEW q \in Processes, NextCandidate(q) \/ Finish(q) PROVE disk' = disk
  BY <1>6 DEF NextCandidate, Finish
<1> QED BY <1>2, <1>3, <1>5, <1>6 DEF Next, Edit, Disorder, HermesSaves, Remove

\* Among any number of installations no command takes away or changes what is another's
\* (commitPlan, planHooksRemove, planCodexSandbox, removeOurSandboxBlock, foreignOwner).
THEOREM NobodyTakesAnothers == Spec => OthersKept
<1>1. IInv /\ [Next]_vars =>
         [\A p \in Processes :
             Running(p) /\ proc'[p].todo # proc[p].todo /\ ~stale'
             /\ (host = "profile" => proc[p].kind = "full")
             => /\ KeptFor(proc[p].by, disk.file, disk'.file)
                /\ ForeignOwner(proc[p].by, disk.skill) => disk'.skill = disk.skill
                /\ disk'.path.user = disk.path.user]_vars
  <2> SUFFICES ASSUME IInv, Next, NEW p \in Processes, Running(p), proc'[p].todo # proc[p].todo, ~stale',
                      host = "profile" => proc[p].kind = "full"
               PROVE  /\ KeptFor(proc[p].by, disk.file, disk'.file)
                      /\ ForeignOwner(proc[p].by, disk.skill) => disk'.skill = disk.skill
                      /\ disk'.path.user = disk.path.user
    OBVIOUS
  <2>1. CASE CommitPlan(p)
    BY <2>1, CommitSpares
  <2>2. CASE disk' = disk
    BY <2>2, KeptItself
  <2> QED BY <2>1, <2>2, OwnStep
<1> QED BY <1>1, IntegrationsInvariant, PTL DEF Spec, OthersKept

-----------------------------------------------------------------------------
(* The hooks an install puts in place, and the searches they run around:   *)
(* SearchTrace.  Its specification has no variable in common with that of  *)
(* an install.                                                             *)

-----------------------------------------------------------------------------
(* What a step leaves as it was: bounds, files, the hooks of other processes. *)

\* What a step leaves of the room there is for compactions not yet counted.
Leeway ==
    /\ Cardinality(Pending)' + events <= Cardinality(Pending) + events'
    /\ \A s \in Sessions :
         /\ compacted[s] <= compacted'[s]
         /\ Uncounted(s)' => Uncounted(s) \/ compacted[s] < compacted'[s]
         /\ Closing(s)' => Closing(s) \/ compacted[s] < compacted'[s]
    /\ \A s \in Cursor : declares[s] # Absent => declares'[s] = declares[s]

\* The variables of the world have their types.
Settings ==
    /\ cwd \in [Sessions -> Dirs]
    /\ declares \in [Cursor -> Lineages \cup {Absent}]
    /\ compacted \in [Sessions -> Nat]
    /\ phase \in [Sessions -> {"none", "compacting"}]
    /\ events \in 0 .. MaxEvents

\* A step of one hook or search, in a world that stands still.
Quiet(p, n) ==
    /\ World /\ hook' = [hook EXCEPT ![p] = n]
    /\ \/ n = IdleHook
       \/ /\ n.s = hook[p].s
          /\ \/ n.does = hook[p].does
             \/ n.s \in Cursor /\ n.does \in {"call", "save"} /\ hook[p].does \in {"call", "save"}
          /\ n.pc \in {"begin", "apply"} =>
               n.does = hook[p].does /\ hook[p].pc \in {"begin", "apply"}

LEMMA FilesAre ==
    /\ Files = Lineages \cup {Window}
    /\ \A f \in Lineages : (\E x \in Dirs : f = Ws(x)) \/ (\E s \in Cursor : f = Conv(s))
    /\ \A x \in Dirs : Ws(x) \in Lineages
    /\ \A s \in Cursor : Conv(s) \in Lineages
    /\ \A x, s : Ws(x) # Conv(s) /\ Ws(x) # Window /\ Conv(s) # Window
    /\ \A s, t : Conv(s) = Conv(t) => s = t
    /\ \A x, y : Ws(x) = Ws(y) => x = y
    /\ Window \notin Lineages
<1>1. \A x, s : Ws(x) # Conv(s) /\ Ws(x) # Window /\ Conv(s) # Window
  BY DEF Ws, Conv, Window
<1>2. (\A s, t : Conv(s) = Conv(t) => s = t) /\ (\A x, y : Ws(x) = Ws(y) => x = y)
  BY DEF Ws, Conv
<1> QED BY <1>1, <1>2 DEF Files, Lineages

LEMMA TypesHave ==
    ASSUME Types
    PROVE  Settings /\ (\A p \in Pids : hook[p] \in Hooks(hook[p].base))
BY DEF Types, Settings

LEMMA PendingIsFinite ==
    ASSUME OneAtATime
    PROVE  IsFiniteSet(Pending) /\ Cardinality(Pending) \in Nat
BY FS_CardinalityType DEF OneAtATime

LEMMA HookHas ==
    ASSUME NEW b, NEW n \in Hooks(b)
    PROVE  /\ n.pc \in {"idle", "begin", "apply", "rename", "search", "posted"}
           /\ n.does \in {"nothing", "start", "thought", "call", "save"} \cup Phases
           /\ n.s \in Sessions \cup {Absent} /\ n.call \in 0 .. MaxEvents
           /\ n.file \in Files \cup {Absent} /\ n.base = b
           /\ n.env \in Environments /\ n.sent \in Envelopes \cup {Absent}
           /\ n = [pc |-> n.pc, does |-> n.does, s |-> n.s, call |-> n.call, file |-> n.file,
                   base |-> n.base, env |-> n.env, sent |-> n.sent]
BY DEF Hooks

LEMMA IdleHookIs ==
    ASSUME Apart
    PROVE  /\ IdleHook \in Hooks(Absent) /\ IdleHook.pc = "idle" /\ IdleHook.does = "nothing"
           /\ IdleHook.s = Absent /\ IdleHook.base = Absent /\ IdleHook.file = Absent
           /\ NoEnv \in Environments
<1>1. NoEnv \in Environments
  BY DEF NoEnv, Environments
<1>2. 0 \in 0 .. MaxEvents
  BY DEF Apart
<1> QED BY <1>1, <1>2 DEF IdleHook, Hooks

\* What was sound stays so for as long as there is room.
LEMMA SoundStays ==
    ASSUME TraceIInv, Settings', Cardinality(Pending)' \in Nat, Leeway,
           NEW f \in Lineages, NEW d, Sound(f, d)
    PROVE  Sound(f, d)'
<1>1. d.window \in Nat /\ events \in Nat /\ events' \in Nat /\ Cardinality(Pending) \in Nat
  <2>1. d.window \in Nat
    BY DEF Sound, Sidecars
  <2> QED BY <2>1, PendingIsFinite DEF TraceIInv, Types, Settings, Apart
<1>2. d.window + Cardinality(Pending)' <= events'
  BY <1>1 DEF Leeway, Sound
<1>3. ASSUME NEW x \in Dirs, f = Ws(x), d.session \in Cursor PROVE Shares(d.session)'
  BY <1>3 DEF Leeway, Sound, Shares
<1>4. ASSUME NEW s \in Cursor, f = Conv(s)
      PROVE  /\ d.session = s /\ d.text \in {Absent, s}
             /\ d.window <= compacted'[s] /\ (Uncounted(s)' => d.window < compacted'[s])
  <2>1. /\ d.session = s /\ d.text \in {Absent, s}
        /\ d.window <= compacted[s] /\ (Uncounted(s) => d.window < compacted[s])
    BY <1>4 DEF Sound
  <2>2. s \in Sessions /\ compacted[s] \in Nat /\ compacted'[s] \in Nat
    BY DEF Sessions, TraceIInv, Types, Settings
  <2>3. /\ compacted[s] <= compacted'[s]
        /\ Uncounted(s)' => Uncounted(s) \/ compacted[s] < compacted'[s]
    BY <2>2 DEF Leeway
  <2> QED BY <1>1, <2>1, <2>2, <2>3
<1> QED BY <1>2, <1>3, <1>4 DEF Sound

LEMMA EntryIs ==
    ASSUME Apart, NEW w \in Windows, NEW s \in Claude
    PROVE  Entry(w, s) \in [gen : Nat, open : BOOLEAN]
<1>1. PICK D \in SUBSET Claude : w \in [D -> [gen : 0 .. MaxEvents, open : BOOLEAN]]
  BY DEF Windows
<1>2. \A x \in D : w[x] \in [gen : Nat, open : BOOLEAN]
  <2> SUFFICES ASSUME NEW x \in D PROVE w[x] \in [gen : Nat, open : BOOLEAN]
    OBVIOUS
  <2>1. w[x] \in [gen : 0 .. MaxEvents, open : BOOLEAN]
    BY <1>1
  <2> QED BY <2>1
<1>3. Closed \in [gen : Nat, open : BOOLEAN]
  BY DEF Closed
<1>4. DOMAIN w = D
  BY <1>1
<1> QED BY <1>2, <1>3, <1>4 DEF Entry

LEMMA CountedStays ==
    ASSUME TraceIInv, Settings', Leeway, NEW w, Counted(w)
    PROVE  Counted(w)'
<1> SUFFICES ASSUME NEW s \in Claude
             PROVE  /\ Entry(w, s).gen <= compacted'[s]
                    /\ Uncounted(s)' \/ (Closing(s)' /\ ~Entry(w, s).open) =>
                         Entry(w, s).gen < compacted'[s]
  BY DEF Counted, Entry
<1>1. /\ Entry(w, s).gen <= compacted[s]
      /\ Uncounted(s) \/ (Closing(s) /\ ~Entry(w, s).open) => Entry(w, s).gen < compacted[s]
  BY DEF Counted
<1>2. s \in Sessions /\ compacted[s] \in Nat /\ compacted'[s] \in Nat
  BY DEF Sessions, TraceIInv, Types, Settings
<1>3. /\ compacted[s] <= compacted'[s]
      /\ Uncounted(s)' => Uncounted(s) \/ compacted[s] < compacted'[s]
      /\ Closing(s)' => Closing(s) \/ compacted[s] < compacted'[s]
  BY <1>2 DEF Leeway
<1>4. Entry(w, s).gen \in Nat
  BY EntryIs DEF Counted, TraceIInv
<1> QED BY <1>1, <1>2, <1>3, <1>4

\* All that is held after a step was held before it, or is what the step brought.
LEMMA StoredStays ==
    ASSUME TraceIInv, Settings', Cardinality(Pending)' \in Nat, Leeway, NEW g, NEW d,
           \A f \in Files : \A x \in HeldFor(f)' : x \in HeldFor(f) \/ (f = g /\ x = d),
           g \in Lineages => Sound(g, d)', g = Window => Counted(d)'
    PROVE  Stored'
<1>1. ASSUME NEW f \in Lineages, NEW x \in HeldFor(f)' PROVE Sound(f, x)'
  <2>1. CASE x \in HeldFor(f)
    BY <2>1, SoundStays DEF TraceIInv, Stored
  <2>2. CASE x \notin HeldFor(f)
    <3>1. f = g /\ x = d
      BY <2>2, FilesAre
    <3> QED BY <3>1
  <2> QED BY <2>1, <2>2
<1>2. ASSUME NEW x \in HeldFor(Window)' PROVE Counted(x)'
  <2>1. CASE x \in HeldFor(Window)
    BY <2>1, CountedStays DEF TraceIInv, Stored
  <2>2. CASE x \notin HeldFor(Window)
    <3>1. Window = g /\ x = d
      BY <1>2, <2>2, FilesAre
    <3> QED BY <3>1
  <2> QED BY <2>1, <2>2
<1> QED BY <1>1, <1>2 DEF Stored

LEMMA AtWorkStays ==
    ASSUME TraceIInv, Settings', Leeway, NEW q \in Pids, hook'[q] = hook[q]
    PROVE  AtWork(q)'
<1> DEFINE s == hook[q].s
<1>1. AtWork(q) /\ hook[q] \in Hooks(hook[q].base)
  BY DEF TraceIInv, Types
<1>2. s \in Cursor => (Shares(s) => Shares(s)')
  BY DEF Leeway, Shares
<1>3. s \notin Cursor => (Shares(s) <=> Shares(s)')
  BY DEF Shares
<1>4. s \in Cursor /\ declares[s] # Absent => declares'[s] # Absent /\ Prefix(s)' = Prefix(s)
  BY DEF Leeway, Prefix
<1>5. ASSUME NEW t \in Envelopes, s \in Sessions, Own(s, t) PROVE Own(s, t)'
  <2>1. compacted[s] <= compacted'[s] /\ compacted[s] \in Nat /\ compacted'[s] \in Nat
          /\ t.window \in Nat
    BY <1>5 DEF Leeway, TraceIInv, Types, Settings, Envelopes
  <2> QED BY <1>5, <2>1 DEF Own
<1>6. hook[q].pc # "idle" => s \in Sessions
  BY <1>1 DEF AtWork
<1>7. Aims(q) => Aims(q)'
  BY <1>2, <1>3 DEF Aims, HooksWindow
<1>8. Given(q) /\ s \in Sessions => Given(q)'
  BY <1>4, <1>5 DEF Given
<1>9. Sends(q) /\ s \in Sessions => Sends(q)'
  BY <1>2, <1>3, <1>5 DEF Sends
<1>10. HooksWindow(q)' <=> HooksWindow(q)
  BY DEF HooksWindow
<1>11. hook[q].does = "save" => hook[q].pc = "rename"
  BY <1>1 DEF AtWork
<1> QED BY <1>1, <1>6, <1>7, <1>8, <1>9, <1>10, <1>11 DEF AtWork

LEMMA QuietHook ==
    ASSUME TraceIInv, NEW p \in Pids, NEW n, n \in Hooks(n.base), Quiet(p, n)
    PROVE  /\ hook' = [q \in Pids |-> hook'[q]]
           /\ hook'[p] = n /\ \A q \in Pids : q # p => hook'[q] = hook[q]
           /\ \A q \in Pids : hook'[q] \in Hooks(hook'[q].base)
<1>1. hook = [q \in Pids |-> hook[q]] /\ hook' = [hook EXCEPT ![p] = n]
  BY DEF TraceIInv, Types, Quiet
<1>2. DOMAIN hook = Pids
  BY <1>1
<1>3. hook'[p] = n /\ \A q \in Pids : q # p => hook'[q] = hook[q]
  BY <1>1, <1>2
<1>4. hook' = [q \in Pids |-> hook'[q]]
  BY <1>1, <1>2
<1> QED BY <1>3, <1>4, TypesHave DEF TraceIInv

LEMMA QuietPhases ==
    ASSUME TraceIInv, NEW p \in Pids, NEW n, n \in Hooks(n.base), Quiet(p, n), NEW q \in Pids
    PROVE  /\ hook'[q].does \in Phases => hook'[q].does = hook[q].does /\ hook'[q].s = hook[q].s
           /\ \A does \in Phases : Waiting(q, does)' => Waiting(q, does)
           /\ hook'[q].does = "call" /\ hook'[q].s \in Claude =>
                hook[q].does = "call" /\ hook'[q].s = hook[q].s
<1>1. CASE q # p
  <2>1. hook'[q] = hook[q]
    BY <1>1, QuietHook
  <2> QED BY <2>1 DEF Waiting
<1>2. CASE q = p
  <2>1. hook'[q] = n
    BY <1>2, QuietHook
  <2>2. n # IdleHook => n.s = hook[p].s
    BY DEF Quiet
  <2>3. IdleHook.pc = "idle" /\ IdleHook.does = "nothing"
    BY IdleHookIs DEF TraceIInv
  <2>4. n.does \in Phases => n.does = hook[q].does
    BY <1>2, <2>3 DEF Quiet, Phases
  <2>5. Claude \cap Cursor = {}
    BY DEF TraceIInv, Apart
  <2>6. n.does = "call" /\ n.s \in Claude => hook[q].does = "call"
    BY <1>2, <2>3, <2>5 DEF Quiet
  <2>7. n.pc \in {"begin", "apply"} => n.does = hook[q].does /\ hook[q].pc \in {"begin", "apply"}
    BY <1>2, <2>3 DEF Quiet
  <2> QED BY <1>2, <2>1, <2>2, <2>3, <2>4, <2>6, <2>7 DEF Waiting, Phases
<1> QED BY <1>1, <1>2

LEMMA QuietPending ==
    ASSUME TraceIInv, NEW p \in Pids, NEW n, n \in Hooks(n.base), Quiet(p, n)
    PROVE  /\ Pending' \subseteq Pending /\ IsFiniteSet(Pending)'
           /\ Cardinality(Pending)' \in Nat /\ Cardinality(Pending)' <= Cardinality(Pending)
           /\ \A s \in Sessions : (Uncounted(s)' => Uncounted(s)) /\ (Closing(s)' => Closing(s))
<1>1. \A q \in Pids :
        /\ Waiting(q, "pre")' => Waiting(q, "pre") /\ hook'[q].s = hook[q].s
        /\ Waiting(q, "post")' => Waiting(q, "post") /\ hook'[q].s = hook[q].s
  <2> SUFFICES ASSUME NEW q \in Pids
               PROVE  /\ Waiting(q, "pre")' => Waiting(q, "pre") /\ hook'[q].s = hook[q].s
                      /\ Waiting(q, "post")' => Waiting(q, "post") /\ hook'[q].s = hook[q].s
    OBVIOUS
  <2>1. "pre" \in Phases /\ "post" \in Phases
    BY DEF Phases
  <2>2. \A does \in Phases : Waiting(q, does)' => Waiting(q, does)
    BY QuietPhases
  <2>3. \A does \in Phases : Waiting(q, does)' => hook'[q].s = hook[q].s
    BY QuietPhases DEF Waiting
  <2> QED BY <2>1, <2>2, <2>3
<1>2. Pending' \subseteq Pending
  BY <1>1 DEF Pending
<1>3. IsFiniteSet(Pending) /\ Cardinality(Pending) \in Nat
  BY PendingIsFinite DEF TraceIInv
<1>4. IsFiniteSet(Pending') /\ Cardinality(Pending') <= Cardinality(Pending)
  BY <1>2, <1>3, FS_Subset
<1>5. Cardinality(Pending') \in Nat
  BY <1>4, FS_CardinalityType
<1>6. \A s \in Sessions : Uncounted(s)' => Uncounted(s)
  BY <1>1 DEF Uncounted
<1>7. phase' = phase
  BY DEF Quiet, World
<1>8. \A s \in Sessions : Closing(s)' => Closing(s)
  BY <1>1, <1>7 DEF Closing
<1> QED BY <1>2, <1>4, <1>5, <1>6, <1>8

LEMMA QuietWorld ==
    ASSUME TraceIInv, NEW p \in Pids, NEW n, n \in Hooks(n.base), Quiet(p, n)
    PROVE  /\ Settings' /\ Leeway /\ Declared' /\ OneAtATime'
           /\ \A q \in Pids : q # p => AtWork(q)'
<1>1. UNCHANGED <<cwd, declares, compacted, phase, events>>
  BY DEF Quiet, World
<1>2. Settings' /\ Declared'
  BY <1>1, TypesHave DEF TraceIInv, Settings, Declared
<1>3. Leeway
  <2>1. Cardinality(Pending)' <= Cardinality(Pending)
    BY QuietPending
  <2>2. events \in Nat /\ Cardinality(Pending)' \in Nat /\ Cardinality(Pending) \in Nat
    BY TypesHave, PendingIsFinite, QuietPending DEF TraceIInv, Settings, Apart
  <2>3. \A s \in Sessions : compacted[s] <= compacted'[s]
    BY <1>1, TypesHave DEF TraceIInv, Settings
  <2>4. \A s \in Sessions : (Uncounted(s)' => Uncounted(s)) /\ (Closing(s)' => Closing(s))
    BY QuietPending
  <2>5. Cardinality(Pending)' + events <= Cardinality(Pending) + events'
    BY <1>1, <2>1, <2>2
  <2> QED BY <1>1, <2>3, <2>4, <2>5 DEF Leeway
<1>4. OneAtATime'
  <2>1. \A q \in Pids :
          /\ hook'[q].does \in Phases => hook'[q].does = hook[q].does /\ hook'[q].s = hook[q].s
          /\ hook'[q].does = "call" /\ hook'[q].s \in Claude =>
               hook[q].does = "call" /\ hook'[q].s = hook[q].s
    BY QuietPhases
  <2>2. ASSUME NEW q \in Pids, NEW r \in Pids, hook'[q].s = hook'[r].s
        PROVE  /\ hook'[q].does \in Phases /\ hook'[r].does \in Phases => q = r
               /\ hook'[q].does = "call" /\ hook'[r].does = "call" /\ hook'[q].s \in Claude => q = r
    BY <2>1, <2>2 DEF TraceIInv, OneAtATime
  <2>3. ASSUME NEW s \in Sessions, phase'[s] = "compacting"
        PROVE  s \in Claude /\ ~Busy(s, {"post", "seed"})'
    BY <1>1, <2>1, <2>3 DEF TraceIInv, OneAtATime, Busy, Phases
  <2>4. \A s \in Sessions : Uncounted(s)' \/ Closing(s)' => 0 < compacted'[s]
    BY <1>1, QuietPending DEF TraceIInv, OneAtATime
  <2>5. /\ IsFiniteSet(Pending)' /\ Cardinality(Pending)' <= events'
        /\ \A s \in Claude : compacted'[s] + Cardinality(Pending)' <= events'
    <3>1. /\ Cardinality(Pending)' <= Cardinality(Pending) /\ IsFiniteSet(Pending)'
          /\ Cardinality(Pending)' \in Nat /\ Cardinality(Pending) \in Nat /\ events \in Nat
      BY TypesHave, PendingIsFinite, QuietPending DEF TraceIInv, Settings, Apart
    <3>2. Cardinality(Pending) <= events /\ \A s \in Claude :
            compacted[s] + Cardinality(Pending) <= events
      BY DEF TraceIInv, OneAtATime
    <3>3. \A s \in Claude : compacted[s] \in Nat
      BY TypesHave DEF TraceIInv, Settings, Sessions
    <3> QED BY <1>1, <3>1, <3>2, <3>3
  <2> QED BY <2>2, <2>3, <2>4, <2>5 DEF OneAtATime
<1>5. \A q \in Pids : q # p => AtWork(q)'
  BY <1>2, <1>3, QuietHook, AtWorkStays
<1> QED BY <1>2, <1>3, <1>4, <1>5

\* The files and the temporary files have their types.
Papers ==
    /\ files = [f \in Files |-> files[f]] /\ aged \subseteq Files
    /\ \A t \in temps : t \in Temps(t.data) /\ t.data # Absent

LEMMA HeldIs ==
    ASSUME NEW f, NEW x
    PROVE  x \in HeldFor(f) <=>
             /\ x # Absent
             /\ \/ x = files[f]
                \/ \E t \in temps : t.file = f /\ x = t.data
                \/ \E q \in Pids : hook[q].pc = "apply" /\ hook[q].file = f /\ x = hook[q].base
BY DEF HeldFor

LEMMA HeldIsNext ==
    ASSUME NEW f, NEW x
    PROVE  x \in HeldFor(f)' <=>
             /\ x # Absent
             /\ \/ x = files'[f]
                \/ \E t \in temps' : t.file = f /\ x = t.data
                \/ \E q \in Pids : hook'[q].pc = "apply" /\ hook'[q].file = f /\ x = hook'[q].base
BY DEF HeldFor

LEMMA HeldUndisturbed ==
    ASSUME TraceIInv, NEW p \in Pids, NEW n, n \in Hooks(n.base), Quiet(p, n), FilesStand
    PROVE  /\ Papers'
           /\ \A f \in Files : \A x \in HeldFor(f)' :
                x \in HeldFor(f) \/ (n.pc = "apply" /\ f = n.file /\ x = n.base)
<1>1. Papers'
  BY DEF FilesStand, TraceIInv, Types, Papers
<1>2. ASSUME NEW f \in Files, NEW x \in HeldFor(f)'
      PROVE  x \in HeldFor(f) \/ (n.pc = "apply" /\ f = n.file /\ x = n.base)
  <2>1. files' = files /\ temps' = temps
    BY DEF FilesStand
  <2>2. hook'[p] = n /\ \A q \in Pids : q # p => hook'[q] = hook[q]
    BY QuietHook
  <2> QED BY <1>2, <2>1, <2>2, HeldIs, HeldIsNext
<1> QED BY <1>1, <1>2

LEMMA HeldAfterWrite ==
    ASSUME TraceIInv, NEW p \in Pids, NEW n, n \in Hooks(n.base), Quiet(p, n), n.pc # "apply",
           UNCHANGED <<files, aged>>, NEW g \in Files, NEW d, d # Absent, WriteTemp(p, g, d)
    PROVE  /\ Papers'
           /\ \A f \in Files : \A x \in HeldFor(f)' : x \in HeldFor(f) \/ (f = g /\ x = d)
<1>1. PICK u : u = [file |-> g, pid |-> p, old |-> FALSE, data |-> d]
  OBVIOUS
<1>2. \A t \in temps' : t \in temps \/ t = u
  BY <1>1 DEF WriteTemp, SweepStaleTemps
<1>3. u \in Temps(u.data) /\ u.file = g /\ u.data = d
  BY <1>1 DEF Temps
<1>4. Papers'
  BY <1>2, <1>3 DEF TraceIInv, Types, Papers
<1>5. ASSUME NEW f \in Files, NEW x \in HeldFor(f)' PROVE x \in HeldFor(f) \/ (f = g /\ x = d)
  <2>1. hook'[p] = n /\ \A q \in Pids : q # p => hook'[q] = hook[q]
    BY QuietHook
  <2> QED BY <1>2, <1>3, <1>5, <2>1, HeldIs, HeldIsNext
<1> QED BY <1>4, <1>5

LEMMA HeldAfterRename ==
    ASSUME TraceIInv, NEW p \in Pids, NEW n, n \in Hooks(n.base), Quiet(p, n), n.pc # "apply",
           Rename(p, n)
    PROVE  /\ Papers'
           /\ \A f \in Files : \A x \in HeldFor(f)' : x \in HeldFor(f)
           /\ \A f \in Files : files[f] # Absent => files'[f] # Absent
<1> DEFINE g == hook[p].file
           mine == {t \in temps : t.file = g /\ t.pid = p}
<1>1. /\ files = [f \in Files |-> files[f]] /\ aged \subseteq Files
      /\ \A t \in temps : t \in Temps(t.data) /\ t.data # Absent
  BY DEF TraceIInv, Types
<1>2. temps' \subseteq temps /\ aged' \subseteq aged
  BY DEF Rename
<1>3. files' = files \/ \E t \in mine : files' = [files EXCEPT ![g] = t.data]
  BY DEF Rename
<1>4. \A f \in Files : files'[f] = files[f] \/ (f = g /\ \E t \in mine : files'[f] = t.data)
  BY <1>1, <1>3
<1>5. files' = [f \in Files |-> files'[f]]
  BY <1>1, <1>3
<1>6. Papers'
  BY <1>1, <1>2, <1>5 DEF Papers
<1>7. ASSUME NEW f \in Files, NEW x \in HeldFor(f)' PROVE x \in HeldFor(f)
  <2>1. hook'[p] = n /\ \A q \in Pids : q # p => hook'[q] = hook[q]
    BY QuietHook
  <2>2. CASE x = files'[f]
    BY <1>4, <1>7, <2>2, HeldIs, HeldIsNext
  <2>3. CASE x # files'[f]
    BY <1>2, <1>7, <2>1, <2>3, HeldIs, HeldIsNext
  <2> QED BY <2>2, <2>3
<1>8. ASSUME NEW f \in Files, files[f] # Absent PROVE files'[f] # Absent
  <2>1. CASE files'[f] = files[f]
    BY <1>8, <2>1
  <2>2. CASE files'[f] # files[f]
    <3>1. PICK t \in temps : files'[f] = t.data
      BY <1>4, <2>2
    <3> QED BY <1>1, <3>1
  <2> QED BY <2>1, <2>2
<1> QED BY <1>6, <1>7, <1>8

LEMMA QuietIsSound ==
    ASSUME TraceIInv, NEW p \in Pids, NEW n, n \in Hooks(n.base), Quiet(p, n),
           Papers', shell' \in [Claude -> Envelopes \cup {Absent}], Shells', NEW g, NEW d,
           \A f \in Files : \A x \in HeldFor(f)' : x \in HeldFor(f) \/ (f = g /\ x = d),
           g \in Lineages => Sound(g, d)', g = Window => Counted(d)', AtWork(p)'
    PROVE  TraceIInv'
<1>1. /\ Settings' /\ Leeway /\ Declared' /\ OneAtATime'
      /\ \A q \in Pids : q # p => AtWork(q)'
  BY QuietWorld
<1>2. Cardinality(Pending)' \in Nat
  BY QuietPending
<1>3. Stored'
  BY <1>1, <1>2, StoredStays
<1>4. Types'
  BY <1>1, QuietHook DEF Types, Papers, Settings
<1>5. Apart'
  BY DEF TraceIInv, Apart, Sessions, Files, Lineages, Envelopes, Windows
<1> QED BY <1>1, <1>3, <1>4, <1>5 DEF TraceIInv

\* A step that brings nothing new.
LEMMA QuietKeeps ==
    ASSUME TraceIInv, NEW p \in Pids, NEW n, n \in Hooks(n.base), Quiet(p, n),
           Papers', shell' \in [Claude -> Envelopes \cup {Absent}], Shells',
           \A f \in Files : \A x \in HeldFor(f)' : x \in HeldFor(f), AtWork(p)'
    PROVE  TraceIInv'
<1>1. Absent \notin Files
  BY DEF TraceIInv, Apart
<1>2. Absent \notin Lineages /\ Absent # Window
  BY <1>1, FilesAre
<1> QED BY <1>2, QuietIsSound

LEMMA ShellsStand ==
    ASSUME TraceIInv, NEW p \in Pids, NEW n, n \in Hooks(n.base), Quiet(p, n),
           hook[p].pc # "posted", shell' = shell
    PROVE  shell' \in [Claude -> Envelopes \cup {Absent}] /\ Shells'
<1>1. \A q \in Pids : q # p => hook'[q] = hook[q]
  BY QuietHook
<1> QED BY <1>1 DEF TraceIInv, Types, Shells

LEMMA IdleIsAtWork ==
    ASSUME TraceIInv, NEW p \in Pids, hook'[p] = IdleHook
    PROVE  AtWork(p)'
BY IdleHookIs DEF TraceIInv, AtWork

LEMMA AtStep ==
    ASSUME TraceIInv, NEW p \in Pids
    PROVE  AtWork(p) /\ hook[p] \in Hooks(hook[p].base)
BY DEF TraceIInv, Types

LEMMA NoWindows ==
    ASSUME TraceIInv, NEW b, b = [s \in {} |-> Closed]
    PROVE  Counted(b) /\ b # Absent
<1>1. b \in [{} -> [gen : 0 .. MaxEvents, open : BOOLEAN]] /\ {} \in SUBSET Claude
  OBVIOUS
<1>2. b \in Windows
  BY <1>1 DEF Windows
<1>3. ASSUME NEW s \in Claude
      PROVE  /\ Entry(b, s).gen <= compacted[s]
             /\ Uncounted(s) \/ (Closing(s) /\ ~Entry(b, s).open) => Entry(b, s).gen < compacted[s]
  <2>1. Entry(b, s) = Closed
    BY DEF Entry
  <2>2. s \in Sessions /\ compacted[s] \in Nat
    BY TypesHave DEF TraceIInv, Settings, Sessions
  <2>3. Uncounted(s) \/ Closing(s) => 0 < compacted[s]
    BY <2>2 DEF TraceIInv, OneAtATime
  <2> QED BY <2>1, <2>2, <2>3 DEF Closed
<1> QED BY <1>2, <1>3 DEF Counted, TraceIInv, Apart

-----------------------------------------------------------------------------
(* The window state.                                                       *)

LEMMA ReadStateIsSound ==
    ASSUME TraceIInv, NEW p \in Pids, ReadState(p)
    PROVE  TraceIInv'
<1> DEFINE h == hook[p]
           w == IF files[Window] = Absent THEN [s \in {} |-> Closed] ELSE files[Window]
<1>1. PICK b : b = w
  OBVIOUS
<1>2. PICK n : n = [h EXCEPT !.pc = "apply", !.file = Window, !.base = b]
  OBVIOUS
<1>3. /\ h.pc = "begin" /\ HooksWindow(p) /\ World /\ shell' = shell /\ FilesStand
      /\ hook' = [hook EXCEPT ![p] = n]
  BY <1>1, <1>2 DEF ReadState
<1>4. AtWork(p) /\ h \in Hooks(h.base)
  BY AtStep
<1>5. /\ n.pc = "apply" /\ n.does = h.does /\ n.s = h.s /\ n.call = h.call /\ n.file = Window
      /\ n.base = b /\ n.env = h.env /\ n.sent = h.sent
  BY <1>2, <1>4, HookHas
<1>6. n \in Hooks(n.base)
  BY <1>2, <1>4, FilesAre DEF Hooks
<1>7. Quiet(p, n)
  BY <1>3, <1>5 DEF Quiet
<1>8. Counted(b) /\ b # Absent
  <2>1. CASE files[Window] = Absent
    BY <1>1, <2>1, NoWindows
  <2>2. CASE files[Window] # Absent
    <3>1. b \in HeldFor(Window)
      BY <1>1, <2>2, HeldIs
    <3> QED BY <1>1, <2>2, <3>1 DEF TraceIInv, Stored
  <2> QED BY <2>1, <2>2
<1>9. Counted(b)'
  BY <1>6, <1>7, <1>8, QuietWorld, CountedStays
<1>10. hook'[p] = n
  BY <1>6, <1>7, QuietHook
<1>11. AtWork(p)'
  BY <1>3, <1>4, <1>5, <1>8, <1>10 DEF AtWork, Aims, HooksWindow, Phases
<1>12. Papers' /\ \A f \in Files : \A x \in HeldFor(f)' : x \in HeldFor(f) \/ (f = Window /\ x = b)
  BY <1>3, <1>5, <1>6, <1>7, HeldUndisturbed
<1>13. shell' \in [Claude -> Envelopes \cup {Absent}] /\ Shells'
  BY <1>3, <1>6, <1>7, ShellsStand
<1> QED BY <1>6, <1>7, <1>9, <1>11, <1>12, <1>13, FilesAre, QuietIsSound

\* When the hook of a compaction has applied it, no other is to be counted.
LEMMA NoneIsWaiting ==
    ASSUME TraceIInv, NEW p \in Pids, NEW n, n \in Hooks(n.base), Quiet(p, n),
           n.pc \notin {"begin", "apply"}, hook[p].does \in Phases, NEW s, s = hook[p].s
    PROVE  /\ ~Uncounted(s)'
           /\ \A q \in Pids : hook'[q].s = s => ~Waiting(q, "post")'
<1>1. hook'[p] = n /\ \A q \in Pids : q # p => hook'[q] = hook[q]
  BY QuietHook
<1>2. \A q \in Pids : hook[q].s = hook[p].s /\ hook[q].does \in Phases => q = p
  BY DEF TraceIInv, OneAtATime
<1>3. "pre" \in Phases /\ "post" \in Phases
  BY DEF Phases
<1>4. ASSUME NEW q \in Pids, hook'[q].s = hook[p].s,
             hook'[q].does \in Phases, hook'[q].pc \in {"begin", "apply"}
      PROVE  FALSE
  BY <1>1, <1>2, <1>4
<1>5. ~Uncounted(s)'
  BY <1>3, <1>4 DEF Uncounted, Waiting
<1> QED BY <1>3, <1>4, <1>5 DEF Waiting

LEMMA WithIs ==
    ASSUME Apart, NEW w \in Windows, NEW s \in Claude,
           NEW e \in [gen : 0 .. MaxEvents, open : BOOLEAN]
    PROVE  /\ With(w, s, e) \in Windows /\ With(w, s, e) # Absent
           /\ \A x \in Claude : Entry(With(w, s, e), x) = IF x = s THEN e ELSE Entry(w, x)
<1>1. PICK D \in SUBSET Claude : w \in [D -> [gen : 0 .. MaxEvents, open : BOOLEAN]]
  BY DEF Windows
<1>2. PICK v : v = With(w, s, e)
  OBVIOUS
<1>3. v = [x \in D \cup {s} |-> IF x = s THEN e ELSE w[x]] /\ DOMAIN w = D
  BY <1>1, <1>2 DEF With
<1>4. v \in [D \cup {s} -> [gen : 0 .. MaxEvents, open : BOOLEAN]] /\ D \cup {s} \in SUBSET Claude
  BY <1>1, <1>3
<1>5. v \in Windows
  BY <1>4 DEF Windows
<1>6. \A x \in Claude : Entry(v, x) = IF x = s THEN e ELSE Entry(w, x)
  BY <1>3 DEF Entry
<1> QED BY <1>2, <1>5, <1>6 DEF Apart

\* An event counts the compaction it is of, if nothing has.
LEMMA BumpedIs ==
    ASSUME TraceIInv, NEW s \in Claude, NEW does \in Phases, NEW e \in [gen : Nat, open : BOOLEAN],
           e.gen <= compacted[s],
           does = "pre" \/ (does = "post" /\ ~e.open) => e.gen < compacted[s]
    PROVE  /\ Bumped(e, does) \in [gen : 0 .. MaxEvents, open : BOOLEAN]
           /\ Bumped(e, does).gen <= compacted[s]
           /\ does = "pre" => Bumped(e, does).open
           /\ does = "seed" => Bumped(e, does).gen = 0
<1>1. compacted[s] \in Nat /\ compacted[s] <= MaxEvents
  <2>1. compacted[s] \in Nat /\ events \in 0 .. MaxEvents
    BY TypesHave DEF TraceIInv, Settings, Sessions
  <2>2. compacted[s] + Cardinality(Pending) <= events /\ Cardinality(Pending) \in Nat
    BY PendingIsFinite DEF TraceIInv, OneAtATime
  <2> QED BY <2>1, <2>2 DEF TraceIInv, Apart
<1>2. MaxEvents \in Nat /\ e.gen \in Nat /\ e.open \in BOOLEAN
  BY DEF TraceIInv, Apart
<1>0. /\ e.gen \in 0 .. MaxEvents /\ 0 \in 0 .. MaxEvents
      /\ e.gen < compacted[s] => e.gen + 1 \in 0 .. MaxEvents /\ e.gen + 1 <= compacted[s]
  BY <1>1, <1>2
<1>3. CASE does = "pre"
  <2>1. CASE e.open
    BY <1>1, <1>2, <1>3, <2>1 DEF Bumped
  <2>2. CASE ~e.open
    <3>1. Bumped(e, does) = [gen |-> e.gen + 1, open |-> TRUE]
      BY <1>3, <2>2 DEF Bumped
    <3>2. PICK g : g = e.gen + 1
      OBVIOUS
    <3>3. g \in 0 .. MaxEvents /\ g <= compacted[s]
      BY <1>3, <1>0, <3>2
    <3>4. PICK x : x = [gen |-> g, open |-> TRUE]
      OBVIOUS
    <3>5. x \in [gen : 0 .. MaxEvents, open : BOOLEAN] /\ x.gen = g /\ x.open
      BY <3>3, <3>4
    <3> QED BY <1>3, <3>1, <3>2, <3>3, <3>4, <3>5
  <2> QED BY <2>1, <2>2
<1>4. CASE does = "post"
  <2>1. CASE e.open
    <3>1. PICK x : x = [e EXCEPT !.open = FALSE]
      OBVIOUS
    <3>2. Bumped(e, does) = x
      BY <1>4, <2>1, <3>1 DEF Bumped
    <3>3. x \in [gen : 0 .. MaxEvents, open : BOOLEAN] /\ x.gen = e.gen
      BY <1>0, <3>1
    <3> QED BY <1>4, <3>2, <3>3
  <2>2. CASE ~e.open
    <3>1. Bumped(e, does) = [gen |-> e.gen + 1, open |-> FALSE]
      BY <1>4, <2>2 DEF Bumped
    <3>2. PICK g : g = e.gen + 1
      OBVIOUS
    <3>3. g \in 0 .. MaxEvents /\ g <= compacted[s]
      BY <1>4, <1>0, <2>2, <3>2
    <3>4. PICK x : x = [gen |-> g, open |-> FALSE]
      OBVIOUS
    <3>5. x \in [gen : 0 .. MaxEvents, open : BOOLEAN] /\ x.gen = g
      BY <3>3, <3>4
    <3> QED BY <1>4, <3>1, <3>2, <3>3, <3>4, <3>5
  <2> QED BY <2>1, <2>2
<1>5. CASE does = "seed"
  <2>1. Bumped(e, does) = Closed
    BY <1>5 DEF Bumped
  <2>2. Closed \in [gen : 0 .. MaxEvents, open : BOOLEAN] /\ Closed.gen = 0
    BY <1>0 DEF Closed
  <2>3. 0 <= compacted[s]
    BY <1>1
  <2> QED BY <1>5, <2>1, <2>2, <2>3
<1> QED BY <1>3, <1>4, <1>5 DEF Phases

LEMMA ApplyWindowIsSound ==
    ASSUME TraceIInv, NEW p \in Pids, ApplyWindow(p)
    PROVE  TraceIInv'
<1> DEFINE h == hook[p]
<1>1. PICK s, w : s = h.s /\ w = h.base
  OBVIOUS
<1>2. /\ h.pc = "apply" /\ h.does \in Phases /\ s \in Claude /\ HooksWindow(p)
      /\ World /\ shell' = shell /\ UNCHANGED <<files, aged>>
  BY <1>1 DEF ApplyWindow, HooksWindow
<1>3. AtWork(p) /\ h \in Hooks(h.base)
  BY AtStep
<1>4. h.file = Window /\ w # Absent
  <2>1. Aims(p) /\ w # Absent
    BY <1>1, <1>2, <1>3 DEF AtWork, Phases
  <2>2. s \notin Cursor
    BY <1>2 DEF TraceIInv, Apart
  <2> QED BY <1>1, <1>2, <2>1, <2>2 DEF Aims
<1>5. Counted(w)
  <2>1. w \in HeldFor(Window)
    BY <1>1, <1>2, <1>4, HeldIs
  <2> QED BY <2>1 DEF TraceIInv, Stored
<1>6. CASE hook' = [hook EXCEPT ![p] = IdleHook] /\ UNCHANGED temps
  <2>1. Quiet(p, IdleHook) /\ IdleHook \in Hooks(IdleHook.base) /\ IdleHook.pc # "apply"
    BY <1>2, <1>6, IdleHookIs DEF TraceIInv, Quiet
  <2>2. Papers' /\ \A f \in Files : \A x \in HeldFor(f)' : x \in HeldFor(f)
    BY <1>2, <1>6, <2>1, HeldUndisturbed DEF FilesStand
  <2>3. shell' \in [Claude -> Envelopes \cup {Absent}] /\ Shells'
    BY <1>2, <2>1, ShellsStand
  <2>4. AtWork(p)'
    BY <2>1, QuietHook, IdleIsAtWork
  <2> QED BY <2>1, <2>2, <2>3, <2>4, QuietKeeps
<1>7. CASE ~(hook' = [hook EXCEPT ![p] = IdleHook] /\ UNCHANGED temps)
  <2>1. PICK n : n = [h EXCEPT !.pc = "rename", !.base = Absent]
    OBVIOUS
  <2>2. PICK e, d : e = Bumped(Entry(w, s), h.does) /\ d = With(w, s, e)
    OBVIOUS
  <2>3. hook' = [hook EXCEPT ![p] = n] /\ WriteTemp(p, Window, d)
    BY <1>1, <1>7, <2>1, <2>2 DEF ApplyWindow
  <2>4. /\ n.pc = "rename" /\ n.does = h.does /\ n.s = s /\ n.call = h.call /\ n.file = Window
        /\ n.base = Absent /\ n.env = h.env /\ n.sent = h.sent
    BY <1>1, <1>3, <1>4, <2>1, HookHas
  <2>5. n \in Hooks(n.base)
    BY <1>3, <2>1 DEF Hooks
  <2>6. Quiet(p, n)
    BY <1>1, <1>2, <2>3, <2>4 DEF Quiet
  <2>7. Entry(w, s) \in [gen : Nat, open : BOOLEAN] /\ w \in Windows
    BY <1>2, <1>5, EntryIs DEF Counted, TraceIInv
  <2>8. /\ Entry(w, s).gen <= compacted[s]
        /\ h.does = "pre" \/ (h.does = "post" /\ ~Entry(w, s).open) => Entry(w, s).gen < compacted[s]
    BY <1>1, <1>2, <1>5 DEF Counted, Uncounted, Closing, Waiting
  <2>9. /\ e \in [gen : 0 .. MaxEvents, open : BOOLEAN] /\ e.gen <= compacted[s]
        /\ (h.does = "pre" => e.open) /\ (h.does = "seed" => e.gen = 0)
    BY <1>2, <2>2, <2>7, <2>8, BumpedIs
  <2>10. /\ d \in Windows /\ d # Absent
         /\ \A x \in Claude : Entry(d, x) = IF x = s THEN e ELSE Entry(w, x)
    BY <1>2, <2>2, <2>7, <2>9, WithIs DEF TraceIInv
  <2>11. /\ ~Uncounted(s)'
         /\ \A q \in Pids : hook'[q].s = s => ~Waiting(q, "post")'
    BY <1>1, <1>2, <2>4, <2>5, <2>6, NoneIsWaiting
  <2>12. /\ compacted' = compacted /\ phase' = phase /\ compacted[s] \in Nat
         /\ Settings' /\ Leeway /\ OneAtATime'
    BY <1>2, <2>5, <2>6, QuietWorld DEF World, TraceIInv, Types, Sessions
  <2>13. Closing(s)' /\ ~e.open => e.gen < compacted[s]
    <3> SUFFICES ASSUME Closing(s)', ~e.open PROVE e.gen < compacted[s]
      OBVIOUS
    <3>1. phase[s] = "compacting"
      BY <2>11, <2>12 DEF Closing
    <3>2. ~Busy(s, {"post", "seed"})
      BY <1>2, <3>1 DEF TraceIInv, OneAtATime, Sessions
    <3>3. h.does \notin {"post", "seed"}
      BY <1>1, <3>2 DEF Busy
    <3> QED BY <1>2, <2>9, <3>3 DEF Phases
  <2>14. Counted(w)'
    BY <1>5, <2>12, CountedStays
  <2>15. Counted(d)'
    <3>1. ASSUME NEW x \in Claude
          PROVE  /\ Entry(d, x).gen <= compacted'[x]
                 /\ Uncounted(x)' \/ (Closing(x)' /\ ~Entry(d, x).open) =>
                      Entry(d, x).gen < compacted'[x]
      <4>1. CASE x = s
        BY <2>9, <2>10, <2>11, <2>12, <2>13, <4>1
      <4>2. CASE x # s
        <5>1. Entry(d, x) = Entry(w, x)
          BY <2>10, <4>2
        <5> QED BY <2>14, <5>1 DEF Counted, Entry
      <4> QED BY <4>1, <4>2
    <3> QED BY <2>10, <3>1 DEF Counted, Entry, Windows
  <2>16. hook'[p] = n
    BY <2>5, <2>6, QuietHook
  <2>17. AtWork(p)'
    BY <1>1, <1>2, <1>3, <2>4, <2>16 DEF AtWork, Aims, HooksWindow, Phases
  <2>18. Papers' /\ \A f \in Files : \A x \in HeldFor(f)' : x \in HeldFor(f) \/ (f = Window /\ x = d)
    BY <1>2, <2>3, <2>4, <2>5, <2>6, <2>10, FilesAre, HeldAfterWrite
  <2>19. shell' \in [Claude -> Envelopes \cup {Absent}] /\ Shells'
    BY <1>2, <2>5, <2>6, ShellsStand
  <2> QED BY <2>5, <2>6, <2>15, <2>17, <2>18, <2>19, FilesAre, QuietIsSound
<1> QED BY <1>6, <1>7

-----------------------------------------------------------------------------
(* The lineage files.                                                      *)

LEMMA SidecarFileIs ==
    ASSUME TraceIInv, NEW s \in Sessions
    PROVE  /\ SidecarFile(s) \in Lineages
           /\ s \in Claude => \E x \in Dirs : SidecarFile(s) = Ws(x)
           /\ s \notin Claude => \/ SidecarFile(s) = Conv(s)
                                 \/ Shares(s) /\ \E x \in Dirs : SidecarFile(s) = Ws(x)
<1>1. CASE s \in Claude
  <2>1. cwd[s] \in Dirs
    BY TypesHave DEF TraceIInv, Settings
  <2> QED BY <1>1, <2>1, FilesAre DEF SidecarFile
<1>2. CASE s \notin Claude
  <2>1. s \in Cursor /\ declares[s] \in {Absent, Conv(s)} \cup {Ws(x) : x \in Dirs}
    BY <1>2 DEF TraceIInv, Declared, Sessions
  <2>2. SidecarFile(s) = IF declares[s] # Absent THEN declares[s] ELSE Conv(s)
    BY <1>2 DEF SidecarFile, EventFile
  <2>3. CASE declares[s] \in {Absent, Conv(s)}
    BY <1>2, <2>1, <2>2, <2>3, FilesAre
  <2>4. CASE declares[s] \notin {Absent, Conv(s)}
    BY <1>2, <2>1, <2>2, <2>4, FilesAre DEF Shares
  <2> QED BY <2>3, <2>4
<1> QED BY <1>1, <1>2

LEMMA LoadLineageIsSound ==
    ASSUME TraceIInv, NEW p \in Pids, LoadLineage(p)
    PROVE  TraceIInv'
<1> DEFINE h == hook[p]
<1>1. PICK s, f : s = h.s /\ f = SidecarFile(s)
  OBVIOUS
<1>2. PICK n : n = [h EXCEPT !.pc = "apply", !.file = f, !.base = files[f]]
  OBVIOUS
<1>3. /\ h.pc = "begin" /\ ~HooksWindow(p) /\ World /\ shell' = shell /\ FilesStand
      /\ hook' = [hook EXCEPT ![p] = n]
  BY <1>1, <1>2 DEF LoadLineage
<1>4. AtWork(p) /\ h \in Hooks(h.base)
  BY AtStep
<1>5. /\ n.pc = "apply" /\ n.does = h.does /\ n.s = s /\ n.call = h.call /\ n.file = f
      /\ n.base = files[f] /\ n.env = h.env /\ n.sent = h.sent
  BY <1>1, <1>2, <1>4, HookHas
<1>6. s \in Sessions /\ h.does \in Does(s) /\ h.does # "save"
  BY <1>1, <1>3, <1>4 DEF AtWork
<1>7. /\ f \in Lineages
      /\ s \in Claude => \E x \in Dirs : f = Ws(x)
      /\ s \notin Claude => \/ f = Conv(s)
                            \/ Shares(s) /\ \E x \in Dirs : f = Ws(x)
  BY <1>1, <1>6, SidecarFileIs
<1>8. n \in Hooks(n.base)
  BY <1>2, <1>4, <1>7, FilesAre DEF Hooks
<1>9. Quiet(p, n)
  BY <1>1, <1>3, <1>5 DEF Quiet
<1>10. hook'[p] = n
  BY <1>8, <1>9, QuietHook
<1>11. Shares(s)' <=> Shares(s)
  BY <1>3 DEF World, Shares
<1>12. ~HooksWindow(p)'
  BY <1>1, <1>3, <1>5, <1>10 DEF HooksWindow
<1>13. Aims(p)'
  BY <1>1, <1>5, <1>6, <1>7, <1>10, <1>11, <1>12 DEF Aims, Sessions
<1>14. AtWork(p)'
  BY <1>1, <1>5, <1>6, <1>10, <1>12, <1>13 DEF AtWork, Does
<1>15. Papers' /\ \A g \in Files : \A x \in HeldFor(g)' : x \in HeldFor(g)
  <2>1. Papers' /\ \A g \in Files : \A x \in HeldFor(g)' : x \in HeldFor(g) \/ (g = f /\ x = files[f])
    BY <1>3, <1>5, <1>8, <1>9, HeldUndisturbed
  <2>2. \A g \in Files : \A x \in HeldFor(g)' : x # Absent
    BY HeldIsNext
  <2> QED BY <2>1, <2>2, HeldIs
<1>16. shell' \in [Claude -> Envelopes \cup {Absent}] /\ Shells'
  BY <1>3, <1>8, <1>9, ShellsStand
<1> QED BY <1>8, <1>9, <1>14, <1>15, <1>16, QuietKeeps

LEMMA WindowIDIs ==
    ASSUME TraceIInv, NEW s \in Claude
    PROVE  WindowID(s) \in Nat /\ WindowID(s) <= compacted[s]
<1>1. compacted[s] \in Nat
  BY TypesHave DEF TraceIInv, Settings, Sessions
<1>2. CASE files[Window] = Absent
  BY <1>1, <1>2 DEF WindowID
<1>3. CASE files[Window] # Absent
  <2>1. files[Window] \in HeldFor(Window)
    BY <1>3, HeldIs
  <2>2. PICK w : w = files[Window] /\ Counted(w)
    BY <2>1 DEF TraceIInv, Stored
  <2>3. Entry(w, s) \in [gen : Nat, open : BOOLEAN] /\ Entry(w, s).gen <= compacted[s]
    BY <2>2, EntryIs DEF TraceIInv, Counted
  <2> QED BY <1>3, <2>2, <2>3 DEF WindowID
<1> QED BY <1>2, <1>3

\* The envelope of a Claude Code call.
LEMMA BridgeIs ==
    ASSUME TraceIInv, NEW p \in Pids, NEW s \in Claude, s = hook[p].s, NEW base
    PROVE  LET b == Stamped(p, base) IN
           /\ b = [harness |-> "claude-code", session |-> s, call |-> hook[p].call,
                   window |-> WindowID(s), text |-> s]
           /\ b \in Sidecars /\ b \in Envelopes /\ Own(s, b) /\ b.call = hook[p].call
           /\ b.session = s /\ b.harness = "claude-code" /\ b.window = WindowID(s)
<1>1. PICK c, w : c = hook[p].call /\ w = WindowID(s)
  OBVIOUS
<1>2. PICK b : b = [harness |-> "claude-code", session |-> s, call |-> c, window |-> w, text |-> s]
  OBVIOUS
<1>3. Stamped(p, base) = b
  <2>1. s \notin Cursor
    BY DEF TraceIInv, Apart
  <2> QED BY <1>1, <1>2, <2>1 DEF Stamped, Envelope
<1>4. c \in 0 .. MaxEvents /\ c \in Nat /\ w \in Nat /\ w <= compacted[s] /\ s \in Sessions
  BY <1>1, AtStep, HookHas, WindowIDIs DEF TraceIInv, Apart, Sessions
<1>5. /\ b.harness = "claude-code" /\ b.session = s /\ b.call = c /\ b.window = w /\ b.text = s
      /\ b \in Sidecars /\ b \in Envelopes
  BY <1>2, <1>4 DEF Sidecars, Envelopes
<1>6. Own(s, b)
  BY <1>4, <1>5 DEF Own
<1> QED BY <1>1, <1>2, <1>3, <1>5, <1>6

LEMMA BlankIs ==
    ASSUME Apart
    PROVE  /\ Blank.call \in 0 .. MaxEvents /\ Blank.window = 0 /\ Blank.text = Absent
           /\ Blank = [harness |-> Blank.harness, session |-> Blank.session, call |-> Blank.call,
                       window |-> Blank.window, text |-> Blank.text]
<1>1. 0 \in 0 .. MaxEvents
  BY DEF Apart
<1> QED BY <1>1 DEF Blank, Envelope

\* What an event of a Cursor session makes of a sidecar.
LEMMA StampedIs ==
    ASSUME TraceIInv, NEW p \in Pids, NEW s \in Cursor, s = hook[p].s, NEW b,
           b = [harness |-> b.harness, session |-> b.session, call |-> b.call,
                window |-> b.window, text |-> b.text],
           b.call \in 0 .. MaxEvents, b.window \in Nat, b.text \in Sessions \cup {Absent}
    PROVE  LET d == Stamped(p, b) IN
           /\ d \in Sidecars /\ d.harness = "cursor" /\ d.session = s
           /\ d.window = IF hook[p].does = "pre" THEN b.window + 1 ELSE b.window
           /\ d.text = IF hook[p].does = "thought" THEN s ELSE b.text
<1>1. s \in Sessions /\ s \notin Claude /\ hook[p].call \in 0 .. MaxEvents
  BY AtStep, HookHas DEF TraceIInv, Apart, Sessions
<1>2. PICK own : own = [b EXCEPT !.harness = "cursor", !.session = s]
  OBVIOUS
<1>3. own = [harness |-> "cursor", session |-> s, call |-> b.call, window |-> b.window, text |-> b.text]
  BY <1>2
<1>4. PICK c : c = hook[p].call
  OBVIOUS
<1>5. /\ hook[p].does = "thought" => Stamped(p, b) = [own EXCEPT !.text = s]
      /\ hook[p].does = "pre" => Stamped(p, b) = [own EXCEPT !.window = @ + 1]
      /\ hook[p].does = "call" => Stamped(p, b) = [own EXCEPT !.call = c]
      /\ hook[p].does \notin {"thought", "pre", "call"} => Stamped(p, b) = own
  BY <1>1, <1>2, <1>4 DEF Stamped
<1>6. own \in Sidecars
  BY <1>1, <1>3 DEF Sidecars
<1>7. CASE hook[p].does = "thought"
  <2>1. PICK d : d = [own EXCEPT !.text = s]
    OBVIOUS
  <2>2. d \in Sidecars /\ d.harness = "cursor" /\ d.session = s /\ d.window = b.window /\ d.text = s
    BY <1>1, <1>3, <1>6, <2>1 DEF Sidecars
  <2> QED BY <1>5, <1>7, <2>1, <2>2
<1>8. CASE hook[p].does = "pre"
  <2>1. PICK d, w : w = b.window + 1 /\ d = [own EXCEPT !.window = w]
    OBVIOUS
  <2>2. Stamped(p, b) = d
    BY <1>3, <1>5, <1>8, <2>1
  <2>3. w \in Nat
    BY <2>1
  <2>4. d \in Sidecars /\ d.harness = "cursor" /\ d.session = s /\ d.window = w /\ d.text = b.text
    BY <1>1, <1>3, <1>6, <2>1, <2>3 DEF Sidecars
  <2> QED BY <1>8, <2>1, <2>2, <2>4
<1>9. CASE hook[p].does = "call"
  <2>1. PICK d : d = [own EXCEPT !.call = c]
    OBVIOUS
  <2>2. d \in Sidecars /\ d.harness = "cursor" /\ d.session = s /\ d.window = b.window /\ d.text = b.text
    BY <1>1, <1>3, <1>4, <1>6, <2>1 DEF Sidecars
  <2> QED BY <1>5, <1>9, <2>1, <2>2
<1>10. CASE hook[p].does \notin {"thought", "pre", "call"}
  BY <1>3, <1>5, <1>6, <1>10
<1> QED BY <1>7, <1>8, <1>9, <1>10

\* What a hook read, or the blank sidecar it starts from, has room for its event.
LEMMA BaseIs ==
    ASSUME TraceIInv, NEW p \in Pids, NEW g \in Lineages,
           hook[p].pc = "apply", hook[p].file = g, NEW b,
           b = IF hook[p].base = Absent THEN Blank ELSE hook[p].base
    PROVE  /\ b = [harness |-> b.harness, session |-> b.session, call |-> b.call,
                   window |-> b.window, text |-> b.text]
           /\ b.call \in 0 .. MaxEvents /\ b.window \in Nat /\ b.text \in Sessions \cup {Absent}
           /\ b.window + Cardinality(Pending) <= events
           /\ \A s \in Cursor : g = Conv(s) =>
                /\ b.text \in {Absent, s} /\ b.window <= compacted[s]
                /\ Uncounted(s) => b.window < compacted[s]
<1>1. CASE hook[p].base = Absent
  <2>1. b = Blank
    BY <1>1
  <2>2. Cardinality(Pending) <= events /\ Cardinality(Pending) \in Nat
    BY PendingIsFinite DEF TraceIInv, OneAtATime
  <2>3. \A s \in Cursor : 0 <= compacted[s] /\ (Uncounted(s) => 0 < compacted[s])
    BY TypesHave DEF TraceIInv, OneAtATime, Settings, Sessions
  <2> QED BY <2>1, <2>2, <2>3, BlankIs DEF TraceIInv
<1>2. CASE hook[p].base # Absent
  <2>1. b \in HeldFor(g)
    BY <1>2, HeldIs
  <2>2. Sound(g, b)
    BY <2>1 DEF TraceIInv, Stored
  <2> QED BY <2>2 DEF Sound, Sidecars
<1> QED BY <1>1, <1>2

LEMMA SidecarIsThere ==
    ASSUME Apart, NEW d \in Sidecars
    PROVE  d # Absent /\ d \in Envelopes
<1>1. 0 .. MaxEvents \subseteq Nat
  BY DEF Apart
<1> QED BY <1>1 DEF Sidecars, Envelopes, Apart

\* What a hook writes is sound.
LEMMA StampedIsSound ==
    ASSUME TraceIInv, NEW p \in Pids, NEW n, n \in Hooks(n.base), Quiet(p, n), n.pc = "rename",
           hook[p].pc = "apply", ~HooksWindow(p), NEW g \in Lineages, hook[p].file = g,
           NEW b, b = IF hook[p].base = Absent THEN Blank ELSE hook[p].base,
           NEW d, d = Stamped(p, b)
    PROVE  Sound(g, d)' /\ d # Absent
<1>1. PICK s : s = hook[p].s
  OBVIOUS
<1>2. AtWork(p) /\ Aims(p) /\ s \in Sessions
  BY <1>1, AtStep DEF AtWork
<1>3. /\ Cardinality(Pending) \in Nat /\ Cardinality(Pending)' \in Nat
      /\ Cardinality(Pending)' <= Cardinality(Pending) /\ events' = events /\ events \in Nat
      /\ compacted' = compacted /\ declares' = declares
  <2>1. events' = events /\ compacted' = compacted /\ declares' = declares
    BY DEF Quiet, World
  <2>2. events \in Nat
    BY TypesHave DEF TraceIInv, Settings, Apart
  <2> QED BY <2>1, <2>2, QuietPending, PendingIsFinite DEF TraceIInv
<1>4. CASE s \in Claude
  <2>1. d \in Sidecars /\ d.session = s /\ d.harness = "claude-code" /\ d.window = WindowID(s)
    BY <1>1, <1>4, BridgeIs
  <2>2. WindowID(s) \in Nat /\ WindowID(s) <= compacted[s] /\ compacted[s] \in Nat
    BY <1>4, WindowIDIs, TypesHave DEF TraceIInv, Settings, Sessions
  <2>3. compacted[s] + Cardinality(Pending) <= events
    BY <1>4 DEF TraceIInv, OneAtATime
  <2>4. d.window + Cardinality(Pending)' <= events'
    BY <1>3, <2>1, <2>2, <2>3
  <2>5. \E x \in Dirs : g = Ws(x)
    BY <1>1, <1>2, <1>4 DEF Aims, TraceIInv, Apart
  <2>6. s \notin Cursor
    BY <1>4 DEF TraceIInv, Apart
  <2> QED BY <1>4, <2>1, <2>4, <2>5, <2>6, FilesAre, SidecarIsThere DEF Sound, TraceIInv
<1>5. CASE s \in Cursor
  <2>1. /\ b = [harness |-> b.harness, session |-> b.session, call |-> b.call,
                window |-> b.window, text |-> b.text]
        /\ b.call \in 0 .. MaxEvents /\ b.window \in Nat /\ b.text \in Sessions \cup {Absent}
        /\ b.window + Cardinality(Pending) <= events
        /\ g = Conv(s) =>
             /\ b.text \in {Absent, s} /\ b.window <= compacted[s]
             /\ Uncounted(s) => b.window < compacted[s]
    BY <1>5, BaseIs
  <2>2. /\ d \in Sidecars /\ d.harness = "cursor" /\ d.session = s
        /\ d.window = IF hook[p].does = "pre" THEN b.window + 1 ELSE b.window
        /\ d.text = IF hook[p].does = "thought" THEN s ELSE b.text
    BY <1>1, <1>5, <2>1, StampedIs
  <2>3. s \notin Claude
    BY <1>5 DEF TraceIInv, Apart
  <2>4. g = Conv(s) \/ (Shares(s) /\ \E x \in Dirs : g = Ws(x))
    BY <1>1, <1>2, <1>5, <2>3 DEF Aims, HooksWindow
  <2>5. /\ g = Conv(s) => d.text \in {Absent, s}
        /\ \A t \in Cursor : g = Conv(t) => t = s
    BY <2>1, <2>2, <2>4, FilesAre
  <2>6. \A x \in Dirs : g = Ws(x) => Shares(s)'
    BY <1>3, <2>4, FilesAre DEF Shares
  <2>7. compacted[s] \in Nat
    BY <1>2, TypesHave DEF TraceIInv, Settings
  <2>8. CASE hook[p].does = "pre"
    <3>1. p \in Pending /\ Uncounted(s)
      BY <1>1, <1>5, <2>8 DEF Pending, Waiting, Uncounted
    <3>2. ~Uncounted(s)'
      BY <1>1, <2>8, NoneIsWaiting DEF Phases
    <3>3. hook'[p] = n
      BY QuietHook
    <3>4. Pending' \subseteq Pending \ {p}
      BY <3>3, QuietPending DEF Pending, Waiting
    <3>5. /\ IsFiniteSet(Pending) /\ IsFiniteSet(Pending \ {p})
          /\ Cardinality(Pending \ {p}) = Cardinality(Pending) - 1
      BY <3>1, PendingIsFinite, FS_RemoveElement DEF TraceIInv
    <3>6. Cardinality(Pending') <= Cardinality(Pending) - 1
      BY <3>4, <3>5, FS_Subset
    <3>7. d.window + Cardinality(Pending)' <= events'
      BY <1>3, <2>1, <2>2, <2>8, <3>6
    <3>8. g = Conv(s) => d.window <= compacted'[s]
      BY <1>3, <2>1, <2>2, <2>7, <2>8, <3>1
    <3> QED BY <1>5, <2>2, <2>3, <2>5, <2>6, <3>2, <3>7, <3>8, SidecarIsThere DEF Sound, TraceIInv
  <2>9. CASE hook[p].does # "pre"
    <3>1. d.window + Cardinality(Pending)' <= events'
      BY <1>3, <2>1, <2>2, <2>9
    <3>2. Uncounted(s)' => Uncounted(s)
      BY <1>2, QuietPending
    <3>3. g = Conv(s) => d.window <= compacted'[s] /\ (Uncounted(s)' => d.window < compacted'[s])
      BY <1>3, <2>1, <2>2, <2>9, <3>2
    <3> QED BY <1>5, <2>2, <2>3, <2>5, <2>6, <3>1, <3>3, SidecarIsThere DEF Sound, TraceIInv
  <2> QED BY <2>8, <2>9
<1> QED BY <1>2, <1>4, <1>5 DEF Sessions

LEMMA SaveLineageIsSound ==
    ASSUME TraceIInv, NEW p \in Pids, SaveLineage(p)
    PROVE  TraceIInv'
<1> DEFINE h == hook[p]
<1>1. PICK s, g, b : s = h.s /\ g = h.file /\ b = IF h.base = Absent THEN Blank ELSE h.base
  OBVIOUS
<1>2. PICK e, d : /\ e = IF s \in Claude THEN [NoEnv EXCEPT !.bridge = Bridge(p)] ELSE NoEnv
                  /\ d = Stamped(p, b)
  OBVIOUS
<1>3. PICK n : n = [h EXCEPT !.pc = "rename", !.base = Absent, !.env = e]
  OBVIOUS
<1>4. /\ h.pc = "apply" /\ ~HooksWindow(p) /\ World /\ shell' = shell /\ UNCHANGED <<files, aged>>
      /\ hook' = [hook EXCEPT ![p] = n] /\ WriteTemp(p, g, d)
  BY <1>1, <1>2, <1>3 DEF SaveLineage
<1>5. AtWork(p) /\ h \in Hooks(h.base)
  BY AtStep
<1>6. s \in Sessions /\ h.does \in Does(s) /\ h.does # "save" /\ Aims(p)
  BY <1>1, <1>4, <1>5 DEF AtWork
<1>7. g \in Lineages
  BY <1>1, <1>4, <1>6, FilesAre DEF Aims
<1>8. /\ n.pc = "rename" /\ n.does = h.does /\ n.s = s /\ n.call = h.call /\ n.file = g
      /\ n.base = Absent /\ n.env = e /\ n.sent = h.sent
  BY <1>1, <1>3, <1>5, HookHas
<1>9. \/ e = NoEnv
      \/ /\ s \in Claude /\ e = [NoEnv EXCEPT !.bridge = e.bridge] /\ e.bridge \in Envelopes
         /\ Own(s, e.bridge) /\ e.bridge.call = h.call
  <2>1. CASE s \in Claude
    <3>1. PICK x : x = Bridge(p)
      OBVIOUS
    <3>2. x \in Envelopes /\ Own(s, x) /\ x.call = h.call
      BY <1>1, <2>1, <3>1, BridgeIs DEF Bridge
    <3>3. e = [NoEnv EXCEPT !.bridge = x] /\ e.bridge = x
      BY <1>2, <2>1, <3>1 DEF NoEnv
    <3> QED BY <2>1, <3>2, <3>3
  <2>2. CASE s \notin Claude
    BY <1>2, <2>2
  <2> QED BY <2>1, <2>2
<1>10. e \in Environments
  <2>1. NoEnv \in Environments
    BY IdleHookIs DEF TraceIInv
  <2>2. CASE e # NoEnv
    <3>1. PICK x \in Envelopes : e = [NoEnv EXCEPT !.bridge = x]
      BY <1>9, <2>2
    <3> QED BY <2>1, <3>1 DEF Environments
  <2> QED BY <2>1, <2>2
<1>11. n \in Hooks(n.base)
  BY <1>3, <1>5, <1>10 DEF Hooks
<1>12. Quiet(p, n)
  BY <1>1, <1>4, <1>8 DEF Quiet
<1>13. hook'[p] = n
  BY <1>11, <1>12, QuietHook
<1>14. Sound(g, d)' /\ d # Absent
  BY <1>1, <1>2, <1>4, <1>7, <1>8, <1>11, <1>12, StampedIsSound
<1>15. compacted' = compacted /\ declares' = declares
  BY <1>4 DEF World
<1>16. Aims(p)' /\ ~HooksWindow(p)'
  BY <1>1, <1>4, <1>6, <1>8, <1>13, <1>15 DEF Aims, HooksWindow, Shares
<1>17. Given(p)'
  BY <1>8, <1>9, <1>13, <1>15 DEF Given, Own
<1>18. AtWork(p)'
  BY <1>6, <1>8, <1>13, <1>16, <1>17 DEF AtWork
<1>19. Papers' /\ \A f \in Files : \A x \in HeldFor(f)' : x \in HeldFor(f) \/ (f = g /\ x = d)
  BY <1>4, <1>7, <1>8, <1>11, <1>12, <1>14, FilesAre, HeldAfterWrite
<1>20. shell' \in [Claude -> Envelopes \cup {Absent}] /\ Shells'
  BY <1>4, <1>11, <1>12, ShellsStand
<1> QED BY <1>7, <1>11, <1>12, <1>14, <1>18, <1>19, <1>20, FilesAre, QuietIsSound

-----------------------------------------------------------------------------
(* The command of a call.                                                  *)

LEMMA PrefixIs ==
    ASSUME TraceIInv, NEW s \in Cursor
    PROVE  /\ Prefix(s) \in Environments
           /\ declares[s] = Absent => Prefix(s) = NoEnv
           /\ declares[s] # Absent =>
                /\ Prefix(s).harness = "cursor" /\ Prefix(s).lineage = declares[s]
                /\ Prefix(s).session = s /\ Prefix(s).bridge = Absent
<1>1. NoEnv \in Environments
  BY IdleHookIs DEF TraceIInv
<1>2. declares[s] \in Lineages \cup {Absent}
  BY TypesHave DEF TraceIInv, Settings
<1>3. CASE declares[s] = Absent
  BY <1>1, <1>3 DEF Prefix
<1>4. CASE declares[s] # Absent
  <2>1. PICK e, l : l = declares[s]
               /\ e = [NoEnv EXCEPT !.harness = "cursor", !.lineage = l, !.session = s]
    OBVIOUS
  <2>2. Prefix(s) = e /\ l \in Lineages
    BY <1>2, <1>4, <2>1 DEF Prefix
  <2>3. e.harness = "cursor" /\ e.lineage = l /\ e.session = s /\ e.bridge = Absent
    BY <2>1 DEF NoEnv
  <2>4. e \in Environments
    BY <2>1, <2>2 DEF NoEnv, Environments
  <2> QED BY <1>4, <2>1, <2>2, <2>3, <2>4
<1> QED BY <1>3, <1>4

LEMMA CommandRuns ==
    ASSUME TraceIInv, NEW p \in Pids, NEW s, s = hook[p].s, hook[p].does = "call",
           hook[p].pc \in {"begin", "apply", "rename"}, World, shell' = shell, NEW e,
           \/ e = NoEnv
           \/ s \in Cursor /\ e = Prefix(s)
           \/ s \in Claude /\ hook[p].pc = "rename" /\ e = hook[p].env,
           NEW n, n = Searching(p, e), hook' = [hook EXCEPT ![p] = n]
    PROVE  /\ n \in Hooks(n.base) /\ Quiet(p, n) /\ n.pc = "search" /\ AtWork(p)'
           /\ shell' \in [Claude -> Envelopes \cup {Absent}] /\ Shells'
<1> DEFINE h == hook[p]
<1>1. AtWork(p) /\ h \in Hooks(h.base)
  BY AtStep
<1>2. n = [h EXCEPT !.pc = "search", !.env = e, !.file = Absent, !.base = Absent]
  BY DEF Searching
<1>3. /\ n.pc = "search" /\ n.does = "call" /\ n.s = s /\ n.call = h.call /\ n.file = Absent
      /\ n.base = Absent /\ n.env = e /\ n.sent = h.sent
  BY <1>1, <1>2, HookHas
<1>4. s \in Sessions /\ "call" \in Does(s)
  BY <1>1 DEF AtWork
<1>5. s \in Claude /\ h.pc = "rename" => Given(p)
  BY <1>1 DEF AtWork
<1>6. e \in Environments
  BY <1>1, PrefixIs, HookHas, IdleHookIs DEF TraceIInv
<1>7. n \in Hooks(n.base)
  BY <1>1, <1>2, <1>6 DEF Hooks
<1>8. Quiet(p, n)
  BY <1>3 DEF Quiet
<1>9. hook'[p] = n
  BY <1>7, <1>8, QuietHook
<1>10. declares' = declares /\ compacted' = compacted
  BY DEF World
<1>11. /\ e = NoEnv \/ (s \in Cursor /\ declares[s] # Absent /\ e = Prefix(s))
          \/ /\ s \in Claude /\ e = [NoEnv EXCEPT !.bridge = e.bridge] /\ e.bridge \in Envelopes
             /\ Own(s, e.bridge) /\ e.bridge.call = h.call
  <2>1. CASE s \in Cursor /\ e = Prefix(s)
    BY <2>1, PrefixIs
  <2>2. CASE s \in Claude /\ h.pc = "rename" /\ e = h.env
    <3>1. s \notin Cursor
      BY <2>2 DEF TraceIInv, Apart
    <3> QED BY <1>5, <2>2, <3>1 DEF Given
  <2> QED BY <2>1, <2>2
<1>12. Given(p)'
  <2>1. hook'[p].env = e /\ hook'[p].s = s /\ hook'[p].call = h.call
    BY <1>3, <1>9
  <2>2. Prefix(s)' = Prefix(s)
    BY <1>10 DEF Prefix
  <2>3. Own(s, e.bridge) => Own(s, e.bridge)'
    BY <1>10 DEF Own
  <2> QED BY <1>10, <1>11, <2>1, <2>2, <2>3 DEF Given
<1>13. AtWork(p)'
  BY <1>3, <1>4, <1>9, <1>12 DEF AtWork
<1>14. shell' \in [Claude -> Envelopes \cup {Absent}] /\ Shells'
  BY <1>7, <1>8, ShellsStand
<1> QED BY <1>3, <1>7, <1>8, <1>13, <1>14

LEMMA RenameHookIsSound ==
    ASSUME TraceIInv, NEW p \in Pids, RenameHook(p)
    PROVE  TraceIInv'
<1> DEFINE h == hook[p]
<1>1. PICK s, e : s = h.s /\ e = IF s \in Claude THEN h.env ELSE Prefix(s)
  OBVIOUS
<1>2. PICK n : n = IF h.does # "call" THEN IdleHook ELSE Searching(p, e)
  OBVIOUS
<1>3. Rename(p, n) /\ h.does # "save"
  BY <1>1, <1>2 DEF RenameHook
<1>4. h.pc = "rename" /\ World /\ shell' = shell /\ hook' = [hook EXCEPT ![p] = n]
  BY <1>3 DEF Rename
<1>5. AtWork(p)
  BY AtStep
<1>6. /\ n \in Hooks(n.base) /\ Quiet(p, n) /\ n.pc # "apply" /\ AtWork(p)'
      /\ shell' \in [Claude -> Envelopes \cup {Absent}] /\ Shells'
  <2>1. CASE h.does = "call"
    <3>1. s \in Sessions
      BY <1>1, <1>4, <1>5 DEF AtWork
    <3>2. (s \in Cursor /\ e = Prefix(s)) \/ (s \in Claude /\ e = h.env)
      BY <1>1, <3>1 DEF Sessions
    <3> QED BY <1>1, <1>2, <1>4, <2>1, <3>2, CommandRuns
  <2>2. CASE h.does # "call"
    <3>1. n = IdleHook /\ n \in Hooks(n.base) /\ n.pc # "apply"
      BY <1>2, <2>2, IdleHookIs DEF TraceIInv
    <3>2. Quiet(p, n)
      BY <1>4, <3>1 DEF Quiet
    <3> QED BY <1>4, <3>1, <3>2, QuietHook, ShellsStand, IdleIsAtWork
  <2> QED BY <2>1, <2>2
<1>7. Papers' /\ \A f \in Files : \A x \in HeldFor(f)' : x \in HeldFor(f)
  BY <1>3, <1>6, HeldAfterRename
<1> QED BY <1>6, <1>7, QuietKeeps

LEMMA FailOpenIsSound ==
    ASSUME TraceIInv, NEW p \in Pids, FailOpen(p)
    PROVE  TraceIInv'
<1>1. PICK s : s = hook[p].s
  OBVIOUS
<1>2. PICK e \in Unstamped(s) : hook' = [hook EXCEPT ![p] = Searching(p, e)]
  BY <1>1 DEF FailOpen
<1>3. PICK n : n = Searching(p, e)
  OBVIOUS
<1>4. /\ hook[p].pc = "begin" /\ hook[p].does = "call" /\ World /\ shell' = shell /\ FilesStand
  BY DEF FailOpen
<1>5. e = NoEnv \/ (s \in Cursor /\ e = Prefix(s))
  BY <1>2 DEF Unstamped
<1>6. /\ n \in Hooks(n.base) /\ Quiet(p, n) /\ n.pc = "search" /\ AtWork(p)'
      /\ shell' \in [Claude -> Envelopes \cup {Absent}] /\ Shells'
  BY <1>1, <1>2, <1>3, <1>4, <1>5, CommandRuns
<1>7. Papers' /\ \A f \in Files : \A x \in HeldFor(f)' : x \in HeldFor(f)
  BY <1>4, <1>6, HeldUndisturbed
<1> QED BY <1>6, <1>7, QuietKeeps

LEMMA KillIsSound ==
    ASSUME TraceIInv, NEW p \in Pids, Kill(p)
    PROVE  TraceIInv'
<1>1. PICK n : n = IF hook[p].does = "call" THEN Searching(p, NoEnv) ELSE IdleHook
  OBVIOUS
<1>2. /\ hook[p].pc \in {"apply", "rename"} /\ World /\ shell' = shell /\ FilesStand
      /\ hook' = [hook EXCEPT ![p] = n]
  BY <1>1 DEF Kill
<1>3. /\ n \in Hooks(n.base) /\ Quiet(p, n) /\ n.pc # "apply" /\ AtWork(p)'
      /\ shell' \in [Claude -> Envelopes \cup {Absent}] /\ Shells'
  <2>1. CASE hook[p].does = "call"
    <3>1. PICK s : s = hook[p].s
      OBVIOUS
    <3> QED BY <1>1, <1>2, <2>1, <3>1, CommandRuns
  <2>2. CASE hook[p].does # "call"
    <3>1. n = IdleHook /\ n \in Hooks(n.base) /\ n.pc # "apply"
      BY <1>1, <2>2, IdleHookIs DEF TraceIInv
    <3>2. Quiet(p, n)
      BY <1>2, <3>1 DEF Quiet
    <3> QED BY <1>2, <3>1, <3>2, QuietHook, ShellsStand, IdleIsAtWork
  <2> QED BY <2>1, <2>2
<1>4. Papers' /\ \A f \in Files : \A x \in HeldFor(f)' : x \in HeldFor(f)
  BY <1>2, <1>3, HeldUndisturbed
<1> QED BY <1>3, <1>4, QuietKeeps

LEMMA FinishSearchIsSound ==
    ASSUME TraceIInv, NEW p \in Pids, FinishSearch(p)
    PROVE  TraceIInv'
<1>1. PICK s : s = hook[p].s
  OBVIOUS
<1>2. /\ World /\ FilesStand /\ hook' = [hook EXCEPT ![p] = IdleHook]
      /\ shell' = IF s \in Claude THEN [shell EXCEPT ![s] = Absent] ELSE shell
  BY <1>1 DEF FinishSearch
<1>3. Quiet(p, IdleHook) /\ IdleHook \in Hooks(IdleHook.base) /\ IdleHook.pc # "apply"
  BY <1>2, IdleHookIs DEF TraceIInv, Quiet
<1>4. Papers' /\ \A f \in Files : \A x \in HeldFor(f)' : x \in HeldFor(f)
  BY <1>2, <1>3, HeldUndisturbed
<1>5. AtWork(p)' /\ \A q \in Pids : q # p => hook'[q] = hook[q]
  BY <1>3, QuietHook, IdleIsAtWork
<1>6. shell \in [Claude -> Envelopes \cup {Absent}]
  BY DEF TraceIInv, Types
<1>7. shell' \in [Claude -> Envelopes \cup {Absent}]
  BY <1>2, <1>6
<1>8. Shells'
  <2> SUFFICES ASSUME NEW t \in Claude, shell'[t] # Absent
               PROVE  \E q \in Pids : hook'[q].s = t /\ hook'[q].pc = "posted"
    BY DEF Shells
  <2>1. shell[t] # Absent /\ t # s
    BY <1>2, <1>6
  <2>2. PICK q \in Pids : hook[q].s = t /\ hook[q].pc = "posted"
    BY <2>1 DEF TraceIInv, Shells
  <2> QED BY <1>1, <1>5, <2>1, <2>2
<1> QED BY <1>3, <1>4, <1>5, <1>7, <1>8, QuietKeeps

LEMMA HalfADayIsSound ==
    ASSUME TraceIInv, HalfADay
    PROVE  TraceIInv'
<1>1. UNCHANGED <<files, shell, hook, cwd, declares, compacted, phase, events>>
  BY DEF HalfADay, World
<1>2. \A t \in temps' : \E u \in temps : t = [u EXCEPT !.old = TRUE]
  BY DEF HalfADay
<1>3. ASSUME NEW t \in temps'
      PROVE  /\ t \in Temps(t.data) /\ t.data # Absent
             /\ \E u \in temps : t.file = u.file /\ t.data = u.data
  <2>1. PICK u \in temps : t = [u EXCEPT !.old = TRUE]
    BY <1>2
  <2>2. u \in Temps(u.data) /\ u.data # Absent
    BY DEF TraceIInv, Types
  <2>3. t.file = u.file /\ t.data = u.data
    BY <2>1, <2>2 DEF Temps
  <2>4. t \in Temps(t.data)
    BY <2>1, <2>2, <2>3 DEF Temps
  <2> QED BY <2>2, <2>3, <2>4
<1>4. \A f \in Files : \A x \in HeldFor(f)' : x \in HeldFor(f)
  BY <1>1, <1>3, HeldIs, HeldIsNext
<1>5. Types'
  <2>1. aged' \subseteq Files
    BY DEF HalfADay
  <2> QED BY <1>1, <1>3, <2>1 DEF TraceIInv, Types
<1>6. Pending' = Pending /\ \A s \in Sessions : (Uncounted(s)' <=> Uncounted(s))
        /\ (Closing(s)' <=> Closing(s))
  BY <1>1 DEF Pending, Uncounted, Closing, Waiting
<1>7. Leeway /\ Settings' /\ Cardinality(Pending)' \in Nat
  <2>1. events \in Nat /\ Cardinality(Pending) \in Nat /\ \A s \in Sessions : compacted[s] \in Nat
    BY TypesHave, PendingIsFinite DEF TraceIInv, Settings, Apart
  <2>2. Settings'
    BY <1>5 DEF Types, Settings
  <2> QED BY <1>1, <1>6, <2>1, <2>2 DEF Leeway
<1>8. Stored'
  <2>1. Absent \notin Lineages /\ Absent # Window
    BY FilesAre DEF TraceIInv, Apart
  <2> QED BY <1>4, <1>7, <2>1, StoredStays
<1>9. OneAtATime' /\ Shells' /\ Declared'
  BY <1>1, <1>6 DEF TraceIInv, OneAtATime, Shells, Declared, Busy
<1>10. \A p \in Pids : AtWork(p)'
  BY <1>1, <1>7, AtWorkStays
<1>11. Apart'
  BY DEF TraceIInv, Apart, Sessions, Files, Lineages, Envelopes, Windows
<1> QED BY <1>5, <1>8, <1>9, <1>10, <1>11 DEF TraceIInv

-----------------------------------------------------------------------------
(* The search.                                                             *)

\* A Claude Code search that nothing was put on finds no bridge in its shell.
LEMMA ShellIsClean ==
    ASSUME TraceIInv, NEW p \in Pids, NEW s \in Claude, s = hook[p].s, hook[p].pc = "search"
    PROVE  shell[s] = Absent
<1> SUFFICES ASSUME shell[s] # Absent PROVE FALSE
  OBVIOUS
<1>1. PICK q \in Pids : hook[q].s = s /\ hook[q].pc = "posted"
  BY DEF TraceIInv, Shells
<1>2. hook[p].does = "call" /\ hook[q].does = "call"
  BY <1>1, AtStep DEF AtWork
<1> QED BY <1>1, <1>2 DEF TraceIInv, OneAtATime

\* What a search may find in its environment.
LEMMA FoundEnvironment ==
    ASSUME TraceIInv, NEW p \in Pids, hook[p].pc = "search", NEW s, s = hook[p].s,
           NEW b \in Exported(p), NEW e, e.bridge = b, e.harness = hook[p].env.harness,
           e.lineage = hook[p].env.lineage, e.session = hook[p].env.session
    PROVE  /\ s \in Sessions /\ e.harness \in {Absent, "cursor"}
           /\ \/ /\ s \in Claude /\ e.harness = Absent /\ e.lineage = Absent /\ e.session = Absent
                 /\ b = Absent \/ (b \in Envelopes /\ Own(s, b) /\ b.call = hook[p].call)
              \/ /\ s \in Cursor /\ e.harness = Absent /\ e.lineage = Absent /\ e.session = Absent
                 /\ b = Absent
              \/ /\ s \in Cursor /\ declares[s] # Absent /\ e.harness = "cursor"
                 /\ e.lineage = declares[s] /\ e.session = s
<1> DEFINE x == hook[p].env
<1>1. AtWork(p) /\ hook[p] \in Hooks(hook[p].base)
  BY AtStep
<1>2. s \in Sessions /\ Given(p)
  BY <1>1 DEF AtWork
<1>3. x \in Environments
  BY <1>1, HookHas
<1>4. x.harness \in {Absent, "cursor"}
  BY <1>3 DEF Environments
<1>5. Claude \cap Cursor = {} /\ Absent \notin Sessions /\ Absent \notin Lineages
  BY FilesAre DEF TraceIInv, Apart
<1>6. NoEnv.harness = Absent /\ NoEnv.lineage = Absent /\ NoEnv.session = Absent /\ NoEnv.bridge = Absent
  BY DEF NoEnv
<1>7. CASE s \in Claude
  <2>1. x.harness = Absent /\ x.lineage = Absent /\ x.session = Absent
    <3>1. x = NoEnv \/ x = [NoEnv EXCEPT !.bridge = x.bridge]
      BY <1>2, <1>5, <1>7 DEF Given
    <3> QED BY <1>6, <3>1 DEF NoEnv
  <2>2. x.bridge = Absent \/ (x.bridge \in Envelopes /\ Own(s, x.bridge) /\ x.bridge.call = hook[p].call)
    BY <1>2, <1>5, <1>6, <1>7 DEF Given
  <2>3. b = IF x.bridge = Absent THEN shell[s] ELSE x.bridge
    BY <1>7, <2>1 DEF Exported
  <2>4. shell[s] = Absent
    BY <1>7, ShellIsClean
  <2> QED BY <1>2, <1>4, <1>7, <2>1, <2>2, <2>3, <2>4
<1>8. CASE s \in Cursor
  <2>1. s \notin Claude
    BY <1>5, <1>8
  <2>2. CASE x = NoEnv
    <3>1. b = Absent
      BY <1>6, <2>1, <2>2 DEF Exported
    <3> QED BY <1>2, <1>4, <1>6, <1>8, <2>2, <3>1
  <2>3. CASE x # NoEnv
    <3>1. declares[s] # Absent /\ x = Prefix(s)
      BY <1>2, <2>1, <2>3 DEF Given
    <3> QED BY <1>2, <1>4, <1>8, <3>1, PrefixIs
  <2> QED BY <2>2, <2>3
<1> QED BY <1>2, <1>7, <1>8 DEF Sessions

\* A sidecar that a search adopts is its session's, and its session's alone unless it
\* shares one.
LEMMA AdoptedIs ==
    ASSUME TraceIInv, NEW s \in Cursor, NEW d \in Dirs, NEW e, e.session = s, declares[s] # Absent,
           e.lineage = declares[s], NEW f \in Adopted(e, d)
    PROVE  /\ f \in Lineages /\ files[f] # Absent /\ files[f].session = s
           /\ f = Conv(s) \/ Shares(s)
<1>1. s # Absent /\ s \in Sessions
  BY DEF TraceIInv, Apart, Sessions
<1>2. CASE f \in DeclaredLineage(e)
  <2>1. f = declares[s] /\ files[f] # Absent /\ e.session \in {Absent, files[f].session}
    BY <1>2 DEF DeclaredLineage
  <2>2. declares[s] \in {Absent, Conv(s)} \cup {Ws(x) : x \in Dirs}
    BY DEF TraceIInv, Declared
  <2> QED BY <1>1, <2>1, <2>2, FilesAre DEF Shares
<1>3. CASE f \in LineageForCwd(e, d)
  <2> DEFINE here == {x \in Chain(d) :
                        /\ files[Ws(x)] # Absent
                        /\ e.session \in {Absent, files[Ws(x)].session}}
  <2>1. here # {} /\ f = Ws(Nearest(here))
    BY <1>3 DEF LineageForCwd
  <2>2. Nearest(here) \in here /\ here \subseteq Dirs
    <3>1. here \subseteq {"package", "root"}
      BY DEF Chain
    <3> HIDE DEF here
    <3> QED BY <2>1, <3>1 DEF Nearest, Dirs
  <2>3. PICK x \in Dirs : f = Ws(x) /\ files[f] # Absent /\ files[f].session = s
    <3>1. PICK x : x = Nearest(here)
      OBVIOUS
    <3>2. x \in here /\ x \in Dirs /\ f = Ws(x)
      BY <2>1, <2>2, <3>1
    <3>3. files[Ws(x)] # Absent /\ e.session \in {Absent, files[Ws(x)].session}
      BY <3>2
    <3> QED BY <1>1, <3>2, <3>3
  <2>4. f \in Lineages
    BY <2>3, FilesAre
  <2>5. Sound(f, files[f])
    BY <2>3, <2>4, HeldIs DEF TraceIInv, Stored
  <2>6. Shares(s)
    BY <2>3, <2>5 DEF Sound
  <2> QED BY <2>3, <2>4, <2>6
<1> QED BY <1>2, <1>3 DEF Adopted

LEMMA LabelledIs ==
    ASSUME NEW t \in Envelopes, NEW e, e.harness \in {Absent, "cursor"}
    PROVE  /\ Labelled(t, e) \in Envelopes
           /\ Labelled(t, e).session = t.session /\ Labelled(t, e).call = t.call
           /\ Labelled(t, e).window = t.window /\ Labelled(t, e).text = t.text
           /\ e.harness = Absent => Labelled(t, e) = t
           /\ e.harness # Absent => Labelled(t, e).harness = "cursor"
<1>1. PICK l : l = Labelled(t, e)
  OBVIOUS
<1>2. CASE e.harness = Absent
  BY <1>2 DEF Labelled
<1>3. CASE e.harness # Absent
  <2>1. l = [t EXCEPT !.harness = "cursor"]
    BY <1>1, <1>3 DEF Labelled
  <2>2. /\ l \in Envelopes /\ l.harness = "cursor" /\ l.session = t.session /\ l.call = t.call
        /\ l.window = t.window /\ l.text = t.text
    BY <2>1 DEF Envelopes
  <2> QED BY <1>1, <1>3, <2>2
<1> QED BY <1>2, <1>3

\* A search that goes out: what it carries decides whether the step is sound.
LEMMA PostedIs ==
    ASSUME TraceIInv, NEW p \in Pids, NEW s \in Sessions, s = hook[p].s,
           \/ hook[p].does = "call"
           \/ hook[p].does = "save" /\ s \in Cursor,
           World, NEW t \in Envelopes, Shares(s) \/ Own(s, t),
           s \in Claude => t.call \in {0, hook[p].call},
           NEW n, n = PerformSearch(p, t), hook' = [hook EXCEPT ![p] = n]
    PROVE  n \in Hooks(n.base) /\ Quiet(p, n) /\ n.pc = "posted" /\ n.s = s /\ AtWork(p)'
<1> DEFINE h == hook[p]
<1>1. AtWork(p) /\ h \in Hooks(h.base)
  BY AtStep
<1>2. n = [h EXCEPT !.pc = "posted", !.does = "call", !.file = Absent, !.base = Absent,
                    !.env = NoEnv, !.sent = t]
  BY DEF PerformSearch
<1>3. /\ n.pc = "posted" /\ n.does = "call" /\ n.s = s /\ n.call = h.call /\ n.file = Absent
      /\ n.base = Absent /\ n.env = NoEnv /\ n.sent = t
  BY <1>1, <1>2, HookHas
<1>4. n \in Hooks(n.base)
  BY <1>1, <1>2, IdleHookIs DEF Hooks, TraceIInv
<1>5. Quiet(p, n)
  BY <1>3 DEF Quiet
<1>6. hook'[p] = n
  BY <1>4, <1>5, QuietHook
<1>7. Sends(p)'
  <2>1. Shares(s)' <=> Shares(s)
    BY DEF World, Shares
  <2>2. Own(s, t)' <=> Own(s, t)
    BY DEF World, Own
  <2> QED BY <1>3, <1>6, <2>1, <2>2 DEF Sends
<1>8. AtWork(p)'
  BY <1>3, <1>6, <1>7 DEF AtWork, Does
<1> QED BY <1>3, <1>4, <1>5, <1>8

-----------------------------------------------------------------------------
(* A search: what it finds, what it sends.                                 *)

LEMMA RenameSearchIsSound ==
    ASSUME TraceIInv, NEW p \in Pids, RenameSearch(p)
    PROVE  TraceIInv'
<1>1. PICK s, n, t : s = hook[p].s /\ t = hook[p].sent /\ n = PerformSearch(p, t)
  OBVIOUS
<1>2. Rename(p, n) /\ hook[p].does = "save" /\ hook[p].pc = "rename"
  BY <1>1 DEF RenameSearch, Rename
<1>3. World /\ shell' = shell /\ hook' = [hook EXCEPT ![p] = n]
  BY <1>2 DEF Rename
<1>4. s \in Sessions /\ s \in Cursor /\ Sends(p)
  BY <1>1, <1>2, AtStep DEF AtWork, Does, Sessions, Phases
<1>5. t \in Envelopes /\ (Shares(s) \/ Own(s, t)) /\ (s \in Claude => t.call \in {0, hook[p].call})
  BY <1>1, <1>4 DEF Sends
<1>6. n \in Hooks(n.base) /\ Quiet(p, n) /\ n.pc = "posted" /\ AtWork(p)'
  <2>1. hook[p].does = "call" \/ (hook[p].does = "save" /\ s \in Cursor)
    BY <1>2, <1>4
  <2>2. World /\ hook' = [hook EXCEPT ![p] = n]
    BY <1>3
  <2>3. s \in Sessions /\ s = hook[p].s /\ n = PerformSearch(p, t) /\ t \in Envelopes
    BY <1>1, <1>4, <1>5
  <2>4. (Shares(s) \/ Own(s, t)) /\ (s \in Claude => t.call \in {0, hook[p].call})
    BY <1>5
  <2>5. n \in Hooks(n.base)
    BY <2>1, <2>2, <2>3, <2>4, PostedIs
  <2>6. Quiet(p, n)
    BY <2>1, <2>2, <2>3, <2>4, PostedIs
  <2>7. AtWork(p)'
    BY <2>1, <2>2, <2>3, <2>4, PostedIs
  <2>8. n.pc = "posted"
    BY <1>1, AtStep DEF PerformSearch, Hooks
  <2> QED BY <2>5, <2>6, <2>7, <2>8
<1>7. Papers' /\ \A f \in Files : \A x \in HeldFor(f)' : x \in HeldFor(f)
  BY <1>2, <1>6, HeldAfterRename
<1>8. shell' \in [Claude -> Envelopes \cup {Absent}] /\ Shells'
  BY <1>2, <1>3, <1>6, ShellsStand
<1> QED BY <1>6, <1>7, <1>8, QuietKeeps

\* The shell holds the envelope of a command for as long as its search is out.
LEMMA ShellsFollow ==
    ASSUME TraceIInv, NEW p \in Pids, NEW s, s = hook[p].s, hook[p].pc = "search", NEW b,
           b = hook[p].env.bridge,
           shell' = IF s \in Claude /\ b # Absent THEN [shell EXCEPT ![s] = b] ELSE shell,
           NEW n, n \in Hooks(n.base), Quiet(p, n), n.s = s, n.pc = "posted" \/ s \notin Claude
    PROVE  shell' \in [Claude -> Envelopes \cup {Absent}] /\ Shells'
<1>1. b \in Envelopes \cup {Absent}
  BY AtStep, HookHas DEF Environments
<1>2. shell \in [Claude -> Envelopes \cup {Absent}]
  BY DEF TraceIInv, Types
<1>3. shell' \in [Claude -> Envelopes \cup {Absent}]
  BY <1>1, <1>2
<1>4. hook'[p] = n /\ \A q \in Pids : q # p => hook'[q] = hook[q]
  BY QuietHook
<1>5. ASSUME NEW t \in Claude, shell'[t] # Absent
      PROVE  \E q \in Pids : hook'[q].s = t /\ hook'[q].pc = "posted"
  <2>1. CASE t = s
    BY <1>4, <2>1
  <2>2. CASE t # s
    <3>1. shell[t] # Absent
      BY <1>2, <1>5, <2>2
    <3>2. PICK q \in Pids : hook[q].s = t /\ hook[q].pc = "posted"
      BY <3>1 DEF TraceIInv, Shells
    <3> QED BY <1>4, <2>2, <3>2
  <2> QED BY <2>1, <2>2
<1> QED BY <1>3, <1>5 DEF Shells

LEMMA RunSearchIsSound ==
    ASSUME TraceIInv, NEW p \in Pids, RunSearch(p)
    PROVE  TraceIInv'
<1> DEFINE h == hook[p]
<1>1. PICK s : s = h.s
  OBVIOUS
<1>2. PICK b \in Exported(p) : TraceSearch(p, [h.env EXCEPT !.bridge = b])
  BY DEF RunSearch
<1>3. PICK e : e = [h.env EXCEPT !.bridge = b]
  OBVIOUS
<1>4. /\ h.pc = "search" /\ World /\ UNCHANGED <<files, aged>> /\ TraceSearch(p, e)
      /\ b \in Exported(p)
      /\ shell' = IF s \in Claude /\ h.env.bridge # Absent
                  THEN [shell EXCEPT ![s] = h.env.bridge] ELSE shell
  BY <1>1, <1>2, <1>3 DEF RunSearch
<1>5. AtWork(p) /\ h \in Hooks(h.base) /\ h.does = "call"
  BY <1>4, AtStep DEF AtWork
<1>6. /\ s \in Sessions /\ e.bridge = b /\ e.harness \in {Absent, "cursor"}
      /\ \/ /\ s \in Claude /\ e.harness = Absent /\ e.lineage = Absent /\ e.session = Absent
            /\ b = Absent \/ (b \in Envelopes /\ Own(s, b) /\ b.call = h.call)
         \/ /\ s \in Cursor /\ e.harness = Absent /\ e.lineage = Absent /\ e.session = Absent
            /\ b = Absent
         \/ /\ s \in Cursor /\ declares[s] # Absent /\ e.harness = "cursor"
            /\ e.lineage = declares[s] /\ e.session = s
  <2>1. hook[p].pc = "search" /\ s = hook[p].s /\ b \in Exported(p)
    BY <1>1, <1>4
  <2>2. /\ e.bridge = b /\ e.harness = hook[p].env.harness
        /\ e.lineage = hook[p].env.lineage /\ e.session = hook[p].env.session
    BY <1>3, <1>5, HookHas DEF Environments
  <2> QED BY <2>1, <2>2, FoundEnvironment
<1>7. Absent \notin Envelopes /\ Claude \cap Cursor = {}
  BY DEF TraceIInv, Apart
<1>8. \/ ~Believes(e)
      \/ /\ Labelled(b, e) = b /\ b \in Envelopes /\ Own(s, b)
         /\ b.call = h.call /\ s \in Claude
  BY <1>6, <1>7, LabelledIs DEF Believes
<1>9. ASSUME NEW t \in Envelopes, Shares(s) \/ Own(s, t), s \in Claude => t.call \in {0, h.call},
             hook' = [hook EXCEPT ![p] = PerformSearch(p, t)], UNCHANGED temps
      PROVE  TraceIInv'
  <2>1. PICK n : n = PerformSearch(p, t)
    OBVIOUS
  <2>2. hook' = [hook EXCEPT ![p] = n] /\ FilesStand
    BY <1>4, <1>9, <2>1 DEF FilesStand
  <2>3. n \in Hooks(n.base) /\ Quiet(p, n)
    BY <1>1, <1>4, <1>5, <1>6, <1>9, <2>1, <2>2, PostedIs
  <2>4. n.s = s /\ n.pc = "posted"
    BY <1>1, <1>5, <2>1 DEF PerformSearch, Hooks
  <2>5. AtWork(p)'
    <3>1. s \in Sessions /\ s = hook[p].s /\ hook[p].does = "call" /\ World
      BY <1>1, <1>4, <1>5, <1>6
    <3>2. (Shares(s) \/ Own(s, t)) /\ (s \in Claude => t.call \in {0, hook[p].call})
      BY <1>9
    <3> QED BY <2>1, <2>2, <3>1, <3>2, PostedIs
  <2>6. Papers' /\ \A f \in Files : \A x \in HeldFor(f)' : x \in HeldFor(f)
    BY <2>2, <2>3, <2>4, HeldUndisturbed
  <2>7. shell' \in [Claude -> Envelopes \cup {Absent}] /\ Shells'
    BY <1>1, <1>4, <2>3, <2>4, ShellsFollow
  <2> QED BY <2>3, <2>5, <2>6, <2>7, QuietKeeps
<1>10. CASE Believes(e) /\ hook' = [hook EXCEPT ![p] = PerformSearch(p, Labelled(e.bridge, e))]
            /\ UNCHANGED temps
  BY <1>6, <1>8, <1>9, <1>10
<1>11. CASE hook' = [hook EXCEPT ![p] = PerformSearch(p, PerShell(p, e))] /\ UNCHANGED temps
  <2>1. PICK u : u = Envelope("cli", s, 0, 0, Absent)
    OBVIOUS
  <2>2. /\ u \in Envelopes /\ u.session = s /\ u.call = 0 /\ u.window = 0 /\ u.text = Absent
        /\ u.harness = "cli"
    BY <1>6, <2>1 DEF Envelope, Envelopes
  <2>3. PICK t : t = Labelled(u, e)
    OBVIOUS
  <2>4. /\ t \in Envelopes /\ t.session = s /\ t.call = 0 /\ t.window = 0 /\ t.text = Absent
        /\ t.harness = "cli" \/ (t.harness = "cursor" /\ s \notin Claude)
    BY <1>6, <1>7, <2>2, <2>3, LabelledIs
  <2>5. compacted[s] \in Nat
    BY <1>6 DEF TraceIInv, Types
  <2>6. Own(s, t)
    BY <2>4, <2>5 DEF Own
  <2>7. PerShell(p, e) = t
    BY <1>1, <2>1, <2>3 DEF PerShell
  <2> QED BY <1>9, <1>11, <2>4, <2>6, <2>7
<1>12. ASSUME NEW f \in Adopted(e, cwd[s]), WriteTemp(p, f, files[f]),
              hook' = [hook EXCEPT ![p].pc = "rename", ![p].file = f, ![p].does = "save",
                                   ![p].sent = Labelled(files[f], e), ![p].env = NoEnv]
       PROVE  TraceIInv'
  <2>1. s \in Cursor /\ declares[s] # Absent /\ e.lineage = declares[s] /\ e.session = s
    <3>1. e.harness = Absent /\ e.lineage = Absent => Adopted(e, cwd[s]) = {}
      BY DEF Adopted, DeclaredLineage, LineageForCwd
    <3> QED BY <1>6, <1>12, <3>1
  <2>2. PICK x \in Dirs : x = cwd[s]
    BY <1>6 DEF TraceIInv, Types
  <2>3. /\ f \in Lineages /\ files[f] # Absent /\ files[f].session = s
        /\ f = Conv(s) \/ Shares(s)
    BY <1>12, <2>1, <2>2, AdoptedIs
  <2>4. PICK d, t : d = files[f] /\ t = Labelled(d, e)
    OBVIOUS
  <2>5. Sound(f, d)
    BY <2>3, <2>4, HeldIs DEF TraceIInv, Stored
  <2>6. /\ d \in Envelopes /\ d # Absent /\ d.session = s /\ d.harness = "cursor"
        /\ f = Conv(s) => d.text \in {Absent, s} /\ d.window <= compacted[s]
    BY <1>7, <2>1, <2>3, <2>4, <2>5, SidecarIsThere DEF Sound, TraceIInv
  <2>7. /\ t \in Envelopes /\ t.session = s /\ t.harness = "cursor"
        /\ t.window = d.window /\ t.text = d.text
    BY <1>6, <2>4, <2>6, LabelledIs
  <2>8. s \notin Claude
    BY <1>7, <2>1
  <2>9. Shares(s) \/ Own(s, t)
    BY <2>3, <2>6, <2>7, <2>8 DEF Own
  <2>10. PICK n : n = [h EXCEPT !.pc = "rename", !.file = f, !.does = "save", !.sent = t, !.env = NoEnv]
    OBVIOUS
  <2>11. hook' = [hook EXCEPT ![p] = n]
    BY <1>12, <2>4, <2>10
  <2>12. n.pc = "rename" /\ n.file = f /\ n.does = "save" /\ n.sent = t /\ n.env = NoEnv /\ n.s = s
    BY <1>1, <1>5, <2>10 DEF Hooks
  <2>13. NoEnv \in Environments /\ f \in Files
    BY <2>3, IdleHookIs, FilesAre DEF TraceIInv
  <2>14. n \in Hooks(n.base)
    BY <1>5, <2>7, <2>10, <2>13 DEF Hooks
  <2>15. Quiet(p, n)
    BY <1>1, <1>4, <1>5, <2>1, <2>11, <2>12 DEF Quiet
  <2>16. hook'[p] = n
    BY <2>14, <2>15, QuietHook
  <2>17. Sound(f, d)'
    <3>1. Settings' /\ Leeway /\ Cardinality(Pending)' \in Nat
      BY <2>14, <2>15, QuietWorld, QuietPending
    <3> QED BY <2>3, <2>5, <3>1, SoundStays
  <2>18. Sends(p)'
    <3>1. Shares(s)' <=> Shares(s)
      BY <1>4 DEF World, Shares
    <3>2. Own(s, t)' <=> Own(s, t)
      BY <1>4 DEF World, Own
    <3> QED BY <2>7, <2>8, <2>9, <2>12, <2>16, <3>1, <3>2 DEF Sends
  <2>19. AtWork(p)'
    BY <1>6, <2>3, <2>8, <2>12, <2>16, <2>18 DEF AtWork, Does
  <2>20. Papers' /\ \A g \in Files : \A y \in HeldFor(g)' : y \in HeldFor(g) \/ (g = f /\ y = d)
    BY <1>4, <1>12, <2>4, <2>6, <2>12, <2>13, <2>14, <2>15, HeldAfterWrite
  <2>21. shell' \in [Claude -> Envelopes \cup {Absent}] /\ Shells'
    BY <1>1, <1>4, <2>8, <2>12, <2>14, <2>15, ShellsFollow
  <2>22. f # Window
    BY <2>3, FilesAre
  <2> QED BY <2>14, <2>15, <2>17, <2>19, <2>20, <2>21, <2>22, QuietIsSound
<1> QED BY <1>1, <1>4, <1>10, <1>11, <1>12 DEF TraceSearch

-----------------------------------------------------------------------------
(* What a host delivers.                                                   *)

\* A host's event for the session s: the process p begins to handle it.
Delivers(p, does, s) ==
    /\ hook[p].pc = "idle" /\ hook' = [hook EXCEPT ![p] = Begins(p, does, s)]
    /\ FilesStand /\ UNCHANGED <<cwd, shell>>
    /\ s \in Sessions /\ does \in Does(s) /\ does # "save"
    /\ does \in Phases => ~Busy(s, Phases)
    /\ does = "call" => (s \in Claude => ~Busy(s, {"call"})) /\ events' = events + 1
    /\ events' \in {events, events + 1} /\ events' <= MaxEvents

LEMMA BeginsIs ==
    ASSUME TraceIInv, NEW p \in Pids, NEW s, NEW does, Delivers(p, does, s),
           NEW n, n = Begins(p, does, s)
    PROVE  /\ n.pc = "begin" /\ n.s = s /\ n.does = does /\ n \in Hooks(n.base)
           /\ hook[p] = IdleHook /\ hook'[p] = n
           /\ hook' = [q \in Pids |-> hook'[q]]
           /\ \A q \in Pids : q # p => hook'[q] = hook[q]
<1>1. hook[p] = IdleHook
  BY AtStep DEF Delivers, AtWork
<1>2. PICK k : k = IF does # "call" THEN 0 ELSE IF s \in Claude THEN events + 1 ELSE 1
  OBVIOUS
<1>3. events \in 0 .. MaxEvents /\ MaxEvents \in Nat
  BY DEF TraceIInv, Apart, Types
<1>4. k \in 0 .. MaxEvents
  BY <1>2, <1>3 DEF Delivers
<1>5. n = [IdleHook EXCEPT !.pc = "begin", !.does = does, !.s = s, !.call = k]
  BY <1>2 DEF Begins
<1>6. n = [pc |-> "begin", does |-> does, s |-> s, call |-> k, file |-> Absent,
           base |-> Absent, env |-> NoEnv, sent |-> Absent]
  BY <1>5 DEF IdleHook
<1>7. NoEnv \in Environments /\ s \in Sessions
  BY IdleHookIs DEF TraceIInv, Delivers
<1>8. does \in {"nothing", "start", "thought", "call", "save"} \cup Phases
  BY DEF Delivers, Does, Phases
<1>9. n \in Hooks(n.base)
  BY <1>4, <1>6, <1>7, <1>8 DEF Hooks
<1>10. hook = [q \in Pids |-> hook[q]] /\ hook' = [hook EXCEPT ![p] = n]
  BY DEF TraceIInv, Types, Delivers
<1>11. n.pc = "begin" /\ n.s = s /\ n.does = does
  BY <1>6
<1> QED BY <1>1, <1>9, <1>10, <1>11

LEMMA DeliveredPending ==
    ASSUME TraceIInv, NEW p \in Pids, NEW s, NEW does, Delivers(p, does, s)
    PROVE  /\ IsFiniteSet(Pending)' /\ Cardinality(Pending)' \in Nat
           /\ Cardinality(Pending)' <= Cardinality(Pending) + 1
           /\ ~(does = "pre" /\ s \in Cursor) => Cardinality(Pending)' <= Cardinality(Pending)
           /\ \A x \in Sessions : Uncounted(x)' => Uncounted(x) \/ (x = s /\ does = "pre")
           /\ \A x \in Sessions : (\E q \in Pids : hook'[q].s = x /\ Waiting(q, "post")')
                => (\E q \in Pids : hook[q].s = x /\ Waiting(q, "post")) \/ (x = s /\ does = "post")
<1>1. PICK n : n = Begins(p, does, s)
  OBVIOUS
<1>2. /\ n.s = s /\ n.does = does /\ hook'[p] = n
      /\ \A q \in Pids : q # p => hook'[q] = hook[q]
  BY <1>1, BeginsIs
<1>3. \A q \in Pids : \A w : Waiting(q, w)' => (q # p /\ Waiting(q, w)) \/ (q = p /\ w = does)
  BY <1>2 DEF Waiting
<1>4. Pending' \subseteq Pending \cup {p}
  BY <1>2, <1>3 DEF Pending
<1>5. ~(does = "pre" /\ s \in Cursor) => Pending' \subseteq Pending
  BY <1>2, <1>3 DEF Pending
<1>6. IsFiniteSet(Pending) /\ Cardinality(Pending) \in Nat
  BY PendingIsFinite DEF TraceIInv
<1>7. IsFiniteSet(Pending \cup {p}) /\ Cardinality(Pending \cup {p}) <= Cardinality(Pending) + 1
      /\ Cardinality(Pending \cup {p}) \in Nat
  <2>1. /\ IsFiniteSet(Pending \cup {p})
        /\ Cardinality(Pending \cup {p}) =
             IF p \in Pending THEN Cardinality(Pending) ELSE Cardinality(Pending) + 1
    BY <1>6, FS_AddElement
  <2> QED BY <1>6, <2>1
<1>8. IsFiniteSet(Pending') /\ Cardinality(Pending') <= Cardinality(Pending \cup {p})
      /\ Cardinality(Pending') \in Nat
  BY <1>4, <1>7, FS_Subset, FS_CardinalityType
<1>9. ~(does = "pre" /\ s \in Cursor) => Cardinality(Pending') <= Cardinality(Pending)
  BY <1>5, <1>6, FS_Subset
<1>10. \A x \in Sessions : Uncounted(x)' => Uncounted(x) \/ (x = s /\ does = "pre")
  BY <1>2, <1>3 DEF Uncounted
<1>11. \A x \in Sessions : (\E q \in Pids : hook'[q].s = x /\ Waiting(q, "post")')
         => (\E q \in Pids : hook[q].s = x /\ Waiting(q, "post")) \/ (x = s /\ does = "post")
  BY <1>2, <1>3
<1> QED BY <1>6, <1>7, <1>8, <1>9, <1>10, <1>11

LEMMA DeliveredAtWork ==
    ASSUME TraceIInv, NEW p \in Pids, NEW s, NEW does, Delivers(p, does, s), Settings', Leeway
    PROVE  /\ \A q \in Pids : AtWork(q)'
           /\ shell' \in [Claude -> Envelopes \cup {Absent}] /\ Shells'
<1>1. PICK n : n = Begins(p, does, s)
  OBVIOUS
<1>2. /\ n.pc = "begin" /\ n.s = s /\ n.does = does /\ hook[p] = IdleHook /\ hook'[p] = n
      /\ \A q \in Pids : q # p => hook'[q] = hook[q]
  BY <1>1, BeginsIs
<1>3. AtWork(p)'
  BY <1>2 DEF AtWork, Delivers
<1>4. \A q \in Pids : q # p => AtWork(q)'
  BY <1>2, AtWorkStays
<1>5. shell' = shell /\ shell \in [Claude -> Envelopes \cup {Absent}] /\ Shells
  BY DEF TraceIInv, Types, Delivers
<1>6. Shells'
  BY <1>2, <1>5, IdleHookIs DEF Shells, TraceIInv
<1> QED BY <1>3, <1>4, <1>5, <1>6

LEMMA DeliveredStored ==
    ASSUME TraceIInv, NEW p \in Pids, NEW s, NEW does, Delivers(p, does, s), Settings', Leeway
    PROVE  Stored' /\ Types'
<1>1. PICK n : n = Begins(p, does, s)
  OBVIOUS
<1>2. /\ n.pc = "begin" /\ hook'[p] = n /\ n \in Hooks(n.base)
      /\ hook' = [q \in Pids |-> hook'[q]]
      /\ \A q \in Pids : q # p => hook'[q] = hook[q]
  BY <1>1, BeginsIs
<1>3. UNCHANGED <<files, aged, temps, cwd, shell>>
  BY DEF Delivers, FilesStand
<1>4. ASSUME NEW f \in Files, NEW x \in HeldFor(f)'
      PROVE  x \in HeldFor(f)
  <2>1. /\ x # Absent
        /\ \/ x = files'[f]
           \/ \E t \in temps' : t.file = f /\ x = t.data
           \/ \E q \in Pids : hook'[q].pc = "apply" /\ hook'[q].file = f /\ x = hook'[q].base
    BY <1>4, HeldIsNext
  <2>2. CASE \E q \in Pids : hook'[q].pc = "apply" /\ hook'[q].file = f /\ x = hook'[q].base
    <3>1. PICK q \in Pids : hook'[q].pc = "apply" /\ hook'[q].file = f /\ x = hook'[q].base
      BY <2>2
    <3>2. q # p
      BY <1>2, <3>1
    <3> QED BY <1>2, <2>1, <3>1, <3>2, HeldIs
  <2> QED BY <1>3, <2>1, <2>2, HeldIs
<1>5. Absent \notin Lineages /\ Absent # Window
  BY FilesAre DEF TraceIInv, Apart
<1>6. Stored'
  BY <1>4, <1>5, DeliveredPending, StoredStays
<1>7. \A q \in Pids : hook'[q] \in Hooks(hook'[q].base)
  BY <1>2 DEF TraceIInv, Types
<1>8. Types'
  BY <1>2, <1>3, <1>7 DEF TraceIInv, Types, Settings
<1> QED BY <1>6, <1>8

LEMMA DeliveredOnce ==
    ASSUME TraceIInv, NEW p \in Pids, NEW s, NEW does, Delivers(p, does, s), Settings', Leeway,
           \A x \in Sessions : phase'[x] = "compacting" =>
              \/ phase[x] = "compacting" /\ ~(x = s /\ does \in {"post", "seed"})
              \/ x = s /\ s \in Claude /\ does = "pre",
           \A x \in Claude : compacted'[x] + Cardinality(Pending)' + events
                               <= compacted[x] + Cardinality(Pending) + events'
    PROVE  OneAtATime'
<1>1. PICK n : n = Begins(p, does, s)
  OBVIOUS
<1>2. /\ n.s = s /\ n.does = does /\ hook[p] = IdleHook /\ hook'[p] = n
      /\ \A q \in Pids : q # p => hook'[q] = hook[q]
  BY <1>1, BeginsIs
<1>3. OneAtATime /\ IdleHook.s = Absent /\ s \in Sessions /\ Absent \notin Sessions
  BY IdleHookIs DEF TraceIInv, Apart, Delivers
<1>4. ASSUME NEW q \in Pids, NEW r \in Pids, hook'[q].s = hook'[r].s
      PROVE  /\ hook'[q].does \in Phases /\ hook'[r].does \in Phases => q = r
             /\ hook'[q].does = "call" /\ hook'[r].does = "call" /\ hook'[q].s \in Claude => q = r
  <2>1. CASE q # p /\ r # p
    BY <1>2, <1>3, <1>4, <2>1 DEF OneAtATime
  <2>2. \A x \in Pids : x # p /\ hook[x].s = s =>
          /\ does \in Phases => hook[x].does \notin Phases
          /\ does = "call" /\ s \in Claude => hook[x].does # "call"
    BY DEF Delivers, Busy
  <2>3. CASE q = p \/ r = p
    BY <1>2, <1>4, <2>2, <2>3
  <2> QED BY <2>1, <2>3
<1>5. ASSUME NEW x \in Sessions, phase'[x] = "compacting"
      PROVE  x \in Claude /\ ~Busy(x, {"post", "seed"})'
  <2>1. CASE phase[x] = "compacting" /\ ~(x = s /\ does \in {"post", "seed"})
    <3>1. x \in Claude /\ ~Busy(x, {"post", "seed"})
      BY <1>3, <2>1 DEF OneAtATime
    <3>2. ASSUME NEW q \in Pids, hook'[q].s = x, hook'[q].does \in {"post", "seed"}
          PROVE  FALSE
      BY <1>2, <2>1, <3>1, <3>2 DEF Busy
    <3> QED BY <3>1, <3>2 DEF Busy
  <2>2. CASE x = s /\ s \in Claude /\ does = "pre"
    <3>1. ASSUME NEW q \in Pids, hook'[q].s = x, hook'[q].does \in {"post", "seed"}
          PROVE  FALSE
      <4>1. q # p
        BY <1>2, <2>2, <3>1
      <4> QED BY <1>2, <2>2, <3>1, <4>1 DEF Delivers, Busy, Phases
    <3> QED BY <2>2, <3>1 DEF Busy
  <2> QED BY <1>5, <2>1, <2>2
<1>6. ASSUME NEW x \in Sessions, Uncounted(x)' \/ Closing(x)'
      PROVE  0 < compacted'[x]
  <2>1. compacted[x] \in Nat /\ compacted'[x] \in Nat /\ compacted[x] <= compacted'[x]
    BY DEF TraceIInv, Types, Settings, Leeway
  <2>2. (Uncounted(x) \/ Closing(x)) \/ compacted[x] < compacted'[x]
    BY <1>6 DEF Leeway
  <2>3. Uncounted(x) \/ Closing(x) => 0 < compacted[x]
    BY <1>3 DEF OneAtATime
  <2> QED BY <2>1, <2>2, <2>3
<1>7. IsFiniteSet(Pending)' /\ Cardinality(Pending)' \in Nat
  BY DeliveredPending
<1>8. Cardinality(Pending) \in Nat /\ events \in Nat /\ events' \in Nat
  BY <1>3, PendingIsFinite DEF TraceIInv, Types, Settings, Apart
<1>9. Cardinality(Pending)' <= events'
  <2>1. Cardinality(Pending) <= events
          /\ Cardinality(Pending)' + events <= Cardinality(Pending) + events'
    BY <1>3 DEF OneAtATime, Leeway
  <2> QED BY <1>7, <1>8, <2>1
<1>10. ASSUME NEW x \in Claude
       PROVE  compacted'[x] + Cardinality(Pending)' <= events'
  <2>1. compacted[x] \in Nat /\ compacted'[x] \in Nat
    BY DEF TraceIInv, Types, Settings, Sessions
  <2>2. compacted[x] + Cardinality(Pending) <= events
    BY <1>3 DEF OneAtATime
  <2> QED BY <1>7, <1>8, <2>1, <2>2
<1>11. \A q, r \in Pids : hook'[q].s = hook'[r].s =>
         /\ hook'[q].does \in Phases /\ hook'[r].does \in Phases => q = r
         /\ hook'[q].does = "call" /\ hook'[r].does = "call" /\ hook'[q].s \in Claude => q = r
  BY <1>4
<1> QED BY <1>5, <1>6, <1>7, <1>9, <1>10, <1>11 DEF OneAtATime

LEMMA DeliveredIsSound ==
    ASSUME TraceIInv, NEW p \in Pids, NEW s, NEW does, Delivers(p, does, s), Settings', Leeway,
           Declared', OneAtATime'
    PROVE  TraceIInv'
<1>1. Apart'
  BY DEF TraceIInv, Apart, Sessions, Files, Lineages, Envelopes, Windows
<1>2. Stored' /\ Types'
  BY DeliveredStored
<1>3. Shells' /\ \A q \in Pids : AtWork(q)'
  BY DeliveredAtWork
<1> QED BY <1>1, <1>2, <1>3 DEF TraceIInv

\* An event that is of no compaction.
LEMMA OtherEventIsSound ==
    ASSUME TraceIInv, NEW p \in Pids, NEW s, NEW does, Delivers(p, does, s),
           does \notin {"pre", "post"}, does = "seed" => phase[s] = "none",
           events' = events + 1, UNCHANGED <<compacted, phase>>,
           declares' \in [Cursor -> Lineages \cup {Absent}], Declared',
           \A x \in Cursor : declares[x] # Absent => declares'[x] = declares[x]
    PROVE  TraceIInv'
<1>1. /\ events \in 0 .. MaxEvents /\ MaxEvents \in Nat /\ compacted \in [Sessions -> Nat]
      /\ events' <= MaxEvents /\ Settings
  BY TypesHave DEF TraceIInv, Types, Apart, Delivers
<1>2. Settings'
  BY <1>1 DEF Settings, Delivers
<1>3. /\ Cardinality(Pending) \in Nat /\ Cardinality(Pending)' \in Nat
      /\ Cardinality(Pending)' <= Cardinality(Pending)
  BY DeliveredPending, PendingIsFinite DEF TraceIInv
<1>4. \A x \in Sessions : (Uncounted(x)' => Uncounted(x)) /\ (Closing(x)' => Closing(x))
  BY DeliveredPending DEF Closing
<1>5. Leeway
  BY <1>1, <1>3, <1>4 DEF Leeway
<1>6. \A x \in Sessions : phase'[x] = "compacting" =>
        phase[x] = "compacting" /\ ~(x = s /\ does \in {"post", "seed"})
  OBVIOUS
<1>7. \A x \in Claude : compacted'[x] + Cardinality(Pending)' + events
                          <= compacted[x] + Cardinality(Pending) + events'
  BY <1>1, <1>3 DEF Sessions
<1>8. OneAtATime'
  BY <1>2, <1>5, <1>6, <1>7, DeliveredOnce
<1> QED BY <1>2, <1>5, <1>8, DeliveredIsSound

LEMMA EventIs ==
    ASSUME TraceIInv, Event
    PROVE  events' = events + 1 /\ events' <= MaxEvents /\ events' \in {events, events + 1}
BY DEF TraceIInv, Apart, Types, Event

LEMMA OtherDeliveriesAreSound ==
    ASSUME TraceIInv, NEW p \in Pids, NEW s \in Sessions,
           \/ s \in Cursor /\ Think(p, s)
           \/ Call(p, s)
           \/ s \in Claude /\ StartSession(p, s)
    PROVE  TraceIInv'
<1>1. Claude \cap Cursor = {} /\ declares \in [Cursor -> Lineages \cup {Absent}] /\ Declared
  BY DEF TraceIInv, Apart, Types
<1>2. CASE s \in Cursor /\ Think(p, s)
  <2>1. Delivers(p, "thought", s)
    BY <1>1, <1>2, EventIs DEF Think, Delivers, Does, Phases
  <2>2. Declared' /\ UNCHANGED <<declares, compacted, phase>> /\ events' = events + 1
    BY <1>1, <1>2, EventIs DEF Think, Declared
  <2> QED BY <1>1, <2>1, <2>2, OtherEventIsSound
<1>3. CASE Call(p, s)
  <2>1. Delivers(p, "call", s)
    BY <1>1, <1>3, EventIs DEF Call, Delivers, Does, Phases
  <2>2. Declared' /\ UNCHANGED <<declares, compacted, phase>> /\ events' = events + 1
    BY <1>1, <1>3, EventIs DEF Call, Declared
  <2> QED BY <1>1, <2>1, <2>2, OtherEventIsSound
<1>4. CASE s \in Claude /\ StartSession(p, s)
  <2>1. Delivers(p, "seed", s)
    <3>1. ~Busy(s, Phases)
      BY <1>4 DEF StartSession, Busy, Phases
    <3> QED BY <1>1, <1>4, <3>1, EventIs DEF StartSession, Delivers, Does, Phases
  <2>2. /\ Declared' /\ UNCHANGED <<declares, compacted, phase>> /\ events' = events + 1
        /\ phase[s] = "none"
    BY <1>1, <1>4, EventIs DEF StartSession, Declared
  <2> QED BY <1>1, <2>1, <2>2, OtherEventIsSound
<1> QED BY <1>2, <1>3, <1>4

LEMMA StartConversationIsSound ==
    ASSUME TraceIInv, NEW p \in Pids, NEW s \in Cursor, StartConversation(p, s)
    PROVE  TraceIInv'
<1>1. /\ Claude \cap Cursor = {} /\ declares \in [Cursor -> Lineages \cup {Absent}] /\ Declared
      /\ s \in Sessions /\ cwd \in [Sessions -> Dirs]
  BY DEF TraceIInv, Apart, Types, Sessions
<1>2. PICK g \in {Conv(s), Ws(cwd[s])} : declares' = [declares EXCEPT ![s] = g]
  BY DEF StartConversation
<1>3. g \in Lineages /\ (g = Conv(s) \/ \E x \in Dirs : g = Ws(x))
  BY <1>1, <1>2, FilesAre
<1>4. Delivers(p, "start", s)
  BY <1>1, EventIs DEF StartConversation, Delivers, Does, Phases
<1>5. /\ declares[s] = Absent /\ UNCHANGED <<compacted, phase>> /\ events' = events + 1
  BY EventIs DEF StartConversation
<1>6. declares' \in [Cursor -> Lineages \cup {Absent}]
  BY <1>1, <1>2, <1>3
<1>7. Declared'
  BY <1>1, <1>2, <1>3 DEF Declared
<1>8. \A x \in Cursor : declares[x] # Absent => declares'[x] = declares[x]
  BY <1>1, <1>2, <1>5
<1> QED BY <1>4, <1>5, <1>6, <1>7, <1>8, OtherEventIsSound

LEMMA CompactIsSound ==
    ASSUME TraceIInv, NEW p \in Pids, NEW s \in Sessions, Compact(p, s)
    PROVE  TraceIInv'
<1>1. PICK does \in {"pre", "post"} :
        /\ hook' = [hook EXCEPT ![p] = Begins(p, does, s)]
        /\ \/ /\ does = "pre"
              /\ \E l \in IF s \in Claude THEN {"none", "compacting"} ELSE {"none"} :
                   phase' = [phase EXCEPT ![s] = l]
           \/ does = "post" /\ s \in Claude /\ UNCHANGED phase
  BY DEF Compact
<1>2. /\ Claude \cap Cursor = {} /\ compacted \in [Sessions -> Nat] /\ events \in 0 .. MaxEvents
      /\ MaxEvents \in Nat /\ phase \in [Sessions -> {"none", "compacting"}] /\ Settings /\ Declared
      /\ Claude \subseteq Sessions /\ Cursor \subseteq Sessions
  BY TypesHave DEF TraceIInv, Apart, Types, Sessions
<1>3. /\ hook[p].pc = "idle" /\ phase[s] = "none" /\ ~Busy(s, {"pre", "post", "seed"})
      /\ compacted' = [compacted EXCEPT ![s] = compacted[s] + 1]
      /\ events' = events + 1 /\ events' <= MaxEvents
      /\ FilesStand /\ UNCHANGED <<cwd, declares, shell>>
  BY EventIs DEF Compact
<1>4. Delivers(p, does, s)
  <2>1. ~Busy(s, Phases)
    BY <1>3 DEF Busy, Phases
  <2> QED BY <1>1, <1>2, <1>3, <2>1 DEF Delivers, Does, Phases, Sessions
<1>5. /\ phase' \in [Sessions -> {"none", "compacting"}]
      /\ \A x \in Sessions : phase'[x] = "compacting" =>
           (phase[x] = "compacting" /\ x # s) \/ (x = s /\ s \in Claude /\ does = "pre")
  BY <1>1, <1>2, <1>3
<1>6. Settings'
  <2>1. compacted' \in [Sessions -> Nat]
    BY <1>2, <1>3
  <2>2. events' \in 0 .. MaxEvents
    BY <1>2, <1>3
  <2> QED BY <1>2, <1>3, <1>5, <2>1, <2>2 DEF Settings
<1>7. /\ Cardinality(Pending) \in Nat /\ Cardinality(Pending)' \in Nat
      /\ Cardinality(Pending)' <= Cardinality(Pending) + 1
      /\ s \in Claude => Cardinality(Pending)' <= Cardinality(Pending)
  BY <1>2, <1>4, DeliveredPending, PendingIsFinite DEF TraceIInv
<1>8. \A x \in Sessions : compacted'[x] = IF x = s THEN compacted[x] + 1 ELSE compacted[x]
  BY <1>2, <1>3
<1>9. ASSUME NEW x \in Sessions
      PROVE  /\ Uncounted(x)' => Uncounted(x) \/ x = s
             /\ Closing(x)' => Closing(x) \/ x = s
  BY <1>4, <1>5, DeliveredPending DEF Closing
<1>10. Leeway
  <2>1. \A x \in Sessions : compacted[x] \in Nat
    BY <1>2
  <2>2. \A x \in Sessions :
          /\ compacted[x] <= compacted'[x]
          /\ Uncounted(x)' => Uncounted(x) \/ compacted[x] < compacted'[x]
          /\ Closing(x)' => Closing(x) \/ compacted[x] < compacted'[x]
    BY <1>8, <1>9, <2>1
  <2>3. Cardinality(Pending)' + events <= Cardinality(Pending) + events'
    BY <1>2, <1>3, <1>7
  <2>4. declares' = declares
    BY <1>3
  <2> QED BY <2>2, <2>3, <2>4 DEF Leeway
<1>11. ASSUME NEW x \in Claude
       PROVE  compacted'[x] + Cardinality(Pending)' + events
                <= compacted[x] + Cardinality(Pending) + events'
  <2>1. x \in Sessions /\ compacted[x] \in Nat
    BY <1>2
  <2>2. CASE x = s
    BY <1>2, <1>3, <1>7, <1>8, <2>1, <2>2
  <2>3. CASE x # s
    BY <1>2, <1>3, <1>7, <1>8, <2>1, <2>3
  <2> QED BY <2>2, <2>3
<1>12. OneAtATime'
  BY <1>4, <1>5, <1>6, <1>10, <1>11, DeliveredOnce
<1>13. Declared'
  BY <1>2, <1>3 DEF Declared
<1> QED BY <1>4, <1>6, <1>10, <1>12, <1>13, DeliveredIsSound

LEMMA CompactedIsSound ==
    ASSUME TraceIInv, NEW p \in Pids, NEW s \in Claude, Compacted(p, s)
    PROVE  TraceIInv'
<1>1. /\ hook[p].pc = "idle" /\ phase[s] = "compacting" /\ ~Busy(s, {"pre"})
      /\ hook' = [hook EXCEPT ![p] = Begins(p, "post", s)]
      /\ phase' = [phase EXCEPT ![s] = "none"]
      /\ FilesStand /\ UNCHANGED <<cwd, declares, shell, compacted, events>>
  BY DEF Compacted
<1>2. /\ Claude \cap Cursor = {} /\ compacted \in [Sessions -> Nat] /\ events \in 0 .. MaxEvents
      /\ MaxEvents \in Nat /\ phase \in [Sessions -> {"none", "compacting"}] /\ Settings /\ Declared
      /\ Claude \subseteq Sessions /\ s \in Sessions
  BY TypesHave DEF TraceIInv, Apart, Types, Sessions
<1>3. ~Busy(s, {"post", "seed"})
  BY <1>1, <1>2 DEF TraceIInv, OneAtATime
<1>4. Delivers(p, "post", s)
  <2>1. ~Busy(s, Phases)
    BY <1>1, <1>3 DEF Busy, Phases
  <2> QED BY <1>1, <1>2, <2>1 DEF Delivers, Does, Phases
<1>5. /\ phase' \in [Sessions -> {"none", "compacting"}]
      /\ \A x \in Sessions : phase'[x] = "compacting" => phase[x] = "compacting" /\ x # s
  BY <1>1, <1>2
<1>6. Settings'
  BY <1>1, <1>2, <1>5 DEF Settings
<1>7. /\ Cardinality(Pending) \in Nat /\ Cardinality(Pending)' \in Nat
      /\ Cardinality(Pending)' <= Cardinality(Pending)
  BY <1>4, DeliveredPending, PendingIsFinite DEF TraceIInv
<1>8. ASSUME NEW x \in Sessions
      PROVE  (Uncounted(x)' => Uncounted(x)) /\ (Closing(x)' => Closing(x))
  BY <1>1, <1>4, <1>5, DeliveredPending DEF Closing
<1>9. Leeway
  <2>1. \A x \in Sessions : compacted[x] \in Nat
    BY <1>2
  <2> QED BY <1>1, <1>2, <1>7, <1>8, <2>1 DEF Leeway
<1>10. \A x \in Claude : compacted'[x] + Cardinality(Pending)' + events
                          <= compacted[x] + Cardinality(Pending) + events'
  BY <1>1, <1>2, <1>7
<1>11. OneAtATime'
  BY <1>4, <1>5, <1>6, <1>9, <1>10, DeliveredOnce
<1>12. Declared'
  BY <1>1, <1>2 DEF Declared
<1> QED BY <1>4, <1>6, <1>9, <1>11, <1>12, DeliveredIsSound

-----------------------------------------------------------------------------
(* The narration of a call (Transcript).                                   *)

(* The words before a search, and the command a hook answers for.          *)

\* Max of a set that has a bound is its greatest member.
LEMMA MaxIsGreatest ==
    ASSUME NEW n \in Nat, NEW S \in SUBSET (0 .. n), S # {}
    PROVE  Max(S) \in S /\ \A y \in S : y <= Max(S)
<1> DEFINE D == {n - x : x \in S}
           less == OpToRel(<, Nat)
<1>1. IsWellFoundedOn(less, Nat)
  BY NatLessThanWellFounded
<1>2. D \subseteq Nat /\ D # {}
  <2>1. \A x \in 0 .. n : n - x \in Nat
    OBVIOUS
  <2>2. PICK x \in S : TRUE
    OBVIOUS
  <2> QED BY <2>1, <2>2
<1>3. PICK d \in D : \A y \in D : ~(<<y, d>> \in less)
  <2> HIDE DEF D, less
  <2> QED BY <1>1, <1>2, WFMin
<1>4. PICK x \in S : d = n - x
  OBVIOUS
<1>5. ASSUME NEW y \in S PROVE x >= y
  <2>1. n - y \in D /\ n - y \in Nat /\ d \in Nat /\ x \in 0 .. n /\ y \in 0 .. n
    BY <1>2, <1>4
  <2>2. ~(n - y < d)
    <3> SUFFICES ASSUME n - y < d PROVE FALSE
      OBVIOUS
    <3>1. <<n - y, d>> \in Nat \X Nat /\ <<n - y, d>>[1] < <<n - y, d>>[2]
      BY <2>1
    <3>2. <<n - y, d>> \in {p \in Nat \X Nat : p[1] < p[2]}
      BY <3>1
    <3>3. <<n - y, d>> \in less
      BY <3>2 DEF OpToRel
    <3> QED BY <1>3, <2>1, <3>3
  <2> QED BY <1>4, <2>1, <2>2
<1>6. \A y \in S : x >= y
  BY <1>5
<1>7. Max(S) \in S /\ \A y \in S : Max(S) >= y
  <2> HIDE DEF D, less
  <2> QED BY <1>6 DEF Max
<1> QED BY <1>7

LEMMA LastIsLast ==
    ASSUME NEW t, NEW kinds, NEW u \in Nat
    PROVE  LET l == LastOf(t, kinds, u) IN
           /\ l \in 0 .. u
           /\ l # 0 => t[l] \in kinds
           /\ \A i \in 1 .. u : t[i] \in kinds => i <= l
<1> DEFINE S == {0} \cup {i \in 1 .. u : t[i] \in kinds}
<1>1. S \in SUBSET (0 .. u) /\ S # {}
  OBVIOUS
<1>2. LastOf(t, kinds, u) = Max(S)
  BY DEF LastOf
<1>3. Max(S) \in S /\ \A y \in S : y <= Max(S)
  <2> HIDE DEF S
  <2> QED BY <1>1, MaxIsGreatest
<1> QED BY <1>2, <1>3

LEMMA Narrated == NarrationLedToTheCall
<1> SUFFICES ASSUME NEW t \in Tails(5),
                    NEW c, c = Cutoff(t)
             PROVE  IF \E i \in 1 .. c : LedTo(t, i, c)
                    THEN LedTo(t, CurrentAssistantText(t), c)
                    ELSE CurrentAssistantText(t) = 0
  BY DEF NarrationLedToTheCall
<1>1. PICK k \in 0 .. 5 : t \in [1 .. k -> Entries]
  BY DEF Tails
<1>2. Len(t) \in Nat
  BY <1>1
<1>3. c \in Nat
  BY <1>2, LastIsLast DEF Cutoff
<1> DEFINE floor == LastOf(t, IsUserTurn, c)
           said == LastOf(t, Texts, c)
<1>4. /\ floor \in 0 .. c /\ (floor # 0 => t[floor] = "turn")
      /\ \A i \in 1 .. c : t[i] = "turn" => i <= floor
  <2>1. \A l : t[l] \in IsUserTurn <=> t[l] = "turn"
    BY DEF IsUserTurn
  <2> QED BY <1>3, <2>1, LastIsLast
<1>5. /\ said \in 0 .. c /\ (said # 0 => t[said] \in Texts)
      /\ \A i \in 1 .. c : t[i] \in Texts => i <= said
  BY <1>3, LastIsLast
<1>6. CurrentAssistantText(t) = IF floor # 0 /\ said > floor THEN said ELSE 0
  BY DEF CurrentAssistantText
<1> HIDE DEF floor, said
<1>7. CASE \E i \in 1 .. c : LedTo(t, i, c)
  <2>1. PICK i \in 1 .. c : LedTo(t, i, c)
    BY <1>7
  <2>2. PICK j \in 1 .. i : t[j] = "turn"
    BY <2>1 DEF LedTo
  <2>3. t[i] \in Texts /\ t[i] # "turn"
    BY <2>1 DEF LedTo, Texts
  <2>4. said = i
    BY <1>3, <1>5, <2>1, <2>3 DEF LedTo
  <2>5. floor <= i /\ floor # 0 /\ floor # i
    BY <1>3, <1>4, <2>1, <2>2, <2>3 DEF LedTo
  <2> QED BY <1>3, <1>4, <1>6, <1>7, <2>1, <2>4, <2>5
<1>8. CASE ~\E i \in 1 .. c : LedTo(t, i, c)
  <2>1. ASSUME floor # 0, said > floor PROVE FALSE
    <3>1. said \in 1 .. c /\ floor \in 1 .. said
      BY <1>3, <1>4, <1>5, <2>1
    <3>2. \A j \in said + 1 .. c : t[j] \notin {"turn"} \cup Texts
      BY <1>3, <1>4, <1>5, <2>1, <3>1
    <3> QED BY <1>3, <1>4, <1>5, <1>8, <3>1, <3>2 DEF LedTo
  <2> QED BY <1>6, <1>8, <2>1
<1> QED BY <1>7, <1>8

-----------------------------------------------------------------------------
(* The commands that are ours (RenderedForm).                              *)

LEMMA MinIsLeast ==
    ASSUME NEW S \in SUBSET Nat, S # {}
    PROVE  Min(S) \in S /\ \A y \in S : Min(S) <= y
<1> DEFINE less == OpToRel(<, Nat)
<1>1. IsWellFoundedOn(less, Nat)
  BY NatLessThanWellFounded
<1>2. PICK x \in S : \A y \in S : ~(<<y, x>> \in less)
  <2> HIDE DEF less
  <2> QED BY <1>1, WFMin
<1>3. ASSUME NEW y \in S PROVE x <= y
  <2> SUFFICES ASSUME y < x PROVE FALSE
    OBVIOUS
  <2>1. <<y, x>> \in Nat \X Nat /\ <<y, x>>[1] < <<y, x>>[2]
    OBVIOUS
  <2>2. <<y, x>> \in {p \in Nat \X Nat : p[1] < p[2]}
    BY <2>1
  <2>3. <<y, x>> \in less
    BY <2>2 DEF OpToRel
  <2> QED BY <1>2, <2>3
<1> HIDE DEF less
<1> QED BY <1>3 DEF Min

LEMMA WordsAreShort ==
    ASSUME NEW n \in Nat, NEW w \in Words(n)
    PROVE  Len(w) \in 0 .. n /\ w \in Seq(Alphabet)
<1>1. PICK k \in 0 .. n : w \in [1 .. k -> Alphabet]
  BY DEF Words
<1> QED BY <1>1

LEMMA FormsHave ==
    ASSUME NEW form \in Forms
    PROVE  /\ Len(form) \in {2, 3}
           /\ \A k \in 1 .. Len(form) : Len(form[k]) \in Nat
<1>1. \A n \in Nat : \A w \in Words(n) : Len(w) \in Nat
  BY WordsAreShort
<1>2. CASE \E a \in Words(1), b \in Words(2) : form = <<a, b>>
  <2>1. PICK a \in Words(1), b \in Words(2) : form = <<a, b>>
    BY <1>2
  <2>2. Len(a) \in Nat /\ Len(b) \in Nat
    BY <1>1
  <2>3. Len(form) = 2 /\ form[1] = a /\ form[2] = b
    BY <2>1
  <2> QED BY <2>2, <2>3
<1>3. CASE \E a \in Words(1), b \in Words(2) \ {<<>>}, c \in Words(1) : form = <<a, b, c>>
  <2>1. PICK a \in Words(1), b \in Words(2) \ {<<>>}, c \in Words(1) : form = <<a, b, c>>
    BY <1>3
  <2>2. Len(a) \in Nat /\ Len(b) \in Nat /\ Len(c) \in Nat
    BY <1>1
  <2>3. Len(form) = 3 /\ form[1] = a /\ form[2] = b /\ form[3] = c
    BY <2>1
  <2> QED BY <2>2, <2>3
<1> QED BY <1>2, <1>3 DEF Forms

\* The recursion goes over two or three literals: what it computes can be written out.
LEMMA StartsHave ==
    ASSUME NEW form \in Forms, NEW cmd
    PROVE  LET start == Starts(form, cmd) IN
           /\ start = [k \in 1 .. Len(form) |-> start[k]]
           /\ start[1] = IF StandsAt(form[1], cmd, 0) THEN 0 ELSE Failed
           /\ \A k \in 2 .. Len(form) :
                start[k] = EndOfHole(form, cmd, k, start[k - 1] + Len(form[k - 1]))
<1> DEFINE n == Len(form)
           v1 == IF StandsAt(form[1], cmd, 0) THEN 0 ELSE Failed
           v2 == EndOfHole(form, cmd, 2, v1 + Len(form[1]))
           v3 == EndOfHole(form, cmd, 3, v2 + Len(form[2]))
           f == [k \in 1 .. n |-> IF k = 1 THEN v1 ELSE IF k = 2 THEN v2 ELSE v3]
           Solves(g) == g = [k \in 1 .. n |->
                               IF k = 1 THEN v1
                               ELSE EndOfHole(form, cmd, k, g[k - 1] + Len(form[k - 1]))]
<1>1. n \in {2, 3}
  BY FormsHave
<1>2. Starts(form, cmd) = CHOOSE g : Solves(g)
  BY DEF Starts
<1>3. Solves(f)
  <2> HIDE DEF v1, v2, v3, n
  <2>1. \A k \in 1 .. n : f[k] = IF k = 1 THEN v1
          ELSE EndOfHole(form, cmd, k, f[k - 1] + Len(form[k - 1]))
    <3>1. f[1] = v1 /\ f[2] = v2 /\ (n = 3 => f[3] = v3)
      BY <1>1
    <3>2. f[2] = EndOfHole(form, cmd, 2, f[1] + Len(form[1]))
      BY <3>1 DEF v2
    <3>3. n = 3 => f[3] = EndOfHole(form, cmd, 3, f[2] + Len(form[2]))
      BY <3>1 DEF v3
    <3> HIDE DEF f
    <3>4. ASSUME NEW k \in 1 .. n
          PROVE  f[k] = IF k = 1 THEN v1 ELSE EndOfHole(form, cmd, k, f[k - 1] + Len(form[k - 1]))
      <4>1. CASE k = 1
        BY <3>1, <4>1
      <4>2. CASE k = 2
        <5>1. k - 1 = 1
          BY <4>2
        <5> QED BY <3>2, <4>2, <5>1
      <4>3. CASE k = 3
        <5>1. k - 1 = 2 /\ n = 3
          BY <1>1, <4>3
        <5> QED BY <3>3, <4>3, <5>1
      <4> QED BY <1>1, <4>1, <4>2, <4>3
    <3> QED BY <3>4
  <2> QED BY <2>1
<1> HIDE DEF v1, v2, v3, f, n
<1>4. Solves(Starts(form, cmd))
  <2> HIDE DEF Solves
  <2> QED BY <1>2, <1>3
<1> DEFINE start == Starts(form, cmd)
<1>5. start = [k \in 1 .. n |-> IF k = 1 THEN v1
                                ELSE EndOfHole(form, cmd, k, start[k - 1] + Len(form[k - 1]))]
  BY <1>4
<1> HIDE DEF start
<1>6. start = [k \in 1 .. n |-> start[k]]
  BY <1>5
<1>7. start[1] = v1
  BY <1>1, <1>5
<1>8. ASSUME NEW k \in 2 .. n
      PROVE  start[k] = EndOfHole(form, cmd, k, start[k - 1] + Len(form[k - 1]))
  <2>1. k \in 1 .. n /\ k # 1
    BY <1>1
  <2> QED BY <1>5, <2>1
<1> QED BY <1>6, <1>7, <1>8 DEF start, v1, n

\* Where a hole ends: at the least place that may end it, or nowhere.
LEMMA HoleEnds ==
    ASSUME NEW form \in Forms, NEW cmd \in Words(5), NEW k \in 1 .. Len(form), NEW from \in Nat
    PROVE  LET e == EndOfHole(form, cmd, k, from)
               lastIsEmpty == k = Len(form) /\ form[k] = <<>>
           IN \/ e = Failed
              \/ /\ e \in from .. Len(cmd) /\ StandsAt(form[k], cmd, e)
                 /\ lastIsEmpty => e = Len(cmd)
                 /\ ~lastIsEmpty => \A i \in from .. e - 1 : ~StandsAt(form[k], cmd, i)
<1> DEFINE lastIsEmpty == k = Len(form) /\ form[k] = <<>>
           ends == IF lastIsEmpty THEN {Len(cmd)} \ (0 .. from - 1)
                   ELSE Occurrences(form[k], cmd, from)
           e == EndOfHole(form, cmd, k, from)
<1>1. Len(cmd) \in 0 .. 5 /\ cmd \in Seq(Alphabet)
  BY WordsAreShort
<1>2. e = IF ends = {} THEN Failed ELSE Min(ends)
  BY DEF EndOfHole
<1>3. ends \in SUBSET Nat
  BY <1>1 DEF Occurrences
<1>4. CASE ends # {}
  <2> HIDE DEF ends
  <2>1. e \in ends /\ \A y \in ends : e <= y
    <3>1. Min(ends) \in ends /\ \A y \in ends : Min(ends) <= y
      BY <1>3, <1>4, MinIsLeast
    <3> QED BY <1>2, <1>4, <3>1
  <2>2. CASE lastIsEmpty
    <3>1. e = Len(cmd) /\ e \notin 0 .. from - 1
      BY <2>1, <2>2 DEF ends
    <3>2. from <= Len(cmd)
      BY <1>1, <3>1
    <3>3. StandsAt(form[k], cmd, e)
      <4>1. SubSeq(cmd, e + 1, e + Len(<<>>)) = <<>> /\ Len(<<>>) = 0
        BY <1>1, <3>1
      <4> QED BY <1>1, <2>2, <3>1, <4>1 DEF StandsAt
    <3> QED BY <1>1, <2>2, <3>1, <3>2, <3>3
  <2>3. CASE ~lastIsEmpty
    <3>1. e \in from .. Len(cmd) /\ StandsAt(form[k], cmd, e)
      BY <2>1, <2>3 DEF ends, Occurrences
    <3>2. ASSUME NEW i \in from .. e - 1, StandsAt(form[k], cmd, i) PROVE FALSE
      <4>1. i \in ends
        BY <1>1, <2>3, <3>1, <3>2 DEF ends, Occurrences
      <4> QED BY <1>1, <2>1, <3>1, <3>2, <4>1
    <3> QED BY <2>3, <3>1, <3>2
  <2> QED BY <2>2, <2>3
<1> QED BY <1>2, <1>4

\* It ends where the shell would end it.
LEMMA HoleIsFound ==
    ASSUME NEW form \in Forms, NEW cmd \in Words(5), NEW k \in 1 .. Len(form), NEW from \in Nat,
           NEW i \in from .. Len(cmd), StandsAt(form[k], cmd, i),
           LET lastIsEmpty == k = Len(form) /\ form[k] = <<>>
           IN IF lastIsEmpty THEN i = Len(cmd)
              ELSE \A j \in from .. i - 1 : ~StandsAt(form[k], cmd, j)
    PROVE  EndOfHole(form, cmd, k, from) = i
<1> DEFINE lastIsEmpty == k = Len(form) /\ form[k] = <<>>
           ends == IF lastIsEmpty THEN {Len(cmd)} \ (0 .. from - 1)
                   ELSE Occurrences(form[k], cmd, from)
<1>1. Len(cmd) \in 0 .. 5
  BY WordsAreShort
<1>2. EndOfHole(form, cmd, k, from) = IF ends = {} THEN Failed ELSE Min(ends)
  BY DEF EndOfHole
<1>3. ends \in SUBSET Nat
  BY <1>1 DEF Occurrences
<1>4. i \in ends
  BY <1>1 DEF Occurrences
<1>5. Min(ends) \in ends /\ Min(ends) <= i
  <2> HIDE DEF ends
  <2> QED BY <1>3, <1>4, MinIsLeast
<1>6. \A y \in ends : y <= i => y = i
  <2>1. CASE lastIsEmpty
    BY <2>1
  <2>2. CASE ~lastIsEmpty
    BY <1>1, <2>2 DEF Occurrences
  <2> QED BY <2>1, <2>2
<1> HIDE DEF ends
<1> QED BY <1>2, <1>4, <1>5, <1>6

LEMMA NothingFollowsAFailure ==
    ASSUME NEW form \in Forms, NEW cmd \in Words(5), NEW k \in 1 .. Len(form), NEW from \in Nat,
           from >= Failed
    PROVE  EndOfHole(form, cmd, k, from) = Failed
<1>1. Len(cmd) \in 0 .. 5
  BY WordsAreShort
<1>2. from >= 100
  BY DEF Failed
<1>3. ASSUME NEW l \in 0 .. 5, NEW e \in from .. l PROVE FALSE
  BY <1>2
<1> QED BY <1>1, <1>3, HoleEnds

LEMMA StartsAreNumbers ==
    ASSUME NEW form \in Forms, NEW cmd \in Words(5)
    PROVE  \A k \in 1 .. Len(form) : Starts(form, cmd)[k] \in Nat
<1> DEFINE start == Starts(form, cmd)
<1>1. Len(form) \in {2, 3} /\ \A k \in 1 .. Len(form) : Len(form[k]) \in Nat
  BY FormsHave
<1>2. /\ start[1] = IF StandsAt(form[1], cmd, 0) THEN 0 ELSE Failed
      /\ \A k \in 2 .. Len(form) :
           start[k] = EndOfHole(form, cmd, k, start[k - 1] + Len(form[k - 1]))
  BY StartsHave
<1> HIDE DEF start
<1>3. start[1] \in Nat
  BY <1>2 DEF Failed
<1>4. ASSUME NEW k \in 2 .. Len(form), start[k - 1] \in Nat PROVE start[k] \in Nat
  <2>1. k \in 1 .. Len(form) /\ start[k - 1] + Len(form[k - 1]) \in Nat
    BY <1>1, <1>4
  <2>2. start[k] = Failed \/ start[k] \in Nat
    BY <1>2, <2>1, HoleEnds
  <2> QED BY <2>2 DEF Failed
<1>5. start[2] \in Nat
  <2>1. 2 \in 2 .. Len(form) /\ 2 - 1 = 1
    BY <1>1
  <2> QED BY <1>3, <1>4, <2>1
<1>6. Len(form) = 3 => start[3] \in Nat
  <2>1. Len(form) = 3 => 3 \in 2 .. Len(form) /\ 3 - 1 = 2
    OBVIOUS
  <2> QED BY <1>4, <1>5, <2>1
<1>7. ASSUME NEW k \in 1 .. Len(form) PROVE start[k] \in Nat
  <2>1. k = 1 \/ k = 2 \/ (k = 3 /\ Len(form) = 3)
    BY <1>1
  <2> QED BY <1>3, <1>5, <1>6, <2>1
<1> QED BY <1>7 DEF start

\* What the shell reads as the form is what the match finds.
LEMMA ReadingIsFound ==
    ASSUME NEW form \in Forms, NEW cmd \in Words(5),
           NEW r \in Readings(form, cmd), AsTheShellReads(form, cmd, r)
    PROVE  r = Starts(form, cmd) /\ MatchRendered(form, cmd)
<1> DEFINE start == Starts(form, cmd)
           n == Len(form)
<1>1. n \in {2, 3} /\ \A k \in 1 .. n : Len(form[k]) \in Nat
  BY FormsHave
<1>2. /\ start = [k \in 1 .. n |-> start[k]]
      /\ start[1] = IF StandsAt(form[1], cmd, 0) THEN 0 ELSE Failed
      /\ \A k \in 2 .. n : start[k] = EndOfHole(form, cmd, k, start[k - 1] + Len(form[k - 1]))
  BY StartsHave
<1>3. Len(cmd) \in 0 .. 5
  BY WordsAreShort
<1>4. /\ r \in [1 .. n -> 0 .. Len(cmd)] /\ r[1] = 0
      /\ Whole(form, cmd, r) /\ Binary(form, r)
      /\ \A k \in 1 .. n : StandsAt(form[k], cmd, r[k])
      /\ \A k \in 2 .. n : r[k - 1] + Len(form[k - 1]) <= r[k]
  BY DEF Readings
<1> HIDE DEF start, n
<1>5. start[1] = r[1]
  BY <1>1, <1>2, <1>4
<1>6. ASSUME NEW k \in 2 .. n, start[k - 1] = r[k - 1] PROVE start[k] = r[k]
  <2> DEFINE from == r[k - 1] + Len(form[k - 1])
  <2>1. k \in 1 .. n /\ k - 1 \in 1 .. n
    BY <1>1
  <2>2. from \in Nat /\ from <= r[k] /\ r[k] \in 0 .. Len(cmd)
    BY <1>1, <1>4, <2>1
  <2>3. StandsAt(form[k], cmd, r[k])
    BY <1>4, <2>1
  <2>4. CASE k = n /\ form[k] = <<>>
    <3>1. r[k] + Len(form[k]) = Len(cmd) /\ Len(form[k]) = 0
      BY <1>4, <2>4 DEF Whole, n
    <3>2. r[k] = Len(cmd)
      BY <2>2, <3>1
    <3>3. r[k] \in from .. Len(cmd)
      BY <1>3, <2>2
    <3> HIDE DEF from
    <3>4. EndOfHole(form, cmd, k, from) = r[k]
      BY <2>1, <2>2, <2>3, <2>4, <3>2, <3>3, HoleIsFound DEF n
    <3> QED BY <1>2, <1>6, <3>4 DEF from
  <2>5. CASE ~(k = n /\ form[k] = <<>>)
    <3>1. \A i \in from .. r[k] - 1 : ~StandsAt(form[k], cmd, i)
      BY <2>5 DEF AsTheShellReads, n
    <3>2. r[k] \in from .. Len(cmd)
      BY <1>3, <2>2
    <3> HIDE DEF from
    <3>3. EndOfHole(form, cmd, k, from) = r[k]
      BY <2>1, <2>2, <2>3, <2>5, <3>1, <3>2, HoleIsFound DEF n
    <3> QED BY <1>2, <1>6, <3>3 DEF from
  <2> QED BY <2>4, <2>5
<1>7. start[2] = r[2]
  <2>1. 2 \in 2 .. n /\ 2 - 1 = 1
    BY <1>1
  <2> QED BY <1>5, <1>6, <2>1
<1>8. n = 3 => start[3] = r[3]
  <2>1. n = 3 => 3 \in 2 .. n /\ 3 - 1 = 2
    OBVIOUS
  <2> QED BY <1>6, <1>7, <2>1
<1>9. \A k \in 1 .. n : start[k] = r[k]
  BY <1>1, <1>5, <1>7, <1>8
<1>10. r = start
  BY <1>2, <1>4, <1>9
<1> QED BY <1>4, <1>10 DEF MatchRendered, start

\* What the match finds is what the shell reads.
LEMMA FoundIsReading ==
    ASSUME NEW form \in Forms, NEW cmd \in Words(5), MatchRendered(form, cmd)
    PROVE  /\ Starts(form, cmd) \in Readings(form, cmd)
           /\ AsTheShellReads(form, cmd, Starts(form, cmd))
<1> DEFINE start == Starts(form, cmd)
           n == Len(form)
<1>1. n \in {2, 3} /\ \A k \in 1 .. n : Len(form[k]) \in Nat
  BY FormsHave
<1>2. /\ start = [k \in 1 .. n |-> start[k]]
      /\ start[1] = IF StandsAt(form[1], cmd, 0) THEN 0 ELSE Failed
      /\ \A k \in 2 .. n : start[k] = EndOfHole(form, cmd, k, start[k - 1] + Len(form[k - 1]))
  BY StartsHave
<1>3. Len(cmd) \in 0 .. 5
  BY WordsAreShort
<1>4. \A k \in 1 .. n : start[k] \in Nat
  BY StartsAreNumbers
<1>5. Whole(form, cmd, start) /\ Binary(form, start)
  BY DEF MatchRendered
<1> HIDE DEF start, n
<1>6. start[n] # Failed
  BY <1>1, <1>3, <1>4, <1>5 DEF Whole, Failed, n
<1>7. ASSUME NEW k \in 2 .. n, start[k] # Failed
      PROVE  /\ start[k - 1] # Failed
             /\ start[k - 1] + Len(form[k - 1]) <= start[k]
             /\ start[k] <= Len(cmd) /\ StandsAt(form[k], cmd, start[k])
             /\ \/ k = n /\ form[k] = <<>>
                \/ \A i \in start[k - 1] + Len(form[k - 1]) .. start[k] - 1 : ~StandsAt(form[k], cmd, i)
  <2> DEFINE from == start[k - 1] + Len(form[k - 1])
  <2>1. k \in 1 .. n /\ k - 1 \in 1 .. n
    BY <1>1
  <2>2. from \in Nat /\ start[k - 1] \in Nat /\ Len(form[k - 1]) \in Nat
    BY <1>1, <1>4, <2>1
  <2>3. start[k] = EndOfHole(form, cmd, k, from)
    BY <1>2
  <2>4. ~(from >= Failed)
    <3> HIDE DEF from
    <3> QED BY <1>7, <2>1, <2>2, <2>3, NothingFollowsAFailure DEF n
  <2>5. start[k - 1] # Failed
    BY <2>2, <2>4 DEF Failed
  <2>6. /\ start[k] \in from .. Len(cmd) /\ StandsAt(form[k], cmd, start[k])
        /\ ~(k = n /\ form[k] = <<>>) => \A i \in from .. start[k] - 1 : ~StandsAt(form[k], cmd, i)
    <3> HIDE DEF from
    <3> QED BY <1>7, <2>1, <2>2, <2>3, HoleEnds DEF n
  <2> QED BY <1>3, <2>2, <2>5, <2>6
<1>8. \A k \in 2 .. n : start[k] # Failed
  <2>1. n = 3 => start[2] # Failed
    <3>1. n = 3 => 3 \in 2 .. n /\ 3 - 1 = 2
      OBVIOUS
    <3> QED BY <1>6, <1>7, <3>1
  <2> QED BY <1>1, <1>6, <2>1
<1>9. start[1] # Failed
  <2>1. 2 \in 2 .. n /\ 2 - 1 = 1
    BY <1>1
  <2> QED BY <1>7, <1>8, <2>1
<1>10. start[1] = 0 /\ StandsAt(form[1], cmd, 0)
  BY <1>2, <1>9
<1>11. \A k \in 1 .. n : start[k] \in 0 .. Len(cmd) /\ StandsAt(form[k], cmd, start[k])
  <2> SUFFICES ASSUME NEW k \in 1 .. n
               PROVE  start[k] \in 0 .. Len(cmd) /\ StandsAt(form[k], cmd, start[k])
    OBVIOUS
  <2>1. CASE k = 1
    BY <1>3, <1>10, <2>1
  <2>2. CASE k \in 2 .. n
    BY <1>3, <1>4, <1>7, <1>8, <2>2
  <2> QED BY <1>1, <2>1, <2>2
<1>12. start \in [1 .. n -> 0 .. Len(cmd)]
  BY <1>2, <1>11
<1>13. start \in Readings(form, cmd)
  BY <1>5, <1>7, <1>8, <1>10, <1>11, <1>12 DEF Readings, n
<1>14. AsTheShellReads(form, cmd, start)
  BY <1>7, <1>8 DEF AsTheShellReads, n
<1> QED BY <1>13, <1>14 DEF start

LEMMA Taught == OnlyWhatIsTaught
<1> SUFFICES ASSUME NEW form \in Forms, NEW cmd \in Words(5)
             PROVE  {r \in Readings(form, cmd) : AsTheShellReads(form, cmd, r)}
                      = IF MatchRendered(form, cmd) THEN {Starts(form, cmd)} ELSE {}
  BY DEF OnlyWhatIsTaught
<1>1. CASE MatchRendered(form, cmd)
  BY <1>1, ReadingIsFound, FoundIsReading
<1>2. CASE ~MatchRendered(form, cmd)
  BY <1>2, ReadingIsFound
<1> QED BY <1>1, <1>2

-----------------------------------------------------------------------------
(* Every step, and the theorems.                                           *)

LEMMA InitIsSound ==
    ASSUME Apart, InitTrace
    PROVE  TraceIInv
<1>1. /\ files = [f \in Files |-> Absent] /\ aged = {} /\ temps = {}
      /\ hook = [p \in Pids |-> IdleHook] /\ events = 0 /\ MaxEvents \in Nat
  BY DEF InitTrace, Apart
<1>2. /\ IdleHook \in Hooks(IdleHook.base) /\ IdleHook.pc = "idle" /\ IdleHook.does = "nothing"
      /\ IdleHook.s = Absent /\ Absent \notin Sessions
  BY IdleHookIs DEF Apart
<1>3. Types
  BY <1>1, <1>2 DEF InitTrace, Types, Sessions
<1>4. \A f \in Files : HeldFor(f) = {}
  BY <1>1, <1>2 DEF HeldFor
<1>5. Stored
  BY <1>4, FilesAre DEF Stored
<1>6. \A p \in Pids : \A does : ~Waiting(p, does)
  BY <1>1, <1>2 DEF Waiting
<1>7. Pending = {}
  BY <1>6 DEF Pending
<1>8. IsFiniteSet(Pending) /\ Cardinality(Pending) = 0
  BY <1>7, FS_EmptySet
<1>9. \A s \in Sessions : ~Uncounted(s) /\ ~Closing(s)
  BY <1>6 DEF Uncounted, Closing, InitTrace
<1>10. \A s \in Sessions : phase[s] = "none" /\ compacted[s] = 0
  BY DEF InitTrace
<1>11. OneAtATime
  <2>1. \A p \in Pids : hook[p].does = "nothing"
    BY <1>1, <1>2
  <2>2. \A p, q \in Pids : hook[p].s = hook[q].s =>
          /\ hook[p].does \in Phases /\ hook[q].does \in Phases => p = q
          /\ hook[p].does = "call" /\ hook[q].does = "call" /\ hook[p].s \in Claude => p = q
    BY <2>1 DEF Phases
  <2>3. \A s \in Claude : compacted[s] + Cardinality(Pending) <= events
    BY <1>1, <1>8, <1>10 DEF Sessions
  <2> QED BY <1>1, <1>8, <1>9, <1>10, <2>2, <2>3 DEF OneAtATime
<1>12. Shells /\ Declared
  BY DEF InitTrace, Shells, Declared
<1>13. \A p \in Pids : AtWork(p)
  BY <1>1, <1>2 DEF AtWork
<1> QED BY <1>3, <1>5, <1>11, <1>12, <1>13 DEF TraceIInv

LEMMA StutterIsSound ==
    ASSUME TraceIInv, UNCHANGED traceVars
    PROVE  TraceIInv'
<1>1. UNCHANGED <<files, aged, temps, cwd, declares, shell, hook, compacted, phase, events>>
  BY DEF traceVars
<1>2. /\ Pending' = Pending
      /\ \A s \in Sessions : (Uncounted(s)' <=> Uncounted(s)) /\ (Closing(s)' <=> Closing(s))
  BY <1>1 DEF Pending, Uncounted, Closing, Waiting
<1>3. Cardinality(Pending) \in Nat /\ Settings /\ Types
  BY PendingIsFinite, TypesHave DEF TraceIInv
<1>4. Settings'
  BY <1>1, <1>3 DEF Settings
<1>5. Leeway
  BY <1>1, <1>2, <1>3 DEF Leeway, Settings
<1>6. Stored'
  <2>1. \A f \in Files : \A x \in HeldFor(f)' : x \in HeldFor(f)
    BY <1>1 DEF HeldFor
  <2>2. Absent \notin Lineages /\ Absent # Window
    BY FilesAre DEF TraceIInv, Apart
  <2> QED BY <1>2, <1>3, <1>4, <1>5, <2>1, <2>2, StoredStays
<1>7. \A p \in Pids : AtWork(p)'
  BY <1>1, <1>4, <1>5, AtWorkStays
<1>8. Types'
  BY <1>1 DEF TraceIInv, Types
<1>9. Apart' /\ Shells' /\ Declared'
  BY <1>1 DEF TraceIInv, Apart, Sessions, Files, Lineages, Envelopes, Windows, Shells, Declared
<1>10. OneAtATime'
  BY <1>1, <1>2 DEF TraceIInv, OneAtATime, Busy
<1> QED BY <1>6, <1>7, <1>8, <1>9, <1>10 DEF TraceIInv

LEMMA StepIsSound ==
    ASSUME TraceIInv, [NextTrace]_traceVars
    PROVE  TraceIInv'
<1>1. CASE UNCHANGED traceVars
  BY <1>1, StutterIsSound
<1>2. CASE HalfADay
  BY <1>2, HalfADayIsSound
<1>3. ASSUME NEW p \in Pids, NEW s \in Cursor, StartConversation(p, s) \/ Think(p, s)
      PROVE  TraceIInv'
  BY <1>3, StartConversationIsSound, OtherDeliveriesAreSound DEF Sessions
<1>4. ASSUME NEW p \in Pids, NEW s \in Claude, StartSession(p, s) \/ Compacted(p, s)
      PROVE  TraceIInv'
  BY <1>4, CompactedIsSound, OtherDeliveriesAreSound DEF Sessions
<1>5. ASSUME NEW p \in Pids, NEW s \in Sessions, Compact(p, s) \/ Call(p, s)
      PROVE  TraceIInv'
  BY <1>5, CompactIsSound, OtherDeliveriesAreSound
<1>6. ASSUME NEW p \in Pids,
             \/ ReadState(p) \/ ApplyWindow(p)
             \/ LoadLineage(p) \/ SaveLineage(p)
             \/ RenameHook(p) \/ FailOpen(p)
             \/ RunSearch(p) \/ RenameSearch(p) \/ FinishSearch(p)
             \/ Kill(p)
      PROVE  TraceIInv'
  BY <1>6, ReadStateIsSound, ApplyWindowIsSound, LoadLineageIsSound, SaveLineageIsSound,
     RenameHookIsSound, FailOpenIsSound, RunSearchIsSound, RenameSearchIsSound, FinishSearchIsSound,
     KillIsSound
<1> QED BY <1>1, <1>2, <1>3, <1>4, <1>5, <1>6 DEF NextTrace

\* What the hooks and searches hold, write and carry is sound in every state: the
\* inductive invariant (hook.go, search.go).
THEOREM TraceInvariant == TraceSpec => []TraceIInv
<1>1. InitTrace => TraceIInv
  BY InitIsSound, ApartAssumption
<1>2. TraceIInv /\ [NextTrace]_traceVars => TraceIInv'
  BY StepIsSound
<1> QED BY <1>1, <1>2, PTL DEF TraceSpec

LEMMA SearchIsOwn ==
    ASSUME TraceIInv, NEW p \in Pids, hook[p].pc = "posted"
    PROVE  /\ hook[p].s \in Sessions
           /\ Shares(hook[p].s) \/ Own(hook[p].s, hook[p].sent)
           /\ hook[p].s \in Claude => hook[p].sent.call \in {0, hook[p].call}
BY AtStep DEF AtWork, Sends

\* Whatever files and bridges lie around it, a search is sent as its own session's or
\* as its shell's own, with the narration that led to it and only for a command that
\* is ours (searchTrace, currentAssistantText, matchRendered).
THEOREM TraceIsTheSessions == TraceSpec => []TraceIsOwn
<1>1. TraceIInv => TraceIsOwn
  <2> SUFFICES ASSUME TraceIInv PROVE TraceIsOwn
    OBVIOUS
  <2>1. NarrationLedToTheCall /\ OnlyWhatIsTaught
    BY Narrated, Taught
  <2>2. ASSUME NEW f \in Lineages, files[f] # Absent
        PROVE  /\ files[f] \in Sidecars
               /\ files[f].harness = (IF files[f].session \in Claude THEN "claude-code" ELSE "cursor")
               /\ files[f].window + Cardinality(Pending) <= events
    BY <2>2, HeldIs DEF TraceIInv, Stored, Sound
  <2>3. events \in Nat /\ events <= MaxEvents /\ MaxEvents \in Nat /\ Cardinality(Pending) \in Nat
    BY PendingIsFinite DEF TraceIInv, Types, Apart
  <2>4. ASSUME NEW f \in Lineages, files[f] # Absent
        PROVE  /\ files[f].session \in Sessions /\ files[f].call \in 0 .. MaxEvents
               /\ files[f].window \in 0 .. MaxEvents /\ files[f].text \in Sessions \cup {Absent}
    <3>1. files[f].window \in Nat
      BY <2>2, <2>4 DEF Sidecars
    <3> QED BY <2>2, <2>3, <2>4, <3>1 DEF Sidecars
  <2>5. files[Window] # Absent => DOMAIN files[Window] \subseteq Claude
    BY HeldIs DEF TraceIInv, Stored, Counted, Windows
  <2>6. \A p \in Pids : hook[p].pc \in {"idle", "begin", "apply", "rename", "search", "posted"}
    BY AtStep, HookHas
  <2>7. aged \subseteq Files
    BY DEF TraceIInv, Types
  <2>8. TraceTypeOK
    BY <2>2, <2>4, <2>5, <2>6, <2>7 DEF TraceTypeOK
  <2> QED BY <2>1, <2>8, SearchIsOwn DEF TraceIsOwn, Own
<1> QED BY <1>1, TraceInvariant, PTL

\* A Claude Code search carries the identity of its own call or none (bridge.go).
THEOREM CallIsTheCommands == TraceSpec => []CallIsExact
<1>1. TraceIInv => CallIsExact
  BY SearchIsOwn DEF CallIsExact
<1> QED BY <1>1, TraceInvariant, PTL

\* No compaction is ever counted twice, in the window state, in a sidecar or in what a
\* search sends (hook.go, hookWindow).
THEOREM CompactionCountsOnce == TraceSpec => []NeverCountedTwice
<1>1. TraceIInv => NeverCountedTwice
  <2> SUFFICES ASSUME TraceIInv PROVE NeverCountedTwice
    OBVIOUS
  <2>1. ASSUME files[Window] # Absent, NEW s \in DOMAIN files[Window]
        PROVE  files[Window][s].gen <= compacted[s]
    <3>1. Counted(files[Window])
      BY <2>1, HeldIs DEF TraceIInv, Stored
    <3>2. s \in Claude
      BY <2>1, <3>1 DEF Counted, Windows
    <3> QED BY <2>1, <3>1, <3>2 DEF Counted, Entry
  <2>2. ASSUME NEW s \in Cursor, files[Conv(s)] # Absent
        PROVE  files[Conv(s)].window <= compacted[s]
    BY <2>2, HeldIs, FilesAre DEF TraceIInv, Stored, Sound
  <2> QED BY <2>1, <2>2, SearchIsOwn DEF NeverCountedTwice, Own
<1> QED BY <1>1, TraceInvariant, PTL

\* A step writes a file over or leaves it.
LEMMA FileRemains ==
    ASSUME TraceIInv, NextTrace
    PROVE  \A f \in Files : files[f] # Absent => files'[f] # Absent
<1>1. ASSUME NEW p \in Pids, NEW n, Rename(p, n), NEW f \in Files, files[f] # Absent
      PROVE  files'[f] # Absent
  BY <1>1 DEF TraceIInv, Types, Rename
<1>2. CASE UNCHANGED files
  BY <1>2
<1>3. ASSUME NEW p \in Pids, RenameHook(p) \/ RenameSearch(p)
      PROVE  \A f \in Files : files[f] # Absent => files'[f] # Absent
  BY <1>1, <1>3 DEF RenameHook, RenameSearch
<1>4. ASSUME NEW p \in Pids,
             \/ \E s \in Cursor : StartConversation(p, s) \/ Think(p, s)
             \/ \E s \in Claude : StartSession(p, s) \/ Compacted(p, s)
             \/ \E s \in Sessions : Compact(p, s) \/ Call(p, s)
      PROVE  UNCHANGED files
  BY <1>4 DEF StartConversation, Think, StartSession, Compacted, Compact, Call, FilesStand
<1>5. ASSUME NEW p \in Pids,
             \/ ReadState(p) \/ ApplyWindow(p)
             \/ LoadLineage(p) \/ SaveLineage(p) \/ FailOpen(p)
             \/ RunSearch(p) \/ FinishSearch(p) \/ Kill(p)
      PROVE  UNCHANGED files
  BY <1>5 DEF ReadState, ApplyWindow, LoadLineage, SaveLineage, FailOpen, RunSearch, FinishSearch,
    Kill, FilesStand
<1>6. CASE HalfADay
  BY <1>6 DEF HalfADay
<1> QED BY <1>2, <1>3, <1>4, <1>5, <1>6 DEF NextTrace

\* A lineage file and the window state, once there, stay there: a lost race or a failed
\* rename loses an update and never the file (miner.go, replaceViaTemp).
THEOREM FilesRemain == TraceSpec => NeverTheFile
<1>1. TraceIInv /\ [NextTrace]_traceVars => [\A f \in Files : files[f] # Absent =>
        files'[f] # Absent]_traceVars
  BY FileRemains
<1> QED BY <1>1, TraceInvariant, PTL DEF TraceSpec, NeverTheFile
================================================================================
