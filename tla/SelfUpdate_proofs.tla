--------------------------- MODULE SelfUpdate_proofs ---------------------------
(***************************************************************************)
(* SelfUpdate: whatever fails, is killed or loses power during a           *)
(* replacement, its undoing or a rollback, the old binary is there until   *)
(* another one is accepted, and what a report says is so.                  *)
(***************************************************************************)
EXTENDS SelfUpdateInvariant, TLAPS

\* Not past the locks.
Waiting == {"idle", "wait"}

\* The types of the directory.
Dirs == /\ fs \in [Files -> Contents] /\ durable \subseteq [Files -> Contents]
        /\ fs \in durable /\ Directory

-----------------------------------------------------------------------------
(* What a step of the directory does.                                      *)

Wrote(n, c, s, d) == d[n] = c /\ \A k \in Files \ {n} : d[k] = s[k]
Moved(a, b, s, d) ==
    /\ s[a] = Absent => \A k \in Files : d[k] = s[k]
    /\ s[a] # Absent => /\ d[b] = s[a] /\ d[a] = Absent
                        /\ \A k \in Files \ {a, b} : d[k] = s[k]

(* A write or a removal happens to some of the directories the disk may    *)
(* bring back.                                                             *)
LEMMA SetsFacts ==
    ASSUME Dirs, NEW n \in Files, NEW c \in Contents, Sets(n, c), UNCHANGED platform
    PROVE  /\ Dirs' /\ Wrote(n, c, fs, fs')
           /\ \A d \in durable' : \/ d \in durable /\ platform # "windows"
                                  \/ \E s \in durable : Wrote(n, c, s, d)
<1>1. ASSUME NEW s \in [Files -> Contents]
      PROVE  Set(s, n, c) \in [Files -> Contents] /\ Wrote(n, c, s, Set(s, n, c))
  BY DEF Set, Wrote
<1>2. fs' = Set(fs, n, c) /\ fs' \in [Files -> Contents] /\ Wrote(n, c, fs, fs')
  BY <1>1 DEF Sets, Dirs
<1>3. CASE platform = "windows"
  BY <1>2, <1>3 DEF Sets, OnDisk, Dirs, Directory
<1>4. CASE platform # "windows"
  <2>1. durable' = durable \cup {Set(s, n, c) : s \in durable}
    BY <1>4 DEF Sets, OnDisk
  <2> QED BY <1>1, <1>2, <1>4, <2>1 DEF Dirs, Directory
<1> QED BY <1>3, <1>4

(* The same of a rename.                                                   *)
LEMMA RenamesFacts ==
    ASSUME Dirs, NEW a \in Files, NEW b \in Files, a # b, Renames(a, b), UNCHANGED platform
    PROVE  /\ Dirs' /\ Moved(a, b, fs, fs')
           /\ \A d \in durable' : \/ d \in durable /\ platform # "windows"
                                  \/ \E s \in durable : Moved(a, b, s, d)
<1>1. ASSUME NEW s \in [Files -> Contents]
      PROVE  Rename(s, a, b) \in [Files -> Contents] /\ Moved(a, b, s, Rename(s, a, b))
  BY DEF Rename, Moved, Contents
<1>2. fs' = Rename(fs, a, b) /\ fs' \in [Files -> Contents] /\ Moved(a, b, fs, fs')
  BY <1>1 DEF Renames, Dirs
<1>3. CASE platform = "windows"
  BY <1>2, <1>3 DEF Renames, OnDisk, Dirs, Directory
<1>4. CASE platform # "windows"
  <2>1. durable' = durable \cup {Rename(s, a, b) : s \in durable}
    BY <1>4 DEF Renames, OnDisk
  <2> QED BY <1>1, <1>2, <1>4, <2>1 DEF Dirs, Directory
<1> QED BY <1>3, <1>4

(* A new temporary is one that no loss of power brings back.               *)
LEMMA FreshFacts ==
    ASSUME Unused # {}
    PROVE  Fresh \in Temps /\ fs[Fresh] = Absent /\ \A s \in durable : s[Fresh] = Absent
<1>1. Fresh \in Unused
  BY DEF Fresh
<1> QED BY <1>1 DEF Unused

(* What a report changes of a process's memory.                            *)
LEMMA EndsFacts ==
    ASSUME NEW p \in Processes, NEW kind \in Kinds, NEW paths \in SUBSET Files,
           Ends(p, kind, paths), proc[p] \in Memory
    PROVE  \E n \in Memory :
              /\ Become(p, n) /\ n.pc = "discard" /\ n.kind = kind /\ n.paths = paths
              /\ n.does = proc[p].does /\ n.exe0 = proc[p].exe0 /\ n.prev0 = proc[p].prev0
              /\ n.cand = proc[p].cand /\ n.kept = proc[p].kept /\ n.target = proc[p].target
<1> DEFINE m == proc[p]
           n == [m EXCEPT !.pc = "discard", !.kind = kind, !.paths = paths]
<1>1. n \in Memory
  BY DEF Memory, Steps
<1>2. Become(p, n)
  BY DEF Ends
<1>3. /\ n.pc = "discard" /\ n.kind = kind /\ n.paths = paths
      /\ n.does = m.does /\ n.exe0 = m.exe0 /\ n.prev0 = m.prev0
      /\ n.cand = m.cand /\ n.kept = m.kept /\ n.target = m.target
  BY DEF Memory
<1> HIDE DEF n
<1> QED BY <1>1, <1>2, <1>3

-----------------------------------------------------------------------------
(* Only the holder is past the locks.                                      *)

\* What Secured says while m is the holder's.
SecuredFor(m, s) ==
    \/ \E t \in Temps \ {m.cand} : (t = m.kept => m.pc \in Reported) /\ s[t] = accepted
    \/ IF m.pc \in Transacting THEN m.exe0 = accepted ELSE s[Exe] = accepted

LEMMA Alone ==
    ASSUME IInv, NEW p \in Processes, proc[p].pc \notin Waiting
    PROVE  /\ holder = p /\ Dirs /\ proc[p] \in Memory /\ SoundAs(proc[p])
           /\ \A q \in Processes \ {p} :
                 proc[q].pc \in Waiting /\ proc[q].cand = None /\ proc[q].kept = None
           /\ \A s \in durable : ~removed => SecuredFor(proc[p], s)
<1>1. /\ holder = p /\ Dirs /\ proc[p] \in Memory /\ SoundAs(proc[p])
      /\ \A q \in Processes \ {p} :
            proc[q].pc \in Waiting /\ proc[q].cand = None /\ proc[q].kept = None
  BY DEF IInv, TypeOK, Dirs, Waiting, SoundAs, Recalls
<1>2. ASSUME NEW s \in durable, ~removed PROVE SecuredFor(proc[p], s)
  <2>1. Secured(s)
    BY <1>2 DEF IInv
  <2>2. \A q \in Processes : proc[q].pc \in Transacting => q = p
    BY <1>1 DEF Waiting, Transacting
  <2> QED BY <1>1, <2>1, <2>2 DEF Secured, SecuredFor, Spare
<1> QED BY <1>1, <1>2

(* A step of the holder that keeps the locks.                              *)
LEMMA HolderStep ==
    ASSUME IInv, NEW p \in Processes, proc[p].pc \notin Waiting,
           NEW n \in Memory, n.pc \notin Waiting, Become(p, n),
           UNCHANGED <<platform, holder, latest, removed>>, accepted' \in Versions, Dirs',
           SoundAs(n)',
           \A s \in durable' : Upright(s)' /\ (~removed => SecuredFor(n, s)')
    PROVE  IInv'
<1>1. /\ holder = p
      /\ \A q \in Processes \ {p} :
            proc[q].pc \in Waiting /\ proc[q].cand = None /\ proc[q].kept = None
  BY Alone
<1>2. proc' \in [Processes -> Memory] /\ proc'[p] = n
      /\ \A q \in Processes \ {p} : proc'[q] = proc[q]
  BY DEF IInv, Become
<1>3. TypeOK'
  BY <1>1, <1>2 DEF IInv, TypeOK, Dirs, Memory, Waiting
<1>4. ASSUME NEW q \in Processes \ {p} PROVE SoundAs(proc[q])'
  <2>1. proc[q].pc \in Waiting /\ SoundAs(proc[q]) /\ proc'[q] = proc[q]
    BY <1>1, <1>2 DEF IInv
  <2> QED BY <2>1 DEF SoundAs, Seen, Settled, Recalls, ReportHolds, Left, Waiting, Transacting, Reported
<1>5. \A q \in Processes : SoundAs(proc[q])'
  BY <1>2, <1>4
<1>6. ASSUME NEW s \in durable', ~removed PROVE Secured(s)'
  <2>1. \A q \in Processes : proc'[q].pc \in Transacting => q = p
    BY <1>1, <1>2 DEF Waiting, Transacting
  <2>2. SecuredFor(n, s)'
    BY <1>6
  <2>3. ASSUME NEW t \in Temps \ {n.cand}, t = n.kept => n.pc \in Reported
        PROVE  Spare(t)'
    BY <1>1, <1>2, <2>3, NamesAssumption DEF Spare
  <2> QED BY <1>2, <2>1, <2>2, <2>3 DEF Secured, SecuredFor
<1> QED BY <1>2, <1>3, <1>5, <1>6 DEF IInv, Dirs

-----------------------------------------------------------------------------
(* Steps that touch no file.                                               *)

\* Nothing but the memory of p and the fault counter moves.
Still == UNCHANGED <<fs, durable, platform, holder, latest, accepted, removed>>

LEMMA StillStep ==
    ASSUME IInv, NEW p \in Processes, proc[p].pc \notin Waiting, Still,
           NEW n \in Memory, n.pc \notin Waiting, Become(p, n),
           SoundAs(n), \A s \in durable : ~removed => SecuredFor(n, s)
    PROVE  IInv'
<1>1. Dirs' /\ accepted' \in Versions
  BY DEF Still, IInv, TypeOK, Dirs, Directory
<1>2. SoundAs(n)'
  BY DEF Still, SoundAs, Seen, Settled, Recalls, ReportHolds, Left, Found, Staged, Copied, Away,
         Installed, Kept
<1>3. \A s \in durable' : Upright(s)' /\ (~removed => SecuredFor(n, s)')
  BY DEF Still, IInv, Upright, SecuredFor
<1> QED BY <1>1, <1>2, <1>3, HolderStep DEF Still

(* A plain failure that left everything as it was found.                   *)
LEMMA Fails ==
    ASSUME IInv, NEW p \in Processes, Still,
           proc[p].pc \notin Waiting \cup Reported, proc[p].does \in {"upgrade", "rollback"},
           Found(proc[p], fs), proc[p].pc \notin Transacting \/ durable = {fs},
           NEW k \in Kinds \ {"ok", "incomplete", "manual_intervention"}, Ends(p, k, {})
    PROVE  IInv'
<1> DEFINE m == proc[p]
<1>1. m \in Memory /\ SoundAs(m) /\ m.pc \notin Waiting
      /\ \A s \in durable : ~removed => SecuredFor(m, s)
  BY Alone DEF Waiting
<1>2. PICK n \in Memory :
              /\ Become(p, n) /\ n.pc = "discard" /\ n.kind = k /\ n.paths = {}
              /\ n.does = m.does /\ n.exe0 = m.exe0 /\ n.prev0 = m.prev0
              /\ n.cand = m.cand /\ n.kept = m.kept /\ n.target = m.target
  BY <1>1, EndsFacts
<1>4. SoundAs(n)
  BY <1>1, <1>2
     DEF SoundAs, Seen, Settled, Recalls, ReportHolds, Left, Found, Waiting, Transacting, Reported
<1>5. ASSUME NEW s \in durable, ~removed PROVE SecuredFor(n, s)
  BY <1>1, <1>2, <1>5 DEF SecuredFor, Found, Transacting, Reported
<1> QED BY <1>1, <1>2, <1>4, <1>5, StillStep DEF Waiting

LEMMA ReleaseKeeps ==
    ASSUME IInv, NEW p \in Processes, Release(p) PROVE IInv'
<1> DEFINE m == proc[p]
<1>1. m \in Memory /\ SoundAs(m) /\ m.pc = "release" /\ Still /\ Dirs
      /\ \A s \in durable : ~removed => SecuredFor(m, s)
  BY Alone DEF Release, Waiting, Still, Files0, Others
<1>2. m.pc \notin Waiting \cup Reported /\ m.does = "upgrade" /\ Found(m, fs) /\ m.pc \notin Transacting
  BY <1>1 DEF Waiting, Reported, Transacting, SoundAs, Seen, Recalls
<1>3. CASE \E k \in {"unavailable", "release_invalid", "no_change", "downgrade"} : Ends(p, k, {})
  BY <1>1, <1>2, <1>3, Fails DEF Kinds
<1>4. ASSUME NEW v \in Versions,
             Become(p, [m EXCEPT !.pc = "stage", !.target = v, !.from = v])
      PROVE  IInv'
  <2> DEFINE n == [m EXCEPT !.pc = "stage", !.target = v, !.from = v]
  <2>1. n \in Memory /\ n.pc = "stage" /\ Become(p, n)
    <3>1. n \in Memory
      BY <1>1, <1>4 DEF Memory, Steps, Contents
    <3>2. n.pc = "stage"
      BY <1>1 DEF Memory
    <3> QED BY <1>4, <3>1, <3>2
  <2>2. /\ n.from = v /\ n.does = m.does /\ n.exe0 = m.exe0 /\ n.prev0 = m.prev0
        /\ n.cand = m.cand /\ n.kept = m.kept /\ n.paths = m.paths
    BY <1>1 DEF Memory
  <2>3. SoundAs(n)
    BY <1>1, <1>2, <2>1, <2>2
       DEF SoundAs, Seen, Settled, Recalls, ReportHolds, Left, Found, Waiting, Transacting, Reported
  <2>4. ASSUME NEW s \in durable, ~removed PROVE SecuredFor(n, s)
    BY <1>1, <2>1, <2>2, <2>4 DEF SecuredFor, Transacting, Reported
  <2> QED BY <1>1, <1>2, <2>1, <2>3, <2>4, StillStep DEF Waiting
<1>5. Chosen(p) \in Versions \/ ~(Chosen(p) > m.image)
  <2>1. /\ m.want \in Versions \cup {0} /\ m.image \in Versions \cup {0} /\ latest \in Versions
        /\ Versions \subseteq Nat
    BY <1>1, VersionsAssumption DEF Memory, IInv, TypeOK
  <2> QED BY <2>1 DEF Chosen
<1> QED BY <1>3, <1>4, <1>5 DEF Release

-----------------------------------------------------------------------------
(* Up to the locks' first use: the candidate.                              *)

\* Two memories that differ at most in where the process is.
Alike(n, m) ==
    /\ n.does = m.does /\ n.image = m.image /\ n.from = m.from /\ n.target = m.target
    /\ n.cand = m.cand /\ n.kept = m.kept /\ n.kind = m.kind /\ n.paths = m.paths
    /\ n.exe0 = m.exe0 /\ n.prev0 = m.prev0

LEMMA GotoFacts ==
    ASSUME NEW p \in Processes, NEW l \in Steps, Goto(p, l), proc[p] \in Memory
    PROVE  \E n \in Memory : Become(p, n) /\ n.pc = l /\ Alike(n, proc[p])
<1> DEFINE m == proc[p]
           n == [m EXCEPT !.pc = l]
<1>1. n \in Memory
  BY DEF Memory
<1>2. Become(p, n)
  BY DEF Goto
<1>3. n.pc = l /\ Alike(n, m)
  BY DEF Memory, Alike
<1> HIDE DEF n
<1> QED BY <1>1, <1>2, <1>3

LEMMA ReadPreviousKeeps ==
    ASSUME IInv, NEW p \in Processes, ReadPrevious(p) PROVE IInv'
<1> DEFINE m == proc[p]
<1>1. m \in Memory /\ SoundAs(m) /\ m.pc = "previous" /\ Still /\ Dirs
      /\ \A s \in durable : (~removed => SecuredFor(m, s)) /\ Upright(s)
  BY Alone DEF ReadPrevious, Waiting, Still, Files0, Others, IInv
<1>2. m.pc \notin Waiting \cup Reported /\ m.does = "rollback" /\ Found(m, fs) /\ m.pc \notin Transacting
  BY <1>1 DEF Waiting, Reported, Transacting, SoundAs, Seen, Recalls
<1>3. CASE \E k \in {"previous_invalid", "no_previous"} : Ends(p, k, {})
  BY <1>1, <1>2, <1>3, Fails DEF Kinds
<1>4. ASSUME fs[Prev] # Absent, Become(p, [m EXCEPT !.pc = "stage", !.from = fs[Prev]])
      PROVE  IInv'
  <2>1. fs[Prev] \in Versions
    BY <1>1, <1>4 DEF Dirs, Contents, Files, Upright
  <2>2. PICK n \in Memory :
              /\ Become(p, n) /\ n.pc = "stage" /\ n.from = fs[Prev]
              /\ n.does = m.does /\ n.exe0 = m.exe0 /\ n.prev0 = m.prev0
              /\ n.cand = m.cand /\ n.kept = m.kept /\ n.paths = m.paths
    <3> DEFINE k == [m EXCEPT !.pc = "stage", !.from = fs[Prev]]
    <3>1. k \in Memory
      BY <1>1, <2>1 DEF Memory, Steps, Contents
    <3>2. /\ k.pc = "stage" /\ k.from = fs[Prev]
          /\ k.does = m.does /\ k.exe0 = m.exe0 /\ k.prev0 = m.prev0
          /\ k.cand = m.cand /\ k.kept = m.kept /\ k.paths = m.paths
      BY <1>1 DEF Memory
    <3>3. Become(p, k)
      BY <1>4
    <3> HIDE DEF k
    <3> QED BY <3>1, <3>2, <3>3
  <2>4. SoundAs(n)
    BY <1>1, <1>2, <2>1, <2>2
       DEF SoundAs, Seen, Settled, Recalls, ReportHolds, Left, Found, Waiting, Transacting, Reported
  <2>5. ASSUME NEW s \in durable, ~removed PROVE SecuredFor(n, s)
    BY <1>1, <2>2, <2>5 DEF SecuredFor, Transacting, Reported
  <2> QED BY <1>1, <1>2, <2>2, <2>4, <2>5, StillStep DEF Waiting
<1> QED BY <1>3, <1>4 DEF ReadPrevious

LEMMA StageKeeps ==
    ASSUME IInv, NEW p \in Processes, Stage(p) PROVE IInv'
<1> DEFINE m == proc[p]
<1>1. m \in Memory /\ SoundAs(m) /\ m.pc = "stage" /\ Dirs
      /\ \A s \in durable : (~removed => SecuredFor(m, s)) /\ Upright(s)
  BY Alone DEF Stage, Waiting, IInv
<1>2. /\ Found(m, fs) /\ m.pc \notin Waiting \cup Reported \cup Transacting
      /\ UNCHANGED <<platform, holder, latest, accepted, removed>>
  BY <1>1 DEF Stage, Others, Waiting, Reported, Transacting, SoundAs, Seen
<1>3. PICK t \in Temps : /\ fs[t] = Absent /\ \A s \in durable : s[t] = Absent
                         /\ Sets(t, Partial)
                         /\ Become(p, [m EXCEPT !.pc = "fill", !.cand = t])
  BY FreshFacts DEF Stage
<1>4. /\ Dirs' /\ Wrote(t, Partial, fs, fs')
      /\ \A d \in durable' : d \in durable \/ \E s \in durable : Wrote(t, Partial, s, d)
  BY <1>1, <1>2, <1>3, SetsFacts DEF Files, Contents
<1>6. PICK n \in Memory :
            /\ Become(p, n) /\ n.pc = "fill" /\ n.cand = t /\ n.from = m.from
            /\ n.does = m.does /\ n.exe0 = m.exe0 /\ n.prev0 = m.prev0
            /\ n.kept = m.kept /\ n.paths = m.paths
  <2> DEFINE k == [m EXCEPT !.pc = "fill", !.cand = t]
  <2>1. k \in Memory
    BY <1>1 DEF Memory, Steps
  <2>2. /\ k.pc = "fill" /\ k.cand = t /\ k.from = m.from
        /\ k.does = m.does /\ k.exe0 = m.exe0 /\ k.prev0 = m.prev0
        /\ k.kept = m.kept /\ k.paths = m.paths
    BY <1>1 DEF Memory
  <2>3. Become(p, k)
    BY <1>3
  <2> HIDE DEF k
  <2> QED BY <2>1, <2>2, <2>3
<1>7. t \notin {Exe, Prev} /\ Exe \in Files /\ Prev \in Files /\ Temps \subseteq Files
  BY NamesAssumption DEF Files
<1>8. SoundAs(n)'
  BY <1>1, <1>2, <1>3, <1>4, <1>6, <1>7
     DEF SoundAs, Seen, Settled, Recalls, ReportHolds, Left, Found, Waiting, Transacting, Reported, Wrote
<1>9. ASSUME NEW d \in durable' PROVE Upright(d)' /\ (~removed => SecuredFor(n, d)')
  <2>1. PICK s \in durable : \A k \in Files \ {t} : d[k] = s[k]
    BY <1>4 DEF Wrote
  <2>2. Upright(d)'
    BY <1>1, <1>2, <1>7, <2>1 DEF Upright
  <2>3. ASSUME ~removed PROVE SecuredFor(n, d)'
    <3>1. SecuredFor(m, s) /\ s[t] = Absent /\ accepted # Absent
      BY <1>1, <1>3, <2>3, NamesAssumption DEF IInv, TypeOK
    <3> QED BY <1>2, <1>6, <1>7, <2>1, <3>1 DEF SecuredFor, Transacting, Reported
  <2> QED BY <2>2, <2>3
<1> QED BY <1>2, <1>4, <1>6, <1>8, <1>9, HolderStep DEF Waiting, IInv, TypeOK

LEMMA FillKeeps ==
    ASSUME IInv, NEW p \in Processes, Fill(p) PROVE IInv'
<1> DEFINE m == proc[p]
<1>1. m \in Memory /\ SoundAs(m) /\ m.pc = "fill" /\ Dirs
      /\ \A s \in durable : (~removed => SecuredFor(m, s)) /\ Upright(s)
  BY Alone DEF Fill, Waiting, IInv
<1>2. /\ Found(m, fs) /\ m.pc \notin Waiting \cup Reported \cup Transacting
      /\ m.cand \in Temps /\ m.from \in Versions
      /\ UNCHANGED <<platform, holder, latest, accepted, removed>>
  BY <1>1 DEF Fill, Others, Waiting, Reported, Transacting, SoundAs, Seen, Recalls
<1>3. m.cand \notin {Exe, Prev} /\ Exe \in Files /\ Prev \in Files /\ Temps \subseteq Files
  BY <1>2, NamesAssumption DEF Files
<1>4. CASE WritesAndSyncs(m.cand, m.from) /\ Goto(p, "check")
  <2>1. /\ Dirs' /\ Wrote(m.cand, m.from, fs, fs') /\ durable' = {fs'}
    BY <1>1, <1>2, <1>3, <1>4 DEF WritesAndSyncs, Set, Dirs, Wrote, Directory, Contents
  <2>2. PICK n \in Memory : Become(p, n) /\ n.pc = "check" /\ Alike(n, m)
    BY <1>1, <1>4, GotoFacts DEF Steps
  <2>3. SoundAs(n)'
    BY <1>1, <1>2, <1>3, <2>1, <2>2
       DEF SoundAs, Seen, Settled, Recalls, ReportHolds, Left, Found, Waiting, Transacting, Reported,
           Wrote, Alike
  <2>4. ASSUME NEW d \in durable' PROVE Upright(d)' /\ (~removed => SecuredFor(n, d)')
    BY <1>1, <1>2, <1>3, <2>1, <2>2
       DEF Upright, SecuredFor, Transacting, Reported, Wrote, Alike, Found, Dirs
  <2> QED BY <1>2, <2>1, <2>2, <2>3, <2>4, HolderStep DEF Waiting, IInv, TypeOK
<1>5. CASE Sets(m.cand, Absent) /\ Ends(p, "staging", {})
  <2>1. /\ Dirs' /\ Wrote(m.cand, Absent, fs, fs')
        /\ \A d \in durable' : d \in durable \/ \E s \in durable : Wrote(m.cand, Absent, s, d)
    BY <1>1, <1>2, <1>3, <1>5, SetsFacts DEF Contents
  <2>2. PICK n \in Memory :
              /\ Become(p, n) /\ n.pc = "discard" /\ n.kind = "staging" /\ n.paths = {}
              /\ n.does = m.does /\ n.exe0 = m.exe0 /\ n.prev0 = m.prev0
              /\ n.cand = m.cand /\ n.kept = m.kept /\ n.target = m.target
    BY <1>1, <1>5, EndsFacts DEF Kinds
  <2>3. SoundAs(n)'
    BY <1>1, <1>2, <1>3, <2>1, <2>2
       DEF SoundAs, Seen, Settled, Recalls, ReportHolds, Left, Found, Waiting, Transacting, Reported, Wrote
  <2>4. ASSUME NEW d \in durable' PROVE Upright(d)' /\ (~removed => SecuredFor(n, d)')
    <3>1. PICK s \in durable : \A k \in Files \ {m.cand} : d[k] = s[k]
      BY <2>1 DEF Wrote
    <3> QED BY <1>1, <1>2, <1>3, <2>2, <3>1 DEF Upright, SecuredFor, Transacting, Reported
  <2> QED BY <1>2, <2>1, <2>2, <2>3, <2>4, HolderStep DEF Waiting, IInv, TypeOK
<1> QED BY <1>4, <1>5 DEF Fill

LEMMA CheckKeeps ==
    ASSUME IInv, NEW p \in Processes, Check(p) PROVE IInv'
<1> DEFINE m == proc[p]
<1>1. m \in Memory /\ SoundAs(m) /\ m.pc = "check" /\ Still
      /\ \A s \in durable : ~removed => SecuredFor(m, s)
  BY Alone DEF Check, Waiting, Still, Files0, Others
<1>2. /\ m.pc \notin Waiting \cup Reported /\ m.does \in {"upgrade", "rollback"}
      /\ Found(m, fs) /\ durable = {fs} /\ fs[m.cand] = m.from /\ m.cand \in Temps /\ m.paths = {}
      /\ m.does = "rollback" => m.from = m.prev0
  BY <1>1 DEF Waiting, Reported, Transacting, SoundAs, Seen, Settled, Recalls
<1>3. CASE \E k \in {"replacement_failed", "candidate_invalid", "previous_invalid"} : Ends(p, k, {})
  BY <1>1, <1>2, <1>3, Fails DEF Kinds
<1>4. ASSUME NEW l \in {"reserve", "snapshot"}, l = "reserve" <=> platform = "windows", Runs(m.from),
             Become(p, [m EXCEPT !.target = m.from, !.pc = l])
      PROVE  IInv'
  <2>1. PICK n \in Memory :
              /\ Become(p, n) /\ n.pc = l /\ n.target = m.from
              /\ n.does = m.does /\ n.exe0 = m.exe0 /\ n.prev0 = m.prev0
              /\ n.cand = m.cand /\ n.kept = m.kept /\ n.paths = m.paths
    <3> DEFINE k == [m EXCEPT !.target = m.from, !.pc = l]
    <3>1. k \in Memory
      BY <1>1, <1>4, VersionsAssumption DEF Memory, Steps, Runs
    <3>2. /\ k.pc = l /\ k.target = m.from
          /\ k.does = m.does /\ k.exe0 = m.exe0 /\ k.prev0 = m.prev0
          /\ k.cand = m.cand /\ k.kept = m.kept /\ k.paths = m.paths
      BY <1>1 DEF Memory
    <3>3. Become(p, k)
      BY <1>4
    <3> HIDE DEF k
    <3> QED BY <3>1, <3>2, <3>3
  <2>2. platform \in {"posix", "windows"}
    BY DEF IInv, TypeOK
  <2>3. SoundAs(n)
    BY <1>1, <1>2, <1>4, <2>1, <2>2
       DEF SoundAs, Seen, Settled, Recalls, ReportHolds, Left, Found, Staged, Waiting, Transacting,
           Reported, Runs
  <2>4. ASSUME NEW s \in durable, ~removed PROVE SecuredFor(n, s)
    BY <1>1, <1>4, <2>1, <2>4 DEF SecuredFor, Transacting, Reported
  <2> QED BY <1>1, <1>2, <1>4, <2>1, <2>3, <2>4, StillStep DEF Waiting
<1>5. \/ \E k \in {"replacement_failed", "candidate_invalid", "previous_invalid"} : Ends(p, k, {})
      \/ \E l \in {"reserve", "snapshot"} :
            /\ l = "reserve" <=> platform = "windows"
            /\ Runs(m.from) /\ Become(p, [m EXCEPT !.target = m.from, !.pc = l])
  BY DEF Check
<1> QED BY <1>3, <1>4, <1>5

-----------------------------------------------------------------------------
(* The transaction on POSIX.                                               *)

LEMMA DurableSnapshotKeeps ==
    ASSUME IInv, NEW p \in Processes, DurableSnapshot(p) PROVE IInv'
<1> DEFINE m == proc[p]
<1>1. m \in Memory /\ SoundAs(m) /\ m.pc = "snapshot" /\ Dirs
      /\ \A s \in durable : (~removed => SecuredFor(m, s)) /\ Upright(s)
  BY Alone DEF DurableSnapshot, Waiting, IInv
<1>2. /\ Found(m, fs) /\ Staged(m, fs) /\ m.pc \notin Waiting \cup Reported /\ durable = {fs}
      /\ m.cand \in Temps /\ m.does \in {"upgrade", "rollback"} /\ m.target \in Versions
      /\ UNCHANGED <<platform, holder, latest, accepted, removed>>
  BY <1>1 DEF DurableSnapshot, Others, Waiting, Reported, Transacting, SoundAs, Seen, Settled,
              Recalls, Staged
<1>3. CASE Ends(p, "replacement_failed", {}) /\ Files0
  BY <1>1, <1>2, <1>3, Fails DEF Still, Files0, Kinds
<1>4. ASSUME fs[Exe] # Absent, NEW t \in Temps, fs[t] = Absent, Sets(t, Partial),
             Become(p, [m EXCEPT !.pc = "copy", !.kept = t])
      PROVE  IInv'
  <2>1. PICK n \in Memory :
              /\ Become(p, n) /\ n.pc = "copy" /\ n.kept = t /\ n.target = m.target
              /\ n.does = m.does /\ n.exe0 = m.exe0 /\ n.prev0 = m.prev0
              /\ n.cand = m.cand /\ n.paths = m.paths
    <3> DEFINE k == [m EXCEPT !.pc = "copy", !.kept = t]
    <3>1. k \in Memory
      BY <1>1 DEF Memory, Steps
    <3>2. /\ k.pc = "copy" /\ k.kept = t /\ k.target = m.target
          /\ k.does = m.does /\ k.exe0 = m.exe0 /\ k.prev0 = m.prev0
          /\ k.cand = m.cand /\ k.paths = m.paths
      BY <1>1 DEF Memory
    <3>3. Become(p, k)
      BY <1>4
    <3> HIDE DEF k
    <3> QED BY <3>1, <3>2, <3>3
  <2>2. t \notin {Exe, Prev} /\ {Exe, Prev} \subseteq Files /\ Temps \subseteq Files
        /\ m.cand \notin {Exe, Prev} /\ t # m.cand
    BY <1>2, <1>4, NamesAssumption DEF Files, Staged
  <2>3. /\ Dirs' /\ Wrote(t, Partial, fs, fs')
        /\ \A d \in durable' : d = fs \/ Wrote(t, Partial, fs, d)
    BY <1>1, <1>2, <1>4, <2>2, SetsFacts DEF Contents
  <2>4. m.exe0 \in Versions
    BY <1>1, <1>2, <1>4, <2>2 DEF Found, Dirs, Contents, Upright
  <2>5. SoundAs(n)'
    BY <1>1, <1>2, <1>4, <2>1, <2>2, <2>3, <2>4
       DEF SoundAs, Seen, Settled, Recalls, ReportHolds, Left, Found, Staged, Waiting, Transacting,
           Reported, Wrote
  <2>6. ASSUME NEW d \in durable' PROVE Upright(d)' /\ (~removed => SecuredFor(n, d)')
    <3>1. /\ \A k \in Files \ {t} : d[k] = fs[k]
          /\ fs[t] = Absent /\ accepted # Absent
      BY <1>4, <2>3, NamesAssumption DEF Wrote, IInv, TypeOK
    <3> QED BY <1>1, <1>2, <2>1, <2>2, <3>1 DEF Upright, SecuredFor, Transacting, Reported
  <2> QED BY <1>2, <2>1, <2>3, <2>5, <2>6, HolderStep DEF Waiting, IInv, TypeOK
<1> QED BY <1>3, <1>4, FreshFacts DEF DurableSnapshot

LEMMA CopyExecutableKeeps ==
    ASSUME IInv, NEW p \in Processes, CopyExecutable(p) PROVE IInv'
<1> DEFINE m == proc[p]
<1>1. m \in Memory /\ SoundAs(m) /\ m.pc = "copy" /\ Dirs
      /\ \A s \in durable : (~removed => SecuredFor(m, s)) /\ Upright(s) /\ Left(m, s)
  BY Alone DEF CopyExecutable, Waiting, IInv, SoundAs
<1>2. /\ Staged(m, fs) /\ m.pc \notin Waiting \cup Reported
      /\ m.cand \in Temps /\ m.kept \in Temps /\ m.kept # m.cand /\ m.exe0 \in Versions
      /\ m.does \in {"upgrade", "rollback"}
      /\ UNCHANGED <<platform, holder, latest, accepted, removed>>
      /\ \A s \in durable : Staged(m, s)
  BY <1>1 DEF CopyExecutable, Others, Waiting, Reported, Transacting, SoundAs, Seen, Recalls, Left
<1>3. /\ m.cand \notin {Exe, Prev} /\ m.kept \notin {Exe, Prev} /\ Exe # Prev
      /\ {Exe, Prev} \subseteq Files /\ Temps \subseteq Files
  BY <1>2, NamesAssumption DEF Files, Exe, Prev
<1>4. CASE WritesAndSyncs(m.kept, fs[Exe]) /\ Goto(p, "install")
  <2>1. /\ Dirs' /\ Wrote(m.kept, m.exe0, fs, fs') /\ durable' = {fs'}
    BY <1>1, <1>2, <1>3, <1>4
       DEF WritesAndSyncs, Set, Dirs, Wrote, Directory, Contents, Staged, Found
  <2>2. PICK n \in Memory : Become(p, n) /\ n.pc = "install" /\ Alike(n, m)
    BY <1>1, <1>4, GotoFacts DEF Steps
  <2>3. SoundAs(n)'
    BY <1>1, <1>2, <1>3, <2>1, <2>2
       DEF SoundAs, Seen, Settled, Recalls, ReportHolds, Left, Found, Staged, Copied, Waiting,
           Transacting, Reported, Wrote, Alike
  <2>4. ASSUME NEW d \in durable' PROVE Upright(d)' /\ (~removed => SecuredFor(n, d)')
    BY <1>1, <1>2, <1>3, <2>1, <2>2
       DEF Upright, SecuredFor, Transacting, Reported, Wrote, Alike, Found, Dirs
  <2> QED BY <1>2, <2>1, <2>2, <2>3, <2>4, HolderStep DEF Waiting, IInv, TypeOK
<1>5. CASE Sets(m.kept, Absent) /\ Ends(p, "replacement_failed", {})
  <2>1. /\ Dirs' /\ Wrote(m.kept, Absent, fs, fs')
        /\ \A d \in durable' : d \in durable \/ \E s \in durable : Wrote(m.kept, Absent, s, d)
    BY <1>1, <1>2, <1>3, <1>5, SetsFacts DEF Contents
  <2>2. PICK n \in Memory :
              /\ Become(p, n) /\ n.pc = "discard" /\ n.kind = "replacement_failed" /\ n.paths = {}
              /\ n.does = m.does /\ n.exe0 = m.exe0 /\ n.prev0 = m.prev0
              /\ n.cand = m.cand /\ n.kept = m.kept /\ n.target = m.target
    BY <1>1, <1>5, EndsFacts DEF Kinds
  <2>3. SoundAs(n)'
    BY <1>1, <1>2, <1>3, <2>1, <2>2
       DEF SoundAs, Seen, Settled, Recalls, ReportHolds, Left, Found, Staged, Waiting, Transacting,
           Reported, Wrote
  <2>4. ASSUME NEW d \in durable' PROVE Upright(d)' /\ (~removed => SecuredFor(n, d)')
    <3>1. PICK s \in durable : \A k \in Files \ {m.kept} : d[k] = s[k]
      BY <2>1 DEF Wrote
    <3>2. s[Exe] = m.exe0
      BY <1>2 DEF Staged, Found
    <3> QED BY <1>1, <1>2, <1>3, <2>2, <3>1, <3>2 DEF Upright, SecuredFor, Transacting, Reported
  <2> QED BY <1>2, <2>1, <2>2, <2>3, <2>4, HolderStep DEF Waiting, IInv, TypeOK
<1> QED BY <1>4, <1>5 DEF CopyExecutable

\* What holds at every step from the installation on.
Underway(p) ==
    LET m == proc[p] IN
    /\ m \in Memory /\ SoundAs(m) /\ Dirs
    /\ m.cand \in Temps /\ m.kept \in Temps /\ m.kept # m.cand
    /\ Exe \notin Temps /\ Prev \notin Temps /\ Exe # Prev
    /\ {Exe, Prev} \subseteq Files /\ Temps \subseteq Files
    /\ m.exe0 \in Versions /\ m.target \in Versions \ Broken
    /\ Absent \notin Versions /\ Partial \notin Versions
    /\ m.does \in {"upgrade", "rollback"}
    /\ m.does = "rollback" => m.target = m.prev0
    /\ m.paths = {}
    /\ platform = "posix" /\ ~removed => Runs(m.exe0)
    /\ \A s \in durable : (~removed => SecuredFor(m, s)) /\ Upright(s) /\ Left(m, s)
    /\ platform \in {"posix", "windows"} /\ accepted \in Versions

LEMMA UnderwayFacts ==
    ASSUME IInv, NEW p \in Processes,
           proc[p].pc \in {"install", "sync", "validate", "keep", "syncKept", "restore",
                           "syncRestored", "place", "displace", "moveout", "putback"}
    PROVE  Underway(p)
<1> DEFINE m == proc[p]
<1>1. m \in Memory /\ SoundAs(m) /\ Dirs /\ \A s \in durable : ~removed => SecuredFor(m, s)
  BY Alone DEF Waiting
<1>2. /\ m.cand \in Temps
      /\ m.kept \in Temps /\ m.kept # m.cand
      /\ m.exe0 \in Versions /\ m.target \in Versions \ Broken
      /\ m.does \in {"upgrade", "rollback"}
      /\ m.does = "rollback" => m.target = m.prev0
      /\ m.paths = {}
      /\ platform = "posix" /\ ~removed => Runs(m.exe0)
      /\ \A s \in durable : Left(m, s)
  BY <1>1, VersionsAssumption DEF SoundAs, Recalls, Transacting, Reported
<1>3. \A s \in durable : Upright(s)
  BY DEF IInv
<1> QED BY <1>1, <1>2, <1>3, NamesAssumption DEF Underway, IInv, TypeOK, Files, Exe, Prev

LEMMA InstallCandidateKeeps ==
    ASSUME IInv, NEW p \in Processes, InstallCandidate(p) PROVE IInv'
<1> DEFINE m == proc[p]
<1>1. Underway(p) /\ m.pc = "install" /\ UNCHANGED <<platform, holder, latest, accepted, removed>>
  BY UnderwayFacts DEF InstallCandidate, Others
<1>2. Copied(m, fs) /\ Found(m, fs) /\ durable = {fs} /\ platform = "posix"
  BY <1>1 DEF Underway, SoundAs, Seen, Settled, Recalls, Copied, Staged
<1>3. CASE Renames(m.cand, Exe) /\ Goto(p, "sync")
  <2>1. /\ Dirs' /\ Moved(m.cand, Exe, fs, fs')
        /\ \A d \in durable' : d = fs \/ Moved(m.cand, Exe, fs, d)
    BY <1>1, <1>2, <1>3, RenamesFacts DEF Underway
  <2>2. PICK n \in Memory : Become(p, n) /\ n.pc = "sync" /\ Alike(n, m)
    BY <1>1, <1>3, GotoFacts DEF Steps, Underway
  <2>3. \A d : Moved(m.cand, Exe, fs, d) => Installed(m, d)
    BY <1>1, <1>2 DEF Underway, Moved, Copied, Staged, Found, Installed
  <2>4. SoundAs(n)'
    BY <1>1, <1>2, <2>1, <2>2, <2>3
       DEF Underway, SoundAs, Seen, Settled, Recalls, ReportHolds, Left, Found, Staged, Copied,
           Installed, Waiting, Transacting, Reported, Alike
  <2>5. ASSUME NEW d \in durable' PROVE Upright(d)' /\ (~removed => SecuredFor(n, d)')
    <3>1. d = fs \/ (Installed(m, d) /\ \A k \in Temps \ {m.cand} : d[k] = fs[k])
      BY <1>1, <1>2, <2>1, <2>3 DEF Underway, Moved
    <3> QED BY <1>1, <1>2, <2>2, <3>1
            DEF Underway, Upright, SecuredFor, Transacting, Reported, Alike, Installed, Runs, Found
  <2> QED BY <1>1, <2>1, <2>2, <2>4, <2>5, HolderStep DEF Waiting, IInv, TypeOK
<1>4. CASE Sets(m.kept, Absent) /\ Ends(p, "replacement_failed", {})
  <2>1. /\ Dirs' /\ Wrote(m.kept, Absent, fs, fs')
        /\ \A d \in durable' : d = fs \/ Wrote(m.kept, Absent, fs, d)
    BY <1>1, <1>2, <1>4, SetsFacts DEF Contents, Underway
  <2>2. PICK n \in Memory :
              /\ Become(p, n) /\ n.pc = "discard" /\ n.kind = "replacement_failed" /\ n.paths = {}
              /\ n.does = m.does /\ n.exe0 = m.exe0 /\ n.prev0 = m.prev0
              /\ n.cand = m.cand /\ n.kept = m.kept /\ n.target = m.target
    BY <1>1, <1>4, EndsFacts DEF Kinds, Underway
  <2>3. SoundAs(n)'
    BY <1>1, <1>2, <2>1, <2>2
       DEF Underway, SoundAs, Seen, Settled, Recalls, ReportHolds, Left, Found, Waiting,
           Transacting, Reported, Wrote
  <2>4. ASSUME NEW d \in durable' PROVE Upright(d)' /\ (~removed => SecuredFor(n, d)')
    <3>1. \A k \in Files \ {m.kept} : d[k] = fs[k]
      BY <2>1 DEF Wrote
    <3> QED BY <1>1, <1>2, <2>2, <3>1
            DEF Underway, Upright, SecuredFor, Transacting, Reported, Found
  <2> QED BY <1>1, <2>1, <2>2, <2>3, <2>4, HolderStep DEF Waiting, IInv, TypeOK
<1> QED BY <1>3, <1>4 DEF InstallCandidate

(* Going on with what the directory already shows.                         *)
LEMMA GoesOn ==
    ASSUME IInv, NEW p \in Processes, Underway(p), proc[p].pc \in Transacting,
           NEW l \in Transacting, Goto(p, l),
           UNCHANGED <<platform, holder, latest, accepted, removed>>,
           fs' = fs, durable' = durable \/ durable' = {fs},
           \/ l = "validate" /\ Installed(proc[p], fs) /\ durable' = {fs}
           \/ l = "keep" /\ Installed(proc[p], fs) /\ durable' = {fs} /\ platform = "posix"
           \/ l = "displace" /\ Installed(proc[p], fs) /\ platform = "windows"
           \/ /\ l = "restore" /\ Installed(proc[p], fs) /\ platform = "posix"
              /\ \A s \in durable' : Copied(proc[p], s) \/ Installed(proc[p], s)
    PROVE  IInv'
<1> DEFINE m == proc[p]
<1>1. PICK n \in Memory : Become(p, n) /\ n.pc = l /\ Alike(n, m)
  BY GotoFacts DEF Underway, Transacting, Steps
<1>2. Dirs'
  BY DEF Dirs, Directory, Underway
<1>3. SoundAs(n)'
  BY <1>1
     DEF Underway, SoundAs, Seen, Settled, Recalls, ReportHolds, Left, Found, Staged, Copied,
         Installed, Waiting, Transacting, Reported, Alike
<1>4. ASSUME NEW d \in durable' PROVE Upright(d)' /\ (~removed => SecuredFor(n, d)')
  <2>1. d \in durable
    BY <1>4 DEF Underway, Dirs
  <2> QED BY <1>1, <2>1 DEF Underway, Upright, SecuredFor, Reported, Alike, Transacting
<1> QED BY <1>1, <1>2, <1>3, <1>4, HolderStep DEF Waiting, Transacting, IInv, TypeOK

LEMMA SyncInstalledKeeps ==
    ASSUME IInv, NEW p \in Processes, SyncInstalled(p) PROVE IInv'
<1>1. /\ Underway(p) /\ proc[p].pc = "sync"
      /\ UNCHANGED <<platform, holder, latest, accepted, removed>>
  BY UnderwayFacts DEF SyncInstalled, Others
<1>2. Installed(proc[p], fs) /\ platform = "posix"
      /\ \A s \in durable : Copied(proc[p], s) \/ Installed(proc[p], s)
  BY <1>1 DEF Underway, SoundAs, Seen, Recalls, Left
<1> QED BY <1>1, <1>2, GoesOn DEF SyncInstalled, Syncs, Files0, Transacting

LEMMA KeepPreviousKeeps ==
    ASSUME IInv, NEW p \in Processes, KeepPrevious(p) PROVE IInv'
<1> DEFINE m == proc[p]
<1>1. /\ Underway(p) /\ m.pc = "keep" /\ UNCHANGED <<platform, holder, latest, removed>>
      /\ accepted' = m.target
  BY UnderwayFacts DEF KeepPrevious
<1>2. Installed(m, fs) /\ durable = {fs} /\ platform = "posix"
  BY <1>1 DEF Underway, SoundAs, Seen, Settled, Recalls
<1>3. CASE Renames(m.kept, Prev) /\ Goto(p, "syncKept")
  <2>1. /\ Dirs' /\ Moved(m.kept, Prev, fs, fs')
        /\ \A d \in durable' : d = fs \/ Moved(m.kept, Prev, fs, d)
    BY <1>1, <1>2, <1>3, RenamesFacts DEF Underway
  <2>2. PICK n \in Memory : Become(p, n) /\ n.pc = "syncKept" /\ Alike(n, m)
    BY <1>1, <1>3, GotoFacts DEF Steps, Underway
  <2>3. \A d : Moved(m.kept, Prev, fs, d) => Kept(m, d)
    BY <1>1, <1>2 DEF Underway, Moved, Installed, Kept
  <2>4. SoundAs(n)'
    BY <1>1, <1>2, <2>1, <2>2, <2>3
       DEF Underway, SoundAs, Seen, Settled, Recalls, ReportHolds, Left, Found, Kept,
           Installed, Waiting, Transacting, Reported, Alike
  <2>5. ASSUME NEW d \in durable' PROVE Upright(d)' /\ (~removed => SecuredFor(n, d)')
    <3>1. d = fs \/ Kept(m, d)
      BY <2>1, <2>3
    <3> QED BY <1>1, <1>2, <2>2, <3>1
            DEF Underway, Upright, SecuredFor, Transacting, Reported, Alike, Installed, Kept, Runs
  <2> QED BY <1>1, <2>1, <2>2, <2>4, <2>5, HolderStep DEF Waiting, Underway
<1>4. CASE Files0 /\ Ends(p, "incomplete", {Exe, m.kept, Prev})
  <2>1. PICK n \in Memory :
              /\ Become(p, n) /\ n.pc = "discard" /\ n.kind = "incomplete"
              /\ n.paths = {Exe, m.kept, Prev}
              /\ n.does = m.does /\ n.exe0 = m.exe0 /\ n.prev0 = m.prev0
              /\ n.cand = m.cand /\ n.kept = m.kept /\ n.target = m.target
    BY <1>1, <1>4, EndsFacts DEF Kinds, Underway
  <2>2. Dirs' /\ fs' = fs /\ durable' = {fs}
    BY <1>1, <1>2, <1>4 DEF Files0, Dirs, Directory, Underway
  <2>3. SoundAs(n)'
    BY <1>1, <1>2, <2>1, <2>2
       DEF Underway, SoundAs, Seen, Settled, Recalls, ReportHolds, Left, Installed, Waiting,
           Transacting, Reported
  <2>4. ASSUME NEW d \in durable' PROVE Upright(d)' /\ (~removed => SecuredFor(n, d)')
    BY <1>1, <1>2, <2>1, <2>2, <2>4
       DEF Underway, Upright, SecuredFor, Transacting, Reported, Installed
  <2> QED BY <1>1, <2>1, <2>2, <2>3, <2>4, HolderStep DEF Waiting, Underway
<1> QED BY <1>3, <1>4 DEF KeepPrevious

(* A report on what the directory shows.                                   *)
LEMMA Reports ==
    ASSUME IInv, NEW p \in Processes, Underway(p), proc[p].pc \in Transacting \cup {"syncKept"},
           NEW k \in Kinds, NEW names \in SUBSET Files, Ends(p, k, names),
           UNCHANGED <<platform, holder, latest, accepted, removed>>,
           fs' = fs, durable' = durable \/ durable' = {fs},
           k = "ok" => \A s \in durable' : s[Exe] = proc[p].target /\ s[Prev] = proc[p].exe0,
           k = "incomplete" => /\ \A x \in names \ {Prev} : fs[x] \in Versions
                               /\ fs[Exe] = proc[p].target => \E x \in names : fs[x] = proc[p].exe0,
           k = "manual_intervention" => /\ \A x \in names : fs[x] \in Versions
                                        /\ \E x \in names \ {Exe} : fs[x] = proc[p].exe0
                                        /\ fs[Prev] = proc[p].prev0,
           k \notin {"ok", "incomplete", "manual_intervention"} => Found(proc[p], fs),
           proc[p].pc # "syncKept" =>
               \A s \in durable' : proc[p].exe0 \in {s[Exe], s[proc[p].kept]}
    PROVE  IInv'
<1> DEFINE m == proc[p]
<1>1. PICK n \in Memory :
            /\ Become(p, n) /\ n.pc = "discard" /\ n.kind = k /\ n.paths = names
            /\ n.does = m.does /\ n.exe0 = m.exe0 /\ n.prev0 = m.prev0
            /\ n.cand = m.cand /\ n.kept = m.kept /\ n.target = m.target
  BY EndsFacts DEF Underway
<1>2. Dirs'
  BY DEF Dirs, Directory, Underway
<1>3. SoundAs(n)'
  <2>1. Seen(n)' /\ Settled(n)' /\ \A s \in durable' : Left(n, s)'
    BY <1>1 DEF Seen, Settled, Left
  <2>2. Recalls(n)'
    BY <1>1 DEF Underway, SoundAs, Recalls, Transacting, Reported
  <2>3. ReportHolds(n)'
    BY <1>1 DEF Underway, ReportHolds, Found, Reported
  <2> QED BY <2>1, <2>2, <2>3 DEF SoundAs
<1>4. ASSUME NEW d \in durable' PROVE Upright(d)' /\ (~removed => SecuredFor(n, d)')
  <2>1. d \in durable /\ Upright(d) /\ (~removed => SecuredFor(m, d))
    BY <1>4 DEF Underway, Dirs
  <2>2. m.pc \in Transacting => m.exe0 \in {d[Exe], d[m.kept]}
    BY <1>4 DEF Transacting
  <2>3. Upright(d)'
    BY <2>1 DEF Upright
  <2>4. ASSUME ~removed PROVE SecuredFor(n, d)'
    BY <1>1, <2>1, <2>2, <2>4 DEF Underway, SecuredFor, Reported, Transacting
  <2> QED BY <2>3, <2>4
<1> QED BY <1>1, <1>2, <1>3, <1>4, HolderStep DEF Waiting, Transacting, IInv, TypeOK

LEMMA SyncKeptKeeps ==
    ASSUME IInv, NEW p \in Processes, SyncKept(p) PROVE IInv'
<1> DEFINE m == proc[p]
<1>1. Underway(p) /\ m.pc = "syncKept" /\ UNCHANGED <<platform, holder, latest, accepted, removed>>
  BY UnderwayFacts DEF SyncKept, Others
<1>2. Kept(m, fs)
  BY <1>1 DEF Underway, SoundAs, Seen
<1>3. CASE Syncs /\ Ends(p, "ok", {})
  BY <1>1, <1>2, <1>3, Reports DEF Syncs, Kinds, Kept
<1>4. CASE Files0 /\ Ends(p, "incomplete", {Exe, Prev})
  <2>1. /\ {Exe, Prev} \in SUBSET Files
        /\ \A x \in {Exe, Prev} \ {Prev} : fs[x] \in Versions
        /\ \E x \in {Exe, Prev} : fs[x] = m.exe0
    BY <1>1, <1>2 DEF Underway, Kept
  <2> QED BY <1>1, <1>4, <2>1, Reports DEF Files0, Kinds
<1> QED BY <1>3, <1>4 DEF SyncKept

LEMMA RestorePOSIXKeeps ==
    ASSUME IInv, NEW p \in Processes, RestorePOSIX(p) PROVE IInv'
<1> DEFINE m == proc[p]
<1>1. Underway(p) /\ m.pc = "restore" /\ UNCHANGED <<platform, holder, latest, accepted, removed>>
  BY UnderwayFacts DEF RestorePOSIX, Others
<1>2. /\ Installed(m, fs) /\ platform = "posix"
      /\ \A s \in durable : Copied(m, s) \/ Installed(m, s)
  BY <1>1 DEF Underway, SoundAs, Seen, Recalls, Left
<1>3. CASE Renames(m.kept, Exe) /\ Goto(p, "syncRestored")
  <2>1. /\ Dirs' /\ Moved(m.kept, Exe, fs, fs')
        /\ \A d \in durable' : d \in durable \/ \E s \in durable : Moved(m.kept, Exe, s, d)
    BY <1>1, <1>3, RenamesFacts DEF Underway
  <2>2. PICK n \in Memory : Become(p, n) /\ n.pc = "syncRestored" /\ Alike(n, m)
    BY <1>1, <1>3, GotoFacts DEF Steps, Underway
  <2>3. /\ \A s \in durable : s[m.kept] = m.exe0 /\ s[Prev] = m.prev0
        /\ fs[m.kept] = m.exe0 /\ fs[Prev] = m.prev0
    BY <1>2 DEF Copied, Staged, Found, Installed
  <2>4. /\ Found(m, fs')
        /\ \A d \in durable' : \/ d \in durable
                               \/ \E s \in durable : Found(m, d) /\ Moved(m.kept, Exe, s, d)
    BY <1>1, <2>1, <2>3 DEF Underway, Moved, Found
  <2>5. \A d \in durable' : Found(m, d) \/ Installed(m, d)
    BY <1>2, <2>4 DEF Copied, Staged
  <2>6. SoundAs(n)'
    BY <1>1, <1>2, <2>2, <2>4, <2>5
       DEF Underway, SoundAs, Seen, Settled, Recalls, ReportHolds, Left, Found,
           Installed, Waiting, Transacting, Reported, Alike
  <2>7. ASSUME NEW d \in durable' PROVE Upright(d)' /\ (~removed => SecuredFor(n, d)')
    <3>1. CASE d \in durable
      BY <1>1, <2>2, <3>1 DEF Underway, Upright, SecuredFor, Transacting, Reported, Alike
    <3>2. ASSUME NEW s \in durable, Found(m, d), Moved(m.kept, Exe, s, d)
          PROVE  Upright(d)' /\ (~removed => SecuredFor(n, d)')
      <4>1. Upright(s) /\ (~removed => SecuredFor(m, s)) /\ d[Exe] = m.exe0 /\ d[Prev] = s[Prev]
            /\ \A t \in Temps \ {m.kept} : d[t] = s[t]
        BY <1>1, <2>3, <3>2 DEF Underway, Moved, Found
      <4>2. Upright(d)'
        BY <1>1, <4>1 DEF Underway, Upright
      <4>3. ASSUME ~removed PROVE SecuredFor(n, d)'
        BY <1>1, <2>2, <4>1, <4>3 DEF Underway, SecuredFor, Transacting, Reported, Alike
      <4> QED BY <4>2, <4>3
    <3> QED BY <2>4, <3>1, <3>2
  <2> QED BY <1>1, <2>1, <2>2, <2>6, <2>7, HolderStep DEF Waiting, Underway
<1>4. CASE Files0 /\ Ends(p, "manual_intervention", {Exe, m.kept})
  <2>1. /\ {Exe, m.kept} \in SUBSET Files
        /\ \A x \in {Exe, m.kept} : fs[x] \in Versions
        /\ \E x \in {Exe, m.kept} \ {Exe} : fs[x] = m.exe0
        /\ fs[Prev] = m.prev0
    BY <1>1, <1>2 DEF Underway, Installed
  <2>2. \A s \in durable : m.exe0 \in {s[Exe], s[m.kept]}
    BY <1>2 DEF Copied, Staged, Found, Installed
  <2> QED BY <1>1, <1>4, <2>1, <2>2, Reports DEF Files0, Kinds, Transacting
<1> QED BY <1>3, <1>4 DEF RestorePOSIX

LEMMA SyncRestoredKeeps ==
    ASSUME IInv, NEW p \in Processes, SyncRestored(p) PROVE IInv'
<1> DEFINE m == proc[p]
<1>1. /\ Underway(p) /\ m.pc = "syncRestored"
      /\ UNCHANGED <<platform, holder, latest, accepted, removed>>
  BY UnderwayFacts DEF SyncRestored, Others
<1>2. Found(m, fs) /\ \A s \in durable : Found(m, s) \/ Installed(m, s)
  BY <1>1 DEF Underway, SoundAs, Seen, Left
<1>3. \A s \in durable \cup {fs} : m.exe0 \in {s[Exe], s[m.kept]}
  BY <1>2 DEF Found, Installed
<1>4. CASE Syncs /\ Ends(p, "replacement_failed", {})
  BY <1>1, <1>2, <1>3, <1>4, Reports DEF Syncs, Kinds, Transacting
<1>5. CASE Files0 /\ Ends(p, "incomplete", {Exe})
  <2>1. {Exe} \in SUBSET Files /\ \A x \in {Exe} : fs[x] \in Versions /\ fs[x] = m.exe0
    BY <1>1, <1>2 DEF Underway, Found
  <2> QED BY <1>1, <1>3, <1>5, <2>1, Reports DEF Files0, Kinds, Transacting
<1> QED BY <1>4, <1>5 DEF SyncRestored

LEMMA ValidateInstalledKeeps ==
    ASSUME IInv, NEW p \in Processes, ValidateInstalled(p), platform = "posix" PROVE IInv'
<1> DEFINE m == proc[p]
<1>1. /\ Underway(p) /\ m.pc = "validate" /\ UNCHANGED <<platform, holder, latest, accepted, removed>>
      /\ fs' = fs /\ durable' = durable
  BY UnderwayFacts DEF ValidateInstalled, Others, Files0
<1>2. Installed(m, fs) /\ durable = {fs}
  BY <1>1 DEF Underway, SoundAs, Seen, Settled
<1>3. Goto(p, "keep") \/ Goto(p, "restore")
  BY DEF ValidateInstalled
<1>4. CASE Goto(p, "keep")
  BY <1>1, <1>2, <1>4, GoesOn DEF Transacting
<1>5. CASE Goto(p, "restore")
  BY <1>1, <1>2, <1>5, GoesOn DEF Transacting
<1> QED BY <1>3, <1>4, <1>5

-----------------------------------------------------------------------------
(* The transaction on Windows, where the disk shows what a process sees.   *)

LEMMA ReserveKeeps ==
    ASSUME IInv, NEW p \in Processes, Reserve(p) PROVE IInv'
<1> DEFINE m == proc[p]
<1>1. m \in Memory /\ SoundAs(m) /\ m.pc = "reserve" /\ Still
      /\ \A s \in durable : ~removed => SecuredFor(m, s)
  BY Alone DEF Reserve, Waiting, Still, Files0, Others
<1>2. Staged(m, fs) /\ m.cand \in Temps /\ m.target \in Versions
  BY <1>1 DEF SoundAs, Seen, Recalls, Transacting
<1>3. PICK t \in Temps : fs[t] = Absent /\ Become(p, [m EXCEPT !.pc = "aside", !.kept = t])
                         /\ \A s \in durable : s[t] = Absent
  BY FreshFacts DEF Reserve
<1>4. PICK n \in Memory :
            /\ Become(p, n) /\ n.pc = "aside" /\ n.kept = t /\ n.target = m.target
            /\ n.does = m.does /\ n.exe0 = m.exe0 /\ n.prev0 = m.prev0
            /\ n.cand = m.cand /\ n.paths = m.paths
  <2> DEFINE k == [m EXCEPT !.pc = "aside", !.kept = t]
  <2>1. k \in Memory
    BY <1>1 DEF Memory, Steps
  <2>2. /\ k.pc = "aside" /\ k.kept = t /\ k.target = m.target
        /\ k.does = m.does /\ k.exe0 = m.exe0 /\ k.prev0 = m.prev0
        /\ k.cand = m.cand /\ k.paths = m.paths
    BY <1>1 DEF Memory
  <2>3. Become(p, k)
    BY <1>3
  <2> HIDE DEF k
  <2> QED BY <2>1, <2>2, <2>3
<1>5. t # m.cand
  BY <1>2, <1>3, NamesAssumption DEF Staged
<1>6. SoundAs(n)
  BY <1>1, <1>2, <1>3, <1>4, <1>5
     DEF SoundAs, Seen, Settled, Recalls, ReportHolds, Left, Found, Staged, Waiting, Transacting, Reported
<1>7. ASSUME NEW s \in durable, ~removed PROVE SecuredFor(n, s)
  <2>1. SecuredFor(m, s) /\ s[t] = Absent /\ accepted # Absent
    BY <1>1, <1>3, <1>7, NamesAssumption DEF IInv, TypeOK
  <2> QED BY <1>1, <1>4, <2>1 DEF SecuredFor, Transacting, Reported
<1> QED BY <1>1, <1>4, <1>6, <1>7, StillStep DEF Waiting

(* A holder of the executable is waited out, or it is moved aside.         *)
LEMMA MoveAsideKeeps ==
    ASSUME IInv, NEW p \in Processes, MoveAside(p) PROVE IInv'
<1> DEFINE m == proc[p]
<1>1. m \in Memory /\ SoundAs(m) /\ m.pc = "aside" /\ Dirs
      /\ UNCHANGED <<platform, holder, latest, accepted, removed>>
      /\ \A s \in durable : (~removed => SecuredFor(m, s)) /\ Upright(s)
  BY Alone DEF MoveAside, Waiting, Others, IInv
<1>2. /\ Found(m, fs) /\ Staged(m, fs) /\ fs[m.kept] = Absent
      /\ m.pc \notin Waiting \cup Reported /\ platform = "windows" /\ durable = {fs}
      /\ m.cand \in Temps /\ m.kept \in Temps /\ m.kept # m.cand
      /\ m.does \in {"upgrade", "rollback"}
  BY <1>1 DEF Waiting, Reported, Transacting, SoundAs, Seen, Recalls, Staged, Dirs, Directory
<1>3. CASE Files0 /\ Ends(p, "replacement_failed", {})
  BY <1>1, <1>2, <1>3, Fails DEF Still, Files0, Kinds
<1>4. CASE Files0 /\ Become(p, [m EXCEPT !.tries = m.tries + 1])
  <2>1. PICK n \in Memory :
              /\ Become(p, n) /\ n.pc = "aside" /\ n.kept = m.kept /\ n.target = m.target
              /\ n.does = m.does /\ n.exe0 = m.exe0 /\ n.prev0 = m.prev0
              /\ n.cand = m.cand /\ n.paths = m.paths
    <3> DEFINE k == [m EXCEPT !.tries = m.tries + 1]
    <3>1. k \in Memory
      BY <1>1 DEF Memory
    <3>2. /\ k.pc = "aside" /\ k.kept = m.kept /\ k.target = m.target
          /\ k.does = m.does /\ k.exe0 = m.exe0 /\ k.prev0 = m.prev0
          /\ k.cand = m.cand /\ k.paths = m.paths
      BY <1>1 DEF Memory
    <3>3. Become(p, k)
      BY <1>4
    <3> HIDE DEF k
    <3> QED BY <3>1, <3>2, <3>3
  <2>2. SoundAs(n)
    BY <1>1, <1>2, <2>1
       DEF SoundAs, Seen, Settled, Recalls, ReportHolds, Left, Found, Staged, Transacting, Reported
  <2>3. ASSUME NEW s \in durable, ~removed PROVE SecuredFor(n, s)
    BY <1>1, <2>1, <2>3 DEF SecuredFor, Transacting, Reported
  <2> QED BY <1>1, <1>2, <1>4, <2>1, <2>2, <2>3, StillStep DEF Still, Files0, Waiting
<1>5. CASE fs[Exe] # Absent /\ Renames(Exe, m.kept) /\ Goto(p, "place")
  <2>1. m.kept \notin {Exe, Prev} /\ m.cand \notin {Exe, Prev} /\ Exe # Prev
        /\ {Exe, Prev} \subseteq Files /\ Temps \subseteq Files /\ Exe \notin Temps
    BY <1>2, NamesAssumption DEF Files, Exe, Prev
  <2>2. Dirs' /\ Moved(Exe, m.kept, fs, fs')
    BY <1>1, <1>2, <1>5, <2>1, RenamesFacts
  <2>3. durable' = {fs'}
    BY <1>1, <1>2, <2>2 DEF Dirs, Directory
  <2>4. PICK n \in Memory : Become(p, n) /\ n.pc = "place" /\ Alike(n, m)
    BY <1>1, <1>5, GotoFacts DEF Steps
  <2>5. Away(m, fs') /\ m.exe0 \in Versions
    BY <1>1, <1>2, <1>5, <2>1, <2>2 DEF Moved, Away, Found, Staged, Dirs, Contents, Upright
  <2>6. SoundAs(n)'
    BY <1>1, <1>2, <2>3, <2>4, <2>5
       DEF SoundAs, Seen, Settled, Recalls, ReportHolds, Left, Found, Staged, Away,
           Waiting, Transacting, Reported, Alike
  <2>7. ASSUME NEW d \in durable' PROVE Upright(d)' /\ (~removed => SecuredFor(n, d)')
    <3>1. d = fs' /\ \A t \in Temps \ {m.kept} : d[t] = fs[t]
      BY <1>5, <2>1, <2>2, <2>3 DEF Moved
    <3>2. Upright(d)'
      BY <1>1, <1>2, <2>5, <3>1, NamesAssumption DEF Upright, Away, Found
    <3>3. ASSUME ~removed PROVE SecuredFor(n, d)'
      BY <1>1, <1>2, <2>4, <3>1, <3>3 DEF SecuredFor, Transacting, Reported, Alike
    <3> QED BY <3>2, <3>3
  <2> QED BY <1>1, <2>2, <2>4, <2>6, <2>7, HolderStep DEF Waiting, IInv, TypeOK
<1> QED BY <1>3, <1>4, <1>5 DEF MoveAside

\* Where the process is apart, its reason and what it has moved out: the same transaction.
Kin(n, m) ==
    /\ n.does = m.does /\ n.target = m.target /\ n.cand = m.cand /\ n.kept = m.kept
    /\ n.paths = m.paths /\ n.exe0 = m.exe0 /\ n.prev0 = m.prev0

(* A step after the executable was moved aside, on the one directory.      *)
LEMMA WindowsStep ==
    ASSUME IInv, NEW p \in Processes, Underway(p), platform = "windows",
           proc[p].pc \in {"place", "validate", "displace", "moveout"},
           NEW n \in Memory, Become(p, n), Kin(n, proc[p]),
           n.pc \in {"validate", "displace", "moveout", "putback"},
           UNCHANGED <<platform, holder, latest, accepted, removed>>, Dirs',
           n.pc # "putback" => Installed(proc[p], fs'),
           n.pc = "putback" => Away(proc[p], fs'),
           n.pc \in {"moveout", "putback"} => n.kind \in {"replacement_failed", "previous_in_use"},
           \A t \in Temps \ {proc[p].cand, proc[p].kept} : fs'[t] = fs[t]
    PROVE  IInv'
<1> DEFINE m == proc[p]
<1>1. durable' = {fs'} /\ durable = {fs}
  BY DEF Dirs, Directory, Underway
<1>2. SoundAs(n)'
  BY <1>1 DEF Underway, SoundAs, Seen, Settled, Recalls, ReportHolds, Left, Away, Installed, Waiting,
              Transacting, Reported, Kin
<1>3. ASSUME NEW d \in durable' PROVE Upright(d)' /\ (~removed => SecuredFor(n, d)')
  <2>1. d = fs' /\ Upright(fs) /\ (~removed => SecuredFor(m, fs))
    BY <1>1 DEF Underway, Dirs
  <2>2. Upright(d)'
    <3>1. d[Exe] # Partial
      BY <2>1, NamesAssumption DEF Installed, Away, Underway
    <3>2. d[Prev] = m.prev0
      BY <2>1 DEF Installed, Away
    <3>3. m.prev0 # Partial
      <4>1. fs[Prev] = m.prev0
        BY DEF Underway, SoundAs, Seen, Installed, Away
      <4> QED BY <2>1, <4>1 DEF Upright
    <3> QED BY <3>1, <3>2, <3>3 DEF Upright
  <2>3. ASSUME ~removed PROVE SecuredFor(n, d)'
    BY <2>1, <2>3 DEF Underway, SecuredFor, Reported, Transacting, Kin
  <2> QED BY <2>2, <2>3
<1> QED BY <1>1, <1>2, <1>3, HolderStep DEF Waiting, IInv, TypeOK, Underway

LEMMA PlaceCandidateKeeps ==
    ASSUME IInv, NEW p \in Processes, PlaceCandidate(p) PROVE IInv'
<1> DEFINE m == proc[p]
<1>1. /\ Underway(p) /\ m.pc = "place" /\ UNCHANGED <<platform, holder, latest, accepted, removed>>
  BY UnderwayFacts DEF PlaceCandidate, Others
<1>2. Away(m, fs) /\ platform = "windows"
  BY <1>1 DEF Underway, SoundAs, Seen, Recalls
<1>3. CASE Renames(m.cand, Exe) /\ Goto(p, "validate")
  <2>1. Dirs' /\ Moved(m.cand, Exe, fs, fs')
    BY <1>1, <1>3, RenamesFacts DEF Underway
  <2>2. PICK n \in Memory : Become(p, n) /\ n.pc = "validate" /\ Alike(n, m)
    BY <1>1, <1>3, GotoFacts DEF Steps, Underway
  <2>3. Installed(m, fs') /\ \A t \in Temps \ {m.cand, m.kept} : fs'[t] = fs[t]
    BY <1>1, <1>2, <2>1 DEF Underway, Moved, Away, Installed
  <2> QED BY <1>1, <1>2, <2>1, <2>2, <2>3, WindowsStep DEF Alike, Kin, Transacting
<1>4. CASE Files0 /\ Become(p, [m EXCEPT !.pc = "putback", !.kind = "replacement_failed"])
  <2>1. PICK n \in Memory : /\ Become(p, n) /\ n.pc = "putback" /\ Kin(n, m)
                            /\ n.kind = "replacement_failed"
    <3> DEFINE k == [m EXCEPT !.pc = "putback", !.kind = "replacement_failed"]
    <3>1. k \in Memory
      BY <1>1 DEF Memory, Steps, Kinds, Underway
    <3>2. k.pc = "putback" /\ Kin(k, m) /\ k.kind = "replacement_failed"
      BY <1>1 DEF Memory, Underway, Kin
    <3>3. Become(p, k)
      BY <1>4
    <3> HIDE DEF k
    <3> QED BY <3>1, <3>2, <3>3
  <2>2. fs' = fs /\ Dirs'
    BY <1>1, <1>4 DEF Files0, Dirs, Directory, Underway
  <2> QED BY <1>1, <1>2, <2>1, <2>2, WindowsStep DEF Transacting
<1> QED BY <1>3, <1>4 DEF PlaceCandidate

(* Giving up on a new binary that stands.                                  *)
LEMMA GivesUp ==
    ASSUME IInv, NEW p \in Processes, Underway(p), platform = "windows",
           proc[p].pc \in {"validate", "displace"}, Installed(proc[p], fs), Files0,
           UNCHANGED <<platform, holder, latest, accepted, removed>>,
           NEW r \in {"replacement_failed", "previous_in_use"},
           Become(p, [proc[p] EXCEPT !.pc = "moveout", !.out = TRUE, !.kind = r])
    PROVE  IInv'
<1> DEFINE m == proc[p]
<1>1. PICK n \in Memory : Become(p, n) /\ n.pc = "moveout" /\ n.kind = r /\ Kin(n, m)
  <2> DEFINE k == [m EXCEPT !.pc = "moveout", !.out = TRUE, !.kind = r]
  <2>1. k \in Memory
    BY DEF Memory, Steps, Kinds, Underway
  <2>2. k.pc = "moveout" /\ k.kind = r /\ Kin(k, m)
    BY DEF Memory, Underway, Kin
  <2>3. Become(p, k)
    OBVIOUS
  <2> HIDE DEF k
  <2> QED BY <2>1, <2>2, <2>3
<1>2. fs' = fs /\ Dirs'
  BY DEF Files0, Dirs, Directory, Underway
<1> QED BY <1>1, <1>2, WindowsStep

LEMMA ValidateInstalledOnWindows ==
    ASSUME IInv, NEW p \in Processes, ValidateInstalled(p), platform = "windows" PROVE IInv'
<1> DEFINE m == proc[p]
<1>1. /\ Underway(p) /\ m.pc = "validate" /\ UNCHANGED <<platform, holder, latest, accepted, removed>>
      /\ fs' = fs /\ durable' = durable /\ Files0
  BY UnderwayFacts DEF ValidateInstalled, Others, Files0
<1>2. Installed(m, fs)
  BY <1>1 DEF Underway, SoundAs, Seen
<1>3. CASE Goto(p, "displace")
  BY <1>1, <1>2, <1>3, GoesOn DEF Transacting
<1>4. CASE Become(p, [m EXCEPT !.pc = "moveout", !.out = TRUE, !.kind = "replacement_failed"])
  BY <1>1, <1>2, <1>4, GivesUp
<1> QED BY <1>3, <1>4 DEF ValidateInstalled

LEMMA KeepDisplacedKeeps ==
    ASSUME IInv, NEW p \in Processes, KeepDisplaced(p) PROVE IInv'
<1> DEFINE m == proc[p]
<1>1. /\ Underway(p) /\ m.pc = "displace" /\ UNCHANGED <<platform, holder, latest, removed>>
  BY UnderwayFacts DEF KeepDisplaced
<1>2. Installed(m, fs) /\ platform = "windows" /\ durable = {fs}
  BY <1>1 DEF Underway, SoundAs, Seen, Recalls, Dirs, Directory
<1>3. CASE Renames(m.kept, Prev) /\ Ends(p, "ok", {}) /\ accepted' = m.target
  <2>1. Dirs' /\ Moved(m.kept, Prev, fs, fs')
    BY <1>1, <1>3, RenamesFacts DEF Underway
  <2>2. durable' = {fs'}
    BY <1>1, <1>2, <2>1 DEF Dirs, Directory
  <2>3. PICK n \in Memory :
              /\ Become(p, n) /\ n.pc = "discard" /\ n.kind = "ok" /\ n.paths = {}
              /\ n.does = m.does /\ n.exe0 = m.exe0 /\ n.prev0 = m.prev0
              /\ n.cand = m.cand /\ n.kept = m.kept /\ n.target = m.target
    BY <1>1, <1>3, EndsFacts DEF Kinds, Underway
  <2>4. fs'[Exe] = m.target /\ fs'[Prev] = m.exe0
    BY <1>1, <1>2, <2>1 DEF Underway, Moved, Installed
  <2>5. SoundAs(n)'
    BY <1>1, <1>2, <2>2, <2>3, <2>4
       DEF Underway, SoundAs, Seen, Settled, Recalls, ReportHolds, Left, Waiting, Transacting, Reported
  <2>6. ASSUME NEW d \in durable' PROVE Upright(d)' /\ (~removed => SecuredFor(n, d)')
    BY <1>1, <1>2, <1>3, <2>2, <2>3, <2>4, <2>6
       DEF Underway, Upright, SecuredFor, Transacting, Reported
  <2> QED BY <1>1, <1>3, <2>1, <2>3, <2>5, <2>6, HolderStep DEF Waiting, Underway
<1>4. ASSUME NEW r \in {"previous_in_use", "replacement_failed"}, Files0, UNCHANGED accepted,
             Become(p, [m EXCEPT !.pc = "moveout", !.out = TRUE, !.kind = r])
      PROVE  IInv'
  BY <1>1, <1>2, <1>4, GivesUp
<1> QED BY <1>3, <1>4 DEF KeepDisplaced

LEMMA MoveOutKeeps ==
    ASSUME IInv, NEW p \in Processes, MoveOut(p) PROVE IInv'
<1> DEFINE m == proc[p]
<1>1. /\ Underway(p) /\ m.pc = "moveout" /\ UNCHANGED <<platform, holder, latest, accepted, removed>>
  BY UnderwayFacts DEF MoveOut, Others
<1>2. Installed(m, fs) /\ platform = "windows" /\ durable = {fs}
  BY <1>1 DEF Underway, SoundAs, Seen, Recalls, Dirs, Directory
<1>3. CASE Renames(Exe, m.cand) /\ Goto(p, "putback")
  <2>1. Dirs' /\ Moved(Exe, m.cand, fs, fs')
    BY <1>1, <1>3, RenamesFacts DEF Underway
  <2>2. PICK n \in Memory : Become(p, n) /\ n.pc = "putback" /\ Alike(n, m)
    BY <1>1, <1>3, GotoFacts DEF Steps, Underway
  <2>3. Away(m, fs') /\ \A t \in Temps \ {m.cand, m.kept} : fs'[t] = fs[t]
    BY <1>1, <1>2, <2>1 DEF Underway, Moved, Away, Installed
  <2>4. m.kind \in {"replacement_failed", "previous_in_use"}
    BY <1>1 DEF Underway, SoundAs, Recalls
  <2> QED BY <1>1, <1>2, <2>1, <2>2, <2>3, <2>4, WindowsStep DEF Alike, Kin
<1>4. CASE Files0 /\ Ends(p, "manual_intervention", {Exe, m.kept})
  <2>1. /\ {Exe, m.kept} \in SUBSET Files
        /\ \A x \in {Exe, m.kept} : fs[x] \in Versions
        /\ \E x \in {Exe, m.kept} \ {Exe} : fs[x] = m.exe0
        /\ fs[Prev] = m.prev0
        /\ m.exe0 \in {fs[Exe], fs[m.kept]}
    BY <1>1, <1>2 DEF Underway, Installed
  <2> QED BY <1>1, <1>2, <1>4, <2>1, Reports DEF Files0, Kinds, Transacting
<1> QED BY <1>3, <1>4 DEF MoveOut

LEMMA PutBackKeeps ==
    ASSUME IInv, NEW p \in Processes, PutBack(p) PROVE IInv'
<1> DEFINE m == proc[p]
<1>1. /\ Underway(p) /\ m.pc = "putback" /\ UNCHANGED <<platform, holder, latest, accepted, removed>>
  BY UnderwayFacts DEF PutBack, Others
<1>2. /\ Away(m, fs) /\ platform = "windows" /\ durable = {fs}
      /\ m.kind \in {"replacement_failed", "previous_in_use"}
  BY <1>1 DEF Underway, SoundAs, Seen, Recalls, Dirs, Directory
<1>3. CASE Renames(m.kept, Exe) /\ Ends(p, m.kind, {})
  <2>1. Dirs' /\ Moved(m.kept, Exe, fs, fs')
    BY <1>1, <1>3, RenamesFacts DEF Underway
  <2>2. durable' = {fs'}
    BY <1>1, <1>2, <2>1 DEF Dirs, Directory
  <2>3. PICK n \in Memory :
              /\ Become(p, n) /\ n.pc = "discard" /\ n.kind = m.kind /\ n.paths = {}
              /\ n.does = m.does /\ n.exe0 = m.exe0 /\ n.prev0 = m.prev0
              /\ n.cand = m.cand /\ n.kept = m.kept /\ n.target = m.target
    BY <1>1, <1>3, EndsFacts DEF Memory, Underway
  <2>4. /\ fs'[Exe] = m.exe0 /\ fs'[Prev] = m.prev0 /\ fs[Prev] = m.prev0
        /\ \A t \in Temps \ {m.cand, m.kept} : fs'[t] = fs[t]
    BY <1>1, <1>2, <2>1 DEF Underway, Moved, Away
  <2>5. SoundAs(n)'
    BY <1>1, <1>2, <2>2, <2>3, <2>4
       DEF Underway, SoundAs, Seen, Settled, Recalls, ReportHolds, Left, Found, Waiting, Transacting,
           Reported
  <2>6. ASSUME NEW d \in durable' PROVE Upright(d)' /\ (~removed => SecuredFor(n, d)')
    BY <1>1, <1>2, <2>2, <2>3, <2>4, <2>6
       DEF Underway, Upright, SecuredFor, Transacting, Reported
  <2> QED BY <1>1, <2>1, <2>3, <2>5, <2>6, HolderStep DEF Waiting, Underway
<1>4. ASSUME NEW names \in {{m.kept}, {m.kept, m.cand}}, Files0,
             Ends(p, "manual_intervention", names)
      PROVE  IInv'
  <2>1. /\ names \in SUBSET Files
        /\ \A x \in names : fs[x] \in Versions
        /\ \E x \in names \ {Exe} : fs[x] = m.exe0
        /\ fs[Prev] = m.prev0
        /\ m.exe0 \in {fs[Exe], fs[m.kept]}
    BY <1>1, <1>2, <1>4 DEF Underway, Away
  <2> QED BY <1>1, <1>2, <1>4, <2>1, Reports DEF Files0, Kinds, Transacting
<1>5. {m.kept} \cup (IF m.out THEN {m.cand} ELSE {}) \in {{m.kept}, {m.kept, m.cand}}
  OBVIOUS
<1> QED BY <1>3, <1>4, <1>5 DEF PutBack

-----------------------------------------------------------------------------
(* The end of a command, and an uninstall.                                 *)

LEMMA DiscardKeeps ==
    ASSUME IInv, NEW p \in Processes, Discard(p) PROVE IInv'
<1> DEFINE m == proc[p]
<1>1. /\ m \in Memory /\ SoundAs(m) /\ m.pc = "discard" /\ Dirs
      /\ UNCHANGED <<platform, holder, latest, accepted, removed>>
      /\ \A s \in durable : (~removed => SecuredFor(m, s)) /\ Upright(s)
  BY Alone DEF Discard, Others, Waiting, IInv
<1>2. PICK n \in Memory : Become(p, n) /\ n.pc = "done" /\ Alike(n, m)
  BY <1>1, GotoFacts DEF Discard, Steps
<1>3. CASE Files0
  <2>1. Dirs'
    BY <1>1, <1>3 DEF Files0, Dirs, Directory
  <2>2. SoundAs(n)'
    BY <1>1, <1>2, <1>3
       DEF Files0, SoundAs, Seen, Settled, Recalls, ReportHolds, Left, Found, Waiting, Transacting,
           Reported, Alike
  <2>3. ASSUME NEW d \in durable' PROVE Upright(d)' /\ (~removed => SecuredFor(n, d)')
    BY <1>1, <1>2, <1>3, <2>3 DEF Files0, Upright, SecuredFor, Transacting, Reported, Alike
  <2> QED BY <1>1, <1>2, <2>1, <2>2, <2>3, HolderStep DEF Waiting, IInv, TypeOK
<1>4. CASE m.cand # None /\ m.cand \notin m.paths /\ Sets(m.cand, Absent)
  <2>1. /\ m.cand \in Temps /\ Temps \subseteq Files /\ m.cand \notin {Exe, Prev}
        /\ {Exe, Prev} \subseteq Files /\ m.paths \subseteq Files
    BY <1>1, <1>4, NamesAssumption DEF Memory, Files
  <2>2. /\ Dirs' /\ Wrote(m.cand, Absent, fs, fs')
        /\ \A d \in durable' : \E s \in durable : \A k \in Files \ {m.cand} : d[k] = s[k]
    BY <1>1, <1>4, <2>1, SetsFacts DEF Contents, Wrote
  <2>3. m.does # "uninstall"
    BY <1>1, <1>4 DEF SoundAs, ReportHolds, Reported
  <2>4. SoundAs(n)'
    <3>1. Seen(n)' /\ Settled(n)' /\ \A d \in durable' : Left(n, d)'
      BY <1>2 DEF Seen, Settled, Left
    <3>2. Recalls(n)'
      BY <1>1, <1>2 DEF SoundAs, Recalls, Transacting, Reported, Alike
    <3>3. ReportHolds(n)'
      <4>1. \A k \in Files \ {m.cand} : fs'[k] = fs[k]
        BY <2>2 DEF Wrote
      <4>2. ReportHolds(m) /\ m.pc \in Reported /\ n.does # "uninstall"
        BY <1>1, <1>2, <2>3 DEF SoundAs, Reported, Alike
      <4>3. n.kind = "ok" => (\A d \in durable' : d[Exe] = n.target /\ d[Prev] = n.exe0)
                             /\ (n.does = "rollback" => n.target = n.prev0)
        BY <1>2, <2>1, <2>2, <4>2 DEF ReportHolds, Alike
      <4>4. n.kind = "incomplete" =>
                    /\ \A x \in n.paths \ {Prev} : fs'[x] \in Versions
                    /\ fs'[Exe] = n.target => \E x \in n.paths : fs'[x] = n.exe0
        BY <1>2, <1>4, <2>1, <4>1, <4>2 DEF ReportHolds, Alike
      <4>5. n.kind = "manual_intervention" =>
                    /\ \A x \in n.paths : fs'[x] \in Versions
                    /\ \E x \in n.paths \ {Exe} : fs'[x] = n.exe0
                    /\ fs'[Prev] = n.prev0
        BY <1>2, <1>4, <2>1, <4>1, <4>2 DEF ReportHolds, Alike
      <4>6. n.kind \notin {"ok", "incomplete", "manual_intervention"} => Found(n, fs)'
        BY <1>2, <2>1, <4>1, <4>2 DEF ReportHolds, Alike, Found
      <4> QED BY <4>2, <4>3, <4>4, <4>5, <4>6 DEF ReportHolds
    <3> QED BY <3>1, <3>2, <3>3 DEF SoundAs
  <2>5. ASSUME NEW d \in durable' PROVE Upright(d)' /\ (~removed => SecuredFor(n, d)')
    <3>1. PICK s \in durable : \A k \in Files \ {m.cand} : d[k] = s[k]
      BY <2>2
    <3> QED BY <1>1, <1>2, <2>1, <3>1 DEF Upright, SecuredFor, Transacting, Reported, Alike
  <2> QED BY <1>1, <1>2, <2>2, <2>4, <2>5, HolderStep DEF Waiting, IInv, TypeOK
<1> QED BY <1>3, <1>4 DEF Discard, Preserves

(* A step of an uninstall that has begun to delete.                        *)
LEMMA RemovalStep ==
    ASSUME IInv, NEW p \in Processes, proc[p].pc = "remove",
           NEW n \in Memory, Become(p, n), n.pc \in {"remove", "discard"},
           n.does = "uninstall", n.cand = None, n.exe0 = proc[p].exe0,
           n.pc = "discard" => \A k \in Files : fs'[k] # Absent => k \in n.paths,
           UNCHANGED <<platform, holder, latest, accepted, removed>>, Dirs',
           \A d \in durable' : d[Exe] # Partial /\ d[Prev] # Partial
    PROVE  IInv'
<1>1. removed /\ proc[p].exe0 # Partial
  BY Alone DEF Waiting, SoundAs, Recalls
<1>2. SoundAs(n)'
  <2>1. Seen(n)' /\ Settled(n)' /\ \A d \in durable' : Left(n, d)'
    BY DEF Seen, Settled, Left
  <2>2. removed'
    BY <1>1
  <2>3. Recalls(n)'
    BY <1>1, <2>2 DEF Recalls, Transacting, Reported, None
  <2>4. ReportHolds(n)'
    BY DEF ReportHolds, Reported
  <2> QED BY <2>1, <2>3, <2>4 DEF SoundAs
<1>3. ASSUME NEW d \in durable' PROVE Upright(d)' /\ (~removed => SecuredFor(n, d)')
  BY <1>1 DEF Upright
<1> QED BY <1>2, <1>3, HolderStep DEF Waiting, IInv, TypeOK

LEMMA RemoveBinaryKeeps ==
    ASSUME IInv, NEW p \in Processes, RemoveBinary(p) PROVE IInv'
<1> DEFINE m == proc[p]
           left == BinarySet(p)
<1>1. /\ m \in Memory /\ m.pc = "remove" /\ Dirs /\ m.does = "uninstall" /\ m.cand = None
      /\ UNCHANGED <<platform, holder, latest, accepted, removed>>
      /\ \A s \in durable : s[Exe] # Partial /\ s[Prev] # Partial
  BY Alone DEF RemoveBinary, Others, Waiting, IInv, SoundAs, Recalls, Upright
<1>2. {Exe, Prev} \cap Temps = {} /\ Exe # Prev /\ {Exe, Prev} \subseteq Files /\ Temps \subseteq Files
      /\ Absent # Partial
  BY NamesAssumption DEF Files, Exe, Prev
<1>3. CASE left = {} /\ Ends(p, "ok", m.paths) /\ Files0
  <2>1. PICK n \in Memory :
              /\ Become(p, n) /\ n.pc = "discard" /\ n.kind = "ok" /\ n.paths = m.paths
              /\ n.does = m.does /\ n.exe0 = m.exe0 /\ n.prev0 = m.prev0
              /\ n.cand = m.cand /\ n.kept = m.kept /\ n.target = m.target
    <3>1. m.paths \in SUBSET Files
      BY <1>1 DEF Memory
    <3> QED BY <1>1, <1>3, <3>1, EndsFacts DEF Kinds
  <2>2. \A k \in Files : fs[k] # Absent => k \in m.paths
    BY <1>3 DEF BinarySet
  <2>3. Dirs'
    BY <1>1, <1>3 DEF Files0, Dirs, Directory
  <2> QED BY <1>1, <1>3, <2>1, <2>2, <2>3, RemovalStep DEF Files0
<1>4. ASSUME NEW f \in Files, Sets(f, Absent), UNCHANGED proc PROVE IInv'
  <2>1. Dirs' /\ \A d \in durable' : \/ d \in durable
                                     \/ \E s \in durable : Wrote(f, Absent, s, d)
    BY <1>1, <1>4, SetsFacts DEF Contents
  <2>2. \A d \in durable' : d[Exe] # Partial /\ d[Prev] # Partial
    BY <1>1, <1>2, <2>1 DEF Wrote
  <2>3. PICK n \in Memory : n = m
    BY <1>1
  <2>4. Become(p, n)
    BY <1>4, <2>3 DEF Become, IInv
  <2> QED BY <1>1, <2>1, <2>2, <2>3, <2>4, RemovalStep
<1>5. ASSUME NEW paths \in SUBSET Files, Become(p, [m EXCEPT !.paths = paths]), Dirs',
             \A d \in durable' : d[Exe] # Partial /\ d[Prev] # Partial
      PROVE  IInv'
  <2>1. PICK n \in Memory : Become(p, n) /\ n.pc = "remove" /\ n.does = m.does /\ n.cand = m.cand
                            /\ n.exe0 = m.exe0
    <3> DEFINE k == [m EXCEPT !.paths = paths]
    <3>1. k \in Memory
      BY <1>1 DEF Memory
    <3>2. k.pc = "remove" /\ k.does = m.does /\ k.cand = m.cand /\ k.exe0 = m.exe0
      BY <1>1 DEF Memory
    <3>3. Become(p, k)
      BY <1>5
    <3> HIDE DEF k
    <3> QED BY <3>1, <3>2, <3>3
  <2> QED BY <1>1, <1>5, <2>1, RemovalStep
<1>6. CASE left # {}
  <2>1. NextRemoved(p) \in Files
    BY <1>2, <1>6 DEF NextRemoved, BinarySet
  <2>2. m.paths \subseteq Files
    BY <1>1 DEF Memory
  <2>3. ASSUME NEW t \in Temps, Renames(Exe, t), Become(p, [m EXCEPT !.paths = m.paths \cup {t}])
        PROVE  IInv'
    <3>1. Dirs' /\ \A d \in durable' : \/ d \in durable
                                       \/ \E s \in durable : Moved(Exe, t, s, d)
      BY <1>1, <1>2, <2>3, RenamesFacts
    <3>2. \A d \in durable' : d[Exe] # Partial /\ d[Prev] # Partial
      BY <1>1, <1>2, <3>1 DEF Moved
    <3> QED BY <1>2, <1>5, <2>2, <2>3, <3>1, <3>2
  <2>4. CASE Files0 /\ Become(p, [m EXCEPT !.paths = m.paths \cup {NextRemoved(p)}])
    <3>1. Dirs' /\ \A d \in durable' : d[Exe] # Partial /\ d[Prev] # Partial
      BY <1>1, <2>4 DEF Files0, Dirs, Directory
    <3> QED BY <1>5, <2>1, <2>2, <2>4, <3>1
  <2>5. \/ Sets(NextRemoved(p), Absent) /\ UNCHANGED proc
        \/ Unused # {} /\ Renames(Exe, Fresh) /\ Become(p, [m EXCEPT !.paths = m.paths \cup {Fresh}])
        \/ Files0 /\ Become(p, [m EXCEPT !.paths = m.paths \cup {NextRemoved(p)}])
    BY <1>6 DEF RemoveBinary
  <2> QED BY <1>4, <2>1, <2>3, <2>4, <2>5, FreshFacts
<1> QED BY <1>3, <1>6 DEF RemoveBinary

-----------------------------------------------------------------------------
(* Commands that come and go, killed ones among them, and the world.       *)

(* What a transaction found is where it stood, or in the file it keeps it. *)
LEMMA Whereabouts ==
    ASSUME IInv, NEW p \in Processes, proc[p].pc \in Transacting, NEW s \in durable
    PROVE  \/ s[Exe] = proc[p].exe0
           \/ proc[p].kept \in Temps /\ s[proc[p].kept] = proc[p].exe0
<1> DEFINE m == proc[p]
<1>1. m \in Memory /\ SoundAs(m) /\ Dirs /\ platform \in {"posix", "windows"}
  BY Alone DEF Waiting, Transacting, IInv, TypeOK
<1>2. Left(m, s) /\ Seen(m) /\ Settled(m) /\ Recalls(m)
  BY <1>1 DEF SoundAs
<1>3. platform = "windows" => s = fs
  BY <1>1 DEF Dirs, Directory
<1>4. CASE m.pc \in {"check", "snapshot", "install", "validate", "keep"}
  BY <1>2, <1>4 DEF Seen, Settled, Recalls, Transacting, Found, Staged, Copied, Installed
<1>5. CASE m.pc \in {"copy", "sync", "restore", "syncRestored"}
  BY <1>2, <1>5 DEF Left, Recalls, Transacting, Found, Staged, Copied, Installed
<1>6. CASE m.pc \in {"reserve", "aside", "place", "displace", "moveout", "putback"}
  BY <1>2, <1>3, <1>6 DEF Seen, Recalls, Transacting, Found, Staged, Away, Installed
<1> QED BY <1>4, <1>5, <1>6 DEF Transacting

(* A command begins to wait, gives up, ends or is killed.                  *)
LEMMA IdleStep ==
    ASSUME IInv, NEW p \in Processes, NEW n \in Memory, n.pc \in Waiting, Become(p, n),
           n.cand = None, n.kept = None, n.pc = "wait" => n.paths = {} /\ n.does # None,
           UNCHANGED <<platform, fs, durable, latest, accepted, removed>>,
           holder' = IF holder = p THEN None ELSE holder
    PROVE  IInv'
<1>1. proc' \in [Processes -> Memory] /\ proc'[p] = n
      /\ \A q \in Processes \ {p} : proc'[q] = proc[q]
  BY DEF IInv, Become
<1>2. TypeOK'
  BY <1>1, NamesAssumption DEF IInv, TypeOK, Memory, Waiting
<1>3. ASSUME NEW q \in Processes PROVE SoundAs(proc[q])'
  <2>1. CASE q = p
    BY <1>1, <2>1 DEF SoundAs, Seen, Settled, Recalls, ReportHolds, Left, Waiting, Transacting, Reported
  <2>2. CASE q # p
    BY <1>1, <2>2
       DEF IInv, SoundAs, Seen, Settled, Recalls, ReportHolds, Left, Found, Staged, Copied, Away,
           Installed, Kept
  <2> QED BY <2>1, <2>2
<1>4. ASSUME NEW s \in durable, ~removed PROVE Secured(s)'
  <2>1. Secured(s)
    BY <1>4 DEF IInv
  <2>2. \A t \in Temps : Spare(t) => Spare(t)'
    BY <1>1, NamesAssumption DEF Spare
  <2>3. n.pc \notin Transacting
    BY DEF Waiting, Transacting
  <2>4. CASE \E t \in Temps : Spare(t) /\ s[t] = accepted
    BY <2>2, <2>4 DEF Secured
  <2>5. CASE proc[p].pc \in Transacting /\ proc[p].exe0 = accepted
    <3>1. \A q \in Processes \ {p} :
             proc[q].pc \in Waiting /\ proc[q].cand = None /\ proc[q].kept = None
      BY <2>5, Alone DEF Waiting, Transacting
    <3>2. \A q \in Processes : proc'[q].pc \notin Transacting
      BY <1>1, <2>3, <3>1 DEF Waiting, Transacting
    <3>3. \A t \in Temps : Spare(t)'
      BY <1>1, <3>1, NamesAssumption DEF Spare
    <3> QED BY <1>4, <2>5, <3>2, <3>3, Whereabouts DEF Secured
  <2>6. ASSUME NEW q \in Processes \ {p}, proc[q].pc \in Transacting, proc[q].exe0 = accepted
        PROVE  Secured(s)'
    BY <1>1, <2>6 DEF Secured
  <2>7. CASE s[Exe] = accepted /\ \A q \in Processes : proc[q].pc \notin Transacting
    BY <1>1, <2>3, <2>7 DEF Secured
  <2> QED BY <2>1, <2>4, <2>5, <2>6, <2>7 DEF Secured
<1>5. \A s \in durable' : Upright(s)' /\ (~removed => Secured(s))'
  BY <1>4 DEF IInv, Upright
<1> QED BY <1>1, <1>2, <1>3, <1>5 DEF IInv, Directory

LEMMA IdleFacts ==
    /\ Idle \in Memory /\ Idle.pc = "idle" /\ Idle.cand = None /\ Idle.kept = None
    /\ Idle.paths = {} /\ Idle.kind = None
BY DEF Idle, Memory, Steps, Kinds, Contents

LEMMA EndedKeeps ==
    ASSUME IInv, NEW p \in Processes, Become(p, Idle),
           UNCHANGED <<platform, fs, durable, latest, accepted, removed>>,
           holder' = IF holder = p THEN None ELSE holder
    PROVE  IInv'
<1>1. PICK n \in Memory : n = Idle
  BY IdleFacts
<1> QED BY <1>1, IdleFacts, IdleStep DEF Waiting

LEMMA BeginKeeps ==
    ASSUME IInv, NEW p \in Processes, NEW does \in {"upgrade", "rollback", "uninstall"},
           NEW want \in Versions \cup {0}, Begin(p, does, want)
    PROVE  IInv'
<1> DEFINE k == [Idle EXCEPT !.pc = "wait", !.does = does, !.image = fs[Exe], !.want = want]
<1>1. k \in Memory
  BY DEF Begin, Idle, Memory, Steps, Kinds, Contents
<1>2. k.pc = "wait" /\ k.cand = None /\ k.kept = None /\ k.paths = {} /\ k.does # None
  BY DEF Idle, None
<1>3. Become(p, k)
  BY DEF Begin
<1>4. PICK n \in Memory : Become(p, n) /\ n.pc = "wait" /\ n.cand = None /\ n.kept = None
                          /\ n.paths = {} /\ n.does # None
  <2> HIDE DEF k
  <2> QED BY <1>1, <1>2, <1>3
<1>5. holder # p
  BY DEF IInv, TypeOK, Begin
<1> QED BY <1>4, <1>5, IdleStep DEF Begin, Files0, Waiting

LEMMA ExcludeForUpgradeKeeps ==
    ASSUME IInv, NEW p \in Processes, ExcludeForUpgrade(p) PROVE IInv'
<1> DEFINE m == proc[p]
           l == CASE m.does = "upgrade" -> "release" [] m.does = "rollback" -> "previous"
                  [] OTHER -> "remove"
           k == [m EXCEPT !.pc = l, !.exe0 = fs[Exe], !.prev0 = fs[Prev]]
<1>1. /\ m \in Memory /\ m.pc = "wait" /\ holder = None /\ holder' = p
      /\ removed' = (removed \/ m.does = "uninstall")
      /\ UNCHANGED <<platform, fs, durable, latest, accepted>>
      /\ SoundAs(m) /\ fs \in [Files -> Contents] /\ fs \in durable
  BY DEF ExcludeForUpgrade, Files0, IInv, TypeOK
<1>2. {Exe, Prev} \subseteq Files
  BY DEF Files
<1>3. PICK n \in Memory : /\ Become(p, n) /\ n.pc = l /\ n.does = m.does
                          /\ n.exe0 = fs[Exe] /\ n.prev0 = fs[Prev]
                          /\ n.cand = m.cand /\ n.kept = m.kept /\ n.paths = m.paths
  <2>1. k \in Memory
    BY <1>1, <1>2 DEF Memory, Steps
  <2>2. /\ k.pc = l /\ k.does = m.does /\ k.exe0 = fs[Exe] /\ k.prev0 = fs[Prev]
        /\ k.cand = m.cand /\ k.kept = m.kept /\ k.paths = m.paths
    BY <1>1 DEF Memory
  <2>3. Become(p, k)
    BY DEF ExcludeForUpgrade
  <2> HIDE DEF k, l
  <2> QED BY <2>1, <2>2, <2>3
<1>4. /\ m.does \in {"upgrade", "rollback", "uninstall"} /\ m.paths = {}
      /\ m.cand = None /\ m.kept = None
  BY <1>1 DEF SoundAs, Recalls, Memory
<1>5. /\ n.pc \in {"release", "previous", "remove"}
      /\ n.pc = "release" => n.does = "upgrade"
      /\ n.pc = "previous" => n.does = "rollback"
      /\ n.pc = "remove" => n.does = "uninstall"
      /\ n.does = "uninstall" => removed'
      /\ n.does # None
  BY <1>1, <1>3, <1>4 DEF None
<1>6. proc' \in [Processes -> Memory] /\ proc'[p] = n
      /\ \A q \in Processes \ {p} : proc'[q] = proc[q]
  BY <1>3 DEF IInv, Become
<1>7. \A q \in Processes : proc[q].pc \in Waiting
  BY <1>1, NamesAssumption DEF IInv, TypeOK, Waiting
<1>8. TypeOK'
  BY <1>1, <1>5, <1>6, <1>7 DEF IInv, TypeOK, Memory, Waiting
<1>9. /\ fs[Exe] # Partial
      /\ platform' = "posix" /\ ~removed' => Runs(fs[Exe])
  BY <1>1 DEF IInv, Upright
<1>10. ASSUME NEW q \in Processes PROVE SoundAs(proc[q])'
  <2>1. CASE q = p
    <3>1. Seen(n)' /\ Settled(n)' /\ ReportHolds(n)' /\ \A d \in durable' : Left(n, d)'
      BY <1>1, <1>3, <1>5 DEF Seen, Settled, Left, ReportHolds, Reported, Found
    <3>2. Recalls(n)'
      BY <1>3, <1>4, <1>5, <1>9 DEF Recalls, Transacting, Reported
    <3> QED BY <1>6, <2>1, <3>1, <3>2 DEF SoundAs
  <2>2. CASE q # p
    <3>1. proc'[q] = proc[q] /\ proc[q].pc \in Waiting /\ SoundAs(proc[q])
      BY <1>6, <1>7, <2>2 DEF IInv
    <3> QED BY <3>1 DEF SoundAs, Seen, Settled, Recalls, ReportHolds, Left, Waiting, Transacting, Reported
  <2> QED BY <2>1, <2>2
<1>11. ASSUME NEW s \in durable' PROVE Upright(s)' /\ (~removed => Secured(s))'
  <2>1. s \in durable /\ Upright(s) /\ (~removed => Secured(s))
    BY <1>1, <1>11 DEF IInv
  <2>2. Upright(s)'
    BY <1>1, <2>1 DEF Upright
  <2>3. ASSUME ~removed' PROVE Secured(s)'
    <3>1. \A t \in Temps : Spare(t) => Spare(t)'
      BY <1>3, <1>4, <1>6, NamesAssumption DEF Spare
    <3>2. \A q \in Processes : proc[q].pc \notin Transacting /\ proc'[q].pc \notin Transacting
      BY <1>5, <1>6, <1>7 DEF Transacting, Waiting
    <3> QED BY <1>1, <2>1, <2>3, <3>1, <3>2 DEF Secured
  <2> QED BY <2>2, <2>3
<1> QED BY <1>1, <1>6, <1>8, <1>10, <1>11 DEF IInv, Directory

LEMMA PowerLossKeeps ==
    ASSUME IInv, PowerLoss PROVE IInv'
<1>1. PICK s \in durable : fs' = s /\ durable' = {s}
  BY DEF PowerLoss
<1>2. /\ proc' \in [Processes -> Memory] /\ \A q \in Processes : proc'[q] = Idle
      /\ holder' = None /\ UNCHANGED <<platform, latest, accepted, removed>>
  BY IdleFacts DEF PowerLoss, Others
<1>3. TypeOK'
  BY <1>1, <1>2, IdleFacts, NamesAssumption DEF IInv, TypeOK, Kinds
<1>4. ASSUME NEW q \in Processes PROVE SoundAs(proc[q])'
  BY <1>2, IdleFacts DEF SoundAs, Seen, Settled, Recalls, ReportHolds, Left, Transacting, Reported
<1>5. Upright(s)'
  BY <1>2 DEF IInv, Upright
<1>6. ASSUME ~removed PROVE Secured(s)'
  <2>1. \A t \in Temps : Spare(t)'
    BY <1>2, IdleFacts, NamesAssumption DEF Spare
  <2>2. \A q \in Processes : proc'[q].pc \notin Transacting
    BY <1>2, IdleFacts DEF Transacting
  <2>3. (\E t \in Temps : s[t] = accepted) \/ s[Exe] = accepted
    BY <1>6, Whereabouts DEF IInv, Secured
  <2> QED BY <1>2, <2>1, <2>2, <2>3 DEF Secured
<1>7. Directory' /\ removed' = removed
  BY <1>1, <1>2 DEF Directory
<1> QED BY <1>1, <1>2, <1>3, <1>4, <1>5, <1>6, <1>7 DEF IInv

LEMMA UnchangedKeeps ==
    ASSUME IInv, UNCHANGED <<platform, fs, durable, holder, proc, accepted, removed>>,
           latest' \in Versions
    PROVE  IInv'
<1>1. TypeOK' /\ (proc \in [Processes -> Memory])' /\ Directory'
  BY DEF IInv, TypeOK, Directory
<1>2. \A p \in Processes : SoundAs(proc[p])'
  BY DEF IInv, SoundAs, Seen, Settled, Recalls, ReportHolds, Left, Found, Staged, Copied, Away,
         Installed, Kept
<1>3. \A s \in durable : Upright(s)' /\ (~removed => Secured(s))'
  BY DEF IInv, Upright, Secured, Spare
<1> QED BY <1>1, <1>2, <1>3 DEF IInv

-----------------------------------------------------------------------------
(* The theorems.                                                           *)

LEMMA InitSound == ASSUME Init PROVE IInv
<1>1. PICK v \in Versions \ Broken, w \in (Versions \ Broken) \cup {Absent} :
            /\ fs = [n \in Files |-> IF n = Exe THEN v ELSE IF n = Prev THEN w ELSE Absent]
            /\ accepted = v
  BY DEF Init
<1>2. {Exe, Prev} \subseteq Files /\ Exe # Prev /\ Partial \notin Versions /\ Absent # Partial
  BY NamesAssumption DEF Files, Exe, Prev
<1>3. fs \in [Files -> Contents] /\ fs[Exe] = v /\ fs[Prev] = w
  BY <1>1, <1>2 DEF Contents
<1>4. proc \in [Processes -> Memory] /\ \A p \in Processes : proc[p] = Idle
  BY IdleFacts DEF Init
<1>5. TypeOK
  BY <1>1, <1>3, <1>4, IdleFacts, NamesAssumption DEF Init, TypeOK, Kinds
<1>6. \A p \in Processes : SoundAs(proc[p])
  BY <1>4, IdleFacts DEF SoundAs, Seen, Settled, Recalls, ReportHolds, Left, Transacting, Reported
<1>7. Upright(fs)
  BY <1>2, <1>3 DEF Upright, Runs
<1>8. Secured(fs)
  BY <1>1, <1>3, <1>4, IdleFacts DEF Secured, Transacting
<1> QED BY <1>4, <1>5, <1>6, <1>7, <1>8 DEF IInv, Directory, Init

LEMMA NextSound == ASSUME IInv, [Next]_vars PROVE IInv'
<1>1. ASSUME NEW p \in Processes, NEW w \in Versions \cup {0}, Begin(p, "upgrade", w) PROVE IInv'
  BY <1>1, BeginKeeps
<1>2. ASSUME NEW p \in Processes, Begin(p, "rollback", 0) \/ Begin(p, "uninstall", 0) PROVE IInv'
  BY <1>2, BeginKeeps
<1>3. ASSUME NEW p \in Processes, ExcludeForUpgrade(p) PROVE IInv'
  BY <1>3, ExcludeForUpgradeKeeps
<1>4. ASSUME NEW p \in Processes, LifecycleBusy(p) PROVE IInv'
  <2>1. holder # p
    BY <1>4 DEF LifecycleBusy, IInv, TypeOK
  <2> QED BY <1>4, <2>1, EndedKeeps DEF LifecycleBusy, Files0, Others
<1>5. ASSUME NEW p \in Processes,
             \/ Release(p) \/ ReadPrevious(p) \/ Stage(p) \/ Fill(p) \/ Check(p)
             \/ DurableSnapshot(p) \/ CopyExecutable(p) \/ InstallCandidate(p)
             \/ SyncInstalled(p) \/ KeepPrevious(p) \/ SyncKept(p)
             \/ RestorePOSIX(p) \/ SyncRestored(p)
      PROVE  IInv'
  BY <1>5, ReleaseKeeps, ReadPreviousKeeps, StageKeeps, FillKeeps, CheckKeeps, DurableSnapshotKeeps,
     CopyExecutableKeeps, InstallCandidateKeeps, SyncInstalledKeeps, KeepPreviousKeeps,
     SyncKeptKeeps, RestorePOSIXKeeps, SyncRestoredKeeps
<1>6. ASSUME NEW p \in Processes, ValidateInstalled(p) PROVE IInv'
  BY <1>6, ValidateInstalledKeeps, ValidateInstalledOnWindows DEF IInv, TypeOK
<1>7. ASSUME NEW p \in Processes,
             \/ Reserve(p) \/ MoveAside(p) \/ PlaceCandidate(p) \/ KeepDisplaced(p)
             \/ MoveOut(p) \/ PutBack(p) \/ Discard(p) \/ RemoveBinary(p)
      PROVE  IInv'
  BY <1>7, ReserveKeeps, MoveAsideKeeps, PlaceCandidateKeeps, KeepDisplacedKeeps, MoveOutKeeps,
     PutBackKeeps, DiscardKeeps, RemoveBinaryKeeps
<1>8. ASSUME NEW p \in Processes, Exit(p) PROVE IInv'
  <2>1. holder = p
    BY <1>8 DEF Exit, IInv, TypeOK
  <2> QED BY <1>8, <2>1, EndedKeeps DEF Exit, Files0, Others
<1>9. ASSUME NEW p \in Processes, Kill(p) PROVE IInv'
  BY <1>9, EndedKeeps DEF Kill, Files0, Others
<1>10. CASE Publish
  BY <1>10, UnchangedKeeps DEF Publish, Files0
<1>11. CASE PowerLoss
  BY <1>11, PowerLossKeeps
<1>12. CASE UNCHANGED vars
  BY <1>12, UnchangedKeeps DEF vars, IInv, TypeOK
<1> QED BY <1>1, <1>2, <1>3, <1>4, <1>5, <1>6, <1>7, <1>8, <1>9, <1>10, <1>11, <1>12 DEF Next

(* What each step of a replacement, of its undoing and of a rollback finds *)
(* in the directory, and what a loss of power may leave of it (replace.go, *)
(* with upgrade.go's locks around it).                                     *)
THEOREM UpdateInvariant == Spec => []IInv
BY InitSound, NextSound, PTL DEF Spec

(* From the first rename to the last, with every failure, kill and loss of *)
(* power between two of them, the binary that was accepted last is whole   *)
(* in some file of the directory: no step removes its only copy.           *)
THEOREM TheOldBinarySurvives == Spec => []OldBinarySurvives
<1>1. ASSUME IInv PROVE OldBinarySurvives
  <2>1. ASSUME ~removed, NEW s \in durable PROVE \E n \in Files : s[n] = accepted
    BY <1>1, <2>1, Whereabouts DEF IInv, Secured, Files
  <2> QED BY <1>1, <2>1 DEF OldBinarySurvives, IInv, TypeOK
<1> QED BY <1>1, UpdateInvariant, PTL

(* On POSIX the canonical path always has a binary that runs, whenever the *)
(* power fails; neither platform has half of one there or in .previous;    *)
(* and one process at a time is past the locks.                            *)
THEOREM TheExecutableStands == Spec => []ExecutableStands
<1>1. ASSUME IInv PROVE ExecutableStands
  BY <1>1 DEF IInv, ExecutableStands, Upright, TypeOK
<1> QED BY <1>1, UpdateInvariant, PTL

(* An upgrade or a rollback that reports success has swapped the binaries, *)
(* durably; one that reports a plain failure has left both as they were;   *)
(* and one that names files names files that are there, the binary it      *)
(* replaced among them (upgrade.go, the errors of replace.go).             *)
THEOREM TheReportIsTrue == Spec => []ReportIsTrue
<1>1. ASSUME IInv PROVE ReportIsTrue
  <2>1. ASSUME NEW p \in Processes, proc[p].pc = "done", proc[p].does # "uninstall"
        PROVE  LET r == proc[p] IN
               CASE r.kind = "ok" ->
                      /\ \A s \in durable : s[Exe] = r.target /\ s[Prev] = r.exe0
                      /\ r.does = "rollback" => r.target = r.prev0
                 [] r.kind = "incomplete" ->
                      /\ \A n \in r.paths \ {Prev} : fs[n] \in Versions
                      /\ fs[Exe] = r.target => \E n \in r.paths : fs[n] = r.exe0
                 [] r.kind = "manual_intervention" ->
                      /\ \A n \in r.paths : fs[n] \in Versions
                      /\ \E n \in r.paths \ {Exe} : fs[n] = r.exe0
                      /\ fs[Prev] = r.prev0
                 [] OTHER -> fs[Exe] = r.exe0 /\ fs[Prev] = r.prev0
    <3>1. ReportHolds(proc[p])
      BY <1>1 DEF IInv, SoundAs
    <3> QED BY <2>1, <3>1 DEF ReportHolds, Reported, Found
  <2> QED BY <2>1 DEF ReportIsTrue
<1> QED BY <1>1, UpdateInvariant, PTL

(* An uninstall that has finished with the binary has removed, or names,   *)
(* every file an update left beside it, however that update ended.         *)
THEOREM TheUninstallNamesWhatStays == Spec => []NothingUnreported
<1>1. ASSUME IInv PROVE NothingUnreported
  BY <1>1 DEF IInv, SoundAs, ReportHolds, Reported, NothingUnreported
<1> QED BY <1>1, UpdateInvariant, PTL
=============================================================================
