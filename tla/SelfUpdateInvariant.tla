------------------------- MODULE SelfUpdateInvariant -------------------------
(***************************************************************************)
(* The inductive invariant behind the four properties of SelfUpdate: what  *)
(* the directory holds at each step of a replacement and of its undoing,   *)
(* as a process sees it and as any loss of power may leave it.             *)
(***************************************************************************)
EXTENDS SelfUpdate

Steps == {"idle", "wait", "release", "previous", "stage", "fill", "check", "snapshot",
          "copy", "install", "sync", "validate", "keep", "syncKept", "restore",
          "syncRestored", "reserve", "aside", "place", "displace", "moveout", "putback",
          "discard", "done", "remove"}

Memory == [pc : Steps, does : {None, "upgrade", "rollback", "uninstall"},
           image : Versions \cup {0}, want : Versions \cup {0}, from : Contents,
           target : Versions \cup {0}, cand : Temps \cup {None}, kept : Temps \cup {None},
           tries : Nat, out : BOOLEAN, kind : Kinds, paths : SUBSET Files,
           exe0 : Contents \cup {0}, prev0 : Contents \cup {0}]

\* From the candidate's validation until the old binary is kept or back for good, what
\* stood at the start is all a transaction answers for.
Transacting == {"check", "snapshot", "copy", "install", "sync", "validate", "keep", "restore",
                "syncRestored", "reserve", "aside", "place", "displace", "moveout", "putback"}
\* The steps that are over with the snapshot or the displaced binary.
Reported == {"discard", "done"}

\* What a directory looks like to the transaction of m.
Found(m, s)     == s[Exe] = m.exe0 /\ s[Prev] = m.prev0
Staged(m, s)    == Found(m, s) /\ s[m.cand] = m.target
Copied(m, s)    == Staged(m, s) /\ s[m.kept] = m.exe0
Away(m, s)      == /\ s[Exe] = Absent /\ s[Prev] = m.prev0
                   /\ s[m.cand] = m.target /\ s[m.kept] = m.exe0
Installed(m, s) == /\ s[Exe] = m.target /\ s[Prev] = m.prev0
                   /\ s[m.cand] = Absent /\ s[m.kept] = m.exe0
Kept(m, s)      == s[Exe] = m.target /\ s[Prev] = m.exe0

\* What a process sees, and what may be on the disk, at each step.
Seen(m) ==
    /\ m.pc \in {"release", "previous", "stage", "fill", "check", "syncRestored"} => Found(m, fs)
    /\ m.pc = "check" => fs[m.cand] = m.from
    /\ m.pc \in {"snapshot", "copy", "reserve", "aside"} => Staged(m, fs)
    /\ m.pc = "aside" => fs[m.kept] = Absent
    /\ m.pc = "install" => Copied(m, fs)
    /\ m.pc \in {"sync", "validate", "keep", "restore", "displace", "moveout"} => Installed(m, fs)
    /\ m.pc \in {"place", "putback"} => Away(m, fs)
    /\ m.pc = "syncKept" => Kept(m, fs)

Settled(m) == m.pc \in {"check", "snapshot", "install", "validate", "keep"} => durable = {fs}

Left(m, s) ==
    /\ m.pc = "fill" => s[m.cand] \in {Absent, Partial}
    /\ m.pc = "copy" => Staged(m, s) /\ s[m.kept] \in {Absent, Partial}
    /\ m.pc \in {"sync", "restore"} => Copied(m, s) \/ Installed(m, s)
    /\ m.pc = "syncKept" => Kept(m, s) \/ Installed(m, s)
    /\ m.pc = "syncRestored" => Found(m, s) \/ Installed(m, s)

\* What a process remembers is what it found and what it made of it.
Recalls(m) ==
    /\ m.pc \in {"idle", "wait"} => m.kept = None
    /\ m.pc \in {"idle", "wait", "release", "previous", "stage", "remove"} => m.cand = None
    /\ m.pc \notin {"idle", "wait", "remove"} \cup Reported =>
          m.paths = {} /\ m.does \in {"upgrade", "rollback"}
    /\ m.pc = "wait" => m.paths = {} /\ m.does # None
    /\ m.pc = "release" => m.does = "upgrade"
    /\ m.pc = "previous" => m.does = "rollback"
    /\ m.pc = "remove" => m.does = "uninstall"
    /\ m.pc \in {"stage", "fill", "check"} => /\ m.from \in Versions
                                              /\ m.does = "rollback" => m.from = m.prev0
    /\ m.pc \in {"fill", "syncKept"} \cup Transacting => m.cand \in Temps
    /\ m.pc \in (Transacting \cup {"syncKept"}) \ {"check"} =>
          m.target \in Versions \ Broken /\ (m.does = "rollback" => m.target = m.prev0)
    /\ m.pc \in ({"copy", "syncKept"} \cup Transacting) \ {"check", "snapshot", "reserve"} =>
          m.kept \in Temps /\ m.kept # m.cand
    /\ m.pc \in ({"copy", "syncKept"} \cup Transacting) \ {"check", "snapshot", "reserve", "aside"} =>
          m.exe0 \in Versions
    /\ m.pc \in {"snapshot", "copy", "install", "sync", "keep", "syncKept", "restore", "syncRestored"} =>
          platform = "posix"
    /\ m.pc \in {"reserve", "aside", "place", "displace", "moveout", "putback"} => platform = "windows"
    /\ m.pc \in {"moveout", "putback"} => m.kind \in {"replacement_failed", "previous_in_use"}
    /\ m.pc \notin {"idle", "wait"} =>
          /\ m.exe0 # Partial /\ m.does # None
          /\ m.does = "uninstall" => removed
          /\ platform = "posix" /\ ~removed => Runs(m.exe0)

\* What a report says from the moment it is made.
ReportHolds(m) ==
    m.pc \in Reported =>
        /\ m.does # "uninstall" =>
              /\ m.kind = "ok" => /\ \A s \in durable : s[Exe] = m.target /\ s[Prev] = m.exe0
                                  /\ m.does = "rollback" => m.target = m.prev0
              /\ m.kind = "incomplete" =>
                    /\ \A n \in m.paths \ {Prev} : fs[n] \in Versions
                    /\ fs[Exe] = m.target => \E n \in m.paths : fs[n] = m.exe0
              /\ m.kind = "manual_intervention" =>
                    /\ \A n \in m.paths : fs[n] \in Versions
                    /\ \E n \in m.paths \ {Exe} : fs[n] = m.exe0
                    /\ fs[Prev] = m.prev0
              /\ m.kind \notin {"ok", "incomplete", "manual_intervention"} => Found(m, fs)
        /\ m.does = "uninstall" => m.cand = None /\ \A n \in Files : fs[n] # Absent => n \in m.paths

SoundAs(m) ==
    /\ Seen(m) /\ Settled(m) /\ Recalls(m) /\ ReportHolds(m)
    /\ \A s \in durable : Left(m, s)

\* A temporary that no transaction is going to touch.
Spare(t) == \A p \in Processes : /\ t # proc[p].cand
                                 /\ t = proc[p].kept => proc[p].pc \in Reported

\* The old binary is in a temporary nobody touches, or it is the one that the running
\* transaction found, or it stands.
Secured(s) ==
    \/ \E t \in Temps : Spare(t) /\ s[t] = accepted
    \/ IF \E p \in Processes : proc[p].pc \in Transacting
       THEN \E p \in Processes : proc[p].pc \in Transacting /\ proc[p].exe0 = accepted
       ELSE s[Exe] = accepted

\* Windows writes through.
Directory == platform = "windows" => durable = {fs}

Upright(s) ==
    /\ s[Exe] # Partial /\ s[Prev] # Partial
    /\ platform = "posix" /\ ~removed => Runs(s[Exe])

IInv ==
    /\ TypeOK /\ proc \in [Processes -> Memory]
    /\ Directory
    /\ \A p \in Processes : SoundAs(proc[p])
    /\ \A s \in durable : Upright(s) /\ (~removed => Secured(s))
=============================================================================
