------------------------------ MODULE Directory ------------------------------
(***************************************************************************)
(* Package fsx: complete files published under a name, with explicit       *)
(* durability.  A directory has two sides.  d.shown[n] is what a process   *)
(* that opens n finds now.  d.left[n] is the set of everything a loss of   *)
(* power may leave under n: a name operation (link, rename, unlink) whose  *)
(* directory was not synchronised afterwards may or may not have reached   *)
(* the disk, and a successful fsync of the directory settles every name.   *)
(***************************************************************************)
EXTENDS Naturals

CONSTANT NoFile     \* the content of a name that does not exist

Directories(Names, Contents) ==
    [shown : [Names -> Contents \cup {NoFile}],
     left  : [Names -> SUBSET (Contents \cup {NoFile})]]

\* A loss of power may leave a name as it is shown.
Coherent(d) == \A n \in DOMAIN d.shown : d.shown[n] \in d.left[n]

\* A directory every name of which is settled.
Settled(shown) == [shown |-> shown, left |-> [n \in DOMAIN shown |-> {shown[n]}]]

\* A name operation that is visible and not yet synchronised: publish, rename
\* or remove.  NoFile as content is an unlink.
Put(d, n, content) ==
    [shown |-> [d.shown EXCEPT ![n] = content],
     left  |-> [d.left EXCEPT ![n] = @ \cup {content}]]

\* fsx.SyncDirectory: every name of the directory is durable as shown.
Sync(d) == Settled(d.shown)

(***************************************************************************)
(* How a durable operation ends: it is stored; it fails before the final   *)
(* name changed; or it is published and the directory sync fails, the      *)
(* StageError with Published set.  Only "stored" returns no error.         *)
(***************************************************************************)
Outcomes == {"stored", "unsynced", "failed"}

\* WriteFileAtomic, WriteFileExclusive and MoveFileDurable.
Write(d, n, content, outcome) ==
    CASE outcome = "stored"   -> Sync(Put(d, n, content))
      [] outcome = "unsynced" -> Put(d, n, content)
      [] OTHER                -> d

\* The storage faults one outcome stands for.
Faults(outcome) == IF outcome = "stored" THEN 0 ELSE 1

\* What a loss of power may leave of the directory.
AfterPowerLoss(d) ==
    LET Images == UNION {d.left[n] : n \in DOMAIN d.left}
    IN  {Settled(shown) : shown \in
            {s \in [DOMAIN d.shown -> Images] : \A n \in DOMAIN d.shown : s[n] \in d.left[n]}}
=============================================================================
