------------------------ MODULE AuthorizationInvariant ------------------------
(***************************************************************************)
(* The inductive invariant behind NoReuse and StopReachesEveryFamily: what *)
(* the token file, the server's families, the marker and the processes owe *)
(* each other between any two steps of Authorization.                      *)
(***************************************************************************)
EXTENDS Authorization

\* A process that talks about a token has it in hand.
InHand(p) ==
    proc[p].step \in {"spend", "persist", "post", "delete", "store"} => Held(p) \in Tokens

\* Under the lock the file shows the token that was read there, or nothing once a
\* purge has taken it away; the successor is the newest of a live family.
FromFile(p) ==
    /\ proc[p].step \in {"spend", "post", "delete"} => token \in {NoToken, Held(p)}
    /\ At(p, "persist") => /\ token # NoToken => token.family = Held(p).family
                           /\ Held(p).family \in live
                           /\ Held(p).turn = turn[Held(p).family]
    /\ At(p, "delete") => Held(p).family \notin live

\* A family fresh from the server is known to nobody but the process that redeemed it.
JustMinted(p) ==
    At(p, "store") =>
        /\ Held(p).family \in live /\ Held(p).turn = 0 /\ turn[Held(p).family] = 0
        /\ Held(p).family \notin FamiliesOf({token} \cup {Held(q) : q \in Processes \ {p}})

\* A token that may yet be spent is the newest of its family, unless the successor
\* was lost or is on its way to the disk.
Current(t) ==
    IsLive(t) => \/ t.turn = turn[t.family]
                 \/ t.family \in cut
                 \/ \E p \in Processes : At(p, "persist") /\ Held(p).family = t.family

UpToDate == Current(token) /\ \A p \in Processes : At(p, "spend") => Current(Held(p))

\* A live family is on file, on its way there or a stray.
Accounted ==
    \A f \in live : \/ f \in strays
                    \/ token # NoToken /\ token.family = f
                    \/ \E p \in Processes : At(p, "store") /\ Held(p).family = f

\* A disable that has not come to its end and will mark what it cannot revoke.
WillMark == \E u \in Persons :
    Job(u) = "disable" /\ (At(u, "post") \/ (At(u, "settle") /\ ~proc[u].seen))

\* While mining is off, the family on file is marked, or will be.
Marked == decision = "off" /\ IsLive(token) =>
              owed \/ token.family \in strays \/ Stopping \/ WillMark

IInv ==
    /\ TypeOK /\ ~reused /\ UpToDate /\ Accounted /\ Marked
    /\ \A p \in Processes : InHand(p) /\ FromFile(p) /\ JustMinted(p)
=============================================================================
