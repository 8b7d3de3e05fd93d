---------------------------- MODULE SessionPool ----------------------------
(***************************************************************************)
(* What the realtime bridge promises of its capacity: a media stream gets  *)
(* a session at most once, only below the global and the per-user cap, and *)
(* gives it back at most once.                                             *)
(***************************************************************************)
EXTENDS Integers, FiniteSets

CONSTANTS Streams, Owner, MaxSessions, MaxPerUser

VARIABLES held, released

HeldBy(u) == {s \in held : Owner[s] = u}

Init == held = {} /\ released = {}

Acquire(s) ==
    /\ s \notin held \cup released
    /\ Cardinality(held) < MaxSessions
    /\ Cardinality(HeldBy(Owner[s])) < MaxPerUser
    /\ held' = held \cup {s}
    /\ UNCHANGED released

\* one stream ends, or a restart ends them all
Release(S) ==
    /\ S # {}
    /\ held' = held \ S
    /\ released' = released \cup S

Next == (\E s \in Streams : Acquire(s)) \/ (\E S \in SUBSET held : Release(S))

Spec == Init /\ [][Next]_<<held, released>>
=============================================================================
