-------------------------------- MODULE UIDSet --------------------------------
(***************************************************************************)
(* The set of processed UIDs (uidSet, pkg/runner/setter.go) with its clock:*)
(* a map from a UID to the time it was added, read and written under a     *)
(* lock, and a goroutine that sweeps it at every tick of a ticker.  A time *)
(* is kept as the time that has passed since.                              *)
(***************************************************************************)
EXTENDS Integers

CONSTANTS
  UIDs,           \* pods
  CacheTTL,       \* cacheTTL (30 minutes)
  SweepInterval   \* cacheSweepInterval (5 minutes)

ASSUME SetOK == CacheTTL \in Nat /\ SweepInterval \in Nat \ {0}

VARIABLES
  stored,      \* keys of the map m
  age,         \* [UIDs -> time.Since of the entry; 0 where there is none]
  sinceSweep,  \* time since the ticker fired
  sinceAdd     \* history: [UIDs -> time since the last Add; Never, see below]

setVars == <<stored, age, sinceSweep, sinceAdd>>

(* Longer ago than cacheTTL, or not at all. *)
Never == CacheTTL + 1

EmptySet ==
  /\ stored = {}
  /\ age = [u \in UIDs |-> 0]
  /\ sinceSweep = 0
  /\ sinceAdd = [u \in UIDs |-> Never]

(* Mutant: an entry as old as cacheTTL has lapsed. *)
FreshBefore(t) == t < CacheTTL

(* time.Since(t) <= cacheTTL *)
Fresh(t) == t <= CacheTTL

(* t, exists := s.m[uid], the half of Has that is under the lock; a time     *)
(* beyond Never is Never.                                                    *)
Entry(u) == IF u \in stored /\ age[u] < Never THEN age[u] ELSE Never

(* A time of at most Never, one unit later. *)
Later(t) == IF t = Never THEN Never ELSE t + 1

Add(u) ==
  /\ stored' = stored \cup {u}
  /\ age' = [age EXCEPT ![u] = 0]
  /\ sinceAdd' = [sinceAdd EXCEPT ![u] = 0]
  /\ UNCHANGED sinceSweep

SweepDue == sinceSweep = SweepInterval

(* Mutant: the sweep takes what is as old as cacheTTL too. *)
SweepEager ==
  /\ SweepDue
  /\ sinceSweep' = 0
  /\ stored' = {u \in stored : age[u] < CacheTTL}
  /\ age' = [u \in UIDs |-> IF u \in stored /\ age[u] < CacheTTL THEN age[u] ELSE 0]
  /\ UNCHANGED sinceAdd

(* Mutant: the sweep deletes nothing. *)
SweepNothing ==
  /\ SweepDue
  /\ sinceSweep' = 0
  /\ UNCHANGED <<stored, age, sinceAdd>>

(* The ticker fires and sweep deletes what is older than cacheTTL. *)
Sweep ==
  /\ SweepDue
  /\ sinceSweep' = 0
  /\ stored' = {u \in stored : age[u] <= CacheTTL}
  /\ age' = [u \in UIDs |-> IF u \in stored /\ age[u] <= CacheTTL THEN age[u] ELSE 0]
  /\ UNCHANGED sinceAdd

(* One unit of time passes. *)
Elapse ==
  /\ ~SweepDue
  /\ sinceSweep' = sinceSweep + 1
  /\ age' = [u \in UIDs |-> IF u \in stored THEN age[u] + 1 ELSE 0]
  /\ sinceAdd' = [u \in UIDs |-> Later(sinceAdd[u])]
  /\ UNCHANGED stored

SetTypeOK ==
  /\ stored \subseteq UIDs
  /\ age \in [UIDs -> Nat]
  /\ sinceSweep \in 0 .. SweepInterval
  /\ sinceAdd \in [UIDs -> 0 .. Never]

-----------------------------------------------------------------------------
(* Safety. *)

(* An entry leaves the map soon after it lapsed, or the map would grow with  *)
(* every pod the process has seen (setter.go:17-18, 54-74).                  *)
EntryLifetime == \A u \in stored : age[u] <= CacheTTL + sinceSweep

(* A UID is held for processed exactly for cacheTTL after it was last added, *)
(* whenever the sweep comes and however often the UID is added again         *)
(* (setter.go:35-64).                                                        *)
Remembers == \A u \in UIDs : Fresh(Entry(u)) <=> sinceAdd[u] # Never

-----------------------------------------------------------------------------
(* The invariant behind Remembers: the entry is the last Add, as long as it  *)
(* counts.                                                                   *)
EntryIsLastAdd == \A u \in UIDs : Entry(u) = sinceAdd[u]
===============================================================================
