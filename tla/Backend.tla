-------------------------------- MODULE Backend --------------------------------
(***************************************************************************)
(* What a caller of Exporter.Export (pkg/runner/export.go) may rely on,    *)
(* whichever backend is configured: the backend takes a batch whole and at *)
(* most once, perhaps when the call has already failed or its caller is    *)
(* dead, and success is answered only for a batch that was taken.  What it *)
(* took it keeps, unless another batch has the same place.                 *)
(***************************************************************************)
CONSTANTS
  Calls,   \* calls of Export
  Places   \* where the backend may put a batch

VARIABLES
  given,    \* calls that were made
  waiting,  \* those whose caller waits for the answer
  pending,  \* those whose batch may still be taken
  place,    \* [Calls -> Places]
  held,     \* calls whose batch the backend has
  answer    \* [Calls -> "none", "ok", "error"]

vars == <<given, waiting, pending, place, held, answer>>

Init ==
  /\ given = {}
  /\ waiting = {}
  /\ pending = {}
  /\ place \in [Calls -> Places]
  /\ held = {}
  /\ answer = [n \in Calls |-> "none"]

(* A batch without records is a success without a write. *)
Give(n, at, something) ==
  /\ n \in Calls \ given
  /\ given' = given \cup {n}
  /\ place' = [place EXCEPT ![n] = at]
  /\ IF something
     THEN /\ waiting' = waiting \cup {n}
          /\ pending' = pending \cup {n}
          /\ answer' = answer
     ELSE /\ answer' = [answer EXCEPT ![n] = "ok"]
          /\ UNCHANGED <<waiting, pending>>
  /\ held' = held

(* The batch comes to its place; what was there is gone. *)
Put(n) == held' = {m \in held : place[m] # place[n]} \cup {n}

(* The caller learns what became of its call. *)
Tell(n, result) ==
  /\ n \in waiting
  /\ waiting' = waiting \ {n}
  /\ answer' = [answer EXCEPT ![n] = result]

(* The batch is taken, before the answer or when nobody waits for it. *)
Take(n) ==
  /\ n \in pending
  /\ pending' = pending \ {n}
  /\ Put(n)
  /\ UNCHANGED <<given, waiting, place, answer>>

(* The batch is taken, and the call ends: the answer may be lost. *)
TakeAndTell(n, result) ==
  /\ n \in pending
  /\ pending' = pending \ {n}
  /\ Put(n)
  /\ Tell(n, result)
  /\ UNCHANGED <<given, place>>

(* Success, for a batch that was taken before. *)
Confirm(n) ==
  /\ n \notin pending
  /\ Tell(n, "ok")
  /\ UNCHANGED <<given, pending, place, held>>

(* An error, after which the batch may come yet, or not. *)
Fail(n, mayCome) ==
  /\ Tell(n, "error")
  /\ pending' = IF mayCome THEN pending ELSE pending \ {n}
  /\ UNCHANGED <<given, place, held>>

(* The callers die: nobody will be told; some batches may come yet. *)
Die(rest) ==
  /\ rest \subseteq pending
  /\ waiting' = {}
  /\ pending' = rest
  /\ UNCHANGED <<given, place, held, answer>>

Next ==
  \/ \E n \in Calls :
       \/ \E at \in Places, something \in BOOLEAN : Give(n, at, something)
       \/ Take(n)
       \/ \E result \in {"ok", "error"} : TakeAndTell(n, result)
       \/ Confirm(n)
       \/ \E mayCome \in BOOLEAN : Fail(n, mayCome)
  \/ \E rest \in SUBSET pending : Die(rest)

Spec == Init /\ [][Next]_vars
==============================================================================
