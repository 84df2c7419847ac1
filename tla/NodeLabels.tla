------------------------------ MODULE NodeLabels ------------------------------
(***************************************************************************)
(* EnsureLabels (pkg/node/label.go) on one node: workers that read the     *)
(* node, decide, and send a strategic merge patch, each up to maxRetries   *)
(* times, while other controllers write labels of their own and any        *)
(* request may fail or lose its answer.                                    *)
(***************************************************************************)
EXTENDS GPULabels

CONSTANTS
  Writers,     \* workers that process a pod of this node
  Listings,    \* what nvidia-smi may list
  Foreign,     \* label keys without the prefix labelNS
  Values,      \* what other controllers write there
  MaxRetries,  \* maxRetries
  MaxFaults,   \* bound on failed requests
  MaxCalls     \* bound on calls of EnsureLabels

ASSUME WritersOK ==
  /\ MaxRetries \in Nat \ {0}
  /\ MaxFaults \in Nat
  /\ MaxCalls \in Nat

(* nvidia-smi lists some GPU, and writes one text for every chassis serial  *)
(* that it does not have.                                                   *)
ASSUME ListingsOK ==
  \A l \in Listings :
    /\ l # {} /\ l \subseteq Texts \X Texts
    /\ IsFiniteSet(l)
    /\ \A c, d \in ChassisOf(l) : c \in Unset /\ d \in Unset => c = d

(* No label that the program writes is another controller's: its keys begin *)
(* with labelNS.                                                            *)
ASSUME ForeignOK == \A k \in Foreign : k[1] \notin {"gpu", "chassis", "chassis-count"}

VARIABLES
  node,     \* the labels of the node: a function of the keys it has
  theirs,   \* [Foreign -> what its controller wrote last]
  pc,       \* [Writers -> "idle", "get", "patch"]
  listing,  \* [Writers -> the listing of the current or last call]
  desired,  \* [Writers -> desiredLabels]
  current,  \* [Writers -> currentLabels, as read]
  tries,    \* [Writers -> attempts begun in this call]
  outcome,  \* [Writers -> how the last call ended]
  faults,   \* failed requests so far
  calls     \* calls so far

vars == <<node, theirs, pc, listing, desired, current, tries, outcome, faults, calls>>

Without(f, S) == [k \in DOMAIN f \ S |-> f[k]]

(* f written over g: f @@ g, with a definition that can be expanded. *)
Over(f, g) == [k \in DOMAIN f \cup DOMAIN g |-> IF k \in DOMAIN f THEN f[k] ELSE g[k]]

(* strings.HasPrefix(k, labelNS) *)
Prefixed(labels) == DOMAIN labels \ Foreign

Own(labels) == Without(labels, Foreign)

(* The node may carry the labels of an earlier reading. *)
Init ==
  /\ \E v \in Values : theirs = [k \in Foreign |-> v]
  /\ \E old \in Listings \cup {{}} : node = Over(LabelsOf(old), theirs)
  /\ pc = [w \in Writers |-> "idle"]
  /\ listing = [w \in Writers |-> {}]
  /\ desired = [w \in Writers |-> <<>>]
  /\ current = [w \in Writers |-> <<>>]
  /\ tries = [w \in Writers |-> 0]
  /\ outcome = [w \in Writers |-> "none"]
  /\ faults = 0
  /\ calls = 0

ForeignWrite(k, v) ==
  /\ theirs' = [theirs EXCEPT ![k] = v]
  /\ node' = [node EXCEPT ![k] = v]
  /\ UNCHANGED <<pc, listing, desired, current, tries, outcome, faults, calls>>

EnsureLabels(w, l, units) ==
  /\ pc[w] = "idle"
  /\ calls < MaxCalls
  /\ calls' = calls + 1
  /\ pc' = [pc EXCEPT ![w] = "get"]
  /\ listing' = [listing EXCEPT ![w] = l]
  /\ desired' = [desired EXCEPT ![w] = calculateGPULabels(units)]
  /\ tries' = [tries EXCEPT ![w] = 1]
  /\ outcome' = [outcome EXCEPT ![w] = "none"]
  /\ UNCHANGED <<node, theirs, current, faults>>

Has(labels, k, v) == k \in DOMAIN labels /\ labels[k] = v

(* Mutant: only missing and different labels are looked for. *)
NeedsUpdateIfMissing(labels, wanted) ==
  \E k \in DOMAIN wanted : ~Has(labels, k, wanted[k])

needsLabelUpdate(labels, wanted) ==
  \/ Prefixed(labels) \ DOMAIN wanted # {}
  \/ \E k \in DOMAIN wanted : ~Has(labels, k, wanted[k])

Return(w, result) ==
  /\ pc' = [pc EXCEPT ![w] = "idle"]
  /\ outcome' = [outcome EXCEPT ![w] = result]
  /\ desired' = [desired EXCEPT ![w] = <<>>]
  /\ current' = [current EXCEPT ![w] = <<>>]
  /\ tries' = [tries EXCEPT ![w] = 0]

GetNode(w) ==
  /\ pc[w] = "get"
  /\ needsLabelUpdate(node, desired[w])
  /\ current' = [current EXCEPT ![w] = node]
  /\ pc' = [pc EXCEPT ![w] = "patch"]
  /\ UNCHANGED <<node, theirs, listing, desired, tries, outcome, faults, calls>>

UpToDate(w) ==
  /\ pc[w] = "get"
  /\ ~needsLabelUpdate(node, desired[w])
  /\ Return(w, "ok")
  /\ UNCHANGED <<node, theirs, listing, faults, calls>>

(* Mutant: the labels as read, with the changes, replace the node's. *)
MergedWhole(w) == Over(desired[w], Without(current[w], Prefixed(current[w])))

(* What the API server makes of the patch: the desired labels are set, the  *)
(* prefixed labels that were read and are not desired are deleted.          *)
Merged(w) ==
  Over(desired[w], Without(node, Prefixed(current[w]) \ DOMAIN desired[w]))

Patch(w) ==
  /\ pc[w] = "patch"
  /\ node' = Merged(w)
  /\ Return(w, "ok")
  /\ UNCHANGED <<theirs, listing, faults, calls>>

(* Mutant: the last try is followed by another. *)
AgainOnceMore(w) ==
  IF tries[w] <= MaxRetries
  THEN /\ pc' = [pc EXCEPT ![w] = "get"]
       /\ tries' = [tries EXCEPT ![w] = @ + 1]
       /\ current' = [current EXCEPT ![w] = <<>>]
       /\ UNCHANGED <<desired, outcome>>
  ELSE Return(w, "exhausted")

(* ExponentialBackoff: the next try, or ErrWaitTimeout after the last. *)
Again(w) ==
  IF tries[w] < MaxRetries
  THEN /\ pc' = [pc EXCEPT ![w] = "get"]
       /\ tries' = [tries EXCEPT ![w] = @ + 1]
       /\ current' = [current EXCEPT ![w] = <<>>]
       /\ UNCHANGED <<desired, outcome>>
  ELSE Return(w, "exhausted")

(* The request failed, on its way out or (applied) on its way back. *)
Failed(w, applied) ==
  /\ pc[w] \in (IF applied THEN {"patch"} ELSE {"get", "patch"})
  /\ faults < MaxFaults
  /\ faults' = faults + 1
  /\ node' = IF applied THEN Merged(w) ELSE node
  /\ Again(w)
  /\ UNCHANGED <<theirs, listing, calls>>

(* Forbidden, or Invalid in answer to a patch: no further try. *)
Refused(w) ==
  /\ pc[w] \in {"get", "patch"}
  /\ faults < MaxFaults
  /\ faults' = faults + 1
  /\ Return(w, "refused")
  /\ UNCHANGED <<node, theirs, listing, calls>>

Next ==
  \/ \E k \in Foreign, v \in Values : ForeignWrite(k, v)
  \/ \E w \in Writers :
       \/ \E l \in Listings : \E units \in Groupings(l) : EnsureLabels(w, l, units)
       \/ GetNode(w)
       \/ UpToDate(w)
       \/ Patch(w)
       \/ \E applied \in BOOLEAN : Failed(w, applied)
       \/ Refused(w)

Spec == Init /\ [][Next]_vars

-----------------------------------------------------------------------------
(* Every variable stays in its range; no call tries more than maxRetries    *)
(* times (label.go:110-135).                                                *)
TypeOK ==
  /\ Foreign \subseteq DOMAIN node
  /\ theirs \in [Foreign -> Values]
  /\ pc \in [Writers -> {"idle", "get", "patch"}]
  /\ listing \in [Writers -> Listings \cup {{}}]
  /\ \A w \in Writers : tries[w] \in (IF pc[w] = "idle" THEN {0} ELSE 1 .. MaxRetries)
  /\ outcome \in [Writers -> {"none", "ok", "exhausted", "refused"}]
  /\ faults \in 0 .. MaxFaults
  /\ calls \in 0 .. MaxCalls

(* Other controllers' labels keep what was written last, although they may  *)
(* change between the read and the patch: "Patch is conflict-free with      *)
(* other label writers" (label.go:138-140).                                 *)
ForeignKept == \A k \in Foreign : k \in DOMAIN node /\ node[k] = theirs[k]

(* After a call that succeeded, the labels tell exactly the GPUs that were  *)
(* listed and the chassis of each (label.go:107-136, 195-275).              *)
LabelsTellReading ==
  \A w \in Writers :
    outcome[w] = "ok" => ReadBack(Own(node)) = Content(listing[w])

(* At every moment the labels are those of one listing, whatever order the  *)
(* units came in: never a mixture, never half of them.  "Patch ... avoids   *)
(* the Get/mutate/Update race entirely" (label.go:138-140).                 *)
OneReading == \E l \in Listings \cup {{}} : Own(node) = LabelsOf(l)
==============================================================================
