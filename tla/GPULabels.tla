------------------------------ MODULE GPULabels ------------------------------
(***************************************************************************)
(* From what nvidia-smi lists to node labels: the grouping of              *)
(* GetSerialNumbers (pkg/gpu/gpu.go) and calculateGPULabels with           *)
(* sanitizeLabelValue (pkg/node/label.go).  A string is a number: the      *)
(* numbers are ordered as the strings are, 0 is "".  A label key is a      *)
(* tuple, <<"chassis", 1, "gpu", 0>> for gpuid.github.com/chassis-1-gpu-0. *)
(***************************************************************************)
EXTENDS Naturals, FiniteSets, SequencesExt

CONSTANTS
  Texts,    \* serial numbers of chassis and GPUs
  Unset,    \* those that sanitize to "na": "", "N/A", nothing but junk
  NotSet,   \* the value "na"
  Plain     \* [Texts \ Unset -> values]: junk removed or replaced

ASSUME TextsOK ==
  /\ 0 \in Unset
  /\ Unset \subseteq Texts
  /\ Texts \subseteq Nat
  /\ DOMAIN Plain = Texts \ Unset
  /\ \A t \in DOMAIN Plain : Plain[t] # NotSet

sanitizeLabelValue(t) == IF t \in Unset THEN NotSet ELSE Plain[t]

(* The elements of a finite set of numbers, sorted: sort.Strings. *)
Ascending(S) ==
  CHOOSE s \in SetToSeqs(S) : \A i, j \in DOMAIN s : i < j => s[i] < s[j]

(* A listing is a set of pairs: GetSerialNumbers drops repeated ones. *)
ChassisOf(listing) == {g[1] : g \in listing}

GPUsOf(listing, c) == {g[2] : g \in {h \in listing : h[1] = c}}

Unit(listing, c) == [chassis |-> c, gpus |-> Ascending(GPUsOf(listing, c))]

(* GetSerialNumbers ranges over a map: the units come in any order. *)
Groupings(listing) == SetToSeqs({Unit(listing, c) : c \in ChassisOf(listing)})

(* Mutant: the units are taken as they come. *)
InGivenOrder(units) == units

(* sort.Slice by chassis, of which no two units have the same. *)
ByChassis(units) ==
  LET order == Ascending({units[i].chassis : i \in DOMAIN units})
  IN  [i \in DOMAIN units |->
         units[CHOOSE j \in DOMAIN units : units[j].chassis = order[i]]]

-----------------------------------------------------------------------------
Named(t) == sanitizeLabelValue(t) # NotSet

(* own: several units, and this one has a chassis serial. *)
GPUKey(i, j, own) == IF own THEN <<"chassis", i, "gpu", j>> ELSE <<"gpu", j>>

ChassisKey(i, several) == IF several THEN <<"chassis", i>> ELSE <<"chassis">>

Write(i, key, value) == [at |-> i, key |-> key, value |-> value]

(* What is written to the map for the unit at place i, counted from 0 as in  *)
(* the code.                                                                 *)
UnitWrites(unit, i, several) ==
  LET own == several /\ Named(unit.chassis)
      serials == {j \in DOMAIN unit.gpus : unit.gpus[j] # 0}
  IN  {Write(i, GPUKey(i, j - 1, own), sanitizeLabelValue(unit.gpus[j])) : j \in serials}
        \cup (IF Named(unit.chassis)
              THEN {Write(i, ChassisKey(i, several), sanitizeLabelValue(unit.chassis))}
              ELSE {})

(* The map after all writes: the last one of a key counts. *)
Final(writes) ==
  [k \in {e.key : e \in writes} |->
     (CHOOSE e \in writes :
        e.key = k /\ \A f \in writes : f.key = k => f.at <= e.at).value]

calculateGPULabels(units) ==
  LET sorted == ByChassis(units)
      n == Cardinality(DOMAIN units)
      named == {i \in DOMAIN sorted : Named(sorted[i].chassis)}
      count == IF named = {} THEN {}
               ELSE {Write(n, <<"chassis-count">>, Cardinality(named))}
  IN  Final(count \cup UNION {UnitWrites(sorted[i], i - 1, n > 1) : i \in DOMAIN sorted})

-----------------------------------------------------------------------------
(* The reading a reader of the labels reconstructs: pairs of sanitized      *)
(* chassis and GPU.                                                         *)
ReadBack(labels) ==
  LET keys == DOMAIN labels
      outer == IF <<"chassis">> \in keys THEN labels[<<"chassis">>] ELSE NotSet
  IN  {<<outer, labels[k]>> : k \in {k \in keys : k[1] = "gpu"}}
        \cup {<<labels[<<"chassis", k[2]>>], labels[k]>> :
                k \in {k \in keys : Len(k) = 4}}

(* What there is to read of a listing. *)
Content(listing) ==
  {<<sanitizeLabelValue(g[1]), sanitizeLabelValue(g[2])>> :
     g \in {g \in listing : g[2] # 0}}

(* The labels of a listing without any order: a unit's index is the number  *)
(* of units with a smaller chassis, a GPU's the number of smaller serials.  *)
Below(S, x) == Cardinality({y \in S : y < x})

NamedIn(listing) == {c \in ChassisOf(listing) : Named(c)}

Several(listing) == Cardinality(ChassisOf(listing)) > 1

KeyOf(listing, g) ==
  GPUKey(Below(ChassisOf(listing), g[1]), Below(GPUsOf(listing, g[1]), g[2]),
         Several(listing) /\ Named(g[1]))

LabelSet(listing) ==
  {<<KeyOf(listing, g), sanitizeLabelValue(g[2])>> : g \in {h \in listing : h[2] # 0}}
    \cup {<<ChassisKey(Below(ChassisOf(listing), c), Several(listing)), sanitizeLabelValue(c)>> :
            c \in NamedIn(listing)}
    \cup (IF NamedIn(listing) = {} THEN {}
          ELSE {<< <<"chassis-count">>, Cardinality(NamedIn(listing))>>})

LabelsOf(listing) ==
  [k \in {p[1] : p \in LabelSet(listing)} |-> (CHOOSE p \in LabelSet(listing) : p[1] = k)[2]]
==============================================================================
