--------------------------- MODULE ExportersProofs ---------------------------
(***************************************************************************)
(* Proofs about Exporters: for any number of workers and calls, whatever   *)
(* fails, arrives late or dies, no backend but stdout ever has a part of a *)
(* batch, a batch that was acknowledged is kept, and each backend is what  *)
(* Backend promises its callers.                                           *)
(***************************************************************************)
EXTENDS Exporters, FiniteSetTheorems, TLAPS

USE DEF callVars, logVars

(* ---- what KeptIn makes of the two ways the store grows ------------- *)

LEMMA KeptOfUnion ==
  ASSUME NEW S, NEW T, NEW n
  PROVE  KeptIn(S \cup T, n) = KeptIn(S, n) \cup KeptIn(T, n)
BY DEF KeptIn

LEMMA KeptOfRows ==
  ASSUME NEW m, NEW n, NEW R, NEW place
  PROVE  KeptIn(Rows(m, R, place), n) = IF n = m THEN R ELSE {}
<1> DEFINE row(r) == [call |-> m, record |-> r, at |-> place]
<1>1. \A r : row(r).call = m /\ row(r).record = r
  OBVIOUS
<1>2. CASE n = m
  <2>1. {t \in Rows(m, R, place) : t.call = n} = Rows(m, R, place)
    BY <1>1, <1>2 DEF Rows
  <2>2. {t.record : t \in Rows(m, R, place)} = R
    BY <1>1 DEF Rows
  <2> QED
    BY <1>2, <2>1, <2>2 DEF KeptIn
<1>3. CASE n # m
  <2>1. {t \in Rows(m, R, place) : t.call = n} = {}
    BY <1>1, <1>3 DEF Rows
  <2> QED
    BY <1>3, <2>1 DEF KeptIn
<1> QED
  BY <1>2, <1>3

(* -------------------------- the invariant ------------------------------- *)

IInv ==
  /\ CallsTypeOK
  /\ StepsOfKind
  /\ InProgress
  /\ StillToCome
  /\ UnderWay
  /\ Placed
  /\ AllOrNothing
  /\ AcknowledgedIsKept

(* The bounds of calls and time are numbers.                                *)
LEMMA Bounds ==
  /\ MaxCalls \in Nat
  /\ 0 \in 0 .. MaxCalls
  /\ 0 \in 0 .. MaxTime
  /\ \A b \in 0 .. MaxCalls : 1 .. b \subseteq Calls
BY ExportersOK DEF ExportersOK, Calls

(* Export returns: what is asked of the store for the invariant to go on.   *)
LEMMA CallEnds ==
  ASSUME IInv, NEW w \in Writers, Busy(w),
         NEW result \in {"ok", "error"}, End(w, result),
         UNCHANGED <<kind, now, logVars, crashes>>,
         store' \subseteq [call : Calls, record : UNION Listings, at : 0 .. MaxTime],
         Placed',
         \A m \in Calls : m # call[w] =>
           \/ KeptIn(store', m) = Kept(m)
           \/ /\ kind = "s3" /\ stamp[m] = stamp[call[w]]
              /\ KeptIn(store', m) = {} /\ KeptIn(store', call[w]) # {},
         kind # "stdout" => KeptIn(store', call[w]) \in {{}, batch[call[w]]},
         result = "ok" => KeptIn(store', call[w]) = batch[call[w]],
         \/ flight' = flight
         \/ /\ flight' = flight \cup {call[w]} /\ result # "ok" /\ kind # "stdout"
            /\ KeptIn(store', call[w]) = {}
  PROVE  IInv'
<1> DEFINE n == call[w]
<1>0. /\ n \in Calls
      /\ n \in 1 .. begun
      /\ answer[n] = "none"
      /\ answer' = [answer EXCEPT ![n] = result]
      /\ pc' = [pc EXCEPT ![w] = "idle"]
      /\ left' = [left EXCEPT ![w] = {}]
      /\ call' = call
      /\ batch' = batch /\ stamp' = stamp /\ begun' = begun
  BY Bounds DEF IInv, InProgress, CallsTypeOK, End
<1>1. CallsTypeOK'
  <2>1. flight' \subseteq Calls
    BY <1>0 DEF IInv, CallsTypeOK
  <2> QED
    BY <1>0, <2>1, Bounds DEF IInv, CallsTypeOK, Steps
<1>2. StepsOfKind'
  BY <1>0 DEF IInv, StepsOfKind, CallsTypeOK
<1> USE DEF Kept
<1>3. InProgress'
  <2>1. \A v \in Writers : Busy(v)' => Busy(v) /\ v # w /\ call[v] # n /\ call[v] \in Calls
    BY <1>0, Bounds DEF IInv, InProgress, Busy, CallsTypeOK
  <2>2. \A v \in Writers : Busy(v)' => left'[v] = left[v] /\ pc'[v] = pc[v]
    BY <1>0, <2>1 DEF IInv, CallsTypeOK
  <2>3. \A v \in Writers : Busy(v)' => answer'[call[v]] = "none"
    BY <1>0, <2>1 DEF IInv, CallsTypeOK, InProgress
  <2>4. \A v \in Writers : Busy(v)' =>
          KeptIn(store', call[v]) = IF kind = "stdout" THEN batch[call[v]] \ left[v] ELSE {}
    BY <1>0, <2>1 DEF IInv, InProgress
  <2> QED
    <3>1. ASSUME NEW v \in Writers, Busy(v)'
          PROVE  /\ call'[v] \in 1 .. begun'
                 /\ left'[v] \subseteq batch'[call'[v]]
                 /\ batch'[call'[v]] # {}
                 /\ pc'[v] = "commit" => left'[v] = {}
      <4>1. Busy(v) /\ left'[v] = left[v] /\ pc'[v] = pc[v]
        BY <2>1, <2>2, <3>1
      <4>2. /\ call[v] \in 1 .. begun /\ left[v] \subseteq batch[call[v]]
            /\ batch[call[v]] # {} /\ (pc[v] = "commit" => left[v] = {})
        BY <4>1 DEF IInv, InProgress
      <4> QED
        BY <1>0, <4>1, <4>2
    <3>2. \A u, v \in Writers : Busy(u)' /\ Busy(v)' /\ call'[u] = call'[v] => u = v
      BY <1>0, <2>1 DEF IInv, InProgress
    <3>3. \A v \in Writers : Busy(v)' =>
            KeptIn(store', call'[v]) =
              IF kind' = "stdout" THEN batch'[call'[v]] \ left'[v] ELSE {}
      BY <1>0, <2>1, <2>2, <2>4
    <3> QED
      BY <1>0, <2>3, <3>1, <3>2, <3>3 DEF InProgress
<1>4. StillToCome'
  <2>1. \A m \in Calls : m > begun => m # n /\ (KeptIn(store', m) = Kept(m) \/ KeptIn(store', m) = {})
    BY <1>0 DEF IInv, CallsTypeOK
  <2> QED
    BY <1>0, <2>1 DEF IInv, StillToCome, CallsTypeOK
<1>5. AllOrNothing'
  BY <1>0 DEF IInv, AllOrNothing
<1>6. AcknowledgedIsKept'
  <2> SUFFICES ASSUME NEW m \in Calls, answer'[m] = "ok"
               PROVE  \/ KeptIn(store', m) = batch[m]
                      \/ kind = "s3" /\ \E j \in Calls \ {m} : stamp[j] = stamp[m] /\ KeptIn(store', j) # {}
    BY <1>0 DEF AcknowledgedIsKept
  <2>1. CASE m = n
    BY <1>0, <2>1 DEF IInv, CallsTypeOK
  <2>2. CASE m # n
    <3>1. answer[m] = "ok"
      BY <1>0, <2>2 DEF IInv, CallsTypeOK
    <3>2. CASE KeptIn(store', m) # Kept(m)
      BY <1>0, <2>2, <3>2
    <3>3. CASE KeptIn(store', m) = Kept(m) /\ Kept(m) = batch[m]
      BY <3>3
    <3>4. CASE KeptIn(store', m) = Kept(m) /\ Kept(m) # batch[m]
      <4>1. PICK j \in Calls \ {m} : stamp[j] = stamp[m] /\ Kept(j) # {}
        BY <3>1, <3>4 DEF IInv, AcknowledgedIsKept
      <4>2. kind = "s3"
        BY <3>1, <3>4 DEF IInv, AcknowledgedIsKept
      <4>3. j # n
        BY <4>1, <4>2 DEF IInv, InProgress
      <4> QED
        BY <1>0, <2>2, <4>1, <4>2, <4>3
    <3> QED
      BY <3>2, <3>3, <3>4
  <2> QED
    BY <2>1, <2>2
<1>7. UnderWay'
  <2> SUFFICES ASSUME NEW m \in flight'
               PROVE  /\ m \in 1 .. begun' /\ answer'[m] # "ok" /\ batch'[m] # {}
                      /\ KeptIn(store', m) = {} /\ kind' # "stdout"
                      /\ \A v \in Writers : Busy(v)' => call'[v] # m
    BY DEF UnderWay
  <2>0. \A v \in Writers : Busy(v)' => Busy(v) /\ call[v] # n
    BY <1>0 DEF IInv, InProgress, Busy, CallsTypeOK
  <2>1. CASE m \in flight
    <3>1. /\ m \in 1 .. begun /\ answer[m] # "ok" /\ batch[m] # {} /\ Kept(m) = {}
          /\ kind # "stdout" /\ m # n /\ m \in Calls
          /\ \A v \in Writers : Busy(v) => call[v] # m
      BY <2>1, Bounds DEF IInv, UnderWay, CallsTypeOK
    <3>2. answer'[m] = answer[m]
      BY <1>0, <3>1 DEF IInv, CallsTypeOK
    <3>3. KeptIn(store', m) = {}
      BY <3>1
    <3> QED
      BY <1>0, <2>0, <3>1, <3>2, <3>3
  <2>2. CASE m \notin flight
    <3>1. m = n /\ result # "ok" /\ kind # "stdout" /\ KeptIn(store', n) = {}
      BY <2>2
    <3>2. answer'[n] = result
      BY <1>0 DEF IInv, CallsTypeOK
    <3>3. batch[n] # {}
      BY DEF IInv, InProgress
    <3> QED
      BY <1>0, <2>0, <3>1, <3>2, <3>3
  <2> QED
    BY <2>1, <2>2
<1> QED
  BY <1>1, <1>2, <1>3, <1>4, <1>5, <1>6, <1>7 DEF IInv

(* A step of a call that neither begins nor ends it, without the store.     *)
LEMMA CallGoesOn ==
  ASSUME IInv, NEW w \in Writers, Busy(w), kind = "postgres",
         NEW step \in {"copy", "commit"}, pc' = [pc EXCEPT ![w] = step],
         NEW rest \in SUBSET left[w], left' = [left EXCEPT ![w] = rest],
         step = "commit" => rest = {},
         UNCHANGED <<kind, now, call, logVars, answer, store, flight, crashes>>
  PROVE  IInv'
<1>1. CallsTypeOK'
  BY DEF IInv, CallsTypeOK, Steps
<1>2. StepsOfKind'
  BY DEF IInv, StepsOfKind, CallsTypeOK
<1>3. InProgress'
  BY DEF IInv, InProgress, CallsTypeOK, Busy, Kept
<1>4. StillToCome' /\ Placed' /\ AllOrNothing' /\ AcknowledgedIsKept'
  BY DEF IInv, StillToCome, Placed, AllOrNothing, AcknowledgedIsKept, Kept
<1>5. \A v \in Writers : Busy(v)' => Busy(v)
  BY DEF IInv, CallsTypeOK, Busy
<1>6. UnderWay'
  BY <1>5 DEF IInv, UnderWay, Kept
<1> QED
  BY <1>1, <1>2, <1>3, <1>4, <1>6 DEF IInv

(* Only the clock, the pool or the flags of the exporter change.            *)
LEMMA NothingHappens ==
  ASSUME IInv, UNCHANGED <<kind, callVars, logVars, answer, store, flight>>,
         now' \in 0 .. MaxTime, crashes' \in 0 .. MaxCrashes
  PROVE  IInv'
BY DEF IInv, CallsTypeOK, StepsOfKind, InProgress, StillToCome, UnderWay, Placed, AllOrNothing,
       AcknowledgedIsKept, Kept, Busy

(* The store when it has taken a call it had nothing of.                    *)
LEMMA TakenIs ==
  ASSUME IInv, NEW n \in Calls, kind # "stdout", Kept(n) = {}
  PROVE  /\ KeptIn(Taken(n), n) = batch[n]
         /\ \A m \in Calls : m # n =>
              \/ KeptIn(Taken(n), m) = Kept(m)
              \/ kind = "s3" /\ stamp[m] = stamp[n] /\ KeptIn(Taken(n), m) = {}
         /\ \A m \in Calls : m # n =>
              KeptIn(Taken(n), m) = IF kind = "s3" /\ stamp[m] = stamp[n] THEN {} ELSE Kept(m)
         /\ Taken(n) \subseteq [call : Calls, record : UNION Listings, at : 0 .. MaxTime]
         /\ \A s \in Taken(n) : kind = "s3" => s.at = stamp[s.call]
<1> DEFINE others == {s \in store : s.at # stamp[n]}
           old == IF kind = "s3" THEN others ELSE store
           at == IF kind = "s3" THEN stamp[n] ELSE 0
           new == Rows(n, batch[n], at)
<1>1. Taken(n) = old \cup new
  BY DEF Taken
<1>2. \A s \in store : kind = "s3" => s.at = stamp[s.call]
  BY DEF IInv, Placed
<1>3. kind = "s3" => \A m : KeptIn(others, m) = IF stamp[m] = stamp[n] THEN {} ELSE Kept(m)
  BY <1>2 DEF Kept, KeptIn
<1>4. \A m : KeptIn(old, m) = IF kind = "s3" /\ stamp[m] = stamp[n] THEN {} ELSE Kept(m)
  BY <1>3 DEF Kept
<1>5. \A m : KeptIn(new, m) = IF m = n THEN batch[n] ELSE {}
  BY KeptOfRows
<1>6. \A m : KeptIn(Taken(n), m) = KeptIn(old, m) \cup KeptIn(new, m)
  BY <1>1, KeptOfUnion
<1>7. batch[n] \subseteq UNION Listings /\ at \in 0 .. MaxTime
  BY Bounds DEF IInv, CallsTypeOK
<1>8. new \subseteq [call : Calls, record : UNION Listings, at : 0 .. MaxTime]
  BY <1>7 DEF Rows
<1>9. old \subseteq [call : Calls, record : UNION Listings, at : 0 .. MaxTime]
  BY DEF IInv, CallsTypeOK
<1>10. \A s \in new : kind = "s3" => s.at = stamp[s.call]
  BY DEF Rows
<1>11. \A s \in old : kind = "s3" => s.at = stamp[s.call]
  BY <1>2
<1> HIDE DEF old, new, at, others
<1>12. KeptIn(Taken(n), n) = batch[n]
  BY <1>4, <1>5, <1>6
<1>13. \A m \in Calls : m # n =>
         \/ KeptIn(Taken(n), m) = Kept(m)
         \/ kind = "s3" /\ stamp[m] = stamp[n] /\ KeptIn(Taken(n), m) = {}
  BY <1>4, <1>5, <1>6
<1>14. \A m \in Calls : m # n =>
         KeptIn(Taken(n), m) = IF kind = "s3" /\ stamp[m] = stamp[n] THEN {} ELSE Kept(m)
  BY <1>4, <1>5, <1>6
<1> QED
  BY <1>1, <1>8, <1>9, <1>10, <1>11, <1>12, <1>13, <1>14

(* A request goes out, and the call ends.                                   *)
LEMMA RequestKeeps ==
  ASSUME IInv, NEW w \in Writers, Busy(w), kind # "stdout",
         NEW fate \in Fates, NEW ok \in BOOLEAN, Request(w, fate, ok),
         UNCHANGED <<kind, now, logVars, crashes>>
  PROVE  IInv'
<1> DEFINE n == call[w]
<1>1. n \in Calls /\ Kept(n) = {} /\ batch[n] # {}
  BY Bounds DEF IInv, InProgress, CallsTypeOK
<1>2. /\ ok => fate = "arrives"
      /\ store' = IF fate = "arrives" THEN Taken(n) ELSE store
      /\ flight' = IF fate = "late" THEN flight \cup {n} ELSE flight
      /\ End(w, IF ok THEN "ok" ELSE "error")
  BY DEF Request
<1>3. CASE fate = "arrives"
  <2>1. store' = Taken(n) /\ flight' = flight
    BY <1>2, <1>3
  <2>2. store' \subseteq [call : Calls, record : UNION Listings, at : 0 .. MaxTime] /\ Placed'
    BY <1>1, <2>1, TakenIs DEF Placed
  <2>3. KeptIn(store', n) = batch[n]
    BY <1>1, <2>1, TakenIs
  <2>4. \A m \in Calls : m # n =>
          \/ KeptIn(store', m) = Kept(m)
          \/ kind = "s3" /\ stamp[m] = stamp[n] /\ KeptIn(store', m) = {}
    BY <1>1, <2>1, TakenIs
  <2> QED
    BY <1>1, <1>2, <2>1, <2>2, <2>3, <2>4, CallEnds
<1>4. CASE fate # "arrives"
  <2>1. store' = store /\ ~ok /\ (flight' = flight \/ flight' = flight \cup {n})
    BY <1>2, <1>4
  <2>2. store' \subseteq [call : Calls, record : UNION Listings, at : 0 .. MaxTime] /\ Placed'
    BY <2>1 DEF IInv, CallsTypeOK, Placed
  <2>3. \A m : KeptIn(store', m) = Kept(m)
    BY <2>1 DEF Kept
  <2> QED
    BY <1>1, <1>2, <2>1, <2>2, <2>3, CallEnds
<1> QED
  BY <1>3, <1>4

(* A request arrives that nobody waits for.                                 *)
LEMMA ArriveKeeps ==
  ASSUME IInv, NEW n \in flight, Arrive(n)
  PROVE  IInv'
<1>0. /\ flight' = flight \ {n} /\ store' = Taken(n)
      /\ UNCHANGED <<kind, now, pc, call, left, begun, batch, stamp, answer, crashes>>
  BY DEF Arrive
<1>1. /\ n \in Calls /\ n \in 1 .. begun /\ kind # "stdout" /\ Kept(n) = {}
      /\ answer[n] # "ok" /\ batch[n] # {}
      /\ \A w \in Writers : Busy(w) => call[w] # n
  BY DEF IInv, UnderWay, CallsTypeOK
<1>2. store' \subseteq [call : Calls, record : UNION Listings, at : 0 .. MaxTime] /\ Placed'
  BY <1>0, <1>1, TakenIs DEF Placed
<1>3. KeptIn(store', n) = batch[n]
  BY <1>0, <1>1, TakenIs
<1>4. \A m \in Calls : m # n =>
        \/ KeptIn(store', m) = Kept(m)
        \/ kind = "s3" /\ stamp[m] = stamp[n] /\ KeptIn(store', m) = {}
  BY <1>0, <1>1, TakenIs
<1>5. CallsTypeOK'
  BY <1>0, <1>2 DEF IInv, CallsTypeOK
<1>6. StepsOfKind'
  BY <1>0 DEF IInv, StepsOfKind
<1>7. InProgress'
  <2>1. \A w \in Writers : Busy(w)' => Busy(w) /\ call[w] # n /\ call[w] \in Calls
    BY <1>0, <1>1, Bounds DEF Busy, IInv, InProgress, CallsTypeOK
  <2>2. \A w \in Writers : Busy(w)' => KeptIn(store', call[w]) = {}
    BY <1>1, <1>4, <2>1 DEF IInv, InProgress
  <2> QED
    BY <1>0, <1>1, <2>1, <2>2 DEF IInv, InProgress, Kept
<1>8. StillToCome'
  <2>1. \A m \in Calls : m > begun => m # n /\ Kept(m) = {}
    BY <1>1 DEF IInv, StillToCome, CallsTypeOK
  <2>2. \A m \in Calls : m > begun => KeptIn(store', m) = {}
    BY <1>4, <2>1
  <2> QED
    BY <1>0, <2>2 DEF IInv, StillToCome, Kept
<1>9. UnderWay'
  <2>1. \A m \in flight' : m \in flight /\ m # n /\ m \in Calls
    BY <1>0 DEF IInv, CallsTypeOK
  <2>2. \A m \in flight' : KeptIn(store', m) = {}
    BY <1>4, <2>1 DEF IInv, UnderWay
  <2>3. \A w \in Writers : Busy(w)' => Busy(w)
    BY <1>0 DEF Busy
  <2> QED
    BY <1>0, <2>1, <2>2, <2>3 DEF IInv, UnderWay, Kept
<1>10. AllOrNothing'
  BY <1>0, <1>3, <1>4 DEF IInv, AllOrNothing, Kept
<1>11. AcknowledgedIsKept'
  <2> SUFFICES ASSUME NEW m \in Calls, answer[m] = "ok", KeptIn(store', m) # batch[m]
               PROVE  kind = "s3" /\ \E j \in Calls \ {m} : stamp[j] = stamp[m] /\ KeptIn(store', j) # {}
    BY <1>0 DEF AcknowledgedIsKept, Kept
  <2>1. m # n
    BY <1>1
  <2>2. CASE KeptIn(store', m) # Kept(m)
    BY <1>1, <1>3, <1>4, <2>1, <2>2
  <2>3. CASE KeptIn(store', m) = Kept(m)
    <3>1. kind = "s3"
      BY <2>3 DEF IInv, AcknowledgedIsKept
    <3>2. PICK j \in Calls \ {m} : stamp[j] = stamp[m] /\ Kept(j) # {}
      BY <2>3 DEF IInv, AcknowledgedIsKept
    <3>3. CASE KeptIn(store', j) = Kept(j)
      BY <3>1, <3>2, <3>3
    <3>4. CASE KeptIn(store', j) # Kept(j)
      <4>1. j # n
        BY <1>1, <3>2
      <4>2. stamp[j] = stamp[n]
        BY <1>4, <3>4, <4>1
      <4> QED
        BY <1>1, <1>3, <2>1, <3>1, <3>2, <4>2
    <3> QED
      BY <3>3, <3>4
  <2> QED
    BY <2>2, <2>3
<1> QED
  BY <1>2, <1>5, <1>6, <1>7, <1>8, <1>9, <1>10, <1>11 DEF IInv

(* ------------------------- the actions one by one ----------------------- *)

LEMMA ExportKeeps ==
  ASSUME IInv, NEW w \in Writers, NEW listing \in Listings, Export(w, listing)
  PROVE  IInv'
<1> DEFINE n == begun + 1
           records == Records(listing)
<1>0. /\ n \in Calls /\ n \in 1 .. n /\ begun \in Nat /\ ~Busy(w)
      /\ begun' = n /\ begun < n /\ 1 .. begun \subseteq 1 .. n
      /\ records \subseteq UNION Listings
      /\ answer[n] = "none" /\ KeptIn(store, n) = {}
      /\ batch' = [batch EXCEPT ![n] = records]
      /\ stamp' = [stamp EXCEPT ![n] = now]
      /\ call' = [call EXCEPT ![w] = n]
      /\ left' = [left EXCEPT ![w] = records]
      /\ UNCHANGED <<kind, now, store, flight, crashes>>
  BY ExportersOK DEF ExportersOK, IInv, CallsTypeOK, StillToCome, Export, Records, Calls, Busy, Kept
<1>1. \/ records = {} /\ answer' = [answer EXCEPT ![n] = "ok"] /\ pc' = pc
      \/ /\ records # {} /\ answer' = answer
         /\ \E entry \in Entries : entry[1] = kind /\ pc' = [pc EXCEPT ![w] = entry[2]]
  BY DEF Export
<1>2. CallsTypeOK'
  <2>1. pc' \in [Writers -> Steps]
    BY <1>1 DEF IInv, CallsTypeOK, Entries, Steps
  <2>2. answer' \in [Calls -> {"none", "ok", "error"}]
    BY <1>0, <1>1 DEF IInv, CallsTypeOK
  <2>3. call' \in [Writers -> 0 .. MaxCalls] /\ begun' \in 0 .. MaxCalls
    BY <1>0, ExportersOK DEF ExportersOK, IInv, CallsTypeOK, Calls
  <2>4. /\ left' \in [Writers -> SUBSET UNION Listings]
        /\ batch' \in [Calls -> SUBSET UNION Listings]
        /\ stamp' \in [Calls -> 0 .. MaxTime]
    BY <1>0 DEF IInv, CallsTypeOK
  <2> QED
    BY <1>0, <2>1, <2>2, <2>3, <2>4 DEF IInv, CallsTypeOK
<1>3. StepsOfKind'
  BY <1>0, <1>1 DEF IInv, StepsOfKind, CallsTypeOK, Entries
<1>4. InProgress'
  <2>1. \A v \in Writers : Busy(v)' /\ v # w =>
          /\ Busy(v) /\ call'[v] = call[v] /\ left'[v] = left[v] /\ pc'[v] = pc[v]
          /\ call[v] \in 1 .. begun /\ call[v] \in Calls /\ call[v] # n
    BY <1>0, <1>1, Bounds DEF IInv, InProgress, CallsTypeOK, Busy
  <2>2. \A v \in Writers : Busy(v)' /\ v # w =>
          answer'[call[v]] = answer[call[v]] /\ batch'[call[v]] = batch[call[v]]
    BY <1>0, <1>1, <2>1 DEF IInv, CallsTypeOK
  <2>3. Busy(w)' => /\ records # {} /\ answer' = answer /\ pc'[w] # "commit"
                    /\ call'[w] = n /\ left'[w] = records /\ batch'[n] = records
    BY <1>0, <1>1 DEF IInv, CallsTypeOK, Busy, Entries
  <2>4. \A u, v \in Writers : Busy(u)' /\ Busy(v)' /\ call'[u] = call'[v] => u = v
    BY <1>0, <2>1, <2>3 DEF IInv, InProgress
  <2>5. ASSUME NEW v \in Writers, Busy(v)', v # w
        PROVE  /\ call'[v] \in 1 .. begun'
               /\ answer'[call'[v]] = "none"
               /\ left'[v] \subseteq batch'[call'[v]]
               /\ batch'[call'[v]] # {}
               /\ Kept(call[v]) = IF kind = "stdout" THEN batch'[call[v]] \ left'[v] ELSE {}
               /\ pc'[v] = "commit" => left'[v] = {}
    <3>1. /\ Busy(v) /\ call'[v] = call[v] /\ left'[v] = left[v] /\ pc'[v] = pc[v]
          /\ call[v] \in 1 .. begun
      BY <2>1, <2>5
    <3>2. answer'[call[v]] = answer[call[v]] /\ batch'[call[v]] = batch[call[v]]
      BY <2>2, <2>5
    <3>3. /\ answer[call[v]] = "none"
          /\ left[v] \subseteq batch[call[v]]
          /\ batch[call[v]] # {}
          /\ Kept(call[v]) = IF kind = "stdout" THEN batch[call[v]] \ left[v] ELSE {}
          /\ pc[v] = "commit" => left[v] = {}
      BY <3>1 DEF IInv, InProgress
    <3>4. 1 .. begun \subseteq 1 .. begun'
      BY <1>0
    <3> QED
      BY <3>1, <3>2, <3>3, <3>4
  <2>6. Busy(w)' =>
          /\ call'[w] \in 1 .. begun'
          /\ answer'[call'[w]] = "none"
          /\ left'[w] \subseteq batch'[call'[w]]
          /\ batch'[call'[w]] # {}
          /\ KeptIn(store', n) = batch'[n] \ left'[w]
          /\ KeptIn(store', n) = {}
    BY <1>0, <2>3
  <2> QED
    <3>1. \A v \in Writers : Busy(v)' =>
            /\ call'[v] \in 1 .. begun'
            /\ answer'[call'[v]] = "none"
            /\ left'[v] \subseteq batch'[call'[v]]
            /\ batch'[call'[v]] # {}
            /\ pc'[v] = "commit" => left'[v] = {}
      BY <1>0, <2>3, <2>5, <2>6
    <3>2. \A v \in Writers : Busy(v)' =>
            KeptIn(store', call'[v]) =
              IF kind' = "stdout" THEN batch'[call'[v]] \ left'[v] ELSE {}
      <4> SUFFICES ASSUME NEW v \in Writers, Busy(v)'
                   PROVE  KeptIn(store', call'[v]) =
                            IF kind' = "stdout" THEN batch'[call'[v]] \ left'[v] ELSE {}
        OBVIOUS
      <4>1. CASE v = w
        BY <2>3, <2>6, <4>1
      <4>2. CASE v # w
        <5>1. call'[v] = call[v]
          BY <2>1, <4>2
        <5>2. KeptIn(store, call[v]) = IF kind = "stdout" THEN batch'[call[v]] \ left'[v] ELSE {}
          BY <2>5, <4>2 DEF Kept
        <5>3. store' = store /\ kind' = kind
          BY <1>0
        <5> QED
          BY <5>1, <5>2, <5>3
      <4> QED
        BY <4>1, <4>2
    <3> QED
      BY <2>4, <3>1, <3>2 DEF InProgress, Kept
<1>5. StillToCome'
  <2> SUFFICES ASSUME NEW m \in Calls, m > n
               PROVE  answer'[m] = "none" /\ batch'[m] = {} /\ KeptIn(store', m) = {}
    BY <1>0 DEF StillToCome, Kept
  <2>1. m # n /\ m > begun
    BY <1>0 DEF Calls
  <2> QED
    BY <1>0, <1>1, <2>1 DEF IInv, StillToCome, CallsTypeOK, Kept
<1>6. Placed'
  <2>1. \A s \in store : s.call # n
    BY <1>0 DEF KeptIn
  <2> QED
    BY <1>0, <2>1 DEF IInv, Placed, CallsTypeOK
<1>7. AllOrNothing'
  BY <1>0 DEF IInv, AllOrNothing, CallsTypeOK, Kept
<1>8. AcknowledgedIsKept'
  <2>1. \A m \in Calls \ {n} :
          answer'[m] = answer[m] /\ batch'[m] = batch[m] /\ stamp'[m] = stamp[m]
    BY <1>0, <1>1 DEF IInv, CallsTypeOK
  <2>2. answer'[n] = "ok" => KeptIn(store', n) = batch'[n]
    BY <1>0, <1>1 DEF IInv, CallsTypeOK
  <2>3. SUFFICES ASSUME NEW m \in Calls, m # n, answer[m] = "ok", Kept(m) # batch[m], kind = "s3"
                 PROVE  \E j \in Calls \ {m} : stamp'[j] = stamp'[m] /\ KeptIn(store', j) # {}
    BY <1>0, <2>1, <2>2 DEF IInv, AcknowledgedIsKept, Kept
  <2>4. PICK j \in Calls \ {m} : stamp[j] = stamp[m] /\ Kept(j) # {}
    BY <2>3 DEF IInv, AcknowledgedIsKept
  <2>5. j # n
    BY <1>0, <2>4 DEF Kept
  <2> QED
    BY <1>0, <2>1, <2>3, <2>4, <2>5 DEF Kept
<1>9. UnderWay'
  <2> SUFFICES ASSUME NEW m \in flight
               PROVE  /\ m \in 1 .. begun' /\ answer'[m] # "ok" /\ batch'[m] # {}
                      /\ KeptIn(store', m) = {} /\ kind' # "stdout"
                      /\ \A v \in Writers : Busy(v)' => call'[v] # m
    BY <1>0 DEF UnderWay, Kept
  <2>1. /\ m \in 1 .. begun /\ m # n /\ m \in Calls
        /\ answer[m] # "ok" /\ batch[m] # {} /\ KeptIn(store, m) = {} /\ kind # "stdout"
        /\ \A v \in Writers : Busy(v) => call[v] # m
    BY <1>0 DEF IInv, UnderWay, CallsTypeOK, Kept
  <2>2. answer'[m] = answer[m] /\ batch'[m] = batch[m]
    BY <1>0, <1>1, <2>1 DEF IInv, CallsTypeOK
  <2>3. \A v \in Writers : Busy(v)' /\ v # w => Busy(v) /\ call'[v] = call[v]
    BY <1>0, <1>1 DEF IInv, CallsTypeOK, Busy
  <2>4. call'[w] = n
    BY <1>0 DEF IInv, CallsTypeOK
  <2> QED
    BY <1>0, <2>1, <2>2, <2>3, <2>4
<1> QED
  BY <1>2, <1>3, <1>4, <1>5, <1>6, <1>7, <1>8, <1>9 DEF IInv

LEMMA PrintLineKeeps ==
  ASSUME IInv, NEW w \in Writers, NEW r \in left[w], PrintLine(w, r)
  PROVE  IInv'
<1> DEFINE n == call[w]
<1>0. /\ Busy(w) /\ kind = "stdout" /\ n \in Calls /\ n \in 1 .. begun
      /\ answer[n] = "none" /\ r \in batch[n] /\ r \in UNION Listings
      /\ left[w] \subseteq batch[n] /\ pc[w] = "print"
      /\ Kept(n) = batch[n] \ left[w]
      /\ left' = [left EXCEPT ![w] = left[w] \ {r}]
      /\ store' = store \cup Rows(n, {r}, 0)
      /\ UNCHANGED <<kind, now, pc, call, begun, batch, stamp, answer, flight, crashes>>
  BY Bounds DEF PrintLine, IInv, StepsOfKind, InProgress, CallsTypeOK, Busy
<1>1. \A m : KeptIn(store', m) = Kept(m) \cup (IF m = n THEN {r} ELSE {})
  <2>0. store' = store \cup Rows(n, {r}, 0)
    BY <1>0
  <2>1. \A m : KeptIn(store', m) = KeptIn(store, m) \cup KeptIn(Rows(n, {r}, 0), m)
    BY <2>0, KeptOfUnion
  <2>2. \A m : KeptIn(Rows(n, {r}, 0), m) = IF m = n THEN {r} ELSE {}
    BY KeptOfRows
  <2> QED
    BY <2>1, <2>2 DEF Kept
<1>2. CallsTypeOK'
  BY <1>0, Bounds DEF IInv, CallsTypeOK, Rows
<1>3. StepsOfKind' /\ Placed' /\ AllOrNothing'
  BY <1>0 DEF IInv, StepsOfKind, Placed, AllOrNothing
<1>4. InProgress'
  <2>1. ASSUME NEW v \in Writers, Busy(v)'
        PROVE  /\ call'[v] \in 1 .. begun'
               /\ answer'[call'[v]] = "none"
               /\ left'[v] \subseteq batch'[call'[v]]
               /\ batch'[call'[v]] # {}
               /\ pc'[v] = "commit" => left'[v] = {}
    <3>1. Busy(v) /\ left'[v] \subseteq left[v]
      BY <1>0, <2>1 DEF IInv, CallsTypeOK, Busy
    <3>2. /\ call[v] \in 1 .. begun /\ answer[call[v]] = "none"
          /\ left[v] \subseteq batch[call[v]] /\ batch[call[v]] # {}
          /\ (pc[v] = "commit" => left[v] = {})
      BY <3>1 DEF IInv, InProgress
    <3> QED
      BY <1>0, <3>1, <3>2
  <2>2. \A u, v \in Writers : Busy(u)' /\ Busy(v)' /\ call'[u] = call'[v] => u = v
    BY <1>0 DEF IInv, InProgress, Busy
  <2>3. ASSUME NEW v \in Writers, Busy(v)'
        PROVE  KeptIn(store', call'[v]) = batch'[call'[v]] \ left'[v]
    <3>1. CASE v = w
      <4>1. left'[v] = left[w] \ {r}
        BY <1>0, <3>1 DEF IInv, CallsTypeOK
      <4>2. KeptIn(store', n) = (batch[n] \ left[w]) \cup {r}
        BY <1>0, <1>1
      <4> QED
        BY <1>0, <3>1, <4>1, <4>2
    <3>2. CASE v # w
      <4>1. Busy(v) /\ call[v] # n /\ left'[v] = left[v]
        BY <1>0, <2>3, <3>2 DEF IInv, InProgress, CallsTypeOK, Busy
      <4>2. KeptIn(store', call[v]) = Kept(call[v])
        BY <1>1, <4>1
      <4> QED
        BY <1>0, <4>1, <4>2 DEF IInv, InProgress
    <3> QED
      BY <3>1, <3>2
  <2> QED
    BY <1>0, <2>1, <2>2, <2>3 DEF InProgress, Kept
<1>5. StillToCome'
  <2>1. \A m \in Calls : m > begun => m # n
    BY <1>0 DEF IInv, CallsTypeOK
  <2>2. ASSUME NEW m \in Calls, m > begun
        PROVE  answer[m] = "none" /\ batch[m] = {} /\ KeptIn(store', m) = {}
    <3>1. m # n /\ answer[m] = "none" /\ batch[m] = {} /\ Kept(m) = {}
      BY <2>1, <2>2 DEF IInv, StillToCome
    <3> QED
      BY <1>1, <3>1
  <2> QED
    BY <1>0, <2>2 DEF StillToCome, Kept
<1>6. AcknowledgedIsKept'
  <2>1. \A m \in Calls : answer[m] = "ok" => m # n /\ Kept(m) = batch[m]
    BY <1>0 DEF IInv, AcknowledgedIsKept
  <2>2. \A m \in Calls : m # n => KeptIn(store', m) = Kept(m)
    BY <1>1
  <2> QED
    BY <1>0, <2>1, <2>2 DEF AcknowledgedIsKept, Kept
<1>7. UnderWay'
  <2>1. flight = {} /\ flight' = flight
    BY <1>0 DEF IInv, UnderWay
  <2> QED
    BY <2>1 DEF UnderWay
<1> QED
  BY <1>2, <1>3, <1>4, <1>5, <1>6, <1>7 DEF IInv

(* Export returns and the store is as it was.                               *)
LEMMA EndsWithoutWriting ==
  ASSUME IInv, NEW w \in Writers, Busy(w), NEW result \in {"ok", "error"}, End(w, result),
         UNCHANGED <<kind, now, logVars, store, flight, crashes>>,
         result = "ok" => kind = "stdout" /\ left[w] = {}
  PROVE  IInv'
<1>1. store' \subseteq [call : Calls, record : UNION Listings, at : 0 .. MaxTime] /\ Placed'
  BY DEF IInv, CallsTypeOK, Placed
<1>2. Kept(call[w]) = IF kind = "stdout" THEN batch[call[w]] \ left[w] ELSE {}
  BY DEF IInv, InProgress
<1>3. result = "ok" => batch[call[w]] \ left[w] = batch[call[w]]
  OBVIOUS
<1> QED
  BY <1>1, <1>2, <1>3, CallEnds DEF Kept

LEMMA CrashKeeps == IInv /\ Crash => IInv'
<1> SUFFICES ASSUME IInv, Crash PROVE IInv'
  OBVIOUS
<1>0. /\ \A w \in Writers : pc'[w] = "idle"
      /\ UNCHANGED <<kind, now, begun, batch, stamp, answer, store>>
  BY DEF Crash
<1>1. CallsTypeOK'
  <2>1. Sent \subseteq Calls
    BY Bounds DEF Sent, IInv, InProgress, Busy, CallsTypeOK
  <2>2. flight' \subseteq Calls
    BY <2>1 DEF Crash, IInv, CallsTypeOK
  <2> QED
    BY <2>2, Bounds, ExportersOK DEF ExportersOK, Crash, IInv, CallsTypeOK, Steps
<1>2. StepsOfKind' /\ InProgress'
  BY <1>0 DEF StepsOfKind, InProgress, Busy
<1>3. StillToCome' /\ Placed' /\ AllOrNothing' /\ AcknowledgedIsKept'
  BY <1>0 DEF IInv, StillToCome, Placed, AllOrNothing, AcknowledgedIsKept, Kept
<1>4. UnderWay'
  <2>1. ASSUME NEW n \in Sent
        PROVE  /\ n \in 1 .. begun /\ answer[n] # "ok" /\ batch[n] # {} /\ Kept(n) = {}
               /\ kind # "stdout"
    <3>1. PICK w \in Writers : n = call[w] /\ pc[w] \in {"post", "put", "commit"}
      BY DEF Sent
    <3>2. Busy(w) /\ kind # "stdout"
      BY <3>1 DEF Busy, IInv, StepsOfKind
    <3> QED
      BY <3>1, <3>2 DEF IInv, InProgress
  <2>2. \A n \in flight' : n \in flight \/ n \in Sent
    BY DEF Crash
  <2> QED
    BY <1>0, <2>1, <2>2 DEF IInv, UnderWay, Busy, Kept
<1> QED
  BY <1>1, <1>2, <1>3, <1>4 DEF IInv

LEMMA InitHolds == Init => IInv
<1> SUFFICES ASSUME Init PROVE IInv
  OBVIOUS
<1>1. CallsTypeOK
  BY Bounds, ExportersOK DEF ExportersOK, Init, CallsTypeOK, Steps
<1>2. \A n : Kept(n) = {}
  BY DEF Init, Kept, KeptIn
<1>3. StepsOfKind /\ InProgress /\ Placed
  BY DEF Init, StepsOfKind, InProgress, Placed, Busy
<1>4. StillToCome /\ AllOrNothing /\ AcknowledgedIsKept
  BY <1>2 DEF Init, StillToCome, AllOrNothing, AcknowledgedIsKept
<1>5. UnderWay
  BY DEF Init, UnderWay
<1> QED
  BY <1>1, <1>3, <1>4, <1>5 DEF IInv

LEMMA NextKeeps == IInv /\ [Next]_vars => IInv'
<1> SUFFICES ASSUME IInv, [Next]_vars PROVE IInv'
  OBVIOUS
<1>1. ASSUME NEW w \in Writers, NEW listing \in Listings, Export(w, listing)
      PROVE  IInv'
  BY <1>1, ExportKeeps
<1>2. ASSUME NEW w \in Writers, NEW r \in left[w], PrintLine(w, r)
      PROVE  IInv'
  BY <1>2, PrintLineKeeps
<1>3. ASSUME NEW w \in Writers, NEW r \in left[w], Buffer(w, r)
      PROVE  IInv'
  <2>1. Busy(w) /\ kind = "postgres" /\ "copy" \in {"copy", "commit"} /\ pc' = [pc EXCEPT ![w] = "copy"]
    BY <1>3 DEF Buffer, Busy, IInv, StepsOfKind, CallsTypeOK
  <2>2. left[w] \ {r} \in SUBSET left[w] /\ left' = [left EXCEPT ![w] = left[w] \ {r}]
    BY <1>3 DEF Buffer
  <2>3. UNCHANGED <<kind, now, call, logVars, answer, store, flight, crashes>>
    BY <1>3 DEF Buffer
  <2> QED
    BY <2>1, <2>2, <2>3, CallGoesOn
<1>4. ASSUME NEW w \in Writers, PrintDone(w)
      PROVE  IInv'
  <2>1. Busy(w) /\ kind = "stdout"
    BY <1>4 DEF PrintDone, Busy, IInv, StepsOfKind
  <2> QED
    BY <1>4, <2>1, EndsWithoutWriting DEF PrintDone
<1>5. ASSUME NEW w \in Writers, NEW fate \in Fates, NEW ok \in BOOLEAN,
             Post(w, fate, ok) \/ PutObject(w, fate, ok) \/ Commit(w, fate, ok)
      PROVE  IInv'
  <2>1. Busy(w) /\ kind # "stdout"
    BY <1>5 DEF Post, PutObject, Commit, Busy, IInv, StepsOfKind
  <2>2. Request(w, fate, ok) /\ UNCHANGED <<kind, now, logVars, crashes>>
    BY <1>5 DEF Post, PutObject, Commit
  <2> QED
    BY <2>1, <2>2, RequestKeeps
<1>6. ASSUME NEW n \in flight, Arrive(n)
      PROVE  IInv'
  BY <1>6, ArriveKeeps
<1>8. ASSUME NEW w \in Writers, BeginTx(w)
      PROVE  IInv'
  <2>1. Busy(w) /\ kind = "postgres" /\ pc' = [pc EXCEPT ![w] = "copy"]
    BY <1>8 DEF BeginTx, Busy, IInv, StepsOfKind
  <2>2. left[w] \in SUBSET left[w] /\ left' = [left EXCEPT ![w] = left[w]]
    BY <1>8 DEF BeginTx, IInv, CallsTypeOK
  <2> QED
    BY <1>8, <2>1, <2>2, CallGoesOn DEF BeginTx
<1>9. ASSUME NEW w \in Writers, Flush(w)
      PROVE  IInv'
  <2>1. Busy(w) /\ kind = "postgres" /\ pc' = [pc EXCEPT ![w] = "commit"] /\ left[w] = {}
    BY <1>9 DEF Flush, Busy, IInv, StepsOfKind
  <2>2. {} \in SUBSET left[w] /\ left' = [left EXCEPT ![w] = {}]
    BY <1>9, <2>1 DEF Flush, IInv, CallsTypeOK
  <2> QED
    BY <1>9, <2>1, <2>2, CallGoesOn DEF Flush
<1>10. ASSUME NEW w \in Writers, BeginFailed(w) \/ CopyFailed(w)
       PROVE  IInv'
  <2>1. /\ Busy(w) /\ End(w, "error")
        /\ UNCHANGED <<kind, now, logVars, store, flight, crashes>>
    BY <1>10 DEF BeginFailed, CopyFailed, Busy
  <2> QED
    BY <2>1, EndsWithoutWriting
<1>11. ASSUME Close \/ Tick \/ UNCHANGED vars
       PROVE  IInv'
  <2>1. now' \in 0 .. MaxTime /\ crashes' \in 0 .. MaxCrashes
    BY <1>11, ExportersOK DEF ExportersOK, Close, Tick, vars, IInv, CallsTypeOK
  <2> QED
    BY <1>11, <2>1, NothingHappens DEF Close, Tick, vars
<1>12. ASSUME Crash PROVE IInv'
  BY <1>12, CrashKeeps
<1> QED
  BY <1>1, <1>2, <1>3, <1>4, <1>5, <1>6, <1>8, <1>9, <1>10, <1>11, <1>12 DEF Next

THEOREM Invariant == Spec => []IInv
<1> QED
  BY InitHolds, NextKeeps, PTL DEF Spec

(* Whatever fails and dies, no backend but stdout shows a part of a batch   *)
(* (postgres/exporter.go:123-181, export.go:192).                           *)
THEOREM WholeBatches == Spec => []AllOrNothing
<1>1. IInv => AllOrNothing
  BY DEF IInv
<1> QED
  BY <1>1, Invariant, PTL

(* A batch answered with success is in the backend, in S3 unless its key    *)
(* was used again in the same millisecond (worker.go:198-212).              *)
THEOREM AcknowledgedStays == Spec => []AcknowledgedIsKept
<1>1. IInv => AcknowledgedIsKept
  BY DEF IInv
<1> QED
  BY <1>1, Invariant, PTL

(* ------------------------- the connection pool -------------------------- *)

PoolInv == inUse \in 0 .. MaxOpenConns /\ closed \in BOOLEAN /\ ConnectionsReturned

LEMMA TransactionsCounted ==
  ASSUME NEW S \in SUBSET Writers
  PROVE  /\ Cardinality(S) \in Nat
         /\ \A w \in Writers \ S : Cardinality(S \cup {w}) = Cardinality(S) + 1
         /\ \A w \in S : Cardinality(S \ {w}) = Cardinality(S) - 1
<1>1. IsFiniteSet(S)
  BY FS_Subset, ExportersOK DEF ExportersOK
<1> QED
  BY <1>1, FS_CardinalityType, FS_AddElement, FS_RemoveElement

(* A step that neither begins nor ends a transaction.                       *)
LEMMA PoolUntouched ==
  ASSUME PoolInv, inUse' = inUse, closed' \in BOOLEAN, InTransaction' = InTransaction
  PROVE  PoolInv'
BY DEF PoolInv, ConnectionsReturned

(* Export returns, and the connection is given back if there was one.       *)
LEMMA TransactionEnds ==
  ASSUME PoolInv, pc \in [Writers -> Steps], NEW w \in Writers, NEW result, End(w, result),
         pc[w] \in {"copy", "commit"}, inUse' = inUse - 1, closed' = closed
  PROVE  PoolInv'
<1>1. w \in InTransaction
  BY DEF InTransaction
<1>2. InTransaction' = InTransaction \ {w}
  BY DEF InTransaction, End
<1>3. Cardinality(InTransaction \ {w}) = Cardinality(InTransaction) - 1
  BY <1>1, TransactionsCounted DEF InTransaction
<1>4. Cardinality(InTransaction \ {w}) \in Nat
  BY TransactionsCounted DEF InTransaction
<1> QED
  BY <1>2, <1>3, <1>4, ExportersOK DEF PoolInv, ConnectionsReturned, ExportersOK

LEMMA OtherEnds ==
  ASSUME PoolInv, pc \in [Writers -> Steps], NEW w \in Writers, NEW result, End(w, result),
         pc[w] \notin {"copy", "commit"}, UNCHANGED <<inUse, closed>>
  PROVE  PoolInv'
<1>1. InTransaction' = InTransaction
  BY DEF InTransaction, End
<1> QED
  BY <1>1, PoolUntouched DEF PoolInv

LEMMA PoolKeeps ==
  ASSUME PoolInv, pc \in [Writers -> Steps], [Next]_vars
  PROVE  PoolInv'
<1>1. ASSUME NEW w \in Writers, BeginTx(w) PROVE PoolInv'
  <2>1. w \in Writers \ InTransaction
    BY <1>1 DEF BeginTx, InTransaction
  <2>2. InTransaction' = InTransaction \cup {w}
    BY <1>1 DEF BeginTx, InTransaction
  <2>3. Cardinality(InTransaction \cup {w}) = Cardinality(InTransaction) + 1
    BY <2>1, TransactionsCounted DEF InTransaction
  <2> QED
    BY <1>1, <2>2, <2>3, ExportersOK DEF PoolInv, ConnectionsReturned, ExportersOK, BeginTx
<1>2. ASSUME NEW w \in Writers, NEW fate \in Fates, NEW ok \in BOOLEAN,
             CopyFailed(w) \/ Commit(w, fate, ok)
      PROVE  PoolInv'
  <2>1. pc[w] \in {"copy", "commit"} /\ inUse' = inUse - 1 /\ closed' = closed
    BY <1>2 DEF CopyFailed, Commit
  <2>2. \E result : End(w, result)
    BY <1>2 DEF CopyFailed, Commit, Request
  <2> QED
    BY <2>1, <2>2, TransactionEnds
<1>3. ASSUME NEW w \in Writers, NEW fate \in Fates, NEW ok \in BOOLEAN,
             PrintDone(w) \/ Post(w, fate, ok) \/ PutObject(w, fate, ok) \/ BeginFailed(w)
      PROVE  PoolInv'
  <2>1. pc[w] \notin {"copy", "commit"} /\ UNCHANGED <<inUse, closed>>
    BY <1>3 DEF PrintDone, Post, PutObject, BeginFailed
  <2>2. \E result : End(w, result)
    BY <1>3 DEF PrintDone, Post, PutObject, BeginFailed, Request
  <2> QED
    BY <2>1, <2>2, OtherEnds
<1>4. ASSUME NEW w \in Writers, Flush(w) PROVE PoolInv'
  <2>1. InTransaction' = InTransaction
    BY <1>4 DEF Flush, InTransaction
  <2> QED
    BY <1>4, <2>1, PoolUntouched DEF Flush, PoolInv
<1>5. ASSUME NEW w \in Writers, NEW listing \in Listings, Export(w, listing) PROVE PoolInv'
  <2>1. pc[w] = "idle" /\ UNCHANGED <<inUse, closed>>
    BY <1>5 DEF Export
  <2>2. pc' = pc \/ \E entry \in Entries : pc' = [pc EXCEPT ![w] = entry[2]]
    BY <1>5 DEF Export
  <2>3. \A entry \in Entries : entry[2] \notin {"copy", "commit"}
    BY DEF Entries
  <2>4. \A v \in Writers : pc'[v] \in {"copy", "commit"} <=> pc[v] \in {"copy", "commit"}
    <3>1. CASE pc' = pc
      BY <3>1
    <3>2. ASSUME NEW entry \in Entries, pc' = [pc EXCEPT ![w] = entry[2]],
                 NEW v \in Writers
          PROVE  pc'[v] \in {"copy", "commit"} <=> pc[v] \in {"copy", "commit"}
      <4>1. CASE v = w
        <5>1. pc'[v] = entry[2]
          BY <3>2, <4>1
        <5> QED
          BY <2>1, <2>3, <4>1, <5>1
      <4>2. CASE v # w
        <5>1. pc'[v] = pc[v]
          BY <3>2, <4>2
        <5> QED
          BY <5>1
      <4> QED
        BY <4>1, <4>2
    <3> QED
      BY <2>2, <3>1, <3>2
  <2>5. InTransaction' = InTransaction
    BY <2>4 DEF InTransaction
  <2> QED
    BY <2>1, <2>5, PoolUntouched DEF PoolInv
<1>6. ASSUME Crash PROVE PoolInv'
  <2>1. InTransaction' = {} /\ inUse' = 0 /\ closed' = FALSE
    BY <1>6 DEF Crash, InTransaction
  <2>2. Cardinality(InTransaction') = 0
    BY <2>1, FS_EmptySet
  <2>3. 0 \in 0 .. MaxOpenConns
    BY ExportersOK DEF ExportersOK
  <2>4. ConnectionsReturned'
    BY <2>1, <2>2 DEF ConnectionsReturned
  <2> QED
    BY <2>1, <2>3, <2>4 DEF PoolInv
<1>7. ASSUME UNCHANGED <<pc, inUse>>, closed' \in BOOLEAN PROVE PoolInv'
  BY <1>7, PoolUntouched DEF InTransaction
<1>8. Close \/ Tick \/ UNCHANGED vars => UNCHANGED <<pc, inUse>> /\ closed' \in BOOLEAN
  BY DEF Close, Tick, vars, PoolInv
<1>9. ASSUME NEW w \in Writers, NEW r \in left[w], PrintLine(w, r) \/ Buffer(w, r)
      PROVE  UNCHANGED <<pc, inUse>> /\ closed' \in BOOLEAN
  BY <1>9 DEF PrintLine, Buffer, PoolInv
<1>10. ASSUME NEW n \in flight, Arrive(n)
       PROVE  UNCHANGED <<pc, inUse>> /\ closed' \in BOOLEAN
  BY <1>10 DEF Arrive, PoolInv
<1>11. ASSUME NEW w \in Writers,
              \/ \E listing \in Listings : Export(w, listing)
              \/ \E r \in left[w] : PrintLine(w, r) \/ Buffer(w, r)
              \/ PrintDone(w)
              \/ \E fate \in Fates, ok \in BOOLEAN :
                   Post(w, fate, ok) \/ PutObject(w, fate, ok) \/ Commit(w, fate, ok)
              \/ BeginTx(w) \/ BeginFailed(w) \/ Flush(w) \/ CopyFailed(w)
       PROVE  PoolInv'
  <2>1. BeginFailed(w) => PoolInv'
    BY <1>3 DEF Fates
  <2>2. PrintDone(w) => PoolInv'
    BY <1>3 DEF Fates
  <2>3. CopyFailed(w) => PoolInv'
    BY <1>2 DEF Fates
  <2>4. (\E r \in left[w] : PrintLine(w, r) \/ Buffer(w, r)) => PoolInv'
    BY <1>7, <1>9
  <2>5. ASSUME NEW fate \in Fates, NEW ok \in BOOLEAN,
               Post(w, fate, ok) \/ PutObject(w, fate, ok) \/ Commit(w, fate, ok)
        PROVE  PoolInv'
    BY <1>2, <1>3, <2>5
  <2> QED
    BY <1>1, <1>4, <1>5, <1>11, <2>1, <2>2, <2>3, <2>4, <2>5
<1>12. ASSUME Close \/ Tick \/ UNCHANGED vars \/ \E n \in flight : Arrive(n)
       PROVE  PoolInv'
  BY <1>7, <1>8, <1>10, <1>12
<1> QED
  BY <1>6, <1>11, <1>12 DEF Next

LEMMA PoolInvariant == Spec => []PoolInv
<1>1. Init => PoolInv
  <2> SUFFICES ASSUME Init PROVE PoolInv
    OBVIOUS
  <2>1. InTransaction = {} /\ inUse = 0 /\ closed = FALSE
    BY DEF Init, InTransaction
  <2>2. Cardinality(InTransaction) = 0
    BY <2>1, FS_EmptySet
  <2>3. 0 \in 0 .. MaxOpenConns
    BY ExportersOK DEF ExportersOK
  <2> QED
    BY <2>1, <2>2, <2>3 DEF PoolInv, ConnectionsReturned
<1>2. IInv => pc \in [Writers -> Steps]
  BY DEF IInv, CallsTypeOK
<1>3. (IInv /\ PoolInv /\ [Next]_vars) => PoolInv'
  BY <1>2, PoolKeeps
<1> QED
  BY <1>1, <1>3, Invariant, PTL DEF Spec

(* Every variable stays in its range, the pool lends no more connections    *)
(* than it has (export.go:120-201, postgres/exporter.go:88).                *)
THEOREM ExporterTypes == Spec => []TypeOK
<1>1. IInv /\ PoolInv => TypeOK
  BY DEF IInv, PoolInv, TypeOK
<1> QED
  BY <1>1, Invariant, PoolInvariant, PTL

(* As many connections are lent as there are transactions: none is lost on  *)
(* any path of Write, for any size of the pool (postgres/exporter.go:88,    *)
(* 128-135).                                                                *)
THEOREM PoolKeepsAll == Spec => []ConnectionsReturned
<1>1. PoolInv => ConnectionsReturned
  BY DEF PoolInv
<1> QED
  BY <1>1, PoolInvariant, PTL

(* ---------------------- what a caller may rely on ----------------------- *)

LEMMA PlaceIs ==
  ASSUME NEW m \in Calls, NEW n \in Calls
  PROVE  Place[m] = Place[n] <=> IF kind = "s3" THEN stamp[m] = stamp[n] ELSE m = n
<1>1. m \in Nat /\ n \in Nat /\ MaxTime \in Nat
  BY ExportersOK DEF ExportersOK, Calls
<1> QED
  BY <1>1 DEF Place

(* Nothing of a batch that is asked for is there, but in the log.           *)
LEMMA AskedIsPending ==
  ASSUME IInv
  PROVE  /\ Asked \subseteq 1 .. begun /\ flight \subseteq 1 .. begun
         /\ 1 .. begun \subseteq Calls
         /\ \A w \in Writers : Busy(w) =>
              call[w] \in Asked /\ call[w] \notin flight /\ batch[call[w]] # {}
         /\ \A w \in Writers : Busy(w) =>
              (call[w] \in Whole <=> (kind = "stdout" /\ left[w] = {}))
         /\ \A n \in flight : Kept(n) = {} /\ batch[n] # {}
         /\ kind # "stdout" => Asked \cap Whole = {} /\ flight \cap Whole = {}
         /\ kind = "stdout" => flight = {}
<1>1. Asked \subseteq 1 .. begun /\ flight \subseteq 1 .. begun /\ 1 .. begun \subseteq Calls
  BY Bounds DEF IInv, Asked, InProgress, Busy, UnderWay, CallsTypeOK
<1>2. \A w \in Writers : Busy(w) =>
        call[w] \in Asked /\ call[w] \notin flight /\ batch[call[w]] # {}
  BY DEF IInv, Asked, InProgress, Busy, UnderWay
<1>3. ASSUME NEW w \in Writers, Busy(w)
      PROVE  call[w] \in Whole <=> (kind = "stdout" /\ left[w] = {})
  <2>1. /\ call[w] \in 1 .. begun /\ left[w] \subseteq batch[call[w]] /\ batch[call[w]] # {}
        /\ Kept(call[w]) = IF kind = "stdout" THEN batch[call[w]] \ left[w] ELSE {}
    BY <1>3 DEF IInv, InProgress
  <2> QED
    BY <2>1 DEF Whole
<1>4. \A n \in flight : Kept(n) = {} /\ batch[n] # {} /\ kind # "stdout"
  BY DEF IInv, UnderWay
<1>5. kind # "stdout" => Asked \cap Whole = {}
  BY <1>3 DEF Asked, Busy
<1>6. flight \cap Whole = {}
  BY <1>4 DEF Whole
<1> QED
  BY <1>1, <1>2, <1>3, <1>4, <1>5, <1>6

LEMMA AskedEnds ==
  ASSUME IInv, NEW w \in Writers, Busy(w), NEW result, End(w, result)
  PROVE  Asked' = Asked \ {call[w]}
<1>1. call' = call /\ \A v \in Writers : pc'[v] = IF v = w THEN "idle" ELSE pc[v]
  BY DEF End, IInv, CallsTypeOK
<1>2. \A v \in Writers : Busy(v) /\ call[v] = call[w] => v = w
  BY DEF IInv, InProgress
<1> QED
  BY <1>1, <1>2 DEF Asked, Busy

LEMMA NothingTaken ==
  ASSUME UNCHANGED <<begun, batch, store>>
  PROVE  Whole' = Whole
BY DEF Whole, Kept

LEMMA PlacesStay ==
  ASSUME UNCHANGED <<kind, stamp>>
  PROVE  Place' = Place
BY DEF Place

LEMMA SameAsked ==
  ASSUME IInv, pc' \in [Writers -> Steps], call' = call,
         \A w \in Writers : Busy(w)' <=> Busy(w)
  PROVE  Asked' = Asked
BY DEF Asked, Busy

(* The backend takes a batch, and drops what had its place.                 *)
LEMMA BatchIsTaken ==
  ASSUME IInv, NEW n \in 1 .. begun, batch[n] # {}, kind # "stdout", Kept(n) = {},
         store' = Taken(n), UNCHANGED <<kind, begun, batch, stamp>>
  PROVE  Whole' = {m \in Whole : Place[m] # Place[n]} \cup {n}
<1>1. 1 .. begun \subseteq Calls
  BY AskedIsPending
<1>2. Kept(n)' = batch[n]
  BY <1>1, TakenIs DEF Kept
<1>3. \A m \in Calls : m # n =>
        Kept(m)' = IF kind = "s3" /\ stamp[m] = stamp[n] THEN {} ELSE Kept(m)
  BY <1>1, TakenIs DEF Kept
<1>4. ASSUME NEW m \in 1 .. begun, m # n
      PROVE  batch[m] # {} /\ Kept(m)' = batch[m]
               <=> batch[m] # {} /\ Kept(m) = batch[m] /\ Place[m] # Place[n]
  <2>1. Place[m] = Place[n] <=> (kind = "s3" /\ stamp[m] = stamp[n])
    BY <1>1, <1>4, PlaceIs
  <2> QED
    BY <1>1, <1>3, <1>4, <2>1
<1>5. \A m : m \in Whole' <=> m \in 1 .. begun /\ batch[m] # {} /\ Kept(m)' = batch[m]
  BY DEF Whole
<1>6. \A m : m \in Whole <=> m \in 1 .. begun /\ batch[m] # {} /\ Kept(m) = batch[m]
  BY DEF Whole
<1> QED
  BY <1>2, <1>4, <1>5, <1>6

ServiceVars == <<begun, Asked, Pending, Place, Whole, answer>>

LEMMA ExportGives ==
  ASSUME IInv, NEW w \in Writers, NEW listing \in Listings, Export(w, listing)
  PROVE  \E n \in Calls, at \in 0 .. (MaxTime + MaxCalls), something \in BOOLEAN :
           Service!Give(n, at, something)
<1> DEFINE n == begun + 1
           at == IF kind = "s3" THEN now ELSE MaxTime + n
           something == Records(listing) # {}
<1>0. /\ pc[w] = "idle" /\ n \in Calls /\ begun' = n
      /\ batch' = [batch EXCEPT ![n] = Records(listing)]
      /\ call' = [call EXCEPT ![w] = n]
      /\ stamp' = [stamp EXCEPT ![n] = now]
      /\ UNCHANGED <<kind, store, flight>>
      /\ n \notin 1 .. begun /\ 1 .. n = (1 .. begun) \cup {n}
  BY Bounds DEF Export, IInv, CallsTypeOK, Calls
<1>1. at \in 0 .. (MaxTime + MaxCalls) /\ something \in BOOLEAN
  <2>1. now \in 0 .. MaxTime /\ n \in 1 .. MaxCalls /\ MaxTime \in Nat /\ MaxCalls \in Nat
    BY <1>0, ExportersOK DEF ExportersOK, IInv, CallsTypeOK, Calls
  <2> QED
    BY <2>1
<1>2. Place' = [Place EXCEPT ![n] = at]
  BY <1>0 DEF Place, IInv, CallsTypeOK
<1>3. Kept(n) = {} /\ \A m : Kept(m)' = Kept(m)
  <2>1. \A m : Kept(m)' = Kept(m)
    BY <1>0 DEF Kept
  <2>2. n > begun
    BY <1>0, Bounds DEF IInv, CallsTypeOK
  <2>3. Kept(n) = {}
    BY <1>0, <2>2 DEF IInv, StillToCome
  <2> QED
    BY <2>1, <2>3
<1>4. Whole' = Whole
  <2>1. \A m \in 1 .. begun : batch'[m] = batch[m]
    BY <1>0, AskedIsPending DEF IInv, CallsTypeOK
  <2>2. \A m : m \in Whole' <=> m \in (1 .. begun) \cup {n} /\ batch'[m] # {} /\ Kept(m)' = batch'[m]
    BY <1>0 DEF Whole
  <2>3. \A m : m \in Whole <=> m \in 1 .. begun /\ batch[m] # {} /\ Kept(m) = batch[m]
    BY DEF Whole
  <2>4. n \notin Whole' /\ n \notin Whole
    BY <1>0, <1>3, <2>2, <2>3
  <2> QED
    BY <1>3, <2>1, <2>2, <2>3, <2>4
<1>5. n \notin Whole /\ n \notin flight
  BY <1>0, AskedIsPending DEF Whole
<1>6. \A v \in Writers : v # w => call'[v] = call[v]
  BY <1>0 DEF IInv, CallsTypeOK
<1>7. call'[w] = n
  BY <1>0 DEF IInv, CallsTypeOK
<1>8. CASE something
  <2>1. PICK entry \in Entries : entry[1] = kind /\ pc' = [pc EXCEPT ![w] = entry[2]]
    BY <1>8 DEF Export
  <2>2. entry[2] # "idle"
    BY DEF Entries
  <2>3. \A v \in Writers : pc'[v] = IF v = w THEN entry[2] ELSE pc[v]
    BY <2>1 DEF IInv, CallsTypeOK
  <2>4. Asked' = Asked \cup {n}
    BY <1>0, <1>6, <1>7, <2>2, <2>3 DEF Asked
  <2>5. answer' = answer
    BY <1>8 DEF Export
  <2>6. Pending' = Pending \cup {n}
    BY <1>0, <1>4, <1>5, <2>4 DEF Pending
  <2> HIDE DEF n, at, something
  <2>7. Service!Give(n, at, something)
    BY <1>0, <1>2, <1>4, <1>8, <2>4, <2>5, <2>6 DEF Service!Give
  <2> QED
    BY <1>0, <1>1, <2>7
<1>9. CASE ~something
  <2>1. answer' = [answer EXCEPT ![n] = "ok"] /\ pc' = pc
    BY <1>9 DEF Export
  <2>2. Asked' = Asked
    BY <1>0, <1>6, <2>1 DEF Asked
  <2>3. Pending' = Pending
    BY <1>0, <1>4, <2>2 DEF Pending
  <2> HIDE DEF n, at, something
  <2>4. Service!Give(n, at, something)
    BY <1>0, <1>2, <1>4, <1>9, <2>1, <2>2, <2>3 DEF Service!Give
  <2> QED
    BY <1>0, <1>1, <2>4
<1> QED
  BY <1>8, <1>9

(* The last line of a batch completes it in the log.                        *)
LEMMA PrintLineTakes ==
  ASSUME IInv, NEW w \in Writers, NEW r \in left[w], PrintLine(w, r)
  PROVE  Service!Take(call[w]) \/ UNCHANGED ServiceVars
<1> DEFINE n == call[w]
<1>0. /\ Busy(w) /\ kind = "stdout"
      /\ left' = [left EXCEPT ![w] = left[w] \ {r}]
      /\ store' = store \cup Rows(n, {r}, 0)
      /\ UNCHANGED <<kind, now, pc, call, begun, batch, stamp, answer, flight, crashes>>
  BY DEF PrintLine, Busy, IInv, StepsOfKind
<1>1. /\ n \in 1 .. begun /\ left[w] \subseteq batch[n] /\ batch[n] # {}
      /\ Kept(n) = batch[n] \ left[w] /\ n \in Calls
  BY <1>0, AskedIsPending DEF IInv, InProgress
<1>2. \A m : Kept(m)' = IF m = n THEN Kept(m) \cup {r} ELSE Kept(m)
  <2>1. \A m : KeptIn(Rows(n, {r}, 0), m) = IF m = n THEN {r} ELSE {}
    BY KeptOfRows
  <2>2. ASSUME NEW m
        PROVE  Kept(m)' = Kept(m) \cup KeptIn(Rows(n, {r}, 0), m)
    <3>1. KeptIn(store \cup Rows(n, {r}, 0), m) = KeptIn(store, m) \cup KeptIn(Rows(n, {r}, 0), m)
      BY DEF KeptIn
    <3> QED
      BY <1>0, <3>1 DEF Kept
  <2> QED
    BY <2>1, <2>2
<1>3. /\ Asked' = Asked /\ Place' = Place /\ answer' = answer /\ begun' = begun /\ flight = {}
      /\ flight' = {}
  BY <1>0, AskedIsPending DEF Asked, Place
<1>4. n \in Asked /\ n \notin Whole
  BY <1>0, AskedIsPending
<1>5. \A m \in 1 .. begun : m # n => (m \in Whole' <=> m \in Whole)
  BY <1>0, <1>2 DEF Whole
<1>6. n \in Whole' <=> left[w] \ {r} = {}
  BY <1>0, <1>1, <1>2 DEF Whole
<1>7. CASE left[w] \ {r} = {}
  <2>1. Whole' = Whole \cup {n}
    BY <1>0, <1>5, <1>6, <1>7 DEF Whole
  <2>2. \A m \in Whole : Place[m] # Place[n]
    BY <1>0, <1>1, <1>4, PlaceIs, AskedIsPending DEF Whole
  <2>3. {m \in Whole : Place[m] # Place[n]} = Whole
    BY <2>2
  <2>4. Pending' = Pending \ {n} /\ n \in Pending
    BY <1>3, <1>4, <2>1 DEF Pending
  <2>5. Whole' = {m \in Whole : Place[m] # Place[n]} \cup {n}
    BY <2>1, <2>3
  <2> HIDE DEF n
  <2>6. Service!Take(n)
    BY <1>3, <2>4, <2>5 DEF Service!Take, Service!Put
  <2> QED
    BY <2>6 DEF n
<1>8. CASE left[w] \ {r} # {}
  <2>1. Whole' = Whole
    BY <1>0, <1>4, <1>5, <1>6, <1>8 DEF Whole
  <2> QED
    BY <1>3, <2>1 DEF ServiceVars, Pending
<1> QED
  BY <1>7, <1>8

LEMMA PrintDoneConfirms ==
  ASSUME IInv, NEW w \in Writers, PrintDone(w)
  PROVE  Service!Confirm(call[w])
<1> DEFINE n == call[w]
<1>1. /\ Busy(w) /\ kind = "stdout" /\ left[w] = {} /\ End(w, "ok")
      /\ UNCHANGED <<kind, begun, batch, stamp, store, flight>>
  BY DEF PrintDone, Busy, IInv, StepsOfKind
<1>2. n \in Asked /\ n \in Whole /\ flight = {} /\ flight' = {}
  BY <1>1, AskedIsPending
<1>3. Asked' = Asked \ {n}
  BY <1>1, AskedEnds
<1>4. Whole' = Whole /\ Place' = Place
  BY <1>1, NothingTaken, PlacesStay
<1>5. n \notin Pending /\ Pending' = Pending
  BY <1>2, <1>3, <1>4 DEF Pending
<1>6. answer' = [answer EXCEPT ![n] = "ok"] /\ begun' = begun
  BY <1>1 DEF End
<1> HIDE DEF n
<1>7. Service!Confirm(n)
  BY <1>2, <1>3, <1>4, <1>5, <1>6 DEF Service!Confirm, Service!Tell
<1> QED
  BY <1>7 DEF n

(* A call fails before anything was sent.                                   *)
LEMMA FailedFails ==
  ASSUME IInv, NEW w \in Writers, BeginFailed(w) \/ CopyFailed(w)
  PROVE  Service!Fail(call[w], FALSE)
<1> DEFINE n == call[w]
<1>1. /\ Busy(w) /\ kind = "postgres" /\ End(w, "error")
      /\ UNCHANGED <<kind, begun, batch, stamp, store, flight>>
  BY DEF BeginFailed, CopyFailed, Busy, IInv, StepsOfKind
<1>2. n \in Asked /\ n \notin flight /\ Asked' = Asked \ {n}
  BY <1>1, AskedIsPending, AskedEnds
<1>3. Whole' = Whole /\ Place' = Place
  BY <1>1, NothingTaken, PlacesStay
<1>4. Pending' = Pending \ {n}
  BY <1>1, <1>2, <1>3 DEF Pending
<1>5. answer' = [answer EXCEPT ![n] = "error"] /\ begun' = begun
  BY <1>1 DEF End
<1> HIDE DEF n
<1>6. Service!Fail(n, FALSE)
  BY <1>2, <1>3, <1>4, <1>5 DEF Service!Fail, Service!Tell
<1> QED
  BY <1>6 DEF n

(* A request is taken before its answer, or may come yet, or is lost.       *)
LEMMA RequestTells ==
  ASSUME IInv, NEW w \in Writers, Busy(w), kind # "stdout",
         NEW fate \in Fates, NEW ok \in BOOLEAN, Request(w, fate, ok),
         UNCHANGED <<kind, logVars>>
  PROVE  \/ \E result \in {"ok", "error"} : Service!TakeAndTell(call[w], result)
         \/ \E mayCome \in BOOLEAN : Service!Fail(call[w], mayCome)
<1> DEFINE n == call[w]
           result == IF ok THEN "ok" ELSE "error"
<1>1. /\ ok => fate = "arrives"
      /\ store' = IF fate = "arrives" THEN Taken(n) ELSE store
      /\ flight' = IF fate = "late" THEN flight \cup {n} ELSE flight
      /\ End(w, result) /\ result \in {"ok", "error"}
  BY DEF Request
<1>2. /\ n \in Asked /\ n \notin flight /\ n \notin Whole /\ n \in 1 .. begun /\ n \in Calls
      /\ Asked \cap Whole = {} /\ batch[n] # {} /\ Kept(n) = {}
  BY AskedIsPending DEF IInv, InProgress
<1>3. Asked' = Asked \ {n}
  BY <1>1, AskedEnds
<1>4. answer' = [answer EXCEPT ![n] = result] /\ begun' = begun /\ Place' = Place
  BY <1>1, PlacesStay DEF End
<1>5. CASE fate = "arrives"
  <2>1. Whole' = {m \in Whole : Place[m] # Place[n]} \cup {n}
    BY <1>1, <1>2, <1>5, BatchIsTaken
  <2>2. flight' = flight
    BY <1>1, <1>5
  <2>3. Pending = Asked \cup flight
    BY <1>2 DEF Pending
  <2>4. Asked' \cap Whole' = {}
    BY <1>2, <1>3, <2>1
  <2>5. Pending' = Asked' \cup flight
    BY <2>2, <2>4 DEF Pending
  <2>6. Pending' = Pending \ {n} /\ n \in Pending
    BY <1>2, <1>3, <2>3, <2>5
  <2> HIDE DEF n, result
  <2>7. Service!TakeAndTell(n, result)
    BY <1>2, <1>3, <1>4, <2>1, <2>6 DEF Service!TakeAndTell, Service!Tell, Service!Put
  <2> QED
    BY <1>1, <2>7 DEF n
<1>6. CASE fate # "arrives"
  <2>1. ~ok /\ store' = store /\ flight' = IF fate = "late" THEN flight \cup {n} ELSE flight
    BY <1>1, <1>6
  <2>2. Whole' = Whole
    BY <2>1, NothingTaken
  <2>3. Pending' = IF fate = "late" THEN Pending ELSE Pending \ {n}
    BY <1>2, <1>3, <2>1, <2>2 DEF Pending
  <2>4. answer' = [answer EXCEPT ![n] = "error"]
    BY <1>4, <2>1
  <2>5. (fate = "late") \in BOOLEAN
    OBVIOUS
  <2> HIDE DEF n, result
  <2>6. Service!Fail(n, fate = "late")
    BY <1>2, <1>3, <1>4, <2>2, <2>3, <2>4 DEF Service!Fail, Service!Tell
  <2> QED
    BY <2>5, <2>6 DEF n
<1> QED
  BY <1>5, <1>6

LEMMA ArriveTakes ==
  ASSUME IInv, NEW n \in flight, Arrive(n)
  PROVE  Service!Take(n)
<1>1. /\ flight' = flight \ {n} /\ store' = Taken(n)
      /\ UNCHANGED <<kind, pc, call, left, begun, batch, stamp, answer>>
  BY DEF Arrive
<1>2. n \in 1 .. begun /\ batch[n] # {} /\ Kept(n) = {} /\ kind # "stdout"
  BY DEF IInv, UnderWay
<1>3. n \notin Asked
  BY DEF Asked, IInv, UnderWay, Busy
<1>4. Whole' = {m \in Whole : Place[m] # Place[n]} \cup {n}
  BY <1>1, <1>2, BatchIsTaken
<1>5. Asked \cap Whole = {}
  BY <1>2, AskedIsPending
<1>6. Asked' = Asked /\ Place' = Place /\ begun' = begun /\ answer' = answer
  BY <1>1 DEF Asked, Place
<1>7. Pending = Asked \cup flight
  BY <1>5 DEF Pending
<1>8. Asked' \cap Whole' = {}
  BY <1>3, <1>4, <1>5, <1>6
<1>9. Pending' = Asked \cup (flight \ {n})
  BY <1>1, <1>6, <1>8 DEF Pending
<1>10. Pending' = Pending \ {n} /\ n \in Pending
  BY <1>3, <1>7, <1>9
<1> QED
  BY <1>4, <1>6, <1>10 DEF Service!Take, Service!Put

LEMMA CrashDies ==
  ASSUME IInv, Crash
  PROVE  \E rest \in SUBSET Pending : Service!Die(rest)
<1>1. /\ \A w \in Writers : pc'[w] = "idle"
      /\ UNCHANGED <<kind, begun, batch, stamp, answer, store>>
  BY DEF Crash
<1>2. PICK S \in SUBSET Sent : flight' = flight \cup S
  BY DEF Crash
<1>3. Sent \subseteq Asked \ Whole
  <2>1. ASSUME NEW w \in Writers, pc[w] \in {"post", "put", "commit"}
        PROVE  call[w] \in Asked \ Whole
    <3>1. Busy(w) /\ kind # "stdout"
      BY <2>1 DEF Busy, IInv, StepsOfKind
    <3> QED
      BY <3>1, AskedIsPending
  <2> QED
    BY <2>1 DEF Sent
<1>4. Asked' = {}
  BY <1>1 DEF Asked
<1>5. Whole' = Whole /\ Place' = Place
  BY <1>1, NothingTaken, PlacesStay
<1>6. Pending' = flight'
  BY <1>4 DEF Pending
<1>7. Pending' \subseteq Pending
  BY <1>2, <1>3, <1>6 DEF Pending
<1>8. Service!Die(Pending')
  BY <1>1, <1>4, <1>5, <1>7 DEF Service!Die
<1> QED
  BY <1>7, <1>8

(* Steps that the caller does not see.                                      *)
LEMMA Unseen ==
  ASSUME IInv, pc' \in [Writers -> Steps], \A w \in Writers : Busy(w)' <=> Busy(w),
         UNCHANGED <<kind, call, begun, batch, stamp, answer, store, flight>>
  PROVE  UNCHANGED ServiceVars
<1>1. Asked' = Asked
  BY SameAsked
<1>2. Whole' = Whole /\ Place' = Place
  BY NothingTaken, PlacesStay
<1> QED
  BY <1>1, <1>2 DEF ServiceVars, Pending

LEMMA InternalUnseen ==
  ASSUME IInv, NEW w \in Writers,
         BeginTx(w) \/ Flush(w) \/ (\E r \in left[w] : Buffer(w, r))
  PROVE  UNCHANGED ServiceVars
<1>1. UNCHANGED <<kind, call, begun, batch, stamp, answer, store, flight>>
  BY DEF BeginTx, Flush, Buffer
<1>2. Busy(w) /\ (pc' = pc \/ \E step \in {"copy", "commit"} : pc' = [pc EXCEPT ![w] = step])
  BY DEF BeginTx, Flush, Buffer, Busy
<1>3. pc' \in [Writers -> Steps] /\ \A v \in Writers : Busy(v)' <=> Busy(v)
  BY <1>2 DEF Busy, IInv, CallsTypeOK, Steps
<1> QED
  BY <1>1, <1>3, Unseen

LEMMA StepSeen ==
  ASSUME IInv, [Next]_vars
  PROVE  Service!Next \/ UNCHANGED ServiceVars
<1>0. \A w \in Writers : Busy(w) => call[w] \in Calls
  BY AskedIsPending
<1>1. ASSUME NEW w \in Writers, NEW listing \in Listings, Export(w, listing)
      PROVE  Service!Next
  BY <1>1, ExportGives DEF Service!Next
<1>2. ASSUME NEW w \in Writers, NEW r \in left[w], PrintLine(w, r)
      PROVE  Service!Next \/ UNCHANGED ServiceVars
  <2>1. call[w] \in Calls
    BY <1>0, <1>2 DEF PrintLine, Busy
  <2> QED
    BY <1>2, <2>1, PrintLineTakes DEF Service!Next
<1>3. ASSUME NEW w \in Writers, PrintDone(w)
      PROVE  Service!Next
  <2>1. call[w] \in Calls
    BY <1>0, <1>3 DEF PrintDone, Busy
  <2> QED
    BY <1>3, <2>1, PrintDoneConfirms DEF Service!Next
<1>4. ASSUME NEW w \in Writers, BeginFailed(w) \/ CopyFailed(w)
      PROVE  Service!Next
  <2>1. call[w] \in Calls
    BY <1>0, <1>4 DEF BeginFailed, CopyFailed, Busy
  <2> QED
    BY <1>4, <2>1, FailedFails DEF Service!Next
<1>5. ASSUME NEW w \in Writers, NEW fate \in Fates, NEW ok \in BOOLEAN,
             Post(w, fate, ok) \/ PutObject(w, fate, ok) \/ Commit(w, fate, ok)
      PROVE  Service!Next
  <2>1. Busy(w) /\ kind # "stdout"
    BY <1>5 DEF Post, PutObject, Commit, Busy, IInv, StepsOfKind
  <2>2. Request(w, fate, ok) /\ UNCHANGED <<kind, logVars>>
    BY <1>5 DEF Post, PutObject, Commit
  <2>3. call[w] \in Calls
    BY <1>0, <2>1
  <2> QED
    BY <2>1, <2>2, <2>3, RequestTells DEF Service!Next
<1>6. ASSUME NEW n \in flight, Arrive(n)
      PROVE  Service!Next
  <2>1. n \in Calls
    BY DEF IInv, CallsTypeOK
  <2> QED
    BY <1>6, <2>1, ArriveTakes DEF Service!Next
<1>7. Crash => Service!Next
  BY CrashDies DEF Service!Next
<1>8. Close \/ Tick \/ UNCHANGED vars => UNCHANGED ServiceVars
  <2>1. Close \/ Tick \/ UNCHANGED vars
          => UNCHANGED <<kind, pc, call, begun, batch, stamp, answer, store, flight>>
    BY DEF Close, Tick, vars
  <2>2. pc' = pc => pc' \in [Writers -> Steps] /\ \A w \in Writers : Busy(w)' <=> Busy(w)
    BY DEF IInv, CallsTypeOK, Busy
  <2> QED
    BY <2>1, <2>2, Unseen
<1>9. ASSUME NEW w \in Writers,
             \/ \E listing \in Listings : Export(w, listing)
             \/ \E r \in left[w] : PrintLine(w, r) \/ Buffer(w, r)
             \/ PrintDone(w)
             \/ \E fate \in Fates, ok \in BOOLEAN :
                  Post(w, fate, ok) \/ PutObject(w, fate, ok) \/ Commit(w, fate, ok)
             \/ BeginTx(w) \/ BeginFailed(w) \/ Flush(w) \/ CopyFailed(w)
      PROVE  Service!Next \/ UNCHANGED ServiceVars
  <2>1. BeginTx(w) \/ Flush(w) \/ (\E r \in left[w] : Buffer(w, r)) => UNCHANGED ServiceVars
    BY InternalUnseen
  <2> QED
    BY <1>1, <1>2, <1>3, <1>4, <1>5, <1>9, <2>1
<1> QED
  BY <1>6, <1>7, <1>8, <1>9 DEF Next

(* Each backend is, for its callers, a Backend: whatever fails, arrives     *)
(* late or dies, a batch is taken whole and at most once, success means it  *)
(* was taken, and only a batch in its place drops it (export.go:120-201).   *)
THEOREM ExportersImplementBackend == Spec => ImplementsBackend
<1>1. Init => Service!Init
  <2> SUFFICES ASSUME Init PROVE Service!Init
    OBVIOUS
  <2>1. begun = 0 /\ Asked = {} /\ flight = {} /\ \A n \in Calls : stamp[n] = 0
    BY DEF Init, Asked
  <2>2. 1 .. begun = {} /\ Whole = {} /\ Pending = {}
    BY <2>1 DEF Whole, Pending
  <2>3. Place \in [Calls -> 0 .. (MaxTime + MaxCalls)]
    BY <2>1, ExportersOK DEF Place, ExportersOK, Calls
  <2>4. answer = [n \in Calls |-> "none"]
    BY DEF Init
  <2> QED
    BY <2>1, <2>2, <2>3, <2>4 DEF Service!Init
<1>2. IInv /\ [Next]_vars => [Service!Next]_(Service!vars)
  BY StepSeen DEF ServiceVars, Service!vars
<1> QED
  BY <1>1, <1>2, Invariant, PTL DEF Spec, ImplementsBackend, Service!Spec
==============================================================================
