----------------------------- MODULE PodBudgetProofs ---------------------------
(***************************************************************************)
(* Proofs about PodBudget and UIDSet, for every budget, cacheTTL, sequence *)
(* of sleeps and number of workers and pods.                               *)
(***************************************************************************)
EXTENDS PodBudget, TLAPS

(* ------------------------------- the set -------------------------------- *)

SetStep ==
  \/ \E u \in UIDs : Add(u)
  \/ Sweep
  \/ Elapse
  \/ UNCHANGED setVars

LEMMA SetTypesKept ==
  ASSUME SetTypeOK, SetStep
  PROVE  SetTypeOK'
<1> USE SetOK DEF SetOK, SetTypeOK, Never
<1>1. ASSUME NEW u \in UIDs, Add(u) PROVE SetTypeOK'
  BY <1>1 DEF Add
<1>2. CASE Sweep
  BY <1>2 DEF Sweep
<1>3. CASE Elapse
  <2>1. sinceSweep' \in 0 .. SweepInterval
    BY <1>3 DEF Elapse, SweepDue
  <2>2. \A u \in UIDs : Later(sinceAdd[u]) \in 0 .. Never
    BY DEF Later
  <2>3. /\ age' \in [UIDs -> Nat] /\ sinceAdd' \in [UIDs -> 0 .. Never]
        /\ stored' = stored
    BY <1>3, <2>2 DEF Elapse
  <2> QED
    BY <2>1, <2>3
<1>4. CASE UNCHANGED setVars
  BY <1>4 DEF setVars
<1> QED
  BY <1>1, <1>2, <1>3, <1>4 DEF SetStep

LEMMA EntriesKept ==
  ASSUME SetTypeOK, EntryIsLastAdd, SetStep
  PROVE  EntryIsLastAdd'
<1> SUFFICES ASSUME NEW v \in UIDs PROVE Entry(v)' = sinceAdd'[v]
  BY DEF EntryIsLastAdd
<1> USE SetOK DEF SetOK
<1>0. Entry(v) = sinceAdd[v] /\ age[v] \in Nat
  BY DEF EntryIsLastAdd, SetTypeOK
<1>1. ASSUME NEW u \in UIDs, Add(u) PROVE Entry(v)' = sinceAdd'[v]
  <2>1. CASE u = v
    <3>1. v \in stored' /\ age'[v] = 0 /\ sinceAdd'[v] = 0
      BY <1>1, <2>1 DEF Add, SetTypeOK
    <3> QED
      BY <3>1 DEF Entry, Never
  <2>2. CASE u # v
    <3>1. (v \in stored' <=> v \in stored) /\ age'[v] = age[v] /\ sinceAdd'[v] = sinceAdd[v]
      BY <1>1, <2>2 DEF Add, SetTypeOK
    <3> QED
      BY <1>0, <3>1 DEF Entry
  <2> QED
    BY <2>1, <2>2
<1>2. CASE Sweep
  <2>1. /\ v \in stored' <=> v \in stored /\ age[v] <= CacheTTL
        /\ v \in stored' => age'[v] = age[v]
        /\ sinceAdd'[v] = sinceAdd[v]
    BY <1>2 DEF Sweep
  <2> QED
    BY <1>0, <2>1 DEF Entry, Never
<1>3. CASE Elapse
  <2>1. /\ v \in stored' <=> v \in stored
        /\ v \in stored => age'[v] = age[v] + 1
        /\ sinceAdd'[v] = Later(sinceAdd[v])
    BY <1>3 DEF Elapse
  <2> QED
    BY <1>0, <2>1 DEF Entry, Never, Later
<1>4. CASE UNCHANGED setVars
  BY <1>0, <1>4 DEF setVars, Entry
<1> QED
  BY <1>1, <1>2, <1>3, <1>4 DEF SetStep

LEMMA LifetimeKept ==
  ASSUME SetTypeOK, EntryLifetime, SetStep
  PROVE  EntryLifetime'
<1> SUFFICES ASSUME NEW v \in stored' PROVE age'[v] <= CacheTTL + sinceSweep'
  BY DEF EntryLifetime
<1> USE SetOK DEF SetOK
<1>0. /\ v \in stored => v \in UIDs /\ age[v] \in Nat /\ age[v] <= CacheTTL + sinceSweep
      /\ sinceSweep \in Nat
  BY DEF EntryLifetime, SetTypeOK
<1>1. ASSUME NEW u \in UIDs, Add(u) PROVE age'[v] <= CacheTTL + sinceSweep'
  <2>1. CASE u = v
    BY <1>0, <1>1, <2>1 DEF Add, SetTypeOK
  <2>2. CASE u # v
    BY <1>0, <1>1, <2>2 DEF Add, SetTypeOK
  <2> QED
    BY <2>1, <2>2
<1>2. CASE Sweep
  <2>1. v \in stored /\ age[v] <= CacheTTL
    BY <1>2 DEF Sweep
  <2> QED
    BY <1>0, <1>2, <2>1 DEF Sweep
<1>3. CASE Elapse
  <2>1. v \in stored /\ age'[v] = age[v] + 1 /\ sinceSweep' = sinceSweep + 1
    BY <1>0, <1>3 DEF Elapse
  <2> QED
    BY <1>0, <2>1
<1>4. CASE UNCHANGED setVars
  BY <1>0, <1>4 DEF setVars
<1> QED
  BY <1>1, <1>2, <1>3, <1>4 DEF SetStep

(* ----------------------------- the workers ------------------------------ *)

IInv ==
  /\ TypeOK
  /\ EntryIsLastAdd
  /\ EntryLifetime
  /\ OneHolder
  /\ ctxDone \/ sinceCancel = 0
  /\ \A w \in Workers : Spent(w) /\ Knows(w)

(* A step of w leaves what the others have alone. *)
OthersStay(w) ==
  \A v \in Workers \ {w} :
    /\ pc'[v] = pc[v] /\ uid'[v] = uid[v] /\ entry'[v] = entry[v]
    /\ elapsed'[v] = elapsed[v] /\ try'[v] = try[v] /\ left'[v] = left[v]

LEMMA FinishIsLocal ==
  ASSUME TypeOK, NEW w \in Workers, Finish(w)
  PROVE  OthersStay(w)
<1> SUFFICES ASSUME NEW v \in Workers, v # w
             PROVE  /\ pc'[v] = pc[v] /\ uid'[v] = uid[v] /\ entry'[v] = entry[v]
                    /\ elapsed'[v] = elapsed[v] /\ try'[v] = try[v] /\ left'[v] = left[v]
  BY DEF OthersStay
<1>1. pc'[v] = pc[v] /\ uid'[v] = uid[v] /\ entry'[v] = entry[v]
  BY DEF Finish, GiveBack, Goto, TypeOK
<1>2. elapsed'[v] = elapsed[v] /\ try'[v] = try[v] /\ left'[v] = left[v]
  BY DEF Finish, GiveBack, Goto, TypeOK
<1> QED
  BY <1>1, <1>2

LEMMA GotoIsLocal ==
  ASSUME TypeOK, NEW w \in Workers, NEW step, NEW time, Goto(w, step),
         uid' = uid, elapsed' = elapsed,
         entry' = entry \/ entry' = [entry EXCEPT ![w] = Never],
         try' = try \/ try' = [try EXCEPT ![w] = @ + 1],
         left' = left \/ left' = [left EXCEPT ![w] = time]
  PROVE  OthersStay(w)
<1> SUFFICES ASSUME NEW v \in Workers, v # w
             PROVE  /\ pc'[v] = pc[v] /\ entry'[v] = entry[v]
                    /\ try'[v] = try[v] /\ left'[v] = left[v]
  BY DEF OthersStay
<1>1. pc'[v] = pc[v] /\ entry'[v] = entry[v]
  BY DEF Goto, TypeOK
<1>2. try'[v] = try[v] /\ left'[v] = left[v]
  BY DEF TypeOK
<1> QED
  BY <1>1, <1>2

(* A step of a worker leaves the others alone, and marks at most its pod. *)
LEMMA WorkIsLocal ==
  ASSUME TypeOK, NEW w \in Workers, Work(w)
  PROVE  /\ OthersStay(w)
         /\ UNCHANGED ctxVars
         /\ UNCHANGED setVars \/ (uid[w] \in UIDs /\ Add(uid[w]))
<1> DEFINE Local ==
      /\ OthersStay(w)
      /\ UNCHANGED ctxVars
      /\ UNCHANGED setVars \/ (uid[w] \in UIDs /\ Add(uid[w]))
<1> SUFFICES Local
  OBVIOUS
<1>0. UNCHANGED <<ctxVars, setVars>> => UNCHANGED ctxVars /\ UNCHANGED setVars
  BY DEF ctxVars, setVars
<1>1. ASSUME NEW u \in UIDs, Take(w, u) PROVE Local
  <2>1. ASSUME NEW v \in Workers, v # w
        PROVE  pc'[v] = pc[v] /\ uid'[v] = uid[v] /\ entry'[v] = entry[v]
    BY <1>1, <2>1 DEF Take, Goto, TypeOK
  <2>2. elapsed' = elapsed /\ try' = try /\ left' = left /\ UNCHANGED <<ctxVars, setVars>>
    BY <1>1 DEF Take
  <2>3. OthersStay(w)
    BY <2>1, <2>2 DEF OthersStay
  <2> QED
    BY <1>0, <2>2, <2>3
<1>2. CASE Skip(w) \/ JitterCancelled(w)
  <2>1. Finish(w) /\ UNCHANGED <<ctxVars, setVars>>
    BY <1>2 DEF Skip, JitterCancelled
  <2> QED
    BY <1>0, <2>1, FinishIsLocal
<1>3. CASE Accept(w)
  <2>1. /\ Goto(w, "jitter") /\ UNCHANGED <<ctxVars, setVars>>
        /\ uid' = uid /\ elapsed' = elapsed /\ try' = try /\ left' = left
        /\ entry' = [entry EXCEPT ![w] = Never]
    BY <1>3 DEF Accept
  <2> QED
    BY <1>0, <2>1, GotoIsLocal
<1>4. CASE Jitter(w)
  <2>1. /\ Goto(w, "exec") /\ UNCHANGED <<ctxVars, setVars>> /\ uid' = uid
        /\ elapsed' = elapsed /\ try' = try /\ left' = left /\ entry' = entry
    BY <1>4 DEF Jitter
  <2> QED
    BY <1>0, <2>1, GotoIsLocal
<1>5. ASSUME NEW step \in Calls, Settled(w, step) PROVE Local
  <2>1. pc[w] = step /\ Add(uid[w]) /\ Finish(w) /\ UNCHANGED ctxVars
    BY <1>5 DEF Settled
  <2>2. uid[w] \in UIDs
    BY <2>1 DEF TypeOK, Calls
  <2> QED
    BY <2>1, <2>2, FinishIsLocal
<1>6. ASSUME NEW step, NEW next, Answered(w, step, next) PROVE Local
  <2>1. /\ Goto(w, next) /\ UNCHANGED <<ctxVars, setVars>> /\ uid' = uid
        /\ elapsed' = elapsed /\ try' = try /\ left' = left /\ entry' = entry
    BY <1>6 DEF Answered
  <2> QED
    BY <1>0, <2>1, GotoIsLocal
<1>7. CASE Answer(w)
  <2>1. CASE ExecFoundNone(w) \/ Exported(w)
    BY <1>5, <2>1 DEF ExecFoundNone, Exported, Calls
  <2>2. CASE ExecFoundGPUs(w) \/ LabelsThere(w) \/ Identified(w)
    BY <1>6, <2>2 DEF ExecFoundGPUs, LabelsThere, Identified
  <2>3. CASE LabelRefused(w)
    <3>1. Finish(w) /\ UNCHANGED <<ctxVars, setVars>>
      BY <2>3 DEF LabelRefused
    <3> QED
      BY <1>0, <3>1, FinishIsLocal
  <2> QED
    BY <1>7, <2>1, <2>2, <2>3 DEF Answer
<1>8. CASE CallFailed(w) \/ LabelGivenUp(w)
  <2>1. Finish(w) /\ UNCHANGED <<ctxVars, setVars>>
    BY <1>8 DEF CallFailed, LabelGivenUp
  <2> QED
    BY <1>0, <2>1, FinishIsLocal
<1>9. CASE LabelFailed(w)
  <2>1. PICK d \in Delay[try[w]] .. Delay[try[w]] + Stretch : left' = [left EXCEPT ![w] = d]
    BY <1>9 DEF LabelFailed
  <2>2. /\ Goto(w, "sleep") /\ UNCHANGED <<ctxVars, setVars>> /\ uid' = uid
        /\ elapsed' = elapsed /\ try' = try /\ entry' = entry
    BY <1>9 DEF LabelFailed
  <2> QED
    BY <1>0, <2>1, <2>2, GotoIsLocal
<1>10. CASE Wake(w)
  <2>1. /\ Goto(w, "label") /\ UNCHANGED <<ctxVars, setVars>> /\ uid' = uid
        /\ elapsed' = elapsed /\ entry' = entry /\ left' = left
        /\ try' = [try EXCEPT ![w] = @ + 1]
    BY <1>10 DEF Wake
  <2> QED
    BY <1>0, <2>1, GotoIsLocal
<1> HIDE DEF Local
<1> QED
  BY <1>1, <1>2, <1>3, <1>4, <1>7, <1>8, <1>9, <1>10 DEF Work, Check, Failure

LEMMA WorkTypes ==
  ASSUME IInv, NEW w \in Workers, Work(w)
  PROVE  TypeOK'
<1>t. /\ pc \in [Workers -> Steps]
      /\ uid \in [Workers -> UIDs \cup {None}]
      /\ entry \in [Workers -> 0 .. Never]
      /\ elapsed \in [Workers -> Nat]
      /\ try \in [Workers -> 1 .. MaxRetries]
      /\ left \in [Workers -> Nat]
      /\ \A v \in Workers : uid[v] = None <=> pc[v] = "idle"
      /\ SetTypeOK /\ TypeOK
  BY DEF IInv, TypeOK
<1>m. /\ MaxRetries \in Nat \ {0} /\ Stretch \in Nat /\ None \notin UIDs
      /\ Delay \in [1 .. MaxRetries - 1 -> Nat]
  BY BudgetOK DEF BudgetOK
<1>0. SetTypeOK' /\ UNCHANGED ctxVars
  <2>1. SetStep /\ UNCHANGED ctxVars
    BY <1>t, WorkIsLocal DEF SetStep
  <2> QED
    BY <1>t, <2>1, SetTypesKept
<1> DEFINE Rest ==
  /\ pc' \in [Workers -> Steps]
  /\ uid' \in [Workers -> UIDs \cup {None}]
  /\ entry' \in [Workers -> 0 .. Never]
  /\ elapsed' \in [Workers -> Nat]
  /\ try' \in [Workers -> 1 .. MaxRetries]
  /\ left' \in [Workers -> Nat]
  /\ \A v \in Workers : uid'[v] = None <=> pc'[v] = "idle"
<1> SUFFICES Rest
  BY <1>0, <1>t DEF ctxVars, TypeOK, IInv
<1>a. Never \in 0 .. Never /\ 1 \in 1 .. MaxRetries /\ 0 \in Nat
  BY <1>m, SetOK DEF SetOK, Never
<1>b. ASSUME Finish(w), pc[w] # "idle" PROVE Rest
  BY <1>a, <1>b, <1>t DEF Finish, GiveBack, Goto, Steps
<1>c. ASSUME NEW step \in Steps \ {"idle"}, Goto(w, step), pc[w] # "idle", uid' = uid
      PROVE  /\ pc' \in [Workers -> Steps]
             /\ \A v \in Workers : uid'[v] = None <=> pc'[v] = "idle"
  BY <1>c, <1>t DEF Goto
<1>1. ASSUME NEW u \in UIDs, Take(w, u) PROVE Rest
  <2>1. Entry(u) \in 0 .. Never
    BY <1>t, SetOK DEF SetOK, Entry, SetTypeOK, Never
  <2> QED
    BY <1>1, <1>t, <1>m, <2>1 DEF Take, Goto, Steps
<1>2. CASE Skip(w) \/ JitterCancelled(w)
  BY <1>2, <1>b DEF Skip, JitterCancelled
<1>3. CASE Accept(w)
  <2>1. Goto(w, "jitter") /\ pc[w] # "idle" /\ UNCHANGED <<uid, elapsed, try, left>>
        /\ entry' = [entry EXCEPT ![w] = Never]
    BY <1>3 DEF Accept
  <2> QED
    BY <1>a, <1>c, <1>t, <2>1 DEF Steps
<1>4. CASE Jitter(w)
  <2>1. Goto(w, "exec") /\ pc[w] # "idle" /\ UNCHANGED <<uid, entry, elapsed, try, left>>
    BY <1>4 DEF Jitter
  <2> QED
    BY <1>c, <1>t, <2>1 DEF Steps, Calls
<1>5. ASSUME NEW step \in Calls, Settled(w, step) PROVE Rest
  BY <1>5, <1>b DEF Settled, Calls
<1>6. ASSUME NEW step \in Calls, NEW next \in Calls, Answered(w, step, next) PROVE Rest
  <2>1. Goto(w, next) /\ pc[w] # "idle" /\ UNCHANGED <<uid, entry, elapsed, try, left>>
    BY <1>6 DEF Answered, Calls
  <2> QED
    BY <1>c, <1>t, <2>1 DEF Steps, Calls
<1>7. CASE Answer(w)
  <2>1. CASE ExecFoundNone(w) \/ Exported(w)
    BY <1>5, <2>1 DEF ExecFoundNone, Exported, Calls
  <2>2. CASE ExecFoundGPUs(w) \/ LabelsThere(w) \/ Identified(w)
    BY <1>6, <2>2 DEF ExecFoundGPUs, LabelsThere, Identified, Calls
  <2>3. CASE LabelRefused(w)
    BY <1>b, <2>3 DEF LabelRefused
  <2> QED
    BY <1>7, <2>1, <2>2, <2>3 DEF Answer
<1>8. CASE CallFailed(w) \/ LabelGivenUp(w)
  BY <1>8, <1>b DEF CallFailed, LabelGivenUp, Calls
<1>9. CASE LabelFailed(w)
  <2>1. /\ Goto(w, "sleep") /\ pc[w] # "idle" /\ UNCHANGED <<uid, entry, elapsed, try>>
        /\ try[w] \in 1 .. MaxRetries - 1
    BY <1>9, <1>t, <1>m DEF LabelFailed
  <2>2. Delay[try[w]] .. Delay[try[w]] + Stretch \subseteq Nat
    BY <1>m, <2>1
  <2>3. left' \in [Workers -> Nat]
    BY <1>9, <1>t, <2>2 DEF LabelFailed
  <2> QED
    BY <1>c, <1>t, <2>1, <2>3 DEF Steps
<1>10. CASE Wake(w)
  <2>1. /\ Goto(w, "label") /\ pc[w] = "sleep" /\ UNCHANGED <<uid, entry, elapsed, left>>
        /\ try' = [try EXCEPT ![w] = try[w] + 1]
    BY <1>10 DEF Wake
  <2>2. try[w] + 1 \in 1 .. MaxRetries
    <3>1. try[w] < MaxRetries /\ try[w] \in 1 .. MaxRetries
      BY <1>t, <2>1 DEF Spent, IInv
    <3> QED
      BY <1>m, <3>1
  <2>3. try' \in [Workers -> 1 .. MaxRetries]
    BY <1>t, <2>1, <2>2
  <2> QED
    BY <1>c, <1>t, <2>1, <2>3 DEF Steps, Calls
<1> QED
  BY <1>1, <1>2, <1>3, <1>4, <1>7, <1>8, <1>9, <1>10 DEF Work, Check, Failure

(* What is known of the time of the others holds as they stay. *)
LEMMA WorkSpends ==
  ASSUME IInv, NEW w \in Workers, Work(w)
  PROVE  \A v \in Workers : Spent(v)'
<1>i. /\ TypeOK /\ (ctxDone \/ sinceCancel = 0)
      /\ \A v \in Workers : Spent(v)
  BY DEF IInv
<1>c. UNCHANGED ctxVars /\ OthersStay(w)
  BY <1>i, WorkIsLocal
<1>o. ASSUME NEW v \in Workers, v # w PROVE Spent(v)'
  <2>1. /\ pc'[v] = pc[v] /\ elapsed'[v] = elapsed[v] /\ try'[v] = try[v]
        /\ left'[v] = left[v] /\ ctxDone' = ctxDone /\ sinceCancel' = sinceCancel
    BY <1>c, <1>o DEF ctxVars, OthersStay
  <2>2. Spent(v)
    BY <1>i
  <2> QED
    BY <2>1, <2>2 DEF Spent
<1> SUFFICES Spent(w)'
  BY <1>o
<1>x. ctxDone' = ctxDone /\ sinceCancel' = sinceCancel
  BY <1>c DEF ctxVars
<1>s. Spent(w)
  BY <1>i
<1>t. /\ elapsed[w] \in Nat /\ try[w] \in 1 .. MaxRetries /\ left[w] \in Nat
      /\ pc \in [Workers -> Steps] /\ elapsed \in [Workers -> Nat]
      /\ try \in [Workers -> 1 .. MaxRetries] /\ left \in [Workers -> Nat]
      /\ sinceCancel \in 0 .. AllSleeps + 1 /\ w \in Workers
  BY <1>i DEF TypeOK
<1>m. /\ MaxRetries \in Nat \ {0} /\ Stretch \in Nat /\ Timeout \in Nat
      /\ Delay \in [1 .. MaxRetries - 1 -> Nat] /\ Slept \in [1 .. MaxRetries -> Nat]
      /\ \A i \in 1 .. MaxRetries - 1 : Slept[i + 1] = Slept[i] + Delay[i] + Stretch
  BY BudgetOK DEF BudgetOK
<1>n. Slept[try[w]] \in Nat
  BY <1>m, <1>t
<1>b. ASSUME Finish(w) PROVE Spent(w)'
  <2>1. pc'[w] = "idle" /\ elapsed'[w] = 0
    BY <1>b, <1>t DEF Finish, GiveBack, Goto
  <2> QED
    BY <2>1 DEF Spent, Calls
<1>1. ASSUME NEW u \in UIDs, Take(w, u) PROVE Spent(w)'
  <2>1. pc[w] = "idle" /\ pc'[w] = "has" /\ elapsed'[w] = elapsed[w]
    BY <1>1, <1>t DEF Take, Goto
  <2> QED
    BY <1>s, <2>1 DEF Spent, Calls
<1>2. CASE Skip(w) \/ JitterCancelled(w)
  BY <1>2, <1>b DEF Skip, JitterCancelled
<1>3. CASE Accept(w)
  <2>1. pc[w] = "has" /\ pc'[w] = "jitter" /\ elapsed'[w] = elapsed[w]
    BY <1>3, <1>t DEF Accept, Goto
  <2> QED
    BY <1>s, <2>1 DEF Spent, Calls
<1>4. CASE Jitter(w)
  <2>1. pc[w] = "jitter" /\ pc'[w] = "exec" /\ elapsed'[w] = elapsed[w]
    BY <1>4, <1>t DEF Jitter, Goto
  <2>2. elapsed[w] = 0
    BY <1>s, <2>1 DEF Spent, Calls
  <2> QED
    BY <1>m, <2>1, <2>2 DEF Spent, Calls
<1>5. CASE Answer(w)
  <2>1. CASE ExecFoundNone(w) \/ Exported(w) \/ LabelRefused(w)
    BY <1>b, <2>1 DEF ExecFoundNone, Exported, LabelRefused, Settled
  <2>2. ASSUME NEW step, NEW next, Answered(w, step, next)
        PROVE  /\ pc'[w] = next /\ elapsed'[w] = elapsed[w] /\ try'[w] = try[w]
               /\ elapsed[w] <= Timeout /\ sinceCancel = 0
    BY <1>i, <1>t, <2>2 DEF Answered, Goto, MayAnswer
  <2>3. CASE ExecFoundGPUs(w)
    <3>1. /\ pc'[w] = "label" /\ elapsed'[w] = elapsed[w] /\ try'[w] = try[w]
          /\ elapsed[w] <= Timeout /\ sinceCancel = 0
      BY <2>2, <2>3 DEF ExecFoundGPUs
    <3>2. elapsed'[w] <= Timeout + Slept[try'[w]] /\ sinceCancel' <= Slept[try'[w]]
      BY <1>m, <1>n, <1>t, <1>x, <3>1
    <3> QED
      BY <3>1, <3>2 DEF Spent, Calls
  <2>4. CASE LabelsThere(w) \/ Identified(w)
    <3>1. /\ pc'[w] \in {"identify", "export"} /\ elapsed'[w] = elapsed[w]
          /\ elapsed[w] <= Timeout /\ sinceCancel = 0
      BY <2>2, <2>4 DEF LabelsThere, Identified
    <3> QED
      BY <1>x, <3>1 DEF Spent, Calls
  <2> QED
    BY <1>5, <2>1, <2>3, <2>4 DEF Answer
<1>6. CASE CallFailed(w) \/ LabelGivenUp(w)
  BY <1>6, <1>b DEF CallFailed, LabelGivenUp
<1>7. CASE LabelFailed(w)
  <2>1. PICK d \in Delay[try[w]] .. Delay[try[w]] + Stretch : left' = [left EXCEPT ![w] = d]
    BY <1>7 DEF LabelFailed
  <2>2. /\ pc[w] = "label" /\ pc'[w] = "sleep" /\ elapsed'[w] = elapsed[w]
        /\ try'[w] = try[w] /\ try[w] < MaxRetries /\ left'[w] = d
    BY <1>7, <1>t, <2>1 DEF LabelFailed, Goto
  <2>3. try[w] \in 1 .. MaxRetries - 1
    BY <1>m, <1>t, <2>2
  <2>4. Slept[try[w] + 1] = Slept[try[w]] + Delay[try[w]] + Stretch /\ Delay[try[w]] \in Nat
    BY <1>m, <2>3
  <2>5. /\ elapsed[w] <= Timeout + Slept[try[w]]
        /\ sinceCancel <= Slept[try[w]]
    BY <1>s, <2>2 DEF Spent
  <2>a. d \in Nat /\ d <= Delay[try[w]] + Stretch
    BY <1>m, <2>1, <2>4
  <2>6. elapsed[w] + d <= Timeout + Slept[try[w] + 1]
    <3>1. elapsed[w] \in Nat /\ Timeout \in Nat /\ Stretch \in Nat
      BY <1>m, <1>t
    <3> QED
      BY <1>n, <2>a, <2>4, <2>5, <3>1
  <2>7. sinceCancel + d <= Slept[try[w] + 1]
    <3>1. sinceCancel \in Nat /\ Stretch \in Nat
      BY <1>m, <1>t, <1>n DEF AllSleeps
    <3> QED
      BY <1>n, <2>a, <2>4, <2>5, <3>1
  <2> QED
    BY <1>x, <2>2, <2>6, <2>7 DEF Spent, Calls
<1>8. CASE Wake(w)
  <2>1. /\ pc[w] = "sleep" /\ left[w] = 0 /\ pc'[w] = "label" /\ elapsed'[w] = elapsed[w]
        /\ try'[w] = try[w] + 1
    BY <1>8, <1>t DEF Wake, Goto
  <2>2. /\ elapsed[w] <= Timeout + Slept[try[w] + 1]
        /\ sinceCancel <= Slept[try[w] + 1]
    BY <1>s, <1>t, <2>1 DEF Spent
  <2> QED
    BY <1>x, <2>1, <2>2 DEF Spent, Calls
<1> QED
  BY <1>1, <1>2, <1>3, <1>4, <1>5, <1>6, <1>7, <1>8 DEF Work, Check, Failure

(* A mark is of the pod of the only worker that holds it. *)
LEMMA WorkKnows ==
  ASSUME IInv, NEW w \in Workers, Work(w)
  PROVE  OneHolder' /\ \A v \in Workers : Knows(v)'
<1>i. /\ TypeOK /\ OneHolder /\ EntryIsLastAdd
      /\ \A v \in Workers : Knows(v)
  BY DEF IInv
<1>c. /\ OthersStay(w)
      /\ UNCHANGED setVars \/ (uid[w] \in UIDs /\ Add(uid[w]))
  BY <1>i, WorkIsLocal
<1>t. /\ pc \in [Workers -> Steps] /\ uid \in [Workers -> UIDs \cup {None}]
      /\ entry \in [Workers -> 0 .. Never] /\ sinceAdd \in [UIDs -> 0 .. Never]
      /\ \A v \in Workers : uid[v] = None <=> pc[v] = "idle"
      /\ w \in Workers
  BY <1>i DEF TypeOK, SetTypeOK
<1>k. Knows(w)
  BY <1>i
<1>n. None \notin UIDs /\ CacheTTL \in Nat
  BY BudgetOK, SetOK DEF BudgetOK, SetOK
(* The pod of w stays, is left, or is taken as nobody holds it. *)
<1>u. \/ uid'[w] = uid[w]
      \/ uid'[w] = None
      \/ /\ uid'[w] \in UIDs /\ pc'[w] = "has" /\ UNCHANGED setVars
         /\ \A v \in Workers : uid[v] # uid'[w]
         /\ entry'[w] = Entry(uid'[w])
  <2>1. ASSUME NEW u \in UIDs, Take(w, u)
        PROVE  /\ uid'[w] \in UIDs /\ pc'[w] = "has" /\ UNCHANGED setVars
               /\ \A v \in Workers : uid[v] # uid'[w]
               /\ entry'[w] = Entry(uid'[w])
    <3>1. uid'[w] = u /\ pc'[w] = "has" /\ entry'[w] = Entry(u)
      BY <1>t, <2>1 DEF Take, Goto
    <3>2. UNCHANGED setVars
      BY <2>1 DEF Take, setVars
    <3> QED
      BY <2>1, <3>1, <3>2 DEF Take
  <2>2. CASE Check(w)
    BY <1>t, <2>2 DEF Check, Skip, Accept, Jitter, JitterCancelled, Finish, GiveBack
  <2>3. CASE Answer(w)
    BY <1>t, <2>3 DEF Answer, ExecFoundGPUs, ExecFoundNone, LabelsThere, LabelRefused,
                      Identified, Exported, Answered, Settled, Finish, GiveBack
  <2>4. CASE Failure(w)
    BY <1>t, <2>4 DEF Failure, CallFailed, LabelGivenUp, LabelFailed, Finish, GiveBack
  <2>5. CASE Wake(w)
    BY <2>5 DEF Wake
  <2> QED
    BY <2>1, <2>2, <2>3, <2>4, <2>5 DEF Work
<1>1. OneHolder'
  <2> SUFFICES ASSUME NEW x \in Workers, NEW y \in Workers, uid'[x] = uid'[y], uid'[y] # None
               PROVE  x = y
    BY DEF OneHolder
  <2>1. \A v \in Workers \ {w} : uid'[v] = uid[v]
    BY <1>c DEF OthersStay
  <2>2. \A v, z \in Workers : uid[v] = uid[z] /\ uid[z] # None => v = z
    BY <1>i DEF OneHolder
  <2> QED
    BY <1>u, <2>1, <2>2
<1>2. ASSUME NEW v \in Workers, v # w PROVE Knows(v)'
  <2>1. pc'[v] = pc[v] /\ uid'[v] = uid[v] /\ entry'[v] = entry[v] /\ Knows(v)
    BY <1>c, <1>i, <1>2 DEF OthersStay
  <2>2. CASE pc[v] = "idle"
    BY <2>1, <2>2 DEF Knows, Pipeline, Steps, Calls
  <2>3. CASE pc[v] # "idle"
    <3>1. uid[v] \in UIDs
      BY <1>t, <2>3
    <3>2. uid[v] # uid[w]
      BY <1>i, <1>n, <1>2, <3>1 DEF OneHolder
    <3>3. sinceAdd'[uid[v]] = sinceAdd[uid[v]]
      <4>1. CASE UNCHANGED setVars
        BY <4>1 DEF setVars
      <4>2. CASE uid[w] \in UIDs /\ Add(uid[w])
        BY <1>t, <3>1, <3>2, <4>2 DEF Add
      <4> QED
        BY <1>c, <4>1, <4>2
    <3> QED
      BY <2>1, <3>3 DEF Knows
  <2> QED
    BY <2>2, <2>3
<1>3. Knows(w)'
  <2>f. ASSUME Finish(w) PROVE Knows(w)'
    <3>1. pc'[w] = "idle"
      BY <1>t, <2>f DEF Finish, GiveBack, Goto
    <3> QED
      BY <3>1 DEF Knows, Pipeline, Steps, Calls
  <2>g. ASSUME NEW step \in Pipeline, NEW next \in Pipeline, pc[w] = step, pc'[w] = next,
               uid' = uid, sinceAdd' = sinceAdd
        PROVE  Knows(w)'
    BY <1>k, <2>g DEF Knows, Pipeline
  <2>1. ASSUME NEW u \in UIDs, Take(w, u) PROVE Knows(w)'
    <3>1. uid'[w] = u /\ pc'[w] = "has" /\ entry'[w] = Entry(u) /\ sinceAdd' = sinceAdd
      BY <1>t, <2>1 DEF Take, Goto, setVars
    <3>2. Entry(u) = sinceAdd[u]
      BY <1>i DEF EntryIsLastAdd
    <3> QED
      BY <3>1, <3>2 DEF Knows, Pipeline
  <2>2. CASE Skip(w) \/ JitterCancelled(w)
    BY <2>2, <2>f DEF Skip, JitterCancelled
  <2>3. CASE Accept(w)
    <3>1. /\ pc[w] = "has" /\ pc'[w] = "jitter" /\ ~Fresh(entry[w])
          /\ uid' = uid /\ sinceAdd' = sinceAdd
      BY <1>t, <2>3 DEF Accept, Goto, setVars
    <3>2. uid[w] \in UIDs
      BY <1>t, <3>1
    <3>3. sinceAdd[uid[w]] \in 0 .. Never /\ ~(sinceAdd[uid[w]] <= CacheTTL)
      BY <1>k, <1>t, <3>1, <3>2 DEF Knows, Fresh
    <3>4. sinceAdd[uid[w]] = Never
      BY <1>n, <3>3 DEF Never
    <3> QED
      BY <3>1, <3>4 DEF Knows
  <2>4. CASE Jitter(w)
    <3>1. pc[w] = "jitter" /\ pc'[w] = "exec" /\ uid' = uid /\ sinceAdd' = sinceAdd
      BY <1>t, <2>4 DEF Jitter, Goto, setVars
    <3> QED
      BY <2>g, <3>1 DEF Pipeline, Steps, Calls
  <2>5. CASE Answer(w)
    <3>1. CASE ExecFoundNone(w) \/ Exported(w) \/ LabelRefused(w)
      BY <2>f, <3>1 DEF ExecFoundNone, Exported, LabelRefused, Settled
    <3>2. ASSUME NEW step, NEW next, Answered(w, step, next)
          PROVE  pc[w] = step /\ pc'[w] = next /\ uid' = uid /\ sinceAdd' = sinceAdd
      BY <1>t, <3>2 DEF Answered, Goto, setVars
    <3>3. CASE ExecFoundGPUs(w) \/ LabelsThere(w) \/ Identified(w)
      <4>1. /\ pc[w] \in Calls /\ pc'[w] \in Calls /\ uid' = uid /\ sinceAdd' = sinceAdd
        BY <3>2, <3>3 DEF ExecFoundGPUs, LabelsThere, Identified, Calls
      <4> QED
        BY <2>g, <4>1 DEF Pipeline, Steps, Calls
    <3> QED
      BY <2>5, <3>1, <3>3 DEF Answer
  <2>6. CASE CallFailed(w) \/ LabelGivenUp(w)
    BY <2>6, <2>f DEF CallFailed, LabelGivenUp
  <2>7. CASE LabelFailed(w) \/ Wake(w)
    <3>1. /\ pc[w] \in {"label", "sleep"} /\ pc'[w] \in {"label", "sleep"}
          /\ uid' = uid /\ sinceAdd' = sinceAdd
      BY <1>t, <2>7 DEF LabelFailed, Wake, Goto, setVars
    <3> QED
      BY <2>g, <3>1 DEF Pipeline, Steps, Calls
  <2> QED
    BY <2>1, <2>2, <2>3, <2>4, <2>5, <2>6, <2>7 DEF Work, Check, Failure
<1> QED
  BY <1>1, <1>2, <1>3

(* ------------------------- the clock and the rest ----------------------- *)

LEMMA TickTypes ==
  ASSUME IInv, Tick
  PROVE  TypeOK'
<1>t. TypeOK
  BY DEF IInv
<1>n. CacheTTL \in Nat /\ Slept \in [1 .. MaxRetries -> Nat] /\ MaxRetries \in Nat \ {0}
  BY BudgetOK, SetOK DEF BudgetOK, SetOK
<1>1. SetTypeOK'
  BY <1>t, SetTypesKept DEF SetStep, Tick, TypeOK
<1>2. entry' \in [Workers -> 0 .. Never]
  <2>1. ASSUME NEW t \in 0 .. Never PROVE Later(t) \in 0 .. Never
    BY <1>n, <2>1 DEF Later, Never
  <2> QED
    BY <1>t, <2>1 DEF Tick, TypeOK
<1>3. elapsed' \in [Workers -> Nat]
  BY <1>t DEF Tick, TypeOK
<1>4. left' \in [Workers -> Nat]
  <2> SUFFICES ASSUME NEW w \in Workers
               PROVE  (IF pc[w] = "sleep" THEN left[w] - 1 ELSE left[w]) \in Nat
    BY DEF Tick
  <2>1. left[w] \in Nat /\ (pc[w] = "sleep" => left[w] # 0)
    BY <1>t DEF Tick, TypeOK, Due
  <2> QED
    BY <2>1
<1>5. sinceCancel' \in 0 .. AllSleeps + 1
  <2>1. AllSleeps \in Nat /\ sinceCancel \in 0 .. AllSleeps + 1
    BY <1>n, <1>t DEF AllSleeps, TypeOK
  <2> QED
    BY <2>1 DEF Tick
<1> QED
  BY <1>1, <1>2, <1>3, <1>4, <1>5, <1>t DEF Tick, TypeOK

LEMMA TickSpends ==
  ASSUME IInv, Tick, NEW w \in Workers
  PROVE  Spent(w)'
<1>t. /\ elapsed[w] \in Nat /\ left[w] \in Nat /\ sinceCancel \in Nat
      /\ try[w] \in 1 .. MaxRetries /\ AllSleeps \in Nat
  <2>1. AllSleeps \in Nat
    BY BudgetOK DEF BudgetOK, AllSleeps
  <2> QED
    BY <2>1 DEF IInv, TypeOK
<1>s. Spent(w)
  BY DEF IInv
<1>n. /\ Timeout \in Nat /\ MaxRetries \in Nat \ {0}
      /\ \A i \in 1 .. MaxRetries : Slept[i] \in Nat /\ Slept[i] <= AllSleeps
  BY BudgetOK DEF BudgetOK, AllSleeps
<1>1. /\ pc'[w] = pc[w] /\ try'[w] = try[w] /\ ctxDone' = ctxDone /\ ~Due(w)
      /\ elapsed'[w] \in {elapsed[w], elapsed[w] + 1}
      /\ ~Held(w) => elapsed'[w] = elapsed[w]
      /\ left'[w] = IF pc[w] = "sleep" THEN left[w] - 1 ELSE left[w]
      /\ sinceCancel' \in {sinceCancel, sinceCancel + 1}
      /\ ~ctxDone => sinceCancel' = sinceCancel
  BY DEF Tick
<1>2. CASE pc[w] = "sleep"
  <2>1. /\ try[w] < MaxRetries /\ elapsed[w] + left[w] <= Timeout + Slept[try[w] + 1]
        /\ sinceCancel + left[w] <= Slept[try[w] + 1]
    BY <1>2, <1>s DEF Spent
  <2>2. elapsed'[w] \in {elapsed[w], elapsed[w] + 1} /\ left'[w] = left[w] - 1
    BY <1>1, <1>2
  <2>3. Slept[try[w] + 1] \in Nat
    BY <1>n, <1>t, <2>1
  <2>4. elapsed'[w] + left'[w] <= Timeout + Slept[try'[w] + 1]
    BY <1>n, <1>t, <1>1, <2>1, <2>2, <2>3
  <2>5. sinceCancel' + left'[w] <= Slept[try'[w] + 1]
    BY <1>t, <1>1, <2>1, <2>2, <2>3
  <2> QED
    BY <1>1, <1>2, <2>1, <2>4, <2>5 DEF Spent, Calls
<1>3. CASE pc[w] \in Calls
  <2>1. ~ctxDone /\ elapsed[w] < Timeout
    BY <1>1, <1>3, <1>n, <1>t DEF Due, Over
  <2>2. /\ elapsed'[w] \in {elapsed[w], elapsed[w] + 1}
        /\ sinceCancel' = sinceCancel /\ ~ctxDone'
    BY <1>1, <1>3, <2>1
  <2>3. elapsed'[w] <= Timeout /\ elapsed'[w] <= Timeout + Slept[try[w]]
    BY <1>n, <1>t, <2>1, <2>2
  <2> QED
    BY <1>1, <1>3, <1>s, <2>2, <2>3 DEF Spent, Calls
<1>4. CASE pc[w] \notin Calls \cup {"sleep"}
  <2>1. elapsed'[w] = elapsed[w]
    BY <1>1, <1>4 DEF Held
  <2> QED
    BY <1>1, <1>4, <1>s, <2>1 DEF Spent, Calls
<1> QED
  BY <1>2, <1>3, <1>4

LEMMA TickKnows ==
  ASSUME IInv, Tick
  PROVE  OneHolder' /\ \A v \in Workers : Knows(v)'
<1>1. OneHolder'
  BY DEF IInv, Tick, OneHolder
<1>2. ASSUME NEW v \in Workers PROVE Knows(v)'
  <2>1. /\ Knows(v) /\ uid' = uid /\ pc' = pc
        /\ entry'[v] = Later(entry[v])
    BY <1>2 DEF IInv, Tick
  <2>2. uid[v] \in UIDs => sinceAdd'[uid[v]] = Later(sinceAdd[uid[v]])
    BY DEF Tick, Elapse
  <2>3. pc[v] \in Pipeline \cup {"has"} => uid[v] \in UIDs
    BY <1>2 DEF IInv, TypeOK, Pipeline, Steps, Calls
  <2>4. Later(Never) = Never
    BY DEF Later
  <2> QED
    BY <2>1, <2>2, <2>3, <2>4 DEF Knows
<1> QED
  BY <1>1, <1>2

(* Nothing but the named variables changes. *)
LEMMA SweepAndCancelKeep ==
  ASSUME IInv, SweepLoop \/ Cancel \/ UNCHANGED vars
  PROVE  /\ OneHolder' /\ (ctxDone \/ sinceCancel = 0)'
         /\ \A w \in Workers : Spent(w)' /\ Knows(w)'
<1>1. /\ pc' = pc /\ uid' = uid /\ entry' = entry /\ elapsed' = elapsed /\ try' = try
      /\ left' = left /\ sinceCancel' = sinceCancel /\ sinceAdd' = sinceAdd
      /\ ctxDone => ctxDone'
      /\ ctxDone' => ctxDone \/ sinceCancel = 0
  <2>1. CASE SweepLoop
    BY <2>1 DEF SweepLoop, Sweep, workerVars, ctxVars
  <2>2. CASE Cancel
    BY <2>2 DEF Cancel, workerVars, setVars, IInv
  <2>3. CASE UNCHANGED vars
    BY <2>3 DEF vars, workerVars, ctxVars, setVars
  <2> QED
    BY <2>1, <2>2, <2>3
<1>2. OneHolder' /\ (ctxDone \/ sinceCancel = 0)'
  BY <1>1 DEF IInv, OneHolder
<1>3. ASSUME NEW w \in Workers PROVE Knows(w)'
  BY <1>1, <1>3 DEF IInv, Knows
<1>4. ASSUME NEW w \in Workers PROVE Spent(w)'
  BY <1>1, <1>4 DEF IInv, Spent
<1> QED
  BY <1>2, <1>3, <1>4

LEMMA Inductive ==
  ASSUME IInv, [Next]_vars
  PROVE  IInv'
<1>i. /\ TypeOK /\ EntryIsLastAdd /\ EntryLifetime /\ SetTypeOK
      /\ (ctxDone \/ sinceCancel = 0)
  BY DEF IInv, TypeOK
<1>0. ASSUME SetStep PROVE EntryIsLastAdd' /\ EntryLifetime'
  BY <1>0, <1>i, EntriesKept, LifetimeKept
<1>1. CASE Tick
  <2>1. SetStep /\ (ctxDone \/ sinceCancel = 0)'
    BY <1>1, <1>i DEF Tick, SetStep
  <2> QED
    BY <1>0, <1>1, <2>1, TickTypes, TickSpends, TickKnows DEF IInv
<1>2. CASE SweepLoop \/ Cancel \/ UNCHANGED vars
  <2>1. SetStep
    BY <1>2 DEF SweepLoop, Cancel, vars, SetStep
  <2>2. SetTypeOK'
    BY <1>i, <2>1, SetTypesKept
  <2>3. TypeOK'
    <3>1. CASE SweepLoop \/ UNCHANGED vars
      BY <1>i, <2>2, <3>1 DEF SweepLoop, vars, workerVars, ctxVars, TypeOK
    <3>2. CASE Cancel
      BY <1>i, <2>2, <3>2 DEF Cancel, workerVars, TypeOK
    <3> QED
      BY <1>2, <3>1, <3>2
  <2> QED
    BY <1>0, <1>2, <2>1, <2>3, SweepAndCancelKeep DEF IInv
<1>3. ASSUME NEW w \in Workers, Work(w) PROVE IInv'
  <2>1. SetStep /\ (ctxDone \/ sinceCancel = 0)'
    BY <1>3, <1>i, WorkIsLocal DEF SetStep, ctxVars
  <2> QED
    BY <1>0, <1>3, <2>1, WorkTypes, WorkSpends, WorkKnows DEF IInv
<1> QED
  BY <1>1, <1>2, <1>3 DEF Next

LEMMA InitHolds == Init => IInv
<1> SUFFICES ASSUME Init PROVE IInv
  OBVIOUS
<1>n. /\ CacheTTL \in Nat /\ SweepInterval \in Nat \ {0} /\ None \notin UIDs
      /\ MaxRetries \in Nat \ {0} /\ AllSleeps \in Nat
  BY BudgetOK, SetOK DEF BudgetOK, SetOK, AllSleeps
<1>1. TypeOK
  <2>1. SetTypeOK
    <3>1. Never \in 0 .. Never /\ 0 \in 0 .. SweepInterval /\ 0 \in Nat
      BY <1>n DEF Never
    <3> QED
      BY <3>1 DEF Init, EmptySet, SetTypeOK
  <2>2. /\ pc \in [Workers -> Steps] /\ uid \in [Workers -> UIDs \cup {None}]
        /\ elapsed \in [Workers -> Nat] /\ left \in [Workers -> Nat]
    BY DEF Init, Steps
  <2>3. entry \in [Workers -> 0 .. Never] /\ try \in [Workers -> 1 .. MaxRetries]
    <3>1. Never \in 0 .. Never /\ 1 \in 1 .. MaxRetries
      BY <1>n DEF Never
    <3> QED
      BY <3>1 DEF Init
  <2>4. ctxDone \in BOOLEAN /\ sinceCancel \in 0 .. AllSleeps + 1
    <3>1. 0 \in 0 .. AllSleeps + 1
      BY <1>n
    <3> QED
      BY <3>1 DEF Init
  <2>5. \A w \in Workers : uid[w] = None <=> pc[w] = "idle"
    BY DEF Init
  <2> QED
    BY <2>1, <2>2, <2>3, <2>4, <2>5 DEF TypeOK
<1>2. EntryIsLastAdd /\ EntryLifetime
  BY DEF Init, EmptySet, EntryIsLastAdd, EntryLifetime, Entry
<1>3. OneHolder /\ (ctxDone \/ sinceCancel = 0)
  BY DEF Init, OneHolder
<1>4. \A w \in Workers : Spent(w) /\ Knows(w)
  BY DEF Init, Spent, Knows, Calls, Pipeline, Steps
<1> QED
  BY <1>1, <1>2, <1>3, <1>4 DEF IInv

LEMMA Invariant == Spec => []IInv
<1>1. IInv /\ [Next]_vars => IInv'
  BY Inductive
<1> QED
  BY <1>1, InitHolds, PTL DEF Spec

(* ------------------------------ the results ----------------------------- *)

(* No variable of a worker or of the set of UIDs leaves its type, and no     *)
(* sleep or try is ever negative or beyond the last (worker.go, setter.go,   *)
(* label.go).                                                                *)
THEOREM BudgetTypes == Spec => []TypeOK
<1>1. IInv => TypeOK
  BY DEF IInv
<1> QED
  BY <1>1, Invariant, PTL

(* Whatever the ticker and the workers do, Has answers by the last Add: yes  *)
(* up to cacheTTL after it, no afterwards (setter.go:35-64).                 *)
THEOREM SetRemembers == Spec => []Remembers
<1>1. IInv => Remembers
  <2> SUFFICES ASSUME IInv, NEW u \in UIDs PROVE Fresh(Entry(u)) <=> sinceAdd[u] # Never
    BY DEF Remembers
  <2>1. Entry(u) = sinceAdd[u] /\ sinceAdd[u] \in 0 .. Never /\ CacheTTL \in Nat
    BY SetOK DEF SetOK, IInv, EntryIsLastAdd, TypeOK, SetTypeOK
  <2> QED
    BY <2>1 DEF Fresh, Never
<1> QED
  BY <1>1, Invariant, PTL

(* No entry outlives cacheTTL by more than a sweep interval (setter.go).     *)
THEOREM SetForgets == Spec => []EntryLifetime
<1>1. IInv => EntryLifetime
  BY DEF IInv
<1> QED
  BY <1>1, Invariant, PTL

(* The answer of Has stays right up to the mark, however long the calls and  *)
(* sleeps between the two take (worker.go:122-212).                          *)
THEOREM AnswerStaysRight == Spec => []StillDue
<1>1. IInv => StillDue
  BY DEF IInv, Knows, StillDue
<1> QED
  BY <1>1, Invariant, PTL

(* No pod holds a worker for more than its budget and the sleeps of          *)
(* EnsureLabels, whatever the number of tries (worker.go:135, label.go:110). *)
THEOREM BudgetAndSleeps == Spec => []HeldBounded
<1>1. IInv => HeldBounded
  <2> SUFFICES ASSUME IInv, NEW w \in Workers PROVE elapsed[w] <= Timeout + AllSleeps
    BY DEF HeldBounded, MaxHeld
  <2>1. Spent(w) /\ pc[w] \in Steps /\ try[w] \in 1 .. MaxRetries /\ elapsed[w] \in Nat
        /\ left[w] \in Nat
    BY DEF IInv, TypeOK
  <2>2. /\ Timeout \in Nat /\ MaxRetries \in Nat \ {0} /\ AllSleeps \in Nat
        /\ \A i \in 1 .. MaxRetries : Slept[i] \in Nat /\ Slept[i] <= AllSleeps
    BY BudgetOK DEF BudgetOK, AllSleeps
  <2>3. CASE pc[w] = "sleep"
    <3>1. try[w] + 1 \in 1 .. MaxRetries /\ elapsed[w] + left[w] <= Timeout + Slept[try[w] + 1]
      BY <2>1, <2>2, <2>3 DEF Spent
    <3>2. Slept[try[w] + 1] \in Nat /\ Slept[try[w] + 1] <= AllSleeps
      BY <2>2, <3>1
    <3> QED
      BY <2>1, <2>2, <3>1, <3>2
  <2>4. CASE pc[w] = "label"
    <3>1. elapsed[w] <= Timeout + Slept[try[w]]
      BY <2>1, <2>4 DEF Spent
    <3>2. Slept[try[w]] \in Nat /\ Slept[try[w]] <= AllSleeps
      BY <2>1, <2>2
    <3> QED
      BY <2>1, <2>2, <3>1, <3>2
  <2>5. CASE pc[w] \notin {"label", "sleep"}
    <3>1. elapsed[w] <= Timeout
      BY <2>1, <2>2, <2>5 DEF Spent, Calls, Steps
    <3> QED
      BY <2>1, <2>2, <3>1
  <2> QED
    BY <2>3, <2>4, <2>5
<1> QED
  BY <1>1, Invariant, PTL

(* Once the sleeps are over, a cancelled process is past every call that     *)
(* comes after them (service.go:321, label.go:110-135).                      *)
THEOREM SleepsAndOut == Spec => []DrainBounded
<1>1. IInv => DrainBounded
  <2> SUFFICES ASSUME IInv, NEW w \in Workers, sinceCancel > AllSleeps
               PROVE  pc[w] \notin {"label", "sleep", "identify", "export"}
    BY DEF DrainBounded
  <2>1. /\ Spent(w) /\ try[w] \in 1 .. MaxRetries /\ left[w] \in Nat
        /\ sinceCancel \in 0 .. AllSleeps + 1
    BY DEF IInv, TypeOK
  <2>2. /\ MaxRetries \in Nat \ {0} /\ AllSleeps \in Nat
        /\ \A i \in 1 .. MaxRetries : Slept[i] \in Nat /\ Slept[i] <= AllSleeps
    BY BudgetOK DEF BudgetOK, AllSleeps
  <2>3. pc[w] # "sleep"
    <3> SUFFICES ASSUME pc[w] = "sleep" PROVE FALSE
      OBVIOUS
    <3>1. try[w] + 1 \in 1 .. MaxRetries /\ sinceCancel + left[w] <= Slept[try[w] + 1]
      BY <2>1, <2>2 DEF Spent
    <3> QED
      BY <2>1, <2>2, <3>1
  <2>4. pc[w] # "label"
    BY <2>1, <2>2 DEF Spent
  <2>5. pc[w] \notin {"identify", "export"}
    BY <2>1, <2>2 DEF Spent
  <2> QED
    BY <2>3, <2>4, <2>5
<1> QED
  BY <1>1, Invariant, PTL
================================================================================
