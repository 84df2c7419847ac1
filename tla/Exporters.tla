------------------------------ MODULE Exporters ------------------------------
(***************************************************************************)
(* Exporter.Export (pkg/runner/export.go) and the Write of each backend    *)
(* (pkg/exporters): many workers, of one process or of several, export     *)
(* batches at the same time while requests fail or arrive when nobody      *)
(* waits any more, answers are lost, the exporter is closed under the      *)
(* workers and the processes are killed.  Backend says what a caller may   *)
(* rely on in any of them.                                                 *)
(***************************************************************************)
EXTENDS Naturals, FiniteSets

CONSTANTS
  Writers,       \* workers
  Kinds,         \* kinds of backend
  Listings,      \* sets of pairs of chassis and GPU serial numbers
  Empty,         \* the empty serial number
  MaxOpenConns,  \* SetMaxOpenConns
  MaxCalls,      \* bound on calls of Export
  MaxTime,       \* bound on the clock, in milliseconds
  MaxCrashes     \* bound on kills

ASSUME ExportersOK ==
  /\ Kinds \subseteq {"stdout", "http", "s3", "postgres"}
  /\ MaxOpenConns \in Nat \ {0}
  /\ MaxCalls \in Nat
  /\ MaxTime \in Nat
  /\ MaxCrashes \in Nat
  /\ IsFiniteSet(Writers)

VARIABLES
  kind,     \* the backend in use
  now,      \* the wall clock, in milliseconds
  pc,       \* [Writers -> "idle" and the steps of Write]
  call,     \* [Writers -> the call in progress or the last one, 0: none]
  left,     \* [Writers -> records not yet printed or buffered]
  inUse,    \* connections the pool has lent
  closed,   \* Close was called
  begun,    \* calls of Export so far
  batch,    \* [1 .. MaxCalls -> records of the call]
  stamp,    \* [1 .. MaxCalls -> millisecond in its S3 key]
  answer,   \* [1 .. MaxCalls -> what Export returned]
  store,    \* what the backend holds: records of a call, at a place
  flight,   \* calls whose request is under way, with nobody waiting for it
  crashes   \* kills so far

callVars == <<pc, call, left>>
logVars  == <<begun, batch, stamp>>
vars     == <<kind, now, callVars, inUse, closed, logVars, answer, store, flight, crashes>>

Calls == 1 .. MaxCalls

(* The records of call n among those of S, and those the backend has. *)
KeptIn(S, n) == {s.record : s \in {t \in S : t.call = n}}

Kept(n) == KeptIn(store, n)

(* What call n writes at a place; only S3 has places, the object keys. *)
Rows(n, records, place) == {[call |-> n, record |-> r, at |-> place] : r \in records}

Init ==
  /\ kind \in Kinds
  /\ now = 0
  /\ pc = [w \in Writers |-> "idle"]
  /\ call = [w \in Writers |-> 0]
  /\ left = [w \in Writers |-> {}]
  /\ inUse = 0
  /\ closed = FALSE
  /\ begun = 0
  /\ batch = [n \in Calls |-> {}]
  /\ stamp = [n \in Calls |-> 0]
  /\ answer = [n \in Calls |-> "none"]
  /\ store = {}
  /\ flight = {}
  /\ crashes = 0

(* Units without chassis are skipped, and so is a GPU without serial. *)
Records(listing) == {r \in listing : r[1] # Empty /\ r[2] # Empty}

(* Where the Write of each kind of backend begins. *)
Entries ==
  {<<"stdout", "print">>, <<"http", "post">>, <<"s3", "put">>, <<"postgres", "begin">>}

(* A batch without records is a success that writes nothing; Write takes    *)
(* the time for the S3 key first.                                           *)
Export(w, listing) ==
  /\ pc[w] = "idle"
  /\ begun < MaxCalls
  /\ begun' = begun + 1
  /\ batch' = [batch EXCEPT ![begun + 1] = Records(listing)]
  /\ call' = [call EXCEPT ![w] = begun + 1]
  /\ left' = [left EXCEPT ![w] = Records(listing)]
  /\ stamp' = [stamp EXCEPT ![begun + 1] = now]
  /\ IF Records(listing) = {}
     THEN answer' = [answer EXCEPT ![begun + 1] = "ok"] /\ UNCHANGED pc
     ELSE /\ \E entry \in Entries : entry[1] = kind /\ pc' = [pc EXCEPT ![w] = entry[2]]
          /\ UNCHANGED answer
  /\ UNCHANGED <<kind, now, inUse, closed, store, flight, crashes>>

(* Export returns. *)
End(w, result) ==
  /\ pc' = [pc EXCEPT ![w] = "idle"]
  /\ answer' = [answer EXCEPT ![call[w]] = result]
  /\ left' = [left EXCEPT ![w] = {}]
  /\ UNCHANGED call

-----------------------------------------------------------------------------
(* stdout: one line per record, errors of the log handler are not seen. *)

PrintLine(w, r) ==
  /\ pc[w] = "print"
  /\ r \in left[w]
  /\ left' = [left EXCEPT ![w] = @ \ {r}]
  /\ store' = store \cup Rows(call[w], {r}, 0)
  /\ UNCHANGED <<kind, now, pc, call, inUse, closed, logVars, answer, flight, crashes>>

PrintDone(w) ==
  /\ pc[w] = "print"
  /\ left[w] = {}
  /\ End(w, "ok")
  /\ UNCHANGED <<kind, now, inUse, closed, logVars, store, flight, crashes>>

-----------------------------------------------------------------------------
(* The others send the batch with one request.                               *)

(* The store when it has taken call n: what was under its S3 key is replaced. *)
Taken(n) ==
  IF kind = "s3"
  THEN {s \in store : s.at # stamp[n]} \cup Rows(n, batch[n], stamp[n])
  ELSE store \cup Rows(n, batch[n], 0)

(* Mutant: any answer is taken for success. *)
RequestUnchecked(w, fate, ok) ==
  /\ ok => fate = "arrives"
  /\ store' = IF fate = "arrives" THEN Taken(call[w]) ELSE store
  /\ flight' = IF fate = "late" THEN flight \cup {call[w]} ELSE flight
  /\ End(w, "ok")

(* Mutant: the request is sent again when no answer comes. *)
RequestRepeated(w, fate, ok) ==
  /\ ok => fate = "arrives"
  /\ store' = IF fate = "arrives" THEN Taken(call[w]) ELSE store
  /\ flight' = IF ok THEN flight ELSE flight \cup {call[w]}
  /\ End(w, IF ok THEN "ok" ELSE "error")

(* It arrives and is answered, well or with an error or too late; it is      *)
(* lost; or it arrives after the caller has given up.                        *)
Request(w, fate, ok) ==
  /\ ok => fate = "arrives"
  /\ store' = IF fate = "arrives" THEN Taken(call[w]) ELSE store
  /\ flight' = IF fate = "late" THEN flight \cup {call[w]} ELSE flight
  /\ End(w, IF ok THEN "ok" ELSE "error")

(* http *)
Post(w, fate, ok) ==
  /\ pc[w] = "post"
  /\ Request(w, fate, ok)
  /\ UNCHANGED <<kind, now, inUse, closed, logVars, crashes>>

(* s3: one object per Write, its key the time to the millisecond. *)
PutObject(w, fate, ok) ==
  /\ pc[w] = "put"
  /\ Request(w, fate, ok)
  /\ UNCHANGED <<kind, now, inUse, closed, logVars, crashes>>

-----------------------------------------------------------------------------
(* postgres: COPY inside a transaction, which holds a connection. *)

(* Mutant: the pool has no limit. *)
BeginTxUnlimited(w) ==
  /\ pc[w] = "begin"
  /\ ~closed
  /\ inUse' = inUse + 1
  /\ pc' = [pc EXCEPT ![w] = "copy"]
  /\ UNCHANGED <<kind, now, call, left, closed, logVars, answer, store, flight, crashes>>

BeginTx(w) ==
  /\ pc[w] = "begin"
  /\ ~closed
  /\ inUse < MaxOpenConns
  /\ inUse' = inUse + 1
  /\ pc' = [pc EXCEPT ![w] = "copy"]
  /\ UNCHANGED <<kind, now, call, left, closed, logVars, answer, store, flight, crashes>>

(* The database is closed, does not answer, or no connection came in time. *)
BeginFailed(w) ==
  /\ pc[w] = "begin"
  /\ End(w, "error")
  /\ UNCHANGED <<kind, now, inUse, closed, logVars, store, flight, crashes>>

(* Mutant: the rows are inserted outside the transaction. *)
BufferOutside(w, r) ==
  /\ pc[w] = "copy"
  /\ r \in left[w]
  /\ left' = [left EXCEPT ![w] = @ \ {r}]
  /\ store' = store \cup Rows(call[w], {r}, 0)
  /\ UNCHANGED <<kind, now, pc, call, inUse, closed, logVars, answer, flight, crashes>>

Buffer(w, r) ==
  /\ pc[w] = "copy"
  /\ r \in left[w]
  /\ left' = [left EXCEPT ![w] = @ \ {r}]
  /\ UNCHANGED <<kind, now, pc, call, inUse, closed, logVars, answer, store, flight, crashes>>

(* The last Exec flushes, the statement is closed. *)
Flush(w) ==
  /\ pc[w] = "copy"
  /\ left[w] = {}
  /\ pc' = [pc EXCEPT ![w] = "commit"]
  /\ UNCHANGED <<kind, now, call, left, inUse, closed, logVars, answer, store, flight, crashes>>

(* Mutant: returns without the deferred rollback. *)
CopyFailedOpen(w) ==
  /\ pc[w] = "copy"
  /\ End(w, "error")
  /\ UNCHANGED <<kind, now, inUse, closed, logVars, store, flight, crashes>>

(* Prepare, Exec or Close failed: the deferred Rollback. *)
CopyFailed(w) ==
  /\ pc[w] = "copy"
  /\ inUse' = inUse - 1
  /\ End(w, "error")
  /\ UNCHANGED <<kind, now, closed, logVars, store, flight, crashes>>

(* The COPY is flushed: the transaction is the batch. *)
Commit(w, fate, ok) ==
  /\ pc[w] = "commit"
  /\ inUse' = inUse - 1
  /\ Request(w, fate, ok)
  /\ UNCHANGED <<kind, now, closed, logVars, crashes>>

(* A request arrives that nobody waits for any more. *)
Arrive(n) ==
  /\ n \in flight
  /\ flight' = flight \ {n}
  /\ store' = Taken(n)
  /\ UNCHANGED <<kind, now, callVars, inUse, closed, logVars, answer, crashes>>

-----------------------------------------------------------------------------
(* Run closes the exporter, with leader election while workers may still be  *)
(* at work: a closed sql.DB lends no connection, the transactions go on.     *)
Close ==
  /\ ~closed
  /\ closed' = TRUE
  /\ UNCHANGED <<kind, now, callVars, inUse, logVars, answer, store, flight, crashes>>

(* What the writers have sent when they die may be under way. *)
Sent == {call[w] : w \in {v \in Writers : pc[v] \in {"post", "put", "commit"}}}

(* All writers die; others start with an exporter of their own.  A           *)
(* transaction that is not asked to commit is rolled back by the server.     *)
Crash ==
  /\ crashes < MaxCrashes
  /\ crashes' = crashes + 1
  /\ pc' = [w \in Writers |-> "idle"]
  /\ call' = [w \in Writers |-> 0]
  /\ left' = [w \in Writers |-> {}]
  /\ inUse' = 0
  /\ closed' = FALSE
  /\ \E S \in SUBSET Sent : flight' = flight \cup S
  /\ UNCHANGED <<kind, now, logVars, answer, store>>

Tick ==
  /\ now < MaxTime
  /\ now' = now + 1
  /\ UNCHANGED <<kind, callVars, inUse, closed, logVars, answer, store, flight, crashes>>

Fates == {"arrives", "late", "lost"}

Next ==
  \/ \E w \in Writers :
       \/ \E listing \in Listings : Export(w, listing)
       \/ \E r \in left[w] : PrintLine(w, r) \/ Buffer(w, r)
       \/ PrintDone(w)
       \/ \E fate \in Fates, ok \in BOOLEAN :
            Post(w, fate, ok) \/ PutObject(w, fate, ok) \/ Commit(w, fate, ok)
       \/ BeginTx(w) \/ BeginFailed(w) \/ Flush(w) \/ CopyFailed(w)
  \/ \E n \in flight : Arrive(n)
  \/ Close
  \/ Crash
  \/ Tick

Spec == Init /\ [][Next]_vars

-----------------------------------------------------------------------------
Steps == {"idle", "print", "post", "put", "begin", "copy", "commit"}

CallsTypeOK ==
  /\ kind \in Kinds
  /\ now \in 0 .. MaxTime
  /\ pc \in [Writers -> Steps]
  /\ call \in [Writers -> 0 .. MaxCalls]
  /\ left \in [Writers -> SUBSET UNION Listings]
  /\ begun \in 0 .. MaxCalls
  /\ batch \in [Calls -> SUBSET UNION Listings]
  /\ stamp \in [Calls -> 0 .. MaxTime]
  /\ answer \in [Calls -> {"none", "ok", "error"}]
  /\ store \subseteq [call : Calls, record : UNION Listings, at : 0 .. MaxTime]
  /\ flight \subseteq Calls
  /\ crashes \in 0 .. MaxCrashes

(* Every variable stays in its range (export.go:120-201); the pool lends no  *)
(* more connections than it has (postgres/exporter.go:88).                   *)
TypeOK ==
  /\ CallsTypeOK
  /\ inUse \in 0 .. MaxOpenConns
  /\ closed \in BOOLEAN

(* Whatever fails, dies or is retried, the table never shows a part of a     *)
(* batch (postgres/exporter.go:123-181), nor a bucket or an http endpoint.   *)
AllOrNothing ==
  kind # "stdout" => \A n \in Calls : Kept(n) \in {{}, batch[n]}

(* A batch whose export was answered with success, and whose pod is then     *)
(* marked processed, is in the backend and stays there (worker.go:198-212);  *)
(* in S3 unless another batch has the key of the same millisecond.           *)
AcknowledgedIsKept ==
  \A n \in Calls :
    answer[n] = "ok" =>
      \/ Kept(n) = batch[n]
      \/ kind = "s3" /\ \E m \in Calls \ {n} : stamp[m] = stamp[n] /\ Kept(m) # {}

InTransaction == {w \in Writers : pc[w] \in {"copy", "commit"}}

(* Each path of Write gives its connection back: one that is kept is lost    *)
(* to a pool of 25 for good (postgres/exporter.go:88, 128-135).              *)
ConnectionsReturned == inUse = Cardinality(InTransaction)

-----------------------------------------------------------------------------
(* What a caller sees of it. *)

Asked == {call[w] : w \in {v \in Writers : pc[v] # "idle"}}

Whole == {n \in 1 .. begun : batch[n] # {} /\ Kept(n) = batch[n]}

Pending == (Asked \ Whole) \cup flight

(* In S3 two batches may have one place. *)
Place == [n \in Calls |-> IF kind = "s3" THEN stamp[n] ELSE MaxTime + n]

Service == INSTANCE Backend WITH
  Calls <- Calls,
  Places <- 0 .. (MaxTime + MaxCalls),
  given <- 1 .. begun,
  waiting <- Asked,
  pending <- Pending,
  place <- Place,
  held <- Whole,
  answer <- answer

(* Every backend, whatever fails, arrives late or dies, is one that takes a  *)
(* batch at most once and whole, answers success only for a batch it took,   *)
(* and drops one only for another in its place (export.go:120-201).          *)
ImplementsBackend == Service!Spec

-----------------------------------------------------------------------------
(* Parts of the inductive invariant. *)

Busy(w) == pc[w] # "idle"

(* A worker is at a step of the backend in use. *)
StepsOfKind ==
  \A w \in Writers :
    /\ pc[w] = "print" => kind = "stdout"
    /\ pc[w] = "post" => kind = "http"
    /\ pc[w] = "put" => kind = "s3"
    /\ pc[w] \in {"begin", "copy", "commit"} => kind = "postgres"

(* A call in progress is one worker's, is not answered, and has written what *)
(* is no longer left: line by line to stdout, nothing to the others.         *)
InProgress ==
  /\ \A w \in Writers :
       Busy(w) =>
         /\ call[w] \in 1 .. begun
         /\ answer[call[w]] = "none"
         /\ left[w] \subseteq batch[call[w]]
         /\ batch[call[w]] # {}
         /\ Kept(call[w]) = IF kind = "stdout" THEN batch[call[w]] \ left[w] ELSE {}
         /\ pc[w] = "commit" => left[w] = {}
  /\ \A v, w \in Writers : Busy(v) /\ Busy(w) /\ call[v] = call[w] => v = w

(* A call that is still to come has left nothing. *)
StillToCome ==
  \A n \in Calls : n > begun => answer[n] = "none" /\ batch[n] = {} /\ Kept(n) = {}

(* A request that is under way for nobody has not arrived; its call was not  *)
(* a success and is no worker's.                                             *)
UnderWay ==
  \A n \in flight :
    /\ n \in 1 .. begun /\ answer[n] # "ok" /\ batch[n] # {} /\ Kept(n) = {}
    /\ kind # "stdout"
    /\ \A w \in Writers : Busy(w) => call[w] # n

(* A record lies under the key of its call, in S3. *)
Placed == \A s \in store : kind = "s3" => s.at = stamp[s.call]

-----------------------------------------------------------------------------
(* What the repository says and the code does not do. *)

(* "Writes one CSV object per export batch" (README.md:126): a batch that    *)
(* was acknowledged is the content of some object (s3/exporter.go:91-127).   *)
OneObjectPerBatch ==
  \A n \in Calls :
    answer[n] = "ok" /\ batch[n] # {} =>
      \E place \in 0 .. MaxTime : {s \in store : s.at = place} = Rows(n, batch[n], place)
==============================================================================
