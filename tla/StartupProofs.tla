------------------------------ MODULE StartupProofs ----------------------------
(***************************************************************************)
(* Proofs about Startup, for every environment, number of replicas and     *)
(* length of the schema.                                                   *)
(***************************************************************************)
EXTENDS Startup, TLAPS

(* What has been checked on the way to a place. *)
Passed(p) ==
  /\ pc[p] \notin {"load", "exited"} => ~Unparsable(env)
  /\ pc[p] \notin {"load", "validate", "exited"} => Valid(env)
  /\ pc[p] \in {"ping", "schema"} => UsesDatabase(env)
  /\ pc[p] \in {"ping", "schema", "client", "elect", "work", "drain"} => ExporterValid(env)
  /\ pc[p] \in {"elect", "work", "drain"} => ClientBuilt(env) /\ SelectorParses(env)
  /\ pc[p] = "work" => ElectorAccepts(env)
  /\ pc[p] = "schema" => Migrates(env) /\ contacted

Migrated == {"client", "elect", "work", "drain"}

(* How far the schema is: every statement before the one p is at is done. *)
Applied(p) ==
  /\ pc[p] \notin {"schema", "exited"} => step[p] = 1
  /\ pc[p] = "schema" => \A n \in 1 .. step[p] - 1 : n \in schema
  /\ Migrates(env) /\ pc[p] \in Migrated => \A n \in 1 .. Statements : n \in schema

IInv ==
  /\ TypeOK
  /\ ValidatedBeforeContact
  /\ \A p \in Procs : Passed(p) /\ Applied(p)

LEMMA SameSettings ==
  ASSUME env' = env
  PROVE  /\ (Unparsable(env))' <=> Unparsable(env)
         /\ (Valid(env))' <=> Valid(env)
         /\ (ExporterValid(env))' <=> ExporterValid(env)
         /\ (PostgresValid(env))' <=> PostgresValid(env)
         /\ (ClientBuilt(env))' <=> ClientBuilt(env)
         /\ (SelectorParses(env))' <=> SelectorParses(env)
         /\ (ElectorAccepts(env))' <=> ElectorAccepts(env)
         /\ (UsesDatabase(env))' <=> UsesDatabase(env)
         /\ (Migrates(env))' <=> Migrates(env)
BY Zenon

(* What a step of p does to the others, and to what they share. *)
Others(p) ==
  /\ env' = env
  /\ schema \subseteq schema'
  /\ contacted => contacted'
  /\ \A q \in Procs \ {p} : pc'[q] = pc[q] /\ step'[q] = step[q]

LEMMA OthersKeep ==
  ASSUME IInv, NEW p \in Procs, NEW q \in Procs, q # p, Others(p)
  PROVE  Passed(q)' /\ Applied(q)'
<1>1. /\ pc'[q] = pc[q] /\ step'[q] = step[q] /\ env' = env
      /\ schema \subseteq schema'
      /\ contacted => contacted'
  BY DEF Others
<1>2. Passed(q) /\ Applied(q)
  BY DEF IInv
<1>3. Passed(q)'
  BY <1>1, <1>2, SameSettings DEF Passed
<1>4. Applied(q)'
  BY <1>1, <1>2, SameSettings DEF Applied, Migrated
<1> QED
  BY <1>3, <1>4

(* A step from a place to the next one, or out of Run. *)
LEMMA GoesTypes ==
  ASSUME TypeOK, NEW p \in Procs, NEW from \in Places \ {"schema"}, NEW to \in Places,
         NEW ok \in BOOLEAN, Goes(p, from, ok, to)
  PROVE  /\ TypeOK' /\ Others(p) /\ schema' = schema /\ contacted' = contacted
         /\ step' = step /\ pc[p] = from
         /\ pc'[p] = IF ok THEN to ELSE "exited"
<1>1. /\ pc[p] = from /\ pc' = [pc EXCEPT ![p] = IF ok THEN to ELSE "exited"]
      /\ env' = env /\ step' = step /\ inFlight' = inFlight /\ schema' = schema
      /\ contacted' = contacted /\ dbUp' = dbUp /\ outages' = outages /\ kills' = kills
  BY DEF Goes, dbVars
<1>2. pc' \in [Procs -> Places] /\ pc'[p] = (IF ok THEN to ELSE "exited")
  BY <1>1 DEF TypeOK, Places
<1>3. \A q \in Procs \ {p} : pc'[q] = pc[q]
  BY <1>1 DEF TypeOK
<1>4. \A q \in Procs : inFlight'[q] => pc'[q] = "schema"
  BY <1>1, <1>3 DEF TypeOK
<1>5. TypeOK'
  BY <1>1, <1>2, <1>4 DEF TypeOK
<1> QED
  BY <1>1, <1>2, <1>3, <1>5 DEF Others

LEMMA GoesKeeps ==
  ASSUME IInv, NEW p \in Procs, NEW from \in Places \ {"schema"}, NEW to \in Places,
         NEW ok \in BOOLEAN, Goes(p, from, ok, to),
         ok => Passed(p)' /\ Applied(p)'
  PROVE  IInv'
<1>1. /\ TypeOK' /\ Others(p) /\ schema' = schema /\ contacted' = contacted
      /\ pc'[p] = (IF ok THEN to ELSE "exited")
  BY GoesTypes DEF IInv
<1>2. env' = env
  BY <1>1 DEF Others
<1>3. ValidatedBeforeContact'
  BY <1>1, <1>2, SameSettings DEF IInv, ValidatedBeforeContact
<1>4. CASE ~ok
  <2>1. Passed(p)' /\ Applied(p)'
    BY <1>1, <1>4 DEF Passed, Applied, Migrated
  <2> QED
    BY <1>1, <1>3, <2>1, OthersKeep DEF IInv
<1>5. CASE ok
  BY <1>1, <1>3, <1>5, OthersKeep DEF IInv
<1> QED
  BY <1>4, <1>5

(* A step of p that keeps to the schema: what is left to show of it. *)
LEMMA StepKeeps ==
  ASSUME IInv, NEW p \in Procs, Others(p), TypeOK', Passed(p)', Applied(p)',
         schema' # {} => contacted' /\ Migrates(env),
         contacted' => ~Unparsable(env) /\ Valid(env) /\ PostgresValid(env)
  PROVE  IInv'
<1>1. env' = env
  BY DEF Others
<1>2. ValidatedBeforeContact'
  BY <1>1, SameSettings DEF ValidatedBeforeContact
<1> QED
  BY <1>2, OthersKeep DEF IInv

LEMMA RestartKeeps ==
  ASSUME IInv, NEW p \in Procs, Restart(p)
  PROVE  IInv'
<1>1. /\ pc[p] = "exited" /\ pc' = [pc EXCEPT ![p] = "load"]
      /\ step' = [step EXCEPT ![p] = 1]
      /\ env' = env /\ inFlight' = inFlight /\ schema' = schema /\ contacted' = contacted
      /\ dbUp' = dbUp /\ outages' = outages /\ kills' = kills
  BY DEF Restart, dbVars
<1>2. 1 \in 1 .. Statements
  BY StartupOK DEF StartupOK
<1>3. pc'[p] = "load" /\ step'[p] = 1
  BY <1>1 DEF IInv, TypeOK
<1>4. Others(p)
  BY <1>1 DEF Others, IInv, TypeOK
<1>5. TypeOK'
  <2>1. pc' \in [Procs -> Places] /\ step' \in [Procs -> 1 .. Statements]
    BY <1>1, <1>2 DEF IInv, TypeOK, Places
  <2>2. \A q \in Procs : inFlight'[q] => pc'[q] = "schema"
    BY <1>1 DEF IInv, TypeOK
  <2> QED
    BY <1>1, <2>1, <2>2 DEF IInv, TypeOK
<1>6. Passed(p)' /\ Applied(p)'
  BY <1>3 DEF Passed, Applied, Migrated
<1> QED
  BY <1>1, <1>4, <1>5, <1>6, StepKeeps DEF IInv, ValidatedBeforeContact

LEMMA PingKeeps ==
  ASSUME IInv, NEW p \in Procs, Ping(p)
  PROVE  IInv'
<1>1. /\ pc[p] = "ping" /\ pc' = [pc EXCEPT ![p] = IF Migrates(env) THEN "schema" ELSE "client"]
      /\ env' = env /\ step' = step /\ inFlight' = inFlight /\ schema' = schema
      /\ contacted' = TRUE /\ dbUp' = dbUp /\ outages' = outages /\ kills' = kills
  BY DEF Ping
<1>2. ~Unparsable(env) /\ Valid(env) /\ ExporterValid(env) /\ UsesDatabase(env)
  BY <1>1 DEF IInv, Passed
<1>3. PostgresValid(env)
  BY <1>2 DEF ExporterValid, UsesDatabase
<1>4. pc'[p] = (IF Migrates(env) THEN "schema" ELSE "client") /\ step[p] = 1
  BY <1>1 DEF IInv, TypeOK, Applied
<1>5. Others(p)
  BY <1>1 DEF Others, IInv, TypeOK
<1>6. TypeOK'
  <2>1. pc' \in [Procs -> Places]
    BY <1>1 DEF IInv, TypeOK, Places
  <2>2. \A q \in Procs : inFlight'[q] => pc'[q] = "schema"
    BY <1>1 DEF IInv, TypeOK
  <2> QED
    BY <1>1, <2>1, <2>2 DEF IInv, TypeOK
<1>7. Passed(p)'
  BY <1>1, <1>2, <1>4, SameSettings DEF Passed
<1>8. Applied(p)'
  BY <1>1, <1>4, SameSettings DEF Applied, Migrated
<1> QED
  BY <1>1, <1>2, <1>3, <1>5, <1>6, <1>7, <1>8, StepKeeps DEF IInv, ValidatedBeforeContact

(* A statement is done, or is found done; it is in the schema then. *)
LEMMA AdvanceKeeps ==
  ASSUME IInv, NEW p \in Procs, pc[p] = "schema", Advance(p), env' = env,
         schema' \in SUBSET (1 .. Statements), schema \subseteq schema', step[p] \in schema',
         contacted' = contacted, dbUp' = dbUp, outages' = outages, kills' = kills,
         inFlight' \in [Procs -> BOOLEAN], ~inFlight'[p],
         \A q \in Procs \ {p} : inFlight'[q] = inFlight[q]
  PROVE  IInv'
<1>n. Statements \in Nat \ {0}
  BY StartupOK DEF StartupOK
<1>1. step[p] \in 1 .. Statements /\ \A n \in 1 .. step[p] - 1 : n \in schema
  BY DEF IInv, TypeOK, Applied
<1>2. /\ pc'[p] = (IF step[p] = Statements THEN "client" ELSE "schema")
      /\ step'[p] = (IF step[p] = Statements THEN 1 ELSE step[p] + 1)
      /\ pc' \in [Procs -> Places]
  BY DEF Advance, IInv, TypeOK, Places
<1>3. step' \in [Procs -> 1 .. Statements]
  <2>1. (IF step[p] = Statements THEN 1 ELSE step[p] + 1) \in 1 .. Statements
    BY <1>n, <1>1
  <2> QED
    BY <2>1 DEF Advance, IInv, TypeOK
<1>4. Others(p)
  BY DEF Others, Advance, IInv, TypeOK
<1>5. TypeOK'
  <2>1. ASSUME NEW q \in Procs, inFlight'[q] PROVE pc'[q] = "schema"
    BY <2>1, <1>4 DEF Others, IInv, TypeOK
  <2> QED
    BY <1>2, <1>3, <2>1 DEF IInv, TypeOK
<1>6. /\ ~Unparsable(env) /\ Valid(env) /\ ExporterValid(env) /\ UsesDatabase(env)
      /\ Migrates(env) /\ contacted
  BY DEF IInv, Passed
<1>7. Passed(p)'
  BY <1>2, <1>6, SameSettings DEF Passed
<1>8. Applied(p)'
  <2>1. CASE step[p] = Statements
    <3>1. \A n \in 1 .. Statements : n \in schema'
      BY <1>n, <1>1, <2>1
    <3> QED
      BY <1>2, <2>1, <3>1 DEF Applied
  <2>2. CASE step[p] # Statements
    <3>1. \A n \in 1 .. step'[p] - 1 : n \in schema'
      BY <1>n, <1>1, <1>2, <2>2
    <3> QED
      BY <1>2, <2>2, <3>1 DEF Applied, Migrated
  <2> QED
    BY <2>1, <2>2
<1> QED
  BY <1>4, <1>5, <1>6, <1>7, <1>8, StepKeeps DEF IInv, ValidatedBeforeContact

LEMMA StatementsKeep ==
  ASSUME IInv, NEW p \in Procs, Skip(p) \/ Create(p)
  PROVE  IInv'
<1>1. CASE Skip(p)
  <2>1. /\ pc[p] = "schema" /\ ~inFlight[p] /\ step[p] \in schema /\ Advance(p)
        /\ env' = env /\ inFlight' = inFlight /\ schema' = schema /\ contacted' = contacted
        /\ dbUp' = dbUp /\ outages' = outages /\ kills' = kills
    BY <1>1 DEF Skip, AtStatement, dbVars
  <2>2. schema \in SUBSET (1 .. Statements) /\ inFlight \in [Procs -> BOOLEAN]
    BY DEF IInv, TypeOK
  <2> QED
    BY <2>1, <2>2, AdvanceKeeps
<1>2. CASE Create(p)
  <2>1. /\ pc[p] = "schema" /\ Advance(p) /\ schema' = schema \cup {step[p]}
        /\ inFlight' = [inFlight EXCEPT ![p] = FALSE] /\ env' = env
        /\ contacted' = contacted /\ dbUp' = dbUp /\ outages' = outages /\ kills' = kills
    BY <1>2 DEF Create, AtStatement
  <2>2. schema \in SUBSET (1 .. Statements) /\ step[p] \in 1 .. Statements
    BY DEF IInv, TypeOK
  <2>3. inFlight \in [Procs -> BOOLEAN]
    BY DEF IInv, TypeOK
  <2>4. /\ inFlight' \in [Procs -> BOOLEAN] /\ ~inFlight'[p]
        /\ \A q \in Procs \ {p} : inFlight'[q] = inFlight[q]
    BY <2>1, <2>3
  <2>5. schema' \in SUBSET (1 .. Statements) /\ schema \subseteq schema' /\ step[p] \in schema'
    BY <2>1, <2>2
  <2> QED
    BY <2>1, <2>4, <2>5, AdvanceKeeps
<1> QED
  BY <1>1, <1>2

LEMMA BeginKeeps ==
  ASSUME IInv, NEW p \in Procs, Begin(p)
  PROVE  IInv'
<1>1. /\ pc[p] = "schema" /\ inFlight' = [inFlight EXCEPT ![p] = TRUE]
      /\ env' = env /\ pc' = pc /\ step' = step /\ schema' = schema /\ contacted' = contacted
      /\ dbUp' = dbUp /\ outages' = outages /\ kills' = kills
  BY DEF Begin, AtStatement, dbVars
<1>2. TypeOK'
  <2>1. inFlight \in [Procs -> BOOLEAN]
    BY DEF IInv, TypeOK
  <2>2. inFlight' \in [Procs -> BOOLEAN]
    BY <1>1, <2>1
  <2>3. \A q \in Procs : inFlight'[q] => pc'[q] = "schema"
    BY <1>1 DEF IInv, TypeOK
  <2> QED
    BY <1>1, <2>2, <2>3 DEF IInv, TypeOK
<1>3. Others(p)
  BY <1>1 DEF Others
<1>4. Passed(p) /\ Applied(p)
  BY DEF IInv
<1>5. Passed(p)'
  BY <1>1, <1>4, SameSettings DEF Passed
<1>6. Applied(p)'
  BY <1>1, <1>4, SameSettings DEF Applied
<1> QED
  BY <1>1, <1>2, <1>3, <1>5, <1>6, StepKeeps DEF IInv, ValidatedBeforeContact

(* A process that dies in the middle of a statement may leave it done. *)
LEMMA DeathKeeps ==
  ASSUME IInv, NEW p \in Procs, StatementFails(p) \/ Kill(p)
  PROVE  IInv'
<1>1. /\ pc' = [pc EXCEPT ![p] = "exited"] /\ inFlight' = [inFlight EXCEPT ![p] = FALSE]
      /\ env' = env /\ step' = step /\ contacted' = contacted /\ dbUp' = dbUp
      /\ outages' = outages /\ kills' \in 0 .. MaxKills
      /\ schema' \in {schema, IF inFlight[p] THEN schema \cup {step[p]} ELSE schema}
  <2>1. CASE StatementFails(p)
    BY <2>1 DEF StatementFails, IInv, TypeOK
  <2>2. CASE Kill(p)
    <3>1. kills' \in 0 .. MaxKills
      BY <2>2, StartupOK DEF StartupOK, Kill, IInv, TypeOK
    <3> QED
      BY <2>2, <3>1 DEF Kill
  <2> QED
    BY <2>1, <2>2
<1>2. step[p] \in 1 .. Statements /\ schema \subseteq 1 .. Statements
  BY DEF IInv, TypeOK
<1>3. schema \subseteq schema' /\ schema' \subseteq 1 .. Statements
  BY <1>1, <1>2
<1>4. pc'[p] = "exited" /\ pc' \in [Procs -> Places]
  BY <1>1 DEF IInv, TypeOK, Places
<1>5. Others(p)
  BY <1>1, <1>3 DEF Others, IInv, TypeOK
<1>6. TypeOK'
  <2>1. inFlight \in [Procs -> BOOLEAN]
    BY DEF IInv, TypeOK
  <2>2. inFlight' \in [Procs -> BOOLEAN] /\ ~inFlight'[p]
    BY <1>1, <2>1
  <2>3. ASSUME NEW q \in Procs, inFlight'[q] PROVE pc'[q] = "schema"
    <3>1. q # p
      BY <2>2, <2>3
    <3>2. inFlight'[q] = inFlight[q] /\ pc'[q] = pc[q]
      BY <1>1, <1>5, <2>1, <3>1 DEF Others
    <3> QED
      BY <2>3, <3>2 DEF IInv, TypeOK
  <2> QED
    BY <1>1, <1>3, <1>4, <2>2, <2>3 DEF IInv, TypeOK
<1>7. Passed(p)' /\ Applied(p)'
  BY <1>4 DEF Passed, Applied, Migrated
<1>8. schema' # {} => contacted' /\ Migrates(env)
  <2>1. CASE inFlight[p]
    <3>1. pc[p] = "schema"
      BY <2>1 DEF IInv, TypeOK
    <3> QED
      BY <1>1, <3>1 DEF IInv, Passed
  <2>2. CASE ~inFlight[p]
    BY <1>1, <2>2 DEF IInv, ValidatedBeforeContact
  <2> QED
    BY <2>1, <2>2
<1> QED
  BY <1>1, <1>5, <1>6, <1>7, <1>8, StepKeeps DEF IInv, ValidatedBeforeContact

LEMMA RunKeeps ==
  ASSUME IInv, NEW p \in Procs, Run(p) \/ Leave(p)
  PROVE  IInv'
<1>a. TypeOK /\ Passed(p) /\ Applied(p)
  BY DEF IInv
<1>b. (~Unparsable(env)) \in BOOLEAN /\ FALSE \in BOOLEAN
  OBVIOUS
<1>c. /\ "load" \in Places \ {"schema"} /\ "validate" \in Places \ {"schema"}
      /\ "init" \in Places \ {"schema"} /\ "ping" \in Places \ {"schema"}
      /\ "client" \in Places \ {"schema"} /\ "elect" \in Places \ {"schema"}
      /\ "work" \in Places \ {"schema"} /\ "drain" \in Places \ {"schema"}
      /\ "exited" \in Places
  BY DEF Places
<1>d. Valid(env) \in BOOLEAN /\ ExporterValid(env) \in BOOLEAN /\ ElectorAccepts(env) \in BOOLEAN
  <2>1. Valid(env) \in BOOLEAN
    BY DEF Valid
  <2>2. ElectorAccepts(env) \in BOOLEAN
    BY DEF ElectorAccepts
  <2>3. ExporterValid(env) \in BOOLEAN
    <3>1. PostgresValid(env) \in BOOLEAN
      BY DEF PostgresValid
    <3>2. HTTPValid(env) \in BOOLEAN
      BY DEF HTTPValid
    <3>3. S3Valid(env) \in BOOLEAN
      BY DEF S3Valid
    <3> QED
      BY <3>1, <3>2, <3>3 DEF ExporterValid
  <2> QED
    BY <2>1, <2>2, <2>3
<1>1. CASE Load(p)
  <2>1. Goes(p, "load", ~Unparsable(env), "validate")
    BY <1>1 DEF Load
  <2>2. ASSUME ~Unparsable(env) PROVE Passed(p)' /\ Applied(p)'
    <3>1. pc[p] = "load" /\ pc'[p] = "validate" /\ step' = step /\ env' = env
      BY <1>a, <1>b, <1>c, <2>1, <2>2, GoesTypes DEF Others
    <3> QED
      BY <1>a, <2>2, <3>1, SameSettings DEF Passed, Applied, Migrated
  <2> QED
    BY <1>b, <1>c, <2>1, <2>2, GoesKeeps
<1>2. CASE Validate(p)
  <2>1. Goes(p, "validate", Valid(env), "init")
    BY <1>2 DEF Validate
  <2>2. ASSUME Valid(env) PROVE Passed(p)' /\ Applied(p)'
    <3>1. pc[p] = "validate" /\ pc'[p] = "init" /\ step' = step /\ env' = env
      BY <1>a, <1>d, <1>c, <2>1, <2>2, GoesTypes DEF Others
    <3> QED
      BY <1>a, <2>2, <3>1, SameSettings DEF Passed, Applied, Migrated
  <2> QED
    BY <1>d, <1>c, <2>1, <2>2, GoesKeeps
<1>3. CASE NewExporter(p)
  <2> DEFINE to == IF UsesDatabase(env) THEN "ping" ELSE "client"
  <2>1. Goes(p, "init", ExporterValid(env), to) /\ to \in Places
    BY <1>3, <1>c DEF NewExporter
  <2>2. ASSUME ExporterValid(env) PROVE Passed(p)' /\ Applied(p)'
    <3>1. pc[p] = "init" /\ pc'[p] = to /\ step' = step /\ env' = env
      BY <1>a, <1>d, <1>c, <2>1, <2>2, GoesTypes DEF Others
    <3>2. ~UsesDatabase(env) => ~Migrates(env)
      BY DEF Migrates
    <3>3. Passed(p)'
      BY <1>a, <2>2, <3>1, SameSettings DEF Passed
    <3>4. Applied(p)'
      BY <1>a, <3>1, <3>2, SameSettings DEF Applied, Migrated
    <3> QED
      BY <3>3, <3>4
  <2> HIDE DEF to
  <2> QED
    BY <1>d, <1>c, <2>1, <2>2, GoesKeeps
<1>4. CASE NewClient(p)
  <2> DEFINE ok == ClientBuilt(env) /\ SelectorParses(env)
  <2>1. Goes(p, "client", ok, "elect") /\ ok \in BOOLEAN
    BY <1>4 DEF NewClient
  <2> HIDE DEF ok
  <2>2. ASSUME ok PROVE Passed(p)' /\ Applied(p)'
    <3>1. /\ pc[p] = "client" /\ pc'[p] = "elect" /\ step' = step /\ env' = env
          /\ schema' = schema
      BY <1>a, <1>c, <2>1, <2>2, GoesTypes DEF Others
    <3>2. ClientBuilt(env) /\ SelectorParses(env)
      BY <2>2 DEF ok
    <3>3. Passed(p)'
      BY <1>a, <3>1, <3>2, SameSettings DEF Passed
    <3>4. Applied(p)'
      BY <1>a, <3>1, SameSettings DEF Applied, Migrated
    <3> QED
      BY <3>3, <3>4
  <2> QED
    BY <1>c, <2>1, <2>2, GoesKeeps
<1>5. ASSUME NEW from \in Places \ {"schema"}, Goes(p, from, FALSE, "exited") PROVE IInv'
  BY <1>b, <1>c, <1>5, GoesKeeps
<1>6. CASE PingFails(p) \/ Drain(p) \/ Leave(p)
  BY <1>c, <1>5, <1>6 DEF PingFails, Drain, Leave
<1>7. CASE Elect(p)
  <2> DEFINE to == IF ElectorAccepts(env) THEN "work" ELSE "drain"
  <2>1. Goes(p, "elect", TRUE, to) /\ to \in Places \ {"schema", "ping", "load", "validate"}
    BY <1>7, <1>c DEF Elect, Goes
  <2>2. Passed(p)' /\ Applied(p)'
    <3>1. /\ pc[p] = "elect" /\ pc'[p] = to /\ step' = step /\ env' = env
          /\ schema' = schema
      BY <1>a, <1>c, <2>1, GoesTypes DEF Others
    <3>2. pc'[p] = "work" => ElectorAccepts(env)
      BY <3>1
    <3>3. Passed(p)'
      BY <1>a, <2>1, <3>1, <3>2, SameSettings DEF Passed
    <3>4. Applied(p)'
      BY <1>a, <2>1, <3>1, SameSettings DEF Applied, Migrated
    <3> QED
      BY <3>3, <3>4
  <2> HIDE DEF to
  <2> QED
    BY <1>c, <2>1, <2>2, GoesKeeps
<1> QED
  BY <1>1, <1>2, <1>3, <1>4, <1>6, <1>7, RestartKeeps, PingKeeps, StatementsKeep, BeginKeeps,
     DeathKeeps DEF Run

LEMMA Inductive ==
  ASSUME IInv, [Next]_vars
  PROVE  IInv'
<1>1. ASSUME NEW p \in Procs, Run(p) \/ Leave(p) \/ Kill(p) PROVE IInv'
  BY <1>1, RunKeeps, DeathKeeps
<1>2. CASE DatabaseDown \/ DatabaseUp \/ UNCHANGED vars
  <2>1. /\ env' = env /\ pc' = pc /\ step' = step /\ inFlight' = inFlight
        /\ schema' = schema /\ contacted' = contacted /\ kills' = kills
    BY <1>2 DEF DatabaseDown, DatabaseUp, vars, procVars, dbVars
  <2>2. dbUp' \in BOOLEAN
    BY <1>2 DEF DatabaseDown, DatabaseUp, vars, dbVars, IInv, TypeOK
  <2>3. outages' \in 0 .. MaxOutages
    <3>1. outages \in 0 .. MaxOutages /\ MaxOutages \in Nat
      BY StartupOK DEF StartupOK, IInv, TypeOK
    <3>2. outages' = outages \/ (outages < MaxOutages /\ outages' = outages + 1)
      BY <1>2 DEF DatabaseDown, DatabaseUp, vars, dbVars
    <3> QED
      BY <3>1, <3>2
  <2>4. TypeOK'
    BY <2>1, <2>2, <2>3 DEF IInv, TypeOK
  <2>5. ValidatedBeforeContact'
    BY <2>1, SameSettings DEF IInv, ValidatedBeforeContact
  <2>6. ASSUME NEW p \in Procs PROVE Passed(p)'
    BY <2>1, <2>6, SameSettings DEF IInv, Passed
  <2>7. ASSUME NEW p \in Procs PROVE Applied(p)'
    BY <2>1, <2>7, SameSettings DEF IInv, Applied
  <2> QED
    BY <2>4, <2>5, <2>6, <2>7 DEF IInv
<1> QED
  BY <1>1, <1>2 DEF Next

LEMMA InitHolds == Init => IInv
<1> SUFFICES ASSUME Init PROVE IInv
  OBVIOUS
<1>1. TypeOK
  <2>1. 1 \in 1 .. Statements /\ 0 \in 0 .. MaxOutages /\ 0 \in 0 .. MaxKills
    BY StartupOK DEF StartupOK
  <2>2. /\ inFlight \in [Procs -> BOOLEAN] /\ contacted \in BOOLEAN /\ dbUp \in BOOLEAN
        /\ \A p \in Procs : inFlight[p] => pc[p] = "schema"
    BY DEF Init
  <2> QED
    BY <2>1, <2>2 DEF Init, TypeOK, Places
<1>2. ValidatedBeforeContact
  BY DEF Init, ValidatedBeforeContact
<1>3. \A p \in Procs : Passed(p) /\ Applied(p)
  BY DEF Init, Passed, Applied, Migrated
<1> QED
  BY <1>1, <1>2, <1>3 DEF IInv

LEMMA Invariant == Spec => []IInv
<1>1. IInv /\ [Next]_vars => IInv'
  BY Inductive
<1> QED
  BY <1>1, InitHolds, PTL DEF Spec

(* ------------------------------ the results ----------------------------- *)

(* No process of a Deployment is anywhere else in Run than its environment   *)
(* and the statements it has run allow.                                      *)
THEOREM StartupTypes == Spec => []TypeOK
<1>1. IInv => TypeOK
  BY DEF IInv
<1> QED
  BY <1>1, Invariant, PTL

(* An environment that NewCommandFromEnvVars or one of the two Validates     *)
(* refuses never reaches the database, and none without the opt-in changes   *)
(* its schema; what the client, the selector and the elector refuse may have *)
(* done both (service.go:59-101, 174, postgres/exporter.go:72-111).          *)
THEOREM ValidatedFirst == Spec => []ValidatedBeforeContact
<1>1. IInv => ValidatedBeforeContact
  BY DEF IInv
<1> QED
  BY <1>1, Invariant, PTL

(* However many replicas create the schema together, and whenever they are   *)
(* killed or cut off, one that is past New has all of it                     *)
(* (postgres/exporter.go:217-252).                                           *)
THEOREM WholeSchema == Spec => []SchemaBeforeWork
<1>1. IInv => SchemaBeforeWork
  <2> SUFFICES ASSUME IInv, NEW p \in Procs, Migrates(env), pc[p] \in Migrated
               PROVE  schema = 1 .. Statements
    BY DEF SchemaBeforeWork, Migrated
  <2>1. schema \subseteq 1 .. Statements /\ \A n \in 1 .. Statements : n \in schema
    BY DEF IInv, TypeOK, Applied
  <2> QED
    BY <2>1
<1> QED
  BY <1>1, Invariant, PTL

(* What the parsers have seen to. *)
LEMMA NumbersRead ==
  ASSUME ~Unparsable(env), NEW v \in DOMAIN Numbers
  PROVE  Number(env, v) \notin {Blank, Garbage}
<1>1. Value(env, v) \notin {Blank, Garbage}
  BY DEF Unparsable
<1>2. Numbers[v] \notin {Blank, Garbage}
  BY NumbersOK DEF NumbersOK
<1>3. CASE Value(env, v) = Empty
  BY <1>2, <1>3 DEF Number
<1>4. CASE Value(env, v) # Empty
  <2>1. Value(env, v) = env[v]
    BY <1>4 DEF Value
  <2> QED
    BY <1>1, <1>4, <2>1 DEF Number
<1> QED
  BY <1>3, <1>4

(* Whatever the environment, a process that reached its work has what its    *)
(* parts ask for: all the checks of Run together leave out only QPS = NaN    *)
(* (service.go:59-101, 174, option.go:127-205, 386-453).                     *)
THEOREM ConfigurationWorks == Spec => []WorksAsConfigured
<1>1. IInv => WorksAsConfigured
  <2> SUFFICES ASSUME IInv, NEW p \in Procs, pc[p] = "work"
               PROVE  WorksAsConfigured
    BY DEF WorksAsConfigured
  <2>1. ~Unparsable(env) /\ Valid(env)
    BY DEF IInv, Passed
  <2>2. \A v \in DOMAIN Numbers : Number(env, v) \notin {Blank, Garbage}
    BY <2>1, NumbersRead
  <2>3. Number(env, "WORKERS") > 0
    <3>1. WorkersValid(env)
      BY <2>1, Zenon DEF Valid
    <3>2. Number(env, "WORKERS") \in 1 .. 100
      BY <3>1, Zenon DEF WorkersValid
    <3> HIDE DEF Number
    <3> QED
      BY <3>2
  <2>4. Number(env, "TIMEOUT") > 0
    <3>1. TimesValid(env)
      BY <2>1, Zenon DEF Valid
    <3>2. Number(env, "TIMEOUT") \in 1 .. 600
      BY <3>1 DEF TimesValid
    <3> QED
      BY <3>2
  <2>5. Number(env, "BURST") > 0
    <3>1. RateValid(env)
      BY <2>1, Zenon DEF Valid
    <3> QED
      BY <3>1, Zenon DEF RateValid
  <2>6. Number(env, "QPS") # NaN => Number(env, "QPS") > 0
    <3>1. RateValid(env)
      BY <2>1, Zenon DEF Valid
    <3> QED
      BY <3>1, Zenon DEF RateValid
  <2>7. Elects(env) => Number(env, "LEASE_DURATION") > Number(env, "LEASE_RENEW_DEADLINE")
    <3>1. Elects(env) => LeaseValid(env)
      BY <2>1, Zenon DEF Valid
    <3>2. LeaseValid(env) =>
            Number(env, "LEASE_DURATION") > Number(env, "LEASE_RENEW_DEADLINE")
      BY Zenon DEF LeaseValid
    <3> QED
      BY <3>1, <3>2, Zenon
  <2>8. /\ ExporterValid(env) /\ ClientBuilt(env) /\ SelectorParses(env)
        /\ ElectorAccepts(env)
    BY DEF IInv, Passed
  <2>9. Elects(env) =>
          10 * Number(env, "LEASE_RENEW_DEADLINE") > 12 * Number(env, "LEASE_RETRY_PERIOD")
    BY <2>8, Zenon DEF ElectorAccepts
  <2> QED
    BY <2>2, <2>3, <2>4, <2>5, <2>6, <2>7, <2>8, <2>9, Zenon DEF WorksAsConfigured
<1> QED
  BY <1>1, Invariant, PTL
================================================================================
