------------------------------- MODULE Startup -------------------------------
(***************************************************************************)
(* How a process gets from its environment to its work: Run                *)
(* (pkg/runner/service.go) up to runController, with the configuration     *)
(* (option.go), the exporter's constructor (export.go and New of the       *)
(* backends) and the Kubernetes client (client.go).  The replicas of a     *)
(* Deployment have one environment and, with the PostgreSQL backend, one   *)
(* database, in which each of them may create the schema; kubelet restarts *)
(* whatever exits.  What a process does at work is Replicas.               *)
(***************************************************************************)
EXTENDS Integers

CONSTANTS
  Procs,         \* replicas
  Environments,  \* the environments a Deployment may have, see env
  Empty,         \* a variable that is set to ""
  Blank,         \* one that is set to white space
  Garbage,       \* a text that its reader does not take
  NaN,           \* what strconv.ParseFloat reads from "NaN"
  Statements,    \* CREATE TABLE and CREATE INDEX of initializeSchema
  MaxOutages,    \* bound: how often the database goes away
  MaxKills       \* bound: how often a process is killed

ASSUME StartupOK == Statements \in Nat \ {0} /\ MaxOutages \in Nat /\ MaxKills \in Nat

VARIABLES
  env,        \* [names that are set -> values]
  pc,         \* [Procs -> where in Run it is]
  step,       \* [Procs -> statement of initializeSchema]
  inFlight,   \* [Procs -> the statement has found nothing and is creating]
  schema,     \* statements whose table or index is there
  contacted,  \* history: somebody has opened a connection to the database
  dbUp,       \* the database answers
  outages, kills

procVars == <<pc, step, inFlight>>
dbVars   == <<schema, contacted, dbUp, outages>>

vars == <<env, procVars, dbVars, kills>>

-----------------------------------------------------------------------------
(* The environment. *)

Numbers ==
  [WORKERS |-> 16, TIMEOUT |-> 30, RESYNC |-> 0, QPS |-> 50, BURST |-> 100,
   SERVER_PORT |-> 8080, LEADER_ELECTION |-> FALSE,
   LEASE_DURATION |-> 15, LEASE_RENEW_DEADLINE |-> 10, LEASE_RETRY_PERIOD |-> 2]

ASSUME NumbersOK == \A v \in DOMAIN Numbers : Numbers[v] \notin {Blank, Garbage}

Texts ==
  [EXPORTER_TYPE |-> "stdout", CLUSTER_NAME |-> Empty, NAMESPACE |-> "gpu-operator",
   LABEL_SELECTOR |-> "app", CONTAINER |-> "nvidia-device-plugin", KUBECONFIG |-> Empty,
   LEASE_NAMESPACE |-> "gpuid", LEASE_NAME |-> "gpuid-leader", POD_NAME |-> Empty]

IsSet(e, v) == v \in DOMAIN e

(* os.Getenv: "" where it is not set. *)
Value(e, v) == IF IsSet(e, v) THEN e[v] ELSE Empty

(* getEnv of option.go: a variable that is set to "" is "", not the default. *)
Text(e, v) == IF IsSet(e, v) THEN e[v] ELSE Texts[v]

(* getEnvAsInt and the like, where the value can be parsed. *)
Number(e, v) == IF Value(e, v) = Empty THEN Numbers[v] ELSE e[v]

(* NewCommandFromEnvVars fails. *)
Unparsable(e) == \E v \in DOMAIN Numbers : Value(e, v) \in {Blank, Garbage}

(* In the backends "" is not set, and what cannot be parsed is the default.  *)
OrDefault(e, v, default) == IF Value(e, v) \in {Empty, Blank, Garbage} THEN default ELSE e[v]

LeaseValid(e) ==
  /\ \A v \in {"LEASE_NAME", "LEASE_NAMESPACE", "POD_NAME"} : Text(e, v) \notin {Empty, Blank}
  /\ Number(e, "LEASE_DURATION") > Number(e, "LEASE_RENEW_DEADLINE")
  /\ Number(e, "LEASE_RENEW_DEADLINE") > Number(e, "LEASE_RETRY_PERIOD")
  /\ Number(e, "LEASE_RETRY_PERIOD") > 0

(* Every comparison with NaN is false, so it passes. *)
RateValid(e) ==
  /\ Number(e, "QPS") # NaN => Number(e, "QPS") > 0 /\ Number(e, "BURST") >= Number(e, "QPS")
  /\ Number(e, "BURST") > 0

TextsValid(e) ==
  \A v \in {"EXPORTER_TYPE", "CLUSTER_NAME", "CONTAINER", "NAMESPACE", "LABEL_SELECTOR"} :
    Text(e, v) \notin {Empty, Blank}

(* Mutant: no worker at all is a number of workers. *)
WorkersMayIdle(e) == Number(e, "WORKERS") \in 0 .. 100

WorkersValid(e) == Number(e, "WORKERS") \in 1 .. 100

TimesValid(e) == Number(e, "TIMEOUT") \in 1 .. 600 /\ Number(e, "RESYNC") >= 0

PortValid(e) == Number(e, "SERVER_PORT") \in 1000 .. 65535

Elects(e) == Number(e, "LEADER_ELECTION")

(* Validate of Command. *)
Valid(e) ==
  /\ TextsValid(e)
  /\ WorkersValid(e)
  /\ TimesValid(e)
  /\ RateValid(e)
  /\ PortValid(e)
  /\ Elects(e) => LeaseValid(e)

PostgresValid(e) ==
  /\ \A v \in {"POSTGRES_HOST", "POSTGRES_DB", "POSTGRES_USER", "POSTGRES_PASSWORD"} :
       Value(e, v) # Empty
  /\ OrDefault(e, "POSTGRES_PORT", 5432) \in 1 .. 65535
  /\ Value(e, "POSTGRES_TABLE") \notin {Blank, Garbage}

HTTPValid(e) ==
  /\ Value(e, "HTTP_ENDPOINT") \notin {Empty, Blank, Garbage}
  /\ OrDefault(e, "HTTP_TIMEOUT", 30) > 0

(* Garbage in AWS_CONFIG stands for all that LoadDefaultConfig refuses. *)
S3Valid(e) ==
  /\ Value(e, "S3_BUCKET") \notin {Empty, Blank}
  /\ Value(e, "S3_REGION") # Blank
  /\ Value(e, "AWS_CONFIG") # Garbage

(* The switch of GetExporter and Validate of the backend. *)
ExporterValid(e) ==
  CASE Text(e, "EXPORTER_TYPE") = "stdout"   -> TRUE
    [] Text(e, "EXPORTER_TYPE") = "postgres" -> PostgresValid(e)
    [] Text(e, "EXPORTER_TYPE") = "http"     -> HTTPValid(e)
    [] Text(e, "EXPORTER_TYPE") = "s3"       -> S3Valid(e)
    [] OTHER                              -> FALSE

UsesDatabase(e) == Text(e, "EXPORTER_TYPE") = "postgres"

Migrates(e) == UsesDatabase(e) /\ Value(e, "POSTGRES_AUTO_MIGRATE") = "true"

(* buildRestConfig: in the cluster, from KUBECONFIG, or from the home        *)
(* directory; Garbage is a path at which there is no usable file.            *)
ClientBuilt(e) ==
  \/ IsSet(e, "KUBERNETES_SERVICE_HOST")
  \/ Text(e, "KUBECONFIG") \notin {Empty, Blank, Garbage}
  \/ Text(e, "KUBECONFIG") = Empty /\ Value(e, "HOME") \notin {Empty, Garbage}

SelectorParses(e) == Text(e, "LABEL_SELECTOR") # Garbage

(* NewLeaderElector wants 1.2 retry periods before the deadline. *)
ElectorAccepts(e) ==
  Elects(e) =>
    10 * Number(e, "LEASE_RENEW_DEADLINE") > 12 * Number(e, "LEASE_RETRY_PERIOD")

Startable(e) ==
  /\ ~Unparsable(e)
  /\ Valid(e)
  /\ ExporterValid(e)
  /\ ClientBuilt(e)
  /\ SelectorParses(e)
  /\ ElectorAccepts(e)

-----------------------------------------------------------------------------
(* Run. *)

Places == {"load", "validate", "init", "ping", "schema", "client", "elect",
           "work", "drain", "exited"}

Init ==
  /\ env \in Environments
  /\ pc = [p \in Procs |-> "load"]
  /\ step = [p \in Procs |-> 1]
  /\ inFlight = [p \in Procs |-> FALSE]
  /\ schema = {}
  /\ contacted = FALSE
  /\ dbUp \in BOOLEAN
  /\ outages = 0
  /\ kills = 0

(* From one place to the next, when the program goes on; otherwise Run       *)
(* returns 2, and the deferred functions close what is open.                 *)
Goes(p, from, ok, to) ==
  /\ pc[p] = from
  /\ pc' = [pc EXCEPT ![p] = IF ok THEN to ELSE "exited"]
  /\ UNCHANGED <<env, step, inFlight, dbVars, kills>>

(* Mutant: the exporter is made before the configuration is checked. *)
LoadEarly(p) == Goes(p, "load", ~Unparsable(env), "init")

Load(p) == Goes(p, "load", ~Unparsable(env), "validate")

Validate(p) == Goes(p, "validate", Valid(env), "init")

NewExporter(p) == Goes(p, "init", ExporterValid(env), IF UsesDatabase(env) THEN "ping" ELSE "client")

NewClient(p) == Goes(p, "client", ClientBuilt(env) /\ SelectorParses(env), "elect")

(* The server is up; the elector may refuse, and Run then waits for a server *)
(* that nobody stops until its time is over.                                 *)
Elect(p) ==
  /\ pc[p] = "elect"
  /\ pc' = [pc EXCEPT ![p] = IF ElectorAccepts(env) THEN "work" ELSE "drain"]
  /\ UNCHANGED <<env, step, inFlight, dbVars, kills>>

Drain(p) == Goes(p, "drain", FALSE, "exited")

(* The process is told to end, loses its lease or fails: see Replicas. *)
Leave(p) == Goes(p, "work", FALSE, "exited")

Restart(p) ==
  /\ pc[p] = "exited"
  /\ pc' = [pc EXCEPT ![p] = "load"]
  /\ step' = [step EXCEPT ![p] = 1]
  /\ UNCHANGED <<env, inFlight, dbVars, kills>>

(* PingContext, and what New does after it. *)
Ping(p) ==
  /\ pc[p] = "ping"
  /\ dbUp
  /\ contacted' = TRUE
  /\ pc' = [pc EXCEPT ![p] = IF Migrates(env) THEN "schema" ELSE "client"]
  /\ UNCHANGED <<env, step, inFlight, schema, dbUp, outages, kills>>

PingFails(p) == ~dbUp /\ Goes(p, "ping", FALSE, "exited")

(* Mutant: the loop of the indexes runs over its end. *)
AdvanceOver(p) ==
  /\ step' = [step EXCEPT ![p] = step[p] + 1]
  /\ pc' = [pc EXCEPT ![p] = IF step[p] > Statements THEN "client" ELSE "schema"]

(* A statement of initializeSchema is done. *)
Advance(p) ==
  /\ step' = [step EXCEPT ![p] = IF step[p] = Statements THEN 1 ELSE step[p] + 1]
  /\ pc' = [pc EXCEPT ![p] = IF step[p] = Statements THEN "client" ELSE "schema"]

AtStatement(p) == pc[p] = "schema" /\ dbUp

(* Mutant: a schema that has its table is complete. *)
SkipRest(p) ==
  /\ AtStatement(p)
  /\ ~inFlight[p]
  /\ step[p] \in schema
  /\ pc' = [pc EXCEPT ![p] = "client"]
  /\ step' = [step EXCEPT ![p] = 1]
  /\ UNCHANGED <<env, inFlight, dbVars, kills>>

(* Mutant: CREATE without IF NOT EXISTS. *)
SkipNothing(p) ==
  /\ AtStatement(p)
  /\ ~inFlight[p]
  /\ step[p] \in schema
  /\ Goes(p, "schema", FALSE, "exited")

(* IF NOT EXISTS: there it is. *)
Skip(p) ==
  /\ AtStatement(p)
  /\ ~inFlight[p]
  /\ step[p] \in schema
  /\ Advance(p)
  /\ UNCHANGED <<env, inFlight, dbVars, kills>>

(* There it is not; to create it takes a while, in which another process may *)
(* do the same.                                                              *)
Begin(p) ==
  /\ AtStatement(p)
  /\ ~inFlight[p]
  /\ step[p] \notin schema
  /\ inFlight' = [inFlight EXCEPT ![p] = TRUE]
  /\ UNCHANGED <<env, pc, step, dbVars, kills>>

Create(p) ==
  /\ AtStatement(p)
  /\ inFlight[p]
  /\ step[p] \notin schema
  /\ schema' = schema \cup {step[p]}
  /\ inFlight' = [inFlight EXCEPT ![p] = FALSE]
  /\ Advance(p)
  /\ UNCHANGED <<env, contacted, dbUp, outages, kills>>

(* New closes the database and fails: the other was first (a duplicate key   *)
(* of the catalogue), or the connection broke, whatever became of the        *)
(* statement.                                                                *)
StatementFails(p) ==
  /\ pc[p] = "schema"
  /\ ~dbUp \/ (inFlight[p] /\ step[p] \in schema)
  /\ pc' = [pc EXCEPT ![p] = "exited"]
  /\ inFlight' = [inFlight EXCEPT ![p] = FALSE]
  /\ schema' \in {schema, IF inFlight[p] THEN schema \cup {step[p]} ELSE schema}
  /\ UNCHANGED <<env, step, contacted, dbUp, outages, kills>>

(* SIGKILL or a lost node, at any place. *)
Kill(p) ==
  /\ kills < MaxKills
  /\ kills' = kills + 1
  /\ pc[p] # "exited"
  /\ pc' = [pc EXCEPT ![p] = "exited"]
  /\ inFlight' = [inFlight EXCEPT ![p] = FALSE]
  /\ schema' \in {schema, IF inFlight[p] THEN schema \cup {step[p]} ELSE schema}
  /\ UNCHANGED <<env, step, contacted, dbUp, outages>>

DatabaseDown ==
  /\ dbUp
  /\ outages < MaxOutages
  /\ outages' = outages + 1
  /\ dbUp' = FALSE
  /\ UNCHANGED <<env, procVars, schema, contacted, kills>>

DatabaseUp ==
  /\ ~dbUp
  /\ dbUp' = TRUE
  /\ UNCHANGED <<env, procVars, schema, contacted, outages, kills>>

Run(p) ==
  \/ Load(p) \/ Validate(p) \/ NewExporter(p) \/ Ping(p) \/ PingFails(p)
  \/ Skip(p) \/ Begin(p) \/ Create(p) \/ StatementFails(p)
  \/ NewClient(p) \/ Elect(p) \/ Drain(p) \/ Restart(p)

Next ==
  \/ \E p \in Procs : Run(p) \/ Leave(p) \/ Kill(p)
  \/ DatabaseDown \/ DatabaseUp

Spec == Init /\ [][Next]_vars

(* A process goes on, kubelet restarts it, and an outage ends; nothing has   *)
(* to leave its work.                                                        *)
FairSpec == Spec /\ WF_vars(DatabaseUp) /\ \A p \in Procs : WF_vars(Run(p))

-----------------------------------------------------------------------------
(* Safety. *)

TypeOK ==
  /\ env \in Environments
  /\ pc \in [Procs -> Places]
  /\ step \in [Procs -> 1 .. Statements]
  /\ inFlight \in [Procs -> BOOLEAN]
  /\ schema \subseteq 1 .. Statements
  /\ contacted \in BOOLEAN
  /\ dbUp \in BOOLEAN
  /\ outages \in 0 .. MaxOutages
  /\ kills \in 0 .. MaxKills
  /\ \A p \in Procs : inFlight[p] => pc[p] = "schema"

(* Who reaches its work has what each of its parts asks for, whichever of    *)
(* the checks of Run sees to it (parsers, Validate, the backend's Validate,  *)
(* client and selector, elector): numbers that could be read, somebody to    *)
(* take from the queue, time for a call, tokens in the limiter, a backend, a *)
(* client, and a lease that can be renewed before another takes it.  QPS is  *)
(* the exception: NaN passes (service.go:59-101, 174, option.go:127-205,     *)
(* 386-453).                                                                 *)
WorksAsConfigured ==
  (\E p \in Procs : pc[p] = "work") =>
    /\ \A v \in DOMAIN Numbers : Number(env, v) \notin {Blank, Garbage}
    /\ Number(env, "WORKERS") > 0
    /\ Number(env, "TIMEOUT") > 0
    /\ Number(env, "BURST") > 0
    /\ Number(env, "QPS") # NaN => Number(env, "QPS") > 0
    /\ ExporterValid(env)
    /\ ClientBuilt(env) /\ SelectorParses(env)
    /\ Elects(env) =>
         /\ Number(env, "LEASE_DURATION") > Number(env, "LEASE_RENEW_DEADLINE")
         /\ 10 * Number(env, "LEASE_RENEW_DEADLINE") > 12 * Number(env, "LEASE_RETRY_PERIOD")

(* The database is contacted only when the command and the backend have      *)
(* passed their Validate, and changed only with the opt-in.  No more than    *)
(* that: client, label selector and elector are tried behind New, and what   *)
(* they refuse has had its connection, and its tables (service.go:72-101,    *)
(* 174, postgres/exporter.go:74, 106, README.md:96).                         *)
ValidatedBeforeContact ==
  /\ contacted => ~Unparsable(env) /\ Valid(env) /\ PostgresValid(env)
  /\ schema # {} => contacted /\ Migrates(env)

(* Behind New the schema is whole, whoever made which part of it, and        *)
(* whatever was killed or failed in between (postgres/exporter.go:217-252).  *)
SchemaBeforeWork ==
  \A p \in Procs :
    Migrates(env) /\ pc[p] \in {"client", "elect", "work", "drain"} =>
      schema = 1 .. Statements

-----------------------------------------------------------------------------
(* Liveness. *)

(* With a sound configuration every replica gets to its work again and       *)
(* again: the loser of a race for a table finds it after its restart         *)
(* (postgres/exporter.go:217-252, service.go:77-80).                         *)
StartsAgain == Startable(env) => \A p \in Procs : []<>(pc[p] = "work")
================================================================================
