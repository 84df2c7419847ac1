------------------------------- MODULE MCStartup -------------------------------
(* Instances of Startup for TLC: sound environments for each backend, and    *)
(* those that differ from one of them in a variable; with the database also  *)
(* what is refused only behind its schema.                                   *)
EXTENDS Startup, TLC

CONSTANTS p1, p2, empty, blank, garbage, nan

Cluster == "CLUSTER_NAME" :> "validation" @@ "KUBERNETES_SERVICE_HOST" :> "10.0.0.1"

Elected == Cluster @@ "LEADER_ELECTION" :> TRUE @@ "POD_NAME" :> "gpuid"

Postgres ==
  Cluster @@ "EXPORTER_TYPE" :> "postgres" @@ "POSTGRES_HOST" :> "db"
  @@ "POSTGRES_DB" :> "gpuid" @@ "POSTGRES_USER" :> "gpuid" @@ "POSTGRES_PASSWORD" :> "x"

Migrating == Postgres @@ "POSTGRES_AUTO_MIGRATE" :> "true"

ElectedMigrating == Migrating @@ Elected

HTTP == Cluster @@ "EXPORTER_TYPE" :> "http" @@ "HTTP_ENDPOINT" :> "https"

S3 == Cluster @@ "EXPORTER_TYPE" :> "s3" @@ "S3_BUCKET" :> "gpus"

With(base, v, values) == {(v :> x) @@ base : x \in values}

Without(base, names) == {[v \in DOMAIN base \ {n} |-> base[v]] : n \in names}

TextValues == {Empty, Blank, Garbage, "other"}

MCEnvironments ==
  {Elected, Postgres, Migrating, HTTP, S3}
  \cup Without(Elected, DOMAIN Elected)
  \cup UNION {With(Elected, v, TextValues) : v \in DOMAIN Texts}
  \cup UNION {With(Elected, v, {Empty, Blank, Garbage})
                : v \in DOMAIN Numbers \ {"LEADER_ELECTION"}}
  \cup With(Elected, "LEADER_ELECTION", {Empty, Garbage, FALSE})
  \cup With(Elected, "WORKERS", {-1, 0, 1, 100, 101})
  \cup With(Elected, "TIMEOUT", {0, 1, 600, 601})
  \cup With(Elected, "RESYNC", {-1, 1})
  \cup With(Elected, "QPS", {0, 100, 101, NaN})
  \cup With(Elected, "BURST", {0, 49, 50})
  \cup With(Elected, "SERVER_PORT", {999, 1000, 65535, 65536})
  \cup With(Elected, "LEASE_DURATION", {10, 11})
  \cup With(Elected, "LEASE_RENEW_DEADLINE", {2, 3, 14, 15})
  \cup With(Elected, "LEASE_RETRY_PERIOD", {0, 8, 9, 10})
  \cup UNION {With(e, "KUBECONFIG", {Empty, "config"})
                : e \in Without(Elected, {"KUBERNETES_SERVICE_HOST"})}
  \cup UNION {With(e, "HOME", {Garbage, "home"})
                : e \in Without(Elected, {"KUBERNETES_SERVICE_HOST"})}
  \cup Without(Migrating, DOMAIN Migrating)
  \cup With(Migrating, "WORKERS", {0, Garbage})
  \cup With(Migrating, "LABEL_SELECTOR", {Garbage})
  \cup With(ElectedMigrating, "LEASE_RETRY_PERIOD", {2, 9, 10})
  \cup With(Migrating, "POSTGRES_PORT", {Empty, Garbage, 0, 65536})
  \cup With(Migrating, "POSTGRES_TABLE", {Empty, Garbage, "serials"})
  \cup Without(HTTP, {"HTTP_ENDPOINT"})
  \cup With(HTTP, "HTTP_ENDPOINT", {Blank, Garbage})
  \cup With(HTTP, "HTTP_TIMEOUT", {Garbage, 0, 45})
  \cup With(S3, "S3_BUCKET", {Empty, Blank})
  \cup With(S3, "S3_REGION", {Empty, Blank, "eu"})
  \cup With(S3, "AWS_CONFIG", {Garbage})
================================================================================
