------------------------------- MODULE HTTPFlags -------------------------------
(***************************************************************************)
(* The flags of the command, in cmd/consul-load/consul_http.go and load.go. *)
(* A flag that has been set holds its value as {value}, one that has not   *)
(* holds {}: StringValue and BoolValue know the difference.                *)
(***************************************************************************)
CONSTANTS
  Values,      \* what can be written on the command line, and "clock"
  Environment  \* api.DefaultConfig: environment variables and defaults

\* Flags that end up in the configuration of the Consul client.
HTTPFields ==
  {"http-addr", "token", "token-file", "ca-file", "ca-path", "client-cert",
   "client-key", "tls-server-name", "datacenter", "namespace"}

\* The others, with their defaults; "stale" and "quiet" are read by nobody.
Defaults ==
  [config |-> "", seed |-> "0", loglevel |-> "info", timeout |-> "5m",
   port |-> "0", report |-> "", quiet |-> "false", stale |-> "false"]

Flags == HTTPFields \cup DOMAIN Defaults

ASSUME ValuesTyped ==
  /\ Environment \in [HTTPFields -> Values]
  /\ Defaults \in [DOMAIN Defaults -> Values]
  /\ "clock" \in Values

NoFlags == [f \in Flags |-> {}]

\* Mutant: a value that is there is kept.
SetOnce(values, f, v) == IF values[f] = {} THEN [values EXCEPT ![f] = {v}] ELSE values

Set(values, f, v) == [values EXCEPT ![f] = {v}]

\* Mutant: a flag given empty is taken for one not given.
NonEmpty(value, onto) == IF value \subseteq {""} THEN onto ELSE CHOOSE v \in value : TRUE

Merge(value, onto) == IF value = {} THEN onto ELSE CHOOSE v \in value : TRUE

MergeOntoConfig(values) == [f \in HTTPFields |-> Merge(values[f], Environment[f])]

\* What api.NewClient looks up again where it finds nothing.  The transport has
\* its certificates by then, so that those of the environment come too late.
Refilled == {"http-addr", "token", "token-file"}

NewClient(c) ==
  [f \in HTTPFields |-> IF f \in Refilled /\ c[f] = "" THEN Environment[f] ELSE c[f]]

Option(values, f) == Merge(values[f], Defaults[f])
=============================================================================
