------------------------------ MODULE MCLoadRun ------------------------------
(***************************************************************************)
(* Command lines and configuration files for TLC.  Every set of sections   *)
(* runs with a metrics server and a report; odd sections, files and        *)
(* command lines are tried one at a time.                                  *)
(***************************************************************************)
EXTENDS LoadRun

Arg(f, v) == [flag |-> f, value |-> v]
File(kv, peering, catalog) ==
  [Seed |-> "5", kv |-> kv, peering |-> peering, catalog |-> catalog]

KVSection(keys, rate, min, max) ==
  [NumKeys |-> keys, UpdateRate |-> rate, KeySegments |-> 0,
   MinValueSize |-> min, MaxValueSize |-> max]
PeeringSection(limit, services) ==
  [RegisterLimit |-> limit, NumServices |-> services, ExportTimeout |-> 0]
CatalogSection(accepted, sound, stocked) ==
  [accepted |-> accepted, sound |-> sound, stocked |-> stocked]
UsualCatalog == CatalogSection(TRUE, TRUE, TRUE)

UsualArgs ==
  <<Arg("config", "file"), Arg("seed", "7"), Arg("port", "8080"),
    Arg("report", "prometheus")>>

\* Whatever sections there are.
UsualFiles ==
  {File(kv, peering, catalog) :
     kv \in {{}, {KVSection(50, 200, 0, 0)}},
     peering \in {{}, {PeeringSection(1, 1)}},
     catalog \in {{}, {UsualCatalog}}}

\* Sections that are refused, that cannot be initialised or that cannot run.
OddFiles ==
  {File({KVSection(n, 200, 0, 0)}, {}, {UsualCatalog}) : n \in {0 - 1, 0}}
  \cup {File({KVSection(1, 5, min, max)}, {}, {}) : min \in {0, 300}, max \in {0, 100}}
  \cup {File({KVSection(1, 0, 0, 0)}, {}, {}), File({}, {PeeringSection(0, 1)}, {}),
        File({}, {PeeringSection(1, 0)}, {})}
  \cup {File({}, {}, {CatalogSection(accepted, sound, FALSE)}) :
          accepted \in BOOLEAN, sound \in BOOLEAN}

Minimal == Arg("config", "file")
Addr(v) == Arg("http-addr", v)

OddArgs ==
  {<<>>, <<Minimal>>, <<Minimal, Addr("a"), Arg("stale", "true"), Addr("b")>>,
   <<Minimal, Addr("a"), Addr("")>>, <<Minimal, Arg("datacenter", "")>>,
   <<Minimal, Arg("seed", "-1")>>,
   <<Minimal, Arg("loglevel", "unknown")>>, <<Minimal, Arg("timeout", "malformed")>>}

MCInputs ==
  {[args |-> UsualArgs, file |-> {f}] : f \in UsualFiles \cup OddFiles}
  \cup {[args |-> a, file |-> {File({}, {}, {})}] : a \in OddArgs}
  \cup {[args |-> <<Minimal>>, file |-> {}],
        [args |-> <<Minimal>>, file |-> {[File({}, {}, {}) EXCEPT !.Seed = "-1"]}]}

\* The sample of the README.
SampleInputs ==
  {[args |-> UsualArgs, file |-> {File({KVSection(50, 200, 0, 0)}, {}, {})}]}

MCValues ==
  {"", "-1", "0", "5", "7", "5m", "8080", "a", "b", "clock", "env", "false", "file",
   "info", "malformed", "prometheus", "true", "unknown"}
MCEnvironment == [f \in HTTPFields |-> "env"]
=============================================================================
