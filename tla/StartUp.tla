-------------------------------- MODULE StartUp --------------------------------
(***************************************************************************)
(* cmd/consul-load/load.go up to the generators: Run parses its flags,     *)
(* reads and normalises the configuration (load/config.go), replaces its   *)
(* seed, makes a client and lets NewLoadGenerator (load/load.go) hand a    *)
(* seed of its own to the generator of every section.                      *)
(*                                                                         *)
(* A section that may be missing is the set {} or {section}.  Of the       *)
(* catalog's, CatalogData tells when it is accepted, when it is sound, so  *)
(* that nothing generated or pushed can panic, and when it is stocked, so  *)
(* that every list it has updates for is sure to hold something.           *)
(***************************************************************************)
EXTENDS KV, HTTPFlags, Sequences, Functions

CONSTANT Inputs  \* command lines and configuration files

PeeringSections == [RegisterLimit : Int, NumServices : Int, ExportTimeout : Int]

CatalogSections == [accepted : BOOLEAN, sound : BOOLEAN, stocked : BOOLEAN]

Configs ==
  [Seed : Values, kv : SUBSET KVSections, peering : SUBSET PeeringSections,
   catalog : SUBSET CatalogSections]

\* A file that is missing or no JSON is {}.
ASSUME InputsTyped ==
  Inputs \subseteq [args : Seq([flag : Flags, value : Values]), file : SUBSET Configs]

VARIABLES
  input,       \* what the user gave
  args,        \* arguments not parsed yet
  given,       \* the flags
  conf,        \* the configuration
  api,         \* configuration of the Consul client
  draws,       \* values NewLoadGenerator's rng has given
  considered,  \* kinds of generators it has come by
  generators,  \* lg.generators
  seeds,       \* the Seed each of them got
  stage,       \* how far the process has come
  code         \* its exit code

configured == <<input, args, given, conf, api>>
made == <<draws, considered, generators, seeds>>
startUp == <<configured, made>>

NoConfig == [Seed |-> "0", kv |-> {}, peering |-> {}, catalog |-> {}]

StartUpInit ==
  /\ input \in Inputs
  /\ args = input.args
  /\ given = NoFlags
  /\ conf = NoConfig
  /\ api = Environment
  /\ draws = 0
  /\ considered = 0
  /\ generators = <<>>
  /\ seeds = <<>>
  /\ stage = "flags"
  /\ code = 0

ExitWith(n) == stage' = "exit" /\ code' = n

-----------------------------------------------------------------------------
(* The command line.                                                       *)

\* The next argument is an unknown flag or its value cannot be parsed; a plain
\* word, which ends the parsing, is the end of args.
Malformed == args # <<>> /\ Head(args).value = "malformed"

ParseFlag ==
  /\ stage = "flags"
  /\ args # <<>> /\ ~Malformed
  /\ given' = Set(given, Head(args).flag, Head(args).value)
  /\ args' = Tail(args)
  /\ UNCHANGED <<input, conf, api, made, stage, code>>

Parsed ==
  /\ stage = "flags"
  /\ args = <<>>
  /\ IF Option(given, "loglevel") = "unknown" \/ Option(given, "config") = ""
     THEN ExitWith(1)
     ELSE stage' = "config" /\ UNCHANGED code
  /\ UNCHANGED startUp

ParseFails ==
  /\ stage = "flags"
  /\ Malformed
  /\ ExitWith(1)
  /\ UNCHANGED startUp

-----------------------------------------------------------------------------
(* The configuration.                                                      *)

PeeringRefused(p) == p.RegisterLimit = 0 \/ p.NumServices = 0
PeeringNormalized(p) == [p EXCEPT !.ExportTimeout = IF @ = 0 THEN 180 ELSE @]

\* Config.Normalize returns an error.
Refused(file) ==
  \/ \E s \in file.kv : KVRefused(s)
  \/ \E p \in file.peering : PeeringRefused(p)
  \/ \E c \in file.catalog : ~c.accepted

Normalized(file) ==
  [Seed |-> IF file.Seed \in {"-1", "0"} THEN "clock" ELSE file.Seed,
   kv |-> {KVNormalized(s) : s \in file.kv},
   peering |-> {PeeringNormalized(p) : p \in file.peering},
   catalog |-> file.catalog]

ReadConfig ==
  /\ stage = "config"
  /\ \E file \in input.file :
       /\ ~Refused(file)
       /\ conf' = Normalized(file)
  /\ stage' = "client"
  /\ UNCHANGED <<input, args, given, api, made, code>>

ReadConfigFails ==
  /\ stage = "config"
  /\ \A file \in input.file : Refused(file)
  /\ ExitWith(1)
  /\ UNCHANGED startUp

\* The seed of the file is replaced in any case, by a negative one too.
WithSeed ==
  LET seed == Option(given, "seed") IN
  [conf EXCEPT !.Seed = IF seed = "0" THEN "clock" ELSE seed]

APIClient ==
  /\ stage = "client"
  /\ conf' = WithSeed
  /\ api' = NewClient(MergeOntoConfig(given))
  /\ stage' = "new"
  /\ UNCHANGED <<input, args, given, made, code>>

\* The files named by the flags cannot be read.
APIClientFails ==
  /\ stage = "client"
  /\ ExitWith(1)
  /\ UNCHANGED startUp

-----------------------------------------------------------------------------
(* NewLoadGenerator.                                                       *)

Kinds == <<"catalog", "kv", "peering">>

Sections(k) ==
  CASE k = "catalog" -> conf.catalog
    [] k = "kv" -> conf.kv
    [] k = "peering" -> conf.peering

\* Mutant: a seed is drawn when somebody needs it.
DrawnWhenUsed(k) == IF Sections(k) = {} THEN draws ELSE draws + 1
DrawnFor(k) == draws + 1

\* One kind after the other, in a fixed order.
NextKind ==
  /\ stage = "new"
  /\ considered < Len(Kinds)
  /\ LET k == Kinds[considered + 1] IN
       /\ draws' = DrawnFor(k)
       /\ IF Sections(k) = {} THEN UNCHANGED <<generators, seeds>>
          ELSE /\ generators' = Append(generators, k)
               /\ seeds' = Append(seeds, [of |-> conf.Seed, draw |-> draws'])
  /\ considered' = considered + 1
  /\ UNCHANGED <<configured, stage, code>>

StartUpNext ==
  \/ ParseFlag \/ Parsed \/ ParseFails
  \/ ReadConfig \/ ReadConfigFails \/ APIClient \/ APIClientFails
  \/ NextKind

-----------------------------------------------------------------------------
\* Types, and that the generators are those of the sections come by.
StartUpTypeOK ==
  /\ input \in Inputs
  /\ args \in Seq([flag : Flags, value : Values])
  /\ given \in [Flags -> SUBSET Values]
  /\ conf \in Configs
  /\ api \in [HTTPFields -> Values]
  /\ considered \in 0 .. Len(Kinds) /\ draws \in Nat
  /\ Len(seeds) = Len(generators)
  /\ seeds \in Seq([of : Values, draw : Nat])
  /\ generators \in Seq(Range(Kinds))
  /\ \A i \in 1 .. considered :
       Kinds[i] \in Range(generators) <=> Sections(Kinds[i]) # {}
  /\ code \in 0 .. 2

\* "the values used with a particular seed remain predictable across runs even
\* if additional load of another variety is added": under -seed every
\* generator gets the draw of its own place, whatever other sections there are
\* and whatever the file says.
SeedsKeepTheirPlace ==
  \A i \in 1 .. Len(generators) :
    /\ Option(given, "seed") # "0" => seeds[i].of = Option(given, "seed")
    /\ Kinds[seeds[i].draw] = generators[i]

\* The client acts on the last value given for a flag, an empty one included,
\* and on the environment for a flag that is not given.  The address and the
\* token are the exception: given empty, they are the environment's all the
\* same, even if the flag has had a value before.
LastFlagWins ==
  stage \notin {"flags", "config", "client", "exit"} => \A f \in HTTPFields :
    LET uses == {i \in DOMAIN input.args : input.args[i].flag = f} IN
    \/ uses = {} /\ api[f] = Environment[f]
    \/ \E i \in uses : LET v == input.args[i].value IN
         /\ \A j \in uses : j <= i
         /\ api[f] = IF v = "" /\ f \in Refilled THEN Environment[f] ELSE v

\* Past Normalize nothing is left for it to do: the defaults are filled in and
\* the value sizes in order, whichever of them the user gave.
NormalizedOnce ==
  stage \notin {"flags", "config", "exit"} =>
    /\ ~Refused(conf)
    /\ \A s \in conf.kv : /\ KVNormalized(s) = s
                          /\ s.NumKeys >= 1 => 1 <= s.MinValueSize /\ s.MinValueSize <= s.MaxValueSize
    /\ \A p \in conf.peering : p.ExportTimeout # 0
=============================================================================
