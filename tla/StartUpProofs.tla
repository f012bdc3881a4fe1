----------------------------- MODULE StartUpProofs -----------------------------
(***************************************************************************)
(* Proofs about the start of the command, for any command lines and files: *)
(* what Normalize leaves behind, and which seed a generator gets.  SInv is *)
(* what the steps of StartUp keep; LoadRunProofs continues from it.        *)
(***************************************************************************)
EXTENDS StartUp, TLAPS

Early == {"flags", "config", "client"}

\* Nothing is made before the client is there.
NothingEarly ==
  stage \in Early =>
    considered = 0 /\ draws = 0 /\ generators = <<>> /\ seeds = <<>>

\* From there on the seed is the one of the command line, if it has one.
SeedTaken ==
  stage \notin Early \cup {"exit"} \/ considered > 0 =>
    (Option(given, "seed") # "0" => conf.Seed = Option(given, "seed"))

\* One draw for every kind come by, whether it is used or not.
DrawsInStep ==
  /\ draws = considered
  /\ \A i \in 1 .. Len(generators) :
       /\ seeds[i].draw \in 1 .. considered
       /\ seeds[i].of = conf.Seed
       /\ Kinds[seeds[i].draw] = generators[i]

SInv == StartUpTypeOK /\ NothingEarly /\ SeedTaken /\ DrawsInStep /\ NormalizedOnce

-----------------------------------------------------------------------------
(* Normalize.                                                              *)

\* A section keeps its type, its sizes come out in order, and what has been
\* normalised once is accepted and left alone the next time.
LEMMA KVNormalizedOnce ==
  ASSUME NEW s \in KVSections, ~KVRefused(s)
  PROVE  LET t == KVNormalized(s) IN
         /\ t \in KVSections
         /\ ~KVRefused(t)
         /\ KVNormalized(t) = t
         /\ t.NumKeys >= 1 => 1 <= t.MinValueSize /\ t.MinValueSize <= t.MaxValueSize
<1>1. CASE s.NumKeys < 1
  BY <1>1 DEF KVNormalized, KVRefused, KVSections
<1>2. CASE ~(s.NumKeys < 1)
  <2> DEFINE min == Default(s.MinValueSize, 256)
             max == AtLeast(min, Default(s.MaxValueSize, 4096))
             seg == Default(s.KeySegments, 3)
             t == KVNormalized(s)
  <2>1. /\ min \in Int /\ max \in Int /\ seg \in Int
        /\ 1 <= min /\ min <= max /\ 1 <= seg
    BY DEF Default, AtLeast, KVSections
  <2>2. t = [NumKeys |-> s.NumKeys, UpdateRate |-> s.UpdateRate, KeySegments |-> seg,
             MinValueSize |-> min, MaxValueSize |-> max]
    BY <1>2 DEF KVNormalized, Filled
  <2> HIDE DEF t, min, max, seg
  <2>3. t \in KVSections /\ ~KVRefused(t)
    BY <2>1, <2>2 DEF KVSections, KVRefused
  <2>4. /\ Default(seg, 3) = seg /\ Default(min, 256) = min
        /\ AtLeast(min, Default(max, 4096)) = max
    BY <2>1 DEF Default, AtLeast
  <2>5. KVNormalized(t) = t
    BY <2>2, <2>4, <1>2 DEF KVNormalized, Filled
  <2>6. QED BY <2>1, <2>2, <2>3, <2>5 DEF t
<1>3. QED BY <1>1, <1>2

LEMMA PeeringNormalizedOnce ==
  ASSUME NEW p \in PeeringSections, ~PeeringRefused(p)
  PROVE  LET q == PeeringNormalized(p) IN
         q \in PeeringSections /\ ~PeeringRefused(q) /\ q.ExportTimeout # 0
BY DEF PeeringSections, PeeringNormalized, PeeringRefused

\* The same for a whole file, whatever seed it is given afterwards.
LEMMA FileNormalizedOnce ==
  ASSUME NEW file \in Configs, ~Refused(file)
  PROVE  LET c == Normalized(file) IN
         /\ c \in Configs
         /\ ~Refused(c)
         /\ \A s \in c.kv : /\ KVNormalized(s) = s
                            /\ s.NumKeys >= 1 => 1 <= s.MinValueSize /\ s.MinValueSize <= s.MaxValueSize
         /\ \A p \in c.peering : p.ExportTimeout # 0
<1> DEFINE c == Normalized(file)
           K == {KVNormalized(s) : s \in file.kv}
           P == {PeeringNormalized(p) : p \in file.peering}
<1>1. /\ c.kv = K /\ c.peering = P /\ c.catalog = file.catalog
      /\ c = [Seed |-> c.Seed, kv |-> K, peering |-> P, catalog |-> file.catalog]
      /\ c.Seed \in Values
  <2>1. file.Seed \in Values /\ "clock" \in Values
    BY ValuesTyped DEF Configs
  <2>2. c.Seed \in Values
    BY <2>1 DEF Normalized
  <2>3. c = [Seed |-> c.Seed, kv |-> K, peering |-> P, catalog |-> file.catalog]
    BY DEF Normalized
  <2> HIDE DEF c
  <2>4. QED BY <2>2, <2>3
<1>2. file.kv \subseteq KVSections /\ file.peering \subseteq PeeringSections
      /\ file.catalog \subseteq CatalogSections
  BY DEF Configs
<1>3. \A s \in K : /\ s \in KVSections /\ ~KVRefused(s) /\ KVNormalized(s) = s
                   /\ s.NumKeys >= 1 => 1 <= s.MinValueSize /\ s.MinValueSize <= s.MaxValueSize
  BY <1>2, KVNormalizedOnce DEF Refused
<1>4. \A p \in P : p \in PeeringSections /\ ~PeeringRefused(p) /\ p.ExportTimeout # 0
  BY <1>2, PeeringNormalizedOnce DEF Refused
<1> HIDE DEF c, K, P
<1>5. c \in Configs
  BY <1>1, <1>2, <1>3, <1>4 DEF Configs
<1>6. ~Refused(c)
  BY <1>1, <1>3, <1>4 DEF Refused
<1>7. QED BY <1>1, <1>3, <1>4, <1>5, <1>6 DEF c

-----------------------------------------------------------------------------
(* The steps of the start.                                                 *)

LEMMA KindsType == Len(Kinds) = 3 /\ Kinds[1] = "catalog" /\ Kinds[2] = "kv" /\ Kinds[3] = "peering"
BY DEF Kinds

\* A sequence that has x appended holds x besides what it held.
LEMMA AppendRange ==
  ASSUME NEW S, NEW s \in Seq(S), NEW x \in S
  PROVE  Range(Append(s, x)) = Range(s) \cup {x}
<1>1. /\ DOMAIN s = 1 .. Len(s) /\ DOMAIN Append(s, x) = 1 .. (Len(s) + 1)
      /\ Len(s) \in Nat
  OBVIOUS
<1>2. \A i \in 1 .. Len(s) : Append(s, x)[i] = s[i]
  OBVIOUS
<1>3. Append(s, x)[Len(s) + 1] = x
  OBVIOUS
<1>4. 1 .. (Len(s) + 1) = (1 .. Len(s)) \cup {Len(s) + 1}
  BY <1>1
<1>5. QED BY <1>1, <1>2, <1>3, <1>4, Zenon DEF Range

\* The value of a flag is one of those that can be written.
LEMMA OptionType ==
  ASSUME given \in [Flags -> SUBSET Values], NEW f \in DOMAIN Defaults
  PROVE  Option(given, f) \in Values
<1>1. f \in Flags /\ given[f] \subseteq Values /\ Defaults[f] \in Values
  BY ValuesTyped DEF Flags
<1>2. QED BY <1>1 DEF Option, Merge

LEMMA StartUpBegins == StartUpInit => SInv
<1> SUFFICES ASSUME StartUpInit PROVE SInv
  OBVIOUS
<1>1. input.args \in Seq([flag : Flags, value : Values])
  BY InputsTyped DEF StartUpInit
<1>2. given \in [Flags -> SUBSET Values]
  BY DEF StartUpInit, NoFlags
<1>3. conf \in Configs
  <2>1. "0" \in Values
    <3>1. Defaults["seed"] = "0" /\ "seed" \in DOMAIN Defaults
      BY DEF Defaults
    <3>2. QED BY <3>1, ValuesTyped
  <2>2. QED BY <2>1 DEF StartUpInit, NoConfig, Configs
<1>4. StartUpTypeOK
  BY <1>1, <1>2, <1>3, KindsType, ValuesTyped DEF StartUpInit, StartUpTypeOK
<1>5. QED
  BY <1>4 DEF StartUpInit, SInv, NothingEarly, Early, SeedTaken, DrawsInStep, NormalizedOnce

\* Whatever the stage, what was made stays as it is.
LEMMA StartUpStays ==
  ASSUME SInv, UNCHANGED startUp, code' \in 0 .. 2,
         \/ stage' = stage
         \/ stage' = "exit"
         \/ stage = "flags" /\ stage' = "config"
         \/ stage \notin Early \cup {"exit"} /\ stage' \notin Early
  PROVE  SInv'
<1> USE DEF SInv, startUp, configured, made
<1>1. StartUpTypeOK'
  BY DEF StartUpTypeOK, Sections
<1>2. NothingEarly' /\ SeedTaken'
  BY DEF NothingEarly, SeedTaken, Early
<1>3. DrawsInStep' /\ NormalizedOnce'
  BY DEF DrawsInStep, NormalizedOnce, Early
<1>4. QED BY <1>1, <1>2, <1>3

LEMMA ParseFlagStep == ASSUME SInv, ParseFlag PROVE SInv'
<1> USE DEF SInv, ParseFlag, made
<1>1. Head(args) \in [flag : Flags, value : Values] /\ Tail(args) \in Seq([flag : Flags, value : Values])
  <2> DEFINE A == [flag : Flags, value : Values]
  <2>1. args \in Seq(A) /\ args # <<>>
    BY DEF StartUpTypeOK
  <2> HIDE DEF A
  <2>2. Head(args) \in A /\ Tail(args) \in Seq(A)
    BY <2>1
  <2>3. QED BY <2>2 DEF A
<1>2. given' \in [Flags -> SUBSET Values]
  <2>1. Head(args).flag \in Flags /\ Head(args).value \in Values
    BY <1>1
  <2>2. given \in [Flags -> SUBSET Values] /\ given' = [given EXCEPT ![Head(args).flag] = {Head(args).value}]
    BY DEF StartUpTypeOK, Set
  <2>3. QED BY <2>1, <2>2
<1>3. StartUpTypeOK'
  BY <1>1, <1>2 DEF StartUpTypeOK, Sections
<1>4. QED
  BY <1>3 DEF NothingEarly, Early, SeedTaken, DrawsInStep, NormalizedOnce, StartUpTypeOK

LEMMA ReadConfigStep == ASSUME SInv, ReadConfig PROVE SInv'
<1> USE DEF SInv, ReadConfig, made
<1>1. PICK file \in input.file : ~Refused(file) /\ conf' = Normalized(file)
  OBVIOUS
<1>2. file \in Configs
  BY InputsTyped DEF StartUpTypeOK
<1>3. conf' \in Configs /\ NormalizedOnce'
  BY <1>1, <1>2, FileNormalizedOnce DEF NormalizedOnce
<1>4. StartUpTypeOK'
  BY <1>3 DEF StartUpTypeOK, Sections, NothingEarly, Early
<1>5. QED
  BY <1>3, <1>4 DEF NothingEarly, Early, SeedTaken, DrawsInStep, StartUpTypeOK

LEMMA APIClientStep == ASSUME SInv, APIClient PROVE SInv'
<1> USE DEF SInv, APIClient, made
<1>1. Option(given, "seed") \in Values /\ "clock" \in Values
  BY OptionType, ValuesTyped DEF StartUpTypeOK, Defaults
<1>2. /\ conf' \in Configs /\ conf'.kv = conf.kv /\ conf'.peering = conf.peering
      /\ conf'.catalog = conf.catalog
      /\ Option(given, "seed") # "0" => conf'.Seed = Option(given, "seed")
  BY <1>1 DEF WithSeed, StartUpTypeOK, Configs
<1>3. api' \in [HTTPFields -> Values]
  <2>1. ASSUME NEW f \in HTTPFields PROVE Merge(given[f], Environment[f]) \in Values
    BY ValuesTyped DEF StartUpTypeOK, Flags, Merge
  <2>2. QED BY <2>1, ValuesTyped DEF MergeOntoConfig, NewClient
<1>4. StartUpTypeOK'
  BY <1>2, <1>3 DEF StartUpTypeOK, NothingEarly, Early
<1>5. NormalizedOnce'
  BY <1>2 DEF NormalizedOnce, Refused
<1>6. QED
  BY <1>2, <1>4, <1>5 DEF NothingEarly, Early, SeedTaken, DrawsInStep, StartUpTypeOK

LEMMA NextKindStep == ASSUME SInv, NextKind PROVE SInv'
<1> USE DEF SInv, NextKind, configured
<1> DEFINE k == Kinds[considered + 1]
           new == [of |-> conf.Seed, draw |-> draws']
<1>1. /\ considered \in 0 .. 2 /\ considered' = considered + 1
      /\ draws' = considered'
      /\ k \in Range(Kinds) /\ conf.Seed \in Values
  BY KindsType DEF StartUpTypeOK, DrawsInStep, DrawnFor, Range, Configs
<1>2. \A j \in 1 .. considered : Kinds[j] # k
  BY <1>1, KindsType
<1>3. generators \in Seq(Range(Kinds)) /\ seeds \in Seq([of : Values, draw : Nat])
      /\ Len(seeds) = Len(generators)
  BY DEF StartUpTypeOK
<1>3a. k \notin Range(generators)
  <2>1. ASSUME NEW i \in 1 .. Len(generators) PROVE generators[i] # k
    <3>1. seeds[i].draw \in 1 .. considered /\ Kinds[seeds[i].draw] = generators[i]
      BY <2>1 DEF DrawsInStep
    <3>2. QED BY <3>1, <1>2
  <2>2. QED BY <2>1, <1>3 DEF Range
<1>4. CASE Sections(k) = {}
  <2>1. generators' = generators /\ seeds' = seeds
    BY <1>4
  <2>2. StartUpTypeOK'
    <3> HIDE DEF new
    <3>1. \A i \in 1 .. considered' :
            Kinds[i] \in Range(generators') <=> Sections(Kinds[i])' # {}
      <4> SUFFICES ASSUME NEW i \in 1 .. considered'
                   PROVE  Kinds[i] \in Range(generators) <=> Sections(Kinds[i]) # {}
        BY <2>1, <1>1 DEF Sections
      <4>1. CASE i \in 1 .. considered
        BY <4>1 DEF StartUpTypeOK
      <4>2. CASE i = considered + 1
        BY <4>2, <1>4, <1>3a
      <4>3. QED BY <4>1, <4>2, <1>1
    <3>2. /\ input' = input /\ args' = args /\ given' = given /\ conf' = conf
          /\ api' = api /\ code' = code
      OBVIOUS
    <3>3. QED BY <2>1, <3>1, <3>2, <1>1, <1>3, KindsType DEF StartUpTypeOK, Sections
  <2>3. QED
    BY <2>1, <2>2, <1>1 DEF NothingEarly, Early, SeedTaken, DrawsInStep, NormalizedOnce
<1>5. CASE Sections(k) # {}
  <2>1. generators' = Append(generators, k) /\ seeds' = Append(seeds, new)
    BY <1>5
  <2>2. new \in [of : Values, draw : Nat]
    BY <1>1
  <2> HIDE DEF new, k
  <2>3. /\ generators' \in Seq(Range(Kinds)) /\ seeds' \in Seq([of : Values, draw : Nat])
        /\ Len(seeds') = Len(generators')
    BY <2>1, <2>2, <1>1, <1>3
  <2>4. Range(generators') = Range(generators) \cup {k}
    <3>1. generators \in Seq(Range(Kinds)) /\ k \in Range(Kinds)
      BY <1>1, <1>3
    <3>2. QED BY <3>1, <2>1, AppendRange
  <2>5. StartUpTypeOK'
    <3>1. \A i \in 1 .. considered' :
            Kinds[i] \in Range(generators') <=> Sections(Kinds[i])' # {}
      <4> SUFFICES ASSUME NEW i \in 1 .. considered'
                   PROVE  Kinds[i] \in Range(generators) \cup {k} <=> Sections(Kinds[i]) # {}
        BY <2>4, <1>1 DEF Sections
      <4>1. CASE i \in 1 .. considered
        BY <4>1, <1>2 DEF StartUpTypeOK
      <4>2. CASE i = considered + 1
        BY <4>2, <1>5 DEF k
      <4>3. QED BY <4>1, <4>2, <1>1
    <3>2. /\ input' = input /\ args' = args /\ given' = given /\ conf' = conf
          /\ api' = api /\ code' = code
      OBVIOUS
    <3>3. QED BY <2>3, <3>1, <3>2, <1>1, KindsType DEF StartUpTypeOK, Sections
  <2>6. DrawsInStep'
    BY <2>1, <2>2, <1>1, <1>3 DEF DrawsInStep, k, new
  <2>7. QED
    BY <2>5, <2>6, <1>1 DEF NothingEarly, Early, SeedTaken, NormalizedOnce
<1>6. QED BY <1>4, <1>5

LEMMA StartUpKeeps == SInv /\ StartUpNext => SInv'
<1> SUFFICES ASSUME SInv, StartUpNext PROVE SInv'
  OBVIOUS
<1>1. CASE ParseFlag
  BY <1>1, ParseFlagStep
<1>2. CASE Parsed
  <2>1. UNCHANGED startUp /\ code \in 0 .. 2
    BY <1>2 DEF Parsed, SInv, StartUpTypeOK
  <2>2. \/ stage' = "exit" /\ code' = 1
        \/ stage = "flags" /\ stage' = "config" /\ code' = code
    BY <1>2 DEF Parsed, ExitWith
  <2>3. QED BY <2>1, <2>2, StartUpStays
<1>3. CASE ParseFails \/ ReadConfigFails \/ APIClientFails
  BY <1>3, StartUpStays DEF ParseFails, ReadConfigFails, APIClientFails, ExitWith
<1>4. CASE ReadConfig
  BY <1>4, ReadConfigStep
<1>5. CASE APIClient
  BY <1>5, APIClientStep
<1>6. CASE NextKind
  BY <1>6, NextKindStep
<1>7. QED BY <1>1, <1>2, <1>3, <1>4, <1>5, <1>6 DEF StartUpNext

LEMMA PlacesKept == SInv => SeedsKeepTheirPlace
<1> SUFFICES ASSUME SInv, NEW i \in 1 .. Len(generators)
             PROVE  /\ Option(given, "seed") # "0" => seeds[i].of = Option(given, "seed")
                    /\ Kinds[seeds[i].draw] = generators[i]
  BY DEF SeedsKeepTheirPlace
<1>1. considered > 0 /\ seeds[i].of = conf.Seed
  BY KindsType DEF SInv, DrawsInStep, StartUpTypeOK
<1>2. QED BY <1>1 DEF SInv, DrawsInStep, SeedTaken

-----------------------------------------------------------------------------
(* The flags.                                                              *)

\* Of the first n arguments the last one for f has the value, if one is for f.
LastOf(all, n, f, value) ==
  \/ value = {} /\ \A j \in 1 .. n : all[j].flag # f
  \/ \E i \in 1 .. n : /\ all[i].flag = f /\ value = {all[i].value}
                        /\ \A j \in 1 .. n : j > i => all[j].flag # f

\* given is what the arguments parsed so far say.
FlagsInv ==
  /\ Len(args) <= Len(input.args)
  /\ \A i \in 1 .. Len(args) : args[i] = input.args[Len(input.args) - Len(args) + i]
  /\ \A f \in Flags : LastOf(input.args, Len(input.args) - Len(args), f, given[f])
  /\ stage \notin {"flags", "exit"} => args = <<>>
  /\ stage \notin Early \cup {"exit"} => api = NewClient(MergeOntoConfig(given))

LEMMA FlagsBegin == StartUpInit => FlagsInv
<1> SUFFICES ASSUME StartUpInit PROVE FlagsInv
  OBVIOUS
<1>1. args = input.args /\ args \in Seq([flag : Flags, value : Values])
  BY InputsTyped DEF StartUpInit
<1>2. Len(args) \in Nat /\ Len(input.args) - Len(args) = 0
  BY <1>1
<1>3. \A f \in Flags : given[f] = {}
  BY DEF StartUpInit, NoFlags
<1>4. QED BY <1>1, <1>2, <1>3 DEF StartUpInit, FlagsInv, LastOf, Early

LEMMA FlagsStay ==
  ASSUME FlagsInv, UNCHANGED startUp,
         \/ stage' = stage
         \/ stage' = "exit"
         \/ stage = "flags" /\ args = <<>> /\ stage' = "config"
         \/ stage \notin Early \cup {"exit"} /\ stage' \notin Early
  PROVE  FlagsInv'
BY DEF FlagsInv, startUp, configured, Early, NewClient, MergeOntoConfig

\* One argument more.
LEMMA FlagParsed == ASSUME SInv, FlagsInv, ParseFlag PROVE FlagsInv'
<1> DEFINE n == Len(input.args) - Len(args)
           a == input.args[n + 1]
<1>1. /\ input.args \in Seq([flag : Flags, value : Values])
      /\ args \in Seq([flag : Flags, value : Values]) /\ args # <<>>
  BY InputsTyped DEF SInv, StartUpTypeOK, ParseFlag
<1>2. /\ Len(args) \in Nat \ {0} /\ Len(input.args) \in Nat /\ n \in Nat
      /\ Len(args') = Len(args) - 1 /\ Len(input.args') - Len(args') = n + 1
      /\ \A i \in 1 .. Len(args') : args'[i] = args[i + 1] /\ i + 1 \in 1 .. Len(args)
  BY <1>1 DEF ParseFlag, FlagsInv
<1>3. Head(args) = a
  <2>1. Head(args) = args[1] /\ 1 \in 1 .. Len(args)
    BY <1>1, <1>2
  <2>2. QED BY <2>1 DEF FlagsInv
<1>4. given \in [Flags -> SUBSET Values] /\ given' = [given EXCEPT ![a.flag] = {a.value}]
  BY <1>3 DEF ParseFlag, Set, SInv, StartUpTypeOK
<1>5. input' = input /\ api' = api /\ stage = "flags" /\ stage' = stage
  BY DEF ParseFlag
<1> HIDE DEF a
<1>6. \A i \in 1 .. Len(args') : args'[i] = input.args[n + 1 + i]
  BY <1>2 DEF FlagsInv
<1>7. ASSUME NEW f \in Flags PROVE LastOf(input.args, n, f, given[f])
  BY DEF FlagsInv
<1> HIDE DEF n
<1>8. ASSUME NEW f \in Flags PROVE LastOf(input.args, n + 1, f, given'[f])
  <2>1. \A j \in 1 .. n + 1 : j \in 1 .. n \/ j = n + 1
    BY <1>2
  <2>2. CASE f = a.flag
    <3>1. given'[f] = {a.value} /\ n + 1 \in 1 .. n + 1
      BY <1>2, <1>4, <2>2
    <3>2. \A j \in 1 .. n + 1 : ~(j > n + 1)
      BY <1>2
    <3>3. QED BY <2>2, <3>1, <3>2 DEF LastOf, a
  <2>3. CASE f # a.flag
    <3>1. given'[f] = given[f]
      BY <1>4, <2>3
    <3>2. input.args[n + 1].flag # f
      BY <2>3 DEF a
    <3>3. CASE given[f] = {} /\ \A j \in 1 .. n : input.args[j].flag # f
      BY <2>1, <3>1, <3>2, <3>3 DEF LastOf
    <3>4. ASSUME NEW i \in 1 .. n, input.args[i].flag = f, given[f] = {input.args[i].value},
                 \A j \in 1 .. n : j > i => input.args[j].flag # f
          PROVE  LastOf(input.args, n + 1, f, given'[f])
      <4>1. i \in 1 .. n + 1
        BY <1>2
      <4>2. \A j \in 1 .. n + 1 : j > i => input.args[j].flag # f
        BY <2>1, <3>2, <3>4
      <4>3. QED BY <3>1, <3>4, <4>1, <4>2 DEF LastOf
    <3>5. QED BY <1>7, <3>3, <3>4 DEF LastOf
  <2>4. QED BY <2>2, <2>3
<1>9. QED
  <2>1. \A f \in Flags : LastOf(input.args', Len(input.args') - Len(args'), f, given'[f])
    BY <1>2, <1>5, <1>8
  <2>2. /\ Len(args') <= Len(input.args')
        /\ \A i \in 1 .. Len(args') : args'[i] = input.args'[Len(input.args') - Len(args') + i]
    BY <1>2, <1>5, <1>6
  <2>3. QED BY <1>5, <2>1, <2>2 DEF FlagsInv, Early

LEMMA FlagsKeep == SInv /\ FlagsInv /\ StartUpNext => FlagsInv'
<1> SUFFICES ASSUME SInv, FlagsInv, StartUpNext PROVE FlagsInv'
  OBVIOUS
<1>1. CASE ParseFlag
  BY <1>1, FlagParsed
<1>2. CASE Parsed \/ ParseFails \/ ReadConfigFails \/ APIClientFails
  BY <1>2, FlagsStay DEF Parsed, ParseFails, ReadConfigFails, APIClientFails, ExitWith
<1>3. CASE ReadConfig \/ NextKind
  <2>1. /\ UNCHANGED <<input, args, given, api>>
        /\ \/ stage = "config" /\ stage' = "client"
           \/ stage = "new" /\ stage' = stage
    BY <1>3 DEF ReadConfig, NextKind, configured
  <2>2. QED BY <2>1 DEF FlagsInv, Early, NewClient, MergeOntoConfig
<1>4. CASE APIClient
  BY <1>4 DEF APIClient, FlagsInv, Early, NewClient, MergeOntoConfig
<1>5. QED BY <1>1, <1>2, <1>3, <1>4 DEF StartUpNext

\* The client has the only value its field may have.
LEMMA FlagsUsed == SInv /\ FlagsInv => LastFlagWins
<1> SUFFICES ASSUME SInv, FlagsInv, stage \notin Early \cup {"exit"}, NEW f \in HTTPFields
             PROVE  LET uses == {i \in DOMAIN input.args : input.args[i].flag = f} IN
                    \/ uses = {} /\ api[f] = Environment[f]
                    \/ \E i \in uses : LET v == input.args[i].value IN
                         /\ \A j \in uses : j <= i
                         /\ api[f] = IF v = "" /\ f \in Refilled THEN Environment[f] ELSE v
  BY DEF LastFlagWins, Early
<1> DEFINE n == Len(input.args)
           Used(v) == IF v = "" /\ f \in Refilled THEN Environment[f] ELSE v
<1>1. /\ n \in Nat /\ DOMAIN input.args = 1 .. n
  BY InputsTyped DEF SInv, StartUpTypeOK
<1>2. LastOf(input.args, n, f, given[f])
  <2>1. Len(args) = 0 /\ f \in Flags
    BY DEF FlagsInv, Early, Flags
  <2>2. QED BY <1>1, <2>1 DEF FlagsInv
<1>3. api[f] = Used(Merge(given[f], Environment[f]))
  BY DEF FlagsInv, NewClient, MergeOntoConfig
<1> HIDE DEF n
<1>4. CASE given[f] = {} /\ \A j \in 1 .. n : input.args[j].flag # f
  <2>1. api[f] = Environment[f]
    BY <1>3, <1>4 DEF Merge
  <2>2. QED BY <1>1, <1>4, <2>1
<1>5. ASSUME NEW i \in 1 .. n, input.args[i].flag = f, given[f] = {input.args[i].value},
             \A j \in 1 .. n : j > i => input.args[j].flag # f
      PROVE  LET uses == {k \in DOMAIN input.args : input.args[k].flag = f} IN
             \E k \in uses : /\ \A j \in uses : j <= k
                            /\ api[f] = Used(input.args[k].value)
  <2>1. api[f] = Used(input.args[i].value)
    BY <1>3, <1>5 DEF Merge
  <2> HIDE DEF Used
  <2>2. \A j \in 1 .. n : input.args[j].flag = f => j <= i
    BY <1>1, <1>5
  <2>3. QED BY <1>1, <1>5, <2>1, <2>2
<1>6. QED BY <1>2, <1>4, <1>5 DEF LastOf
=============================================================================
