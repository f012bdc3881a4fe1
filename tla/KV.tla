---------------------------------- MODULE KV ----------------------------------
(***************************************************************************)
(* load/kv as far as it depends on its section of the configuration:       *)
(* Normalize in config.go, and what Initialize and Run in generator.go     *)
(* then do.  Rates are counted in hundredths of an update per second.      *)
(***************************************************************************)
EXTENDS Integers

KVSections ==
  [NumKeys : Int, UpdateRate : Int, KeySegments : Int,
   MinValueSize : Int, MaxValueSize : Int]

\* Without keys nothing else in the section is looked at.
KVRefused(s) == s.NumKeys >= 1 /\ s.UpdateRate = 0

Default(value, default) == IF value < 1 THEN default ELSE value

AtLeast(low, value) == IF low > value THEN low ELSE value

Filled(s, min, max) ==
  [NumKeys |-> s.NumKeys, UpdateRate |-> s.UpdateRate,
   KeySegments |-> Default(s.KeySegments, 3),
   MinValueSize |-> min, MaxValueSize |-> max]

\* Mutant: the sizes are compared before their defaults are filled in.
KVCompareFirst(s) ==
  IF s.NumKeys < 1 THEN s
  ELSE Filled(s, Default(s.MinValueSize, 256),
              Default(AtLeast(s.MinValueSize, s.MaxValueSize), 4096))

\* The default of the minimum may lift the maximum the user asked for.
KVNormalized(s) ==
  LET min == Default(s.MinValueSize, 256) IN
  IF s.NumKeys < 1 THEN s
  ELSE Filled(s, min, AtLeast(min, Default(s.MaxValueSize, 4096)))

\* make of a negative length, or a key of fewer words than one.
KVInitializePanics(s) ==
  s.NumKeys < 0 \/ (s.NumKeys >= 1 /\ s.KeySegments < 1)

\* int(UpdateRate*10) is below one, so that the limiter refuses every token.
KVNoBurst(s) == s.UpdateRate < 10
=============================================================================
