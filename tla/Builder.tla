------------------------------ MODULE Builder ------------------------------
(***************************************************************************)
(* The chain builder of lib/src/conf.rs.                                   *)
(*                                                                         *)
(* A program sets the mode a Config is configured for (which also picks   *)
(* the log formats), makes a ChainOfTrustBuilder from it, adjusts the      *)
(* pipeline with with_defaults, without_defaults and the add_* calls, and *)
(* builds the chain.  The stages of the pipeline are names: the model     *)
(* tells the default stages apart, a stage the program supplies is        *)
(* "Custom", and a TimestampEnforcer carries its tolerance.               *)
(***************************************************************************)
EXTENDS Naturals, Sequences

CONSTANTS
    RootKeys,   \* public keys a program may add as roots of the tree
    MaxAdds,    \* most add_* calls a program makes on one builder
    NoChain     \* no chain was built yet

ASSUME BuilderAssumption == MaxAdds \in Nat

Modes == {"Raw", "Barebone", "SmallestSize", "BestPerformance",
          "BestCompatibility", "Balanced", "BestSecurity"}
Formats == {"Bincode", "Json"}

\* A plugin: its kind and, for a TimestampEnforcer, its tolerance in ms.
Plugin(kind, tol) == [kind |-> kind, tol |-> tol]
Plugins == [kind: {"AntiReplay", "Timestamp", "Custom"},
            tol: {0, 200, 500, 2000}]

\* Option<TreeAuthorityPlugin>: present or not, with its root keys.
NoTree == [on |-> FALSE, roots |-> {}]
Trees == [on: BOOLEAN, roots: SUBSET RootKeys]

ConfigType == [for: Modes, meta: Formats, data: Formats]

\* A ChainOfTrustBuilder.  A ghost field records the calls made on it:
\* defaults (the last reset was with_defaults, not without_defaults).
BuilderType ==
    [cfg: ConfigType, for: Modes,
     validators: Seq({"RubberStamp", "Custom"}),
     compactors: Seq({"RemoveDuplicates", "Tombstone", "Custom"}),
     linters: Seq({"Custom"}),
     transformers: Seq({"Compressor", "Custom"}),
     indexers: Seq({"Custom"}),
     plugins: Seq(Plugins),
     tree: Trees, truncate: BOOLEAN,
     defaults: BOOLEAN]

VARIABLES
    cfg,         \* the program's Config
    hasBuilder,  \* a builder is in hand
    builder,     \* that builder
    chain,       \* the pipeline of the chain built last, or NoChain
    adds         \* add_* calls made on the builder in hand

vars == <<cfg, hasBuilder, builder, chain, adds>>

TypeOK ==
    /\ cfg \in ConfigType
    /\ hasBuilder \in BOOLEAN
    /\ builder \in BuilderType
    /\ chain \in BuilderType \cup {NoChain}
    /\ adds \in 0..MaxAdds

\* Config::default(): configured for Balanced, meta Bincode, data Json.
DefaultConfig == [for |-> "Balanced", meta |-> "Bincode", data |-> "Json"]

\* Config::configured_for: the mode, and the log formats it implies.
ConfiguredFor(c, m) ==
    [c EXCEPT !.for = m,
              !.meta = IF m = "BestCompatibility" THEN "Json" ELSE "Bincode",
              !.data = IF m = "BestPerformance" THEN "Bincode" ELSE "Json"]

\* The timestamp tolerance with_defaults picks for a mode.
Tolerance(m) ==
    CASE m = "BestPerformance" -> 2000
      [] m = "BestSecurity"    -> 200
      [] OTHER                 -> 500

\* Mutant: a reset that forgets to clear the plugins.
ClearedKeepsPlugins(b) ==
    [b EXCEPT !.validators = << >>, !.indexers = << >>, !.linters = << >>,
              !.transformers = << >>, !.compactors = << >>, !.tree = NoTree,
              !.truncate = FALSE]

\* with_defaults and without_defaults both start by clearing every list
\* and dropping the tree authority.
Cleared(b) ==
    [b EXCEPT !.validators = << >>, !.indexers = << >>, !.linters = << >>,
              !.transformers = << >>, !.plugins = << >>,
              !.compactors = << >>, !.tree = NoTree, !.truncate = FALSE]

\* ChainOfTrustBuilder::with_defaults: Raw keeps the cleared builder;
\* otherwise push the two compactors and anti-replay, put the compressor
\* first for SmallestSize and Balanced, then either push the rubber stamp
\* (Barebone) or set the tree authority and push a TimestampEnforcer.
WithDefaultsOf(b) ==
    LET c == [Cleared(b) EXCEPT !.defaults = TRUE]
        m == b.for
    IN  IF m = "Raw" THEN c
        ELSE [c EXCEPT
                !.compactors = @ \o <<"RemoveDuplicates", "Tombstone">>,
                !.transformers =
                    IF m \in {"SmallestSize", "Balanced"}
                    THEN <<"Compressor">> \o @ ELSE @,
                !.validators =
                    IF m = "Barebone" THEN Append(@, "RubberStamp") ELSE @,
                !.tree =
                    IF m = "Barebone" THEN @ ELSE [on |-> TRUE, roots |-> {}],
                !.plugins =
                    @ \o <<Plugin("AntiReplay", 0)>>
                    \o IF m = "Barebone" THEN << >>
                       ELSE <<Plugin("Timestamp", Tolerance(m))>>]

\* ChainOfTrustBuilder::new(cfg): a copy of the config and its mode, every
\* list empty, then with_defaults.
NewOf(c) ==
    WithDefaultsOf([cfg |-> c, for |-> c.for,
                    validators |-> << >>, compactors |-> << >>,
                    linters |-> << >>, transformers |-> << >>,
                    indexers |-> << >>, plugins |-> << >>,
                    tree |-> NoTree, truncate |-> FALSE,
                    defaults |-> TRUE])

-----------------------------------------------------------------------------

Init ==
    /\ cfg = DefaultConfig
    /\ hasBuilder = FALSE
    /\ builder = NewOf(DefaultConfig)
    /\ chain = NoChain
    /\ adds = 0

\* The program configures its Config for a mode.
ConfigureFor(m) ==
    /\ cfg' = ConfiguredFor(cfg, m)
    /\ UNCHANGED <<hasBuilder, builder, chain, adds>>

\* ChainOfTrustBuilder::new(&cfg).
New ==
    /\ ~hasBuilder
    /\ hasBuilder' = TRUE
    /\ builder' = NewOf(cfg)
    /\ adds' = 0
    /\ UNCHANGED <<cfg, chain>>

\* ChainOfTrustBuilder::default(): new(&Config::default()).
Default ==
    /\ ~hasBuilder
    /\ hasBuilder' = TRUE
    /\ builder' = NewOf(DefaultConfig)
    /\ adds' = 0
    /\ UNCHANGED <<cfg, chain>>

WithDefaults ==
    /\ hasBuilder
    /\ builder' = WithDefaultsOf(builder)
    /\ UNCHANGED <<cfg, hasBuilder, chain, adds>>

WithoutDefaults ==
    /\ hasBuilder
    /\ builder' = [Cleared(builder) EXCEPT !.defaults = FALSE]
    /\ UNCHANGED <<cfg, hasBuilder, chain, adds>>

\* add_compactor, add_validator, add_metadata_linter, add_data_transformer,
\* add_indexer and add_plugin each push a stage the program supplies.
AddStage(list, stage) ==
    /\ hasBuilder
    /\ adds < MaxAdds
    /\ builder' = [builder EXCEPT ![list] = Append(@, stage)]
    /\ adds' = adds + 1
    /\ UNCHANGED <<cfg, hasBuilder, chain>>

AddCompactor   == AddStage("compactors", "Custom")
AddValidator   == AddStage("validators", "Custom")
AddLinter      == AddStage("linters", "Custom")
AddTransformer == AddStage("transformers", "Custom")
AddIndexer     == AddStage("indexers", "Custom")
AddPlugin      == AddStage("plugins", Plugin("Custom", 0))

\* add_root_public_key: the key goes to the tree authority if there is one,
\* and is dropped without a word if there is none.
AddRootPublicKey(k) ==
    /\ hasBuilder
    /\ adds < MaxAdds
    /\ builder' = [builder EXCEPT
                     !.tree = IF @.on
                              THEN [on |-> TRUE, roots |-> @.roots \cup {k}]
                              ELSE @]
    /\ adds' = adds + 1
    /\ UNCHANGED <<cfg, hasBuilder, chain>>

\* build(self, key): Chain::new consumes the builder and either opens the
\* chain with its pipeline or fails.  The builder is gone; its variable
\* returns to the value it has before the first one is made.
Build ==
    /\ hasBuilder
    /\ hasBuilder' = FALSE
    /\ \/ chain' = builder
       \/ UNCHANGED chain
    /\ builder' = NewOf(DefaultConfig)
    /\ adds' = 0
    /\ UNCHANGED cfg

Next ==
    \/ \E m \in Modes : ConfigureFor(m)
    \/ New
    \/ Default
    \/ WithDefaults
    \/ WithoutDefaults
    \/ AddCompactor \/ AddValidator \/ AddLinter
    \/ AddTransformer \/ AddIndexer \/ AddPlugin
    \/ \E k \in RootKeys : AddRootPublicKey(k)
    \/ Build

Spec == Init /\ [][Next]_vars

-----------------------------------------------------------------------------
(* Properties                                                              *)

\* The TimestampEnforcers of a pipeline.
Enforcers(b) == {i \in 1..Len(b.plugins) : b.plugins[i].kind = "Timestamp"}

\* The spec's tolerance table (I7): 2000 ms for performance, 200 ms for
\* security, 500 ms otherwise.
SpecTolerance(m) ==
    IF m = "BestPerformance" THEN 2000
    ELSE IF m = "BestSecurity" THEN 200 ELSE 500

\* A chain built on the defaults enforces what I5 and I7 ask of its mode,
\* whatever the program added or reset before building: Raw and Barebone
\* have no tree authority and no timestamp window; every other mode has
\* the tree authority and exactly one TimestampEnforcer, with the
\* tolerance of the table.
PipelineMatchesMode ==
    chain # NoChain /\ chain.defaults =>
        IF chain.for \in {"Raw", "Barebone"}
        THEN ~chain.tree.on /\ Enforcers(chain) = {}
        ELSE /\ chain.tree.on
             /\ \E i \in Enforcers(chain) :
                    /\ Enforcers(chain) = {i}
                    /\ chain.plugins[i].tol = SpecTolerance(chain.for)
=============================================================================
