--------------------------- MODULE Builder_proofs ---------------------------
(***************************************************************************)
(* Proofs about the chain builder of lib/src/conf.rs: every chain built    *)
(* on the defaults has the pipeline its mode asks for, for every set of    *)
(* root keys and every bound on the add_* calls.                           *)
(***************************************************************************)
EXTENDS Builder, SequenceTheorems, TLAPS

\* The formats of spec 4.7: BestPerformance writes Bincode for both,
\* BestCompatibility Json for both, the others Bincode meta and Json data.
SpecFormats(m) ==
    CASE m = "BestPerformance"   -> <<"Bincode", "Bincode">>
      [] m = "BestCompatibility" -> <<"Json", "Json">>
      [] OTHER                   -> <<"Bincode", "Json">>

\* A Config's formats are the ones its mode implies.
FormatsOK(c, m) == <<c.meta, c.data>> = SpecFormats(m)

\* What with_defaults leaves in a builder, and what no later add_* call
\* disturbs: no tree authority and no TimestampEnforcer for Raw and
\* Barebone; otherwise the tree authority and one TimestampEnforcer, the
\* second plugin, with the mode's tolerance.
DefaultsOK(b) ==
    IF b.for \in {"Raw", "Barebone"}
    THEN ~b.tree.on /\ Enforcers(b) = {}
    ELSE /\ b.tree.on
         /\ Len(b.plugins) >= 2
         /\ Enforcers(b) = {2}
         /\ b.plugins[2].tol = SpecTolerance(b.for)

\* A builder (or the pipeline of a built chain) is well formed: its copy
\* of the Config logs in its mode's formats, and if its last reset was
\* with_defaults it has the default pipeline.
BuilderOK(b) ==
    /\ FormatsOK(b.cfg, b.for)
    /\ b.defaults => DefaultsOK(b)

\* The inductive invariant.
IInv ==
    /\ TypeOK
    /\ FormatsOK(cfg, cfg.for)
    /\ BuilderOK(builder)
    /\ chain # NoChain => BuilderOK(chain)

-----------------------------------------------------------------------------
(* Lemmas about the operators of Builder                                   *)

\* with_defaults' tolerance table is the spec's.
LEMMA ToleranceIsSpec ==
    ASSUME NEW m \in Modes
    PROVE  Tolerance(m) = SpecTolerance(m)
BY DEF Modes, Tolerance, SpecTolerance

\* configured_for yields a Config for the mode, in the mode's formats.
LEMMA ConfiguredForOK ==
    ASSUME NEW c \in ConfigType, NEW m \in Modes
    PROVE  /\ ConfiguredFor(c, m) \in ConfigType
           /\ ConfiguredFor(c, m).for = m
           /\ FormatsOK(ConfiguredFor(c, m), m)
BY DEF ConfiguredFor, ConfigType, Formats, FormatsOK, SpecFormats, Modes

\* Config::default() is a Config in its mode's formats.
LEMMA DefaultConfigOK ==
    /\ DefaultConfig \in ConfigType
    /\ FormatsOK(DefaultConfig, DefaultConfig.for)
BY DEF DefaultConfig, ConfigType, Formats, Modes, FormatsOK, SpecFormats

\* A tuple of one or two elements of S is a sequence over S.
LEMMA TupleSeq ==
    ASSUME NEW S, NEW x \in S, NEW y \in S
    PROVE  <<x>> \in Seq(S) /\ <<x, y>> \in Seq(S)
OBVIOUS

\* Pushing a plugin that is no TimestampEnforcer adds no enforcer.
LEMMA EnforcersAppend ==
    ASSUME NEW s \in Seq(Plugins), NEW x \in Plugins, x.kind # "Timestamp"
    PROVE  {i \in 1..Len(Append(s, x)) : Append(s, x)[i].kind = "Timestamp"}
           = {i \in 1..Len(s) : s[i].kind = "Timestamp"}
<1>1. /\ Len(Append(s, x)) = Len(s) + 1
      /\ \A i \in 1..Len(s) : Append(s, x)[i] = s[i]
      /\ Append(s, x)[Len(s) + 1] = x
    BY AppendProperties
<1>2. Len(s) \in Nat
    BY LenProperties
<1> QED
    BY <1>1, <1>2

\* Clearing keeps a builder's Config, mode and ghost fields.
LEMMA ClearedOK ==
    ASSUME NEW b \in BuilderType
    PROVE  /\ Cleared(b) \in BuilderType
           /\ Cleared(b).cfg = b.cfg /\ Cleared(b).for = b.for
<1>1. /\ << >> \in Seq({"RubberStamp", "Custom"})
      /\ << >> \in Seq({"RemoveDuplicates", "Tombstone", "Custom"})
      /\ << >> \in Seq({"Custom"})
      /\ << >> \in Seq({"Compressor", "Custom"})
      /\ << >> \in Seq(Plugins)
    BY EmptySeq
<1>2. NoTree \in Trees
    BY DEF NoTree, Trees
<1> QED
    BY <1>1, <1>2 DEF Cleared, BuilderType

\* with_defaults yields a builder of the same Config and mode with the
\* default pipeline of that mode.
LEMMA WithDefaultsOK ==
    ASSUME NEW b \in BuilderType
    PROVE  /\ WithDefaultsOf(b) \in BuilderType
           /\ WithDefaultsOf(b).cfg = b.cfg
           /\ WithDefaultsOf(b).for = b.for
           /\ WithDefaultsOf(b).defaults
           /\ DefaultsOK(WithDefaultsOf(b))
<1> DEFINE c == [Cleared(b) EXCEPT !.defaults = TRUE]
           m == b.for
           ar == Plugin("AntiReplay", 0)
<1> USE DEF c, m, ar
<1>1. /\ c \in BuilderType
      /\ c.cfg = b.cfg /\ c.for = m /\ c.defaults
      /\ c.plugins = << >> /\ c.tree = NoTree
      /\ c.validators = << >> /\ c.compactors = << >>
      /\ c.transformers = << >>
    BY ClearedOK DEF Cleared, BuilderType
<1>2. m \in Modes
    BY DEF BuilderType
<1>6. /\ << >> \o <<"RemoveDuplicates", "Tombstone">>
         = <<"RemoveDuplicates", "Tombstone">>
      /\ <<"Compressor">> \o << >> = <<"Compressor">>
      /\ Append(<< >>, "RubberStamp") = <<"RubberStamp">>
    <2>1. /\ <<"RemoveDuplicates", "Tombstone">>
             \in Seq({"RemoveDuplicates", "Tombstone", "Custom"})
          /\ <<"Compressor">> \in Seq({"Compressor", "Custom"})
        BY TupleSeq
    <2> QED
        BY <2>1, ConcatEmptySeq
<1>3. CASE m = "Raw"
    <2>1. WithDefaultsOf(b) = c
        BY <1>3 DEF WithDefaultsOf
    <2>2. Enforcers(c) = {}
        BY <1>1 DEF Enforcers
    <2>3. c.for = "Raw" /\ ~c.tree.on
        BY <1>1, <1>3 DEF NoTree
    <2>4. DefaultsOK(c)
        BY <2>2, <2>3 DEF DefaultsOK
    <2> QED
        BY <1>1, <2>1, <2>4
<1>4. CASE m = "Barebone"
    <2>1. ar \in Plugins
        BY DEF Plugin, Plugins
    <2>2. << >> \o <<ar>> \o << >> = <<ar>>
        <3>1. <<ar>> \in Seq(Plugins)
            BY <2>1
        <3> QED
            BY <3>1, ConcatEmptySeq
    <2> DEFINE w == [c EXCEPT
                       !.compactors = <<"RemoveDuplicates", "Tombstone">>,
                       !.validators = <<"RubberStamp">>,
                       !.plugins = <<ar>>]
    <2> USE DEF w
    <2>3. WithDefaultsOf(b) = w
        BY <1>1, <1>4, <1>6, <2>2 DEF WithDefaultsOf
    <2>4. w \in BuilderType
        <3>1. /\ <<"RemoveDuplicates", "Tombstone">>
                 \in Seq({"RemoveDuplicates", "Tombstone", "Custom"})
              /\ <<"RubberStamp">> \in Seq({"RubberStamp", "Custom"})
              /\ <<ar>> \in Seq(Plugins)
            BY <2>1, TupleSeq
        <3> QED
            BY <1>1, <3>1 DEF BuilderType
    <2>5. Enforcers(w) = {}
        BY DEF Enforcers, Plugin
    <2> QED
        BY <1>1, <1>4, <2>3, <2>4, <2>5 DEF DefaultsOK, NoTree
<1>5. CASE m \notin {"Raw", "Barebone"}
    <2> DEFINE ts == Plugin("Timestamp", Tolerance(m))
    <2>1. ar \in Plugins /\ ts \in Plugins
        BY <1>2 DEF Plugin, Plugins, Tolerance, Modes
    <2>2. << >> \o <<ar>> \o <<ts>> = <<ar, ts>>
        <3>1. <<ar>> \in Seq(Plugins) /\ <<ts>> \in Seq(Plugins)
            BY <2>1
        <3>2. << >> \o <<ar>> = <<ar>>
            BY <3>1, ConcatEmptySeq
        <3>3. /\ Len(<<ar>> \o <<ts>>) = 2
              /\ (<<ar>> \o <<ts>>)[1] = ar
              /\ (<<ar>> \o <<ts>>)[2] = ts
              /\ <<ar>> \o <<ts>> \in Seq(Plugins)
            BY <3>1, ConcatProperties
        <3>4. <<ar, ts>> \in Seq(Plugins)
            BY <2>1, TupleSeq
        <3>5. /\ Len(<<ar>> \o <<ts>>) = Len(<<ar, ts>>)
              /\ \A i \in 1..Len(<<ar>> \o <<ts>>) :
                    (<<ar>> \o <<ts>>)[i] = <<ar, ts>>[i]
            BY <3>3
        <3>6. <<ar>> \o <<ts>> = <<ar, ts>>
            BY <3>3, <3>4, <3>5, SeqEqual
        <3> QED
            BY <3>2, <3>6
    <2> DEFINE w == [c EXCEPT
                       !.compactors = <<"RemoveDuplicates", "Tombstone">>,
                       !.transformers =
                           IF m \in {"SmallestSize", "Balanced"}
                           THEN <<"Compressor">> ELSE << >>,
                       !.tree = [on |-> TRUE, roots |-> {}],
                       !.plugins = <<ar, ts>>]
    <2> USE DEF ts, w
    <2>3. WithDefaultsOf(b) = w
        BY <1>1, <1>5, <1>6, <2>2 DEF WithDefaultsOf
    <2>4. w \in BuilderType
        <3>1. /\ <<"RemoveDuplicates", "Tombstone">>
                 \in Seq({"RemoveDuplicates", "Tombstone", "Custom"})
              /\ <<"Compressor">> \in Seq({"Compressor", "Custom"})
              /\ << >> \in Seq({"Compressor", "Custom"})
              /\ <<ar, ts>> \in Seq(Plugins)
            BY <2>1, TupleSeq, EmptySeq
        <3>2. [on |-> TRUE, roots |-> {}] \in Trees
            BY DEF Trees
        <3> QED
            BY <1>1, <3>1, <3>2 DEF BuilderType
    <2>5. Enforcers(w) = {2}
        BY DEF Enforcers, Plugin
    <2>6. ts.tol = SpecTolerance(m)
        BY <1>2, ToleranceIsSpec DEF Plugin
    <2> QED
        BY <1>1, <1>5, <2>3, <2>4, <2>5, <2>6 DEF DefaultsOK
<1> QED
    BY <1>3, <1>4, <1>5

\* ChainOfTrustBuilder::new on a Config in its mode's formats yields a
\* well-formed builder with the default pipeline.
LEMMA NewOK ==
    ASSUME NEW c \in ConfigType, FormatsOK(c, c.for)
    PROVE  NewOf(c) \in BuilderType /\ BuilderOK(NewOf(c))
<1> DEFINE e == [cfg |-> c, for |-> c.for,
                 validators |-> << >>, compactors |-> << >>,
                 linters |-> << >>, transformers |-> << >>,
                 indexers |-> << >>, plugins |-> << >>,
                 tree |-> NoTree, truncate |-> FALSE,
                 defaults |-> TRUE]
<1> USE DEF e
<1>1. e \in BuilderType
    <2>1. /\ << >> \in Seq({"RubberStamp", "Custom"})
          /\ << >> \in Seq({"RemoveDuplicates", "Tombstone", "Custom"})
          /\ << >> \in Seq({"Custom"})
          /\ << >> \in Seq({"Compressor", "Custom"})
          /\ << >> \in Seq(Plugins)
        BY EmptySeq
    <2>2. NoTree \in Trees
        BY DEF NoTree, Trees
    <2> QED
        BY <2>1, <2>2 DEF BuilderType, ConfigType
<1>2. NewOf(c) = WithDefaultsOf(e)
    BY DEF NewOf
<1> QED
    BY <1>1, <1>2, WithDefaultsOK DEF BuilderOK

\* A change that keeps the Config, the mode, the last reset, the tree
\* authority's presence and the plugins keeps a builder well formed.
LEMMA KeepsPipeline ==
    ASSUME NEW b, NEW b2, BuilderOK(b),
           b2.cfg = b.cfg, b2.for = b.for, b2.defaults = b.defaults,
           b2.tree.on = b.tree.on, b2.plugins = b.plugins
    PROVE  BuilderOK(b2)
BY DEF BuilderOK, DefaultsOK, Enforcers, FormatsOK

\* add_plugin with a plugin that is no TimestampEnforcer keeps a builder
\* well formed.
LEMMA AddPluginKeeps ==
    ASSUME NEW b \in BuilderType, BuilderOK(b), NEW x \in Plugins,
           x.kind # "Timestamp",
           NEW b2, b2.cfg = b.cfg, b2.for = b.for, b2.defaults = b.defaults,
           b2.tree.on = b.tree.on, b2.plugins = Append(b.plugins, x)
    PROVE  BuilderOK(b2)
<1>1. b.plugins \in Seq(Plugins)
    BY DEF BuilderType
<1>2. Enforcers(b2) = Enforcers(b)
    BY <1>1, EnforcersAppend DEF Enforcers
<1>3. /\ Len(b2.plugins) = Len(b.plugins) + 1
      /\ \A i \in 1..Len(b.plugins) : b2.plugins[i] = b.plugins[i]
    BY <1>1, AppendProperties
<1>4. Len(b.plugins) \in Nat
    BY <1>1, LenProperties
<1> QED
    BY <1>2, <1>3, <1>4 DEF BuilderOK, DefaultsOK, FormatsOK

\* Pushing a stage the program supplies to a list other than the plugins
\* keeps a builder well formed.
LEMMA AddListKeeps ==
    ASSUME NEW b \in BuilderType, BuilderOK(b),
           NEW l \in {"compactors", "validators", "linters", "transformers",
                      "indexers"}
    PROVE  LET b2 == [b EXCEPT ![l] = Append(@, "Custom")]
           IN  b2 \in BuilderType /\ BuilderOK(b2)
<1> DEFINE b2 == [b EXCEPT ![l] = Append(@, "Custom")]
<1>1. /\ b2.cfg = b.cfg /\ b2.for = b.for /\ b2.defaults = b.defaults
      /\ b2.tree = b.tree /\ b2.plugins = b.plugins
    OBVIOUS
<1>2. BuilderOK(b2)
    BY <1>1, KeepsPipeline
<1>3. b2 \in BuilderType
    <2>1. CASE l = "compactors"
        BY <2>1, AppendProperties DEF BuilderType
    <2>2. CASE l = "validators"
        BY <2>2, AppendProperties DEF BuilderType
    <2>3. CASE l = "linters"
        BY <2>3, AppendProperties DEF BuilderType
    <2>4. CASE l = "transformers"
        BY <2>4, AppendProperties DEF BuilderType
    <2>5. CASE l = "indexers"
        BY <2>5, AppendProperties DEF BuilderType
    <2> QED
        BY <2>1, <2>2, <2>3, <2>4, <2>5
<1> QED
    BY <1>2, <1>3

-----------------------------------------------------------------------------
(* The inductive invariant                                                 *)

LEMMA IInvInit == Init => IInv
<1> SUFFICES ASSUME Init PROVE IInv
    OBVIOUS
<1>1. NewOf(DefaultConfig) \in BuilderType
      /\ BuilderOK(NewOf(DefaultConfig))
    BY DefaultConfigOK, NewOK
<1>2. 0 \in 0..MaxAdds
    BY BuilderAssumption
<1> QED
    BY <1>1, <1>2, DefaultConfigOK DEF Init, IInv, TypeOK

LEMMA IInvStep == IInv /\ [Next]_vars => IInv'
<1> SUFFICES ASSUME IInv, [Next]_vars PROVE IInv'
    OBVIOUS
<1>0. /\ cfg \in ConfigType /\ builder \in BuilderType
      /\ chain \in BuilderType \cup {NoChain} /\ adds \in 0..MaxAdds
      /\ hasBuilder \in BOOLEAN
      /\ FormatsOK(cfg, cfg.for) /\ BuilderOK(builder)
      /\ chain # NoChain => BuilderOK(chain)
    BY DEF IInv, TypeOK
<1>1. CASE \E m \in Modes : ConfigureFor(m)
    <2> PICK m \in Modes : ConfigureFor(m)
        BY <1>1
    <2> QED
        BY <1>0, ConfiguredForOK DEF ConfigureFor, IInv, TypeOK
<1>2. CASE New
    <2>1. NewOf(cfg) \in BuilderType /\ BuilderOK(NewOf(cfg))
        BY <1>0, NewOK
    <2>2. 0 \in 0..MaxAdds
        BY BuilderAssumption
    <2> QED
        BY <1>0, <1>2, <2>1, <2>2 DEF New, IInv, TypeOK
<1>3. CASE Default
    <2>1. NewOf(DefaultConfig) \in BuilderType
          /\ BuilderOK(NewOf(DefaultConfig))
        BY DefaultConfigOK, NewOK
    <2>2. 0 \in 0..MaxAdds
        BY BuilderAssumption
    <2> QED
        BY <1>0, <1>3, <2>1, <2>2 DEF Default, IInv, TypeOK
<1>4. CASE WithDefaults
    <2>1. /\ builder' \in BuilderType
          /\ builder'.cfg = builder.cfg /\ builder'.for = builder.for
          /\ DefaultsOK(builder')
        BY <1>0, <1>4, WithDefaultsOK DEF WithDefaults
    <2>2. BuilderOK(builder')
        BY <1>0, <2>1 DEF BuilderOK
    <2> QED
        BY <1>0, <1>4, <2>1, <2>2 DEF WithDefaults, IInv, TypeOK
<1>5. CASE WithoutDefaults
    <2>1. /\ builder' \in BuilderType
          /\ builder'.cfg = builder.cfg /\ builder'.for = builder.for
          /\ ~builder'.defaults
        BY <1>0, <1>5, ClearedOK DEF WithoutDefaults, BuilderType
    <2>2. BuilderOK(builder')
        BY <1>0, <2>1 DEF BuilderOK
    <2> QED
        BY <1>0, <1>5, <2>1, <2>2 DEF WithoutDefaults, IInv, TypeOK
<1>6. CASE AddPlugin
    <2>1. Plugin("Custom", 0) \in Plugins /\ Plugin("Custom", 0).kind # "Timestamp"
        BY DEF Plugin, Plugins
    <2>2. builder' = [builder EXCEPT !.plugins =
                          Append(builder.plugins, Plugin("Custom", 0))]
        BY <1>6 DEF AddPlugin, AddStage
    <2>3. builder' \in BuilderType
        BY <1>0, <2>1, <2>2, AppendProperties DEF BuilderType
    <2>4. /\ builder'.cfg = builder.cfg /\ builder'.for = builder.for
          /\ builder'.defaults = builder.defaults
          /\ builder'.tree.on = builder.tree.on
          /\ builder'.plugins = Append(builder.plugins, Plugin("Custom", 0))
        BY <2>2
    <2>5. BuilderOK(builder')
        BY <1>0, <2>1, <2>4, AddPluginKeeps
    <2>6. adds' \in 0..MaxAdds /\ UNCHANGED <<cfg, hasBuilder, chain>>
        BY <1>0, <1>6, BuilderAssumption DEF AddPlugin, AddStage
    <2> QED
        BY <1>0, <2>3, <2>5, <2>6 DEF IInv, TypeOK
<1>7. ASSUME NEW l \in {"compactors", "validators", "linters",
                        "transformers", "indexers"},
             AddStage(l, "Custom")
      PROVE  IInv'
    <2>1. builder' = [builder EXCEPT ![l] = Append(@, "Custom")]
        BY <1>7 DEF AddStage
    <2>2. builder' \in BuilderType /\ BuilderOK(builder')
        BY <1>0, <2>1, AddListKeeps
    <2>3. adds' \in 0..MaxAdds /\ UNCHANGED <<cfg, hasBuilder, chain>>
        BY <1>0, <1>7, BuilderAssumption DEF AddStage
    <2> QED
        BY <1>0, <2>2, <2>3 DEF IInv, TypeOK
<1>8. CASE \E k \in RootKeys : AddRootPublicKey(k)
    <2> PICK k \in RootKeys : AddRootPublicKey(k)
        BY <1>8
    <2>1. builder.tree \in Trees
        BY <1>0 DEF BuilderType
    <2>2. /\ builder'.tree \in Trees
          /\ builder'.tree.on = builder.tree.on
        <3>1. CASE builder.tree.on
            <4>1. builder'.tree = [on |-> TRUE,
                                   roots |-> builder.tree.roots \cup {k}]
                BY <1>0, <3>1 DEF AddRootPublicKey, BuilderType
            <4> QED
                BY <2>1, <3>1, <4>1 DEF Trees
        <3>2. CASE ~builder.tree.on
            <4>1. builder'.tree = builder.tree
                BY <1>0, <3>2 DEF AddRootPublicKey, BuilderType
            <4> QED
                BY <2>1, <4>1
        <3> QED
            BY <3>1, <3>2
    <2>3. /\ builder' \in BuilderType
          /\ builder'.cfg = builder.cfg /\ builder'.for = builder.for
          /\ builder'.defaults = builder.defaults
          /\ builder'.plugins = builder.plugins
        BY <1>0, <2>2 DEF AddRootPublicKey, BuilderType
    <2>4. BuilderOK(builder')
        BY <1>0, <2>2, <2>3, KeepsPipeline
    <2>5. adds' \in 0..MaxAdds /\ UNCHANGED <<cfg, hasBuilder, chain>>
        BY <1>0, BuilderAssumption DEF AddRootPublicKey
    <2> QED
        BY <1>0, <2>3, <2>4, <2>5 DEF IInv, TypeOK
<1>9. CASE Build
    <2>1. NewOf(DefaultConfig) \in BuilderType
          /\ BuilderOK(NewOf(DefaultConfig))
        BY DefaultConfigOK, NewOK
    <2>2. 0 \in 0..MaxAdds
        BY BuilderAssumption
    <2> QED
        BY <1>0, <1>9, <2>1, <2>2 DEF Build, IInv, TypeOK
<1>10. CASE UNCHANGED vars
    BY <1>0, <1>10 DEF vars, IInv, TypeOK
<1> QED
    BY <1>1, <1>2, <1>3, <1>4, <1>5, <1>6, <1>7, <1>8, <1>9, <1>10
    DEF Next, AddCompactor, AddValidator, AddLinter, AddTransformer,
        AddIndexer

-----------------------------------------------------------------------------
(* Theorems                                                                *)

\* Every variable of the builder model keeps its type: configured_for,
\* new, with_defaults, without_defaults, the add_* calls and build only
\* produce well-formed Configs and builders.
THEOREM BuilderTypeCorrect == Spec => []TypeOK
<1>1. IInv => TypeOK
    BY DEF IInv
<1> QED
    BY <1>1, IInvInit, IInvStep, PTL DEF Spec

\* A chain built on the defaults (new or with_defaults, then any add_*
\* calls and root keys) has the tree authority and the one
\* TimestampEnforcer its mode asks for, with the spec's tolerance, or
\* neither for Raw and Barebone: for every set of root keys and every
\* bound on the add_* calls.
THEOREM PipelineHolds == Spec => []PipelineMatchesMode
<1>1. IInv => PipelineMatchesMode
    <2> SUFFICES ASSUME IInv, chain # NoChain, chain.defaults
                 PROVE  IF chain.for \in {"Raw", "Barebone"}
                        THEN ~chain.tree.on /\ Enforcers(chain) = {}
                        ELSE /\ chain.tree.on
                             /\ \E i \in Enforcers(chain) :
                                    /\ Enforcers(chain) = {i}
                                    /\ chain.plugins[i].tol
                                       = SpecTolerance(chain.for)
        BY DEF PipelineMatchesMode
    <2>1. DefaultsOK(chain)
        BY DEF IInv, BuilderOK
    <2>2. CASE chain.for \in {"Raw", "Barebone"}
        BY <2>1, <2>2 DEF DefaultsOK
    <2>3. CASE chain.for \notin {"Raw", "Barebone"}
        <3>1. /\ chain.tree.on /\ Enforcers(chain) = {2}
              /\ chain.plugins[2].tol = SpecTolerance(chain.for)
            BY <2>1, <2>3 DEF DefaultsOK
        <3>2. \E i \in Enforcers(chain) :
                  /\ Enforcers(chain) = {i}
                  /\ chain.plugins[i].tol = SpecTolerance(chain.for)
            BY <3>1
        <3> QED
            BY <2>3, <3>1, <3>2
    <2> QED
        BY <2>2, <2>3
<1> QED
    BY <1>1, IInvInit, IInvStep, PTL DEF Spec

=============================================================================
