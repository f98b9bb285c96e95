--------------------------- MODULE MCRunPipeline -----------------------------
(****************************************************************************)
(* Small instances of RunPipeline: pipelines of two stages, once with all   *)
(* that matters for environments, once with all that matters for volumes    *)
(* and names.                                                               *)
(****************************************************************************)
EXTENDS RunPipeline

Objects(names, values) ==
    {[k \in DOMAIN names |-> [name |-> names[k], value |-> v[k]]] :
        v \in [DOMAIN names -> values]}

Stages(names, cmds, envs, volumes) ==
    [name : names, kind : {"candidate"}, image : {None}, cmd : cmds,
     env : envs, volumes : volumes]
    \cup [name : names, kind : {"container"}, image : {"scorer"}, cmd : cmds,
          env : envs, volumes : volumes]

\* Texts of all three kinds; the tag names a variable of the first stage.
Texts == {Literal("a"), SuiteProperty("p"), StageVariable(1, "V")}

StageEnv ==
    {None} \cup Objects(<<>>, Texts) \cup Objects(<<"V">>, Texts)
    \cup Objects(<<"W", "V">>, {SuiteProperty("p"), StageVariable(1, "V")})
    \cup Objects(<<"V", KeyName>>, {SuiteProperty("p")})

EnvironmentRuns ==
    [benchmark : {<<s, t>> :
        s \in Stages({"first"}, {None}, StageEnv, {None}),
        t \in Stages({"second"}, {None, <<StageVariable(1, "V")>>}, StageEnv, {None})},
     candidate : [image : {"cand"},
                  env : {None} \cup Objects(<<>>, Texts)
                        \cup Objects(<<"V">>, {Literal("c"), StageVariable(1, "V")})
                        \cup Objects(<<"U", "V">>, {Literal("c")})],
     suite : [properties : {None, <<[name |-> "p", value |-> Literal("q")]>>},
              volumes : {None}]]

Mount(n, path, readonly) == [name |-> n, path |-> path, readonly |-> readonly]

StageVolumes ==
    {None, <<>>, <<Mount("v", "/in", TRUE)>>, <<Mount("w", "/out", FALSE)>>,
     <<Mount("v", "/in", TRUE), Mount("w", "/out", FALSE)>>,
     <<Mount("w", "/in", TRUE), Mount("v", "/out", FALSE)>>,
     <<Mount("v", "/in", TRUE), Mount("v", "/out", FALSE)>>}

SuiteVolume(n, target) ==
    [name |-> n, type |-> IF target = None THEN "ephemeral" ELSE "AzureBlob",
     target |-> target]

VolumeRuns ==
    [benchmark : {<<s>> : s \in Stages({"first"}, {None}, {None}, StageVolumes)}
                 \cup {<<s, t>> :
        s \in Stages({"first"}, {None}, {None}, StageVolumes),
        t \in Stages({"first", "second", entrypoint}, {None}, {None}, StageVolumes)},
     candidate : [image : {"cand"}, env : {None}],
     suite : [properties : {None},
              volumes : {None, <<>>, <<SuiteVolume("v", None)>>,
                         <<SuiteVolume("w", "blob"), SuiteVolume("v", None)>>,
                         <<SuiteVolume("v", None), SuiteVolume("v", "blob")>>}]]

Words ==
    {"", "a", "c", "p", "q", "U", "V", "W", "v", "w", "/in", "/out", "first", "second",
     "cand", "scorer", "ephemeral", "AzureBlob", "blob", entrypoint, KeyName}

SmallRuns == EnvironmentRuns \cup VolumeRuns
=============================================================================
