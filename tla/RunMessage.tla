----------------------------- MODULE RunMessage ------------------------------
(****************************************************************************)
(* createMessage() of laboratory/src/sequelize_laboratory/run.ts: from the  *)
(* benchmark, the candidate and the suite of a run to the stages a worker   *)
(* is to run.                                                               *)
(*                                                                          *)
(* A run is a record [benchmark, candidate, suite].  A benchmark is the     *)
(* sequence of its stages.  An object with string keys (an environment, the *)
(* properties of a suite) is the sequence of its entries [name, value] in   *)
(* insertion order, the order in which JavaScript enumerates them.  None is *)
(* an absent field.  A text is what mustache makes of it: a literal, or one *)
(* tag that names a value of the run.  Of these there are two kinds: values *)
(* that stay as they are while the message is made (a suite's properties;   *)
(* the run's name, the endpoint, the candidate's image are like them), and  *)
(* variables of a stage's environment, which createMessage() overwrites.    *)
(****************************************************************************)
EXTENDS Naturals, SequencesExt

CONSTANTS
    Word,   \* the strings that occur in runs
    None

Literal(s)          == [tag |-> "literal", text |-> s]
SuiteProperty(p)    == [tag |-> "property", name |-> p]     \* {suite.properties.p}
StageVariable(i, n) == [tag |-> "variable", stage |-> i, name |-> n]
    \* {benchmark.stages.i.env.n}, with stages counted from 1
Empty == Literal("")

\* The types of interfaces.ts, as far as createMessage() reads them.  An image is
\* given where a benchmark's own container runs, a target where a volume is not
\* ephemeral.
TextType ==
    [tag : {"literal"}, text : Word] \cup [tag : {"property"}, name : Word]
    \cup [tag : {"variable"}, stage : Nat, name : Word]

EntryType == [name : Word, value : TextType]

ObjectType ==
    {o \in Seq(EntryType) :
        \A j, k \in DOMAIN o : o[j].name = o[k].name => j = k}

VolumeMountType == [name : Word, path : Word, readonly : BOOLEAN]

PipelineStageType ==
    [name : Word, kind : {"candidate", "container"}, image : Word \cup {None},
     cmd : {None} \cup Seq(TextType), env : {None} \cup ObjectType,
     volumes : {None} \cup Seq(VolumeMountType)]

SuiteVolumeType == [name : Word, type : Word, target : Word \cup {None}]

RunType ==
    [benchmark : Seq(PipelineStageType),
     candidate : [image : Word, env : {None} \cup ObjectType],
     suite : [properties : {None} \cup ObjectType,
              volumes : {None} \cup Seq(SuiteVolumeType)]]

\* A volume of a stage in the message.
StageVolumeType ==
    [name : Word, target : Word, readonly : BOOLEAN,
     type : Word, source : Word \cup {None}]

\* `entries || []' and the `?.' and spread of an absent object.
Entries(object) == IF object = None THEN <<>> ELSE object

Names(entries) == {entries[k].name : k \in DOMAIN entries}

\* The value of a key; what mustache prints for a missing one is empty.
ValueOf(object, n) ==
    LET k == SelectInSeq(Entries(object), LAMBDA e : e.name = n)
    IN IF k = 0 THEN Empty ELSE object[k].value

\* mustache.render(text, templateValues): one pass, the value found is not
\* rendered again.  envs are the environments of benchmark.stages as they are.
render(text, suite, envs) ==
    CASE text.tag = "literal"  -> text
      [] text.tag = "property" -> ValueOf(suite.properties, text.name)
      [] text.tag = "variable" ->
            IF text.stage \in DOMAIN envs
            THEN ValueOf(envs[text.stage], text.name) ELSE Empty

----------------------------------------------------------------------------

\* Mutant: every stage runs the candidate.
imageOfMutant(stage, candidate) == candidate.image

imageOf(stage, candidate) ==
    IF stage.kind = "candidate" THEN candidate.image ELSE stage.image

\* What a volume of a stage adds to those it mounts: nothing, if the suite does
\* not declare it.
mountOf(v, suite) ==
    LET k == SelectInSeq(Entries(suite.volumes), LAMBDA sv : sv.name = v.name)
    IN IF k = 0 THEN <<>>
       ELSE <<[name |-> v.name, target |-> v.path, readonly |-> v.readonly,
               type |-> suite.volumes[k].type, source |-> suite.volumes[k].target]>>

mountsOf(stage, suite) ==
    IF stage.volumes = None THEN None
    ELSE FlattenSeq([k \in DOMAIN stage.volumes |-> mountOf(stage.volumes[k], suite)])

\* {...a, ...b}
spread(a, b) ==
    [k \in DOMAIN a |-> IF a[k].name \in Names(b)
                        THEN [a[k] EXCEPT !.value = ValueOf(b, a[k].name)]
                        ELSE a[k]]
    \o FlattenSeq([k \in DOMAIN b |->
                      IF b[k].name \in Names(a) THEN <<>> ELSE <<b[k]>>])

\* Mutant: the candidate configures the benchmark's stages, too.
configuresMutant(candidate, stage) == candidate.env # None

\* Whether a candidate brings an environment of its own into the stage.
configures(candidate, stage) ==
    stage.kind = "candidate" /\ candidate.env # None

\* The loop "Apply transforms".  The message's environment and the stage's are
\* one object, so that rendering an entry changes benchmark.stages under the
\* tags rendered after it ...
renderInPlace(envs, i, suite) ==
    LET n == Len(Entries(envs[i]))
        es[k \in 0 .. n] ==
            IF k = 0 THEN envs
            ELSE [es[k - 1] EXCEPT ![i][k].value = render(@, suite, es[k - 1])]
    IN es[n]

\* ... unless the candidate's entries were spread into a new object.
renderCopy(env, envs, suite) ==
    [k \in DOMAIN env |-> [env[k] EXCEPT !.value = render(@, suite, envs)]]

\* Mutant: every environment is copied before it is rendered.
renderEnvMutant(run, envs, i) ==
    [envs |-> envs,
     env |-> renderCopy(IF configures(run.candidate, run.benchmark[i])
                        THEN spread(Entries(envs[i]), run.candidate.env)
                        ELSE Entries(envs[i]), envs, run.suite)]

\* The environment the message gives stage i, and those of benchmark.stages
\* afterwards.
renderEnv(run, envs, i) ==
    IF configures(run.candidate, run.benchmark[i])
    THEN [envs |-> envs,
          env |-> renderCopy(spread(Entries(envs[i]), run.candidate.env),
                             envs, run.suite)]
    ELSE LET rendered == renderInPlace(envs, i, run.suite)
         IN [envs |-> rendered, env |-> rendered[i]]

renderCmd(cmd, suite, envs) ==
    IF cmd = None THEN None
    ELSE [k \in DOMAIN cmd |-> render(cmd[k], suite, envs)]

createStage(run, envs, i) ==
    LET stage == run.benchmark[i]
    IN [name |-> stage.name, kind |-> stage.kind,
        image |-> imageOf(stage, run.candidate),
        volumes |-> mountsOf(stage, run.suite),
        cmd |-> renderCmd(stage.cmd, run.suite, envs),
        env |-> renderEnv(run, envs, i).env]

\* The environments of benchmark.stages when i of the stages have been made.
environments(run) ==
    LET envs[i \in 0 .. Len(run.benchmark)] ==
            IF i = 0 THEN [j \in DOMAIN run.benchmark |-> run.benchmark[j].env]
            ELSE renderEnv(run, envs[i - 1], i).envs
    IN envs

createMessage(run) ==
    [i \in DOMAIN run.benchmark |-> createStage(run, environments(run)[i - 1], i)]
=============================================================================
