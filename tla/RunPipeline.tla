---------------------------- MODULE RunPipeline ------------------------------
(****************************************************************************)
(* The way of one run from its row in the database to the workflow: the     *)
(* laboratory makes the message, the worker makes the workflow.             *)
(****************************************************************************)
EXTENDS ArgoWorkflow

CONSTANTS
    Run,    \* runs: [benchmark, candidate, suite]
    Key     \* instrumentation keys a worker may have, or None

\* Runs are as the laboratory's types have it.  The empty string is a string, and
\* an absent field is no list.
ASSUME RunAssumption ==
    /\ Run \subseteq RunType
    /\ "" \in Word
    /\ None \notin Seq([name : Word \cup {KeyName}, value : TextType \cup Key])
                    \cup Seq(StageVolumeType) \cup Seq(VolumeMount) \cup Seq(Word)

VARIABLES
    run,        \* what the row of the run holds
    stages,     \* the stages of the run's message, None until it is made
    key,        \* the instrumentation key of the worker
    workflow    \* the workflow, None until it is made

vars == <<run, stages, key, workflow>>

Init ==
    /\ run \in Run
    /\ stages = None
    /\ key \in Key
    /\ workflow = None

SendMessage ==
    /\ stages = None
    /\ stages' = createMessage(run)
    /\ UNCHANGED <<run, key, workflow>>

ProcessRun ==
    /\ stages # None
    /\ workflow = None
    /\ workflow' = createWorkflow(stages, key)
    /\ UNCHANGED <<run, stages, key>>

Next == SendMessage \/ ProcessRun

Spec == Init /\ [][Next]_vars

----------------------------------------------------------------------------

Stage == DOMAIN run.benchmark

\* The places of the templates that have the name a step asks for; Argo runs a
\* workflow only if there is one of each name.
TemplatesOf(i) ==
    {k \in DOMAIN workflow.templates : workflow.templates[k].name = workflow.steps[i]}

\* The container of stage i, when templates follow the stages.
Container(i) == workflow.templates[i + 1]

\* Each step of the workflow finds the container of the stage at its place in the
\* pipeline: the candidate's image, under the candidate's identity, in candidate
\* stages only, and the benchmark's own image and identity in the others.  It finds
\* others only where the benchmark itself gives a name twice, and the entry point
\* only where a stage is named like it: createWorkflow() and the laboratory check
\* neither, so this is what is left to whoever writes a benchmark
\* (worker/src/argoWorker.ts:54-124).
StepsRunTheirStages ==
    workflow # None =>
        /\ Len(workflow.steps) = Len(run.benchmark)
        /\ \A i \in Stage :
            LET stage == run.benchmark[i]
                namesakes == {j \in Stage : run.benchmark[j].name = stage.name}
            IN /\ TemplatesOf(i) =
                    {j + 1 : j \in namesakes}
                    \cup {k \in {1} : stage.name = entrypoint}
               /\ stage.kind = "candidate" =>
                    Container(i).image = run.candidate.image
                    /\ Container(i).identity = "candidate"
               /\ stage.kind = "container" =>
                    Container(i).image = stage.image
                    /\ Container(i).identity = "benchmark"

\* The stages a candidate adds an environment of its own to.
SelfConfigured(i) ==
    run.benchmark[i].kind = "candidate" /\ run.candidate.env # None

\* The variables set for stage i, and the text that sets one of them: the
\* candidate's comes before the benchmark's (run.ts:201-209).
Configured(i) ==
    Names(Entries(run.benchmark[i].env)) \cup
        IF SelfConfigured(i) THEN Names(run.candidate.env) ELSE {}

Setting(i, n) ==
    IF SelfConfigured(i) /\ n \in Names(run.candidate.env)
    THEN ValueOf(run.candidate.env, n)
    ELSE ValueOf(run.benchmark[i].env, n)

\* What a container sees of a variable that is listed twice: the last entry.
Seen(i, n) == ValueOf(Reverse(Container(i).env), n)

\* A container has the variables its stage configures and the worker's key, no
\* other: the candidate's stay out of the benchmark's stages, one stage's stay
\* out of the next.  The worker's key wins over a variable of that name; literal
\* values arrive as they are, tags that name a property of the suite with that
\* property's value (run.ts:201-215, argoWorker.ts:87-101).
EnvironmentsAsConfigured ==
    workflow # None => \A i \in Stage :
        /\ Names(Container(i).env)
            = Configured(i) \cup IF key = None THEN {} ELSE {KeyName}
        /\ key # None => Seen(i, KeyName) = key
        /\ \A n \in Configured(i) \ {KeyName} :
            LET text == Setting(i, n)
            IN CASE text.tag = "literal"  -> Seen(i, n) = text
                 [] text.tag = "property" ->
                        Seen(i, n) = ValueOf(run.suite.properties, text.name)
                 [] OTHER -> TRUE

\* A tag that names a variable of an earlier stage yields what that variable is
\* in the earlier stage's container, in arguments and in environments.  The
\* exception is a stage that a candidate configures: there the tag yields the
\* benchmark's own text, not rendered, since createMessage() renders a copy
\* (run.ts:203-215).
Rendered(i) ==
    {<<run.benchmark[i].cmd[k], stages[i].cmd[k]>> :
        k \in DOMAIN Entries(run.benchmark[i].cmd)}
    \cup {<<Setting(i, n), ValueOf(stages[i].env, n)>> : n \in Configured(i)}

EarlierValue(text) ==
    IF SelfConfigured(text.stage)
    THEN ValueOf(run.benchmark[text.stage].env, text.name)
    ELSE ValueOf(stages[text.stage].env, text.name)

TagsFollowEarlierStages ==
    stages # None =>
        \A i \in Stage : \A r \in Rendered(i) :
            (r[1].tag = "variable" /\ r[1].stage \in 1..(i - 1))
                => r[2] = EarlierValue(r[1])

\* A container mounts exactly those of its stage's volumes that the suite
\* declares, where and as the stage wants them, and each volume that some
\* container mounts has one claim, shared by the stages that pass data through
\* it; there is no claim without a mount (run.ts:171-188, argoWorker.ts:127-155).
MountsHaveClaims ==
    workflow # None =>
        LET mounts == [i \in Stage |-> ToSet(Entries(Container(i).volumeMounts))]
            claims == Entries(workflow.claims)
            declared == Names(Entries(run.suite.volumes))
        IN /\ \A i \in Stage :
                mounts[i] = {[name |-> v.name, mountPath |-> v.path,
                              readOnly |-> v.readonly] :
                                v \in {v \in ToSet(Entries(run.benchmark[i].volumes)) :
                                            v.name \in declared}}
           /\ IsInjective(claims)
           /\ ToSet(claims) = UNION {{m.name : m \in mounts[i]} : i \in Stage}
           /\ workflow.claims # <<>>

=============================================================================
