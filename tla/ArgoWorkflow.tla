---------------------------- MODULE ArgoWorkflow -----------------------------
(****************************************************************************)
(* createWorkflow() of worker/src/argoWorker.ts: from the stages of a run   *)
(* message to the Argo workflow that runs them.  Left out are the fields    *)
(* with fixed or configured contents (API version, storage class and size,  *)
(* time to live) and the name Argo generates from the run's.                *)
(****************************************************************************)
EXTENDS RunMessage

entrypoint == "run"

KeyName == "APPINSIGHTS_INSTRUMENTATIONKEY"

getIdentity(kind) ==
    CASE kind = "candidate" -> "candidate"
      [] kind = "container" -> "benchmark"
      [] OTHER -> "none"

VolumeMount == [name : Word, mountPath : Word, readOnly : BOOLEAN]

volumeMounts(volumes) ==
    IF volumes = None THEN None
    ELSE [k \in DOMAIN volumes |-> [name      |-> volumes[k].name,
                                    mountPath |-> volumes[k].target,
                                    readOnly  |-> volumes[k].readonly]]

\* key is the worker's own instrumentation key, if it has one.
containerEnv(env, key) ==
    Entries(env) \o IF key = None THEN <<>>
                    ELSE <<[name |-> KeyName, value |-> key]>>

stageTemplate(stage, key) ==
    [name |-> stage.name, identity |-> getIdentity(stage.kind),
     image |-> stage.image, args |-> stage.cmd,
     env |-> containerEnv(stage.env, key),
     volumeMounts |-> volumeMounts(stage.volumes)]

\* Mutant: a claim for each mount.
addClaimMutant(claims, volume) == Append(claims, volume.name)

\* One claim for a volume, however many stages mount it.
addClaim(claims, volume) ==
    IF Contains(claims, volume.name) THEN claims ELSE Append(claims, volume.name)

claimsFor(volumes) ==
    LET claims[k \in 0 .. Len(volumes)] ==
            IF k = 0 THEN <<>> ELSE addClaim(claims[k - 1], volumes[k])
    IN claims[Len(volumes)]

claimTemplates(stages) ==
    LET volumes == FlattenSeq([i \in DOMAIN stages |-> Entries(stages[i].volumes)])
    IN IF volumes = <<>> THEN None ELSE claimsFor(volumes)

\* The steps run one after the other, each the template of that name.
createWorkflow(stages, key) ==
    [steps |-> [i \in DOMAIN stages |-> stages[i].name],
     templates |-> <<[name |-> entrypoint]>> \o
                   [i \in DOMAIN stages |-> stageTemplate(stages[i], key)],
     claims |-> claimTemplates(stages)]
=============================================================================
