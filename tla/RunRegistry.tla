----------------------------- MODULE RunRegistry -----------------------------
(****************************************************************************)
(* What the laboratory promises about runs, whatever the interleaving of    *)
(* the requests that create, update and report them: the specification      *)
(* module Laboratory implements.                                            *)
(*                                                                          *)
(* A run is registered once, whole, under a fresh name, with snapshots that *)
(* belong together; it is published to the workers from that registration;  *)
(* afterwards nothing but its status changes; a result is only ever held    *)
(* for a registered run and carries that run's own keys.  A laboratory      *)
(* whose database is volatile may forget its runs and results, all of them  *)
(* at once, but what it published stays published.                          *)
(****************************************************************************)
EXTENDS RunData

CONSTANT Volatile      \* TRUE when the database does not survive a restart

VARIABLES
    registry,   \* the registered runs, by name
    reported,   \* the results reported, by run name
    used,       \* names given to runs so far
    published   \* the messages handed to the workers' queue

registryVars == <<registry, reported, used, published>>

Init ==
    /\ registry = [n \in RunName |-> NoRow]
    /\ reported = [n \in RunName |-> NoRow]
    /\ used = {}
    /\ published = {}

\* A name is reserved for a run that is about to be registered.
Reserve(n) ==
    /\ n \notin used
    /\ used' = used \cup {n}
    /\ UNCHANGED <<registry, reported, published>>

\* A run appears, complete and coherent, under a name reserved for it.
Register(n) ==
    /\ n \in used
    /\ registry[n] = NoRow
    /\ LET run == registry'[n] IN
          /\ run \in RunRow
          /\ run.name = n
          /\ run.status = "created"
          /\ Coherent(run)
    /\ registry' = [registry EXCEPT ![n] = registry'[n]]
    /\ UNCHANGED <<reported, used, published>>

\* A registered run is handed to the workers.
Publish(n) ==
    /\ registry[n] # NoRow
    /\ published' = published \cup {createMessage(registry[n])}
    /\ UNCHANGED <<registry, reported, used>>

\* A worker moves a run to another status; nothing else of it changes.
SetStatus(n, status) ==
    /\ registry[n] # NoRow
    /\ registry' = [registry EXCEPT ![n].status = status]
    /\ UNCHANGED <<reported, used, published>>

\* A worker reports measures of a registered run.
Report(n, measures) ==
    /\ registry[n] # NoRow
    /\ reported' = [reported EXCEPT ![n] = ResultOf(registry[n], measures)]
    /\ UNCHANGED <<registry, used, published>>

\* A volatile laboratory restarts.
Forget ==
    /\ Volatile
    /\ registry' = [n \in RunName |-> NoRow]
    /\ reported' = [n \in RunName |-> NoRow]
    /\ UNCHANGED <<used, published>>

Next ==
    \/ \E n \in RunName : Reserve(n) \/ Register(n) \/ Publish(n)
    \/ \E n \in RunName, status \in Status : SetStatus(n, status)
    \/ \E n \in RunName, measures \in Measures : Report(n, measures)
    \/ Forget

Spec == Init /\ [][Next]_registryVars
=============================================================================
