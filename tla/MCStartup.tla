----------------------------- MODULE MCStartup -------------------------------
(****************************************************************************)
(* Startup in a deployed environment, in ones that lack a variable of it or *)
(* have a wrong one, and in one where nothing is set.                       *)
(****************************************************************************)
EXTENDS Startup, TLC

MCDeployed ==
    [v \in {"QUEUE_ENDPOINT", "SQL_HOST", "SQL_DB", "AZURE_CLIENT_ID", "WEBSITE_HOSTNAME",
            "AUTH_TENANT_ID", "AUTH_LABORATORY_CLIENT_ID", "AUTH_CLI_CLIENT_ID"} |-> v]
    @@ [QUEUE_MODE |-> "azure", SQL_MODE |-> "azuresql", AUTH_MODE |-> "aad"]

Without(e, S) == [v \in DOMAIN e \ S |-> e[v]]

MCEnvironment ==
    {MCDeployed, << >>}
    \cup {Without(MCDeployed, {v}) : v \in DOMAIN MCDeployed}
    \cup {v :> bad @@ MCDeployed :
             v \in {"QUEUE_ENDPOINT", "SQL_MODE", "LABORATORY_ENDPOINT", "WEBSITES_PORT",
                    "SUCCESSFUL_RUN_GC_SECONDS"}, bad \in {Malformed}}
    \cup {"LABORATORY_ENDPOINT" :> "http://lab" @@ Without(MCDeployed, {"AZURE_CLIENT_ID"})}
=============================================================================
