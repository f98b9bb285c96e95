------------------------------- MODULE Startup -------------------------------
(****************************************************************************)
(* How the laboratory and the worker start: main() of laboratory/main.ts    *)
(* and of worker/index.ts, the configuration each reads from its            *)
(* environment variables, the identity it obtains in sds/configuration.ts,  *)
(* and the tables of the laboratory.  A process that does not get through   *)
(* ends; App Service or Kubernetes starts another in its place.             *)
(*                                                                          *)
(* The identity may be mounted only after the process has started.  A       *)
(* credential object that asks for a token too early is locked out: it      *)
(* never gets one.                                                          *)
(****************************************************************************)
EXTENDS Naturals

CONSTANTS
    Service,       \* a subset of {"laboratory", "worker"}
    Environment,   \* environments: functions from the variables that are set
    Malformed,     \* a value that no parser of numbers or URLs accepts
    Host,          \* the names a container may be given as its host name
    Table,         \* the tables of the models
    tokenRetryLimit, retryMax,
    None

ASSUME StartupAssumption ==
    /\ Service \subseteq {"laboratory", "worker"}
    /\ tokenRetryLimit \in Nat \ {0}
    /\ retryMax \in Nat \ {0}
    /\ None \notin [kind : {"default", "managed"}, early : BOOLEAN, locked : BOOLEAN]

VARIABLES
    service, env, defaultWorks,   \* chosen once: which program, its variables, and
                                  \* whether DefaultAzureCredential is served there
    mounted,     \* the identity is there
    host,        \* the host name of the present container
    pc,          \* where main() is
    tries,       \* failed attempts at the present credential or statement
    sleeping,    \* getInstance() waits before its next attempt
    object,      \* the credential object that asks, or asked last, for a token
    instance,    \* AzureCredential.instance, or None
    synced,      \* tables this process has created or found
    tables,      \* tables of the database
    endpoints    \* the laboratory's URLs in the messages of the queue

chosen == <<service, env, defaultWorks>>
asking == <<tries, sleeping, object, instance>>
stores == <<synced, tables, endpoints>>
vars == <<chosen, mounted, host, pc, asking, stores>>

Asking == {"queue", "database"}     \* main() is in getInstance(), for one or the other
Stage == Asking \cup {"start", "parseDatabase", "parseAuth", "parseWorker",
                      "tables", "up", "rejected"}

----------------------------------------------------------------------------
(* The environment variables.                                               *)

Given(v) == v \in DOMAIN env
Value(v, default) == IF Given(v) THEN env[v] ELSE default
WellFormed(v) == Given(v) => env[v] # Malformed

QueueMode == Value("QUEUE_MODE", "inmemory")
SqlMode == Value("SQL_MODE", "inmemory")

QueueReadable ==
    /\ QueueMode \in {"azure", "inmemory"}
    /\ QueueMode # "inmemory" => Given("QUEUE_ENDPOINT")
    /\ WellFormed("QUEUE_ENDPOINT")

AddressReadable == WellFormed("WEBSITES_PORT") /\ WellFormed("LABORATORY_ENDPOINT")

DatabaseReadable ==
    /\ SqlMode \in {"azuresql", "inmemory"}
    /\ SqlMode # "inmemory" => Given("SQL_HOST") /\ Given("SQL_DB")

AuthReadable ==
    Value("AUTH_MODE", "none") = "aad" =>
        \A v \in {"AUTH_TENANT_ID", "AUTH_LABORATORY_CLIENT_ID", "AUTH_CLI_CLIENT_ID"} :
            Given(v)

WorkerReadable == WellFormed("SUCCESSFUL_RUN_GC_SECONDS")

\* What the program that runs needs of its environment.
Configured ==
    /\ QueueReadable
    /\ service = "laboratory" => AddressReadable /\ DatabaseReadable /\ AuthReadable
    /\ service = "worker" => WorkerReadable

NeedsIdentity ==
    \/ QueueMode = "azure"
    \/ service = "laboratory" /\ SqlMode = "azuresql"

\* Mutant: the host name comes before the name App Service gives the site.
endpointBaseUrlMutant ==
    IF Given("LABORATORY_ENDPOINT") THEN env["LABORATORY_ENDPOINT"] ELSE host

endpointBaseUrl ==
    IF Given("LABORATORY_ENDPOINT") THEN env["LABORATORY_ENDPOINT"]
    ELSE Value("WEBSITE_HOSTNAME", host)

----------------------------------------------------------------------------
(* Credential objects.                                                      *)

Credential == [kind : {"default", "managed"}, early : BOOLEAN, locked : BOOLEAN]

New(kind) == [kind |-> kind, early |-> ~mounted, locked |-> FALSE]

\* The identity service has a token for this object.
Serves(c) == mounted /\ ~c.locked /\ (c.kind = "default" => defaultWorks)

\* Mutant: all attempts use one object.
FirstObjectMutant == IF object # None THEN object ELSE New("default")

\* Every attempt starts with an object of its own.
FirstObject == New("default")

\* getInstance(): the cached object, or a first attempt.
GetInstance(stage, next) ==
    \/ instance # None /\ pc' = next /\ UNCHANGED object
    \/ instance = None /\ pc' = stage /\ object' = FirstObject

AfterInstance(stage) ==
    CASE stage = "database" -> "parseAuth"
      [] stage = "queue" /\ service = "laboratory" -> "parseDatabase"
      [] stage = "queue" /\ service = "worker" -> "parseWorker"

----------------------------------------------------------------------------
(* main().                                                                  *)

\* ParseQueueConfiguration(), after the port and the endpoint of the laboratory.
ParseQueue ==
    /\ pc = "start"
    /\ QueueReadable
    /\ service = "laboratory" => AddressReadable
    /\ \/ QueueMode = "azure" /\ GetInstance("queue", AfterInstance("queue"))
       \/ QueueMode = "inmemory" /\ pc' = AfterInstance("queue") /\ UNCHANGED object
    /\ UNCHANGED <<chosen, mounted, host, tries, sleeping, instance, stores>>

ParseDatabase ==
    /\ pc = "parseDatabase"
    /\ DatabaseReadable
    /\ \/ SqlMode = "azuresql" /\ GetInstance("database", "parseAuth")
       \/ SqlMode = "inmemory" /\ pc' = "parseAuth" /\ UNCHANGED object
    /\ UNCHANGED <<chosen, mounted, host, tries, sleeping, instance, stores>>

ParseAuth ==
    /\ pc = "parseAuth" /\ AuthReadable
    /\ pc' = "tables"
    /\ UNCHANGED <<chosen, mounted, host, asking, stores>>

\* The last step of the worker's main(): it reads its queue from now on.
ParseWorker ==
    /\ pc = "parseWorker" /\ WorkerReadable
    /\ pc' = "up"
    /\ UNCHANGED <<chosen, mounted, host, asking, stores>>

\* kc.loadFromCluster() throws: the service account is not there.
ClusterFails ==
    /\ pc = "parseWorker" /\ WorkerReadable
    /\ pc' = "rejected"
    /\ UNCHANGED <<chosen, mounted, host, asking, stores>>

\* A variable is missing or malformed: main() throws.
ParseThrows ==
    /\ \/ pc = "start" /\ ~(QueueReadable /\ (service = "laboratory" => AddressReadable))
       \/ pc = "parseDatabase" /\ ~DatabaseReadable
       \/ pc = "parseAuth" /\ ~AuthReadable
       \/ pc = "parseWorker" /\ ~WorkerReadable
    /\ pc' = "rejected"
    /\ UNCHANGED <<chosen, mounted, host, asking, stores>>

\* Mutant: no managed identity after the default credential.
AttemptFailsMutant ==
    /\ object' = [object EXCEPT !.locked = TRUE]
    /\ tries' = tries + 1
    /\ sleeping' = TRUE
    /\ UNCHANGED <<chosen, mounted, host, pc, instance, stores>>

\* getToken() has thrown: initCredential() tries a managed identity if it has been
\* given one and has not tried it, else the attempt has failed.
AttemptFails ==
    /\ \/ /\ object.kind = "default" /\ Given("AZURE_CLIENT_ID")
          /\ object' = New("managed")
          /\ UNCHANGED <<tries, sleeping>>
       \/ /\ ~(object.kind = "default" /\ Given("AZURE_CLIENT_ID"))
          /\ object' = [object EXCEPT !.locked = TRUE]
          /\ tries' = tries + 1
          /\ sleeping' = TRUE
    /\ UNCHANGED <<chosen, mounted, host, pc, instance, stores>>

\* The identity was not mounted when the object was created, or the platform does
\* not serve this kind of object.
TokenRefused ==
    /\ pc \in Asking /\ ~sleeping
    /\ ~Serves(object) \/ object.early
    /\ AttemptFails

\* There is a token, but the call fails.
TokenLost ==
    /\ pc \in Asking /\ ~sleeping
    /\ Serves(object) /\ ~object.early
    /\ AttemptFails

\* initCredential() caches an object that has got a token, and nothing else.
TokenGranted ==
    /\ pc \in Asking /\ ~sleeping
    /\ Serves(object)
    /\ instance' = object
    /\ pc' = AfterInstance(pc)
    /\ tries' = 0
    /\ UNCHANGED <<chosen, mounted, host, sleeping, object, stores>>

\* Mutant: one attempt more than the limit.
WakeMutant ==
    /\ pc \in Asking /\ sleeping
    /\ sleeping' = FALSE
    /\ \/ tries <= tokenRetryLimit /\ object' = FirstObject /\ UNCHANGED pc
       \/ tries > tokenRetryLimit /\ pc' = "rejected" /\ UNCHANGED object
    /\ UNCHANGED <<chosen, mounted, host, tries, instance, stores>>

\* The wait after a failed attempt is over; the last attempt has one as well.
Wake ==
    /\ pc \in Asking /\ sleeping
    /\ sleeping' = FALSE
    /\ \/ tries < tokenRetryLimit /\ object' = FirstObject /\ UNCHANGED pc
       \/ tries >= tokenRetryLimit /\ pc' = "rejected" /\ UNCHANGED object
    /\ UNCHANGED <<chosen, mounted, host, tries, instance, stores>>

----------------------------------------------------------------------------
(* initializeSequelize() and what follows.                                  *)

\* One statement of sync() that creates a table unless it exists; its connection
\* has a token of the cached credential.
SyncTable(t) ==
    /\ pc = "tables" /\ t \notin synced
    /\ SqlMode = "azuresql" => Serves(instance)
    /\ synced' = synced \cup {t}
    /\ tables' = tables \cup {t}
    /\ tries' = 0
    /\ UNCHANGED <<chosen, mounted, host, pc, sleeping, object, instance, endpoints>>

\* The statement or its connection fails; Sequelize repeats it a few times.
SyncFails ==
    /\ pc = "tables" /\ synced # Table
    /\ tries' = tries + 1
    /\ pc' = IF tries + 1 < retryMax THEN pc ELSE "rejected"
    /\ UNCHANGED <<chosen, mounted, host, sleeping, object, instance, stores>>

\* Mutant: main() does not wait for the tables.
ListenMutant ==
    /\ pc = "tables"
    /\ pc' = "up"
    /\ UNCHANGED <<chosen, mounted, host, asking, stores>>

Listen ==
    /\ pc = "tables" /\ synced = Table
    /\ pc' = "up"
    /\ UNCHANGED <<chosen, mounted, host, asking, stores>>

\* The port is taken: nobody handles the error that listen() emits.
ListenFails ==
    /\ pc = "tables" /\ synced = Table
    /\ pc' = "rejected"
    /\ UNCHANGED <<chosen, mounted, host, asking, stores>>

\* A run is posted: its message holds the URL its containers are to report to.
PostRun ==
    /\ service = "laboratory" /\ pc = "up"
    /\ endpoints' = endpoints \cup {endpointBaseUrl}
    /\ UNCHANGED <<chosen, mounted, host, pc, asking, synced, tables>>

----------------------------------------------------------------------------
(* The platform.                                                            *)

Mount ==
    /\ ~mounted
    /\ mounted' = TRUE
    /\ UNCHANGED <<chosen, host, pc, asking, stores>>

\* Another process in another container; what was in memory is gone.
Replace ==
    /\ pc' = "start"
    /\ host' \in Host
    /\ tries' = 0 /\ sleeping' = FALSE /\ object' = None /\ instance' = None
    /\ synced' = {}
    /\ tables' = IF SqlMode = "azuresql" THEN tables ELSE {}
    /\ endpoints' = IF QueueMode = "azure" THEN endpoints ELSE {}
    /\ UNCHANGED <<chosen, mounted>>

\* main() has been rejected: nothing keeps the process alive.
Restart == pc = "rejected" /\ Replace

Crash == pc # "rejected" /\ Replace

Init ==
    /\ service \in Service
    /\ env \in Environment
    /\ defaultWorks \in BOOLEAN
    /\ mounted \in BOOLEAN
    /\ host \in Host
    /\ pc = "start"
    /\ tries = 0 /\ sleeping = FALSE /\ object = None /\ instance = None
    /\ synced = {} /\ tables = {} /\ endpoints = {}

MainStep ==
    \/ ParseQueue \/ ParseDatabase \/ ParseAuth \/ ParseWorker \/ ParseThrows
    \/ TokenGranted \/ TokenRefused \/ Wake
    \/ \E t \in Table : SyncTable(t)
    \/ Listen

Fault == TokenLost \/ ClusterFails \/ SyncFails \/ ListenFails \/ Crash

Next == MainStep \/ Fault \/ PostRun \/ Mount \/ Restart

Spec == Init /\ [][Next]_vars

\* The event loop runs main(), and the platform replaces a process that has ended.
FairSpec == Spec /\ WF_vars(MainStep) /\ WF_vars(Restart)

----------------------------------------------------------------------------
(* Properties.                                                              *)

\* The types; attempts at a credential are bounded by the retry limit.
TypeOK ==
    /\ service \in Service /\ env \in Environment /\ defaultWorks \in BOOLEAN
    /\ mounted \in BOOLEAN
    /\ host \in Host
    /\ pc \in Stage
    /\ tries \in Nat
    /\ pc \in Asking => tries <= tokenRetryLimit
    /\ sleeping \in BOOLEAN
    /\ object \in Credential \cup {None}
    /\ instance \in Credential \cup {None}
    /\ synced \subseteq Table /\ tables \subseteq Table

\* A service that is up has a complete configuration, tables that are all there,
\* and, where its queue or its database wants one, an identity that works for
\* them: the object that main() has cached, for the queue as for the database, is
\* never one that was locked out.
UpMeansUsable ==
    pc = "up" =>
        /\ Configured
        /\ service = "laboratory" => tables = Table
        /\ NeedsIdentity => instance # None /\ Serves(instance)

\* The URL a run reports to is fixed when it is sent, and a later process may have
\* to serve it.  It does where the deployment names the laboratory, the host name
\* of a container, which changes, being the last choice, and where the messages go
\* with the process that sent them.  What is left is a laboratory without a name
\* at a queue that outlives it (configuration.ts:120-131).
EarlierRunsReportHere ==
    (Given("LABORATORY_ENDPOINT") \/ Given("WEBSITE_HOSTNAME") \/ QueueMode = "inmemory")
        => endpoints \subseteq {endpointBaseUrl}

\* The identity can be had in this environment.
IdentityUsable == defaultWorks \/ Given("AZURE_CLIENT_ID")

\* The retry loop is there for identities that are mounted late: an attempt whose
\* objects are created after that fails only by a fault of the call, whatever
\* became of the attempts before it.
LaterAttemptsSucceed ==
    [][ IdentityUsable /\ TokenRefused /\ tries' > tries => object.early ]_vars

\* Where no variable is wrong and the identity, if it is needed, can be had and is
\* mounted some day, the service comes up and stays up once the faults cease: the
\* processes that end in the meantime leave nothing behind that stops the next.
ComesUp ==
    (/\ Configured
     /\ NeedsIdentity => IdentityUsable /\ <>mounted
     /\ <>[][~Fault]_vars)
        => <>[](pc = "up")

----------------------------------------------------------------------------
(* The inductive invariant of the properties of states and of               *)
(* LaterAttemptsSucceed.                                                    *)

\* main() goes on only with what it could read.
ReadSoFar ==
    /\ pc \notin {"start", "rejected"} =>
          QueueReadable /\ (service = "laboratory" => AddressReadable)
    /\ pc \in {"parseDatabase", "database", "parseAuth", "tables"} => service = "laboratory"
    /\ pc = "parseWorker" => service = "worker"
    /\ pc \in {"database", "parseAuth", "tables", "up"} /\ service = "laboratory"
          => DatabaseReadable
    /\ pc \in {"tables", "up"} /\ service = "laboratory" => AuthReadable
    /\ pc = "up" /\ service = "worker" => WorkerReadable

\* From the call of getInstance() on there is an object, and behind it a cached
\* one that works.
IdentitySoFar ==
    /\ pc \in Asking => object # None
    /\ pc \in Asking /\ ~sleeping => ~object.locked /\ (mounted \/ object.early)
    /\ instance # None => Serves(instance)
    /\ pc \notin {"start", "queue", "rejected"} /\ QueueMode = "azure" => instance # None
    /\ pc \in {"parseAuth", "tables", "up"} /\ service = "laboratory" /\ SqlMode = "azuresql"
          => instance # None

SyncedSoFar ==
    /\ synced \subseteq tables
    /\ pc = "up" /\ service = "laboratory" => synced = Table

\* Each wait counts its attempts from zero, and another attempt is made below the
\* limit only.
TriesSoFar ==
    /\ pc \in {"start", "parseDatabase"} => tries = 0
    /\ pc \in Asking /\ ~sleeping => tries < tokenRetryLimit
    /\ pc \notin Asking => ~sleeping

IInv ==
    /\ TypeOK /\ TriesSoFar /\ ReadSoFar /\ IdentitySoFar /\ SyncedSoFar
    /\ EarlierRunsReportHere
=============================================================================
