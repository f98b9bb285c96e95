---------------------------- MODULE StartupProofs ----------------------------
(****************************************************************************)
(* What Startup promises for every environment, whatever the limits of its  *)
(* retries.                                                                 *)
(****************************************************************************)
EXTENDS Startup, TLAPS

\* What is read from the environment depends on nothing that changes.
LEMMA ReadingsStay ==
    ASSUME UNCHANGED chosen
    PROVE  /\ service' = service /\ env' = env /\ defaultWorks' = defaultWorks
           /\ QueueMode' = QueueMode /\ SqlMode' = SqlMode
           /\ QueueReadable' = QueueReadable /\ AddressReadable' = AddressReadable
           /\ DatabaseReadable' = DatabaseReadable /\ AuthReadable' = AuthReadable
           /\ WorkerReadable' = WorkerReadable
  BY DEF chosen, QueueMode, SqlMode, QueueReadable, AddressReadable, DatabaseReadable,
         AuthReadable, WorkerReadable, Given, Value, WellFormed

\* The laboratory keeps its URL, where the deployment names it or its host stays;
\* elsewhere an in-memory queue is lost with the host.
LEMMA UrlStays ==
    ASSUME UNCHANGED chosen, EarlierRunsReportHere,
           endpoints' \subseteq endpoints,
           host' = host \/ (QueueMode = "inmemory" => endpoints' = {})
    PROVE  EarlierRunsReportHere'
  <1>1. QueueMode' = QueueMode /\ env' = env
    BY ReadingsStay DEF chosen
  <1>2. CASE host' = host
    <2>1. endpointBaseUrl' = endpointBaseUrl
      BY <1>1, <1>2 DEF endpointBaseUrl, Given, Value
    <2> QED
      BY <1>1, <2>1 DEF EarlierRunsReportHere, Given
  <1>3. CASE Given("LABORATORY_ENDPOINT") \/ Given("WEBSITE_HOSTNAME")
    <2>1. endpointBaseUrl' = endpointBaseUrl
      BY <1>1, <1>3 DEF endpointBaseUrl, Given, Value
    <2> QED
      BY <1>1, <2>1 DEF EarlierRunsReportHere, Given
  <1>4. CASE QueueMode = "inmemory" => endpoints' = {}
    BY <1>1, <1>3, <1>4 DEF EarlierRunsReportHere, Given
  <1> QED
    BY <1>2, <1>4

\* A process starts with nothing asked for and nothing cached.
LEMMA InitIsGood == Init => IInv
  <1> SUFFICES ASSUME Init PROVE IInv
    OBVIOUS
  <1>1. TypeOK
    BY DEF Init, TypeOK, Stage, Asking
  <1>2. TriesSoFar /\ ReadSoFar /\ IdentitySoFar /\ SyncedSoFar /\ EarlierRunsReportHere
    BY DEF Init, TriesSoFar, ReadSoFar, IdentitySoFar, SyncedSoFar, Asking,
           EarlierRunsReportHere
  <1> QED
    BY <1>1, <1>2 DEF IInv

\* An object of a new attempt.
LEMMA NewObject ==
    ASSUME TypeOK, NEW kind \in {"default", "managed"}
    PROVE  /\ New(kind) \in Credential /\ New(kind) # None
           /\ New(kind).kind = kind /\ ~New(kind).locked
           /\ New(kind).early = ~mounted
  <1>1. mounted \in BOOLEAN
    BY DEF TypeOK
  <1>2. New(kind) \in Credential
    BY <1>1 DEF New, Credential
  <1>3. New(kind) # None
    BY <1>2, StartupAssumption DEF Credential
  <1>4. New(kind).kind = kind /\ ~New(kind).locked
    BY DEF New
  <1>5. New(kind).early = ~mounted
    BY <1>1 DEF New
  <1> QED
    BY <1>2, <1>3, <1>4, <1>5

USE StartupAssumption

\* ParseQueueConfiguration() throws, goes on, or asks for the identity.
LEMMA ParseQueueKeeps == IInv /\ ParseQueue => IInv'
  <1> SUFFICES ASSUME IInv, ParseQueue PROVE IInv'
    OBVIOUS
  <1> USE DEF IInv
  <1>1. UNCHANGED chosen /\ endpoints' = endpoints
    BY DEF ParseQueue, stores
  <1>2. FirstObject \in Credential /\ FirstObject # None /\ ~FirstObject.locked
        /\ FirstObject.early = ~mounted
    BY NewObject DEF FirstObject
  <1>3. /\ pc = "start" /\ QueueReadable /\ (service = "laboratory" => AddressReadable)
        /\ UNCHANGED <<mounted, host, tries, sleeping, instance, synced, tables>>
        /\ service \in {"laboratory", "worker"}
    BY DEF ParseQueue, stores, TypeOK
  <1>4. \/ /\ pc' = "queue" /\ object' = FirstObject /\ instance = None
        \/ /\ pc' = (IF service = "laboratory" THEN "parseDatabase" ELSE "parseWorker")
           /\ object' = object
           /\ QueueMode = "azure" => instance # None
    BY <1>3 DEF ParseQueue, GetInstance, AfterInstance
  <1>5. TypeOK'
    BY <1>1, <1>2, <1>3, <1>4, ReadingsStay DEF TypeOK, Stage, Asking, TriesSoFar
  <1>6. TriesSoFar'
    BY <1>3, <1>4 DEF TriesSoFar, Asking
  <1>7. ReadSoFar'
    BY <1>1, <1>3, <1>4, ReadingsStay DEF ReadSoFar
  <1>8. IdentitySoFar'
    BY <1>1, <1>2, <1>3, <1>4, ReadingsStay DEF IdentitySoFar, TriesSoFar, Asking, Serves
  <1>9. SyncedSoFar' /\ EarlierRunsReportHere'
    BY <1>1, <1>3, <1>4, UrlStays, ReadingsStay DEF SyncedSoFar
  <1> QED
    BY <1>5, <1>6, <1>7, <1>8, <1>9

\* ParseDatabaseConfiguration() finds the cached identity, or asks for it.
LEMMA ParseDatabaseKeeps == IInv /\ ParseDatabase => IInv'
  <1> SUFFICES ASSUME IInv, ParseDatabase PROVE IInv'
    OBVIOUS
  <1> USE DEF IInv
  <1>1. UNCHANGED chosen /\ endpoints' = endpoints
    BY DEF ParseDatabase, stores
  <1>2. FirstObject \in Credential /\ FirstObject # None /\ ~FirstObject.locked
        /\ FirstObject.early = ~mounted
    BY NewObject DEF FirstObject
  <1>3. /\ pc = "parseDatabase" /\ DatabaseReadable
        /\ UNCHANGED <<mounted, host, tries, sleeping, instance, synced, tables>>
    BY DEF ParseDatabase, stores
  <1>4. \/ /\ pc' = "database" /\ object' = FirstObject
        \/ /\ pc' = "parseAuth" /\ object' = object
           /\ SqlMode = "azuresql" => instance # None
    BY DEF ParseDatabase, GetInstance
  <1>5. TypeOK'
    BY <1>1, <1>2, <1>3, <1>4, ReadingsStay DEF TypeOK, Stage, Asking, TriesSoFar
  <1>6. TriesSoFar'
    BY <1>3, <1>4 DEF TriesSoFar, Asking
  <1>7. ReadSoFar'
    BY <1>1, <1>3, <1>4, ReadingsStay DEF ReadSoFar
  <1>8. IdentitySoFar'
    BY <1>1, <1>2, <1>3, <1>4, ReadingsStay DEF IdentitySoFar, TriesSoFar, Asking, Serves
  <1>9. SyncedSoFar' /\ EarlierRunsReportHere'
    BY <1>1, <1>3, <1>4, UrlStays, ReadingsStay DEF SyncedSoFar
  <1> QED
    BY <1>5, <1>6, <1>7, <1>8, <1>9

\* The steps of main() that only move on, or throw.
LEMMA ParsingKeeps ==
    IInv /\ (\/ ParseAuth \/ ParseWorker \/ ClusterFails \/ ParseThrows
             \/ Listen \/ ListenFails) => IInv'
  <1> SUFFICES ASSUME IInv,
                      ParseAuth \/ ParseWorker \/ ClusterFails \/ ParseThrows
                          \/ Listen \/ ListenFails
               PROVE  IInv'
    OBVIOUS
  <1> USE DEF IInv
  <1>1. UNCHANGED chosen /\ UNCHANGED <<mounted, host, tries, sleeping, object, instance,
                                       synced, tables, endpoints>>
    BY DEF ParseAuth, ParseWorker, ClusterFails, ParseThrows, Listen, ListenFails, asking,
           stores
  <1>2. \/ pc = "parseAuth" /\ AuthReadable /\ pc' = "tables"
        \/ pc = "parseWorker" /\ WorkerReadable /\ pc' = "up"
        \/ /\ pc \in {"start", "parseDatabase", "parseAuth", "parseWorker", "tables"}
           /\ pc' = "rejected"
        \/ pc = "tables" /\ synced = Table /\ pc' = "up"
    BY DEF ParseAuth, ParseWorker, ClusterFails, ParseThrows, Listen, ListenFails
  <1>3. TypeOK'
    BY <1>1, <1>2, ReadingsStay DEF TypeOK, Stage, Asking
  <1>4. TriesSoFar'
    BY <1>1, <1>2 DEF TriesSoFar, Asking
  <1>5. ReadSoFar'
    BY <1>1, <1>2, ReadingsStay DEF ReadSoFar
  <1>6. IdentitySoFar'
    BY <1>1, <1>2, ReadingsStay DEF IdentitySoFar, ReadSoFar, Asking, Serves
  <1>7. SyncedSoFar'
    BY <1>1, <1>2, ReadingsStay DEF SyncedSoFar, ReadSoFar
  <1>8. EarlierRunsReportHere'
    BY <1>1, UrlStays
  <1> QED
    BY <1>3, <1>4, <1>5, <1>6, <1>7, <1>8

\* A token is refused or lost.
LEMMA AttemptFailsKeeps ==
    IInv /\ pc \in Asking /\ ~sleeping /\ AttemptFails => IInv'
  <1> SUFFICES ASSUME IInv, pc \in Asking, ~sleeping, AttemptFails PROVE IInv'
    OBVIOUS
  <1> USE DEF IInv
  <1>1. UNCHANGED chosen /\ UNCHANGED <<mounted, host, pc, instance, synced, tables, endpoints>>
    BY DEF AttemptFails, stores
  <1>2. object \in Credential
    BY DEF TypeOK, IdentitySoFar
  <1>3. [object EXCEPT !.locked = TRUE] \in Credential
    BY <1>2 DEF Credential
  <1>4. \/ object' = New("managed") /\ UNCHANGED <<tries, sleeping>>
        \/ /\ object' = [object EXCEPT !.locked = TRUE]
           /\ tries' = tries + 1 /\ sleeping' = TRUE
    BY DEF AttemptFails
  <1>5. object' \in Credential /\ object' # None
    <2>1. None \notin Credential
      BY StartupAssumption DEF Credential
    <2> QED
      BY <2>1, <1>3, <1>4, NewObject
  <1>6. TypeOK'
    <2>1. tries' \in Nat /\ tries' <= tokenRetryLimit
      BY <1>4 DEF TypeOK, TriesSoFar
    <2>2. sleeping' \in BOOLEAN
      BY <1>4 DEF TypeOK
    <2> QED
      BY <2>1, <2>2, <1>1, <1>5, ReadingsStay DEF TypeOK
  <1>7. TriesSoFar'
    BY <1>1, <1>4 DEF TriesSoFar, Asking
  <1>8. ReadSoFar'
    BY <1>1, ReadingsStay DEF ReadSoFar
  <1>9. IdentitySoFar'
    <2>1. ~sleeping' => ~object'.locked /\ (mounted \/ object'.early)
      BY <1>4, NewObject
    <2> QED
      BY <2>1, <1>1, <1>5, ReadingsStay DEF IdentitySoFar, Serves
  <1>10. SyncedSoFar' /\ EarlierRunsReportHere'
    BY <1>1, UrlStays, ReadingsStay DEF SyncedSoFar
  <1> QED
    BY <1>6, <1>7, <1>8, <1>9, <1>10

\* An object that has got a token is cached, and it is one that works.
LEMMA TokenGrantedKeeps == IInv /\ TokenGranted => IInv'
  <1> SUFFICES ASSUME IInv, TokenGranted PROVE IInv'
    OBVIOUS
  <1> USE DEF IInv
  <1>1. /\ UNCHANGED chosen
        /\ UNCHANGED <<mounted, host, sleeping, object, synced, tables, endpoints>>
        /\ instance' = object /\ Serves(object) /\ tries' = 0 /\ ~sleeping
    BY DEF TokenGranted, stores
  <1>2. \/ pc = "queue" /\ service = "laboratory" /\ pc' = "parseDatabase"
        \/ pc = "queue" /\ service = "worker" /\ pc' = "parseWorker"
        \/ pc = "database" /\ service = "laboratory" /\ pc' = "parseAuth"
    BY DEF TokenGranted, Asking, AfterInstance, ReadSoFar, TypeOK
  <1>3. instance' \in Credential /\ instance' # None
    BY <1>1 DEF TypeOK, IdentitySoFar, TokenGranted
  <1>4. TypeOK'
    BY <1>1, <1>2, <1>3, ReadingsStay DEF TypeOK, Stage, Asking
  <1>5. TriesSoFar'
    BY <1>1, <1>2 DEF TriesSoFar, Asking
  <1>6. ReadSoFar'
    BY <1>1, <1>2, ReadingsStay DEF ReadSoFar
  <1>7. IdentitySoFar'
    BY <1>1, <1>2, <1>3, ReadingsStay DEF IdentitySoFar, Asking, Serves
  <1>8. SyncedSoFar' /\ EarlierRunsReportHere'
    BY <1>1, <1>2, UrlStays, ReadingsStay DEF SyncedSoFar
  <1> QED
    BY <1>4, <1>5, <1>6, <1>7, <1>8

\* After the wait another attempt is made with new objects, or the limit is reached.
LEMMA WakeKeeps == IInv /\ Wake => IInv'
  <1> SUFFICES ASSUME IInv, Wake PROVE IInv'
    OBVIOUS
  <1> USE DEF IInv
  <1>1. /\ UNCHANGED chosen
        /\ UNCHANGED <<mounted, host, tries, instance, synced, tables, endpoints>>
        /\ pc \in Asking /\ sleeping' = FALSE
    BY DEF Wake, stores
  <1>2. \/ tries < tokenRetryLimit /\ object' = FirstObject /\ pc' = pc
        \/ pc' = "rejected" /\ object' = object
    BY DEF Wake
  <1>3. FirstObject \in Credential /\ FirstObject # None /\ ~FirstObject.locked
        /\ FirstObject.early = ~mounted
    BY NewObject DEF FirstObject
  <1>4. TypeOK'
    BY <1>1, <1>2, <1>3, ReadingsStay DEF TypeOK, Stage, Asking
  <1>5. TriesSoFar'
    BY <1>1, <1>2 DEF TriesSoFar, Asking
  <1>6. ReadSoFar'
    BY <1>1, <1>2, ReadingsStay DEF ReadSoFar
  <1>7. IdentitySoFar'
    BY <1>1, <1>2, <1>3, ReadingsStay DEF IdentitySoFar, Asking, Serves
  <1>8. SyncedSoFar' /\ EarlierRunsReportHere'
    BY <1>1, <1>2, UrlStays, ReadingsStay DEF SyncedSoFar, Asking
  <1> QED
    BY <1>4, <1>5, <1>6, <1>7, <1>8

\* sync() creates a table, or throws.
LEMMA SyncKeeps == IInv /\ (SyncFails \/ \E t \in Table : SyncTable(t)) => IInv'
  <1> SUFFICES ASSUME IInv, SyncFails \/ \E t \in Table : SyncTable(t) PROVE IInv'
    OBVIOUS
  <1> USE DEF IInv
  <1>1. /\ UNCHANGED chosen
        /\ UNCHANGED <<mounted, host, sleeping, object, instance, endpoints>>
        /\ pc = "tables" /\ pc' \in {"tables", "rejected"}
        /\ tries' \in {0, tries + 1}
    BY DEF SyncFails, SyncTable, stores
  <1>2. \E S \in SUBSET Table : synced' = synced \cup S /\ tables' = tables \cup S
    <2>1. CASE SyncFails
      <3>1. synced' = synced \cup {} /\ tables' = tables \cup {}
        BY <2>1 DEF SyncFails, stores
      <3> QED
        BY <3>1
    <2>2. CASE \E t \in Table : SyncTable(t)
      <3> PICK t \in Table : SyncTable(t)
        BY <2>2
      <3> QED
        BY DEF SyncTable
    <2> QED
      BY <2>1, <2>2
  <1>3. TypeOK'
    BY <1>1, <1>2, ReadingsStay DEF TypeOK, Stage, Asking
  <1>4. TriesSoFar'
    BY <1>1 DEF TriesSoFar, Asking
  <1>5. ReadSoFar'
    BY <1>1, ReadingsStay DEF ReadSoFar
  <1>6. IdentitySoFar'
    BY <1>1, ReadingsStay DEF IdentitySoFar, Asking, Serves
  <1>7. SyncedSoFar' /\ EarlierRunsReportHere'
    BY <1>1, <1>2, UrlStays, ReadingsStay DEF SyncedSoFar
  <1> QED
    BY <1>3, <1>4, <1>5, <1>6, <1>7

\* A laboratory that is up sends a run, which is to report to its URL.
LEMMA PostRunKeeps == IInv /\ PostRun => IInv'
  <1> SUFFICES ASSUME IInv, PostRun PROVE IInv'
    OBVIOUS
  <1> USE DEF IInv
  <1>1. /\ UNCHANGED chosen
        /\ UNCHANGED <<mounted, host, pc, tries, sleeping, object, instance, synced, tables>>
        /\ endpoints' = endpoints \cup {endpointBaseUrl}
    BY DEF PostRun, asking
  <1>2. TypeOK' /\ TriesSoFar'
    BY <1>1, ReadingsStay DEF TypeOK, TriesSoFar
  <1>3. ReadSoFar' /\ IdentitySoFar' /\ SyncedSoFar'
    BY <1>1, ReadingsStay DEF ReadSoFar, IdentitySoFar, SyncedSoFar, Serves
  <1>4. EarlierRunsReportHere'
    <2>1. endpointBaseUrl' = endpointBaseUrl /\ QueueMode' = QueueMode
      BY <1>1, ReadingsStay DEF chosen, endpointBaseUrl, Given, Value
    <2> QED
      BY <1>1, <2>1 DEF chosen, EarlierRunsReportHere, Given
  <1> QED
    BY <1>2, <1>3, <1>4

\* The identity is mounted: objects locked out before stay so.
LEMMA MountKeeps == IInv /\ Mount => IInv'
  <1> SUFFICES ASSUME IInv, Mount PROVE IInv'
    OBVIOUS
  <1> USE DEF IInv
  <1>1. /\ UNCHANGED chosen
        /\ UNCHANGED <<host, pc, tries, sleeping, object, instance, synced, tables, endpoints>>
        /\ mounted' = TRUE
    BY DEF Mount, asking, stores
  <1>2. TypeOK' /\ TriesSoFar'
    BY <1>1, ReadingsStay DEF TypeOK, TriesSoFar
  <1>3. ReadSoFar' /\ SyncedSoFar' /\ EarlierRunsReportHere'
    BY <1>1, ReadingsStay, UrlStays DEF ReadSoFar, SyncedSoFar
  <1>4. IdentitySoFar'
    BY <1>1, ReadingsStay DEF IdentitySoFar, Serves
  <1> QED
    BY <1>2, <1>3, <1>4

\* Another process starts, on a host of another name.
LEMMA ReplaceKeeps == IInv /\ Replace => IInv'
  <1> SUFFICES ASSUME IInv, Replace PROVE IInv'
    OBVIOUS
  <1> USE DEF IInv
  <1>1. /\ UNCHANGED chosen /\ UNCHANGED mounted
        /\ pc' = "start" /\ host' \in Host /\ tries' = 0 /\ sleeping' = FALSE
        /\ object' = None /\ instance' = None /\ synced' = {}
        /\ tables' \in {tables, {}} /\ endpoints' \in {endpoints, {}}
        /\ QueueMode = "inmemory" => endpoints' = {}
    BY DEF Replace
  <1>2. TypeOK' /\ TriesSoFar'
    BY <1>1, ReadingsStay DEF TypeOK, TriesSoFar, Stage, Asking
  <1>3. ReadSoFar' /\ IdentitySoFar' /\ SyncedSoFar'
    BY <1>1, ReadingsStay DEF ReadSoFar, IdentitySoFar, SyncedSoFar, Asking
  <1>4. EarlierRunsReportHere'
    BY <1>1, UrlStays
  <1> QED
    BY <1>2, <1>3, <1>4

\* Every step keeps the invariant.
LEMMA NextKeeps == IInv /\ [Next]_vars => IInv'
  <1> SUFFICES ASSUME IInv, [Next]_vars PROVE IInv'
    OBVIOUS
  <1>1. CASE MainStep
    BY <1>1, ParseQueueKeeps, ParseDatabaseKeeps, ParsingKeeps, AttemptFailsKeeps,
       TokenGrantedKeeps, WakeKeeps, SyncKeeps
       DEF MainStep, TokenRefused
  <1>2. CASE Fault
    BY <1>2, AttemptFailsKeeps, ParsingKeeps, SyncKeeps, ReplaceKeeps DEF Fault, TokenLost, Crash
  <1>3. CASE PostRun \/ Mount \/ Restart
    BY <1>3, PostRunKeeps, MountKeeps, ReplaceKeeps DEF Restart
  <1>4. CASE UNCHANGED vars
    <2>1. /\ UNCHANGED chosen
          /\ UNCHANGED <<mounted, host, pc, tries, sleeping, object, instance, synced,
                         tables, endpoints>>
      BY <1>4 DEF vars, asking, stores
    <2>2. TypeOK' /\ TriesSoFar'
      BY <2>1, ReadingsStay DEF IInv, TypeOK, TriesSoFar
    <2>3. ReadSoFar' /\ SyncedSoFar'
      BY <2>1, ReadingsStay DEF IInv, ReadSoFar, SyncedSoFar
    <2>4. IdentitySoFar'
      BY <2>1, ReadingsStay DEF IInv, IdentitySoFar, Serves
    <2>5. EarlierRunsReportHere'
      BY <2>1, UrlStays DEF IInv
    <2> QED
      BY <2>2, <2>3, <2>4, <2>5 DEF IInv
  <1> QED
    BY <1>1, <1>2, <1>3, <1>4 DEF Next

\* The invariant holds in every reachable state.
LEMMA Invariance == Spec => []IInv
  BY InitIsGood, NextKeeps, PTL DEF Spec

\* The states of starting processes are of their types, and no process tries for
\* its identity more often than the limit says.
THEOREM TypesCorrect == Spec => []TypeOK
  <1>1. IInv => TypeOK
    BY DEF IInv
  <1> QED
    BY Invariance, <1>1, PTL

\* A laboratory or a worker that is up has read all it needs, has all its tables,
\* and holds a credential that works: of every environment, every number of
\* attempts and every moment the identity is mounted.
THEOREM UpIsUsable == Spec => []UpMeansUsable
  <1>1. IInv => UpMeansUsable
    <2> SUFFICES ASSUME IInv, pc = "up"
                 PROVE  /\ Configured
                        /\ service = "laboratory" => tables = Table
                        /\ NeedsIdentity => instance # None /\ Serves(instance)
      BY DEF UpMeansUsable
    <2>1. Configured
      BY DEF IInv, ReadSoFar, Configured
    <2>2. service = "laboratory" => tables = Table
      BY DEF IInv, SyncedSoFar, TypeOK
    <2>3. NeedsIdentity => instance # None
      BY DEF IInv, IdentitySoFar, NeedsIdentity
    <2>4. instance # None => Serves(instance)
      BY DEF IInv, IdentitySoFar
    <2> QED
      BY <2>1, <2>2, <2>3, <2>4
  <1> QED
    BY Invariance, <1>1, PTL

\* Runs that an earlier process sent report to the present one, wherever the
\* deployment names the laboratory or the queue does not outlive it.
THEOREM EarlierRunsAlwaysReportHere == Spec => []EarlierRunsReportHere
  <1>1. IInv => EarlierRunsReportHere
    BY DEF IInv
  <1> QED
    BY Invariance, <1>1, PTL

\* No attempt at the identity fails for the sake of an earlier one.
THEOREM LaterAttemptsAlwaysSucceed == Spec => LaterAttemptsSucceed
  <1>1. IInv /\ [Next]_vars
            => [IdentityUsable /\ TokenRefused /\ tries' > tries => object.early]_vars
    <2> SUFFICES ASSUME IInv, IdentityUsable, TokenRefused, tries' > tries
                 PROVE  object.early
      OBVIOUS
    <2>1. pc \in Asking /\ ~sleeping /\ (~Serves(object) \/ object.early) /\ AttemptFails
      BY DEF TokenRefused
    <2>2. object \in Credential /\ ~object.locked /\ (mounted \/ object.early)
      BY <2>1 DEF IInv, TypeOK, IdentitySoFar
    <2>3. ~(object.kind = "default" /\ Given("AZURE_CLIENT_ID"))
      BY <2>1 DEF AttemptFails, IInv, TypeOK
    <2>4. object.kind = "default" => defaultWorks
      BY <2>3 DEF IdentityUsable
    <2> QED
      BY <2>1, <2>2, <2>4 DEF Serves
  <1> QED
    BY Invariance, <1>1, PTL DEF Spec, LaterAttemptsSucceed
=============================================================================
