----------------------------- MODULE Connection ------------------------------
(****************************************************************************)
(* The connection of the command line tools (cli/src/conn.ts): processes    *)
(* of the CLI, each with a LaboratoryConnection, share the file that says   *)
(* which laboratory they talk to.                                           *)
(*                                                                          *)
(* One action per awaited operation.  A configuration is the endpoint and   *)
(* the account last logged in with; what the laboratory answered about how  *)
(* to log in is a function of the endpoint.  The token cache is left out:   *)
(* with an account at hand, acquireTokenSilent() may succeed or fail.       *)
(****************************************************************************)
EXTENDS Naturals

CONSTANTS
    Process,        \* processes of the CLI
    Lab,            \* endpoints of laboratories
    AADLab,         \* those that want a token; the others are unauthenticated
    MaxRequests,    \* bound: requests of one command (the demo makes nine)
    None,           \* no account, no laboratory
    Missing,        \* the file is not there
    Empty,          \* the file was truncated and not yet written
    Garbled         \* the file was written by two processes and does not validate

ASSUME ConnectionAssumption ==
    /\ AADLab \subseteq Lab
    /\ MaxRequests \in Nat \ {0}
    /\ None \notin Lab
    /\ {Missing, Empty, Garbled} \cap [endpoint : Lab, account : Lab \cup {None}] = {}

\* An account belongs to the authority of the laboratory that asked for it.
Account == AADLab
Config  == [endpoint : Lab, account : Account \cup {None}]

\* The locals of a command that has not read the file yet.
Unread  == [endpoint |-> None, account |-> None]

VARIABLES
    file,       \* the configuration file: a Config, Empty, Garbled, or Missing
    process,    \* what each process awaits, with the locals it still needs
    connected,  \* history: the laboratory of the last `connect', if it succeeded,
                \* the file named it then, and no other `connect' was going on
    mixed,      \* history: two processes have written at the same time
    disturbed   \* history: the processes at work around which another one has
                \* truncated or written the file

vars == <<file, process, connected, mixed, disturbed>>

Idle == [pc |-> "idle"]

\* pc names the operation awaited; config is the object the client's token
\* retriever holds; left counts the requests of a command, 0 is `connect'.
Awaiting(pc, config, left) == [pc |-> pc, config |-> config, left |-> left]

TypeOK ==
    /\ file \in Config \cup {Empty, Garbled, Missing}
    /\ process \in [Process -> {Idle} \cup
            [pc : {"negotiate", "read", "truncate", "write", "silent", "device",
                   "truncateLogin", "writeLogin", "request"},
             config : Config \cup {Unread}, left : 0..MaxRequests]]
    /\ connected \in Lab \cup {None}
    /\ mixed \in BOOLEAN
    /\ disturbed \subseteq Process

Init ==
    /\ file = Missing
    /\ process = [p \in Process |-> Idle]
    /\ connected = None
    /\ mixed = FALSE
    /\ disturbed = {}

----------------------------------------------------------------------------

At(p, pc) == process[p].pc = pc

GoTo(p, pc) == process' = [process EXCEPT ![p].pc = pc]

\* A process that ends, with or without an error message, leaves the file.
End(p) ==
    /\ process' = [process EXCEPT ![p] = Idle]
    /\ disturbed' = disturbed \ {p}

\* The request interceptor: buildClient() gives a retriever for AAD only.
BeforeRequest(config) == IF config.endpoint \in AADLab THEN "silent" ELSE "request"

\* Mutant: a connection that has a token retriever from the start.
ConnectUnnegotiated(p, lab) ==
    /\ At(p, "idle")
    /\ process' = [process EXCEPT ![p] =
            Awaiting("negotiate", [endpoint |-> lab, account |-> lab], 0)]
    /\ connected' = None
    /\ UNCHANGED <<file, mixed, disturbed>>

Connecting(p) == ~At(p, "idle") /\ process[p].left = 0

\* init(), up to the laboratory's answer to GET /connect.
Connect(p, lab) ==
    /\ At(p, "idle")
    /\ process' = [process EXCEPT ![p] =
            Awaiting("negotiate", [endpoint |-> lab, account |-> None], 0)]
    /\ connected' = None
    /\ UNCHANGED <<file, mixed, disturbed>>

\* Mutant: the account of the connection so far is kept.
NegotiatedMutant(p) ==
    /\ At(p, "negotiate")
    /\ process' = [process EXCEPT ![p].pc = "truncate",
            ![p].config.account = IF file \in Config THEN file.account ELSE None]
    /\ UNCHANGED <<file, connected, mixed, disturbed>>

Negotiated(p) ==
    /\ At(p, "negotiate")
    /\ GoTo(p, "truncate")
    /\ UNCHANGED <<file, connected, mixed, disturbed>>

\* Any other command, of n requests: getClient() reads the file.
Command(p, n) ==
    /\ At(p, "idle")
    /\ process' = [process EXCEPT ![p] = Awaiting("read", Unread, n)]
    /\ UNCHANGED <<file, connected, mixed, disturbed>>

ReadConfig(p) ==
    /\ At(p, "read")
    /\ file \in Config
    /\ process' = [process EXCEPT ![p] =
            Awaiting(BeforeRequest(file), file, process[p].left)]
    /\ UNCHANGED <<file, connected, mixed, disturbed>>

\* "No laboratory connection": the file is not there, or does not validate.
ReadFails(p) ==
    /\ At(p, "read")
    /\ file \notin Config
    /\ End(p)
    /\ UNCHANGED <<file, connected, mixed>>

\* fs.writeFile() truncates the file and then writes it from its start.  Where
\* another process has written in between, what that one wrote shows behind a
\* shorter text: the file does not parse, or it parses with the end of the other
\* configuration, where the account is.
Disturb(p) == disturbed' = disturbed \cup {q \in Process \ {p} : ~At(q, "idle")}

TruncateFile(p) ==
    /\ file' = Empty
    /\ Disturb(p)

WriteFile(p) ==
    LET config == process[p].config
    IN  /\ IF file = Empty THEN file' = config
           ELSE \/ file' \in {config, Garbled}
                \/ file \in Config /\ file' = [config EXCEPT !.account = file.account]
        /\ mixed' = (mixed \/ file # Empty)
        /\ Disturb(p)

\* writeConfig() in init() ...
Truncate(p) ==
    /\ At(p, "truncate")
    /\ TruncateFile(p)
    /\ GoTo(p, "write")
    /\ UNCHANGED <<connected, mixed>>

WriteConfig(p) ==
    /\ At(p, "write")
    /\ WriteFile(p)
    /\ GoTo(p, BeforeRequest(process[p].config))
    /\ UNCHANGED connected

\* acquireAADAccessToken(): silently, if the configuration has an account.  What
\* the token cache holds, and whether its file can be read, is left open ...
SilentToken(p) ==
    /\ At(p, "silent")
    /\ process[p].config.account # None
    /\ GoTo(p, "request")
    /\ UNCHANGED <<file, connected, mixed, disturbed>>

SilentFails(p) ==
    /\ At(p, "silent")
    /\ GoTo(p, "device")
    /\ UNCHANGED <<file, connected, mixed, disturbed>>

\* Mutant: what a login brings is not written to the file.
DeviceTokenMutant(p) ==
    /\ At(p, "device")
    /\ process' = [process EXCEPT ![p].pc = "request",
            ![p].config.account = process[p].config.endpoint]
    /\ UNCHANGED <<file, connected, mixed, disturbed>>

\* ... or with a code the user types in somewhere, which takes its time.
DeviceToken(p) ==
    /\ At(p, "device")
    /\ LET config == process[p].config
       IN process' = [process EXCEPT ![p] = Awaiting("truncateLogin",
                [config EXCEPT !.account = config.endpoint], process[p].left)]
    /\ UNCHANGED <<file, connected, mixed, disturbed>>

\* ... and after a login, with the configuration the process has held since it
\* started.
TruncateLogin(p) ==
    /\ At(p, "truncateLogin")
    /\ TruncateFile(p)
    /\ GoTo(p, "writeLogin")
    /\ UNCHANGED <<connected, mixed>>

WriteLogin(p) ==
    /\ At(p, "writeLogin")
    /\ WriteFile(p)
    /\ GoTo(p, "request")
    /\ UNCHANGED connected

\* Whether the file names a laboratory.
Names(lab) == file \in Config /\ file.endpoint = lab

\* GET /connect/validate of init(), or a request of a command.
Validated(p) ==
    /\ At(p, "request")
    /\ process[p].left = 0
    /\ connected' = IF \/ \E q \in Process \ {p} : Connecting(q)
                       \/ ~Names(process[p].config.endpoint)
                    THEN None ELSE process[p].config.endpoint
    /\ End(p)
    /\ UNCHANGED <<file, mixed>>

Answered(p) ==
    /\ At(p, "request")
    /\ process[p].left > 0
    /\ \/ process[p].left = 1 /\ End(p)
       \/ /\ process[p].left > 1
          /\ process' = [process EXCEPT
                ![p] = Awaiting(BeforeRequest(@.config), @.config, @.left - 1)]
          /\ UNCHANGED disturbed
    /\ UNCHANGED <<file, connected, mixed>>

\* A request, the negotiation or the login fails, and with it the command.
Fails(p) ==
    /\ process[p].pc \in {"negotiate", "device", "request"}
    /\ End(p)
    /\ UNCHANGED <<file, connected, mixed>>

\* The user interrupts the process.
Interrupt(p) ==
    /\ ~At(p, "idle")
    /\ End(p)
    /\ UNCHANGED <<file, connected, mixed>>

Next ==
    \E p \in Process :
        \/ \E lab \in Lab : Connect(p, lab)
        \/ \E n \in 1..MaxRequests : Command(p, n)
        \/ Negotiated(p) \/ ReadConfig(p) \/ ReadFails(p)
        \/ Truncate(p) \/ WriteConfig(p) \/ SilentToken(p) \/ SilentFails(p)
        \/ DeviceToken(p) \/ TruncateLogin(p) \/ WriteLogin(p)
        \/ Validated(p) \/ Answered(p) \/ Fails(p) \/ Interrupt(p)

Spec == Init /\ [][Next]_vars

----------------------------------------------------------------------------

\* The file does not pair a laboratory with an account for another one, although
\* processes connected to different laboratories write it, a login long after it
\* was read: each writes the whole of its own configuration, and a `connect'
\* starts without an account (conn.ts:52-59, 165-170).  Only two writes at the
\* same moment may mix two configurations.
AccountFitsLab ==
    (~mixed /\ file \in Config /\ file.account # None)
        => file.account = file.endpoint

\* What a process asks its laboratory with is what the file holds, account and
\* all, unless another process has touched the file since it began: whatever text
\* an interrupted or a mixed write left there before, a `connect' replaces the
\* whole of it, and what a login brings is in the file before the next request is
\* made (conn.ts:59, 169-170).  With a laboratory that then does not validate, or
\* a login that fails, it is the new laboratory that stays (conn.ts:59-61).
FileHoldsConnection ==
    \A p \in Process \ disturbed :
        process[p].pc \in {"silent", "device", "request"} => file = process[p].config

\* README.md:74 of the repository: connecting "writes the connection information
\* to ~/.sds, which is consulted every time the CLI is run".  After a `connect'
\* has succeeded, and until another one starts, the file names its laboratory.
\* It does not always: a command that is waiting for a login meanwhile writes the
\* configuration it started with when the login ends (conn.ts:169-170).
LastConnectStays ==
    (connected # None /\ file \in Config) => Names(connected)
=============================================================================
