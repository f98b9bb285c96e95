-------------------------- MODULE ConnectionProofs ---------------------------
(****************************************************************************)
(* Theorems about Connection, for any number of processes and laboratories. *)
(*                                                                          *)
(* What the file holds is what some process held, so the invariant has to   *)
(* speak of the configurations of the processes as well.  StepKeeps says    *)
(* what a step has to do to its process and to the file to keep the         *)
(* invariant; the lemmas after it apply it to kinds of steps.               *)
(****************************************************************************)
EXTENDS Connection, TLAPS

Working(p) == process[p].pc # "idle"

\* The account, if any, is for the laboratory the configuration names.
Fits(config) == config.account \in {None, config.endpoint}

\* A process that has something to write or to ask holds a configuration, and one
\* that logs in holds that of a laboratory that wants it.
HolderOK(holder) ==
    /\ holder.pc # "read" => holder.config \in Config
    /\ holder.pc \in {"silent", "device"} => holder.config.endpoint \in AADLab

HeldOK ==
    \A p \in Process : Working(p) =>
        HolderOK(process[p]) /\ (~mixed => Fits(process[p].config))

FileOK == (~mixed /\ file \in Config) => Fits(file)

\* An undisturbed process that has truncated the file finds it empty, and one that
\* has read or written its configuration finds it there.
Settled(holder, content) ==
    /\ holder.pc \in {"write", "writeLogin"} => content = Empty
    /\ holder.pc \in {"silent", "device", "request"} => content = holder.config

UndisturbedOK == \A p \in Process \ disturbed : Settled(process[p], file)

IInv == TypeOK /\ HeldOK /\ FileOK /\ UndisturbedOK

PCs == {"negotiate", "read", "truncate", "write", "silent", "device",
        "truncateLogin", "writeLogin", "request"}

Active == [pc : PCs, config : Config \cup {Unread}, left : 0..MaxRequests]

Writing == {"write", "writeLogin"}
Asking  == {"silent", "device", "request"}

----------------------------------------------------------------------------

\* What a file may hold besides a configuration.
LEMMA NotAConfig == {Missing, Empty, Garbled} \cap Config = {}
  BY ConnectionAssumption, SMT DEF Config, Account

\* What a step has to do to one process, and to the file, to keep the invariant.
LEMMA StepKeeps ==
    ASSUME IInv, NEW p \in Process, NEW next \in {Idle} \cup Active,
           process' = [process EXCEPT ![p] = next],
           next = Idle \/ (HolderOK(next) /\ (~mixed' => Fits(next.config))),
           file' \in Config \cup {Empty, Garbled, Missing},
           connected' \in Lab \cup {None},
           mixed' \in BOOLEAN,
           mixed => mixed',
           ~mixed' /\ file' \in Config => Fits(file'),
           disturbed' \subseteq Process,
           disturbed \ {p} \subseteq disturbed',
           file' = file \/ Disturb(p),
           p \notin disturbed' => Settled(next, file')
    PROVE  IInv'
<1>1. TypeOK'
  BY SMT DEF IInv, TypeOK, Active, PCs
<1>2. HeldOK'
  <2> SUFFICES ASSUME NEW q \in Process, process'[q].pc # "idle"
               PROVE  /\ HolderOK(process'[q])
                      /\ ~mixed' => Fits(process'[q].config)
    BY DEF HeldOK, Working, HolderOK, Fits
  <2>1. CASE q = p
    <3>1. process'[q] = next
      BY <2>1, SMT DEF IInv, TypeOK
    <3> QED
      BY <3>1 DEF Idle
  <2>2. CASE q # p
    <3>1. process'[q] = process[q]
      BY <2>2, SMT DEF IInv, TypeOK
    <3> QED
      BY <3>1 DEF IInv, HeldOK, Working
  <2> QED
    BY <2>1, <2>2
<1>3. FileOK'
  BY DEF FileOK, Fits
<1>4. UndisturbedOK'
  <2> SUFFICES ASSUME NEW q \in Process, q \notin disturbed'
               PROVE  Settled(process[q], file)'
    BY DEF UndisturbedOK
  <2>1. CASE q = p
    <3>1. process'[q] = next
      BY <2>1, SMT DEF IInv, TypeOK
    <3> QED
      BY <2>1, <3>1 DEF Settled
  <2>2. CASE q # p
    <3>1. process'[q] = process[q] /\ q \notin disturbed
      BY <2>2, SMT DEF IInv, TypeOK
    <3>2. CASE file' = file
      BY <3>1, <3>2 DEF IInv, UndisturbedOK, Settled
    <3>3. CASE Disturb(p)
      <4>1. process'[q].pc = "idle"
        BY <2>2, <3>1, <3>3 DEF Disturb, At
      <4> QED
        BY <4>1 DEF Settled
    <3> QED
      BY <3>2, <3>3
  <2> QED
    BY <2>1, <2>2
<1> QED
  BY <1>1, <1>2, <1>3, <1>4 DEF IInv

\* What is known of a process that is at work.
LEMMA AtWork ==
    ASSUME IInv, NEW p \in Process, Working(p)
    PROVE  /\ process[p] \in Active
           /\ HolderOK(process[p])
           /\ ~mixed => Fits(process[p].config)
  BY SMT DEF IInv, TypeOK, HeldOK, Working, Active, PCs, Idle

\* A process goes on with the configuration it has.
LEMMA GoesOn ==
    ASSUME IInv, NEW p \in Process, Working(p), NEW pc \in PCs \ {"read"},
           process[p].pc # "read",
           pc \in {"silent", "device"} => process[p].config.endpoint \in AADLab,
           GoTo(p, pc)
    PROVE  \E next \in Active :
            /\ process' = [process EXCEPT ![p] = next]
            /\ next.pc = pc
            /\ next.config = process[p].config
            /\ HolderOK(next)
            /\ ~mixed => Fits(next.config)
<1> DEFINE next == [process[p] EXCEPT !.pc = pc]
<1>1. /\ next \in Active
      /\ next.pc = pc
      /\ next.config = process[p].config
  BY AtWork, SMT DEF Active, PCs
<1>2. process' = [process EXCEPT ![p] = next]
  BY SMT DEF GoTo
<1>3. HolderOK(next) /\ (~mixed => Fits(next.config))
  BY <1>1, AtWork DEF HolderOK
<1> HIDE DEF next
<1> QED
  BY <1>1, <1>2, <1>3

\* Steps that leave the file alone, on the way of a process ...
LEMMA GoToKeeps ==
    ASSUME IInv, NEW p \in Process, Working(p), NEW pc \in PCs \ ({"read"} \cup Writing),
           process[p].pc # "read",
           pc \in {"silent", "device"} => process[p].config.endpoint \in AADLab,
           pc \in Asking => process[p].pc \in Asking,
           GoTo(p, pc), UNCHANGED <<file, connected, mixed, disturbed>>
    PROVE  IInv'
<1>1. PICK next \in Active :
        /\ process' = [process EXCEPT ![p] = next]
        /\ next.pc = pc
        /\ next.config = process[p].config
        /\ HolderOK(next)
        /\ ~mixed => Fits(next.config)
  BY GoesOn
<1>2. /\ file' \in Config \cup {Empty, Garbled, Missing}
      /\ connected' \in Lab \cup {None}
      /\ mixed' \in BOOLEAN
      /\ ~mixed' /\ file' \in Config => Fits(file')
      /\ disturbed' \subseteq Process
      /\ disturbed \ {p} \subseteq disturbed'
  BY DEF IInv, TypeOK, FileOK
<1>3. p \notin disturbed' => Settled(next, file')
  BY <1>1 DEF IInv, UndisturbedOK, Settled, Asking, Writing
<1> QED
  BY <1>1, <1>2, <1>3, StepKeeps

\* ... and at its end.
LEMMA EndKeeps ==
    ASSUME IInv, NEW p \in Process, End(p), UNCHANGED <<file, mixed>>,
           connected' \in Lab \cup {None}
    PROVE  IInv'
<1>1. process' = [process EXCEPT ![p] = Idle]
  BY DEF End
<1>2. /\ file' \in Config \cup {Empty, Garbled, Missing}
      /\ mixed' \in BOOLEAN
      /\ ~mixed' /\ file' \in Config => Fits(file')
      /\ disturbed' \subseteq Process
      /\ disturbed \ {p} \subseteq disturbed'
  BY DEF End, IInv, TypeOK, FileOK
<1>3. p \notin disturbed' => Settled(Idle, file')
  BY DEF Settled, Idle
<1> QED
  BY <1>1, <1>2, <1>3, StepKeeps

\* The first half of a write.
LEMMA TruncateKeeps ==
    ASSUME IInv, NEW p \in Process, Working(p), NEW pc \in Writing,
           process[p].pc # "read",
           TruncateFile(p), GoTo(p, pc), UNCHANGED <<connected, mixed>>
    PROVE  IInv'
<1>1. pc \in PCs \ {"read"} /\ pc \notin {"silent", "device"}
  BY DEF PCs, Writing
<1>2. PICK next \in Active :
        /\ process' = [process EXCEPT ![p] = next]
        /\ next.pc = pc
        /\ HolderOK(next)
        /\ ~mixed => Fits(next.config)
  BY <1>1, GoesOn
<1>3. /\ file' = Empty /\ Disturb(p)
      /\ file' \in Config \cup {Empty, Garbled, Missing} /\ file' \notin Config
      /\ connected' \in Lab \cup {None}
      /\ mixed' \in BOOLEAN
  BY NotAConfig DEF IInv, TypeOK, TruncateFile
<1>4. disturbed' \subseteq Process /\ disturbed \ {p} \subseteq disturbed'
  BY <1>3 DEF Disturb, IInv, TypeOK
<1>5. Settled(next, file')
  BY <1>2, <1>3 DEF Settled, Writing
<1> QED
  BY <1>2, <1>3, <1>4, <1>5, StepKeeps

\* The other half of a write.
LEMMA WriteKeeps ==
    ASSUME IInv, NEW p \in Process, process[p].pc \in Writing,
           NEW pc \in PCs \ ({"read"} \cup Writing),
           pc \in {"silent", "device"} => process[p].config.endpoint \in AADLab,
           WriteFile(p), GoTo(p, pc), UNCHANGED connected
    PROVE  IInv'
<1>0. Working(p) /\ process[p].pc # "read"
  BY DEF Working, Writing
<1>1. PICK next \in Active :
        /\ process' = [process EXCEPT ![p] = next]
        /\ next.pc = pc
        /\ next.config = process[p].config
        /\ HolderOK(next)
        /\ ~mixed => Fits(next.config)
  BY <1>0, GoesOn
<1>2. process[p].config \in Config
  BY <1>0, AtWork DEF HolderOK
<1>3. file' \in Config \cup {Garbled} /\ mixed' \in BOOLEAN
  <2>1. mixed' \in BOOLEAN
    BY DEF WriteFile, IInv, TypeOK
  <2>2. CASE file = Empty
    BY <2>1, <2>2, <1>2 DEF WriteFile
  <2>3. CASE file' \in {process[p].config, Garbled}
    BY <2>1, <2>3, <1>2
  <2>4. CASE file \in Config /\ file' = [process[p].config EXCEPT !.account = file.account]
    BY <2>1, <2>4, <1>2, SMT DEF Config
  <2> QED
    BY <2>2, <2>3, <2>4 DEF WriteFile
<1>4. /\ ~mixed' => file' = next.config
      /\ mixed => mixed'
      /\ file = Empty => file' = next.config
      /\ Disturb(p)
  BY <1>1 DEF WriteFile
<1>5. /\ connected' \in Lab \cup {None}
      /\ disturbed' \subseteq Process /\ disturbed \subseteq disturbed'
  BY <1>4 DEF IInv, TypeOK, Disturb
<1>6. /\ ~mixed' /\ file' \in Config => Fits(file')
      /\ ~mixed' => Fits(next.config)
  BY <1>1, <1>2, <1>4
<1>7. p \notin disturbed' => Settled(next, file')
  <2> SUFFICES ASSUME p \notin disturbed' PROVE Settled(next, file')
    OBVIOUS
  <2>1. file = Empty
    BY <1>5 DEF IInv, UndisturbedOK, Settled, Writing
  <2> QED
    BY <1>1, <1>4, <2>1 DEF Settled, Writing
<1> QED
  BY <1>1, <1>3, <1>4, <1>5, <1>6, <1>7, StepKeeps

----------------------------------------------------------------------------

\* A process starts: with no account, or with nothing read.
LEMMA StartKeeps ==
    ASSUME IInv, NEW p \in Process,
           \/ \E lab \in Lab : Connect(p, lab)
           \/ \E n \in 1..MaxRequests : Command(p, n)
    PROVE  IInv'
<1>1. UNCHANGED <<file, mixed, disturbed>>
  BY DEF Connect, Command
<1>2. connected' \in Lab \cup {None}
  BY DEF Connect, Command, IInv, TypeOK
<1> DEFINE Starts(next) == /\ process' = [process EXCEPT ![p] = next]
                           /\ HolderOK(next)
                           /\ Fits(next.config)
                           /\ Settled(next, file')
<1>3. ASSUME NEW lab \in Lab, Connect(p, lab)
      PROVE  \E next \in Active : Starts(next)
  <2> DEFINE config == [endpoint |-> lab, account |-> None]
             next == [pc |-> "negotiate", config |-> config, left |-> 0]
  <2>1. config \in Config /\ Fits(config)
    BY DEF Config, Fits
  <2>2. next \in Active
    BY <2>1, ConnectionAssumption, SMT DEF Active, PCs
  <2>3. Starts(next)
    BY <1>3, <2>1 DEF Connect, Awaiting, HolderOK, Settled
  <2> QED
    BY <2>2, <2>3
<1>4. ASSUME NEW n \in 1..MaxRequests, Command(p, n)
      PROVE  \E next \in Active : Starts(next)
  <2> DEFINE next == [pc |-> "read", config |-> Unread, left |-> n]
  <2>1. next \in Active
    BY ConnectionAssumption, SMT DEF Active, PCs
  <2>2. Starts(next)
    BY <1>4 DEF Command, Awaiting, HolderOK, Fits, Unread, Settled
  <2> QED
    BY <2>1, <2>2
<1>5. PICK next \in Active : Starts(next)
  BY <1>3, <1>4
<1>6. /\ file' \in Config \cup {Empty, Garbled, Missing}
      /\ mixed' \in BOOLEAN
      /\ ~mixed' /\ file' \in Config => Fits(file')
      /\ disturbed' \subseteq Process
      /\ disturbed \ {p} \subseteq disturbed'
  BY <1>1 DEF IInv, TypeOK, FileOK
<1> QED
  BY <1>1, <1>2, <1>5, <1>6, StepKeeps

\* A command has read the file, or makes its next request.
LEMMA RequestKeeps ==
    ASSUME IInv, NEW p \in Process, Working(p), NEW config \in Config,
           NEW left \in 0..MaxRequests,
           ~mixed => Fits(config), p \notin disturbed => file = config,
           process' = [process EXCEPT ![p] =
                            Awaiting(BeforeRequest(config), config, left)],
           UNCHANGED <<file, connected, mixed, disturbed>>
    PROVE  IInv'
<1> DEFINE next == Awaiting(BeforeRequest(config), config, left)
<1>1. next \in Active /\ next.config = config /\ next.pc \notin Writing
  BY SMT DEF Active, PCs, Awaiting, BeforeRequest, Writing
<1>2. HolderOK(next)
  BY SMT DEF Awaiting, BeforeRequest, HolderOK
<1>3. /\ file' \in Config \cup {Empty, Garbled, Missing}
      /\ connected' \in Lab \cup {None}
      /\ mixed' \in BOOLEAN
      /\ ~mixed' /\ file' \in Config => Fits(file')
      /\ disturbed' \subseteq Process
      /\ disturbed \ {p} \subseteq disturbed'
  BY DEF IInv, TypeOK, FileOK
<1> HIDE DEF next
<1>4. process' = [process EXCEPT ![p] = next]
  BY DEF next
<1>5. p \notin disturbed' => Settled(next, file')
  BY <1>1 DEF Settled, Writing
<1> QED
  BY <1>1, <1>2, <1>3, <1>4, <1>5, StepKeeps

\* A login ends with an account for the laboratory of the process.
LEMMA LoginKeeps ==
    ASSUME IInv, NEW p \in Process, DeviceToken(p)
    PROVE  IInv'
<1> DEFINE config == [process[p].config EXCEPT !.account = process[p].config.endpoint]
           next == Awaiting("truncateLogin", config, process[p].left)
<1>1. Working(p) /\ process[p].pc = "device"
  BY DEF DeviceToken, At, Working
<1>2. /\ process[p] \in Active /\ process[p].config \in Config
      /\ process[p].config.endpoint \in AADLab
  BY <1>1, AtWork DEF HolderOK
<1>3. config \in Config /\ Fits(config)
  BY <1>2, SMT DEF Config, Account, Fits
<1> HIDE DEF config
<1>4. next \in Active /\ next.pc = "truncateLogin" /\ next.config = config
  BY <1>2, <1>3, SMT DEF Awaiting, Active, PCs
<1>5. process' = [process EXCEPT ![p] = next]
  BY DEF DeviceToken, config
<1>6. HolderOK(next)
  BY <1>3, <1>4 DEF HolderOK
<1>7. /\ file' \in Config \cup {Empty, Garbled, Missing}
      /\ connected' \in Lab \cup {None}
      /\ mixed' \in BOOLEAN /\ mixed' = mixed /\ file' = file
      /\ ~mixed' /\ file' \in Config => Fits(file')
      /\ disturbed' \subseteq Process
      /\ disturbed \ {p} \subseteq disturbed'
  BY <1>1 DEF DeviceToken, IInv, TypeOK, FileOK
<1>8. Settled(next, file')
  BY <1>4 DEF Settled
<1> HIDE DEF next
<1> QED
  BY <1>3, <1>4, <1>5, <1>6, <1>7, <1>8, StepKeeps

----------------------------------------------------------------------------

\* There is no file at first, and no process.
LEMMA InitKeeps == Init => IInv
<1> SUFFICES ASSUME Init PROVE IInv
  OBVIOUS
<1>1. TypeOK
  BY DEF Init, TypeOK
<1>2. HeldOK
  BY DEF Init, HeldOK, Working, Idle
<1>3. FileOK
  BY NotAConfig DEF Init, FileOK
<1>4. UndisturbedOK
  BY DEF Init, UndisturbedOK, Settled, Idle
<1> QED
  BY <1>1, <1>2, <1>3, <1>4 DEF IInv

\* Every step of every process keeps the invariant.
LEMMA NextKeeps == IInv /\ [Next]_vars => IInv'
<1> SUFFICES ASSUME IInv, [Next]_vars PROVE IInv'
  OBVIOUS
<1>1. CASE UNCHANGED vars
  BY <1>1, SMT DEF vars, IInv, TypeOK, HeldOK, HolderOK, Working, FileOK, Fits,
                UndisturbedOK, Settled
<1>2. ASSUME NEW p \in Process,
             \/ \E lab \in Lab : Connect(p, lab)
             \/ \E n \in 1..MaxRequests : Command(p, n)
      PROVE  IInv'
  BY <1>2, StartKeeps
<1>3. ASSUME NEW p \in Process, Negotiated(p) PROVE IInv'
  BY <1>3, GoToKeeps DEF Negotiated, At, Working, PCs, Writing, Asking
<1>4. ASSUME NEW p \in Process, ReadConfig(p) PROVE IInv'
  <2>1. Working(p)
    BY <1>4 DEF ReadConfig, At, Working
  <2>2. file \in Config /\ (~mixed => Fits(file)) /\ process[p].left \in 0..MaxRequests
    BY <1>4, <2>1, AtWork, SMT DEF ReadConfig, IInv, FileOK, Active
  <2> QED
    BY <1>4, <2>1, <2>2, RequestKeeps DEF ReadConfig
<1>5. ASSUME NEW p \in Process, ReadFails(p) PROVE IInv'
  BY <1>5, EndKeeps DEF ReadFails, IInv, TypeOK
<1>6. ASSUME NEW p \in Process, Truncate(p) PROVE IInv'
  BY <1>6, TruncateKeeps DEF Truncate, At, Working, Writing
<1>7. ASSUME NEW p \in Process, WriteConfig(p) PROVE IInv'
  <2> DEFINE pc == BeforeRequest(process[p].config)
  <2>1. /\ pc \in PCs \ ({"read"} \cup Writing)
        /\ pc \in {"silent", "device"} => process[p].config.endpoint \in AADLab
    BY DEF BeforeRequest, PCs, Writing
  <2>2. process[p].pc \in Writing
    BY <1>7 DEF WriteConfig, At, Writing
  <2>3. WriteFile(p) /\ GoTo(p, pc) /\ UNCHANGED connected
    BY <1>7 DEF WriteConfig
  <2> HIDE DEF pc
  <2> QED
    BY <2>1, <2>2, <2>3, WriteKeeps
<1>8. ASSUME NEW p \in Process, SilentToken(p) PROVE IInv'
  BY <1>8, GoToKeeps DEF SilentToken, At, Working, PCs, Writing, Asking
<1>9. ASSUME NEW p \in Process, SilentFails(p) PROVE IInv'
  <2>1. Working(p) /\ process[p].pc = "silent"
    BY <1>9 DEF SilentFails, At, Working
  <2>2. process[p].config.endpoint \in AADLab
    BY <2>1, AtWork DEF HolderOK
  <2> QED
    BY <1>9, <2>1, <2>2, GoToKeeps DEF SilentFails, PCs, Writing, Asking
<1>10. ASSUME NEW p \in Process, DeviceToken(p) PROVE IInv'
  BY <1>10, LoginKeeps
<1>11. ASSUME NEW p \in Process, TruncateLogin(p) PROVE IInv'
  BY <1>11, TruncateKeeps DEF TruncateLogin, At, Working, Writing
<1>12. ASSUME NEW p \in Process, WriteLogin(p) PROVE IInv'
  BY <1>12, WriteKeeps DEF WriteLogin, At, PCs, Writing
<1>13. ASSUME NEW p \in Process, Validated(p) PROVE IInv'
  <2>1. Working(p) /\ process[p].pc = "request"
    BY <1>13 DEF Validated, At, Working
  <2>2. connected' \in Lab \cup {None}
    BY <1>13, <2>1, AtWork, SMT DEF Validated, HolderOK, Config
  <2> QED
    BY <1>13, <2>2, EndKeeps DEF Validated
<1>14. ASSUME NEW p \in Process, Answered(p) PROVE IInv'
  <2>1. Working(p) /\ process[p].pc = "request"
    BY <1>14 DEF Answered, At, Working
  <2>2. CASE process[p].left = 1 /\ End(p)
    BY <1>14, <2>2, EndKeeps DEF Answered, IInv, TypeOK
  <2>3. CASE /\ process[p].left > 1
             /\ process' = [process EXCEPT ![p] =
                    Awaiting(BeforeRequest(@.config), @.config, @.left - 1)]
             /\ UNCHANGED disturbed
    <3>1. /\ process[p].config \in Config
          /\ ~mixed => Fits(process[p].config)
          /\ process[p].left - 1 \in 0..MaxRequests
      BY <2>1, <2>3, AtWork, ConnectionAssumption, SMT DEF HolderOK, Active
    <3>2. p \notin disturbed => file = process[p].config
      BY <2>1 DEF IInv, UndisturbedOK, Settled
    <3>3. process' = [process EXCEPT ![p] =
                Awaiting(BeforeRequest(process[p].config), process[p].config,
                         process[p].left - 1)]
      BY <2>3
    <3> QED
      BY <1>14, <2>1, <2>3, <3>1, <3>2, <3>3, RequestKeeps DEF Answered
  <2> QED
    BY <1>14, <2>2, <2>3 DEF Answered
<1>15. ASSUME NEW p \in Process, Fails(p) PROVE IInv'
  BY <1>15, EndKeeps DEF Fails, IInv, TypeOK
<1>16. ASSUME NEW p \in Process, Interrupt(p) PROVE IInv'
  BY <1>16, EndKeeps DEF Interrupt, IInv, TypeOK
<1> QED
  BY <1>1, <1>2, <1>3, <1>4, <1>5, <1>6, <1>7, <1>8, <1>9, <1>10, <1>11, <1>12,
     <1>13, <1>14, <1>15, <1>16 DEF Next

\* The invariant of all reachable states, from which the theorems below follow.
THEOREM ConnectionInductive == Spec => []IInv
  BY InitKeeps, NextKeeps, PTL DEF Spec

\* Types: a process that logs in is connected to a laboratory that wants it.
THEOREM ConnectionTypeCorrect == Spec => []TypeOK
<1>1. IInv => TypeOK
  BY DEF IInv
<1> QED
  BY <1>1, ConnectionInductive, PTL

\* The file does not pair a laboratory with another one's account.
THEOREM AccountsAlwaysFit == Spec => []AccountFitsLab
<1>1. IInv => AccountFitsLab
  BY DEF IInv, FileOK, Fits, AccountFitsLab
<1> QED
  BY <1>1, ConnectionInductive, PTL

\* What a process asks its laboratory with is what the file holds, unless another
\* process has written since it began.
THEOREM ConnectionKept == Spec => []FileHoldsConnection
<1>1. IInv => FileHoldsConnection
  BY DEF IInv, TypeOK, UndisturbedOK, Settled, FileHoldsConnection
<1> QED
  BY <1>1, ConnectionInductive, PTL
=============================================================================
