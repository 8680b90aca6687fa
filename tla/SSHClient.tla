----------------------------- MODULE SSHClient ------------------------------
(***************************************************************************)
(* The SSH client library and the modeler plugins that use it.  A client   *)
(* is a reconnecting factory with a chain of deferreds for its current     *)
(* connection; commands and file operations wait on dConnected, and all    *)
(* that have no answer yet are listed in runningDeferreds, so that         *)
(* resetConnection can give them an error when the connection is lost.     *)
(*                                                                         *)
(* A deferred runs its callbacks at once, so a user may ask for something  *)
(* or disconnect in the middle of resetConnection's loop and while the     *)
(* channels of a lost connection are closed: those loops are steps here.   *)
(* sshd and the network are external, and so is Twisted: which method it   *)
(* calls when is taken from how the library relies on it.                  *)
(***************************************************************************)
EXTENDS Integers, Sequences, FiniteSets, SequencesExt

CONSTANTS
    Requests,     \* what users ask for, each at most once
    Ftp,          \* the requests served by SFTP; the others are commands
    Timed,        \* the requests with a timeout
    OneAtATime,   \* whether users wait for an answer before they ask again
    MaxAttempts   \* bound on connection attempts

ASSUME SSHAssumption ==
    /\ IsFiniteSet(Requests)
    /\ Ftp \subseteq Requests /\ Timed \subseteq Requests
    /\ OneAtATime \in BOOLEAN
    /\ MaxAttempts \in Nat

VARIABLES
    link,         \* the connection, see Links
    attempts,     \* connection attempts so far
    connector,    \* whether connect() was called and disconnect() was not
    trying,       \* continueTrying
    running,      \* runningDeferreds
    loop,         \* index of resetConnection's loop over running, 0 outside it
    answering,    \* whether a callback of a user may run within a loop
    stage,        \* request -> how far it is, see Stages
    answer,       \* request -> what its deferred was fired with, or "none"
    timer         \* request -> whether its timer runs

vars == <<link, attempts, connector, trying, running, loop, answering, stage, answer, timer>>
linkVars == <<link, attempts, connector, trying>>
requestVars == <<stage, answer, timer>>

\* "down": nothing goes on; "retrying": an attempt is scheduled; "open": TCP is
\* connected; "secure": keys are exchanged, authentication goes on; "up":
\* dConnected has fired; "closing": this side closes; "dead": the protocol was
\* told that the connection is lost, the factory not yet.
Links == {"down", "retrying", "connecting", "open", "secure", "up", "closing", "dead"}

\* "waiting" on the current dConnected; "orphan": on one that never fires;
\* "opening" a channel; "open": the command runs; "eof": its output has ended;
\* "cut": the connection of the channel is gone; "stuck": no callback of the
\* channel leads to the deferred any more; "closed": the channel is closed.
Stages == {"new", "waiting", "orphan", "opening", "open", "eof", "cut", "stuck", "closed"}

Asked == {r \in Requests : stage[r] # "new"}
Answered(r) == answer[r] # "none"
Idle == loop = 0 /\ link # "dead"      \* the reactor is between two callbacks

-----------------------------------------------------------------------------
(* Firing the deferred of a request: it leaves the list; a file operation  *)
(* also stops its timer and closes its channel, while the timer of a       *)
(* command is left to run out.                                             *)

\* Mutant: a fired deferred stays in the list.
_cleanupRunningDeferreds_Not(r) == running' = running

_cleanupRunningDeferreds(r) ==
    running' = IF r \in ToSet(running)
               THEN RemoveAt(running, CHOOSE i \in DOMAIN running : running[i] = r)
               ELSE running

\* Where close() leaves a file operation.  The channel of one that waits will be made
\* without a client handle, so that it leads nowhere; a channel that is opening has
\* the handle and keeps it.
FtpClosed(r) ==
    CASE stage[r] = "waiting" -> "stuck"
      [] stage[r] = "opening" -> "opening"
      [] OTHER -> "closed"

Fire(r, what) ==
    /\ answer' = [answer EXCEPT ![r] = what]
    /\ _cleanupRunningDeferreds(r)
    /\ IF r \in Ftp
       THEN /\ timer' = [timer EXCEPT ![r] = FALSE]
            /\ stage' = [stage EXCEPT ![r] = FtpClosed(r)]
       ELSE UNCHANGED <<timer, stage>>

\* The same for a command whose channel is closed too.
FireAndClose(r, what) ==
    /\ answer' = [answer EXCEPT ![r] = IF Answered(r) THEN @ ELSE what]
    /\ _cleanupRunningDeferreds(r)
    /\ stage' = [stage EXCEPT ![r] = "closed"]

-----------------------------------------------------------------------------
(* Users: the collect() of the plugins, or callbacks of their deferreds. *)

MayAct == Idle \/ answering

connect ==
    /\ MayAct
    /\ link = "down" /\ ~connector
    /\ attempts < MaxAttempts
    /\ link' = "connecting"
    /\ connector' = TRUE
    /\ attempts' = attempts + 1
    /\ UNCHANGED <<trying, running, loop, answering>> /\ UNCHANGED requestVars

\* run(), ls(), put() and the others: a command waits for the connection
\* without a timer, a file operation starts its own at once.  On a connection
\* that is closing or dead no channel is confirmed any more, as if it waited.
Asks(r, list) ==
    /\ MayAct
    /\ stage[r] = "new"
    /\ OneAtATime => running = <<>>
    /\ running' = list
    /\ stage' = [stage EXCEPT ![r] = IF loop = 0 /\ link = "up" THEN "opening" ELSE "waiting"]
    /\ timer' = [timer EXCEPT ![r] = r \in Ftp \cap Timed]
    /\ UNCHANGED <<loop, answering, answer>> /\ UNCHANGED linkVars

\* Mutant: the deferred of a request is not tracked.
Ask_Untracked(r) == Asks(r, running)

Ask(r) == Asks(r, Append(running, r))

\* Mutant: dConnected is not replaced.
StartReset_KeepsConnected ==
    /\ loop' = 1
    /\ answering' = FALSE
    /\ stage' = [r \in Requests |-> IF stage[r] \in {"opening", "open", "eof"} THEN "cut" ELSE stage[r]]
    /\ UNCHANGED <<running, answer, timer>>

StartReset ==
    /\ loop' = 1
    /\ answering' = FALSE
    /\ stage' = [r \in Requests |-> CASE stage[r] = "waiting" -> "orphan"
                                      [] stage[r] \in {"opening", "open", "eof"} -> "cut"
                                      [] OTHER -> stage[r]]
    /\ UNCHANGED <<running, answer, timer>>

disconnect ==
    /\ MayAct
    /\ connector
    /\ connector' = FALSE
    /\ trying' = FALSE
    /\ UNCHANGED attempts
    /\ \/ \* stopTrying() aborts the attempt, which fails at once
          /\ link = "connecting"
          /\ link' = "down"
          /\ StartReset
       \/ /\ link # "connecting"
          /\ link' = CASE link = "retrying" -> "down"
                       [] link \in {"open", "secure", "up"} -> "closing"
                       [] OTHER -> link
          /\ UNCHANGED <<running, loop, answering>> /\ UNCHANGED requestVars

-----------------------------------------------------------------------------
(* The connection. *)

\* resetDelay() sets continueTrying too.
buildProtocol ==
    /\ Idle
    /\ link = "connecting"
    /\ link' = "open"
    /\ trying' = TRUE
    /\ UNCHANGED <<attempts, connector, running, loop, answering>> /\ UNCHANGED requestVars

connectionSecure ==
    /\ Idle
    /\ link = "open"
    /\ link' = "secure"
    /\ UNCHANGED <<attempts, connector, trying, running, loop, answering>>
    /\ UNCHANGED requestVars

\* dConnected fires: every request that waits on it opens its channel.
serviceStarted ==
    /\ Idle
    /\ link = "secure"
    /\ link' = "up"
    /\ stage' = [r \in Requests |-> IF stage[r] = "waiting" THEN "opening" ELSE stage[r]]
    /\ UNCHANGED <<attempts, connector, trying, running, loop, answering, answer, timer>>

\* No authentication method is left: sendDisconnect() resets the factory before
\* the connection is closed.
sendDisconnect ==
    /\ Idle
    /\ link = "secure"
    /\ link' = "closing"
    /\ StartReset
    /\ UNCHANGED <<attempts, connector, trying>>

clientConnectionFailed ==
    /\ Idle
    /\ link = "connecting"
    /\ link' = "down"
    /\ StartReset
    /\ UNCHANGED <<attempts, connector, trying>>

\* The transport is lost: Twisted tells the protocol first, which closes the
\* channels that are open one by one ...
connectionLost ==
    /\ Idle
    /\ link \in {"open", "secure", "up", "closing"}
    /\ link' = "dead"
    /\ UNCHANGED <<attempts, connector, trying, running, loop, answering>>
    /\ UNCHANGED requestVars

OpenCommands == {r \in Requests \ Ftp : stage[r] \in {"open", "eof"}}

\* ... so that a command without an exit status ends with one of 1, not an error.
ChannelStopped(r) ==
    /\ link = "dead" /\ loop = 0
    /\ r \in OpenCommands
    /\ FireAndClose(r, "result")
    /\ answering' = TRUE
    /\ UNCHANGED <<loop, timer>> /\ UNCHANGED linkVars

\* ... and then the factory.
clientConnectionLost ==
    /\ link = "dead" /\ loop = 0
    /\ OpenCommands = {}
    /\ link' = "down"
    /\ StartReset
    /\ UNCHANGED <<attempts, connector, trying>>

\* One round of "for d in self.runningDeferreds": firing d takes it out of the
\* list that the loop walks.
ResetStep ==
    /\ loop \in 1..Len(running)
    /\ Fire(running[loop], "lost")
    /\ loop' = loop + 1
    /\ answering' = TRUE
    /\ UNCHANGED linkVars

\* Mutant: the client tries again whatever it was told.
ResetDone_Always ==
    /\ loop > Len(running)
    /\ loop' = 0
    /\ answering' = FALSE
    /\ link' = IF link = "down" THEN "retrying" ELSE link
    /\ UNCHANGED <<attempts, connector, trying, running>> /\ UNCHANGED requestVars

\* The base class tries again after a loss or a failure, unless told not to.
ResetDone ==
    /\ loop > Len(running)
    /\ loop' = 0
    /\ answering' = FALSE
    /\ link' = IF link = "down" /\ trying THEN "retrying" ELSE link
    /\ UNCHANGED <<attempts, connector, trying, running>> /\ UNCHANGED requestVars

retry ==
    /\ Idle
    /\ link = "retrying"
    /\ attempts < MaxAttempts
    /\ link' = "connecting"
    /\ attempts' = attempts + 1
    /\ UNCHANGED <<connector, trying, running, loop, answering>> /\ UNCHANGED requestVars

-----------------------------------------------------------------------------
(* Channels. *)

OnUp == Idle /\ link = "up"
NothingElse == UNCHANGED <<loop, answering>> /\ UNCHANGED linkVars

\* The server confirms the channel.  A command is sent and its timer started.
channelOpen(r) ==
    /\ OnUp
    /\ r \notin Ftp
    /\ stage[r] = "opening"
    /\ stage' = [stage EXCEPT ![r] = "open"]
    /\ timer' = [timer EXCEPT ![r] = r \in Timed]
    /\ UNCHANGED <<running, answer>> /\ NothingElse

\* The SFTP client is there and the operation sent, though its user may have been
\* told of a timeout meanwhile, unless its callback raises (a local file that
\* cannot be opened), the subsystem is refused, or Twisted has kept the close that
\* came too early in mind: then nothing leads to an answer or closes the channel.
_cbSFTP(r) ==
    /\ OnUp
    /\ r \in Ftp
    /\ stage[r] = "opening"
    /\ \E s \in {"open", "stuck"} : stage' = [stage EXCEPT ![r] = s]
    /\ UNCHANGED <<running, answer, timer>> /\ NothingElse

\* Mutant: nobody tells the user of a command.
openFailed_Silent(r) ==
    /\ OnUp
    /\ stage[r] = "opening"
    /\ stage' = [stage EXCEPT ![r] = "stuck"]
    /\ UNCHANGED <<running, answer, timer>> /\ NothingElse

\* The server refuses the channel: only a command tells its user.
openFailed(r) ==
    /\ OnUp
    /\ stage[r] = "opening"
    /\ IF r \in Ftp
       THEN /\ stage' = [stage EXCEPT ![r] = "stuck"]
            /\ UNCHANGED <<running, answer>>
       ELSE FireAndClose(r, "refused")
    /\ UNCHANGED timer /\ NothingElse

eofReceived(r) ==
    /\ OnUp
    /\ r \notin Ftp
    /\ stage[r] = "open"
    /\ stage' = [stage EXCEPT ![r] = "eof"]
    /\ timer' = [timer EXCEPT ![r] = FALSE]
    /\ UNCHANGED <<running, answer>> /\ NothingElse

closed(r) ==
    /\ OnUp
    /\ r \in OpenCommands
    /\ FireAndClose(r, "result")
    /\ UNCHANGED timer /\ NothingElse

\* The answer to a file operation.  A deferred that was fired before raises an
\* AlreadyCalledError that nobody sees, and the channel stays open.
_cbdone(r) ==
    /\ OnUp
    /\ r \in Ftp
    /\ stage[r] = "open"
    /\ IF Answered(r)
       THEN /\ stage' = [stage EXCEPT ![r] = "stuck"]
            /\ UNCHANGED <<running, answer, timer>>
       ELSE Fire(r, "result")
    /\ NothingElse

\* Mutant: a file operation whose channel is not open yet does not time out.
_timeoutCalled_IfOpen(r) ==
    /\ Idle
    /\ timer[r]
    /\ timer' = [timer EXCEPT ![r] = FALSE]
    /\ answer' = [answer EXCEPT ![r] = IF Answered(r) \/ stage[r] # "open" THEN @ ELSE "timeout"]
    /\ IF stage[r] = "open" THEN _cleanupRunningDeferreds(r) ELSE UNCHANGED running
    /\ stage' = [stage EXCEPT ![r] = IF r \in Ftp THEN FtpClosed(r) ELSE "closed"]
    /\ NothingElse

_timeoutCalled(r) ==
    /\ Idle
    /\ timer[r]
    /\ timer' = [timer EXCEPT ![r] = FALSE]
    /\ answer' = [answer EXCEPT ![r] = IF Answered(r) THEN @ ELSE "timeout"]
    /\ _cleanupRunningDeferreds(r)
    /\ stage' = [stage EXCEPT ![r] = IF r \in Ftp THEN FtpClosed(r) ELSE "closed"]
    /\ NothingElse

-----------------------------------------------------------------------------
Init ==
    /\ link = "down"
    /\ attempts = 0
    /\ connector = FALSE
    /\ trying = TRUE
    /\ running = <<>>
    /\ loop = 0
    /\ answering = FALSE
    /\ stage = [r \in Requests |-> "new"]
    /\ answer = [r \in Requests |-> "none"]
    /\ timer = [r \in Requests |-> FALSE]

Users == connect \/ disconnect \/ \E r \in Requests : Ask(r)

\* What runs to its end without another event.
Callbacks ==
    \/ \E r \in Requests : ChannelStopped(r)
    \/ clientConnectionLost
    \/ ResetStep
    \/ ResetDone

\* What sshd does.
Server ==
    \/ buildProtocol \/ connectionSecure \/ serviceStarted \/ sendDisconnect
    \/ clientConnectionFailed
    \/ \E r \in Requests : \/ channelOpen(r) \/ _cbSFTP(r) \/ openFailed(r)
                           \/ eofReceived(r) \/ closed(r) \/ _cbdone(r)

Timers == retry \/ \E r \in Requests : _timeoutCalled(r)

Next == Users \/ Callbacks \/ Server \/ connectionLost \/ Timers

Spec == Init /\ [][Next]_vars

-----------------------------------------------------------------------------
\* Types, and the list: it has every request that was asked and not answered,
\* once, so that the error of a lost connection reaches each and is given to none
\* that has an answer, also to no file operation whose channel came after its
\* timeout (trackDeferred, _cleanupRunningDeferreds).
TypeOK ==
    /\ link \in Links
    /\ attempts \in 0..MaxAttempts
    /\ connector \in BOOLEAN /\ trying \in BOOLEAN /\ answering \in BOOLEAN
    /\ loop \in 0..(Cardinality(Requests) + 1)
    /\ stage \in [Requests -> Stages]
    /\ answer \in [Requests -> {"none", "result", "lost", "timeout", "refused"}]
    /\ timer \in [Requests -> BOOLEAN]
    /\ ToSet(running) = {r \in Asked : ~Answered(r)}
    /\ IsInjective(running)

\* "Handle closing these on connection lost or failed" (runningDeferreds): when
\* resetConnection is done, no request is left without an answer on a
\* connection that is gone.
NoneForgotten ==
    loop = 0 => \A r \in Asked : Answered(r) \/ stage[r] \notin {"orphan", "cut"}

\* A command is not sent to the server once its user was told that it failed:
\* the user may have asked for it again (resetConnection, CommandChannel).  Of file
\* operations this is not so: see _cbSFTP.
NotRunOnceAnswered ==
    [][\A r \in Requests : channelOpen(r) => ~Answered(r)]_vars

\* After disconnect() the client makes no connection unless connect() is called,
\* wherever in a loss, a failure or a retry disconnect() came.
StaysDisconnected ==
    [][~connector /\ attempts' > attempts => connector']_vars

(***************************************************************************)
(* Fairness: the reactor finishes a callback it has begun and fires timers *)
(* that are due, and a connection that this side closes is lost.  The      *)
(* server and the network owe nothing else.                                *)
(***************************************************************************)
FairSpec ==
    /\ Spec
    /\ WF_vars(Callbacks) /\ WF_vars(Timers)
    /\ WF_vars(link = "closing" /\ connectionLost)

\* A file operation with a timeout is answered whatever the server does, also
\* while the client is not connected.
TimedAreAnswered ==
    \A r \in Ftp \cap Timed : (stage[r] # "new") ~> Answered(r)

\* If the server goes on, whether or not connections are lost, every command is
\* answered, and every file operation with a timeout, unless the user has
\* disconnected: a client told to stop owes nothing, also after connect() is
\* called again, until it is connected.
AllAreAnswered ==
    WF_vars(Server) =>
        \A r \in Requests \ (Ftp \ Timed) :
            (stage[r] # "new" /\ connector /\ trying) ~>
                (Answered(r) \/ ~trying \/ attempts = MaxAttempts)

=============================================================================
