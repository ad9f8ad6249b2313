---------------------------- MODULE McpExchange ----------------------------
(***************************************************************************)
(* The exchange of commands with the secure world (SWd) over the one MCP   *)
(* buffer: mshNotifyAndWait(), waitMcpNotification() and loadToken() of    *)
(* MobiCoreDevice.cpp, its start() after a restart of the daemon, the      *)
(* counting semaphore of CSemaphore.cpp, and how the exchange ends when    *)
(* the IRQ handler or the scheduler thread dies.                           *)
(*                                                                         *)
(* The threads are the dispatchers, which send a command under mutex_mcp   *)
(* ("SESSION", any of the session and buffer commands) or without it       *)
(* ("TOKEN", loadToken()); the TA exit handler, which closes a session     *)
(* when it is woken; and the main thread, which closes what an earlier     *)
(* daemon has left open.  A command is the thread or the old session it is *)
(* for and its id; what the commands do is in DeviceSessions.              *)
(***************************************************************************)
EXTENDS Integers

CONSTANTS
  Dispatchers, TAExit, Main,
  Does,         \* the commands a dispatcher sends
  OldCount,     \* sessions an earlier daemon may have left open
  Retries,      \* waits of waitMcpNotification(), 5 in the code
  NqSize,       \* elements of the notification queues
  MaxCommands,  \* bound: commands of the dispatchers and wake-ups for dead TAs
  Failures,     \* what may fail, of FailureKinds
  NULL

Threads == Dispatchers \cup {TAExit, Main}
OldSessions == 1..OldCount
Ids == {"SESSION", "TOKEN", "CLOSE"}
FailureKinds == {"timeout", "halt", "irq", "scheduler", "spurious"}

ASSUME ConstantsAssumption ==
  /\ TAExit \notin Dispatchers /\ Main \notin Dispatchers /\ TAExit # Main
  /\ NULL \notin Threads
  /\ Does \in [Dispatchers -> SUBSET {"SESSION", "TOKEN"}]
  /\ OldCount \in Nat \ {0} /\ MaxCommands \in Nat
  /\ Retries \in Nat \ {0} /\ NqSize \in Nat \ {0}
  /\ Failures \subseteq FailureKinds

Commands == [id : Ids, of : Threads \cup OldSessions]
NoCommand == [id |-> "CLOSE", of |-> TAExit]

VARIABLES
  mutex_mcp,
  mcpMessage,   \* the MCP buffer: a command, a response or nothing yet
  nqOut, nqIn,  \* SID_MCP notifications under way to and from the SWd
  m_count,      \* of the semaphore mcpSessionNotification
  woken,        \* threads a signal of the semaphore has woken
  mcFault,
  job,          \* what a thread is doing and the command it does it for
  results,      \* results of the exchanges a thread has finished, and "token"
                \* once it has loaded one
  sent,         \* number of commands begun and of TAs ended
  exitWakeups,  \* count of the TA exit handler's own semaphore
  irq,          \* DeviceIrqHandler: running, exiting, ended
  scheduler,    \* DeviceScheduler: running, ended
  terminate,    \* terminate() of the scheduler and of the TA exit handler
  killed,       \* SIGTERM has been sent to the process
  halted,       \* the SWd has halted
  mciReused,    \* initDevice() has found the MCI of an earlier daemon
  old,          \* old sessions still open in the SWd
  closing       \* the old session start() is at

swdVars    == <<halted, old, mciReused>>
threadVars == <<irq, scheduler, terminate, killed, exitWakeups>>
mcpVars    == <<mcpMessage, nqOut, nqIn>>
semVars    == <<m_count, woken>>
vars == <<mutex_mcp, mcpMessage, nqOut, nqIn, m_count, woken, mcFault, job,
          results, sent, exitWakeups, irq, scheduler, terminate, killed,
          halted, mciReused, old, closing>>

(* The MCI memory outlives the daemon: an exchange of the earlier one may  *)
(* have got as far as its command, its notification or its answer.         *)
Init ==
  /\ mutex_mcp = NULL
  /\ mciReused \in BOOLEAN
  /\ \E c \in [id : {"SESSION", "CLOSE"}, of : OldSessions] :
       \/ /\ mcpMessage = [kind |-> "none", cmd |-> NoCommand]
          /\ nqOut = 0 /\ nqIn = 0
       \/ /\ mciReused /\ mcpMessage = [kind |-> "cmd", cmd |-> c]
          /\ nqOut \in 0..1 /\ nqIn = 0
       \/ /\ mciReused /\ mcpMessage = [kind |-> "rsp", cmd |-> c]
          /\ nqOut = 0 /\ nqIn \in 0..1
  /\ m_count = 0 /\ woken = {}
  /\ mcFault = FALSE
  /\ job = [t \in Threads |-> [at |-> "idle", cmd |-> NoCommand, left |-> 0]]
  /\ results = [t \in Threads |-> {}]
  /\ sent = 0
  /\ exitWakeups = 0
  /\ irq = "running" /\ scheduler = "running"
  /\ terminate = FALSE /\ killed = FALSE
  /\ halted = FALSE
  /\ old \in IF mciReused THEN SUBSET OldSessions ELSE {{}}
  /\ closing = IF mciReused THEN 1 ELSE OldCount + 1

-----------------------------------------------------------------------------
(* CSemaphore::signal: a thread that waits is woken, and may take a while  *)

Sleepers == {t \in Threads : job[t].at = "waiting"} \ woken

Signal ==
  /\ m_count' = m_count + 1
  /\ IF Sleepers = {} THEN UNCHANGED woken
                      ELSE \E t \in Sleepers : woken' = woken \cup {t}

-----------------------------------------------------------------------------
(* How an exchange begins                                                  *)

Serving == closing > OldCount

(* The handlers that load a token run one at a time, under reg_mutex.      *)
RegistryFree ==
  \A t \in Threads : job[t].at = "idle" \/ job[t].cmd.id # "TOKEN"

Begin(t) ==
  /\ t \in Dispatchers /\ Serving
  /\ job[t].at = "idle"
  /\ sent < MaxCommands
  /\ sent' = sent + 1
  /\ \E id \in Does[t] :
       /\ id = "TOKEN" => RegistryFree
       /\ job' = [job EXCEPT ![t] =
                    [at |-> IF id = "TOKEN" THEN "writing" ELSE "locking",
                     cmd |-> [id |-> id, of |-> t], left |-> Retries]]
       /\ results' = [results EXCEPT ![t] =
                        IF id = "TOKEN" THEN @ \cup {"token"} ELSE @]
  /\ UNCHANGED <<mutex_mcp, mcpVars, semVars, mcFault, threadVars, swdVars,
                 closing>>

(* handleTaExit(): woken for a dead session, or to end                     *)
ExitWakes ==
  /\ job[TAExit].at = "idle"
  /\ exitWakeups > 0
  /\ exitWakeups' = exitWakeups - 1
  /\ job' = [job EXCEPT ![TAExit] =
               [at |-> IF terminate THEN "leaving" ELSE "locking",
                cmd |-> NoCommand, left |-> Retries]]
  /\ UNCHANGED <<mutex_mcp, mcpVars, semVars, mcFault, results, sent, irq,
                 scheduler, terminate, killed, swdVars, closing>>

ExitLeaves ==
  /\ job[TAExit].at = "leaving"
  /\ job' = [job EXCEPT ![TAExit].at = "ended"]
  /\ Signal
  /\ UNCHANGED <<mutex_mcp, mcpVars, mcFault, results, sent, threadVars,
                 swdVars, closing>>

(* start() closes the next old session; no client is served yet.           *)
CloseOld ==
  /\ ~Serving
  /\ job[Main].at = "idle"
  /\ job' = [job EXCEPT ![Main] = [at |-> "writing", left |-> Retries,
               cmd |-> [id |-> "CLOSE", of |-> closing]]]
  /\ results' = [results EXCEPT ![Main] = {}]
  /\ UNCHANGED <<mutex_mcp, mcpVars, semVars, mcFault, sent, threadVars,
                 swdVars, closing>>
\* Mutant: the command is sent whoever holds mutex_mcp.
LockNothing(t) ==
  /\ job[t].at = "locking"
  /\ mutex_mcp' = t
  /\ job' = [job EXCEPT ![t].at = "writing"]
  /\ UNCHANGED <<mcpVars, semVars, mcFault, results, sent, threadVars,
                 swdVars, closing>>

Lock(t) ==
  /\ job[t].at = "locking"
  /\ mutex_mcp = NULL
  /\ mutex_mcp' = t
  /\ job' = [job EXCEPT ![t].at = "writing"]
  /\ UNCHANGED <<mcpVars, semVars, mcFault, results, sent, threadVars,
                 swdVars, closing>>

-----------------------------------------------------------------------------
(* The exchange                                                            *)

Write(t) ==
  /\ job[t].at = "writing"
  /\ mcpMessage' = [kind |-> "cmd", cmd |-> job[t].cmd]
  /\ job' = [job EXCEPT ![t].at = "notifying"]
  /\ UNCHANGED <<mutex_mcp, nqOut, nqIn, semVars, mcFault, results, sent,
                 threadVars, swdVars, closing>>

Notify(t) ==
  /\ job[t].at = "notifying"
  /\ nqOut' = IF nqOut < NqSize THEN nqOut + 1 ELSE nqOut
  /\ job' = [job EXCEPT ![t].at = "testing"]
  /\ UNCHANGED <<mutex_mcp, mcpMessage, nqIn, semVars, mcFault, results, sent,
                 threadVars, swdVars, closing>>

\* Mutant: start() does not try again.
ReturnOnce(t, result) ==
  /\ mutex_mcp' = IF mutex_mcp = t THEN NULL ELSE mutex_mcp
  /\ results' = [results EXCEPT ![t] = @ \cup {result}]
  /\ job' = [job EXCEPT ![t].at = "idle"]
  /\ closing' = IF t = Main THEN closing + 1 ELSE closing

(* The exchange is over; mutex_mcp is released by those who hold it.       *)
Return(t, result) ==
  /\ mutex_mcp' = IF mutex_mcp = t THEN NULL ELSE mutex_mcp
  /\ results' = [results EXCEPT ![t] = @ \cup {result}]
  /\ IF t = Main /\ result = "unanswered" /\ "unanswered" \notin results[Main]
       THEN /\ job' = [job EXCEPT ![t].at = "writing", ![t].left = Retries]
            /\ UNCHANGED closing
       ELSE /\ job' = [job EXCEPT ![t].at = "idle"]
            /\ closing' = IF t = Main THEN closing + 1 ELSE closing

(* The top of the loop, and CSemaphore::wait(10) when it need not wait     *)
TestSemaphore(t) ==
  /\ job[t].at = "testing"
  /\ \/ /\ mcFault
        /\ Return(t, "unanswered")
        /\ UNCHANGED m_count
     \/ /\ ~mcFault /\ m_count # 0
        /\ m_count' = m_count - 1
        /\ job' = [job EXCEPT ![t].at = "checking"]
        /\ UNCHANGED <<mutex_mcp, results, closing>>
     \/ /\ ~mcFault /\ m_count = 0
        /\ job' = [job EXCEPT ![t].at = "waiting"]
        /\ UNCHANGED <<m_count, mutex_mcp, results, closing>>
  /\ UNCHANGED <<mcpVars, woken, mcFault, sent, threadVars, swdVars>>

(* pthread_cond_timedwait() returns 0, and nobody looks at m_count.        *)
WakeUp(t) ==
  /\ job[t].at = "waiting"
  /\ t \in woken \/ "spurious" \in Failures
  /\ m_count' = m_count - 1
  /\ woken' = woken \ {t}
  /\ job' = [job EXCEPT ![t].at = "checking"]
  /\ UNCHANGED <<mutex_mcp, mcpVars, mcFault, results, sent, threadVars,
                 swdVars, closing>>

\* Mutant: the tries are not counted.
TimeOutUncounted(t) ==
  /\ "timeout" \in Failures
  /\ job[t].at = "waiting"
  /\ woken' = woken \ {t}
  /\ IF halted
       THEN /\ mcFault' = TRUE
            /\ Return(t, "unanswered")
       ELSE /\ job' = [job EXCEPT ![t].at = "testing"]
            /\ UNCHANGED <<mcFault, mutex_mcp, results, closing>>
  /\ UNCHANGED <<mcpVars, m_count, sent, threadVars, swdVars>>

(* Ten seconds have passed: try again, unless the SWd has halted or this   *)
(* was the last try.                                                       *)
TimeOut(t) ==
  /\ "timeout" \in Failures
  /\ job[t].at = "waiting"
  /\ woken' = woken \ {t}
  /\ IF halted \/ job[t].left = 1
       THEN /\ mcFault' = TRUE
            /\ Return(t, "unanswered")
       ELSE /\ job' = [job EXCEPT ![t].at = "testing", ![t].left = @ - 1]
            /\ UNCHANGED <<mcFault, mutex_mcp, results, closing>>
  /\ UNCHANGED <<mcpVars, m_count, sent, threadVars, swdVars>>

(* The threads of the device are well, or the exchange waits for their end *)
Healthy == irq = "running" /\ scheduler = "running" /\ job[TAExit].at # "ended"

\* Mutant: a dead thread is not looked for.
CheckNothing(t) ==
  /\ job[t].at = "checking"
  /\ job' = [job EXCEPT ![t].at = "reading"]
  /\ UNCHANGED <<mutex_mcp, mcpVars, semVars, mcFault, results, sent,
                 threadVars, swdVars, closing>>

CheckThreads(t) ==
  /\ job[t].at = "checking"
  /\ IF Healthy
       THEN /\ job' = [job EXCEPT ![t].at = "reading"]
            /\ UNCHANGED <<terminate, exitWakeups>>
       ELSE /\ job' = [job EXCEPT ![t].at = "joining irq"]
            /\ terminate' = TRUE
            /\ exitWakeups' = exitWakeups + 1
  /\ UNCHANGED <<mutex_mcp, mcpVars, semVars, mcFault, results, sent, irq,
                 scheduler, killed, swdVars, closing>>

JoinIrq(t) ==
  /\ job[t].at = "joining irq"
  /\ irq = "ended"
  /\ job' = [job EXCEPT ![t].at = "joining scheduler"]
  /\ UNCHANGED <<mutex_mcp, mcpVars, semVars, mcFault, results, sent,
                 threadVars, swdVars, closing>>

JoinScheduler(t) ==
  /\ job[t].at = "joining scheduler"
  /\ scheduler = "ended"
  /\ job' = [job EXCEPT ![t].at = "joining exit handler"]
  /\ UNCHANGED <<mutex_mcp, mcpVars, semVars, mcFault, results, sent,
                 threadVars, swdVars, closing>>

(* A thread that joins itself gets an error and goes on.                   *)
JoinExitHandler(t) ==
  /\ job[t].at = "joining exit handler"
  /\ t = TAExit \/ job[TAExit].at = "ended"
  /\ Return(t, "unanswered")
  /\ UNCHANGED <<mcpVars, semVars, mcFault, sent, threadVars, swdVars>>

(* The response id tells the command, but not whose it was.                *)
ReadAnswer(t) ==
  /\ job[t].at = "reading"
  /\ Return(t, IF mcpMessage.kind # "rsp" \/ mcpMessage.cmd.id # job[t].cmd.id
                 THEN "unanswered"
                 ELSE IF mcpMessage.cmd = job[t].cmd THEN "mine" ELSE "another's")
  /\ UNCHANGED <<mcpVars, semVars, mcFault, sent, threadVars, swdVars>>

-----------------------------------------------------------------------------
(* The other threads of the device                                         *)

IrqSignals ==
  /\ irq = "running"
  /\ nqIn > 0
  /\ nqIn' = nqIn - 1
  /\ Signal
  /\ UNCHANGED <<mutex_mcp, mcpMessage, nqOut, mcFault, job, results, sent,
                 threadVars, swdVars, closing>>

(* waitSsiq() fails: the handler tells whoever waits, and a second later   *)
(* ends the process, unless somebody is already winding it down.           *)
IrqFails ==
  /\ "irq" \in Failures
  /\ irq = "running"
  /\ irq' = "exiting"
  /\ Signal
  /\ UNCHANGED <<mutex_mcp, mcpVars, mcFault, job, results, sent, scheduler,
                 terminate, killed, exitWakeups, swdVars, closing>>

IrqEnds ==
  /\ irq = "exiting"
  /\ irq' = "ended"
  /\ killed' = ~terminate
  /\ UNCHANGED <<mutex_mcp, mcpVars, semVars, mcFault, job, results, sent,
                 scheduler, terminate, exitWakeups, swdVars, closing>>

(* nsiq() or yield() has failed, or the thread has been told to end.       *)
SchedulerEnds ==
  /\ "scheduler" \in Failures \/ terminate
  /\ scheduler = "running"
  /\ scheduler' = "ended"
  /\ UNCHANGED <<mutex_mcp, mcpVars, semVars, mcFault, job, results, sent,
                 irq, terminate, killed, exitWakeups, swdVars, closing>>

-----------------------------------------------------------------------------
(* The secure world                                                        *)

SwdAnswers ==
  /\ ~halted
  /\ nqOut > 0 /\ nqIn < NqSize
  /\ mcpMessage.kind = "cmd"
  /\ nqOut' = nqOut - 1
  /\ nqIn' = nqIn + 1
  /\ mcpMessage' = [mcpMessage EXCEPT !.kind = "rsp"]
  /\ old' = IF mcpMessage.cmd.id = "CLOSE" THEN old \ {mcpMessage.cmd.of}
                                            ELSE old
  /\ UNCHANGED <<mutex_mcp, semVars, mcFault, job, results, sent, threadVars,
                 halted, mciReused, closing>>

SwdFindsNoCommand ==
  /\ ~halted
  /\ nqOut > 0
  /\ mcpMessage.kind # "cmd"
  /\ nqOut' = nqOut - 1
  /\ UNCHANGED <<mutex_mcp, mcpMessage, nqIn, semVars, mcFault, job, results,
                 sent, threadVars, swdVars, closing>>

SwdHalts ==
  /\ "halt" \in Failures /\ ~halted
  /\ halted' = TRUE
  /\ UNCHANGED <<mutex_mcp, mcpVars, semVars, mcFault, job, results, sent,
                 threadVars, old, mciReused, closing>>

(* A TA without a client has ended: the IRQ handler wakes the exit handler *)
TaEnds ==
  /\ irq = "running" /\ Serving
  /\ sent < MaxCommands
  /\ sent' = sent + 1
  /\ exitWakeups' = exitWakeups + 1
  /\ UNCHANGED <<mutex_mcp, mcpVars, semVars, mcFault, job, results, irq,
                 scheduler, terminate, killed, swdVars, closing>>

-----------------------------------------------------------------------------
Waits(t) == WakeUp(t) \/ TimeOut(t)

Exchange(t) ==
  \/ Lock(t) \/ Write(t) \/ Notify(t) \/ TestSemaphore(t) \/ CheckThreads(t)
  \/ JoinIrq(t) \/ JoinScheduler(t) \/ JoinExitHandler(t) \/ ReadAnswer(t)

DeviceThreads == IrqSignals \/ IrqEnds \/ ExitWakes \/ ExitLeaves

Swd == SwdAnswers \/ SwdFindsNoCommand \/ SwdHalts \/ TaEnds

Next ==
  /\ ~killed
  /\ \/ \E t \in Threads : Begin(t) \/ Exchange(t) \/ Waits(t)
     \/ CloseOld \/ DeviceThreads \/ IrqFails \/ SchedulerEnds \/ Swd

Spec == Init /\ [][Next]_vars

(* Threads run and waits end: a woken thread goes on, the others time out. *)
(* Nothing is assumed of the SWd but that it goes idle for a scheduler     *)
(* that has been told to end.                                              *)
Fairness ==
  /\ \A t \in Threads : /\ WF_vars(~killed /\ Exchange(t))
                        /\ WF_vars(~killed /\ Waits(t))
  /\ WF_vars(~killed /\ CloseOld)
  /\ WF_vars(~killed /\ DeviceThreads)
  /\ WF_vars(~killed /\ terminate /\ SchedulerEnds)

FairSpec == Spec /\ Fairness

-----------------------------------------------------------------------------
(* Properties                                                              *)

(* Every variable has its type.                                            *)
TypeOK ==
  /\ mutex_mcp \in Threads \cup {NULL}
  /\ mcpMessage \in [kind : {"none", "cmd", "rsp"}, cmd : Commands]
  /\ nqOut \in 0..NqSize /\ nqIn \in 0..NqSize
  /\ m_count \in Int
  /\ woken \in SUBSET Threads
  /\ job \in [Threads -> [at : {"idle", "locking", "writing", "notifying",
                                "testing", "waiting", "checking", "reading",
                                "joining irq", "joining scheduler",
                                "joining exit handler", "leaving", "ended"},
                          cmd : Commands, left : 0..Retries]]
  /\ results \in [Threads -> SUBSET {"mine", "another's", "unanswered", "token"}]
  /\ sent \in 0..MaxCommands
  /\ exitWakeups \in Nat
  /\ irq \in {"running", "exiting", "ended"}
  /\ scheduler \in {"running", "ended"}
  /\ {mcFault, terminate, killed, halted, mciReused} \subseteq BOOLEAN
  /\ old \in SUBSET OldSessions
  /\ closing \in 1..(OldCount + 1)

(* A dispatcher loads a token, or has loaded one before: without mutex_mcp *)
(* though "This mutex should be taken before any access" (MobiCoreDevice.h *)
(* line 144), so that its exchange may overlap another.                    *)
TokenLoaded == \E t \in Threads : "token" \in results[t]

(* A thread takes no answer but the one to its own command: the response   *)
(* id (MobiCoreDevice.cpp:173, 479, ...) does not say whose it is, late    *)
(* answers, repeated waits and a token that is loaded meanwhile must not   *)
(* shift them.                                                             *)
AnswerIsMine == \A t \in Threads : "another's" \notin results[t]

(* An exchange fails only when the SWd has failed, a thread has died or a  *)
(* token was loaded: never because the semaphore and the buffer are out of *)
(* step.                                                                   *)
FailsForAReason ==
  (\E t \in Threads : "unanswered" \in results[t])
    => mcFault \/ terminate \/ mciReused \/ TokenLoaded

Inv == TypeOK /\ AnswerIsMine /\ FailsForAReason

(* A command in the buffer stays there until the SWd has answered it, as   *)
(* long as there is no fault and no token is loaded.                       *)
NoLostCommand ==
  [][mcpMessage.kind = "cmd" /\ ~mcFault /\ ~terminate /\ ~mciReused /\ ~TokenLoaded
       => mcpMessage'.cmd = mcpMessage.cmd]_vars

(* start() removes "all pending sessions" of an earlier daemon, which may  *)
(* have left one command or answer in the buffer and one notification:     *)
(* the second try after MC_DRV_ERR_DAEMON_MCI_ERROR                        *)
(* (MobiCoreDevice.cpp:306) makes up for an answer to the earlier daemon   *)
(* that counts as the first one's.                                         *)
RestartCloses == Serving /\ ~mcFault /\ ~terminate => old = {}

(* Every exchange ends, whatever the SWd does (MobiCoreDevice.cpp:328), as *)
(* long as the threads of the device live.                                 *)
Returns ==
  \A t \in Threads :
    job[t].at = "notifying"
      ~> job[t].at \in {"idle", "locking"} \/ irq # "running" \/ scheduler # "running"

=============================================================================
