--------------------------- MODULE DeviceSessions ---------------------------
(***************************************************************************)
(* The life of a Trustlet session in the daemon: MobiCoreDevice.cpp,       *)
(* TrustletSession.cpp and the loops of TrustZoneDevice.cpp.  Three kinds  *)
(* of threads work on the session list:                                    *)
(*                                                                         *)
(*   - the dispatchers (the socket server's worker, the netlink server's   *)
(*     thread), which run the handlers of the clients' commands;           *)
(*   - the TA exit handler, which closes the sessions of GP Trusted        *)
(*     Applications that ended after their client had left;                *)
(*   - the IRQ handler, which takes the notifications the secure world     *)
(*     (SWd) sends, wakes the thread that waits for an MCP answer and      *)
(*     routes the others to the sessions.                                  *)
(*                                                                         *)
(* The secure world is external: it is modelled from the commands the      *)
(* daemon sends and from how the daemon takes the answers.                 *)
(*                                                                         *)
(* A session object is identified by its id.  An id names one session of   *)
(* a behaviour: a session opened after another has ended is another        *)
(* object, with another sessionMagic, whatever id the SWd gives it.        *)
(***************************************************************************)
EXTENDS Integers, Sequences, FiniteSets

CONSTANTS
  Workers,     \* threads that dispatch client commands
  TAExit,      \* the TA exit handler thread
  Clients,     \* device connections of the clients
  ServedBy,    \* the dispatcher that serves a connection
  Sids,        \* session ids
  GpSids,      \* the sessions of GP TAs (gp_level = 1)
  SID_MCP,     \* the id of the MCP "session" in a notification
  NULL,
  MaxNotes,    \* bound: plain notifications a TA sends
  NqSize,      \* elements of a notification queue (NQ_NUM_ELEMS)
  MayFault     \* whether the SWd may fail to answer in time

Threads == Workers \cup {TAExit}

ASSUME ConstantsAssumption ==
  /\ TAExit \notin Workers
  /\ NULL \notin Threads \cup Clients \cup Sids
  /\ SID_MCP \notin Sids
  /\ GpSids \subseteq Sids
  /\ ServedBy \in [Clients -> Workers]
  /\ MaxNotes \in Nat /\ NqSize \in Nat \ {0}
  /\ MayFault \in BOOLEAN

VARIABLES
  \* TrustletSession objects
  trustletSessions,       \* the session list
  before,                 \* the sessions listed when a session was pushed
  deviceConnection,       \* the connection that owns a session, or NULL
  notificationConnection, \* whether the session's NQ connection is set
  sessionState,           \* TS_TA_RUNNING, TS_TA_DEAD, TS_CLOSE_SEND
  queued,                 \* notifications waiting in the session object
  \* MobiCoreDevice
  unknown,                \* notifications for sessions not in the list
  mutex_mcp,              \* holder of mutex_mcp, or NULL
  mcpMessage,             \* the MCP buffer shared with the SWd
  mcpSessionNotification, \* count of the MCP semaphore
  mcFault,
  exitWakeups,            \* count of the TA exit handler's semaphore
  job,                    \* what each thread is doing
  \* the clients
  opened,                 \* connections whose connectionData is the device
  died,                   \* clients that are gone
  read,                   \* clients whose next command has been read
  opener,                 \* the client that opened a session, or NULL
  view,                   \* whether its client has asked to connect it
  delivered,              \* number of notifications written to the client
  \* the secure world and the queues between the worlds
  nqOut,                  \* pending SID_MCP notifications to the SWd
  nqIn,                   \* notifications from the SWd, in order
  swd,                    \* the session in the SWd
  noted,                  \* plain notifications the TA has sent
  asked                   \* sessions the SWd has been asked in vain to close

sessionVars == <<trustletSessions, before, deviceConnection,
                 notificationConnection, sessionState, queued>>
mcpVars     == <<mcpMessage, mcpSessionNotification, mcFault, nqOut>>
clientVars  == <<opened, died, read, opener, view, delivered>>
swdVars     == <<swd, noted, asked>>
vars == <<sessionVars, unknown, mutex_mcp, mcpVars, exitWakeups, job,
          clientVars, nqIn, swdVars>>

-----------------------------------------------------------------------------
(* Types.                                                                  *)

Payloads == {"plain", "exit"}
Note     == [sid : Sids \cup {SID_MCP}, payload : Payloads]
McpNote  == [sid |-> SID_MCP, payload |-> "plain"]

Results  == {"ok", "closeTaskFailed", "error"}
McpMessage ==
  [kind : {"cmd", "rsp"}, id : {"none", "open", "close"},
   sid : Sids \cup {NULL}, client : Clients \cup {NULL},
   result : Results]

Pcs == {"idle", "open", "transfer", "flush", "close", "closeAgain", "drop",
        "lock", "scan", "exitClose", "aborted"}
Job == [pc : Pcs, client : Clients \cup {NULL}, sid : Sids \cup {NULL},
        drop : BOOLEAN]

Idle == [pc |-> "idle", client |-> NULL, sid |-> NULL, drop |-> FALSE]

SessionTypes ==
  /\ trustletSessions \subseteq Sids
  /\ before \in [Sids -> SUBSET Sids]
  /\ deviceConnection \in [Sids -> Clients \cup {NULL}]
  /\ notificationConnection \in [Sids -> BOOLEAN]
  /\ sessionState \in [Sids -> {"running", "dead", "closeSend"}]
  /\ queued \in [Sids -> Seq(Note)]

DaemonTypes ==
  /\ unknown \in Seq(Note)
  /\ mutex_mcp \in Threads \cup {NULL}
  /\ exitWakeups \in Nat
  /\ job \in [Threads -> Job]

McpTypes ==
  /\ mcpMessage \in McpMessage
  /\ mcpMessage.id = "close" => mcpMessage.sid \in Sids
  /\ mcpSessionNotification \in Nat
  /\ mcFault \in BOOLEAN
  /\ nqOut \in 0..NqSize

ClientTypes ==
  /\ opened \subseteq Clients
  /\ died \subseteq Clients
  /\ read \subseteq Clients
  /\ opener \in [Sids -> Clients \cup {NULL}]
  /\ view \in [Sids -> {"none", "connecting", "connected"}]
  /\ delivered \in [Sids -> Nat]

SwdTypes ==
  /\ nqIn \in Seq(Note)
  /\ swd \in [Sids -> {"unused", "running", "exited", "closed"}]
  /\ noted \in [Sids -> 0..MaxNotes]
  /\ asked \subseteq Sids

TypeOK == SessionTypes /\ DaemonTypes /\ McpTypes /\ ClientTypes /\ SwdTypes

Init ==
  /\ trustletSessions = {}
  /\ before = [s \in Sids |-> {}]
  /\ deviceConnection = [s \in Sids |-> NULL]
  /\ notificationConnection = [s \in Sids |-> FALSE]
  /\ sessionState = [s \in Sids |-> "running"]
  /\ queued = [s \in Sids |-> <<>>]
  /\ unknown = <<>>
  /\ mutex_mcp = NULL
  /\ mcpMessage = [kind |-> "rsp", id |-> "none", sid |-> NULL,
                   client |-> NULL, result |-> "ok"]
  /\ mcpSessionNotification = 0
  /\ mcFault = FALSE
  /\ exitWakeups = 0
  /\ job = [t \in Threads |-> Idle]
  /\ opened = {}
  /\ died = {}
  /\ read = {}
  /\ opener = [s \in Sids |-> NULL]
  /\ view = [s \in Sids |-> "none"]
  /\ delivered = [s \in Sids |-> 0]
  /\ nqOut = 0
  /\ nqIn = <<>>
  /\ swd = [s \in Sids |-> "unused"]
  /\ noted = [s \in Sids |-> 0]
  /\ asked = {}

-----------------------------------------------------------------------------
(* One exchange over the MCP buffer: write the command, notify the SWd     *)
(* (putNotification drops when the queue is full), wait for the answer.    *)

Put(n) == IF n < NqSize THEN n + 1 ELSE n

SendMcp(id, s, c) ==
  /\ mcpMessage' = [kind |-> "cmd", id |-> id, sid |-> s, client |-> c,
                    result |-> "ok"]
  /\ nqOut' = Put(nqOut)
  /\ UNCHANGED <<mcpSessionNotification, mcFault>>

\* waitMcpNotification() returns true: the semaphore could be taken.
WaitMcp ==
  /\ ~mcFault
  /\ mcpSessionNotification > 0
  /\ mcpSessionNotification' = mcpSessionNotification - 1
  /\ UNCHANGED <<mcpMessage, mcFault, nqOut>>

\* waitMcpNotification() returns false: the fault was known already, or the
\* last of its timed waits ran out (or found the SWd halted).
WaitMcpFails ==
  /\ mcFault \/ (MayFault /\ mcpSessionNotification = 0)
  /\ mcFault' = TRUE
  /\ UNCHANGED <<mcpMessage, mcpSessionNotification, nqOut>>

\* What an exchange for command id returns: the SWd's result, an error when
\* the buffer holds something else than the response to id, or an error when
\* the wait failed.
McpReturns(id, result) ==
  \/ /\ WaitMcp
     /\ result = IF mcpMessage.kind = "rsp" /\ mcpMessage.id = id
                   THEN mcpMessage.result ELSE "error"
  \/ /\ WaitMcpFails
     /\ result = "error"

-----------------------------------------------------------------------------
(* The session object.                                                     *)

\* TrustletSession::queueNotification: a GP session whose TA ended is marked
\* dead, a session that waits for its TA to end takes no more notifications.
QueueNotification(s, n) ==
  LET st == IF s \in GpSids /\ n.payload = "exit" /\ sessionState[s] # "dead"
              THEN "dead" ELSE sessionState[s]
  IN  /\ sessionState' = [sessionState EXCEPT ![s] = st]
      /\ queued' = IF sessionState[s] = "dead" \/ st = "closeSend" THEN queued
                   ELSE [queued EXCEPT ![s] = Append(@, n)]

\* Mutant: the session stays in the list.
DeleteSessionKeeps(s) ==
  /\ notificationConnection' = [notificationConnection EXCEPT ![s] = FALSE]
  /\ UNCHANGED <<trustletSessions, before, deviceConnection, sessionState,
                 queued>>

\* The object leaves the list and is deleted, with its NQ connection.
DeleteSession(s) ==
  /\ trustletSessions' = trustletSessions \ {s}
  /\ notificationConnection' = [notificationConnection EXCEPT ![s] = FALSE]
  /\ UNCHANGED <<before, deviceConnection, sessionState, queued>>

\* Mutant: the session is freed before the result is looked at.
FreeAnyway(s) == DeleteSession(s)

\* closeSession has no success to report: the object is not freed.
KeepSession(s) == s \in Sids /\ UNCHANGED sessionVars

\* Mutant: the state of the TA is not looked at.
IsGp(s) == s \in GpSids

\* A GP session whose TA is known to have ended.
HasEnded(s) == s \in GpSids /\ sessionState[s] = "dead"

Become(t, j) == job' = [job EXCEPT ![t] = j]

-----------------------------------------------------------------------------
(* Client commands.  The client's thread reads a command while it sees no  *)
(* fault, and queues it; the dispatcher that serves the client runs it     *)
(* later, whatever has become of the fault and of the client.              *)

ReadCommand(c) ==
  /\ c \notin died \cup read
  /\ ~mcFault
  /\ read' = read \cup {c}
  /\ UNCHANGED <<sessionVars, unknown, mutex_mcp, mcpVars, exitWakeups, job,
                 opened, died, opener, view, delivered, nqIn, swdVars>>

Serves(w, c) ==
  /\ w = ServedBy[c]
  /\ job[w].pc = "idle"

Command(w, c) ==
  /\ Serves(w, c)
  /\ c \in read
  /\ read' = read \ {c}

OpenDevice(w, c) ==
  /\ Command(w, c)
  /\ c \notin opened
  /\ mutex_mcp = NULL
  /\ opened' = opened \cup {c}
  /\ UNCHANGED <<sessionVars, unknown, mutex_mcp, mcpVars, exitWakeups, job,
                 died, opener, view, delivered, nqIn, swdVars>>

\* openSession up to the wait: the notifications kept for unknown sessions
\* are cleared before the command is sent.
OpenSession(w, c) ==
  /\ Command(w, c)
  /\ c \in opened
  /\ mutex_mcp = NULL
  /\ mutex_mcp' = w
  /\ unknown' = <<>>
  /\ SendMcp("open", NULL, c)
  /\ Become(w, [pc |-> "open", client |-> c, sid |-> NULL, drop |-> FALSE])
  /\ UNCHANGED <<sessionVars, exitWakeups, opened, died, opener, view,
                 delivered, nqIn, swdVars>>

\* The SWd has opened the session: the object is created and listed.
OpenSucceeds(w) ==
  LET s == mcpMessage.sid IN
  /\ job[w].pc = "open"
  /\ McpReturns("open", "ok")
  /\ trustletSessions' = trustletSessions \cup {s}
  /\ before' = [before EXCEPT ![s] = trustletSessions]
  /\ deviceConnection' = [deviceConnection EXCEPT ![s] = job[w].client]
  /\ notificationConnection' = [notificationConnection EXCEPT ![s] = FALSE]
  /\ sessionState' = [sessionState EXCEPT ![s] = "running"]
  /\ queued' = [queued EXCEPT ![s] = <<>>]
  /\ Become(w, [job[w] EXCEPT !.pc = "transfer", !.sid = s])
  /\ UNCHANGED <<unknown, mutex_mcp, exitWakeups, clientVars, nqIn, swdVars>>

OpenFails(w) ==
  /\ job[w].pc = "open"
  /\ \E r \in Results \ {"ok"} : McpReturns("open", r)
  /\ mutex_mcp' = NULL
  /\ Become(w, Idle)
  /\ UNCHANGED <<sessionVars, unknown, exitWakeups, clientVars, nqIn, swdVars>>

\* The notifications that came before the session was listed are moved to
\* it, whatever session they are for.
Transfer(w) ==
  /\ job[w].pc = "transfer"
  /\ unknown # <<>>
  /\ QueueNotification(job[w].sid, Head(unknown))
  /\ unknown' = Tail(unknown)
  /\ UNCHANGED <<trustletSessions, before, deviceConnection,
                 notificationConnection, mutex_mcp, mcpVars, exitWakeups, job,
                 clientVars, nqIn, swdVars>>

\* Mutant: the loop stops too early.
TransferredSome == TRUE

Transferred == unknown = <<>>

\* The response goes to the client, which sends NQ_CONNECT on a second socket
\* unless it has died or fails to connect one.  A thread of the daemon reads
\* it there, while it sees no fault, and queues it for the same dispatcher,
\* whatever comes of the client and of its first connection until then.
OpenReturns(w) ==
  LET s == job[w].sid IN
  /\ job[w].pc = "transfer"
  /\ Transferred
  /\ opener' = [opener EXCEPT ![s] = job[w].client]
  /\ \E v \in {"none", "connecting"} :
       /\ v = "connecting" => job[w].client \notin died /\ ~mcFault
       /\ view' = [view EXCEPT ![s] = v]
  /\ mutex_mcp' = NULL
  /\ Become(w, Idle)
  /\ UNCHANGED <<sessionVars, unknown, mcpVars, exitWakeups, opened, died,
                 read, delivered, nqIn, swdVars>>

\* processNqConnect: the session is looked up by its object, id and magic,
\* whoever owns it, its NQ connection is set under mutex_tslist, and the
\* flush of its notifications follows.  A dead client misses the answer.
NqConnect(w, s) ==
  /\ view[s] = "connecting"
  /\ Serves(w, opener[s])
  /\ s \in trustletSessions
  /\ notificationConnection' = [notificationConnection EXCEPT ![s] = TRUE]
  /\ view' = [view EXCEPT ![s] = IF opener[s] \in died THEN "none"
                                 ELSE "connected"]
  /\ Become(w, [pc |-> "flush", client |-> opener[s], sid |-> s,
                drop |-> FALSE])
  /\ UNCHANGED <<trustletSessions, before, deviceConnection, sessionState,
                 queued, unknown, mutex_mcp, mcpVars, exitWakeups, opened,
                 died, read, opener, delivered, nqIn, swdVars>>

\* NQ_CONNECT for a session no longer in the list, or the close that only a
\* connected client sends for one no longer in the list or no longer its
\* own, is answered with an error.
UnknownSession(w, s) ==
  /\ \/ /\ view[s] = "connecting" /\ s \notin trustletSessions
        /\ Serves(w, opener[s]) /\ UNCHANGED read
     \/ /\ view[s] = "connected"
        /\ s \notin trustletSessions \/ deviceConnection[s] # opener[s]
        /\ Command(w, opener[s])
  /\ view' = [view EXCEPT ![s] = "none"]
  /\ UNCHANGED <<sessionVars, unknown, mutex_mcp, mcpVars, exitWakeups, job,
                 opened, died, opener, delivered, nqIn, swdVars>>

\* processQueuedNotifications, one notification at a time and without a lock.
Flush(w) ==
  LET s == job[w].sid IN
  /\ job[w].pc = "flush"
  /\ s \in trustletSessions /\ notificationConnection[s]
  /\ queued[s] # <<>>
  /\ delivered' = [delivered EXCEPT ![s] = @ + 1]
  /\ queued' = [queued EXCEPT ![s] = Tail(@)]
  /\ UNCHANGED <<trustletSessions, before, deviceConnection,
                 notificationConnection, sessionState, unknown, mutex_mcp,
                 mcpVars, exitWakeups, job, opened, died, read, opener, view,
                 nqIn, swdVars>>

\* The flush ends.  When the object was deleted under it, it reads freed
\* memory: then it may end anywhere.
FlushEnds(w) ==
  LET s == job[w].sid IN
  /\ job[w].pc = "flush"
  /\ s \in trustletSessions /\ notificationConnection[s] => queued[s] = <<>>
  /\ Become(w, Idle)
  /\ UNCHANGED <<sessionVars, unknown, mutex_mcp, mcpVars, exitWakeups,
                 clientVars, nqIn, swdVars>>

-----------------------------------------------------------------------------
(* closeSession: find the session under its owner, prepare a GP session    *)
(* for an end that may come later, send the command.                       *)

BeginClose(w, s, c, drop) ==
  /\ IF s \in GpSids
       THEN /\ deviceConnection' = [deviceConnection EXCEPT ![s] = NULL]
            /\ notificationConnection' =
                 [notificationConnection EXCEPT ![s] = FALSE]
            /\ sessionState' = [sessionState EXCEPT ![s] = "closeSend"]
       ELSE UNCHANGED <<deviceConnection, notificationConnection,
                        sessionState>>
  /\ SendMcp("close", s, NULL)
  /\ Become(w, [pc |-> "close", client |-> c, sid |-> s, drop |-> drop])
  /\ UNCHANGED <<trustletSessions, before, queued>>

CloseSession(w, s) ==
  LET c == opener[s] IN
  /\ view[s] = "connected"
  /\ Command(w, c)
  /\ s \in trustletSessions /\ deviceConnection[s] = c
  /\ mutex_mcp = NULL
  /\ mutex_mcp' = w
  /\ BeginClose(w, s, c, FALSE)
  /\ UNCHANGED <<unknown, exitWakeups, opened, died, opener, view, delivered,
                 nqIn, swdVars>>

\* The handler is done with the session: the device loop of close() goes on,
\* or the client gets the result.
EndClose(w, result) ==
  LET s == job[w].sid IN
  IF job[w].drop
    THEN /\ Become(w, [job[w] EXCEPT !.pc = "drop", !.sid = NULL])
         /\ UNCHANGED <<mutex_mcp, view>>
    ELSE /\ Become(w, Idle)
         /\ mutex_mcp' = NULL
         /\ view' = IF result = "ok" THEN [view EXCEPT ![s] = "none"]
                    ELSE view

\* The SWd has closed the session: freeSession.
CloseSucceeds(w) ==
  /\ job[w].pc \in {"close", "closeAgain"}
  /\ McpReturns("close", "ok")
  /\ DeleteSession(job[w].sid)
  /\ EndClose(w, "ok")
  /\ UNCHANGED <<unknown, exitWakeups, opened, died, read, opener, delivered,
                 nqIn, swdVars>>

\* The TA of a GP session has to end first.  It has already: close again.
CloseAgain(w) ==
  LET s == job[w].sid IN
  /\ job[w].pc = "close"
  /\ mcpSessionNotification > 0 /\ ~mcFault
  /\ mcpMessage.kind = "rsp" /\ mcpMessage.id = "close"
  /\ mcpMessage.result = "closeTaskFailed"
  /\ HasEnded(s)
  /\ mcpSessionNotification' = mcpSessionNotification - 1
  /\ mcpMessage' = [mcpMessage EXCEPT !.kind = "cmd", !.result = "ok"]
  /\ nqOut' = Put(nqOut)
  /\ Become(w, [job[w] EXCEPT !.pc = "closeAgain"])
  /\ UNCHANGED <<sessionVars, unknown, mutex_mcp, mcFault, exitWakeups,
                 clientVars, nqIn, swdVars>>

\* It has not: the client is told the session is closed, and the TA exit
\* handler will close it.
CloseDeferred(w) ==
  LET s == job[w].sid IN
  /\ job[w].pc = "close"
  /\ McpReturns("close", "closeTaskFailed")
  /\ s \in GpSids /\ ~HasEnded(s)
  /\ KeepSession(s)
  /\ EndClose(w, "ok")
  /\ UNCHANGED <<unknown, exitWakeups, opened, died, read,
                 opener, delivered, nqIn, swdVars>>

\* Any other answer, or none: the session stays in the list.
CloseFails(w) ==
  LET s == job[w].sid IN
  /\ job[w].pc = "close"
  /\ \E r \in Results \ {"ok"} :
       /\ McpReturns("close", r)
       /\ r = "closeTaskFailed" => s \notin GpSids
  /\ KeepSession(s)
  /\ EndClose(w, "error")
  /\ UNCHANGED <<unknown, exitWakeups, opened, died, read,
                 opener, delivered, nqIn, swdVars>>

\* assert(mcRet == MC_MCP_RET_OK) after the second close.
CloseAsserts(w) ==
  /\ job[w].pc = "closeAgain"
  /\ \E r \in Results \ {"ok"} : McpReturns("close", r)
  /\ Become(w, [job[w] EXCEPT !.pc = "aborted"])
  /\ UNCHANGED <<sessionVars, unknown, mutex_mcp, exitWakeups, clientVars,
                 nqIn, swdVars>>

-----------------------------------------------------------------------------
(* close(): every session of a connection is closed, the last opened       *)
(* first, when the client closes the device or when its connection ends.   *)

Owned(c) == {s \in trustletSessions : deviceConnection[s] = c}

BeginDrop(w, c) ==
  /\ c \in opened
  /\ mutex_mcp = NULL
  /\ mutex_mcp' = w
  /\ Become(w, [pc |-> "drop", client |-> c, sid |-> NULL, drop |-> TRUE])
  /\ UNCHANGED <<sessionVars, unknown, mcpVars, exitWakeups, opened, opener,
                 view, delivered, nqIn, swdVars>>

\* The client library rejects the close while it knows a session: it knows
\* one from the answer to NQ_CONNECT on.
CloseDevice(w, c) ==
  /\ Command(w, c)
  /\ \A s \in Sids : opener[s] = c => view[s] # "connected"
  /\ BeginDrop(w, c)
  /\ UNCHANGED died

\* readCommand has failed: the client is gone, or there is a fault.  (Of the
\* client's first connection: an NQ_CONNECT of its may still be queued.)
DropConnection(w, c) ==
  /\ Serves(w, c)
  /\ c \notin read
  /\ c \in died \/ mcFault
  /\ BeginDrop(w, c)
  /\ died' = died \cup {c}
  /\ UNCHANGED read

DropNext(w) ==
  LET c == job[w].client IN
  /\ job[w].pc = "drop"
  /\ \E s \in Owned(c) :
       /\ \A r \in Owned(c) : s \notin before[r]
       /\ BeginClose(w, s, c, TRUE)
  /\ UNCHANGED <<unknown, mutex_mcp, exitWakeups, clientVars, nqIn, swdVars>>

DropEnds(w) ==
  /\ job[w].pc = "drop"
  /\ Owned(job[w].client) = {}
  /\ opened' = opened \ {job[w].client}
  /\ mutex_mcp' = NULL
  /\ Become(w, Idle)
  /\ UNCHANGED <<sessionVars, unknown, mcpVars, exitWakeups, died, read,
                 opener, view, delivered, nqIn, swdVars>>

Die(c) ==
  /\ c \notin died
  /\ died' = died \cup {c}
  /\ UNCHANGED <<sessionVars, unknown, mutex_mcp, mcpVars, exitWakeups, job,
                 opened, read, opener, view, delivered, nqIn, swdVars>>

-----------------------------------------------------------------------------
(* handleTaExit: woken up, the thread takes mutex_mcp and closes the dead  *)
(* sessions until there is none.                                           *)

ExitWakes ==
  /\ job[TAExit].pc = "idle"
  /\ exitWakeups > 0
  /\ exitWakeups' = exitWakeups - 1
  /\ Become(TAExit, [Idle EXCEPT !.pc = "lock"])
  /\ UNCHANGED <<sessionVars, unknown, mutex_mcp, mcpVars, clientVars, nqIn,
                 swdVars>>

ExitLocks ==
  /\ job[TAExit].pc = "lock"
  /\ mutex_mcp = NULL
  /\ mutex_mcp' = TAExit
  /\ Become(TAExit, [Idle EXCEPT !.pc = "scan"])
  /\ UNCHANGED <<sessionVars, unknown, mcpVars, exitWakeups, clientVars, nqIn,
                 swdVars>>

Dead == {s \in trustletSessions : sessionState[s] = "dead"}

ExitCloses ==
  /\ job[TAExit].pc = "scan"
  /\ \E s \in Dead :
       /\ \A r \in Dead : r \notin before[s]
       /\ SendMcp("close", s, NULL)
       /\ Become(TAExit, [Idle EXCEPT !.pc = "exitClose", !.sid = s])
  /\ UNCHANGED <<sessionVars, unknown, mutex_mcp, exitWakeups, clientVars,
                 nqIn, swdVars>>

ExitSucceeds ==
  /\ job[TAExit].pc = "exitClose"
  /\ McpReturns("close", "ok")
  /\ DeleteSession(job[TAExit].sid)
  /\ Become(TAExit, [Idle EXCEPT !.pc = "scan"])
  /\ UNCHANGED <<unknown, mutex_mcp, exitWakeups, clientVars, nqIn, swdVars>>

ExitFails ==
  /\ job[TAExit].pc = "exitClose"
  /\ \E r \in Results \ {"ok"} : McpReturns("close", r)
  /\ Become(TAExit, [Idle EXCEPT !.pc = "scan"])
  /\ UNCHANGED <<sessionVars, unknown, mutex_mcp, exitWakeups, clientVars,
                 nqIn, swdVars>>

ExitSleeps ==
  /\ job[TAExit].pc = "scan"
  /\ Dead = {}
  /\ mutex_mcp' = NULL
  /\ Become(TAExit, Idle)
  /\ UNCHANGED <<sessionVars, unknown, mcpVars, exitWakeups, clientVars, nqIn,
                 swdVars>>

-----------------------------------------------------------------------------
(* handleIrq: one notification, taken and handled under mutex_tslist.      *)

\* The semaphore is not read any more after a fault, nor counted here.
IrqMcp ==
  /\ nqIn # <<>> /\ Head(nqIn).sid = SID_MCP
  /\ nqIn' = Tail(nqIn)
  /\ mcpSessionNotification' =
       IF mcFault THEN mcpSessionNotification ELSE mcpSessionNotification + 1
  /\ UNCHANGED <<sessionVars, unknown, mutex_mcp, mcpMessage, mcFault, nqOut,
                 exitWakeups, job, clientVars, swdVars>>

\* Mutant: the notification is dropped.
DropUnknown(n) == UNCHANGED unknown

QueueUnknown(n) == unknown' = Append(unknown, n)

\* Mutant: nobody is woken.
NobodyWakes(s) == FALSE

\* No client owns the session any more: the TA exit handler is woken.
WakesExitHandler(s) == deviceConnection[s] = NULL

\* (notifySessionRemoved is set only when the daemon starts on an MCI that
\* an earlier one has left, see McpExchange: here it is FALSE.)
IrqUnknown ==
  LET n == Head(nqIn) IN
  /\ nqIn # <<>> /\ n.sid # SID_MCP /\ n.sid \notin trustletSessions
  /\ nqIn' = Tail(nqIn)
  /\ QueueUnknown(n)
  /\ UNCHANGED <<sessionVars, mutex_mcp, mcpVars, exitWakeups, job,
                 clientVars, swdVars>>

\* No NQ connection: the session keeps the notification.
IrqQueues ==
  LET n == Head(nqIn) IN
  /\ nqIn # <<>> /\ n.sid \in trustletSessions
  /\ ~notificationConnection[n.sid]
  /\ nqIn' = Tail(nqIn)
  /\ QueueNotification(n.sid, n)
  /\ exitWakeups' = IF WakesExitHandler(n.sid) THEN exitWakeups + 1
                    ELSE exitWakeups
  /\ UNCHANGED <<trustletSessions, before, deviceConnection,
                 notificationConnection, unknown, mutex_mcp, mcpVars, job,
                 clientVars, swdVars>>

IrqForwards ==
  LET n == Head(nqIn) IN
  /\ nqIn # <<>> /\ n.sid \in trustletSessions
  /\ notificationConnection[n.sid]
  /\ nqIn' = Tail(nqIn)
  /\ delivered' = [delivered EXCEPT ![n.sid] = @ + 1]
  /\ UNCHANGED <<sessionVars, unknown, mutex_mcp, mcpVars, exitWakeups, job,
                 opened, died, read, opener, view, swdVars>>

-----------------------------------------------------------------------------
(* The secure world (external).  It answers an MCP command in the buffer   *)
(* and then notifies; a TA may notify its session, and end.                *)

SwdAnswers(result, s) ==
  /\ nqOut > 0 /\ mcpMessage.kind = "cmd"
  /\ Len(nqIn) < NqSize
  /\ nqOut' = nqOut - 1
  /\ mcpMessage' = [mcpMessage EXCEPT !.kind = "rsp", !.result = result,
                                      !.sid = s]
  /\ nqIn' = Append(nqIn, McpNote)
  /\ UNCHANGED <<sessionVars, unknown, mutex_mcp, mcpSessionNotification,
                 mcFault, exitWakeups, job, clientVars>>

SwdOpens ==
  /\ mcpMessage.id = "open"
  /\ \/ \E s \in Sids :
          /\ swd[s] = "unused"
          /\ SwdAnswers("ok", s)
          /\ swd' = [swd EXCEPT ![s] = "running"]
     \/ SwdAnswers("error", NULL) /\ UNCHANGED swd
  /\ UNCHANGED <<noted, asked>>

\* The TA of a GP session is asked to end before its session can be closed.
SwdCloses ==
  LET s == mcpMessage.sid IN
  /\ mcpMessage.id = "close"
  /\ \/ /\ swd[s] = "exited" \/ (swd[s] = "running" /\ s \notin GpSids)
        /\ SwdAnswers("ok", s)
        /\ swd' = [swd EXCEPT ![s] = "closed"]
        /\ UNCHANGED asked
     \/ /\ swd[s] = "running" /\ s \in GpSids
        /\ SwdAnswers("closeTaskFailed", s)
        /\ asked' = asked \cup {s}
        /\ UNCHANGED swd
     \/ /\ swd[s] \in {"unused", "closed"}
        /\ SwdAnswers("error", s)
        /\ UNCHANGED <<swd, asked>>
  /\ UNCHANGED noted

\* The buffer holds no command: the SWd's answer to an old command is there.
SwdFindsNoCommand ==
  /\ nqOut > 0 /\ mcpMessage.kind = "rsp"
  /\ nqOut' = nqOut - 1
  /\ UNCHANGED <<sessionVars, unknown, mutex_mcp, mcpMessage,
                 mcpSessionNotification, mcFault, exitWakeups, job, clientVars,
                 nqIn, swdVars>>

TaNotifies(s) ==
  /\ swd[s] = "running"
  /\ noted[s] < MaxNotes
  /\ Len(nqIn) < NqSize
  /\ noted' = [noted EXCEPT ![s] = @ + 1]
  /\ nqIn' = Append(nqIn, [sid |-> s, payload |-> "plain"])
  /\ UNCHANGED <<sessionVars, unknown, mutex_mcp, mcpVars, exitWakeups, job,
                 clientVars, swd, asked>>

TaExits(s) ==
  /\ swd[s] = "running"
  /\ Len(nqIn) < NqSize
  /\ swd' = [swd EXCEPT ![s] = "exited"]
  /\ nqIn' = Append(nqIn, [sid |-> s, payload |-> "exit"])
  /\ UNCHANGED <<sessionVars, unknown, mutex_mcp, mcpVars, exitWakeups, job,
                 clientVars, noted, asked>>

-----------------------------------------------------------------------------

WorkerStep(w) ==
  \/ \E c \in Clients : \/ OpenDevice(w, c)
                        \/ OpenSession(w, c)
                        \/ CloseDevice(w, c)
                        \/ DropConnection(w, c)
  \/ \E s \in Sids : \/ NqConnect(w, s)
                     \/ CloseSession(w, s)
                     \/ UnknownSession(w, s)
  \/ OpenSucceeds(w) \/ OpenFails(w) \/ Transfer(w) \/ OpenReturns(w)
  \/ Flush(w) \/ FlushEnds(w)
  \/ CloseSucceeds(w) \/ CloseAgain(w) \/ CloseDeferred(w)
  \/ CloseFails(w) \/ CloseAsserts(w)
  \/ DropNext(w) \/ DropEnds(w)

ClientStep(c) == ReadCommand(c) \/ Die(c)

ExitStep == ExitWakes \/ ExitLocks \/ ExitCloses \/ ExitSucceeds \/ ExitFails
            \/ ExitSleeps

IrqStep == IrqMcp \/ IrqUnknown \/ IrqQueues \/ IrqForwards

SwdStep == \/ SwdOpens \/ SwdCloses \/ SwdFindsNoCommand
           \/ \E s \in Sids : TaNotifies(s) \/ TaExits(s)

\* assert() ends the process.
Alive == \A t \in Threads : job[t].pc # "aborted"

\* The process has ended.
Aborted == ~Alive /\ UNCHANGED vars

\* Every client is gone and nothing is left to do.
Rest ==
  /\ died = Clients /\ opened = {} /\ read = {}
  /\ \A t \in Threads : job[t] = Idle
  /\ nqIn = <<>> /\ nqOut = 0 /\ exitWakeups = 0
  /\ UNCHANGED vars

Next ==
  \/ Alive /\ (\/ \E w \in Workers : WorkerStep(w)
               \/ \E c \in Clients : ClientStep(c)
               \/ ExitStep
               \/ IrqStep
               \/ SwdStep)
  \/ Rest
  \/ Aborted

Spec == Init /\ [][Next]_vars

\* A thread that can run runs.  A dispatcher takes the commands and the
\* ended connections from one queue, first come first served, and a thread
\* that waits for mutex_mcp gets it although others keep taking it.  The SWd
\* answers, and a TA that is asked to end ends.  Clients do as they like.
Fairness ==
  /\ \A w \in Workers : WF_vars(Alive /\ WorkerStep(w))
  /\ \A c \in Clients : SF_vars(Alive /\ DropConnection(ServedBy[c], c))
  /\ WF_vars(Alive /\ ExitStep)
  /\ SF_vars(Alive /\ ExitLocks)
  /\ WF_vars(Alive /\ IrqStep)
  /\ WF_vars(Alive /\ (SwdOpens \/ SwdCloses \/ SwdFindsNoCommand))
  /\ \A s \in Sids : WF_vars(Alive /\ s \in asked /\ TaExits(s))

FairSpec == Spec /\ Fairness

-----------------------------------------------------------------------------
(* Properties.                                                             *)

InSwd(s) == swd[s] \in {"running", "exited"}

\* The thread t waits for the answer to a close of s.
Closing(t, s) ==
  job[t].pc \in {"close", "closeAgain", "exitClose"} /\ job[t].sid = s

NotesFor(s, q) == Cardinality({i \in DOMAIN q : q[i].sid = s})

\* The daemon's list and the SWd's sessions are the same sessions, but for
\* the one that an exchange under way is about: openSession lists what the
\* SWd has opened, freeSession and handleTaExit remove what it has closed.
\* (Without a fault: a fault leaves both sides apart for good.)
WorldsAgree ==
  ~mcFault =>
    \A s \in Sids :
      /\ s \in trustletSessions =>
           InSwd(s) \/ (swd[s] = "closed" /\ \E t \in Threads : Closing(t, s))
      /\ InSwd(s) =>
           \/ s \in trustletSessions
           \/ /\ mcpMessage.kind = "rsp" /\ mcpMessage.sid = s
              /\ \E w \in Workers : job[w].pc = "open"

\* The inductive invariant that WorldsAgree and ForgottenOnlyWhenClosed rest
\* on.  A thread holds mutex_mcp exactly in these places of its handler.
HoldingPcs == {"open", "transfer", "close", "closeAgain", "drop", "scan",
               "exitClose", "aborted"}
MutexHeld ==
  \A t \in Threads : (job[t].pc \in HoldingPcs) <=> (mutex_mcp = t)

Exchanging(t) == job[t].pc \in {"open", "close", "closeAgain", "exitClose"}

McpAt(q) == {i \in DOMAIN q : q[i].sid = SID_MCP}
McpNotes == McpAt(nqIn)

\* A command has one trace: the notification to the SWd, or the one back, or
\* the signal of the semaphore; without an exchange there is none.
OneAnswer ==
  ~mcFault =>
    IF \E t \in Threads : Exchanging(t)
      THEN \/ /\ mcpMessage.kind = "cmd" /\ nqOut = 1
              /\ mcpSessionNotification = 0 /\ McpNotes = {}
           \/ /\ mcpMessage.kind = "rsp" /\ nqOut = 0
              /\ \/ /\ mcpSessionNotification = 0
                    /\ \E i \in DOMAIN nqIn : McpNotes = {i}
                 \/ mcpSessionNotification = 1 /\ McpNotes = {}
      ELSE nqOut = 0 /\ mcpSessionNotification = 0 /\ McpNotes = {}

\* What the buffer holds while a thread is in an exchange.
OpenAnswer ==
  /\ mcpMessage.id = "open"
  /\ mcpMessage.kind = "rsp" =>
       \/ /\ mcpMessage.result = "ok" /\ mcpMessage.sid \in Sids
          /\ InSwd(mcpMessage.sid)
       \/ mcpMessage.result = "error" /\ mcpMessage.sid = NULL

CloseAnswer(s) ==
  /\ mcpMessage.id = "close" /\ mcpMessage.sid = s
  /\ s \in trustletSessions
  /\ mcpMessage.kind = "cmd" => InSwd(s)
  /\ mcpMessage.kind = "rsp" =>
       \/ mcpMessage.result = "ok" /\ swd[s] = "closed"
       \/ mcpMessage.result = "closeTaskFailed" /\ InSwd(s)

Answers ==
  ~mcFault =>
    \A t \in Threads :
      /\ job[t].pc = "open" => t \in Workers /\ OpenAnswer
      /\ job[t].pc \in {"close", "closeAgain", "exitClose"} =>
           CloseAnswer(job[t].sid)

Inv == TypeOK /\ MutexHeld /\ OneAnswer /\ Answers /\ WorldsAgree

\* queueUnknownNotification: what is kept for a session not in the list is
\* for the session being opened, so that moving it all to the new session,
\* without a look at the id, gives no session the notification of another.
UnknownIsOpening ==
  ~mcFault =>
    \A i \in DOMAIN unknown :
      \E w \in Workers : \/ /\ job[w].pc = "open" /\ mcpMessage.kind = "rsp"
                            /\ mcpMessage.sid = unknown[i].sid
                         \/ /\ job[w].pc = "transfer"
                            /\ job[w].sid = unknown[i].sid

Sent(s) == noted[s] + (IF swd[s] = "exited" THEN 1 ELSE 0)
Held(s) == delivered[s] + Len(queued[s]) + NotesFor(s, unknown)
             + NotesFor(s, nqIn)

\* handleIrq, openSession and processNqConnect pass each notification of a
\* session from hand to hand: none is delivered twice, and none is lost as
\* long as the session has an owner and its TA is not known to be dead,
\* whenever its NQ connection is made.
NotesConserved ==
  ~mcFault =>
    \A s \in {r \in trustletSessions : InSwd(r)} :
      /\ Held(s) <= Sent(s)
      /\ deviceConnection[s] # NULL /\ sessionState[s] # "dead" =>
           Held(s) = Sent(s)

\* The named leak: a session whose NQ_CONNECT was handled after it had lost
\* its owner.  handleIrq forwards its exit notification to that connection
\* and tells nobody.
ConnectedTooLate(s) == deviceConnection[s] = NULL /\ notificationConnection[s]

\* A session no client owns (closeSession clears deviceConnection) is about
\* to be closed by someone: no wakeup of the TA exit handler is lost, but
\* for a session that was connected too late.
OrphanHasCleaner ==
  ~mcFault =>
    \A s \in trustletSessions :
      deviceConnection[s] = NULL =>
        \/ \E w \in Workers : Closing(w, s)
        \/ /\ sessionState[s] = "dead"
           /\ exitWakeups > 0 \/ job[TAExit].pc # "idle"
        \/ s \in asked /\ swd[s] = "running"
        \/ \E i \in DOMAIN nqIn : nqIn[i] = [sid |-> s, payload |-> "exit"]
        \/ ConnectedTooLate(s)

\* assert(mcRet == MC_MCP_RET_OK) in closeSession: the second close of a GP
\* session whose TA is dead succeeds.
AssertHolds == Alive

\* No step takes a session off the list before the SWd has closed it, even
\* when answers come late or never (freeSession after closeSessionInternal).
ForgottenOnlyWhenClosed ==
  [][\A s \in trustletSessions \ trustletSessions' : swd[s] = "closed"]_vars

\* "Removes all sessions to a connection ... to clean up all sessions if
\* client dies": close() ends for every client that has left.
DroppedEventually ==
  \A c \in Clients : c \in died /\ c \in opened ~> c \notin opened

\* Every session of a client that has left is closed in the end, by close()
\* or by the TA exit handler, unless it is connected too late.
Reaped ==
  \A s \in Sids :
    s \in trustletSessions /\ opener[s] \in died
      ~> s \notin trustletSessions \/ ConnectedTooLate(s)

=============================================================================
