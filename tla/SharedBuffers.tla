---------------------------- MODULE SharedBuffers ----------------------------
(***************************************************************************)
(* The memory clients share with Trusted Applications (TAs): the control   *)
(* buffer (TCI) of mcOpenSession() and the bulk buffers of mcMap() and     *)
(* mcUnmap(), from the client library (ClientLib.cpp, Session.cpp) through *)
(* the daemon (processMapBulkBuf() and its like, MobiCoreDevice.cpp) to    *)
(* the kernel module, which keeps a table of pages for every registered    *)
(* buffer, and to the secure world (SWd), which maps it.                   *)
(*                                                                         *)
(* A client is a process with one open device and one call at a time.  The *)
(* daemon's handlers run under mutex_mcp, so that one job is at work: a    *)
(* client's command, the end of a connection or the TA exit handler.  Only *)
(* NQ_CONNECT, which comes on a second socket, is served without it.  What *)
(* a close sends to whom, and when, is in DeviceSessions.  Left out: the   *)
(* contiguous buffers of mcMallocWsm(), which stay with the device, and    *)
(* the Trustlet's blob, which the daemon registers and unregisters itself  *)
(* around an open.                                                         *)
(*                                                                         *)
(* The kernel module and the SWd are external.  The kernel keeps a table   *)
(* while its client has it registered or the daemon has it locked; the     *)
(* tables of a client that has died it keeps until they are cleaned up.    *)
(***************************************************************************)
EXTENDS Integers, FiniteSets

CONSTANTS
  Clients,
  Sids,        \* session ids
  GpSids,      \* the sessions of GP TAs
  Bufs,        \* virtual addresses of a client
  MaxHandles,  \* bound: buffers ever registered
  Failures,    \* what may fail, of FailureKinds
  NULL

Handles == 1..MaxHandles
FailureKinds == {"nq", "fault"}  \* no NQ connection; no answer from the SWd

ASSUME ConstantsAssumption ==
  /\ NULL \notin Clients \cup Sids \cup Bufs
  /\ GpSids \subseteq Sids
  /\ MaxHandles \in Nat
  /\ Failures \subseteq FailureKinds

VARIABLES
  \* the client process
  alive,             \* clients that have not closed their device or died
  call,              \* the API call a client is in
  sessionList,       \* the sessions a client has
  bulkBufferDescriptors,
  \* the kernel module
  issued,            \* the last handle issued
  owner,             \* the client that has registered a buffer, or NULL
  locks,             \* how often a table is locked
  tables,            \* the tables that exist
  \* the daemon
  trustletSessions,
  deviceConnection,  \* the client of a session, or NULL
  connected,         \* sessions with a notificationConnection
  dead,              \* sessions in state TS_TA_DEAD
  buffers,           \* handles a session object knows
  opened,            \* connections whose connectionData is the device
  job,               \* what the holder of mutex_mcp does
  woken,             \* the TA exit handler has been woken
  mcFault,
  refused,           \* handles of MAP commands answered with an error
  \* the secure world
  mcp,               \* the command in the MCP buffer and its answer
  swd,               \* the session in the SWd
  exiting,           \* TAs whose exit notification is under way
  mapped             \* <<session, handle>>: what the SWd has mapped

clientVars == <<alive, call, sessionList, bulkBufferDescriptors>>
kernelVars == <<issued, owner, locks, tables>>
daemonVars == <<trustletSessions, deviceConnection, connected, dead, buffers,
                opened, job, woken, mcFault, refused>>
swdVars    == <<mcp, swd, exiting, mapped>>
vars == <<clientVars, kernelVars, daemonVars, swdVars>>

NoCall == [op |-> "none", sid |-> NULL, handle |-> 0, buf |-> NULL,
           reply |-> "none"]
NoCommand == [cmd |-> "none", sid |-> NULL, handle |-> 0, answer |-> "none"]
NoJob  == [at |-> "idle", client |-> NULL, sid |-> NULL, handle |-> 0,
           drop |-> FALSE]

Init ==
  /\ alive = Clients
  /\ call = [c \in Clients |-> NoCall]
  /\ sessionList = [c \in Clients |-> {}]
  /\ bulkBufferDescriptors = [s \in Sids |-> {}]
  /\ issued = 0
  /\ owner = [h \in Handles |-> NULL]
  /\ locks = [h \in Handles |-> 0]
  /\ tables = {}
  /\ trustletSessions = {}
  /\ deviceConnection = [s \in Sids |-> NULL]
  /\ connected = {}
  /\ dead = {}
  /\ buffers = [s \in Sids |-> {}]
  /\ opened = Clients
  /\ job = NoJob
  /\ woken = FALSE
  /\ mcFault = FALSE
  /\ refused = {}
  /\ mcp = NoCommand
  /\ swd = [s \in Sids |-> "unused"]
  /\ exiting = {}
  /\ mapped = {}

-----------------------------------------------------------------------------
(* The kernel module.                                                      *)

Register(c) ==
  /\ issued < MaxHandles
  /\ issued' = issued + 1
  /\ owner' = [owner EXCEPT ![issued'] = c]
  /\ tables' = tables \cup {issued'}
  /\ UNCHANGED locks

\* A table that is locked outlives its registration.
Unregister(H) ==
  /\ owner' = [h \in Handles |-> IF h \in H THEN NULL ELSE owner[h]]
  /\ tables' = {h \in tables : h \in H => locks[h] > 0}
  /\ UNCHANGED <<issued, locks>>

Lock(h) ==
  /\ locks' = [locks EXCEPT ![h] = @ + 1]
  /\ UNCHANGED <<issued, owner, tables>>

\* The daemon ignores that a handle may be unknown or not locked.
Unlock(H) ==
  /\ locks' = [h \in Handles |-> IF h \in H \cap tables /\ locks[h] > 0
                                   THEN locks[h] - 1 ELSE locks[h]]
  /\ tables' = {h \in tables : h \in H /\ owner[h] = NULL => locks'[h] > 0}
  /\ UNCHANGED <<issued, owner>>

\* Cleanup of all orphaned buffers.
Clean ==
  /\ tables' = {h \in tables : owner[h] # NULL \/ locks[h] > 0}
  /\ UNCHANGED <<issued, owner, locks>>

\* The process is gone, or has closed its device file.
Release(c) ==
  /\ owner' = [h \in Handles |-> IF owner[h] = c THEN NULL ELSE owner[h]]
  /\ UNCHANGED <<issued, locks, tables>>

\* MC_IO_RESOLVE_WSM: the buffer is one of the client of the connection.
Resolves(h, c) == h \in tables /\ owner[h] = c

-----------------------------------------------------------------------------
(* The client library.                                                     *)

Idle(c) == c \in alive /\ call[c].op = "none"
Returned(c, op, reply) ==
  c \in alive /\ call[c].op = op /\ call[c].reply = reply

\* A command is in the socket of the device, NQ_CONNECT in a second one.
Pending(c) == call[c].op \notin {"none", "connect"} /\ call[c].reply = "none"
Connecting(c) == call[c].op = "connect" /\ call[c].reply = "none"

Calls(c, op, s, h, b) ==
  call' = [call EXCEPT ![c] = [op |-> op, sid |-> s, handle |-> h, buf |-> b,
                               reply |-> "none"]]
Leaves(c) == call' = [call EXCEPT ![c] = NoCall]

McOpenSession(c) ==
  /\ Idle(c)
  /\ \/ \E b \in Bufs : /\ Register(c)
                        /\ Calls(c, "open", NULL, issued', b)
     \/ Calls(c, "open", NULL, 0, NULL) /\ UNCHANGED kernelVars
  /\ UNCHANGED <<alive, sessionList, bulkBufferDescriptors, daemonVars,
                 swdVars>>

\* The session is open: NQ_CONNECT is sent on a second socket.
OpenConnecting(c) ==
  /\ Returned(c, "open", "ok")
  /\ Calls(c, "connect", call[c].sid, call[c].handle, call[c].buf)
  /\ UNCHANGED <<alive, sessionList, bulkBufferDescriptors, kernelVars,
                 daemonVars, swdVars>>

OpenConnects(c) ==
  LET s == call[c].sid IN
  /\ Returned(c, "connect", "ok")
  /\ sessionList' = [sessionList EXCEPT ![c] = @ \cup {s}]
  /\ bulkBufferDescriptors' = [bulkBufferDescriptors EXCEPT ![s] =
       IF call[c].handle = 0 THEN {}
       ELSE {[buf |-> call[c].buf, handle |-> call[c].handle, secure |-> FALSE]}]
  /\ Leaves(c)
  /\ UNCHANGED <<alive, kernelVars, daemonVars, swdVars>>

\* The TCI stays registered; a session that was opened stays open.
OpenGivesUp(c) ==
  /\ \/ Returned(c, "open", "error") \/ Returned(c, "connect", "error")
     \/ Returned(c, "open", "ok") /\ "nq" \in Failures
  /\ Leaves(c)
  /\ UNCHANGED <<alive, sessionList, bulkBufferDescriptors, kernelVars,
                 daemonVars, swdVars>>

\* A buffer is mapped to a session once (Session::addBulkBuf).
McMap(c, s, b) ==
  /\ Idle(c)
  /\ s \in sessionList[c]
  /\ \A d \in bulkBufferDescriptors[s] : d.buf # b
  /\ Register(c)
  /\ bulkBufferDescriptors' = [bulkBufferDescriptors EXCEPT ![s] =
       @ \cup {[buf |-> b, handle |-> issued', secure |-> FALSE]}]
  /\ Calls(c, "map", s, issued', b)
  /\ UNCHANGED <<alive, sessionList, daemonVars, swdVars>>

MapReturns(c) ==
  LET s == call[c].sid
      d == [buf |-> call[c].buf, handle |-> call[c].handle, secure |-> FALSE]
  IN  /\ Returned(c, "map", "ok")
      /\ bulkBufferDescriptors' = [bulkBufferDescriptors EXCEPT ![s] =
           (@ \ {d}) \cup {[d EXCEPT !.secure = TRUE]}]
      /\ Leaves(c)
      /\ UNCHANGED <<alive, sessionList, kernelVars, daemonVars, swdVars>>

\* Session::removeBulkBuf finds the buffer by its virtual address.
RemoveBulkBuf(s, b) ==
  LET D == {d \in bulkBufferDescriptors[s] : d.buf = b} IN
  /\ bulkBufferDescriptors' = [bulkBufferDescriptors EXCEPT ![s] = @ \ D]
  /\ Unregister({d.handle : d \in D})

MapRefused(c) ==
  /\ Returned(c, "map", "error")
  /\ RemoveBulkBuf(call[c].sid, call[c].buf)
  /\ Leaves(c)
  /\ UNCHANGED <<alive, sessionList, daemonVars, swdVars>>

\* The daemon is told the handle that belongs to the mapping; the caller
\* names the mapping and the buffer, and nobody compares the two.
McUnmap(c, s, d, b) ==
  /\ Idle(c)
  /\ s \in sessionList[c]
  /\ d \in bulkBufferDescriptors[s] /\ d.secure
  /\ Calls(c, "unmap", s, d.handle, b)
  /\ UNCHANGED <<alive, sessionList, bulkBufferDescriptors, kernelVars,
                 daemonVars, swdVars>>

UnmapReturns(c) ==
  /\ Returned(c, "unmap", "ok")
  /\ RemoveBulkBuf(call[c].sid, call[c].buf)
  /\ Leaves(c)
  /\ UNCHANGED <<alive, sessionList, daemonVars, swdVars>>

McCloseSession(c, s) ==
  /\ Idle(c)
  /\ s \in sessionList[c]
  /\ Calls(c, "close", s, 0, NULL)
  /\ UNCHANGED <<alive, sessionList, bulkBufferDescriptors, kernelVars,
                 daemonVars, swdVars>>

\* Session::~Session unregisters what is still mapped.
CloseReturns(c) ==
  LET s == call[c].sid IN
  /\ Returned(c, "close", "ok")
  /\ sessionList' = [sessionList EXCEPT ![c] = @ \ {s}]
  /\ Unregister({d.handle : d \in bulkBufferDescriptors[s]})
  /\ bulkBufferDescriptors' = [bulkBufferDescriptors EXCEPT ![s] = {}]
  /\ Leaves(c)
  /\ UNCHANGED <<alive, daemonVars, swdVars>>

CallFails(c) ==
  /\ Returned(c, "unmap", "error") \/ Returned(c, "close", "error")
  /\ Leaves(c)
  /\ UNCHANGED <<alive, sessionList, bulkBufferDescriptors, kernelVars,
                 daemonVars, swdVars>>

\* The connection was dropped: the client reads the end of the stream, and
\* leaves everything as it is, the registration of a buffer included.
SocketError(c) ==
  /\ c \in alive \ opened
  /\ Pending(c)
  /\ Leaves(c)
  /\ UNCHANGED <<alive, sessionList, bulkBufferDescriptors, kernelVars,
                 daemonVars, swdVars>>

McCloseDevice(c) ==
  /\ Idle(c)
  /\ sessionList[c] = {}
  /\ Calls(c, "closeDevice", NULL, 0, NULL)
  /\ UNCHANGED <<alive, sessionList, bulkBufferDescriptors, kernelVars,
                 daemonVars, swdVars>>

\* The process closes its device file, having closed the device or given it
\* up as invalid, or it dies: at any time.  What it has sent stays sent.
Gone(c) ==
  /\ c \in alive
  /\ alive' = alive \ {c}
  /\ Release(c)
  /\ call' = IF Pending(c) \/ Connecting(c) THEN call
             ELSE [call EXCEPT ![c] = NoCall]
  /\ bulkBufferDescriptors' = [s \in Sids |->
       IF s \in sessionList[c] THEN {} ELSE bulkBufferDescriptors[s]]
  /\ UNCHANGED <<sessionList, daemonVars, swdVars>>


-----------------------------------------------------------------------------
(* The daemon: a handler runs from the lock of mutex_mcp to its unlock.    *)

Answer(c, s, reply) ==
  call' = IF c \in alive
            THEN [call EXCEPT ![c].sid = s, ![c].reply = reply]
            ELSE [call EXCEPT ![c] = NoCall]

Serves(c, op) ==
  /\ job.at = "idle"
  /\ c \in opened
  /\ Pending(c) /\ call[c].op = op

Send(cmd, s, h) ==
  mcp' = [cmd |-> cmd, sid |-> s, handle |-> h, answer |-> "none"]

\* mshNotifyAndWait returns the answer, or an error once the SWd has faulted.
\* (What is left in the buffer between two commands is not told apart.)
Answered(result) ==
  /\ ~mcFault
  /\ mcp.answer = result
  /\ mcp' = NoCommand
  /\ UNCHANGED <<mcFault, swd, exiting, mapped>>

WaitFails ==
  /\ mcFault \/ "fault" \in Failures
  /\ mcFault' = TRUE
  /\ UNCHANGED swdVars

At(step) == job.at = step
Goes(step) == job' = [job EXCEPT !.at = step]

\* The handler returns a result to its client.
Returns(reply) ==
  /\ Answer(job.client, call[job.client].sid, reply)
  /\ job' = NoJob

FindsSession(s, c) == s \in trustletSessions /\ deviceConnection[s] = c

\* openSession: the TCI is looked up first, and locked.
ServeOpen(c) ==
  LET h == call[c].handle IN
  /\ Serves(c, "open")
  /\ \/ /\ h = 0
        /\ Send("open", NULL, 0)
        /\ job' = [NoJob EXCEPT !.at = "open", !.client = c]
        /\ UNCHANGED call
     \/ /\ h # 0 /\ Resolves(h, c)
        /\ job' = [NoJob EXCEPT !.at = "lock", !.client = c, !.handle = h]
        /\ UNCHANGED <<call, mcp>>
     \/ /\ h # 0 /\ ~Resolves(h, c)
        /\ Answer(c, NULL, "error")
        /\ UNCHANGED <<job, mcp>>
  /\ UNCHANGED <<alive, sessionList, bulkBufferDescriptors, kernelVars,
                 trustletSessions, deviceConnection, connected, dead, buffers,
                 opened, woken, mcFault, refused, swd, exiting, mapped>>

OpenLocks ==
  /\ At("lock")
  /\ Lock(job.handle)
  /\ Send("open", NULL, job.handle)
  /\ Goes("open")
  /\ UNCHANGED <<clientVars, trustletSessions, deviceConnection, connected,
                 dead, buffers, opened, woken, mcFault, refused, swd, exiting,
                 mapped>>

OpenSucceeds ==
  LET s == mcp.sid
      c == job.client
  IN  /\ At("open")
      /\ Answered("ok")
      /\ trustletSessions' = trustletSessions \cup {s}
      /\ deviceConnection' = [deviceConnection EXCEPT ![s] = c]
      /\ buffers' = [buffers EXCEPT ![s] = {job.handle} \ {0}]
      /\ Answer(c, s, "ok")
      /\ job' = NoJob
      /\ UNCHANGED <<alive, sessionList, bulkBufferDescriptors, kernelVars,
                     connected, dead, opened, woken, refused>>

OpenFails ==
  /\ At("open")
  /\ Answered("error") \/ WaitFails
  /\ Unlock({job.handle})
  /\ Returns("error")
  /\ UNCHANGED <<alive, sessionList, bulkBufferDescriptors, trustletSessions,
                 deviceConnection, connected, dead, buffers, opened, woken,
                 refused>>

\* processMapBulkBuf locks the buffer before anything is known of it.
ServeMap(c) ==
  LET h == call[c].handle IN
  /\ Serves(c, "map")
  /\ \/ /\ h \in tables
        /\ Lock(h)
        /\ job' = [NoJob EXCEPT !.at = "find", !.client = c,
                                !.sid = call[c].sid, !.handle = h]
        /\ UNCHANGED call
     \/ /\ h \notin tables
        /\ Answer(c, call[c].sid, "error")
        /\ UNCHANGED <<job, kernelVars>>
  /\ UNCHANGED <<alive, sessionList, bulkBufferDescriptors, trustletSessions,
                 deviceConnection, connected, dead, buffers, opened, woken,
                 mcFault, refused, swdVars>>

MapFinds ==
  /\ At("find")
  /\ Resolves(job.handle, job.client)
  /\ FindsSession(job.sid, job.client)
  /\ buffers' = [buffers EXCEPT ![job.sid] = @ \cup {job.handle}]
  /\ Send("map", job.sid, job.handle)
  /\ Goes("map")
  /\ UNCHANGED <<clientVars, kernelVars, trustletSessions, deviceConnection,
                 connected, dead, opened, woken, mcFault, refused, swd,
                 exiting, mapped>>

\* Otherwise the command is answered with an error, and the buffer stays
\* locked although no session has it.
MapFindsNothing ==
  /\ At("find")
  /\ \/ ~Resolves(job.handle, job.client)
     \/ ~FindsSession(job.sid, job.client)
  /\ refused' = refused \cup {job.handle}
  /\ Returns("error")
  /\ UNCHANGED <<alive, sessionList, bulkBufferDescriptors, kernelVars,
                 trustletSessions, deviceConnection, connected, dead, buffers,
                 opened, woken, mcFault, swdVars>>

\* Mapped or not, the buffer stays with the session, and locked.
MapEnds ==
  /\ At("map")
  /\ \/ Answered("ok") /\ Returns("ok")
     \/ (Answered("error") \/ WaitFails) /\ Returns("error")
  /\ UNCHANGED <<alive, sessionList, bulkBufferDescriptors, kernelVars,
                 trustletSessions, deviceConnection, connected, dead, buffers,
                 opened, woken, refused>>

ServeUnmap(c) ==
  LET s == call[c].sid
      h == call[c].handle
  IN  /\ Serves(c, "unmap")
      /\ \/ /\ FindsSession(s, c) /\ h \in buffers[s]
            /\ Send("unmap", s, h)
            /\ job' = [NoJob EXCEPT !.at = "unmap", !.client = c, !.sid = s,
                                    !.handle = h]
            /\ UNCHANGED call
         \/ /\ ~FindsSession(s, c) \/ h \notin buffers[s]
            /\ Answer(c, s, "error")
            /\ UNCHANGED <<job, mcp>>
      /\ UNCHANGED <<alive, sessionList, bulkBufferDescriptors, kernelVars,
                     trustletSessions, deviceConnection, connected, dead,
                     buffers, opened, woken, mcFault, refused, swd, exiting,
                     mapped>>

\* Mutant: the buffer is given back although the SWd may not have let it go.
UnmapEndsAnyhow ==
  /\ At("unmap")
  /\ Answered("ok") \/ Answered("error") \/ WaitFails
  /\ buffers' = [buffers EXCEPT ![job.sid] = @ \ {job.handle}]
  /\ Unlock({job.handle})
  /\ Returns("ok")
  /\ UNCHANGED <<alive, sessionList, bulkBufferDescriptors, trustletSessions,
                 deviceConnection, connected, dead, opened, woken, refused>>

UnmapEnds ==
  /\ At("unmap")
  /\ \/ /\ Answered("ok")
        /\ buffers' = [buffers EXCEPT ![job.sid] = @ \ {job.handle}]
        /\ Unlock({job.handle})
        /\ Returns("ok")
     \/ /\ Answered("error") \/ WaitFails
        /\ Returns("error")
        /\ UNCHANGED <<buffers, kernelVars>>
  /\ UNCHANGED <<alive, sessionList, bulkBufferDescriptors, trustletSessions,
                 deviceConnection, connected, dead, opened, woken, refused>>

\* processNqConnect takes no mutex_mcp (the client's dispatcher has to be free)
\* and looks the session up, whoever owns it: it may have been closed, or given
\* up by the end of the first connection.  After a fault nobody may read it.
NqConnect(c) ==
  LET s == call[c].sid IN
  /\ Connecting(c)
  /\ job.client # c
  /\ \/ /\ s \in trustletSessions
        /\ connected' = connected \cup {s}
        /\ Answer(c, s, "ok")
     \/ /\ s \notin trustletSessions \/ mcFault
        /\ Answer(c, s, "error")
        /\ UNCHANGED connected
  /\ UNCHANGED <<alive, sessionList, bulkBufferDescriptors, kernelVars,
                 trustletSessions, deviceConnection, dead, buffers, opened,
                 job, woken, mcFault, refused, swdVars>>

-----------------------------------------------------------------------------
(* closeSession, for a command and for the end of a connection.            *)

\* A GP session has no client and no notification connection from here on,
\* and is not known to be dead.
BeginClose(s, c, drop) ==
  /\ Send("close", s, 0)
  /\ IF s \in GpSids
       THEN /\ deviceConnection' = [deviceConnection EXCEPT ![s] = NULL]
            /\ connected' = connected \ {s}
            /\ dead' = dead \ {s}
       ELSE UNCHANGED <<deviceConnection, connected, dead>>
  /\ job' = [at |-> "close", client |-> c, sid |-> s, handle |-> 0,
             drop |-> drop]
  /\ UNCHANGED <<alive, sessionList, bulkBufferDescriptors, kernelVars,
                 trustletSessions, buffers, opened, woken, mcFault, refused,
                 swd, exiting, mapped>>

ServeClose(c) ==
  LET s == call[c].sid IN
  /\ Serves(c, "close")
  /\ \/ FindsSession(s, c) /\ BeginClose(s, c, FALSE) /\ UNCHANGED call
     \/ /\ ~FindsSession(s, c)
        /\ Answer(c, s, "error")
        /\ UNCHANGED <<alive, sessionList, bulkBufferDescriptors, kernelVars,
                       daemonVars, swdVars>>

\* The command returns, or close() looks for the next session.
EndClose(reply) ==
  IF job.drop THEN Goes("drop") /\ UNCHANGED call ELSE Returns(reply)

\* Mutant: the session is deleted with its buffers still locked.
FreeSessionOnly(s) ==
  /\ trustletSessions' = trustletSessions \ {s}
  /\ connected' = connected \ {s}
  /\ buffers' = [buffers EXCEPT ![s] = {}]
  /\ UNCHANGED kernelVars

FreeSession(s) ==
  /\ Unlock(buffers[s])
  /\ trustletSessions' = trustletSessions \ {s}
  /\ connected' = connected \ {s}
  /\ buffers' = [buffers EXCEPT ![s] = {}]

CloseSucceeds ==
  /\ At("close") \/ At("closeAgain")
  /\ Answered("ok")
  /\ FreeSession(job.sid)
  /\ EndClose("ok")
  /\ UNCHANGED <<alive, sessionList, bulkBufferDescriptors, deviceConnection,
                 dead, opened, woken, refused>>

CloseAgain ==
  /\ At("close")
  /\ ~mcFault /\ mcp.answer = "closeTaskFailed"
  /\ job.sid \in dead
  /\ Send("close", job.sid, 0)
  /\ Goes("closeAgain")
  /\ UNCHANGED <<clientVars, kernelVars, trustletSessions, deviceConnection,
                 connected, dead, buffers, opened, woken, mcFault, refused,
                 swd, exiting, mapped>>

\* Mutant: the session is freed although its TA has not ended.
CloseDeferredFreeing ==
  /\ At("close")
  /\ Answered("closeTaskFailed")
  /\ job.sid \notin dead
  /\ FreeSession(job.sid)
  /\ EndClose("ok")
  /\ UNCHANGED <<alive, sessionList, bulkBufferDescriptors, deviceConnection,
                 dead, opened, woken, refused>>

\* The client is told that the session is closed.
CloseDeferred ==
  /\ At("close")
  /\ Answered("closeTaskFailed")
  /\ job.sid \notin dead
  /\ EndClose("ok")
  /\ UNCHANGED <<alive, sessionList, bulkBufferDescriptors, kernelVars,
                 trustletSessions, deviceConnection, connected, dead, buffers,
                 opened, woken, refused>>

CloseFails ==
  /\ At("close")
  /\ WaitFails
  /\ EndClose("error")
  /\ UNCHANGED <<alive, sessionList, bulkBufferDescriptors, kernelVars,
                 trustletSessions, deviceConnection, connected, dead, buffers,
                 opened, woken, refused>>

\* assert(mcRet == MC_MCP_RET_OK): the daemon ends.
CloseAsserts ==
  /\ At("closeAgain")
  /\ WaitFails
  /\ Goes("aborted")
  /\ UNCHANGED <<clientVars, kernelVars, trustletSessions, deviceConnection,
                 connected, dead, buffers, opened, woken, refused>>

-----------------------------------------------------------------------------
(* close(): every session of a connection, then the orphaned buffers.      *)

Drops(c) ==
  /\ job' = [NoJob EXCEPT !.at = "drop", !.client = c, !.drop = TRUE]
  /\ UNCHANGED <<clientVars, kernelVars, trustletSessions, deviceConnection,
                 connected, dead, buffers, opened, woken, mcFault, refused,
                 swdVars>>

ServeCloseDevice(c) == Serves(c, "closeDevice") /\ Drops(c)

\* No command of the client is left to read, or none is read any more.
DropConnection(c) ==
  /\ At("idle")
  /\ c \in opened
  /\ mcFault \/ (c \notin alive /\ ~Pending(c))
  /\ Drops(c)

Owned(c) == {s \in trustletSessions : deviceConnection[s] = c}

DropNext ==
  /\ At("drop")
  /\ \E s \in Owned(job.client) : BeginClose(s, job.client, TRUE)
  /\ UNCHANGED call

\* A client that waits for CLOSE_DEVICE is answered (one that a fault has kept
\* from being read reads the end of the stream: the device is given up too).
EndDrop ==
  LET c == job.client IN
  IF Pending(c) /\ call[c].op = "closeDevice"
    THEN Returns("ok") ELSE job' = NoJob /\ UNCHANGED call

\* Mutant: the orphaned buffers are not cleaned up.
DropEndsOnly ==
  /\ At("drop")
  /\ Owned(job.client) = {}
  /\ opened' = opened \ {job.client}
  /\ EndDrop
  /\ UNCHANGED <<alive, sessionList, bulkBufferDescriptors, kernelVars,
                 trustletSessions, deviceConnection, connected, dead, buffers,
                 woken, mcFault, refused, swdVars>>

DropEnds ==
  /\ At("drop")
  /\ Owned(job.client) = {}
  /\ Clean
  /\ opened' = opened \ {job.client}
  /\ EndDrop
  /\ UNCHANGED <<alive, sessionList, bulkBufferDescriptors, trustletSessions,
                 deviceConnection, connected, dead, buffers, woken, mcFault,
                 refused, swdVars>>

-----------------------------------------------------------------------------
(* The TA exit handler, and the notification that wakes it.                *)

\* A session with a notification connection has it forwarded there, whether or
\* not somebody listens, and nothing else happens; one without is marked.
IrqExit(s) ==
  /\ s \in exiting \cap trustletSessions
  /\ exiting' = exiting \ {s}
  /\ IF s \in connected
       THEN UNCHANGED <<dead, woken>>
       ELSE /\ dead' = dead \cup {s}
            /\ woken' = (woken \/ deviceConnection[s] = NULL)
  /\ UNCHANGED <<clientVars, kernelVars, trustletSessions, deviceConnection,
                 connected, buffers, opened, job, mcFault, refused, mcp, swd,
                 mapped>>

ExitWakes ==
  /\ At("idle")
  /\ woken
  /\ woken' = FALSE
  /\ Goes("scan")
  /\ UNCHANGED <<clientVars, kernelVars, trustletSessions, deviceConnection,
                 connected, dead, buffers, opened, mcFault, refused, swdVars>>

ExitCloses ==
  /\ At("scan")
  /\ \E s \in dead \cap trustletSessions :
       /\ Send("close", s, 0)
       /\ job' = [NoJob EXCEPT !.at = "exitClose", !.sid = s]
  /\ UNCHANGED <<clientVars, kernelVars, trustletSessions, deviceConnection,
                 connected, dead, buffers, opened, woken, mcFault, refused,
                 swd, exiting, mapped>>

\* The object is deleted, and its buffers are not unlocked.
ExitDeletes ==
  /\ At("exitClose")
  /\ Answered("ok")
  /\ trustletSessions' = trustletSessions \ {job.sid}
  /\ connected' = connected \ {job.sid}
  /\ job' = [NoJob EXCEPT !.at = "scan"]
  /\ UNCHANGED <<clientVars, kernelVars, deviceConnection, dead, buffers,
                 opened, woken, refused>>

ExitFails ==
  /\ At("exitClose")
  /\ WaitFails
  /\ job' = [NoJob EXCEPT !.at = "scan"]
  /\ UNCHANGED <<clientVars, kernelVars, trustletSessions, deviceConnection,
                 connected, dead, buffers, opened, woken, refused>>

ExitSleeps ==
  /\ At("scan")
  /\ dead \cap trustletSessions = {}
  /\ job' = NoJob
  /\ UNCHANGED <<clientVars, kernelVars, trustletSessions, deviceConnection,
                 connected, dead, buffers, opened, woken, mcFault, refused,
                 swdVars>>

-----------------------------------------------------------------------------
(* The secure world (external).  It acts on the command in the buffer, also *)
(* when the daemon no longer waits for the answer.                         *)

SwdAnswers(cmd, result) ==
  /\ mcp.cmd = cmd /\ mcp.answer = "none"
  /\ mcp' = [mcp EXCEPT !.answer = result]
  /\ UNCHANGED <<clientVars, kernelVars, daemonVars>>

Buffer(s, h) == {<<s, h>>} \ {<<s, 0>>}

SwdOpens ==
  \E s \in Sids :
    /\ swd[s] = "unused"
    /\ mcp.cmd = "open" /\ mcp.answer = "none"
    /\ mcp' = [mcp EXCEPT !.answer = "ok", !.sid = s]
    /\ swd' = [swd EXCEPT ![s] = "running"]
    /\ mapped' = mapped \cup Buffer(s, mcp.handle)
    /\ UNCHANGED <<clientVars, kernelVars, daemonVars, exiting>>

SwdMaps ==
  /\ SwdAnswers("map", "ok")
  /\ swd[mcp.sid] \in {"running", "asked"}
  /\ mapped' = mapped \cup Buffer(mcp.sid, mcp.handle)
  /\ UNCHANGED <<swd, exiting>>

SwdUnmaps ==
  /\ SwdAnswers("unmap", "ok")
  /\ mapped' = mapped \ Buffer(mcp.sid, mcp.handle)
  /\ UNCHANGED <<swd, exiting>>

SwdRefuses ==
  /\ \E cmd \in {"open", "map", "unmap"} : SwdAnswers(cmd, "error")
  /\ UNCHANGED <<swd, exiting, mapped>>

\* A GP TA has to end before its session can be closed.  (A session closed
\* already can be closed again only after a fault: nobody reads the answer.)
SwdCloses ==
  LET s == mcp.sid IN
  /\ \/ /\ SwdAnswers("close", "ok")
        /\ swd[s] = "exited" \/ (swd[s] = "running" /\ s \notin GpSids)
        /\ swd' = [swd EXCEPT ![s] = "closed"]
        /\ mapped' = {p \in mapped : p[1] # s}
     \/ /\ SwdAnswers("close", "closeTaskFailed")
        /\ swd[s] \in {"running", "asked"} /\ s \in GpSids
        /\ swd' = [swd EXCEPT ![s] = "asked"]
        /\ UNCHANGED mapped
  /\ UNCHANGED exiting

\* A GP TA ends, asked or not; of others the end is not told apart.
TaExits(s) ==
  /\ s \in GpSids
  /\ swd[s] \in {"running", "asked"}
  /\ swd' = [swd EXCEPT ![s] = "exited"]
  /\ exiting' = exiting \cup {s}
  /\ UNCHANGED <<clientVars, kernelVars, daemonVars, mcp, mapped>>

-----------------------------------------------------------------------------

ClientStep(c) ==
  \/ McOpenSession(c) \/ OpenConnecting(c) \/ OpenConnects(c) \/ OpenGivesUp(c)
  \/ \E s \in Sids, b \in Bufs :
       \/ McMap(c, s, b)
       \/ \E d \in bulkBufferDescriptors[s] : McUnmap(c, s, d, b)
  \/ MapReturns(c) \/ MapRefused(c) \/ UnmapReturns(c)
  \/ \E s \in Sids : McCloseSession(c, s)
  \/ CloseReturns(c) \/ CallFails(c) \/ SocketError(c)
  \/ McCloseDevice(c) \/ Gone(c)

Serve(c) == ServeOpen(c) \/ ServeMap(c) \/ ServeUnmap(c) \/ ServeClose(c)
            \/ NqConnect(c) \/ ServeCloseDevice(c)

JobStep ==
  \/ OpenLocks \/ OpenSucceeds \/ OpenFails
  \/ MapFinds \/ MapFindsNothing \/ MapEnds \/ UnmapEnds
  \/ CloseSucceeds \/ CloseAgain \/ CloseDeferred \/ CloseFails
  \/ CloseAsserts \/ DropNext \/ DropEnds
  \/ ExitCloses \/ ExitDeletes \/ ExitFails \/ ExitSleeps

SwdStep == SwdOpens \/ SwdMaps \/ SwdUnmaps \/ SwdRefuses \/ SwdCloses

\* The daemon has ended, or every client has gone and nothing is left to do.
Rest ==
  /\ \/ At("aborted")
     \/ /\ alive = {} /\ opened = {}
        /\ \A c \in Clients : ~Connecting(c)
        /\ At("idle") /\ ~woken
  /\ UNCHANGED vars

Next ==
  \/ /\ ~At("aborted")
     /\ \/ \E c \in Clients : ClientStep(c) \/ Serve(c) \/ DropConnection(c)
        \/ JobStep
        \/ ExitWakes
        \/ SwdStep
        \/ \E s \in Sids : IrqExit(s) \/ TaExits(s)
  \/ Rest

Spec == Init /\ [][Next]_vars

\* Handlers run on, the dispatcher takes commands and ended connections from
\* one queue, first come first served, mutex_mcp is not kept from the TA exit
\* handler for ever, and the SWd answers; a TA that is asked to end ends.
\* Clients do as they like.
Fairness ==
  /\ WF_vars(JobStep)
  /\ SF_vars(ExitWakes)
  /\ WF_vars(SwdStep)
  /\ \A c \in Clients : SF_vars(Serve(c)) /\ SF_vars(DropConnection(c))
  /\ \A s \in Sids : /\ WF_vars(IrqExit(s))
                     /\ WF_vars(swd[s] = "asked" /\ TaExits(s))

FairSpec == Spec /\ Fairness

-----------------------------------------------------------------------------
(* Types.                                                                  *)

Calling == [op : {"none", "open", "connect", "map", "unmap", "close",
                  "closeDevice"},
            sid : Sids \cup {NULL}, handle : 0..MaxHandles,
            buf : Bufs \cup {NULL}, reply : {"none", "ok", "error"}]
Descriptor == [buf : Bufs, handle : Handles, secure : BOOLEAN]
Working == [at : {"idle", "lock", "open", "find", "map", "unmap", "close",
                  "closeAgain", "drop", "scan", "exitClose", "aborted"},
            client : Clients \cup {NULL}, sid : Sids \cup {NULL},
            handle : 0..MaxHandles, drop : BOOLEAN]
McpBuffer == [cmd : {"none", "open", "map", "unmap", "close"},
              sid : Sids \cup {NULL}, handle : 0..MaxHandles,
              answer : {"none", "ok", "error", "closeTaskFailed"}]

\* The variables keep their types, and no buffer is locked twice: processMap-
\* BulkBuf() and openSession() lock what freeSession() and processUnmap-
\* BulkBuf() unlock once.
TypeOK ==
  /\ alive \subseteq Clients
  /\ call \in [Clients -> Calling]
  /\ sessionList \in [Clients -> SUBSET Sids]
  /\ bulkBufferDescriptors \in [Sids -> SUBSET Descriptor]
  /\ issued \in 0..MaxHandles
  /\ owner \in [Handles -> Clients \cup {NULL}]
  /\ locks \in [Handles -> 0..1]
  /\ tables \subseteq Handles
  /\ trustletSessions \subseteq Sids
  /\ deviceConnection \in [Sids -> Clients \cup {NULL}]
  /\ connected \subseteq Sids
  /\ dead \subseteq Sids
  /\ buffers \in [Sids -> SUBSET Handles]
  /\ opened \subseteq Clients
  /\ job \in Working
  /\ woken \in BOOLEAN
  /\ mcFault \in BOOLEAN
  /\ refused \subseteq Handles
  /\ mcp \in McpBuffer
  /\ swd \in [Sids -> {"unused", "running", "asked", "exited", "closed"}]
  /\ exiting \subseteq Sids
  /\ mapped \subseteq Sids \X Handles

-----------------------------------------------------------------------------
(* Properties.                                                             *)

\* The kernel keeps the pages of a buffer the SWd has mapped, whatever the
\* client does (unmap another buffer than the one it names, close a GP session
\* whose TA goes on, close the device, die) and whatever the order in which
\* the daemon learns of it: the lock of lockWsmL2() outlives the registration.
\* Once the SWd has not answered, this is promised for the sessions in the
\* list only: openSession() unlocks the TCI of a command still under way.
PinnedWhileMapped ==
  \A p \in mapped : ~mcFault \/ p[1] \in trustletSessions => p[2] \in tables

\* A session object knows every buffer its TA has mapped, so that freeSession()
\* can unlock it: also one whose MAP or UNMAP was not answered in time.
DaemonKnows ==
  \A p \in mapped : p[1] \in trustletSessions => p[2] \in buffers[p[1]]

\* A session the TA exit handler has deleted keeps its buffers locked for ever
\* (it does not call freeSession()).
LeftBehind(h) == \E s \in Sids \ trustletSessions : h \in buffers[s]

\* A session whose NQ_CONNECT was served after it had lost its client is never
\* closed: its exit notification goes to that connection.
ConnectedTooLate(h) ==
  \E s \in trustletSessions \cap connected :
    deviceConnection[s] = NULL /\ h \in buffers[s]

\* Every lock of a buffer is a session's, or that of the command at work, or
\* one that a refused MAP has left (processMapBulkBuf() returns without an
\* unlock), and a session's buffer is locked exactly once.
LocksMatch ==
  \A h \in Handles :
    locks[h] = Cardinality({s \in Sids : h \in buffers[s]})
               + (IF job.at \in {"open", "find"} /\ job.handle = h THEN 1 ELSE 0)
               + (IF h \in refused THEN 1 ELSE 0)

\* mcUnmap() and mcCloseSession() return success only when the TA can no
\* longer reach the memory; for a GP session the close is a promise
\* (CloseDeferred), and nothing is.
GoneWhenTold ==
  \A c \in Clients :
    LET k == call[c] IN
    k.reply = "ok" =>
      /\ k.op = "unmap" => <<k.sid, k.handle>> \notin mapped
      /\ k.op = "close" /\ k.sid \notin GpSids =>
           \A h \in Handles : <<k.sid, h>> \notin mapped

Inv == TypeOK /\ LocksMatch /\ GoneWhenTold

\* When the clients have gone and the daemon has a connection of theirs to
\* drop, the kernel gets every page back: close() closes the sessions, free-
\* Session() unlocks their buffers and cleanupWsmL2() frees the orphaned ones.
\* Excepted are buffers a refused MAP or the TA exit handler has left locked,
\* those of a session connected too late, and a daemon that has seen the SWd
\* fail.  (A client that closes its device
\* first may leave the TCI of an open that failed, for a later cleanup.)
GivenBack ==
  \A h \in Handles :
    alive = {} /\ opened # {} ~> \/ h \notin tables
                                \/ h \in refused \/ LeftBehind(h)
                                \/ ConnectedTooLate(h)
                                \/ mcFault

=============================================================================
