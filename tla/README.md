# A verification of the MobiCore driver daemon and its client library

The repository holds the normal-world user space of the MobiCore/Trustonic
secure world (SWd): a daemon that opens sessions to Trusted Applications (TAs)
for other processes, the client library those processes link, the registry and
the file storage the daemon keeps, and RootPA, the agent that provisions
containers and TAs. This directory holds TLA+ modules of it, the TLC
configurations that check them, and theorems proved with TLAPS. Paths below are
relative to `src/MobiCoreDriverLib/` unless they say otherwise.

`PROJECT.json` lists the components, the runs, the lines each definition models
("map"), a mutation of the model for every property a run checks, the hazards,
and the theorems.

## 1. The system

### How the parts interact

```
 client process                    daemon                              SWd
 ClientLib ──socket──▶ Server ─▶ one Client thread per connection
   │                                   │ queue
   │                                   ▼
   │                     worker thread ── MobiCoreDriverDaemon::handleCommand
   │                                   │        │ mutex_mcp
 (kernel clients) ─netlink▶ NetlinkServer thread ┤
   │                                            ▼
   │                                   MobiCoreDevice ── MCP buffer ──▶ MCP server
   │                                     ▲    ▲    ── nqOut ─────────▶ scheduler
   │ NQ connection                       │    │    ◀─ nqIn ─────────── TAs
   ◀────────────── TrustletSession ◀── IRQ handler │
                                         └wakes─▶ TA exit handler thread
 kernel module (CMcKMod: registered, locked, mapped memory; SSIQ)
```

| Component | State it keeps | Operations | What is hard | What makes it correct |
|---|---|---|---|---|
| Trustlet sessions (`Daemon/Device/MobiCoreDevice.cpp`, `TrustletSession.cpp`) | the session list; of a session its device connection, NQ connection, state, queued notifications; the queue of unknown notifications | open, NQ connect, notify, close (one part, or two for a GP TA), close of a device with all its sessions, TA exit handler, routing in the IRQ handler | three kinds of threads on one list under two mutexes; notifications that arrive before their session; an exit that races the close; commands without an answer | both worlds agree on what is open; a notification reaches its session once; every orphan is cleaned up |
| MCP exchange and device threads (`MobiCoreDevice.cpp` 280-416, `TrustZoneDevice.cpp`, `DeviceIrqHandler.cpp`, `DeviceScheduler.cpp`, `TAExitHandler.cpp`, `Common/CSemaphore.cpp`) | one command buffer, one semaphore, `mcFault`, the threads and their exit flags | write a command, notify, wait with retries, test the answer; detect a dead thread; close the sessions of an earlier daemon | late answers, timeouts, a full queue, threads that die, a restart on live memory | the answer is one's own; an exchange fails only for a reason, and ends |
| Notification queue and scheduler (`NotificationQueue.cpp`, `TrustZoneDevice.cpp` 240-268, 566-607) | two rings with free-running counters, the SWd's scheduler flags | put, get, SSIQ, yield and time slices | a full ring, wrap-around, a pointer into a ring | no notification is lost but by a full ring |
| Socket server (`Daemon/Server/Server.cpp`, `Client.h`, `Queue.h`) | client list, work queue, per client: `dead`, `locked_`, `exiting`, its connection | accept, read, queue, serve, detach, reap, stop | handshakes of three threads over flags and conditions; deletion of objects other threads point to | no use after delete; each command once, in order; nobody waits for ever |
| Netlink server (`Daemon/Server/NetlinkServer.cpp`, `Common/NetlinkConnection.cpp`) | a map of connections by peer and sequence number | route a message, clean up dead peers, remove on destruction | a map without a lock used by several threads; who deletes a connection | a connection is deleted once and never found afterwards |
| Command dispatch (`Daemon/MobiCoreDriverDaemon.cpp`) | versions, the device, `reg_mutex`, driver sessions | one handler per command, start-up, token | early returns with something half done; clients that die while read from | each handler undoes what it began |
| Client memory (`ClientLib/ClientLib.cpp`, `Session.cpp`, `Device.cpp`; `processMapBulkBuf()` and its like) | buffer descriptors of a session, handles in the kernel, locks, mappings in the SWd | register, lock, MAP, UNMAP, unlock, unregister, cleanup | three parties with a record each of one buffer; failures between any two steps; a dying process | pages the SWd has mapped stay pinned; what is given up is released |
| Client library (`ClientLib/ClientLib.cpp`) | device list, session lists, last error of a session | the `mc*` calls | draining a notification socket with timeouts | a wait returns what was sent |
| Driver client and GP API (`ClientLib/driver_client.cpp`, `ClientLib/Contrib/tee_client_api.cpp`) | the list of GP sessions with their TCI; of a session its TCI, the lock of the TCI, `active`; the operations of the application | open, invoke, close, cancel; map and unmap of an operation's memory | threads that share a session; a cancellation beside the lock; a TA that ends in a call | an answer is the answer to this call; a mapping ends with its operation |
| Contexts, old MobiCore API, proxy (`ClientLib/Contrib/common_client.cpp`, `mc_client_api.cpp`, `proxy_*.cpp`) | a count of opens; proxied devices | calls passed on, requests over a socket | buffers copied or passed | a request gets its answer |
| Registry (`Registry/`) | files for the token and its backup, for root, SP and TA containers, for TA blobs | store, read, clean up | a failure or a crash between two calls on files; truncating stores | a container is listed once it is stored; a token is always there |
| File storage (`Daemon/FSD/FSD.cpp`) | one file per object of a TA, one request buffer shared with the storage driver | look, read, write, delete; the TA is uninstalled meanwhile | replacing a file through a second name, with a crash between any two calls | an object store that answers each request once |
| Provisioning engine (`rootpa/Code/Common/provisioningengine.c`) | link, relation, command and response, each a string with an owner | ask the service enabler, execute, send the result, callbacks | pointers that are the same; relations that repeat; errors at each step | each string is freed once; the client learns how it ended |
| Services of RootPA (`rootpa/Code/Android/.../service/`, `contentmanager.c`) | the lock, its timers, the session to the content management TA, the object that gets callbacks | lock, release, execute, version, provision, expire | one lock for three services, a timer for each, threads started for a caller that returns | one user of the session at a time; the lock comes back; the session is closed |

### Where it is hard

`PROJECT.json` "hazards" lists forty places with the line where each bites. The
kinds that matter most here are *interleavings* (the IRQ handler against
`openSession()`; the server thread that deletes a client against the worker
that unlocks it; a timer of one service under the lock of another), *late
answers* (`mshNotifyAndWait()` gives up after five waits, the SWd may still act;
a cancellation reaches the next operation), *partial failures* (a handler that
locks memory and returns early; a response stored with three commands of which
the second fails), *crashes* (between two calls on a file), and *liveness*
(loops that end only if a close succeeds). Four of the hazards have no
property; each carries a note that says why.

## 2. The modules

| Module | Models | Lines of code behind it |
|---|---|---|
| `DeviceSessions` | sessions and notifications under `mutex_mcp` | `MobiCoreDevice.cpp`, `TrustletSession.cpp`, `TrustZoneDevice.cpp` 611-760 |
| `McpExchange` | one exchange in detail, the semaphore, device threads, restart | `MobiCoreDevice.cpp` 280-416, 890-, `CSemaphore.cpp`, the device threads |
| `ClientServer` | socket server, client threads, worker | `Server.cpp`, `Client.h`, `Queue.h`, the daemon's start and NQ connect |
| `SharedBuffers` | a buffer from the library to the SWd and back | `ClientLib.cpp`, `Session.cpp`, `Device.cpp`, the daemon's memory handlers, `MobiCoreDevice.cpp` 419-861 |
| `GpClient` | the GP API: sessions, operations, cancellation | `tee_client_api.cpp`, `driver_client.cpp`, `mcNotify()` and `mcWaitNotification()` |
| `ObjectStore` | abstract: what the file storage daemon promises | `FSD.cpp` (what the requests are, `Daemon/FSD/public/drSecureStorage_Api.h`) |
| `FileStorage` | the file storage daemon, one system call at a time | `FSD.cpp`, `CleanupGPTAStorage()` of `PrivateRegistry.cpp` |
| `Registry` | token, containers and blobs as files; the commands that store them | `PrivateRegistry.cpp`, `Registry.cpp`, the registry handlers of the daemon, `pacmp3.c`, `commandhandler.c` |
| `Provisioning` | the loop of the provisioning engine and its strings | `provisioningengine.c`, `seclient.c`, `xmlmessagehandler.c` |
| `ServiceLock` | lock, timers, session and threads of RootPA's services | `BaseService.java` and its three services, `contentmanager.c` |
| `DeviceSessionsProofs`, `McpExchangeProofs`, `ClientServerProofs`, `SharedBuffersProofs`, `FileStorageProofs`, `RootPAProofs`, `GpClientProofs`, `RegistryProofs` | theorems (section 4) | |
| `MC*` | model values and the definitions the configurations use | |

The first four look at the daemon from four sides. Where two overlap, one has
the detail and the other the effect. `McpExchange` has the waits, retries and
semaphore; in `DeviceSessions` and `SharedBuffers` an exchange is "command put",
"SWd acts", "answer taken or given up", the second of which may come after the
third. `ClientServer` has the threads that lead to a handler; in the others a
dispatcher takes a command in one step. `DeviceSessions` has notifications and
the race of exit and close; `SharedBuffers` keeps of them that an exit wakes the
TA exit handler. `GpClient` is a user of the client library: the daemon's part
of its open, map and close is one step with its answer, detailed in
`SharedBuffers`. `Registry` composes both ends of a registry command, RootPA
and the daemon; `ServiceLock` stops where a command of it starts to store.

### DeviceSessions

A session object is identified by its id. `trustletSessions`,
`deviceConnection`, `notificationConnection`, `sessionState` and `queued` are
the fields of `TrustletSession`; `unknown` is the queue of unknown
notifications; `job[t]` says where thread `t` is in its handler and what it
holds in local variables. A handler is cut where it waits for the SWd
and where it changes what another thread reads without the same mutex:
`openSession()` is *open* (wait), *transfer* (the session is on the list, the
early notifications are not yet moved); `processNqConnect()` flushes under no
lock. A client sends `NQ_CONNECT` on a socket of its own, which the daemon serves as
another client: it may be handled at any time, also when the first connection is closed or
has been dropped and the session has lost its owner, of which `processNqConnect()` asks
nothing. `view[s]` is what the client has asked for (`"connecting"` from the request to its
answer). `close()` is a loop whose next session is chosen from the list each time,
as `getTrustletSession()` does. The SWd (`SwdOpens`, `SwdCloses`, `TaExits`,
`TaNotifies`) is external and modelled from the commands sent and the answers
the code distinguishes. With `MayFault`, a wait may end without an answer, sets
`mcFault` for good, and the command may still be executed afterwards.

### McpExchange

Each thread in `mshNotifyAndWait()` moves through *locking, writing, notifying,
testing, waiting, checking, reading*. `m_count` is the semaphore's counter,
which `CSemaphore::wait(timeout)` decrements whatever the outcome of
`pthread_cond_timedwait()` (a timed-out wait has to be undone by the code that
follows); `woken` is who was signalled. A dispatcher sends session commands
under the mutex or, as `loadToken()` does, a token without it; the handlers that
load one exclude each other by `reg_mutex` (`RegistryFree`). `irq`, `scheduler`
and the TA exit handler may end, and the joins of `terminate()` are steps that
wait. `mciReused` and `old` describe the MCI memory and the sessions a dead
daemon left; `CloseOld` is the loop of `start()` with its second try.

### ClientServer

`client[c]` is a `Client` object: the place of its thread, `dead`, `locked_`,
its private mutex and condition, `exiting`. `connection[c]` says who has to
delete the `Connection` (client, handler, session, or nobody). Steps of a thread
inside a mutex that nobody else can tell apart are one action; `unlock()` is two,
since `setExiting()` comes before it. A condition wait may wake spuriously.

### SharedBuffers

`call[c]` is the API call of a client process, which may die at any point of it;
`bulkBufferDescriptors` is the library's record, `buffers` the session object's,
`owner`/`locks`/`tables` the kernel's, `mapped` the SWd's. Handlers run under `mutex_mcp`,
except the look-ups and locks of `processMapBulkBuf()`, which are steps of their own.
`NqConnect` is one of these too: the client has asked for it (`OpenConnecting`), and the
daemon may serve it when the client is dead. The kernel keeps a table while the client has
it registered or the daemon has it locked; a dead client's tables stay until
`cleanupWsmL2()`.

### GpClient

The calls of an application are numbered; `call[t]` is the one thread `t` is in
and `pc[t]` its place, where *locked ... unlock* are those under `mutex_tci`.
`page` is the TCI: whose command it holds, `ready`, the cancel flag, the status
and its origin. `_TEEC_SetupOperation()` is *setup* (which waits nowhere, but
may fail), the notification *notify*, the wait *wait*, and
`_TEEC_UnwindOperation()` *unwind* with its early return. `started[i]` is the
field of the operation that `TEEC_RequestCancellation()` spins on; `cancel[i]`
follows that call through `DriverClient::gpRequestCancellation()`, which looks the
TCI up, marks it and notifies. `active`, `tci`, `listed` and `gp_session` are
the four places in which a session is known. An application opens the session
once, calls in it from any thread, and closes it when no call is under way, as
the GP specification asks of it. The TA is external: it takes a command,
answers it with a result or an error, looks at the cancel flag or not, and may
panic. The history variables are the lapses the properties except: `strays`
(calls whose cancellation came late), `kept` (memory an early return kept),
`refused` (the daemon refused to unmap or close).

### FileStorage and ObjectStore

`file[o]` and `new[o]` are the two names of an object, `dir` is its TA's directory. A
command is cut at each system call that changes the file system: `mkdir`, `open` with
`O_EXCL`, `open` of the new file, `write`, `rename`, the two `remove`s of the unwinding,
`rmdir`. Any of them may fail, and so may looking at or reading a file (`"io"`): the code
tells that as *not found* or *corrupt*. The uninstallation of the TA
(`CleanupGPTAStorage()`, another thread) lists and empties the directory meanwhile, and the
daemon may die between any two calls. `ObjectStore` has no steps within a write: an object
gets its content and the writer its success at once, and takes an object away only for a
request about it or for an uninstallation that has found it (`uninstalling`); what may fail
in it are the faults of the file system (`Faults <- Failures`). The refinement (`Store`)
reads a file as the object, takes the files still listed as those to uninstall, and a write
as failed when its file has been removed; an object created exclusively and still empty is
visible as such, in the abstract too, since another request can find it after a crash.

### Registry

`file[f]` is what a file says: for a container its children, for a `.spid` its
provider, or `EMPTY` (truncated), `TORN` (a short write), `GARBAGE` (a token
read from a pointer nobody filled), `NONE`. `storeFile`-like functions are
`Open` (which truncates) and `Fill`. A command is a list of tasks that the
worker takes one at a time (`job`), in any order where the code follows
`readdir()`. `client` is RootPA in `storeContainers()`-like functions: the
commands still to send, whether it goes on after a refusal, and what it does if
one fails; `Recovery` is the read-back of the token when a root could not be
stored. RootPA may die, or give up an answer that comes too late.

### Provisioning

A pointer is the block it points to, `Null` if none; a block is known by its kind, the
answer it came with and what it says. `heap` is what is allocated and the engine was
given. Each pass of the loop
is one action for its relation, with `EndOfRound` for the frees at its end, where
`used`, `pending` and the current pointers may be the same block. A request is one
step with all its attempts, which share a header: its outcome is the link and relation
that are held in the end, and `last.lost`, the strings overwritten before that
(`Overwritten`). `Undefined` is the step after which a
freed string has been used.

### ServiceLock

A synchronized method is one step, a timer's task is two that are not synchronized. `lock`
is `lock_`, `timer`, `sessionOpened` and `suid` belong to one service each, `handle` is
`handle_` of `contentmanager.c`, `live` the sessions open at the daemon, `obj` the global
that gets callbacks. Nothing protects `handle_`: a thread that opens the session
(`openCmtlSession`) tests it and closes the one it finds (`TestHandle`), clears it
(`Reclose`), opens a new one and sets it (`AssignHandle`); one that closes the session
(`closeCmtlSession`) clears it afterwards (`ClearHandle`); between these steps another thread
may do the same; `raced` records that two have been there at the same time. Clients execute
commands under a lock of their own, ask for a version (a lock for one call), and have
threads started that provision, install or unregister. `lapsed` records how a lock stopped
excluding: `timer` (it expired under its holder), `late` (the task of one service frees what
another has locked since), `no uid` (a uid of 0 passes `locked()`), `unregister`
(`unregisterRootContainer()` releases while its thread runs), and `unlock` (`releaseLock()`
frees the lock before it closes the session, and another has locked since).

## 3. What the runs check

| Run | Configuration | Instance | States |
|---|---|---|---|
| `sessions` | `Sessions.cfg` | 1 dispatcher, TA exit handler, 1 client, a GP and a non-GP session, 1 plain notification each, queues of 2, faults | 5.8 M |
| `sessions_live` | `SessionsLive.cfg` | the same, no plain notifications, no faults, fairness | 146 k |
| `mcp` | `Mcp.cfg` | 1 dispatcher with session commands and tokens, TA exit handler, main thread, 2 waits, queues of 1, 2 commands, 1 old session; timeouts, halt, the IRQ handler may die; fairness | 615 k |
| `server_objects` | `ServerObjects.cfg` | 2 clients, 1 command each, every command, every failure of the server | 2.0 M |
| `server_live` | `ServerLive.cfg` | one client connects a queue, one notifies; fairness | 165 k |
| `buffers` | `SharedBuffers.cfg` | 2 clients, a GP and a non-GP session, 2 addresses, 2 handles; the NQ connection may fail, or come late | 2.0 M |
| `buffers_fault` | `SharedBuffersFault.cfg` | 1 client, a GP session, 2 handles; the SWd may not answer; fairness | 178 k |
| `gp_client` | `GpClient.cfg` | 2 threads, 3 calls, 1 cancellation, 2 failures of 8 kinds, with and without a buffer; fairness | 1.05 M |
| `files` | `Files.cfg` | 2 objects, 2 contents, every failure any number of times, crashes; fairness | 469 k |
| `registry` | `Registry.cfg` | 2 service providers, 1 TA, 1 failure (refused call, short write, crash, late answer) at any step | 250 k |
| `provisioning` | `Provisioning.cfg` | every relation and request, 5 answers of the service enabler; fairness | 31 k |
| `service_lock` | `ServiceLock.cfg` | 2 clients, 3 services, 2 calls, 1 provisioning thread at a time with 1 round, 3 sessions; fairness | 459 k |

### The properties, and what holding them shows

Each `Inv` holds a component's type invariant and the safety properties that
belong to its state; what a run checks besides is listed by name.

*Sessions.* `WorldsAgree` (in `Inv`): without a fault the daemon's list and the SWd's
sessions differ only by the session of the exchange under way. `NotesConserved`: no
notification is delivered twice, and none is lost while its session has an owner and the TA
is not known to be dead. `UnknownIsOpening`: the notifications kept for an unknown session
belong to the session being opened, so that moving them without a look at their ids is
right. `OrphanHasCleaner`: no wake-up of the TA exit handler is lost in the race of exit and
close, but for a session connected too late (`ConnectedTooLate`, below).
`ForgottenOnlyWhenClosed`: no step, with late answers or none, takes a session off the list
that the SWd has not closed. `AssertHolds`: the `assert()` of the second close cannot fail
without a fault. `DroppedEventually`, `Reaped`: a client that has left, and its sessions but
for those connected too late, are cleaned up. `Inv` is the inductive invariant of the
proofs.

*Exchange.* `AnswerIsMine` (in `Inv`): no thread takes an answer to another's command, also
while a token is loaded without the mutex. `FailsForAReason` (in `Inv`): the semaphore and
the buffer never get out of step on their own. `NoLostCommand`: no command is overwritten
before its answer. `RestartCloses`: with what an earlier daemon left in the buffer and the
queues (at most one command or answer and one notification), its sessions are closed when
the new one serves; the second try in `start()` is needed for this, and its mutant shows it.
`Returns`: an exchange ends, unless it has ended up in joining device threads of which one
is dead.

*Server.* `NoUseAfterFree`, `OneOwner`, `ClosedBeforeFree` (in `Inv`): the lives of
`Client` and `Connection` objects across three threads. `HandledBeforeNext`: the
handshake of `locked_` and the condition gives each command one handling,
spurious wake-ups included. `Served`, `GoneIsDropped`, `ReapedOnAccept`,
`StopEnds`: no cyclic wait of `clients_mutex_`, the lock of NQ_CONNECT and the
joins.

*Memory.* `PinnedWhileMapped`: pages a TA can reach are never returned to the
kernel, whatever the client does and whenever it dies. (`include/Public/mc_linux.h`
205-213 gives this as the reason for the clean-up call.) `LocksMatch` (in `Inv`):
every lock of a buffer has one holder, or is one of the two leaks named below.
`GoneWhenTold` (in `Inv`): success of `mcUnmap()` and, for a non-GP session,
`mcCloseSession()` means that the TA has lost the memory. `DaemonKnows`: an
unanswered MAP or UNMAP leaves the buffer with the session. `GivenBack`: dead
clients' pages are freed, but for the leaks named below, of which one is a GP session
connected too late.

*GP client.* `AnswerIsMine` (in `Inv`): a call returns what the TA answered to
this call, never what the last one left in the TCI. `TciThere` (in `Inv`): the TCI is
used only where it is mapped, but for two lapses named below. `MemoryReturned` (in
`Inv`): an operation's memory is the TA's for the operation, but for the named
early returns. `CancelledByOwn`: a cancellation hits its own operation unless it
comes so late that the TCI belongs to the next. `CallsEnd`: when the application
makes no more calls, every call and cancellation returns.

*Files.* `StoresObjects`: the FSD implements `ObjectStore`, with every failure and
with a crash between any two system calls: a read gives what the last write left, or
*not found* or *corrupt* where reading fails; this is what the second name and the
`rename()` are for, and writing in place is its mutant. `OneRequest`, `Greeting`,
`InDirectory`, `Listing`, `Gone`, `Filled` (in `Inv`) are the strengthening the proof needs.
`Answered`: a request is answered unless the thread has ended; the mutant that
leaves out the answer on the unwinding path breaks it.

*Registry.* `TokenKept`: once a root has been registered no single failure leaves
the daemon without a token to start the SWd with: the order "store root, read
the token, move it away", the recovery, and the search order at start only
work together. `AddedChildStored`: a container lists a new child only when the
child is stored. `TreeWhole`: without a failure the tree that RootPA's commands and the
daemon's clean-up leave is whole. `OneCommand`, `BackupWhole` are in `Inv`.

*Provisioning.* `MemorySafe` (in `EngineInv`): whatever sequence of relations the service
enabler sends, no string is used or freed when it is gone, but for the relation *self*
(below). `AllReleased` (in `EngineInv`): at the end all that the engine was given are freed,
but for a named link, and only what `httpCommunicate()` had overwritten is left besides.
`ToldTheEnd`: the client learns one final state, and then that the thread ends. `Ends`: the
thread ends when it is asked for nothing more.

*Services.* `HeldIsTimed` (in `Inv`): a held lock always has a timer or a task that
will free it, although releasing and acquiring stop timers of one service and the
lock is everybody's. `OneSession` (in `Inv`): `handle_` is the one open
session but while it is being cleared (one that is being opened counts when `handle_` has it); a
second session, or a closed one in `handle_`,
takes two threads at `handle_` at the same time (`raced`). `Exclusive`: until the lock lapses
in a named way, one command runs at a time, nobody closes its session, and no two threads
meet at `handle_`. `SessionGivenBack`: at
rest `handle_` is NULL, unless a timer freed a lock that another's timer was running
for, or a failed command left its own session; a session that is open all the same has
been lost by threads that raced. `LockReturns`: the lock comes back even when its client has
ended.

### What the models record that is not as it should be

No run expects a violation: where the code departs from what it, or its
comments, mean, the model follows the code and the property names the exception,
so that all else still holds. The departures met while modelling:

*Daemon.*
- After a fault, `close()` of a client with a non-GP session never ends, with
  `mutex_mcp` held (`MobiCoreDevice.cpp:241`); `DroppedEventually` is therefore
  checked without faults.
- An `NQ_CONNECT` that is served after its session has lost its owner still gets the
  connection (`MobiCoreDriverDaemon.cpp:698`, `MobiCoreDevice.cpp:638`). The TA's exit is then
  forwarded to it and does not wake the TA exit handler, so that the session is never closed
  and the buffers of a GP session stay locked (`ConnectedTooLate`).
- A TA that ends while its session is being set up loses its earlier
  notifications (`MobiCoreDevice.cpp:533`); an exception in `NotesConserved`.
- `processMapBulkBuf()` locks the buffer first and returns from a failed look-up
  or MAP without an unlock (`refused`); `handleTaExit()` deletes a session without
  `freeSession()`, so that the buffers of a GP session which ended late stay
  locked (`LeftBehind`).
- `Server::start()` waits for a state nobody sets, so that the proxy server is
  opened only once the socket server has failed (`Server.cpp:270`).
- The connection of a refused `NQ_CONNECT` is deleted by nobody (owner "nobody").
- An exchange that finds a device thread dead joins the others with `mutex_mcp`
  held, which the TA exit handler may be waiting for (`MobiCoreDevice.cpp:384-392`).
- `loadToken()` uses the MCP buffer without `mutex_mcp`
  (`MobiCoreDriverDaemon.cpp:1506`); `TokenLoaded` is the exception it causes.
- A spurious wake-up of the semaphore's timed wait makes its count negative
  (`CSemaphore.cpp:79`); `"spurious"` is a failure of the module and in no run.
- `DriverClient::map()` of several buffers also unmaps the one whose map failed
  (`driver_client.cpp:324`); with one buffer, as modelled, this does not occur.

*GP client.*
- An invoke that has seen the session active before it gets `mutex_tci` uses
  `session->tci` after another call has broken the session and set it to NULL
  (`tee_client_api.cpp:772`).
- A late cancellation cancels the session's next operation
  (`driver_client.cpp:390`: "Will be reset by caller at next InvokeCommand", which
  may have happened).
- `_TEEC_UnwindOperation()` returns early when the answer is not the TA's, and leaves
  the operation's memory mapped (`tee_client_api.cpp:303`); the next use of the
  buffer is then refused.
- `TEEC_RequestCancellation()` spins for ever when its operation failed before it
  was started (`tee_client_api.cpp:947`; `NeverStarted`).
- When the daemon refuses a close, the driver client still knows the TCI's address
  (`driver_client.cpp:229`), and a late cancellation writes to memory that is unmapped.

*File storage.* When the FSD is not root, an object that a crash left between its
exclusive `open()` and its `rename()` has no permissions: it can be neither read,
deleted nor created again ("unreadable"). An object that cannot be opened or read is
*not found* for LOOK, and DELETE answers success without removing it (`FSD.cpp:395`,
`:403`, `:449`, `:617`); so does DELETE when `remove()` fails, as the outcome of `rmdir()`
overwrites its own.

*Registry.*
- With two failures `TokenKept` fails: `regReadAuthToken()` sets its pointer before
  it reads (`registry.c:45`), and the recovery stores what it points to
  (`pacmp3.c:412-418`).
- `fflush()` and `fclose()` are not looked at (`PrivateRegistry.cpp:486`): with a disk
  that fills between `fwrite()` and `fclose()` (the failure "unnoticed", in no run)
  `AddedChildStored` fails.
- After a refused rename of the token the root is cleaned up, but the command
  succeeds. The clean-up of a container that is too short answers OK and does
  nothing; one that was interrupted cannot be repeated, since the parent is gone. An
  empty root file counts as a factory reset.

*Provisioning.*
- The relation *self* frees the request it is to repeat and uses it
  (`provisioningengine.c:302-304` and `:462-464`, against the comments at `:441` and
  `:459`).
- The client's request to install is lost when the device has been reset and the
  recovery goes first (`:468`), and the pending link leaks when the recovery is cut short.
- A missing response reports an error and then *finished*.
- The attempts of `httpCommunicate()` share `headerChunk` (`seclient.c:762-780`): `copyHeader()`
  (`:319`) overwrites the link and relation of an attempt that broke off, which leak
  (`last.lost`); a relation the next header does not name is taken over from the broken attempt.

*Services.*
- The timeout is 300 s, its description in the AIDL file says 60 s. A uid of 0 passes
  `locked()`. `unregisterRootContainer()` releases the lock while its thread, or a later
  call, still runs. `DeveloperService` does not release after an error; its timer does.
- The task of one service's timer may free what another service has locked since.
- `obj_` is global: the thread started last gets the callbacks of all.
- `releaseLock()` frees the lock before it closes the session (`BaseService.java:136-143`),
  so that another client may begin a command with it in between (`unlock`); no timer is needed.
- `handle_` is tested, set and cleared without a lock (`contentmanager.c:46-75`, `:89-97`,
  `:149-152`). Once the lock has lapsed two threads may both open a session, of which one is
  never closed, and a command may use the name of a closed one (`raced`).
- `getSuid()` in `provision()` may leave its own session open when it fails (`left`).

### Bounds, and why they are enough

- *One dispatcher in the runs of `DeviceSessions`.* Handlers hold `mutex_mcp`
  from end to end but for the flush of `processNqConnect()`; a second dispatcher
  adds waiting only. The proofs have any number.
- *Two sessions, one of each kind.* Actions concern one session; two kinds, and a
  second session to be confused with the first, are what routing and the loop
  of `close()` can get wrong.
- *Notifications.* One plain one and the exit of each TA, with queues of
  two: early, queued, flushed and late ones occur together. A
  full queue is the business of `McpExchange` (`NqSize = 1`).
- *One dispatcher in `mcp`*: it, the TA exit handler and the main thread are three
  users of one buffer, of which two can meet at any time. The proofs have any number
  of dispatchers.
- *Two waits (`Retries`) instead of five*: first, and last. `MaxCommands = 2`
  gives a late answer a command to meet.
- *Two clients in `ClientServer`, one command each*: one being deleted or
  stopped while the other is served; a client takes part in the loop again
  for the end of its connection after its command.
- *Two handles and two addresses in `SharedBuffers`*: a TCI and a buffer, or two
  buffers that a call can mix up. In `buffers` the two clients are
  interchangeable, and so are the addresses (symmetry); nothing of the
  specification or its invariants tells them apart.
- *Two threads and three calls in `GpClient`*: an open and two invokes, or an open, an
  invoke and a close: a call that breaks the session, one that had seen it whole,
  and the next. One cancellation can be for either, and come at any time of the
  other. Two failures, so that one can leave what the next meets. All lapses named
  above occur within the bounds.
- *Two objects and contents in `FileStorage`*: one the request is about and one it
  must not touch; an old and a new content. Failures and crashes are unbounded.
- *One failure in `Registry`*: the code's recovery is for one; two break `TokenKept`, as
  said above. Two providers, so that a clean-up can take the wrong one; they are
  interchangeable.
- *Five answers in `Provisioning`*: the engine remembers the pointers of the last
  request and the pending one, so that three rounds show each way two of them can be the
  same.
- *Two calls in `ServiceLock`*, and three services: the second call meets a timer, a session
  or a thread of the first, of the same service or of another. `MaxThreads = 1`: one
  provisioning thread at a time, so that it, and a client's command, are the two that can
  meet at `handle_`. Three sessions are one more than can be in use. The proofs have any
  number of calls, threads and clients.

`CHECK_DEADLOCK FALSE` is set for `McpExchange`, `ClientServer`, `Provisioning`,
`ServiceLock` and `GpClient`, whose bounded commands and calls, killed process and
stopped server end a behaviour. Elsewhere a deadlock is reported; where
everybody may have left, a step `Rest` stands for the system at rest.

### Fairness

Threads are scheduled: weak fairness for each thread that can go on. A thread
that waits for a mutex others take again and again gets it (strong fairness for
the TA exit handler's lock): it competes with handlers that each need a
round trip to another process. The worker's queue is first come, first served
(`Queue.h`), so a client that has ended is dropped although others keep sending:
strong fairness for `DropConnection`. The SWd answers a command and ends a TA
it has told to end; this is dropped wherever a run has faults, halts or
timeouts. A peer that is gone reads as end of file. Nothing is assumed of
clients: they may stop, leave, or never send anything.

In `GpClient` the threads in a call and the cancellations run, and a TA that is alive takes
what it was sent and answers (the driver's notification arrives, a session waits without a
timeout); `CallsEnd` says nothing of an application that has crashed in one of the two
lapses of `TciThere`. In `FileStorage` the FSD's thread runs and the driver takes what it is
sent; it need not ask. In `Provisioning` the thread runs and each request ends (it has a
timeout in libcurl). In `ServiceLock` started threads and binder calls run, also while they
are at `handle_`, and a timer that is set expires; that the clients stop renewing their lock
is the bound `MaxCalls`, which `LockReturns` presumes.

## 4. What is proved

The theorems hold for any sets of clients, sessions, objects and so on, and any
bounds. What is assumed of the constants is named (`ConstantsAssumption`,
`FailuresAssumption`, `UidsAssumption`, ...) in the module that declares them: the names
of kinds are distinct, each connection is served by one dispatcher, an application's
uid differs from the random ones, and clients are finitely many.

| Theorem | Module | Statement |
|---|---|---|
| `TypeCorrect` | `DeviceSessionsProofs` | `Spec => []TypeOK` |
| `Invariance` | `DeviceSessionsProofs` | `Spec => []Inv` |
| `Forgotten` | `DeviceSessionsProofs` | `Spec => ForgottenOnlyWhenClosed` |
| `UnknownIsItsOwn` | `DeviceSessionsProofs` | `Spec => []UnknownIsOpening` |
| `OrphansAreClosed` | `DeviceSessionsProofs` | `Spec => []OrphanHasCleaner` |
| `NotificationsConserved` | `DeviceSessionsProofs` | `Spec => []NotesConserved` |
| `AssertFailsByFault` | `DeviceSessionsProofs` | `Spec => [](mcFault \/ AssertHolds)` |
| `AssertNeverFails` | `DeviceSessionsProofs` | `~MayFault => (Spec => []AssertHolds)` |
| `McpExchangeInvariant` | `McpExchangeProofs` | `"spurious" \notin Failures => (Spec => []Inv)` |
| `AnswersAreMine` | `McpExchangeProofs` | `Spec => []AnswerIsMine` |
| `RestartClosesAll` | `McpExchangeProofs` | `"spurious" \notin Failures => (Spec => []RestartCloses)` |
| `NoCommandLost` | `McpExchangeProofs` | `"spurious" \notin Failures => (Spec => NoLostCommand)` |
| `ServerInvariant` | `ClientServerProofs` | `Spec => []Inv` |
| `AnsweredInTurn` | `ClientServerProofs` | `Spec => []HandledBeforeNext` |
| `SharedBuffersInvariant` | `SharedBuffersProofs` | `Spec => []Inv` |
| `PinnedAlways` | `SharedBuffersProofs` | `Spec => []PinnedWhileMapped` |
| `DaemonKnowsAlways` | `SharedBuffersProofs` | `Spec => []DaemonKnows` |
| `FileStorageInvariant` | `FileStorageProofs` | `Spec => []Inv` |
| `FilesStoreObjects` | `FileStorageProofs` | `Spec => StoresObjects`: `FileStorage` implements `ObjectStore` |
| `ServiceLockInvariant` | `RootPAProofs` | `Spec => []Inv` |
| `CommandsExclude` | `RootPAProofs` | `Spec => []Exclusive` |
| `SessionIsGivenBack` | `RootPAProofs` | `Spec => []SessionGivenBack` |
| `EngineInvariant` | `RootPAProofs` | `EngineSpec => []EngineIInv` |
| `StringsFreedOnce` | `RootPAProofs` | `EngineSpec => []EngineInv` |
| `ClientLearnsTheEnd` | `RootPAProofs` | `EngineSpec => []ToldTheEnd` |
| `RegistryInvariant` | `RegistryProofs` | `Spec => []Inv` |
| `TokenSurvivesOneFailure` | `RegistryProofs` | `Spec => [](failed <= 1 => TokenKept)` |
| `TokenIsKept` | `RegistryProofs` | `MaxFailures <= 1 => (Spec => []TokenKept)` |
| `AddedChildrenAreStored` | `RegistryProofs` | `"unnoticed" \notin Failures => (Spec => AddedChildStored)` |
| `TreeIsWhole` | `RegistryProofs` | `Spec => []TreeWhole` |
| `GpClientInvariant` | `GpClientProofs` | `Spec => []Inv` |
| `CancellationsHit` | `GpClientProofs` | `Spec => []CancelledByOwn` |

### Sessions

`WorldsAgree`, the part of `Inv` that matters to a user, is not inductive: that
`freeSession()` may remove a session when the answer says "ok" needs to know that the answer
in the buffer is the answer to *this* close. `Inv` therefore also has

- `MutexHeld`: a thread holds `mutex_mcp` exactly at the places of `HoldingPcs`,
  from which it follows that one thread at most is in an exchange
  (`OneExchange`);
- `OneAnswer`: without a fault a command has exactly one trace (on its way to
  the SWd, on its way back, or in the semaphore), so that a wait cannot be ended
  by the trace of an earlier command;
- `Answers`: what the buffer holds, by the exchange that is under way.

`OneAnswer` and `Answers` say nothing after a fault, where answers may be late;
there `ForgottenOnlyWhenClosed` holds because `closeSessionInternal()` looks at
the answer in the buffer and a fault refuses further commands. The step is
proved action by action (`TypeStep`, then one lemma for what an action does to
`Core`); the lemmas on `McpAt` say where MCP notifications are in a queue
after an append or a take.

`UnknownIsOpening`, `OrphanHasCleaner` and `AssertHolds` need `IInv`, which adds three parts
to `Inv`. They say little after a fault, where the properties say nothing.

- `Notes`: where notifications are. Only sessions the SWd has issued have any; those of a
  session it has closed come before the answer to that close in every queue
  (`ClosedNotes`), so that by the end of the exchange they have been routed; and what is
  kept as unknown is of the session being opened (`UnknownIsOpening`).
- `Owners`: a dispatcher works for the clients it serves (`Served`); what is not listed yet its
  client has not seen (`Unseen`); and of a listed session one knows the owner (`OwnersOpen`): a
  client that has asked for the session (`Asks`) opened it, and owns it unless nobody does; only
  a GP session loses its owner and stays; and one that is being closed is not connected.
- `Cleaned`: who closes an orphan. A close that was deferred has asked the TA to
  end, which then runs, has its exit noted somewhere, or is known to be dead (`EndsAsked`); one
  known to be dead has ended (`DeadEnded`), so the second close, which concerns such a
  session (`AgainCloses`), is not refused and the `assert()` holds; a dead orphan without a
  notification connection (`Lonely`) has the exit handler awake, or the thread that is going to
  wake it (`OrphansTended`). A late `NQ_CONNECT` may make an orphan cease to be lonely at any
  time, and none becomes lonely again.

`IInv` has been model-checked on the instance of `sessions` (5.8 M states), with
`AllCounted` below.

`NotesConserved` counts. `NotesFor` is the number of positions of a queue that hold a
notification of the session, the cardinality of a finite set, and what an append or a take
does to it is shown with a bijection of positions (`NotesAppend`, `NotesTail`). `Counted`
says, without a fault, that the SWd's session has sent what has been received or is on its
way (`Conserved`), also for a session that is not listed yet, whose notifications may be
among the unknown ones; that one not listed has received nothing (`Fresh`); and that a
session which waits for its TA to end has no owner (`Kept`). One lemma for each place where
notifications change hands (`CountedOfSwd`, `CountedOfIrq`, `CountedOfTransfer`,
`CountedOfFlush`, ...) shows that a step takes from one queue what it puts into the next.
Which session the unknown ones belong to is `Notes` of `IInv`, that a session is forgotten
only when closed is `Forgotten`.

### Exchange

Two arguments, on one step-by-step proof. *Whose answer.* The buffer holds the command of
its last writer. Those in an exchange are the holder of `mutex_mcp`, `start()` before
anybody is served, and one loader of a token (`Role`, `OneLoader`, `Overlap`); so a response
with the right id is to the reader's own command (`Mine`). This needs `reg_mutex`: with two
loaders at once it would be false. It needs nothing of the semaphore, and `AnswersAreMine`
has no hypothesis. *Whose signal.* `InStep` counts the traces of a command: while nothing
has failed and no token has been loaded (`Well`), there is exactly one of its notification,
that of the answer and the semaphore's count from the notification to the end of the wait,
and none outside of an exchange. An IRQ handler that fails adds a trace, but whoever is
woken by it finds the handler dead before it reads. In `start()` (`Attempt`) there may be
one trace too many; the first try may then read too early, but its own notification is still
on its way, and the second try can consume a signal only after the SWd has closed the
session. Both counts need a wait that ends only when it is signalled: after a spurious
wake-up `CSemaphore::wait()` decrements a count of 0 (`CSemaphore.cpp:79`) and the reader
comes before the answer. POSIX allows this, the theorems therefore name the hypothesis
`"spurious" \notin Failures`. `IInv` has been model-checked with two dispatchers that both
load tokens, two old sessions, timeouts and the death of either thread (2.0 M states), the
part without the hypothesis also with spurious wake-ups.

### Socket server

Which thread owns a `Client` is spread over its place in the lists and its flags. The
inductive invariant joins, for each client, its handshake with the worker (`Handshake`: the
client's mutex, its place in the queue and the worker's place agree; `Owes`: at most the one
command that has been read and not handled), and its end (`Dying`: a dead client reads no
more, and the worker marks only dead ones; `Detached`: a detached connection has a client
that is dead or about to find out; `Closed`: an open device is on a connection the client
still has; `Lifetime`: a client is in the list from its start until it is joined; `Owned`:
who deletes the connection). `NoUseAfterFree` needs all of them, since the worker, the
server thread and the client's own thread use the object at different times. Every action
concerns one client, so each conjunct has the client as its parameter, and the lemmas show
what an action does to that client and that it leaves the others alone. `IInv` has been
model-checked on the instance of `server_objects`.

### Shared memory

The proof follows the handle of a buffer, which is issued once: from the call (`Caller`) to
the job at its command (`Serving`) or the `NQ_CONNECT` that runs beside it, to the MCP
buffer (`Current`, `Command`), to the session and to the SWd (`Mappings`). `Locked` says
what a lock is for: the session that knows the buffer, the job that is using it, or a
refused MAP, and never two of them. Then `DaemonKnows` holds because a MAP is known to the
session from before the command until after an UNMAP the SWd has confirmed, and
`PinnedWhileMapped` because what is known is locked and what is locked stays in the kernel's
table. What a client may have been told (`Told`) is part of the induction: the handle of an
unmap that has succeeded may not be mapped by a command that is still in the buffer. After a
fault `Current` says nothing, and the SWd may act on a command the daemon has given up; the
rest holds all the same. That each lock is exactly the number of its holders (`LocksMatch`)
is about cardinalities: the sets have one element at most. `IInv` has been model-checked on
the instance of `buffers`.

### File storage

`Inv` is inductive in five layers, each a lemma that uses those before it: types
(`TypeInvariant`), the ownership of the buffer (`BufferInvariant`), that entries exist only
in a directory (`DirectoryInvariant`), that a file which DELETE leaves could not be removed
and only a running uninstallation lists files (`RemovalInvariant`), and that a file about to
be renamed is whole (`FilledInvariant`), which needs the second: the uninstalling thread may
remove the new file, but nobody else writes one. With it each action maps to a step of
`ObjectStore` or a stutter (`ServesAsStore` for the FSD's): `Rename` is the abstract
`Write`; the removal of the old file in an unwinding is `WriteFails`, that of a listed one
`Uninstall`; `CrashRestart` is `Crash`. `Failures` is any set of failures, so that the
theorem says of a file system that reads what it has that no object is ever not found.

### Registry

Both ends of a command are proved about: the jobs of the daemon, of which only the last is
waited for, and RootPA, whose commands left to send are one of eleven scripts (`Scripts`).
`Stepped` splits a step in the two ends' own terms: RootPA turns to a list of commands
(`Beginning`, `GoingOn`), or the daemon does the first task of a job (`Executes`), which
changes at most one file but for the rename of the token (`FileStep`) and ends the job or
goes on with it (`JobStep`). `IInv` has four parts.

- `Typed`: tasks store what fits their file; a job's later tasks are removals, or the
  `.spid` file of a blob; which script RootPA is in and how many given up commands may be
  behind it; and who waits for which job (`Flow`). `Inv` needs of the rest only that a
  backup is a token.
- `Token`: a command that deletes the token is alone, and while one is about to be sent or
  executed `Auth` holds a token and nothing is going to store another (`RenameOnce`): so the
  rename makes a token the backup. What is no token can be stored only by the recovery that
  follows two failures, one of the read and one of the delete (`NoGarbage`, which counts
  them, since the second may be that the daemon has died and not yet been started).
- `Children`: what a command stores in a container is listed there already, or is stored
  (`Linked`). RootPA computes it before it sends the first of two commands, so `LinksNext`
  says what becomes of it in between: nobody else changes the parent, and when the first
  command is answered "ok" the child is in its file. A write cut short without notice breaks
  just this, therefore the hypothesis of `AddedChildrenAreStored`.
- `Tree`: what holds as long as nothing has failed (`Grown`). `TreeHolds` says which part of the
  tree is stored in between: all of it, but for a Trustlet whose container is being written or
  which its provider will soon cease to list (`Missing`), and for a provider that the daemon
  or RootPA is about to strike off, or whose list is being replaced (`Changing`). What makes
  that inductive: each task of a clean-up finds what it needs (`Ready`), since no two
  tasks are about the same file (`Apart`); only what will not be listed any more is removed
  (`Removals`); the children of what is being stored are there (`StoresWhole`); a `.spid` file
  goes with, or before, the container of its Trustlet, and has its blob till it is discarded
  (`BlobStores`, `BlobsKept`, `Discards`); and the list that RootPA computed before
  the first of two commands is still right when it sends the second (`SendsNext`). There
  is a lemma for each task (`TreeOpens`, ..., `TreeDiscards`) and for each kind of command
  RootPA sends (`TreeSendsStore`, `TreeSendsBlob`, `TreeSendsTask`).

`TokenKept` is false after two failures (section 3); `TokenSurvivesOneFailure` says it of every
state before the second, however many are possible. `IInv` has been model-checked
on the instance of `registry` (250 k states), with three failures and one provider (465 k),
and with unnoticed short writes (262 k); and `Tree` with two providers and two Trusted
Applications and no failure (649 k).

### Services

`Inv` is proved in three layers. `HandleInv` is about `handle_` alone: while no two threads
have met there (`OneAtHandle`), it is the one open session (`OneSession`), and a thread
about to set it finds NULL (`AssignsNull`). `LockTimed` is about the lock: only a service
that frees the lock cancels its timer, and the task of a timer that has expired frees the
lock next, whoever holds it by then; a synchronized method has one thread (`OneInside`), so
while one releases the lock, one that is held has another's timer. `Placed` says where
threads are: a thread that is in a command is at a place that has one, and the services have
one thread each.

The exclusion (`Exclusive`) needs more. `Excluding` says, while nothing has lapsed (`Excl`),
that a thread at work needs a uid of its own (`Needs`), which has the lock (`NeedsHeld`), so
that one works at a time (`OneWorks`) and a release has freed the lock before
(`ReleasesFree`); that the lock of a provisioning is known to its service (`Known`) and gets
the callbacks (`Called`); that a command has its session (`SessionOpen`); that no task of a
timer is at the session (`NotExpired`); and, which follows from one at work, that nobody has
raced. That the first to break this is one of the five named lapses, and no other, is what
the lemma for each group of actions shows. TLC has two calls; the proof has no bound. That
matters: `unregisterRootContainer()` can release the lock of a *later* call, for which it
takes three.

`SessionGivenBack` follows from who *will* close what `handle_` names (`Closer`): the lock
of a client, which is the provisioning's and has a timer or its task (`LockCloses`, with
`ClientLock`); a release under way (`ReleaseCloses`); a thread that works (`ThreadCloses`);
or a command that opened the session itself (`CommandCloses`). A step that takes the last of
them away has closed the session, but for the late task of a timer and a command that fails
and leaves its own (`FailsLeft`); these are the property's exceptions (`Closed`). Neither a
missing uid nor `unregisterRootContainer()` leaves `handle_` set. All these have been
model-checked on the instance of `service_lock`.

### Provisioning engine

`RootPAProofs` holds the proofs of both models of RootPA; the engine's definitions have
names of their own (`EngineSpec`, `EngineInv`), so that one module can extend both. The
strings are a question of ownership: `EndOfRound` frees a list of pointers, and this is
right if they are on the heap, hold all that is on it, and no two hold the same block, or
the code knows which. `CanEnd` says so of a round, and three lemmas say what the end of one
leaves: the work is over (`RoundStops`), goes on (`RoundGoesOn`), or is to be repeated
(`RoundKeeps`). `Strings`, the inductive invariant, makes each round one that can end.

- `HeapHeld`: every block that the engine was given is held by a pointer, and what a pointer
  holds is not younger than the last answer. What the next answer brings is younger, so it
  is not what the round has used (`Renewed`).
- `UsedKept`: the used pointers outlive a round only if a repetition has been asked for, and
  what they hold then is not the relation *self* itself.
- `PointersGood`: all pointers are good, unless the SE has last asked for a repetition
  (`last`) and *self* is no longer the relation: the repetition has then begun, and has
  freed what it made current.
- `Waiting`, `PostedFirst`, `Phases`: the link that waits is in no other pointer; something is
  posted first only with the first relation; and what is freed by when.
- `AnswersBound` counts the answers, since `MaxAnswers` bounds what the SE may ask for.

`Telling` relates what the client has been told to where the thread is: without a relation
the SE asked for nothing more, or the last word was an error. `EngineIInv` has been
model-checked on the instance of `provisioning`. The theorems say nothing of what happens
after `Undefined`, the step at which the engine uses a string it has freed (section 3):
there the model stops. What the attempts of a request have overwritten was never the
engine's (`Outcomes`); the theorem names it.

### GP client

That a call returns the TA's answer to it (`AnswerIsMine`) follows from what the TCI holds
while a thread is in the exchange. `Exchanges` says it place by place: at the wait either
nothing is answered and the TA works on this call or not yet (`Unanswered`), or the answer in
the TCI is to it (`Answered`). For the next call to begin with a TCI of which this is true,
nothing may be on its way whenever nobody has `mutex_tci` (`Rested`, `AtRest`): an
answer that ends a session comes with a second notification, the one of the TA's
exit, and what `Unlock` needs is that such a call does not unlock a session that stays open
(`Ending`). `Marks` does the same for cancellations: a mark is that of the operation in the
TCI, or its number is in `strays`. The rest places the threads: each has a call of its own
(`Numbered`), holds the mutex where it must (`Holds`), and is alone while it opens or closes
(`Alone`). `Access` and `Crashes` give `TciThere`, `Memory` gives `MemoryReturned`. `IInv`, the
conjunction, has also been model-checked on the instance of `gp_client`. Each part has a
lemma (`NumberedKept`, ..., `ExchangingKept`) with a step for each action that can disturb it.

### Only model-checked, and why

- All liveness properties: fairness and ENABLED are out of the prover's reach.

## 5. What is not modelled

- *Failure of memory allocation and thread creation*, except where the code has
  an error path that changes state.
- *Partial reads and writes of sockets*: a message is read or not. That a client
  which ends inside the payload of `OPEN_TRUSTLET` keeps the worker in a loop
  (`MobiCoreDriverDaemon.cpp:603`) is a hazard without a property.
- *Wrap-around of counters*: sequence numbers and ring counters run 32 bits; and the
  slot of the ring that is read after the lock (`NotificationQueue.cpp:71`).
- *`schedule()`* and the time slices it grants, the set-up of the MCI memory.
- *`mcMallocWsm()`* and the WSM a TA's binary is loaded from (registered and
  unregistered around one open).
- *Finite timeouts of `mcWaitNotification()`*, several buffers in one operation, value
  parameters, several sessions of an application: `mcNotify()` and its like use a
  device's connection without a lock, and `setInvalid()` only marks the device
  (`CHECK_DEVICE` checks for NULL).
- *Contexts of the GP API.* `CommonClient` counts opens; a daemon that has died resets the
  count, and the close of an old context may then close the new device. Shared memory of the GP
  API keeps no state of the library.
- *Power loss*: in `Registry` and `FileStorage` a process dies, what it wrote stays.
- *The bodies in the attempts of `httpCommunicate()`*: a second attempt appends to what the
  failed one had received (`seclient.c:290`), and does not rewind a PUT (`:262`). The
  strings its header leaves are modelled.
- *Concurrent binder calls of one client.* In `ServiceLock` the test of `handle_` by a
  command and its read of the name are one step, and what a command does with a channel that
  another thread has freed is not followed.
- *The notifications of sessions an earlier daemon left* (`TrustZoneDevice.cpp:729-732`) are in
  `McpExchange`; `DeviceSessions` begins with an MCI nobody has used.
- *Data objects and the old Trustlet binaries* of the registry, and the reads of
  `openSession()` beside a store.
- *The netlink server.* It is a second transport for the same commands; what is
  hard in it, a `std::map` two threads change without a lock
  (`NetlinkServer.cpp:228`), is undefined behaviour, of which a model could only
  say that it occurs.
- *The proxy*, its generated protocol buffers, the old MobiCore API, parcelable classes and
  intents: a request and its answer, converted.
- *Contents* of messages, containers, TA binaries, and XML. Headers of constants,
  makefiles and the wrappers of the kernel module keep no state. The kernel module and the
  SWd are external: neither is part of the repository.

The map of `PROJECT.json` covers about 5,800 lines. Of the rest a fifth is generated
(`mc.pb.*`), and much is headers, error handling without state, packing of messages, and XML.

## 6. What is left

- *Refinements.* `McpExchange` to the three-step exchange of `DeviceSessions`;
  `SharedBuffers` to a specification of the ownership of pages.
- *Models.* The ring of notifications with counters modulo 2^w; contexts of the GP
  API with a daemon that is restarted; the proxy.

## Running

    tlc -workers 2 -config Sessions.cfg MCDeviceSessions
    tlapm DeviceSessionsProofs.tla

Every other run is its configuration with the module `PROJECT.json` names for
it. The largest runs take two to three minutes.
