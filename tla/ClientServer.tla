---------------------------- MODULE ClientServer ----------------------------
(***************************************************************************)
(* The socket server of the daemon: Server.cpp, Client.h, Queue.h and the  *)
(* part of MobiCoreDriverDaemon.cpp that starts it and takes a connection  *)
(* from it.  Four kinds of threads meet here:                              *)
(*                                                                         *)
(*   - the main thread, which starts the server and waits for it;          *)
(*   - the server thread, which accepts connections, makes a Client object *)
(*     with a thread of its own for each, and after every accept deletes   *)
(*     the clients that are done;                                          *)
(*   - the client threads, which read commands, send notifications on      *)
(*     their own, and queue for everything else;                           *)
(*   - the worker, which takes the clients from the queue one at a time.   *)
(*                                                                         *)
(* What a handler does to sessions is the subject of DeviceSessions; here  *)
(* a handler is the locks it takes and what it does to the connection.     *)
(* Steps inside one mutex that no other thread can tell apart are one      *)
(* action; a pthread condition may wake spuriously.                        *)
(***************************************************************************)
EXTENDS Integers, Sequences, FiniteSets

CONSTANTS
  Clients,       \* Client objects, one for every connection ever accepted
  NULL,
  MaxCommands,   \* bound: commands a peer sends on a connection
  Sent,          \* bound: the commands a peer uses
  Failures       \* what may fail: calls of the server, the secure world

Commands == {"OPEN_DEVICE", "CLOSE_DEVICE", "NQ_CONNECT", "NOTIFY", "OTHER"}
Faults == {"listen", "select", "accept", "mci"}

ASSUME ConstantsAssumption ==
  /\ NULL \notin Clients
  /\ MaxCommands \in Nat
  /\ Sent \in [Clients -> SUBSET Commands]
  /\ Failures \subseteq Faults

VARIABLES
  peer,          \* the process at the other end of a connection
  client,        \* the Client objects
  freed,         \* Client objects that have been deleted
  connection,    \* who has to delete the Connection object of a client
  device,        \* connections whose connectionData is the device
  reads,         \* commands read from a connection
  handled,       \* commands handled for a connection
  queue,         \* Private::queue
  worker,        \* Private::run
  clients,       \* Private::clients
  clients_mutex_,
  siq_mutex,     \* the static lock of NQ_CONNECT and NOTIFY in handleCommand
  server,        \* Server::run
  server_state,
  daemon,        \* MobiCoreDriverDaemon::run from the start of the server on
  mcFault

peerVars   == <<peer, reads, handled, mcFault>>
objectVars == <<freed, connection, device>>
serverVars == <<clients, server, server_state, daemon>>
workVars   == <<queue, worker, siq_mutex>>
vars == <<peer, client, freed, connection, device, reads, handled, queue,
          worker, clients, clients_mutex_, siq_mutex, server, server_state,
          daemon, mcFault>>

Init ==
  /\ peer = [c \in Clients |-> "absent"]
  /\ client = [c \in Clients |->
                 [thread |-> "none", command_id |-> "OTHER", dead |-> FALSE,
                  locked |-> FALSE, connected |-> TRUE, mutex |-> "free",
                  signalled |-> FALSE, exiting |-> FALSE]]
  /\ freed = {}
  /\ connection = [c \in Clients |-> "none"]
  /\ device = {}
  /\ reads = [c \in Clients |-> 0]
  /\ handled = [c \in Clients |-> 0]
  /\ queue = <<>>
  /\ worker = [at |-> "none", client |-> NULL]
  /\ clients = <<>>
  /\ clients_mutex_ = "free"
  /\ siq_mutex = "free"
  /\ server = [at |-> "none", client |-> NULL, it |-> 1]
  /\ server_state = "STOPPED"
  /\ daemon = "init"
  /\ mcFault = FALSE

-----------------------------------------------------------------------------
(* The other processes: a peer connects, and it ends.                      *)

Connect(c) ==
  /\ peer[c] = "absent"
  /\ peer' = [peer EXCEPT ![c] = "here"]
  /\ UNCHANGED <<client, objectVars, reads, handled, workVars, clients_mutex_,
                 serverVars, mcFault>>

Leave(c) ==
  /\ peer[c] = "here"
  /\ peer' = [peer EXCEPT ![c] = "gone"]
  /\ UNCHANGED <<client, objectVars, reads, handled, workVars, clients_mutex_,
                 serverVars, mcFault>>

(* The secure world stops answering (DeviceSessions tells when).           *)
Fault ==
  /\ "mci" \in Failures /\ ~mcFault
  /\ mcFault' = TRUE
  /\ UNCHANGED <<peer, client, objectVars, reads, handled, workVars,
                 clients_mutex_, serverVars>>

-----------------------------------------------------------------------------
(* Client::run                                                             *)

(* Nothing to read from, or readCommand() refuses before it reads.         *)
TurnsAway(c) == ~client[c].connected \/ mcFault

TestDead(c) ==
  /\ client[c].thread = "loop"
  /\ client' = [client EXCEPT
       ![c].thread = CASE client[c].dead -> "ended"
                       [] ~client[c].dead /\ TurnsAway(c) -> "queueing"
                       [] OTHER -> "reading",
       ![c].dead = client[c].dead \/ TurnsAway(c)]
  /\ UNCHANGED <<peerVars, objectVars, workVars, clients_mutex_, serverVars>>

(* readCommand() returns a command; a short header yields any of them.     *)
ReadCommand(c) ==
  /\ client[c].thread = "reading"
  /\ reads[c] < MaxCommands
  /\ reads' = [reads EXCEPT ![c] = @ + 1]
  /\ \E command \in Sent[c] :
       client' = [client EXCEPT
         ![c].command_id = command,
         ![c].thread = IF command = "NOTIFY" THEN "notifying" ELSE "queueing"]
  /\ UNCHANGED <<peer, handled, mcFault, objectVars, workVars, clients_mutex_,
                 serverVars>>

(* The peer is gone or has sent an unknown command.                        *)
ReadFails(c) ==
  /\ client[c].thread = "reading"
  /\ client' = [client EXCEPT ![c].thread = "queueing", ![c].dead = TRUE]
  /\ UNCHANGED <<peerVars, objectVars, workVars, clients_mutex_, serverVars>>

(* A notification is handled at once, by the client's own thread.          *)
SendNotify(c) ==
  /\ client[c].thread = "notifying"
  /\ siq_mutex = "free"
  /\ handled' = [handled EXCEPT ![c] = @ + 1]
  /\ client' = [client EXCEPT ![c].thread = "loop"]
  /\ UNCHANGED <<peer, reads, mcFault, objectVars, workVars, clients_mutex_,
                 serverVars>>
\* Mutant: the thread queues and only then takes its mutex and sets locked_.
EnqueueUnlocked(c) ==
  /\ client[c].thread = "queueing"
  /\ queue' = Append(queue, c)
  /\ client' = [client EXCEPT ![c].thread = "queued"]
  /\ UNCHANGED <<peerVars, objectVars, worker, siq_mutex, clients_mutex_,
                 serverVars>>

Enqueue(c) ==
  /\ client[c].thread = "queueing"
  /\ client[c].mutex = "free"
  /\ queue' = Append(queue, c)
  /\ client' = [client EXCEPT ![c].thread = "queued", ![c].mutex = "thread"]
  /\ UNCHANGED <<peerVars, objectVars, worker, siq_mutex, clients_mutex_,
                 serverVars>>

WaitLocked(c) ==
  /\ client[c].thread = "queued"
  /\ client' = [client EXCEPT ![c].thread = "waiting", ![c].mutex = "free",
                              ![c].locked = TRUE]
  /\ UNCHANGED <<peerVars, objectVars, workVars, clients_mutex_, serverVars>>

\* Mutant: `if (locked_)' instead of `while (locked_)'
WakeUpUnchecked(c) ==
  /\ client[c].thread = "waiting"
  /\ client[c].mutex = "free"
  /\ client' = [client EXCEPT ![c].thread = "loop", ![c].signalled = FALSE]
  /\ UNCHANGED <<peerVars, objectVars, workVars, clients_mutex_, serverVars>>

(* pthread_cond_wait() returns: signalled, or for no reason.               *)
WakeUp(c) ==
  /\ client[c].thread = "waiting"
  /\ client[c].mutex = "free"
  /\ client' = [client EXCEPT
       ![c].thread = IF client[c].locked THEN "waiting" ELSE "loop",
       ![c].signalled = FALSE]
  /\ UNCHANGED <<peerVars, objectVars, workVars, clients_mutex_, serverVars>>

-----------------------------------------------------------------------------
Pop ==
  /\ worker.at = "popping"
  /\ queue # <<>>
  /\ queue' = Tail(queue)
  /\ worker' = [at |-> IF Head(queue) = NULL THEN "ended" ELSE "deciding",
                client |-> Head(queue)]
  /\ UNCHANGED <<peerVars, client, objectVars, siq_mutex, clients_mutex_,
                 serverVars>>

(* The device of a dead client is closed, and its sessions with it.        *)
DropConnection(c) ==
  /\ worker = [at |-> "deciding", client |-> c]
  /\ client[c].dead
  /\ device' = IF client[c].connected THEN device \ {c} ELSE device
  /\ worker' = [worker EXCEPT !.at = "exiting"]
  /\ UNCHANGED <<peerVars, client, freed, connection, queue, siq_mutex,
                 clients_mutex_, serverVars>>
\* Mutant: the worker's loop forgets setExiting().
NeverExiting(c) ==
  /\ worker = [at |-> "exiting", client |-> c]
  /\ worker' = [worker EXCEPT !.at = "unlocking"]
  /\ UNCHANGED <<peerVars, client, objectVars, queue, siq_mutex,
                 clients_mutex_, serverVars>>

SetExiting(c) ==
  /\ worker = [at |-> "exiting", client |-> c]
  /\ client' = [client EXCEPT ![c].exiting = TRUE]
  /\ worker' = [worker EXCEPT !.at = "unlocking"]
  /\ UNCHANGED <<peerVars, objectVars, queue, siq_mutex, clients_mutex_,
                 serverVars>>

Answered(c) == handled' = [handled EXCEPT ![c] = @ + 1]

(* Any command but NQ_CONNECT; handlers may refuse.                        *)
HandleCommand(c) ==
  /\ worker = [at |-> "deciding", client |-> c]
  /\ ~client[c].dead
  /\ client[c].command_id # "NQ_CONNECT"
  /\ device' \in {device, CASE client[c].command_id = "OPEN_DEVICE"  -> device \cup {c}
                            [] client[c].command_id = "CLOSE_DEVICE" -> device \ {c}
                            [] OTHER -> device}
  /\ worker' = [worker EXCEPT !.at = "unlocking"]
  /\ Answered(c)
  /\ UNCHANGED <<peer, reads, mcFault, client, freed, connection, queue,
                 siq_mutex, clients_mutex_, serverVars>>

(* processNqConnect() takes siq_mutex and refuses a connection with a      *)
(* device or an incomplete command.                                        *)
BeginNqConnect(c) ==
  /\ worker = [at |-> "deciding", client |-> c]
  /\ ~client[c].dead
  /\ client[c].command_id = "NQ_CONNECT"
  /\ siq_mutex = "free"
  /\ \/ /\ worker' = [worker EXCEPT !.at = "unlocking"]
        /\ Answered(c)
        /\ UNCHANGED siq_mutex
     \/ /\ c \notin device
        /\ siq_mutex' = "worker"
        /\ worker' = [worker EXCEPT !.at = "detaching"]
        /\ UNCHANGED handled
  /\ UNCHANGED <<peer, reads, mcFault, client, objectVars, queue,
                 clients_mutex_, serverVars>>

(* Server::detachConnection, with clients_mutex_ held throughout           *)
Detach(c) ==
  /\ worker = [at |-> "detaching", client |-> c]
  /\ clients_mutex_ = "free"
  /\ IF \E i \in DOMAIN clients : clients[i] = c
       THEN /\ client' = [client EXCEPT ![c].connected = FALSE]
            /\ connection' = [connection EXCEPT ![c] = "handler"]
       ELSE UNCHANGED <<client, connection>>
  /\ worker' = [worker EXCEPT !.at = "registering"]
  /\ UNCHANGED <<peerVars, freed, device, queue, siq_mutex, clients_mutex_,
                 serverVars>>

(* The session is found and owns the connection from now on, or there is   *)
(* no such device or session and nobody does.                              *)
Register(c) ==
  /\ worker = [at |-> "registering", client |-> c]
  /\ \E owner \in {"session", "nobody"} :
       connection' = [connection EXCEPT ![c] = owner]
  /\ siq_mutex' = "free"
  /\ worker' = [worker EXCEPT !.at = "unlocking"]
  /\ Answered(c)
  /\ UNCHANGED <<peer, reads, mcFault, client, freed, device, queue,
                 clients_mutex_, serverVars>>

\* Mutant: unlock() without the mutex: the thread may go before it is signalled.
UnlockWithoutMutex(c) ==
  /\ worker = [at |-> "unlocking", client |-> c]
  /\ client' = [client EXCEPT ![c].locked = FALSE]
  /\ worker' = [worker EXCEPT !.at = "signalling"]
  /\ UNCHANGED <<peerVars, objectVars, queue, siq_mutex, clients_mutex_,
                 serverVars>>

(* Client::unlock, in two steps: the second still uses the object.         *)
Unlock(c) ==
  /\ worker = [at |-> "unlocking", client |-> c]
  /\ client[c].mutex = "free"
  /\ client' = [client EXCEPT ![c].mutex = "worker", ![c].locked = FALSE]
  /\ worker' = [worker EXCEPT !.at = "signalling"]
  /\ UNCHANGED <<peerVars, objectVars, queue, siq_mutex, clients_mutex_,
                 serverVars>>

Signal(c) ==
  /\ worker = [at |-> "signalling", client |-> c]
  /\ client' = [client EXCEPT ![c].mutex = "free", ![c].signalled = TRUE]
  /\ worker' = [at |-> "popping", client |-> NULL]
  /\ UNCHANGED <<peerVars, objectVars, queue, siq_mutex, clients_mutex_,
                 serverVars>>

(* A session that is deleted deletes its notification connection.          *)
SessionEnds(c) ==
  /\ connection[c] = "session"
  /\ connection' = [connection EXCEPT ![c] = "deleted"]
  /\ UNCHANGED <<peerVars, client, freed, device, workVars, clients_mutex_,
                 serverVars>>

-----------------------------------------------------------------------------
(* Server::run                                                             *)

Listen ==
  /\ server.at = "opening"
  /\ server' = [server EXCEPT !.at = "selecting"]
  /\ worker' = [worker EXCEPT !.at = "popping"]
  /\ UNCHANGED <<peerVars, client, objectVars, queue, siq_mutex, clients,
                 clients_mutex_, server_state, daemon>>

Stopped == server_state' = "STOPPED" /\ server' = [server EXCEPT !.at = "stopped"]

ListenFails ==
  /\ "listen" \in Failures
  /\ server.at = "opening"
  /\ Stopped
  /\ UNCHANGED <<peerVars, client, objectVars, workVars, clients,
                 clients_mutex_, daemon>>

Waiting(c) == peer[c] # "absent" /\ client[c].thread = "none"

Accept(c) ==
  /\ server.at = "selecting"
  /\ Waiting(c)
  /\ connection' = [connection EXCEPT ![c] = "client"]
  /\ server' = [server EXCEPT !.at = "adding", !.client = c]
  /\ UNCHANGED <<peerVars, client, freed, device, workVars, clients,
                 clients_mutex_, server_state, daemon>>

AcceptFails ==
  /\ "accept" \in Failures
  /\ server.at = "selecting"
  /\ \E c \in Clients : Waiting(c)
  /\ server' = [server EXCEPT !.at = "locking"]
  /\ UNCHANGED <<peerVars, client, objectVars, workVars, clients,
                 clients_mutex_, server_state, daemon>>

AddClient(c) ==
  /\ server.at = "adding" /\ server.client = c
  /\ clients_mutex_ = "free"
  /\ clients' = Append(clients, c)
  /\ server' = [server EXCEPT !.at = "starting"]
  /\ UNCHANGED <<peerVars, client, objectVars, workVars, clients_mutex_,
                 server_state, daemon>>

StartClient(c) ==
  /\ server.at = "starting" /\ server.client = c
  /\ client' = [client EXCEPT ![c].thread = "loop"]
  /\ server' = [server EXCEPT !.at = "locking", !.client = NULL]
  /\ UNCHANGED <<peerVars, objectVars, workVars, clients, clients_mutex_,
                 server_state, daemon>>

BeginReap ==
  /\ server.at = "locking"
  /\ clients_mutex_ = "free"
  /\ clients_mutex_' = "server"
  /\ server' = [server EXCEPT !.at = "reaping", !.it = 1]
  /\ UNCHANGED <<peerVars, client, objectVars, workVars, clients,
                 server_state, daemon>>

Erase(i) == [j \in 1..(Len(clients) - 1) |-> clients[IF j < i THEN j ELSE j + 1]]
\* Mutant: one client is reaped after an accept and the others are not.
ReapOne ==
  /\ server.at = "reaping"
  /\ clients_mutex_' = "free"
  /\ server' = [server EXCEPT !.at = "selecting"]
  /\ UNCHANGED <<peerVars, client, objectVars, workVars, clients,
                 server_state, daemon>>

ReapNext ==
  /\ server.at = "reaping"
  /\ server.it <= Len(clients)
  /\ IF client[clients[server.it]].exiting
       THEN /\ clients' = Erase(server.it)
            /\ server' = [server EXCEPT !.at = "joining", !.client = clients[server.it]]
       ELSE /\ server' = [server EXCEPT !.it = @ + 1]
            /\ UNCHANGED clients
  /\ UNCHANGED <<peerVars, client, objectVars, workVars, clients_mutex_,
                 server_state, daemon>>

(* join() returns when the thread has ended; ~Client deletes the           *)
(* connection, if there still is one.                                      *)
JoinAndDelete(c) ==
  /\ server.at = "joining" /\ server.client = c
  /\ client[c].thread = "ended"
  /\ freed' = freed \cup {c}
  /\ connection' = IF client[c].connected
                     THEN [connection EXCEPT ![c] = "deleted"] ELSE connection
  /\ server' = [server EXCEPT !.at = "reaping", !.client = NULL]
  /\ UNCHANGED <<peerVars, client, device, workVars, clients, clients_mutex_,
                 server_state, daemon>>

EndReap ==
  /\ server.at = "reaping"
  /\ server.it > Len(clients)
  /\ clients_mutex_' = "free"
  /\ server' = [server EXCEPT !.at = "selecting"]
  /\ UNCHANGED <<peerVars, client, objectVars, workVars, clients,
                 server_state, daemon>>
\* Mutant: the worker is joined without being told to end.
StopUntold ==
  /\ "select" \in Failures
  /\ server.at = "selecting"
  /\ server' = [server EXCEPT !.at = "stopping"]
  /\ UNCHANGED <<peerVars, client, objectVars, workVars, clients,
                 clients_mutex_, server_state, daemon>>

SelectFails ==
  /\ "select" \in Failures
  /\ server.at = "selecting"
  /\ queue' = Append(queue, NULL)
  /\ server' = [server EXCEPT !.at = "stopping"]
  /\ UNCHANGED <<peerVars, client, objectVars, worker, siq_mutex, clients,
                 clients_mutex_, server_state, daemon>>

(* The worker has been joined.                                             *)
Stop ==
  /\ server.at = "stopping"
  /\ worker.at = "ended"
  /\ Stopped
  /\ UNCHANGED <<peerVars, client, objectVars, workVars, clients,
                 clients_mutex_, daemon>>

-----------------------------------------------------------------------------
(* MobiCoreDriverDaemon::run: Server::start waits until the server has     *)
(* left STARTING; then the proxy server is opened.                         *)

StartServer ==
  /\ daemon = "init"
  /\ daemon' = "starting"
  /\ server_state' = "STARTING"
  /\ server' = [server EXCEPT !.at = "opening"]
  /\ UNCHANGED <<peerVars, client, objectVars, workVars, clients,
                 clients_mutex_>>

OpenProxy ==
  /\ daemon = "starting"
  /\ server_state # "STARTING"
  /\ daemon' = "serving"
  /\ UNCHANGED <<peerVars, client, objectVars, workVars, clients,
                 clients_mutex_, server, server_state>>

-----------------------------------------------------------------------------
ClientThread(c) ==
  \/ TestDead(c) \/ ReadCommand(c) \/ ReadFails(c) \/ SendNotify(c)
  \/ Enqueue(c) \/ WaitLocked(c) \/ WakeUp(c)

WorkerThread ==
  \/ Pop
  \/ \E c \in Clients :
       \/ DropConnection(c) \/ SetExiting(c) \/ HandleCommand(c)
       \/ BeginNqConnect(c) \/ Detach(c) \/ Register(c)
       \/ Unlock(c) \/ Signal(c)

(* The server thread once it has something to do                           *)
ServerWorks ==
  \/ Listen \/ BeginReap \/ ReapNext \/ EndReap \/ Stop
  \/ \E c \in Clients :
       Accept(c) \/ AddClient(c) \/ StartClient(c) \/ JoinAndDelete(c)

ServerThread == ServerWorks \/ ListenFails \/ AcceptFails \/ SelectFails

MainThread == StartServer \/ OpenProxy

World == Fault \/ \E c \in Clients : Connect(c) \/ Leave(c) \/ SessionEnds(c)

Next ==
  \/ MainThread \/ ServerThread \/ WorkerThread \/ World
  \/ \E c \in Clients : ClientThread(c)

Spec == Init /\ [][Next]_vars

(* Every thread runs: the kernel schedules it, a mutex is free again after *)
(* a few steps of its holder, and a signalled thread wakes up.  A peer     *)
(* need not say anything; a connection whose peer is gone reads as closed. *)
Fairness ==
  /\ WF_vars(MainThread) /\ WF_vars(ServerWorks) /\ WF_vars(WorkerThread)
  /\ \A c \in Clients :
       /\ WF_vars(TestDead(c)) /\ WF_vars(SendNotify(c))
       /\ WF_vars(Enqueue(c)) /\ WF_vars(WaitLocked(c))
       /\ WF_vars(peer[c] = "gone" /\ ReadFails(c))
       /\ WF_vars(client[c].signalled /\ WakeUp(c))

FairSpec == Spec /\ Fairness

-----------------------------------------------------------------------------
(* Properties                                                              *)

ClientType ==
  [thread : {"none", "loop", "reading", "notifying", "queueing", "queued",
             "waiting", "ended"},
   command_id : Commands, dead : BOOLEAN, locked : BOOLEAN,
   connected : BOOLEAN, mutex : {"free", "thread", "worker"},
   signalled : BOOLEAN, exiting : BOOLEAN]

WorkerType ==
  [at : {"none", "popping", "deciding", "exiting", "detaching",
         "registering", "unlocking", "signalling", "ended"},
   client : Clients \cup {NULL}]
ServerType ==
  [at : {"none", "opening", "selecting", "adding", "starting", "locking",
         "reaping", "joining", "stopping", "stopped"},
   client : Clients \cup {NULL}, it : Nat]

(* Every variable has its type, and the worker has a client exactly when   *)
(* it works for one: never the NULL that ends it (Server.cpp:63-65).       *)
TypeOK ==
  /\ peer \in [Clients -> {"absent", "here", "gone"}]
  /\ client \in [Clients -> ClientType]
  /\ freed \in SUBSET Clients
  /\ connection \in [Clients -> {"none", "client", "handler", "session",
                                 "nobody", "deleted"}]
  /\ device \in SUBSET Clients
  /\ reads \in [Clients -> Nat] /\ handled \in [Clients -> Nat]
  /\ queue \in Seq(Clients \cup {NULL})
  /\ worker \in WorkerType
  /\ worker.client = NULL <=> worker.at \in {"none", "popping", "ended"}
  /\ clients \in Seq(Clients)
  /\ clients_mutex_ \in {"free", "server"}
  /\ siq_mutex \in {"free", "worker"}
  /\ server \in ServerType
  /\ server_state \in {"STOPPED", "STARTING"}
  /\ daemon \in {"init", "starting", "serving"}
  /\ mcFault \in BOOLEAN

Queued(c) == \E i \in DOMAIN queue : queue[i] = c

(* No thread holds a pointer to a Client that the server thread has        *)
(* deleted: not the worker between setExiting() and the end of unlock()    *)
(* (Server.cpp:71-75), not the queue, not the client's own thread.         *)
NoUseAfterFree ==
  \A c \in freed :
    /\ worker.client # c /\ server.client # c
    /\ ~Queued(c)
    /\ \A i \in DOMAIN clients : clients[i] # c
    /\ client[c].thread = "ended"

(* Every command is handled exactly once, and before the next one is read  *)
(* (Client.h:89-108): the client thread goes on only when the worker is    *)
(* done with it, whatever wakes it.                                        *)
HandledBeforeNext ==
  \A c \in Clients :
    /\ handled[c] <= reads[c]
    /\ client[c].thread \in {"loop", "reading", "ended"} => handled[c] = reads[c]
    /\ Queued(c) => worker.client # c

(* A Client is deleted only after the daemon has closed its device, so     *)
(* that no session keeps the address of a deleted connection               *)
(* (Server.cpp:66-71).                                                     *)
ClosedBeforeFree == freed \cap device = {}

(* The Connection object of a client has one owner: the Client as long as  *)
(* it is not detached, then the session; it is never deleted twice         *)
(* (Client.h:59, Server.cpp:233).                                          *)
OneOwner ==
  \A c \in Clients :
    /\ c \in freed => connection[c] # "client"
    /\ connection[c] = "client" => client[c].connected
    /\ connection[c] \in {"handler", "session", "nobody"} => ~client[c].connected
    /\ connection[c] = "deleted" /\ client[c].connected => c \in freed

Inv == TypeOK /\ NoUseAfterFree /\ ClosedBeforeFree /\ OneOwner

(* A client that has queued is served: the worker, the lock NQ_CONNECT     *)
(* shares with the server thread, the lock it shares with notifications    *)
(* and the handshake with the client never stop for ever.                  *)
Served ==
  \A c \in Clients :
    client[c].thread = "queueing" /\ server.at # "stopping"
      ~> client[c].thread \in {"loop", "ended"} \/ server.at \in {"stopping", "stopped"}

(* When its peer is gone a client's device is closed and the client is     *)
(* marked for deletion (Server.cpp:66-71), as long as the server runs.     *)
GoneIsDropped ==
  \A c \in Clients :
    peer[c] = "gone" /\ client[c].thread # "none"
      ~> \/ c \notin device /\ client[c].exiting
         \/ server.at \in {"stopping", "stopped"}

(* Whatever is marked for deletion when a connection comes in is deleted   *)
(* then (Server.cpp:190-204): the join, with clients_mutex_ held, ends.    *)
ReapedOnAccept ==
  \A c \in Clients :
    client[c].exiting /\ server.at = "adding" ~> c \in freed

(* When the server has failed, the worker finishes what was queued before   *)
(* and ends, and start() is released (Server.cpp:207-216).                 *)
StopEnds == server.at = "stopping" ~> server.at = "stopped" /\ daemon = "serving"

=============================================================================
