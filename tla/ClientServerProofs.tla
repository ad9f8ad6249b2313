------------------------- MODULE ClientServerProofs -------------------------
(***************************************************************************)
(* Proofs about ClientServer, for any number of clients and commands: no   *)
(* thread uses a Client that has been deleted, a Client is deleted after   *)
(* its device has been closed, its Connection has one owner, and every     *)
(* command is handled once, before the next one is read.                   *)
(*                                                                         *)
(* What makes it so is the handshake of a client's thread with the worker, *)
(* which IInv states for every client: whoever has a pointer to a Client   *)
(* has it because the client's thread waits with locked_ set, and a thread *)
(* that waits has not ended.                                               *)
(***************************************************************************)
EXTENDS ClientServer, TLAPS

-----------------------------------------------------------------------------
(* The inductive invariant.                                                *)

InQueue(q, c) == \E i \in DOMAIN q : q[i] = c
Once(q) ==
  \A i, j \in DOMAIN q : q[i] = q[j] /\ q[i] \in Clients => i = j

Listed(c) == InQueue(clients, c)

\* The worker has the client, or will take it, and has not unlocked it yet.
Has(c) == Queued(c) \/ (worker.client = c /\ worker.at # "signalling")

\* The worker has a client as long as the client's thread is between the
\* lock of mutex_ in Enqueue and the end of unlock(), and only once; while
\* unlock() holds mutex_ the thread is still in its wait.
Handshake(c) ==
  /\ client[c].mutex = "thread" <=> client[c].thread = "queued"
  /\ client[c].mutex = "worker" <=> worker.client = c /\ worker.at = "signalling"
  /\ client[c].mutex = "worker" => client[c].thread = "waiting" /\ ~client[c].locked
  /\ client[c].locked => client[c].thread = "waiting"
  /\ Has(c) <=> client[c].thread = "queued" \/ client[c].locked
  /\ Queued(c) => worker.client # c

\* A command has been read and not been handled.
Owes(c) ==
  \/ client[c].thread = "notifying"
  \/ /\ ~client[c].dead
     /\ \/ client[c].thread = "queueing"
        \/ Queued(c)
        \/ worker.client = c /\ worker.at \in {"deciding", "detaching", "registering"}
Counted(c) == reads[c] = handled[c] + (IF Owes(c) THEN 1 ELSE 0)

\* A dead client reads no more; the worker drops dead clients only, and marks
\* only those for deletion.
Dying(c) ==
  /\ client[c].dead => client[c].thread \notin {"none", "reading", "notifying"}
  /\ client[c].exiting => client[c].dead
  /\ worker.client = c =>
       /\ worker.at = "exiting" => client[c].dead
       /\ worker.at \in {"detaching", "registering"} => ~client[c].dead

\* A client whose connection has been detached is dead, or about to find out.
Detached(c) ==
  /\ client[c].thread = "none" => client[c].connected
  /\ worker.client = c /\ worker.at = "registering" => ~client[c].connected
  /\ ~client[c].connected /\ ~client[c].dead =>
       /\ client[c].thread \in {"queued", "waiting", "loop"}
       /\ ~Queued(c)
       /\ worker.client = c => worker.at \in {"registering", "unlocking", "signalling"}

\* A device is open on a connection the client still has, and the client is
\* not marked: NQ_CONNECT refuses a connection with a device, and the worker
\* closes the device before it marks the client.
Closed(c) ==
  c \in device =>
    /\ client[c].connected /\ ~client[c].exiting
    /\ worker.client = c => worker.at \notin {"detaching", "registering", "exiting"}

Joined(c) == server.at = "joining" /\ server.client = c
Starts(c) == server.at \in {"adding", "starting"} /\ server.client = c

\* A client is in the list from its start until it is joined, and only a
\* client that is marked is joined and deleted.
Lifetime(c) ==
  /\ Starts(c) => client[c].thread = "none"
  /\ Joined(c) \/ c \in freed => client[c].exiting
  /\ ~(Joined(c) /\ c \in freed)
  /\ c \in freed => client[c].thread = "ended"
  /\ Listed(c) <=> \/ client[c].thread # "none" /\ ~Joined(c) /\ c \notin freed
                   \/ server.at = "starting" /\ server.client = c

\* What OneOwner says of one client.
Owned(c) ==
  /\ c \in freed => connection[c] # "client"
  /\ connection[c] = "client" => client[c].connected
  /\ connection[c] \in {"handler", "session", "nobody"} => ~client[c].connected
  /\ connection[c] = "deleted" /\ client[c].connected => c \in freed

ClientInv(c) ==
  /\ Handshake(c) /\ Counted(c) /\ Dying(c) /\ Detached(c) /\ Closed(c)
  /\ Lifetime(c) /\ Owned(c)

\* The server thread and the worker, and that no client is in a list twice.
Threads ==
  /\ Once(queue) /\ Once(clients)
  /\ server.it # 0
  /\ server.client = NULL <=> server.at \notin {"adding", "starting", "joining"}
  /\ daemon = "init" => server.at = "none"
  /\ server.at \in {"none", "opening"} => worker.at = "none"

IInv == TypeOK /\ Threads /\ \A c \in Clients : ClientInv(c)

-----------------------------------------------------------------------------
(* The sequences: Queue::push and pop, and the list of clients.            *)

\* Appending adds one element.
LEMMA InAppend ==
  ASSUME NEW S, NEW q \in Seq(S), NEW x \in S, NEW y
  PROVE  InQueue(Append(q, x), y) <=> InQueue(q, y) \/ x = y
<1>1. /\ \A i \in DOMAIN q : Append(q, x)[i] = q[i] /\ i \in DOMAIN Append(q, x)
      /\ Append(q, x)[Len(q) + 1] = x /\ Len(q) + 1 \in DOMAIN Append(q, x)
      /\ \A i \in DOMAIN Append(q, x) : i \in DOMAIN q \/ i = Len(q) + 1
  OBVIOUS
<1> QED
  BY <1>1 DEF InQueue

\* An element that is new may be appended.
LEMMA OnceAppend ==
  ASSUME NEW S, NEW q \in Seq(S), NEW x \in S, Once(q),
         x \in Clients => ~InQueue(q, x)
  PROVE  Once(Append(q, x))
<1>1. /\ \A i \in DOMAIN q : Append(q, x)[i] = q[i]
      /\ Append(q, x)[Len(q) + 1] = x
      /\ \A i \in DOMAIN Append(q, x) : i \in DOMAIN q \/ i = Len(q) + 1
  OBVIOUS
<1> QED
  BY <1>1 DEF InQueue, Once

\* The worker takes the first element, and has it no more in the queue.
LEMMA InTail ==
  ASSUME NEW S, NEW q \in Seq(S), q # <<>>, Once(q), NEW y \in Clients
  PROVE  InQueue(Tail(q), y) <=> InQueue(q, y) /\ y # Head(q)
<1>1. /\ \A i \in DOMAIN Tail(q) : Tail(q)[i] = q[i + 1] /\ i + 1 \in DOMAIN q /\ i + 1 # 1
      /\ \A i \in DOMAIN q : i # 1 => i - 1 \in DOMAIN Tail(q) /\ Tail(q)[i - 1] = q[i]
      /\ Head(q) = q[1] /\ 1 \in DOMAIN q
  OBVIOUS
<1> QED
  BY <1>1 DEF InQueue, Once

\* What is left of the queue still has everything once.
LEMMA OnceTail ==
  ASSUME NEW S, NEW q \in Seq(S), q # <<>>, Once(q)
  PROVE  Once(Tail(q))
<1>1. \A i \in DOMAIN Tail(q) : Tail(q)[i] = q[i + 1] /\ i + 1 \in DOMAIN q /\ i \in Nat
  OBVIOUS
<1> QED
  BY <1>1 DEF Once

\* erase(it): the list without its k-th client.
LEMMA Erases ==
  ASSUME clients \in Seq(Clients), Once(clients), NEW k \in 1..Len(clients)
  PROVE  /\ Erase(k) \in Seq(Clients) /\ Once(Erase(k))
         /\ \A y \in Clients :
              InQueue(Erase(k), y) <=> InQueue(clients, y) /\ y # clients[k]
<1> DEFINE to(j) == IF j < k THEN j ELSE j + 1
<1>1. /\ Len(clients) - 1 \in Nat
      /\ DOMAIN Erase(k) = 1..(Len(clients) - 1)
      /\ \A j \in DOMAIN Erase(k) :
           Erase(k)[j] = clients[to(j)] /\ to(j) \in DOMAIN clients /\ to(j) # k
  BY DEF Erase
<1>2. Erase(k) \in Seq(Clients)
  BY <1>1 DEF Erase
<1>3. \A i, j \in DOMAIN Erase(k) : to(i) = to(j) => i = j
  BY <1>1
<1>4. \A i \in DOMAIN clients : i # k => \E j \in DOMAIN Erase(k) : to(j) = i
  <2> TAKE i \in DOMAIN clients
  <2> HAVE i # k
  <2>1. CASE i < k
    <3>1. i \in DOMAIN Erase(k) /\ to(i) = i
      BY <1>1, <2>1
    <3> QED BY <3>1
  <2>2. CASE ~(i < k)
    <3>1. i - 1 \in DOMAIN Erase(k) /\ to(i - 1) = i
      BY <1>1, <2>2
    <3> QED BY <3>1
  <2> QED BY <2>1, <2>2
<1> HIDE DEF to
<1>5. Once(Erase(k))
  <2> SUFFICES ASSUME NEW i \in DOMAIN Erase(k), NEW j \in DOMAIN Erase(k),
                      Erase(k)[i] = Erase(k)[j]
               PROVE  i = j
    BY DEF Once
  <2>1. clients[to(i)] \in Clients /\ to(i) = to(j)
    BY <1>1 DEF Once
  <2> QED BY <2>1, <1>3
<1>6. ASSUME NEW y \in Clients
      PROVE  InQueue(Erase(k), y) <=> InQueue(clients, y) /\ y # clients[k]
  <2>1. InQueue(Erase(k), y) => InQueue(clients, y) /\ y # clients[k]
    BY <1>1 DEF InQueue, Once
  <2>2. InQueue(clients, y) /\ y # clients[k] => InQueue(Erase(k), y)
    BY <1>1, <1>4 DEF InQueue
  <2> QED BY <2>1, <2>2
<1> QED
  BY <1>2, <1>5, <1>6

-----------------------------------------------------------------------------
(* Types.                                                                  *)

\* The part of TypeOK about the Client objects.
ClientsTyped == client \in [Clients -> ClientType]

\* One client changes, to another client.
LEMMA ClientChange ==
  ASSUME ClientsTyped, NEW c \in Clients, NEW r \in ClientType,
         client' = [client EXCEPT ![c] = r]
  PROVE  ClientsTyped'
BY DEF ClientsTyped

\* The steps that change a Client object.
LEMMA ClientStepType ==
  ASSUME ClientsTyped, NEW c \in Clients,
         \/ ClientThread(c) \/ SetExiting(c) \/ Detach(c) \/ Unlock(c)
         \/ Signal(c) \/ StartClient(c)
  PROVE  ClientsTyped'
<1> DEFINE r == client[c]
<1>0. r \in ClientType
  BY DEF ClientsTyped
<1>1. CASE TestDead(c)
  <2> DEFINE t == CASE r.dead -> "ended"
                    [] ~r.dead /\ TurnsAway(c) -> "queueing"
                    [] OTHER -> "reading"
             x == r.dead \/ TurnsAway(c)
  <2>1. \A u \in {"ended", "queueing", "reading"}, y \in BOOLEAN :
          [r EXCEPT !.thread = u, !.dead = y] \in ClientType
    BY <1>0 DEF ClientType
  <2>2. t \in {"ended", "queueing", "reading"} /\ x \in BOOLEAN
    BY <1>0 DEF ClientType
  <2>3. client' = [client EXCEPT ![c] = [r EXCEPT !.thread = t, !.dead = x]]
    BY <1>1 DEF TestDead
  <2> HIDE DEF t, x, r
  <2> QED BY <2>1, <2>2, <2>3, ClientChange
<1>2. CASE ReadCommand(c)
  <2>1. PICK command \in Sent[c] : client' = [client EXCEPT
          ![c].command_id = command,
          ![c].thread = IF command = "NOTIFY" THEN "notifying" ELSE "queueing"]
    BY <1>2 DEF ReadCommand
  <2>2. command \in Commands
    BY ConstantsAssumption
  <2>3. [r EXCEPT !.command_id = command,
                  !.thread = IF command = "NOTIFY" THEN "notifying" ELSE "queueing"]
          \in ClientType
    BY <1>0, <2>2 DEF ClientType
  <2>4. client' = [client EXCEPT ![c] = [r EXCEPT !.command_id = command,
          !.thread = IF command = "NOTIFY" THEN "notifying" ELSE "queueing"]]
    BY <2>1
  <2> QED BY <2>3, <2>4, ClientChange
<1>3. CASE ReadFails(c)
  <2> DEFINE s == [r EXCEPT !.thread = "queueing", !.dead = TRUE]
  <2>1. s \in ClientType
    BY <1>0 DEF ClientType
  <2>2. client' = [client EXCEPT ![c] = s]
    BY <1>3 DEF ReadFails
  <2> QED BY <2>1, <2>2, ClientChange
<1>4. CASE SendNotify(c)
  <2> DEFINE s == [r EXCEPT !.thread = "loop"]
  <2>1. s \in ClientType
    BY <1>0 DEF ClientType
  <2>2. client' = [client EXCEPT ![c] = s]
    BY <1>4 DEF SendNotify
  <2> QED BY <2>1, <2>2, ClientChange
<1>5. CASE Enqueue(c)
  <2> DEFINE s == [r EXCEPT !.thread = "queued", !.mutex = "thread"]
  <2>1. s \in ClientType
    BY <1>0 DEF ClientType
  <2>2. client' = [client EXCEPT ![c] = s]
    BY <1>5 DEF Enqueue
  <2> QED BY <2>1, <2>2, ClientChange
<1>6. CASE WaitLocked(c)
  <2> DEFINE s == [r EXCEPT !.thread = "waiting", !.mutex = "free", !.locked = TRUE]
  <2>1. s \in ClientType
    BY <1>0 DEF ClientType
  <2>2. client' = [client EXCEPT ![c] = s]
    BY <1>6 DEF WaitLocked
  <2> QED BY <2>1, <2>2, ClientChange
<1>7. CASE WakeUp(c)
  <2> DEFINE s == [r EXCEPT !.thread = IF client[c].locked THEN "waiting" ELSE "loop", !.signalled = FALSE]
  <2>1. s \in ClientType
    BY <1>0 DEF ClientType
  <2>2. client' = [client EXCEPT ![c] = s]
    BY <1>7 DEF WakeUp
  <2> QED BY <2>1, <2>2, ClientChange
<1>8. CASE SetExiting(c)
  <2> DEFINE s == [r EXCEPT !.exiting = TRUE]
  <2>1. s \in ClientType
    BY <1>0 DEF ClientType
  <2>2. client' = [client EXCEPT ![c] = s]
    BY <1>8 DEF SetExiting
  <2> QED BY <2>1, <2>2, ClientChange
<1>9. CASE Unlock(c)
  <2> DEFINE s == [r EXCEPT !.mutex = "worker", !.locked = FALSE]
  <2>1. s \in ClientType
    BY <1>0 DEF ClientType
  <2>2. client' = [client EXCEPT ![c] = s]
    BY <1>9 DEF Unlock
  <2> QED BY <2>1, <2>2, ClientChange
<1>10. CASE Signal(c)
  <2> DEFINE s == [r EXCEPT !.mutex = "free", !.signalled = TRUE]
  <2>1. s \in ClientType
    BY <1>0 DEF ClientType
  <2>2. client' = [client EXCEPT ![c] = s]
    BY <1>10 DEF Signal
  <2> QED BY <2>1, <2>2, ClientChange
<1>11. CASE StartClient(c)
  <2> DEFINE s == [r EXCEPT !.thread = "loop"]
  <2>1. s \in ClientType
    BY <1>0 DEF ClientType
  <2>2. client' = [client EXCEPT ![c] = s]
    BY <1>11 DEF StartClient
  <2> QED BY <2>1, <2>2, ClientChange
<1>12. CASE Detach(c)
  <2> DEFINE s == [r EXCEPT !.connected = FALSE]
  <2>1. s \in ClientType
    BY <1>0 DEF ClientType
  <2>2. client' = client \/ client' = [client EXCEPT ![c] = s]
    BY <1>12 DEF Detach
  <2> QED BY <2>1, <2>2, ClientChange DEF ClientsTyped
<1> QED
  BY <1>1, <1>2, <1>3, <1>4, <1>5, <1>6, <1>7, <1>8, <1>9, <1>10, <1>11, <1>12 DEF
       ClientThread

\* Types: the worker.
LEMMA WorkerStepType ==
  ASSUME TypeOK, Threads, WorkerThread
  PROVE  TypeOK'
<1> USE ConstantsAssumption DEF TypeOK, peerVars, objectVars, serverVars
<1>0. client \in [Clients -> ClientType] /\ worker \in WorkerType
  OBVIOUS
<1>1. CASE Pop
  <2>1. Head(queue) \in Clients \cup {NULL} /\ Tail(queue) \in Seq(Clients \cup {NULL})
    BY <1>1 DEF Pop
  <2>2. worker' \in WorkerType /\ (worker'.client = NULL <=> worker'.at = "ended")
        /\ worker'.at \notin {"none", "popping"}
    BY <1>1, <2>1 DEF Pop, WorkerType
  <2> QED BY <1>1, <2>1, <2>2 DEF Pop
<1>2. ASSUME NEW c \in Clients, DropConnection(c)
     PROVE  TypeOK'
  <2>1. worker' \in WorkerType /\ (worker'.client = NULL <=> worker'.at = "popping")
        /\ worker'.at \notin {"none", "ended"}
    BY <1>0, <1>2 DEF DropConnection, WorkerType
  <2>2. client' \in [Clients -> ClientType]
    BY <1>2 DEF DropConnection
  <2>3. handled' \in [Clients -> Nat] /\ device' \in SUBSET Clients
    BY <1>2 DEF DropConnection
  <2> QED BY <1>2, <2>1, <2>2, <2>3 DEF DropConnection
<1>3. ASSUME NEW c \in Clients, SetExiting(c)
     PROVE  TypeOK'
  <2>1. worker' \in WorkerType /\ (worker'.client = NULL <=> worker'.at = "popping")
        /\ worker'.at \notin {"none", "ended"}
    BY <1>0, <1>3 DEF SetExiting, WorkerType
  <2>2. client' \in [Clients -> ClientType]
    BY <1>3, ClientStepType DEF ClientsTyped
  <2>3. handled' \in [Clients -> Nat] /\ device' \in SUBSET Clients
    BY <1>3 DEF SetExiting
  <2> QED BY <1>3, <2>1, <2>2, <2>3 DEF SetExiting
<1>4. ASSUME NEW c \in Clients, HandleCommand(c)
     PROVE  TypeOK'
  <2>1. worker' \in WorkerType /\ (worker'.client = NULL <=> worker'.at = "popping")
        /\ worker'.at \notin {"none", "ended"}
    BY <1>0, <1>4 DEF HandleCommand, WorkerType
  <2>2. client' \in [Clients -> ClientType]
    BY <1>4 DEF HandleCommand
  <2>3. handled' \in [Clients -> Nat] /\ device' \in SUBSET Clients
    BY <1>4 DEF HandleCommand, Answered
  <2> QED BY <1>4, <2>1, <2>2, <2>3 DEF HandleCommand
<1>5. ASSUME NEW c \in Clients, BeginNqConnect(c)
     PROVE  TypeOK'
  <2>1. worker' \in WorkerType /\ (worker'.client = NULL <=> worker'.at = "popping")
        /\ worker'.at \notin {"none", "ended"}
    BY <1>0, <1>5 DEF BeginNqConnect, WorkerType
  <2>2. client' \in [Clients -> ClientType]
    BY <1>5 DEF BeginNqConnect
  <2>3. handled' \in [Clients -> Nat]
    <3>1. handled' = handled \/ handled' = [handled EXCEPT ![c] = handled[c] + 1]
      BY <1>5 DEF BeginNqConnect, Answered
    <3>2. handled[c] + 1 \in Nat
      OBVIOUS
    <3> QED BY <3>1, <3>2
  <2> QED BY <1>5, <2>1, <2>2, <2>3 DEF BeginNqConnect
<1>6. ASSUME NEW c \in Clients, Detach(c)
     PROVE  TypeOK'
  <2>1. worker' \in WorkerType /\ (worker'.client = NULL <=> worker'.at = "popping")
        /\ worker'.at \notin {"none", "ended"}
    BY <1>0, <1>6 DEF Detach, WorkerType
  <2>2. client' \in [Clients -> ClientType]
    BY <1>6, ClientStepType DEF ClientsTyped
  <2>3. handled' \in [Clients -> Nat] /\ device' \in SUBSET Clients
    BY <1>6 DEF Detach
  <2> QED BY <1>6, <2>1, <2>2, <2>3 DEF Detach
<1>7. ASSUME NEW c \in Clients, Register(c)
     PROVE  TypeOK'
  <2>1. worker' \in WorkerType /\ (worker'.client = NULL <=> worker'.at = "popping")
        /\ worker'.at \notin {"none", "ended"}
    BY <1>0, <1>7 DEF Register, WorkerType
  <2>2. client' \in [Clients -> ClientType]
    BY <1>7 DEF Register
  <2>3. /\ handled' \in [Clients -> Nat]
        /\ connection' \in [Clients -> {"none", "client", "handler", "session",
                                    "nobody", "deleted"}]
    BY <1>7 DEF Register, Answered
  <2> QED BY <1>7, <2>1, <2>2, <2>3 DEF Register
<1>8. ASSUME NEW c \in Clients, Unlock(c)
     PROVE  TypeOK'
  <2>1. worker' \in WorkerType /\ (worker'.client = NULL <=> worker'.at = "popping")
        /\ worker'.at \notin {"none", "ended"}
    BY <1>0, <1>8 DEF Unlock, WorkerType
  <2>2. client' \in [Clients -> ClientType]
    BY <1>8, ClientStepType DEF ClientsTyped
  <2>3. handled' \in [Clients -> Nat] /\ device' \in SUBSET Clients
    BY <1>8 DEF Unlock
  <2> QED BY <1>8, <2>1, <2>2, <2>3 DEF Unlock
<1>9. ASSUME NEW c \in Clients, Signal(c)
     PROVE  TypeOK'
  <2>1. worker' \in WorkerType /\ (worker'.client = NULL <=> worker'.at = "popping")
        /\ worker'.at \notin {"none", "ended"}
    BY <1>0, <1>9 DEF Signal, WorkerType
  <2>2. client' \in [Clients -> ClientType]
    BY <1>9, ClientStepType DEF ClientsTyped
  <2>3. handled' \in [Clients -> Nat] /\ device' \in SUBSET Clients
    BY <1>9 DEF Signal
  <2> QED BY <1>9, <2>1, <2>2, <2>3 DEF Signal
<1> QED
  BY <1>1, <1>2, <1>3, <1>4, <1>5, <1>6, <1>7, <1>8, <1>9 DEF WorkerThread

\* Types: a client's thread.
LEMMA ClientThreadType ==
  ASSUME TypeOK, NEW c \in Clients, ClientThread(c)
  PROVE  TypeOK'
<1>1. client' \in [Clients -> ClientType]
  BY ClientStepType DEF TypeOK, ClientsTyped
<1>2. reads' \in [Clients -> Nat]
  <2>1. reads' = reads \/ reads' = [reads EXCEPT ![c] = reads[c] + 1]
    BY DEF ClientThread, TestDead, ReadCommand, ReadFails, SendNotify, Enqueue,
           WaitLocked, WakeUp, peerVars
  <2>2. reads \in [Clients -> Nat] /\ reads[c] + 1 \in Nat
    BY DEF TypeOK
  <2> QED BY <2>1, <2>2
<1>3. handled' \in [Clients -> Nat]
  <2>1. handled' = handled \/ handled' = [handled EXCEPT ![c] = handled[c] + 1]
    BY DEF ClientThread, TestDead, ReadCommand, ReadFails, SendNotify, Enqueue,
           WaitLocked, WakeUp, peerVars
  <2>2. handled \in [Clients -> Nat] /\ handled[c] + 1 \in Nat
    BY DEF TypeOK
  <2> QED BY <2>1, <2>2
<1>4. queue' \in Seq(Clients \cup {NULL})
  <2>1. queue' = queue \/ queue' = Append(queue, c)
    BY DEF ClientThread, TestDead, ReadCommand, ReadFails, SendNotify, Enqueue,
           WaitLocked, WakeUp, workVars
  <2>2. queue \in Seq(Clients \cup {NULL})
    BY DEF TypeOK
  <2> QED BY <2>1, <2>2
<1>5. UNCHANGED <<peer, freed, connection, device, worker, clients, clients_mutex_,
                  siq_mutex, server, server_state, daemon, mcFault>>
  BY DEF ClientThread, TestDead, ReadCommand, ReadFails, SendNotify, Enqueue,
         WaitLocked, WakeUp, peerVars, objectVars, workVars, serverVars
<1> QED
  BY <1>1, <1>2, <1>3, <1>4, <1>5 DEF TypeOK

\* Types: the server thread.
LEMMA ServerStepType ==
  ASSUME TypeOK, Threads, ServerThread
  PROVE  TypeOK'
<1> USE ConstantsAssumption DEF TypeOK, peerVars, objectVars, serverVars, workVars
<1>0. server \in ServerType /\ server.it # 0
  BY DEF Threads
<1>1. CASE Listen
  <2>1. server' \in ServerType
    BY <1>0, <1>1 DEF Listen, ServerType
  <2>2. worker' \in WorkerType /\ worker'.at = "popping" /\ worker'.client = NULL
    BY <1>1 DEF Listen, WorkerType, Threads
  <2> QED BY <1>1, <2>1, <2>2 DEF Listen
<1>2. CASE ListenFails
  <2>1. server' \in ServerType
    BY <1>0, <1>2 DEF ListenFails, Stopped, ServerType
  <2> QED BY <1>2, <2>1 DEF ListenFails, Stopped
<1>3. CASE AcceptFails
  <2>1. server' \in ServerType
    BY <1>0, <1>3 DEF AcceptFails, ServerType
  <2> QED BY <1>3, <2>1 DEF AcceptFails
<1>4. CASE SelectFails
  <2>1. server' \in ServerType
    BY <1>0, <1>4 DEF SelectFails, ServerType
  <2>2. queue' \in Seq(Clients \cup {NULL})
    BY <1>4 DEF SelectFails
  <2> QED BY <1>4, <2>1, <2>2 DEF SelectFails
<1>5. CASE Stop
  <2>1. server' \in ServerType
    BY <1>0, <1>5 DEF Stop, Stopped, ServerType
  <2> QED BY <1>5, <2>1 DEF Stop, Stopped
<1>6. CASE BeginReap
  <2>1. server' \in ServerType
    BY <1>0, <1>6 DEF BeginReap, ServerType
  <2> QED BY <1>6, <2>1 DEF BeginReap
<1>7. CASE ReapNext
  <2>1. server.it \in 1..Len(clients) /\ clients[server.it] \in Clients
    BY <1>0, <1>7 DEF ReapNext, ServerType
  <2>2. server' \in ServerType
    <3>1. \/ server' = [server EXCEPT !.at = "joining", !.client = clients[server.it]]
          \/ server' = [server EXCEPT !.it = server.it + 1]
      BY <1>7 DEF ReapNext
    <3>2. server.it + 1 \in Nat
      BY <1>0 DEF ServerType
    <3> QED BY <1>0, <2>1, <3>1, <3>2 DEF ServerType
  <2>3. clients' \in Seq(Clients)
    BY <1>7, <2>1, Erases DEF ReapNext, Threads
  <2> QED BY <1>7, <2>2, <2>3 DEF ReapNext
<1>8. CASE EndReap
  <2>1. server' \in ServerType
    BY <1>0, <1>8 DEF EndReap, ServerType
  <2> QED BY <1>8, <2>1 DEF EndReap
<1>9. ASSUME NEW c \in Clients, Accept(c)
     PROVE  TypeOK'
  <2>1. server' \in ServerType
    BY <1>0, <1>9 DEF Accept, ServerType
  <2> QED BY <1>9, <2>1 DEF Accept
<1>10. ASSUME NEW c \in Clients, AddClient(c)
     PROVE  TypeOK'
  <2>1. server' \in ServerType
    BY <1>0, <1>10 DEF AddClient, ServerType
  <2>2. clients' \in Seq(Clients)
    BY <1>10 DEF AddClient
  <2> QED BY <1>10, <2>1, <2>2 DEF AddClient
<1>11. ASSUME NEW c \in Clients, StartClient(c)
     PROVE  TypeOK'
  <2>1. server' \in ServerType
    BY <1>0, <1>11 DEF StartClient, ServerType
  <2>2. client' \in [Clients -> ClientType]
    BY <1>11, ClientStepType DEF ClientsTyped
  <2> QED BY <1>11, <2>1, <2>2 DEF StartClient
<1>12. ASSUME NEW c \in Clients, JoinAndDelete(c)
     PROVE  TypeOK'
  <2>1. server' \in ServerType
    BY <1>0, <1>12 DEF JoinAndDelete, ServerType
  <2> QED BY <1>12, <2>1 DEF JoinAndDelete
<1> QED
  BY <1>1, <1>2, <1>3, <1>4, <1>5, <1>6, <1>7, <1>8, <1>9, <1>10, <1>11, <1>12 DEF
       ServerThread, ServerWorks

\* Types: the main thread, the other processes and the secure world.
LEMMA OtherStepType ==
  ASSUME TypeOK, MainThread \/ World
  PROVE  TypeOK'
<1> USE DEF TypeOK, peerVars, objectVars, serverVars, workVars
<1>1. CASE StartServer
  <2>1. server' \in ServerType
    BY <1>1 DEF StartServer, ServerType
  <2> QED BY <1>1, <2>1 DEF StartServer
<1>2. CASE OpenProxy
  BY <1>2 DEF OpenProxy
<1>3. CASE Fault
  BY <1>3 DEF Fault
<1>4. ASSUME NEW c \in Clients, Connect(c) \/ Leave(c)
     PROVE  TypeOK'
  BY <1>4 DEF Connect, Leave
<1>5. ASSUME NEW c \in Clients, SessionEnds(c)
     PROVE  TypeOK'
  BY <1>5 DEF SessionEnds
<1> QED
  BY <1>1, <1>2, <1>3, <1>4, <1>5 DEF MainThread, World

-----------------------------------------------------------------------------
(* The queue, the list and the threads.                                    *)

\* No client is queued twice: a thread queues when it is not queued.
LEMMA QueueOnce ==
  ASSUME IInv, Next
  PROVE  Once(queue)'
<1> USE ConstantsAssumption
<1>0. queue \in Seq(Clients \cup {NULL}) /\ Once(queue)
  BY DEF IInv, TypeOK, Threads
<1>1. ASSUME NEW c \in Clients, Enqueue(c)
      PROVE  Once(queue)'
  <2>1. ~InQueue(queue, c)
    BY <1>1 DEF IInv, TypeOK, ClientType, ClientInv, Handshake, Has, Queued, InQueue,
                Enqueue
  <2>2. queue' = Append(queue, c) /\ c \in Clients \cup {NULL}
    BY <1>1 DEF Enqueue
  <2>3. Once(Append(queue, c))
    BY <1>0, <2>1, <2>2, OnceAppend
  <2> QED BY <2>2, <2>3 DEF Once
<1>2. CASE Pop
  BY <1>0, <1>2, OnceTail DEF Pop, Once
<1>3. CASE SelectFails
  <2>1. NULL \in Clients \cup {NULL} /\ NULL \notin Clients
    OBVIOUS
  <2>2. Once(Append(queue, NULL))
    BY <1>0, <2>1, OnceAppend
  <2> QED BY <1>3, <2>2 DEF SelectFails, Once
<1>4. \/ UNCHANGED queue \/ Pop \/ SelectFails
      \/ \E c \in Clients : Enqueue(c)
  BY DEF Next, MainThread, ServerThread, ServerWorks, WorkerThread, World, ClientThread,
         TestDead, ReadCommand, ReadFails, SendNotify, WaitLocked, WakeUp,
         DropConnection, SetExiting, HandleCommand, BeginNqConnect, Detach, Register,
         Unlock, Signal, Listen, ListenFails, AcceptFails, Stop, BeginReap, ReapNext,
         EndReap, Accept, AddClient, StartClient, JoinAndDelete, StartServer, OpenProxy,
         Fault, Connect, Leave, SessionEnds, workVars
<1> QED
  BY <1>0, <1>1, <1>2, <1>3, <1>4 DEF Once

\* No client is listed twice: only a new one is added.
LEMMA ClientsOnce ==
  ASSUME IInv, Next
  PROVE  Once(clients)'
<1>0. clients \in Seq(Clients) /\ Once(clients)
  BY DEF IInv, TypeOK, Threads
<1>1. ASSUME NEW c \in Clients, AddClient(c)
      PROVE  Once(clients)'
  <2>1. ~InQueue(clients, c)
    BY <1>1 DEF IInv, ClientInv, Lifetime, Listed, Starts, AddClient
  <2>2. Once(Append(clients, c))
    BY <1>0, <2>1, OnceAppend
  <2> QED BY <1>1, <2>2 DEF AddClient, Once
<1>2. CASE ReapNext
  <2>1. server.it <= Len(clients) => server.it \in 1..Len(clients)
    BY DEF IInv, TypeOK, Threads, ServerType
  <2>2. CASE clients' = clients
    BY <1>0, <2>2 DEF Once
  <2>3. CASE clients' = Erase(server.it)
    <3>1. Once(Erase(server.it))
      BY <1>0, <1>2, <2>1, Erases DEF ReapNext
    <3> QED BY <2>3, <3>1 DEF Once
  <2> QED BY <1>2, <2>2, <2>3 DEF ReapNext
<1>3. UNCHANGED clients \/ ReapNext \/ \E c \in Clients : AddClient(c)
  BY DEF Next, MainThread, ServerThread, ServerWorks, WorkerThread, World, ClientThread,
         TestDead, ReadCommand, ReadFails, SendNotify, Enqueue, WaitLocked, WakeUp,
         Pop, DropConnection, SetExiting, HandleCommand, BeginNqConnect, Detach, Register,
         Unlock, Signal, Listen, ListenFails, AcceptFails, SelectFails, Stop, BeginReap,
         EndReap, Accept, StartClient, JoinAndDelete, StartServer, OpenProxy,
         Fault, Connect, Leave, SessionEnds, serverVars
<1> QED
  BY <1>0, <1>1, <1>2, <1>3 DEF Once

\* The steps keep Threads.
LEMMA ThreadsStep ==
  ASSUME IInv, Next
  PROVE  Threads'
<1> DEFINE P == /\ server.it # 0
                /\ server.client = NULL <=> server.at \notin {"adding", "starting", "joining"}
                /\ daemon = "init" => server.at = "none"
                /\ server.at \in {"none", "opening"} => worker.at = "none"
<1> SUFFICES P'
  BY QueueOnce, ClientsOnce DEF Threads, Once
<1>0. P /\ server \in ServerType /\ NULL \notin Clients /\ clients \in Seq(Clients)
  BY ConstantsAssumption DEF IInv, TypeOK, Threads
<1>1. CASE ServerThread
  <2>1. CASE ReapNext
    <3>1. clients[server.it] \in Clients /\ server.at = "reaping"
      BY <1>0, <2>1 DEF ServerType, ReapNext
    <3>2. server.it + 1 # 0
      BY <1>0 DEF ServerType
    <3>3. \/ server' = [server EXCEPT !.at = "joining", !.client = clients[server.it]]
          \/ server' = [server EXCEPT !.it = server.it + 1]
      BY <2>1 DEF ReapNext
    <3>4. UNCHANGED <<worker, daemon>>
      BY <2>1 DEF ReapNext, workVars
    <3> QED BY <1>0, <3>1, <3>2, <3>3, <3>4 DEF ServerType
  <2>2. CASE Listen
    BY <1>0, <2>2 DEF Listen, ServerType, workVars
  <2>3. CASE ListenFails
    BY <1>0, <2>3 DEF ListenFails, Stopped, ServerType, workVars
  <2>4. CASE AcceptFails
    BY <1>0, <2>4 DEF AcceptFails, ServerType, workVars
  <2>5. CASE SelectFails
    BY <1>0, <2>5 DEF SelectFails, ServerType, workVars
  <2>6. CASE Stop
    BY <1>0, <2>6 DEF Stop, Stopped, ServerType, workVars
  <2>7. CASE BeginReap
    BY <1>0, <2>7 DEF BeginReap, ServerType, workVars
  <2>8. CASE EndReap
    BY <1>0, <2>8 DEF EndReap, ServerType, workVars
  <2>9. ASSUME NEW c \in Clients, Accept(c)
        PROVE  P'
    BY <1>0, <2>9 DEF Accept, ServerType, workVars
  <2>10. ASSUME NEW c \in Clients, AddClient(c)
        PROVE  P'
    BY <1>0, <2>10 DEF AddClient, ServerType, workVars
  <2>11. ASSUME NEW c \in Clients, StartClient(c)
        PROVE  P'
    BY <1>0, <2>11 DEF StartClient, ServerType, workVars
  <2>12. ASSUME NEW c \in Clients, JoinAndDelete(c)
        PROVE  P'
    BY <1>0, <2>12 DEF JoinAndDelete, ServerType, workVars
  <2> QED
    BY <1>1, <2>1, <2>2, <2>3, <2>4, <2>5, <2>6, <2>7, <2>8, <2>9, <2>10, <2>11, <2>12
       DEF ServerThread, ServerWorks
<1>2. CASE MainThread
  BY <1>0, <1>2 DEF MainThread, StartServer, OpenProxy, ServerType, workVars
<1>3. CASE WorkerThread
  <2>1. UNCHANGED <<server, daemon>>
    BY <1>3 DEF WorkerThread, Pop, DropConnection, SetExiting, HandleCommand,
         BeginNqConnect, Detach, Register, Unlock, Signal, serverVars
  <2>2. Pop => worker.at # "none"
    BY DEF Pop
  <2>3. ASSUME NEW c \in Clients,
               \/ DropConnection(c) \/ SetExiting(c) \/ HandleCommand(c)
               \/ BeginNqConnect(c) \/ Detach(c) \/ Register(c)
               \/ Unlock(c) \/ Signal(c)
        PROVE  worker.at # "none"
    BY <2>3 DEF DropConnection, SetExiting, HandleCommand, BeginNqConnect, Detach,
         Register, Unlock, Signal
  <2> QED BY <1>0, <1>3, <2>1, <2>2, <2>3 DEF WorkerThread
<1>4. CASE World
  BY <1>0, <1>4 DEF World, Fault, Connect, Leave, SessionEnds, serverVars, workVars
<1>5. ASSUME NEW c \in Clients, ClientThread(c)
      PROVE  P'
  BY <1>0, <1>5 DEF ClientThread, TestDead, ReadCommand, ReadFails, SendNotify, Enqueue,
       WaitLocked, WakeUp, serverVars, workVars
<1> QED
  BY <1>1, <1>2, <1>3, <1>4, <1>5 DEF Next

-----------------------------------------------------------------------------
(* Every client.                                                           *)

\* Nothing of the client d changes, and nothing of who has it.
Untouched(d) ==
  /\ client'[d] = client[d] /\ connection'[d] = connection[d]
  /\ reads'[d] = reads[d] /\ handled'[d] = handled[d]
  /\ d \in freed' <=> d \in freed
  /\ d \in device' <=> d \in device
  /\ Queued(d)' <=> Queued(d)
  /\ Listed(d)' <=> Listed(d)
  /\ worker'.client = d <=> worker.client = d
  /\ worker.client = d => worker'.at = worker.at
  /\ server'.client = d <=> server.client = d
  /\ server.client = d => server'.at = server.at

\* A client joins the queue.
LEMMA QueuedAppend ==
  ASSUME queue \in Seq(Clients \cup {NULL}), NEW c \in Clients,
         queue' = Append(queue, c)
  PROVE  \A d \in Clients : Queued(d)' <=> Queued(d) \/ d = c
<1>1. c \in Clients \cup {NULL}
  OBVIOUS
<1>2. \A d : InQueue(Append(queue, c), d) <=> InQueue(queue, d) \/ c = d
  BY <1>1, InAppend
<1> QED
  BY <1>2 DEF Queued, InQueue

\* ClientInv(d) holds on as long as d and the threads that have it do not change.
LEMMA UntouchedInv ==
  ASSUME NEW d \in Clients, ClientInv(d), Untouched(d)
  PROVE  ClientInv(d)'
<1> USE DEF Untouched, ClientInv
<1>1. Handshake(d)' /\ Counted(d)'
  BY DEF Handshake, Has, Counted, Owes
<1>2. Dying(d)' /\ Detached(d)' /\ Closed(d)'
  BY DEF Dying, Detached, Closed
<1>3. Lifetime(d)' /\ Owned(d)'
  BY DEF Lifetime, Joined, Starts, Owned
<1> QED
  BY <1>1, <1>2, <1>3

\* One lemma for every step that is about a client c: all others are untouched.
LEMMA TestDeadInv ==
  ASSUME IInv, NEW c \in Clients, TestDead(c)
  PROVE  \A d \in Clients : ClientInv(d)'
<1> USE ConstantsAssumption DEF IInv, TypeOK, ClientType, WorkerType, ServerType,
     peerVars, objectVars, workVars, serverVars, TurnsAway
<1>0. /\ \A d \in Clients : Queued(d)' <=> Queued(d)
      /\ \A d \in Clients : Listed(d)' <=> Listed(d)
  BY DEF Queued, Listed, InQueue, TestDead, workVars, serverVars
<1>a. /\ client'[c].thread = CASE client[c].dead -> "ended"
                               [] ~client[c].dead /\ TurnsAway(c) -> "queueing"
                               [] OTHER -> "reading"
      /\ client'[c].dead = (client[c].dead \/ TurnsAway(c))
      /\ client'[c].thread \in {"ended", "queueing", "reading"}
      /\ client'[c].thread = "queueing" => client'[c].dead
  BY DEF TestDead
<1>1. \A d \in Clients : d # c => Untouched(d)
  BY <1>0 DEF TestDead, Untouched, Threads
<1> USE <1>0, <1>a DEF ClientInv, Handshake, Has, TestDead
<1>2. Handshake(c)'
  OBVIOUS
<1>3. Counted(c)'
  <2>1. ~Owes(c) /\ ~Owes(c)'
    BY DEF Owes, Dying
  <2>2. reads' = reads /\ handled' = handled
    OBVIOUS
  <2>3. reads[c] \in Nat /\ handled[c] \in Nat /\ Counted(c)
    OBVIOUS
  <2> HIDE DEF TestDead
  <2> QED BY <2>1, <2>2, <2>3 DEF Counted
<1>4. Dying(c)'
  BY DEF Dying
<1>5. Detached(c)'
  BY DEF Detached, Dying, Lifetime, Joined, Starts
<1>6. Closed(c)'
  BY DEF Closed, Detached, Dying
<1>7. Lifetime(c)'
  BY DEF Lifetime, Joined, Starts, Threads, Dying
<1>8. Owned(c)'
  BY DEF Owned, Lifetime, Joined, Starts, Dying, Detached
<1> HIDE DEF ClientInv, Handshake, Has, TestDead
<1> QED
  BY <1>1, <1>2, <1>3, <1>4, <1>5, <1>6, <1>7, <1>8, UntouchedInv DEF ClientInv

LEMMA ReadCommandInv ==
  ASSUME IInv, NEW c \in Clients, ReadCommand(c)
  PROVE  \A d \in Clients : ClientInv(d)'
<1> USE ConstantsAssumption DEF IInv, TypeOK, ClientType, WorkerType, ServerType,
     peerVars, objectVars, workVars, serverVars
<1>0. /\ \A d \in Clients : Queued(d)' <=> Queued(d)
      /\ \A d \in Clients : Listed(d)' <=> Listed(d)
  BY DEF Queued, Listed, InQueue, ReadCommand, workVars, serverVars
<1>a. /\ client'[c].thread \in {"notifying", "queueing"}
      /\ client'[c].dead = client[c].dead
      /\ client'[c].connected = client[c].connected
      /\ reads'[c] = reads[c] + 1 /\ handled'[c] = handled[c]
  BY DEF ReadCommand
<1>1. \A d \in Clients : d # c => Untouched(d)
  BY <1>0 DEF ReadCommand, Untouched, Threads
<1> USE <1>0, <1>a DEF ClientInv, Handshake, Has, ReadCommand
<1>2. Handshake(c)'
  OBVIOUS
<1>3. Counted(c)'
  <2>1. ~Owes(c) /\ Owes(c)'
    BY DEF Owes, Dying
  <2>2. reads'[c] = reads[c] + 1 /\ handled' = handled
    OBVIOUS
  <2>3. reads[c] \in Nat /\ handled[c] \in Nat /\ Counted(c)
    OBVIOUS
  <2> HIDE DEF ReadCommand
  <2> QED BY <2>1, <2>2, <2>3 DEF Counted
<1>4. Dying(c)'
  BY DEF Dying
<1>5. Detached(c)'
  BY DEF Detached, Dying, Lifetime, Joined, Starts
<1>6. Closed(c)'
  BY DEF Closed, Detached, Dying
<1>7. Lifetime(c)'
  BY DEF Lifetime, Joined, Starts, Threads, Dying
<1>8. Owned(c)'
  BY DEF Owned, Lifetime, Joined, Starts, Dying, Detached
<1> HIDE DEF ClientInv, Handshake, Has, ReadCommand
<1> QED
  BY <1>1, <1>2, <1>3, <1>4, <1>5, <1>6, <1>7, <1>8, UntouchedInv DEF ClientInv

LEMMA ReadFailsInv ==
  ASSUME IInv, NEW c \in Clients, ReadFails(c)
  PROVE  \A d \in Clients : ClientInv(d)'
<1> USE ConstantsAssumption DEF IInv, TypeOK, ClientType, WorkerType, ServerType,
     peerVars, objectVars, workVars, serverVars
<1>0. /\ \A d \in Clients : Queued(d)' <=> Queued(d)
      /\ \A d \in Clients : Listed(d)' <=> Listed(d)
  BY DEF Queued, Listed, InQueue, ReadFails, workVars, serverVars
<1>a. client'[c].thread = "queueing" /\ client'[c].dead /\ client'[c].exiting = client[c].exiting
  BY DEF ReadFails
<1>1. \A d \in Clients : d # c => Untouched(d)
  BY <1>0 DEF ReadFails, Untouched, Threads
<1> USE <1>0, <1>a DEF ClientInv, Handshake, Has, ReadFails
<1>2. Handshake(c)'
  OBVIOUS
<1>3. Counted(c)'
  BY DEF Counted, Owes, Dying
<1>4. Dying(c)'
  BY DEF Dying
<1>5. Detached(c)'
  BY DEF Detached, Dying, Lifetime, Joined, Starts
<1>6. Closed(c)'
  BY DEF Closed, Detached, Dying
<1>7. Lifetime(c)'
  BY DEF Lifetime, Joined, Starts, Threads, Dying
<1>8. Owned(c)'
  BY DEF Owned, Lifetime, Joined, Starts, Dying, Detached
<1> HIDE DEF ClientInv, Handshake, Has, ReadFails
<1> QED
  BY <1>1, <1>2, <1>3, <1>4, <1>5, <1>6, <1>7, <1>8, UntouchedInv DEF ClientInv

LEMMA SendNotifyInv ==
  ASSUME IInv, NEW c \in Clients, SendNotify(c)
  PROVE  \A d \in Clients : ClientInv(d)'
<1> USE ConstantsAssumption DEF IInv, TypeOK, ClientType, WorkerType, ServerType,
     peerVars, objectVars, workVars, serverVars
<1>0. /\ \A d \in Clients : Queued(d)' <=> Queued(d)
      /\ \A d \in Clients : Listed(d)' <=> Listed(d)
  BY DEF Queued, Listed, InQueue, SendNotify, workVars, serverVars
<1>a. client'[c].thread = "loop" /\ client'[c].dead = client[c].dead
      /\ handled'[c] = handled[c] + 1
  BY DEF SendNotify
<1>1. \A d \in Clients : d # c => Untouched(d)
  BY <1>0 DEF SendNotify, Untouched, Threads
<1> USE <1>0, <1>a DEF ClientInv, Handshake, Has, SendNotify
<1>2. Handshake(c)'
  OBVIOUS
<1>3. Counted(c)'
  <2>1. Owes(c) /\ ~Owes(c)'
    BY DEF Owes, Dying
  <2>2. reads' = reads /\ handled'[c] = handled[c] + 1
    OBVIOUS
  <2>3. reads[c] \in Nat /\ handled[c] \in Nat /\ Counted(c)
    OBVIOUS
  <2> HIDE DEF SendNotify
  <2> QED BY <2>1, <2>2, <2>3 DEF Counted
<1>4. Dying(c)'
  BY DEF Dying
<1>5. Detached(c)'
  BY DEF Detached, Dying, Lifetime, Joined, Starts
<1>6. Closed(c)'
  BY DEF Closed, Detached, Dying
<1>7. Lifetime(c)'
  BY DEF Lifetime, Joined, Starts, Threads, Dying
<1>8. Owned(c)'
  BY DEF Owned, Lifetime, Joined, Starts, Dying, Detached
<1> HIDE DEF ClientInv, Handshake, Has, SendNotify
<1> QED
  BY <1>1, <1>2, <1>3, <1>4, <1>5, <1>6, <1>7, <1>8, UntouchedInv DEF ClientInv

LEMMA EnqueueInv ==
  ASSUME IInv, NEW c \in Clients, Enqueue(c)
  PROVE  \A d \in Clients : ClientInv(d)'
<1> USE ConstantsAssumption DEF IInv, TypeOK, ClientType, WorkerType, ServerType,
     peerVars, objectVars, workVars, serverVars
<1>0. /\ \A d \in Clients : Queued(d)' <=> Queued(d) \/ d = c
      /\ \A d \in Clients : Listed(d)' <=> Listed(d)
  <2>1. queue \in Seq(Clients \cup {NULL}) /\ queue' = Append(queue, c) /\ clients' = clients
    BY DEF Enqueue
  <2> QED BY <2>1, QueuedAppend DEF Listed
<1>1. \A d \in Clients : d # c => Untouched(d)
  BY <1>0 DEF Enqueue, Untouched, Threads
<1> USE <1>0 DEF ClientInv, Handshake, Has, Enqueue
<1>2. Handshake(c)'
  OBVIOUS
<1>3. Counted(c)'
  BY DEF Counted, Owes, Dying
<1>4. Dying(c)'
  BY DEF Dying
<1>5. Detached(c)'
  BY DEF Detached, Dying, Lifetime, Joined, Starts
<1>6. Closed(c)'
  BY DEF Closed, Detached, Dying
<1>7. Lifetime(c)'
  BY DEF Lifetime, Joined, Starts, Threads, Dying
<1>8. Owned(c)'
  BY DEF Owned, Lifetime, Joined, Starts, Dying, Detached
<1> HIDE DEF ClientInv, Handshake, Has, Enqueue
<1> QED
  BY <1>1, <1>2, <1>3, <1>4, <1>5, <1>6, <1>7, <1>8, UntouchedInv DEF ClientInv

LEMMA WaitLockedInv ==
  ASSUME IInv, NEW c \in Clients, WaitLocked(c)
  PROVE  \A d \in Clients : ClientInv(d)'
<1> USE ConstantsAssumption DEF IInv, TypeOK, ClientType, WorkerType, ServerType,
     peerVars, objectVars, workVars, serverVars
<1>0. /\ \A d \in Clients : Queued(d)' <=> Queued(d)
      /\ \A d \in Clients : Listed(d)' <=> Listed(d)
  BY DEF Queued, Listed, InQueue, WaitLocked, workVars, serverVars
<1>1. \A d \in Clients : d # c => Untouched(d)
  BY <1>0 DEF WaitLocked, Untouched, Threads
<1> USE <1>0 DEF ClientInv, Handshake, Has, WaitLocked
<1>2. Handshake(c)'
  OBVIOUS
<1>3. Counted(c)'
  BY DEF Counted, Owes, Dying
<1>4. Dying(c)'
  BY DEF Dying
<1>5. Detached(c)'
  BY DEF Detached, Dying, Lifetime, Joined, Starts
<1>6. Closed(c)'
  BY DEF Closed, Detached, Dying
<1>7. Lifetime(c)'
  BY DEF Lifetime, Joined, Starts, Threads, Dying
<1>8. Owned(c)'
  BY DEF Owned, Lifetime, Joined, Starts, Dying, Detached
<1> HIDE DEF ClientInv, Handshake, Has, WaitLocked
<1> QED
  BY <1>1, <1>2, <1>3, <1>4, <1>5, <1>6, <1>7, <1>8, UntouchedInv DEF ClientInv

LEMMA WakeUpInv ==
  ASSUME IInv, NEW c \in Clients, WakeUp(c)
  PROVE  \A d \in Clients : ClientInv(d)'
<1> USE ConstantsAssumption DEF IInv, TypeOK, ClientType, WorkerType, ServerType,
     peerVars, objectVars, workVars, serverVars
<1>0. /\ \A d \in Clients : Queued(d)' <=> Queued(d)
      /\ \A d \in Clients : Listed(d)' <=> Listed(d)
  BY DEF Queued, Listed, InQueue, WakeUp, workVars, serverVars
<1>1. \A d \in Clients : d # c => Untouched(d)
  BY <1>0 DEF WakeUp, Untouched, Threads
<1> USE <1>0 DEF ClientInv, Handshake, Has, WakeUp
<1>2. Handshake(c)'
  OBVIOUS
<1>3. Counted(c)'
  BY DEF Counted, Owes, Dying
<1>4. Dying(c)'
  BY DEF Dying
<1>5. Detached(c)'
  BY DEF Detached, Dying, Lifetime, Joined, Starts
<1>6. Closed(c)'
  BY DEF Closed, Detached, Dying
<1>7. Lifetime(c)'
  BY DEF Lifetime, Joined, Starts, Threads, Dying
<1>8. Owned(c)'
  BY DEF Owned, Lifetime, Joined, Starts, Dying, Detached
<1> HIDE DEF ClientInv, Handshake, Has, WakeUp
<1> QED
  BY <1>1, <1>2, <1>3, <1>4, <1>5, <1>6, <1>7, <1>8, UntouchedInv DEF ClientInv

LEMMA DropConnectionInv ==
  ASSUME IInv, NEW c \in Clients, DropConnection(c)
  PROVE  \A d \in Clients : ClientInv(d)'
<1> USE ConstantsAssumption DEF IInv, TypeOK, ClientType, WorkerType, ServerType,
     peerVars, objectVars, workVars, serverVars
<1>0. /\ \A d \in Clients : Queued(d)' <=> Queued(d)
      /\ \A d \in Clients : Listed(d)' <=> Listed(d)
  BY DEF Queued, Listed, InQueue, DropConnection, workVars, serverVars
<1>1. \A d \in Clients : d # c => Untouched(d)
  BY <1>0 DEF DropConnection, Untouched, Threads
<1> USE <1>0 DEF ClientInv, Handshake, Has, DropConnection
<1>2. Handshake(c)'
  OBVIOUS
<1>3. Counted(c)'
  BY DEF Counted, Owes, Dying
<1>4. Dying(c)'
  BY DEF Dying
<1>5. Detached(c)'
  BY DEF Detached, Dying, Lifetime, Joined, Starts
<1>6. Closed(c)'
  BY DEF Closed, Detached, Dying
<1>7. Lifetime(c)'
  BY DEF Lifetime, Joined, Starts, Threads, Dying
<1>8. Owned(c)'
  BY DEF Owned, Lifetime, Joined, Starts, Dying, Detached
<1> HIDE DEF ClientInv, Handshake, Has, DropConnection
<1> QED
  BY <1>1, <1>2, <1>3, <1>4, <1>5, <1>6, <1>7, <1>8, UntouchedInv DEF ClientInv

LEMMA SetExitingInv ==
  ASSUME IInv, NEW c \in Clients, SetExiting(c)
  PROVE  \A d \in Clients : ClientInv(d)'
<1> USE ConstantsAssumption DEF IInv, TypeOK, ClientType, WorkerType, ServerType,
     peerVars, objectVars, workVars, serverVars
<1>0. /\ \A d \in Clients : Queued(d)' <=> Queued(d)
      /\ \A d \in Clients : Listed(d)' <=> Listed(d)
  BY DEF Queued, Listed, InQueue, SetExiting, workVars, serverVars
<1>1. \A d \in Clients : d # c => Untouched(d)
  BY <1>0 DEF SetExiting, Untouched, Threads
<1> USE <1>0 DEF ClientInv, Handshake, Has, SetExiting
<1>2. Handshake(c)'
  OBVIOUS
<1>3. Counted(c)'
  BY DEF Counted, Owes, Dying
<1>4. Dying(c)'
  BY DEF Dying
<1>5. Detached(c)'
  BY DEF Detached, Dying, Lifetime, Joined, Starts
<1>6. Closed(c)'
  BY DEF Closed, Detached, Dying
<1>7. Lifetime(c)'
  BY DEF Lifetime, Joined, Starts, Threads, Dying
<1>8. Owned(c)'
  BY DEF Owned, Lifetime, Joined, Starts, Dying, Detached
<1> HIDE DEF ClientInv, Handshake, Has, SetExiting
<1> QED
  BY <1>1, <1>2, <1>3, <1>4, <1>5, <1>6, <1>7, <1>8, UntouchedInv DEF ClientInv

LEMMA HandleCommandInv ==
  ASSUME IInv, NEW c \in Clients, HandleCommand(c)
  PROVE  \A d \in Clients : ClientInv(d)'
<1> USE ConstantsAssumption DEF IInv, TypeOK, ClientType, WorkerType, ServerType,
     peerVars, objectVars, workVars, serverVars, Answered
<1>0. /\ \A d \in Clients : Queued(d)' <=> Queued(d)
      /\ \A d \in Clients : Listed(d)' <=> Listed(d)
  BY DEF Queued, Listed, InQueue, HandleCommand, workVars, serverVars
<1>a. /\ client' = client /\ handled'[c] = handled[c] + 1 /\ reads' = reads
      /\ worker.client = c /\ worker.at = "deciding"
      /\ worker'.client = c /\ worker'.at = "unlocking"
  BY DEF HandleCommand
<1>1. \A d \in Clients : d # c => Untouched(d)
  BY <1>0 DEF HandleCommand, Untouched, Threads
<1> USE <1>0, <1>a DEF ClientInv, Handshake, Has, HandleCommand
<1>2. Handshake(c)'
  OBVIOUS
<1>3. Counted(c)'
  <2>1. Owes(c) /\ ~Owes(c)'
    BY DEF Owes, Dying
  <2>2. reads' = reads /\ handled'[c] = handled[c] + 1
    OBVIOUS
  <2>3. reads[c] \in Nat /\ handled[c] \in Nat /\ Counted(c)
    OBVIOUS
  <2> HIDE DEF HandleCommand
  <2> QED BY <2>1, <2>2, <2>3 DEF Counted
<1>4. Dying(c)'
  BY DEF Dying
<1>5. Detached(c)'
  BY DEF Detached, Dying, Lifetime, Joined, Starts
<1>6. Closed(c)'
  BY DEF Closed, Detached, Dying
<1>7. Lifetime(c)'
  BY DEF Lifetime, Joined, Starts, Threads, Dying
<1>8. Owned(c)'
  BY DEF Owned, Lifetime, Joined, Starts, Dying, Detached
<1> HIDE DEF ClientInv, Handshake, Has, HandleCommand
<1> QED
  BY <1>1, <1>2, <1>3, <1>4, <1>5, <1>6, <1>7, <1>8, UntouchedInv DEF ClientInv

LEMMA BeginNqConnectInv ==
  ASSUME IInv, NEW c \in Clients, BeginNqConnect(c)
  PROVE  \A d \in Clients : ClientInv(d)'
<1> USE ConstantsAssumption DEF IInv, TypeOK, ClientType, WorkerType, ServerType,
     peerVars, objectVars, workVars, serverVars, Answered
<1>0. /\ \A d \in Clients : Queued(d)' <=> Queued(d)
      /\ \A d \in Clients : Listed(d)' <=> Listed(d)
  BY DEF Queued, Listed, InQueue, BeginNqConnect, workVars, serverVars
<1>a. /\ client' = client /\ reads' = reads
      /\ worker.client = c /\ worker.at = "deciding"
      /\ \/ handled'[c] = handled[c] + 1 /\ worker'.client = c /\ worker'.at = "unlocking"
         \/ handled'[c] = handled[c] /\ worker'.client = c /\ worker'.at = "detaching"
  BY DEF BeginNqConnect
<1>1. \A d \in Clients : d # c => Untouched(d)
  BY <1>0 DEF BeginNqConnect, Untouched, Threads
<1> USE <1>0, <1>a DEF ClientInv, Handshake, Has, BeginNqConnect
<1>2. Handshake(c)'
  OBVIOUS
<1>3. Counted(c)'
  <2>1. Owes(c) /\ (Owes(c)' <=> worker'.at = "detaching")
    BY DEF Owes, Dying
  <2>2. /\ reads' = reads
        /\ handled'[c] = IF worker'.at = "detaching" THEN handled[c] ELSE handled[c] + 1
    OBVIOUS
  <2>3. reads[c] \in Nat /\ handled[c] \in Nat /\ Counted(c)
    OBVIOUS
  <2> HIDE DEF BeginNqConnect
  <2> QED BY <2>1, <2>2, <2>3 DEF Counted
<1>4. Dying(c)'
  BY DEF Dying
<1>5. Detached(c)'
  BY DEF Detached, Dying, Lifetime, Joined, Starts
<1>6. Closed(c)'
  BY DEF Closed, Detached, Dying
<1>7. Lifetime(c)'
  BY DEF Lifetime, Joined, Starts, Threads, Dying
<1>8. Owned(c)'
  BY DEF Owned, Lifetime, Joined, Starts, Dying, Detached
<1> HIDE DEF ClientInv, Handshake, Has, BeginNqConnect
<1> QED
  BY <1>1, <1>2, <1>3, <1>4, <1>5, <1>6, <1>7, <1>8, UntouchedInv DEF ClientInv

LEMMA DetachInv ==
  ASSUME IInv, NEW c \in Clients, Detach(c)
  PROVE  \A d \in Clients : ClientInv(d)'
<1> USE ConstantsAssumption DEF IInv, TypeOK, ClientType, WorkerType, ServerType,
     peerVars, objectVars, workVars, serverVars
<1>0. /\ \A d \in Clients : Queued(d)' <=> Queued(d)
      /\ \A d \in Clients : Listed(d)' <=> Listed(d)
  BY DEF Queued, Listed, InQueue, Detach, workVars, serverVars
<1>a. /\ client'[c].thread = client[c].thread
      /\ client'[c].dead = client[c].dead
      /\ client'[c].exiting = client[c].exiting
      /\ client'[c].mutex = client[c].mutex
      /\ client'[c].locked = client[c].locked
      /\ worker.client = c /\ worker.at = "detaching"
      /\ worker'.client = c /\ worker'.at = "registering"
  BY DEF Detach
<1>1. \A d \in Clients : d # c => Untouched(d)
  BY <1>0 DEF Detach, Untouched, Threads
<1> USE <1>0, <1>a DEF ClientInv, Handshake, Has, Detach
<1>2. Handshake(c)'
  OBVIOUS
<1>3. Counted(c)'
  BY DEF Counted, Owes, Dying
<1>4. Dying(c)'
  BY DEF Dying
<1>5. Detached(c)'
  <2>1. client[c].thread \in {"queued", "waiting"} /\ ~Queued(c)
    OBVIOUS
  <2>2. Listed(c)
    BY <2>1 DEF Lifetime, Dying
  <2>3. ~client'[c].connected
    BY <2>2 DEF Listed, InQueue
  <2> QED BY <2>1, <2>3 DEF Detached
<1>6. Closed(c)'
  BY DEF Closed, Detached, Dying
<1>7. Lifetime(c)'
  BY DEF Lifetime, Joined, Starts, Threads, Dying
<1>8. Owned(c)'
  BY DEF Owned, Lifetime, Joined, Starts, Dying, Detached
<1> HIDE DEF ClientInv, Handshake, Has, Detach
<1> QED
  BY <1>1, <1>2, <1>3, <1>4, <1>5, <1>6, <1>7, <1>8, UntouchedInv DEF ClientInv

LEMMA RegisterInv ==
  ASSUME IInv, NEW c \in Clients, Register(c)
  PROVE  \A d \in Clients : ClientInv(d)'
<1> USE ConstantsAssumption DEF IInv, TypeOK, ClientType, WorkerType, ServerType,
     peerVars, objectVars, workVars, serverVars, Answered
<1>0. /\ \A d \in Clients : Queued(d)' <=> Queued(d)
      /\ \A d \in Clients : Listed(d)' <=> Listed(d)
  BY DEF Queued, Listed, InQueue, Register, workVars, serverVars
<1>1. \A d \in Clients : d # c => Untouched(d)
  BY <1>0 DEF Register, Untouched, Threads
<1> USE <1>0 DEF ClientInv, Handshake, Has, Register
<1>2. Handshake(c)'
  OBVIOUS
<1>3. Counted(c)'
  BY DEF Counted, Owes, Dying
<1>4. Dying(c)'
  BY DEF Dying
<1>5. Detached(c)'
  BY DEF Detached, Dying, Lifetime, Joined, Starts
<1>6. Closed(c)'
  BY DEF Closed, Detached, Dying
<1>7. Lifetime(c)'
  BY DEF Lifetime, Joined, Starts, Threads, Dying
<1>8. Owned(c)'
  BY DEF Owned, Lifetime, Joined, Starts, Dying, Detached
<1> HIDE DEF ClientInv, Handshake, Has, Register
<1> QED
  BY <1>1, <1>2, <1>3, <1>4, <1>5, <1>6, <1>7, <1>8, UntouchedInv DEF ClientInv

LEMMA UnlockInv ==
  ASSUME IInv, NEW c \in Clients, Unlock(c)
  PROVE  \A d \in Clients : ClientInv(d)'
<1> USE ConstantsAssumption DEF IInv, TypeOK, ClientType, WorkerType, ServerType,
     peerVars, objectVars, workVars, serverVars
<1>0. /\ \A d \in Clients : Queued(d)' <=> Queued(d)
      /\ \A d \in Clients : Listed(d)' <=> Listed(d)
  BY DEF Queued, Listed, InQueue, Unlock, workVars, serverVars
<1>1. \A d \in Clients : d # c => Untouched(d)
  BY <1>0 DEF Unlock, Untouched, Threads
<1> USE <1>0 DEF ClientInv, Handshake, Has, Unlock
<1>2. Handshake(c)'
  OBVIOUS
<1>3. Counted(c)'
  BY DEF Counted, Owes, Dying
<1>4. Dying(c)'
  BY DEF Dying
<1>5. Detached(c)'
  BY DEF Detached, Dying, Lifetime, Joined, Starts
<1>6. Closed(c)'
  BY DEF Closed, Detached, Dying
<1>7. Lifetime(c)'
  BY DEF Lifetime, Joined, Starts, Threads, Dying
<1>8. Owned(c)'
  BY DEF Owned, Lifetime, Joined, Starts, Dying, Detached
<1> HIDE DEF ClientInv, Handshake, Has, Unlock
<1> QED
  BY <1>1, <1>2, <1>3, <1>4, <1>5, <1>6, <1>7, <1>8, UntouchedInv DEF ClientInv

LEMMA SignalInv ==
  ASSUME IInv, NEW c \in Clients, Signal(c)
  PROVE  \A d \in Clients : ClientInv(d)'
<1> USE ConstantsAssumption DEF IInv, TypeOK, ClientType, WorkerType, ServerType,
     peerVars, objectVars, workVars, serverVars
<1>0. /\ \A d \in Clients : Queued(d)' <=> Queued(d)
      /\ \A d \in Clients : Listed(d)' <=> Listed(d)
  BY DEF Queued, Listed, InQueue, Signal, workVars, serverVars
<1>1. \A d \in Clients : d # c => Untouched(d)
  BY <1>0 DEF Signal, Untouched, Threads
<1> USE <1>0 DEF ClientInv, Handshake, Has, Signal
<1>2. Handshake(c)'
  OBVIOUS
<1>3. Counted(c)'
  BY DEF Counted, Owes, Dying
<1>4. Dying(c)'
  BY DEF Dying
<1>5. Detached(c)'
  BY DEF Detached, Dying, Lifetime, Joined, Starts
<1>6. Closed(c)'
  BY DEF Closed, Detached, Dying
<1>7. Lifetime(c)'
  BY DEF Lifetime, Joined, Starts, Threads, Dying
<1>8. Owned(c)'
  BY DEF Owned, Lifetime, Joined, Starts, Dying, Detached
<1> HIDE DEF ClientInv, Handshake, Has, Signal
<1> QED
  BY <1>1, <1>2, <1>3, <1>4, <1>5, <1>6, <1>7, <1>8, UntouchedInv DEF ClientInv

LEMMA ConnectInv ==
  ASSUME IInv, NEW c \in Clients, Connect(c)
  PROVE  \A d \in Clients : ClientInv(d)'
<1> USE ConstantsAssumption DEF IInv, TypeOK, ClientType, WorkerType, ServerType,
     peerVars, objectVars, workVars, serverVars
<1>0. /\ \A d \in Clients : Queued(d)' <=> Queued(d)
      /\ \A d \in Clients : Listed(d)' <=> Listed(d)
  BY DEF Queued, Listed, InQueue, Connect, workVars, serverVars
<1>1. \A d \in Clients : d # c => Untouched(d)
  BY <1>0 DEF Connect, Untouched, Threads
<1> USE <1>0 DEF ClientInv, Handshake, Has, Connect
<1>2. Handshake(c)'
  OBVIOUS
<1>3. Counted(c)'
  BY DEF Counted, Owes, Dying
<1>4. Dying(c)'
  BY DEF Dying
<1>5. Detached(c)'
  BY DEF Detached, Dying, Lifetime, Joined, Starts
<1>6. Closed(c)'
  BY DEF Closed, Detached, Dying
<1>7. Lifetime(c)'
  BY DEF Lifetime, Joined, Starts, Threads, Dying
<1>8. Owned(c)'
  BY DEF Owned, Lifetime, Joined, Starts, Dying, Detached
<1> HIDE DEF ClientInv, Handshake, Has, Connect
<1> QED
  BY <1>1, <1>2, <1>3, <1>4, <1>5, <1>6, <1>7, <1>8, UntouchedInv DEF ClientInv

LEMMA LeaveInv ==
  ASSUME IInv, NEW c \in Clients, Leave(c)
  PROVE  \A d \in Clients : ClientInv(d)'
<1> USE ConstantsAssumption DEF IInv, TypeOK, ClientType, WorkerType, ServerType,
     peerVars, objectVars, workVars, serverVars
<1>0. /\ \A d \in Clients : Queued(d)' <=> Queued(d)
      /\ \A d \in Clients : Listed(d)' <=> Listed(d)
  BY DEF Queued, Listed, InQueue, Leave, workVars, serverVars
<1>1. \A d \in Clients : d # c => Untouched(d)
  BY <1>0 DEF Leave, Untouched, Threads
<1> USE <1>0 DEF ClientInv, Handshake, Has, Leave
<1>2. Handshake(c)'
  OBVIOUS
<1>3. Counted(c)'
  BY DEF Counted, Owes, Dying
<1>4. Dying(c)'
  BY DEF Dying
<1>5. Detached(c)'
  BY DEF Detached, Dying, Lifetime, Joined, Starts
<1>6. Closed(c)'
  BY DEF Closed, Detached, Dying
<1>7. Lifetime(c)'
  BY DEF Lifetime, Joined, Starts, Threads, Dying
<1>8. Owned(c)'
  BY DEF Owned, Lifetime, Joined, Starts, Dying, Detached
<1> HIDE DEF ClientInv, Handshake, Has, Leave
<1> QED
  BY <1>1, <1>2, <1>3, <1>4, <1>5, <1>6, <1>7, <1>8, UntouchedInv DEF ClientInv

LEMMA SessionEndsInv ==
  ASSUME IInv, NEW c \in Clients, SessionEnds(c)
  PROVE  \A d \in Clients : ClientInv(d)'
<1> USE ConstantsAssumption DEF IInv, TypeOK, ClientType, WorkerType, ServerType,
     peerVars, objectVars, workVars, serverVars
<1>0. /\ \A d \in Clients : Queued(d)' <=> Queued(d)
      /\ \A d \in Clients : Listed(d)' <=> Listed(d)
  BY DEF Queued, Listed, InQueue, SessionEnds, workVars, serverVars
<1>1. \A d \in Clients : d # c => Untouched(d)
  BY <1>0 DEF SessionEnds, Untouched, Threads
<1> USE <1>0 DEF ClientInv, Handshake, Has, SessionEnds
<1>2. Handshake(c)'
  OBVIOUS
<1>3. Counted(c)'
  BY DEF Counted, Owes, Dying
<1>4. Dying(c)'
  BY DEF Dying
<1>5. Detached(c)'
  BY DEF Detached, Dying, Lifetime, Joined, Starts
<1>6. Closed(c)'
  BY DEF Closed, Detached, Dying
<1>7. Lifetime(c)'
  BY DEF Lifetime, Joined, Starts, Threads, Dying
<1>8. Owned(c)'
  BY DEF Owned, Lifetime, Joined, Starts, Dying, Detached
<1> HIDE DEF ClientInv, Handshake, Has, SessionEnds
<1> QED
  BY <1>1, <1>2, <1>3, <1>4, <1>5, <1>6, <1>7, <1>8, UntouchedInv DEF ClientInv

LEMMA AcceptInv ==
  ASSUME IInv, NEW c \in Clients, Accept(c)
  PROVE  \A d \in Clients : ClientInv(d)'
<1> USE ConstantsAssumption DEF IInv, TypeOK, ClientType, WorkerType, ServerType,
     peerVars, objectVars, workVars, serverVars, Waiting
<1>0. /\ \A d \in Clients : Queued(d)' <=> Queued(d)
      /\ \A d \in Clients : Listed(d)' <=> Listed(d)
  BY DEF Queued, Listed, InQueue, Accept, workVars, serverVars
<1>1. \A d \in Clients : d # c => Untouched(d)
  BY <1>0 DEF Accept, Untouched, Threads
<1> USE <1>0 DEF ClientInv, Handshake, Has, Accept
<1>2. Handshake(c)'
  OBVIOUS
<1>3. Counted(c)'
  BY DEF Counted, Owes, Dying
<1>4. Dying(c)'
  BY DEF Dying
<1>5. Detached(c)'
  BY DEF Detached, Dying, Lifetime, Joined, Starts
<1>6. Closed(c)'
  BY DEF Closed, Detached, Dying
<1>7. Lifetime(c)'
  BY DEF Lifetime, Joined, Starts, Threads, Dying
<1>8. Owned(c)'
  BY DEF Owned, Lifetime, Joined, Starts, Dying, Detached
<1> HIDE DEF ClientInv, Handshake, Has, Accept
<1> QED
  BY <1>1, <1>2, <1>3, <1>4, <1>5, <1>6, <1>7, <1>8, UntouchedInv DEF ClientInv

LEMMA AddClientInv ==
  ASSUME IInv, NEW c \in Clients, AddClient(c)
  PROVE  \A d \in Clients : ClientInv(d)'
<1> USE ConstantsAssumption DEF IInv, TypeOK, ClientType, WorkerType, ServerType,
     peerVars, objectVars, workVars, serverVars
<1>0. /\ \A d \in Clients : Queued(d)' <=> Queued(d)
      /\ \A d \in Clients : Listed(d)' <=> Listed(d) \/ d = c
  <2>1. clients \in Seq(Clients) /\ clients' = Append(clients, c) /\ queue' = queue
    BY DEF AddClient
  <2>2. \A d : InQueue(clients', d) <=> InQueue(clients, d) \/ c = d
    BY <2>1, InAppend
  <2> QED BY <2>1, <2>2 DEF Queued, Listed, InQueue
<1>1. \A d \in Clients : d # c => Untouched(d)
  BY <1>0 DEF AddClient, Untouched, Threads
<1> USE <1>0 DEF ClientInv, Handshake, Has, AddClient
<1>2. Handshake(c)'
  OBVIOUS
<1>3. Counted(c)'
  BY DEF Counted, Owes, Dying
<1>4. Dying(c)'
  BY DEF Dying
<1>5. Detached(c)'
  BY DEF Detached, Dying, Lifetime, Joined, Starts
<1>6. Closed(c)'
  BY DEF Closed, Detached, Dying
<1>7. Lifetime(c)'
  BY DEF Lifetime, Joined, Starts, Threads, Dying
<1>8. Owned(c)'
  BY DEF Owned, Lifetime, Joined, Starts, Dying, Detached
<1> HIDE DEF ClientInv, Handshake, Has, AddClient
<1> QED
  BY <1>1, <1>2, <1>3, <1>4, <1>5, <1>6, <1>7, <1>8, UntouchedInv DEF ClientInv

LEMMA StartClientInv ==
  ASSUME IInv, NEW c \in Clients, StartClient(c)
  PROVE  \A d \in Clients : ClientInv(d)'
<1> USE ConstantsAssumption DEF IInv, TypeOK, ClientType, WorkerType, ServerType,
     peerVars, objectVars, workVars, serverVars
<1>0. /\ \A d \in Clients : Queued(d)' <=> Queued(d)
      /\ \A d \in Clients : Listed(d)' <=> Listed(d)
  BY DEF Queued, Listed, InQueue, StartClient, workVars, serverVars
<1>a. client'[c].thread = "loop" /\ client'[c].dead = client[c].dead
      /\ client[c].thread = "none"
      /\ client'[c].mutex = client[c].mutex
      /\ client'[c].locked = client[c].locked
  BY DEF StartClient, ClientInv, Lifetime, Starts
<1>1. \A d \in Clients : d # c => Untouched(d)
  BY <1>0 DEF StartClient, Untouched, Threads
<1> USE <1>0, <1>a DEF ClientInv, Handshake, Has, StartClient
<1>2. Handshake(c)'
  OBVIOUS
<1>3. Counted(c)'
  <2>1. ~Owes(c) /\ ~Owes(c)'
    BY DEF Owes, Dying
  <2>2. reads' = reads /\ handled' = handled
    OBVIOUS
  <2>3. reads[c] \in Nat /\ handled[c] \in Nat /\ Counted(c)
    OBVIOUS
  <2> HIDE DEF StartClient
  <2> QED BY <2>1, <2>2, <2>3 DEF Counted
<1>4. Dying(c)'
  BY DEF Dying
<1>5. Detached(c)'
  BY DEF Detached, Dying, Lifetime, Joined, Starts
<1>6. Closed(c)'
  BY DEF Closed, Detached, Dying
<1>7. Lifetime(c)'
  BY DEF Lifetime, Joined, Starts, Threads, Dying
<1>8. Owned(c)'
  BY DEF Owned, Lifetime, Joined, Starts, Dying, Detached
<1> HIDE DEF ClientInv, Handshake, Has, StartClient
<1> QED
  BY <1>1, <1>2, <1>3, <1>4, <1>5, <1>6, <1>7, <1>8, UntouchedInv DEF ClientInv

LEMMA JoinAndDeleteInv ==
  ASSUME IInv, NEW c \in Clients, JoinAndDelete(c)
  PROVE  \A d \in Clients : ClientInv(d)'
<1> USE ConstantsAssumption DEF IInv, TypeOK, ClientType, WorkerType, ServerType,
     peerVars, objectVars, workVars, serverVars
<1>0. /\ \A d \in Clients : Queued(d)' <=> Queued(d)
      /\ \A d \in Clients : Listed(d)' <=> Listed(d)
  BY DEF Queued, Listed, InQueue, JoinAndDelete, workVars, serverVars
<1>1. \A d \in Clients : d # c => Untouched(d)
  BY <1>0 DEF JoinAndDelete, Untouched, Threads
<1> USE <1>0 DEF ClientInv, Handshake, Has, JoinAndDelete
<1>2. Handshake(c)'
  OBVIOUS
<1>3. Counted(c)'
  BY DEF Counted, Owes, Dying
<1>4. Dying(c)'
  BY DEF Dying
<1>5. Detached(c)'
  BY DEF Detached, Dying, Lifetime, Joined, Starts
<1>6. Closed(c)'
  BY DEF Closed, Detached, Dying
<1>7. Lifetime(c)'
  BY DEF Lifetime, Joined, Starts, Threads, Dying
<1>8. Owned(c)'
  BY DEF Owned, Lifetime, Joined, Starts, Dying, Detached
<1> HIDE DEF ClientInv, Handshake, Has, JoinAndDelete
<1> QED
  BY <1>1, <1>2, <1>3, <1>4, <1>5, <1>6, <1>7, <1>8, UntouchedInv DEF ClientInv

\* The worker takes a client from the queue: nobody else has it then.
LEMMA PopInv ==
  ASSUME IInv, Pop
  PROVE  \A d \in Clients : ClientInv(d)'
<1> SUFFICES ASSUME NEW d \in Clients
             PROVE  ClientInv(d)'
  OBVIOUS
<1> USE ConstantsAssumption
<1>0. /\ queue \in Seq(Clients \cup {NULL}) /\ Once(queue)
      /\ queue # <<>> /\ queue' = Tail(queue)
  BY DEF IInv, TypeOK, Threads, Pop
<1>1. Queued(d)' <=> Queued(d) /\ d # Head(queue)
  <2>1. InQueue(Tail(queue), d) <=> InQueue(queue, d) /\ d # Head(queue)
    BY <1>0, InTail
  <2> QED BY <1>0, <2>1 DEF Queued, InQueue
<1>2. d = Head(queue) => Queued(d)
  BY <1>0 DEF Queued
<1>3. /\ worker.at = "popping" /\ worker.client = NULL
      /\ worker'.client = Head(queue)
      /\ Head(queue) # NULL => worker'.at = "deciding"
  BY DEF IInv, TypeOK, WorkerType, Pop
<1>4. UNCHANGED <<peerVars, client, objectVars, serverVars>> /\ (Listed(d)' <=> Listed(d))
  BY DEF Pop, Listed, InQueue, serverVars
<1>5. CASE d # Head(queue)
  <2>1. Untouched(d)
    BY <1>1, <1>3, <1>4, <1>5
       DEF Untouched, peerVars, objectVars, serverVars
  <2> QED BY <2>1, UntouchedInv DEF IInv
<1>6. CASE d = Head(queue)
  <2>1. /\ Queued(d) /\ ~Queued(d)' /\ d # NULL
        /\ worker.client # d /\ worker'.client = d /\ worker'.at = "deciding"
    BY <1>1, <1>2, <1>3, <1>6
  <2>2. /\ client' = client /\ reads' = reads /\ handled' = handled
        /\ freed' = freed /\ connection' = connection /\ device' = device
        /\ server' = server /\ ClientInv(d)
    BY <1>4 DEF peerVars, objectVars, serverVars, IInv
  <2>3. Handshake(d)'
    BY <2>1, <2>2 DEF ClientInv, Handshake, Has
  <2>4. Counted(d)'
    <3>1. Owes(d)' <=> Owes(d)
      BY <2>1, <2>2 DEF Owes
    <3> QED BY <2>2, <3>1 DEF ClientInv, Counted
  <2>5. Dying(d)' /\ Detached(d)' /\ Closed(d)'
    BY <2>1, <2>2 DEF ClientInv, Dying, Detached, Closed
  <2>6. Lifetime(d)' /\ Owned(d)'
    BY <1>4, <2>2 DEF ClientInv, Lifetime, Joined, Starts, Owned
  <2> QED BY <2>3, <2>4, <2>5, <2>6 DEF ClientInv
<1> QED
  BY <1>5, <1>6

\* The server thread takes a marked client from the list, to join it.
LEMMA ReapNextInv ==
  ASSUME IInv, ReapNext
  PROVE  \A d \in Clients : ClientInv(d)'
<1> SUFFICES ASSUME NEW d \in Clients
             PROVE  ClientInv(d)'
  OBVIOUS
<1> DEFINE c == clients[server.it]
<1>0. /\ server \in ServerType /\ server.it \in 1..Len(clients) /\ c \in Clients
      /\ server.at = "reaping" /\ server.client = NULL /\ NULL \notin Clients
      /\ clients \in Seq(Clients) /\ Once(clients)
  BY ConstantsAssumption DEF IInv, TypeOK, Threads, ReapNext, ServerType
<1>1. /\ client' = client /\ reads' = reads /\ handled' = handled
      /\ freed' = freed /\ connection' = connection /\ device' = device
      /\ worker' = worker /\ ClientInv(d) /\ (Queued(d)' <=> Queued(d))
  BY DEF ReapNext, peerVars, objectVars, workVars, IInv, Queued
<1>2. CASE ~client[c].exiting
  <2>1. server'.client = NULL /\ clients' = clients
    BY <1>0, <1>2 DEF ReapNext, ServerType
  <2>2. Untouched(d)
    BY <1>0, <1>1, <2>1 DEF Untouched, Listed, InQueue
  <2> QED BY <1>1, <2>2, UntouchedInv
<1>3. CASE client[c].exiting
  <2>1. /\ server'.client = c /\ server'.at = "joining" /\ clients' = Erase(server.it)
    BY <1>0, <1>3 DEF ReapNext, ServerType
  <2>2. Listed(d)' <=> Listed(d) /\ d # c
    <3>1. InQueue(Erase(server.it), d) <=> InQueue(clients, d) /\ d # c
      BY <1>0, Erases
    <3> QED BY <2>1, <3>1 DEF Listed, InQueue
  <2>3. CASE d # c
    <3>1. Untouched(d)
      BY <1>0, <1>1, <2>1, <2>2, <2>3 DEF Untouched
    <3> QED BY <1>1, <3>1, UntouchedInv
  <2>4. CASE d = c
    <3>1. Listed(d)
      BY <1>0, <2>4 DEF Listed, InQueue
    <3>2. Handshake(d)' /\ Counted(d)'
      BY <1>1 DEF ClientInv, Handshake, Has, Counted, Owes
    <3>3. Dying(d)' /\ Detached(d)' /\ Closed(d)' /\ Owned(d)'
      BY <1>1 DEF ClientInv, Dying, Detached, Closed, Owned
    <3>4. Lifetime(d)'
      BY <1>0, <1>1, <1>3, <2>1, <2>2, <2>4, <3>1
         DEF ClientInv, Lifetime, Joined, Starts, Dying
    <3> QED BY <3>2, <3>3, <3>4 DEF ClientInv
  <2> QED BY <2>3, <2>4
<1> QED
  BY <1>2, <1>3

\* Steps that are about no client.
LEMMA ServerAloneInv ==
  ASSUME IInv,
         \/ MainThread \/ Fault \/ Listen \/ ListenFails \/ AcceptFails \/ SelectFails
         \/ Stop \/ BeginReap \/ EndReap
  PROVE  \A d \in Clients : ClientInv(d)'
<1> SUFFICES ASSUME NEW d \in Clients
             PROVE  Untouched(d)
  BY UntouchedInv DEF IInv
<1>1. /\ UNCHANGED <<client, connection, reads, handled, freed, device, clients>>
      /\ server'.client = server.client /\ worker'.client = worker.client
  BY DEF IInv, TypeOK, ServerType, WorkerType, MainThread, StartServer, OpenProxy,
       Fault,
       Listen, ListenFails, AcceptFails, SelectFails, Stop, Stopped, BeginReap, EndReap,
       peerVars, objectVars, workVars, serverVars
<1>2. worker.client = d => worker'.at = worker.at
  <2>1. worker' = worker \/ worker.client = NULL
    BY DEF IInv, TypeOK, Threads, MainThread, StartServer, OpenProxy, Fault, Listen,
         ListenFails, AcceptFails, SelectFails, Stop, Stopped, BeginReap, EndReap,
         workVars
  <2> QED BY <2>1, ConstantsAssumption
<1>3. server.client = d => server'.at = server.at
  <2>1. server' = server \/ server.client = NULL
    BY DEF IInv, TypeOK, Threads, MainThread, StartServer, OpenProxy, Fault, Listen,
         ListenFails, AcceptFails, SelectFails, Stop, Stopped, BeginReap, EndReap,
         serverVars
  <2> QED BY <2>1, ConstantsAssumption
<1>4. Queued(d)' <=> Queued(d)
  <2>1. CASE UNCHANGED queue
    BY <2>1 DEF Queued
  <2>2. CASE SelectFails
    <3>1. /\ queue \in Seq(Clients \cup {NULL}) /\ queue' = Append(queue, NULL)
          /\ NULL \in Clients \cup {NULL} /\ d # NULL
      BY <2>2, ConstantsAssumption DEF SelectFails, IInv, TypeOK
    <3>2. InQueue(Append(queue, NULL), d) <=> InQueue(queue, d)
      BY <3>1, InAppend
    <3> QED BY <3>1, <3>2 DEF Queued, InQueue
  <2> QED
    BY <2>1, <2>2 DEF MainThread, StartServer, OpenProxy, Fault, Listen, ListenFails,
         AcceptFails, Stop, BeginReap, EndReap, workVars
<1> QED
  BY <1>1, <1>2, <1>3, <1>4 DEF Untouched, Listed, InQueue

\* The initial states.
LEMMA InitInv == Init => IInv
<1> SUFFICES ASSUME Init
             PROVE  IInv
  OBVIOUS
<1> USE ConstantsAssumption DEF Init
<1>1. TypeOK
  <2>1. client \in [Clients -> ClientType]
    BY DEF ClientType, Commands
  <2>2. worker \in WorkerType /\ server \in ServerType
    BY DEF WorkerType, ServerType
  <2>3. queue \in Seq(Clients \cup {NULL}) /\ clients \in Seq(Clients)
    OBVIOUS
  <2> QED BY <2>1, <2>2, <2>3 DEF TypeOK
<1>2. Threads
  BY DEF Threads, Once
<1>3. ASSUME NEW c \in Clients
      PROVE  ClientInv(c)
  BY DEF ClientInv, Handshake, Has, Queued, Counted, Owes, Dying, Detached, Closed,
       Lifetime, Listed, InQueue, Joined, Starts, Owned
<1> QED
  BY <1>1, <1>2, <1>3 DEF IInv

\* IInv is inductive.
LEMMA StepInv == IInv /\ [Next]_vars => IInv'
<1> SUFFICES ASSUME IInv, [Next]_vars
             PROVE  IInv'
  OBVIOUS
<1>1. CASE UNCHANGED vars
  BY <1>1 DEF vars, IInv, TypeOK, Threads, Once, ClientInv, Handshake, Has, Queued,
       Counted, Owes, Dying, Detached, Closed, Lifetime, Listed, InQueue, Joined,
       Starts, Owned
<1>2. CASE Next
  <2>1. TypeOK'
    BY <1>2, ClientThreadType, WorkerStepType, ServerStepType, OtherStepType
       DEF IInv, Next
  <2>2. Threads'
    BY <1>2, ThreadsStep
  <2>3. \A d \in Clients : ClientInv(d)'
    <3>1. ASSUME NEW c \in Clients, ClientThread(c)
          PROVE  \A d \in Clients : ClientInv(d)'
      BY <3>1, TestDeadInv, ReadCommandInv, ReadFailsInv, SendNotifyInv, EnqueueInv,
         WaitLockedInv, WakeUpInv DEF ClientThread
    <3>2. CASE WorkerThread
      BY <3>2, PopInv, DropConnectionInv, SetExitingInv, HandleCommandInv,
         BeginNqConnectInv, DetachInv, RegisterInv, UnlockInv, SignalInv
         DEF WorkerThread
    <3>3. CASE ServerThread
      BY <3>3, ReapNextInv, AcceptInv, AddClientInv, StartClientInv, JoinAndDeleteInv,
         ServerAloneInv DEF ServerThread, ServerWorks
    <3>4. CASE MainThread \/ World
      BY <3>4, ServerAloneInv, ConnectInv, LeaveInv, SessionEndsInv DEF World
    <3> QED BY <1>2, <3>1, <3>2, <3>3, <3>4 DEF Next
  <2> QED BY <2>1, <2>2, <2>3 DEF IInv
<1> QED
  BY <1>1, <1>2

\* IInv is an invariant.
LEMMA Inductive == Spec => []IInv
BY InitInv, StepInv, PTL DEF Spec

\* No Client is used after it has been deleted by the server thread, whatever
\* the interleaving of its thread, the worker and the reaper; a Client is
\* deleted only after its device has been closed, and its Connection has one
\* owner (Server.cpp:63-75, Server.cpp:190-233, Client.h:59).
THEOREM ServerInvariant == Spec => []Inv
<1>1. IInv => Inv
  <2> SUFFICES ASSUME IInv
               PROVE  Inv
    OBVIOUS
  <2>1. NoUseAfterFree
    <3> SUFFICES ASSUME NEW c \in freed
                 PROVE  /\ worker.client # c /\ server.client # c
                        /\ ~Queued(c)
                        /\ \A i \in DOMAIN clients : clients[i] # c
                        /\ client[c].thread = "ended"
      BY DEF NoUseAfterFree
    <3>1. c \in Clients /\ ClientInv(c) /\ c # NULL
      BY ConstantsAssumption DEF IInv, TypeOK
    <3>2. client[c].thread = "ended"
      BY <3>1 DEF ClientInv, Lifetime
    <3>3. worker.client # c /\ ~Queued(c)
      BY <3>1, <3>2 DEF ClientInv, Handshake, Has
    <3>4. server.client # c
      BY <3>1, <3>2 DEF ClientInv, Lifetime, Joined, Starts, IInv, Threads
    <3>5. \A i \in DOMAIN clients : clients[i] # c
      BY <3>1, <3>2, <3>4 DEF ClientInv, Lifetime, Listed, InQueue
    <3> QED BY <3>2, <3>3, <3>4, <3>5
  <2>2. ClosedBeforeFree
    BY DEF ClosedBeforeFree, IInv, TypeOK, ClientInv, Closed, Lifetime
  <2>3. OneOwner
    BY DEF OneOwner, IInv, ClientInv, Owned
  <2> QED BY <2>1, <2>2, <2>3 DEF Inv, IInv
<1> QED
  BY <1>1, Inductive, PTL

\* A client's commands are handled one by one: each is handled exactly once,
\* and its thread reads the next one only then, however its wait is woken
\* (Client.h:89-108).
THEOREM AnsweredInTurn == Spec => []HandledBeforeNext
<1>1. IInv => HandledBeforeNext
  <2> SUFFICES ASSUME IInv, NEW c \in Clients
               PROVE  /\ handled[c] <= reads[c]
                      /\ client[c].thread \in {"loop", "reading", "ended"} =>
                           handled[c] = reads[c]
                      /\ Queued(c) => worker.client # c
    BY DEF HandledBeforeNext
  <2>1. ClientInv(c) /\ reads[c] \in Nat /\ handled[c] \in Nat
    BY DEF IInv, TypeOK
  <2>2. client[c].thread \in {"loop", "reading", "ended"} => ~Owes(c)
    BY <2>1 DEF ClientInv, Handshake, Has, Owes
  <2> QED BY <2>1, <2>2 DEF ClientInv, Handshake, Counted
<1> QED
  BY <1>1, Inductive, PTL

=============================================================================
