----------------------------- MODULE ServiceLock -----------------------------
(***************************************************************************)
(* The services of RootPA on Android and the lock that makes each of them   *)
(* wait for the others: clients lock the session to the content management  *)
(* TA and execute commands, ask for a version, or have a thread started     *)
(* that provisions; a timer of each service takes the lock back.            *)
(*                                                                         *)
(* The lock and the session (handle_) belong to the process, the timer and  *)
(* the flag that tells whether the lock has opened the session to one       *)
(* service.  The methods of a service are synchronized, the task of a timer *)
(* is not.  Nothing protects handle_: to open a session is to test it, to   *)
(* close the channel it names, to clear it and to set it to the new         *)
(* channel; to close one, to close the channel and to clear handle_.        *)
(***************************************************************************)
EXTENDS Naturals, FiniteSets

CONSTANTS Clients,     \* the applications, each with its uid
          Sessions,    \* the sessions the content management TA can have
          FREE,        \* nobody holds the lock
          NULL,        \* no session, no service
          MaxCalls,    \* bound on the calls of the clients
          MaxThreads,  \* bound on the provisionings at a time
          MaxRounds    \* bound on the rounds of a provisioning thread

ASSUME BoundsAssumption == {MaxCalls, MaxThreads, MaxRounds} \subseteq Nat

PROVISIONING == "ProvisioningService"
DEVELOPER == "DeveloperService"
OEM == "OemService"
Services == {PROVISIONING, DEVELOPER, OEM}
\* The threads: those that serve the clients, and one that provisions per service.
Threads == Clients \cup Services

\* The random uids of a call with a lock of its own, and of a provisioning thread.
Query(c) == <<"query", c>>
Provision(s) == <<"provision", s>>

ASSUME UidsAssumption ==
         /\ IsFiniteSet(Clients) /\ Clients \cap Services = {}
         /\ FREE \notin Clients /\ NULL \notin Services \cup Sessions
         /\ \A c, d \in Clients: Query(c) \notin {FREE, d}
         /\ \A s \in Services: Provision(s) \notin Clients \cup {FREE}

VARIABLES lock,        \* lock_: FREE or a uid
          timer,       \* timer[s]: a task is scheduled
          expiring,    \* expiring[s]: what the task in execution does next
          sessionOpened,
          suid,        \* suid[s]: doProvisioningLockSuid_
          obj,         \* obj_: the service that gets the callbacks
          handle,      \* handle_: the session, NULL when there is none
          live,        \* the sessions that are open
          step,        \* step[t]: what thread t does next to handle_, "no" when nothing
          at,          \* at[t]: where thread t is
          own,         \* own[t]: the session its command uses, whether it opened it, and
                       \* how far the command is
          rounds,      \* rounds[s]: the rounds left to the thread of s
          calls,
          raced,       \* history: two have been at handle_ at the same time
          lapsed,      \* history: how the lock has failed to exclude
          left         \* history: a command left the session open that it had opened

lockVars == <<lock, timer, expiring, sessionOpened>>
sessionVars == <<handle, live, step, raced>>
vars == <<lockVars, suid, obj, sessionVars, at, own, rounds, calls, lapsed, left>>

NoCommand == [session |-> NULL, selfOpened |-> FALSE, stage |-> "no"]

Init == /\ lock = FREE
        /\ timer = [s \in Services |-> FALSE]
        /\ expiring = [s \in Services |-> "no"]
        /\ sessionOpened = [s \in Services |-> FALSE]
        /\ suid = [s \in Services |-> FREE]
        /\ obj = NULL
        /\ handle = NULL
        /\ live = {}
        /\ step = [t \in Threads |-> "no"]
        /\ at = [t \in Threads |-> "idle"]
        /\ own = [t \in Threads |-> NoCommand]
        /\ rounds = [s \in Services |-> 0]
        /\ calls = 0
        /\ raced = FALSE /\ lapsed = {} /\ left = FALSE

Go(t, where) == at' = [at EXCEPT ![t] = where]
Call(c) == at[c] = "idle" /\ calls < MaxCalls /\ calls' = calls + 1

(***************************************************************************)
(* The session to the content management TA.                                *)
(***************************************************************************)
\* Somebody, a thread or the task of a timer, is at handle_.
AtHandle == (\E t \in Threads: step[t] # "no") \/ (\E s \in Services: expiring[s] = "clear")
Enter(t, what) == /\ step' = [step EXCEPT ![t] = what]
                  /\ raced' = (raced \/ AtHandle)
DoNext(t, what) == step' = [step EXCEPT ![t] = what] /\ UNCHANGED raced

openCmtlSession(t) == Enter(t, "open") /\ UNCHANGED <<handle, live>>
\* Mutant: the session that is open is not closed before.
OpensAnother(t) == /\ step[t] = "open"
                   /\ DoNext(t, "assign") /\ UNCHANGED <<handle, live>>
TestHandle(t) == /\ step[t] = "open"
                 /\ IF handle = NULL THEN DoNext(t, "assign") /\ UNCHANGED live
                                     ELSE DoNext(t, "reclose") /\ live' = live \ {handle}
                 /\ UNCHANGED handle
Reclose(t) == /\ step[t] = "reclose"
              /\ DoNext(t, "assign")
              /\ handle' = NULL /\ UNCHANGED live
\* Opening the channel may fail.  One of the sessions that are not used is as good as
\* another.
Spare == {n \in Sessions: n \notin live \cup {handle} /\ \A t \in Threads: own[t].session # n}
NewSessions == {NULL} \cup IF Spare = {} THEN {} ELSE {CHOOSE n \in Spare: TRUE}
AssignHandle(t) == /\ step[t] = "assign"
                   /\ DoNext(t, "no")
                   /\ handle' \in NewSessions
                   /\ live' = live \cup ({handle'} \ {NULL})

closeCmtlSession(t) == Enter(t, "clear") /\ live' = live \ {handle} /\ UNCHANGED handle
ClearHandle(t) == /\ step[t] = "clear"
                  /\ DoNext(t, "no")
                  /\ handle' = NULL /\ UNCHANGED live

(***************************************************************************)
(* The lock.                                                                *)
(***************************************************************************)
\* Mutant: the lock is taken whoever has it.
AcquiredAnyway(uid) == uid # FREE

Acquired(uid) == uid # FREE /\ lock \in {FREE, uid}

Released(uid) == uid # FREE /\ lock \in {FREE, uid}

\* One thread is in the synchronized methods of a service; those that open or close the
\* session under the lock take their time.
Entered(s) == s = PROVISIONING => \A c \in Clients: at[c] \notin {"acquire", "release"}

\* Without a session to open or to close.
acquireLock(s, uid) == /\ lock' = uid
                       /\ timer' = [timer EXCEPT ![s] = TRUE]
                       /\ UNCHANGED <<expiring, sessionOpened, sessionVars>>
releaseLock(s) == /\ lock' = FREE
                  /\ timer' = [timer EXCEPT ![s] = FALSE]
                  /\ UNCHANGED <<expiring, sessionOpened, sessionVars>>

\* The task of a timer begins; from now on it cannot be cancelled, and it may come too
\* late: it frees the lock of another, whose timer runs.
TimerExpires(s) == /\ timer[s] /\ expiring[s] = "no"
                   /\ timer' = [timer EXCEPT ![s] = FALSE]
                   /\ expiring' = [expiring EXCEPT ![s] = "free"]
                   /\ UNCHANGED <<lock, sessionOpened, suid, obj, sessionVars, at, own,
                                  rounds, calls, lapsed, left>>

\* A timer runs, or is about to.
Timed == (\E s \in Services: timer[s]) \/ (\E c \in Clients: at[c] = "acquire")

\* Mutant: the task frees the lock of the provisioning of its service only.
TimerFreesOwn(s) == /\ expiring[s] = "free"
                    /\ lock' = IF lock = suid[s] THEN FREE ELSE lock
                    /\ expiring' = [expiring EXCEPT ![s] = "close"]
                    /\ lapsed' = lapsed \cup {IF Timed THEN "late" ELSE "timer"}
                    /\ UNCHANGED <<timer, sessionOpened, suid, obj, sessionVars, at, own,
                                   rounds, calls, left>>

TimerFreesLock(s) == /\ expiring[s] = "free"
                     /\ lock' = FREE
                     /\ expiring' = [expiring EXCEPT ![s] = "close"]
                     /\ lapsed' = lapsed \cup {IF Timed THEN "late" ELSE "timer"}
                     /\ UNCHANGED <<timer, sessionOpened, suid, obj, sessionVars, at, own,
                                    rounds, calls, left>>

\* Mutant: the session is forgotten, not closed.
TimerForgetsSession(s) ==
  /\ expiring[s] = "close"
  /\ sessionOpened' = [sessionOpened EXCEPT ![s] = FALSE]
  /\ expiring' = [expiring EXCEPT ![s] = "no"]
  /\ UNCHANGED <<lock, timer, sessionVars, suid, obj, at, own, rounds, calls, lapsed, left>>

TimerClosesSession(s) ==
  /\ expiring[s] = "close"
  /\ IF sessionOpened[s]
     THEN /\ live' = live \ {handle}
          /\ raced' = (raced \/ AtHandle)
          /\ expiring' = [expiring EXCEPT ![s] = "clear"]
     ELSE /\ UNCHANGED <<live, raced>>
          /\ expiring' = [expiring EXCEPT ![s] = "no"]
  /\ UNCHANGED <<lock, timer, sessionOpened, handle, step, suid, obj, at, own, rounds, calls,
                 lapsed, left>>
TimerClosed(s) ==
  /\ expiring[s] = "clear"
  /\ handle' = NULL
  /\ sessionOpened' = [sessionOpened EXCEPT ![s] = FALSE]
  /\ expiring' = [expiring EXCEPT ![s] = "no"]
  /\ UNCHANGED <<lock, timer, live, step, raced, suid, obj, at, own, rounds, calls, lapsed,
                 left>>

(***************************************************************************)
(* executeContentManagementCommands().                                      *)
(***************************************************************************)
BeginCommand(t) ==
  /\ own' = [own EXCEPT ![t] = [session |-> handle, selfOpened |-> handle = NULL,
                                stage |-> "runs"]]
  /\ IF handle = NULL THEN openCmtlSession(t) ELSE UNCHANGED sessionVars

CommandOpened(t) == /\ own[t].stage = "runs"
                    /\ AssignHandle(t)
                    /\ own' = [own EXCEPT ![t].session = handle']
                    /\ UNCHANGED left

\* All commands are executed, or their errors ignored, or there is no session.
CommandEnds(t) ==
  /\ own[t].stage = "runs" /\ step[t] = "no"
  /\ own' = [own EXCEPT ![t].stage = "ends"]
  /\ IF own[t].selfOpened THEN closeCmtlSession(t) ELSE UNCHANGED sessionVars
  /\ UNCHANGED left
\* A command fails: the session stays as it is.
CommandFails(t) == /\ own[t].stage = "runs" /\ step[t] = "no"
                   /\ own[t].session # NULL
                   /\ own' = [own EXCEPT ![t].stage = "fails"]
                   /\ left' = (left \/ own[t].selfOpened)
                   /\ UNCHANGED sessionVars
\* The steps of a thread between the beginning and the end of a command, and those that
\* open a session under the lock or for a thread that provisions.
Command(t) == /\ \/ CommandOpened(t) \/ CommandEnds(t) \/ CommandFails(t)
                 \/ TestHandle(t) /\ UNCHANGED <<own, left>>
                 \/ Reclose(t) /\ UNCHANGED <<own, left>>
              /\ UNCHANGED <<lockVars, suid, obj, at, rounds, calls, lapsed>>

Ended(t) == /\ own[t].stage \in {"ends", "fails"}
            /\ own' = [own EXCEPT ![t] = NoCommand]
            /\ IF step[t] = "clear" THEN ClearHandle(t) ELSE UNCHANGED sessionVars

(***************************************************************************)
(* The calls of the clients.                                                *)
(***************************************************************************)
Lock(c) == /\ Call(c) /\ Entered(PROVISIONING)
           /\ Acquired(c)
           /\ lock = c \/ sessionOpened[PROVISIONING]
           /\ acquireLock(PROVISIONING, c)
           /\ UNCHANGED <<suid, obj, at, own, rounds, lapsed, left>>
LockOpens(c) == /\ Call(c) /\ Entered(PROVISIONING)
                /\ Acquired(c)
                /\ lock = FREE /\ ~sessionOpened[PROVISIONING]
                /\ lock' = c
                /\ Go(c, "acquire")
                /\ openCmtlSession(c)
                /\ UNCHANGED <<timer, expiring, sessionOpened, suid, obj, own, rounds,
                               lapsed, left>>
LockOpened(c) == /\ at[c] = "acquire"
                 /\ Go(c, "idle")
                 /\ AssignHandle(c)
                 /\ sessionOpened' = [sessionOpened EXCEPT ![PROVISIONING] = TRUE]
                 /\ timer' = [timer EXCEPT ![PROVISIONING] = TRUE]
                 /\ UNCHANGED <<lock, expiring, suid, obj, own, rounds, calls, lapsed, left>>

\* It succeeds also when nobody has the lock.
Unlock(c) == /\ at[c] = "idle" /\ Entered(PROVISIONING)
             /\ Released(c)
             /\ ~sessionOpened[PROVISIONING]
             /\ releaseLock(PROVISIONING)
             /\ UNCHANGED <<suid, obj, at, own, rounds, calls, lapsed, left>>
\* The lock is free before the session is closed.
UnlockCloses(c) == /\ at[c] = "idle" /\ Entered(PROVISIONING)
                   /\ Released(c)
                   /\ sessionOpened[PROVISIONING]
                   /\ lock' = FREE
                   /\ Go(c, "release")
                   /\ closeCmtlSession(c)
                   /\ UNCHANGED <<timer, expiring, sessionOpened, suid, obj, own, rounds, calls,
                                  lapsed, left>>
UnlockClosed(c) == /\ at[c] = "release"
                   /\ Go(c, "idle")
                   /\ ClearHandle(c)
                   /\ sessionOpened' = [sessionOpened EXCEPT ![PROVISIONING] = FALSE]
                   /\ timer' = [timer EXCEPT ![PROVISIONING] = FALSE]
                   /\ UNCHANGED <<lock, expiring, suid, obj, own, rounds, calls, lapsed,
                                  left>>

\* locked() lets the uid of a free lock pass.
executeCmpCommands(c, uid) ==
  /\ Call(c)
  /\ lock = uid \/ uid = FREE
  /\ Go(c, "command")
  /\ BeginCommand(c)
  /\ lapsed' = IF uid = FREE THEN lapsed \cup {"no uid"} ELSE lapsed
  /\ UNCHANGED <<lockVars, suid, obj, rounds, left>>
CommandsDone(c) == /\ at[c] = "command"
                   /\ Go(c, "idle")
                   /\ Ended(c)
                   /\ UNCHANGED <<lockVars, suid, obj, rounds, calls, lapsed, left>>

\* A call with a lock of its own: getVersion() and getDeviceId().
StartQuery(c) == /\ Call(c) /\ Entered(PROVISIONING)
                 /\ Acquired(Query(c))
                 /\ acquireLock(PROVISIONING, Query(c))
                 /\ Go(c, "locked")
                 /\ UNCHANGED <<suid, obj, own, rounds, lapsed, left>>
DoQuery(c) == /\ at[c] = "locked"
              /\ Go(c, "query")
              /\ BeginCommand(c)
              /\ UNCHANGED <<lockVars, suid, obj, rounds, calls, lapsed, left>>
QueryDone(c) == /\ at[c] = "query"
                /\ Go(c, "unlock")
                /\ Ended(c)
                /\ UNCHANGED <<lockVars, suid, obj, rounds, calls, lapsed, left>>
QueryUnlocks(c) ==
  /\ at[c] = "unlock" /\ Entered(PROVISIONING)
  /\ Go(c, "idle")
  /\ IF Released(Query(c)) THEN releaseLock(PROVISIONING)
                           ELSE UNCHANGED <<lockVars, sessionVars>>
  /\ UNCHANGED <<suid, obj, own, rounds, calls, lapsed, left>>

\* doProvisioning(), installTrustlet() and unregisterRootContainer(), under a new uid.
\* A service has one thread at a time, which with MaxThreads bounds the model.
Provisioning == {s \in Services: at[s] # "idle" \/ \E c \in Clients: at[c] = s}
StartThread(c, s) ==
  /\ Call(c) /\ Entered(s)
  /\ s \notin Provisioning /\ Cardinality(Provisioning) < MaxThreads
  /\ lock = FREE
  /\ acquireLock(s, Provision(s))
  /\ suid' = [suid EXCEPT ![s] = Provision(s)]
  /\ Go(c, s)
  /\ lapsed' = IF \E d \in Clients: at[d] = "release" THEN lapsed \cup {"unlock"} ELSE lapsed
  /\ UNCHANGED <<obj, own, rounds, left>>

\* What the service does when there is no thread.
NoThread(s) == CASE s = PROVISIONING -> "not started"
                 [] s = DEVELOPER -> "idle"
                 [] s = OEM -> "unregister"
\* The address of the service enabler is refused.
SeRefused(c) == /\ at[c] \in Services /\ own[c] = NoCommand
                /\ Go(c, NoThread(at[c]))
                /\ UNCHANGED <<lockVars, sessionVars, suid, obj, own, rounds, calls,
                               lapsed, left>>
\* provision() asks for the identity of the device before it starts the thread.
GetSuid(c) == /\ at[c] \in Services /\ own[c] = NoCommand
              /\ obj' = at[c]
              /\ BeginCommand(c)
              /\ UNCHANGED <<lockVars, suid, at, rounds, calls, lapsed, left>>
ThreadStarts(c, s) ==
  /\ at[c] = s
  /\ own[c].session # NULL /\ own[c].stage = "ends" /\ Ended(c)
  /\ at' = [at EXCEPT ![s] = "open", ![c] = IF s = OEM THEN "unregister" ELSE "idle"]
  /\ rounds' = [rounds EXCEPT ![s] = MaxRounds]
  /\ UNCHANGED <<lockVars, suid, obj, calls, lapsed, left>>
ThreadFails(c) == /\ at[c] \in Services
                  /\ Ended(c)
                  /\ Go(c, NoThread(at[c]))
                  /\ UNCHANGED <<lockVars, suid, obj, rounds, calls, lapsed, left>>

\* doProvisioning() gives the lock back when there is no thread.
NotStarted(c) ==
  /\ at[c] = "not started" /\ Entered(PROVISIONING)
  /\ Go(c, "idle")
  /\ IF Released(suid[PROVISIONING]) THEN releaseLock(PROVISIONING)
                                     ELSE UNCHANGED <<lockVars, sessionVars>>
  /\ suid' = [suid EXCEPT ![PROVISIONING] = FREE]
  /\ UNCHANGED <<obj, own, rounds, calls, lapsed, left>>

\* unregisterRootContainer() gives it back in any case, under the uid of the last call:
\* also when its own thread, or another call by now, needs the lock.
Unregisters == at[OEM] # "idle" \/ \E c \in Clients: at[c] = OEM
Unregistering(c) ==
  /\ at[c] = "unregister"
  /\ Go(c, "idle")
  /\ IF Released(suid[OEM]) THEN releaseLock(OEM) ELSE UNCHANGED <<lockVars, sessionVars>>
  /\ lapsed' = IF Unregisters THEN lapsed \cup {"unregister"} ELSE lapsed
  /\ UNCHANGED <<suid, obj, own, rounds, calls, left>>

(***************************************************************************)
(* The thread that provisions.                                              *)
(***************************************************************************)
OpenSession(s) ==
  /\ at[s] = "open" /\ step[s] = "no"
  /\ openCmtlSession(s)
  /\ UNCHANGED <<lockVars, suid, obj, at, own, rounds, calls, lapsed, left>>
SessionOpened(s) ==
  /\ at[s] = "open"
  /\ AssignHandle(s)
  /\ Go(s, IF handle' = NULL THEN "exit" ELSE "work")
  /\ UNCHANGED <<lockVars, suid, obj, own, rounds, calls, lapsed, left>>

\* A callback renews the lock, or takes it again; that it could not is only logged.
Callback(s) ==
  /\ at[s] = "work" /\ rounds[s] > 0 /\ Entered(obj)
  /\ rounds' = [rounds EXCEPT ![s] = rounds[s] - 1]
  /\ IF obj # NULL /\ Acquired(suid[obj]) THEN acquireLock(obj, suid[obj])
                                          ELSE UNCHANGED <<lockVars, sessionVars>>
  /\ UNCHANGED <<suid, obj, at, own, calls, lapsed, left>>
Work(s) == /\ at[s] = "work" /\ rounds[s] > 0
           /\ rounds' = [rounds EXCEPT ![s] = rounds[s] - 1]
           /\ Go(s, "command")
           /\ BeginCommand(s)
           /\ UNCHANGED <<lockVars, suid, obj, calls, lapsed, left>>
WorkDone(s) == /\ at[s] = "command"
               /\ Go(s, "work")
               /\ Ended(s)
               /\ UNCHANGED <<lockVars, suid, obj, rounds, calls, lapsed, left>>
CloseSession(s) ==
  /\ at[s] = "work"
  /\ Go(s, "close")
  /\ closeCmtlSession(s)
  /\ UNCHANGED <<lockVars, suid, obj, own, rounds, calls, lapsed, left>>
SessionClosed(s) ==
  /\ at[s] = "close"
  /\ Go(s, "exit")
  /\ ClearHandle(s)
  /\ UNCHANGED <<lockVars, suid, obj, own, rounds, calls, lapsed, left>>

\* The last callback acquires the lock once more and releases it.
Exiting(s) ==
  /\ at[s] = "exit" /\ Entered(obj)
  /\ Go(s, "idle")
  /\ IF obj # NULL /\ Acquired(suid[obj])
     THEN releaseLock(obj)
     ELSE UNCHANGED <<lockVars, sessionVars>>
  /\ suid' = IF obj = NULL THEN suid ELSE [suid EXCEPT ![obj] = FREE]
  /\ obj' = NULL
  /\ UNCHANGED <<own, rounds, calls, lapsed, left>>

Timer(s) == TimerExpires(s) \/ TimerFreesLock(s) \/ TimerClosesSession(s) \/ TimerClosed(s)
Thread(s) == \/ OpenSession(s) \/ SessionOpened(s) \/ Callback(s) \/ Work(s) \/ WorkDone(s)
             \/ CloseSession(s) \/ SessionClosed(s) \/ Exiting(s) \/ Command(s)
Binder(c) == \/ LockOpened(c) \/ UnlockClosed(c)
             \/ CommandsDone(c) \/ DoQuery(c) \/ QueryDone(c) \/ QueryUnlocks(c)
             \/ SeRefused(c) \/ GetSuid(c) \/ ThreadFails(c)
             \/ \E s \in Services: ThreadStarts(c, s)
             \/ NotStarted(c) \/ Unregistering(c) \/ Command(c)
Client(c) == \/ Lock(c) \/ LockOpens(c) \/ Unlock(c) \/ UnlockCloses(c) \/ StartQuery(c)
             \/ \E uid \in {c, FREE}: executeCmpCommands(c, uid)
             \/ \E s \in Services: StartThread(c, s)

Next == (\E s \in Services: Timer(s) \/ Thread(s)) \/ (\E c \in Clients: Binder(c) \/ Client(c))

Spec == Init /\ [][Next]_vars
\* The timers expire and a call is executed; a client need not call, and a provisioning
\* may wait for the service enabler for ever.
FairSpec == Spec /\ \A s \in Services: WF_vars(Timer(s))
                 /\ \A c \in Clients: WF_vars(Binder(c))

(***************************************************************************)
(* Properties.                                                              *)
(***************************************************************************)
Uids == {FREE} \cup Clients \cup {Query(c): c \in Clients} \cup {Provision(s): s \in Services}

\* What each variable may hold.
TypeOK == /\ lock \in Uids
          /\ timer \in [Services -> BOOLEAN]
          /\ expiring \in [Services -> {"no", "free", "close", "clear"}]
          /\ sessionOpened \in [Services -> BOOLEAN]
          /\ suid \in [Services -> Uids]
          /\ obj \in Services \cup {NULL}
          /\ handle \in Sessions \cup {NULL}
          /\ live \subseteq Sessions
          /\ step \in [Threads -> {"no", "open", "reclose", "assign", "clear"}]
          /\ at \in [Threads -> {"idle", "acquire", "release", "command", "locked", "query",
                                "unlock", "unregister", "not started", "open", "work",
                                "close", "exit"} \cup Services]
          /\ own \in [Threads -> [session: Sessions \cup {NULL}, selfOpened: BOOLEAN,
                                  stage: {"no", "runs", "ends", "fails"}]]
          /\ rounds \in [Services -> 0..MaxRounds]
          /\ calls \in 0..MaxCalls
          /\ raced \in BOOLEAN /\ left \in BOOLEAN
          /\ lapsed \subseteq {"timer", "late", "no uid", "unregister", "unlock"}

\* A lock that is held is always about to be taken back: whatever the services do to
\* each other's lock, some timer is set, or its task has still to free the lock,
\* or the one that has just taken the lock opens the session and will set the timer
\* (acquireLock(), releaseLock() and the task that neither of them waits for).
HeldIsTimed == lock # FREE => Timed \/ \E s \in Services: expiring[s] = "free"

\* handle_ is a session that is open, and no other session is, but while somebody who has
\* closed the channel has still to clear handle_; a second session is open, or handle_
\* names a closed one for good, only after two have been at handle_ at the same time.
Clearing == \/ \E t \in Threads: step[t] \in {"reclose", "clear"}
            \/ \E s \in Services: expiring[s] = "clear"
OneSession == ~raced => live = IF Clearing THEN {} ELSE {handle} \ {NULL}

Inv == TypeOK /\ HeldIsTimed /\ OneSession

InCommand == {t \in Threads: own[t] # NoCommand}

\* While the lock excludes, no two threads are in a command, no two are at handle_ at
\* the same time, and the session of a command is not closed before its end: this fails
\* only after a timer has freed a lock, a client has given no uid,
\* unregisterRootContainer() has released the lock of its thread or of a later call, or
\* another has taken the lock that releaseLock() has freed and whose session it closes.
Exclusive == lapsed = {} =>
               /\ ~raced
               /\ \A t, u \in InCommand: t = u
               /\ \A t \in InCommand: own[t].stage = "runs" => own[t].session \in live \cup {NULL}

\* Once nothing runs and nobody holds the lock, handle_ is NULL, whatever the lock has
\* failed to exclude, unless a timer has freed a lock that another timer was running
\* for, or a command that failed has left its own session open; and a session is open
\* then only if two have been at handle_ at the same time, and one has overwritten the
\* session of the other.
Quiet == /\ lock = FREE
         /\ \A t \in Threads: at[t] = "idle"
         /\ \A s \in Services: ~timer[s] /\ expiring[s] = "no"
SessionGivenBack == (Quiet /\ "late" \notin lapsed /\ ~left) =>
                      handle = NULL /\ (live = {} \/ raced)

\* The lock always comes back, also from a client that ends with it and from an
\* installation whose thread was not started (DeveloperService does not release it).
LockReturns == lock # FREE ~> lock = FREE

=============================================================================
