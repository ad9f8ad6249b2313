---------------------------- MODULE RootPAProofs ----------------------------
(***************************************************************************)
(* The two parts of RootPA, each for any of its clients and requests.       *)
(*                                                                          *)
(* The lock of the services (ServiceLock):                                  *)
(* - While the lock has not lapsed, a thread that works does so under a uid *)
(*   of its own, and that uid has the lock, or has just freed it to close   *)
(*   the session: so one thread works at a time, and is alone at handle_.   *)
(* - A timer is only cancelled by a service that frees the lock, and the    *)
(*   task of a timer that has expired frees it next, whoever holds it then. *)
(* - Who is alone at handle_ finds it cleared when it assigns it, so there  *)
(*   is one session until two have been there at the same time.             *)
(* - While handle_ is set there is always somebody who will clear it.       *)
(*                                                                          *)
(* The strings of the provisioning engine (Provisioning):                   *)
(* - Every string it was given is held by one of its pointers, so the       *)
(*   round that frees them all leaves only what was lost before.            *)
(* - What an answer brings is younger than what is in use, so what a round  *)
(*   has used can be freed before the next.                                 *)
(* - The used pointers outlive a round only for a repetition, and a request *)
(*   that is to be repeated is not a repetition itself.                     *)
(***************************************************************************)
EXTENDS ServiceLock, Provisioning, TLAPS

(***************************************************************************)
(* The threads and the uids.                                                *)
(***************************************************************************)
LEMMA ThreadKinds == /\ Services \subseteq Threads /\ Clients \subseteq Threads
                     /\ \A c \in Clients: c \notin Services
                     /\ PROVISIONING \in Services /\ OEM \in Services
                     /\ "idle" \notin Services /\ "unregister" \notin Services
                     /\ "not started" \notin Services /\ "command" \notin Services
                     /\ "locked" \notin Services /\ "query" \notin Services
                     /\ "unlock" \notin Services /\ "acquire" \notin Services
                     /\ "release" \notin Services
  BY UidsAssumption DEF Threads, Services, PROVISIONING, DEVELOPER, OEM

\* The uids of the calls and of the threads differ from each other and from the clients.
LEMMA UidsDiffer == /\ \A c \in Clients: c # FREE /\ Query(c) # FREE
                    /\ \A s \in Services: Provision(s) # FREE
                    /\ \A c, d \in Clients: Query(c) # d /\ (Query(c) = Query(d) => c = d)
                    /\ \A s \in Services, c \in Clients: Provision(s) # c /\ Provision(s) # Query(c)
                    /\ \A s, r \in Services: Provision(s) = Provision(r) => s = r
<1>1. /\ \A c \in Clients: c # FREE /\ Query(c) # FREE
      /\ \A s \in Services: Provision(s) # FREE
      /\ \A c, d \in Clients: Query(c) # d
      /\ \A s \in Services, c \in Clients: Provision(s) # c
  BY UidsAssumption
<1>2. \A c, d \in Clients: Query(c) = Query(d) => c = d
  BY DEF Query
<1>3. \A s \in Services, c \in Clients: Provision(s) # Query(c)
  BY DEF Query, Provision
<1>4. \A s, r \in Services: Provision(s) = Provision(r) => s = r
  BY DEF Provision
<1>5. QED
  BY <1>1, <1>2, <1>3, <1>4


(***************************************************************************)
(* The session.  While no two have been at handle_ at the same time, who is *)
(* there is alone, and knows what it finds.                                 *)
(***************************************************************************)
OneAtHandle ==
  ~raced => /\ \A t, u \in Threads: step[t] # "no" /\ step[u] # "no" => t = u
            /\ \A t \in Threads, s \in Services: step[t] = "no" \/ expiring[s] # "clear"
            /\ \A r, s \in Services: expiring[r] = "clear" /\ expiring[s] = "clear" => r = s
AssignsNull == ~raced => \A t \in Threads: step[t] = "assign" => handle = NULL
HandleInv == OneAtHandle /\ OneSession /\ AssignsNull

HandleStep(t) == \/ openCmtlSession(t) \/ closeCmtlSession(t) \/ TestHandle(t) \/ Reclose(t)
                 \/ AssignHandle(t) \/ ClearHandle(t)
\* What a step does to the session.
SessionStep ==
  \/ /\ UNCHANGED sessionVars
     /\ \A s \in Services: expiring'[s] = "clear" <=> expiring[s] = "clear"
  \/ UNCHANGED expiring /\ \E t \in Threads: HandleStep(t)
  \/ \E s \in Services: TimerClosed(s) \/ (sessionOpened[s] /\ TimerClosesSession(s))

Steps == {"no", "open", "reclose", "assign", "clear"}
SessionTyped == /\ handle \in Sessions \cup {NULL} /\ live \subseteq Sessions
                /\ step \in [Threads -> Steps] /\ raced \in BOOLEAN

LEMMA FreshSession == NewSessions \subseteq Sessions \cup {NULL}
  BY DEF NewSessions, Spare

LEMMA StepEntered ==
  ASSUME TypeOK, NEW t \in Threads, NEW what \in Steps, Enter(t, what) \/ DoNext(t, what)
  PROVE  step' \in [Threads -> Steps] /\ raced' \in BOOLEAN
<1>1. step' \in [Threads -> Steps]
  BY DEF Enter, DoNext, TypeOK, Steps
<1>2. raced \in BOOLEAN
  BY DEF TypeOK
<1>3. raced' \in BOOLEAN
  BY <1>2, Zenon DEF Enter, DoNext
<1>4. QED
  BY <1>1, <1>3

LEMMA SessionsTyped ==
  ASSUME TypeOK, SessionStep
  PROVE  SessionTyped'
<1>1. /\ handle \in Sessions \cup {NULL} /\ live \subseteq Sessions
      /\ step \in [Threads -> Steps] /\ raced \in BOOLEAN
  BY DEF TypeOK, Steps
<1>2. CASE UNCHANGED sessionVars
  BY <1>1, <1>2 DEF sessionVars, SessionTyped
<1>3. ASSUME NEW t \in Threads, HandleStep(t)
      PROVE  SessionTyped'
  <2>1. \E what \in Steps: Enter(t, what) \/ DoNext(t, what)
    BY <1>3 DEF HandleStep, openCmtlSession, closeCmtlSession, TestHandle, Reclose,
                AssignHandle, ClearHandle, Steps
  <2>2. step' \in [Threads -> Steps] /\ raced' \in BOOLEAN
    BY <2>1, StepEntered
  <2>3. handle' \in Sessions \cup {NULL} /\ live' \subseteq Sessions
    BY <1>1, <1>3, FreshSession
       DEF HandleStep, openCmtlSession, closeCmtlSession, TestHandle, Reclose,
           AssignHandle, ClearHandle
  <2>4. QED
    BY <2>2, <2>3 DEF SessionTyped
<1>4. ASSUME NEW s \in Services, TimerClosed(s) \/ TimerClosesSession(s)
      PROVE  SessionTyped'
  <2>1. step' = step
    BY <1>4 DEF TimerClosed, TimerClosesSession
  <2>2. raced' \in BOOLEAN
    BY <1>1, <1>4, Zenon DEF TimerClosed, TimerClosesSession
  <2>3. handle' \in Sessions \cup {NULL} /\ live' \subseteq Sessions
    BY <1>1, <1>4 DEF TimerClosed, TimerClosesSession
  <2>4. QED
    BY <1>1, <2>1, <2>2, <2>3 DEF SessionTyped
<1>5. QED
  BY <1>2, <1>3, <1>4 DEF SessionStep

\* Whoever is at handle_ without another is the only one to change it.
LEMMA HandleStepKept ==
  ASSUME TypeOK, HandleInv, NEW t \in Threads, UNCHANGED expiring, HandleStep(t)
  PROVE  HandleInv'
<1>0. step \in [Threads -> Steps] /\ raced \in BOOLEAN
  BY DEF TypeOK, Steps
<1>1. ASSUME NEW what \in Steps, Enter(t, what), ~raced'
      PROVE  /\ ~raced /\ ~Clearing /\ live = {handle} \ {NULL}
             /\ \A s \in Services: expiring'[s] # "clear"
             /\ step'[t] = what /\ \A u \in Threads: u # t => step'[u] = "no"
  <2>1. ~raced /\ ~AtHandle
    BY <1>1 DEF Enter
  <2>2. (\A u \in Threads: step[u] = "no") /\ (\A s \in Services: expiring[s] # "clear")
    BY <2>1 DEF AtHandle
  <2>3. ~Clearing
    BY <2>2 DEF Clearing
  <2>4. live = {handle} \ {NULL}
    BY <2>1, <2>3 DEF HandleInv, OneSession
  <2>5. step'[t] = what /\ \A u \in Threads: u # t => step'[u] = "no"
    BY <1>0, <1>1, <2>2 DEF Enter
  <2>6. QED
    BY <2>1, <2>2, <2>3, <2>4, <2>5
<1>2. ASSUME NEW what \in Steps, DoNext(t, what), step[t] # "no", ~raced'
      PROVE  /\ ~raced /\ \A s \in Services: expiring'[s] # "clear" /\ expiring[s] # "clear"
             /\ step'[t] = what /\ \A u \in Threads: u # t => step'[u] = "no" /\ step[u] = "no"
  <2>1. ~raced
    BY <1>2 DEF DoNext
  <2>2. \A s \in Services: expiring[s] # "clear"
    BY <1>2, <2>1 DEF HandleInv, OneAtHandle
  <2>3. \A u \in Threads: u # t => step[u] = "no"
    BY <1>2, <2>1 DEF HandleInv, OneAtHandle
  <2>4. step'[t] = what /\ \A u \in Threads: u # t => step'[u] = step[u]
    BY <1>0, <1>2 DEF DoNext
  <2>5. QED
    BY <2>1, <2>2, <2>3, <2>4
<1>3. SUFFICES ASSUME ~raced'
               PROVE  HandleInv'
  BY DEF HandleInv, OneAtHandle, OneSession, AssignsNull
<1>4. CASE openCmtlSession(t)
  <2>1. Enter(t, "open") /\ UNCHANGED <<handle, live>> /\ "open" \in Steps
    BY <1>4 DEF openCmtlSession, Steps
  <2>2. /\ ~raced /\ ~Clearing /\ live = {handle} \ {NULL}
        /\ \A s \in Services: expiring'[s] # "clear"
        /\ step'[t] = "open" /\ \A u \in Threads: u # t => step'[u] = "no"
    BY <1>1, <1>3, <2>1
  <2>3. ~Clearing'
    BY <2>2 DEF Clearing
  <2>4. QED
    BY <2>1, <2>2, <2>3 DEF HandleInv, OneAtHandle, OneSession, AssignsNull
<1>5. CASE closeCmtlSession(t)
  <2>1. /\ Enter(t, "clear") /\ UNCHANGED handle /\ live' = live \ {handle}
        /\ "clear" \in Steps
    BY <1>5 DEF closeCmtlSession, Steps
  <2>2. /\ ~raced /\ ~Clearing /\ live = {handle} \ {NULL}
        /\ \A s \in Services: expiring'[s] # "clear"
        /\ step'[t] = "clear" /\ \A u \in Threads: u # t => step'[u] = "no"
    BY <1>1, <1>3, <2>1
  <2>3. Clearing' /\ live' = {}
    BY <2>1, <2>2 DEF Clearing
  <2>4. QED
    BY <2>1, <2>2, <2>3 DEF HandleInv, OneAtHandle, OneSession, AssignsNull
<1>6. CASE TestHandle(t)
  <2>1. PICK what \in {"assign", "reclose"}:
          /\ DoNext(t, what) /\ UNCHANGED handle
          /\ what = "assign" => handle = NULL /\ live' = live
          /\ what = "reclose" => live' = live \ {handle}
    BY <1>6 DEF TestHandle
  <2>2. what \in Steps /\ step[t] = "open"
    BY <1>6 DEF TestHandle, Steps
  <2>3. /\ ~raced /\ \A s \in Services: expiring'[s] # "clear" /\ expiring[s] # "clear"
        /\ step'[t] = what /\ \A u \in Threads: u # t => step'[u] = "no" /\ step[u] = "no"
    BY <1>2, <1>3, <2>1, <2>2
  <2>4. ~Clearing
    BY <2>2, <2>3 DEF Clearing
  <2>5. live = {handle} \ {NULL}
    BY <2>3, <2>4 DEF HandleInv, OneSession
  <2>6. live' = {} /\ (Clearing' <=> what = "reclose")
    BY <2>1, <2>3, <2>5 DEF Clearing
  <2>7. QED
    BY <2>1, <2>3, <2>6 DEF HandleInv, OneAtHandle, OneSession, AssignsNull
<1>7. ASSUME Reclose(t) \/ ClearHandle(t)
      PROVE  HandleInv'
  <2>1. PICK what \in {"assign", "no"}: DoNext(t, what)
    BY <1>7 DEF Reclose, ClearHandle
  <2>2. /\ what \in Steps /\ step[t] \in {"reclose", "clear"} /\ handle' = NULL
        /\ UNCHANGED live
    BY <1>7, <2>1 DEF Reclose, ClearHandle, Steps
  <2>3. /\ ~raced /\ \A s \in Services: expiring'[s] # "clear" /\ expiring[s] # "clear"
        /\ step'[t] = what /\ \A u \in Threads: u # t => step'[u] = "no" /\ step[u] = "no"
    BY <1>2, <1>3, <2>1, <2>2
  <2>4. Clearing /\ ~Clearing'
    BY <2>1, <2>2, <2>3 DEF Clearing
  <2>5. live = {}
    BY <2>3, <2>4 DEF HandleInv, OneSession
  <2>6. QED
    BY <2>2, <2>3, <2>4, <2>5 DEF HandleInv, OneAtHandle, OneSession, AssignsNull
<1>8. CASE AssignHandle(t)
  <2>1. /\ DoNext(t, "no") /\ "no" \in Steps /\ step[t] = "assign"
        /\ live' = live \cup ({handle'} \ {NULL})
    BY <1>8 DEF AssignHandle, Steps
  <2>2. /\ ~raced /\ \A s \in Services: expiring'[s] # "clear" /\ expiring[s] # "clear"
        /\ step'[t] = "no" /\ \A u \in Threads: u # t => step'[u] = "no" /\ step[u] = "no"
    BY <1>2, <1>3, <2>1
  <2>3. ~Clearing /\ ~Clearing'
    BY <2>1, <2>2 DEF Clearing
  <2>4. handle = NULL
    BY <2>1, <2>2 DEF HandleInv, AssignsNull
  <2>5. live = {}
    BY <2>2, <2>3, <2>4 DEF HandleInv, OneSession
  <2>6. QED
    BY <2>1, <2>2, <2>3, <2>5 DEF HandleInv, OneAtHandle, OneSession, AssignsNull
<1>9. QED
  BY <1>4, <1>5, <1>6, <1>7, <1>8 DEF HandleStep

LEMMA HandleKept ==
  ASSUME TypeOK, HandleInv, SessionStep
  PROVE  HandleInv'
<1>0. /\ raced \in BOOLEAN
      /\ expiring \in [Services -> {"no", "free", "close", "clear"}]
  BY DEF TypeOK
<1>1. CASE /\ UNCHANGED sessionVars
           /\ \A s \in Services: expiring'[s] = "clear" <=> expiring[s] = "clear"
  <2>1. Clearing' <=> Clearing
    BY <1>1 DEF Clearing, sessionVars
  <2>2. QED
    BY <1>1, <2>1 DEF HandleInv, OneAtHandle, OneSession, AssignsNull, sessionVars
<1>2. CASE UNCHANGED expiring /\ \E t \in Threads: HandleStep(t)
  BY <1>2, HandleStepKept
<1>3. ASSUME NEW s \in Services, TimerClosed(s), ~raced'
      PROVE  HandleInv'
  <2>1. /\ ~raced /\ expiring[s] = "clear" /\ UNCHANGED <<step, live>> /\ handle' = NULL
        /\ expiring' = [expiring EXCEPT ![s] = "no"]
    BY <1>3 DEF TimerClosed
  <2>2. /\ \A t \in Threads: step[t] = "no"
        /\ \A r \in Services: r # s => expiring[r] # "clear"
    BY <2>1 DEF HandleInv, OneAtHandle
  <2>3. \A r \in Services: expiring'[r] # "clear"
    BY <1>0, <2>1, <2>2
  <2>4. Clearing /\ ~Clearing'
    BY <2>1, <2>2, <2>3 DEF Clearing
  <2>5. live = {}
    BY <2>1, <2>4 DEF HandleInv, OneSession
  <2>6. QED
    BY <2>1, <2>2, <2>3, <2>4, <2>5 DEF HandleInv, OneAtHandle, OneSession, AssignsNull
<1>4. ASSUME NEW s \in Services, sessionOpened[s], TimerClosesSession(s), ~raced'
      PROVE  HandleInv'
  <2>1. /\ raced' = (raced \/ AtHandle) /\ UNCHANGED <<step, handle>>
        /\ live' = live \ {handle}
        /\ expiring' = [expiring EXCEPT ![s] = "clear"]
    BY <1>4 DEF TimerClosesSession
  <2>2. ~raced /\ ~AtHandle
    BY <1>4, <2>1
  <2>3. (\A u \in Threads: step[u] = "no") /\ (\A r \in Services: expiring[r] # "clear")
    BY <2>2 DEF AtHandle
  <2>4. ~Clearing
    BY <2>3 DEF Clearing
  <2>5. live = {handle} \ {NULL}
    BY <2>2, <2>4 DEF HandleInv, OneSession
  <2>6. expiring'[s] = "clear" /\ \A r \in Services: r # s => expiring'[r] # "clear"
    BY <1>0, <2>1, <2>3
  <2>7. Clearing' /\ live' = {}
    BY <2>1, <2>5, <2>6 DEF Clearing
  <2>8. QED
    BY <2>1, <2>3, <2>6, <2>7 DEF HandleInv, OneAtHandle, OneSession, AssignsNull
<1>5. raced' => HandleInv'
  BY DEF HandleInv, OneAtHandle, OneSession, AssignsNull
<1>6. QED
  BY <1>1, <1>2, <1>3, <1>4, <1>5 DEF SessionStep


(***************************************************************************)
(* The types.                                                               *)
(***************************************************************************)
LEMMA UidsTyped == /\ FREE \in Uids
                   /\ \A c \in Clients: c \in Uids /\ Query(c) \in Uids
                   /\ \A s \in Services: Provision(s) \in Uids
  BY DEF Uids

Places == {"idle", "acquire", "release", "command", "locked", "query", "unlock",
           "unregister", "not started", "open", "work", "close", "exit"} \cup Services
CommandRecords == [session: Sessions \cup {NULL}, selfOpened: BOOLEAN,
             stage: {"no", "runs", "ends", "fails"}]
Lapses == {"timer", "late", "no uid", "unregister", "unlock"}

LockTyped == /\ lock \in Uids
             /\ timer \in [Services -> BOOLEAN]
             /\ expiring \in [Services -> {"no", "free", "close", "clear"}]
             /\ sessionOpened \in [Services -> BOOLEAN]
ServiceTyped == suid \in [Services -> Uids] /\ obj \in Services \cup {NULL}
ThreadTyped == at \in [Threads -> Places] /\ own \in [Threads -> CommandRecords]
CountsTyped == /\ rounds \in [Services -> 0..MaxRounds] /\ calls \in 0..MaxCalls
               /\ lapsed \subseteq Lapses /\ left \in BOOLEAN

LEMMA TypesSplit ==
  TypeOK <=> LockTyped /\ ServiceTyped /\ SessionTyped /\ ThreadTyped /\ CountsTyped
  BY DEF TypeOK, LockTyped, ServiceTyped, SessionTyped, ThreadTyped, CountsTyped, Places,
         CommandRecords, Lapses, Steps

LEMMA TypesJoin ==
  ASSUME LockTyped', ServiceTyped', SessionTyped', ThreadTyped', CountsTyped'
  PROVE  TypeOK'
  BY DEF TypeOK, LockTyped, ServiceTyped, SessionTyped, ThreadTyped, CountsTyped, Places,
         CommandRecords, Lapses, Steps

LEMMA StayTyped ==
  ASSUME TypeOK
  PROVE  /\ UNCHANGED lockVars => LockTyped'
         /\ UNCHANGED <<suid, obj>> => ServiceTyped'
         /\ UNCHANGED <<at, own>> => ThreadTyped'
         /\ UNCHANGED <<rounds, calls, lapsed, left>> => CountsTyped'
  BY TypesSplit DEF lockVars, LockTyped, ServiceTyped, ThreadTyped, CountsTyped

LEMMA AcquiresTyped ==
  ASSUME TypeOK, NEW s \in Services, NEW uid \in Uids, acquireLock(s, uid) \/ releaseLock(s)
  PROVE  LockTyped'
  BY UidsTyped, TypesSplit DEF acquireLock, releaseLock, LockTyped

LEMMA GoTyped ==
  ASSUME TypeOK, NEW t, NEW where \in Places, Go(t, where)
  PROVE  at' \in [Threads -> Places]
  BY TypesSplit DEF Go, ThreadTyped

LEMMA CallTyped ==
  ASSUME TypeOK, NEW c, Call(c)
  PROVE  calls' \in 0..MaxCalls
  BY BoundsAssumption, TypesSplit DEF Call, CountsTyped

LEMMA CommandTyped ==
  ASSUME TypeOK, SessionTyped', NEW t \in Threads,
         BeginCommand(t) \/ Ended(t) \/ CommandOpened(t) \/ CommandEnds(t) \/ CommandFails(t)
  PROVE  own' \in [Threads -> CommandRecords]
<1>1. own \in [Threads -> CommandRecords] /\ handle \in Sessions \cup {NULL}
  BY TypesSplit DEF ThreadTyped, SessionTyped
<1>2. handle' \in Sessions \cup {NULL}
  BY DEF SessionTyped
<1>3. CASE BeginCommand(t)
  <2>1. own' = [own EXCEPT ![t] = [session |-> handle, selfOpened |-> handle = NULL,
                                   stage |-> "runs"]]
    BY <1>3 DEF BeginCommand
  <2>2. [session |-> handle, selfOpened |-> handle = NULL, stage |-> "runs"] \in CommandRecords
    BY <1>1 DEF CommandRecords
  <2>3. QED
    BY <1>1, <2>1, <2>2
<1>4. CASE Ended(t)
  BY <1>1, <1>4 DEF Ended, NoCommand, CommandRecords
<1>5. CASE CommandOpened(t)
  BY <1>1, <1>2, <1>5 DEF CommandOpened, CommandRecords
<1>6. CASE CommandEnds(t) \/ CommandFails(t)
  BY <1>1, <1>6 DEF CommandEnds, CommandFails, CommandRecords
<1>7. QED
  BY <1>3, <1>4, <1>5, <1>6

LEMMA LeftTyped ==
  ASSUME TypeOK, NEW t \in Threads, Command(t)
  PROVE  left' \in BOOLEAN
<1>1. left \in BOOLEAN /\ own[t].selfOpened \in BOOLEAN
  BY TypesSplit DEF CountsTyped, ThreadTyped, CommandRecords
<1>2. CASE left' = (left \/ own[t].selfOpened)
  BY <1>1, <1>2, Zenon
<1>3. CASE UNCHANGED left
  BY <1>1, <1>3
<1>4. QED
  BY <1>2, <1>3 DEF Command, CommandOpened, CommandEnds, CommandFails

LEMMA RoundTyped ==
  ASSUME TypeOK, NEW s \in Services
  PROVE  /\ rounds[s] > 0 => [rounds EXCEPT ![s] = rounds[s] - 1] \in [Services -> 0..MaxRounds]
         /\ [rounds EXCEPT ![s] = MaxRounds] \in [Services -> 0..MaxRounds]
<1>1. MaxRounds \in Nat /\ rounds \in [Services -> 0..MaxRounds] /\ rounds[s] \in 0..MaxRounds
  BY BoundsAssumption, TypesSplit DEF CountsTyped
<1>2. rounds[s] > 0 => rounds[s] - 1 \in 0..MaxRounds
  BY <1>1
<1>3. MaxRounds \in 0..MaxRounds
  BY <1>1
<1>4. QED
  BY <1>1, <1>2, <1>3

\* Every step is a step of the session.
LEMMA CommandSessions ==
  ASSUME NEW t \in Threads, Command(t)
  PROVE  SessionStep
<1>1. UNCHANGED expiring
  BY DEF Command, lockVars
<1>2. UNCHANGED sessionVars \/ HandleStep(t)
  BY DEF Command, CommandOpened, CommandEnds, CommandFails, HandleStep
<1>3. QED
  BY <1>1, <1>2 DEF SessionStep

LEMMA OwnSessions ==
  ASSUME NEW t \in Threads, BeginCommand(t) \/ Ended(t), UNCHANGED lockVars
  PROVE  SessionStep
<1>1. UNCHANGED sessionVars \/ HandleStep(t)
  BY DEF BeginCommand, Ended, HandleStep
<1>2. QED
  BY <1>1 DEF SessionStep, lockVars

LEMMA LockSessions ==
  ASSUME \/ UNCHANGED <<lockVars, sessionVars>>
         \/ \E s \in Services: releaseLock(s) \/ \E uid: acquireLock(s, uid)
  PROVE  SessionStep
<1>1. UNCHANGED sessionVars /\ UNCHANGED expiring
  BY DEF lockVars, acquireLock, releaseLock
<1>2. QED
  BY <1>1 DEF SessionStep

LEMMA TimerSessions ==
  ASSUME TypeOK, NEW s \in Services, Timer(s)
  PROVE  SessionStep
<1>1. expiring \in [Services -> {"no", "free", "close", "clear"}]
  BY DEF TypeOK
<1>2. CASE TimerExpires(s)
  BY <1>1, <1>2 DEF TimerExpires, SessionStep
<1>3. CASE TimerFreesLock(s)
  BY <1>1, <1>3 DEF TimerFreesLock, SessionStep
<1>4. CASE TimerClosesSession(s) /\ ~sessionOpened[s]
  <2>1. UNCHANGED sessionVars /\ expiring' = [expiring EXCEPT ![s] = "no"] /\ expiring[s] = "close"
    BY <1>4 DEF TimerClosesSession, sessionVars
  <2>2. QED
    BY <1>1, <2>1 DEF SessionStep
<1>5. QED
  BY <1>2, <1>3, <1>4 DEF Timer, SessionStep

LEMMA TimersTyped ==
  ASSUME TypeOK, NEW s \in Services, Timer(s)
  PROVE  TypeOK'
<1>1. SessionTyped'
  BY TimerSessions, SessionsTyped
<1>2. UNCHANGED <<suid, obj, at, own, rounds, calls, left>>
  BY DEF Timer, TimerExpires, TimerFreesLock, TimerClosesSession, TimerClosed
<1>3. lapsed' \subseteq Lapses
  BY TypesSplit
     DEF Timer, TimerExpires, TimerFreesLock, TimerClosesSession, TimerClosed, CountsTyped, Lapses
<1>4. LockTyped'
  <2>1. lock' \in Uids
    BY TypesSplit, UidsTyped
       DEF Timer, TimerExpires, TimerFreesLock, TimerClosesSession, TimerClosed, LockTyped
  <2>2. \/ UNCHANGED timer
        \/ timer' = [timer EXCEPT ![s] = FALSE]
    BY DEF Timer, TimerExpires, TimerFreesLock, TimerClosesSession, TimerClosed
  <2>3. \/ UNCHANGED sessionOpened
        \/ sessionOpened' = [sessionOpened EXCEPT ![s] = FALSE]
    BY DEF Timer, TimerExpires, TimerFreesLock, TimerClosesSession, TimerClosed
  <2>4. \E what \in {"no", "free", "close", "clear"}: expiring' = [expiring EXCEPT ![s] = what]
    BY DEF Timer, TimerExpires, TimerFreesLock, TimerClosesSession, TimerClosed
  <2>5. QED
    BY <2>1, <2>2, <2>3, <2>4, TypesSplit DEF LockTyped
<1>5. CountsTyped'
  BY <1>2, <1>3, TypesSplit DEF CountsTyped
<1>6. QED
  BY <1>1, <1>2, <1>4, <1>5, TypesJoin, StayTyped

\* A thread of a service.
LEMMA ThreadsTyped ==
  ASSUME TypeOK, NEW s \in Services, Thread(s)
  PROVE  SessionStep /\ TypeOK'
<1>0. s \in Threads
  BY ThreadKinds
<1>1. CASE Command(s)
  <2>1. SessionStep /\ SessionTyped'
    BY <1>0, <1>1, CommandSessions, SessionsTyped
  <2>2. UNCHANGED <<lockVars, suid, obj, at, rounds, calls, lapsed>>
    BY <1>1 DEF Command
  <2>3. own' \in [Threads -> CommandRecords] /\ left' \in BOOLEAN
    BY <1>0, <1>1, <2>1, CommandTyped, LeftTyped, TypesSplit DEF Command, ThreadTyped
  <2>4. ThreadTyped' /\ CountsTyped'
    BY <2>2, <2>3, TypesSplit DEF ThreadTyped, CountsTyped
  <2>5. QED
    BY <2>1, <2>2, <2>4, TypesJoin, StayTyped
<1>2. CASE OpenSession(s) \/ SessionOpened(s) \/ CloseSession(s) \/ SessionClosed(s)
  <2>1. UNCHANGED <<lockVars, suid, obj, own, rounds, calls, lapsed, left>> /\ HandleStep(s)
    BY <1>2 DEF OpenSession, SessionOpened, CloseSession, SessionClosed, HandleStep
  <2>2. SessionStep /\ SessionTyped'
    BY <1>0, <2>1, SessionsTyped DEF SessionStep, lockVars
  <2>3. UNCHANGED at \/ \E where \in Places: Go(s, where)
    BY <1>2 DEF OpenSession, SessionOpened, CloseSession, SessionClosed, Places
  <2>4. ThreadTyped'
    BY <2>1, <2>3, GoTyped, TypesSplit DEF ThreadTyped
  <2>5. QED
    BY <2>1, <2>2, <2>4, TypesJoin, StayTyped
<1>3. CASE Callback(s)
  <2>1. SessionStep /\ SessionTyped'
    BY <1>3, LockSessions, SessionsTyped, TypesSplit DEF Callback, ServiceTyped
  <2>2. CASE obj # NULL /\ acquireLock(obj, suid[obj])
    <3>1. obj \in Services /\ suid[obj] \in Uids
      BY <2>2, TypesSplit DEF ServiceTyped
    <3>2. LockTyped'
      BY <2>2, <3>1, AcquiresTyped
    <3>3. CountsTyped'
      BY <1>3, RoundTyped, TypesSplit DEF Callback, CountsTyped
    <3>4. QED
      BY <1>3, <2>1, <3>2, <3>3, TypesJoin, StayTyped DEF Callback
  <2>3. CASE UNCHANGED lockVars
    <3>1. CountsTyped'
      BY <1>3, RoundTyped, TypesSplit DEF Callback, CountsTyped
    <3>2. QED
      BY <1>3, <2>1, <2>3, <3>1, TypesJoin, StayTyped DEF Callback
  <2>4. QED
    BY <1>3, <2>1, <2>2, <2>3 DEF Callback
<1>4. CASE Work(s) \/ WorkDone(s)
  <2>1. UNCHANGED <<lockVars, suid, obj, calls, lapsed, left>>
    BY <1>4 DEF Work, WorkDone
  <2>2. BeginCommand(s) \/ Ended(s)
    BY <1>4 DEF Work, WorkDone
  <2>3. SessionStep /\ SessionTyped'
    BY <1>0, <2>1, <2>2, OwnSessions, SessionsTyped
  <2>4. \E where \in Places: Go(s, where)
    BY <1>4 DEF Work, WorkDone, Places
  <2>5. ThreadTyped'
    BY <1>0, <2>2, <2>3, <2>4, CommandTyped, GoTyped DEF ThreadTyped
  <2>6. CountsTyped'
    BY <1>4, <2>1, RoundTyped, TypesSplit DEF Work, WorkDone, CountsTyped
  <2>7. QED
    BY <2>1, <2>3, <2>5, <2>6, TypesJoin, StayTyped
<1>5. CASE Exiting(s)
  <2>1. SessionStep /\ SessionTyped'
    BY <1>5, LockSessions, SessionsTyped, TypesSplit DEF Exiting, ServiceTyped
  <2>2. obj \in Services \cup {NULL} /\ suid \in [Services -> Uids]
    BY TypesSplit DEF ServiceTyped
  <2>3. LockTyped'
    <3>1. CASE obj # NULL /\ releaseLock(obj)
      BY <2>2, <3>1, UidsTyped, AcquiresTyped
    <3>2. CASE UNCHANGED lockVars
      BY <3>2, StayTyped
    <3>3. QED
      BY <1>5, <3>1, <3>2 DEF Exiting
  <2>4. ServiceTyped'
    BY <1>5, <2>2, UidsTyped DEF Exiting, ServiceTyped
  <2>5. ThreadTyped'
    BY <1>5, GoTyped, TypesSplit DEF Exiting, ThreadTyped, Places
  <2>6. QED
    BY <1>5, <2>1, <2>3, <2>4, <2>5, TypesJoin, StayTyped DEF Exiting
<1>6. QED
  BY <1>1, <1>2, <1>3, <1>4, <1>5 DEF Thread

\* What a service does for a client that has called.
LEMMA BindersTyped ==
  ASSUME TypeOK, NEW c \in Clients, Binder(c)
  PROVE  SessionStep /\ TypeOK'
<1>0. c \in Threads
  BY ThreadKinds
<1>1. CASE Command(c)
  <2>1. SessionStep /\ SessionTyped'
    BY <1>0, <1>1, CommandSessions, SessionsTyped
  <2>2. UNCHANGED <<lockVars, suid, obj, at, rounds, calls, lapsed>>
    BY <1>1 DEF Command
  <2>3. own' \in [Threads -> CommandRecords] /\ left' \in BOOLEAN
    BY <1>0, <1>1, <2>1, CommandTyped, LeftTyped, TypesSplit DEF Command, ThreadTyped
  <2>4. ThreadTyped' /\ CountsTyped'
    BY <2>2, <2>3, TypesSplit DEF ThreadTyped, CountsTyped
  <2>5. QED
    BY <2>1, <2>2, <2>4, TypesJoin, StayTyped
<1>2. CASE LockOpened(c) \/ UnlockClosed(c)
  <2>1. UNCHANGED <<lock, expiring, suid, obj, own, rounds, calls, lapsed, left>> /\ HandleStep(c)
    BY <1>2 DEF LockOpened, UnlockClosed, HandleStep
  <2>2. SessionStep /\ SessionTyped'
    BY <1>0, <2>1, SessionsTyped DEF SessionStep
  <2>3. Go(c, "idle") /\ "idle" \in Places
    BY <1>2 DEF LockOpened, UnlockClosed, Places
  <2>4. ThreadTyped'
    BY <2>1, <2>3, GoTyped, TypesSplit DEF ThreadTyped
  <2>5. LockTyped'
    BY <1>2, <2>1, TypesSplit, ThreadKinds DEF LockOpened, UnlockClosed, LockTyped
  <2>6. QED
    BY <2>1, <2>2, <2>4, <2>5, TypesJoin, StayTyped
<1>3. CASE \/ CommandsDone(c) \/ DoQuery(c) \/ QueryDone(c) \/ SeRefused(c) \/ GetSuid(c)
           \/ ThreadFails(c) \/ \E s \in Services: ThreadStarts(c, s)
  <2>1. UNCHANGED <<lockVars, suid, calls, lapsed, left>>
    BY <1>3 DEF CommandsDone, DoQuery, QueryDone, SeRefused, GetSuid, ThreadFails, ThreadStarts
  <2>2. BeginCommand(c) \/ Ended(c) \/ UNCHANGED <<own, sessionVars>>
    BY <1>3 DEF CommandsDone, DoQuery, QueryDone, SeRefused, GetSuid, ThreadFails, ThreadStarts
  <2>3. SessionStep /\ SessionTyped'
    BY <1>0, <2>1, <2>2, OwnSessions, LockSessions, SessionsTyped
  <2>4. own' \in [Threads -> CommandRecords]
    BY <1>0, <2>2, <2>3, CommandTyped, TypesSplit DEF ThreadTyped
  <2>5. ServiceTyped'
    BY <1>3, TypesSplit DEF CommandsDone, DoQuery, QueryDone, SeRefused, GetSuid, ThreadFails,
                            ThreadStarts, ServiceTyped
  <2>6. at' \in [Threads -> Places]
    <3>1. CASE UNCHANGED at \/ \E where \in Places: Go(c, where)
      BY <3>1, GoTyped, TypesSplit DEF ThreadTyped
    <3>2. CASE \E s \in Services: ThreadStarts(c, s)
      BY <3>2, TypesSplit DEF ThreadStarts, ThreadTyped, Places
    <3>3. \A s \in Services: NoThread(s) \in Places
      BY DEF NoThread, Services, Places
    <3>4. QED
      BY <1>3, <3>1, <3>2, <3>3
         DEF CommandsDone, DoQuery, QueryDone, SeRefused, GetSuid, ThreadFails, Places
  <2>7. rounds' \in [Services -> 0..MaxRounds]
    BY <1>3, RoundTyped, TypesSplit
       DEF CommandsDone, DoQuery, QueryDone, SeRefused, GetSuid, ThreadFails, ThreadStarts,
           CountsTyped
  <2>8. ThreadTyped' /\ CountsTyped'
    BY <2>1, <2>4, <2>6, <2>7, TypesSplit DEF ThreadTyped, CountsTyped
  <2>9. QED
    BY <2>1, <2>3, <2>5, <2>8, TypesJoin, StayTyped
<1>4. CASE QueryUnlocks(c) \/ NotStarted(c) \/ Unregistering(c)
  <2>1. (\E s \in Services: releaseLock(s)) \/ UNCHANGED <<lockVars, sessionVars>>
    BY <1>4, ThreadKinds DEF QueryUnlocks, NotStarted, Unregistering
  <2>2. SessionStep /\ SessionTyped'
    BY <2>1, LockSessions, SessionsTyped
  <2>3. LockTyped'
    BY <2>1, AcquiresTyped, UidsTyped, StayTyped
  <2>4. UNCHANGED <<obj, own, rounds, calls, left>> /\ Go(c, "idle") /\ "idle" \in Places
    BY <1>4 DEF QueryUnlocks, NotStarted, Unregistering, Places
  <2>5. ThreadTyped'
    BY <2>4, GoTyped, TypesSplit DEF ThreadTyped
  <2>6. ServiceTyped'
    BY <1>4, TypesSplit, UidsTyped DEF QueryUnlocks, NotStarted, Unregistering, ServiceTyped
  <2>7. lapsed' \subseteq Lapses
    BY <1>4, TypesSplit DEF QueryUnlocks, NotStarted, Unregistering, CountsTyped, Lapses
  <2>8. CountsTyped'
    BY <2>4, <2>7, TypesSplit DEF CountsTyped
  <2>9. QED
    BY <2>2, <2>3, <2>5, <2>6, <2>8, TypesJoin
<1>5. QED
  BY <1>1, <1>2, <1>3, <1>4 DEF Binder

\* A client calls.
LEMMA ClientsTyped ==
  ASSUME TypeOK, NEW c \in Clients, Client(c)
  PROVE  SessionStep /\ TypeOK'
<1>0. c \in Threads
  BY ThreadKinds
<1>1. UNCHANGED <<obj, rounds, left>>
  BY DEF Client, Lock, LockOpens, Unlock, UnlockCloses, StartQuery, executeCmpCommands,
         StartThread
<1>2. Call(c) \/ UNCHANGED calls
  BY DEF Client, Lock, LockOpens, Unlock, UnlockCloses, StartQuery, executeCmpCommands,
         StartThread
<1>3. lapsed' \subseteq Lapses
  BY TypesSplit
     DEF Client, Lock, LockOpens, Unlock, UnlockCloses, StartQuery, executeCmpCommands,
         StartThread, CountsTyped, Lapses
<1>4. CountsTyped'
  BY <1>1, <1>2, <1>3, CallTyped, TypesSplit DEF CountsTyped
<1>5. at' \in [Threads -> Places]
  <2>1. UNCHANGED at \/ \E where \in Places: Go(c, where)
    BY DEF Client, Lock, LockOpens, Unlock, UnlockCloses, StartQuery, executeCmpCommands,
           StartThread, Places
  <2>2. QED
    BY <2>1, GoTyped, TypesSplit DEF ThreadTyped
<1>6. ServiceTyped'
  BY <1>1, TypesSplit, UidsTyped
     DEF Client, Lock, LockOpens, Unlock, UnlockCloses, StartQuery, executeCmpCommands,
         StartThread, ServiceTyped
<1>7. CASE LockOpens(c) \/ UnlockCloses(c)
  <2>1. UNCHANGED <<timer, expiring, sessionOpened, own>> /\ HandleStep(c)
    BY <1>7 DEF LockOpens, UnlockCloses, HandleStep
  <2>2. SessionStep /\ SessionTyped'
    BY <1>0, <2>1, SessionsTyped DEF SessionStep
  <2>3. LockTyped'
    BY <1>7, <2>1, TypesSplit, UidsTyped DEF LockOpens, UnlockCloses, LockTyped
  <2>4. ThreadTyped'
    BY <1>5, <2>1, TypesSplit DEF ThreadTyped
  <2>5. QED
    BY <1>4, <1>6, <2>2, <2>3, <2>4, TypesJoin
<1>8. CASE Lock(c) \/ Unlock(c) \/ StartQuery(c) \/ \E s \in Services: StartThread(c, s)
  <2>1. \E s \in Services: releaseLock(s) \/ \E uid \in Uids: acquireLock(s, uid)
    BY <1>8, ThreadKinds, UidsTyped DEF Lock, Unlock, StartQuery, StartThread
  <2>2. SessionStep /\ SessionTyped'
    BY <2>1, LockSessions, SessionsTyped
  <2>3. LockTyped'
    BY <2>1, AcquiresTyped, UidsTyped
  <2>4. ThreadTyped'
    BY <1>5, <1>8, TypesSplit DEF Lock, Unlock, StartQuery, StartThread, ThreadTyped
  <2>5. QED
    BY <1>4, <1>6, <2>2, <2>3, <2>4, TypesJoin
<1>9. CASE \E uid \in {c, FREE}: executeCmpCommands(c, uid)
  <2>1. BeginCommand(c) /\ UNCHANGED lockVars
    BY <1>9 DEF executeCmpCommands
  <2>2. SessionStep /\ SessionTyped'
    BY <1>0, <2>1, OwnSessions, SessionsTyped
  <2>3. ThreadTyped'
    BY <1>0, <1>5, <2>1, <2>2, CommandTyped DEF ThreadTyped
  <2>4. QED
    BY <1>4, <1>6, <2>1, <2>2, <2>3, TypesJoin, StayTyped
<1>10. QED
  BY <1>7, <1>8, <1>9 DEF Client

LEMMA StartsTyped == Init => TypeOK /\ HandleInv
<1>1. SUFFICES ASSUME Init
               PROVE  TypeOK /\ HandleInv
  OBVIOUS
<1>2. 0 \in 0..MaxRounds /\ 0 \in 0..MaxCalls
  BY BoundsAssumption
<1>3. LockTyped /\ ServiceTyped /\ SessionTyped
  BY <1>1, UidsTyped DEF Init, LockTyped, ServiceTyped, SessionTyped, Steps
<1>4. ThreadTyped
  BY <1>1 DEF Init, ThreadTyped, NoCommand, CommandRecords, Places
<1>5. CountsTyped
  BY <1>1, <1>2 DEF Init, CountsTyped, Lapses
<1>6. HandleInv
  BY <1>1 DEF Init, HandleInv, OneAtHandle, OneSession, AssignsNull, Clearing
<1>7. QED
  BY <1>3, <1>4, <1>5, <1>6, TypesSplit

LEMMA NextTyped == TypeOK /\ HandleInv /\ [Next]_vars => TypeOK' /\ HandleInv'
<1>1. SUFFICES ASSUME TypeOK, HandleInv, [Next]_vars
               PROVE  TypeOK' /\ HandleInv'
  OBVIOUS
<1>2. CASE UNCHANGED vars
  <2>1. UNCHANGED <<lockVars, suid, obj, sessionVars, at, own, rounds, calls, lapsed, left>>
    BY <1>2 DEF vars
  <2>2. SessionStep
    BY <2>1, LockSessions
  <2>3. SessionTyped' /\ HandleInv'
    BY <1>1, <2>2, SessionsTyped, HandleKept
  <2>4. QED
    BY <1>1, <2>1, <2>3, TypesJoin, StayTyped
<1>3. CASE Next
  BY <1>1, <1>3, TimerSessions, TimersTyped, ThreadsTyped, BindersTyped, ClientsTyped, HandleKept
     DEF Next
<1>4. QED
  BY <1>1, <1>2, <1>3

(***************************************************************************)
(* The timers of the lock.  While a client closes the session of the lock   *)
(* that it has freed, another service may take the lock, whose timer is not *)
(* the one that the client cancels.                                         *)
(***************************************************************************)
timedVars == <<lock, timer, expiring>>
AtPlace(where) == {c \in Clients: at[c] = where}
Inside == AtPlace("acquire") \cup AtPlace("release")
OneInside == \A c, d \in Inside: c = d
TimedElsewhere == \/ \E s \in Services \ {PROVISIONING}: timer[s]
                  \/ \E s \in Services: expiring[s] = "free"
LockTimed == /\ HeldIsTimed /\ OneInside
             /\ lock # FREE /\ AtPlace("release") # {} => TimedElsewhere

\* Nobody enters a synchronized method that takes its time, or leaves one.
InsideStays == /\ AtPlace("acquire")' = AtPlace("acquire")
               /\ AtPlace("release")' = AtPlace("release")

LEMMA TimedStays ==
  ASSUME LockTimed, UNCHANGED timedVars, InsideStays
  PROVE  LockTimed'
<1>1. Timed' <=> Timed
  BY DEF Timed, timedVars, InsideStays, AtPlace
<1>2. HeldIsTimed' /\ OneInside'
  BY <1>1 DEF LockTimed, HeldIsTimed, OneInside, Inside, timedVars, InsideStays
<1>3. TimedElsewhere' <=> TimedElsewhere
  BY DEF TimedElsewhere, timedVars
<1>4. QED
  BY <1>2, <1>3 DEF LockTimed, timedVars, InsideStays

\* Taking the lock sets a timer, and a timer is cancelled with the lock that is freed
\* (acquireLock(), releaseLock()).
LEMMA LockIsTimed ==
  ASSUME TypeOK, LockTimed, InsideStays, NEW s \in Services, Entered(s),
         releaseLock(s) \/ \E uid: acquireLock(s, uid)
  PROVE  LockTimed'
<1>1. OneInside'
  BY DEF LockTimed, OneInside, Inside, InsideStays
<1>2. CASE releaseLock(s)
  BY <1>1, <1>2 DEF releaseLock, LockTimed, HeldIsTimed
<1>3. CASE \E uid: acquireLock(s, uid)
  <2>1. timer'[s]
    BY <1>3 DEF acquireLock, TypeOK
  <2>2. HeldIsTimed'
    BY <2>1 DEF HeldIsTimed, Timed
  <2>3. AtPlace("release") # {} => s # PROVISIONING
    BY DEF Entered, AtPlace
  <2>4. AtPlace("release")' # {} => TimedElsewhere'
    BY <2>1, <2>3 DEF TimedElsewhere, InsideStays
  <2>5. QED
    BY <1>1, <2>2, <2>4 DEF LockTimed
<1>4. QED
  BY <1>2, <1>3

\* A thread that moves neither to nor from such a method.
LEMMA OthersStay ==
  ASSUME TypeOK, NEW t \in Threads, NEW where, Go(t, where),
         t \in Services \/ {at[t], where} \cap {"acquire", "release"} = {}
  PROVE  InsideStays
<1>1. \A c \in Clients: c # t => at'[c] = at[c]
  BY ThreadKinds DEF TypeOK, Go
<1>2. t \in Clients => at'[t] = where
  BY DEF TypeOK, Go
<1>3. CASE t \in Services
  BY <1>1, <1>3, ThreadKinds DEF InsideStays, AtPlace
<1>4. CASE {at[t], where} \cap {"acquire", "release"} = {}
  BY <1>1, <1>2, <1>4 DEF InsideStays, AtPlace
<1>5. QED
  BY <1>3, <1>4

LEMMA TimersKeepTimed ==
  ASSUME TypeOK, LockTimed, NEW s \in Services, Timer(s)
  PROVE  LockTimed'
<1>1. InsideStays
  BY DEF Timer, TimerExpires, TimerFreesLock, TimerClosesSession, TimerClosed, InsideStays,
         AtPlace
<1>2. /\ timer \in [Services -> BOOLEAN]
      /\ expiring \in [Services -> {"no", "free", "close", "clear"}]
  BY DEF TypeOK
<1>3. OneInside'
  BY <1>1 DEF LockTimed, OneInside, Inside, InsideStays
<1>4. CASE TimerExpires(s)
  BY <1>2, <1>3, <1>4 DEF TimerExpires, LockTimed, HeldIsTimed, TimedElsewhere
<1>5. CASE TimerFreesLock(s)
  BY <1>3, <1>5 DEF TimerFreesLock, LockTimed, HeldIsTimed
<1>6. CASE TimerClosesSession(s) \/ TimerClosed(s)
  <2>1. UNCHANGED <<lock, timer>> /\ expiring[s] # "free"
    BY <1>6 DEF TimerClosesSession, TimerClosed
  <2>2. \A r \in Services: r # s => expiring'[r] = expiring[r]
    BY <1>2, <1>6 DEF TimerClosesSession, TimerClosed
  <2>3. Timed => Timed'
    BY <1>1, <2>1 DEF Timed, InsideStays, AtPlace
  <2>4. HeldIsTimed'
    BY <2>1, <2>2, <2>3 DEF LockTimed, HeldIsTimed
  <2>5. TimedElsewhere => TimedElsewhere'
    BY <2>1, <2>2 DEF TimedElsewhere
  <2>6. QED
    BY <1>1, <1>3, <2>1, <2>4, <2>5 DEF LockTimed, InsideStays
<1>7. QED
  BY <1>4, <1>5, <1>6 DEF Timer

LEMMA CommandsKeepTimed ==
  ASSUME LockTimed, NEW t \in Threads, Command(t)
  PROVE  LockTimed'
  BY TimedStays DEF Command, timedVars, lockVars, InsideStays, AtPlace

LEMMA ThreadsKeepTimed ==
  ASSUME TypeOK, LockTimed, NEW s \in Services, Thread(s)
  PROVE  LockTimed'
<1>0. s \in Threads
  BY ThreadKinds
<1>1. UNCHANGED at \/ (\E where: Go(s, where)) \/ Command(s)
  BY DEF Thread, OpenSession, SessionOpened, Callback, Work, WorkDone, CloseSession,
         SessionClosed, Exiting
<1>2. InsideStays
  BY <1>0, <1>1, OthersStay DEF InsideStays, AtPlace, Command
<1>3. CASE obj # NULL /\ Entered(obj) /\ (releaseLock(obj) \/ acquireLock(obj, suid[obj]))
  BY <1>2, <1>3, LockIsTimed DEF TypeOK
<1>4. CASE UNCHANGED lockVars
  BY <1>2, <1>4, TimedStays DEF lockVars, timedVars
<1>5. QED
  BY <1>3, <1>4
     DEF Thread, OpenSession, SessionOpened, Callback, Work, WorkDone, CloseSession,
         SessionClosed, Exiting, Command

LEMMA BindersKeepTimed ==
  ASSUME TypeOK, LockTimed, NEW c \in Clients, Binder(c)
  PROVE  LockTimed'
<1>0. c \in Threads /\ PROVISIONING \in Services /\ timer \in [Services -> BOOLEAN]
  BY ThreadKinds DEF TypeOK
<1>1. CASE LockOpened(c)
  <2>1. /\ at[c] = "acquire" /\ UNCHANGED <<lock, expiring>>
        /\ timer' = [timer EXCEPT ![PROVISIONING] = TRUE]
    BY <1>1 DEF LockOpened
  <2>2. Go(c, "idle")
    BY <1>1 DEF LockOpened
  <2>3. at'[c] = "idle" /\ \A d \in Clients: d # c => at'[d] = at[d]
    BY <1>0, <2>2, ThreadKinds DEF TypeOK, Go
  <2>4. \A d \in Clients: d # c => at[d] \notin {"acquire", "release"}
    BY <2>1 DEF LockTimed, OneInside, Inside, AtPlace
  <2>5. Inside' = {} /\ AtPlace("release")' = {}
    BY <2>3, <2>4 DEF Inside, AtPlace
  <2>6. timer'[PROVISIONING]
    BY <1>0, <2>1
  <2>7. HeldIsTimed'
    BY <1>0, <2>6 DEF HeldIsTimed, Timed
  <2>8. QED
    BY <2>5, <2>7 DEF LockTimed, OneInside
<1>2. CASE UnlockClosed(c)
  <2>1. /\ at[c] = "release" /\ UNCHANGED <<lock, expiring>>
        /\ timer' = [timer EXCEPT ![PROVISIONING] = FALSE]
    BY <1>2 DEF UnlockClosed
  <2>2. Go(c, "idle")
    BY <1>2 DEF UnlockClosed
  <2>3. at'[c] = "idle" /\ \A d \in Clients: d # c => at'[d] = at[d]
    BY <1>0, <2>2, ThreadKinds DEF TypeOK, Go
  <2>4. \A d \in Clients: d # c => at[d] \notin {"acquire", "release"}
    BY <2>1 DEF LockTimed, OneInside, Inside, AtPlace
  <2>5. Inside' = {} /\ AtPlace("release")' = {}
    BY <2>3, <2>4 DEF Inside, AtPlace
  <2>6. lock # FREE => TimedElsewhere
    BY <2>1 DEF LockTimed, AtPlace
  <2>7. TimedElsewhere => Timed' \/ \E s \in Services: expiring'[s] = "free"
    BY <1>0, <2>1 DEF TimedElsewhere, Timed
  <2>8. HeldIsTimed'
    BY <2>1, <2>6, <2>7 DEF HeldIsTimed
  <2>9. QED
    BY <2>5, <2>8 DEF LockTimed, OneInside
<1>3. CASE Command(c)
  BY <1>0, <1>3, CommandsKeepTimed
<1>4. CASE \/ CommandsDone(c) \/ DoQuery(c) \/ QueryDone(c) \/ SeRefused(c) \/ GetSuid(c)
           \/ ThreadFails(c) \/ \E s \in Services: ThreadStarts(c, s)
  <2>1. UNCHANGED lockVars
    BY <1>4 DEF CommandsDone, DoQuery, QueryDone, SeRefused, GetSuid, ThreadFails, ThreadStarts
  <2>2. at[c] \notin {"acquire", "release"}
    BY <1>4 DEF CommandsDone, DoQuery, QueryDone, SeRefused, GetSuid, ThreadFails, ThreadStarts,
                Services, PROVISIONING, DEVELOPER, OEM
  <2>3. InsideStays
    <3>1. CASE UNCHANGED at \/ \E where: Go(c, where) /\ where \notin {"acquire", "release"}
      BY <1>0, <2>2, <3>1, OthersStay DEF InsideStays, AtPlace
    <3>2. ASSUME NEW s \in Services, ThreadStarts(c, s)
          PROVE  InsideStays
      <4>1. /\ at'[c] \in {"unregister", "idle"} /\ \A d \in Clients: d # c => at'[d] = at[d]
        BY <1>0, <3>2, ThreadKinds DEF ThreadStarts, TypeOK
      <4>2. QED
        BY <2>2, <4>1 DEF InsideStays, AtPlace
    <3>3. \A s \in Services: NoThread(s) \notin {"acquire", "release"}
      BY DEF NoThread, Services
    <3>4. QED
      BY <1>4, <3>1, <3>2, <3>3
         DEF CommandsDone, DoQuery, QueryDone, SeRefused, GetSuid, ThreadFails
  <2>4. QED
    BY <2>1, <2>3, TimedStays DEF lockVars, timedVars
<1>5. CASE QueryUnlocks(c) \/ NotStarted(c) \/ Unregistering(c)
  <2>1. InsideStays
    BY <1>0, <1>5, OthersStay DEF QueryUnlocks, NotStarted, Unregistering
  <2>2. \/ \E s \in Services: Entered(s) /\ releaseLock(s)
        \/ UNCHANGED lockVars
    BY <1>5, ThreadKinds DEF QueryUnlocks, NotStarted, Unregistering, Entered, OEM, PROVISIONING
  <2>3. QED
    BY <2>1, <2>2, LockIsTimed, TimedStays DEF lockVars, timedVars
<1>6. QED
  BY <1>1, <1>2, <1>3, <1>4, <1>5 DEF Binder

LEMMA ClientsKeepTimed ==
  ASSUME TypeOK, LockTimed, NEW c \in Clients, Client(c)
  PROVE  LockTimed'
<1>0. c \in Threads /\ PROVISIONING \in Services
  BY ThreadKinds
<1>1. CASE Lock(c) \/ Unlock(c) \/ StartQuery(c) \/ \E s \in Services: StartThread(c, s)
  <2>1. at[c] = "idle" /\ \/ UNCHANGED at
                          \/ \E where \in {"locked"} \cup Services: Go(c, where)
    BY <1>1 DEF Lock, Unlock, StartQuery, StartThread, Call
  <2>2. Services \cap {"acquire", "release"} = {}
    BY DEF Services, PROVISIONING, DEVELOPER, OEM
  <2>3. InsideStays
    BY <1>0, <2>1, <2>2, OthersStay DEF InsideStays, AtPlace
  <2>4. \E s \in Services: Entered(s) /\ (releaseLock(s) \/ \E uid: acquireLock(s, uid))
    BY <1>0, <1>1 DEF Lock, Unlock, StartQuery, StartThread
  <2>5. QED
    BY <2>3, <2>4, LockIsTimed
<1>2. CASE LockOpens(c) \/ UnlockCloses(c)
  <2>1. Inside = {}
    BY <1>2 DEF LockOpens, UnlockCloses, Entered, Inside, AtPlace
  <2>2. PICK where \in {"acquire", "release"}:
          /\ Go(c, where) /\ (where = "release" => lock' = FREE)
    BY <1>2 DEF LockOpens, UnlockCloses
  <2>3. at'[c] = where /\ \A d \in Clients: d # c => at'[d] = at[d]
    BY <1>0, <2>2, ThreadKinds DEF TypeOK, Go
  <2>4. Inside' = {c} /\ (where = "acquire" => AtPlace("release")' = {})
    BY <2>1, <2>2, <2>3 DEF Inside, AtPlace
  <2>5. where = "acquire" => Timed'
    BY <2>3 DEF Timed
  <2>6. QED
    BY <2>2, <2>4, <2>5 DEF LockTimed, HeldIsTimed, OneInside
<1>3. CASE \E uid \in {c, FREE}: executeCmpCommands(c, uid)
  <2>1. UNCHANGED lockVars /\ at[c] = "idle" /\ Go(c, "command")
    BY <1>3 DEF executeCmpCommands, Call
  <2>2. InsideStays
    BY <1>0, <2>1, OthersStay
  <2>3. QED
    BY <2>1, <2>2, TimedStays DEF lockVars, timedVars
<1>4. QED
  BY <1>1, <1>2, <1>3 DEF Client

LEMMA NextTimed == TypeOK /\ LockTimed /\ [Next]_vars => LockTimed'
<1>1. SUFFICES ASSUME TypeOK, LockTimed, [Next]_vars
               PROVE  LockTimed'
  OBVIOUS
<1>2. CASE UNCHANGED vars
  BY <1>1, <1>2, TimedStays DEF vars, lockVars, timedVars, InsideStays, AtPlace
<1>3. CASE Next
  BY <1>1, <1>3, TimersKeepTimed, ThreadsKeepTimed, BindersKeepTimed, ClientsKeepTimed DEF Next
<1>4. QED
  BY <1>1, <1>2, <1>3

\* Whoever holds the lock, and whatever the services do to each other's lock, a timer
\* runs, is about to, or its task frees the lock next (acquireLock(), releaseLock() and
\* the task of the timer); and as long as no two have been at handle_ at the same time,
\* it is a session that is open, or is being cleared, and no other is open
\* (openCmtlSession(), closeCmtlSession()).
THEOREM ServiceLockInvariant == Spec => []Inv
<1> DEFINE SInv == TypeOK /\ HandleInv /\ LockTimed
<1>1. Init => SInv
  <2>1. Init => LockTimed
    BY ThreadKinds DEF Init, LockTimed, HeldIsTimed, OneInside, Inside, AtPlace
  <2>2. QED
    BY <2>1, StartsTyped
<1>2. SInv /\ [Next]_vars => SInv'
  BY NextTyped, NextTimed
<1>3. SInv => Inv
  BY DEF Inv, LockTimed, HandleInv
<1>4. QED
  BY <1>1, <1>2, <1>3, PTL DEF Spec

(***************************************************************************)
(* Where the threads are.                                                   *)
(***************************************************************************)
\* The places where a thread may be in a command.
CommandPlaces == {"command", "query"} \cup Services
\* Those where it opens or closes a session without a command.
Between(t) == IF t \in Services THEN {"open", "close"} ELSE {"acquire", "release"}

\* A command opens a session when it has found none, and closes the one it has opened.
InPlace(t) == /\ own[t] # NoCommand => at[t] \in CommandPlaces
              /\ step[t] # "no" => own[t] # NoCommand \/ at[t] \in Between(t)
              /\ own[t].stage = "runs" /\ step[t] # "no" =>
                   own[t].selfOpened /\ own[t].session = NULL
              /\ own[t].stage \in {"ends", "fails"} => step[t] \in {"no", "clear"}
              /\ own[t].stage = "ends" /\ own[t].selfOpened => step[t] = "clear"
\* A service knows its own uid.
Identified == \A s \in Services: suid[s] \in {FREE, Provision(s)}
\* At most one call has a thread started for a service, whose thread waits for it.
Placed == /\ \A t \in Threads: InPlace(t)
          /\ \A c \in Clients: at[c] \in Services => at[at[c]] = "idle"
          /\ \A c, d \in Clients: at[c] = at[d] /\ at[c] \in Services => c = d
          /\ Identified

LEMMA PlacesDiffer ==
  /\ NULL \notin Services /\ {"command", "query"} \subseteq CommandPlaces
  /\ Services \subseteq CommandPlaces
  /\ \A s \in Services: s \notin {"idle", "acquire", "release", "command", "locked", "query",
                                  "unlock", "unregister", "not started", "open", "work",
                                  "close", "exit"}
  /\ CommandPlaces \cap {"idle", "acquire", "release", "locked", "unlock", "unregister",
                         "not started", "open", "work", "close", "exit"} = {}
  BY UidsAssumption DEF CommandPlaces, Services, PROVISIONING, DEVELOPER, OEM

OthersAlone(t) == \A u \in Threads \ {t}: /\ at'[u] = at[u] /\ own'[u] = own[u]
                                          /\ step'[u] = step[u]

\* One thread moves: a client not to a service, and a service that no client waits for.
LEMMA MovesPlaced ==
  ASSUME Placed, NEW t \in Threads, OthersAlone(t), InPlace(t)',
         t \in Clients => at'[t] \notin Services \/ at'[t] = at[t],
         t \in Services => at[t] # "idle",
         Identified'
  PROVE  Placed'
<1>1. \A u \in Threads: InPlace(u)'
  BY DEF Placed, OthersAlone, InPlace, Between
<1>2. \A c \in Clients: at'[c] \in Services => at'[c] = at[c]
  BY ThreadKinds DEF OthersAlone
<1>3. \A c \in Clients: at'[c] \in Services => at'[at'[c]] = "idle"
  <2>1. SUFFICES ASSUME NEW c \in Clients, at'[c] \in Services
                 PROVE  at'[at[c]] = "idle"
    BY <1>2
  <2>2. at[c] \in Services /\ at[at[c]] = "idle" /\ at[c] \in Threads
    BY <1>2, <2>1, ThreadKinds DEF Placed
  <2>3. at[c] # t
    BY <2>2
  <2>4. QED
    BY <2>2, <2>3 DEF OthersAlone
<1>4. \A c, d \in Clients: at'[c] = at'[d] /\ at'[c] \in Services => c = d
  BY <1>2 DEF Placed
<1>5. QED
  BY <1>1, <1>3, <1>4 DEF Placed

LEMMA StaysPlaced ==
  ASSUME Placed, UNCHANGED <<at, own, step>>, Identified'
  PROVE  Placed'
  BY DEF Placed, InPlace, Between

LEMMA SuidStays ==
  ASSUME Placed, UNCHANGED suid
  PROVE  Identified'
  BY DEF Placed, Identified

LEMMA GoMoves ==
  ASSUME TypeOK, NEW t \in Threads, NEW where, Go(t, where)
  PROVE  at'[t] = where /\ \A u \in Threads \ {t}: at'[u] = at[u]
  BY DEF TypeOK, Go

\* Who is at no place of a command has none, and opens or closes nothing.
LEMMA IdleHasNone ==
  ASSUME Placed, NEW t \in Threads, at[t] \notin CommandPlaces
  PROVE  own[t] = NoCommand /\ (at[t] \notin Between(t) => step[t] = "no")
  BY DEF Placed, InPlace

LEMMA NoneIsThere == /\ NoCommand.session = NULL /\ ~NoCommand.selfOpened
                     /\ NoCommand.stage = "no"
  BY DEF NoCommand

\* A thread with no step to do at handle_ and no command is where it may be, at any place.
LEMMA NothingInPlace ==
  ASSUME NEW t, own'[t] = NoCommand, step'[t] = "no" \/ at'[t] \in Between(t)
  PROVE  InPlace(t)'
  BY NoneIsThere DEF InPlace, Between

LEMMA StepMoves ==
  ASSUME TypeOK, NEW t \in Threads, NEW what, Enter(t, what) \/ DoNext(t, what)
  PROVE  step'[t] = what /\ \A u \in Threads \ {t}: step'[u] = step[u]
  BY DEF TypeOK, Enter, DoNext

LEMMA CommandBegun ==
  ASSUME TypeOK, NEW t \in Threads, BeginCommand(t), step[t] = "no"
  PROVE  /\ own'[t] = [session |-> handle, selfOpened |-> handle = NULL, stage |-> "runs"]
         /\ step'[t] # "no" => handle = NULL
         /\ \A u \in Threads \ {t}: own'[u] = own[u] /\ step'[u] = step[u]
<1>1. /\ own' = [own EXCEPT ![t] = [session |-> handle, selfOpened |-> handle = NULL,
                                    stage |-> "runs"]]
      /\ (Enter(t, "open") /\ handle = NULL) \/ UNCHANGED step
  BY DEF BeginCommand, openCmtlSession, sessionVars
<1>2. own'[t] = [session |-> handle, selfOpened |-> handle = NULL, stage |-> "runs"]
      /\ \A u \in Threads \ {t}: own'[u] = own[u]
  BY <1>1 DEF TypeOK
<1>3. QED
  BY <1>1, <1>2, StepMoves

LEMMA BeginsInPlace ==
  ASSUME TypeOK, NEW t \in Threads, BeginCommand(t), step[t] = "no", at'[t] \in CommandPlaces
  PROVE  InPlace(t)'
<1>1. /\ own'[t].session = handle /\ own'[t].selfOpened = (handle = NULL)
      /\ own'[t].stage = "runs" /\ (step'[t] # "no" => handle = NULL)
  BY CommandBegun
<1>2. own'[t] # NoCommand
  BY <1>1, NoneIsThere
<1>3. QED
  BY <1>1, <1>2 DEF InPlace

LEMMA CommandOver ==
  ASSUME TypeOK, Placed, NEW t \in Threads, Ended(t)
  PROVE  /\ own'[t] = NoCommand /\ step'[t] = "no" /\ own[t] # NoCommand
         /\ \A u \in Threads \ {t}: own'[u] = own[u] /\ step'[u] = step[u]
<1>1. own' = [own EXCEPT ![t] = NoCommand] /\ own[t].stage \in {"ends", "fails"}
  BY DEF Ended
<1>2. own'[t] = NoCommand /\ \A u \in Threads \ {t}: own'[u] = own[u]
  BY <1>1 DEF TypeOK
<1>3. step[t] \in {"no", "clear"}
  BY <1>1 DEF Placed, InPlace
<1>4. IF step[t] = "clear" THEN DoNext(t, "no") ELSE UNCHANGED step
  BY DEF Ended, ClearHandle, sessionVars
<1>5. step'[t] = "no" /\ \A u \in Threads \ {t}: step'[u] = step[u]
  BY <1>3, <1>4, StepMoves
<1>6. own[t] # NoCommand
  BY <1>1, NoneIsThere
<1>7. QED
  BY <1>2, <1>5, <1>6

\* The steps of a command, and of the opening of a session without one.
LEMMA CommandMoves ==
  ASSUME TypeOK, Placed, NEW t \in Threads, Command(t)
  PROVE  OthersAlone(t) /\ at'[t] = at[t] /\ InPlace(t)'
<1>1. UNCHANGED at
  BY DEF Command
<1>2. own[t] \in CommandRecords /\ InPlace(t) /\ own \in [Threads -> CommandRecords]
  BY TypesSplit DEF ThreadTyped, Placed
<1>3. CASE CommandOpened(t)
  <2>1. /\ own[t].stage = "runs" /\ own' = [own EXCEPT ![t].session = handle']
        /\ DoNext(t, "no")
    BY <1>3 DEF CommandOpened, AssignHandle
  <2>2. /\ own'[t].stage = "runs" /\ own'[t].selfOpened = own[t].selfOpened
        /\ \A u \in Threads \ {t}: own'[u] = own[u]
    BY <1>2, <2>1 DEF CommandRecords
  <2>3. step'[t] = "no" /\ \A u \in Threads \ {t}: step'[u] = step[u]
    BY <2>1, StepMoves
  <2>4. own[t] # NoCommand
    BY <2>1, NoneIsThere
  <2>5. QED
    BY <1>1, <1>2, <2>2, <2>3, <2>4 DEF OthersAlone, InPlace
<1>4. CASE CommandEnds(t)
  <2>1. /\ own[t].stage = "runs" /\ own' = [own EXCEPT ![t].stage = "ends"] /\ step[t] = "no"
        /\ IF own[t].selfOpened THEN Enter(t, "clear") ELSE UNCHANGED step
    BY <1>4 DEF CommandEnds, closeCmtlSession, sessionVars
  <2>2. /\ own'[t].stage = "ends" /\ own'[t].selfOpened = own[t].selfOpened
        /\ \A u \in Threads \ {t}: own'[u] = own[u]
    BY <1>2, <2>1 DEF CommandRecords
  <2>3. /\ step'[t] = IF own[t].selfOpened THEN "clear" ELSE "no"
        /\ \A u \in Threads \ {t}: step'[u] = step[u]
    BY <2>1, StepMoves
  <2>4. own[t] # NoCommand /\ own'[t] # NoCommand
    BY <2>1, <2>2, NoneIsThere
  <2>5. QED
    BY <1>1, <1>2, <2>2, <2>3, <2>4 DEF OthersAlone, InPlace
<1>5. CASE CommandFails(t)
  <2>1. /\ own[t].stage = "runs" /\ own' = [own EXCEPT ![t].stage = "fails"] /\ step[t] = "no"
        /\ UNCHANGED step
    BY <1>5 DEF CommandFails, sessionVars
  <2>2. /\ own'[t].stage = "fails" /\ \A u \in Threads \ {t}: own'[u] = own[u]
    BY <1>2, <2>1 DEF CommandRecords
  <2>3. own[t] # NoCommand
    BY <2>1, NoneIsThere
  <2>4. QED
    BY <1>1, <1>2, <2>1, <2>2, <2>3 DEF OthersAlone, InPlace
<1>6. CASE (TestHandle(t) \/ Reclose(t)) /\ UNCHANGED own
  <2>1. PICK what \in {"assign", "reclose"}: DoNext(t, what)
    BY <1>6 DEF TestHandle, Reclose
  <2>2. step'[t] = what /\ \A u \in Threads \ {t}: step'[u] = step[u]
    BY <2>1, StepMoves
  <2>3. step[t] \in {"open", "reclose"}
    BY <1>6 DEF TestHandle, Reclose
  <2>4. QED
    BY <1>1, <1>2, <1>6, <2>1, <2>2, <2>3 DEF OthersAlone, InPlace, Between
<1>7. QED
  BY <1>3, <1>4, <1>5, <1>6 DEF Command

LEMMA CommandsPlaced ==
  ASSUME TypeOK, Placed, NEW t \in Threads, Command(t)
  PROVE  Placed'
<1>1. OthersAlone(t) /\ at'[t] = at[t] /\ InPlace(t)' /\ UNCHANGED <<suid, at>>
  BY CommandMoves DEF Command
<1>2. \A u \in Threads: InPlace(u)'
  BY <1>1 DEF Placed, OthersAlone, InPlace, Between
<1>3. QED
  BY <1>1, <1>2 DEF Placed, Identified

LEMMA TimersPlaced ==
  ASSUME Placed, NEW s \in Services, Timer(s)
  PROVE  Placed'
<1>1. UNCHANGED <<at, own, step, suid>>
  BY DEF Timer, TimerExpires, TimerFreesLock, TimerClosesSession, TimerClosed, sessionVars
<1>2. QED
  BY <1>1, StaysPlaced, SuidStays

LEMMA LockKeepsSteps ==
  ASSUME \/ UNCHANGED <<lockVars, sessionVars>>
         \/ \E s \in Services: releaseLock(s) \/ \E uid: acquireLock(s, uid)
  PROVE  UNCHANGED <<sessionVars, step>>
  BY DEF acquireLock, releaseLock, sessionVars

\* A thread of a service that does not end.
LEMMA ThreadsPlaced ==
  ASSUME TypeOK, Placed, NEW s \in Services, Thread(s)
  PROVE  Placed'
<1>0. s \in Threads /\ s \notin Clients /\ InPlace(s)
  BY ThreadKinds DEF Placed
<1>1. CASE Command(s)
  BY <1>0, <1>1, CommandsPlaced
<1>2. CASE OpenSession(s) \/ SessionOpened(s) \/ CloseSession(s) \/ SessionClosed(s)
  <2>1. /\ own[s] = NoCommand /\ UNCHANGED <<own, suid>> /\ at[s] # "idle"
        /\ at[s] \in {"open", "work", "close"}
    BY <1>0, <1>2, PlacesDiffer, IdleHasNone
       DEF OpenSession, SessionOpened, CloseSession, SessionClosed
  <2>2. /\ \E what \in Steps: Enter(s, what) \/ DoNext(s, what)
        /\ SessionOpened(s) \/ SessionClosed(s) => DoNext(s, "no")
    BY <1>2 DEF OpenSession, SessionOpened, CloseSession, SessionClosed, openCmtlSession,
                AssignHandle, closeCmtlSession, ClearHandle, Steps
  <2>3. /\ \A u \in Threads \ {s}: step'[u] = step[u]
        /\ SessionOpened(s) \/ SessionClosed(s) => step'[s] = "no"
    BY <1>0, <2>2, StepMoves
  <2>4. /\ \A u \in Threads \ {s}: at'[u] = at[u]
        /\ OpenSession(s) \/ CloseSession(s) => at'[s] \in {"open", "close"}
    <3>1. CASE UNCHANGED at /\ OpenSession(s)
      BY <3>1 DEF OpenSession
    <3>2. CASE \E where: Go(s, where) /\ (CloseSession(s) => where = "close")
      BY <1>0, <3>2, GoMoves DEF CloseSession, OpenSession
    <3>3. QED
      BY <1>0, <1>2, <3>1, <3>2, GoMoves DEF OpenSession, SessionOpened, CloseSession, SessionClosed
  <2>5. InPlace(s)'
    BY <1>0, <1>2, <2>1, <2>3, <2>4, NothingInPlace DEF Between
  <2>6. QED
    BY <1>0, <2>1, <2>3, <2>4, <2>5, MovesPlaced, SuidStays DEF OthersAlone
<1>3. CASE Callback(s)
  <2>1. UNCHANGED <<at, own, suid>>
    BY <1>3 DEF Callback
  <2>2. UNCHANGED step
    BY <1>3, LockKeepsSteps DEF Callback, TypeOK
  <2>3. QED
    BY <2>1, <2>2, StaysPlaced, SuidStays
<1>4. CASE Work(s)
  <2>1. at[s] = "work" /\ Go(s, "command") /\ BeginCommand(s) /\ UNCHANGED suid
    BY <1>4 DEF Work
  <2>2. at'[s] = "command" /\ \A u \in Threads \ {s}: at'[u] = at[u]
    BY <1>0, <2>1, GoMoves
  <2>3. step[s] = "no"
    BY <1>0, <2>1, IdleHasNone, PlacesDiffer DEF Between
  <2>4. InPlace(s)'
    BY <1>0, <2>1, <2>2, <2>3, BeginsInPlace, PlacesDiffer
  <2>5. OthersAlone(s)
    BY <1>0, <2>1, <2>2, <2>3, CommandBegun DEF OthersAlone
  <2>6. QED
    BY <1>0, <2>1, <2>4, <2>5, MovesPlaced, SuidStays
<1>5. CASE WorkDone(s)
  <2>1. at[s] = "command" /\ Go(s, "work") /\ Ended(s) /\ UNCHANGED suid
    BY <1>5 DEF WorkDone
  <2>2. at'[s] = "work" /\ \A u \in Threads \ {s}: at'[u] = at[u]
    BY <1>0, <2>1, GoMoves
  <2>3. /\ own'[s] = NoCommand /\ step'[s] = "no"
        /\ \A u \in Threads \ {s}: own'[u] = own[u] /\ step'[u] = step[u]
    BY <1>0, <2>1, CommandOver
  <2>4. QED
    BY <1>0, <2>1, <2>2, <2>3, NothingInPlace, MovesPlaced, SuidStays DEF OthersAlone
<1>6. CASE Exiting(s)
  <2>1. at[s] = "exit" /\ Go(s, "idle") /\ UNCHANGED own
    BY <1>6 DEF Exiting
  <2>2. at'[s] = "idle" /\ \A u \in Threads \ {s}: at'[u] = at[u]
    BY <1>0, <2>1, GoMoves
  <2>3. own[s] = NoCommand /\ step[s] = "no"
    BY <1>0, <2>1, IdleHasNone, PlacesDiffer DEF Between
  <2>4. UNCHANGED step
    BY <1>6, LockKeepsSteps DEF Exiting, TypeOK
  <2>5. suid' = suid \/ suid' = [suid EXCEPT ![obj] = FREE]
    BY <1>6 DEF Exiting
  <2>6. Identified'
    BY <2>5 DEF Placed, Identified, TypeOK
  <2>7. QED
    BY <1>0, <2>1, <2>2, <2>3, <2>4, <2>6, NothingInPlace, MovesPlaced DEF OthersAlone
<1>7. QED
  BY <1>1, <1>2, <1>3, <1>4, <1>5, <1>6 DEF Thread

LEMMA BindersPlaced ==
  ASSUME TypeOK, Placed, NEW c \in Clients, Binder(c)
  PROVE  Placed'
<1>0. c \in Threads /\ c \notin Services /\ InPlace(c) /\ Between(c) = {"acquire", "release"}
  BY ThreadKinds DEF Placed, Between
<1>1. CASE Command(c)
  BY <1>0, <1>1, CommandsPlaced
<1>2. CASE LockOpened(c) \/ UnlockClosed(c)
  <2>1. /\ UNCHANGED <<own, suid>> /\ Go(c, "idle") /\ DoNext(c, "no")
        /\ at[c] \in {"acquire", "release"}
    BY <1>2 DEF LockOpened, UnlockClosed, AssignHandle, ClearHandle
  <2>2. at'[c] = "idle" /\ \A u \in Threads \ {c}: at'[u] = at[u]
    BY <1>0, <2>1, GoMoves
  <2>3. step'[c] = "no" /\ \A u \in Threads \ {c}: step'[u] = step[u]
    BY <1>0, <2>1, StepMoves
  <2>4. own[c] = NoCommand
    BY <1>0, <2>1, IdleHasNone, PlacesDiffer
  <2>5. QED
    BY <1>0, <2>1, <2>2, <2>3, <2>4, NothingInPlace, MovesPlaced, SuidStays, PlacesDiffer
       DEF OthersAlone
<1>3. CASE DoQuery(c) \/ GetSuid(c)
  <2>1. BeginCommand(c) /\ UNCHANGED suid
    BY <1>3 DEF DoQuery, GetSuid
  <2>2. at[c] \notin {"acquire", "release"} /\ own[c] = NoCommand
    BY <1>0, <1>3, IdleHasNone, PlacesDiffer DEF DoQuery, GetSuid
  <2>3. step[c] = "no"
    BY <1>0, <2>2 DEF InPlace
  <2>4. /\ \A u \in Threads \ {c}: at'[u] = at[u]
        /\ at'[c] \in CommandPlaces /\ (at'[c] \notin Services \/ at'[c] = at[c])
    <3>1. CASE DoQuery(c)
      BY <1>0, <3>1, GoMoves, PlacesDiffer DEF DoQuery
    <3>2. CASE GetSuid(c)
      BY <3>2, PlacesDiffer DEF GetSuid
    <3>3. QED
      BY <1>3, <3>1, <3>2
  <2>5. InPlace(c)' /\ OthersAlone(c)
    BY <1>0, <2>1, <2>3, <2>4, CommandBegun, BeginsInPlace DEF OthersAlone
  <2>6. QED
    BY <1>0, <2>1, <2>4, <2>5, MovesPlaced, SuidStays
<1>4. CASE CommandsDone(c) \/ QueryDone(c) \/ ThreadFails(c)
  <2>1. PICK where \in {"idle", "unlock", "not started", "unregister"}: Go(c, where)
    BY <1>4 DEF CommandsDone, QueryDone, ThreadFails, NoThread, Services
  <2>2. Ended(c) /\ UNCHANGED suid
    BY <1>4 DEF CommandsDone, QueryDone, ThreadFails
  <2>3. at'[c] \notin Services /\ \A u \in Threads \ {c}: at'[u] = at[u]
    BY <1>0, <2>1, GoMoves, PlacesDiffer
  <2>4. /\ own'[c] = NoCommand /\ step'[c] = "no"
        /\ \A u \in Threads \ {c}: own'[u] = own[u] /\ step'[u] = step[u]
    BY <1>0, <2>2, CommandOver
  <2>5. QED
    BY <1>0, <2>2, <2>3, <2>4, NothingInPlace, MovesPlaced, SuidStays DEF OthersAlone
<1>5. CASE SeRefused(c) \/ QueryUnlocks(c) \/ NotStarted(c) \/ Unregistering(c)
  <2>1. PICK where \in {"idle", "not started", "unregister"}: Go(c, where)
    BY <1>5 DEF SeRefused, QueryUnlocks, NotStarted, Unregistering, NoThread, Services
  <2>2. at'[c] \notin Services /\ \A u \in Threads \ {c}: at'[u] = at[u]
    BY <1>0, <2>1, GoMoves, PlacesDiffer
  <2>3. own[c] = NoCommand /\ at[c] \notin {"acquire", "release"} /\ UNCHANGED own
    BY <1>0, <1>5, IdleHasNone, PlacesDiffer
       DEF SeRefused, QueryUnlocks, NotStarted, Unregistering
  <2>4. step[c] = "no"
    BY <1>0, <2>3 DEF InPlace
  <2>5. UNCHANGED step
    BY <1>5, LockKeepsSteps, ThreadKinds
       DEF SeRefused, QueryUnlocks, NotStarted, Unregistering, sessionVars
  <2>6. suid' = suid \/ suid' = [suid EXCEPT ![PROVISIONING] = FREE]
    BY <1>5 DEF SeRefused, QueryUnlocks, NotStarted, Unregistering
  <2>7. Identified'
    BY <2>6 DEF Placed, Identified, TypeOK
  <2>8. QED
    BY <1>0, <2>2, <2>3, <2>4, <2>5, <2>7, NothingInPlace, MovesPlaced DEF OthersAlone
<1>6. ASSUME NEW s \in Services, ThreadStarts(c, s)
      PROVE  Placed'
  <2>1. /\ s \in Threads /\ c # s /\ at[c] = s /\ Ended(c) /\ UNCHANGED suid
        /\ at[s] = "idle"
    BY <1>0, <1>6, ThreadKinds DEF ThreadStarts, Placed
  <2>2. PICK where \in {"unregister", "idle"}: at' = [at EXCEPT ![s] = "open", ![c] = where]
    BY <1>6 DEF ThreadStarts
  <2>3. /\ at'[s] = "open" /\ at'[c] = where
        /\ \A u \in Threads: u # c /\ u # s => at'[u] = at[u]
    BY <1>0, <2>1, <2>2 DEF TypeOK
  <2>4. own[s] = NoCommand /\ step[s] = "no"
    BY <2>1, IdleHasNone, PlacesDiffer DEF Between
  <2>5. /\ own'[c] = NoCommand /\ step'[c] = "no"
        /\ \A u \in Threads \ {c}: own'[u] = own[u] /\ step'[u] = step[u]
    BY <1>0, <2>1, CommandOver
  <2>6. \A u \in Threads: InPlace(u)'
    <3>1. ASSUME NEW u \in Threads, u # c, u # s
          PROVE  InPlace(u)'
      BY <2>3, <2>5, <3>1 DEF Placed, InPlace, Between
    <3>2. InPlace(c)' /\ InPlace(s)'
      BY <2>1, <2>4, <2>5, NothingInPlace
    <3>3. QED
      BY <3>1, <3>2
  <2>7. where \notin Services
    BY <2>2, PlacesDiffer
  <2>8. \A d \in Clients: at'[d] \in Services => d # c /\ at'[d] = at[d] /\ at[d] # s
    BY <2>1, <2>3, <2>7, ThreadKinds DEF Placed
  <2>9. ASSUME NEW d \in Clients, at'[d] \in Services
        PROVE  at'[at'[d]] = "idle"
    <3>1. at'[d] = at[d] /\ at[d] \in Services /\ at[d] # s /\ at[d] # c /\ at[d] \in Threads
      BY <2>8, <2>9, ThreadKinds
    <3>2. at[at[d]] = "idle"
      BY <3>1 DEF Placed
    <3>3. QED
      BY <2>3, <3>1, <3>2
  <2>10. \A d, e \in Clients: at'[d] = at'[e] /\ at'[d] \in Services => d = e
    BY <2>8 DEF Placed
  <2>11. QED
    BY <2>1, <2>6, <2>9, <2>10, SuidStays DEF Placed
<1>7. QED
  BY <1>1, <1>2, <1>3, <1>4, <1>5, <1>6 DEF Binder

LEMMA ClientsPlaced ==
  ASSUME TypeOK, Placed, NEW c \in Clients, Client(c)
  PROVE  Placed'
<1>0. c \in Threads /\ c \notin Services /\ InPlace(c) /\ Between(c) = {"acquire", "release"}
  BY ThreadKinds DEF Placed, Between
<1>1. at[c] = "idle" /\ own[c] = NoCommand /\ step[c] = "no"
  <2>1. at[c] = "idle"
    BY DEF Client, Lock, LockOpens, Unlock, UnlockCloses, StartQuery, executeCmpCommands,
           StartThread, Call
  <2>2. QED
    BY <1>0, <2>1, IdleHasNone, PlacesDiffer
<1>2. CASE Lock(c) \/ Unlock(c)
  <2>1. UNCHANGED <<at, own, suid>>
    BY <1>2 DEF Lock, Unlock
  <2>2. UNCHANGED step
    BY <1>2, LockKeepsSteps, ThreadKinds DEF Lock, Unlock
  <2>3. QED
    BY <2>1, <2>2, StaysPlaced, SuidStays
<1>3. CASE LockOpens(c) \/ UnlockCloses(c)
  <2>1. /\ UNCHANGED <<own, suid>>
        /\ \E where \in {"acquire", "release"}: Go(c, where)
        /\ \E what \in Steps: Enter(c, what)
    BY <1>3 DEF LockOpens, UnlockCloses, openCmtlSession, closeCmtlSession, Steps
  <2>2. at'[c] \in {"acquire", "release"} /\ \A u \in Threads \ {c}: at'[u] = at[u]
    BY <1>0, <2>1, GoMoves
  <2>3. \A u \in Threads \ {c}: step'[u] = step[u]
    BY <1>0, <2>1, StepMoves
  <2>4. InPlace(c)'
    BY <1>0, <1>1, <2>1, <2>2, NothingInPlace
  <2>5. QED
    BY <1>0, <2>1, <2>2, <2>3, <2>4, MovesPlaced, SuidStays, PlacesDiffer DEF OthersAlone
<1>4. CASE StartQuery(c)
  <2>1. UNCHANGED <<own, suid>> /\ Go(c, "locked")
    BY <1>4 DEF StartQuery
  <2>2. at'[c] = "locked" /\ \A u \in Threads \ {c}: at'[u] = at[u]
    BY <1>0, <2>1, GoMoves
  <2>3. UNCHANGED step
    BY <1>4, LockKeepsSteps, ThreadKinds DEF StartQuery
  <2>4. QED
    BY <1>0, <1>1, <2>1, <2>2, <2>3, NothingInPlace, MovesPlaced, SuidStays, PlacesDiffer
       DEF OthersAlone
<1>5. CASE \E uid \in {c, FREE}: executeCmpCommands(c, uid)
  <2>1. UNCHANGED suid /\ Go(c, "command") /\ BeginCommand(c)
    BY <1>5 DEF executeCmpCommands
  <2>2. at'[c] = "command" /\ \A u \in Threads \ {c}: at'[u] = at[u]
    BY <1>0, <2>1, GoMoves
  <2>3. InPlace(c)' /\ OthersAlone(c)
    BY <1>0, <1>1, <2>1, <2>2, CommandBegun, BeginsInPlace, PlacesDiffer DEF OthersAlone
  <2>4. QED
    BY <1>0, <2>1, <2>2, <2>3, MovesPlaced, SuidStays, PlacesDiffer
<1>6. ASSUME NEW s \in Services, StartThread(c, s)
      PROVE  Placed'
  <2>1. /\ s \in Threads /\ c # s /\ UNCHANGED own
        /\ Go(c, s) /\ suid' = [suid EXCEPT ![s] = Provision(s)]
        /\ at[s] = "idle" /\ \A d \in Clients: at[d] # s
    BY <1>0, <1>6, ThreadKinds DEF StartThread, Provisioning
  <2>2. at'[c] = s /\ \A u \in Threads \ {c}: at'[u] = at[u]
    BY <1>0, <2>1, GoMoves
  <2>3. UNCHANGED step
    BY <1>6, LockKeepsSteps DEF StartThread
  <2>4. Identified'
    BY <2>1 DEF Placed, Identified, TypeOK
  <2>5. \A u \in Threads: InPlace(u)'
    <3>1. InPlace(c)'
      BY <1>1, <2>1, <2>3, NothingInPlace
    <3>2. ASSUME NEW u \in Threads, u # c
          PROVE  InPlace(u)'
      BY <2>1, <2>2, <2>3, <3>2 DEF Placed, InPlace, Between
    <3>3. QED
      BY <3>1, <3>2
  <2>6. ASSUME NEW d \in Clients, at'[d] \in Services
        PROVE  at'[at'[d]] = "idle"
    <3>1. CASE d = c
      BY <1>0, <2>1, <2>2, <3>1
    <3>2. CASE d # c
      <4>1. at'[d] = at[d] /\ at[d] # c /\ at[d] \in Threads
        BY <1>0, <2>2, <2>6, <3>2, ThreadKinds
      <4>2. QED
        BY <2>2, <2>6, <4>1 DEF Placed
    <3>3. QED
      BY <3>1, <3>2
  <2>7. \A d, e \in Clients: at'[d] = at'[e] /\ at'[d] \in Services => d = e
    BY <2>1, <2>2, ThreadKinds DEF Placed
  <2>8. QED
    BY <2>4, <2>5, <2>6, <2>7 DEF Placed
<1>7. QED
  BY <1>2, <1>3, <1>4, <1>5, <1>6 DEF Client

Typed == TypeOK /\ HandleInv /\ Placed
LEMMA InitTyped == Init => Typed
<1>1. SUFFICES ASSUME Init
               PROVE  Placed
  BY StartsTyped DEF Typed
<1>2. \A t \in Threads: own[t] = NoCommand /\ step[t] = "no" /\ at[t] = "idle"
  BY <1>1 DEF Init
<1>3. \A t \in Threads: InPlace(t)
  BY <1>2, NoneIsThere DEF InPlace
<1>4. \A c \in Clients: at[c] = "idle"
  BY <1>2, ThreadKinds
<1>5. Identified
  BY <1>1 DEF Init, Identified
<1>6. QED
  BY <1>3, <1>4, <1>5, ThreadKinds DEF Placed

LEMMA NextPlaced == Typed /\ [Next]_vars => Typed'
<1>1. SUFFICES ASSUME Typed, [Next]_vars
               PROVE  Placed'
  BY NextTyped DEF Typed
<1>2. CASE UNCHANGED vars
  BY <1>1, <1>2, StaysPlaced, SuidStays DEF vars, sessionVars, Typed
<1>3. CASE Next
  BY <1>1, <1>3, TimersPlaced, ThreadsPlaced, BindersPlaced, ClientsPlaced DEF Next, Typed
<1>4. QED
  BY <1>1, <1>2, <1>3

(***************************************************************************)
(* The commands exclude each other.  A thread that works does so under a uid*)
(* that has the lock, or has just freed it and closes the session.          *)
(***************************************************************************)
\* The uid under which thread t works, FREE when it does not.
Needs(t) ==
  IF t \in Services THEN IF at[t] = "idle" THEN FREE ELSE Provision(t)
  ELSE IF at[t] \in {"command", "acquire"} THEN t
  ELSE IF at[t] \in {"locked", "query", "unlock"} THEN Query(t)
  ELSE IF at[t] \in Services THEN Provision(at[t])
  ELSE IF at[t] = "not started" THEN Provision(PROVISIONING)
  ELSE FREE
Works(t) == Needs(t) # FREE \/ at[t] = "release"

NeedsHeld == \A t \in Threads: Needs(t) \in {FREE, lock}
OneWorks == \A t, u \in Threads: Works(t) /\ Works(u) => t = u
ReleasesFree == \A t \in Threads: at[t] = "release" => lock = FREE
\* A provisioning that has the lock is known to its service, and gets the callbacks.
Known == \A s \in Services: lock = Provision(s) => suid[s] = Provision(s)
Called == /\ \A s \in Services: at[s] # "idle" => obj = s
          /\ \A c \in Clients: at[c] \in Services /\ own[c] # NoCommand => obj = at[c]
SessionOpen == \A t \in Threads: own[t].stage = "runs" => own[t].session \in live \cup {NULL}
NotExpired == \A s \in Services: expiring[s] \notin {"close", "clear"}

Excluding == /\ NeedsHeld /\ OneWorks /\ ReleasesFree /\ Known /\ Called /\ SessionOpen
             /\ NotExpired /\ ~raced
Excl == lapsed = {} => Excluding

\* Who is in a command, or at handle_, works.
LEMMA AtHandleWorks ==
  ASSUME Placed, NEW t \in Threads, ~Works(t)
  PROVE  own[t] = NoCommand /\ step[t] = "no"
<1>1. InPlace(t) /\ Needs(t) = FREE /\ at[t] # "release"
  BY DEF Placed, Works
<1>2. CASE t \in Services
  <2>1. at[t] = "idle"
    BY <1>1, <1>2, UidsDiffer DEF Needs
  <2>2. QED
    BY <1>2, <2>1, IdleHasNone, PlacesDiffer DEF Between
<1>3. CASE t \in Clients
  <2>1. at[t] \notin CommandPlaces /\ at[t] # "acquire"
    BY <1>1, <1>3, UidsDiffer, ThreadKinds DEF Needs, CommandPlaces
  <2>2. QED
    BY <1>1, <1>3, <2>1, IdleHasNone, ThreadKinds DEF Between
<1>4. QED
  BY <1>2, <1>3 DEF Threads

LEMMA Alone ==
  ASSUME Excluding, NEW t \in Threads, Needs(t) # FREE
  PROVE  lock = Needs(t) /\ \A u \in Threads \ {t}: ~Works(u)
  BY DEF Excluding, NeedsHeld, OneWorks, Works

\* Nobody works when the lock is free, or held for what nobody does.
LEMMA Nobody ==
  ASSUME Excluding, NEW t \in Threads, lock = FREE \/ Needs(t) # lock, at[t] # "release"
  PROVE  ~Works(t)
  BY DEF Excluding, NeedsHeld, Works

\* Where no other works, nobody is at handle_, and it is open.
LEMMA NobodyAtHandle ==
  ASSUME Typed, Excluding, NEW t \in Threads, \A u \in Threads \ {t}: ~Works(u),
         step[t] = "no"
  PROVE  ~AtHandle /\ handle \in live \cup {NULL}
<1>1. \A u \in Threads: step[u] = "no"
  BY AtHandleWorks DEF Typed
<1>2. \A s \in Services: expiring[s] # "clear"
  BY DEF Excluding, NotExpired
<1>3. ~AtHandle /\ ~Clearing
  BY <1>1, <1>2 DEF AtHandle, Clearing
<1>4. live = {handle} \ {NULL}
  BY <1>3 DEF Typed, HandleInv, OneSession, Excluding
<1>5. QED
  BY <1>3, <1>4

\* One thread moves, and no other works.
LEMMA OneMoves ==
  ASSUME Typed, Excluding, NEW t \in Threads,
         \A u \in Threads \ {t}: ~Works(u), OthersAlone(t),
         Needs(t)' \in {FREE, lock'}, at'[t] = "release" => lock' = FREE,
         t \in Services => at'[t] = "idle" \/ obj' = t,
         t \in Clients => at'[t] \notin Services \/ own'[t] = NoCommand \/ obj' = at'[t],
         own'[t].stage = "runs" => own'[t].session \in live' \cup {NULL},
         Known', NotExpired', ~raced'
  PROVE  Excluding'
<1>1. \A u \in Threads \ {t}: ~Works(u)' /\ Needs(u)' = FREE /\ at'[u] # "release"
  BY DEF Works, Needs, OthersAlone
<1>2. NeedsHeld' /\ OneWorks' /\ ReleasesFree'
  BY <1>1 DEF NeedsHeld, OneWorks, ReleasesFree
<1>3. \A u \in Threads \ {t}: own'[u] = NoCommand
  BY AtHandleWorks DEF OthersAlone, Typed
<1>4. SessionOpen'
  BY <1>3, NoneIsThere DEF SessionOpen
<1>5. \A s \in Services \ {t}: at'[s] = "idle"
  BY <1>1, UidsDiffer, ThreadKinds DEF Needs
<1>6. Called'
  BY <1>3, <1>5, ThreadKinds DEF Called
<1>7. QED
  BY <1>2, <1>4, <1>6 DEF Excluding

\* What a step that leaves the threads and the lock alone keeps.
LEMMA NothingMoves ==
  ASSUME Excl, UNCHANGED <<lock, suid, obj, sessionVars, at, own, lapsed>>,
         NotExpired => NotExpired'
  PROVE  Excl'
<1>1. \A t \in Threads: Needs(t)' = Needs(t)
  BY DEF Needs
<1>2. UNCHANGED <<live, raced>>
  BY DEF sessionVars
<1>3. ASSUME Excluding
      PROVE  Excluding'
  <2>1. NeedsHeld' /\ OneWorks' /\ ReleasesFree'
    BY <1>1, <1>3 DEF Excluding, NeedsHeld, OneWorks, ReleasesFree, Works
  <2>2. Known' /\ Called'
    BY <1>3 DEF Excluding, Known, Called
  <2>3. SessionOpen' /\ NotExpired' /\ ~raced'
    BY <1>2, <1>3 DEF Excluding, SessionOpen
  <2>4. QED
    BY <2>1, <2>2, <2>3 DEF Excluding
<1>4. QED
  BY <1>3 DEF Excl

LEMMA TimersExclude ==
  ASSUME Typed, Excl, NEW s \in Services, Timer(s)
  PROVE  Excl'
<1>0. expiring \in [Services -> {"no", "free", "close", "clear"}]
  BY DEF Typed, TypeOK
<1>1. CASE TimerExpires(s)
  <2>1. NotExpired => NotExpired'
    BY <1>0, <1>1 DEF TimerExpires, NotExpired
  <2>2. QED
    BY <1>1, <2>1, NothingMoves DEF TimerExpires
<1>2. CASE TimerFreesLock(s)
  BY <1>2 DEF TimerFreesLock, Excl
<1>3. CASE TimerClosesSession(s) \/ TimerClosed(s)
  BY <1>3 DEF TimerClosesSession, TimerClosed, Excl, Excluding, NotExpired
<1>4. QED
  BY <1>1, <1>2, <1>3 DEF Timer

\* The steps of a command, of one thread that works.
LEMMA CommandsExcluded ==
  ASSUME Typed, Excl, NEW t \in Threads, Command(t)
  PROVE  Excl'
<1>1. SUFFICES ASSUME Excluding
               PROVE  Excluding'
  BY DEF Excl, Command
<1>2. UNCHANGED <<lock, expiring, suid, obj, at>>
  BY DEF Command, lockVars
<1>3. OthersAlone(t) /\ at'[t] = at[t] /\ InPlace(t)
  BY CommandMoves DEF Typed, Placed
<1>4. own[t] # NoCommand \/ step[t] # "no"
  BY NoneIsThere
     DEF Command, CommandOpened, CommandEnds, CommandFails, TestHandle, Reclose
<1>5. Works(t)
  BY <1>4, AtHandleWorks DEF Typed
<1>6. \A u \in Threads \ {t}: ~Works(u)
  BY <1>1, <1>5 DEF Excluding, OneWorks
<1>7. Needs(t)' = Needs(t)
  BY <1>2 DEF Needs
<1>8. Needs(t) \in {FREE, lock} /\ (at[t] = "release" => lock = FREE)
  BY <1>1 DEF Excluding, NeedsHeld, ReleasesFree
<1>9. Known' /\ NotExpired'
  BY <1>1, <1>2 DEF Excluding, Known, NotExpired
<1>10. own[t] \in CommandRecords /\ own \in [Threads -> CommandRecords]
  BY TypesSplit DEF ThreadTyped, Typed
<1>11. ~raced'
  <2>1. CASE closeCmtlSession(t) /\ step[t] = "no"
    <3>1. ~AtHandle
      BY <1>1, <1>6, <2>1, NobodyAtHandle
    <3>2. QED
      BY <1>1, <2>1, <3>1 DEF closeCmtlSession, Enter, Excluding
  <2>2. CASE UNCHANGED raced
    BY <1>1, <2>2 DEF Excluding
  <2>3. QED
    BY <2>1, <2>2
       DEF Command, CommandOpened, CommandEnds, CommandFails, TestHandle, Reclose, AssignHandle,
           DoNext, sessionVars
<1>12. own'[t].stage = "runs" => own'[t].session \in live' \cup {NULL}
  <2>1. CASE CommandOpened(t)
    <3>1. own'[t].session = handle' /\ live' = live \cup ({handle'} \ {NULL})
      BY <1>10, <2>1 DEF CommandOpened, AssignHandle, CommandRecords
    <3>2. QED
      BY <3>1
  <2>2. CASE CommandEnds(t) \/ CommandFails(t)
    BY <1>10, <2>2 DEF CommandEnds, CommandFails, CommandRecords
  <2>3. CASE (TestHandle(t) \/ Reclose(t)) /\ UNCHANGED own
    BY <1>3, <2>3 DEF TestHandle, Reclose, InPlace
  <2>4. QED
    BY <2>1, <2>2, <2>3 DEF Command
<1>13. /\ t \in Services => at[t] = "idle" \/ obj = t
       /\ t \in Clients => at[t] \notin Services \/ own[t] = NoCommand \/ obj = at[t]
  BY <1>1 DEF Excluding, Called
<1>14. t \in Clients /\ at[t] \in Services => own[t] # NoCommand
  BY <1>3, <1>4, PlacesDiffer, ThreadKinds DEF InPlace, Between
<1>15. QED
  BY <1>1, <1>2, <1>3, <1>6, <1>7, <1>8, <1>9, <1>11, <1>12, <1>13, <1>14, OneMoves

\* A command begins, of the one thread that works then.
LEMMA BeginsExcluded ==
  ASSUME Typed, Excluding, NEW t \in Threads, BeginCommand(t), step[t] = "no",
         \A u \in Threads \ {t}: ~Works(u)
  PROVE  ~raced' /\ own'[t].session \in live' \cup {NULL}
<1>1. ~AtHandle /\ handle \in live \cup {NULL}
  BY NobodyAtHandle
<1>2. UNCHANGED live /\ ~raced'
  BY <1>1 DEF BeginCommand, openCmtlSession, Enter, sessionVars, Excluding
<1>3. own'[t].session = handle
  BY CommandBegun DEF Typed
<1>4. QED
  BY <1>1, <1>2, <1>3

LEMMA EndsExcluded ==
  ASSUME Excluding, NEW t, Ended(t)
  PROVE  ~raced'
  BY DEF Ended, ClearHandle, DoNext, sessionVars, Excluding

\* A client that is idle and may have the lock is the one that may work.
LEMMA IdleClient ==
  ASSUME Excluding, NEW c \in Clients, at[c] = "idle", lock \in {FREE, c, Query(c)},
         lock # FREE \/ Entered(PROVISIONING)
  PROVE  \A u \in Threads: ~Works(u)
<1>1. \A u \in Threads: at[u] # "release"
  <2>1. CASE lock # FREE
    BY <2>1 DEF Excluding, ReleasesFree
  <2>2. CASE lock = FREE
    <3>1. \A s \in Services: Needs(s) = FREE
      BY <2>2, UidsDiffer, ThreadKinds DEF Excluding, NeedsHeld
    <3>2. \A s \in Services: at[s] = "idle"
      BY <3>1, UidsDiffer DEF Needs
    <3>3. QED
      BY <2>2, <3>2 DEF Entered, Threads
  <2>3. QED
    BY <2>1, <2>2
<1>2. ASSUME NEW u \in Threads, u \in Services, lock # FREE
      PROVE  Needs(u) # lock
  BY <1>2, UidsDiffer DEF Needs
<1>3. ASSUME NEW u \in Clients, u # c, lock # FREE
      PROVE  Needs(u) # lock
  BY <1>3, UidsDiffer, ThreadKinds DEF Needs
<1>4. Needs(c) = FREE
  BY ThreadKinds DEF Needs
<1>5. QED
  BY <1>1, <1>2, <1>3, <1>4, Nobody DEF Threads

\* Nobody works, and nobody will.
LEMMA StillNobody ==
  ASSUME Excluding, UNCHANGED <<at, own, obj, expiring, live, raced>>,
         \A t \in Threads: ~Works(t), Known'
  PROVE  Excluding'
<1>1. \A t \in Threads: ~Works(t)' /\ Needs(t)' = FREE /\ at'[t] # "release"
  BY DEF Works, Needs
<1>2. NeedsHeld' /\ OneWorks' /\ ReleasesFree'
  BY <1>1 DEF NeedsHeld, OneWorks, ReleasesFree
<1>3. Called' /\ NotExpired' /\ SessionOpen' /\ ~raced'
  BY DEF Excluding, Called, NotExpired, SessionOpen
<1>4. QED
  BY <1>2, <1>3 DEF Excluding

LEMMA LocksExclude ==
  ASSUME Typed, Excl, NEW c \in Clients, Lock(c) \/ Unlock(c)
  PROVE  Excl'
<1>1. SUFFICES ASSUME Excluding
               PROVE  Excluding'
  BY DEF Excl, Lock, Unlock
<1>2. /\ at[c] = "idle" /\ lock \in {FREE, c} /\ lock' \in {FREE, c}
      /\ UNCHANGED <<suid, obj, at, own, expiring, live, raced>> /\ Entered(PROVISIONING)
  BY DEF Lock, Unlock, Call, Acquired, Released, acquireLock, releaseLock, sessionVars
<1>3. \A t \in Threads: ~Works(t)
  BY <1>1, <1>2, IdleClient
<1>4. Known'
  BY <1>2, UidsDiffer DEF Known
<1>5. QED
  BY <1>1, <1>2, <1>3, <1>4, StillNobody

LEMMA OpensExclude ==
  ASSUME Typed, Excl, NEW c \in Clients, LockOpens(c) \/ UnlockCloses(c)
  PROVE  Excl'
<1>1. SUFFICES ASSUME Excluding
               PROVE  Excluding'
  BY DEF Excl, LockOpens, UnlockCloses
<1>2. /\ c \in Threads /\ c \notin Services
      /\ at[c] = "idle" /\ lock \in {FREE, c} /\ Entered(PROVISIONING)
      /\ UNCHANGED <<suid, obj, own, expiring>>
  BY ThreadKinds DEF LockOpens, UnlockCloses, Call, Released
<1>3. \A t \in Threads: ~Works(t)
  BY <1>1, <1>2, IdleClient
<1>4. own[c] = NoCommand /\ step[c] = "no"
  BY <1>2, <1>3, AtHandleWorks DEF Typed
<1>5. ~AtHandle
  BY <1>1, <1>2, <1>3, <1>4, NobodyAtHandle
<1>6. /\ \E what: Enter(c, what)
      /\ \/ Go(c, "acquire") /\ lock' = c
         \/ Go(c, "release") /\ lock' = FREE
  BY DEF LockOpens, UnlockCloses, openCmtlSession, closeCmtlSession
<1>7. ~raced' /\ \A u \in Threads \ {c}: step'[u] = step[u]
  BY <1>1, <1>2, <1>5, <1>6, StepMoves DEF Enter, Excluding, Typed
<1>8. /\ \A u \in Threads \ {c}: at'[u] = at[u]
      /\ \/ at'[c] = "acquire" /\ lock' = c
         \/ at'[c] = "release" /\ lock' = FREE
  BY <1>2, <1>6, GoMoves DEF Typed
<1>9. Needs(c)' \in {FREE, lock'} /\ at'[c] \notin Services
  BY <1>2, <1>8, ThreadKinds DEF Needs
<1>10. Known' /\ NotExpired'
  BY <1>1, <1>2, <1>8, UidsDiffer DEF Known, NotExpired, Excluding
<1>11. own'[c].stage # "runs"
  BY <1>2, <1>4, NoneIsThere
<1>12. OthersAlone(c)
  BY <1>2, <1>7, <1>8 DEF OthersAlone
<1>13. QED
  BY <1>1, <1>2, <1>3, <1>7, <1>8, <1>9, <1>10, <1>11, <1>12, OneMoves

\* The lock has opened or closed the session.
LEMMA OpenedExclude ==
  ASSUME Typed, Excl, NEW c \in Clients, LockOpened(c) \/ UnlockClosed(c)
  PROVE  Excl'
<1>1. SUFFICES ASSUME Excluding
               PROVE  Excluding'
  BY DEF Excl, LockOpened, UnlockClosed
<1>2. /\ c \in Threads /\ c \notin Services
      /\ at[c] \in {"acquire", "release"} /\ DoNext(c, "no") /\ Go(c, "idle")
      /\ UNCHANGED <<lock, suid, obj, own, expiring>>
  BY ThreadKinds DEF LockOpened, UnlockClosed, AssignHandle, ClearHandle
<1>3. Works(c)
  BY <1>2, UidsDiffer, ThreadKinds DEF Works, Needs
<1>4. \A u \in Threads \ {c}: ~Works(u)
  BY <1>1, <1>2, <1>3 DEF Excluding, OneWorks
<1>5. ~raced' /\ \A u \in Threads \ {c}: step'[u] = step[u]
  BY <1>1, <1>2, StepMoves DEF DoNext, Excluding, Typed
<1>6. at'[c] = "idle" /\ \A u \in Threads \ {c}: at'[u] = at[u]
  BY <1>2, GoMoves DEF Typed
<1>7. Needs(c)' = FREE /\ at'[c] \notin Services
  BY <1>2, <1>6, ThreadKinds DEF Needs
<1>8. Known' /\ NotExpired'
  BY <1>1, <1>2 DEF Known, NotExpired, Excluding
<1>9. own'[c].stage # "runs"
  BY <1>2, IdleHasNone, PlacesDiffer, NoneIsThere DEF Typed
<1>10. OthersAlone(c)
  BY <1>2, <1>5, <1>6 DEF OthersAlone
<1>11. QED
  BY <1>1, <1>2, <1>4, <1>5, <1>6, <1>7, <1>8, <1>9, <1>10, OneMoves

LEMMA CommandsExcludeStart ==
  ASSUME Typed, Excl, NEW c \in Clients, NEW uid \in {c, FREE}, executeCmpCommands(c, uid)
  PROVE  Excl'
<1>1. SUFFICES ASSUME Excluding, uid = c, lock = c
               PROVE  Excluding'
  BY DEF Excl, executeCmpCommands
<1>2. /\ c \in Threads /\ c \notin Services /\ at[c] = "idle" /\ Go(c, "command")
      /\ BeginCommand(c) /\ UNCHANGED <<lock, suid, obj, expiring>>
  BY ThreadKinds DEF executeCmpCommands, Call, lockVars
<1>3. \A u \in Threads: ~Works(u)
  BY <1>1, <1>2, IdleClient, UidsDiffer
<1>4. step[c] = "no"
  BY <1>2, <1>3, AtHandleWorks DEF Typed
<1>5. ~raced' /\ own'[c].session \in live' \cup {NULL}
  BY <1>1, <1>2, <1>3, <1>4, BeginsExcluded
<1>6. at'[c] = "command" /\ \A u \in Threads \ {c}: at'[u] = at[u]
  BY <1>2, GoMoves DEF Typed
<1>7. Needs(c)' = lock' /\ at'[c] \notin Services
  BY <1>1, <1>2, <1>6, ThreadKinds DEF Needs
<1>8. Known' /\ NotExpired'
  BY <1>1, <1>2 DEF Known, NotExpired, Excluding
<1>9. OthersAlone(c)
  BY <1>2, <1>4, <1>6, CommandBegun DEF OthersAlone, Typed
<1>10. QED
  BY <1>1, <1>2, <1>3, <1>5, <1>6, <1>7, <1>8, <1>9, OneMoves

\* The command of a call ends: of executeCmpCommands(), of a query, or of a provision()
\* that does not start its thread.
LEMMA EndsExclude ==
  ASSUME Typed, Excl, NEW c \in Clients, CommandsDone(c) \/ QueryDone(c) \/ ThreadFails(c)
  PROVE  Excl'
<1>1. SUFFICES ASSUME Excluding
               PROVE  Excluding'
  BY DEF Excl, CommandsDone, QueryDone, ThreadFails
<1>2. /\ c \in Threads /\ c \notin Services /\ UNCHANGED <<lock, suid, obj, expiring>>
      /\ Ended(c)
  BY ThreadKinds DEF CommandsDone, QueryDone, ThreadFails, lockVars
<1>3. PICK where: /\ Go(c, where)
                  /\ \/ at[c] = "command" /\ where = "idle"
                     \/ at[c] = "query" /\ where = "unlock"
                     \/ at[c] \in Services /\ where = NoThread(at[c])
  BY DEF CommandsDone, QueryDone, ThreadFails
<1>4. at'[c] = where /\ \A u \in Threads \ {c}: at'[u] = at[u]
  BY <1>2, <1>3, GoMoves DEF Typed
<1>5. Needs(c) # FREE
  BY <1>2, <1>3, UidsDiffer, ThreadKinds DEF Needs
<1>6. lock = Needs(c) /\ \A u \in Threads \ {c}: ~Works(u)
  BY <1>1, <1>2, <1>5, Alone
<1>7. where \notin Services /\ where # "release" /\ Needs(c)' \in {FREE, lock'}
  <2>1. CASE where = "idle"
    BY <1>2, <1>4, <2>1, ThreadKinds DEF Needs
  <2>2. CASE at[c] = "query" /\ where = "unlock"
    BY <1>2, <1>4, <1>6, <2>2, ThreadKinds DEF Needs
  <2>3. CASE at[c] \in Services /\ where = NoThread(at[c])
    <3>1. (at[c] = PROVISIONING /\ where = "not started") \/ where \in {"idle", "unregister"}
      BY <2>3 DEF NoThread, Services, PROVISIONING, DEVELOPER, OEM
    <3>2. CASE where \in {"idle", "unregister"}
      BY <1>2, <1>4, <3>2, ThreadKinds DEF Needs
    <3>3. CASE at[c] = PROVISIONING /\ where = "not started"
      BY <1>2, <1>4, <1>6, <3>3, ThreadKinds DEF Needs
    <3>4. QED
      BY <3>1, <3>2, <3>3
  <2>4. QED
    BY <1>3, <2>1, <2>2, <2>3
<1>8. Known' /\ NotExpired' /\ ~raced'
  BY <1>1, <1>2, EndsExcluded DEF Known, NotExpired, Excluding
<1>9. own'[c] = NoCommand /\ OthersAlone(c)
  BY <1>2, <1>4, CommandOver DEF Typed, OthersAlone
<1>10. own'[c].stage # "runs"
  BY <1>9, NoneIsThere
<1>11. QED
  BY <1>1, <1>2, <1>4, <1>6, <1>7, <1>8, <1>9, <1>10, OneMoves

LEMMA QueriesExclude ==
  ASSUME Typed, Excl, NEW c \in Clients, StartQuery(c) \/ DoQuery(c) \/ QueryUnlocks(c)
  PROVE  Excl'
<1>1. SUFFICES ASSUME Excluding
               PROVE  Excluding'
  BY DEF Excl, StartQuery, DoQuery, QueryUnlocks
<1>2. c \in Threads /\ c \notin Services /\ UNCHANGED <<suid, obj>>
  BY ThreadKinds DEF StartQuery, DoQuery, QueryUnlocks
<1>3. CASE StartQuery(c)
  <2>1. /\ at[c] = "idle" /\ lock \in {FREE, Query(c)} /\ lock' = Query(c) /\ Go(c, "locked")
        /\ Entered(PROVISIONING) /\ UNCHANGED <<own, expiring, sessionVars>>
    BY <1>3 DEF StartQuery, Call, Acquired, acquireLock
  <2>2. at'[c] = "locked" /\ \A u \in Threads \ {c}: at'[u] = at[u]
    BY <1>2, <2>1, GoMoves DEF Typed
  <2>3. \A u \in Threads: ~Works(u)
    BY <1>1, <2>1, IdleClient
  <2>4. own'[c].stage # "runs" /\ OthersAlone(c)
    BY <1>2, <2>1, <2>2, <2>3, AtHandleWorks, NoneIsThere DEF Typed, OthersAlone, sessionVars
  <2>5. Needs(c)' = lock' /\ at'[c] \notin Services
    BY <1>2, <2>1, <2>2, ThreadKinds DEF Needs
  <2>6. Known' /\ NotExpired' /\ ~raced'
    BY <1>1, <1>2, <2>1, UidsDiffer DEF Excluding, Known, NotExpired, sessionVars
  <2>7. QED
    BY <1>1, <1>2, <2>2, <2>3, <2>4, <2>5, <2>6, OneMoves
<1>4. CASE DoQuery(c)
  <2>1. UNCHANGED <<lock, expiring>> /\ at[c] = "locked" /\ Go(c, "query") /\ BeginCommand(c)
    BY <1>4 DEF DoQuery, lockVars
  <2>2. at'[c] = "query" /\ \A u \in Threads \ {c}: at'[u] = at[u]
    BY <1>2, <2>1, GoMoves DEF Typed
  <2>3. Needs(c) = Query(c) /\ Needs(c)' = Query(c)
    BY <1>2, <2>1, <2>2, ThreadKinds DEF Needs
  <2>4. lock = Query(c) /\ \A u \in Threads \ {c}: ~Works(u)
    BY <1>1, <1>2, <2>3, Alone, UidsDiffer
  <2>5. step[c] = "no"
    BY <1>2, <2>1, IdleHasNone, PlacesDiffer DEF Typed, Between
  <2>6. ~raced' /\ own'[c].session \in live' \cup {NULL} /\ OthersAlone(c)
    BY <1>1, <1>2, <2>1, <2>2, <2>4, <2>5, BeginsExcluded, CommandBegun DEF Typed, OthersAlone
  <2>7. Known' /\ NotExpired' /\ at'[c] \notin Services
    BY <1>1, <1>2, <2>1, <2>2, ThreadKinds DEF Excluding, Known, NotExpired
  <2>8. QED
    BY <1>1, <1>2, <2>1, <2>2, <2>3, <2>4, <2>6, <2>7, OneMoves
<1>5. CASE QueryUnlocks(c)
  <2>1. /\ at[c] = "unlock" /\ lock' \in {FREE, lock} /\ Go(c, "idle")
        /\ UNCHANGED <<own, expiring, sessionVars>>
    BY <1>5 DEF QueryUnlocks, releaseLock, lockVars
  <2>2. at'[c] = "idle" /\ \A u \in Threads \ {c}: at'[u] = at[u]
    BY <1>2, <2>1, GoMoves DEF Typed
  <2>3. Needs(c) = Query(c) /\ Needs(c)' = FREE
    BY <1>2, <2>1, <2>2, ThreadKinds DEF Needs
  <2>4. \A u \in Threads \ {c}: ~Works(u)
    BY <1>1, <1>2, <2>3, Alone, UidsDiffer
  <2>5. own'[c].stage # "runs" /\ OthersAlone(c)
    BY <1>2, <2>1, <2>2, IdleHasNone, PlacesDiffer, NoneIsThere
       DEF Typed, OthersAlone, sessionVars
  <2>6. Known' /\ NotExpired' /\ ~raced' /\ at'[c] \notin Services
    BY <1>1, <1>2, <2>1, <2>2, UidsDiffer, ThreadKinds
       DEF Excluding, Known, NotExpired, sessionVars
  <2>7. QED
    BY <1>1, <1>2, <2>2, <2>3, <2>4, <2>5, <2>6, OneMoves
<1>6. QED
  BY <1>3, <1>4, <1>5

(***************************************************************************)
(* The calls that start a thread.                                           *)
(***************************************************************************)
LEMMA StartExcludes ==
  ASSUME Typed, Excl, NEW c \in Clients, NEW s \in Services, StartThread(c, s)
  PROVE  Excl'
<1>1. SUFFICES ASSUME Excluding, \A d \in Clients: at[d] # "release"
               PROVE  Excluding'
  BY DEF Excl, StartThread
<1>2. /\ c \in Threads /\ c \notin Services /\ lock = FREE /\ lock' = Provision(s)
      /\ suid' = [suid EXCEPT ![s] = Provision(s)] /\ Go(c, s)
      /\ UNCHANGED <<obj, own, expiring, sessionVars>>
  BY ThreadKinds DEF StartThread, acquireLock
<1>3. \A u \in Threads: ~Works(u)
  <2>1. \A r \in Services: at[r] = "idle"
    BY <1>1, <1>2, UidsDiffer, ThreadKinds DEF Excluding, NeedsHeld, Needs
  <2>2. QED
    BY <1>1, <1>2, <2>1, Nobody DEF Threads
<1>4. at'[c] = s /\ \A u \in Threads \ {c}: at'[u] = at[u]
  BY <1>2, GoMoves DEF Typed
<1>5. Needs(c)' = lock' /\ s # "release"
  BY <1>2, <1>4, ThreadKinds DEF Needs
<1>6. NotExpired' /\ ~raced'
  BY <1>1, <1>2 DEF Excluding, NotExpired, sessionVars
<1>7. Known'
  BY <1>2, UidsDiffer DEF Known, Typed, TypeOK
<1>8. own'[c] = NoCommand /\ OthersAlone(c)
  BY <1>2, <1>3, <1>4, AtHandleWorks DEF Typed, OthersAlone, sessionVars
<1>9. own'[c].stage # "runs"
  BY <1>8, NoneIsThere
<1>10. QED
  BY <1>1, <1>2, <1>3, <1>4, <1>5, <1>6, <1>7, <1>8, <1>9, OneMoves

\* Where the thread is asked for, there is no other of the service.
LEMMA AskerAlone ==
  ASSUME Excluding, NEW c \in Clients, at[c] \in Services
  PROVE  /\ c \in Threads /\ c \notin Services
         /\ Needs(c) = Provision(at[c]) /\ lock = Provision(at[c])
         /\ \A u \in Threads \ {c}: ~Works(u)
         /\ \A s \in Services: at[s] = "idle"
<1>1. /\ c \in Threads /\ c \notin Services /\ Needs(c) = Provision(at[c])
      /\ Needs(c) # FREE
  BY ThreadKinds, UidsDiffer DEF Needs
<1>2. lock = Needs(c) /\ \A u \in Threads \ {c}: ~Works(u)
  BY <1>1, Alone
<1>3. ASSUME NEW s \in Services
      PROVE  at[s] = "idle"
  BY <1>1, <1>2, ThreadKinds, UidsDiffer DEF Works, Needs
<1>4. QED
  BY <1>1, <1>2, <1>3

LEMMA AsksExclude ==
  ASSUME Typed, Excl, NEW c \in Clients, SeRefused(c) \/ GetSuid(c)
  PROVE  Excl'
<1>1. SUFFICES ASSUME Excluding
               PROVE  Excluding'
  BY DEF Excl, SeRefused, GetSuid
<1>2. at[c] \in Services /\ UNCHANGED <<lock, suid, expiring>> /\ own[c] = NoCommand
  BY DEF SeRefused, GetSuid, lockVars
<1>3. /\ c \in Threads /\ c \notin Services
      /\ Needs(c) = Provision(at[c]) /\ lock = Provision(at[c])
      /\ \A u \in Threads \ {c}: ~Works(u)
  BY <1>1, <1>2, AskerAlone
<1>4. Known' /\ NotExpired'
  BY <1>1, <1>2 DEF Excluding, Known, NotExpired
<1>5. CASE SeRefused(c)
  <2>1. UNCHANGED <<own, sessionVars>> /\ Go(c, NoThread(at[c]))
    BY <1>5 DEF SeRefused
  <2>2. at'[c] = NoThread(at[c]) /\ \A u \in Threads \ {c}: at'[u] = at[u]
    BY <1>3, <2>1, GoMoves DEF Typed
  <2>3. \/ at[c] = PROVISIONING /\ at'[c] = "not started"
        \/ at'[c] \in {"idle", "unregister"}
    BY <1>2, <2>2 DEF NoThread, Services, PROVISIONING, DEVELOPER, OEM
  <2>4. Needs(c)' \in {FREE, lock'} /\ at'[c] # "release"
    BY <1>2, <1>3, <2>3, ThreadKinds DEF Needs
  <2>5. own'[c] = NoCommand /\ own'[c].stage # "runs" /\ ~raced' /\ OthersAlone(c)
    BY <1>1, <1>2, <2>1, <2>2, NoneIsThere DEF Excluding, sessionVars, OthersAlone
  <2>6. QED
    BY <1>1, <1>3, <1>4, <2>4, <2>5, OneMoves
<1>6. CASE GetSuid(c)
  <2>1. UNCHANGED at /\ obj' = at[c] /\ BeginCommand(c)
    BY <1>6 DEF GetSuid
  <2>2. step[c] = "no"
    BY <1>2, <1>3, PlacesDiffer DEF Typed, Placed, InPlace, Between
  <2>3. ~raced' /\ own'[c].session \in live' \cup {NULL} /\ OthersAlone(c)
    BY <1>1, <1>3, <2>1, <2>2, BeginsExcluded, CommandBegun DEF Typed, OthersAlone
  <2>4. Needs(c)' = lock' /\ at'[c] # "release"
    BY <1>2, <1>3, <2>1, PlacesDiffer DEF Needs
  <2>5. QED
    BY <1>1, <1>3, <1>4, <2>1, <2>3, <2>4, OneMoves
<1>7. QED
  BY <1>5, <1>6

\* The lock passes from the call to the thread, under the same uid.
LEMMA ThreadStartExcludes ==
  ASSUME Typed, Excl, NEW c \in Clients, NEW s \in Services, ThreadStarts(c, s)
  PROVE  Excl'
<1>1. SUFFICES ASSUME Excluding
               PROVE  Excluding'
  BY DEF Excl, ThreadStarts
<1>2. /\ at[c] = s /\ Ended(c) /\ UNCHANGED <<lock, suid, obj, expiring>>
      /\ \E where \in {"unregister", "idle"}: at' = [at EXCEPT ![s] = "open", ![c] = where]
  BY DEF ThreadStarts, lockVars
<1>3. /\ c \in Threads /\ c \notin Services /\ lock = Provision(s)
      /\ \A u \in Threads \ {c}: ~Works(u)
      /\ s \in Threads /\ s # c
  BY <1>1, <1>2, AskerAlone, ThreadKinds
<1>4. /\ at'[s] = "open" /\ at'[c] \in {"unregister", "idle"}
      /\ \A u \in Threads: u # c /\ u # s => at'[u] = at[u]
  BY <1>2, <1>3 DEF Typed, TypeOK
<1>5. /\ own'[c] = NoCommand /\ own[c] # NoCommand
      /\ \A u \in Threads \ {c}: own'[u] = own[u]
  BY <1>2, <1>3, CommandOver DEF Typed
<1>6. Needs(c)' = FREE
  BY <1>3, <1>4, ThreadKinds DEF Needs
<1>7. Needs(s)' = lock'
  BY <1>2, <1>3, <1>4 DEF Needs
<1>8. \A u \in Threads \ {s}: ~Works(u)' /\ Needs(u)' = FREE /\ at'[u] # "release"
  <2>1. ASSUME NEW u \in Threads, u # s, u # c
        PROVE  ~Works(u)' /\ Needs(u)' = FREE /\ at'[u] # "release"
    BY <1>3, <1>4, <2>1 DEF Works, Needs
  <2>2. QED
    BY <1>4, <1>6, <2>1 DEF Works
<1>9. NeedsHeld' /\ OneWorks' /\ ReleasesFree'
  BY <1>4, <1>7, <1>8 DEF NeedsHeld, OneWorks, ReleasesFree
<1>10. \A u \in Threads: own'[u] = NoCommand
  BY <1>3, <1>5, AtHandleWorks DEF Typed
<1>11. SessionOpen'
  BY <1>10, NoneIsThere DEF SessionOpen
<1>12. obj = s
  BY <1>1, <1>2, <1>5 DEF Excluding, Called
<1>13. \A r \in Services \ {s}: at'[r] = "idle"
  BY <1>8, UidsDiffer, ThreadKinds DEF Needs
<1>14. Called'
  BY <1>2, <1>10, <1>12, <1>13, ThreadKinds DEF Called
<1>15. Known' /\ NotExpired' /\ ~raced'
  BY <1>1, <1>2, EndsExcluded DEF Excluding, Known, NotExpired
<1>16. QED
  BY <1>9, <1>11, <1>14, <1>15 DEF Excluding

LEMMA NotStartedExcludes ==
  ASSUME Typed, Excl, NEW c \in Clients, NotStarted(c)
  PROVE  Excl'
<1>1. SUFFICES ASSUME Excluding
               PROVE  Excluding'
  BY DEF Excl, NotStarted
<1>2. /\ c \in Threads /\ c \notin Services /\ at[c] = "not started" /\ Go(c, "idle")
      /\ suid' = [suid EXCEPT ![PROVISIONING] = FREE] /\ UNCHANGED <<obj, own>>
  BY ThreadKinds DEF NotStarted
<1>3. Needs(c) = Provision(PROVISIONING) /\ Needs(c) # FREE
  BY <1>2, ThreadKinds, UidsDiffer DEF Needs
<1>4. lock = Provision(PROVISIONING) /\ \A u \in Threads \ {c}: ~Works(u)
  BY <1>1, <1>2, <1>3, Alone
<1>5. suid[PROVISIONING] = lock /\ lock # FREE
  BY <1>1, <1>3, <1>4, ThreadKinds DEF Excluding, Known
<1>6. lock' = FREE /\ UNCHANGED <<expiring, sessionVars>>
  BY <1>5 DEF NotStarted, Released, releaseLock
<1>7. at'[c] = "idle" /\ \A u \in Threads \ {c}: at'[u] = at[u]
  BY <1>2, GoMoves DEF Typed
<1>8. own'[c].stage # "runs" /\ OthersAlone(c)
  BY <1>2, <1>6, <1>7, IdleHasNone, PlacesDiffer, NoneIsThere DEF Typed, OthersAlone, sessionVars
<1>9. Needs(c)' = FREE /\ at'[c] \notin Services
  BY <1>2, <1>7, ThreadKinds DEF Needs
<1>10. Known' /\ NotExpired' /\ ~raced'
  BY <1>1, <1>6, UidsDiffer DEF Excluding, Known, NotExpired, sessionVars
<1>11. QED
  BY <1>1, <1>2, <1>4, <1>7, <1>8, <1>9, <1>10, OneMoves

\* The release of unregisterRootContainer(): only when no thread of its service is on its
\* way does it find the lock free, or another's.
LEMMA UnregisteringExcludes ==
  ASSUME Typed, Excl, NEW c \in Clients, Unregistering(c)
  PROVE  Excl'
<1>1. SUFFICES ASSUME Excluding, ~Unregisters
               PROVE  Excluding'
  BY DEF Excl, Unregistering
<1>2. /\ c \in Threads /\ c \notin Services /\ at[c] = "unregister" /\ Go(c, "idle")
      /\ UNCHANGED <<suid, obj, own>>
  BY ThreadKinds DEF Unregistering
<1>3. UNCHANGED <<expiring, sessionVars>>
  BY DEF Unregistering, releaseLock, lockVars
<1>4. at'[c] = "idle" /\ \A u \in Threads \ {c}: at'[u] = at[u]
  BY <1>2, GoMoves DEF Typed
<1>5. \A u \in Threads: Needs(u) # Provision(OEM)
  <2>1. ASSUME NEW u \in Services
        PROVE  Needs(u) # Provision(OEM)
    BY <1>1, UidsDiffer, ThreadKinds DEF Needs, Unregisters
  <2>2. ASSUME NEW u \in Clients
        PROVE  Needs(u) # Provision(OEM)
    <3>1. at[u] # OEM
      BY <1>1 DEF Unregisters
    <3>2. PROVISIONING # OEM
      BY DEF PROVISIONING, OEM
    <3>3. QED
      BY <3>1, <3>2, UidsDiffer, ThreadKinds DEF Needs
  <2>3. QED
    BY <2>1, <2>2 DEF Threads
<1>6. /\ lock' \in {FREE, lock}
      /\ lock' # lock => lock = Provision(OEM)
  <2>1. suid[OEM] \in {FREE, Provision(OEM)}
    BY ThreadKinds DEF Typed, Placed, Identified
  <2>2. QED
    BY <2>1 DEF Unregistering, Released, releaseLock, lockVars
<1>7. Needs(c) = FREE /\ Needs(c)' = FREE /\ at[c] # "release"
  BY <1>2, <1>4, ThreadKinds DEF Needs
<1>8. own[c] = NoCommand /\ own'[c] = NoCommand
  BY <1>2, IdleHasNone, PlacesDiffer DEF Typed
<1>9. \A u \in Threads \ {c}: Needs(u)' = Needs(u) /\ (Works(u)' <=> Works(u))
  BY <1>4 DEF Needs, Works
<1>10. NeedsHeld'
  <2>1. \A u \in Threads \ {c}: Needs(u) \in {FREE, lock'}
    BY <1>1, <1>5, <1>6 DEF Excluding, NeedsHeld
  <2>2. QED
    BY <1>7, <1>9, <2>1 DEF NeedsHeld
<1>11. OneWorks'
  BY <1>1, <1>4, <1>7, <1>9 DEF Excluding, OneWorks, Works
<1>12. ReleasesFree'
  BY <1>1, <1>4, <1>6 DEF Excluding, ReleasesFree
<1>13. SessionOpen' /\ ~raced' /\ NotExpired'
  BY <1>1, <1>2, <1>3 DEF Excluding, SessionOpen, NotExpired, sessionVars
<1>14. Known'
  BY <1>1, <1>2, <1>6, UidsDiffer DEF Excluding, Known
<1>15. Called'
  BY <1>1, <1>2, <1>4, <1>8, ThreadKinds DEF Excluding, Called
<1>16. QED
  BY <1>10, <1>11, <1>12, <1>13, <1>14, <1>15 DEF Excluding

(***************************************************************************)
(* The thread that provisions.                                              *)
(***************************************************************************)
LEMMA RunningAlone ==
  ASSUME Excluding, NEW s \in Services, at[s] # "idle"
  PROVE  /\ s \in Threads /\ Needs(s) = Provision(s) /\ lock = Provision(s) /\ obj = s
         /\ suid[s] = lock /\ lock # FREE
         /\ \A u \in Threads \ {s}: ~Works(u)
<1>1. s \in Threads /\ Needs(s) = Provision(s) /\ Needs(s) # FREE
  BY ThreadKinds, UidsDiffer DEF Needs
<1>2. lock = Needs(s) /\ \A u \in Threads \ {s}: ~Works(u)
  BY <1>1, Alone
<1>3. suid[s] = lock /\ obj = s
  BY <1>1, <1>2 DEF Excluding, Known, Called
<1>4. QED
  BY <1>1, <1>2, <1>3

\* A step of the thread that keeps the lock.
LEMMA ThreadMoves ==
  ASSUME Typed, Excluding, NEW s \in Services, at[s] # "idle",
         OthersAlone(s), UNCHANGED <<lock, suid, obj, expiring>>,
         at'[s] \notin {"idle", "release"},
         own'[s].stage = "runs" => own'[s].session \in live' \cup {NULL}, ~raced'
  PROVE  Excluding'
<1>1. /\ lock = Provision(s) /\ obj = s /\ s \in Threads /\ s \notin Clients
      /\ \A u \in Threads \ {s}: ~Works(u)
  BY RunningAlone, ThreadKinds
<1>2. Needs(s)' = lock'
  BY <1>1 DEF Needs
<1>3. Known' /\ NotExpired'
  BY DEF Excluding, Known, NotExpired
<1>4. QED
  BY <1>1, <1>2, <1>3, OneMoves

LEMMA ThreadSessionsExclude ==
  ASSUME Typed, Excl, NEW s \in Services,
         OpenSession(s) \/ SessionOpened(s) \/ CloseSession(s) \/ SessionClosed(s)
  PROVE  Excl'
<1>1. SUFFICES ASSUME Excluding
               PROVE  Excluding'
  BY DEF Excl, OpenSession, SessionOpened, CloseSession, SessionClosed
<1>2. /\ UNCHANGED <<lock, suid, obj, expiring, own>> /\ at[s] \in {"open", "work", "close"}
  BY DEF OpenSession, SessionOpened, CloseSession, SessionClosed, lockVars
<1>3. s \in Threads /\ s \notin Clients /\ \A u \in Threads \ {s}: ~Works(u)
  BY <1>1, <1>2, RunningAlone, ThreadKinds
<1>4. /\ at'[s] \in {"open", "work", "close", "exit"}
      /\ \A u \in Threads \ {s}: at'[u] = at[u]
  BY <1>3, GoMoves DEF OpenSession, SessionOpened, CloseSession, SessionClosed, Typed
<1>5. own[s] = NoCommand /\ (at[s] = "work" => step[s] = "no")
  BY <1>2, <1>3, IdleHasNone, PlacesDiffer DEF Typed, Between
<1>6. \A u \in Threads \ {s}: step'[u] = step[u]
  BY <1>3, StepMoves
     DEF OpenSession, SessionOpened, CloseSession, SessionClosed, openCmtlSession, AssignHandle,
         closeCmtlSession, ClearHandle, Typed
<1>7. ~raced'
  <2>1. CASE OpenSession(s) \/ CloseSession(s)
    <3>1. step[s] = "no" /\ \E what: Enter(s, what)
      BY <1>5, <2>1 DEF OpenSession, CloseSession, openCmtlSession, closeCmtlSession
    <3>2. ~AtHandle
      BY <1>1, <1>3, <3>1, NobodyAtHandle
    <3>3. QED
      BY <1>1, <3>1, <3>2 DEF Enter, Excluding
  <2>2. CASE SessionOpened(s) \/ SessionClosed(s)
    BY <1>1, <2>2 DEF SessionOpened, SessionClosed, AssignHandle, ClearHandle, DoNext, Excluding
  <2>3. QED
    BY <2>1, <2>2
<1>8. OthersAlone(s) /\ own'[s].stage # "runs"
  BY <1>2, <1>4, <1>5, <1>6, NoneIsThere DEF OthersAlone
<1>9. QED
  BY <1>1, <1>2, <1>4, <1>7, <1>8, ThreadMoves

LEMMA ThreadCommandsExclude ==
  ASSUME Typed, Excl, NEW s \in Services, Work(s) \/ WorkDone(s)
  PROVE  Excl'
<1>1. SUFFICES ASSUME Excluding
               PROVE  Excluding'
  BY DEF Excl, Work, WorkDone
<1>2. UNCHANGED <<lock, suid, obj, expiring>> /\ at[s] \in {"work", "command"}
  BY DEF Work, WorkDone, lockVars
<1>3. s \in Threads /\ s \notin Clients /\ \A u \in Threads \ {s}: ~Works(u)
  BY <1>1, <1>2, RunningAlone, ThreadKinds
<1>4. at'[s] \in {"command", "work"} /\ \A u \in Threads \ {s}: at'[u] = at[u]
  BY <1>3, GoMoves DEF Work, WorkDone, Typed
<1>5. CASE Work(s)
  <2>1. BeginCommand(s) /\ at[s] = "work"
    BY <1>5 DEF Work
  <2>2. step[s] = "no"
    BY <1>3, <2>1, IdleHasNone, PlacesDiffer DEF Typed, Between
  <2>3. ~raced' /\ own'[s].session \in live' \cup {NULL} /\ OthersAlone(s)
    BY <1>1, <1>3, <1>4, <2>1, <2>2, BeginsExcluded, CommandBegun DEF Typed, OthersAlone
  <2>4. QED
    BY <1>1, <1>2, <1>4, <2>3, ThreadMoves
<1>6. CASE WorkDone(s)
  <2>1. Ended(s)
    BY <1>6 DEF WorkDone
  <2>2. own'[s] = NoCommand /\ OthersAlone(s)
    BY <1>3, <1>4, <2>1, CommandOver DEF Typed, OthersAlone
  <2>3. ~raced' /\ own'[s].stage # "runs"
    BY <1>1, <2>1, <2>2, EndsExcluded, NoneIsThere
  <2>4. QED
    BY <1>1, <1>2, <1>4, <2>2, <2>3, ThreadMoves
<1>7. QED
  BY <1>5, <1>6

LEMMA CallbackExcludes ==
  ASSUME Typed, Excl, NEW s \in Services, Callback(s)
  PROVE  Excl'
<1>1. SUFFICES ASSUME Excluding
               PROVE  Excluding'
  BY DEF Excl, Callback
<1>2. UNCHANGED <<suid, obj, at, own>> /\ at[s] = "work"
  BY DEF Callback
<1>3. obj = s /\ suid[s] = lock /\ lock # FREE /\ s \in Threads
  BY <1>1, <1>2, RunningAlone
<1>4. lock' = lock /\ UNCHANGED <<expiring, sessionVars>>
  BY <1>3 DEF Callback, acquireLock, lockVars
<1>5. own[s] = NoCommand
  BY <1>2, <1>3, IdleHasNone, PlacesDiffer DEF Typed
<1>6. own'[s].stage # "runs" /\ OthersAlone(s) /\ ~raced'
  BY <1>1, <1>2, <1>4, <1>5, NoneIsThere DEF OthersAlone, sessionVars, Excluding
<1>7. QED
  BY <1>1, <1>2, <1>4, <1>6, ThreadMoves

LEMMA ExitingExcludes ==
  ASSUME Typed, Excl, NEW s \in Services, Exiting(s)
  PROVE  Excl'
<1>1. SUFFICES ASSUME Excluding
               PROVE  Excluding'
  BY DEF Excl, Exiting
<1>2. UNCHANGED own /\ at[s] = "exit" /\ Go(s, "idle")
  BY DEF Exiting
<1>3. /\ obj = s /\ suid[s] = lock /\ lock # FREE /\ s \in Threads /\ s \notin Clients
      /\ \A u \in Threads \ {s}: ~Works(u)
  BY <1>1, <1>2, RunningAlone, ThreadKinds
<1>4. obj # NULL
  BY <1>3, UidsAssumption
<1>5. /\ lock' = FREE /\ suid' = [suid EXCEPT ![s] = FREE]
      /\ UNCHANGED <<expiring, sessionVars>>
  BY <1>3, <1>4 DEF Exiting, Acquired, releaseLock
<1>6. at'[s] = "idle" /\ \A u \in Threads \ {s}: at'[u] = at[u]
  BY <1>2, <1>3, GoMoves DEF Typed
<1>7. own[s] = NoCommand
  BY <1>2, <1>3, IdleHasNone, PlacesDiffer DEF Typed
<1>8. own'[s].stage # "runs" /\ OthersAlone(s)
  BY <1>2, <1>5, <1>6, <1>7, NoneIsThere DEF OthersAlone, sessionVars
<1>9. Needs(s)' = FREE
  BY <1>6 DEF Needs
<1>10. Known' /\ NotExpired' /\ ~raced'
  BY <1>1, <1>5, UidsDiffer DEF Excluding, Known, NotExpired, sessionVars
<1>11. QED
  BY <1>1, <1>3, <1>6, <1>8, <1>9, <1>10, OneMoves

(***************************************************************************)
(* The theorem.                                                             *)
(***************************************************************************)
LEMMA InitExcludes == Init => Excl
<1>1. SUFFICES ASSUME Init
               PROVE  Excluding
  BY DEF Excl
<1>2. \A t \in Threads: own[t] = NoCommand /\ at[t] = "idle"
  BY <1>1 DEF Init
<1>3. \A t \in Threads: Needs(t) = FREE
  BY <1>2, ThreadKinds DEF Needs
<1>4. NeedsHeld /\ OneWorks /\ ReleasesFree /\ SessionOpen
  BY <1>2, <1>3, NoneIsThere DEF NeedsHeld, OneWorks, ReleasesFree, SessionOpen, Works
<1>5. Known /\ Called /\ NotExpired /\ ~raced
  BY <1>1, <1>2, UidsDiffer, ThreadKinds DEF Init, Known, Called, NotExpired
<1>6. QED
  BY <1>4, <1>5 DEF Excluding

LEMMA NextExcludes == Typed /\ Excl /\ [Next]_vars => Excl'
<1>1. SUFFICES ASSUME Typed, Excl, [Next]_vars
               PROVE  Excl'
  OBVIOUS
<1>2. CASE UNCHANGED vars
  BY <1>1, <1>2, NothingMoves DEF vars, lockVars, NotExpired
<1>3. ASSUME NEW s \in Services, Timer(s) \/ Thread(s)
      PROVE  Excl'
  BY <1>1, <1>3, TimersExclude, CommandsExcluded, ThreadSessionsExclude, ThreadCommandsExclude,
     CallbackExcludes, ExitingExcludes, ThreadKinds DEF Thread
<1>4. ASSUME NEW c \in Clients, Binder(c)
      PROVE  Excl'
  BY <1>1, <1>4, CommandsExcluded, OpenedExclude, EndsExclude, QueriesExclude, AsksExclude,
     ThreadStartExcludes, NotStartedExcludes, UnregisteringExcludes, ThreadKinds DEF Binder
<1>5. ASSUME NEW c \in Clients, Client(c)
      PROVE  Excl'
  BY <1>1, <1>5, LocksExclude, OpensExclude, QueriesExclude, CommandsExcludeStart, StartExcludes
     DEF Client
<1>6. QED
  BY <1>1, <1>2, <1>3, <1>4, <1>5 DEF Next

LEMMA WorkersExclude == Typed /\ Excl => Exclusive
<1>1. SUFFICES ASSUME Typed, Excluding
               PROVE  /\ ~raced
                      /\ \A t, u \in InCommand: t = u
                      /\ \A t \in InCommand: own[t].stage = "runs" =>
                                               own[t].session \in live \cup {NULL}
  BY DEF Exclusive, Excl
<1>2. \A t \in InCommand: t \in Threads /\ Works(t)
  BY <1>1, AtHandleWorks DEF InCommand, Typed
<1>3. QED
  BY <1>1, <1>2 DEF Excluding, OneWorks, SessionOpen

\* Until the lock has lapsed, one thread at a time is in a command or at handle_, and
\* nobody closes its session under it, whatever is called how often
\* (executeCmpCommands(), getVersion() and provision() under the lock that acquireLock()
\* gives).
THEOREM CommandsExclude == Spec => []Exclusive
<1>1. QED
  BY InitTyped, NextPlaced, InitExcludes, NextExcludes, WorkersExclude, PTL DEF Spec

(***************************************************************************)
(* Who will close the session.                                              *)
(***************************************************************************)
\* The lock has opened it, and a client still has the lock or the timer's task is on
\* its way; a client gives it back; a thread works with it; or a command has opened it
\* itself.
LockCloses == /\ sessionOpened[PROVISIONING]
              /\ lock \in Clients \/ expiring[PROVISIONING] # "no"
ReleaseCloses == AtPlace("release") # {}
ThreadCloses == \E s \in Services: at[s] \in {"work", "command", "close"}
CommandCloses == \E t \in Threads: own[t].selfOpened
Closer == LockCloses \/ ReleaseCloses \/ ThreadCloses \/ CommandCloses

\* The lock of a client is the provisioning service's to take back, and stays with the
\* client that opens the session; who closes the session has freed it.
ClientTimed == lock \in Clients => \/ timer[PROVISIONING] \/ expiring[PROVISIONING] = "free"
                                   \/ AtPlace("acquire") # {}
AcquireHeld == "late" \notin lapsed => \A c \in AtPlace("acquire"): lock = c
ReleaseFree == AtPlace("release") # {} => lock \notin Clients
ClientLock == ClientTimed /\ AcquireHeld /\ ReleaseFree

FailsLeft == \A t \in Threads: own[t].stage = "fails" /\ own[t].selfOpened => left
SessionHasCloser == handle # NULL /\ "late" \notin lapsed /\ ~left => Closer
Closed == ClientLock /\ FailsLeft /\ SessionHasCloser

historyGrows == ("late" \in lapsed => "late" \in lapsed') /\ (left => left')

\* A step that clears handle_, or takes no closer away.
LEMMA ClosersStay ==
  ASSUME SessionHasCloser, historyGrows,
         handle' # NULL /\ "late" \notin lapsed' /\ ~left' =>
           \/ handle # NULL /\ (Closer => Closer')
           \/ Closer'
  PROVE  SessionHasCloser'
  BY DEF SessionHasCloser, historyGrows

LEMMA LockUntouched ==
  ASSUME ClientLock, historyGrows, InsideStays,
         UNCHANGED <<lock, timer, expiring, sessionOpened>>
  PROVE  /\ ClientLock' /\ (LockCloses => LockCloses') /\ (ReleaseCloses => ReleaseCloses')
<1>1. ClientTimed' /\ ReleaseFree'
  BY DEF ClientLock, ClientTimed, ReleaseFree, InsideStays
<1>2. AcquireHeld'
  BY DEF ClientLock, AcquireHeld, InsideStays, historyGrows
<1>3. QED
  BY <1>1, <1>2 DEF ClientLock, LockCloses, ReleaseCloses, InsideStays

\* Who is not a client takes and gives back a lock that no client has.
LEMMA OthersLock ==
  ASSUME ClientLock, historyGrows, InsideStays, NEW s \in Services, NEW uid,
         uid \notin Clients, lock \in {FREE, uid}, acquireLock(s, uid) \/ releaseLock(s)
  PROVE  /\ ClientLock' /\ (LockCloses => LockCloses') /\ (ReleaseCloses => ReleaseCloses')
         /\ UNCHANGED <<handle, expiring>>
<1>1. lock \notin Clients /\ lock' \notin Clients
  BY UidsDiffer DEF acquireLock, releaseLock
<1>2. UNCHANGED <<expiring, sessionOpened, handle>>
  BY DEF acquireLock, releaseLock, sessionVars
<1>3. "late" \notin lapsed' => AtPlace("acquire") = {}
  BY <1>1 DEF ClientLock, AcquireHeld, historyGrows, AtPlace
<1>4. ClientTimed' /\ ReleaseFree' /\ AcquireHeld'
  BY <1>1, <1>3 DEF ClientTimed, ReleaseFree, AcquireHeld, InsideStays
<1>5. QED
  BY <1>1, <1>2, <1>4 DEF ClientLock, LockCloses, ReleaseCloses, InsideStays

\* One thread moves: a service's to a place where it closes, and a command is not lost.
LEMMA OneStays ==
  ASSUME NEW t \in Threads,
         \A u \in Threads \ {t}: at'[u] = at[u] /\ own'[u] = own[u],
         t \in Services => \/ at[t] \notin {"work", "command", "close"}
                           \/ at'[t] \in {"work", "command", "close"},
         own[t].selfOpened => own'[t].selfOpened
  PROVE  (ThreadCloses => ThreadCloses') /\ (CommandCloses => CommandCloses')
<1>1. ThreadCloses => ThreadCloses'
  BY ThreadKinds DEF ThreadCloses
<1>2. CommandCloses => CommandCloses'
  BY DEF CommandCloses
<1>3. QED
  BY <1>1, <1>2

LEMMA FailsStay ==
  ASSUME FailsLeft, historyGrows, NEW t \in Threads,
         \A u \in Threads \ {t}: own'[u] = own[u],
         own'[t] = own[t] \/ own'[t].stage # "fails" \/ ~own'[t].selfOpened \/ left'
  PROVE  FailsLeft'
  BY DEF FailsLeft, historyGrows

LEMMA TimersClose ==
  ASSUME Typed, Closed, NEW s \in Services, Timer(s)
  PROVE  Closed'
<1>1. UNCHANGED <<at, own, left>> /\ historyGrows
  BY DEF Timer, TimerExpires, TimerFreesLock, TimerClosesSession, TimerClosed, historyGrows
<1>2. FailsLeft' /\ InsideStays /\ (ReleaseCloses => ReleaseCloses')
      /\ (ThreadCloses => ThreadCloses') /\ (CommandCloses => CommandCloses')
  BY <1>1 DEF Closed, FailsLeft, InsideStays, AtPlace, ReleaseCloses, ThreadCloses, CommandCloses
<1>3. /\ PROVISIONING \in Services
      /\ timer \in [Services -> BOOLEAN] /\ sessionOpened \in [Services -> BOOLEAN]
      /\ expiring \in [Services -> {"no", "free", "close", "clear"}]
  BY ThreadKinds DEF Typed, TypeOK
<1>4. ASSUME ClientLock', handle' = NULL \/ handle' = handle,
             LockCloses /\ "late" \notin lapsed' => LockCloses'
      PROVE  Closed'
  BY <1>1, <1>2, <1>4, ClosersStay DEF Closed, Closer
<1>5. CASE TimerExpires(s)
  <2>1. UNCHANGED <<lock, sessionOpened, handle, lapsed>>
    BY <1>5 DEF TimerExpires, sessionVars
  <2>2. /\ expiring[PROVISIONING] # "no" => expiring'[PROVISIONING] = expiring[PROVISIONING]
        /\ timer[PROVISIONING] => timer'[PROVISIONING] \/ expiring'[PROVISIONING] = "free"
    BY <1>3, <1>5 DEF TimerExpires
  <2>3. ClientLock'
    BY <1>2, <2>1, <2>2
       DEF Closed, ClientLock, ClientTimed, AcquireHeld, ReleaseFree, InsideStays
  <2>4. LockCloses => LockCloses'
    BY <2>1, <2>2 DEF LockCloses
  <2>5. QED
    BY <1>4, <2>1, <2>3, <2>4
<1>6. CASE TimerFreesLock(s)
  <2>1. /\ lock' = FREE /\ lock' \notin Clients /\ UNCHANGED <<timer, sessionOpened, handle>>
        /\ Timed => "late" \in lapsed'
    BY <1>6, UidsDiffer DEF TimerFreesLock, sessionVars
  <2>2. AtPlace("acquire") # {} => "late" \in lapsed'
    BY <2>1 DEF Timed, AtPlace
  <2>3. ClientLock'
    BY <1>2, <2>1, <2>2 DEF ClientLock, ClientTimed, AcquireHeld, ReleaseFree, InsideStays
  <2>4. expiring[PROVISIONING] # "no" => expiring'[PROVISIONING] # "no"
    BY <1>3, <1>6 DEF TimerFreesLock
  <2>5. LockCloses /\ "late" \notin lapsed' => LockCloses'
    <3>1. SUFFICES ASSUME LockCloses, expiring[PROVISIONING] = "no"
                   PROVE  "late" \in lapsed'
      BY <2>1, <2>4 DEF LockCloses
    <3>2. timer[PROVISIONING] \/ AtPlace("acquire") # {}
      BY <3>1 DEF LockCloses, Closed, ClientLock, ClientTimed
    <3>3. QED
      BY <1>3, <2>1, <2>2, <3>2 DEF Timed
  <2>6. QED
    BY <1>4, <2>1, <2>3, <2>5
<1>7. CASE TimerClosesSession(s)
  <2>1. UNCHANGED <<lock, timer, sessionOpened, handle, lapsed>> /\ expiring[s] = "close"
    BY <1>7 DEF TimerClosesSession
  <2>2. expiring[PROVISIONING] = "free" => expiring'[PROVISIONING] = "free"
    BY <1>3, <1>7 DEF TimerClosesSession
  <2>3. ClientLock'
    BY <1>2, <2>1, <2>2
       DEF Closed, ClientLock, ClientTimed, AcquireHeld, ReleaseFree, InsideStays
  <2>4. LockCloses => LockCloses'
    BY <1>3, <1>7, <2>1 DEF TimerClosesSession, LockCloses
  <2>5. QED
    BY <1>4, <2>1, <2>3, <2>4
<1>8. CASE TimerClosed(s)
  <2>1. UNCHANGED <<lock, timer, lapsed>> /\ expiring[s] = "clear" /\ handle' = NULL
    BY <1>8 DEF TimerClosed
  <2>2. expiring[PROVISIONING] = "free" => expiring'[PROVISIONING] = "free"
    BY <1>3, <1>8 DEF TimerClosed
  <2>3. ClientLock'
    BY <1>2, <2>1, <2>2
       DEF Closed, ClientLock, ClientTimed, AcquireHeld, ReleaseFree, InsideStays
  <2>4. QED
    BY <1>1, <1>2, <2>1, <2>3 DEF Closed, SessionHasCloser
<1>9. QED
  BY <1>5, <1>6, <1>7, <1>8 DEF Timer

\* A client takes the lock and opens the session, or gives it back and closes it.
LEMMA LocksClose ==
  ASSUME Typed, LockTimed, Closed, NEW c \in Clients,
         Lock(c) \/ LockOpens(c) \/ Unlock(c) \/ UnlockCloses(c)
  PROVE  Closed'
<1>1. /\ c \in Threads /\ c \notin Services /\ PROVISIONING \in Services
      /\ timer \in [Services -> BOOLEAN]
  BY ThreadKinds DEF Typed, TypeOK
<1>2. /\ UNCHANGED <<own, left, lapsed, handle, sessionOpened, expiring>> /\ historyGrows
      /\ AtPlace("acquire") = {} /\ AtPlace("release") = {}
  BY DEF Lock, LockOpens, Unlock, UnlockCloses, acquireLock, releaseLock, openCmtlSession,
         closeCmtlSession, sessionVars, historyGrows, Entered, AtPlace
<1>3. UNCHANGED at \/ Go(c, "acquire") \/ Go(c, "release")
  BY DEF Lock, LockOpens, Unlock, UnlockCloses
<1>4. \A u \in Threads \ {c}: at'[u] = at[u]
  BY <1>1, <1>3, GoMoves DEF Typed
<1>5. FailsLeft' /\ (ThreadCloses => ThreadCloses') /\ (CommandCloses => CommandCloses')
  BY <1>1, <1>2, <1>4, OneStays DEF Closed, FailsLeft
<1>6. ASSUME ClientLock', LockCloses => LockCloses' \/ ReleaseCloses'
      PROVE  Closed'
  BY <1>2, <1>5, <1>6, ClosersStay DEF Closed, Closer, ReleaseCloses
<1>7. CASE Lock(c)
  <2>1. lock' = c /\ timer'[PROVISIONING] /\ UNCHANGED at
    BY <1>1, <1>7 DEF Lock, acquireLock
  <2>2. AtPlace("acquire")' = {} /\ AtPlace("release")' = {}
    BY <1>2, <2>1 DEF AtPlace
  <2>3. ClientLock'
    BY <2>1, <2>2 DEF ClientLock, ClientTimed, AcquireHeld, ReleaseFree
  <2>4. LockCloses => LockCloses'
    BY <1>2, <2>1 DEF LockCloses
  <2>5. QED
    BY <1>6, <2>3, <2>4
<1>8. CASE LockOpens(c)
  <2>1. lock' = c /\ Go(c, "acquire") /\ ~sessionOpened[PROVISIONING]
    BY <1>8 DEF LockOpens
  <2>2. at'[c] = "acquire"
    BY <1>1, <2>1, GoMoves DEF Typed
  <2>3. AtPlace("acquire")' = {c} /\ AtPlace("release")' = {}
    BY <1>2, <1>4, <2>2, ThreadKinds DEF AtPlace
  <2>4. ClientLock'
    BY <2>1, <2>3 DEF ClientLock, ClientTimed, AcquireHeld, ReleaseFree
  <2>5. QED
    BY <1>6, <2>1, <2>4 DEF LockCloses
<1>9. CASE Unlock(c)
  <2>1. lock' = FREE /\ lock' \notin Clients /\ UNCHANGED at /\ ~sessionOpened[PROVISIONING]
    BY <1>9, UidsDiffer DEF Unlock, releaseLock
  <2>2. AtPlace("acquire")' = {}
    BY <1>2, <2>1 DEF AtPlace
  <2>3. ClientLock'
    BY <2>1, <2>2 DEF ClientLock, ClientTimed, AcquireHeld, ReleaseFree
  <2>4. QED
    BY <1>6, <2>1, <2>3 DEF LockCloses
<1>10. CASE UnlockCloses(c)
  <2>1. lock' = FREE /\ lock' \notin Clients /\ Go(c, "release")
    BY <1>10, UidsDiffer DEF UnlockCloses
  <2>2. at'[c] = "release"
    BY <1>1, <2>1, GoMoves DEF Typed
  <2>3. AtPlace("acquire")' = {} /\ ReleaseCloses'
    BY <1>2, <1>4, <2>2, ThreadKinds DEF AtPlace, ReleaseCloses
  <2>4. ClientLock'
    BY <2>1, <2>3 DEF ClientLock, ClientTimed, AcquireHeld, ReleaseFree
  <2>5. QED
    BY <1>6, <2>3, <2>4
<1>11. QED
  BY <1>7, <1>8, <1>9, <1>10

\* The session that the lock has opened is for the lock to close, and the one that it
\* closes is gone.
LEMMA OpenedClose ==
  ASSUME Typed, LockTimed, Closed, NEW c \in Clients, LockOpened(c) \/ UnlockClosed(c)
  PROVE  Closed'
<1>1. /\ c \in Threads /\ c \notin Services /\ PROVISIONING \in Services
      /\ timer \in [Services -> BOOLEAN] /\ sessionOpened \in [Services -> BOOLEAN]
  BY ThreadKinds DEF Typed, TypeOK
<1>2. /\ UNCHANGED <<own, left, lapsed, lock, expiring>> /\ historyGrows
      /\ at[c] \in {"acquire", "release"} /\ Go(c, "idle")
  BY DEF LockOpened, UnlockClosed, historyGrows
<1>3. at'[c] = "idle" /\ \A d \in Clients \ {c}: at'[d] = at[d]
  BY <1>1, <1>2, GoMoves, ThreadKinds DEF Typed
<1>4. \A d \in Clients \ {c}: at[d] \notin {"acquire", "release"}
  BY <1>2 DEF LockTimed, OneInside, Inside, AtPlace
<1>5. AtPlace("acquire")' = {} /\ AtPlace("release")' = {}
  BY <1>3, <1>4 DEF AtPlace
<1>6. FailsLeft' /\ AcquireHeld' /\ ReleaseFree'
  BY <1>2, <1>5 DEF Closed, FailsLeft, AcquireHeld, ReleaseFree
<1>7. CASE LockOpened(c)
  <2>1. timer'[PROVISIONING] /\ sessionOpened'[PROVISIONING] /\ at[c] = "acquire"
    BY <1>1, <1>7 DEF LockOpened
  <2>2. ClientLock'
    BY <1>6, <2>1 DEF ClientLock, ClientTimed
  <2>3. "late" \notin lapsed => lock' \in Clients
    BY <1>2, <2>1 DEF Closed, ClientLock, AcquireHeld, AtPlace
  <2>4. "late" \notin lapsed => Closer'
    BY <2>1, <2>3 DEF Closer, LockCloses
  <2>5. QED
    BY <1>2, <1>6, <2>2, <2>4 DEF Closed, SessionHasCloser
<1>8. CASE UnlockClosed(c)
  <2>1. at[c] = "release" /\ handle' = NULL
    BY <1>8 DEF UnlockClosed, ClearHandle
  <2>2. lock' \notin Clients
    BY <1>2, <2>1 DEF Closed, ClientLock, ReleaseFree, AtPlace
  <2>3. ClientLock'
    BY <1>6, <2>2 DEF ClientLock, ClientTimed
  <2>4. QED
    BY <1>6, <2>1, <2>3 DEF Closed, SessionHasCloser
<1>9. QED
  BY <1>2, <1>7, <1>8 DEF LockOpened, UnlockClosed

\* A command that has opened a session closes it, or leaves it open when it fails.
LEMMA StepsClose ==
  ASSUME Typed, Closed, NEW t \in Threads, Command(t)
  PROVE  Closed'
<1>1. /\ UNCHANGED <<at, lapsed, lock, timer, expiring, sessionOpened>> /\ historyGrows
  <2>1. left => left'
    BY Zenon DEF Command, CommandOpened, CommandEnds, CommandFails
  <2>2. QED
    BY <2>1 DEF Command, lockVars, historyGrows
<1>2. InsideStays /\ (ThreadCloses => ThreadCloses')
  BY <1>1 DEF InsideStays, AtPlace, ThreadCloses
<1>3. ClientLock' /\ (LockCloses => LockCloses') /\ (ReleaseCloses => ReleaseCloses')
  BY <1>1, <1>2, LockUntouched DEF Closed
<1>4. own[t] \in CommandRecords /\ own \in [Threads -> CommandRecords] /\ InPlace(t)
  BY TypesSplit DEF Typed, ThreadTyped, Placed
<1>5. CASE CommandOpened(t)
  <2>1. /\ own[t].stage = "runs" /\ step[t] = "assign"
        /\ own' = [own EXCEPT ![t].session = handle']
    BY <1>5 DEF CommandOpened, AssignHandle
  <2>2. own[t].selfOpened
    BY <1>4, <2>1 DEF InPlace
  <2>3. /\ own'[t].selfOpened /\ own'[t].stage = "runs"
        /\ \A u \in Threads \ {t}: own'[u] = own[u]
    BY <1>4, <2>1, <2>2 DEF CommandRecords
  <2>4. FailsLeft'
    BY <1>1, <2>3, FailsStay DEF Closed
  <2>5. CommandCloses'
    BY <2>3 DEF CommandCloses
  <2>6. QED
    BY <1>3, <2>4, <2>5 DEF Closed, SessionHasCloser, Closer
<1>6. CASE CommandEnds(t) \/ CommandFails(t)
  <2>1. /\ \E what \in {"ends", "fails"}: own' = [own EXCEPT ![t].stage = what]
        /\ handle' = handle
    BY <1>6 DEF CommandEnds, CommandFails, closeCmtlSession, sessionVars
  <2>2. /\ own'[t].selfOpened = own[t].selfOpened
        /\ \A u \in Threads \ {t}: own'[u] = own[u]
    BY <1>4, <2>1 DEF CommandRecords
  <2>3. own'[t].stage # "fails" \/ ~own'[t].selfOpened \/ left'
    <3>1. CASE CommandEnds(t)
      BY <1>4, <3>1 DEF CommandEnds, CommandRecords
    <3>2. CASE CommandFails(t)
      <4>1. left' = (left \/ own[t].selfOpened)
        BY <3>2 DEF CommandFails
      <4>2. QED
        BY <2>2, <4>1, Zenon
    <3>3. QED
      BY <1>6, <3>1, <3>2
  <2>4. FailsLeft'
    BY <1>1, <2>2, <2>3, FailsStay DEF Closed
  <2>5. CommandCloses => CommandCloses'
    BY <2>2 DEF CommandCloses
  <2>6. QED
    BY <1>1, <1>2, <1>3, <2>1, <2>4, <2>5, ClosersStay DEF Closed, Closer
<1>7. CASE (TestHandle(t) \/ Reclose(t)) /\ UNCHANGED <<own, left>>
  <2>1. handle' \in {handle, NULL}
    BY <1>7 DEF TestHandle, Reclose
  <2>2. FailsLeft' /\ (CommandCloses => CommandCloses')
    BY <1>7 DEF Closed, FailsLeft, CommandCloses
  <2>3. QED
    BY <1>1, <1>2, <1>3, <2>1, <2>2, ClosersStay DEF Closed, Closer
<1>8. QED
  BY <1>5, <1>6, <1>7 DEF Command

\* A command that begins is of a thread that closed no session of a command before.
LEMMA BeginsClose ==
  ASSUME Typed, Closed, NEW t \in Threads, own[t] = NoCommand, step[t] = "no",
         BeginCommand(t), UNCHANGED <<lockVars, left>>, historyGrows, InsideStays,
         \A u \in Threads \ {t}: at'[u] = at[u],
         t \in Services => at'[t] = "command"
  PROVE  Closed'
<1>1. ClientLock' /\ (LockCloses => LockCloses') /\ (ReleaseCloses => ReleaseCloses')
  BY LockUntouched DEF Closed, lockVars
<1>2. /\ own'[t].stage = "runs" /\ \A u \in Threads \ {t}: own'[u] = own[u]
      /\ ~own[t].selfOpened
  BY CommandBegun, NoneIsThere DEF Typed
<1>3. handle' = handle
  BY DEF BeginCommand, openCmtlSession, sessionVars
<1>4. FailsLeft'
  BY <1>2, FailsStay DEF Closed
<1>5. (ThreadCloses => ThreadCloses') /\ (CommandCloses => CommandCloses')
  BY <1>2, OneStays
<1>6. QED
  BY <1>1, <1>3, <1>4, <1>5, ClosersStay DEF Closed, Closer

LEMMA EndsClose ==
  ASSUME Typed, Closed, NEW t \in Threads, Ended(t), UNCHANGED <<lockVars, left>>,
         historyGrows, InsideStays, ThreadCloses => ThreadCloses'
  PROVE  Closed'
<1>1. ClientLock' /\ (LockCloses => LockCloses') /\ (ReleaseCloses => ReleaseCloses')
  BY LockUntouched DEF Closed, lockVars
<1>2. own'[t] = NoCommand /\ \A u \in Threads \ {t}: own'[u] = own[u]
  BY CommandOver DEF Typed
<1>3. FailsLeft'
  BY <1>2, NoneIsThere, FailsStay DEF Closed
<1>4. handle' = NULL \/ (handle' = handle /\ step[t] # "clear")
  BY DEF Ended, ClearHandle, sessionVars
<1>5. CASE own[t].selfOpened
  <2>1. step[t] = "clear" \/ left
    BY <1>5 DEF Ended, Typed, Placed, InPlace, Closed, FailsLeft
  <2>2. QED
    BY <1>1, <1>3, <1>4, <2>1 DEF Closed, SessionHasCloser
<1>6. CASE ~own[t].selfOpened
  <2>1. CommandCloses => CommandCloses'
    BY <1>2, <1>6 DEF CommandCloses
  <2>2. QED
    BY <1>1, <1>3, <1>4, <2>1, ClosersStay DEF Closed, Closer
<1>7. QED
  BY <1>5, <1>6

LEMMA CommandsClose ==
  ASSUME Typed, Closed, NEW t \in Threads,
         \/ t \in Services /\ (Work(t) \/ WorkDone(t))
         \/ /\ t \in Clients
            /\ \/ DoQuery(t) \/ GetSuid(t) \/ \E uid \in {t, FREE}: executeCmpCommands(t, uid)
               \/ CommandsDone(t) \/ QueryDone(t) \/ ThreadFails(t)
  PROVE  Closed'
<1>0. \A s \in Services: {s, NoThread(s)} \cap {"acquire", "release"} = {}
  BY DEF NoThread, Services, PROVISIONING, DEVELOPER, OEM
<1>1. /\ UNCHANGED <<lockVars, left>> /\ historyGrows /\ at[t] \notin {"acquire", "release"}
  <2>1. UNCHANGED <<lockVars, left>> /\ lapsed \subseteq lapsed'
    BY DEF Work, WorkDone, DoQuery, GetSuid, executeCmpCommands, CommandsDone, QueryDone,
           ThreadFails
  <2>2. at[t] \notin {"acquire", "release"}
    BY <1>0 DEF Work, WorkDone, DoQuery, GetSuid, executeCmpCommands, CommandsDone, QueryDone,
           ThreadFails, Call
  <2>3. QED
    BY <2>1, <2>2 DEF historyGrows
<1>2. PICK where: /\ UNCHANGED at \/ Go(t, where)
                  /\ where \notin {"acquire", "release"}
                  /\ t \in Services => where \in {"command", "work"}
  <2>1. CASE t \in Services /\ Work(t)
    <3>1. Go(t, "command")
      BY <2>1 DEF Work
    <3>2. t \in Services => "command" \in {"command", "work"}
      BY <2>1, ThreadKinds
    <3> WITNESS "command"
    <3> QED
      BY <3>1, <3>2
  <2>2. CASE t \in Services /\ WorkDone(t)
    <3>1. Go(t, "work")
      BY <2>2 DEF WorkDone
    <3>2. t \in Services => "work" \in {"command", "work"}
      BY <2>2, ThreadKinds
    <3> WITNESS "work"
    <3> QED
      BY <3>1, <3>2
  <2>3. CASE t \in Clients /\ DoQuery(t)
    <3>1. Go(t, "query")
      BY <2>3 DEF DoQuery
    <3>2. t \in Services => "query" \in {"command", "work"}
      BY <2>3, ThreadKinds
    <3> WITNESS "query"
    <3> QED
      BY <3>1, <3>2
  <2>4. CASE t \in Clients /\ \E uid \in {t, FREE}: executeCmpCommands(t, uid)
    <3>1. Go(t, "command")
      BY <2>4 DEF executeCmpCommands
    <3>2. t \in Services => "command" \in {"command", "work"}
      BY <2>4, ThreadKinds
    <3> WITNESS "command"
    <3> QED
      BY <3>1, <3>2
  <2>5. CASE t \in Clients /\ CommandsDone(t)
    <3>1. Go(t, "idle")
      BY <2>5 DEF CommandsDone
    <3>2. t \in Services => "idle" \in {"command", "work"}
      BY <2>5, ThreadKinds
    <3> WITNESS "idle"
    <3> QED
      BY <3>1, <3>2
  <2>6. CASE t \in Clients /\ QueryDone(t)
    <3>1. Go(t, "unlock")
      BY <2>6 DEF QueryDone
    <3>2. t \in Services => "unlock" \in {"command", "work"}
      BY <2>6, ThreadKinds
    <3> WITNESS "unlock"
    <3> QED
      BY <3>1, <3>2
  <2>7. CASE t \in Clients /\ (GetSuid(t) \/ ThreadFails(t))
    BY <1>0, <2>7, ThreadKinds DEF GetSuid, ThreadFails
  <2>8. QED
    BY <2>1, <2>2, <2>3, <2>4, <2>5, <2>6, <2>7
<1>3. /\ \A u \in Threads \ {t}: at'[u] = at[u]
      /\ InsideStays /\ (~UNCHANGED at => at'[t] = where)
  <2>1. CASE UNCHANGED at
    BY <2>1 DEF InsideStays, AtPlace
  <2>2. CASE Go(t, where)
    BY <1>1, <1>2, <2>2, GoMoves, OthersStay DEF Typed
  <2>3. QED
    BY <1>2, <2>1, <2>2
<1>4. CASE \/ t \in Services /\ Work(t)
           \/ /\ t \in Clients
              /\ DoQuery(t) \/ GetSuid(t) \/ \E uid \in {t, FREE}: executeCmpCommands(t, uid)
  <2>1. BeginCommand(t) /\ (GetSuid(t) \/ at[t] \in {"work", "locked", "idle"})
    BY <1>4 DEF Work, DoQuery, GetSuid, executeCmpCommands, Call
  <2>2. own[t] = NoCommand
    BY <2>1, IdleHasNone, PlacesDiffer DEF GetSuid, Typed
  <2>3. at[t] \notin {"open", "close"}
    BY <1>4, <2>1, ThreadKinds, PlacesDiffer DEF GetSuid
  <2>4. step[t] = "no"
    BY <1>1, <2>2, <2>3 DEF Typed, Placed, InPlace, Between
  <2>5. t \in Services => at'[t] = "command"
    BY <1>4, ThreadKinds, GoMoves DEF Work, Typed
  <2>6. QED
    BY <1>1, <1>3, <2>1, <2>2, <2>4, <2>5, BeginsClose
<1>5. CASE \/ t \in Services /\ WorkDone(t)
           \/ t \in Clients /\ (CommandsDone(t) \/ QueryDone(t) \/ ThreadFails(t))
  <2>1. Ended(t)
    BY <1>5 DEF WorkDone, CommandsDone, QueryDone, ThreadFails
  <2>2. ThreadCloses => ThreadCloses'
    BY <1>2, <1>3, ThreadKinds DEF ThreadCloses
  <2>3. QED
    BY <1>1, <1>3, <2>1, <2>2, EndsClose
<1>6. QED
  BY <1>4, <1>5

\* A step that takes or gives back the lock for a query or a thread, or does not touch it.
LEMMA GivesBackClose ==
  ASSUME Typed, Closed, NEW c \in Clients,
         \/ QueryUnlocks(c) \/ NotStarted(c) \/ Unregistering(c) \/ SeRefused(c)
         \/ StartQuery(c) \/ \E s \in Services: StartThread(c, s)
  PROVE  Closed'
<1>1. c \in Threads /\ c \notin Services /\ TypeOK /\ Placed
  BY ThreadKinds DEF Typed
<1>2. UNCHANGED <<own, left>> /\ historyGrows
  <2>1. lapsed \subseteq lapsed' /\ UNCHANGED <<own, left>>
    BY DEF QueryUnlocks, NotStarted, Unregistering, SeRefused, StartQuery, StartThread
  <2>2. QED
    BY <2>1 DEF historyGrows
<1>3. PICK where: Go(c, where) /\ {at[c], where} \cap {"acquire", "release"} = {}
  <2>1. \A s \in Services: {s, NoThread(s)} \cap {"acquire", "release"} = {}
    BY DEF NoThread, Services, PROVISIONING, DEVELOPER, OEM
  <2>2. CASE QueryUnlocks(c) \/ NotStarted(c) \/ Unregistering(c)
    <3>1. at[c] \in {"unlock", "not started", "unregister"} /\ Go(c, "idle")
      BY <2>2 DEF QueryUnlocks, NotStarted, Unregistering
    <3> WITNESS "idle"
    <3> QED
      BY <3>1
  <2>5. CASE StartQuery(c)
    <3>1. at[c] = "idle" /\ Go(c, "locked")
      BY <2>5 DEF StartQuery, Call
    <3> WITNESS "locked"
    <3> QED
      BY <3>1
  <2>3. CASE SeRefused(c)
    BY <2>1, <2>3 DEF SeRefused
  <2>4. CASE \E s \in Services: StartThread(c, s)
    BY <2>1, <2>4 DEF StartThread, Call
  <2>6. QED
    BY <2>2, <2>3, <2>4, <2>5
<1>4. InsideStays /\ \A u \in Threads \ {c}: at'[u] = at[u]
  BY <1>1, <1>3, GoMoves, OthersStay
<1>5. /\ (ThreadCloses => ThreadCloses') /\ (CommandCloses => CommandCloses') /\ FailsLeft'
  BY <1>1, <1>2, <1>4, OneStays DEF Closed, FailsLeft
<1>6. /\ ClientLock' /\ (LockCloses => LockCloses') /\ (ReleaseCloses => ReleaseCloses')
      /\ handle' = handle
  <2>1. CASE UNCHANGED <<lockVars, sessionVars>>
    BY <1>2, <1>4, <2>1, LockUntouched DEF Closed, lockVars, sessionVars
  <2>2. ASSUME NEW s \in Services, NEW uid, uid \notin Clients, lock \in {FREE, uid},
               acquireLock(s, uid) \/ releaseLock(s)
        PROVE  /\ ClientLock' /\ (LockCloses => LockCloses')
               /\ (ReleaseCloses => ReleaseCloses') /\ handle' = handle
    BY <1>2, <1>4, <2>2, OthersLock DEF Closed
  <2>3. /\ \A s \in Services: suid[s] \notin Clients /\ Provision(s) \notin Clients
        /\ Query(c) \notin Clients
    BY <1>1, UidsDiffer DEF Placed, Identified
  <2>4. CASE QueryUnlocks(c) \/ StartQuery(c)
    BY <2>1, <2>2, <2>3, <2>4, ThreadKinds DEF QueryUnlocks, StartQuery, Acquired, Released
  <2>5. CASE NotStarted(c) \/ Unregistering(c)
    BY <2>1, <2>2, <2>3, <2>5, ThreadKinds DEF NotStarted, Unregistering, Released
  <2>6. CASE \E s \in Services: StartThread(c, s)
    BY <2>2, <2>3, <2>6 DEF StartThread
  <2>7. CASE SeRefused(c)
    BY <2>1, <2>7 DEF SeRefused
  <2>8. QED
    BY <2>4, <2>5, <2>6, <2>7
<1>7. QED
  BY <1>2, <1>5, <1>6, ClosersStay DEF Closed, Closer

\* The thread starts: the service's thread was idle, so no closer goes with its place.
LEMMA ThreadStartsClose ==
  ASSUME Typed, Closed, NEW c \in Clients, NEW s \in Services, ThreadStarts(c, s)
  PROVE  Closed'
<1>1. c \in Threads /\ at[c] = s /\ Ended(c) /\ UNCHANGED <<lockVars, lapsed, left>>
  BY ThreadKinds DEF ThreadStarts
<1>2. at[s] = "idle"
  BY <1>1 DEF Typed, Placed
<1>3. PICK where \in {"unregister", "idle"}: at' = [at EXCEPT ![s] = "open", ![c] = where]
  BY DEF ThreadStarts
<1>4. /\ at'[c] = where /\ \A t \in Threads \ {c, s}: at'[t] = at[t]
  BY <1>1, <1>3, ThreadKinds DEF Typed, TypeOK
<1>5. InsideStays
  BY <1>1, <1>4, ThreadKinds DEF InsideStays, AtPlace
<1>6. ThreadCloses => ThreadCloses'
  BY <1>2, <1>4, ThreadKinds DEF ThreadCloses
<1>7. QED
  BY <1>1, <1>5, <1>6, EndsClose DEF historyGrows

\* The thread of a service closes the session when it ends its work.
LEMMA ThreadsClose ==
  ASSUME Typed, Closed, NEW s \in Services,
         \/ OpenSession(s) \/ SessionOpened(s) \/ Callback(s) \/ CloseSession(s)
         \/ SessionClosed(s) \/ Exiting(s)
  PROVE  Closed'
<1>1. s \in Threads /\ s \notin Clients /\ TypeOK /\ Placed
  BY ThreadKinds DEF Typed
<1>2. UNCHANGED <<own, left, lapsed>> /\ historyGrows /\ FailsLeft'
      /\ (CommandCloses => CommandCloses')
  BY DEF OpenSession, SessionOpened, Callback, CloseSession, SessionClosed, Exiting,
         CommandCloses, historyGrows, Closed, FailsLeft
<1>3. /\ InsideStays /\ \A u \in Threads \ {s}: at'[u] = at[u]
  <2>1. CASE UNCHANGED at
    BY <2>1 DEF InsideStays, AtPlace
  <2>2. CASE \E where: Go(s, where)
    BY <1>1, <2>2, GoMoves, OthersStay
  <2>3. QED
    BY <2>1, <2>2
       DEF OpenSession, SessionOpened, Callback, CloseSession, SessionClosed, Exiting
<1>4. CASE UNCHANGED lockVars /\ (handle' = NULL \/ ThreadCloses')
  <2>1. ClientLock'
    BY <1>2, <1>3, <1>4, LockUntouched DEF Closed, lockVars
  <2>2. QED
    BY <1>2, <1>4, <2>1 DEF Closed, SessionHasCloser, Closer
<1>5. CASE OpenSession(s)
  <2>1. UNCHANGED <<lockVars, at, handle>>
    BY <1>5 DEF OpenSession, openCmtlSession
  <2>2. /\ ClientLock' /\ (LockCloses => LockCloses') /\ (ReleaseCloses => ReleaseCloses')
        /\ (ThreadCloses => ThreadCloses')
    BY <1>2, <1>3, <2>1, LockUntouched DEF Closed, lockVars, ThreadCloses
  <2>3. QED
    BY <1>2, <2>1, <2>2, ClosersStay DEF Closed, Closer
<1>6. CASE SessionOpened(s)
  <2>1. /\ UNCHANGED lockVars /\ handle' # NULL => at'[s] = "work"
    BY <1>1, <1>6, GoMoves DEF SessionOpened
  <2>2. QED
    BY <1>4, <1>6, <2>1 DEF ThreadCloses, SessionOpened
<1>7. CASE CloseSession(s) \/ SessionClosed(s)
  <2>1. UNCHANGED lockVars /\ (handle' = NULL \/ at'[s] = "close")
    BY <1>1, <1>7, GoMoves DEF CloseSession, SessionClosed, ClearHandle
  <2>2. QED
    BY <1>4, <2>1 DEF ThreadCloses
<1>8. CASE Callback(s) \/ Exiting(s)
  <2>1. ThreadCloses => ThreadCloses'
    <3>1. CASE Callback(s)
      BY <3>1 DEF Callback, ThreadCloses
    <3>2. CASE Exiting(s)
      <4>1. at[s] = "exit" /\ \A r \in Services: r # s => at'[r] = at[r]
        BY <1>3, <3>2, ThreadKinds DEF Exiting
      <4>2. QED
        BY <4>1 DEF ThreadCloses
    <3>3. QED
      BY <1>8, <3>1, <3>2
  <2>2. /\ ClientLock' /\ (LockCloses => LockCloses') /\ (ReleaseCloses => ReleaseCloses')
        /\ handle' = handle
    <3>1. CASE UNCHANGED <<lockVars, sessionVars>>
      BY <1>2, <1>3, <3>1, LockUntouched DEF Closed, lockVars, sessionVars
    <3>2. CASE /\ obj # NULL /\ Acquired(suid[obj])
               /\ acquireLock(obj, suid[obj]) \/ releaseLock(obj)
      <4>1. obj \in Services
        BY <1>1, <3>2 DEF TypeOK
      <4>2. suid[obj] \notin Clients
        BY <1>1, <4>1, UidsDiffer DEF Placed, Identified
      <4>3. lock \in {FREE, suid[obj]}
        BY <3>2 DEF Acquired
      <4>4. QED
        BY <1>2, <1>3, <3>2, <4>1, <4>2, <4>3, OthersLock DEF Closed
    <3>3. QED
      BY <1>8, <3>1, <3>2 DEF Callback, Exiting
  <2>3. QED
    BY <1>2, <2>1, <2>2, ClosersStay DEF Closed, Closer
<1>9. QED
  BY <1>5, <1>6, <1>7, <1>8

LEMMA NextCloses == Typed /\ LockTimed /\ Closed /\ [Next]_vars => Closed'
<1>1. SUFFICES ASSUME Typed, LockTimed, Closed, [Next]_vars
               PROVE  Closed'
  OBVIOUS
<1>2. CASE UNCHANGED vars
  <2>1. UNCHANGED <<lockVars, handle, at, own, lapsed, left>>
    BY <1>2 DEF vars, sessionVars
  <2>2. historyGrows /\ InsideStays
    BY <2>1 DEF historyGrows, InsideStays, AtPlace
  <2>3. ClientLock' /\ (LockCloses => LockCloses') /\ (ReleaseCloses => ReleaseCloses')
    BY <1>1, <2>1, <2>2, LockUntouched DEF Closed, lockVars
  <2>4. (ThreadCloses => ThreadCloses') /\ (CommandCloses => CommandCloses') /\ FailsLeft'
    BY <1>1, <2>1 DEF ThreadCloses, CommandCloses, Closed, FailsLeft
  <2>5. QED
    BY <1>1, <2>1, <2>2, <2>3, <2>4, ClosersStay DEF Closed, Closer
<1>3. ASSUME NEW s \in Services, Timer(s) \/ Thread(s)
      PROVE  Closed'
  BY <1>1, <1>3, TimersClose, ThreadsClose, CommandsClose, StepsClose, ThreadKinds DEF Thread
<1>4. ASSUME NEW c \in Clients, Binder(c)
      PROVE  Closed'
  BY <1>1, <1>4, OpenedClose, StepsClose, CommandsClose, GivesBackClose, ThreadStartsClose,
     ThreadKinds DEF Binder
<1>5. ASSUME NEW c \in Clients, Client(c)
      PROVE  Closed'
  BY <1>1, <1>5, LocksClose, CommandsClose, GivesBackClose, ThreadKinds DEF Client
<1>6. QED
  BY <1>1, <1>2, <1>3, <1>4, <1>5 DEF Next

\* When nothing runs any more, there is no closer, and nobody is at handle_.
LEMMA QuietIsClosed == Typed /\ Closed => SessionGivenBack
<1>1. SUFFICES ASSUME Typed, Closed, Quiet, "late" \notin lapsed, ~left
               PROVE  handle = NULL /\ (live = {} \/ raced)
  BY DEF SessionGivenBack
<1>2. \A t \in Threads: own[t] = NoCommand /\ step[t] = "no" /\ ~own[t].selfOpened
  BY <1>1, PlacesDiffer, IdleHasNone, NoneIsThere DEF Quiet, Typed, Between
<1>3. ~LockCloses /\ ~ReleaseCloses /\ ~ThreadCloses /\ ~CommandCloses
  BY <1>1, <1>2, ThreadKinds, UidsDiffer
     DEF Quiet, LockCloses, ReleaseCloses, AtPlace, ThreadCloses, CommandCloses
<1>4. handle = NULL
  BY <1>1, <1>3 DEF Closed, SessionHasCloser, Closer
<1>5. ~Clearing
  BY <1>1, <1>2 DEF Clearing, Quiet
<1>6. QED
  BY <1>1, <1>4, <1>5 DEF Typed, HandleInv, OneSession

\* Whatever is called in whichever order, and whichever lock the timers free that has
\* no timer of its own: once nothing runs, handle_ is cleared, and the session is closed
\* unless two have opened one at the same time (BaseService.releaseLock(), its timer,
\* executeContentManagementCommands()).
THEOREM SessionIsGivenBack == Spec => []SessionGivenBack
<1> DEFINE GInv == Typed /\ LockTimed /\ Closed
<1>1. Init => GInv
  <2>1. Init => LockTimed
    BY ThreadKinds DEF Init, LockTimed, HeldIsTimed, OneInside, Inside, AtPlace
  <2>2. Init => Closed
    <3>1. SUFFICES ASSUME Init
                   PROVE  Closed
      OBVIOUS
    <3>2. /\ lock \notin Clients /\ handle = NULL
          /\ \A t \in Threads: own[t] = NoCommand /\ at[t] = "idle"
      BY <3>1, UidsDiffer DEF Init
    <3>3. AtPlace("acquire") = {} /\ FailsLeft
      BY <3>2, NoneIsThere, ThreadKinds DEF AtPlace, FailsLeft
    <3>4. QED
      BY <3>2, <3>3 DEF Closed, ClientLock, ClientTimed, AcquireHeld, ReleaseFree,
                        SessionHasCloser
  <2>3. QED
    BY <2>1, <2>2, InitTyped
<1>2. GInv /\ [Next]_vars => GInv'
  BY NextPlaced, NextTimed, NextCloses DEF Typed
<1>3. GInv => SessionGivenBack
  BY QuietIsClosed
<1>4. QED
  BY <1>1, <1>2, <1>3, PTL DEF Spec

(***************************************************************************)
(* The strings of the provisioning engine.                                  *)
(***************************************************************************)
Pointers(n) == {n.link, n.rel, n.command, n.used.link, n.used.rel, n.used.command}
Unused == used.link = Null /\ used.rel = Null /\ used.command = Null

\* What has come is older than what comes next.
Old(p) == p[2] <= answers
\* Every string the engine was given and has not freed is held by a pointer; what is to be posted and the link that
\* waits are on the heap.
HeapHeld == /\ heap \subseteq Blocks(Pointers(Current) \cup {response, pending.link})
            /\ Blocks({response, pending.link}) \subseteq heap
            /\ \A p \in Blocks(Pointers(Current) \cup {pending.link}): Old(p)
\* The link that waits is not in use.
Waiting == pending.link # Null => pending.link \notin {link, used.link} /\ pending.rel[1] = "static"
\* The used pointers are kept only for a repetition, of a request that is not one itself.
UsedKept == /\ ~Unused => pc = "loop" /\ rel # Null /\ Says(rel) = "self"
            /\ pc = "loop" /\ Says(rel) = "self" =>
                 used.rel # Null /\ Says(used.rel) # "self" /\ last.next = "self"
\* Until a repetition frees what it uses, all the pointers are good.
PointersGood == last.next # "self" \/ Says(rel) = "self" => Blocks(Pointers(Current)) \subseteq heap
PostedFirst == pc = "loop" /\ response # Null => rel[1] = "static"
\* Where the thread is.
Phases == /\ pc = "idle" => /\ heap = {} /\ told = <<>> /\ answers = 0 /\ pending.link = Null
                            /\ Blocks({link, rel, command}) = {} /\ response = Null
          /\ pc = "closing" => Blocks({rel, command}) = {}
          /\ pc \in {"exiting", "done"} =>
               heap = Blocks({pending.link}) /\ Blocks({link, rel, command, response}) = {}
AnswersBound == pc = "loop" \/ pending.link # Null =>
  answers <= MaxAnswers + 2 - (IF rel # Null /\ pc = "loop" THEN 1 ELSE 0)
               - (IF pending.link # Null THEN 1 ELSE 0)
\* What the client has been told.
End(n) == \/ told[n] = "error"
          \/ n > 1 /\ told[n] = "finished" /\ (last.next = "none" \/ told[n - 1] = "error")
Telling == /\ pc = "loop" => told # <<>>
           /\ pc = "loop" /\ rel = Null => last.next = "none" \/ told[Len(told)] = "error"
           /\ pc \in {"closing", "exiting"} => told # <<>> /\ End(Len(told))
           /\ pc = "done" => /\ Len(told) > 1 /\ told[Len(told)] = "exiting"
                             /\ End(Len(told) - 1)

Strings == /\ ~misused /\ HeapHeld /\ Waiting /\ UsedKept /\ PointersGood /\ PostedFirst
           /\ Phases /\ AnswersBound
EngineIInv == EngineTypeOK /\ Strings /\ Telling

LEMMA Kinds ==
  /\ Null[1] = "null" /\ Says(Null) = "none" /\ Null \in Links /\ Null \in RelationPointers
  /\ Null \in Commands /\ Null \in Responses
  /\ INITIAL_POST[1] = "static" /\ INITIAL_DELETE[1] = "static"
  /\ Says(INITIAL_POST) = "initial_post" /\ Says(INITIAL_DELETE) = "initial_delete"
  /\ \A p \in Links: p = Null \/ p[1] = "link"
  /\ \A p \in RelationPointers: p = Null \/ p[1] \in {"static", "rel"}
  /\ \A p \in RelationPointers: p[1] = "static" => Says(p) \in {"initial_post", "initial_delete"}
  /\ \A p \in Commands: p = Null \/ p[1] = "command"
  /\ \A p \in Responses: p = Null \/ p[1] = "response"
BY DEF Null, Links, RelationPointers, Commands, Responses, INITIAL_POST, INITIAL_DELETE, Says

Uses == [link: Links, rel: RelationPointers, command: Commands]
Rounds == [link: Links, rel: RelationPointers, command: Commands, response: Responses, used: Uses]
\* A round can end: the pointers are good and hold what there is.
CanEnd(n, h) == /\ n \in Rounds
                /\ Blocks(Pointers(n)) \subseteq h
                /\ h \subseteq Blocks(Pointers(n) \cup {n.response, pending.link})
                /\ Blocks({n.response, pending.link}) \subseteq h
                /\ pending.link # Null => pending.link \notin {n.link, n.used.link}
\* The pointers and the used ones are not the same.
Renewed(n) == /\ n.link = n.used.link => n.link = Null
              /\ n.command = n.used.command => n.command = Null
              /\ n.rel = n.used.rel => Blocks({n.rel}) = {}

LEMMA NullTypes ==
  /\ Null \in Links /\ Null \in RelationPointers /\ Null \in Commands /\ Null \in Responses
  /\ NoUse \in Uses
BY Kinds DEF NoUse, Uses

\* The last round frees all but the link that waits.
LEMMA RoundStops ==
  ASSUME pending \in [link: Links, rel: RelationPointers], ~misused,
         NEW n, NEW h, CanEnd(n, h), EndOfRound(n, h, FALSE)
  PROVE  /\ ~misused' /\ heap' = Blocks({pending.link}) /\ pc' = "closing"
         /\ link' = Null /\ rel' = Null /\ command' = Null /\ response' = Null
         /\ used' = NoUse
<1> DEFINE l == n.link
           r == n.rel
           c == n.command
           ul == n.used.link
           ur == n.used.rel
           uc == n.used.command
           s == n.response
           q == pending.link
           a == IF ul = l THEN Null ELSE ul
           b == IF ur = r THEN Null ELSE ur
           d == IF uc = c THEN Null ELSE uc
<1>1. /\ l \in Links /\ r \in RelationPointers /\ c \in Commands /\ s \in Responses
      /\ ul \in Links /\ ur \in RelationPointers /\ uc \in Commands /\ q \in Links
  BY DEF CanEnd, Rounds, Uses
<1>2. /\ Blocks({l, r, c, ul, ur, uc}) \subseteq h
      /\ h \subseteq Blocks({l, r, c, ul, ur, uc, s, q})
      /\ Blocks({s, q}) \subseteq h /\ (q # Null => q \notin {l, ul})
  <2>1. {l, r, c, ul, ur, uc} \cup {s, q} = {l, r, c, ul, ur, uc, s, q}
    OBVIOUS
  <2> QED
    BY <2>1 DEF CanEnd, Pointers
<1>3. /\ heap' = h \ (Blocks({l, r, c}) \cup Blocks({a, b, d}) \cup {s})
      /\ misused' = (misused \/ ~(Blocks({l, r, c}) \subseteq h)
                     \/ ~(Blocks({a, b, d}) \subseteq h \ Blocks({l, r, c})))
      /\ pc' = "closing" /\ link' = Null /\ rel' = Null /\ command' = Null
      /\ response' = Null /\ used' = NoUse
  BY DEF EndOfRound
<1> HIDE DEF l, r, c, ul, ur, uc, s, q
<1>4. a = (IF ul = l THEN Null ELSE ul) /\ b = (IF ur = r THEN Null ELSE ur)
      /\ d = (IF uc = c THEN Null ELSE uc)
  OBVIOUS
<1> HIDE DEF a, b, d
<1>5. /\ Blocks({l, r, c}) \subseteq h
      /\ Blocks({a, b, d}) \subseteq h \ Blocks({l, r, c})
      /\ h \ (Blocks({l, r, c}) \cup Blocks({a, b, d}) \cup {s}) = Blocks({q})
  <2> USE <1>1, <1>2, <1>4
  <2>1. \A p \in {l, r, c, ul, ur, uc, q}: p[1] \notin {"null", "static"} => p # s
    BY Kinds
  <2>2. q[1] \notin {"null", "static"} => q \notin {l, r, c, ul, ur, uc}
    BY Kinds
  <2>3. \A p \in {a, b, d}: p[1] \notin {"null", "static"} =>
          p \in {ul, ur, uc} /\ p \notin {l, r, c}
    <3>1. a[1] \notin {"null", "static"} => a = ul /\ ul # l
      BY Kinds
    <3>2. b[1] \notin {"null", "static"} => b = ur /\ ur # r
      BY Kinds
    <3>3. d[1] \notin {"null", "static"} => d = uc /\ uc # c
      BY Kinds
    <3> QED
      BY <3>1, <3>2, <3>3, Kinds
  <2>4. \A p \in {ul, ur, uc}: p[1] \notin {"null", "static"} =>
          p \in {l, r, c} \/ p \in {a, b, d}
    OBVIOUS
  <2>5. Null[1] = "null"
    BY Kinds
  <2>6. /\ Blocks({l, r, c}) \subseteq h
        /\ Blocks({a, b, d}) \subseteq h \ Blocks({l, r, c})
    BY <2>3 DEF Blocks
  <2>7. Blocks({q}) \subseteq h \ (Blocks({l, r, c}) \cup Blocks({a, b, d}) \cup {s})
    BY <2>1, <2>2, <2>3, <2>5 DEF Blocks
  <2>8. h \ (Blocks({l, r, c}) \cup Blocks({a, b, d}) \cup {s}) \subseteq Blocks({q})
    <3>1. \A p \in h: p[1] \notin {"null", "static"} /\ p \in {l, r, c, ul, ur, uc, s, q}
      BY DEF Blocks
    <3> QED
      BY <2>4, <3>1 DEF Blocks
  <2> QED
    BY <2>6, <2>7, <2>8
<1> QED
  BY <1>3, <1>5 DEF q

\* A round that goes on with the next relation frees what it has used.
LEMMA RoundGoesOn ==
  ASSUME pending \in [link: Links, rel: RelationPointers], ~misused,
         NEW n, NEW h, CanEnd(n, h), EndOfRound(n, h, TRUE), n.rel = Null \/ Says(n.rel) # "self"
  PROVE  /\ ~misused' /\ pc' = "loop"
         /\ heap' \subseteq Blocks({n.link, n.rel, n.command, pending.link})
         /\ Blocks({pending.link}) \subseteq heap'
         /\ Renewed(n) => Blocks({n.link, n.rel, n.command}) \subseteq heap'
         /\ link' = n.link /\ rel' = n.rel /\ command' = n.command /\ response' = Null
         /\ used' = NoUse
<1> DEFINE l == n.link
           r == n.rel
           c == n.command
           ul == n.used.link
           ur == n.used.rel
           uc == n.used.command
           s == n.response
           q == pending.link
<1>1. /\ l \in Links /\ r \in RelationPointers /\ c \in Commands /\ s \in Responses
      /\ ul \in Links /\ ur \in RelationPointers /\ uc \in Commands /\ q \in Links
  BY DEF CanEnd, Rounds, Uses
<1>2. /\ Blocks({l, r, c, ul, ur, uc}) \subseteq h
      /\ h \subseteq Blocks({l, r, c, ul, ur, uc, s, q})
      /\ Blocks({s, q}) \subseteq h /\ (q # Null => q \notin {l, ul})
  <2>1. {l, r, c, ul, ur, uc} \cup {s, q} = {l, r, c, ul, ur, uc, s, q}
    OBVIOUS
  <2> QED
    BY <2>1 DEF CanEnd, Pointers
<1>3. /\ heap' = h \ ({} \cup Blocks({ul, ur, uc}) \cup {s})
      /\ misused' = (misused \/ ~({} \subseteq h) \/ ~(Blocks({ul, ur, uc}) \subseteq h \ {}))
      /\ pc' = "loop" /\ link' = l /\ rel' = r /\ command' = c
      /\ response' = Null /\ used' = NoUse
  BY DEF EndOfRound
<1>4. Renewed(n) =>
        (l = ul => l = Null) /\ (c = uc => c = Null) /\ (r = ur => Blocks({r}) = {})
  BY DEF Renewed
<1> HIDE DEF l, r, c, ul, ur, uc, s, q
<1>5. /\ Blocks({ul, ur, uc}) \subseteq h
      /\ h \ (Blocks({ul, ur, uc}) \cup {s}) \subseteq Blocks({l, r, c, q})
      /\ Blocks({q}) \subseteq h \ (Blocks({ul, ur, uc}) \cup {s})
      /\ (l = ul => l = Null) /\ (c = uc => c = Null) /\ (r = ur => Blocks({r}) = {}) =>
           Blocks({l, r, c}) \subseteq h \ (Blocks({ul, ur, uc}) \cup {s})
  <2> USE <1>1, <1>2
  <2>1. \A p \in {l, r, c, ul, ur, uc, q}: p[1] \notin {"null", "static"} => p # s
    BY Kinds
  <2>2. q[1] \notin {"null", "static"} => q \notin {l, r, c, ul, ur, uc}
    BY Kinds
  <2>3. /\ Blocks({ul, ur, uc}) \subseteq h
        /\ h \ (Blocks({ul, ur, uc}) \cup {s}) \subseteq Blocks({l, r, c, q})
    BY DEF Blocks
  <2>4. Blocks({q}) \subseteq h \ (Blocks({ul, ur, uc}) \cup {s})
    BY <2>1, <2>2 DEF Blocks
  <2>5. ASSUME l = ul => l = Null, c = uc => c = Null, r = ur => Blocks({r}) = {}
        PROVE  Blocks({l, r, c}) \subseteq h \ (Blocks({ul, ur, uc}) \cup {s})
    <3>1. \A p \in {l, r, c}: p[1] \notin {"null", "static"} => p \notin {ul, ur, uc}
      <4>1. r[1] \notin {"null", "static"} => r # ur
        BY <2>5 DEF Blocks
      <4> QED
        BY <2>5, <4>1, Kinds
    <3> QED
      BY <2>1, <3>1 DEF Blocks
  <2> QED
    BY <2>3, <2>4, <2>5
<1>6. h \ ({} \cup Blocks({ul, ur, uc}) \cup {s}) = h \ (Blocks({ul, ur, uc}) \cup {s})
  OBVIOUS
<1> QED
  BY <1>3, <1>4, <1>5, <1>6 DEF l, r, c, q

\* Before a repetition everything is kept.
LEMMA RoundKeeps ==
  ASSUME pending \in [link: Links, rel: RelationPointers], ~misused,
         NEW n, NEW h, CanEnd(n, h), EndOfRound(n, h, TRUE), n.rel # Null, Says(n.rel) = "self"
  PROVE  /\ ~misused' /\ pc' = "loop"
         /\ heap' = Blocks(Pointers(n) \cup {pending.link})
         /\ link' = n.link /\ rel' = n.rel /\ command' = n.command /\ response' = Null
         /\ used' = n.used
<1> DEFINE l == n.link
           r == n.rel
           c == n.command
           ul == n.used.link
           ur == n.used.rel
           uc == n.used.command
           s == n.response
           q == pending.link
<1>1. /\ l \in Links /\ r \in RelationPointers /\ c \in Commands /\ s \in Responses
      /\ ul \in Links /\ ur \in RelationPointers /\ uc \in Commands /\ q \in Links
  BY DEF CanEnd, Rounds, Uses
<1>2. /\ Blocks({l, r, c, ul, ur, uc}) \subseteq h
      /\ h \subseteq Blocks({l, r, c, ul, ur, uc, s, q})
      /\ Blocks({s, q}) \subseteq h
  <2>1. {l, r, c, ul, ur, uc} \cup {s, q} = {l, r, c, ul, ur, uc, s, q}
    OBVIOUS
  <2> QED
    BY <2>1 DEF CanEnd, Pointers
<1>3. /\ heap' = h \ ({} \cup {} \cup {s})
      /\ misused' = (misused \/ ~({} \subseteq h) \/ ~({} \subseteq h \ {}))
      /\ pc' = "loop" /\ link' = l /\ rel' = r /\ command' = c
      /\ response' = Null /\ used' = n.used
  BY DEF EndOfRound
<1>4. Pointers(n) \cup {q} = {l, r, c, ul, ur, uc, q}
  BY DEF Pointers
<1> HIDE DEF l, r, c, ul, ur, uc, s, q
<1>5. h \ {s} = Blocks({l, r, c, ul, ur, uc, q})
  <2> USE <1>1, <1>2
  <2>1. \A p \in {l, r, c, ul, ur, uc, q}: p[1] \notin {"null", "static"} => p # s
    BY Kinds
  <2> QED
    BY <2>1 DEF Blocks
<1>6. h \ ({} \cup {} \cup {s}) = h \ {s}
  OBVIOUS
<1> QED
  BY <1>3, <1>4, <1>5, <1>6 DEF l, r, c, q

With(h, m) == h \cup Blocks({m.link, m.rel, m.command})
\* What a request to the SE may come to.
LEMMA Outcomes ==
  ASSUME NEW n, NEW h, NEW body, NEW o \in Communicate(n, h, body)
  PROVE  \/ /\ o.round = Unreachable(n) /\ o.heap = h /\ o.code = "error"
            /\ o.answers = answers /\ o.last.next = "unknown"
         \/ \E a \in Answers:
              /\ o.round = Answered(n, a)
              /\ o.heap = With(h, o.round)
              /\ o.code \in {"ok", "error"}
              /\ o.answers = answers + 1 /\ o.last.next = a.next
<1> DEFINE asked(next, lost) == [what |-> Says(rel), body |-> body, next |-> next,
                                 lost |-> last.lost \cup lost]
           Outcome(m, next, code, lost) ==
             [round |-> m, heap |-> h \cup Blocks({m.link, m.rel, m.command}), code |-> code,
              answers |-> answers + 1, last |-> asked(next, lost)]
           Nothing(lost) == [round |-> Unreachable(n), heap |-> h, code |-> "error",
                             answers |-> answers, last |-> asked("unknown", lost)]
           L == UNION {Overwritten(a): a \in Answers}
           T(a) == {Outcome(Answered(n, a), a.next, code, lost):
                      code \in {"ok", "error"}, lost \in Overwritten(a)}
<1>1. ASSUME NEW lost, o = Nothing(lost)
      PROVE  /\ o.round = Unreachable(n) /\ o.heap = h /\ o.code = "error"
             /\ o.answers = answers /\ o.last.next = "unknown"
  BY <1>1
<1>2. ASSUME NEW a \in Answers, NEW code \in {"ok", "error"}, NEW lost,
             o = Outcome(Answered(n, a), a.next, code, lost)
      PROVE  /\ o.round = Answered(n, a)
             /\ o.heap = With(h, o.round)
             /\ o.code \in {"ok", "error"}
             /\ o.answers = answers + 1 /\ o.last.next = a.next
  BY <1>2 DEF With
<1>3. \/ \E lost: o = Nothing(lost)
      \/ \E a \in Answers, code \in {"ok", "error"}:
           \E lost: o = Outcome(Answered(n, a), a.next, code, lost)
  <2>1. Communicate(n, h, body) = {Nothing(lost): lost \in L} \cup UNION {T(a): a \in Answers}
    BY DEF Communicate
  <2> HIDE DEF Nothing, L, T
  <2>2. (\E lost \in L: o = Nothing(lost)) \/ (\E a \in Answers: o \in T(a))
    BY <2>1
  <2> HIDE DEF Outcome
  <2> QED
    BY <2>2 DEF T
<1> QED
  BY <1>1, <1>2, <1>3

LEMMA AnswerTypes ==
  ASSUME NEW a \in Answers
  PROVE  /\ a.next = "none" \/ (a.next \in Relations /\ answers < MaxAnswers /\ a.linked)
         /\ a.linked \in BOOLEAN
         /\ a.next # "unknown"
BY RelationsAssumption DEF Answers, NextRelations

\* A request uses the current pointers.
Requesting(n, h) ==
  /\ CanEnd(n, h)
  /\ n.used = [link |-> n.link, rel |-> n.rel, command |-> n.command]
  /\ \A p \in Blocks(Pointers(n) \cup {pending.link}): p[2] <= answers

\* Its round can end, and what has come is new.
LEMMA CanReceive ==
  ASSUME EngineTypeOK, NEW n, NEW h, NEW body, Requesting(n, h),
         NEW o \in Communicate(n, h, body)
  PROVE  /\ CanEnd(o.round, o.heap)
         /\ o.code # "error" => Renewed(o.round)
         /\ o.round.used = n.used /\ o.answers \in {answers, answers + 1}
         /\ \A p \in Blocks(Pointers(o.round) \cup {pending.link}): p[2] <= o.answers
<1>1. /\ n \in Rounds /\ n.used \in Uses /\ answers \in Nat
      /\ pending.link \in Links
      /\ n.link \in Links /\ n.rel \in RelationPointers /\ n.command \in Commands
      /\ n.used.link = n.link /\ n.used.rel = n.rel /\ n.used.command = n.command
  BY RelationsAssumption DEF Requesting, CanEnd, Rounds, Uses, EngineTypeOK
<1>2. Pointers(n) = {n.link, n.rel, n.command}
  BY <1>1 DEF Pointers
<1>3. CASE /\ o.round = Unreachable(n) /\ o.heap = h /\ o.code = "error"
           /\ o.answers = answers
  <2>1. /\ o.round \in Rounds /\ o.round.link = n.link /\ o.round.rel = Null
        /\ o.round.command = Null /\ o.round.response = n.response /\ o.round.used = n.used
    BY <1>1, <1>3, NullTypes DEF Unreachable, Rounds
  <2>2. Blocks(Pointers(o.round)) = Blocks(Pointers(n))
    BY <1>1, <1>2, <2>1, Kinds DEF Pointers, Blocks
  <2>3. \A S: /\ Blocks(Pointers(o.round) \cup S) = Blocks(Pointers(o.round)) \cup Blocks(S)
              /\ Blocks(Pointers(n) \cup S) = Blocks(Pointers(n)) \cup Blocks(S)
    BY DEF Blocks
  <2> QED
    BY <1>1, <1>3, <2>1, <2>2, <2>3 DEF Requesting, CanEnd
<1>4. ASSUME NEW a \in Answers, o.round = Answered(n, a),
             o.heap = With(h, o.round),
             o.answers = answers + 1
      PROVE  /\ CanEnd(o.round, o.heap) /\ Renewed(o.round)
             /\ o.round.used = n.used /\ o.answers \in {answers, answers + 1}
             /\ \A p \in Blocks(Pointers(o.round) \cup {pending.link}): p[2] <= o.answers
  <2> DEFINE l == o.round.link
             r == o.round.rel
             c == o.round.command
  <2>1. /\ l = IF a.linked THEN <<"link", answers + 1, "given">> ELSE Null
        /\ r = IF a.next = "none" THEN Null ELSE <<"rel", answers + 1, a.next>>
        /\ c = <<"command", answers + 1, "xml">>
        /\ o.round.response = n.response /\ o.round.used = n.used
    BY <1>1, <1>4 DEF Answered, Rounds
  <2>2. /\ l \in Links /\ r \in RelationPointers /\ c \in Commands
    BY <1>1, <2>1, AnswerTypes, NullTypes DEF Links, RelationPointers, Commands
  <2>3. o.round \in Rounds
    <3>1. o.round = [n EXCEPT !.link = l, !.rel = r, !.command = c]
      BY <1>4, <2>1 DEF Answered
    <3> QED
      BY <1>1, <2>2, <3>1 DEF Rounds
  <2>4. \A p \in {l, r, c}: p = Null \/ p[2] = answers + 1
    BY <2>1
  <2>5. \A p \in Blocks(Pointers(n) \cup {pending.link}): p \notin {l, r, c}
    <3>1. \A p \in Blocks(Pointers(n) \cup {pending.link}): p[2] <= answers /\ p # Null
      BY Kinds DEF Requesting, Blocks
    <3> QED
      BY <1>1, <2>4, <3>1
  <2>6. Pointers(o.round) = {l, r, c} \cup Pointers(n)
    BY <1>1, <1>2, <2>1 DEF Pointers
  <2>7. Blocks({l, r, c}) \subseteq o.heap /\ o.heap = h \cup Blocks({l, r, c})
    BY <1>4 DEF With
  <2> HIDE DEF l, r, c
  <2>8. \A S, T: Blocks(S \cup T) = Blocks(S) \cup Blocks(T)
    BY DEF Blocks
  <2>9. CanEnd(o.round, o.heap)
    <3>1. Blocks(Pointers(o.round)) \subseteq o.heap
      BY <2>6, <2>7, <2>8 DEF Requesting, CanEnd
    <3>2. o.heap \subseteq Blocks(Pointers(o.round) \cup {o.round.response, pending.link})
      BY <2>1, <2>6, <2>7, <2>8 DEF Requesting, CanEnd
    <3>3. Blocks({o.round.response, pending.link}) \subseteq o.heap
      BY <2>1, <2>7 DEF Requesting, CanEnd
    <3>4. pending.link # Null => pending.link \notin {o.round.link, o.round.used.link}
      <4>1. pending.link # Null => pending.link \in Blocks(Pointers(n) \cup {pending.link})
        BY <1>1, Kinds DEF Blocks
      <4> QED
        BY <1>1, <2>1, <2>5, <4>1 DEF Requesting, CanEnd, l
    <3> QED
      BY <2>3, <3>1, <3>2, <3>3, <3>4 DEF CanEnd
  <2>10. Renewed(o.round)
    <3>1. l = n.link => l = Null
      <4>1. n.link # Null => n.link \in Blocks(Pointers(n) \cup {pending.link})
        BY <1>1, <1>2, Kinds DEF Blocks
      <4> QED
        BY <2>5, <4>1
    <3>2. c = n.command => c = Null
      <4>1. n.command # Null => n.command \in Blocks(Pointers(n) \cup {pending.link})
        BY <1>1, <1>2, Kinds DEF Blocks
      <4> QED
        BY <2>5, <4>1
    <3>3. r = n.rel => Blocks({r}) = {}
      <4>1. n.rel \in Blocks(Pointers(n) \cup {pending.link}) \/ Blocks({n.rel}) = {}
        BY <1>2 DEF Blocks
      <4> QED
        BY <2>5, <4>1
    <3> QED
      BY <1>1, <2>1, <3>1, <3>2, <3>3 DEF Renewed, l, r, c
  <2>11. \A p \in Blocks(Pointers(o.round) \cup {pending.link}): p[2] <= o.answers
    <3>1. \A p \in Blocks(Pointers(n) \cup {pending.link}): p[2] \in Nat /\ p[2] <= answers
      <4>1. \A p \in Links \cup RelationPointers \cup Commands: p[2] \in Nat
        BY DEF Links, RelationPointers, Commands, Null, INITIAL_POST, INITIAL_DELETE
      <4> QED
        BY <1>1, <1>2, <4>1 DEF Requesting, Blocks
    <3>2. \A p \in Blocks({l, r, c}): p[2] = answers + 1
      BY <2>4, Kinds DEF Blocks
    <3>3. \A p \in Blocks(Pointers(o.round) \cup {pending.link}):
            p \in Blocks({l, r, c}) \/ p \in Blocks(Pointers(n) \cup {pending.link})
      BY <2>6, <2>8
    <3>4. ASSUME NEW p \in Blocks(Pointers(o.round) \cup {pending.link})
          PROVE  p[2] <= o.answers
      <4>1. CASE p \in Blocks({l, r, c})
        BY <1>1, <1>4, <3>2, <4>1
      <4>2. CASE p \in Blocks(Pointers(n) \cup {pending.link})
        <5>1. PICK k \in Nat: p[2] = k /\ k <= answers
          BY <3>1, <4>2
        <5> QED
          BY <1>1, <1>4, <5>1
      <4> QED
        BY <3>3, <4>1, <4>2
    <3> QED
      BY <3>4
  <2> QED
    BY <1>4, <2>1, <2>9, <2>10, <2>11
<1>5. \/ /\ o.round = Unreachable(n) /\ o.heap = h /\ o.code = "error"
         /\ o.answers = answers /\ o.last.next = "unknown"
      \/ \E a \in Answers:
           /\ o.round = Answered(n, a)
           /\ o.heap = With(h, o.round)
           /\ o.code \in {"ok", "error"}
           /\ o.answers = answers + 1 /\ o.last.next = a.next
  BY Outcomes
<1> QED
  BY <1>3, <1>4, <1>5

LEMMA CurrentPointers ==
  /\ Pointers(Current) = {link, rel, command, used.link, used.rel, used.command}
  /\ Pointers(Current)' = {link', rel', command', used'.link, used'.rel, used'.command}
BY DEF Pointers, Current

LEMMA NotUsed ==
  ASSUME used = NoUse
  PROVE  Unused /\ Blocks(Pointers(Current)) = Blocks({link, rel, command})
BY CurrentPointers, Kinds DEF Unused, NoUse, Blocks

\* The three ways a round ends leave the strings as they should be: the work is over, ...
LEMMA StringsStop ==
  ASSUME EngineTypeOK, Strings, pc = "loop", rel # Null \/ pending.link = Null,
         pending' = pending, answers' \in {answers, answers + 1},
         ~misused', heap' = Blocks({pending.link}), pc' = "closing",
         link' = Null, rel' = Null, command' = Null, response' = Null, used' = NoUse
  PROVE  Strings'
<1>1. Blocks(Pointers(Current)') = {} /\ Unused'
  BY Kinds DEF Pointers, Current, Unused, NoUse, Blocks
<1>2. \A p \in Blocks(Pointers(Current)' \cup {pending.link}): p = pending.link /\ p[2] \in Nat
  <2>1. \A p \in Links: p[2] \in Nat
    BY DEF Links, Null
  <2> QED
    BY <1>1, <2>1 DEF Blocks, EngineTypeOK
<1>3. answers \in Nat /\ MaxAnswers \in Nat
  BY RelationsAssumption DEF EngineTypeOK
<1>4. pending.link # Null => pending.link \in Blocks(Pointers(Current) \cup {pending.link})
  BY Kinds DEF Blocks, EngineTypeOK
<1>5. HeapHeld'
  <2>1. Blocks({response', pending.link}) = Blocks({pending.link})
    BY Kinds DEF Blocks
  <2>2. Blocks({pending.link}) \subseteq Blocks(Pointers(Current)' \cup {response', pending.link})
    BY DEF Blocks
  <2>3. \A p \in Blocks(Pointers(Current)' \cup {pending.link}): p[2] <= answers'
    <3>1. pending.link # Null => pending.link[2] <= answers
      BY <1>4 DEF Strings, HeapHeld, Old
    <3>2. \A p \in Blocks(Pointers(Current)' \cup {pending.link}): p # Null
      BY Kinds DEF Blocks
    <3>3. ASSUME NEW p \in Blocks(Pointers(Current)' \cup {pending.link})
          PROVE  p[2] <= answers'
      <4>1. PICK k \in Nat: p[2] = k /\ k <= answers
        BY <1>2, <3>1, <3>2
      <4> QED
        BY <1>3, <4>1
    <3> QED
      BY <3>3
  <2> QED
    BY <2>1, <2>2, <2>3 DEF HeapHeld, Old
<1>6. AnswersBound'
  BY <1>3 DEF Strings, AnswersBound
<1>7. Waiting' /\ UsedKept' /\ PointersGood' /\ PostedFirst' /\ Phases'
  BY <1>1, Kinds DEF Strings, Waiting, UsedKept, PointersGood, PostedFirst, Phases, NoUse, Blocks
<1> QED
  BY <1>5, <1>6, <1>7 DEF Strings

\* ... goes on with what the SE asked for, ...
LEMMA StringsOn ==
  ASSUME pc' = "loop", ~misused', response' = Null, used' = NoUse, Says(rel') # "self",
         heap' \subseteq Blocks({link', rel', command', pending'.link}),
         Blocks({pending'.link}) \subseteq heap',
         last'.next # "self" => Blocks({link', rel', command'}) \subseteq heap',
         \A p \in Blocks({link', rel', command', pending'.link}): p[2] <= answers',
         pending'.link # Null => pending'.link # link' /\ pending'.rel[1] = "static",
         AnswersBound'
  PROVE  Strings'
<1>1. Unused' /\ used'.link = Null
  BY DEF Unused, NoUse
<1>2. /\ Blocks(Pointers(Current)') = Blocks({link', rel', command'})
      /\ Blocks(Pointers(Current)' \cup {pending'.link}) =
           Blocks({link', rel', command', pending'.link})
      /\ Blocks(Pointers(Current)' \cup {response', pending'.link}) =
           Blocks({link', rel', command', pending'.link})
      /\ Blocks({response', pending'.link}) = Blocks({pending'.link})
  BY Kinds DEF Pointers, Current, NoUse, Blocks
<1>3. HeapHeld'
  BY <1>2 DEF HeapHeld, Old
<1> QED
  BY <1>1, <1>2, <1>3 DEF Strings, Waiting, UsedKept, PointersGood, PostedFirst, Phases

\* ... or is to repeat the request.
LEMMA StringsKeep ==
  ASSUME pc' = "loop", ~misused', response' = Null, rel' # Null, Says(rel') = "self",
         used'.rel # Null, Says(used'.rel) # "self", last'.next = "self",
         heap' = Blocks(Pointers(Current)' \cup {pending'.link}),
         \A p \in Blocks(Pointers(Current)' \cup {pending'.link}): p[2] <= answers',
         pending'.link # Null =>
           pending'.link \notin {link', used'.link} /\ pending'.rel[1] = "static",
         AnswersBound'
  PROVE  Strings'
<1>1. /\ Blocks(Pointers(Current)') \subseteq heap'
      /\ heap' \subseteq Blocks(Pointers(Current)' \cup {response', pending'.link})
      /\ Blocks({response', pending'.link}) \subseteq heap'
  BY Kinds DEF Blocks
<1>2. HeapHeld'
  BY <1>1 DEF HeapHeld, Old
<1> QED
  BY <1>1, <1>2 DEF Strings, Waiting, UsedKept, PointersGood, PostedFirst, Phases

\* While the current pointers are good, the round can end with them ...
LEMMA CurrentEnds ==
  ASSUME EngineTypeOK, Strings, ~Dangling
  PROVE  /\ CanEnd(Current, heap)
         /\ Says(rel) # "self" => used = NoUse
<1>1. Says(rel) # "self" => used = NoUse
  BY DEF Strings, UsedKept, Unused, NoUse, EngineTypeOK
<1>2. Blocks(Pointers(Current)) \subseteq heap
  <2>1. CASE Says(rel) = "self"
    BY <2>1 DEF Strings, PointersGood
  <2>2. CASE Says(rel) # "self"
    BY <1>1, <2>2, NotUsed DEF Dangling
  <2> QED
    BY <2>1, <2>2
<1>3. Current \in Rounds /\ Current.response = response
  BY DEF Current, Rounds, Uses, EngineTypeOK
<1>4. pending.link # Null => pending.link \notin {Current.link, Current.used.link}
  BY DEF Strings, Waiting, Current
<1> QED
  BY <1>1, <1>2, <1>3, <1>4 DEF CanEnd, Strings, HeapHeld

\* ... and use them for a request, for which it may have something to post.
LEMMA UsingRequests ==
  ASSUME EngineTypeOK, Strings, ~Dangling, Says(rel) # "self"
  PROVE  /\ Requesting(Using, heap) /\ Using.rel = rel
         /\ \A s \in Responses \ {Null}: response = Null =>
              /\ Requesting([Using EXCEPT !.response = s], heap \cup {s})
              /\ [Using EXCEPT !.response = s].rel = rel
<1>1. CanEnd(Current, heap) /\ used = NoUse
  BY CurrentEnds
<1>2. /\ Using \in Rounds /\ Using.link = link /\ Using.rel = rel /\ Using.command = command
      /\ Using.response = response
      /\ Using.used = [link |-> link, rel |-> rel, command |-> command]
  BY DEF Using, Current, Rounds, Uses, EngineTypeOK
<1>3. Blocks(Pointers(Using)) = Blocks(Pointers(Current))
  BY <1>1, <1>2, NotUsed DEF Pointers, Blocks
<1>4. \A S, T: Blocks(S \cup T) = Blocks(S) \cup Blocks(T)
  BY DEF Blocks
<1>5. \A p \in Blocks(Pointers(Using) \cup {pending.link}): p[2] <= answers
  <2>1. Blocks(Pointers(Using) \cup {pending.link}) =
          Blocks(Pointers(Current) \cup {pending.link})
    <3> DEFINE A == Pointers(Using)
               B == Pointers(Current)
               C == {pending.link}
    <3>1. Blocks(A) = Blocks(B) /\ Blocks(A \cup C) = Blocks(A) \cup Blocks(C)
          /\ Blocks(B \cup C) = Blocks(B) \cup Blocks(C)
      BY <1>3, <1>4
    <3> HIDE DEF A, B, C
    <3>2. Blocks(A \cup C) = Blocks(B \cup C)
      BY <3>1
    <3> QED
      BY <3>2 DEF A, B, C
  <2>2. \A p \in Blocks(Pointers(Current) \cup {pending.link}): p[2] <= answers
    BY DEF Strings, HeapHeld, Old
  <2> QED
    BY <2>1, <2>2
<1>6. CanEnd(Using, heap)
  <2>1. Current.response = response /\ Current.link = link
    BY DEF Current
  <2>2. heap \subseteq Blocks(Pointers(Using) \cup {response, pending.link})
    BY <1>1, <1>3, <1>4, <2>1 DEF CanEnd
  <2> QED
    BY <1>1, <1>2, <1>3, <2>1, <2>2 DEF CanEnd
<1>7. ASSUME NEW s \in Responses \ {Null}, response = Null
      PROVE  /\ Requesting([Using EXCEPT !.response = s], heap \cup {s})
             /\ [Using EXCEPT !.response = s].rel = rel
  <2> DEFINE n == [Using EXCEPT !.response = s]
  <2>1. /\ n \in Rounds /\ n.link = link /\ n.rel = rel /\ n.command = command
        /\ n.response = s /\ n.used = Using.used
    BY <1>2 DEF Rounds
  <2>2. Pointers(n) = Pointers(Using)
    BY <1>2, <2>1 DEF Pointers
  <2> HIDE DEF n
  <2>3. Blocks({s}) = {s} /\ Blocks({response}) = {}
    BY <1>7, Kinds DEF Blocks
  <2>4. /\ Blocks(Pointers(n)) \subseteq heap
        /\ heap \subseteq Blocks(Pointers(n)) \cup Blocks({response, pending.link})
        /\ Blocks({response, pending.link}) \subseteq heap
    BY <1>2, <1>4, <1>6, <2>2 DEF CanEnd
  <2>5. /\ Blocks({response, pending.link}) = Blocks({pending.link})
        /\ Blocks({s, pending.link}) = {s} \cup Blocks({pending.link})
    BY <2>3 DEF Blocks
  <2>6. /\ Blocks(Pointers(n)) \subseteq heap \cup {s}
        /\ heap \cup {s} \subseteq Blocks(Pointers(n)) \cup Blocks({s, pending.link})
        /\ Blocks({s, pending.link}) \subseteq heap \cup {s}
    BY <2>4, <2>5
  <2>7. CanEnd(n, heap \cup {s})
    BY <1>2, <1>4, <1>6, <2>1, <2>6 DEF CanEnd
  <2> QED
    BY <1>2, <1>5, <2>1, <2>2, <2>7 DEF Requesting, n
<1> QED
  BY <1>2, <1>5, <1>6, <1>7 DEF Requesting

\* What an answer may ask for bounds how many there are.
LEMMA BoundStep ==
  ASSUME EngineTypeOK, Strings, pc = "loop", rel # Null, pending' = pending,
         answers' = answers + 1, rel' # Null => answers < MaxAnswers
  PROVE  AnswersBound'
<1>1. answers \in Nat /\ MaxAnswers \in Nat
  BY RelationsAssumption DEF EngineTypeOK
<1> QED
  BY <1>1 DEF Strings, AnswersBound

\* A request that has come to something leaves the strings as they should be.
LEMMA ReceivedStrings ==
  ASSUME EngineTypeOK, Strings, pc = "loop", rel # Null, Says(rel) # "self",
         pending' = pending, NEW n, NEW h, NEW body, Requesting(n, h), n.rel = rel,
         NEW o \in Communicate(n, h, body), Received(o)
  PROVE  Strings'
<1>1. /\ CanEnd(o.round, o.heap) /\ o.round.used = n.used
      /\ o.code # "error" => Renewed(o.round)
      /\ o.answers \in {answers, answers + 1}
      /\ \A p \in Blocks(Pointers(o.round) \cup {pending.link}): p[2] <= o.answers
  BY CanReceive
<1>2. /\ answers' = o.answers /\ last' = o.last
      /\ EndOfRound(o.round, o.heap, o.code = "ok")
  BY DEF Received
<1>3. pending \in [link: Links, rel: RelationPointers] /\ ~misused
  BY DEF EngineTypeOK, Strings
<1>4. CASE o.code # "ok"
  <2>1. EndOfRound(o.round, o.heap, FALSE)
    BY <1>2, <1>4
  <2>2. /\ ~misused' /\ heap' = Blocks({pending.link}) /\ pc' = "closing"
        /\ link' = Null /\ rel' = Null /\ command' = Null /\ response' = Null
        /\ used' = NoUse
    BY <1>1, <1>3, <2>1, RoundStops
  <2> QED
    BY <1>1, <1>2, <2>2, StringsStop
<1>5. CASE o.code = "ok"
  <2>1. EndOfRound(o.round, o.heap, TRUE) /\ Renewed(o.round)
    BY <1>1, <1>2, <1>5
  <2>2. PICK a \in Answers: /\ o.round = Answered(n, a) /\ o.answers = answers + 1
                            /\ o.last.next = a.next
    BY <1>5, Outcomes
  <2>3. /\ n \in Rounds /\ n.used.rel = rel
        /\ o.round.rel = IF a.next = "none" THEN Null ELSE <<"rel", answers + 1, a.next>>
    BY <2>2 DEF Requesting, CanEnd, Rounds, Answered
  <2>4. /\ o.round.rel = Null <=> a.next = "none"
        /\ a.next # "none" => Says(o.round.rel) = a.next /\ answers < MaxAnswers
    BY <2>3, AnswerTypes DEF Null, Says
  <2>5. rel' = o.round.rel => AnswersBound'
    BY <1>2, <2>2, <2>4, BoundStep
  <2>6. pending.link # Null =>
          pending.link \notin {o.round.link, o.round.used.link} /\ pending.rel[1] = "static"
    BY <1>1 DEF CanEnd, Strings, Waiting
  <2>7. \A S, T: Blocks(S \cup T) = Blocks(S) \cup Blocks(T)
    BY DEF Blocks
  <2>8. CASE a.next = "self"
    <3>1. o.round.rel # Null /\ Says(o.round.rel) = "self"
      BY <2>4, <2>8
    <3>2. /\ ~misused' /\ pc' = "loop"
          /\ heap' = Blocks(Pointers(o.round) \cup {pending.link})
          /\ link' = o.round.link /\ rel' = o.round.rel /\ command' = o.round.command
          /\ response' = Null /\ used' = o.round.used
      BY <1>1, <1>3, <2>1, <3>1, RoundKeeps
    <3>3. Pointers(Current)' = Pointers(o.round)
      BY <3>2, CurrentPointers DEF Pointers
    <3> QED
      BY <1>1, <1>2, <2>2, <2>3, <2>5, <2>6, <2>8, <3>1, <3>2, <3>3, StringsKeep
  <2>9. CASE a.next # "self"
    <3>1. o.round.rel = Null \/ Says(o.round.rel) # "self"
      BY <2>4, <2>9
    <3>2. /\ ~misused' /\ pc' = "loop"
          /\ heap' \subseteq Blocks({o.round.link, o.round.rel, o.round.command, pending.link})
          /\ Blocks({pending.link}) \subseteq heap'
          /\ Blocks({o.round.link, o.round.rel, o.round.command}) \subseteq heap'
          /\ link' = o.round.link /\ rel' = o.round.rel /\ command' = o.round.command
          /\ response' = Null /\ used' = NoUse
      BY <1>1, <1>3, <2>1, <3>1, RoundGoesOn
    <3>3. \A p \in Blocks({link', rel', command', pending.link}): p[2] <= answers'
      BY <1>1, <1>2, <3>2 DEF Pointers, Blocks
    <3>4. Says(rel') # "self"
      BY <3>1, <3>2, Kinds
    <3> QED
      BY <2>5, <2>6, <3>2, <3>3, <3>4, StringsOn
  <2> QED
    BY <2>8, <2>9
<1> QED
  BY <1>4, <1>5

\* With an answer to come there is nothing left of what was to be posted first.
LEMMA NothingToPost ==
  ASSUME EngineTypeOK, Strings, pc = "loop", Says(rel) \notin {"initial_post", "initial_delete"}
  PROVE  response = Null
BY Kinds DEF Strings, PostedFirst, EngineTypeOK

LEMMA SimpleStrings ==
  ASSUME EngineTypeOK, Strings, NEW what, what # "self", Asked(what), NEW body, Simple(body)
  PROVE  Strings'
<1>1. /\ pc = "loop" /\ ~Dangling /\ pending' = pending /\ rel # Null /\ Says(rel) # "self"
  BY DEF Asked, InRound
<1>2. Requesting(Using, heap) /\ Using.rel = rel
  BY <1>1, UsingRequests
<1>3. PICK o \in Communicate(Using, heap, body): Received(o)
  BY DEF Simple
<1> QED
  BY <1>1, <1>2, <1>3, ReceivedStrings

\* The information of the system, or the result of a command.
LEMMA PostStrings ==
  ASSUME EngineTypeOK, Strings, NEW what \in {"system_info", "command_result"}, Asked(what),
         NEW kind \in {"info", "result"}, NEW body, NEW s, s = <<"response", answers + 1, kind>>,
         NEW o \in Communicate([Using EXCEPT !.response = s], heap \cup {s}, body), Received(o)
  PROVE  Strings'
<1>1. /\ pc = "loop" /\ ~Dangling /\ pending' = pending /\ rel # Null /\ Says(rel) # "self"
      /\ response = Null
  BY NothingToPost DEF Asked, InRound
<1>2. s \in Responses \ {Null}
  BY RelationsAssumption DEF Responses, Null, EngineTypeOK
<1>3. /\ Requesting([Using EXCEPT !.response = s], heap \cup {s})
      /\ [Using EXCEPT !.response = s].rel = rel
  BY <1>1, <1>2, UsingRequests
<1> QED
  BY <1>1, <1>3, ReceivedStrings

\* The round ends without a request, and the work with it.
LEMMA GivenUpStrings ==
  ASSUME EngineTypeOK, Strings, NEW what, what # "self", Asked(what), answers' = answers,
         EndOfRound(Using, heap, FALSE)
  PROVE  Strings'
<1>1. /\ pc = "loop" /\ ~Dangling /\ pending' = pending /\ rel # Null /\ Says(rel) # "self"
  BY DEF Asked, InRound
<1>2. CanEnd(Using, heap)
  BY <1>1, UsingRequests DEF Requesting
<1>3. /\ ~misused' /\ heap' = Blocks({pending.link}) /\ pc' = "closing"
      /\ link' = Null /\ rel' = Null /\ command' = Null /\ response' = Null
      /\ used' = NoUse
  BY <1>2, RoundStops DEF EngineTypeOK, Strings
<1> QED
  BY <1>1, <1>3, StringsStop

\* There is nothing to be returned: the round frees what it has used.
LEMMA NoResultStrings ==
  ASSUME EngineTypeOK, Strings, NEW what, what # "self", Asked(what), UNCHANGED <<answers, last>>,
         EndOfRound(Without(Using), heap, TRUE)
  PROVE  Strings'
<1> DEFINE n == Without(Using)
<1>1. /\ pc = "loop" /\ ~Dangling /\ pending' = pending /\ rel # Null /\ Says(rel) # "self"
  BY DEF Asked, InRound
<1>2. /\ CanEnd(Using, heap) /\ Using.used = [link |-> link, rel |-> rel, command |-> command]
      /\ Using.link = link /\ Using.rel = rel /\ Using.command = command
  BY <1>1, UsingRequests DEF Requesting, Using, Current
<1>3. /\ n \in Rounds /\ n.link = Null /\ n.rel = Null /\ n.command = Null
      /\ n.used = Using.used /\ n.response = Using.response
  BY <1>2, NullTypes DEF Without, CanEnd, Rounds
<1> HIDE DEF n
<1>4. /\ Pointers(n) = Pointers(Using) \cup {Null}
  BY <1>2, <1>3 DEF Pointers
<1>5. CanEnd(n, heap)
  <2>1. /\ Blocks(Pointers(n)) = Blocks(Pointers(Using))
        /\ Blocks(Pointers(Using) \cup {n.response, pending.link}) \subseteq
             Blocks(Pointers(n) \cup {n.response, pending.link})
    BY <1>4, Kinds DEF Blocks
  <2>2. pending.link # Null => pending.link \notin {n.link, n.used.link}
    BY <1>2, <1>3 DEF CanEnd
  <2> QED
    BY <1>2, <1>3, <2>1, <2>2 DEF CanEnd
<1>6. Renewed(n)
  BY <1>3, Kinds DEF Renewed, Blocks
<1>7. /\ ~misused' /\ pc' = "loop"
      /\ heap' \subseteq Blocks({n.link, n.rel, n.command, pending.link})
      /\ Blocks({pending.link}) \subseteq heap'
      /\ link' = Null /\ rel' = Null /\ command' = Null /\ response' = Null
      /\ used' = NoUse
  <2>1. EndOfRound(n, heap, TRUE)
    BY DEF n
  <2>2. pending \in [link: Links, rel: RelationPointers] /\ ~misused
    BY DEF EngineTypeOK, Strings
  <2> QED
    BY <1>3, <1>5, <2>1, <2>2, RoundGoesOn
<1>8. Blocks({Null, pending.link}) = Blocks({pending.link}) /\ Blocks({Null}) = {}
  BY Kinds DEF Blocks
<1>9. \A p \in Blocks({link', rel', command', pending.link}): p[2] <= answers'
  <2>1. \A p \in Blocks({link', rel', command', pending.link}): p = pending.link
    BY <1>7, Kinds DEF Blocks
  <2>2. \A p \in Blocks({link', rel', command', pending.link}):
          p \in Blocks(Pointers(Current) \cup {pending.link})
    BY <2>1 DEF Blocks
  <2> QED
    BY <2>2 DEF Strings, HeapHeld, Old
<1>10. AnswersBound'
  <2>1. answers \in Nat /\ MaxAnswers \in Nat
    BY RelationsAssumption DEF EngineTypeOK
  <2> QED
    BY <1>1, <1>7, <2>1 DEF Strings, AnswersBound
<1> QED
  BY <1>1, <1>3, <1>7, <1>8, <1>9, <1>10, StringsOn, Kinds DEF Strings, Waiting

\* The last request is to be repeated: what it used becomes current, unless it is so.
LEMMA RepeatStrings ==
  ASSUME EngineTypeOK, Strings, Repeat
  PROVE  Strings'
<1> DEFINE again == rel # used.rel /\ link # used.link /\ command # used.command
           gone == Blocks({link, rel, command})
           n == [Current EXCEPT !.link = used.link, !.rel = used.rel,
                                !.command = used.command]
           q == pending.link
<1>1. /\ pc = "loop" /\ ~Dangling /\ pending' = pending /\ rel # Null /\ Says(rel) = "self"
      /\ UNCHANGED <<answers, last>>
      /\ IF again THEN EndOfRound(n, heap \ gone, TRUE) ELSE EndOfRound(Current, heap, TRUE)
  BY DEF Repeat, Asked, InRound
<1>2. /\ pending \in [link: Links, rel: RelationPointers] /\ ~misused
      /\ q \in Links
      /\ q # Null => q \notin {link, used.link} /\ pending.rel[1] = "static"
      /\ used.rel # Null /\ Says(used.rel) # "self" /\ last.next = "self"
  BY <1>1 DEF EngineTypeOK, Strings, Waiting, UsedKept
<1>3. /\ CanEnd(Current, heap) /\ Current.response = response
      /\ Current.link = link /\ Current.rel = rel /\ Current.command = command
      /\ Current.used = used
  BY <1>1, CurrentEnds DEF Current
<1>4. \A p \in Blocks(Pointers(Current) \cup {q}): p[2] <= answers
  BY DEF Strings, HeapHeld, Old
<1>5. /\ rel' # Null => AnswersBound'
  <2>1. answers \in Nat /\ MaxAnswers \in Nat
    BY RelationsAssumption DEF EngineTypeOK
  <2> QED
    BY <1>1, <2>1 DEF Strings, AnswersBound
<1>6. CASE ~again
  <2>1. EndOfRound(Current, heap, TRUE)
    BY <1>1, <1>6
  <2>2. /\ ~misused' /\ pc' = "loop"
        /\ heap' = Blocks(Pointers(Current) \cup {q})
        /\ link' = link /\ rel' = rel /\ command' = command /\ response' = Null
        /\ used' = used
    BY <1>1, <1>2, <1>3, <2>1, RoundKeeps
  <2>3. Pointers(Current)' = Pointers(Current)
    BY <2>2, CurrentPointers
  <2> QED
    BY <1>1, <1>2, <1>4, <1>5, <2>2, <2>3, StringsKeep
<1>7. CASE again
  <2>1. EndOfRound(n, heap \ gone, TRUE)
    BY <1>1, <1>7
  <2>2. /\ n \in Rounds /\ n.link = used.link /\ n.rel = used.rel /\ n.command = used.command
        /\ n.used = used /\ n.response = response
    BY <1>3 DEF CanEnd, Rounds, Uses
  <2>3. Pointers(n) = {used.link, used.rel, used.command}
    BY <2>2 DEF Pointers
  <2> HIDE DEF n
  <2>4. /\ Blocks({link, rel, command, used.link, used.rel, used.command}) \subseteq heap
        /\ heap \subseteq
             Blocks({link, rel, command, used.link, used.rel, used.command, response, q})
        /\ Blocks({response, q}) \subseteq heap
    <3>1. {link, rel, command, used.link, used.rel, used.command} \cup {response, q} =
            {link, rel, command, used.link, used.rel, used.command, response, q}
      OBVIOUS
    <3> QED
      BY <1>3, <3>1, CurrentPointers DEF CanEnd
  <2>5. /\ link \in Links /\ rel \in RelationPointers /\ command \in Commands
        /\ used.link \in Links /\ used.rel \in RelationPointers /\ used.command \in Commands
        /\ response \in Responses
    BY DEF EngineTypeOK
  <2>6. \A p \in {used.link, used.rel, used.command}: p[1] \notin {"null", "static"} =>
          p \notin {link, rel, command}
    BY <1>7, <2>5, Kinds
  <2>7. \A p \in {response, q}: p[1] \notin {"null", "static"} => p \notin {link, rel, command}
    BY <1>2, <2>5, Kinds
  <2>8. CanEnd(n, heap \ gone)
    <3>1. Blocks(Pointers(n)) \subseteq heap \ gone
      BY <2>3, <2>4, <2>6 DEF Blocks
    <3>2. heap \ gone \subseteq Blocks(Pointers(n) \cup {response, q})
      BY <2>3, <2>4 DEF Blocks
    <3>3. Blocks({response, q}) \subseteq heap \ gone
      BY <2>4, <2>7 DEF Blocks
    <3> QED
      BY <1>2, <2>2, <3>1, <3>2, <3>3 DEF CanEnd
  <2>9. /\ ~misused' /\ pc' = "loop"
        /\ heap' \subseteq Blocks({n.link, n.rel, n.command, q})
        /\ Blocks({q}) \subseteq heap'
        /\ link' = n.link /\ rel' = n.rel /\ command' = n.command /\ response' = Null
        /\ used' = NoUse
    BY <1>2, <2>1, <2>2, <2>8, RoundGoesOn
  <2>10. \A p \in Blocks({link', rel', command', q}): p[2] <= answers'
    <3>1. \A p \in Blocks({link', rel', command', q}): p \in Blocks(Pointers(Current) \cup {q})
      BY <2>2, <2>9, CurrentPointers DEF Blocks
    <3> QED
      BY <1>1, <1>4, <3>1
  <2> QED
    BY <1>1, <1>2, <1>5, <2>2, <2>9, <2>10, StringsOn
<1> QED
  BY <1>6, <1>7

\* The link that has waited becomes the current one.
LEMMA RecoveredStrings ==
  ASSUME EngineTypeOK, Strings, Recovered
  PROVE  Strings'
<1> DEFINE q == pending.link
<1>1. /\ pc' = "loop" /\ rel = Null /\ q # Null /\ heap' = heap \ {link}
      /\ link' = q /\ rel' = pending.rel /\ pending' = NoPending
      /\ UNCHANGED <<command, response, used, misused, answers, last>> /\ pc = "loop"
  BY DEF Recovered
<1>2. used = NoUse /\ response = Null /\ ~misused
  BY <1>1, Kinds DEF Strings, UsedKept, Unused, NoUse, PostedFirst, EngineTypeOK
<1>3. /\ q \in Links /\ link \in Links /\ command \in Commands
      /\ q # link /\ pending.rel[1] = "static" /\ pending.rel \in RelationPointers
  BY <1>1 DEF EngineTypeOK, Strings, Waiting
<1>4. Pointers(Current) = {link, Null, command}
  BY <1>1, <1>2, CurrentPointers DEF NoUse
<1>5. /\ heap \subseteq Blocks({link, Null, command} \cup {Null, q})
      /\ Blocks({Null, q}) \subseteq heap
      /\ \A p \in Blocks({link, Null, command} \cup {q}): p[2] <= answers
      /\ last.next # "self" => Blocks({link, Null, command}) \subseteq heap
  BY <1>1, <1>2, <1>4 DEF Strings, HeapHeld, PointersGood, Old
<1> HIDE DEF q
<1>6. Says(rel') # "self" /\ rel' # Null
  BY <1>1, <1>3, Kinds
<1>7. heap' \subseteq Blocks({link', rel', command', Null})
  BY <1>1, <1>3, <1>5, Kinds DEF Blocks
<1>8. last'.next # "self" => Blocks({link', rel', command'}) \subseteq heap'
  BY <1>1, <1>3, <1>5, Kinds DEF Blocks
<1>9. \A p \in Blocks({link', rel', command', Null}): p[2] <= answers'
  BY <1>1, <1>3, <1>5, Kinds DEF Blocks
<1>10. pending'.link = Null /\ Blocks({pending'.link}) = {}
  BY <1>1, Kinds DEF NoPending, Blocks
<1>11. AnswersBound'
  <2>1. answers \in Nat /\ MaxAnswers \in Nat
    BY RelationsAssumption DEF EngineTypeOK
  <2> QED
    BY <1>1, <1>10, <2>1 DEF Strings, AnswersBound, q
<1> QED
  BY <1>1, <1>2, <1>6, <1>7, <1>8, <1>9, <1>10, <1>11, StringsOn

LEMMA FinishedStrings ==
  ASSUME EngineTypeOK, Strings, Finished
  PROVE  Strings'
<1>1. /\ pc = "loop" /\ ~Dangling /\ pending' = pending /\ rel = Null /\ pending.link = Null
      /\ answers' = answers /\ EndOfRound(Current, heap, FALSE)
  BY DEF Finished, InRound
<1>2. CanEnd(Current, heap)
  BY <1>1, CurrentEnds
<1>3. /\ ~misused' /\ heap' = Blocks({pending.link}) /\ pc' = "closing"
      /\ link' = Null /\ rel' = Null /\ command' = Null /\ response' = Null
      /\ used' = NoUse
  BY <1>1, <1>2, RoundStops DEF EngineTypeOK, Strings
<1> QED
  BY <1>1, <1>3, StringsStop, RelationsAssumption DEF EngineTypeOK

\* A step that changes only where the thread is.
LEMMA PhaseStrings ==
  ASSUME EngineTypeOK, Strings, Undefined \/ Exit \/ (\E r \in Requests: CmtlUnreachable(r))
  PROVE  Strings'
<1>1. /\ UNCHANGED <<pointers, response, heap, misused, answers, last>>
      /\ \/ pc = "loop" /\ Dangling /\ pc' = "undefined"
         \/ pc = "exiting" /\ pc' = "done"
         \/ pc = "idle" /\ pc' = "exiting"
  BY DEF Undefined, Exit, CmtlUnreachable
<1>2. /\ link' = link /\ rel' = rel /\ command' = command /\ used' = used /\ pending' = pending
  BY <1>1 DEF pointers
<1>3. Unused'
  <2>1. CASE pc = "loop"
    <3>1. Says(rel) # "self"
      BY <1>1, <2>1, CurrentPointers DEF Strings, PointersGood, Dangling, Blocks
    <3> QED
      BY <1>2, <3>1 DEF Strings, UsedKept, Unused
  <2>2. CASE pc # "loop"
    BY <1>2, <2>2 DEF Strings, UsedKept, Unused
  <2> QED
    BY <2>1, <2>2
<1>4. Pointers(Current)' = Pointers(Current)
  BY <1>2, CurrentPointers
<1>5. HeapHeld' /\ PointersGood' /\ Waiting'
  BY <1>1, <1>2, <1>4 DEF Strings, HeapHeld, PointersGood, Waiting, Old
<1>6. UsedKept' /\ PostedFirst'
  BY <1>1, <1>3 DEF UsedKept, PostedFirst
<1>7. Phases'
  BY <1>1, <1>2, Kinds DEF Strings, Phases, Blocks
<1>8. AnswersBound'
  <2>1. answers \in Nat /\ MaxAnswers \in Nat
    BY RelationsAssumption DEF EngineTypeOK
  <2> QED
    BY <1>1, <1>2, <2>1 DEF Strings, AnswersBound, Phases
<1> QED
  BY <1>1, <1>5, <1>6, <1>7, <1>8 DEF Strings

LEMMA StartStrings ==
  ASSUME EngineTypeOK, Strings, NEW r \in Requests, StartProvisioning(r)
  PROVE  Strings'
<1> DEFINE basic == <<"link", 0, "address">>
           root == <<"link", 0, "root">>
           body == IF r = "install" THEN <<"response", 0, "install">> ELSE Null
           first == IF r = "unregister" THEN INITIAL_DELETE ELSE INITIAL_POST
<1>1. PICK recover \in BOOLEAN, ready \in BOOLEAN:
        /\ response' = body
        /\ link' = (IF recover THEN root ELSE basic)
        /\ rel' = (IF recover THEN INITIAL_DELETE ELSE first)
        /\ pending' = (IF recover THEN [link |-> basic, rel |-> first] ELSE NoPending)
        /\ heap' = Blocks({basic, body}) \cup (IF recover THEN {root} ELSE {})
        /\ pc' = (IF ready THEN "loop" ELSE "closing")
        /\ pc = "idle" /\ UNCHANGED <<command, used, misused, answers, last>>
  BY DEF StartProvisioning
<1>2. /\ command = Null /\ Unused /\ answers = 0 /\ ~misused
  <2>1. Blocks({link, rel, command}) = {} /\ answers = 0 /\ Unused /\ ~misused
    BY <1>1 DEF Strings, Phases, UsedKept
  <2> QED
    BY <2>1, Kinds DEF Blocks, EngineTypeOK
<1>3. /\ basic[1] = "link" /\ root[1] = "link" /\ basic # root /\ first[1] = "static"
      /\ basic[2] = 0 /\ root[2] = 0 /\ Says(first) # "self" /\ Says(INITIAL_DELETE) # "self"
      /\ first # Null /\ INITIAL_DELETE # Null /\ INITIAL_DELETE[1] = "static"
      /\ basic # Null /\ root # Null
      /\ body = Null \/ (body[1] = "response" /\ body # basic /\ body # root)
  BY Kinds DEF Null
<1> HIDE DEF basic, root, body, first
<1>4. Unused' /\ command' = Null /\ answers' = 0 /\ ~misused'
  BY <1>1, <1>2 DEF Unused
<1>5. Pointers(Current)' = {link', rel', Null}
  BY <1>4, CurrentPointers DEF Unused
<1>6. CASE recover
  <2>1. /\ link' = root /\ rel' = INITIAL_DELETE /\ pending'.link = basic
        /\ pending'.rel = first /\ heap' = Blocks({basic, body}) \cup {root}
    BY <1>1, <1>6
  <2>2. /\ Blocks(Pointers(Current)') \subseteq heap'
        /\ heap' \subseteq Blocks(Pointers(Current)' \cup {response', pending'.link})
        /\ Blocks({response', pending'.link}) \subseteq heap'
    BY <1>1, <1>3, <1>5, <2>1, Kinds DEF Blocks
  <2>3. \A p \in Blocks(Pointers(Current)' \cup {pending'.link}): p[2] <= answers'
    <3>1. \A p \in Blocks(Pointers(Current)' \cup {pending'.link}): p \in {root, basic}
      BY <1>3, <1>5, <2>1, Kinds DEF Blocks
    <3> QED
      BY <1>3, <1>4, <3>1
  <2>4. HeapHeld' /\ PointersGood'
    BY <2>2, <2>3 DEF HeapHeld, PointersGood, Old
  <2>5. Waiting' /\ UsedKept' /\ PostedFirst'
    BY <1>3, <1>4, <2>1 DEF Waiting, UsedKept, PostedFirst, Unused
  <2>6. Phases'
    BY <1>1, <1>3, <1>4, <2>1, Kinds DEF Phases, Blocks
  <2>7. AnswersBound'
    BY <1>4, RelationsAssumption DEF AnswersBound
  <2> QED
    BY <1>4, <2>4, <2>5, <2>6, <2>7 DEF Strings
<1>7. CASE ~recover
  <2>1. /\ link' = basic /\ rel' = first /\ pending'.link = Null
        /\ heap' = Blocks({basic, body})
    BY <1>1, <1>7 DEF NoPending
  <2>2. /\ Blocks(Pointers(Current)') \subseteq heap'
        /\ heap' \subseteq Blocks(Pointers(Current)' \cup {response', pending'.link})
        /\ Blocks({response', pending'.link}) \subseteq heap'
    BY <1>1, <1>3, <1>5, <2>1, Kinds DEF Blocks
  <2>3. \A p \in Blocks(Pointers(Current)' \cup {pending'.link}): p[2] <= answers'
    <3>1. \A p \in Blocks(Pointers(Current)' \cup {pending'.link}): p = basic
      BY <1>3, <1>5, <2>1, Kinds DEF Blocks
    <3> QED
      BY <1>3, <1>4, <3>1
  <2>4. HeapHeld' /\ PointersGood'
    BY <2>2, <2>3 DEF HeapHeld, PointersGood, Old
  <2>5. Waiting' /\ UsedKept' /\ PostedFirst'
    BY <1>3, <1>4, <2>1 DEF Waiting, UsedKept, PostedFirst, Unused
  <2>6. Phases'
    BY <1>1, <1>3, <1>4, <2>1, Kinds DEF Phases, Blocks
  <2>7. AnswersBound'
    BY <1>4, RelationsAssumption DEF AnswersBound
  <2> QED
    BY <1>4, <2>4, <2>5, <2>6, <2>7 DEF Strings
<1> QED
  BY <1>6, <1>7

LEMMA CloseStrings ==
  ASSUME EngineTypeOK, Strings, CloseSeClient
  PROVE  Strings'
<1> DEFINE q == pending.link
<1>1. /\ pc = "closing" /\ pc' = "exiting" /\ heap' = heap \ {link, response}
      /\ link' = Null /\ response' = Null
      /\ UNCHANGED <<rel, command, used, pending, misused, answers, last>>
  BY DEF CloseSeClient
<1>2. /\ Unused /\ ~misused /\ Blocks({rel, command}) = {}
      /\ link \in Links /\ response \in Responses /\ q \in Links
      /\ q # Null => q # link /\ pending.rel[1] = "static"
  BY <1>1 DEF Strings, UsedKept, Phases, Waiting, EngineTypeOK
<1>3. Pointers(Current) = {link, rel, command, Null}
  BY <1>2, CurrentPointers DEF Unused
<1>4. Pointers(Current)' = {Null, rel, command}
  BY <1>1, <1>2, CurrentPointers DEF Unused
<1>5. /\ heap \subseteq Blocks({link, rel, command, Null} \cup {response, q})
      /\ Blocks({response, q}) \subseteq heap
      /\ \A p \in Blocks({link, rel, command, Null} \cup {q}): p[2] <= answers
  BY <1>3 DEF Strings, HeapHeld, Old
<1> HIDE DEF q
<1>6. heap' = Blocks({q}) /\ Blocks({rel, command}) = {} /\ Blocks(Pointers(Current)') = {}
  <2>1. heap' \subseteq Blocks({q})
    BY <1>1, <1>2, <1>5, Kinds DEF Blocks
  <2>2. Blocks({q}) \subseteq heap'
    BY <1>1, <1>2, <1>5, Kinds DEF Blocks
  <2> QED
    BY <1>2, <1>4, <2>1, <2>2, Kinds DEF Blocks
<1>7. HeapHeld' /\ PointersGood'
  <2>1. /\ heap' \subseteq Blocks(Pointers(Current)' \cup {response', q})
        /\ Blocks({response', q}) \subseteq heap'
        /\ Blocks(Pointers(Current)') \subseteq heap'
        /\ \A p \in Blocks(Pointers(Current)' \cup {q}): p[2] <= answers'
    BY <1>1, <1>4, <1>5, <1>6, Kinds DEF Blocks
  <2> QED
    BY <1>1, <2>1 DEF HeapHeld, PointersGood, Old, q
<1>8. Waiting' /\ UsedKept' /\ PostedFirst'
  BY <1>1, <1>2 DEF Waiting, UsedKept, PostedFirst, Unused, q
<1>9. Phases'
  BY <1>1, <1>2, <1>6, Kinds DEF Phases, Blocks, q
<1>10. AnswersBound'
  BY <1>1 DEF Strings, AnswersBound
<1> QED
  BY <1>1, <1>2, <1>7, <1>8, <1>9, <1>10 DEF Strings

AllBlocks == Blocks(Links \cup RelationPointers \cup Commands \cup Responses)
States == {"connecting", "error", "finished", "exiting"}

LEMMA EndTypes ==
  ASSUME pending.link \in Links, NEW n, NEW h, CanEnd(n, h)
  PROVE  n \in Rounds /\ h \subseteq AllBlocks
BY DEF CanEnd, Pointers, Rounds, Uses, Blocks, AllBlocks

\* The end of a round keeps the types.
LEMMA RoundTypes ==
  ASSUME misused \in BOOLEAN, NEW n \in Rounds, NEW h, h \subseteq AllBlocks,
         NEW more \in BOOLEAN, EndOfRound(n, h, more)
  PROVE  /\ pc' = (IF more THEN "loop" ELSE "closing") /\ misused' \in BOOLEAN
         /\ link' \in Links /\ rel' \in RelationPointers /\ command' \in Commands
         /\ response' \in Responses /\ used' \in Uses /\ heap' \subseteq AllBlocks
<1>1. n.link \in Links /\ n.rel \in RelationPointers /\ n.command \in Commands /\ n.used \in Uses
  BY DEF Rounds
<1>2. /\ heap' \subseteq h /\ misused' \in BOOLEAN
      /\ pc' = (IF more THEN "loop" ELSE "closing")
  BY DEF EndOfRound
<1>3. /\ link' = (IF more THEN n.link ELSE Null) /\ rel' = (IF more THEN n.rel ELSE Null)
      /\ command' = (IF more THEN n.command ELSE Null) /\ response' = Null
      /\ used' = n.used \/ used' = NoUse
  BY DEF EndOfRound
<1> QED
  BY <1>1, <1>2, <1>3, NullTypes

LEMMA ToldMore ==
  ASSUME told \in Seq(States), NEW s \in States, Tell(s)
  PROVE  /\ told' \in Seq(States) /\ told' # <<>> /\ Len(told') = Len(told) + 1
         /\ Len(told) \in Nat /\ told'[Len(told')] = s
         /\ told # <<>> => Len(told) > 0 /\ told'[Len(told)] = told[Len(told)]
BY DEF Tell

\* A request that has come to something keeps the types, and tells of an error.
LEMMA ReceivedTypes ==
  ASSUME EngineTypeOK, Strings, Telling, pc = "loop", rel # Null, UNCHANGED <<request, pending>>,
         NEW n, NEW h, NEW body, Requesting(n, h), NEW o \in Communicate(n, h, body), Received(o),
         ret' \in {"ok", "error", "missing"}, told' = told \/ Tell("error"),
         o.code = "error" => Tell("error")
  PROVE  EngineTypeOK' /\ Telling'
<1>1. /\ pending.link \in Links /\ misused \in BOOLEAN /\ told \in Seq(States)
      /\ answers \in Nat /\ MaxAnswers \in Nat /\ told # <<>>
  BY RelationsAssumption DEF EngineTypeOK, States, Telling
<1>2. o.round \in Rounds /\ o.heap \subseteq AllBlocks /\ o.answers \in {answers, answers + 1}
  BY <1>1, CanReceive, EndTypes
<1>3. answers' = o.answers /\ last' = o.last /\ EndOfRound(o.round, o.heap, o.code = "ok")
  BY DEF Received
<1>4. /\ pc' = (IF o.code = "ok" THEN "loop" ELSE "closing") /\ misused' \in BOOLEAN
      /\ link' \in Links /\ rel' \in RelationPointers /\ command' \in Commands
      /\ response' \in Responses /\ used' \in Uses /\ heap' \subseteq AllBlocks
  <2>1. (o.code = "ok") \in BOOLEAN
    OBVIOUS
  <2> QED
    BY <1>1, <1>2, <1>3, <2>1, RoundTypes
<1>5. answers' \in 0..MaxAnswers + 2
  <2>1. answers <= MaxAnswers + 1
    BY <1>1 DEF Strings, AnswersBound
  <2> QED
    BY <1>1, <1>2, <1>3, <2>1
<1>6. told' \in Seq(States) /\ told' # <<>>
  BY <1>1, ToldMore DEF States
<1>7. EngineTypeOK'
  BY <1>4, <1>5, <1>6 DEF EngineTypeOK, Uses, AllBlocks, States
<1>8. CASE o.code = "ok"
  <2>1. PICK a \in Answers: o.round = Answered(n, a) /\ o.last.next = a.next
    BY <1>8, Outcomes
  <2>2. n \in Rounds
    BY DEF Requesting, CanEnd
  <2>3. rel' = o.round.rel /\ pc' = "loop"
    BY <1>3, <1>8 DEF EndOfRound
  <2>4. rel' = Null => a.next = "none"
    BY <2>1, <2>2, <2>3 DEF Answered, Rounds, Null
  <2> QED
    BY <1>3, <1>6, <1>7, <2>1, <2>3, <2>4 DEF Telling
<1>9. CASE o.code # "ok"
  <2>1. o.code = "error"
    BY <1>9, Outcomes
  <2>2. told'[Len(told')] = "error" /\ pc' = "closing"
    BY <1>1, <1>4, <1>9, <2>1, ToldMore DEF States
  <2> QED
    BY <1>6, <1>7, <2>2 DEF Telling, End
<1> QED
  BY <1>8, <1>9

LEMMA SimpleTypes ==
  ASSUME EngineTypeOK, Strings, Telling, NEW what, what # "self", Asked(what),
         NEW body, Simple(body)
  PROVE  EngineTypeOK' /\ Telling'
<1>1. /\ pc = "loop" /\ ~Dangling /\ UNCHANGED <<request, pending>> /\ rel # Null
      /\ Says(rel) # "self"
  BY DEF Asked, InRound
<1>2. Requesting(Using, heap)
  BY <1>1, UsingRequests
<1>3. PICK o \in Communicate(Using, heap, body): ret' = o.code /\ Report(o.code) /\ Received(o)
  BY DEF Simple
<1>4. o.code \in {"ok", "error"}
  BY <1>3, Outcomes
<1>5. told' = told \/ Tell("error")
  BY <1>3 DEF Report
<1>6. o.code = "error" => Tell("error")
  BY <1>3 DEF Report
<1> QED
  BY <1>1, <1>2, <1>3, <1>4, <1>5, <1>6, ReceivedTypes

\* When the round ends without a request, the client is told of the error.
LEMMA GivenUpTypes ==
  ASSUME EngineTypeOK, Strings, Telling, NEW what, what # "self", Asked(what),
         UNCHANGED <<answers, last>>, ret' = "error", Tell("error"),
         EndOfRound(Using, heap, FALSE) \/ EndOfRound(Without(Using), heap, TRUE)
  PROVE  EngineTypeOK' /\ Telling'
<1>1. /\ pc = "loop" /\ ~Dangling /\ UNCHANGED <<request, pending>> /\ rel # Null
      /\ Says(rel) # "self" /\ pending.link \in Links /\ told \in Seq(States)
      /\ misused \in BOOLEAN
  BY DEF Asked, InRound, EngineTypeOK, States
<1>2. Using \in Rounds /\ heap \subseteq AllBlocks
  BY <1>1, UsingRequests, EndTypes DEF Requesting
<1>3. Without(Using) \in Rounds
  BY <1>2, NullTypes DEF Without, Rounds
<1>4. /\ pc' \in {"loop", "closing"} /\ misused' \in BOOLEAN
      /\ link' \in Links /\ rel' \in RelationPointers /\ command' \in Commands
      /\ response' \in Responses /\ used' \in Uses /\ heap' \subseteq AllBlocks
  <2>1. CASE EndOfRound(Using, heap, FALSE)
    BY <1>1, <1>2, <2>1, RoundTypes
  <2>2. CASE EndOfRound(Without(Using), heap, TRUE)
    BY <1>1, <1>2, <1>3, <2>2, RoundTypes
  <2> QED
    BY <2>1, <2>2
<1>5. told' \in Seq(States) /\ told' # <<>> /\ told'[Len(told')] = "error"
  BY <1>1, ToldMore DEF States
<1>6. EngineTypeOK'
  BY <1>1, <1>4, <1>5 DEF EngineTypeOK, Uses, AllBlocks, States
<1>7. Telling'
  BY <1>4, <1>5 DEF Telling, End
<1> QED
  BY <1>6, <1>7

LEMMA PutSystemInfoInv ==
  ASSUME EngineTypeOK, Strings, Telling, PutSystemInfo
  PROVE  EngineTypeOK' /\ Strings' /\ Telling'
<1>1. Asked("system_info") /\ pc = "loop" /\ ~Dangling /\ UNCHANGED <<request, pending>>
      /\ rel # Null /\ Says(rel) = "system_info" /\ ret \in {"ok", "error", "missing"}
  BY DEF PutSystemInfo, Asked, InRound, EngineTypeOK
<1>2. ASSUME NEW known \in BOOLEAN, NEW info, NEW before,
             info = <<"response", answers + 1, "info">>,
             before = (IF known THEN ret ELSE "error"),
             NEW o \in Communicate([Using EXCEPT !.response = info], heap \cup {info}, "info"),
             ret' = (IF o.code = "ok" THEN before ELSE o.code),
             IF ret' = "ok" THEN UNCHANGED told ELSE Tell("error"),
             Received(o)
      PROVE  EngineTypeOK' /\ Strings' /\ Telling'
  <2>1. Strings'
    BY <1>1, <1>2, PostStrings
  <2>2. o.code \in {"ok", "error"}
    BY <1>2, Outcomes
  <2>3. info \in Responses \ {Null} /\ response = Null
    <3>1. answers \in Nat
      BY RelationsAssumption DEF EngineTypeOK
    <3>2. info \in Responses \ {Null}
      BY <1>2, <3>1 DEF Responses, Null
    <3> QED
      BY <1>1, <3>2, NothingToPost
  <2>4. Requesting([Using EXCEPT !.response = info], heap \cup {info})
    BY <1>1, <2>3, UsingRequests
  <2>5. /\ ret' \in {"ok", "error", "missing"}
        /\ told' = told \/ Tell("error")
        /\ o.code = "error" => Tell("error")
    BY <1>1, <1>2, <2>2
  <2> QED
    BY <1>1, <1>2, <2>1, <2>4, <2>5, ReceivedTypes
<1>3. ASSUME ret' = "error", Tell("error"), EndOfRound(Using, heap, FALSE),
             UNCHANGED <<answers, last>>
      PROVE  EngineTypeOK' /\ Strings' /\ Telling'
  BY <1>1, <1>3, GivenUpStrings, GivenUpTypes
<1> QED
  BY <1>2, <1>3 DEF PutSystemInfo

LEMMA PostResultInv ==
  ASSUME EngineTypeOK, Strings, Telling, PostResult
  PROVE  EngineTypeOK' /\ Strings' /\ Telling'
<1>1. Asked("command_result") /\ pc = "loop" /\ ~Dangling /\ UNCHANGED <<request, pending>>
      /\ rel # Null /\ Says(rel) = "command_result"
  BY DEF PostResult, Asked, InRound
<1>2. ASSUME NEW code \in {"ok", "error", "missing"}, NEW result,
             result = <<"response", answers + 1, "result">>,
             NEW o \in Communicate([Using EXCEPT !.response = result], heap \cup {result},
                                   "result"),
             ret' = (IF o.code = "ok" THEN code ELSE o.code), Report(ret'), Received(o)
      PROVE  EngineTypeOK' /\ Strings' /\ Telling'
  <2>1. Strings'
    BY <1>1, <1>2, PostStrings
  <2>2. o.code \in {"ok", "error"}
    BY <1>2, Outcomes
  <2>3. result \in Responses \ {Null} /\ response = Null
    <3>1. answers \in Nat
      BY RelationsAssumption DEF EngineTypeOK
    <3>2. result \in Responses \ {Null}
      BY <1>2, <3>1 DEF Responses, Null
    <3> QED
      BY <1>1, <3>2, NothingToPost
  <2>4. Requesting([Using EXCEPT !.response = result], heap \cup {result})
    BY <1>1, <2>3, UsingRequests
  <2>5. ret' \in {"ok", "error", "missing"}
    BY <1>2, <2>2
  <2>6. told' = told \/ Tell("error")
    BY <1>2 DEF Report
  <2>7. o.code = "error" => Tell("error")
    BY <1>2 DEF Report
  <2> QED
    BY <1>1, <1>2, <2>1, <2>4, <2>5, <2>6, <2>7, ReceivedTypes
<1>3. ASSUME ret' = "error", Tell("error"), EndOfRound(Without(Using), heap, TRUE),
             UNCHANGED <<answers, last>>
      PROVE  EngineTypeOK' /\ Strings' /\ Telling'
  BY <1>1, <1>3, NoResultStrings, GivenUpTypes
<1> QED
  BY <1>2, <1>3 DEF PostResult

LEMMA RepeatInv ==
  ASSUME EngineTypeOK, Strings, Telling, Repeat
  PROVE  EngineTypeOK' /\ Telling'
<1> DEFINE n == [Current EXCEPT !.link = used.link, !.rel = used.rel,
                                !.command = used.command]
           gone == Blocks({link, rel, command})
<1>1. /\ pc = "loop" /\ ~Dangling /\ UNCHANGED <<request, pending, ret, answers, last, told>>
      /\ rel # Null /\ Says(rel) = "self" /\ pending.link \in Links /\ misused \in BOOLEAN
      /\ EndOfRound(n, heap \ gone, TRUE) \/ EndOfRound(Current, heap, TRUE)
  BY DEF Repeat, Asked, InRound, EngineTypeOK
<1>2. /\ Current \in Rounds /\ heap \subseteq AllBlocks /\ heap \ gone \subseteq AllBlocks
  BY <1>1, CurrentEnds, EndTypes
<1>3. /\ n \in Rounds /\ n.rel = used.rel /\ used.rel # Null /\ Current.rel = rel
  BY <1>1, <1>2 DEF Rounds, Uses, Current, EngineTypeOK, Strings, UsedKept
<1> HIDE DEF n, gone
<1>4. ASSUME NEW m \in Rounds, NEW h, h \subseteq AllBlocks, EndOfRound(m, h, TRUE), m.rel # Null
      PROVE  EngineTypeOK' /\ Telling'
  <2>1. /\ pc' = "loop" /\ misused' \in BOOLEAN
        /\ link' \in Links /\ rel' \in RelationPointers /\ command' \in Commands
        /\ response' \in Responses /\ used' \in Uses /\ heap' \subseteq AllBlocks
    BY <1>1, <1>4, RoundTypes
  <2>2. rel' # Null
    BY <1>4 DEF EndOfRound
  <2>3. EngineTypeOK'
    BY <1>1, <2>1 DEF EngineTypeOK, Uses, AllBlocks
  <2> QED
    BY <1>1, <2>1, <2>2, <2>3 DEF Telling
<1> QED
  BY <1>1, <1>2, <1>3, <1>4

LEMMA FinishedInv ==
  ASSUME EngineTypeOK, Strings, Telling, Finished
  PROVE  EngineTypeOK' /\ Telling'
<1>1. /\ pc = "loop" /\ ~Dangling /\ UNCHANGED <<request, pending, ret, answers, last>>
      /\ rel = Null /\ Tell("finished") /\ EndOfRound(Current, heap, FALSE)
      /\ pending.link \in Links /\ misused \in BOOLEAN /\ told \in Seq(States)
  BY DEF Finished, InRound, EngineTypeOK, States
<1>2. Current \in Rounds /\ heap \subseteq AllBlocks
  BY <1>1, CurrentEnds, EndTypes
<1>3. /\ pc' = "closing" /\ misused' \in BOOLEAN
      /\ link' \in Links /\ rel' \in RelationPointers /\ command' \in Commands
      /\ response' \in Responses /\ used' \in Uses /\ heap' \subseteq AllBlocks
  BY <1>1, <1>2, RoundTypes
<1>4. /\ told' \in Seq(States) /\ told' # <<>> /\ told'[Len(told')] = "finished"
      /\ Len(told) \in Nat /\ Len(told') = Len(told) + 1
      /\ told # <<>> => Len(told) > 0 /\ told'[Len(told)] = told[Len(told)]
  BY <1>1, ToldMore DEF States
<1>5. told # <<>> /\ (last.next = "none" \/ told[Len(told)] = "error")
  BY <1>1 DEF Telling
<1>6. EngineTypeOK'
  BY <1>1, <1>3, <1>4 DEF EngineTypeOK, Uses, AllBlocks, States
<1>7. End(Len(told))'
  <2>1. Len(told') - 1 = Len(told) /\ Len(told') > 1
    BY <1>4, <1>5
  <2> QED
    BY <1>1, <1>4, <1>5, <2>1 DEF End
<1> QED
  BY <1>3, <1>4, <1>6, <1>7 DEF Telling

LEMMA RecoveredInv ==
  ASSUME EngineTypeOK, Strings, Telling, Recovered
  PROVE  EngineTypeOK' /\ Telling'
<1>1. /\ pc = "loop" /\ pc' = "loop" /\ pending.link # Null /\ heap' = heap \ {link}
      /\ link' = pending.link /\ rel' = pending.rel /\ pending' = NoPending
      /\ UNCHANGED <<request, command, response, used, ret, misused, answers, last, told>>
  BY DEF Recovered
<1>2. rel' # Null
  BY <1>1, Kinds DEF Strings, Waiting
<1>3. NoPending \in [link: Links, rel: RelationPointers]
  BY NullTypes DEF NoPending
<1>4. EngineTypeOK'
  BY <1>1, <1>3 DEF EngineTypeOK
<1> QED
  BY <1>1, <1>2, <1>4 DEF Telling

LEMMA StartTypes ==
  ASSUME EngineTypeOK, NEW r \in Requests, StartProvisioning(r)
  PROVE  EngineTypeOK' /\ Telling'
<1> DEFINE basic == <<"link", 0, "address">>
           root == <<"link", 0, "root">>
           body == IF r = "install" THEN <<"response", 0, "install">> ELSE Null
           first == IF r = "unregister" THEN INITIAL_DELETE ELSE INITIAL_POST
<1>1. PICK recover \in BOOLEAN, ready \in BOOLEAN:
        /\ request' = r /\ response' = body
        /\ link' = (IF recover THEN root ELSE basic)
        /\ rel' = (IF recover THEN INITIAL_DELETE ELSE first)
        /\ pending' = (IF recover THEN [link |-> basic, rel |-> first] ELSE NoPending)
        /\ heap' = Blocks({basic, body}) \cup (IF recover THEN {root} ELSE {})
        /\ pc' = (IF ready THEN "loop" ELSE "closing")
        /\ ret' = (IF ready THEN "ok" ELSE "error")
        /\ told' = (IF ready THEN <<"connecting">> ELSE <<"connecting", "error">>)
        /\ UNCHANGED <<command, used, misused, answers, last>>
  BY DEF StartProvisioning
<1>2. /\ basic \in Links /\ root \in Links /\ body \in Responses /\ first \in RelationPointers
      /\ INITIAL_DELETE \in RelationPointers /\ first # Null /\ INITIAL_DELETE # Null
      /\ root[1] = "link" /\ NoPending \in [link: Links, rel: RelationPointers]
  <2>1. first # Null /\ INITIAL_DELETE # Null
    BY Kinds
  <2>2. basic \in Links /\ root \in Links /\ root[1] = "link"
    BY DEF Links
  <2>3. body \in Responses
    BY NullTypes DEF Responses
  <2>4. first \in RelationPointers /\ INITIAL_DELETE \in RelationPointers
    BY DEF RelationPointers
  <2> QED
    BY <2>1, <2>2, <2>3, <2>4, NullTypes DEF NoPending
<1> HIDE DEF basic, root, body, first
<1>3. /\ heap' \subseteq AllBlocks
  BY <1>1, <1>2 DEF Blocks, AllBlocks
<1>4. told' \in Seq(States) /\ told' # <<>> /\ (pc' = "closing" => told'[Len(told')] = "error")
  <2>1. <<"connecting">> \in Seq(States) /\ <<"connecting">> # <<>>
    BY DEF States
  <2>2. <<"connecting", "error">> \in Seq(States) /\ <<"connecting", "error">> # <<>>
        /\ Len(<<"connecting", "error">>) = 2 /\ <<"connecting", "error">>[2] = "error"
    BY DEF States
  <2> QED
    BY <1>1, <2>1, <2>2
<1>5. /\ link' \in Links /\ rel' \in RelationPointers /\ rel' # Null
      /\ pending' \in [link: Links, rel: RelationPointers]
  BY <1>1, <1>2
<1>6. EngineTypeOK'
  BY <1>1, <1>2, <1>3, <1>4, <1>5 DEF EngineTypeOK, AllBlocks, States
<1> QED
  BY <1>1, <1>4, <1>5, <1>6 DEF Telling, End

\* A step that changes only where the thread is, and what the client is told.
LEMMA PhaseTypes ==
  ASSUME EngineTypeOK, Strings, Telling,
         Undefined \/ Exit \/ CloseSeClient \/ (\E r \in Requests: CmtlUnreachable(r))
  PROVE  EngineTypeOK' /\ Telling'
<1>1. told \in Seq(States)
  BY DEF EngineTypeOK, States
<1>2. CASE Undefined
  <2>1. pc' = "undefined" /\ UNCHANGED <<request, link, rel, command, used, pending, response,
                                         ret, heap, misused, answers, last, told>>
    BY <1>2 DEF Undefined, pointers
  <2> QED
    BY <2>1 DEF EngineTypeOK, Telling
<1>3. CASE CloseSeClient
  <2>1. /\ pc = "closing" /\ pc' = "exiting" /\ heap' = heap \ {link, response}
        /\ link' = Null /\ response' = Null
        /\ UNCHANGED <<request, rel, command, used, pending, ret, misused, answers, last, told>>
    BY <1>3 DEF CloseSeClient
  <2>2. EngineTypeOK'
    BY <2>1, NullTypes DEF EngineTypeOK
  <2> QED
    BY <2>1, <2>2 DEF Telling, End
<1>4. ASSUME NEW r \in Requests, CmtlUnreachable(r)
      PROVE  EngineTypeOK' /\ Telling'
  <2>1. /\ pc' = "exiting" /\ request' = r /\ Tell("error")
        /\ UNCHANGED <<link, rel, command, used, pending, response, ret, heap, misused,
                       answers, last>>
    BY <1>4 DEF CmtlUnreachable, pointers
  <2>2. told' \in Seq(States) /\ told' # <<>> /\ told'[Len(told')] = "error"
    BY <1>1, <2>1, ToldMore DEF States
  <2>3. EngineTypeOK'
    BY <2>1, <2>2 DEF EngineTypeOK, States
  <2> QED
    BY <2>1, <2>2, <2>3 DEF Telling, End
<1>5. CASE Exit
  <2>1. /\ pc = "exiting" /\ pc' = "done" /\ Tell("exiting")
        /\ UNCHANGED <<request, link, rel, command, used, pending, response, ret, heap,
                       misused, answers, last>>
    BY <1>5 DEF Exit, pointers
  <2>2. told # <<>> /\ End(Len(told))
    BY <2>1 DEF Telling
  <2>3. /\ told' \in Seq(States) /\ told'[Len(told')] = "exiting"
        /\ Len(told) \in Nat /\ Len(told) > 0 /\ Len(told') = Len(told) + 1
    BY <1>1, <2>1, <2>2, ToldMore DEF States
  <2>4. \A i \in 1..Len(told): told'[i] = told[i]
    BY <1>1, <2>1 DEF Tell, States
  <2>5. EngineTypeOK'
    BY <2>1, <2>3 DEF EngineTypeOK, States
  <2>6. Len(told') - 1 = Len(told) /\ Len(told') > 1
    BY <2>3
  <2>7. PICK k \in Nat: k = Len(told) /\ k > 0 /\ Len(told') - 1 = k
    BY <2>3, <2>6
  <2>8. End(k)'
    <3>1. CASE told[k] = "error"
      BY <2>4, <2>7, <3>1 DEF End
    <3>2. CASE k > 1 /\ told[k] = "finished" /\ (last.next = "none" \/ told[k - 1] = "error")
      <4>1. k \in 1..Len(told) /\ k - 1 \in 1..Len(told)
        BY <2>7, <3>2
      <4> QED
        BY <2>1, <2>4, <3>2, <4>1 DEF End
    <3> QED
      BY <2>2, <2>7, <3>1, <3>2 DEF End
  <2> QED
    BY <2>1, <2>3, <2>5, <2>6, <2>7, <2>8 DEF Telling
<1> QED
  BY <1>2, <1>3, <1>4, <1>5

LEMMA EngineStart == EngineInit => EngineIInv
<1> SUFFICES ASSUME EngineInit PROVE EngineIInv
  OBVIOUS
<1>1. /\ pc = "idle" /\ request = "none" /\ link = Null /\ rel = Null /\ command = Null
      /\ response = Null /\ used = NoUse /\ pending = NoPending /\ ret = "ok"
      /\ heap = {} /\ misused = FALSE /\ answers = 0 /\ last = NoRequest /\ told = <<>>
  BY DEF EngineInit
<1>2. EngineTypeOK
  <2>1. /\ used \in [link: Links, rel: RelationPointers, command: Commands]
        /\ pending \in [link: Links, rel: RelationPointers]
    BY <1>1, NullTypes DEF NoUse, NoPending
  <2>2. told \in Seq(States) /\ answers \in 0..MaxAnswers + 2
    BY <1>1, RelationsAssumption
  <2> QED
    BY <1>1, <2>1, <2>2, NullTypes DEF EngineTypeOK, States
<1>3. Pointers(Current) = {Null} /\ Unused /\ pending.link = Null
  BY <1>1, CurrentPointers DEF NoUse, NoPending, Unused
<1>4. Blocks({Null}) = {} /\ Blocks({Null} \cup {Null, Null}) = {} /\ Blocks({Null, Null}) = {}
      /\ Blocks({Null} \cup {Null}) = {} /\ Blocks({Null, Null, Null}) = {}
      /\ Blocks({Null, Null, Null, Null}) = {}
  BY Kinds DEF Blocks
<1>5. HeapHeld /\ PointersGood
  BY <1>1, <1>3, <1>4 DEF HeapHeld, PointersGood
<1>6. Waiting /\ UsedKept /\ PostedFirst /\ AnswersBound /\ Telling
  BY <1>1, <1>3 DEF Waiting, UsedKept, PostedFirst, AnswersBound, Telling
<1>7. Phases
  BY <1>1, <1>3, <1>4 DEF Phases
<1> QED
  BY <1>1, <1>2, <1>5, <1>6, <1>7 DEF EngineIInv, Strings

LEMMA EngineStep == EngineIInv /\ [EngineNext]_engineVars => EngineIInv'
<1> SUFFICES ASSUME EngineIInv, [EngineNext]_engineVars
             PROVE  EngineIInv'
  OBVIOUS
<1> USE DEF EngineIInv
<1>1. CASE InitialDelete
  BY <1>1, SimpleStrings, SimpleTypes DEF InitialDelete
<1>2. CASE InitialPost
  BY <1>2, SimpleStrings, SimpleTypes DEF InitialPost
<1>3. CASE GetNext
  BY <1>3, SimpleStrings, SimpleTypes DEF GetNext
<1>4. CASE PutSystemInfo
  BY <1>4, PutSystemInfoInv
<1>5. CASE PostResult
  BY <1>5, PostResultInv
<1>6. CASE NotUnderstood
  BY <1>6, GivenUpStrings, GivenUpTypes DEF NotUnderstood
<1>7. CASE Repeat
  BY <1>7, RepeatStrings, RepeatInv
<1>8. CASE Undefined
  BY <1>8, PhaseStrings, PhaseTypes
<1>9. CASE Recovered
  BY <1>9, RecoveredStrings, RecoveredInv
<1>10. CASE Finished
  BY <1>10, FinishedStrings, FinishedInv
<1>11. ASSUME NEW r \in Requests, CmtlUnreachable(r)
       PROVE  EngineIInv'
  BY <1>11, PhaseStrings, PhaseTypes
<1>12. ASSUME NEW r \in Requests, StartProvisioning(r)
       PROVE  EngineIInv'
  BY <1>12, StartStrings, StartTypes
<1>13. CASE CloseSeClient
  BY <1>13, CloseStrings, PhaseTypes
<1>14. CASE Exit
  BY <1>14, PhaseStrings, PhaseTypes
<1>15. CASE UNCHANGED engineVars
  <2>1. UNCHANGED <<pc, request, link, rel, command, used, pending, response, ret, heap,
                    misused, answers, last, told>>
    BY <1>15 DEF engineVars, pointers
  <2>2. Pointers(Current)' = Pointers(Current)
    BY <2>1, CurrentPointers
  <2>3. HeapHeld' /\ PointersGood'
    BY <2>1, <2>2 DEF Strings, HeapHeld, PointersGood, Old
  <2>4. Waiting' /\ UsedKept' /\ PostedFirst' /\ Phases' /\ AnswersBound'
    BY <2>1 DEF Strings, Waiting, UsedKept, Unused, PostedFirst, Phases, AnswersBound
  <2> QED
    BY <2>1, <2>3, <2>4 DEF EngineTypeOK, Strings, Telling, End
<1> QED
  BY <1>1, <1>2, <1>3, <1>4, <1>5, <1>6, <1>7, <1>8, <1>9, <1>10, <1>11, <1>12, <1>13,
     <1>14, <1>15 DEF EngineNext, Loop

\* Throughout a run of provisioningThreadFunction() the strings on the heap are held by the
\* engine's pointers, which are all good while a round may use them, and what the client
\* has been told agrees with where the thread is.
THEOREM EngineInvariant == EngineSpec => []EngineIInv
<1> QED
  BY EngineStart, EngineStep, PTL DEF EngineSpec

\* At the end of a round (provisioningengine.c:441-470) the engine frees each string once,
\* although two pointers may hold it, and uses none that is gone, but for a request that
\* is repeated; when the thread ends all it was given are freed, but for the link that
\* waits when the recovery from a factory reset is cut short: besides, only what
\* httpCommunicate() had overwritten (seclient.c:762) is left.
THEOREM StringsFreedOnce == EngineSpec => []EngineInv
<1>1. EngineIInv => EngineInv
  <2> SUFFICES ASSUME EngineIInv PROVE EngineInv
    OBVIOUS
  <2>1. MemorySafe
    BY CurrentPointers DEF EngineIInv, Strings, HeapHeld, PointersGood, MemorySafe
  <2>2. AllReleased
    BY DEF EngineIInv, Strings, Phases, AllReleased, Allocated
  <2> QED
    BY <2>1, <2>2 DEF EngineIInv, EngineInv
<1> QED
  BY <1>1, EngineInvariant, PTL

\* The callbacks of doProvisioningWithSe() tell the client how its request has ended, and
\* then that the thread ends: "finished" is told only when the SE asked for nothing more,
\* or just after the error because of which its answer was not looked at.
THEOREM ClientLearnsTheEnd == EngineSpec => []ToldTheEnd
<1>1. EngineIInv => ToldTheEnd
  <2> SUFFICES ASSUME EngineIInv PROVE ToldTheEnd
    OBVIOUS
  <2>1. pc = "done" => told[Len(told)] = "exiting" /\ End(Len(told) - 1)
    BY DEF EngineIInv, Telling
  <2>2. pc \in {"closing", "exiting"} => End(Len(told))
    BY DEF EngineIInv, Telling
  <2>3. \A n: End(n) => \/ told[n] = "error"
                        \/ /\ told[n] = "finished"
                           /\ last.next = "none" \/ told[n - 1] = "error"
    BY DEF End
  <2> QED
    BY <2>1, <2>2, <2>3 DEF ToldTheEnd
<1> QED
  BY <1>1, EngineInvariant, PTL

=============================================================================
