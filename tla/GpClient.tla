------------------------------ MODULE GpClient ------------------------------
(***************************************************************************)
(* The GlobalPlatform client API: the threads of a client application open  *)
(* a session to a TA, invoke commands in it, cancel each other's operations *)
(* and close it.  A call writes its request into the TCI, a page shared     *)
(* with the TA, maps the memory of its operation, notifies the TA, waits on *)
(* the session's notification connection and unmaps the memory again.       *)
(*                                                                         *)
(* mutex_tci serialises the calls of a session; a cancellation works beside *)
(* it.  One session is modelled, and one buffer that an operation may use.  *)
(* The calls are numbered as they are made.  The secure world is external.  *)
(***************************************************************************)
EXTENDS Naturals, FiniteSets

CONSTANTS Threads,     \* the threads of the application
          MaxCalls,    \* bound on their calls
          MaxCancels,  \* bound on the cancellations
          MaxFailures, \* bound on the failures
          NULL,        \* no thread
          Operations,  \* what a call may have: no operation ("no"), one without memory
                       \* ("plain") or one with the buffer ("buffer")
          Failures     \* what may go wrong: the daemon refuses "open", "unmap" or
                       \* "close", an operation cannot be "setup", a "write" fails, a
                       \* "connection" is lost, the TA ends in a "panic", the "tee"
                       \* answers in its place

ASSUME BoundsAssumption ==
         /\ {MaxCalls, MaxCancels, MaxFailures} \subseteq Nat
         /\ NULL \notin Threads
         /\ Operations \subseteq {"no", "plain", "buffer"}
         /\ Failures \subseteq {"open", "setup", "unmap", "close", "write",
                               "connection", "panic", "tee"}

Calls == 1..MaxCalls
None == 0      \* no call

VARIABLES calls,       \* the calls made so far
          pc, call,    \* where thread t is, and the number of its call
          kind,        \* kind[i]: what call i does
          operation,   \* operation[i]: "no", or an operation with or without the buffer
          started,     \* started[i]: the field of the operation of call i
          outcome,     \* outcome[i]: what call i returns, and the call that caused it
          cancel,      \* cancel[i]: where TEEC_RequestCancellation() of call i is
          app,         \* what the application knows of the session
          active, tci, \* session->active; the TCI is mapped and session->tci is not NULL
          mutex_tci,   \* the thread that holds it
          page,        \* the TCI
          listed,      \* the device has the session
          gp_session,  \* the driver client knows the TCI of the session
          mapped,      \* the buffer is mapped to the TA
          toTa, toClient,  \* the notifications on their way
          ta, doing,   \* what the TA does, and for which call
          failed,      \* the failures so far
          strays, kept, refused    \* history: see the properties

callVars == <<calls, kind, operation>>
sessionVars == <<active, tci, listed, gp_session>>
taVars == <<ta, doing>>
history == <<strays, kept, refused, failed>>
vars == <<callVars, pc, call, started, outcome, cancel, app, sessionVars, mutex_tci,
          page, mapped, toTa, toClient, taVars, history>>

\* What nobody has written: the page is zeroed when it is mapped.
Zeroed == [of |-> None, ready |-> FALSE, cancelled |-> None, origin |-> "none",
           status |-> <<"none", None>>, len |-> FALSE]

Init == /\ calls = 0
        /\ kind = [i \in Calls |-> "none"]
        /\ operation = [i \in Calls |-> "no"]
        /\ pc = [t \in Threads |-> "idle"]
        /\ call = [t \in Threads |-> None]
        /\ started = [i \in Calls |-> 0]
        /\ outcome = [i \in Calls |-> <<"none", None>>]
        /\ cancel = [i \in Calls |-> "no"]
        /\ app = "none"
        /\ active = FALSE /\ tci = FALSE
        /\ mutex_tci = NULL
        /\ page = Zeroed
        /\ listed = FALSE /\ gp_session = FALSE
        /\ mapped = FALSE
        /\ toTa = FALSE /\ toClient = {}
        /\ ta = "none" /\ doing = None
        /\ failed = 0
        /\ strays = {} /\ kept = FALSE /\ refused = FALSE

Fails(what) == what \in Failures /\ failed < MaxFailures /\ failed' = failed + 1
Idle == \A t \in Threads: pc[t] = "idle"
Go(t, where) == pc' = [pc EXCEPT ![t] = where]
Ends(t, result) == outcome' = [outcome EXCEPT ![call[t]] = result]
HasOperation(t) == operation[call[t]] # "no"
Maps(t) == operation[call[t]] = "buffer"

(***************************************************************************)
(* The calls.                                                               *)
(***************************************************************************)
\* A thread enters call number calls + 1.
Enter(t, what, with) == /\ pc[t] = "idle"
                        /\ calls < MaxCalls
                        /\ calls' = calls + 1
                        /\ call' = [call EXCEPT ![t] = calls']
                        /\ kind' = [kind EXCEPT ![calls'] = what]
                        /\ operation' = [operation EXCEPT ![calls'] = with]

\* The session is new: nobody else uses its mutex.
TEEC_OpenSession(t) ==
  /\ app = "none" /\ Idle
  /\ \E with \in Operations: Enter(t, "open", with)
  /\ app' = "opening"
  /\ tci' = TRUE /\ page' = Zeroed
  /\ mutex_tci' = t
  /\ Go(t, "open")
  /\ UNCHANGED <<started, outcome, cancel, active, listed, gp_session, mapped, toTa,
                 toClient, taVars, history>>

OpenSession(t) ==
  /\ pc[t] = "open"
  /\ listed' = TRUE /\ gp_session' = TRUE /\ active' = TRUE
  /\ ta' = "waits"
  /\ Go(t, "locked")
  /\ UNCHANGED <<callVars, call, started, outcome, cancel, app, tci, mutex_tci, page,
                 mapped, toTa, toClient, doing, history>>
OpenSessionFails(t) ==
  /\ pc[t] = "open" /\ Fails("open")
  /\ Ends(t, <<"failed", call[t]>>)
  /\ Go(t, "leave")
  /\ UNCHANGED <<callVars, call, started, cancel, app, sessionVars, mutex_tci, page,
                 mapped, toTa, toClient, taVars, strays, kept, refused>>

\* The session is looked at before the mutex is taken.
TEEC_InvokeCommand(t) ==
  /\ app = "open"
  /\ \E with \in Operations: Enter(t, "invoke", with)
  /\ IF active
     THEN Go(t, "enter") /\ UNCHANGED outcome
     ELSE /\ outcome' = [outcome EXCEPT ![calls'] = <<"inactive", calls'>>]
          /\ UNCHANGED pc
  /\ UNCHANGED <<started, cancel, app, sessionVars, mutex_tci, page, mapped, toTa,
                 toClient, taVars, history>>

\* The application closes a session in which nothing runs any more.
TEEC_CloseSession(t) ==
  /\ app = "open" /\ Idle
  /\ Enter(t, "close", "no")
  /\ app' = "closing"
  /\ Go(t, IF active THEN "enter" ELSE "leave")
  /\ UNCHANGED <<started, outcome, cancel, sessionVars, mutex_tci, page, mapped, toTa,
                 toClient, taVars, history>>

\* Mutant: the calls are not serialised.
LockAnyway(t) == /\ pc[t] = "enter"
                 /\ mutex_tci' = t
                 /\ Go(t, "locked")
                 /\ UNCHANGED <<callVars, call, started, outcome, cancel, app,
                                sessionVars, page, mapped, toTa, toClient, taVars,
                                history>>

Lock(t) == /\ pc[t] = "enter"
           /\ mutex_tci = NULL
           /\ mutex_tci' = t
           /\ Go(t, "locked")
           /\ UNCHANGED <<callVars, call, started, outcome, cancel, app, sessionVars,
                          page, mapped, toTa, toClient, taVars, history>>

(***************************************************************************)
(* _TEEC_CallTA(), with the mutex held.                                     *)
(***************************************************************************)
\* Another call has broken the session meanwhile: session->tci is NULL, and used.
NoTci(t) == /\ pc[t] = "locked" /\ ~tci
            /\ Ends(t, <<"crashed", call[t]>>)
            /\ Go(t, "crashed")
            /\ UNCHANGED <<callVars, call, started, cancel, app, sessionVars, mutex_tci,
                           page, mapped, toTa, toClient, taVars, history>>

\* Mutant: a cancellation of the call before is not reset.
BeginUnreset(t) ==
  /\ pc[t] = "locked" /\ tci
  /\ page' = [page EXCEPT !.of = call[t]]
  /\ started' = IF HasOperation(t) THEN [started EXCEPT ![call[t]] = 1] ELSE started
  /\ Go(t, "setup")
  /\ UNCHANGED <<callVars, call, outcome, cancel, app, sessionVars, mutex_tci, mapped,
                 toTa, toClient, taVars, history>>

Begin(t) ==
  /\ pc[t] = "locked" /\ tci
  /\ page' = [page EXCEPT !.of = call[t], !.cancelled = None]
  /\ started' = IF HasOperation(t) THEN [started EXCEPT ![call[t]] = 1] ELSE started
  /\ Go(t, "setup")
  /\ UNCHANGED <<callVars, call, outcome, cancel, app, sessionVars, mutex_tci, mapped,
                 toTa, toClient, taVars, history>>

\* There is no answer, or one that is neither the TA's nor a success: nothing is
\* unmapped.  The origin is not reset before a call: it may be that of an earlier answer.
Distrusted == \/ page.origin = "none"
              \/ page.origin # "TA" /\ page.status[1] # "answer"

\* What is to be unmapped is found by the length in the TCI, which may be that of an
\* earlier operation.  An unmap that fails is only logged.
Unmaps(t) == Maps(t) /\ page.len /\ ~Distrusted
Unmap == \/ mapped' = FALSE /\ kept' = FALSE /\ UNCHANGED failed
         \/ Fails("unmap") /\ kept' = mapped /\ UNCHANGED mapped
UnwindOperation(t) ==
  \/ Unmaps(t) /\ Unmap
  \/ /\ ~Unmaps(t)
     /\ kept' = (kept \/ (mapped /\ Maps(t) /\ Distrusted))
     /\ UNCHANGED <<mapped, failed>>

\* Cancelled before it was sent, or refused: its parameters are wrong, a buffer is
\* mapped already, or the daemon does not map it.
SetupFails(t) ==
  /\ pc[t] = "setup"
  /\ HasOperation(t)
  /\ \/ /\ page.cancelled # None
        /\ Ends(t, <<"cancelled", page.cancelled>>)
        /\ UnwindOperation(t)
     \/ /\ page.cancelled = None /\ Maps(t) /\ mapped
        /\ Ends(t, <<"failed", call[t]>>)
        /\ UnwindOperation(t)
     \/ /\ Maps(t) => ~mapped
        /\ Ends(t, <<"failed", call[t]>>)
        /\ Fails("setup")
        /\ UNCHANGED <<mapped, kept>>
  /\ started' = [started EXCEPT ![call[t]] = 2]
  /\ page' = [page EXCEPT !.of = None, !.cancelled = None, !.len = FALSE]
  /\ Go(t, IF kind[call[t]] = "open" THEN "close" ELSE "unlock")
  /\ UNCHANGED <<callVars, call, cancel, app, sessionVars, mutex_tci, toTa, toClient,
                 taVars, strays, refused>>

Map == ~mapped /\ mapped' = TRUE
SetupOperation(t) ==
  /\ pc[t] = "setup"
  /\ HasOperation(t) => page.cancelled = None
  /\ IF Maps(t) THEN Map ELSE UNCHANGED mapped
  /\ page' = [page EXCEPT !.status = <<"bad_state", call[t]>>, !.ready = TRUE,
                          !.len = page.len \/ Maps(t)]
  /\ Go(t, "notify")
  /\ UNCHANGED <<callVars, call, started, outcome, cancel, app, sessionVars, mutex_tci,
                 toTa, toClient, taVars, history>>

NotifyTa == toTa' = (toTa \/ listed)
Notify(t) == /\ pc[t] = "notify"
             /\ NotifyTa
             /\ Go(t, "wait")
             /\ UNCHANGED <<callVars, call, started, outcome, cancel, app, sessionVars,
                            mutex_tci, page, mapped, toClient, taVars, history>>
NotifyFails(t) == /\ pc[t] = "notify" /\ Fails("write")
                  /\ Ends(t, <<"comm", call[t]>>)
                  /\ Go(t, "unwind")
                  /\ UNCHANGED <<callVars, call, started, cancel, app, sessionVars,
                                 mutex_tci, page, mapped, toTa, toClient, taVars, strays,
                                 kept, refused>>

\* Mutant: the end of a TA is not told.
WaitAnswer(t) == /\ pc[t] = "wait" /\ "answer" \in toClient
                 /\ toClient' = {}
                 /\ Go(t, "unwind")
                 /\ UNCHANGED <<callVars, call, started, outcome, cancel, app,
                                sessionVars, mutex_tci, page, mapped, toTa, taVars,
                                history>>

\* The connection is read until it is empty: an exit of the TA behind its answer counts.
WaitNotification == toClient # {} /\ toClient' = {}

\* A TA that has finished has answered before.
Wait(t) == /\ pc[t] = "wait"
           /\ WaitNotification
           /\ IF "panic" \in toClient THEN Ends(t, <<"dead", call[t]>>)
                                      ELSE UNCHANGED outcome
           /\ Go(t, "unwind")
           /\ UNCHANGED <<callVars, call, started, cancel, app, sessionVars, mutex_tci,
                          page, mapped, toTa, taVars, history>>

ConnectionLost(t) ==
  /\ pc[t] = "wait" /\ Fails("connection")
  /\ Ends(t, <<"comm", call[t]>>)
  /\ Go(t, "unwind")
  /\ UNCHANGED <<callVars, call, started, cancel, app, sessionVars, mutex_tci, page,
                 mapped, toTa, toClient, taVars, strays, kept, refused>>

\* A broken session is closed at once, by whatever call; one that the TA has refused to
\* open or has closed, by its call.
After(t, result) ==
  IF outcome[call[t]][1] # "none" THEN "break"
  ELSE IF kind[call[t]] = "invoke" \/ (kind[call[t]] = "open" /\ result = "answer")
       THEN "unlock"
       ELSE "close"
Unwind(t) ==
  /\ pc[t] = "unwind"
  /\ IF HasOperation(t)
     THEN started' = [started EXCEPT ![call[t]] = 2] /\ UnwindOperation(t)
     ELSE UNCHANGED <<started, mapped, kept, failed>>
  /\ IF outcome[call[t]][1] = "none" THEN Ends(t, page.status) ELSE UNCHANGED outcome
  /\ Go(t, After(t, page.status[1]))
  /\ UNCHANGED <<callVars, call, cancel, app, sessionVars, mutex_tci, page, toTa,
                 toClient, taVars, strays, refused>>

(***************************************************************************)
(* Closing.                                                                 *)
(***************************************************************************)
\* The daemon unmaps what is mapped with the session.
CloseSession(t) ==
  /\ pc[t] \in {"break", "close"}
  /\ listed' = FALSE /\ mapped' = FALSE /\ kept' = FALSE
  /\ ta' = "gone" /\ toTa' = FALSE /\ toClient' = {}
  /\ Go(t, IF pc[t] = "break" THEN "forget_broken" ELSE "forget")
  /\ UNCHANGED <<callVars, call, started, outcome, cancel, app, active, tci, gp_session,
                 mutex_tci, page, doing, strays, refused, failed>>

\* The driver client keeps a session whose close is refused; the API does not.
CloseRefused(t) ==
  /\ pc[t] \in {"break", "close"}
  /\ Fails("close")
  /\ refused' = TRUE
  /\ active' = FALSE
  /\ Go(t, IF pc[t] = "break" THEN "delete" ELSE "unlock")
  /\ UNCHANGED <<callVars, call, started, outcome, cancel, app, tci, listed, gp_session,
                 mutex_tci, page, mapped, toTa, toClient, taVars, strays, kept>>

Forget(t) == /\ pc[t] \in {"forget", "forget_broken"}
             /\ gp_session' = FALSE /\ active' = FALSE
             /\ Go(t, IF pc[t] = "forget" THEN "unlock" ELSE "delete")
             /\ UNCHANGED <<callVars, call, started, outcome, cancel, app, tci, listed,
                            mutex_tci, page, mapped, toTa, toClient, taVars, history>>

DeleteTci(t) == /\ pc[t] = "delete"
                /\ tci' = FALSE
                /\ Go(t, "unlock")
                /\ UNCHANGED <<callVars, call, started, outcome, cancel, app, active,
                               listed, gp_session, mutex_tci, page, mapped, toTa,
                               toClient, taVars, history>>

\* An invoke, and an open that has succeeded, leave the session as it is.
Stays(t) == \/ kind[call[t]] = "invoke"
            \/ kind[call[t]] = "open" /\ outcome[call[t]][1] = "answer"
Unlock(t) == /\ pc[t] = "unlock"
             /\ mutex_tci' = NULL
             /\ IF Stays(t) THEN Go(t, "idle") /\ app' = "open"
                            ELSE Go(t, "leave") /\ UNCHANGED app
             /\ UNCHANGED <<callVars, call, started, outcome, cancel, sessionVars, page,
                            mapped, toTa, toClient, taVars, history>>

\* The mutex is destroyed and the TCI unmapped: nobody uses the session any more.
Leave(t) == /\ pc[t] = "leave"
            /\ mutex_tci' = NULL
            /\ tci' = FALSE /\ app' = "over"
            /\ Go(t, "idle")
            /\ UNCHANGED <<callVars, call, started, outcome, cancel, active, listed,
                           gp_session, page, mapped, toTa, toClient, taVars, history>>

(***************************************************************************)
(* TEEC_RequestCancellation(), in a thread of its own.                      *)
(***************************************************************************)
Asks(i, where) == cancel' = [cancel EXCEPT ![i] = where]

TEEC_RequestCancellation(i) ==
  /\ i <= calls /\ operation[i] # "no"
  /\ cancel[i] = "no"
  /\ Cardinality({j \in Calls: cancel[j] # "no"}) < MaxCancels
  /\ Asks(i, "spins")
  /\ UNCHANGED <<callVars, pc, call, started, outcome, app, sessionVars, mutex_tci, page,
                 mapped, toTa, toClient, taVars, history>>

\* It spins while the operation has not been started.
CancelStarted(i) ==
  /\ cancel[i] = "spins" /\ started[i] # 0
  /\ Asks(i, IF started[i] = 1 THEN "looks" ELSE "done")
  /\ started' = [started EXCEPT ![i] = 2]
  /\ UNCHANGED <<callVars, pc, call, outcome, app, sessionVars, mutex_tci, page, mapped,
                 toTa, toClient, taVars, history>>

CancelLooks(i) ==
  /\ cancel[i] = "looks"
  /\ Asks(i, IF active THEN "marks" ELSE "done")
  /\ UNCHANGED <<callVars, pc, call, started, outcome, app, sessionVars, mutex_tci, page,
                 mapped, toTa, toClient, taVars, history>>

\* Whatever operation is in the TCI by now is marked.
CancelMarks(i) ==
  /\ cancel[i] = "marks"
  /\ CASE ~gp_session -> Asks(i, "done") /\ UNCHANGED <<page, strays>>
       [] gp_session /\ ~tci -> Asks(i, "crashed") /\ UNCHANGED <<page, strays>>
       [] OTHER -> /\ Asks(i, "notifies")
                   /\ page' = [page EXCEPT !.cancelled = i]
                   /\ strays' = strays \cup ({i} \ {page.of})
  /\ UNCHANGED <<callVars, pc, call, started, outcome, app, sessionVars, mutex_tci,
                 mapped, toTa, toClient, taVars, kept, refused, failed>>

CancelNotifies(i) ==
  /\ cancel[i] = "notifies"
  /\ Asks(i, "done")
  /\ NotifyTa
  /\ UNCHANGED <<callVars, pc, call, started, outcome, app, sessionVars, mutex_tci, page,
                 mapped, toClient, taVars, history>>

(***************************************************************************)
(* The TA and the TEE.                                                      *)
(***************************************************************************)
clientVars == <<callVars, pc, call, started, outcome, cancel, app, sessionVars,
                mutex_tci, mapped, strays, kept, refused>>

\* A notification without a request, that of a cancellation, is ignored.
TaTakes == /\ ta = "waits" /\ toTa
           /\ toTa' = FALSE
           /\ IF page.ready
              THEN /\ ta' = "works" /\ doing' = page.of
                   /\ page' = [page EXCEPT !.ready = FALSE]
              ELSE UNCHANGED <<taVars, page>>
           /\ UNCHANGED <<clientVars, toClient, failed>>

\* A TA ends when it has closed the session or has refused to open it.
TaAnswers(result, by, from) ==
  /\ page' = [page EXCEPT !.status = <<result, by>>, !.origin = from]
  /\ toClient' = toClient \cup {"answer"}
  /\ ta' = IF kind[doing] = "close" \/ (kind[doing] = "open" /\ result # "answer")
           THEN "ends" ELSE "waits"
  /\ doing' = None
  /\ UNCHANGED <<clientVars, toTa>>
TaDoes == /\ ta = "works"
          /\ \/ TaAnswers("answer", doing, "TA") /\ UNCHANGED failed
             \/ /\ kind[doing] = "open"
                /\ TaAnswers("denied", doing, "TA") /\ UNCHANGED failed
             \/ /\ operation[doing] # "no" /\ page.cancelled # None
                /\ TaAnswers("cancelled", page.cancelled, "TA") /\ UNCHANGED failed
             \/ TaAnswers("error", doing, "TEE") /\ Fails("tee")

TaFinishes == /\ ta = "ends"
              /\ toClient' = toClient \cup {"finished"}
              /\ ta' = "gone" /\ doing' = None
              /\ UNCHANGED <<clientVars, page, toTa, failed>>
TaPanics == /\ ta \in {"waits", "works"} /\ Fails("panic")
            /\ toClient' = toClient \cup {"panic"}
            /\ ta' = "gone" /\ doing' = None
            /\ UNCHANGED <<clientVars, page, toTa>>

(***************************************************************************)
(* The specification.                                                       *)
(***************************************************************************)
Alive == (\A t \in Threads: pc[t] # "crashed") /\ (\A i \in Calls: cancel[i] # "crashed")

ThreadStep(t) == Alive /\ \/ OpenSession(t) \/ OpenSessionFails(t)
                          \/ Lock(t) \/ NoTci(t) \/ Begin(t)
                          \/ SetupFails(t) \/ SetupOperation(t)
                          \/ Notify(t) \/ NotifyFails(t) \/ Wait(t) \/ ConnectionLost(t)
                          \/ Unwind(t) \/ CloseSession(t) \/ CloseRefused(t)
                          \/ Forget(t) \/ DeleteTci(t) \/ Unlock(t) \/ Leave(t)
CancelStep(i) == Alive /\ \/ CancelStarted(i) \/ CancelLooks(i)
                          \/ CancelMarks(i) \/ CancelNotifies(i)
Application == Alive /\ \/ \E t \in Threads: \/ TEEC_OpenSession(t)
                                             \/ TEEC_InvokeCommand(t)
                                             \/ TEEC_CloseSession(t)
                        \/ \E i \in Calls: TEEC_RequestCancellation(i)

Next == \/ Application
        \/ \E t \in Threads: ThreadStep(t)
        \/ \E i \in Calls: CancelStep(i)
        \/ Alive /\ (TaTakes \/ TaDoes \/ TaFinishes \/ TaPanics)

Spec == Init /\ [][Next]_vars

\* The threads run, and the TA answers.
FairSpec == /\ Spec
            /\ \A t \in Threads: WF_vars(ThreadStep(t))
            /\ \A i \in Calls: WF_vars(CancelStep(i))
            /\ WF_vars(Alive /\ TaTakes) /\ WF_vars(Alive /\ TaDoes)

(***************************************************************************)
(* Properties.                                                              *)
(***************************************************************************)
Places == {"idle", "open", "enter", "locked", "setup", "notify", "wait", "unwind", "break",
           "close", "forget", "forget_broken", "delete", "unlock", "leave", "crashed"}
CallOrNone == Calls \cup {None}
Answers == {"none", "bad_state", "answer", "denied", "error", "cancelled"}
Outcomes == (Answers \cup {"failed", "inactive", "dead", "comm", "crashed"}) \X CallOrNone
Pages == [of: CallOrNone, ready: BOOLEAN, cancelled: CallOrNone,
          origin: {"none", "TA", "TEE"}, status: Answers \X CallOrNone, len: BOOLEAN]

TypeOK ==
  /\ calls \in 0..MaxCalls
  /\ kind \in [Calls -> {"none", "open", "invoke", "close"}]
  /\ operation \in [Calls -> {"no", "plain", "buffer"}]
  /\ pc \in [Threads -> Places] /\ call \in [Threads -> CallOrNone]
  /\ started \in [Calls -> 0..2]
  /\ outcome \in [Calls -> Outcomes]
  /\ cancel \in [Calls -> {"no", "spins", "looks", "marks", "notifies", "done", "crashed"}]
  /\ app \in {"none", "opening", "open", "closing", "over"}
  /\ active \in BOOLEAN /\ tci \in BOOLEAN /\ listed \in BOOLEAN /\ gp_session \in BOOLEAN
  /\ mapped \in BOOLEAN /\ toTa \in BOOLEAN /\ kept \in BOOLEAN /\ refused \in BOOLEAN
  /\ mutex_tci \in Threads \cup {NULL}
  /\ page \in Pages
  /\ toClient \subseteq {"answer", "panic", "finished"}
  /\ ta \in {"none", "waits", "works", "ends", "gone"} /\ doing \in CallOrNone
  /\ strays \subseteq Calls /\ failed \in 0..MaxFailures

\* A call returns what the TA has answered to this call: neither what an earlier call
\* left in the TCI nor the value that stands for no answer
\* (TEEC_InvokeCommand() reads the status while it has mutex_tci).
AnswerIsMine == \A i \in Calls: /\ outcome[i][1] # "bad_state"
                                /\ outcome[i][1] \in {"answer", "denied", "error"}
                                      => outcome[i][2] = i

\* The TCI is used only where it is mapped, but for two lapses: an invoke that has seen
\* the session active while another call was about to break it, and a cancellation after
\* a close that was refused.
Broken(i) == outcome[i][1] \in {"dead", "comm"}
TciThere == /\ active /\ mutex_tci = NULL => tci
            /\ (\E i \in Calls: outcome[i][1] = "crashed") => \E i \in Calls: Broken(i)
            /\ gp_session => tci \/ refused
            /\ (\E i \in Calls: cancel[i] = "crashed") => refused

\* Memory is mapped to the TA for the operation that named it, and no longer, unless an
\* answer that is not the TA's made _TEEC_UnwindOperation() return early, the daemon
\* refused to unmap it, or the session could not be closed.
Using(t) == mutex_tci = t /\ Maps(t)
MemoryReturned == mapped => kept \/ refused \/ \E t \in Threads: pc[t] # "idle" /\ Using(t)

Inv == TypeOK /\ AnswerIsMine /\ TciThere /\ MemoryReturned

\* An operation is cancelled by a request for its own cancellation, unless the request
\* has come so late that the TCI was another operation's when it was marked.
CancelledByOwn ==
  \A i \in Calls: outcome[i][1] = "cancelled" => \/ outcome[i][2] = i
                                                 \/ outcome[i][2] \in strays

\* When the application makes no more calls, every call returns, and every cancellation
\* too, unless its operation ended before it was started: TEEC_RequestCancellation()
\* then spins for ever.
NeverStarted(i) == started[i] = 0 /\ outcome[i][1] \in {"failed", "inactive"}
Settled == Idle /\ \A i \in Calls: cancel[i] \in {"no", "done"} \/ NeverStarted(i)
CallsEnd == ~Settled ~> Settled \/ ~Alive

=============================================================================
