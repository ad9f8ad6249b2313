--------------------------- MODULE GpClientProofs ---------------------------
(***************************************************************************)
(* The GP client API for every number of threads, calls, cancellations and  *)
(* failures: what a call returns is the answer to it, the TCI and an        *)
(* operation's memory are there when they are used, and cancellations hit   *)
(* what they are for, but for the lapses the properties name.               *)
(*                                                                         *)
(* The invariant says what the TCI holds while a thread has mutex_tci, and  *)
(* that it is at rest when nobody has: nothing is asked and no answer is    *)
(* on its way, so that the next wait cannot be ended by an earlier call.    *)
(***************************************************************************)
EXTENDS GpClient, TLAPS

Held == {"open", "locked", "setup", "notify", "wait", "unwind", "break", "close", "forget",
         "forget_broken", "delete", "unlock"}
Busy(t) == pc[t] # "idle"

(***************************************************************************)
(* The threads: their calls, the mutex, and who is alone.                   *)
(***************************************************************************)
\* Each call is one thread's.
Numbered == /\ \A t \in Threads: Busy(t) => call[t] \in 1..calls
            /\ \A t, u \in Threads: Busy(t) /\ Busy(u) /\ t # u => call[t] # call[u]

Holds == \A t \in Threads: pc[t] \in Held => mutex_tci = t

\* A call that opens or closes the session runs alone.
Alone == \A t \in Threads: Busy(t) /\ kind[call[t]] # "invoke" =>
            /\ app \in {"opening", "closing"}
            /\ \A u \in Threads: u # t => ~Busy(u)

Placed == \A t \in Threads:
            /\ Busy(t) => app # "none" /\ kind[call[t]] \in {"open", "invoke", "close"}
            /\ Busy(t) /\ kind[call[t]] = "close" => operation[call[t]] = "no"
            /\ pc[t] = "leave" => kind[call[t]] # "invoke"
            /\ pc[t] = "enter" => app \in {"open", "closing"}
            /\ pc[t] = "open" => kind[call[t]] = "open"

Control == Numbered /\ Holds /\ Alone /\ Placed

(***************************************************************************)
(* The outcomes of the calls, and the session.                              *)
(***************************************************************************)
\* A call has no outcome before it has one, and keeps the one that broke the session.
Ended == /\ \A i \in Calls: i > calls => outcome[i][1] = "none"
         /\ \A t \in Threads:
              /\ pc[t] \in {"open", "enter", "locked", "setup", "notify", "wait"}
                    => outcome[call[t]][1] = "none"
              /\ pc[t] = "unwind" => outcome[call[t]][1] \in {"none", "dead", "comm"}
              /\ pc[t] \in {"break", "forget_broken", "delete"} => Broken(call[t])

SomeBroken == \E i \in Calls: Broken(i)

\* The session is active only with a TCI, and is not when a call is about to leave it.
Access ==
  /\ active => tci
  /\ gp_session => active \/ refused
  /\ app = "none" => ~active
  /\ \A t \in Threads:
       /\ pc[t] = "open" => tci /\ ~active
       /\ pc[t] \in {"delete", "leave"} => ~active
       /\ pc[t] \in {"close", "forget"} => ~Stays(t)
       /\ pc[t] = "unlock" /\ ~Stays(t) => ~active

\* A call finds no TCI only when another one has broken the session.
Crashes ==
  /\ \A t \in Threads: pc[t] \in {"enter", "locked"} /\ ~tci => SomeBroken
  /\ \A i \in Calls: outcome[i][1] = "crashed" => SomeBroken
  /\ \A i \in Calls: cancel[i] = "crashed" => refused

(***************************************************************************)
(* The exchange through the TCI.                                            *)
(***************************************************************************)
\* Nothing is asked, nothing is worked on, and no answer is on its way.
Rested == /\ ~page.ready
          /\ ta \notin {"works", "ends"}
          /\ toClient \subseteq {"panic"}

Unanswered(t) == /\ "answer" \notin toClient /\ "finished" \notin toClient
                 /\ ta # "ends"
                 /\ ta = "works" => doing = call[t] /\ ~page.ready

\* The answer with which a TA ends its session.
Ending(t) == \/ kind[call[t]] = "close"
             \/ kind[call[t]] = "open" /\ page.status[1] # "answer"
Mine(t) == /\ page.status[1] \in {"answer", "denied", "error", "cancelled"}
           /\ page.status[1] # "cancelled" => page.status[2] = call[t]
           /\ page.status[1] = "cancelled" => page.status[2] \in {call[t]} \cup strays
Answered(t) == /\ Mine(t)
               /\ ~page.ready
               /\ ta # "works"
               /\ ta = "ends" \/ "finished" \in toClient => Ending(t)

Exchanges(t) ==
  /\ pc[t] = "open" \/ (pc[t] = "locked" /\ tci) \/ pc[t] = "setup"
        \/ (pc[t] = "unlock" /\ Stays(t) /\ tci) => Rested
  /\ pc[t] \in {"setup", "notify", "wait"} => page.of = call[t]
  /\ pc[t] \in {"notify", "wait"} => Unanswered(t) \/ Answered(t)
  /\ pc[t] = "unwind" /\ outcome[call[t]][1] = "none"
        => Answered(t) /\ "answer" \notin toClient
Exchanging == \A t \in Threads: Exchanges(t)

\* Nobody has the mutex of a session that can be used.
Free == /\ mutex_tci = NULL /\ tci /\ app \in {"open", "closing"}
        /\ \A t \in Threads: pc[t] # "leave"
AtRest == app = "none" \/ Free => Rested

Marks == page.cancelled # None => page.cancelled = page.of \/ page.cancelled \in strays

Exchange == Exchanging /\ AtRest /\ Marks

(***************************************************************************)
(* The memory of an operation.                                              *)
(***************************************************************************)
Operating(t) == pc[t] \in {"notify", "wait", "unwind"} /\ Maps(t)
Memory == /\ \A t \in Threads: Operating(t) => page.len
          /\ mapped => kept \/ refused \/ \E t \in Threads: Operating(t)

IInv == /\ TypeOK /\ Control /\ Ended /\ Access /\ Crashes /\ Exchange /\ Memory
        /\ AnswerIsMine /\ CancelledByOwn

(***************************************************************************)
(* Types, in the parts that change together.                                *)
(***************************************************************************)
LEMMA CallNumbers == /\ Calls \subseteq CallOrNone /\ None \in CallOrNone
                     /\ MaxCalls \in Nat /\ MaxFailures \in Nat
  BY BoundsAssumption DEF CallOrNone

CallTypes == /\ calls \in 0..MaxCalls
             /\ kind \in [Calls -> {"none", "open", "invoke", "close"}]
             /\ operation \in [Calls -> {"no", "plain", "buffer"}]
             /\ call \in [Threads -> CallOrNone]
PlaceTypes == /\ pc \in [Threads -> Places]
              /\ mutex_tci \in Threads \cup {NULL}
SessionTypes ==
  /\ app \in {"none", "opening", "open", "closing", "over"}
  /\ active \in BOOLEAN /\ tci \in BOOLEAN /\ listed \in BOOLEAN /\ gp_session \in BOOLEAN
  /\ mapped \in BOOLEAN /\ toTa \in BOOLEAN /\ kept \in BOOLEAN /\ refused \in BOOLEAN
FailureTypes == failed \in 0..MaxFailures
OperationTypes ==
  /\ started \in [Calls -> 0..2]
  /\ cancel \in [Calls -> {"no", "spins", "looks", "marks", "notifies", "done", "crashed"}]
  /\ strays \subseteq Calls
OutcomeTypes == outcome \in [Calls -> Outcomes]
TaTypes == /\ toClient \subseteq {"answer", "panic", "finished"}
           /\ ta \in {"none", "waits", "works", "ends", "gone"}
           /\ doing \in CallOrNone
PageTypes == page \in Pages

\* The type invariant is that of its parts.
LEMMA TypeParts ==
  TypeOK <=> /\ CallTypes /\ PlaceTypes /\ SessionTypes /\ FailureTypes
             /\ OperationTypes /\ OutcomeTypes /\ TaTypes /\ PageTypes
  BY DEF TypeOK, CallTypes, PlaceTypes, SessionTypes, FailureTypes, OperationTypes,
         OutcomeTypes, TaTypes, PageTypes

\* The calls of the threads are calls that have been made.
LEMMA MadeCalls ==
  ASSUME CallTypes, Numbered
  PROVE  \A t \in Threads: Busy(t) => call[t] \in Calls
  BY CallNumbers DEF CallTypes, Numbered, Calls

\* There is a number for a call that may begin.
LEMMA NewCall ==
  ASSUME CallTypes, calls < MaxCalls
  PROVE  calls + 1 \in Calls /\ calls + 1 \in 0..MaxCalls /\ calls + 1 \in CallOrNone
  BY CallNumbers DEF CallTypes, Calls

\* Only a call that begins changes who is in which call.
LEMMA CallFrame ==
  ASSUME Next
  PROVE  \/ UNCHANGED <<callVars, call>>
         \/ \E t \in Threads: TEEC_OpenSession(t) \/ TEEC_InvokeCommand(t) \/
            TEEC_CloseSession(t)
  BY DEF Next, Application, ThreadStep, CancelStep, OpenSession, OpenSessionFails,
    Lock, NoTci, Begin, SetupFails, SetupOperation, Notify, NotifyFails, Wait,
    ConnectionLost, Unwind, CloseSession, CloseRefused, Forget, DeleteTci, Unlock,
    Leave, TEEC_RequestCancellation, CancelStarted, CancelLooks, CancelMarks,
    CancelNotifies, TaTakes, TaDoes, TaFinishes, TaPanics, Enter, NotifyTa, Asks,
    TaAnswers, WaitNotification, sessionVars, taVars, history, clientVars

\* Each part of the types is kept, with what it needs of the other parts.
LEMMA CallKept ==
  ASSUME CallTypes, Next
  PROVE  CallTypes'
<1> USE NewCall, CallNumbers, BoundsAssumption DEF CallTypes, Enter
<1>1. ASSUME NEW t \in Threads, TEEC_OpenSession(t)
      PROVE  CallTypes'
  BY <1>1 DEF TEEC_OpenSession
<1>2. ASSUME NEW t \in Threads, TEEC_InvokeCommand(t)
      PROVE  CallTypes'
  BY <1>2 DEF TEEC_InvokeCommand
<1>3. ASSUME NEW t \in Threads, TEEC_CloseSession(t)
      PROVE  CallTypes'
  BY <1>3 DEF TEEC_CloseSession
<1>4. CASE UNCHANGED <<callVars, call>>
  BY <1>4 DEF callVars
<1>5. QED
  BY <1>1, <1>2, <1>3, <1>4, CallFrame

LEMMA PlacesKept ==
  ASSUME PlaceTypes, Next
  PROVE  PlaceTypes'
<1> USE DEF PlaceTypes, Places, Enter, Go, callVars, history, clientVars, TaAnswers
<1>1. ASSUME NEW t \in Threads, TEEC_OpenSession(t)
      PROVE  PlaceTypes'
  BY <1>1 DEF TEEC_OpenSession
<1>2. ASSUME NEW t \in Threads, TEEC_InvokeCommand(t)
      PROVE  PlaceTypes'
  BY <1>2 DEF TEEC_InvokeCommand
<1>3. ASSUME NEW t \in Threads, TEEC_CloseSession(t)
      PROVE  PlaceTypes'
  BY <1>3 DEF TEEC_CloseSession
<1>4. ASSUME NEW t \in Threads, OpenSession(t)
      PROVE  PlaceTypes'
  BY <1>4 DEF OpenSession
<1>5. ASSUME NEW t \in Threads, OpenSessionFails(t)
      PROVE  PlaceTypes'
  BY <1>5 DEF OpenSessionFails
<1>6. ASSUME NEW t \in Threads, Lock(t)
      PROVE  PlaceTypes'
  BY <1>6 DEF Lock
<1>7. ASSUME NEW t \in Threads, NoTci(t)
      PROVE  PlaceTypes'
  BY <1>7 DEF NoTci
<1>8. ASSUME NEW t \in Threads, Begin(t)
      PROVE  PlaceTypes'
  BY <1>8 DEF Begin
<1>9. ASSUME NEW t \in Threads, SetupFails(t)
      PROVE  PlaceTypes'
  BY <1>9 DEF SetupFails
<1>10. ASSUME NEW t \in Threads, SetupOperation(t)
      PROVE  PlaceTypes'
  BY <1>10 DEF SetupOperation
<1>11. ASSUME NEW t \in Threads, Notify(t)
      PROVE  PlaceTypes'
  BY <1>11 DEF Notify
<1>12. ASSUME NEW t \in Threads, NotifyFails(t)
      PROVE  PlaceTypes'
  BY <1>12 DEF NotifyFails
<1>13. ASSUME NEW t \in Threads, Wait(t)
      PROVE  PlaceTypes'
  BY <1>13 DEF Wait
<1>14. ASSUME NEW t \in Threads, ConnectionLost(t)
      PROVE  PlaceTypes'
  BY <1>14 DEF ConnectionLost
<1>15. ASSUME NEW t \in Threads, Unwind(t)
      PROVE  PlaceTypes'
  BY <1>15 DEF Unwind, After
<1>16. ASSUME NEW t \in Threads, CloseSession(t)
      PROVE  PlaceTypes'
  BY <1>16 DEF CloseSession
<1>17. ASSUME NEW t \in Threads, CloseRefused(t)
      PROVE  PlaceTypes'
  BY <1>17 DEF CloseRefused
<1>18. ASSUME NEW t \in Threads, Forget(t)
      PROVE  PlaceTypes'
  BY <1>18 DEF Forget
<1>19. ASSUME NEW t \in Threads, DeleteTci(t)
      PROVE  PlaceTypes'
  BY <1>19 DEF DeleteTci
<1>20. ASSUME NEW t \in Threads, Unlock(t)
      PROVE  PlaceTypes'
  BY <1>20 DEF Unlock
<1>21. ASSUME NEW t \in Threads, Leave(t)
      PROVE  PlaceTypes'
  BY <1>21 DEF Leave
<1>22. ASSUME NEW i \in Calls,
             TEEC_RequestCancellation(i) \/ CancelStarted(i) \/ CancelLooks(i) \/
             CancelMarks(i) \/ CancelNotifies(i)
      PROVE  PlaceTypes'
  BY <1>22
  DEF TEEC_RequestCancellation, CancelStarted, CancelLooks, CancelMarks,
      CancelNotifies
<1>23. CASE TaTakes \/ TaDoes \/ TaFinishes \/ TaPanics
  BY <1>23
  DEF TaTakes, TaDoes, TaFinishes, TaPanics
<1>24. QED
  BY <1>1, <1>2, <1>3, <1>4, <1>5, <1>6, <1>7, <1>8, <1>9, <1>10, <1>11, <1>12, <1>13,
     <1>14, <1>15, <1>16, <1>17, <1>18, <1>19, <1>20, <1>21, <1>22, <1>23
  DEF Next, Application, ThreadStep, CancelStep

LEMMA SessionKept ==
  ASSUME SessionTypes, Next
  PROVE  SessionTypes'
<1> USE DEF SessionTypes, Enter, Map, UnwindOperation, Unmap, NotifyTa, TaAnswers,
            callVars,
           sessionVars, taVars, history, clientVars
<1>1. ASSUME NEW t \in Threads, TEEC_OpenSession(t)
      PROVE  SessionTypes'
  BY <1>1 DEF TEEC_OpenSession
<1>2. ASSUME NEW t \in Threads, TEEC_CloseSession(t)
      PROVE  SessionTypes'
  BY <1>2 DEF TEEC_CloseSession
<1>3. ASSUME NEW t \in Threads, OpenSession(t)
      PROVE  SessionTypes'
  BY <1>3 DEF OpenSession
<1>4. ASSUME NEW t \in Threads, SetupFails(t)
      PROVE  SessionTypes'
  BY <1>4 DEF SetupFails
<1>5. ASSUME NEW t \in Threads, SetupOperation(t)
      PROVE  SessionTypes'
  BY <1>5 DEF SetupOperation
<1>6. ASSUME NEW t \in Threads, Notify(t)
      PROVE  SessionTypes'
  BY <1>6 DEF Notify
<1>7. ASSUME NEW t \in Threads, Unwind(t)
      PROVE  SessionTypes'
  BY <1>7 DEF Unwind
<1>8. ASSUME NEW t \in Threads, CloseSession(t)
      PROVE  SessionTypes'
  BY <1>8 DEF CloseSession
<1>9. ASSUME NEW t \in Threads, CloseRefused(t)
      PROVE  SessionTypes'
  BY <1>9 DEF CloseRefused
<1>10. ASSUME NEW t \in Threads, Forget(t)
      PROVE  SessionTypes'
  BY <1>10 DEF Forget
<1>11. ASSUME NEW t \in Threads, DeleteTci(t)
      PROVE  SessionTypes'
  BY <1>11 DEF DeleteTci
<1>12. ASSUME NEW t \in Threads, Unlock(t)
      PROVE  SessionTypes'
  BY <1>12 DEF Unlock
<1>13. ASSUME NEW t \in Threads, Leave(t)
      PROVE  SessionTypes'
  BY <1>13 DEF Leave
<1>14. ASSUME NEW i \in Calls, CancelNotifies(i)
      PROVE  SessionTypes'
  BY <1>14 DEF CancelNotifies
<1>15. CASE TaTakes
  BY <1>15 DEF TaTakes
<1>16. ASSUME NEW t \in Threads,
             TEEC_InvokeCommand(t) \/ OpenSessionFails(t) \/ Lock(t) \/ NoTci(t) \/
             Begin(t) \/ NotifyFails(t) \/ Wait(t) \/ ConnectionLost(t)
      PROVE  SessionTypes'
  BY <1>16
  DEF TEEC_InvokeCommand, OpenSessionFails, Lock, NoTci, Begin, NotifyFails, Wait,
      ConnectionLost
<1>17. ASSUME NEW i \in Calls,
             TEEC_RequestCancellation(i) \/ CancelStarted(i) \/ CancelLooks(i) \/
             CancelMarks(i)
      PROVE  SessionTypes'
  BY <1>17
  DEF TEEC_RequestCancellation, CancelStarted, CancelLooks, CancelMarks
<1>18. CASE TaDoes \/ TaFinishes \/ TaPanics
  BY <1>18
  DEF TaDoes, TaFinishes, TaPanics
<1>19. QED
  BY <1>1, <1>2, <1>3, <1>4, <1>5, <1>6, <1>7, <1>8, <1>9, <1>10, <1>11, <1>12, <1>13,
     <1>14, <1>15, <1>16, <1>17, <1>18
  DEF Next, Application, ThreadStep, CancelStep

LEMMA FailureKept ==
  ASSUME FailureTypes, Next
  PROVE  FailureTypes'
<1>1. UNCHANGED failed \/ (failed < MaxFailures /\ failed' = failed + 1)
  BY DEF Next, Application, ThreadStep, CancelStep, TEEC_OpenSession,
    TEEC_InvokeCommand, TEEC_CloseSession, OpenSession, OpenSessionFails, Lock, NoTci,
    Begin, SetupFails, SetupOperation, Notify, NotifyFails, Wait, ConnectionLost,
    Unwind, CloseSession, CloseRefused, Forget, DeleteTci, Unlock, Leave,
    TEEC_RequestCancellation, CancelStarted, CancelLooks, CancelMarks, CancelNotifies,
    TaTakes, TaDoes, TaFinishes, TaPanics, Fails, UnwindOperation, Unmap, TaAnswers,
    history, clientVars
<1>2. QED
  BY <1>1, CallNumbers DEF FailureTypes

\* What a call returns.
LEMMA OutcomesAre ==
  /\ \A i \in CallOrNone:
       \A what \in {"failed", "inactive", "dead", "comm", "crashed", "cancelled"}:
            <<what, i>> \in Outcomes
  /\ Answers \X CallOrNone \subseteq Outcomes
  BY DEF Outcomes, Answers

\* The steps that end a call.
LEMMA OutcomeFrame ==
  ASSUME Next
  PROVE  \/ UNCHANGED outcome
         \/ \E t \in Threads: TEEC_InvokeCommand(t) \/ OpenSessionFails(t) \/ NoTci(t)
            \/ SetupFails(t) \/ NotifyFails(t) \/ Wait(t) \/
            ConnectionLost(t) \/ Unwind(t)
  BY DEF Next, Application, ThreadStep, CancelStep, TEEC_OpenSession,
    TEEC_CloseSession, OpenSession, Lock, Begin, SetupOperation, Notify, CloseSession,
    CloseRefused, Forget, DeleteTci, Unlock, Leave, TEEC_RequestCancellation,
    CancelStarted, CancelLooks, CancelMarks, CancelNotifies, TaTakes, TaDoes,
    TaFinishes, TaPanics, Enter, NotifyTa, Asks, TaAnswers, WaitNotification,
    callVars, sessionVars, taVars, history, clientVars

LEMMA OutcomesKept ==
  ASSUME OutcomeTypes, CallTypes, Numbered, PageTypes, Next
  PROVE  OutcomeTypes'
<1>0. page.status \in Outcomes /\ page.cancelled \in CallOrNone
  BY OutcomesAre DEF PageTypes, Pages
<1> USE <1>0, OutcomesAre, CallNumbers DEF OutcomeTypes, Ends
<1>1. ASSUME NEW t \in Threads, TEEC_InvokeCommand(t)
      PROVE  OutcomeTypes'
  <2>1. calls' \in Calls /\ <<"inactive", calls'>> \in Outcomes
    BY <1>1, NewCall DEF TEEC_InvokeCommand, Enter
  <2>2. QED
    BY <1>1, <2>1 DEF TEEC_InvokeCommand
<1>2. ASSUME NEW t \in Threads, OpenSessionFails(t)
      PROVE  OutcomeTypes'
  BY <1>2, MadeCalls DEF OpenSessionFails, Busy
<1>3. ASSUME NEW t \in Threads, NoTci(t)
      PROVE  OutcomeTypes'
  BY <1>3, MadeCalls DEF NoTci, Busy
<1>4. ASSUME NEW t \in Threads, SetupFails(t)
      PROVE  OutcomeTypes'
  <2>1. /\ <<"failed", call[t]>> \in Outcomes /\ <<"cancelled", page.cancelled>> \in Outcomes
        /\ call[t] \in Calls
    BY <1>4, MadeCalls DEF SetupFails, Busy
  <2>2. Ends(t, <<"failed", call[t]>>) \/ Ends(t, <<"cancelled", page.cancelled>>)
    BY <1>4 DEF SetupFails
  <2>3. QED
    BY <2>1, <2>2
<1>5. ASSUME NEW t \in Threads, NotifyFails(t)
      PROVE  OutcomeTypes'
  BY <1>5, MadeCalls DEF NotifyFails, Busy
<1>6. ASSUME NEW t \in Threads, Wait(t)
      PROVE  OutcomeTypes'
  <2>1. <<"dead", call[t]>> \in Outcomes /\ call[t] \in Calls
    BY <1>6, MadeCalls DEF Wait, Busy
  <2>2. Ends(t, <<"dead", call[t]>>) \/ UNCHANGED outcome
    BY <1>6 DEF Wait
  <2>3. QED
    BY <2>1, <2>2
<1>7. ASSUME NEW t \in Threads, ConnectionLost(t)
      PROVE  OutcomeTypes'
  BY <1>7, MadeCalls DEF ConnectionLost, Busy
<1>8. ASSUME NEW t \in Threads, Unwind(t)
      PROVE  OutcomeTypes'
  BY <1>8, MadeCalls DEF Unwind, Busy
<1>9. QED
  BY <1>1, <1>2, <1>3, <1>4, <1>5, <1>6, <1>7, <1>8, OutcomeFrame

LEMMA OperationKept ==
  ASSUME OperationTypes, CallTypes, Numbered, Next
  PROVE  OperationTypes'
<1> USE CallNumbers DEF OperationTypes, Asks, callVars, history, clientVars, TaAnswers
<1>1. ASSUME NEW t \in Threads, Begin(t)
      PROVE  OperationTypes'
  BY <1>1, MadeCalls DEF Begin, Busy
<1>2. ASSUME NEW t \in Threads, SetupFails(t)
      PROVE  OperationTypes'
  BY <1>2, MadeCalls DEF SetupFails, Busy
<1>3. ASSUME NEW t \in Threads, Unwind(t)
      PROVE  OperationTypes'
  BY <1>3, MadeCalls DEF Unwind, Busy
<1>4. ASSUME NEW i \in Calls, TEEC_RequestCancellation(i)
      PROVE  OperationTypes'
  BY <1>4 DEF TEEC_RequestCancellation
<1>5. ASSUME NEW i \in Calls, CancelStarted(i)
      PROVE  OperationTypes'
  BY <1>5 DEF CancelStarted
<1>6. ASSUME NEW i \in Calls, CancelLooks(i)
      PROVE  OperationTypes'
  BY <1>6 DEF CancelLooks
<1>7. ASSUME NEW i \in Calls, CancelMarks(i)
      PROVE  OperationTypes'
  BY <1>7 DEF CancelMarks
<1>8. ASSUME NEW i \in Calls, CancelNotifies(i)
      PROVE  OperationTypes'
  BY <1>8 DEF CancelNotifies
<1>9. ASSUME NEW t \in Threads,
             TEEC_OpenSession(t) \/ TEEC_InvokeCommand(t) \/ TEEC_CloseSession(t) \/
             OpenSession(t) \/ OpenSessionFails(t) \/ Lock(t) \/ NoTci(t) \/
             SetupOperation(t) \/ Notify(t) \/ NotifyFails(t) \/ Wait(t) \/
             ConnectionLost(t) \/ CloseSession(t) \/ CloseRefused(t) \/ Forget(t) \/
             DeleteTci(t) \/ Unlock(t) \/ Leave(t)
      PROVE  OperationTypes'
  BY <1>9
  DEF TEEC_OpenSession, TEEC_InvokeCommand, TEEC_CloseSession, OpenSession,
      OpenSessionFails, Lock, NoTci, SetupOperation, Notify, NotifyFails, Wait,
      ConnectionLost, CloseSession, CloseRefused, Forget, DeleteTci, Unlock, Leave
<1>10. CASE TaTakes \/ TaDoes \/ TaFinishes \/ TaPanics
  BY <1>10
  DEF TaTakes, TaDoes, TaFinishes, TaPanics
<1>11. QED
  BY <1>1, <1>2, <1>3, <1>4, <1>5, <1>6, <1>7, <1>8, <1>9, <1>10
  DEF Next, Application, ThreadStep, CancelStep

LEMMA TaKept ==
  ASSUME TaTypes, PageTypes, Next
  PROVE  TaTypes'
<1> USE CallNumbers DEF TaTypes, taVars, WaitNotification, TaAnswers
<1>1. ASSUME NEW t \in Threads, OpenSession(t)
      PROVE  TaTypes'
  BY <1>1 DEF OpenSession
<1>2. ASSUME NEW t \in Threads, Wait(t)
      PROVE  TaTypes'
  BY <1>2 DEF Wait
<1>3. ASSUME NEW t \in Threads, CloseSession(t)
      PROVE  TaTypes'
  BY <1>3 DEF CloseSession
<1>4. CASE TaTakes
  BY <1>4 DEF TaTakes, PageTypes, Pages
<1>5. CASE TaDoes
  BY <1>5 DEF TaDoes
<1>6. CASE TaFinishes
  BY <1>6 DEF TaFinishes
<1>7. CASE TaPanics
  BY <1>7 DEF TaPanics
<1>8. ASSUME NEW t \in Threads,
             TEEC_OpenSession(t) \/ TEEC_InvokeCommand(t) \/ TEEC_CloseSession(t) \/
             OpenSessionFails(t) \/ Lock(t) \/ NoTci(t) \/ Begin(t) \/ SetupFails(t)
             \/ SetupOperation(t) \/ Notify(t) \/ NotifyFails(t) \/
             ConnectionLost(t) \/ Unwind(t) \/ CloseRefused(t) \/ Forget(t) \/
             DeleteTci(t) \/ Unlock(t) \/ Leave(t)
      PROVE  TaTypes'
  BY <1>8
  DEF TEEC_OpenSession, TEEC_InvokeCommand, TEEC_CloseSession, OpenSessionFails, Lock,
      NoTci, Begin, SetupFails, SetupOperation, Notify, NotifyFails, ConnectionLost,
      Unwind, CloseRefused, Forget, DeleteTci, Unlock, Leave
<1>9. ASSUME NEW i \in Calls,
             TEEC_RequestCancellation(i) \/ CancelStarted(i) \/ CancelLooks(i) \/
             CancelMarks(i) \/ CancelNotifies(i)
      PROVE  TaTypes'
  BY <1>9
  DEF TEEC_RequestCancellation, CancelStarted, CancelLooks, CancelMarks,
      CancelNotifies
<1>10. QED
  BY <1>1, <1>2, <1>3, <1>4, <1>5, <1>6, <1>7, <1>8, <1>9
  DEF Next, Application, ThreadStep, CancelStep

\* How the TCI changes.
LEMMA PagesAre ==
  ASSUME PageTypes, NEW i \in CallOrNone, NEW j \in CallOrNone, NEW b \in BOOLEAN,
         NEW d \in BOOLEAN, NEW from \in {"none", "TA", "TEE"},
         NEW what \in {"bad_state", "answer", "denied", "error", "cancelled"}
  PROVE  /\ [page EXCEPT !.of = i, !.cancelled = j] \in Pages
         /\ [page EXCEPT !.of = i, !.cancelled = j, !.len = b] \in Pages
         /\ [page EXCEPT !.status = <<what, i>>, !.ready = b, !.len = d] \in Pages
         /\ [page EXCEPT !.cancelled = i] \in Pages
         /\ [page EXCEPT !.ready = b] \in Pages
         /\ [page EXCEPT !.status = <<what, i>>, !.origin = from] \in Pages
  BY DEF PageTypes, Pages, Answers

\* The steps that write to the TCI.
LEMMA PageFrame ==
  ASSUME Next
  PROVE  \/ UNCHANGED page
         \/ \E t \in Threads: TEEC_OpenSession(t) \/ Begin(t) \/ SetupFails(t) \/
            SetupOperation(t)
         \/ \E i \in Calls: CancelMarks(i)
         \/ TaTakes \/ TaDoes
  BY DEF Next, Application, ThreadStep, CancelStep, TEEC_InvokeCommand,
    TEEC_CloseSession, OpenSession, OpenSessionFails, Lock, NoTci, Notify,
    NotifyFails, Wait, ConnectionLost, Unwind, CloseSession, CloseRefused, Forget,
    DeleteTci, Unlock, Leave, TEEC_RequestCancellation, CancelStarted, CancelLooks,
    CancelNotifies, TaFinishes, TaPanics, Enter, NotifyTa, Asks, TaAnswers,
    WaitNotification, callVars, sessionVars, taVars, history, clientVars

LEMMA PagesKept ==
  ASSUME PageTypes, CallTypes, Numbered, TaTypes, Next
  PROVE  PageTypes'
<1> USE CallNumbers DEF PageTypes
<1>1. ASSUME NEW t \in Threads, TEEC_OpenSession(t)
      PROVE  PageTypes'
  BY <1>1 DEF TEEC_OpenSession, Zeroed, Pages, Answers
<1>2. ASSUME NEW t \in Threads, Begin(t)
      PROVE  PageTypes'
  BY <1>2, PagesAre, MadeCalls DEF Begin, Busy
<1>3. ASSUME NEW t \in Threads, SetupFails(t)
      PROVE  PageTypes'
  BY <1>3, PagesAre DEF SetupFails
<1>4. ASSUME NEW t \in Threads, SetupOperation(t)
      PROVE  PageTypes'
  <2>1. (page.len \/ Maps(t)) \in BOOLEAN
    BY DEF Pages
  <2>2. call[t] \in CallOrNone
    BY <1>4, MadeCalls DEF SetupOperation, Busy
  <2>3. QED
    BY <1>4, <2>1, <2>2, PagesAre DEF SetupOperation
<1>5. ASSUME NEW i \in Calls, CancelMarks(i)
      PROVE  PageTypes'
  BY <1>5, PagesAre DEF CancelMarks
<1>6. CASE TaTakes
  BY <1>6, PagesAre DEF TaTakes
<1>7. CASE TaDoes
  <2>1. doing \in CallOrNone /\ page.cancelled \in CallOrNone
    BY DEF TaTypes, Pages
  <2>2. QED
    BY <1>7, <2>1, PagesAre DEF TaDoes, TaAnswers
<1>8. QED
  BY <1>1, <1>2, <1>3, <1>4, <1>5, <1>6, <1>7, PageFrame

\* Together, they keep the type invariant.
LEMMA TypesKept ==
  ASSUME TypeOK, Numbered, Next
  PROVE  TypeOK'
<1>1. /\ CallTypes /\ PlaceTypes /\ SessionTypes /\ FailureTypes
      /\ OperationTypes /\ OutcomeTypes /\ TaTypes /\ PageTypes
  BY TypeParts
<1>2. /\ CallTypes' /\ PlaceTypes' /\ SessionTypes' /\ FailureTypes'
      /\ OperationTypes' /\ OutcomeTypes' /\ TaTypes' /\ PageTypes'
  BY <1>1, CallKept, PlacesKept, SessionKept, FailureKept, OutcomesKept, OperationKept,
     TaKept, PagesKept
<1>3. QED
  BY <1>2 DEF TypeOK, CallTypes, PlaceTypes, SessionTypes, FailureTypes, OperationTypes,
              OutcomeTypes, TaTypes, PageTypes

(***************************************************************************)
(* The threads.                                                             *)
(***************************************************************************)
\* A call that begins has a new number; no other step gives one.
LEMMA NumberedKept ==
  ASSUME TypeOK, Numbered, Next
  PROVE  Numbered'
<1> USE DEF Numbered, Busy, CallTypes, PlaceTypes, Go, Enter, callVars, history,
            clientVars, TaAnswers
<1>1. ASSUME NEW t \in Threads, TEEC_OpenSession(t)
      PROVE  Numbered'
  BY <1>1, TypeParts DEF TEEC_OpenSession
<1>2. ASSUME NEW t \in Threads, TEEC_InvokeCommand(t)
      PROVE  Numbered'
  BY <1>2, TypeParts DEF TEEC_InvokeCommand
<1>3. ASSUME NEW t \in Threads, TEEC_CloseSession(t)
      PROVE  Numbered'
  BY <1>3, TypeParts DEF TEEC_CloseSession
<1>4. ASSUME NEW t \in Threads, OpenSession(t)
      PROVE  Numbered'
  BY <1>4, TypeParts DEF OpenSession
<1>5. ASSUME NEW t \in Threads, OpenSessionFails(t)
      PROVE  Numbered'
  BY <1>5, TypeParts DEF OpenSessionFails
<1>6. ASSUME NEW t \in Threads, Lock(t)
      PROVE  Numbered'
  BY <1>6, TypeParts DEF Lock
<1>7. ASSUME NEW t \in Threads, NoTci(t)
      PROVE  Numbered'
  BY <1>7, TypeParts DEF NoTci
<1>8. ASSUME NEW t \in Threads, Begin(t)
      PROVE  Numbered'
  BY <1>8, TypeParts DEF Begin
<1>9. ASSUME NEW t \in Threads, SetupFails(t)
      PROVE  Numbered'
  BY <1>9, TypeParts DEF SetupFails
<1>10. ASSUME NEW t \in Threads, SetupOperation(t)
      PROVE  Numbered'
  BY <1>10, TypeParts DEF SetupOperation
<1>11. ASSUME NEW t \in Threads, Notify(t)
      PROVE  Numbered'
  BY <1>11, TypeParts DEF Notify
<1>12. ASSUME NEW t \in Threads, NotifyFails(t)
      PROVE  Numbered'
  BY <1>12, TypeParts DEF NotifyFails
<1>13. ASSUME NEW t \in Threads, Wait(t)
      PROVE  Numbered'
  BY <1>13, TypeParts DEF Wait
<1>14. ASSUME NEW t \in Threads, ConnectionLost(t)
      PROVE  Numbered'
  BY <1>14, TypeParts DEF ConnectionLost
<1>15. ASSUME NEW t \in Threads, Unwind(t)
      PROVE  Numbered'
  BY <1>15, TypeParts DEF Unwind
<1>16. ASSUME NEW t \in Threads, CloseSession(t)
      PROVE  Numbered'
  BY <1>16, TypeParts DEF CloseSession
<1>17. ASSUME NEW t \in Threads, CloseRefused(t)
      PROVE  Numbered'
  BY <1>17, TypeParts DEF CloseRefused
<1>18. ASSUME NEW t \in Threads, Forget(t)
      PROVE  Numbered'
  BY <1>18, TypeParts DEF Forget
<1>19. ASSUME NEW t \in Threads, DeleteTci(t)
      PROVE  Numbered'
  BY <1>19, TypeParts DEF DeleteTci
<1>20. ASSUME NEW t \in Threads, Unlock(t)
      PROVE  Numbered'
  BY <1>20, TypeParts DEF Unlock
<1>21. ASSUME NEW t \in Threads, Leave(t)
      PROVE  Numbered'
  BY <1>21, TypeParts DEF Leave
<1>22. ASSUME NEW i \in Calls,
             TEEC_RequestCancellation(i) \/ CancelStarted(i) \/ CancelLooks(i) \/
             CancelMarks(i) \/ CancelNotifies(i)
      PROVE  Numbered'
  BY <1>22
  DEF TEEC_RequestCancellation, CancelStarted, CancelLooks, CancelMarks,
      CancelNotifies
<1>23. CASE TaTakes \/ TaDoes \/ TaFinishes \/ TaPanics
  BY <1>23
  DEF TaTakes, TaDoes, TaFinishes, TaPanics
<1>24. QED
  BY <1>1, <1>2, <1>3, <1>4, <1>5, <1>6, <1>7, <1>8, <1>9, <1>10, <1>11, <1>12, <1>13,
     <1>14, <1>15, <1>16, <1>17, <1>18, <1>19, <1>20, <1>21, <1>22, <1>23
  DEF Next, Application, ThreadStep, CancelStep

\* The mutex is taken before, and given up after, what needs it.
LEMMA HoldsKept ==
  ASSUME TypeOK, Holds, Alone, Placed, Next
  PROVE  Holds'
<1> USE DEF Holds, Held, Alone, Placed, Busy, CallTypes, PlaceTypes, Go, Enter,
            callVars, history, clientVars, TaAnswers, Idle
<1>1. ASSUME NEW t \in Threads, TEEC_OpenSession(t)
      PROVE  Holds'
  BY <1>1, TypeParts DEF TEEC_OpenSession
<1>2. ASSUME NEW t \in Threads, TEEC_InvokeCommand(t)
      PROVE  Holds'
  BY <1>2, TypeParts DEF TEEC_InvokeCommand
<1>3. ASSUME NEW t \in Threads, TEEC_CloseSession(t)
      PROVE  Holds'
  BY <1>3, TypeParts DEF TEEC_CloseSession
<1>4. ASSUME NEW t \in Threads, OpenSession(t)
      PROVE  Holds'
  BY <1>4, TypeParts DEF OpenSession
<1>5. ASSUME NEW t \in Threads, OpenSessionFails(t)
      PROVE  Holds'
  BY <1>5, TypeParts DEF OpenSessionFails
<1>6. ASSUME NEW t \in Threads, Lock(t)
      PROVE  Holds'
  BY <1>6, TypeParts, BoundsAssumption DEF Lock
<1>7. ASSUME NEW t \in Threads, NoTci(t)
      PROVE  Holds'
  BY <1>7, TypeParts DEF NoTci
<1>8. ASSUME NEW t \in Threads, Begin(t)
      PROVE  Holds'
  BY <1>8, TypeParts DEF Begin
<1>9. ASSUME NEW t \in Threads, SetupFails(t)
      PROVE  Holds'
  BY <1>9, TypeParts DEF SetupFails
<1>10. ASSUME NEW t \in Threads, SetupOperation(t)
      PROVE  Holds'
  BY <1>10, TypeParts DEF SetupOperation
<1>11. ASSUME NEW t \in Threads, Notify(t)
      PROVE  Holds'
  BY <1>11, TypeParts DEF Notify
<1>12. ASSUME NEW t \in Threads, NotifyFails(t)
      PROVE  Holds'
  BY <1>12, TypeParts DEF NotifyFails
<1>13. ASSUME NEW t \in Threads, Wait(t)
      PROVE  Holds'
  BY <1>13, TypeParts DEF Wait
<1>14. ASSUME NEW t \in Threads, ConnectionLost(t)
      PROVE  Holds'
  BY <1>14, TypeParts DEF ConnectionLost
<1>15. ASSUME NEW t \in Threads, Unwind(t)
      PROVE  Holds'
  BY <1>15, TypeParts DEF Unwind, After
<1>16. ASSUME NEW t \in Threads, CloseSession(t)
      PROVE  Holds'
  BY <1>16, TypeParts DEF CloseSession
<1>17. ASSUME NEW t \in Threads, CloseRefused(t)
      PROVE  Holds'
  BY <1>17, TypeParts DEF CloseRefused
<1>18. ASSUME NEW t \in Threads, Forget(t)
      PROVE  Holds'
  BY <1>18, TypeParts DEF Forget
<1>19. ASSUME NEW t \in Threads, DeleteTci(t)
      PROVE  Holds'
  BY <1>19, TypeParts DEF DeleteTci
<1>20. ASSUME NEW t \in Threads, Unlock(t)
      PROVE  Holds'
  BY <1>20, TypeParts DEF Unlock
<1>21. ASSUME NEW t \in Threads, Leave(t)
      PROVE  Holds'
  BY <1>21, TypeParts DEF Leave
<1>22. ASSUME NEW i \in Calls,
             TEEC_RequestCancellation(i) \/ CancelStarted(i) \/ CancelLooks(i) \/
             CancelMarks(i) \/ CancelNotifies(i)
      PROVE  Holds'
  BY <1>22
  DEF TEEC_RequestCancellation, CancelStarted, CancelLooks, CancelMarks,
      CancelNotifies
<1>23. CASE TaTakes \/ TaDoes \/ TaFinishes \/ TaPanics
  BY <1>23
  DEF TaTakes, TaDoes, TaFinishes, TaPanics
<1>24. QED
  BY <1>1, <1>2, <1>3, <1>4, <1>5, <1>6, <1>7, <1>8, <1>9, <1>10, <1>11, <1>12, <1>13,
     <1>14, <1>15, <1>16, <1>17, <1>18, <1>19, <1>20, <1>21, <1>22, <1>23
  DEF Next, Application, ThreadStep, CancelStep

\* TEEC_OpenSession() and TEEC_CloseSession() begin when nothing runs, and no call
\* begins before they end.
LEMMA AloneKept ==
  ASSUME TypeOK, Numbered, Alone, Placed, Next
  PROVE  Alone'
<1> USE DEF Numbered, Alone, Placed, Busy, CallTypes, PlaceTypes, Go, Enter, callVars,
            history, clientVars, TaAnswers, Idle
<1>1. ASSUME NEW t \in Threads, TEEC_OpenSession(t)
      PROVE  Alone'
  BY <1>1, TypeParts, NewCall, MadeCalls DEF TEEC_OpenSession
<1>2. ASSUME NEW t \in Threads, TEEC_InvokeCommand(t)
      PROVE  Alone'
  BY <1>2, TypeParts, NewCall, MadeCalls DEF TEEC_InvokeCommand
<1>3. ASSUME NEW t \in Threads, TEEC_CloseSession(t)
      PROVE  Alone'
  BY <1>3, TypeParts, NewCall, MadeCalls DEF TEEC_CloseSession
<1>4. ASSUME NEW t \in Threads, OpenSession(t)
      PROVE  Alone'
  BY <1>4, TypeParts DEF OpenSession
<1>5. ASSUME NEW t \in Threads, OpenSessionFails(t)
      PROVE  Alone'
  BY <1>5, TypeParts DEF OpenSessionFails
<1>6. ASSUME NEW t \in Threads, Lock(t)
      PROVE  Alone'
  BY <1>6, TypeParts DEF Lock
<1>7. ASSUME NEW t \in Threads, NoTci(t)
      PROVE  Alone'
  BY <1>7, TypeParts DEF NoTci
<1>8. ASSUME NEW t \in Threads, Begin(t)
      PROVE  Alone'
  BY <1>8, TypeParts DEF Begin
<1>9. ASSUME NEW t \in Threads, SetupFails(t)
      PROVE  Alone'
  BY <1>9, TypeParts DEF SetupFails
<1>10. ASSUME NEW t \in Threads, SetupOperation(t)
      PROVE  Alone'
  BY <1>10, TypeParts DEF SetupOperation
<1>11. ASSUME NEW t \in Threads, Notify(t)
      PROVE  Alone'
  BY <1>11, TypeParts DEF Notify
<1>12. ASSUME NEW t \in Threads, NotifyFails(t)
      PROVE  Alone'
  BY <1>12, TypeParts DEF NotifyFails
<1>13. ASSUME NEW t \in Threads, Wait(t)
      PROVE  Alone'
  BY <1>13, TypeParts DEF Wait
<1>14. ASSUME NEW t \in Threads, ConnectionLost(t)
      PROVE  Alone'
  BY <1>14, TypeParts DEF ConnectionLost
<1>15. ASSUME NEW t \in Threads, Unwind(t)
      PROVE  Alone'
  BY <1>15, TypeParts DEF Unwind, After
<1>16. ASSUME NEW t \in Threads, CloseSession(t)
      PROVE  Alone'
  BY <1>16, TypeParts DEF CloseSession
<1>17. ASSUME NEW t \in Threads, CloseRefused(t)
      PROVE  Alone'
  BY <1>17, TypeParts DEF CloseRefused
<1>18. ASSUME NEW t \in Threads, Forget(t)
      PROVE  Alone'
  BY <1>18, TypeParts DEF Forget
<1>19. ASSUME NEW t \in Threads, DeleteTci(t)
      PROVE  Alone'
  BY <1>19, TypeParts DEF DeleteTci
<1>20. ASSUME NEW t \in Threads, Unlock(t)
      PROVE  Alone'
  BY <1>20, TypeParts DEF Unlock
<1>21. ASSUME NEW t \in Threads, Leave(t)
      PROVE  Alone'
  BY <1>21, TypeParts DEF Leave
<1>22. ASSUME NEW i \in Calls,
             TEEC_RequestCancellation(i) \/ CancelStarted(i) \/ CancelLooks(i) \/
             CancelMarks(i) \/ CancelNotifies(i)
      PROVE  Alone'
  BY <1>22
  DEF TEEC_RequestCancellation, CancelStarted, CancelLooks, CancelMarks,
      CancelNotifies
<1>23. CASE TaTakes \/ TaDoes \/ TaFinishes \/ TaPanics
  BY <1>23
  DEF TaTakes, TaDoes, TaFinishes, TaPanics
<1>24. QED
  BY <1>1, <1>2, <1>3, <1>4, <1>5, <1>6, <1>7, <1>8, <1>9, <1>10, <1>11, <1>12, <1>13,
     <1>14, <1>15, <1>16, <1>17, <1>18, <1>19, <1>20, <1>21, <1>22, <1>23
  DEF Next, Application, ThreadStep, CancelStep

\* Where a thread is fits what its call does.
LEMMA PlacedKept ==
  ASSUME TypeOK, Numbered, Alone, Placed, Next
  PROVE  Placed'
<1> USE DEF Numbered, Alone, Placed, Busy, CallTypes, PlaceTypes, Go, Enter, callVars,
            history, clientVars, TaAnswers, Idle
<1>1. ASSUME NEW t \in Threads, TEEC_OpenSession(t)
      PROVE  Placed'
  BY <1>1, TypeParts, NewCall, MadeCalls DEF TEEC_OpenSession
<1>2. ASSUME NEW t \in Threads, TEEC_InvokeCommand(t)
      PROVE  Placed'
  BY <1>2, TypeParts, NewCall, MadeCalls DEF TEEC_InvokeCommand
<1>3. ASSUME NEW t \in Threads, TEEC_CloseSession(t)
      PROVE  Placed'
  BY <1>3, TypeParts, NewCall, MadeCalls DEF TEEC_CloseSession
<1>4. ASSUME NEW t \in Threads, OpenSession(t)
      PROVE  Placed'
  BY <1>4, TypeParts DEF OpenSession
<1>5. ASSUME NEW t \in Threads, OpenSessionFails(t)
      PROVE  Placed'
  BY <1>5, TypeParts DEF OpenSessionFails
<1>6. ASSUME NEW t \in Threads, Lock(t)
      PROVE  Placed'
  BY <1>6, TypeParts DEF Lock
<1>7. ASSUME NEW t \in Threads, NoTci(t)
      PROVE  Placed'
  BY <1>7, TypeParts DEF NoTci
<1>8. ASSUME NEW t \in Threads, Begin(t)
      PROVE  Placed'
  BY <1>8, TypeParts DEF Begin
<1>9. ASSUME NEW t \in Threads, SetupFails(t)
      PROVE  Placed'
  BY <1>9, TypeParts DEF SetupFails
<1>10. ASSUME NEW t \in Threads, SetupOperation(t)
      PROVE  Placed'
  BY <1>10, TypeParts DEF SetupOperation
<1>11. ASSUME NEW t \in Threads, Notify(t)
      PROVE  Placed'
  BY <1>11, TypeParts DEF Notify
<1>12. ASSUME NEW t \in Threads, NotifyFails(t)
      PROVE  Placed'
  BY <1>12, TypeParts DEF NotifyFails
<1>13. ASSUME NEW t \in Threads, Wait(t)
      PROVE  Placed'
  BY <1>13, TypeParts DEF Wait
<1>14. ASSUME NEW t \in Threads, ConnectionLost(t)
      PROVE  Placed'
  BY <1>14, TypeParts DEF ConnectionLost
<1>15. ASSUME NEW t \in Threads, Unwind(t)
      PROVE  Placed'
  BY <1>15, TypeParts DEF Unwind, After
<1>16. ASSUME NEW t \in Threads, CloseSession(t)
      PROVE  Placed'
  BY <1>16, TypeParts DEF CloseSession
<1>17. ASSUME NEW t \in Threads, CloseRefused(t)
      PROVE  Placed'
  BY <1>17, TypeParts DEF CloseRefused
<1>18. ASSUME NEW t \in Threads, Forget(t)
      PROVE  Placed'
  BY <1>18, TypeParts DEF Forget
<1>19. ASSUME NEW t \in Threads, DeleteTci(t)
      PROVE  Placed'
  BY <1>19, TypeParts DEF DeleteTci
<1>20. ASSUME NEW t \in Threads, Unlock(t)
      PROVE  Placed'
  BY <1>20, TypeParts DEF Unlock, Stays
<1>21. ASSUME NEW t \in Threads, Leave(t)
      PROVE  Placed'
  BY <1>21, TypeParts DEF Leave
<1>22. ASSUME NEW i \in Calls,
             TEEC_RequestCancellation(i) \/ CancelStarted(i) \/ CancelLooks(i) \/
             CancelMarks(i) \/ CancelNotifies(i)
      PROVE  Placed'
  BY <1>22
  DEF TEEC_RequestCancellation, CancelStarted, CancelLooks, CancelMarks,
      CancelNotifies
<1>23. CASE TaTakes \/ TaDoes \/ TaFinishes \/ TaPanics
  BY <1>23
  DEF TaTakes, TaDoes, TaFinishes, TaPanics
<1>24. QED
  BY <1>1, <1>2, <1>3, <1>4, <1>5, <1>6, <1>7, <1>8, <1>9, <1>10, <1>11, <1>12, <1>13,
     <1>14, <1>15, <1>16, <1>17, <1>18, <1>19, <1>20, <1>21, <1>22, <1>23
  DEF Next, Application, ThreadStep, CancelStep

(***************************************************************************)
(* The outcomes, and the session.                                           *)
(***************************************************************************)
\* A call that begins has a number of its own.
LEMMA Entered ==
  ASSUME TypeOK, Numbered, Ended, NEW t \in Threads, NEW what, NEW with, Enter(t, what, with)
  PROVE  /\ calls' \in Calls /\ call'[t] = calls' /\ outcome[calls'][1] = "none"
         /\ \A i \in Calls: i > calls' => i > calls /\ i # calls'
         /\ \A u \in Threads: u # t => call'[u] = call[u]
         /\ \A u \in Threads: Busy(u) => /\ u # t /\ call[u] \in Calls
                                        /\ call[u] # calls'
                                        /\ kind'[call[u]] = kind[call[u]]
                                        /\ operation'[call[u]] = operation[call[u]]
         /\ kind'[calls'] = what /\ operation'[calls'] = with
<1>1. calls' = calls + 1 /\ calls' \in Calls
  BY TypeParts, NewCall DEF Enter
<1>2. /\ call'[t] = calls' /\ kind'[calls'] = what /\ operation'[calls'] = with
      /\ \A u \in Threads: u # t => call'[u] = call[u]
  BY <1>1, TypeParts DEF Enter, CallTypes
<1>3. \A i \in Calls: i > calls' => i > calls /\ i # calls'
  BY <1>1, TypeParts DEF CallTypes, Calls
<1>4. outcome[calls'][1] = "none"
  BY <1>1, TypeParts DEF Ended, CallTypes
<1>5. ASSUME NEW u \in Threads, Busy(u)
      PROVE  /\ u # t /\ call[u] \in Calls /\ call[u] # calls'
             /\ kind'[call[u]] = kind[call[u]] /\ operation'[call[u]] = operation[call[u]]
  <2>1. u # t
    BY <1>5 DEF Enter, Busy
  <2>2. call[u] \in Calls /\ call[u] # calls'
    BY <1>1, <1>5, MadeCalls, TypeParts DEF Numbered, CallTypes
  <2>3. QED
    BY <1>1, <2>1, <2>2, TypeParts DEF Enter, CallTypes
<1>6. QED
  BY <1>1, <1>2, <1>3, <1>4, <1>5

\* The outcome of a call is written once.
LEMMA EndedKept ==
  ASSUME TypeOK, Numbered, Ended, Next
  PROVE  Ended'
<1> USE DEF Ended, Broken, PlaceTypes, OutcomeTypes, Busy, Go, Ends, callVars, history,
            clientVars, TaAnswers
<1>1. ASSUME NEW t \in Threads, TEEC_OpenSession(t)
      PROVE  Ended'
  <2>1. PICK with: Enter(t, "open", with)
    BY <1>1 DEF TEEC_OpenSession
  <2>2. QED
    BY <1>1, <2>1, Entered, TypeParts DEF TEEC_OpenSession
<1>2. ASSUME NEW t \in Threads, TEEC_InvokeCommand(t)
      PROVE  Ended'
  <2>1. PICK with: Enter(t, "invoke", with)
    BY <1>2 DEF TEEC_InvokeCommand
  <2>2. QED
    BY <1>2, <2>1, Entered, TypeParts DEF TEEC_InvokeCommand
<1>3. ASSUME NEW t \in Threads, TEEC_CloseSession(t)
      PROVE  Ended'
  <2>1. PICK with: Enter(t, "close", with)
    BY <1>3 DEF TEEC_CloseSession
  <2>2. QED
    BY <1>3, <2>1, Entered, TypeParts DEF TEEC_CloseSession
<1>4. ASSUME NEW t \in Threads, OpenSession(t)
      PROVE  Ended'
  BY <1>4, TypeParts, MadeCalls DEF OpenSession
<1>5. ASSUME NEW t \in Threads, OpenSessionFails(t)
      PROVE  Ended'
  BY <1>5, TypeParts, MadeCalls DEF OpenSessionFails, Numbered, CallTypes
<1>6. ASSUME NEW t \in Threads, Lock(t)
      PROVE  Ended'
  BY <1>6, TypeParts, MadeCalls DEF Lock
<1>7. ASSUME NEW t \in Threads, NoTci(t)
      PROVE  Ended'
  BY <1>7, TypeParts, MadeCalls DEF NoTci, Numbered, CallTypes
<1>8. ASSUME NEW t \in Threads, Begin(t)
      PROVE  Ended'
  BY <1>8, TypeParts, MadeCalls DEF Begin
<1>9. ASSUME NEW t \in Threads, SetupFails(t)
      PROVE  Ended'
  BY <1>9, TypeParts, MadeCalls DEF SetupFails, Numbered, CallTypes
<1>10. ASSUME NEW t \in Threads, SetupOperation(t)
      PROVE  Ended'
  BY <1>10, TypeParts, MadeCalls DEF SetupOperation
<1>11. ASSUME NEW t \in Threads, Notify(t)
      PROVE  Ended'
  BY <1>11, TypeParts, MadeCalls DEF Notify
<1>12. ASSUME NEW t \in Threads, NotifyFails(t)
      PROVE  Ended'
  BY <1>12, TypeParts, MadeCalls DEF NotifyFails, Numbered, CallTypes
<1>13. ASSUME NEW t \in Threads, Wait(t)
      PROVE  Ended'
  BY <1>13, TypeParts, MadeCalls DEF Wait, Numbered, CallTypes
<1>14. ASSUME NEW t \in Threads, ConnectionLost(t)
      PROVE  Ended'
  BY <1>14, TypeParts, MadeCalls DEF ConnectionLost, Numbered, CallTypes
<1>15. ASSUME NEW t \in Threads, Unwind(t)
      PROVE  Ended'
  BY <1>15, TypeParts, MadeCalls DEF Unwind, Numbered, CallTypes, After
<1>16. ASSUME NEW t \in Threads, CloseSession(t)
      PROVE  Ended'
  BY <1>16, TypeParts, MadeCalls DEF CloseSession
<1>17. ASSUME NEW t \in Threads, CloseRefused(t)
      PROVE  Ended'
  BY <1>17, TypeParts, MadeCalls DEF CloseRefused
<1>18. ASSUME NEW t \in Threads, Forget(t)
      PROVE  Ended'
  BY <1>18, TypeParts, MadeCalls DEF Forget
<1>19. ASSUME NEW t \in Threads, DeleteTci(t)
      PROVE  Ended'
  BY <1>19, TypeParts, MadeCalls DEF DeleteTci
<1>20. ASSUME NEW t \in Threads, Unlock(t)
      PROVE  Ended'
  BY <1>20, TypeParts, MadeCalls DEF Unlock
<1>21. ASSUME NEW t \in Threads, Leave(t)
      PROVE  Ended'
  BY <1>21, TypeParts, MadeCalls DEF Leave
<1>22. ASSUME NEW i \in Calls,
             TEEC_RequestCancellation(i) \/ CancelStarted(i) \/ CancelLooks(i) \/
             CancelMarks(i) \/ CancelNotifies(i)
      PROVE  Ended'
  BY <1>22
  DEF TEEC_RequestCancellation, CancelStarted, CancelLooks, CancelMarks,
      CancelNotifies
<1>23. CASE TaTakes \/ TaDoes \/ TaFinishes \/ TaPanics
  BY <1>23
  DEF TaTakes, TaDoes, TaFinishes, TaPanics
<1>24. QED
  BY <1>1, <1>2, <1>3, <1>4, <1>5, <1>6, <1>7, <1>8, <1>9, <1>10, <1>11, <1>12, <1>13,
     <1>14, <1>15, <1>16, <1>17, <1>18, <1>19, <1>20, <1>21, <1>22, <1>23
  DEF Next, Application, ThreadStep, CancelStep

\* A call that has failed on the way breaks the session.
LEMMA Breaks ==
  ASSUME NEW t \in Threads, NEW result, outcome[call[t]][1] # "none"
  PROVE  After(t, result) = "break"
  BY DEF After

\* A session that is broken stays so: an outcome is final.
LEMMA BrokenStays ==
  ASSUME TypeOK, Numbered, Ended, Next
  PROVE  SomeBroken => SomeBroken'
<1> SUFFICES ASSUME NEW j \in Calls, Broken(j)
             PROVE  Broken(j)'
  BY DEF SomeBroken
<1> USE DEF Broken, Ended, OutcomeTypes, Ends, Busy
<1>1. ASSUME NEW t \in Threads, TEEC_InvokeCommand(t)
      PROVE  Broken(j)'
  <2>1. PICK with: Enter(t, "invoke", with)
    BY <1>1 DEF TEEC_InvokeCommand
  <2>2. QED
    BY <1>1, <2>1, Entered, TypeParts DEF TEEC_InvokeCommand
<1>2. ASSUME NEW t \in Threads, OpenSessionFails(t)
      PROVE  Broken(j)'
  BY <1>2, TypeParts, MadeCalls DEF OpenSessionFails, Numbered, CallTypes
<1>3. ASSUME NEW t \in Threads, NoTci(t)
      PROVE  Broken(j)'
  BY <1>3, TypeParts, MadeCalls DEF NoTci, Numbered, CallTypes
<1>4. ASSUME NEW t \in Threads, SetupFails(t)
      PROVE  Broken(j)'
  BY <1>4, TypeParts, MadeCalls DEF SetupFails, Numbered, CallTypes
<1>5. ASSUME NEW t \in Threads, NotifyFails(t)
      PROVE  Broken(j)'
  BY <1>5, TypeParts, MadeCalls DEF NotifyFails, Numbered, CallTypes
<1>6. ASSUME NEW t \in Threads, Wait(t)
      PROVE  Broken(j)'
  BY <1>6, TypeParts, MadeCalls DEF Wait, Numbered, CallTypes
<1>7. ASSUME NEW t \in Threads, ConnectionLost(t)
      PROVE  Broken(j)'
  BY <1>7, TypeParts, MadeCalls DEF ConnectionLost, Numbered, CallTypes
<1>8. ASSUME NEW t \in Threads, Unwind(t)
      PROVE  Broken(j)'
  BY <1>8, TypeParts, MadeCalls DEF Unwind, Numbered, CallTypes
<1>9. CASE UNCHANGED outcome
  BY <1>9
<1>10. QED
  BY <1>1, <1>2, <1>3, <1>4, <1>5, <1>6, <1>7, <1>8, <1>9, OutcomeFrame

\* The session is made inactive before its TCI is unmapped.
LEMMA AccessKept ==
  ASSUME TypeOK, Control, Ended, Access, Next
  PROVE  Access'
<1> USE DEF Access, Stays, Control, Alone, Placed, Holds, Held, PlaceTypes,
            SessionTypes, OutcomeTypes, CallTypes, Numbered, Ended, Busy, Go, Ends,
            callVars, sessionVars, history, clientVars, TaAnswers, Idle
<1>1. ASSUME NEW t \in Threads, TEEC_OpenSession(t)
      PROVE  Access'
  <2>1. PICK with: Enter(t, "open", with)
    BY <1>1 DEF TEEC_OpenSession
  <2>2. QED
    BY <1>1, <2>1, Entered, TypeParts DEF TEEC_OpenSession
<1>2. ASSUME NEW t \in Threads, TEEC_InvokeCommand(t)
      PROVE  Access'
  <2>1. PICK with: Enter(t, "invoke", with)
    BY <1>2 DEF TEEC_InvokeCommand
  <2>2. QED
    BY <1>2, <2>1, Entered, TypeParts DEF TEEC_InvokeCommand
<1>3. ASSUME NEW t \in Threads, TEEC_CloseSession(t)
      PROVE  Access'
  <2>1. PICK with: Enter(t, "close", with)
    BY <1>3 DEF TEEC_CloseSession
  <2>2. QED
    BY <1>3, <2>1, Entered, TypeParts DEF TEEC_CloseSession
<1>4. ASSUME NEW t \in Threads, OpenSession(t)
      PROVE  Access'
  BY <1>4, TypeParts, MadeCalls, BoundsAssumption DEF OpenSession
<1>5. ASSUME NEW t \in Threads, OpenSessionFails(t)
      PROVE  Access'
  BY <1>5, TypeParts, MadeCalls, BoundsAssumption DEF OpenSessionFails
<1>6. ASSUME NEW t \in Threads, Lock(t)
      PROVE  Access'
  BY <1>6, TypeParts, MadeCalls, BoundsAssumption DEF Lock
<1>7. ASSUME NEW t \in Threads, NoTci(t)
      PROVE  Access'
  BY <1>7, TypeParts, MadeCalls, BoundsAssumption DEF NoTci
<1>8. ASSUME NEW t \in Threads, Begin(t)
      PROVE  Access'
  BY <1>8, TypeParts, MadeCalls, BoundsAssumption DEF Begin
<1>9. ASSUME NEW t \in Threads, SetupFails(t)
      PROVE  Access'
  BY <1>9, TypeParts, MadeCalls, BoundsAssumption DEF SetupFails, HasOperation
<1>10. ASSUME NEW t \in Threads, SetupOperation(t)
      PROVE  Access'
  BY <1>10, TypeParts, MadeCalls, BoundsAssumption DEF SetupOperation
<1>11. ASSUME NEW t \in Threads, Notify(t)
      PROVE  Access'
  BY <1>11, TypeParts, MadeCalls, BoundsAssumption DEF Notify
<1>12. ASSUME NEW t \in Threads, NotifyFails(t)
      PROVE  Access'
  BY <1>12, TypeParts, MadeCalls, BoundsAssumption DEF NotifyFails
<1>13. ASSUME NEW t \in Threads, Wait(t)
      PROVE  Access'
  BY <1>13, TypeParts, MadeCalls, BoundsAssumption DEF Wait
<1>14. ASSUME NEW t \in Threads, ConnectionLost(t)
      PROVE  Access'
  BY <1>14, TypeParts, MadeCalls, BoundsAssumption DEF ConnectionLost
<1>15. ASSUME NEW t \in Threads, Unwind(t)
      PROVE  Access'
  <2>1. /\ call[t] \in Calls
        /\ \A u \in Threads: u # t => pc'[u] = pc[u] /\ pc[u] \notin Held
    BY <1>15, TypeParts, MadeCalls, BoundsAssumption DEF Unwind
  <2>2. CASE outcome[call[t]][1] # "none"
    <3>1. pc'[t] = "break" /\ UNCHANGED outcome
      BY <1>15, <2>2, TypeParts, Breaks DEF Unwind
    <3>2. QED
      BY <1>15, <2>1, <3>1, TypeParts DEF Unwind
  <2>3. CASE outcome[call[t]][1] = "none"
    <3>1. outcome'[call[t]] = page.status
      BY <1>15, <2>1, <2>3, TypeParts DEF Unwind
    <3>2. pc'[t] = "unlock" => Stays(t)'
      BY <1>15, <2>1, <2>3, <3>1, TypeParts DEF Unwind, After
    <3>3. pc'[t] = "close" => ~Stays(t)'
      BY <1>15, <2>1, <2>3, <3>1, TypeParts DEF Unwind, After
    <3>4. pc'[t] \in {"break", "unlock", "close"}
      BY <1>15, TypeParts DEF Unwind, After
    <3>5. QED
      BY <1>15, <2>1, <3>2, <3>3, <3>4, TypeParts DEF Unwind
  <2>4. QED
    BY <2>2, <2>3
<1>16. ASSUME NEW t \in Threads, CloseSession(t)
      PROVE  Access'
  BY <1>16, TypeParts, MadeCalls, BoundsAssumption DEF CloseSession
<1>17. ASSUME NEW t \in Threads, CloseRefused(t)
      PROVE  Access'
  BY <1>17, TypeParts, MadeCalls, BoundsAssumption DEF CloseRefused
<1>18. ASSUME NEW t \in Threads, Forget(t)
      PROVE  Access'
  BY <1>18, TypeParts, MadeCalls, BoundsAssumption DEF Forget
<1>19. ASSUME NEW t \in Threads, DeleteTci(t)
      PROVE  Access'
  BY <1>19, TypeParts, MadeCalls, BoundsAssumption DEF DeleteTci
<1>20. ASSUME NEW t \in Threads, Unlock(t)
      PROVE  Access'
  BY <1>20, TypeParts, MadeCalls, BoundsAssumption DEF Unlock
<1>21. ASSUME NEW t \in Threads, Leave(t)
      PROVE  Access'
  BY <1>21, TypeParts, MadeCalls, BoundsAssumption DEF Leave
<1>22. ASSUME NEW i \in Calls,
             TEEC_RequestCancellation(i) \/ CancelStarted(i) \/ CancelLooks(i) \/
             CancelMarks(i) \/ CancelNotifies(i)
      PROVE  Access'
  BY <1>22
  DEF TEEC_RequestCancellation, CancelStarted, CancelLooks, CancelMarks,
      CancelNotifies
<1>23. CASE TaTakes \/ TaDoes \/ TaFinishes \/ TaPanics
  BY <1>23
  DEF TaTakes, TaDoes, TaFinishes, TaPanics
<1>24. QED
  BY <1>1, <1>2, <1>3, <1>4, <1>5, <1>6, <1>7, <1>8, <1>9, <1>10, <1>11, <1>12, <1>13,
     <1>14, <1>15, <1>16, <1>17, <1>18, <1>19, <1>20, <1>21, <1>22, <1>23
  DEF Next, Application, ThreadStep, CancelStep

\* Only a session that another call has broken has no TCI when a call begins.
LEMMA CrashesKept ==
  ASSUME TypeOK, Control, Ended, Access, Crashes, Next
  PROVE  Crashes'
<1> USE DEF Crashes, Control, Alone, Placed, Holds, Held, PlaceTypes, SessionTypes,
            OutcomeTypes, CallTypes, OperationTypes, Numbered, Ended, Busy, Go, Ends,
            Asks, callVars, sessionVars, history, clientVars, TaAnswers, Idle
<1>1. ASSUME NEW t \in Threads, TEEC_OpenSession(t)
      PROVE  Crashes'
  <2>1. PICK with: Enter(t, "open", with)
    BY <1>1 DEF TEEC_OpenSession
  <2>2. QED
    BY <1>1, <2>1, Entered, BrokenStays, TypeParts DEF Access, TEEC_OpenSession
<1>2. ASSUME NEW t \in Threads, TEEC_InvokeCommand(t)
      PROVE  Crashes'
  <2>1. PICK with: Enter(t, "invoke", with)
    BY <1>2 DEF TEEC_InvokeCommand
  <2>2. QED
    BY <1>2, <2>1, Entered, BrokenStays, TypeParts DEF Access, TEEC_InvokeCommand
<1>3. ASSUME NEW t \in Threads, TEEC_CloseSession(t)
      PROVE  Crashes'
  <2>1. PICK with: Enter(t, "close", with)
    BY <1>3 DEF TEEC_CloseSession
  <2>2. QED
    BY <1>3, <2>1, Entered, BrokenStays, TypeParts DEF Access, TEEC_CloseSession
<1>4. ASSUME NEW t \in Threads, OpenSession(t)
      PROVE  Crashes'
  BY <1>4, TypeParts, MadeCalls, BoundsAssumption, BrokenStays DEF OpenSession, Access
<1>5. ASSUME NEW t \in Threads, OpenSessionFails(t)
      PROVE  Crashes'
  BY <1>5, TypeParts, MadeCalls, BoundsAssumption, BrokenStays DEF OpenSessionFails
<1>6. ASSUME NEW t \in Threads, Lock(t)
      PROVE  Crashes'
  BY <1>6, TypeParts, MadeCalls, BoundsAssumption, BrokenStays DEF Lock
<1>7. ASSUME NEW t \in Threads, NoTci(t)
      PROVE  Crashes'
  BY <1>7, TypeParts, MadeCalls, BoundsAssumption, BrokenStays DEF NoTci
<1>8. ASSUME NEW t \in Threads, Begin(t)
      PROVE  Crashes'
  BY <1>8, TypeParts, MadeCalls, BoundsAssumption, BrokenStays DEF Begin
<1>9. ASSUME NEW t \in Threads, SetupFails(t)
      PROVE  Crashes'
  BY <1>9, TypeParts, MadeCalls, BoundsAssumption, BrokenStays DEF SetupFails
<1>10. ASSUME NEW t \in Threads, SetupOperation(t)
      PROVE  Crashes'
  BY <1>10, TypeParts, MadeCalls, BoundsAssumption, BrokenStays DEF SetupOperation
<1>11. ASSUME NEW t \in Threads, Notify(t)
      PROVE  Crashes'
  BY <1>11, TypeParts, MadeCalls, BoundsAssumption, BrokenStays DEF Notify
<1>12. ASSUME NEW t \in Threads, NotifyFails(t)
      PROVE  Crashes'
  BY <1>12, TypeParts, MadeCalls, BoundsAssumption, BrokenStays DEF NotifyFails
<1>13. ASSUME NEW t \in Threads, Wait(t)
      PROVE  Crashes'
  BY <1>13, TypeParts, MadeCalls, BoundsAssumption, BrokenStays DEF Wait
<1>14. ASSUME NEW t \in Threads, ConnectionLost(t)
      PROVE  Crashes'
  BY <1>14, TypeParts, MadeCalls, BoundsAssumption, BrokenStays DEF ConnectionLost
<1>15. ASSUME NEW t \in Threads, Unwind(t)
      PROVE  Crashes'
  <2>1. page.status[1] # "crashed" /\ call[t] \in Calls
    BY <1>15, TypeParts, MadeCalls DEF PageTypes, Pages, Answers, Unwind
  <2>2. \A i \in Calls: outcome'[i][1] = "crashed" => outcome[i][1] = "crashed"
    BY <1>15, <2>1, TypeParts DEF Unwind
  <2>3. \A u \in Threads: pc'[u] \in {"enter", "locked"} => pc[u] = pc'[u]
    BY <1>15, TypeParts DEF Unwind, After
  <2>4. QED
    BY <1>15, <2>2, <2>3, TypeParts, BrokenStays DEF Unwind
<1>16. ASSUME NEW t \in Threads, CloseSession(t)
      PROVE  Crashes'
  BY <1>16, TypeParts, MadeCalls, BoundsAssumption, BrokenStays DEF CloseSession
<1>17. ASSUME NEW t \in Threads, CloseRefused(t)
      PROVE  Crashes'
  BY <1>17, TypeParts, MadeCalls, BoundsAssumption, BrokenStays DEF CloseRefused
<1>18. ASSUME NEW t \in Threads, Forget(t)
      PROVE  Crashes'
  BY <1>18, TypeParts, MadeCalls, BoundsAssumption, BrokenStays DEF Forget
<1>19. ASSUME NEW t \in Threads, DeleteTci(t)
      PROVE  Crashes'
  <2>1. SomeBroken
    BY <1>19, TypeParts, MadeCalls DEF DeleteTci, SomeBroken
  <2>2. QED
    BY <1>19, <2>1, TypeParts, BrokenStays DEF DeleteTci
<1>20. ASSUME NEW t \in Threads, Unlock(t)
      PROVE  Crashes'
  BY <1>20, TypeParts, MadeCalls, BoundsAssumption, BrokenStays DEF Unlock
<1>21. ASSUME NEW t \in Threads, Leave(t)
      PROVE  Crashes'
  BY <1>21, TypeParts, MadeCalls, BoundsAssumption, BrokenStays DEF Leave
<1>22. ASSUME NEW i \in Calls, TEEC_RequestCancellation(i)
      PROVE  Crashes'
  BY <1>22, TypeParts, MadeCalls, BoundsAssumption, BrokenStays
  DEF TEEC_RequestCancellation
<1>23. ASSUME NEW i \in Calls, CancelStarted(i)
      PROVE  Crashes'
  BY <1>23, TypeParts, MadeCalls, BoundsAssumption, BrokenStays DEF CancelStarted
<1>24. ASSUME NEW i \in Calls, CancelLooks(i)
      PROVE  Crashes'
  BY <1>24, TypeParts, MadeCalls, BoundsAssumption, BrokenStays DEF CancelLooks
<1>25. ASSUME NEW i \in Calls, CancelMarks(i)
      PROVE  Crashes'
  BY <1>25, TypeParts, MadeCalls, BoundsAssumption, BrokenStays DEF CancelMarks, Access
<1>26. ASSUME NEW i \in Calls, CancelNotifies(i)
      PROVE  Crashes'
  BY <1>26, TypeParts, MadeCalls, BoundsAssumption, BrokenStays DEF CancelNotifies
<1>27. CASE TaTakes \/ TaDoes \/ TaFinishes \/ TaPanics
  BY <1>27, BrokenStays
  DEF TaTakes, TaDoes, TaFinishes, TaPanics
<1>28. QED
  BY <1>1, <1>2, <1>3, <1>4, <1>5, <1>6, <1>7, <1>8, <1>9, <1>10, <1>11, <1>12, <1>13,
     <1>14, <1>15, <1>16, <1>17, <1>18, <1>19, <1>20, <1>21, <1>22, <1>23, <1>24,
     <1>25, <1>26, <1>27
  DEF Next, Application, ThreadStep, CancelStep

(***************************************************************************)
(* The memory of an operation.                                              *)
(***************************************************************************)
\* Memory that is still mapped after an operation has been unwound is kept, or was not
\* this operation's.
LEMMA Unwinds ==
  ASSUME SessionTypes, NEW t \in Threads, UnwindOperation(t)
  PROVE  \/ mapped' => kept'
         \/ (mapped' => mapped) /\ (kept => kept')
              /\ (Maps(t) /\ page.len /\ mapped => kept')
<1>1. CASE Unmaps(t)
  BY <1>1, Zenon DEF UnwindOperation, Unmap
<1>2. CASE ~Unmaps(t)
  <2>1. kept' = (kept \/ (mapped /\ Maps(t) /\ Distrusted)) /\ UNCHANGED mapped
    BY <1>2 DEF UnwindOperation
  <2>2. (kept => kept') /\ (mapped /\ Maps(t) /\ Distrusted => kept')
    BY <2>1, Zenon
  <2>3. Maps(t) /\ page.len => Distrusted
    BY <1>2 DEF Unmaps
  <2>4. QED
    BY <2>1, <2>2, <2>3
<1>3. QED
  BY <1>1, <1>2

\* The memory of an operation is unmapped before its call leaves the exchange.
LEMMA MemoryKept ==
  ASSUME TypeOK, Control, Ended, Memory, Next
  PROVE  Memory'
<1> USE DEF Memory, Operating, Maps, Holds, Held, Busy, Go, PlaceTypes, CallTypes,
            Numbered, callVars, history, clientVars, TaAnswers, Control
<1>1. ASSUME NEW t \in Threads, TEEC_OpenSession(t)
      PROVE  Memory'
  <2>1. PICK with: Enter(t, "open", with)
    BY <1>1 DEF TEEC_OpenSession
  <2>2. QED
    BY <1>1, <2>1, Entered, TypeParts DEF Idle, Zeroed, TEEC_OpenSession
<1>2. ASSUME NEW t \in Threads, TEEC_InvokeCommand(t)
      PROVE  Memory'
  <2>1. PICK with: Enter(t, "invoke", with)
    BY <1>2 DEF TEEC_InvokeCommand
  <2>2. QED
    BY <1>2, <2>1, Entered, TypeParts DEF Idle, Zeroed, TEEC_InvokeCommand
<1>3. ASSUME NEW t \in Threads, TEEC_CloseSession(t)
      PROVE  Memory'
  <2>1. PICK with: Enter(t, "close", with)
    BY <1>3 DEF TEEC_CloseSession
  <2>2. QED
    BY <1>3, <2>1, Entered, TypeParts DEF Idle, Zeroed, TEEC_CloseSession
<1>4. ASSUME NEW t \in Threads, OpenSession(t)
      PROVE  Memory'
  BY <1>4, TypeParts, MadeCalls, BoundsAssumption DEF OpenSession
<1>5. ASSUME NEW t \in Threads, OpenSessionFails(t)
      PROVE  Memory'
  BY <1>5, TypeParts, MadeCalls, BoundsAssumption DEF OpenSessionFails
<1>6. ASSUME NEW t \in Threads, Lock(t)
      PROVE  Memory'
  BY <1>6, TypeParts, MadeCalls, BoundsAssumption DEF Lock
<1>7. ASSUME NEW t \in Threads, NoTci(t)
      PROVE  Memory'
  BY <1>7, TypeParts, MadeCalls, BoundsAssumption DEF NoTci
<1>8. ASSUME NEW t \in Threads, Begin(t)
      PROVE  Memory'
  BY <1>8, TypeParts, MadeCalls, BoundsAssumption DEF Begin
<1>9. ASSUME NEW t \in Threads, SetupFails(t)
      PROVE  Memory'
  <2>1. \A u \in Threads: ~Operating(u) /\ ~Operating(u)'
    BY <1>9, TypeParts, BoundsAssumption DEF SetupFails
  <2>2. mapped' => kept' \/ refused'
    <3>1. UnwindOperation(t) \/ UNCHANGED <<mapped, kept>>
      BY <1>9 DEF SetupFails
    <3>2. \/ mapped' => kept'
          \/ (mapped' => mapped) /\ (kept => kept')
      <4>1. CASE UnwindOperation(t)
        BY <4>1, TypeParts, Unwinds
      <4>2. CASE UNCHANGED <<mapped, kept>>
        BY <4>2, Zenon
      <4>3. QED
        BY <3>1, <4>1, <4>2
    <3>3. UNCHANGED refused
      BY <1>9 DEF SetupFails
    <3>4. mapped => kept \/ refused
      BY <2>1
    <3>5. QED
      BY <3>2, <3>3, <3>4
  <2>3. QED
    BY <2>1, <2>2
<1>10. ASSUME NEW t \in Threads, SetupOperation(t)
      PROVE  Memory'
  <2>1. \A u \in Threads: u # t => ~Operating(u) /\ ~Operating(u)'
    BY <1>10, TypeParts, BoundsAssumption DEF SetupOperation
  <2>2. Operating(t)' <=> Maps(t)
    BY <1>10, TypeParts DEF SetupOperation
  <2>3. Maps(t) => page'.len
    BY <1>10, TypeParts DEF SetupOperation, PageTypes, Pages
  <2>4. mapped' => kept' \/ refused' \/ Operating(t)'
    BY <1>10, <2>1, <2>2, TypeParts DEF SetupOperation, Map
  <2>5. QED
    BY <2>1, <2>2, <2>3, <2>4
<1>11. ASSUME NEW t \in Threads, Notify(t)
      PROVE  Memory'
  BY <1>11, TypeParts, MadeCalls, BoundsAssumption DEF Notify
<1>12. ASSUME NEW t \in Threads, NotifyFails(t)
      PROVE  Memory'
  BY <1>12, TypeParts, MadeCalls, BoundsAssumption DEF NotifyFails
<1>13. ASSUME NEW t \in Threads, Wait(t)
      PROVE  Memory'
  BY <1>13, TypeParts, MadeCalls, BoundsAssumption DEF Wait
<1>14. ASSUME NEW t \in Threads, ConnectionLost(t)
      PROVE  Memory'
  BY <1>14, TypeParts, MadeCalls, BoundsAssumption DEF ConnectionLost
<1>15. ASSUME NEW t \in Threads, Unwind(t)
      PROVE  Memory'
  <2>1. \A u \in Threads: ~Operating(u)' /\ (u # t => ~Operating(u))
    BY <1>15, TypeParts, BoundsAssumption DEF Unwind, After
  <2>2. Maps(t) => page.len /\ HasOperation(t)
    BY <1>15, TypeParts DEF Unwind, HasOperation
  <2>3. Operating(t) <=> Maps(t)
    BY <1>15 DEF Unwind
  <2>4. refused' = refused
    BY <1>15 DEF Unwind
  <2>5. CASE HasOperation(t)
    <3>1. UnwindOperation(t)
      BY <1>15, <2>5 DEF Unwind
    <3>2. \/ mapped' => kept'
          \/ (mapped' => mapped) /\ (kept => kept')
              /\ (Maps(t) /\ page.len /\ mapped => kept')
      BY <3>1, TypeParts, Unwinds
    <3>3. QED
      BY <2>1, <2>2, <2>3, <2>4, <3>2
  <2>6. CASE ~HasOperation(t)
    <3>1. UNCHANGED <<mapped, kept>>
      BY <1>15, <2>6 DEF Unwind
    <3>2. QED
      BY <2>1, <2>2, <2>3, <2>4, <2>6, <3>1
  <2>7. QED
    BY <2>5, <2>6
<1>16. ASSUME NEW t \in Threads, CloseSession(t)
      PROVE  Memory'
  BY <1>16, TypeParts, MadeCalls, BoundsAssumption DEF CloseSession
<1>17. ASSUME NEW t \in Threads, CloseRefused(t)
      PROVE  Memory'
  BY <1>17, TypeParts, MadeCalls, BoundsAssumption DEF CloseRefused
<1>18. ASSUME NEW t \in Threads, Forget(t)
      PROVE  Memory'
  BY <1>18, TypeParts, MadeCalls, BoundsAssumption DEF Forget
<1>19. ASSUME NEW t \in Threads, DeleteTci(t)
      PROVE  Memory'
  BY <1>19, TypeParts, MadeCalls, BoundsAssumption DEF DeleteTci
<1>20. ASSUME NEW t \in Threads, Unlock(t)
      PROVE  Memory'
  BY <1>20, TypeParts, MadeCalls, BoundsAssumption DEF Unlock
<1>21. ASSUME NEW t \in Threads, Leave(t)
      PROVE  Memory'
  BY <1>21, TypeParts, MadeCalls, BoundsAssumption DEF Leave
<1>22. ASSUME NEW i \in Calls, CancelMarks(i)
      PROVE  Memory'
  BY <1>22, TypeParts DEF CancelMarks, PageTypes, Pages
<1>23. CASE TaTakes
  BY <1>23, TypeParts DEF TaTakes, PageTypes, Pages
<1>24. CASE TaDoes
  <2>1. page'.len = page.len
    BY <1>24, TypeParts DEF TaDoes, TaAnswers, PageTypes, Pages
  <2>2. UNCHANGED <<pc, call, operation, mapped, kept, refused>>
    BY <1>24 DEF TaDoes, TaAnswers, clientVars, callVars
  <2>3. QED
    BY <2>1, <2>2
<1>25. ASSUME NEW i \in Calls,
             TEEC_RequestCancellation(i) \/ CancelStarted(i) \/ CancelLooks(i) \/
             CancelNotifies(i)
      PROVE  Memory'
  BY <1>25
  DEF TEEC_RequestCancellation, CancelStarted, CancelLooks, CancelNotifies
<1>26. CASE TaFinishes \/ TaPanics
  BY <1>26
  DEF TaFinishes, TaPanics
<1>27. QED
  BY <1>1, <1>2, <1>3, <1>4, <1>5, <1>6, <1>7, <1>8, <1>9, <1>10, <1>11, <1>12, <1>13,
     <1>14, <1>15, <1>16, <1>17, <1>18, <1>19, <1>20, <1>21, <1>22, <1>23, <1>24,
     <1>25, <1>26
  DEF Next, Application, ThreadStep, CancelStep

(***************************************************************************)
(* The exchange through the TCI.                                            *)
(***************************************************************************)
\* One thread at a time works on the TCI.
LEMMA OneHolds ==
  ASSUME Holds, NEW t \in Threads, pc[t] \in Held
  PROVE  mutex_tci = t /\ \A u \in Threads: u # t => pc[u] \notin Held
  BY DEF Holds

\* What a thread needs of the TCI it needs only with the mutex.
LEMMA Aside ==
  ASSUME NEW t \in Threads, pc'[t] \notin Held
  PROVE  Exchanges(t)'
  BY DEF Exchanges, Held

\* A mark is that of the operation in the TCI, or it came too late for its own.
LEMMA MarksKept ==
  ASSUME TypeOK, Marks, Next
  PROVE  Marks'
<1> USE DEF Marks
<1>0. PageTypes
  BY TypeParts
<1>1. ASSUME NEW t \in Threads, TEEC_OpenSession(t) \/ Begin(t) \/ SetupFails(t)
      PROVE  Marks'
  <2>1. CASE TEEC_OpenSession(t)
    BY <2>1 DEF TEEC_OpenSession, Zeroed
  <2>2. CASE Begin(t)
    BY <1>0, <2>2 DEF Begin, PageTypes, Pages
  <2>3. CASE SetupFails(t)
    <3>1. page' = [page EXCEPT !.of = None, !.cancelled = None, !.len = FALSE]
      BY <2>3 DEF SetupFails
    <3>2. QED
      BY <1>0, <3>1 DEF PageTypes, Pages
  <2>4. QED
    BY <1>1, <2>1, <2>2, <2>3
<1>2. ASSUME NEW t \in Threads, SetupOperation(t)
      PROVE  Marks'
  BY <1>0, <1>2 DEF SetupOperation, PageTypes, Pages, history
<1>3. ASSUME NEW i \in Calls, CancelMarks(i)
      PROVE  Marks'
  <2>1. CASE UNCHANGED <<page, strays>>
    BY <2>1
  <2>2. CASE page' = [page EXCEPT !.cancelled = i] /\ strays' = strays \cup ({i} \ {page.of})
    BY <1>0, <2>2 DEF PageTypes, Pages
  <2>3. QED
    BY <1>3, <2>1, <2>2 DEF CancelMarks
<1>4. CASE TaTakes
  BY <1>0, <1>4 DEF TaTakes, PageTypes, Pages, clientVars
<1>5. CASE TaDoes
  <2>1. UNCHANGED strays
    BY <1>5 DEF TaDoes, TaAnswers, clientVars
  <2>2. page'.cancelled = page.cancelled /\ page'.of = page.of
    BY <1>0, <1>5 DEF TaDoes, TaAnswers, PageTypes, Pages
  <2>3. QED
    BY <2>1, <2>2
<1>6. CASE UNCHANGED page /\ (strays \subseteq strays')
  BY <1>6
<1>7. strays \subseteq strays'
  BY DEF Next, Application, ThreadStep, CancelStep, TEEC_OpenSession,
    TEEC_InvokeCommand, TEEC_CloseSession, OpenSession, OpenSessionFails, Lock, NoTci,
    Begin, SetupFails, SetupOperation, Notify, NotifyFails, Wait, ConnectionLost,
    Unwind, CloseSession, CloseRefused, Forget, DeleteTci, Unlock, Leave,
    TEEC_RequestCancellation, CancelStarted, CancelLooks, CancelMarks, CancelNotifies,
    TaTakes, TaDoes, TaFinishes, TaPanics, TaAnswers, history, clientVars
<1>8. QED
  BY <1>1, <1>2, <1>3, <1>4, <1>5, <1>6, <1>7, PageFrame

\* The mutex is given up, and the session opened, with nothing on its way.
LEMMA AtRestKept ==
  ASSUME TypeOK, Control, Exchanging, AtRest, Next
  PROVE  AtRest'
<1> USE DEF AtRest, Free, Rested, Go, PlaceTypes, SessionTypes, TaTypes, PageTypes,
            Pages, callVars, sessionVars, taVars, history, clientVars, TaAnswers
<1>1. ASSUME NEW t \in Threads, TEEC_OpenSession(t)
      PROVE  AtRest'
  BY <1>1, BoundsAssumption DEF TEEC_OpenSession
<1>2. ASSUME NEW t \in Threads, TEEC_InvokeCommand(t)
      PROVE  AtRest'
  BY <1>2, TypeParts DEF TEEC_InvokeCommand, Enter
<1>3. ASSUME NEW t \in Threads, TEEC_CloseSession(t)
      PROVE  AtRest'
  BY <1>3, TypeParts DEF TEEC_CloseSession, Enter, Idle
<1>4. ASSUME NEW t \in Threads, OpenSession(t)
      PROVE  AtRest'
  <2>1. mutex_tci' \in Threads /\ app' # "none"
    BY <1>4, OneHolds DEF OpenSession, Held, Control, Placed, Busy, sessionVars
  <2>2. QED
    BY <2>1, BoundsAssumption
<1>5. ASSUME NEW t \in Threads, OpenSessionFails(t)
      PROVE  AtRest'
  <2>1. mutex_tci' \in Threads /\ app' # "none"
    BY <1>5, OneHolds DEF OpenSessionFails, Held, Control, Placed, Busy, sessionVars
  <2>2. QED
    BY <2>1, BoundsAssumption
<1>6. ASSUME NEW t \in Threads, Lock(t)
      PROVE  AtRest'
  BY <1>6, BoundsAssumption DEF Lock, Control, Placed, Busy
<1>7. ASSUME NEW t \in Threads, NoTci(t)
      PROVE  AtRest'
  <2>1. mutex_tci' \in Threads /\ app' # "none"
    BY <1>7, OneHolds DEF NoTci, Held, Control, Placed, Busy, sessionVars
  <2>2. QED
    BY <2>1, BoundsAssumption
<1>8. ASSUME NEW t \in Threads, Begin(t)
      PROVE  AtRest'
  <2>1. mutex_tci' \in Threads /\ app' # "none"
    BY <1>8, OneHolds DEF Begin, Held, Control, Placed, Busy, sessionVars
  <2>2. QED
    BY <2>1, BoundsAssumption
<1>9. ASSUME NEW t \in Threads, SetupFails(t)
      PROVE  AtRest'
  <2>1. mutex_tci' \in Threads /\ app' # "none"
    BY <1>9, OneHolds DEF SetupFails, Held, Control, Placed, Busy, sessionVars
  <2>2. QED
    BY <2>1, BoundsAssumption
<1>10. ASSUME NEW t \in Threads, SetupOperation(t)
      PROVE  AtRest'
  <2>1. mutex_tci' \in Threads /\ app' # "none"
    BY <1>10, OneHolds DEF SetupOperation, Held, Control, Placed, Busy, sessionVars
  <2>2. QED
    BY <2>1, BoundsAssumption
<1>11. ASSUME NEW t \in Threads, Notify(t)
      PROVE  AtRest'
  <2>1. mutex_tci' \in Threads /\ app' # "none"
    BY <1>11, OneHolds DEF Notify, Held, Control, Placed, Busy, sessionVars
  <2>2. QED
    BY <2>1, BoundsAssumption
<1>12. ASSUME NEW t \in Threads, NotifyFails(t)
      PROVE  AtRest'
  <2>1. mutex_tci' \in Threads /\ app' # "none"
    BY <1>12, OneHolds DEF NotifyFails, Held, Control, Placed, Busy, sessionVars
  <2>2. QED
    BY <2>1, BoundsAssumption
<1>13. ASSUME NEW t \in Threads, Wait(t)
      PROVE  AtRest'
  <2>1. mutex_tci' \in Threads /\ app' # "none"
    BY <1>13, OneHolds DEF Wait, Held, Control, Placed, Busy, sessionVars
  <2>2. QED
    BY <2>1, BoundsAssumption
<1>14. ASSUME NEW t \in Threads, ConnectionLost(t)
      PROVE  AtRest'
  <2>1. mutex_tci' \in Threads /\ app' # "none"
    BY <1>14, OneHolds DEF ConnectionLost, Held, Control, Placed, Busy, sessionVars
  <2>2. QED
    BY <2>1, BoundsAssumption
<1>15. ASSUME NEW t \in Threads, Unwind(t)
      PROVE  AtRest'
  <2>1. mutex_tci' \in Threads /\ app' # "none"
    BY <1>15, OneHolds DEF Unwind, Held, Control, Placed, Busy, sessionVars
  <2>2. QED
    BY <2>1, BoundsAssumption
<1>16. ASSUME NEW t \in Threads, CloseSession(t)
      PROVE  AtRest'
  <2>1. mutex_tci' \in Threads /\ app' # "none"
    BY <1>16, OneHolds DEF CloseSession, Held, Control, Placed, Busy, sessionVars
  <2>2. QED
    BY <2>1, BoundsAssumption
<1>17. ASSUME NEW t \in Threads, CloseRefused(t)
      PROVE  AtRest'
  <2>1. mutex_tci' \in Threads /\ app' # "none"
    BY <1>17, OneHolds DEF CloseRefused, Held, Control, Placed, Busy, sessionVars
  <2>2. QED
    BY <2>1, BoundsAssumption
<1>18. ASSUME NEW t \in Threads, Forget(t)
      PROVE  AtRest'
  <2>1. mutex_tci' \in Threads /\ app' # "none"
    BY <1>18, OneHolds DEF Forget, Held, Control, Placed, Busy, sessionVars
  <2>2. QED
    BY <2>1, BoundsAssumption
<1>19. ASSUME NEW t \in Threads, DeleteTci(t)
      PROVE  AtRest'
  <2>1. mutex_tci' \in Threads /\ app' # "none"
    BY <1>19, OneHolds DEF DeleteTci, Held, Control, Placed, Busy, sessionVars
  <2>2. QED
    BY <2>1, BoundsAssumption
<1>20. ASSUME NEW t \in Threads, Unlock(t)
      PROVE  AtRest'
  <2>1. app' # "none"
    BY <1>20 DEF Unlock, Control, Placed, Busy
  <2>2. CASE Stays(t)
    <3>1. tci => Rested
      BY <1>20, <2>2 DEF Unlock, Exchanging, Exchanges
    <3>2. QED
      BY <1>20, <2>1, <3>1 DEF Unlock
  <2>3. CASE ~Stays(t)
    <3>1. pc'[t] = "leave"
      BY <1>20, <2>3, TypeParts DEF Unlock
    <3>2. QED
      BY <2>1, <3>1
  <2>4. QED
    BY <2>2, <2>3
<1>21. ASSUME NEW t \in Threads, Leave(t)
      PROVE  AtRest'
  BY <1>21 DEF Leave
<1>22. ASSUME NEW i \in Calls, TEEC_RequestCancellation(i)
      PROVE  AtRest'
  BY <1>22, TypeParts DEF TEEC_RequestCancellation
<1>23. ASSUME NEW i \in Calls, CancelStarted(i)
      PROVE  AtRest'
  BY <1>23, TypeParts DEF CancelStarted
<1>24. ASSUME NEW i \in Calls, CancelLooks(i)
      PROVE  AtRest'
  BY <1>24, TypeParts DEF CancelLooks
<1>25. ASSUME NEW i \in Calls, CancelMarks(i)
      PROVE  AtRest'
  BY <1>25, TypeParts DEF CancelMarks
<1>26. ASSUME NEW i \in Calls, CancelNotifies(i)
      PROVE  AtRest'
  BY <1>26, TypeParts DEF CancelNotifies
<1>27. CASE TaTakes
  BY <1>27, TypeParts DEF TaTakes
<1>28. CASE TaDoes
  BY <1>28, TypeParts DEF TaDoes
<1>29. CASE TaFinishes
  BY <1>29, TypeParts DEF TaFinishes
<1>30. CASE TaPanics
  BY <1>30, TypeParts DEF TaPanics
<1>31. QED
  BY <1>1, <1>2, <1>3, <1>4, <1>5, <1>6, <1>7, <1>8, <1>9, <1>10, <1>11, <1>12, <1>13,
     <1>14, <1>15, <1>16, <1>17, <1>18, <1>19, <1>20, <1>21, <1>22, <1>23, <1>24,
     <1>25, <1>26, <1>27, <1>28, <1>29, <1>30
  DEF Next, Application, ThreadStep, CancelStep

\* The holder of the mutex finds the TCI as its place says, whatever the TA and the
\* cancellations do.
LEMMA ExchangingKept ==
  ASSUME TypeOK, Control, Ended, Access, Exchange, Next
  PROVE  Exchanging'
<1> USE DEF Exchange, Exchanging
<1>1. ASSUME NEW t \in Threads, TEEC_OpenSession(t)
      PROVE  Exchanging'
  <2>1. \A u \in Threads: u # t => pc'[u] \notin Held
    BY <1>1, TypeParts DEF TEEC_OpenSession, Go, Idle, Held, PlaceTypes
  <2>2. Rested'
    BY <1>1 DEF TEEC_OpenSession, AtRest, Rested, Zeroed, taVars
  <2>3. pc'[t] = "open"
    BY <1>1, TypeParts DEF TEEC_OpenSession, Go, PlaceTypes
  <2>4. Exchanges(t)'
    BY <2>2, <2>3 DEF Exchanges
  <2>5. QED
    BY <2>1, <2>4, Aside
<1>2. ASSUME NEW t \in Threads, TEEC_InvokeCommand(t)
      PROVE  Exchanging'
  <2>1. PICK with: Enter(t, "invoke", with)
    BY <1>2 DEF TEEC_InvokeCommand
  <2>2. pc'[t] \notin Held /\ \A u \in Threads: u # t => pc'[u] = pc[u]
    BY <1>2, <2>1, TypeParts DEF TEEC_InvokeCommand, Enter, Go, Held, PlaceTypes
  <2>3. ASSUME NEW u \in Threads, u # t, Busy(u)
        PROVE  Exchanges(u)'
    <3>1. /\ pc'[u] = pc[u] /\ call'[u] = call[u] /\ kind'[call[u]] = kind[call[u]]
          /\ outcome'[call[u]] = outcome[call[u]]
      BY <1>2, <2>1, <2>2, <2>3, Entered, TypeParts
      DEF TEEC_InvokeCommand, Control, OutcomeTypes
    <3>2. UNCHANGED <<page, ta, doing, toClient, tci, strays>>
      BY <1>2 DEF TEEC_InvokeCommand, taVars, sessionVars, history
    <3>3. QED
      BY <2>3, <3>1, <3>2
      DEF Exchanges, Rested, Unanswered, Answered, Mine, Ending, Stays
  <2>4. QED
    BY <2>2, <2>3, Aside DEF Busy, Held
<1>3. ASSUME NEW t \in Threads, TEEC_CloseSession(t)
      PROVE  Exchanging'
  <2>1. \A u \in Threads: pc'[u] \notin Held
    BY <1>3, TypeParts DEF TEEC_CloseSession, Go, Idle, Held, PlaceTypes
  <2>2. QED
    BY <2>1, Aside
<1>4. ASSUME NEW t \in Threads, OpenSession(t)
      PROVE  Exchanging'
  <2>1. \A u \in Threads: u # t => Exchanges(u)'
    BY <1>4, OneHolds, Aside, TypeParts DEF OpenSession, Go, Control, Held, PlaceTypes
  <2>2. Exchanges(t)'
    BY <1>4, TypeParts DEF OpenSession, Go, PlaceTypes, Exchanges, Rested
  <2>3. QED
    BY <2>1, <2>2
<1>5. ASSUME NEW t \in Threads, OpenSessionFails(t)
      PROVE  Exchanging'
  <2>1. \A u \in Threads: u # t => Exchanges(u)'
    BY <1>5, OneHolds, Aside, TypeParts
    DEF OpenSessionFails, Go, Control, Held, PlaceTypes
  <2>2. Exchanges(t)'
    BY <1>5, TypeParts DEF OpenSessionFails, Go, PlaceTypes, Exchanges
  <2>3. QED
    BY <2>1, <2>2
<1>6. ASSUME NEW t \in Threads, Lock(t)
      PROVE  Exchanging'
  <2>1. \A u \in Threads: u # t => pc'[u] \notin Held
    BY <1>6, TypeParts, BoundsAssumption DEF Lock, Go, Control, Holds, PlaceTypes
  <2>2. tci => Rested
    BY <1>6, TypeParts, BoundsAssumption
    DEF Lock, AtRest, Free, Control, Placed, Alone, Busy
  <2>3. Exchanges(t)'
    BY <1>6, <2>2, TypeParts
    DEF Lock, Go, PlaceTypes, Exchanges, Rested, sessionVars, taVars
  <2>4. QED
    BY <2>1, <2>3, Aside
<1>7. ASSUME NEW t \in Threads, NoTci(t)
      PROVE  Exchanging'
  <2>1. \A u \in Threads: u # t => Exchanges(u)'
    BY <1>7, OneHolds, Aside, TypeParts DEF NoTci, Go, Control, Held, PlaceTypes
  <2>2. Exchanges(t)'
    BY <1>7, TypeParts DEF NoTci, Go, PlaceTypes, Exchanges
  <2>3. QED
    BY <2>1, <2>2
<1>8. ASSUME NEW t \in Threads, Begin(t)
      PROVE  Exchanging'
  <2>1. \A u \in Threads: u # t => Exchanges(u)'
    BY <1>8, OneHolds, Aside, TypeParts DEF Begin, Go, Control, Held, PlaceTypes
  <2>2. /\ pc'[t] = "setup" /\ call' = call
        /\ page'.of = call[t] /\ page'.ready = page.ready /\ UNCHANGED <<ta, toClient>>
    BY <1>8, TypeParts DEF Begin, Go, PlaceTypes, PageTypes, Pages, taVars
  <2>3. Rested
    BY <1>8 DEF Begin, Exchanges
  <2>9. Exchanges(t)'
    BY <2>2, <2>3 DEF Exchanges, Rested
  <2>10. QED
    BY <2>1, <2>9
<1>9. ASSUME NEW t \in Threads, SetupFails(t)
      PROVE  Exchanging'
  <2>1. \A u \in Threads: u # t => Exchanges(u)'
    BY <1>9, OneHolds, Aside, TypeParts DEF SetupFails, Go, Control, Held, PlaceTypes
  <2>2. /\ pc'[t] \in {"close", "unlock"} /\ page'.ready = page.ready
        /\ UNCHANGED <<ta, toClient>>
    BY <1>9, TypeParts DEF SetupFails, Go, PlaceTypes, PageTypes, Pages, taVars
  <2>3. Rested
    BY <1>9 DEF SetupFails, Exchanges
  <2>9. Exchanges(t)'
    BY <2>2, <2>3 DEF Exchanges, Rested
  <2>10. QED
    BY <2>1, <2>9
<1>10. ASSUME NEW t \in Threads, SetupOperation(t)
      PROVE  Exchanging'
  <2>1. \A u \in Threads: u # t => Exchanges(u)'
    BY <1>10, OneHolds, Aside, TypeParts
    DEF SetupOperation, Go, Control, Held, PlaceTypes
  <2>2. /\ pc'[t] = "notify" /\ page'.of = page.of
        /\ UNCHANGED <<call, ta, toClient>>
    BY <1>10, TypeParts DEF SetupOperation, Go, PlaceTypes, PageTypes, Pages, taVars
  <2>3. Rested /\ page.of = call[t]
    BY <1>10 DEF SetupOperation, Exchanges
  <2>9. Exchanges(t)'
    BY <2>2, <2>3 DEF Exchanges, Rested, Unanswered
  <2>10. QED
    BY <2>1, <2>9
<1>11. ASSUME NEW t \in Threads, Notify(t)
      PROVE  Exchanging'
  <2>1. \A u \in Threads: u # t => Exchanges(u)'
    BY <1>11, OneHolds, Aside, TypeParts DEF Notify, Go, Control, Held, PlaceTypes
  <2>2. Exchanges(t)'
    BY <1>11, TypeParts
    DEF Notify, Go, PlaceTypes, Exchanges, Unanswered, Answered, Mine, Ending, callVars,
        history, taVars, sessionVars
  <2>3. QED
    BY <2>1, <2>2
<1>12. ASSUME NEW t \in Threads, NotifyFails(t)
      PROVE  Exchanging'
  <2>1. \A u \in Threads: u # t => Exchanges(u)'
    BY <1>12, OneHolds, Aside, TypeParts DEF NotifyFails, Go, Control, Held, PlaceTypes
  <2>2. pc'[t] = "unwind" /\ outcome'[call'[t]][1] # "none" 
    BY <1>12, TypeParts, MadeCalls
    DEF NotifyFails, Go, PlaceTypes, Ends, OutcomeTypes, Busy, Control, callVars
  <2>9. Exchanges(t)'
    BY <2>2 DEF Exchanges
  <2>10. QED
    BY <2>1, <2>9
<1>13. ASSUME NEW t \in Threads, Wait(t)
      PROVE  Exchanging'
  <2>1. \A u \in Threads: u # t => Exchanges(u)'
    BY <1>13, OneHolds, Aside, TypeParts DEF Wait, Go, Control, Held, PlaceTypes
  <2>2. CASE "panic" \in toClient
    <3>1. pc'[t] = "unwind" /\ outcome'[call'[t]][1] # "none"
      BY <1>13, <2>2, TypeParts, MadeCalls
      DEF Wait, Go, Ends, PlaceTypes, OutcomeTypes, Busy, Control, callVars
    <3>2. QED
      BY <2>1, <3>1 DEF Exchanges
  <2>3. CASE "panic" \notin toClient
    <3>1. ~Unanswered(t)
      BY <1>13, <2>3, TypeParts DEF Wait, WaitNotification, Unanswered, TaTypes
    <3>2. Answered(t)
      BY <1>13, <3>1 DEF Wait, Exchanging, Exchanges
    <3>3. Answered(t)' /\ "answer" \notin toClient'
      BY <1>13, <3>2
      DEF Wait, WaitNotification, Answered, Mine, Ending, callVars, taVars, history
    <3>4. pc'[t] = "unwind"
      BY <1>13, TypeParts DEF Wait, Go, PlaceTypes
    <3>5. QED
      BY <2>1, <3>3, <3>4 DEF Exchanges
  <2>4. QED
    BY <2>1, <2>2, <2>3
<1>14. ASSUME NEW t \in Threads, ConnectionLost(t)
      PROVE  Exchanging'
  <2>1. \A u \in Threads: u # t => Exchanges(u)'
    BY <1>14, OneHolds, Aside, TypeParts
    DEF ConnectionLost, Go, Control, Held, PlaceTypes
  <2>2. pc'[t] = "unwind" /\ outcome'[call'[t]][1] # "none" 
    BY <1>14, TypeParts, MadeCalls
    DEF ConnectionLost, Go, PlaceTypes, Ends, OutcomeTypes, Busy, Control, callVars
  <2>9. Exchanges(t)'
    BY <2>2 DEF Exchanges
  <2>10. QED
    BY <2>1, <2>9
<1>15. ASSUME NEW t \in Threads, Unwind(t)
      PROVE  Exchanging'
  <2>1. \A u \in Threads: u # t => Exchanges(u)'
    BY <1>15, OneHolds, Aside, TypeParts
    DEF Unwind, Go, Control, Held, PlaceTypes, After
  <2>2. CASE outcome[call[t]][1] = "none"
    <3>1. Answered(t) /\ "answer" \notin toClient
      BY <1>15, <2>2 DEF Unwind, Exchanging, Exchanges
    <3>2. pc'[t] = "unlock" => Rested'
      <4>0. pc'[t] = After(t, page.status[1])
        BY <1>15, TypeParts DEF Unwind, Go, PlaceTypes
      <4>1. pc'[t] = "unlock" => \/ kind[call[t]] = "invoke"
                                 \/ kind[call[t]] = "open" /\ page.status[1] = "answer"
        BY <2>2, <4>0 DEF After
      <4>2. pc'[t] = "unlock" => Rested
        BY <3>1, <4>1, TypeParts DEF Answered, Ending, Rested, TaTypes
      <4>3. QED
        BY <1>15, <4>2 DEF Unwind, Rested, taVars
    <3>3. pc'[t] \in {"break", "unlock", "close"}
      BY <1>15, TypeParts DEF Unwind, After, Go, PlaceTypes
    <3>4. QED
      BY <2>1, <3>2, <3>3 DEF Exchanges
  <2>3. CASE outcome[call[t]][1] # "none"
    <3>1. pc'[t] = "break"
      BY <1>15, <2>3, TypeParts, Breaks DEF Unwind, Go, PlaceTypes
    <3>2. QED
      BY <2>1, <3>1 DEF Exchanges
  <2>4. QED
    BY <2>1, <2>2, <2>3
<1>16. ASSUME NEW t \in Threads, CloseSession(t)
      PROVE  Exchanging'
  <2>1. \A u \in Threads: u # t => Exchanges(u)'
    BY <1>16, OneHolds, Aside, TypeParts DEF CloseSession, Go, Control, Held, PlaceTypes
  <2>2. Exchanges(t)'
    BY <1>16, TypeParts DEF CloseSession, Go, PlaceTypes, Exchanges
  <2>3. QED
    BY <2>1, <2>2
<1>17. ASSUME NEW t \in Threads, CloseRefused(t)
      PROVE  Exchanging'
  <2>1. \A u \in Threads: u # t => Exchanges(u)'
    BY <1>17, OneHolds, Aside, TypeParts DEF CloseRefused, Go, Control, Held, PlaceTypes
  <2>2. Exchanges(t)'
    BY <1>17, TypeParts
    DEF CloseRefused, Go, PlaceTypes, Exchanges, Access, Stays, callVars
  <2>3. QED
    BY <2>1, <2>2
<1>18. ASSUME NEW t \in Threads, Forget(t)
      PROVE  Exchanging'
  <2>1. \A u \in Threads: u # t => Exchanges(u)'
    BY <1>18, OneHolds, Aside, TypeParts DEF Forget, Go, Control, Held, PlaceTypes
  <2>2. Exchanges(t)'
    BY <1>18, TypeParts DEF Forget, Go, PlaceTypes, Exchanges, Access, Stays, callVars
  <2>3. QED
    BY <2>1, <2>2
<1>19. ASSUME NEW t \in Threads, DeleteTci(t)
      PROVE  Exchanging'
  <2>1. \A u \in Threads: u # t => Exchanges(u)'
    BY <1>19, OneHolds, Aside, TypeParts DEF DeleteTci, Go, Control, Held, PlaceTypes
  <2>2. Exchanges(t)'
    BY <1>19, TypeParts
    DEF DeleteTci, Go, PlaceTypes, Exchanges, Access, Stays, callVars
  <2>3. QED
    BY <2>1, <2>2
<1>20. ASSUME NEW t \in Threads, Unlock(t)
      PROVE  Exchanging'
  <2>1. \A u \in Threads: pc'[u] \notin Held
    BY <1>20, OneHolds, TypeParts DEF Unlock, Go, Control, Held, PlaceTypes
  <2>2. QED
    BY <2>1, Aside
<1>21. ASSUME NEW t \in Threads, Leave(t)
      PROVE  Exchanging'
  <2>1. \A u \in Threads: pc'[u] \notin Held
    BY <1>21, TypeParts DEF Leave, Go, Control, Placed, Alone, Busy, Held, PlaceTypes
  <2>2. QED
    BY <2>1, Aside
<1>22. ASSUME NEW i \in Calls, TEEC_RequestCancellation(i)
      PROVE  Exchanging'
  <2>1. UNCHANGED <<callVars, pc, call, outcome, page, taVars, toClient, tci, strays>>
    BY <1>22 DEF TEEC_RequestCancellation, history, sessionVars
  <2>2. QED
    BY <2>1
    DEF Exchanges, Rested, Unanswered, Answered, Mine, Ending, Stays, callVars, taVars
<1>23. ASSUME NEW i \in Calls, CancelStarted(i)
      PROVE  Exchanging'
  <2>1. UNCHANGED <<callVars, pc, call, outcome, page, taVars, toClient, tci, strays>>
    BY <1>23 DEF CancelStarted, history, sessionVars
  <2>2. QED
    BY <2>1
    DEF Exchanges, Rested, Unanswered, Answered, Mine, Ending, Stays, callVars, taVars
<1>24. ASSUME NEW i \in Calls, CancelLooks(i)
      PROVE  Exchanging'
  <2>1. UNCHANGED <<callVars, pc, call, outcome, page, taVars, toClient, tci, strays>>
    BY <1>24 DEF CancelLooks, history, sessionVars
  <2>2. QED
    BY <2>1
    DEF Exchanges, Rested, Unanswered, Answered, Mine, Ending, Stays, callVars, taVars
<1>25. ASSUME NEW i \in Calls, CancelMarks(i)
      PROVE  Exchanging'
  <2>1. UNCHANGED <<callVars, pc, call, outcome, taVars, toClient, tci>>
    BY <1>25 DEF CancelMarks, sessionVars
  <2>2. /\ page'.of = page.of /\ page'.ready = page.ready /\ page'.status = page.status
        /\ strays \subseteq strays'
    BY <1>25, TypeParts DEF CancelMarks, PageTypes, Pages
  <2>3. QED
    BY <2>1, <2>2
    DEF Exchanges, Rested, Unanswered, Answered, Mine, Ending, Stays, callVars, taVars
<1>26. ASSUME NEW i \in Calls, CancelNotifies(i)
      PROVE  Exchanging'
  <2>1. UNCHANGED <<callVars, pc, call, outcome, page, taVars, toClient, tci, strays>>
    BY <1>26 DEF CancelNotifies, history, sessionVars
  <2>2. QED
    BY <2>1
    DEF Exchanges, Rested, Unanswered, Answered, Mine, Ending, Stays, callVars, taVars
<1>27. CASE TaTakes
  <2>1. UNCHANGED <<callVars, pc, call, outcome, tci, strays>>
    BY <1>27 DEF TaTakes, TaAnswers, clientVars, sessionVars
  <2> SUFFICES ASSUME NEW t \in Threads
               PROVE  Exchanges(t)'
    OBVIOUS
  <2>2. Exchanges(t)
    OBVIOUS
  <2>3. CASE page.ready
    <3>1. ~Rested /\ ~Answered(t)
      BY <2>3 DEF Rested, Answered
    <3>2. /\ ta' = "works" /\ doing' = page.of /\ ~page'.ready /\ page'.of = page.of
          /\ UNCHANGED toClient
      BY <1>27, <2>3, TypeParts DEF TaTakes, PageTypes, Pages
    <3>3. Unanswered(t) /\ page.of = call[t] => Unanswered(t)'
      BY <2>1, <3>2 DEF Unanswered
    <3>4. QED
      BY <2>1, <2>2, <3>1, <3>2, <3>3 DEF Exchanges, Stays, callVars
  <2>4. CASE ~page.ready
    <3>1. UNCHANGED <<taVars, page, toClient>>
      BY <1>27, <2>4 DEF TaTakes
    <3>2. QED
      BY <2>1, <2>2, <3>1
      DEF Exchanges, Rested, Unanswered, Answered, Mine, Ending, Stays, callVars, taVars
  <2>5. QED
    BY <2>3, <2>4
<1>28. CASE TaDoes
  <2>1. UNCHANGED <<callVars, pc, call, outcome, tci, strays>>
    BY <1>28 DEF TaDoes, TaAnswers, clientVars, sessionVars
  <2> SUFFICES ASSUME NEW t \in Threads
               PROVE  Exchanges(t)'
    OBVIOUS
  <2>2. Exchanges(t)
    OBVIOUS
  <2>3. ~Rested /\ ~Answered(t)
    BY <1>28 DEF TaDoes, Rested, Answered
  <2>4. page'.of = page.of /\ page'.ready = page.ready
    BY <1>28, TypeParts DEF TaDoes, TaAnswers, PageTypes, Pages
  <2>5. ASSUME Unanswered(t), page.of = call[t]
        PROVE  Answered(t)'
    <3>1. doing = call[t] /\ ~page.ready /\ "finished" \notin toClient
      BY <1>28, <2>5 DEF TaDoes, Unanswered
    <3>2. PICK result, by, from:
            /\ TaAnswers(result, by, from)
            /\ result \in {"answer", "denied", "error", "cancelled"}
            /\ result # "cancelled" => by = call[t]
            /\ result = "cancelled" => by \in {call[t]} \cup strays
      BY <1>28, <2>5, <3>1 DEF TaDoes, Marks
    <3>3. page'.status[1] = result /\ page'.status[2] = by
      BY <3>2, TypeParts DEF TaAnswers, PageTypes, Pages
    <3>4. Mine(t)'
      BY <2>1, <3>2, <3>3 DEF Mine
    <3>5. /\ ta' = IF kind[call[t]] = "close" \/ (kind[call[t]] = "open" /\ result # "answer")
                   THEN "ends" ELSE "waits"
          /\ "finished" \notin toClient'
      BY <3>1, <3>2 DEF TaAnswers
    <3>6. ta' # "works" /\ (ta' = "ends" => Ending(t)')
      BY <2>1, <3>3, <3>5 DEF Ending, callVars
    <3>7. QED
      BY <2>4, <3>1, <3>4, <3>5, <3>6 DEF Answered
  <2>6. QED
    BY <2>1, <2>2, <2>3, <2>4, <2>5 DEF Exchanges, Stays, callVars
<1>29. CASE TaFinishes
  <2>1. UNCHANGED <<callVars, pc, call, outcome, tci, strays>>
    BY <1>29 DEF TaFinishes, TaAnswers, clientVars, sessionVars
  <2> SUFFICES ASSUME NEW t \in Threads
               PROVE  Exchanges(t)'
    OBVIOUS
  <2>2. Exchanges(t)
    OBVIOUS
  <2>3. /\ ta = "ends" /\ ta' = "gone" /\ toClient' = toClient \cup {"finished"}
        /\ UNCHANGED page
    BY <1>29 DEF TaFinishes
  <2>4. ~Rested /\ ~Unanswered(t)
    BY <2>3 DEF Rested, Unanswered
  <2>5. Answered(t) => Answered(t)'
    BY <2>1, <2>3 DEF Answered, Mine, Ending, callVars
  <2>6. QED
    BY <2>1, <2>2, <2>3, <2>4, <2>5 DEF Exchanges, Stays, callVars
<1>30. CASE TaPanics
  <2>1. UNCHANGED <<callVars, pc, call, outcome, tci, strays>>
    BY <1>30 DEF TaPanics, TaAnswers, clientVars, sessionVars
  <2> SUFFICES ASSUME NEW t \in Threads
               PROVE  Exchanges(t)'
    OBVIOUS
  <2>2. Exchanges(t)
    OBVIOUS
  <2>3. /\ ta' = "gone" /\ toClient' = toClient \cup {"panic"} /\ UNCHANGED page
    BY <1>30 DEF TaPanics
  <2>4. /\ Rested => Rested'
        /\ Unanswered(t) => Unanswered(t)'
        /\ Answered(t) => Answered(t)'
    BY <2>1, <2>3 DEF Rested, Unanswered, Answered, Mine, Ending, callVars
  <2>5. QED
    BY <2>1, <2>2, <2>3, <2>4 DEF Exchanges, Stays, callVars
<1>31. QED
  BY <1>1, <1>2, <1>3, <1>4, <1>5, <1>6, <1>7, <1>8, <1>9, <1>10, <1>11, <1>12, <1>13,
     <1>14, <1>15, <1>16, <1>17, <1>18, <1>19, <1>20, <1>21, <1>22, <1>23, <1>24,
     <1>25, <1>26, <1>27, <1>28, <1>29, <1>30
  DEF Next, Application, ThreadStep, CancelStep

(***************************************************************************)
(* What the calls return.                                                   *)
(***************************************************************************)
\* What has once come too late stays so.
LEMMA StraysGrow ==
  ASSUME Next
  PROVE  strays \subseteq strays'
  BY DEF Next, Application, ThreadStep, CancelStep, TEEC_OpenSession,
    TEEC_InvokeCommand, TEEC_CloseSession, OpenSession, OpenSessionFails, Lock, NoTci,
    Begin, SetupFails, SetupOperation, Notify, NotifyFails, Wait, ConnectionLost,
    Unwind, CloseSession, CloseRefused, Forget, DeleteTci, Unlock, Leave,
    TEEC_RequestCancellation, CancelStarted, CancelLooks, CancelMarks, CancelNotifies,
    TaTakes, TaDoes, TaFinishes, TaPanics, TaAnswers, history, clientVars

Right(result, i) == /\ result[1] # "bad_state"
                    /\ result[1] \in {"answer", "denied", "error"} => result[2] = i
                    /\ result[1] = "cancelled" => result[2] \in {i} \cup strays

\* An outcome that is right for its call disturbs no other.
LEMMA OneOutcome ==
  ASSUME OutcomeTypes, AnswerIsMine, CancelledByOwn, strays \subseteq strays',
         NEW i \in Calls, NEW result, Right(result, i),
         outcome' = [outcome EXCEPT ![i] = result]
  PROVE  AnswerIsMine' /\ CancelledByOwn'
<1>1. ASSUME NEW j \in Calls
      PROVE  Right(outcome'[j], j)
  BY DEF OutcomeTypes, Right, AnswerIsMine, CancelledByOwn
<1>2. QED
  BY <1>1 DEF Right, AnswerIsMine, CancelledByOwn

\* An error of the library's own is nobody's answer.
LEMMA OwnError ==
  ASSUME OutcomeTypes, AnswerIsMine, CancelledByOwn, strays \subseteq strays',
         NEW t \in Threads, call[t] \in Calls,
         NEW what \in {"failed", "dead", "comm", "crashed"}, Ends(t, <<what, call[t]>>)
  PROVE  AnswerIsMine' /\ CancelledByOwn'
<1>1. Right(<<what, call[t]>>, call[t])
  BY DEF Right
<1>2. QED
  BY <1>1, OneOutcome DEF Ends

\* Every outcome is right when it is written.
LEMMA OutcomesRight ==
  ASSUME TypeOK, Control, Ended, Exchange, AnswerIsMine, CancelledByOwn, Next
  PROVE  AnswerIsMine' /\ CancelledByOwn'
<1>0. /\ OutcomeTypes /\ CallTypes /\ strays \subseteq strays'
      /\ \A t \in Threads: Busy(t) => call[t] \in Calls
  BY TypeParts, MadeCalls, StraysGrow DEF Control
<1> USE <1>0
<1>1. ASSUME NEW t \in Threads, TEEC_InvokeCommand(t)
      PROVE  AnswerIsMine' /\ CancelledByOwn'
  <2>1. calls' \in Calls
    BY <1>1, NewCall DEF TEEC_InvokeCommand, Enter
  <2>2. CASE outcome' = [outcome EXCEPT ![calls'] = <<"inactive", calls'>>]
    BY <2>1, <2>2, OneOutcome DEF Right
  <2>3. CASE UNCHANGED outcome
    BY <2>3 DEF AnswerIsMine, CancelledByOwn
  <2>4. QED
    BY <1>1, <2>2, <2>3 DEF TEEC_InvokeCommand
<1>2. ASSUME NEW t \in Threads, OpenSessionFails(t)
      PROVE  AnswerIsMine' /\ CancelledByOwn'
  BY <1>2, OwnError DEF OpenSessionFails, Busy
<1>3. ASSUME NEW t \in Threads, NoTci(t)
      PROVE  AnswerIsMine' /\ CancelledByOwn'
  BY <1>3, OwnError DEF NoTci, Busy
<1>4. ASSUME NEW t \in Threads, NotifyFails(t)
      PROVE  AnswerIsMine' /\ CancelledByOwn'
  BY <1>4, OwnError DEF NotifyFails, Busy
<1>5. ASSUME NEW t \in Threads, ConnectionLost(t)
      PROVE  AnswerIsMine' /\ CancelledByOwn'
  BY <1>5, OwnError DEF ConnectionLost, Busy
<1>6. ASSUME NEW t \in Threads, Wait(t)
      PROVE  AnswerIsMine' /\ CancelledByOwn'
  <2>1. CASE Ends(t, <<"dead", call[t]>>)
    BY <1>6, <2>1, OwnError DEF Wait, Busy
  <2>2. CASE UNCHANGED outcome
    BY <2>2 DEF AnswerIsMine, CancelledByOwn
  <2>3. QED
    BY <1>6, <2>1, <2>2 DEF Wait
<1>7. ASSUME NEW t \in Threads, SetupFails(t)
      PROVE  AnswerIsMine' /\ CancelledByOwn'
  <2>1. page.cancelled # None => page.cancelled \in {call[t]} \cup strays
    BY <1>7 DEF SetupFails, Exchange, Exchanging, Exchanges, Marks
  <2>2. CASE page.cancelled # None /\ Ends(t, <<"cancelled", page.cancelled>>)
    <3>1. Right(<<"cancelled", page.cancelled>>, call[t])
      BY <2>1, <2>2 DEF Right
    <3>2. call[t] \in Calls
      BY <1>7 DEF SetupFails, Busy
    <3>3. QED
      BY <2>2, <3>1, <3>2, OneOutcome DEF Ends
  <2>3. CASE Ends(t, <<"failed", call[t]>>)
    BY <1>7, <2>3, OwnError DEF SetupFails, Busy
  <2>4. QED
    BY <1>7, <2>2, <2>3 DEF SetupFails
<1>8. ASSUME NEW t \in Threads, Unwind(t)
      PROVE  AnswerIsMine' /\ CancelledByOwn'
  <2>1. CASE outcome[call[t]][1] = "none"
    <3>1. Mine(t)
      BY <1>8, <2>1 DEF Unwind, Exchange, Exchanging, Exchanges, Answered
    <3>2. Right(page.status, call[t])
      BY <3>1 DEF Mine, Right
    <3>3. QED
      BY <1>8, <2>1, <3>2, OneOutcome DEF Unwind, Ends, Busy
  <2>2. CASE outcome[call[t]][1] # "none"
    BY <1>8, <2>2 DEF Unwind, AnswerIsMine, CancelledByOwn
  <2>3. QED
    BY <2>1, <2>2
<1>9. CASE UNCHANGED outcome
  BY <1>9 DEF AnswerIsMine, CancelledByOwn
<1>10. QED
  BY <1>1, <1>2, <1>3, <1>4, <1>5, <1>6, <1>7, <1>8, <1>9, OutcomeFrame

(***************************************************************************)
(* The theorems.                                                            *)
(***************************************************************************)
\* The three facts of the invariant.
LEMMA Starts ==
  ASSUME Init
  PROVE  IInv
<1> USE DEF Init
<1>1. TypeOK
  <2>1. Zeroed \in Pages
    BY DEF Zeroed, Pages, Answers, CallOrNone
  <2>2. outcome \in [Calls -> Outcomes]
    BY DEF Outcomes, Answers, CallOrNone
  <2>3. pc \in [Threads -> Places] /\ call \in [Threads -> CallOrNone]
    BY DEF Places, CallOrNone
  <2>4. calls \in 0..MaxCalls /\ failed \in 0..MaxFailures
    BY CallNumbers
  <2>5. CallTypes /\ PlaceTypes
    BY <2>3, <2>4 DEF CallTypes, PlaceTypes
  <2>6. SessionTypes /\ OperationTypes
    <3>1. SessionTypes
      BY DEF SessionTypes
    <3>2. started \in [Calls -> 0..2]
      BY SMT
    <3>3. OperationTypes
      BY <3>2 DEF OperationTypes
    <3>4. QED
      BY <3>1, <3>3
  <2>7. FailureTypes /\ OutcomeTypes /\ TaTypes /\ PageTypes
    BY <2>1, <2>2, <2>4, CallNumbers DEF FailureTypes, OutcomeTypes, TaTypes, PageTypes
  <2>8. QED
    BY <2>5, <2>6, <2>7, TypeParts
<1>2. Control
  BY DEF Control, Numbered, Holds, Held, Alone, Placed, Busy
<1>3. Ended /\ Access /\ Crashes
  BY DEF Ended, Access, Crashes, Calls
<1>4. Exchange
  BY DEF Exchange, Exchanging, Exchanges, AtRest, Free, Rested, Marks, Zeroed
<1>5. Memory
  BY DEF Memory, Operating
<1>6. AnswerIsMine /\ CancelledByOwn
  BY DEF AnswerIsMine, CancelledByOwn
<1>7. QED
  BY <1>1, <1>2, <1>3, <1>4, <1>5, <1>6 DEF IInv

LEMMA Steps ==
  ASSUME IInv, [Next]_vars
  PROVE  IInv'
<1> USE DEF IInv
<1>1. CASE Next
  <2>1. TypeOK' /\ Control'
    BY <1>1, TypesKept, NumberedKept, HoldsKept, AloneKept, PlacedKept DEF Control
  <2>2. Ended' /\ Access' /\ Crashes'
    BY <1>1, EndedKept, AccessKept, CrashesKept DEF Control
  <2>3. Exchange'
    BY <1>1, ExchangingKept, AtRestKept, MarksKept DEF Exchange
  <2>4. Memory' /\ AnswerIsMine' /\ CancelledByOwn'
    BY <1>1, MemoryKept, OutcomesRight
  <2>5. QED
    BY <2>1, <2>2, <2>3, <2>4
<1>2. CASE UNCHANGED vars
  BY <1>2
  DEF vars, callVars, sessionVars, taVars, history, TypeOK, Control, Numbered, Holds, Alone,
      Placed, Busy, Ended, Broken, SomeBroken, Access, Crashes, Stays, Exchange, Exchanging,
      Exchanges, Rested, Unanswered, Answered, Mine, Ending, AtRest, Free, Marks, Memory,
      Operating, Maps, AnswerIsMine, CancelledByOwn
<1>3. QED
  BY <1>1, <1>2

LEMMA Suffices ==
  ASSUME IInv
  PROVE  Inv
<1> USE DEF IInv
<1>1. TciThere
  BY DEF TciThere, Access, Crashes, SomeBroken
<1>2. MemoryReturned
  BY DEF MemoryReturned, Memory, Operating, Using, Control, Holds, Held
<1>3. QED
  BY <1>1, <1>2 DEF Inv

LEMMA Always == Spec => []IInv
<1>1. Init => IInv
  BY Starts
<1>2. IInv /\ [Next]_vars => IInv'
  BY Steps
<1>3. QED
  BY <1>1, <1>2, PTL DEF Spec

\* Every call of the GP client API returns the TA's answer to it, or an error of its own;
\* the TCI is mapped where _TEEC_CallTA() and TEEC_RequestCancellation() use it, but for
\* the two lapses TciThere names; and the memory of an operation is unmapped when its
\* call ends, unless the unwinding was cut short, refused, or the close was refused.
THEOREM GpClientInvariant == Spec => []Inv
<1>1. IInv => Inv
  BY Suffices
<1>2. QED
  BY <1>1, Always, PTL

\* TEEC_RequestCancellation() cancels the operation it names, or else it has marked the
\* TCI after that operation had left it.
THEOREM CancellationsHit == Spec => []CancelledByOwn
<1>1. IInv => CancelledByOwn
  BY DEF IInv
<1>2. QED
  BY <1>1, Always, PTL

=============================================================================
