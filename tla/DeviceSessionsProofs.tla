------------------------ MODULE DeviceSessionsProofs ------------------------
(***************************************************************************)
(* Proofs about DeviceSessions: its types, that the daemon's session list  *)
(* and the SWd's sessions agree as long as there is no fault, that a       *)
(* session gets its own notifications only, that none of them is lost or   *)
(* doubled, that no session without an owner is forgotten, and that the    *)
(* assert() of closeSession holds.                                         *)
(***************************************************************************)
EXTENDS DeviceSessions, FiniteSetTheorems, FunctionTheorems, TLAPS

\* Where the MCP notifications of a queue are when an element is appended or
\* taken.
LEMMA AppendOther ==
  ASSUME NEW q \in Seq(Note), NEW n \in Note, n.sid # SID_MCP
  PROVE  McpAt(Append(q, n)) = McpAt(q)
BY DEF McpAt

LEMMA AppendMcp ==
  ASSUME NEW q \in Seq(Note), McpAt(q) = {}
  PROVE  McpAt(Append(q, McpNote)) = {Len(q) + 1}
BY DEF McpAt, McpNote

LEMMA TailNone ==
  ASSUME NEW q \in Seq(Note), q # <<>>, McpAt(q) = {}
  PROVE  McpAt(Tail(q)) = {}
BY DEF McpAt

LEMMA TailOther ==
  ASSUME NEW q \in Seq(Note), q # <<>>, Head(q).sid # SID_MCP,
         NEW i \in DOMAIN q, McpAt(q) = {i}
  PROVE  \E j \in DOMAIN Tail(q) : McpAt(Tail(q)) = {j}
<1>1. i # 1
  BY DEF McpAt
<1>2. i - 1 \in DOMAIN Tail(q) /\ Tail(q)[i - 1] = q[i]
  BY <1>1
<1>3. McpAt(Tail(q)) = {i - 1}
  BY <1>1, <1>2 DEF McpAt
<1> QED BY <1>2, <1>3

LEMMA TailMcp ==
  ASSUME NEW q \in Seq(Note), q # <<>>, Head(q).sid = SID_MCP,
         NEW i \in DOMAIN q, McpAt(q) = {i}
  PROVE  McpAt(Tail(q)) = {}
<1>1. i = 1
  BY DEF McpAt
<1> QED BY <1>1 DEF McpAt

-----------------------------------------------------------------------------
(* Types.                                                                  *)

LEMMA BecomeType ==
  ASSUME DaemonTypes, NEW t \in Threads, NEW j \in Job, Become(t, j)
  PROVE  job' \in [Threads -> Job]
BY DEF DaemonTypes, Become

LEMMA IdleType ==
  /\ Idle \in Job
  /\ \A p \in Pcs : [Idle EXCEPT !.pc = p] \in Job
  /\ \A p \in Pcs, s \in Sids : [Idle EXCEPT !.pc = p, !.sid = s] \in Job
BY DEF Job, Idle, Pcs

LEMMA JobType ==
  ASSUME NEW p \in Pcs, NEW c \in Clients \cup {NULL},
         NEW s \in Sids \cup {NULL}, NEW d \in BOOLEAN
  PROVE  [pc |-> p, client |-> c, sid |-> s, drop |-> d] \in Job
BY DEF Job

LEMMA JobChange ==
  ASSUME NEW j \in Job, NEW p \in Pcs, NEW s \in Sids \cup {NULL}
  PROVE  /\ [j EXCEPT !.pc = p] \in Job
         /\ [j EXCEPT !.pc = p, !.sid = s] \in Job
BY DEF Job

LEMMA CountType ==
  ASSUME NEW d \in [Sids -> Nat], NEW s
  PROVE  [d EXCEPT ![s] = @ + 1] \in [Sids -> Nat]
<1>1. s \in Sids => d[s] + 1 \in Nat
  OBVIOUS
<1> QED
  BY <1>1

LEMMA SendType ==
  ASSUME McpTypes, NEW id \in {"open", "close"}, NEW s \in Sids \cup {NULL},
         NEW c \in Clients \cup {NULL}, id = "close" => s \in Sids,
         SendMcp(id, s, c)
  PROVE  McpTypes'
BY ConstantsAssumption DEF McpTypes, McpMessage, Results, SendMcp, Put

LEMMA ReturnsType ==
  ASSUME McpTypes, NEW id, NEW r, McpReturns(id, r)
  PROVE  McpTypes'
<1>1. WaitMcp \/ WaitMcpFails
  BY DEF McpReturns
<1>2. mcpMessage' = mcpMessage /\ nqOut' = nqOut
  BY <1>1 DEF WaitMcp, WaitMcpFails
<1>3. mcpSessionNotification' \in Nat
  BY <1>1 DEF WaitMcp, WaitMcpFails, McpTypes
<1>4. mcFault' \in BOOLEAN
  BY <1>1 DEF WaitMcp, WaitMcpFails, McpTypes
<1> QED
  BY <1>2, <1>3, <1>4 DEF McpTypes

LEMMA QueueType ==
  ASSUME SessionTypes, NEW s, NEW n \in Note, QueueNotification(s, n)
  PROVE  /\ sessionState' \in [Sids -> {"running", "dead", "closeSend"}]
         /\ queued' \in [Sids -> Seq(Note)]
<1> DEFINE st == IF s \in GpSids /\ n.payload = "exit" /\ sessionState[s] # "dead"
                   THEN "dead" ELSE sessionState[s]
<1>1. sessionState' = [sessionState EXCEPT ![s] = st]
  BY DEF QueueNotification
<1>2. s \in Sids => st \in {"running", "dead", "closeSend"}
  BY DEF SessionTypes
<1>3. queued' = queued \/ queued' = [queued EXCEPT ![s] = Append(queued[s], n)]
  BY DEF QueueNotification
<1>4. sessionState' \in [Sids -> {"running", "dead", "closeSend"}]
  BY <1>1, <1>2 DEF SessionTypes
<1>5. s \in Sids => Append(queued[s], n) \in Seq(Note)
  BY DEF SessionTypes
<1>6. queued' \in [Sids -> Seq(Note)]
  BY <1>3, <1>5 DEF SessionTypes
<1> QED
  BY <1>4, <1>6

LEMMA DeleteType ==
  ASSUME SessionTypes, NEW s \in Sids, DeleteSession(s)
  PROVE  SessionTypes'
BY DEF SessionTypes, DeleteSession

LEMMA AnswersType ==
  ASSUME McpTypes, nqIn \in Seq(Note), NEW r \in Results,
         NEW s \in Sids \cup {NULL}, mcpMessage.id = "close" => s \in Sids,
         SwdAnswers(r, s)
  PROVE  McpTypes' /\ nqIn' \in Seq(Note)
<1>1. McpNote \in Note
  BY DEF McpNote, Note, Payloads
<1>2. /\ mcpMessage' \in McpMessage
      /\ mcpMessage'.id = "close" => mcpMessage'.sid \in Sids
  BY DEF McpTypes, McpMessage, SwdAnswers
<1>3. nqOut' \in 0..NqSize
  BY ConstantsAssumption DEF McpTypes, SwdAnswers
<1> QED
  BY <1>1, <1>2, <1>3 DEF McpTypes, SwdAnswers

LEMMA FrameType ==
  ASSUME TypeOK
  PROVE  /\ UNCHANGED sessionVars => SessionTypes'
         /\ UNCHANGED <<unknown, mutex_mcp, exitWakeups, job>> => DaemonTypes'
         /\ UNCHANGED mcpVars => McpTypes'
         /\ UNCHANGED clientVars => ClientTypes'
         /\ UNCHANGED <<nqIn, swdVars>> => SwdTypes'
<1>1. UNCHANGED sessionVars => SessionTypes'
  BY DEF TypeOK, SessionTypes, sessionVars
<1>2. UNCHANGED <<unknown, mutex_mcp, exitWakeups, job>> => DaemonTypes'
  BY DEF TypeOK, DaemonTypes
<1>3. UNCHANGED mcpVars => McpTypes'
  BY DEF TypeOK, McpTypes, mcpVars
<1>4. UNCHANGED clientVars => ClientTypes'
  BY DEF TypeOK, ClientTypes, clientVars
<1>5. UNCHANGED <<nqIn, swdVars>> => SwdTypes'
  BY DEF TypeOK, SwdTypes, swdVars
<1> QED
  BY <1>1, <1>2, <1>3, <1>4, <1>5

\* Every step keeps every variable in its type.
LEMMA TypeStep ==
  ASSUME TypeOK, Answers, Next
  PROVE  TypeOK'
<1>1. ASSUME NEW c \in Clients, ReadCommand(c) PROVE TypeOK'
  <2>1. ClientTypes'
    BY <1>1
    DEF ReadCommand, TypeOK, ClientTypes
  <2> QED
    BY <1>1, <2>1, FrameType DEF ReadCommand, TypeOK
<1>2. ASSUME NEW c \in Clients, Die(c) PROVE TypeOK'
  <2>1. ClientTypes'
    BY <1>2
    DEF Die, TypeOK, ClientTypes
  <2> QED
    BY <1>2, <2>1, FrameType DEF Die, TypeOK
<1>3. ASSUME NEW w \in Workers, NEW c \in Clients, OpenDevice(w, c) PROVE TypeOK'
  <2>1. ClientTypes'
    BY <1>3
    DEF OpenDevice, TypeOK, ClientTypes, Command
  <2> QED
    BY <1>3, <2>1, FrameType DEF OpenDevice, TypeOK
<1>4. ASSUME NEW w \in Workers, NEW c \in Clients, OpenSession(w, c) PROVE TypeOK'
  <2>1. job' \in [Threads -> Job]
    BY <1>4, BecomeType, IdleType, JobType, JobChange DEF OpenSession, TypeOK, Threads, Pcs
  <2>2. DaemonTypes'
    BY <1>4, <2>1 DEF OpenSession, TypeOK, DaemonTypes, Threads
  <2>3. McpTypes'
    BY <1>4, SendType DEF OpenSession, TypeOK
  <2>4. ClientTypes'
    BY <1>4 DEF OpenSession, Command, TypeOK, ClientTypes
  <2> QED
    BY <1>4, <2>2, <2>3, <2>4, FrameType DEF OpenSession, TypeOK
<1>5. ASSUME NEW w \in Workers, NEW c \in Clients, CloseDevice(w, c) PROVE TypeOK'
  <2>1. DaemonTypes'
    BY <1>5, BecomeType, IdleType, JobType, JobChange
    DEF CloseDevice, TypeOK, DaemonTypes, BeginDrop, Threads, Pcs
  <2>2. ClientTypes'
    BY <1>5
    DEF CloseDevice, TypeOK, ClientTypes, Command, BeginDrop
  <2> QED
    BY <1>5, <2>1, <2>2, FrameType DEF CloseDevice, BeginDrop, TypeOK
<1>6. ASSUME NEW w \in Workers, NEW c \in Clients, DropConnection(w, c) PROVE TypeOK'
  <2>1. DaemonTypes'
    BY <1>6, BecomeType, IdleType, JobType, JobChange
    DEF DropConnection, TypeOK, DaemonTypes, BeginDrop, Threads, Pcs
  <2>2. ClientTypes'
    BY <1>6
    DEF DropConnection, TypeOK, ClientTypes, BeginDrop
  <2> QED
    BY <1>6, <2>1, <2>2, FrameType DEF DropConnection, BeginDrop, TypeOK
<1>7. ASSUME NEW w \in Workers, NEW s \in Sids, NqConnect(w, s) PROVE TypeOK'
  <2>1. SessionTypes'
    BY <1>7
    DEF NqConnect, TypeOK, SessionTypes
  <2>2. DaemonTypes'
    BY <1>7, BecomeType, IdleType, JobType, JobChange
    DEF NqConnect, TypeOK, DaemonTypes, Threads, Pcs, ClientTypes
  <2>3. ClientTypes'
    BY <1>7
    DEF NqConnect, TypeOK, ClientTypes, Command
  <2> QED
    BY <1>7, <2>1, <2>2, <2>3, FrameType DEF NqConnect, TypeOK
<1>8. ASSUME NEW w \in Workers, NEW s \in Sids, CloseSession(w, s) PROVE TypeOK'
  <2>1. SessionTypes'
    BY <1>8
    DEF CloseSession, TypeOK, SessionTypes, BeginClose
  <2>2. DaemonTypes'
    BY <1>8, BecomeType, IdleType, JobType, JobChange
    DEF CloseSession, TypeOK, DaemonTypes, BeginClose, Threads, Pcs,
        ClientTypes
  <2>3. McpTypes'
    BY <1>8, SendType
    DEF CloseSession, TypeOK, McpTypes, BeginClose
  <2>4. ClientTypes'
    BY <1>8
    DEF CloseSession, TypeOK, ClientTypes, Command
  <2> QED
    BY <1>8, <2>1, <2>2, <2>3, <2>4, FrameType DEF CloseSession, TypeOK
<1>9. ASSUME NEW w \in Workers, NEW s \in Sids, UnknownSession(w, s) PROVE TypeOK'
  <2>1. ClientTypes'
    BY <1>9
    DEF UnknownSession, TypeOK, ClientTypes, Command
  <2> QED
    BY <1>9, <2>1, FrameType DEF UnknownSession, TypeOK
<1>10. ASSUME NEW w \in Workers, OpenSucceeds(w) PROVE TypeOK'
  <2>1. mcpMessage.sid \in Sids /\ job[w].client \in Clients \cup {NULL}
    BY <1>10 DEF OpenSucceeds, McpReturns, WaitMcp, WaitMcpFails, Answers,
                OpenAnswer, TypeOK, DaemonTypes, Job, Threads
  <2>2. SessionTypes'
    BY <1>10, <2>1 DEF OpenSucceeds, TypeOK, SessionTypes
  <2>3. DaemonTypes'
    BY <1>10, <2>1, BecomeType, IdleType, JobType, JobChange
    DEF OpenSucceeds, TypeOK, DaemonTypes, Threads, Pcs
  <2>4. McpTypes'
    BY <1>10, ReturnsType DEF OpenSucceeds, TypeOK
  <2> QED
    BY <1>10, <2>2, <2>3, <2>4, FrameType DEF OpenSucceeds, TypeOK
<1>11. ASSUME NEW w \in Workers, OpenFails(w) PROVE TypeOK'
  <2>1. DaemonTypes'
    BY <1>11, BecomeType, IdleType, JobType, JobChange
    DEF OpenFails, TypeOK, DaemonTypes, Threads, Pcs
  <2>2. McpTypes'
    BY <1>11, ReturnsType
    DEF OpenFails, TypeOK, McpTypes
  <2> QED
    BY <1>11, <2>1, <2>2, FrameType DEF OpenFails, TypeOK
<1>12. ASSUME NEW w \in Workers, Transfer(w) PROVE TypeOK'
  <2>1. SessionTypes'
    BY <1>12, QueueType DEF Transfer, TypeOK, SessionTypes, DaemonTypes
  <2>2. DaemonTypes'
    BY <1>12 DEF Transfer, TypeOK, DaemonTypes
  <2> QED
    BY <1>12, <2>1, <2>2, FrameType DEF Transfer, TypeOK
<1>13. ASSUME NEW w \in Workers, OpenReturns(w) PROVE TypeOK'
  <2>1. DaemonTypes'
    BY <1>13, BecomeType, IdleType, JobType, JobChange
    DEF OpenReturns, TypeOK, DaemonTypes, Threads, Pcs
  <2>2. ClientTypes'
    BY <1>13
    DEF OpenReturns, TypeOK, ClientTypes, DaemonTypes, Job, Threads
  <2> QED
    BY <1>13, <2>1, <2>2, FrameType DEF OpenReturns, TypeOK
<1>14. ASSUME NEW w \in Workers, Flush(w) PROVE TypeOK'
  <2>1. SessionTypes'
    BY <1>14 DEF Flush, TypeOK, SessionTypes
  <2>2. delivered' \in [Sids -> Nat]
    BY <1>14, CountType DEF Flush, TypeOK, ClientTypes
  <2>3. ClientTypes'
    BY <1>14, <2>2 DEF Flush, TypeOK, ClientTypes
  <2> QED
    BY <1>14, <2>1, <2>3, FrameType DEF Flush, TypeOK
<1>15. ASSUME NEW w \in Workers, FlushEnds(w) PROVE TypeOK'
  <2>1. DaemonTypes'
    BY <1>15, BecomeType, IdleType, JobType, JobChange
    DEF FlushEnds, TypeOK, DaemonTypes, Threads, Pcs
  <2> QED
    BY <1>15, <2>1, FrameType DEF FlushEnds, TypeOK
<1>16. ASSUME NEW w \in Workers, CloseSucceeds(w) PROVE TypeOK'
  <2>1. SessionTypes'
    BY <1>16 DEF CloseSucceeds, DeleteSession, TypeOK, SessionTypes
  <2>2. DaemonTypes'
    BY <1>16, BecomeType, IdleType, JobType, JobChange
    DEF CloseSucceeds, EndClose, TypeOK, DaemonTypes, Threads, Pcs
  <2>3. McpTypes'
    BY <1>16, ReturnsType DEF CloseSucceeds, TypeOK
  <2>4. ClientTypes'
    BY <1>16 DEF CloseSucceeds, EndClose, TypeOK, ClientTypes
  <2> QED
    BY <1>16, <2>1, <2>2, <2>3, <2>4, FrameType DEF CloseSucceeds, TypeOK
<1>17. ASSUME NEW w \in Workers, CloseAgain(w) PROVE TypeOK'
  <2>1. DaemonTypes'
    BY <1>17, BecomeType, IdleType, JobType, JobChange
    DEF CloseAgain, TypeOK, DaemonTypes, Threads, Pcs
  <2>2. mcpMessage' \in McpMessage
    BY <1>17 DEF CloseAgain, TypeOK, McpTypes, McpMessage, Results
  <2>3. mcpSessionNotification' \in Nat /\ nqOut' \in 0..NqSize
    BY <1>17, ConstantsAssumption DEF CloseAgain, TypeOK, McpTypes, Put
  <2>4. McpTypes'
    BY <1>17, <2>2, <2>3 DEF CloseAgain, TypeOK, McpTypes
  <2> QED
    BY <1>17, <2>1, <2>4, FrameType DEF CloseAgain, TypeOK
<1>18. ASSUME NEW w \in Workers, CloseDeferred(w) PROVE TypeOK'
  <2>1. DaemonTypes'
    BY <1>18, BecomeType, IdleType, JobType, JobChange
    DEF CloseDeferred, EndClose, TypeOK, DaemonTypes, Threads, Pcs
  <2>2. McpTypes'
    BY <1>18, ReturnsType DEF CloseDeferred, TypeOK
  <2>3. ClientTypes'
    BY <1>18 DEF CloseDeferred, EndClose, TypeOK, ClientTypes
  <2> QED
    BY <1>18, <2>1, <2>2, <2>3, FrameType DEF CloseDeferred, KeepSession, TypeOK
<1>19. ASSUME NEW w \in Workers, CloseFails(w) PROVE TypeOK'
  <2>1. DaemonTypes'
    BY <1>19, BecomeType, IdleType, JobType, JobChange
    DEF CloseFails, EndClose, TypeOK, DaemonTypes, Threads, Pcs
  <2>2. McpTypes'
    BY <1>19, ReturnsType DEF CloseFails, TypeOK
  <2>3. ClientTypes'
    BY <1>19 DEF CloseFails, EndClose, TypeOK, ClientTypes
  <2> QED
    BY <1>19, <2>1, <2>2, <2>3, FrameType DEF CloseFails, KeepSession, TypeOK
<1>20. ASSUME NEW w \in Workers, CloseAsserts(w) PROVE TypeOK'
  <2>1. DaemonTypes'
    BY <1>20, BecomeType, IdleType, JobType, JobChange
    DEF CloseAsserts, TypeOK, DaemonTypes, Threads, Pcs
  <2>2. McpTypes'
    BY <1>20, ReturnsType
    DEF CloseAsserts, TypeOK, McpTypes
  <2> QED
    BY <1>20, <2>1, <2>2, FrameType DEF CloseAsserts, TypeOK
<1>21. ASSUME NEW w \in Workers, DropNext(w) PROVE TypeOK'
  <2>1. PICK s \in Owned(job[w].client) : BeginClose(w, s, job[w].client, TRUE)
    BY <1>21 DEF DropNext
  <2>2. s \in Sids /\ job[w].client \in Clients \cup {NULL}
    BY <2>1 DEF Owned, TypeOK, SessionTypes, DaemonTypes, Job, Threads
  <2>3. SessionTypes'
    BY <2>1 DEF BeginClose, TypeOK, SessionTypes
  <2>4. DaemonTypes'
    BY <1>21, <2>1, <2>2, BecomeType, IdleType, JobType, JobChange
    DEF DropNext, BeginClose, TypeOK, DaemonTypes, Threads, Pcs
  <2>5. McpTypes'
    BY <2>1, <2>2, SendType DEF BeginClose, TypeOK
  <2> QED
    BY <1>21, <2>3, <2>4, <2>5, FrameType DEF DropNext, TypeOK
<1>22. ASSUME NEW w \in Workers, DropEnds(w) PROVE TypeOK'
  <2>1. DaemonTypes'
    BY <1>22, BecomeType, IdleType, JobType, JobChange
    DEF DropEnds, TypeOK, DaemonTypes, Threads, Pcs
  <2>2. ClientTypes'
    BY <1>22
    DEF DropEnds, TypeOK, ClientTypes
  <2> QED
    BY <1>22, <2>1, <2>2, FrameType DEF DropEnds, TypeOK
<1>23. ASSUME ExitWakes PROVE TypeOK'
  <2>1. job' \in [Threads -> Job]
    BY <1>23, BecomeType, IdleType, JobType, JobChange DEF ExitWakes, TypeOK, Threads, Pcs
  <2>2. DaemonTypes'
    BY <1>23, <2>1 DEF ExitWakes, TypeOK, DaemonTypes
  <2> QED
    BY <1>23, <2>2, FrameType DEF ExitWakes, TypeOK
<1>24. ASSUME ExitLocks PROVE TypeOK'
  <2>1. DaemonTypes'
    BY <1>24, BecomeType, IdleType, JobType, JobChange
    DEF ExitLocks, TypeOK, DaemonTypes, Threads, Pcs
  <2> QED
    BY <1>24, <2>1, FrameType DEF ExitLocks, TypeOK
<1>25. ASSUME ExitCloses PROVE TypeOK'
  <2>1. PICK s \in Sids :
          /\ SendMcp("close", s, NULL)
          /\ Become(TAExit, [Idle EXCEPT !.pc = "exitClose", !.sid = s])
    BY <1>25 DEF ExitCloses, Dead, TypeOK, SessionTypes
  <2>2. job' \in [Threads -> Job]
    BY <2>1, BecomeType, IdleType, JobType, JobChange DEF TypeOK, Threads, Pcs
  <2>3. DaemonTypes'
    BY <1>25, <2>2 DEF ExitCloses, TypeOK, DaemonTypes
  <2>4. McpTypes'
    BY <2>1, SendType DEF TypeOK
  <2> QED
    BY <1>25, <2>3, <2>4, FrameType DEF ExitCloses, TypeOK
<1>26. ASSUME ExitSucceeds PROVE TypeOK'
  <2>1. SessionTypes'
    BY <1>26 DEF ExitSucceeds, DeleteSession, TypeOK, SessionTypes
  <2>2. DaemonTypes'
    BY <1>26, BecomeType, IdleType, JobType, JobChange
    DEF ExitSucceeds, TypeOK, DaemonTypes, Threads, Pcs
  <2>3. McpTypes'
    BY <1>26, ReturnsType DEF ExitSucceeds, TypeOK
  <2> QED
    BY <1>26, <2>1, <2>2, <2>3, FrameType DEF ExitSucceeds, TypeOK
<1>27. ASSUME ExitFails PROVE TypeOK'
  <2>1. DaemonTypes'
    BY <1>27, BecomeType, IdleType, JobType, JobChange
    DEF ExitFails, TypeOK, DaemonTypes, Threads, Pcs
  <2>2. McpTypes'
    BY <1>27, ReturnsType
    DEF ExitFails, TypeOK, McpTypes
  <2> QED
    BY <1>27, <2>1, <2>2, FrameType DEF ExitFails, TypeOK
<1>28. ASSUME ExitSleeps PROVE TypeOK'
  <2>1. DaemonTypes'
    BY <1>28, BecomeType, IdleType, JobType, JobChange
    DEF ExitSleeps, TypeOK, DaemonTypes, Threads, Pcs
  <2> QED
    BY <1>28, <2>1, FrameType DEF ExitSleeps, TypeOK
<1>29. ASSUME IrqMcp PROVE TypeOK'
  <2>1. SwdTypes'
    BY <1>29 DEF IrqMcp, TypeOK, SwdTypes, swdVars
  <2>2. mcpSessionNotification' \in Nat
    BY <1>29 DEF IrqMcp, TypeOK, McpTypes
  <2>3. McpTypes'
    BY <1>29, <2>2 DEF IrqMcp, TypeOK, McpTypes
  <2> QED
    BY <1>29, <2>1, <2>3, FrameType DEF IrqMcp, TypeOK
<1>30. ASSUME IrqUnknown PROVE TypeOK'
  <2>1. Head(nqIn) \in Note /\ Tail(nqIn) \in Seq(Note)
    BY <1>30 DEF IrqUnknown, TypeOK, SwdTypes
  <2>2. SwdTypes'
    BY <1>30, <2>1 DEF IrqUnknown, TypeOK, SwdTypes, swdVars
  <2>3. unknown' \in Seq(Note)
    BY <1>30, <2>1 DEF IrqUnknown, QueueUnknown, TypeOK, DaemonTypes
  <2>4. DaemonTypes'
    BY <1>30, <2>3 DEF IrqUnknown, TypeOK, DaemonTypes
  <2> QED
    BY <1>30, <2>2, <2>4, FrameType DEF IrqUnknown, TypeOK
<1>31. ASSUME IrqQueues PROVE TypeOK'
  <2>1. Head(nqIn) \in Note
    BY <1>31 DEF IrqQueues, TypeOK, SwdTypes
  <2>2. SessionTypes'
    BY <1>31, <2>1, QueueType DEF IrqQueues, TypeOK, SessionTypes
  <2>3. DaemonTypes'
    BY <1>31 DEF IrqQueues, TypeOK, DaemonTypes
  <2>4. SwdTypes'
    BY <1>31 DEF IrqQueues, TypeOK, SwdTypes, swdVars
  <2> QED
    BY <1>31, <2>2, <2>3, <2>4, FrameType DEF IrqQueues, TypeOK
<1>32. ASSUME IrqForwards PROVE TypeOK'
  <2>1. SwdTypes'
    BY <1>32 DEF IrqForwards, TypeOK, SwdTypes, swdVars
  <2>2. delivered' \in [Sids -> Nat]
    BY <1>32, CountType DEF IrqForwards, TypeOK, ClientTypes
  <2>3. ClientTypes'
    BY <1>32, <2>2 DEF IrqForwards, TypeOK, ClientTypes
  <2> QED
    BY <1>32, <2>1, <2>3, FrameType DEF IrqForwards, TypeOK
<1>33. ASSUME SwdOpens PROVE TypeOK'
  <2>1. PICK r \in Results, s \in Sids \cup {NULL} : SwdAnswers(r, s)
    BY <1>33 DEF SwdOpens, Results
  <2>2. McpTypes' /\ nqIn' \in Seq(Note)
    BY <1>33, <2>1, AnswersType DEF SwdOpens, TypeOK, SwdTypes
  <2>3. SwdTypes'
    BY <1>33, <2>2 DEF SwdOpens, TypeOK, SwdTypes
  <2> QED
    BY <2>1, <2>2, <2>3, FrameType DEF SwdAnswers, TypeOK
<1>34. ASSUME SwdCloses PROVE TypeOK'
  <2>1. mcpMessage.sid \in Sids /\ mcpMessage.id = "close"
    BY <1>34 DEF SwdCloses, TypeOK, McpTypes
  <2>2. PICK r \in Results : SwdAnswers(r, mcpMessage.sid)
    BY <1>34 DEF SwdCloses, Results
  <2>3. McpTypes' /\ nqIn' \in Seq(Note)
    BY <2>1, <2>2, AnswersType DEF TypeOK, SwdTypes
  <2>4. SwdTypes'
    BY <1>34, <2>1, <2>3 DEF SwdCloses, TypeOK, SwdTypes
  <2> QED
    BY <2>2, <2>3, <2>4, FrameType DEF SwdAnswers, TypeOK
<1>35. ASSUME SwdFindsNoCommand PROVE TypeOK'
  <2>1. nqOut' \in 0..NqSize
    BY <1>35, ConstantsAssumption DEF SwdFindsNoCommand, TypeOK, McpTypes
  <2>2. McpTypes'
    BY <1>35, <2>1 DEF SwdFindsNoCommand, TypeOK, McpTypes
  <2> QED
    BY <1>35, <2>2, FrameType DEF SwdFindsNoCommand, TypeOK
<1>36. ASSUME NEW s \in Sids, TaNotifies(s) PROVE TypeOK'
  <2>1. SwdTypes'
    BY <1>36, ConstantsAssumption
    DEF TaNotifies, TypeOK, SwdTypes, Note, Payloads, swdVars
  <2> QED
    BY <1>36, <2>1, FrameType DEF TaNotifies, TypeOK
<1>37. ASSUME NEW s \in Sids, TaExits(s) PROVE TypeOK'
  <2>1. SwdTypes'
    BY <1>37
    DEF TaExits, TypeOK, SwdTypes, Note, Payloads, swdVars
  <2> QED
    BY <1>37, <2>1, FrameType DEF TaExits, TypeOK
<1>38. ASSUME UNCHANGED vars PROVE TypeOK'
  BY <1>38, FrameType DEF vars, TypeOK
<1> QED
  BY <1>1, <1>2, <1>3, <1>4, <1>5, <1>6, <1>7, <1>8, <1>9, <1>10, <1>11,
     <1>12, <1>13, <1>14, <1>15, <1>16, <1>17, <1>18, <1>19, <1>20, <1>21,
     <1>22, <1>23, <1>24, <1>25, <1>26, <1>27, <1>28, <1>29, <1>30, <1>31,
     <1>32, <1>33, <1>34, <1>35, <1>36, <1>37, <1>38
  DEF Next, Rest, Aborted, WorkerStep, ClientStep, ExitStep, IrqStep, SwdStep

-----------------------------------------------------------------------------
(* The inductive invariant.  What an action does to it depends on a few    *)
(* things only: which thread moves where, whether it takes or releases     *)
(* mutex_mcp, and what happens to the exchange under way.                  *)

LEMMA Moved ==
  ASSUME TypeOK, NEW t \in Threads, NEW j, Become(t, j)
  PROVE  job'[t] = j /\ \A u \in Threads \ {t} : job'[u] = job[u]
BY DEF TypeOK, DaemonTypes, Become

LEMMA MutexKept ==
  ASSUME TypeOK, MutexHeld, NEW t \in Threads, NEW j, Become(t, j),
         job[t].pc \in HoldingPcs <=> j.pc \in HoldingPcs,
         mutex_mcp' = mutex_mcp
  PROVE  MutexHeld'
BY Moved DEF MutexHeld

LEMMA MutexTaken ==
  ASSUME TypeOK, MutexHeld, NEW t \in Threads, NEW j, Become(t, j),
         mutex_mcp = NULL, j.pc \in HoldingPcs, mutex_mcp' = t
  PROVE  MutexHeld'
BY Moved, ConstantsAssumption DEF MutexHeld

LEMMA MutexReleased ==
  ASSUME TypeOK, MutexHeld, NEW t \in Threads, NEW j, Become(t, j),
         job[t].pc \in HoldingPcs, j.pc \notin HoldingPcs, mutex_mcp' = NULL
  PROVE  MutexHeld'
BY Moved, ConstantsAssumption DEF MutexHeld

\* At most one thread is in an exchange: the one that holds mutex_mcp.
LEMMA OneExchange ==
  ASSUME MutexHeld, NEW t \in Threads, NEW u \in Threads,
         job[t].pc \in HoldingPcs, Exchanging(u)
  PROVE  u = t
BY DEF MutexHeld, Exchanging, HoldingPcs

Core == OneAnswer /\ Answers /\ WorldsAgree
CloseCmds == {"close", "closeAgain", "exitClose"}
ExchangePcs == {"open"} \cup CloseCmds

LEMMA CoreFrame ==
  ASSUME Core, UNCHANGED <<trustletSessions, mcpVars, job, nqIn, swd>>
  PROVE  Core'
BY DEF Core, OneAnswer, Answers, WorldsAgree, OpenAnswer, CloseAnswer,
       Exchanging, McpNotes, InSwd, Closing, mcpVars

\* A thread moves, neither from an exchange nor to one.
LEMMA CoreMove ==
  ASSUME TypeOK, Core, NEW t \in Threads, NEW j, Become(t, j),
         ~Exchanging(t), j.pc \notin ExchangePcs,
         UNCHANGED <<trustletSessions, mcpVars, nqIn, swd>>
  PROVE  Core'
<1>1. /\ \A u \in Threads : job'[u].pc \in ExchangePcs => job'[u] = job[u]
      /\ \A u \in Threads : job[u].pc \in ExchangePcs => job'[u] = job[u]
  BY Moved DEF Exchanging, ExchangePcs, CloseCmds
<1>2. OneAnswer'
  BY <1>1 DEF Core, OneAnswer, Exchanging, McpNotes, mcpVars, ExchangePcs,
              CloseCmds
<1>3. Answers'
  BY <1>1 DEF Core, Answers, OpenAnswer, CloseAnswer, InSwd, mcpVars,
              ExchangePcs, CloseCmds
<1>4. WorldsAgree'
  BY <1>1 DEF Core, WorldsAgree, InSwd, Closing, mcpVars, ExchangePcs,
              CloseCmds, Threads
<1> QED
  BY <1>2, <1>3, <1>4 DEF Core

\* A thread sends a command: to open a session, or to close one on the list.
LEMMA CoreBegin ==
  ASSUME TypeOK, Core, NEW t \in Threads, NEW j, Become(t, j),
         \A u \in Threads : ~Exchanging(u),
         NEW id, NEW s, NEW c, SendMcp(id, s, c),
         \/ id = "open" /\ j.pc = "open" /\ t \in Workers
         \/ /\ id = "close" /\ j.pc \in CloseCmds /\ j.sid = s
            /\ s \in trustletSessions,
         UNCHANGED <<trustletSessions, nqIn, swd>>
  PROVE  Core'
<1> SUFFICES ASSUME ~mcFault' PROVE Core'
  BY DEF Core, OneAnswer, Answers, WorldsAgree
<1>1. /\ ~mcFault
      /\ mcpMessage'.kind = "cmd" /\ mcpMessage'.id = id
      /\ mcpMessage'.sid = s
      /\ mcpSessionNotification' = mcpSessionNotification
  BY DEF SendMcp
<1>2. nqOut = 0 /\ mcpSessionNotification = 0 /\ McpNotes = {}
  BY <1>1 DEF Core, OneAnswer
<1>3. nqOut' = 1
  BY <1>2, ConstantsAssumption DEF SendMcp, Put
<1>4. job'[t] = j /\ \A u \in Threads \ {t} : job'[u] = job[u]
  BY Moved
<1>5. j.pc \in ExchangePcs
  BY DEF ExchangePcs
<1>6. \A r \in Sids : /\ r \in trustletSessions => InSwd(r)
                      /\ InSwd(r) => r \in trustletSessions
  BY <1>1 DEF Core, WorldsAgree, Closing, Exchanging, Threads
<1>7. OneAnswer'
  <2>1. Exchanging(t)'
    BY <1>4, <1>5 DEF Exchanging, ExchangePcs, CloseCmds
  <2>2. McpNotes' = {}
    BY <1>2 DEF McpNotes
  <2> QED
    BY <1>1, <1>2, <1>3, <2>1, <2>2 DEF OneAnswer
<1>8. Answers'
  <2>1. \A u \in Threads : job'[u].pc \in ExchangePcs => u = t
    BY <1>4 DEF Exchanging, ExchangePcs, CloseCmds
  <2>2. id = "close" => InSwd(s)
    BY <1>6 DEF TypeOK, SessionTypes
  <2> QED
    BY <1>1, <1>4, <2>1, <2>2
    DEF Answers, OpenAnswer, CloseAnswer, InSwd, ExchangePcs, CloseCmds
<1>9. WorldsAgree'
  BY <1>6 DEF WorldsAgree, InSwd
<1> QED
  BY <1>7, <1>8, <1>9 DEF Core

\* The answer a thread takes from the buffer is the one to its command.
LEMMA AnswerTaken ==
  ASSUME TypeOK, Core, NEW t \in Threads, Exchanging(t),
         NEW id, NEW r, McpReturns(id, r),
         id = IF job[t].pc = "open" THEN "open" ELSE "close",
         r = "ok" \/ ~mcFault'
  PROVE  /\ ~mcFault /\ WaitMcp
         /\ mcpMessage.kind = "rsp" /\ r = mcpMessage.result
         /\ mcpSessionNotification = 1 /\ nqOut = 0 /\ McpNotes = {}
         /\ job[t].pc = "open" => t \in Workers /\ OpenAnswer
         /\ job[t].pc # "open" => CloseAnswer(job[t].sid)
<1>1. ~mcFault /\ WaitMcp
  BY DEF McpReturns, WaitMcp, WaitMcpFails
<1>2. /\ mcpMessage.kind = "rsp" /\ mcpSessionNotification = 1
      /\ nqOut = 0 /\ McpNotes = {}
  BY <1>1 DEF Core, OneAnswer, WaitMcp
<1>3. /\ job[t].pc = "open" => t \in Workers /\ OpenAnswer
      /\ job[t].pc # "open" => CloseAnswer(job[t].sid)
  BY <1>1 DEF Core, Answers, Exchanging
<1>4. mcpMessage.id = id
  BY <1>3 DEF OpenAnswer, CloseAnswer
<1>5. r = mcpMessage.result
  <2>1. CASE WaitMcp /\ r = IF mcpMessage.kind = "rsp" /\ mcpMessage.id = id
                              THEN mcpMessage.result ELSE "error"
    BY <1>2, <1>4, <2>1
  <2>2. CASE WaitMcpFails /\ r = "error"
    BY <1>1, <2>2 DEF WaitMcp, WaitMcpFails
  <2> QED
    BY <2>1, <2>2 DEF McpReturns
<1> QED
  BY <1>1, <1>2, <1>3, <1>5

\* A thread takes its answer and acts on it.
LEMMA CoreEnd ==
  ASSUME TypeOK, MutexHeld, Core, NEW t \in Threads, Exchanging(t),
         NEW j, Become(t, j), j.pc \notin ExchangePcs,
         NEW id, NEW r, McpReturns(id, r),
         id = IF job[t].pc = "open" THEN "open" ELSE "close",
         trustletSessions' = IF r # "ok" THEN trustletSessions
                             ELSE IF id = "open"
                               THEN trustletSessions \cup {mcpMessage.sid}
                               ELSE trustletSessions \ {job[t].sid},
         UNCHANGED <<nqIn, swd>>
  PROVE  Core'
<1> SUFFICES ASSUME ~mcFault' PROVE Core'
  BY DEF Core, OneAnswer, Answers, WorldsAgree
<1>1. /\ ~mcFault /\ WaitMcp
      /\ mcpMessage.kind = "rsp" /\ r = mcpMessage.result
      /\ mcpSessionNotification = 1 /\ nqOut = 0 /\ McpNotes = {}
      /\ job[t].pc = "open" => t \in Workers /\ OpenAnswer
      /\ job[t].pc # "open" => CloseAnswer(job[t].sid)
  BY AnswerTaken
<1>2. \A u \in Threads : Exchanging(u) => u = t
  BY OneExchange DEF Exchanging, HoldingPcs
<1>3. \A u \in Threads : job'[u].pc \notin ExchangePcs
  BY <1>2, Moved DEF Exchanging, ExchangePcs, CloseCmds
<1>4. OneAnswer'
  <2>1. \A u \in Threads : ~Exchanging(u)'
    BY <1>3 DEF Exchanging, ExchangePcs, CloseCmds
  <2>2. nqOut' = 0 /\ mcpSessionNotification' = 0 /\ McpNotes' = {}
    BY <1>1 DEF WaitMcp, McpNotes
  <2> QED
    BY <2>1, <2>2 DEF OneAnswer
<1>5. Answers'
  BY <1>3 DEF Answers, ExchangePcs, CloseCmds
<1>6. WorldsAgree'
  <2>1. \A s \in Sids : s \in trustletSessions' <=> InSwd(s)
    <3>1. CASE job[t].pc = "open"
      <4>1. \A s \in trustletSessions : InSwd(s)
        BY <1>1, <1>2, <3>1 DEF Core, WorldsAgree, Closing, Exchanging,
                                TypeOK, SessionTypes
      <4>2. \A s \in Sids : InSwd(s) =>
              s \in trustletSessions \/ mcpMessage.sid = s
        BY <1>1 DEF Core, WorldsAgree
      <4> QED
        BY <1>1, <3>1, <4>1, <4>2, ConstantsAssumption DEF OpenAnswer
    <3>2. CASE job[t].pc # "open"
      <4>1. \A s \in Sids : InSwd(s) => s \in trustletSessions
        <5>1. \A w \in Workers : job[w].pc # "open"
          BY <1>2, <3>2 DEF Exchanging, Threads
        <5> QED
          BY <1>1, <5>1 DEF Core, WorldsAgree
      <4>2. \A s \in trustletSessions : s = job[t].sid \/ InSwd(s)
        BY <1>1, <1>2 DEF Core, WorldsAgree, Closing, Exchanging,
                          TypeOK, SessionTypes
      <4> QED
        BY <1>1, <3>2, <4>1, <4>2 DEF CloseAnswer, InSwd
    <3> QED
      BY <3>1, <3>2
  <2> QED
    BY <2>1 DEF WorldsAgree, InSwd
<1> QED
  BY <1>4, <1>5, <1>6 DEF Core

LEMMA CoreCloseAgain ==
  ASSUME TypeOK, MutexHeld, Core, NEW w \in Workers, CloseAgain(w)
  PROVE  Core'
<1> DEFINE s == job[w].sid
<1>1. /\ ~mcFault /\ ~mcFault' /\ mcpSessionNotification = 1 /\ nqOut = 0
      /\ McpNotes = {}
  BY DEF CloseAgain, Core, OneAnswer
<1>2. CloseAnswer(s) /\ InSwd(s)
  BY <1>1 DEF CloseAgain, Core, Answers, CloseAnswer, Threads
<1>3. /\ job'[w].pc = "closeAgain" /\ job'[w].sid = s
      /\ \A u \in Threads \ {w} : job'[u] = job[u]
  BY DEF CloseAgain, Become, TypeOK, DaemonTypes, Job, Threads
<1>4. \A u \in Threads : Exchanging(u) => u = w
  BY OneExchange DEF CloseAgain, Exchanging, HoldingPcs, Threads
<1>5. /\ mcpMessage'.kind = "cmd" /\ mcpMessage'.id = mcpMessage.id
      /\ mcpMessage'.sid = mcpMessage.sid
  BY DEF CloseAgain, TypeOK, McpTypes, McpMessage
<1>6. OneAnswer'
  <2>1. nqOut' = 1 /\ mcpSessionNotification' = 0
    BY <1>1, ConstantsAssumption DEF CloseAgain, Put
  <2>2. McpNotes' = {}
    BY <1>1 DEF CloseAgain, McpNotes
  <2>3. Exchanging(w)'
    BY <1>3 DEF Exchanging
  <2> QED
    BY <1>5, <2>1, <2>2, <2>3 DEF OneAnswer, Threads
<1>7. Answers'
  <2>1. \A u \in Threads : Exchanging(u)' => u = w
    BY <1>3, <1>4 DEF Exchanging
  <2>2. CloseAnswer(s)'
    BY <1>2, <1>3, <1>5
    DEF CloseAnswer, CloseAgain, sessionVars, swdVars, InSwd
  <2> QED
    BY <1>3, <2>1, <2>2 DEF Answers, Exchanging
<1>8. WorldsAgree'
  <2>1. \A r \in Sids : InSwd(r) => r \in trustletSessions
    BY <1>1, <1>4 DEF Core, WorldsAgree, Exchanging, CloseAgain, Threads
  <2>2. \A r \in Sids : r \in trustletSessions => InSwd(r)
    BY <1>1, <1>2, <1>4 DEF Core, WorldsAgree, Closing, Exchanging
  <2> QED
    BY <2>1, <2>2 DEF WorldsAgree, InSwd, CloseAgain, sessionVars, swdVars
<1> QED
  BY <1>6, <1>7, <1>8 DEF Core

\* The queue to the daemon changes by notifications of TAs only.
LEMMA CoreNotes ==
  ASSUME TypeOK, Core,
         McpNotes = {} => McpNotes' = {},
         (\E i \in DOMAIN nqIn : McpNotes = {i}) =>
           \E i \in DOMAIN nqIn' : McpNotes' = {i},
         UNCHANGED <<trustletSessions, mcpVars, job>>,
         \A s \in Sids : /\ InSwd(s)' <=> InSwd(s)
                         /\ swd'[s] = "closed" <=> swd[s] = "closed"
  PROVE  Core'
<1>1. OneAnswer'
  BY DEF Core, OneAnswer, Exchanging, mcpVars
<1>2. Answers'
  BY DEF Core, Answers, OpenAnswer, CloseAnswer, mcpVars, TypeOK,
         SessionTypes, Exchanging
<1>3. WorldsAgree'
  BY DEF Core, WorldsAgree, Closing, mcpVars
<1> QED
  BY <1>1, <1>2, <1>3 DEF Core

LEMMA CoreTail ==
  ASSUME TypeOK, Core, nqIn # <<>>, Head(nqIn).sid # SID_MCP,
         nqIn' = Tail(nqIn), UNCHANGED <<trustletSessions, mcpVars, job, swd>>
  PROVE  Core'
<1>1. nqIn \in Seq(Note)
  BY DEF TypeOK, SwdTypes
<1>2. McpNotes = {} => McpNotes' = {}
  BY <1>1, TailNone DEF McpNotes
<1>3. ASSUME NEW i \in DOMAIN nqIn, McpNotes = {i}
      PROVE  \E k \in DOMAIN nqIn' : McpNotes' = {k}
  BY <1>1, <1>3, TailOther DEF McpNotes
<1> QED
  BY <1>2, <1>3, CoreNotes DEF InSwd

LEMMA CoreIrqMcp ==
  ASSUME TypeOK, Core, IrqMcp
  PROVE  Core'
<1> SUFFICES ASSUME ~mcFault' PROVE Core'
  BY DEF Core, OneAnswer, Answers, WorldsAgree
<1>1. ~mcFault /\ nqIn \in Seq(Note)
  BY DEF IrqMcp, TypeOK, SwdTypes
<1>2. McpNotes # {}
  BY <1>1 DEF IrqMcp, McpNotes, McpAt
<1>3. PICK i \in DOMAIN nqIn : McpNotes = {i}
  BY <1>1, <1>2 DEF Core, OneAnswer
<1>4. /\ \E t \in Threads : Exchanging(t)
      /\ mcpMessage.kind = "rsp" /\ nqOut = 0 /\ mcpSessionNotification = 0
  BY <1>1, <1>2 DEF Core, OneAnswer
<1>5. McpNotes' = {}
  BY <1>1, <1>3, TailMcp DEF IrqMcp, McpNotes
<1>6. mcpSessionNotification' = 1
  BY <1>1, <1>4 DEF IrqMcp
<1>7. OneAnswer'
  BY <1>4, <1>5, <1>6 DEF IrqMcp, OneAnswer, Exchanging
<1>8. Answers' /\ WorldsAgree'
  BY <1>1 DEF Core, Answers, OpenAnswer, CloseAnswer, WorldsAgree, InSwd,
              Closing, IrqMcp, sessionVars, swdVars
<1> QED
  BY <1>7, <1>8 DEF Core

\* The SWd answers the command of the thread t.
LEMMA CoreAnswer ==
  ASSUME TypeOK, Core, NEW r, NEW s, SwdAnswers(r, s), ~mcFault'
  PROVE  /\ ~mcFault /\ OneAnswer'
         /\ \E t \in Threads : Exchanging(t)
         /\ mcpMessage'.kind = "rsp" /\ mcpMessage'.id = mcpMessage.id
         /\ mcpMessage'.result = r /\ mcpMessage'.sid = s
<1>1. ~mcFault /\ nqOut > 0 /\ mcpMessage.kind = "cmd"
  BY DEF SwdAnswers
<1>2. /\ \E t \in Threads : Exchanging(t)
      /\ nqOut = 1 /\ mcpSessionNotification = 0 /\ McpNotes = {}
  BY <1>1 DEF Core, OneAnswer
<1>3. /\ mcpMessage'.kind = "rsp" /\ mcpMessage'.id = mcpMessage.id
      /\ mcpMessage'.result = r /\ mcpMessage'.sid = s
  BY DEF SwdAnswers, TypeOK, McpTypes, McpMessage
<1>4. McpNotes' = {Len(nqIn) + 1} /\ Len(nqIn) + 1 \in DOMAIN nqIn'
  <2>1. nqIn \in Seq(Note) /\ nqIn' = Append(nqIn, McpNote)
    BY DEF TypeOK, SwdTypes, SwdAnswers
  <2>2. McpNotes' = {Len(nqIn) + 1}
    BY <1>2, <2>1, AppendMcp DEF McpNotes
  <2> QED
    BY <2>1, <2>2
<1>5. nqOut' = 0 /\ mcpSessionNotification' = 0
  BY <1>2 DEF SwdAnswers
<1>6. OneAnswer'
  BY <1>2, <1>3, <1>4, <1>5 DEF OneAnswer, SwdAnswers, Exchanging
<1> QED
  BY <1>1, <1>2, <1>3, <1>6

LEMMA CoreSwdOpens ==
  ASSUME TypeOK, Core, MutexHeld, SwdOpens
  PROVE  Core'
<1> SUFFICES ASSUME ~mcFault' PROVE Core'
  BY DEF Core, OneAnswer, Answers, WorldsAgree
<1>1. PICK r, s : /\ SwdAnswers(r, s)
                  /\ \/ /\ r = "ok" /\ s \in Sids /\ swd[s] = "unused"
                        /\ swd' = [swd EXCEPT ![s] = "running"]
                     \/ r = "error" /\ s = NULL /\ swd' = swd
  BY DEF SwdOpens
<1>2. /\ ~mcFault /\ OneAnswer' /\ mcpMessage.kind = "cmd"
      /\ mcpMessage'.kind = "rsp" /\ mcpMessage'.id = mcpMessage.id
      /\ mcpMessage'.result = r /\ mcpMessage'.sid = s
  BY <1>1, CoreAnswer DEF SwdAnswers
<1>3. PICK t \in Threads : Exchanging(t)
  BY <1>1, CoreAnswer
<1>4. job[t].pc = "open" /\ t \in Workers
  BY <1>2, <1>3 DEF SwdOpens, Core, Answers, CloseAnswer, Exchanging
<1>5. job' = job /\ trustletSessions' = trustletSessions
  BY <1>1 DEF SwdAnswers, sessionVars
<1>6. \A u \in Threads : Exchanging(u) => u = t
  BY <1>3, OneExchange DEF Exchanging, HoldingPcs
<1>7. OpenAnswer'
  BY <1>1, <1>2 DEF OpenAnswer, SwdOpens, InSwd, TypeOK, SwdTypes
<1>8. Answers'
  BY <1>4, <1>5, <1>6, <1>7 DEF Answers, Exchanging
<1>9. WorldsAgree'
  <2>1. \A q \in Sids : (q \in trustletSessions => InSwd(q))
                        /\ (InSwd(q) => q \in trustletSessions)
    BY <1>2, <1>4, <1>6 DEF Core, WorldsAgree, Closing, Exchanging
  <2>2. \A q \in Sids : /\ InSwd(q) => InSwd(q)'
                        /\ InSwd(q)' => InSwd(q) \/ q = s
    BY <1>1 DEF InSwd, TypeOK, SwdTypes
  <2> QED
    BY <1>2, <1>4, <1>5, <2>1, <2>2 DEF WorldsAgree
<1> QED
  BY <1>2, <1>8, <1>9 DEF Core

LEMMA CoreSwdCloses ==
  ASSUME TypeOK, Core, MutexHeld, SwdCloses
  PROVE  Core'
<1> SUFFICES ASSUME ~mcFault' PROVE Core'
  BY DEF Core, OneAnswer, Answers, WorldsAgree
<1> DEFINE s == mcpMessage.sid
<1>1. PICK r : SwdAnswers(r, s)
  BY DEF SwdCloses
<1>2. /\ ~mcFault /\ OneAnswer' /\ mcpMessage.kind = "cmd"
      /\ mcpMessage.id = "close"
      /\ mcpMessage'.kind = "rsp" /\ mcpMessage'.id = "close"
      /\ mcpMessage'.result = r /\ mcpMessage'.sid = mcpMessage.sid
  BY <1>1, CoreAnswer DEF SwdAnswers, SwdCloses
<1>3. PICK t \in Threads : Exchanging(t)
  BY <1>1, CoreAnswer
<1>4. job[t].pc \in CloseCmds /\ CloseAnswer(job[t].sid)
  BY <1>2, <1>3 DEF Core, Answers, OpenAnswer, Exchanging, CloseCmds
<1>5. job[t].sid = s /\ s \in trustletSessions /\ s \in Sids /\ InSwd(s)
  BY <1>2, <1>4 DEF CloseAnswer, TypeOK, SessionTypes
<1>6. job' = job /\ trustletSessions' = trustletSessions
  BY <1>1 DEF SwdAnswers, sessionVars
<1>7. \A u \in Threads : Exchanging(u) => u = t
  BY <1>3, OneExchange DEF Exchanging, HoldingPcs
<1>8. \/ mcpMessage'.result = "ok" /\ swd' = [swd EXCEPT ![s] = "closed"]
      \/ mcpMessage'.result = "closeTaskFailed" /\ swd' = swd
  BY <1>2, <1>5, CoreAnswer DEF SwdCloses, InSwd
<1>9. \/ mcpMessage'.result = "ok" /\ swd'[s] = "closed"
      \/ mcpMessage'.result = "closeTaskFailed" /\ swd'[s] = swd[s]
  BY <1>5, <1>8 DEF TypeOK, SwdTypes
<1>10. Answers'
  BY <1>2, <1>4, <1>5, <1>6, <1>7, <1>9
  DEF Answers, CloseAnswer, Exchanging, InSwd, CloseCmds
<1>11. WorldsAgree'
  <2>1. \A q \in Sids : (q \in trustletSessions => InSwd(q))
                        /\ (InSwd(q) => q \in trustletSessions)
    BY <1>2, <1>4, <1>5, <1>7
    DEF Core, WorldsAgree, Closing, Exchanging, Threads, CloseCmds
  <2>2. \A q \in Sids \ {s} : swd'[q] = swd[q]
    BY <1>8 DEF TypeOK, SwdTypes
  <2>3. Closing(t, s)'
    BY <1>2, <1>4, <1>5, <1>6 DEF Closing, CloseCmds
  <2> QED
    BY <1>2, <1>5, <1>6, <1>9, <2>1, <2>2, <2>3 DEF WorldsAgree, InSwd
<1> QED
  BY <1>2, <1>10, <1>11 DEF Core

\* Without a fault the SWd is never notified in vain.
LEMMA CoreNoCommand ==
  ASSUME TypeOK, Core, SwdFindsNoCommand
  PROVE  Core'
<1> SUFFICES ASSUME ~mcFault' PROVE Core'
  BY DEF Core, OneAnswer, Answers, WorldsAgree
<1> QED
  BY DEF SwdFindsNoCommand, Core, OneAnswer

\* Every step keeps the rest of the invariant.
LEMMA CoreStep ==
  ASSUME TypeOK, MutexHeld, Core, Next
  PROVE  MutexHeld' /\ Core'
<1>1. ASSUME NEW c \in Clients, ReadCommand(c) PROVE MutexHeld' /\ Core'
  BY <1>1, CoreFrame
  DEF ReadCommand, MutexHeld, sessionVars, mcpVars, swdVars
<1>2. ASSUME NEW c \in Clients, Die(c) PROVE MutexHeld' /\ Core'
  BY <1>2, CoreFrame
  DEF Die, MutexHeld, sessionVars, mcpVars, swdVars
<1>3. ASSUME NEW w \in Workers, NEW c \in Clients, OpenDevice(w, c) PROVE MutexHeld' /\ Core'
  BY <1>3, CoreFrame
  DEF OpenDevice, MutexHeld, sessionVars, mcpVars, swdVars
<1>4. ASSUME NEW w \in Workers, NEW s \in Sids, UnknownSession(w, s) PROVE MutexHeld' /\ Core'
  BY <1>4, CoreFrame
  DEF UnknownSession, MutexHeld, sessionVars, mcpVars, swdVars
<1>5. ASSUME NEW w \in Workers, Transfer(w) PROVE MutexHeld' /\ Core'
  BY <1>5, CoreFrame
  DEF Transfer, MutexHeld, sessionVars, mcpVars, swdVars
<1>6. ASSUME NEW w \in Workers, Flush(w) PROVE MutexHeld' /\ Core'
  BY <1>6, CoreFrame
  DEF Flush, MutexHeld, sessionVars, mcpVars, swdVars
<1>7. ASSUME UNCHANGED vars PROVE MutexHeld' /\ Core'
  BY <1>7, CoreFrame
  DEF vars, MutexHeld, sessionVars, mcpVars, swdVars
<1>8. ASSUME NEW w \in Workers, NEW c \in Clients, CloseDevice(w, c) PROVE MutexHeld' /\ Core'
  <2> DEFINE j == [pc |-> "drop", client |-> c, sid |-> NULL, drop |-> TRUE]
  <2>1. Become(w, j) /\ w \in Threads /\ job[w].pc \notin ExchangePcs
    BY <1>8 DEF CloseDevice, BeginDrop, Command, Serves, Threads, ExchangePcs,
        CloseCmds
  <2>2. MutexHeld'
    BY <1>8, <2>1, MutexTaken
    DEF CloseDevice, BeginDrop, Command, Serves, Idle, HoldingPcs
  <2>3. Core'
    BY <1>8, <2>1, CoreMove
    DEF CloseDevice, BeginDrop, Command, Serves, Idle, Exchanging,
        ExchangePcs, CloseCmds, sessionVars, swdVars
  <2> QED BY <2>2, <2>3
<1>9. ASSUME NEW w \in Workers, NEW c \in Clients, DropConnection(w, c) PROVE MutexHeld' /\ Core'
  <2> DEFINE j == [pc |-> "drop", client |-> c, sid |-> NULL, drop |-> TRUE]
  <2>1. Become(w, j) /\ w \in Threads /\ job[w].pc \notin ExchangePcs
    BY <1>9 DEF DropConnection, BeginDrop, Serves, Threads, ExchangePcs, CloseCmds
  <2>2. MutexHeld'
    BY <1>9, <2>1, MutexTaken
    DEF DropConnection, BeginDrop, Serves, Idle, HoldingPcs
  <2>3. Core'
    BY <1>9, <2>1, CoreMove
    DEF DropConnection, BeginDrop, Serves, Idle, Exchanging, ExchangePcs,
        CloseCmds, sessionVars, swdVars
  <2> QED BY <2>2, <2>3
<1>10. ASSUME NEW w \in Workers, NEW s \in Sids, NqConnect(w, s) PROVE MutexHeld' /\ Core'
  <2> DEFINE j == [pc |-> "flush", client |-> opener[s], sid |-> s, drop |-> FALSE]
  <2>1. Become(w, j) /\ w \in Threads /\ job[w].pc \notin ExchangePcs
    BY <1>10 DEF NqConnect, Command, Serves, Threads, ExchangePcs, CloseCmds
  <2>2. MutexHeld'
    BY <1>10, <2>1, MutexKept
    DEF NqConnect, Command, Serves, Idle, HoldingPcs
  <2>3. Core'
    BY <1>10, <2>1, CoreMove
    DEF NqConnect, Command, Serves, Idle, Exchanging, ExchangePcs, CloseCmds,
        sessionVars, swdVars
  <2> QED BY <2>2, <2>3
<1>11. ASSUME NEW w \in Workers, OpenReturns(w) PROVE MutexHeld' /\ Core'
  <2> DEFINE j == Idle
  <2>1. Become(w, j) /\ w \in Threads /\ job[w].pc \notin ExchangePcs
    BY <1>11 DEF OpenReturns, Threads, ExchangePcs, CloseCmds
  <2>2. MutexHeld'
    BY <1>11, <2>1, MutexReleased
    DEF OpenReturns, Idle, HoldingPcs
  <2>3. Core'
    BY <1>11, <2>1, CoreMove
    DEF OpenReturns, Idle, Exchanging, ExchangePcs, CloseCmds, sessionVars,
        swdVars
  <2> QED BY <2>2, <2>3
<1>12. ASSUME NEW w \in Workers, FlushEnds(w) PROVE MutexHeld' /\ Core'
  <2> DEFINE j == Idle
  <2>1. Become(w, j) /\ w \in Threads /\ job[w].pc \notin ExchangePcs
    BY <1>12 DEF FlushEnds, Threads, ExchangePcs, CloseCmds
  <2>2. MutexHeld'
    BY <1>12, <2>1, MutexKept
    DEF FlushEnds, Idle, HoldingPcs
  <2>3. Core'
    BY <1>12, <2>1, CoreMove
    DEF FlushEnds, Idle, Exchanging, ExchangePcs, CloseCmds, sessionVars,
        swdVars
  <2> QED BY <2>2, <2>3
<1>13. ASSUME NEW w \in Workers, DropEnds(w) PROVE MutexHeld' /\ Core'
  <2> DEFINE j == Idle
  <2>1. Become(w, j) /\ w \in Threads /\ job[w].pc \notin ExchangePcs
    BY <1>13 DEF DropEnds, Threads, ExchangePcs, CloseCmds
  <2>2. MutexHeld'
    BY <1>13, <2>1, MutexReleased
    DEF DropEnds, Idle, HoldingPcs
  <2>3. Core'
    BY <1>13, <2>1, CoreMove
    DEF DropEnds, Idle, Exchanging, ExchangePcs, CloseCmds, sessionVars,
        swdVars
  <2> QED BY <2>2, <2>3
<1>14. ASSUME ExitWakes PROVE MutexHeld' /\ Core'
  <2> DEFINE j == [Idle EXCEPT !.pc = "lock"]
  <2>1. Become(TAExit, j) /\ TAExit \in Threads /\ job[TAExit].pc \notin ExchangePcs
    BY <1>14 DEF ExitWakes, Threads, ExchangePcs, CloseCmds
  <2>2. MutexHeld'
    BY <1>14, <2>1, MutexKept
    DEF ExitWakes, Idle, HoldingPcs
  <2>3. Core'
    BY <1>14, <2>1, CoreMove
    DEF ExitWakes, Idle, Exchanging, ExchangePcs, CloseCmds, sessionVars,
        swdVars
  <2> QED BY <2>2, <2>3
<1>15. ASSUME ExitLocks PROVE MutexHeld' /\ Core'
  <2> DEFINE j == [Idle EXCEPT !.pc = "scan"]
  <2>1. Become(TAExit, j) /\ TAExit \in Threads /\ job[TAExit].pc \notin ExchangePcs
    BY <1>15 DEF ExitLocks, Threads, ExchangePcs, CloseCmds
  <2>2. MutexHeld'
    BY <1>15, <2>1, MutexTaken
    DEF ExitLocks, Idle, HoldingPcs
  <2>3. Core'
    BY <1>15, <2>1, CoreMove
    DEF ExitLocks, Idle, Exchanging, ExchangePcs, CloseCmds, sessionVars,
        swdVars
  <2> QED BY <2>2, <2>3
<1>16. ASSUME ExitSleeps PROVE MutexHeld' /\ Core'
  <2> DEFINE j == Idle
  <2>1. Become(TAExit, j) /\ TAExit \in Threads /\ job[TAExit].pc \notin ExchangePcs
    BY <1>16 DEF ExitSleeps, Threads, ExchangePcs, CloseCmds
  <2>2. MutexHeld'
    BY <1>16, <2>1, MutexReleased
    DEF ExitSleeps, Idle, HoldingPcs
  <2>3. Core'
    BY <1>16, <2>1, CoreMove
    DEF ExitSleeps, Idle, Exchanging, ExchangePcs, CloseCmds, sessionVars,
        swdVars
  <2> QED BY <2>2, <2>3
<1>17. ASSUME NEW w \in Workers, NEW c \in Clients, OpenSession(w, c) PROVE MutexHeld' /\ Core'
  <2> DEFINE j == [pc |-> "open", client |-> c, sid |-> NULL, drop |-> FALSE]
  <2>1. /\ Become(w, j) /\ w \in Threads
        /\ SendMcp("open", NULL, c)
        /\ UNCHANGED <<trustletSessions, nqIn, swd>>
    BY <1>17 DEF OpenSession, Threads, swdVars, sessionVars
  <2>2. MutexHeld'
    BY <1>17, <2>1, MutexTaken DEF OpenSession, Idle, HoldingPcs
  <2>3. \A u \in Threads : ~Exchanging(u)
    BY <1>17, <2>1, ConstantsAssumption
    DEF OpenSession, MutexHeld, Exchanging, HoldingPcs
  <2>4. Core'
    BY <1>17, <2>1, <2>3, CoreBegin DEF OpenSession, Idle, CloseCmds
  <2> QED BY <2>2, <2>4
<1>18. ASSUME NEW w \in Workers, NEW s \in Sids, CloseSession(w, s) PROVE MutexHeld' /\ Core'
  <2> DEFINE j == [pc |-> "close", client |-> opener[s], sid |-> s, drop |-> FALSE]
  <2>1. /\ Become(w, j) /\ w \in Threads
        /\ SendMcp("close", s, NULL)
        /\ UNCHANGED <<trustletSessions, nqIn, swd>>
    BY <1>18 DEF CloseSession, BeginClose, Threads, swdVars, sessionVars
  <2>2. MutexHeld'
    BY <1>18, <2>1, MutexTaken DEF CloseSession, Idle, HoldingPcs
  <2>3. \A u \in Threads : ~Exchanging(u)
    BY <1>18, <2>1, ConstantsAssumption
    DEF CloseSession, MutexHeld, Exchanging, HoldingPcs
  <2>4. Core'
    BY <1>18, <2>1, <2>3, CoreBegin DEF CloseSession, Idle, CloseCmds
  <2> QED BY <2>2, <2>4
<1>19. ASSUME NEW w \in Workers, DropNext(w) PROVE MutexHeld' /\ Core'
  <2>1. PICK s \in Owned(job[w].client) :
          BeginClose(w, s, job[w].client, TRUE)
    BY <1>19 DEF DropNext
  <2> DEFINE j == [pc |-> "close", client |-> job[w].client, sid |-> s,
                   drop |-> TRUE]
  <2>2. /\ Become(w, j) /\ w \in Threads /\ s \in trustletSessions
        /\ SendMcp("close", s, NULL)
        /\ UNCHANGED <<trustletSessions, nqIn, swd>>
    BY <1>19, <2>1 DEF DropNext, BeginClose, Owned, Threads, swdVars
  <2>3. MutexHeld'
    BY <1>19, <2>2, MutexKept DEF DropNext, HoldingPcs
  <2>4. \A u \in Threads : ~Exchanging(u)
    BY <1>19, <2>2 DEF DropNext, MutexHeld, Exchanging, HoldingPcs
  <2>5. Core'
    BY <2>2, <2>4, CoreBegin DEF CloseCmds
  <2> QED BY <2>3, <2>5
<1>20. ASSUME ExitCloses PROVE MutexHeld' /\ Core'
  <2>1. PICK s \in Dead :
          /\ SendMcp("close", s, NULL)
          /\ Become(TAExit, [Idle EXCEPT !.pc = "exitClose", !.sid = s])
    BY <1>20 DEF ExitCloses
  <2> DEFINE j == [Idle EXCEPT !.pc = "exitClose", !.sid = s]
  <2>2. /\ TAExit \in Threads /\ s \in trustletSessions
        /\ UNCHANGED <<trustletSessions, nqIn, swd>>
    BY <1>20 DEF ExitCloses, Dead, Threads, swdVars, sessionVars
  <2>3. j.pc = "exitClose" /\ j.sid = s
    BY DEF Idle
  <2>4. MutexHeld'
    BY <1>20, <2>1, <2>2, <2>3, MutexKept DEF ExitCloses, HoldingPcs
  <2>5. \A u \in Threads : ~Exchanging(u)
    BY <1>20, <2>2 DEF ExitCloses, MutexHeld, Exchanging, HoldingPcs
  <2>6. Core'
    BY <2>1, <2>2, <2>3, <2>5, CoreBegin DEF CloseCmds
  <2> QED BY <2>4, <2>6
<1>21. ASSUME NEW w \in Workers, OpenSucceeds(w) PROVE MutexHeld' /\ Core'
  <2> DEFINE j == [job[w] EXCEPT !.pc = "transfer", !.sid = mcpMessage.sid]
  <2>1. /\ Become(w, j) /\ w \in Threads /\ job[w] \in Job
        /\ McpReturns("open", "ok") /\ job[w].pc = "open"
        /\ trustletSessions' = trustletSessions \cup {mcpMessage.sid}
        /\ UNCHANGED <<nqIn, swd, mutex_mcp>>
    BY <1>21 DEF OpenSucceeds, TypeOK, DaemonTypes, Threads, swdVars
  <2>2. j.pc = "transfer"
    BY <2>1 DEF Job
  <2>3. MutexHeld'
    BY <2>1, <2>2, MutexKept DEF HoldingPcs
  <2>4. Core'
    BY <2>1, <2>2, CoreEnd DEF Exchanging, ExchangePcs, CloseCmds
  <2> QED BY <2>3, <2>4
<1>22. ASSUME NEW w \in Workers, OpenFails(w) PROVE MutexHeld' /\ Core'
  <2>1. PICK r \in Results \ {"ok"} : McpReturns("open", r)
    BY <1>22 DEF OpenFails
  <2>2. /\ Become(w, Idle) /\ w \in Threads /\ job[w].pc = "open"
        /\ UNCHANGED <<trustletSessions, nqIn, swd>> /\ mutex_mcp' = NULL
        /\ Idle.pc = "idle"
    BY <1>22 DEF OpenFails, Threads, sessionVars, swdVars, Idle
  <2>3. MutexHeld'
    BY <2>2, MutexReleased DEF HoldingPcs
  <2>4. Core'
    BY <2>1, <2>2, CoreEnd DEF Exchanging, ExchangePcs, CloseCmds
  <2> QED BY <2>3, <2>4
<1>23. ASSUME NEW w \in Workers, CloseSucceeds(w) PROVE MutexHeld' /\ Core'
  <2>1. PICK r \in Results : /\ McpReturns("close", r)
                              /\ r = "ok"
    BY <1>23 DEF CloseSucceeds, Results
  <2>2. /\ w \in Threads /\ job[w] \in Job /\ job[w].pc \in CloseCmds
        /\ UNCHANGED <<nqIn, swd>>
        /\ trustletSessions' = trustletSessions \ {job[w].sid}
    BY <1>23 DEF CloseSucceeds, DeleteSession, CloseCmds, TypeOK, DaemonTypes, Threads,
        swdVars, sessionVars
  <2>3. PICK j : /\ Become(w, j) /\ j.pc \notin ExchangePcs
                 /\ \/ j.pc \in HoldingPcs /\ mutex_mcp' = mutex_mcp
                    \/ j.pc \notin HoldingPcs /\ mutex_mcp' = NULL
    <3>1. CASE job[w].drop
      <4> DEFINE j == [job[w] EXCEPT !.pc = "drop", !.sid = NULL]
      <4>1. Become(w, j) /\ mutex_mcp' = mutex_mcp
        BY <1>23, <3>1 DEF CloseSucceeds, EndClose
      <4>2. j.pc = "drop"
        BY <2>2 DEF Job
      <4> QED BY <4>1, <4>2 DEF ExchangePcs, CloseCmds, HoldingPcs
    <3>2. CASE ~job[w].drop
      <4>1. Become(w, Idle) /\ mutex_mcp' = NULL
        BY <1>23, <3>2 DEF CloseSucceeds, EndClose
      <4>2. Idle.pc = "idle"
        BY DEF Idle
      <4> QED BY <4>1, <4>2 DEF ExchangePcs, CloseCmds, HoldingPcs
    <3> QED BY <3>1, <3>2
  <2>4. MutexHeld'
    BY <2>2, <2>3, MutexKept, MutexReleased DEF CloseCmds, HoldingPcs
  <2>5. Core'
    BY <2>1, <2>2, <2>3, CoreEnd DEF Exchanging, CloseCmds
  <2> QED BY <2>4, <2>5
<1>24. ASSUME NEW w \in Workers, CloseDeferred(w) PROVE MutexHeld' /\ Core'
  <2>1. PICK r \in Results : /\ McpReturns("close", r)
                              /\ r # "ok"
    BY <1>24 DEF CloseDeferred, Results
  <2>2. /\ w \in Threads /\ job[w] \in Job /\ job[w].pc \in CloseCmds
        /\ UNCHANGED <<nqIn, swd>>
        /\ trustletSessions' = trustletSessions
    BY <1>24 DEF CloseDeferred, KeepSession, CloseCmds, TypeOK, DaemonTypes, Threads,
        swdVars, sessionVars
  <2>3. PICK j : /\ Become(w, j) /\ j.pc \notin ExchangePcs
                 /\ \/ j.pc \in HoldingPcs /\ mutex_mcp' = mutex_mcp
                    \/ j.pc \notin HoldingPcs /\ mutex_mcp' = NULL
    <3>1. CASE job[w].drop
      <4> DEFINE j == [job[w] EXCEPT !.pc = "drop", !.sid = NULL]
      <4>1. Become(w, j) /\ mutex_mcp' = mutex_mcp
        BY <1>24, <3>1 DEF CloseDeferred, EndClose
      <4>2. j.pc = "drop"
        BY <2>2 DEF Job
      <4> QED BY <4>1, <4>2 DEF ExchangePcs, CloseCmds, HoldingPcs
    <3>2. CASE ~job[w].drop
      <4>1. Become(w, Idle) /\ mutex_mcp' = NULL
        BY <1>24, <3>2 DEF CloseDeferred, EndClose
      <4>2. Idle.pc = "idle"
        BY DEF Idle
      <4> QED BY <4>1, <4>2 DEF ExchangePcs, CloseCmds, HoldingPcs
    <3> QED BY <3>1, <3>2
  <2>4. MutexHeld'
    BY <2>2, <2>3, MutexKept, MutexReleased DEF CloseCmds, HoldingPcs
  <2>5. Core'
    BY <2>1, <2>2, <2>3, CoreEnd DEF Exchanging, CloseCmds
  <2> QED BY <2>4, <2>5
<1>25. ASSUME NEW w \in Workers, CloseFails(w) PROVE MutexHeld' /\ Core'
  <2>1. PICK r \in Results : /\ McpReturns("close", r)
                              /\ r # "ok"
    BY <1>25 DEF CloseFails, Results
  <2>2. /\ w \in Threads /\ job[w] \in Job /\ job[w].pc \in CloseCmds
        /\ UNCHANGED <<nqIn, swd>>
        /\ trustletSessions' = trustletSessions
    BY <1>25 DEF CloseFails, KeepSession, CloseCmds, TypeOK, DaemonTypes, Threads,
        swdVars, sessionVars
  <2>3. PICK j : /\ Become(w, j) /\ j.pc \notin ExchangePcs
                 /\ \/ j.pc \in HoldingPcs /\ mutex_mcp' = mutex_mcp
                    \/ j.pc \notin HoldingPcs /\ mutex_mcp' = NULL
    <3>1. CASE job[w].drop
      <4> DEFINE j == [job[w] EXCEPT !.pc = "drop", !.sid = NULL]
      <4>1. Become(w, j) /\ mutex_mcp' = mutex_mcp
        BY <1>25, <3>1 DEF CloseFails, EndClose
      <4>2. j.pc = "drop"
        BY <2>2 DEF Job
      <4> QED BY <4>1, <4>2 DEF ExchangePcs, CloseCmds, HoldingPcs
    <3>2. CASE ~job[w].drop
      <4>1. Become(w, Idle) /\ mutex_mcp' = NULL
        BY <1>25, <3>2 DEF CloseFails, EndClose
      <4>2. Idle.pc = "idle"
        BY DEF Idle
      <4> QED BY <4>1, <4>2 DEF ExchangePcs, CloseCmds, HoldingPcs
    <3> QED BY <3>1, <3>2
  <2>4. MutexHeld'
    BY <2>2, <2>3, MutexKept, MutexReleased DEF CloseCmds, HoldingPcs
  <2>5. Core'
    BY <2>1, <2>2, <2>3, CoreEnd DEF Exchanging, CloseCmds
  <2> QED BY <2>4, <2>5
<1>26. ASSUME NEW w \in Workers, CloseAsserts(w) PROVE MutexHeld' /\ Core'
  <2>1. PICK r \in Results : /\ McpReturns("close", r)
                              /\ r # "ok"
    BY <1>26 DEF CloseAsserts, Results
  <2>2. /\ w \in Threads /\ job[w] \in Job /\ job[w].pc \in CloseCmds
        /\ UNCHANGED <<nqIn, swd>>
        /\ trustletSessions' = trustletSessions
    BY <1>26 DEF CloseAsserts, mcpVars, CloseCmds, TypeOK, DaemonTypes, Threads,
        swdVars, sessionVars
  <2>3. PICK j : /\ Become(w, j) /\ j.pc \notin ExchangePcs
                 /\ \/ j.pc \in HoldingPcs /\ mutex_mcp' = mutex_mcp
                    \/ j.pc \notin HoldingPcs /\ mutex_mcp' = NULL
    <3> DEFINE j == [job[w] EXCEPT !.pc = "aborted"]
    <3>1. Become(w, j) /\ mutex_mcp' = mutex_mcp
      BY <1>26 DEF CloseAsserts
    <3>2. j.pc = "aborted"
      BY <2>2 DEF Job
    <3> QED BY <3>1, <3>2 DEF ExchangePcs, CloseCmds, HoldingPcs
  <2>4. MutexHeld'
    BY <2>2, <2>3, MutexKept, MutexReleased DEF CloseCmds, HoldingPcs
  <2>5. Core'
    BY <2>1, <2>2, <2>3, CoreEnd DEF Exchanging, CloseCmds
  <2> QED BY <2>4, <2>5
<1>27. ASSUME ExitSucceeds PROVE MutexHeld' /\ Core'
  <2>1. PICK r \in Results : /\ McpReturns("close", r)
                              /\ r = "ok"
    BY <1>27 DEF ExitSucceeds, Results
  <2>2. /\ TAExit \in Threads /\ job[TAExit] \in Job /\ job[TAExit].pc \in CloseCmds
        /\ UNCHANGED <<nqIn, swd>>
        /\ trustletSessions' = trustletSessions \ {job[TAExit].sid}
    BY <1>27 DEF ExitSucceeds, DeleteSession, CloseCmds, TypeOK, DaemonTypes, Threads,
        swdVars, sessionVars
  <2>3. PICK j : /\ Become(TAExit, j) /\ j.pc \notin ExchangePcs
                 /\ \/ j.pc \in HoldingPcs /\ mutex_mcp' = mutex_mcp
                    \/ j.pc \notin HoldingPcs /\ mutex_mcp' = NULL
    <3> DEFINE j == [Idle EXCEPT !.pc = "scan"]
    <3>1. Become(TAExit, j) /\ mutex_mcp' = mutex_mcp
      BY <1>27 DEF ExitSucceeds
    <3>2. j.pc = "scan"
      BY DEF Idle
    <3> QED BY <3>1, <3>2 DEF ExchangePcs, CloseCmds, HoldingPcs
  <2>4. MutexHeld'
    BY <2>2, <2>3, MutexKept, MutexReleased DEF CloseCmds, HoldingPcs
  <2>5. Core'
    BY <2>1, <2>2, <2>3, CoreEnd DEF Exchanging, CloseCmds
  <2> QED BY <2>4, <2>5
<1>28. ASSUME ExitFails PROVE MutexHeld' /\ Core'
  <2>1. PICK r \in Results : /\ McpReturns("close", r)
                              /\ r # "ok"
    BY <1>28 DEF ExitFails, Results
  <2>2. /\ TAExit \in Threads /\ job[TAExit] \in Job /\ job[TAExit].pc \in CloseCmds
        /\ UNCHANGED <<nqIn, swd>>
        /\ trustletSessions' = trustletSessions
    BY <1>28 DEF ExitFails, mcpVars, CloseCmds, TypeOK, DaemonTypes, Threads, swdVars,
        sessionVars
  <2>3. PICK j : /\ Become(TAExit, j) /\ j.pc \notin ExchangePcs
                 /\ \/ j.pc \in HoldingPcs /\ mutex_mcp' = mutex_mcp
                    \/ j.pc \notin HoldingPcs /\ mutex_mcp' = NULL
    <3> DEFINE j == [Idle EXCEPT !.pc = "scan"]
    <3>1. Become(TAExit, j) /\ mutex_mcp' = mutex_mcp
      BY <1>28 DEF ExitFails
    <3>2. j.pc = "scan"
      BY DEF Idle
    <3> QED BY <3>1, <3>2 DEF ExchangePcs, CloseCmds, HoldingPcs
  <2>4. MutexHeld'
    BY <2>2, <2>3, MutexKept, MutexReleased DEF CloseCmds, HoldingPcs
  <2>5. Core'
    BY <2>1, <2>2, <2>3, CoreEnd DEF Exchanging, CloseCmds
  <2> QED BY <2>4, <2>5
<1>29. ASSUME NEW w \in Workers, CloseAgain(w) PROVE MutexHeld' /\ Core'
  <2>1. /\ Become(w, [job[w] EXCEPT !.pc = "closeAgain"])
        /\ w \in Threads /\ job[w] \in Job /\ job[w].pc = "close"
        /\ mutex_mcp' = mutex_mcp
    BY <1>29 DEF CloseAgain, TypeOK, DaemonTypes, Threads
  <2>2. [job[w] EXCEPT !.pc = "closeAgain"].pc = "closeAgain"
    BY <2>1 DEF Job
  <2>3. MutexHeld'
    BY <2>1, <2>2, MutexKept DEF HoldingPcs
  <2> QED BY <1>29, <2>3, CoreCloseAgain
<1>30. ASSUME IrqMcp PROVE MutexHeld' /\ Core'
  BY <1>30, CoreIrqMcp DEF IrqMcp, MutexHeld
<1>31. ASSUME IrqUnknown PROVE MutexHeld' /\ Core'
  <2>1. Head(nqIn).sid # SID_MCP
    BY <1>31 DEF IrqUnknown
  <2>2. Core'
    BY <1>31, <2>1, CoreTail DEF IrqUnknown, sessionVars, swdVars
  <2> QED BY <1>31, <2>2 DEF IrqUnknown, MutexHeld
<1>32. ASSUME IrqQueues PROVE MutexHeld' /\ Core'
  <2>1. Head(nqIn).sid # SID_MCP
    BY <1>32, ConstantsAssumption DEF IrqQueues, TypeOK, SessionTypes
  <2>2. Core'
    BY <1>32, <2>1, CoreTail DEF IrqQueues, swdVars
  <2> QED BY <1>32, <2>2 DEF IrqQueues, MutexHeld
<1>33. ASSUME IrqForwards PROVE MutexHeld' /\ Core'
  <2>1. Head(nqIn).sid # SID_MCP
    BY <1>33, ConstantsAssumption DEF IrqForwards, TypeOK, SessionTypes
  <2>2. Core'
    BY <1>33, <2>1, CoreTail DEF IrqForwards, sessionVars, swdVars
  <2> QED BY <1>33, <2>2 DEF IrqForwards, MutexHeld
<1>34. ASSUME SwdOpens PROVE MutexHeld' /\ Core'
  <2>1. Core'
    BY <1>34, CoreSwdOpens
  <2>2. job' = job /\ mutex_mcp' = mutex_mcp
    BY <1>34 DEF SwdOpens, SwdAnswers
  <2> QED BY <2>1, <2>2 DEF MutexHeld
<1>35. ASSUME SwdCloses PROVE MutexHeld' /\ Core'
  <2>1. Core'
    BY <1>35, CoreSwdCloses
  <2>2. job' = job /\ mutex_mcp' = mutex_mcp
    BY <1>35 DEF SwdCloses, SwdAnswers
  <2> QED BY <2>1, <2>2 DEF MutexHeld
<1>36. ASSUME SwdFindsNoCommand PROVE MutexHeld' /\ Core'
  BY <1>36, CoreNoCommand DEF SwdFindsNoCommand, MutexHeld
<1>37. ASSUME NEW s \in Sids, TaNotifies(s) PROVE MutexHeld' /\ Core'
  <2> DEFINE n == [sid |-> s, payload |-> "plain"]
  <2>1. n \in Note /\ n.sid # SID_MCP /\ nqIn \in Seq(Note)
    BY ConstantsAssumption DEF Note, Payloads, TypeOK, SwdTypes
  <2>2. nqIn' = Append(nqIn, n)
    BY <1>37 DEF TaNotifies
  <2>3. McpNotes' = McpNotes /\ \A i \in DOMAIN nqIn : i \in DOMAIN nqIn'
    BY <2>1, <2>2, AppendOther DEF McpNotes
  <2>4. \A q \in Sids : /\ InSwd(q)' <=> InSwd(q)
                        /\ swd'[q] = "closed" <=> swd[q] = "closed"
    BY <1>37 DEF TaNotifies, InSwd, TypeOK, SwdTypes
  <2>5. Core'
    BY <1>37, <2>3, <2>4, CoreNotes DEF TaNotifies, sessionVars
  <2> QED BY <1>37, <2>5 DEF TaNotifies, MutexHeld
<1>38. ASSUME NEW s \in Sids, TaExits(s) PROVE MutexHeld' /\ Core'
  <2> DEFINE n == [sid |-> s, payload |-> "exit"]
  <2>1. n \in Note /\ n.sid # SID_MCP /\ nqIn \in Seq(Note)
    BY ConstantsAssumption DEF Note, Payloads, TypeOK, SwdTypes
  <2>2. nqIn' = Append(nqIn, n)
    BY <1>38 DEF TaExits
  <2>3. McpNotes' = McpNotes /\ \A i \in DOMAIN nqIn : i \in DOMAIN nqIn'
    BY <2>1, <2>2, AppendOther DEF McpNotes
  <2>4. \A q \in Sids : /\ InSwd(q)' <=> InSwd(q)
                        /\ swd'[q] = "closed" <=> swd[q] = "closed"
    BY <1>38 DEF TaExits, InSwd, TypeOK, SwdTypes
  <2>5. Core'
    BY <1>38, <2>3, <2>4, CoreNotes DEF TaExits, sessionVars
  <2> QED BY <1>38, <2>5 DEF TaExits, MutexHeld
<1> QED
  BY <1>1, <1>2, <1>3, <1>4, <1>5, <1>6, <1>7, <1>8, <1>9, <1>10, <1>11,
     <1>12, <1>13, <1>14, <1>15, <1>16, <1>17, <1>18, <1>19, <1>20, <1>21,
     <1>22, <1>23, <1>24, <1>25, <1>26, <1>27, <1>28, <1>29, <1>30, <1>31,
     <1>32, <1>33, <1>34, <1>35, <1>36, <1>37, <1>38
  DEF Next, Rest, Aborted, WorkerStep, ClientStep, ExitStep, IrqStep, SwdStep

-----------------------------------------------------------------------------

\* Inv is inductive: in every behaviour of the daemon, whatever its clients,
\* sessions, threads and queue sizes, the variables have their types, one
\* thread at a time is in an exchange, and an exchange has one answer.
THEOREM Invariance == Spec => []Inv
<1>1. Init => Inv
  <2> SUFFICES ASSUME Init PROVE Inv
    OBVIOUS
  <2>1. SessionTypes /\ ClientTypes /\ SwdTypes
    BY ConstantsAssumption
    DEF Init, SessionTypes, ClientTypes, SwdTypes
  <2>2. DaemonTypes /\ McpTypes
    <3>1. DaemonTypes
      <4>1. job \in [Threads -> Job]
        BY IdleType DEF Init
      <4> QED BY <4>1 DEF Init, DaemonTypes
    <3>2. mcpMessage \in McpMessage /\ mcpMessage.id = "none"
      BY DEF Init, McpMessage, Results
    <3>3. nqOut \in 0..NqSize /\ mcpSessionNotification \in Nat
      BY ConstantsAssumption DEF Init
    <3>4. mcFault \in BOOLEAN
      BY DEF Init
    <3> QED BY <3>1, <3>2, <3>3, <3>4 DEF McpTypes
  <2>3. MutexHeld
    BY ConstantsAssumption DEF Init, MutexHeld, HoldingPcs, Idle
  <2>4. \A t \in Threads : job[t].pc = "idle"
    BY DEF Init, Idle
  <2>5. OneAnswer
    BY <2>4 DEF Init, OneAnswer, Exchanging, McpNotes, McpAt
  <2>6. Answers /\ WorldsAgree
    BY <2>4 DEF Init, Answers, WorldsAgree, InSwd
  <2> QED
    BY <2>1, <2>2, <2>3, <2>5, <2>6 DEF Inv, TypeOK
<1>2. Inv /\ [Next]_vars => Inv'
  <2> SUFFICES ASSUME Inv, [Next]_vars PROVE Inv'
    OBVIOUS
  <2>1. CASE Next
    BY <2>1, TypeStep, CoreStep DEF Inv, Core
  <2>2. CASE UNCHANGED vars
    <3>1. TypeOK'
      BY <2>2, FrameType DEF Inv, vars, TypeOK
    <3>2. MutexHeld' /\ Core'
      BY <2>2, CoreFrame
      DEF Inv, Core, vars, MutexHeld, sessionVars, swdVars
    <3> QED BY <3>1, <3>2 DEF Inv, Core
  <2> QED BY <2>1, <2>2
<1> QED
  BY <1>1, <1>2, PTL DEF Spec

\* TypeOK holds for all values of the constants.
THEOREM TypeCorrect == Spec => []TypeOK
<1>1. Inv => TypeOK
  BY DEF Inv
<1> QED
  BY <1>1, Invariance, PTL

\* A session leaves the list only after the SWd has closed it, with faults
\* or without.
THEOREM Forgotten == Spec => ForgottenOnlyWhenClosed
<1> DEFINE A == \A s \in trustletSessions \ trustletSessions' : swd[s] = "closed"
<1>1. Inv /\ [Next]_vars => [A]_vars
  <2> SUFFICES ASSUME Inv, Next PROVE A
    OBVIOUS
  <2>1. TypeOK /\ Core
    BY DEF Inv, Core
  <2>2. ASSUME NEW w \in Workers, CloseSucceeds(w) PROVE A
    <3>1. /\ w \in Threads /\ Exchanging(w) /\ McpReturns("close", "ok")
          /\ job[w].pc # "open"
          /\ trustletSessions' = trustletSessions \ {job[w].sid}
      BY <2>2 DEF CloseSucceeds, DeleteSession, Threads, Exchanging
    <3> QED BY <2>1, <3>1, AnswerTaken DEF CloseAnswer
  <2>3. ASSUME ExitSucceeds PROVE A
    <3>1. /\ TAExit \in Threads /\ Exchanging(TAExit)
          /\ McpReturns("close", "ok") /\ job[TAExit].pc # "open"
          /\ trustletSessions' = trustletSessions \ {job[TAExit].sid}
      BY <2>3 DEF ExitSucceeds, DeleteSession, Threads, Exchanging
    <3> QED BY <2>1, <3>1, AnswerTaken DEF CloseAnswer
  <2>4. ASSUME \/ \E c \in Clients : ClientStep(c)
               \/ IrqStep \/ SwdStep \/ UNCHANGED vars
        PROVE  A
    BY <2>4 DEF ClientStep, ReadCommand, Die, IrqStep, IrqMcp, IrqUnknown,
       IrqQueues, IrqForwards, SwdStep, SwdOpens, SwdCloses, SwdAnswers,
       SwdFindsNoCommand, TaNotifies, TaExits, sessionVars, vars
  <2>5. ASSUME NEW w \in Workers, WorkerStep(w) PROVE A
    BY <2>2, <2>5
    DEF WorkerStep, OpenDevice, OpenSession, CloseDevice, DropConnection,
        BeginDrop, NqConnect, CloseSession, BeginClose, UnknownSession,
        OpenSucceeds, OpenFails, Transfer, OpenReturns, Flush, FlushEnds,
        CloseAgain, CloseDeferred, CloseFails, KeepSession, CloseAsserts,
        DropNext, DropEnds, sessionVars
  <2>6. ASSUME ExitStep PROVE A
    BY <2>3, <2>6
    DEF ExitStep, ExitWakes, ExitLocks, ExitCloses, ExitFails, ExitSleeps,
        sessionVars
  <2> QED
    BY <2>4, <2>5, <2>6 DEF Next, Rest, Aborted
<1> QED
  BY <1>1, Invariance, PTL DEF Spec, ForgottenOnlyWhenClosed

-----------------------------------------------------------------------------
(* What the theorems above leave open: three parts that strengthen Inv.    *)
(* Notes is about the notifications in the queues, Owners about the        *)
(* clients that own the sessions, Cleaned about the sessions that end.     *)

Listed(s) == s \in trustletSessions
Orphan(s) == Listed(s) /\ deviceConnection[s] = NULL
\* The session has no owner, and no notification connection either.
Lonely(s) == Orphan(s) /\ ~notificationConnection[s]

\* The notification is of a session the SWd has opened, and an exit of one that has ended.
KnownIn(n, w) ==
  /\ n.sid \in Sids /\ w[n.sid] # "unused"
  /\ n.payload = "exit" => w[n.sid] \in {"exited", "closed"}
Known(n) == KnownIn(n, swd)
NotesKnown ==
  /\ \A i \in DOMAIN nqIn : nqIn[i].sid = SID_MCP \/ Known(nqIn[i])
  /\ \A i \in DOMAIN unknown : Known(unknown[i])

\* A session that is closed has notifications only before the answer to its close.
ClosedNotes ==
  \A i \in DOMAIN nqIn :
    nqIn[i].sid # SID_MCP /\ swd[nqIn[i].sid] = "closed" =>
      /\ \E k \in McpNotes : i < k
      /\ mcpMessage.kind = "rsp" /\ mcpMessage.id = "close"
      /\ mcpMessage.sid = nqIn[i].sid

Notes == NotesKnown /\ (~mcFault => ClosedNotes /\ UnknownIsOpening)

\* A dispatcher works for a client it serves.
Served == \A w \in Workers : job[w].pc # "idle" =>
            job[w].client \in Clients /\ ServedBy[job[w].client] = w

\* What has not been listed, its client has not seen.
Unseen ==
  /\ \A s \in Sids : ~Listed(s) /\ swd[s] # "closed" => view[s] = "none"
  /\ \A w \in Workers :
       /\ job[w].pc = "open" /\ mcpMessage.kind = "rsp" => ~Listed(mcpMessage.sid)
       /\ job[w].pc = "transfer" =>
            /\ job[w].sid \in Sids /\ Listed(job[w].sid) /\ view[job[w].sid] = "none"
            /\ deviceConnection[job[w].sid] = job[w].client

\* The client has sent NQ_CONNECT for the session, and may have connected it.
Asks(s) == view[s] # "none"
\* A client has opened it.
Openers == \A s \in Sids : Asks(s) => opener[s] \in Clients
\* The dispatcher is in closeSession.
Closes(w, s) == job[w].pc \in {"close", "closeAgain"} /\ job[w].sid = s
\* Who asks for a session opened it and owns it, or nobody does; a GP session that is being
\* closed is not connected, and only GP sessions lose their owner.
OwnersOpen ==
  /\ \A s \in Sids : Listed(s) /\ Asks(s) => deviceConnection[s] \in {opener[s], NULL}
  /\ \A w \in Workers, s \in Sids : Closes(w, s) =>
       /\ Asks(s) => opener[s] = job[w].client
       /\ s \in GpSids => ~notificationConnection[s]
  /\ \A s \in Sids : Orphan(s) => s \in GpSids

Owners == Served /\ Openers /\ (~mcFault => Unseen /\ OwnersOpen)

ExitNoted(s) == \E i \in DOMAIN nqIn : nqIn[i] = [sid |-> s, payload |-> "exit"]
\* A session is dead only when its TA has ended.
DeadEnded == \A s \in Sids : Listed(s) /\ s \in GpSids /\ sessionState[s] = "dead" =>
               swd[s] \in {"exited", "closed"}
\* The second close is of a session that is dead, and is not refused.
AgainCloses == \A w \in Workers : job[w].pc = "closeAgain" =>
                 /\ HasEnded(job[w].sid)
                 /\ mcpMessage.kind = "rsp" => mcpMessage.result = "ok"
\* A close that has been deferred asks the TA to end, and its end is not missed.
Deferred(w) == job[w].pc = "close" /\ mcpMessage.kind = "rsp"
               /\ mcpMessage.result = "closeTaskFailed"
EndsAsked == \A w \in Workers :
  /\ job[w].pc \in {"close", "closeAgain"} /\ job[w].sid \in GpSids =>
       deviceConnection[job[w].sid] = NULL
  /\ Deferred(w) =>
       /\ job[w].sid \in GpSids \cap asked
       /\ \/ swd[job[w].sid] = "running"
          \/ sessionState[job[w].sid] = "dead" \/ ExitNoted(job[w].sid)
\* A session that nobody owns or has connected has someone who is about to close it.
Tended(s) ==
  \/ \E w \in Workers : Closing(w, s)
  \/ sessionState[s] = "dead" /\ (exitWakeups > 0 \/ job[TAExit].pc # "idle")
  \/ s \in asked /\ swd[s] = "running"
  \/ ExitNoted(s)
OrphansTended == \A s \in Sids : Lonely(s) => Tended(s)
Cleaned == ~mcFault => DeadEnded /\ AgainCloses /\ EndsAsked /\ OrphansTended

IInv == Inv /\ Notes /\ Owners /\ Cleaned

-----------------------------------------------------------------------------
(* The notifications.                                                      *)

\* A session in the SWd ends, and does not come back.
SwdGrows == \A s \in Sids :
  /\ swd[s] # "unused" => swd'[s] # "unused"
  /\ swd[s] \in {"exited", "closed"} => swd'[s] \in {"exited", "closed"}

\* The notifications in the queues are those that were there, or known.
LEMMA KnownKept ==
  ASSUME NotesKnown, SwdGrows,
         \A i \in DOMAIN nqIn' : \/ nqIn'[i].sid = SID_MCP \/ KnownIn(nqIn'[i], swd')
                                 \/ \E k \in DOMAIN nqIn : nqIn'[i] = nqIn[k],
         \A i \in DOMAIN unknown' :
           \/ \E k \in DOMAIN unknown : unknown'[i] = unknown[k]
           \/ \E k \in DOMAIN nqIn : unknown'[i] = nqIn[k] /\ nqIn[k].sid # SID_MCP
  PROVE  NotesKnown'
<1>1. \A n : Known(n) => KnownIn(n, swd')
  BY DEF Known, KnownIn, SwdGrows
<1>2. \A i \in DOMAIN nqIn' : nqIn'[i].sid = SID_MCP \/ KnownIn(nqIn'[i], swd')
  BY <1>1 DEF NotesKnown
<1>3. \A i \in DOMAIN unknown' : KnownIn(unknown'[i], swd')
  BY <1>1 DEF NotesKnown
<1> QED
  BY <1>2, <1>3 DEF NotesKnown, Known

LEMMA TailOf ==
  ASSUME NEW q \in Seq(Note), q # <<>>
  PROVE  /\ Tail(q) \in Seq(Note) /\ Head(q) = q[1] /\ 1 \in DOMAIN q
         /\ \A i \in DOMAIN Tail(q) : i + 1 \in DOMAIN q /\ Tail(q)[i] = q[i + 1] /\ i \in Nat
OBVIOUS

LEMMA AppendOf ==
  ASSUME NEW q \in Seq(Note), NEW n \in Note
  PROVE  /\ Append(q, n) \in Seq(Note) /\ Len(q) + 1 \in DOMAIN Append(q, n)
         /\ Append(q, n)[Len(q) + 1] = n
         /\ \A i \in DOMAIN q : i \in DOMAIN Append(q, n) /\ Append(q, n)[i] = q[i]
                                /\ i < Len(q) + 1
         /\ \A i \in DOMAIN Append(q, n) : i \in DOMAIN q \/ i = Len(q) + 1
OBVIOUS

\* Without an exchange, no session that is closed has notifications.
LEMMA NoneClosed ==
  ASSUME ClosedNotes, McpNotes = {}
  PROVE  \A i \in DOMAIN nqIn : nqIn[i].sid # SID_MCP => swd[nqIn[i].sid] # "closed"
BY DEF ClosedNotes

\* Who has the mutex and opens no session finds nothing kept for unknown sessions.
LEMMA MutexAlone ==
  ASSUME TypeOK, MutexHeld, UnknownIsOpening, ~mcFault, NEW t \in Threads,
         mutex_mcp \in {NULL, t}, job[t].pc \notin {"open", "transfer"}
  PROVE  unknown = <<>>
<1>1. \A w \in Workers : job[w].pc \notin {"open", "transfer"}
  BY ConstantsAssumption DEF MutexHeld, HoldingPcs, Threads
<1>2. DOMAIN unknown = {}
  BY <1>1 DEF UnknownIsOpening
<1>3. unknown \in Seq(Note)
  BY DEF TypeOK, DaemonTypes
<1> QED
  BY <1>2, <1>3

LEMMA NoneIsOpening ==
  ASSUME unknown' = <<>>
  PROVE  UnknownIsOpening'
BY DEF UnknownIsOpening

\* A thread moves that does not open a session: with the mutex it may have sent a command.
LEMMA NotesMove ==
  ASSUME TypeOK, MutexHeld, Notes, NEW t \in Threads, NEW j, Become(t, j),
         job[t].pc \notin {"open", "transfer"}, UNCHANGED <<nqIn, swd>>,
         mcFault => mcFault', unknown' \in {unknown, <<>>},
         \/ mcpMessage' = mcpMessage
         \/ mutex_mcp \in {NULL, t} /\ (~mcFault' => McpNotes = {})
  PROVE  Notes'
<1>1. NotesKnown'
  BY DEF Notes, NotesKnown, Known, KnownIn
<1>2. ASSUME ~mcFault'
      PROVE  ClosedNotes' /\ UnknownIsOpening'
  <2>1. ClosedNotes /\ UnknownIsOpening /\ ~mcFault
    BY <1>2 DEF Notes
  <2>2. ClosedNotes'
    <3>1. CASE mcpMessage' = mcpMessage
      BY <2>1, <3>1 DEF ClosedNotes, McpNotes
    <3>2. CASE McpNotes = {}
      BY <2>1, <3>2, NoneClosed DEF ClosedNotes
    <3> QED
      BY <1>2, <3>1, <3>2
  <2>3. UnknownIsOpening'
    <3>1. CASE mcpMessage' = mcpMessage
      <4>1. \A w \in Workers : w # t => job'[w] = job[w]
        BY Moved DEF Threads
      <4> QED
        BY <2>1, <3>1, <4>1, NoneIsOpening DEF UnknownIsOpening
    <3>2. CASE mutex_mcp \in {NULL, t}
      BY <2>1, <3>2, MutexAlone, NoneIsOpening
    <3> QED
      BY <3>1, <3>2
  <2> QED
    BY <2>2, <2>3
<1> QED
  BY <1>1, <1>2 DEF Notes

\* A step that does nothing with notifications.
LEMMA NotesFrame ==
  ASSUME Notes, UNCHANGED <<nqIn, unknown, swd, mcpMessage, job>>, mcFault => mcFault'
  PROVE  Notes'
<1>1. NotesKnown'
  BY DEF Notes, NotesKnown, Known, KnownIn
<1>2. ~mcFault' => ClosedNotes' /\ UnknownIsOpening'
  BY DEF Notes, ClosedNotes, UnknownIsOpening, McpNotes
<1> QED
  BY <1>1, <1>2 DEF Notes

\* What an exchange leaves of the fault and the buffer.
LEMMA WaitKeeps ==
  ASSUME NEW id, NEW r, McpReturns(id, r)
  PROVE  (mcFault => mcFault') /\ mcpMessage' = mcpMessage
BY DEF McpReturns, WaitMcp, WaitMcpFails

LEMMA BeginFinds ==
  ASSUME Core, MutexHeld, NEW t \in Threads, mutex_mcp \in {NULL, t},
         ~Exchanging(t), ~mcFault
  PROVE  McpNotes = {}
<1>1. \A u \in Threads : ~Exchanging(u)
  BY ConstantsAssumption DEF MutexHeld, HoldingPcs, Exchanging
<1> QED
  BY <1>1 DEF Core, OneAnswer

LEMMA NotesOfExit ==
  ASSUME TypeOK, MutexHeld, Core, Notes, ExitStep
  PROVE  Notes'
<1>1. TAExit \in Threads /\ UNCHANGED <<nqIn, swd, unknown>>
  BY DEF Threads, ExitStep, ExitWakes, ExitLocks, ExitCloses, ExitSucceeds, ExitFails,
         ExitSleeps, swdVars
<1>2. job[TAExit].pc \in {"idle", "lock", "scan", "exitClose"}
  BY DEF ExitStep, ExitWakes, ExitLocks, ExitCloses, ExitSucceeds, ExitFails, ExitSleeps
<1>3. PICK j : Become(TAExit, j)
  BY DEF ExitStep, ExitWakes, ExitLocks, ExitCloses, ExitSucceeds, ExitFails, ExitSleeps
<1>4. CASE ExitCloses
  <2>1. job[TAExit].pc = "scan" /\ mutex_mcp = TAExit
    BY <1>1, <1>4 DEF ExitCloses, MutexHeld, HoldingPcs
  <2>2. mcFault' = mcFault
    BY <1>4 DEF ExitCloses, SendMcp
  <2>3. ~mcFault' => McpNotes = {}
    BY <1>1, <2>1, <2>2, BeginFinds DEF Exchanging
  <2> QED
    BY <1>1, <1>3, <2>1, <2>2, <2>3, NotesMove
<1>5. CASE ~ExitCloses
  <2>1. (mcFault => mcFault') /\ mcpMessage' = mcpMessage
    BY <1>5, WaitKeeps
    DEF ExitStep, ExitWakes, ExitLocks, ExitSucceeds, ExitFails, ExitSleeps, mcpVars
  <2> QED
    BY <1>1, <1>2, <1>3, <2>1, NotesMove
<1> QED
  BY <1>4, <1>5

\* The steps of a dispatcher, but for the opening of a session.
LEMMA NotesOfMove ==
  ASSUME TypeOK, MutexHeld, Core, Notes, NEW w \in Workers,
         \/ \E c \in Clients : CloseDevice(w, c) \/ DropConnection(w, c)
         \/ \E s \in Sids : NqConnect(w, s)
         \/ FlushEnds(w) \/ CloseSucceeds(w) \/ CloseDeferred(w) \/ CloseFails(w)
         \/ CloseAsserts(w) \/ DropEnds(w)
  PROVE  Notes'
<1>1. w \in Threads /\ UNCHANGED <<nqIn, swd, unknown>>
  BY DEF Threads, CloseDevice, DropConnection, BeginDrop, NqConnect, FlushEnds,
         CloseSucceeds, CloseDeferred, CloseFails, CloseAsserts, DropEnds, swdVars
<1>2. job[w].pc \notin {"open", "transfer"}
  BY DEF CloseDevice, DropConnection, Command, Serves, NqConnect, FlushEnds,
         CloseSucceeds, CloseDeferred, CloseFails, CloseAsserts, DropEnds
<1>3. PICK j : Become(w, j)
  BY DEF CloseDevice, DropConnection, BeginDrop, NqConnect, FlushEnds,
         CloseSucceeds, CloseDeferred, CloseFails, CloseAsserts, EndClose, DropEnds
<1>4. (mcFault => mcFault') /\ mcpMessage' = mcpMessage
  <2>1. CASE CloseSucceeds(w) \/ CloseDeferred(w) \/ CloseFails(w) \/ CloseAsserts(w)
    <3>1. PICK r \in Results : McpReturns("close", r)
      BY <2>1 DEF CloseSucceeds, CloseDeferred, CloseFails, CloseAsserts, Results
    <3> QED
      BY <3>1, WaitKeeps
  <2>2. CASE ~(CloseSucceeds(w) \/ CloseDeferred(w) \/ CloseFails(w) \/ CloseAsserts(w))
    <3>1. mcFault' = mcFault /\ mcpMessage' = mcpMessage
      BY <2>2 DEF CloseDevice, DropConnection, BeginDrop, NqConnect, FlushEnds, DropEnds,
                  mcpVars
    <3> QED
      BY <3>1
  <2> QED
    BY <2>1, <2>2
<1> QED
  BY <1>1, <1>2, <1>3, <1>4, NotesMove

\* A dispatcher sends a command.
LEMMA NotesOfSend ==
  ASSUME TypeOK, MutexHeld, Core, Notes, NEW w \in Workers,
         \/ \E c \in Clients : OpenSession(w, c)
         \/ \E s \in Sids : CloseSession(w, s)
         \/ DropNext(w) \/ CloseAgain(w)
  PROVE  Notes'
<1>1. /\ w \in Threads /\ UNCHANGED <<nqIn, swd>> /\ unknown' \in {unknown, <<>>}
      /\ mcFault' = mcFault
  BY DEF Threads, OpenSession, CloseSession, BeginClose, SendMcp, DropNext, CloseAgain,
         swdVars
<1>2. job[w].pc \in {"idle", "drop", "close"} /\ (job[w].pc = "close" => CloseAgain(w))
  BY DEF OpenSession, CloseSession, Command, Serves, DropNext, CloseAgain
<1>3. PICK j : Become(w, j)
  BY DEF OpenSession, CloseSession, BeginClose, DropNext, CloseAgain
<1>4. mutex_mcp \in {NULL, w}
  <2>1. CASE job[w].pc \in {"drop", "close"}
    BY <1>1, <2>1 DEF MutexHeld, HoldingPcs
  <2>2. CASE job[w].pc = "idle"
    BY <2>2 DEF OpenSession, CloseSession, DropNext, CloseAgain
  <2> QED
    BY <1>2, <2>1, <2>2
<1>5. ~mcFault' => McpNotes = {}
  <2>1. CASE job[w].pc \in {"idle", "drop"}
    BY <1>1, <1>4, <2>1, BeginFinds DEF Exchanging
  <2>2. CASE CloseAgain(w)
    <3>1. mcpSessionNotification # 0 /\ ~mcFault
      BY <2>2 DEF CloseAgain, TypeOK, McpTypes
    <3> QED
      BY <3>1 DEF Core, OneAnswer
  <2> QED
    BY <1>2, <2>1, <2>2
<1> QED
  BY <1>1, <1>2, <1>3, <1>4, <1>5, NotesMove

\* The dispatcher that opens a session moves on with it, or there is nothing to keep.
LEMMA NotesOfOpen ==
  ASSUME TypeOK, MutexHeld, Core, Notes, NEW w \in Workers,
         OpenSucceeds(w) \/ OpenFails(w) \/ OpenReturns(w)
  PROVE  Notes'
<1>1. w \in Threads /\ UNCHANGED <<nqIn, swd, unknown>>
  BY DEF Threads, OpenSucceeds, OpenFails, OpenReturns, swdVars
<1>2. (mcFault => mcFault') /\ mcpMessage' = mcpMessage
  BY WaitKeeps DEF OpenSucceeds, OpenFails, OpenReturns, mcpVars
<1>3. NotesKnown'
  BY <1>1 DEF Notes, NotesKnown, Known, KnownIn
<1>4. ASSUME ~mcFault'
      PROVE  ClosedNotes' /\ UnknownIsOpening'
  <2>1. ClosedNotes /\ UnknownIsOpening /\ ~mcFault
    BY <1>2, <1>4 DEF Notes
  <2>2. ClosedNotes'
    BY <1>1, <1>2, <2>1 DEF ClosedNotes, McpNotes
  <2>3. CASE OpenSucceeds(w)
    <3>1. /\ job[w].pc = "open"
          /\ job'[w].pc = "transfer" /\ job'[w].sid = mcpMessage.sid
      BY <1>1, <2>3 DEF OpenSucceeds, Become, TypeOK, DaemonTypes, Job
    <3>2. \A u \in Workers : job[u].pc \in {"open", "transfer"} => u = w
      BY <3>1 DEF MutexHeld, HoldingPcs, Threads
    <3>3. \A i \in DOMAIN unknown : mcpMessage.sid = unknown[i].sid
      BY <2>1, <3>1, <3>2 DEF UnknownIsOpening
    <3> QED
      BY <1>1, <2>2, <3>1, <3>3 DEF UnknownIsOpening
  <2>4. CASE OpenFails(w)
    <3>1. PICK r \in Results \ {"ok"} : job[w].pc = "open" /\ McpReturns("open", r)
      BY <2>4 DEF OpenFails
    <3>2. OpenAnswer /\ mcpMessage.kind = "rsp" /\ r = mcpMessage.result
      BY <1>1, <1>4, <3>1, AnswerTaken DEF Exchanging
    <3>3. mcpMessage.sid = NULL
      BY <3>1, <3>2 DEF OpenAnswer
    <3>4. \A u \in Workers : job[u].pc \in {"open", "transfer"} => u = w
      BY <1>1, <3>1 DEF MutexHeld, HoldingPcs, Threads
    <3>5. \A i \in DOMAIN unknown : unknown[i].sid = NULL /\ unknown[i].sid \in Sids
      BY <2>1, <3>1, <3>3, <3>4 DEF UnknownIsOpening, Notes, NotesKnown, Known, KnownIn
    <3>6. unknown = <<>>
      BY <3>5, ConstantsAssumption DEF TypeOK, DaemonTypes
    <3> QED
      BY <1>1, <2>2, <3>6, NoneIsOpening
  <2>5. CASE OpenReturns(w)
    BY <1>1, <2>2, <2>5, NoneIsOpening DEF OpenReturns, Transferred
  <2> QED
    BY <2>3, <2>4, <2>5
<1> QED
  BY <1>3, <1>4 DEF Notes

LEMMA NotesOfTransfer ==
  ASSUME TypeOK, Notes, NEW w \in Workers, Transfer(w)
  PROVE  Notes'
<1>1. /\ UNCHANGED <<nqIn, swd, mcpMessage, mcFault, job>>
      /\ unknown # <<>> /\ unknown' = Tail(unknown)
  BY DEF Transfer, swdVars, mcpVars
<1>2. unknown \in Seq(Note)
  BY DEF TypeOK, DaemonTypes
<1>3. \A i \in DOMAIN unknown' : i + 1 \in DOMAIN unknown /\ unknown'[i] = unknown[i + 1]
  BY <1>1, <1>2, TailOf
<1>4. NotesKnown'
  BY <1>1, <1>3 DEF Notes, NotesKnown, Known, KnownIn
<1>5. ~mcFault' => ClosedNotes' /\ UnknownIsOpening'
  BY <1>1, <1>3 DEF Notes, ClosedNotes, UnknownIsOpening, McpNotes
<1> QED
  BY <1>4, <1>5 DEF Notes

\* handleIrq takes the first notification.
LEMMA ClosedTail ==
  ASSUME TypeOK, ClosedNotes, nqIn # <<>>, nqIn' = Tail(nqIn), UNCHANGED <<swd, mcpMessage>>
  PROVE  ClosedNotes'
<1>1. \A i \in DOMAIN nqIn' : i + 1 \in DOMAIN nqIn /\ nqIn'[i] = nqIn[i + 1] /\ i \in Nat
  BY TailOf DEF TypeOK, SwdTypes
<1>2. \A k \in McpNotes, i \in DOMAIN nqIn' : i + 1 < k =>
        k - 1 \in DOMAIN nqIn' /\ nqIn'[k - 1] = nqIn[k] /\ i < k - 1
  <2>1. nqIn \in Seq(Note)
    BY DEF TypeOK, SwdTypes
  <2> QED
    BY <1>1, <2>1 DEF McpNotes, McpAt
<1>3. ASSUME NEW i \in DOMAIN nqIn', nqIn'[i].sid # SID_MCP, swd'[nqIn'[i].sid] = "closed"
      PROVE  /\ \E k \in McpNotes' : i < k
             /\ mcpMessage'.kind = "rsp" /\ mcpMessage'.id = "close"
             /\ mcpMessage'.sid = nqIn'[i].sid
  <2>1. PICK k \in McpNotes : i + 1 < k
    BY <1>1, <1>3 DEF ClosedNotes
  <2>2. k - 1 \in McpNotes' /\ i < k - 1
    BY <1>2, <2>1 DEF McpNotes, McpAt
  <2> QED
    BY <1>1, <1>3, <2>2 DEF ClosedNotes
<1> QED
  BY <1>3 DEF ClosedNotes

LEMMA NotesOfIrq ==
  ASSUME TypeOK, Core, Notes, IrqStep
  PROVE  Notes'
<1>1. /\ UNCHANGED <<swd, mcpMessage, mcFault, job, trustletSessions>>
      /\ nqIn # <<>> /\ nqIn' = Tail(nqIn)
  BY DEF IrqStep, IrqMcp, IrqUnknown, IrqQueues, IrqForwards, swdVars, mcpVars, sessionVars
<1>2. nqIn \in Seq(Note) /\ unknown \in Seq(Note)
  BY DEF TypeOK, SwdTypes, DaemonTypes
<1>3. /\ \A i \in DOMAIN nqIn' : i + 1 \in DOMAIN nqIn /\ nqIn'[i] = nqIn[i + 1]
      /\ Head(nqIn) = nqIn[1] /\ 1 \in DOMAIN nqIn
  BY <1>1, <1>2, TailOf
<1>4. SwdGrows
  BY <1>1 DEF SwdGrows
<1>5. ~mcFault' => ClosedNotes'
  BY <1>1, ClosedTail DEF Notes
<1>6. CASE unknown' = unknown
  <2>1. NotesKnown'
    BY <1>3, <1>4, <1>6, KnownKept DEF Notes
  <2>2. ~mcFault' => UnknownIsOpening'
    BY <1>1, <1>6 DEF Notes, UnknownIsOpening
  <2> QED
    BY <1>5, <2>1, <2>2 DEF Notes
<1>7. CASE IrqUnknown
  <2> DEFINE n == nqIn[1]
  <2>1. /\ unknown' = Append(unknown, n) /\ n.sid # SID_MCP /\ n.sid \notin trustletSessions
        /\ n \in Note
    BY <1>2, <1>3, <1>7 DEF IrqUnknown, QueueUnknown
  <2>2. \A i \in DOMAIN unknown' : \/ i \in DOMAIN unknown /\ unknown'[i] = unknown[i]
                                   \/ unknown'[i] = n
    BY <1>2, <2>1, AppendOf
  <2>3. NotesKnown'
    BY <1>3, <1>4, <2>1, <2>2, KnownKept DEF Notes
  <2>4. ASSUME ~mcFault'
        PROVE  UnknownIsOpening'
    <3>1. ClosedNotes /\ UnknownIsOpening /\ ~mcFault
      BY <1>1, <2>4 DEF Notes
    <3>2. n.sid \in Sids /\ swd[n.sid] # "unused"
      BY <1>3, <2>1 DEF Notes, NotesKnown, Known, KnownIn
    <3>3. swd[n.sid] # "closed"
      <4>1. SUFFICES ASSUME swd[n.sid] = "closed"
                     PROVE  n.sid \in trustletSessions
        BY <2>1
      <4>2. McpNotes # {} /\ mcpMessage.id = "close" /\ mcpMessage.sid = n.sid
        BY <1>3, <2>1, <3>1, <4>1 DEF ClosedNotes
      <4>3. PICK t \in Threads : Exchanging(t)
        BY <3>1, <4>2 DEF Core, OneAnswer
      <4> QED
        BY <3>1, <4>2, <4>3 DEF Core, Answers, Exchanging, OpenAnswer, CloseAnswer
    <3>4. swd[n.sid] \in {"running", "exited"}
      BY <3>2, <3>3 DEF TypeOK, SwdTypes
    <3>5. /\ mcpMessage.kind = "rsp" /\ mcpMessage.sid = n.sid
          /\ \E w \in Workers : job[w].pc = "open"
      BY <2>1, <3>1, <3>2, <3>4 DEF Core, WorldsAgree, InSwd
    <3> QED
      BY <1>1, <2>2, <3>1, <3>5 DEF UnknownIsOpening
  <2> QED
    BY <1>5, <2>3, <2>4 DEF Notes
<1> QED
  BY <1>6, <1>7 DEF IrqStep, IrqMcp, IrqQueues, IrqForwards

\* A TA notifies its session, or ends.
LEMMA NotesOfTa ==
  ASSUME TypeOK, Notes, NEW s \in Sids, TaNotifies(s) \/ TaExits(s)
  PROVE  Notes'
<1>1. PICK n \in Note :
        /\ nqIn' = Append(nqIn, n) /\ n.sid = s
        /\ n.payload = "exit" => swd' = [swd EXCEPT ![s] = "exited"]
  <2>1. \A p \in Payloads : [sid |-> s, payload |-> p] \in Note
    BY DEF Note
  <2>2. CASE TaNotifies(s)
    <3> DEFINE n == [sid |-> s, payload |-> "plain"]
    <3>1. n \in Note /\ nqIn' = Append(nqIn, n) /\ n.payload # "exit" /\ n.sid = s
      BY <2>1, <2>2 DEF TaNotifies, Payloads
    <3> QED
      BY <3>1
  <2>3. CASE TaExits(s)
    <3> DEFINE n == [sid |-> s, payload |-> "exit"]
    <3>1. n \in Note /\ nqIn' = Append(nqIn, n) /\ n.sid = s
      BY <2>1, <2>3 DEF TaExits, Payloads
    <3>2. swd' = [swd EXCEPT ![s] = "exited"]
      BY <2>3 DEF TaExits
    <3> QED
      BY <3>1, <3>2
  <2> QED
    BY <2>2, <2>3
<1>2. /\ UNCHANGED <<unknown, mcpMessage, mcFault, job>>
      /\ swd[s] = "running" /\ swd' \in {swd, [swd EXCEPT ![s] = "exited"]}
  BY DEF TaNotifies, TaExits, mcpVars
<1>3. swd \in [Sids -> {"unused", "running", "exited", "closed"}] /\ nqIn \in Seq(Note)
  BY DEF TypeOK, SwdTypes
<1>4. SwdGrows /\ \A r \in Sids : swd'[r] = "closed" => swd[r] = "closed" /\ r # s
  BY <1>2, <1>3 DEF SwdGrows
<1>5. /\ \A i \in DOMAIN nqIn' : \/ i \in DOMAIN nqIn /\ nqIn'[i] = nqIn[i]
                               \/ nqIn'[i] = n
      /\ \A k \in DOMAIN nqIn : k \in DOMAIN nqIn' /\ nqIn'[k] = nqIn[k]
  BY <1>1, <1>3, AppendOf
<1>6. KnownIn(n, swd')
  BY <1>1, <1>2, <1>3 DEF KnownIn
<1>7. NotesKnown'
  BY <1>2, <1>4, <1>5, <1>6, KnownKept DEF Notes
<1>8. ~mcFault' => UnknownIsOpening'
  BY <1>2 DEF Notes, UnknownIsOpening
<1>9. ASSUME ~mcFault'
      PROVE  ClosedNotes'
  <2>1. ClosedNotes
    BY <1>2, <1>9 DEF Notes
  <2>2. McpNotes \subseteq McpNotes'
    BY <1>5 DEF McpNotes, McpAt
  <2>3. ASSUME NEW i \in DOMAIN nqIn', nqIn'[i].sid # SID_MCP, swd'[nqIn'[i].sid] = "closed"
        PROVE  i \in DOMAIN nqIn /\ nqIn'[i] = nqIn[i] /\ swd[nqIn[i].sid] = "closed"
    <3>1. nqIn'[i] # n
      BY <1>1, <1>4, <2>3
    <3>2. i \in DOMAIN nqIn /\ nqIn'[i] = nqIn[i] /\ nqIn[i].sid \in Sids
      BY <1>5, <2>3, <3>1 DEF Notes, NotesKnown, Known, KnownIn
    <3> QED
      BY <1>4, <2>3, <3>2
  <2> QED
    BY <1>2, <2>1, <2>2, <2>3 DEF ClosedNotes
<1> QED
  BY <1>7, <1>8, <1>9 DEF Notes

\* The SWd answers: what it closes has no notification behind the answer.
LEMMA NotesOfAnswer ==
  ASSUME TypeOK, Core, MutexHeld, Notes, SwdOpens \/ SwdCloses
  PROVE  Notes'
<1>1. PICK r \in Results, q \in Sids \cup {NULL} : SwdAnswers(r, q)
  BY DEF SwdOpens, SwdCloses, Results, TypeOK, McpTypes
<1>2. /\ nqIn' = Append(nqIn, McpNote) /\ UNCHANGED <<unknown, job, mcFault>>
      /\ mcpMessage.kind = "cmd" /\ nqOut > 0
      /\ mcpMessage'.kind = "rsp" /\ mcpMessage'.id = mcpMessage.id
      /\ mcpMessage'.sid = q
  BY <1>1 DEF SwdAnswers, TypeOK, McpTypes, McpMessage
<1>3. /\ swd \in [Sids -> {"unused", "running", "exited", "closed"}] /\ nqIn \in Seq(Note)
      /\ McpNote \in Note /\ McpNote.sid = SID_MCP
  BY DEF TypeOK, SwdTypes, Note, McpNote, Payloads
<1>4. \/ UNCHANGED swd
      \/ \E s \in Sids : swd[s] = "unused" /\ swd' = [swd EXCEPT ![s] = "running"]
      \/ /\ mcpMessage.id = "close" /\ mcpMessage.sid \in Sids
         /\ mcpMessage'.sid = mcpMessage.sid
         /\ swd[mcpMessage.sid] \in {"running", "exited"}
         /\ swd' = [swd EXCEPT ![mcpMessage.sid] = "closed"]
  <2>1. CASE SwdOpens
    BY <2>1 DEF SwdOpens
  <2>2. CASE SwdCloses
    <3>1. mcpMessage.id = "close" /\ mcpMessage.sid \in Sids
      BY <2>2 DEF SwdCloses, TypeOK, McpTypes
    <3>2. mcpMessage'.sid = mcpMessage.sid
      BY <2>2 DEF SwdCloses, SwdAnswers, TypeOK, McpTypes, McpMessage
    <3> QED
      BY <2>2, <3>1, <3>2 DEF SwdCloses
  <2> QED
    BY <2>1, <2>2
<1>5. SwdGrows
  BY <1>3, <1>4 DEF SwdGrows
<1>6. /\ \A i \in DOMAIN nqIn' :
           \/ i \in DOMAIN nqIn /\ nqIn'[i] = nqIn[i] /\ i < Len(nqIn) + 1
           \/ nqIn'[i] = McpNote
      /\ \A k \in DOMAIN nqIn : k \in DOMAIN nqIn' /\ nqIn'[k] = nqIn[k]
      /\ Len(nqIn) + 1 \in McpNotes'
  BY <1>2, <1>3, AppendOf DEF McpNotes, McpAt
<1>7. NotesKnown'
  BY <1>2, <1>3, <1>5, <1>6, KnownKept DEF Notes
<1>8. ASSUME ~mcFault'
      PROVE  ClosedNotes' /\ UnknownIsOpening'
  <2>1. ClosedNotes /\ UnknownIsOpening /\ ~mcFault
    BY <1>2, <1>8 DEF Notes
  <2>2. \A i \in DOMAIN nqIn : nqIn[i].sid # SID_MCP => swd[nqIn[i].sid] # "closed"
    BY <1>2, <2>1 DEF ClosedNotes
  <2>3. ASSUME NEW i \in DOMAIN nqIn', nqIn'[i].sid # SID_MCP, swd'[nqIn'[i].sid] = "closed"
        PROVE  /\ i < Len(nqIn) + 1
               /\ mcpMessage.id = "close" /\ mcpMessage'.sid = nqIn'[i].sid
    <3>1. i \in DOMAIN nqIn /\ nqIn'[i] = nqIn[i] /\ i < Len(nqIn) + 1
      BY <1>3, <1>6, <2>3
    <3>2. nqIn[i].sid \in Sids /\ swd[nqIn[i].sid] # "closed"
      BY <2>2, <2>3, <3>1 DEF Notes, NotesKnown, Known, KnownIn
    <3> QED
      BY <1>3, <1>4, <2>3, <3>1, <3>2
  <2>4. ClosedNotes'
    BY <1>2, <1>6, <2>3 DEF ClosedNotes
  <2>5. UnknownIsOpening'
    <3>1. PICK t \in Threads : Exchanging(t)
      BY <1>2, <2>1 DEF Core, OneAnswer
    <3>2. \A w \in Workers : job[w].pc # "transfer"
      BY <3>1, OneExchange DEF Exchanging, HoldingPcs, Threads
    <3> QED
      BY <1>2, <2>1, <3>2 DEF UnknownIsOpening
  <2> QED
    BY <2>4, <2>5
<1> QED
  BY <1>7, <1>8 DEF Notes

LEMMA NotesStep ==
  ASSUME TypeOK, MutexHeld, Core, Notes, Next
  PROVE  Notes'
<1>1. ASSUME NEW w \in Workers, WorkerStep(w)
      PROVE  Notes'
  <2>1. ASSUME \/ \E c \in Clients : OpenDevice(w, c)
               \/ \E s \in Sids : UnknownSession(w, s)
               \/ Flush(w)
        PROVE  Notes'
    BY <2>1, NotesFrame DEF OpenDevice, UnknownSession, Flush, mcpVars, swdVars
  <2> QED
    BY <1>1, <2>1, NotesOfMove, NotesOfSend, NotesOfOpen, NotesOfTransfer DEF WorkerStep
<1>2. ASSUME NEW c \in Clients, ClientStep(c)
      PROVE  Notes'
  BY <1>2, NotesFrame DEF ClientStep, ReadCommand, Die, mcpVars, swdVars
<1>3. CASE SwdStep
  <2>1. CASE SwdFindsNoCommand
    BY <2>1, NotesFrame DEF SwdFindsNoCommand, swdVars
  <2> QED
    BY <1>3, <2>1, NotesOfAnswer, NotesOfTa DEF SwdStep
<1>4. CASE UNCHANGED vars
  BY <1>4, NotesFrame DEF vars, mcpVars, swdVars
<1> QED
  BY <1>1, <1>2, <1>3, <1>4, NotesOfExit, NotesOfIrq DEF Next, Rest, Aborted


-----------------------------------------------------------------------------
(* What every step leaves.                                                 *)

\* The steps of the dispatchers that end an exchange.
Takes(w) == \/ OpenSucceeds(w) \/ OpenFails(w) \/ CloseSucceeds(w) \/ CloseDeferred(w)
            \/ CloseFails(w) \/ CloseAsserts(w)

LEMMA WorkerSends ==
  ASSUME NEW w \in Workers, WorkerStep(w), ~Takes(w)
  PROVE  mcFault' = mcFault
<1>1. CASE \/ \E c \in Clients : \/ OpenDevice(w, c) \/ OpenSession(w, c)
                                 \/ CloseDevice(w, c) \/ DropConnection(w, c)
           \/ \E s \in Sids : NqConnect(w, s) \/ CloseSession(w, s) \/ UnknownSession(w, s)
  BY <1>1 DEF OpenDevice, OpenSession, SendMcp, CloseDevice, DropConnection, BeginDrop,
     NqConnect, CloseSession, BeginClose, UnknownSession, mcpVars
<1>2. CASE \/ Transfer(w) \/ OpenReturns(w) \/ Flush(w) \/ FlushEnds(w) \/ CloseAgain(w)
           \/ DropNext(w) \/ DropEnds(w)
  BY <1>2 DEF Transfer, OpenReturns, Flush, FlushEnds, CloseAgain, DropNext, BeginClose,
     SendMcp, DropEnds, mcpVars
<1> QED
  BY <1>1, <1>2 DEF WorkerStep, Takes

\* A fault is a failure of the exchange under way, and is for good.
LEMMA FaultStep ==
  ASSUME TypeOK, Next
  PROVE  mcFault' = mcFault \/ (mcFault' = TRUE /\ (mcFault \/ MayFault))
<1>1. ASSUME NEW w \in Workers, WorkerStep(w), Takes(w)
      PROVE  \E id, r : McpReturns(id, r)
  BY <1>1 DEF Takes, OpenSucceeds, OpenFails, CloseSucceeds, CloseDeferred, CloseFails,
              CloseAsserts
<1>2. ASSUME ExitStep
      PROVE  mcFault' = mcFault \/ \E id, r : McpReturns(id, r)
  BY <1>2 DEF ExitStep, ExitWakes, ExitLocks, ExitCloses, SendMcp, ExitSucceeds, ExitFails,
              ExitSleeps, mcpVars
<1>3. ASSUME \/ \E c \in Clients : ClientStep(c)
             \/ IrqStep \/ SwdStep \/ UNCHANGED vars
      PROVE  mcFault' = mcFault
  BY <1>3 DEF ClientStep, ReadCommand, Die, IrqStep, IrqMcp, IrqUnknown, IrqQueues,
     IrqForwards, SwdStep, SwdOpens, SwdCloses, SwdAnswers, SwdFindsNoCommand, TaNotifies,
     TaExits, mcpVars, vars
<1>4. ASSUME NEW id, NEW r, McpReturns(id, r)
      PROVE  mcFault' = mcFault \/ (mcFault' = TRUE /\ (mcFault \/ MayFault))
  BY <1>4 DEF McpReturns, WaitMcp, WaitMcpFails
<1> QED
  BY <1>1, <1>2, <1>3, <1>4, WorkerSends DEF Next, Rest, Aborted

LEMMA FaultStays ==
  ASSUME TypeOK, Next, ~mcFault'
  PROVE  ~mcFault
BY FaultStep DEF TypeOK, McpTypes

-----------------------------------------------------------------------------
(* The dispatchers and their clients.                                      *)

LEMMA ServedMove ==
  ASSUME TypeOK, Served, NEW t \in Threads, NEW j, Become(t, j),
         t \in Workers => \/ j.pc = "idle"
                          \/ j.client = job[t].client /\ job[t].pc # "idle"
                          \/ j.client \in Clients /\ ServedBy[j.client] = t
  PROVE  Served'
BY Moved DEF Served, Threads

LEMMA ServedStep ==
  ASSUME TypeOK, Served, Openers, Next
  PROVE  Served'
<1>1. ASSUME NEW w \in Workers, WorkerStep(w)
      PROVE  Served'
  <2>1. w \in Threads /\ job[w] \in Job
    BY DEF Threads, TypeOK, DaemonTypes
  <2>2. ASSUME \/ \E c \in Clients : OpenSession(w, c) \/ CloseDevice(w, c) \/ DropConnection(w, c)
               \/ \E s \in Sids : NqConnect(w, s) \/ CloseSession(w, s)
        PROVE  Served'
    <3>1. PICK c \in Clients : ServedBy[c] = w /\ \E j : Become(w, j) /\ j.client = c
      BY <2>2 DEF OpenSession, CloseDevice, DropConnection, BeginDrop, NqConnect,
                  CloseSession, BeginClose, Command, Serves, TypeOK, ClientTypes, Openers, Asks
    <3>2. PICK j : Become(w, j) /\ j.client = c
      BY <3>1
    <3> QED
      BY <2>1, <3>1, <3>2, ServedMove
  <2>3. ASSUME \/ OpenSucceeds(w) \/ CloseSucceeds(w) \/ CloseAgain(w) \/ CloseDeferred(w)
               \/ CloseFails(w) \/ CloseAsserts(w) \/ DropNext(w)
               \/ OpenFails(w) \/ OpenReturns(w) \/ FlushEnds(w) \/ DropEnds(w)
        PROVE  Served'
    <3>1. job[w].pc # "idle"
      BY <2>3 DEF OpenSucceeds, CloseSucceeds, CloseAgain, CloseDeferred, CloseFails,
                  CloseAsserts, DropNext, OpenFails, OpenReturns, FlushEnds, DropEnds
    <3>2. \/ Become(w, Idle)
          \/ \E p : Become(w, [job[w] EXCEPT !.pc = p])
          \/ \E p, s : Become(w, [job[w] EXCEPT !.pc = p, !.sid = s])
          \/ \E p, s, d : Become(w, [pc |-> p, client |-> job[w].client, sid |-> s, drop |-> d])
      <4>1. CASE DropNext(w)
        BY <4>1 DEF DropNext, BeginClose
      <4>2. CASE CloseSucceeds(w) \/ CloseDeferred(w) \/ CloseFails(w)
        BY <4>2 DEF CloseSucceeds, CloseDeferred, CloseFails, EndClose
      <4> QED
        BY <2>3, <4>1, <4>2 DEF OpenSucceeds, CloseAgain, CloseAsserts, OpenFails,
           OpenReturns, FlushEnds, DropEnds
    <3>3. \E j : Become(w, j) /\ (j.pc = "idle" \/ j.client = job[w].client)
      <4>1. /\ Idle.pc = "idle"
            /\ \A p, s, d : [pc |-> p, client |-> job[w].client, sid |-> s, drop |-> d].client
                            = job[w].client
        BY DEF Idle
      <4>2. \A p, s : /\ [job[w] EXCEPT !.pc = p].client = job[w].client
                      /\ [job[w] EXCEPT !.pc = p, !.sid = s].client = job[w].client
        BY <2>1 DEF Job
      <4>3. CASE Become(w, Idle)
        BY <4>1, <4>3
      <4>4. ASSUME NEW p, Become(w, [job[w] EXCEPT !.pc = p])
            PROVE  \E j : Become(w, j) /\ (j.pc = "idle" \/ j.client = job[w].client)
        BY <4>2, <4>4
      <4>5. ASSUME NEW p, NEW s, Become(w, [job[w] EXCEPT !.pc = p, !.sid = s])
            PROVE  \E j : Become(w, j) /\ (j.pc = "idle" \/ j.client = job[w].client)
        BY <4>2, <4>5
      <4>6. ASSUME NEW p, NEW s, NEW d,
                   Become(w, [pc |-> p, client |-> job[w].client, sid |-> s, drop |-> d])
            PROVE  \E j : Become(w, j) /\ (j.pc = "idle" \/ j.client = job[w].client)
        BY <4>1, <4>6
      <4> QED
        BY <3>2, <4>3, <4>4, <4>5, <4>6
    <3> QED
      BY <2>1, <3>1, <3>3, ServedMove
  <2>4. ASSUME \/ \E c \in Clients : OpenDevice(w, c)
               \/ \E s \in Sids : UnknownSession(w, s)
               \/ Transfer(w) \/ Flush(w)
        PROVE  Served'
    BY <2>4 DEF OpenDevice, UnknownSession, Transfer, Flush, Served
  <2> QED
    BY <1>1, <2>2, <2>3, <2>4 DEF WorkerStep
<1>2. ASSUME ExitStep
      PROVE  Served'
  <2>1. TAExit \in Threads /\ TAExit \notin Workers
    BY ConstantsAssumption DEF Threads
  <2>2. \E j : Become(TAExit, j)
    BY <1>2 DEF ExitStep, ExitWakes, ExitLocks, ExitCloses, ExitSucceeds, ExitFails,
                ExitSleeps
  <2> QED
    BY <2>1, <2>2, ServedMove
<1>3. ASSUME \/ \E c \in Clients : ClientStep(c)
             \/ IrqStep \/ SwdStep \/ UNCHANGED vars
      PROVE  Served'
  <2>1. job' = job
    BY <1>3 DEF ClientStep, ReadCommand, Die, IrqStep, IrqMcp, IrqUnknown, IrqQueues,
       IrqForwards, SwdStep, SwdOpens, SwdCloses, SwdAnswers, SwdFindsNoCommand,
       TaNotifies, TaExits, vars
  <2> QED
    BY <2>1 DEF Served
<1> QED
  BY <1>1, <1>2, <1>3 DEF Next, Rest, Aborted

LEMMA OpenersStep ==
  ASSUME TypeOK, Served, Openers, Next
  PROVE  Openers'
<1>1. opener \in [Sids -> Clients \cup {NULL}] /\ DOMAIN view = Sids
  BY DEF TypeOK, ClientTypes
<1>2. ASSUME opener' = opener, \A s \in Sids : Asks(s)' => Asks(s)
      PROVE  Openers'
  BY <1>2 DEF Openers
<1>3. ASSUME NEW w \in Workers, WorkerStep(w)
      PROVE  Openers'
  <2>1. CASE OpenReturns(w)
    <3>1. job[w].client \in Clients
      BY <2>1 DEF OpenReturns, Served
    <3>2. \A s \in Sids \ {job[w].sid} : Asks(s)' => Asks(s) /\ opener'[s] = opener[s]
      BY <1>1, <2>1 DEF OpenReturns, Asks
    <3>3. \A s \in Sids : s = job[w].sid => opener'[s] = job[w].client
      BY <1>1, <2>1 DEF OpenReturns
    <3> QED
      BY <3>1, <3>2, <3>3 DEF Openers
  <2>2. CASE CloseSucceeds(w) \/ CloseDeferred(w) \/ CloseFails(w)
    <3>1. opener' = opener /\ \E r : EndClose(w, r)
      BY <2>2 DEF CloseSucceeds, CloseDeferred, CloseFails
    <3>2. view' = view \/ view' = [view EXCEPT ![job[w].sid] = "none"]
      BY <3>1 DEF EndClose
    <3> QED
      BY <1>1, <1>2, <3>1, <3>2 DEF Asks
  <2>3. CASE \E s \in Sids : NqConnect(w, s) \/ UnknownSession(w, s)
    <3>1. PICK s \in Sids : NqConnect(w, s) \/ UnknownSession(w, s)
      BY <2>3
    <3>2. /\ opener' = opener /\ view[s] # "none"
          /\ \E v : view' = [view EXCEPT ![s] = v]
      BY <3>1 DEF NqConnect, UnknownSession
    <3> QED
      BY <1>1, <1>2, <3>2 DEF Asks
  <2>4. CASE ~(OpenReturns(w) \/ CloseSucceeds(w) \/ CloseDeferred(w) \/ CloseFails(w)
               \/ \E s \in Sids : NqConnect(w, s) \/ UnknownSession(w, s))
    <3>1. UNCHANGED <<opener, view>>
      BY <1>3, <2>4
      DEF WorkerStep, OpenDevice, OpenSession, CloseDevice, DropConnection, BeginDrop,
          CloseSession, OpenSucceeds, OpenFails, Transfer, Flush, FlushEnds, CloseAgain,
          CloseAsserts, DropNext, DropEnds, clientVars
    <3> QED
      BY <1>2, <3>1 DEF Asks
  <2> QED
    BY <2>1, <2>2, <2>3, <2>4
<1>4. ASSUME \/ ExitStep \/ IrqStep \/ SwdStep \/ UNCHANGED vars
             \/ \E c \in Clients : ClientStep(c)
      PROVE  Openers'
  <2>1. UNCHANGED <<opener, view>>
    BY <1>4 DEF ExitStep, ExitWakes, ExitLocks, ExitCloses, ExitSucceeds, ExitFails,
       ExitSleeps, ClientStep, ReadCommand, Die, IrqStep, IrqMcp, IrqUnknown, IrqQueues,
       IrqForwards, SwdStep, SwdOpens, SwdCloses, SwdAnswers, SwdFindsNoCommand,
       TaNotifies, TaExits, clientVars, vars
  <2> QED
    BY <1>2, <2>1 DEF Asks
<1> QED
  BY <1>3, <1>4 DEF Next, Rest, Aborted

-----------------------------------------------------------------------------
(* What has not been listed, its client has not seen.                      *)

LEMMA Alone ==
  ASSUME MutexHeld, NEW t \in Threads, mutex_mcp \in {NULL, t}
  PROVE  \A u \in Threads \ {t} : job[u].pc \notin HoldingPcs
BY ConstantsAssumption DEF MutexHeld

LEMMA ClosedStays ==
  ASSUME TypeOK, Next
  PROVE  \A s \in Sids :
           /\ swd[s] = "closed" => swd'[s] = "closed"
           /\ swd[s] \in {"exited", "closed"} => swd'[s] \in {"exited", "closed"}
<1>1. swd \in [Sids -> {"unused", "running", "exited", "closed"}]
  BY DEF TypeOK, SwdTypes
<1>2. ASSUME NEW w \in Workers, WorkerStep(w)
      PROVE  swd' = swd
  <2>1. CASE \/ \E c \in Clients : \/ OpenDevice(w, c) \/ OpenSession(w, c)
                                   \/ CloseDevice(w, c) \/ DropConnection(w, c)
             \/ \E s \in Sids : NqConnect(w, s) \/ CloseSession(w, s) \/ UnknownSession(w, s)
    BY <2>1 DEF OpenDevice, OpenSession, CloseDevice, DropConnection, BeginDrop,
       NqConnect, CloseSession, UnknownSession, swdVars
  <2>2. CASE \/ Transfer(w) \/ OpenReturns(w) \/ Flush(w) \/ FlushEnds(w) \/ CloseAgain(w)
             \/ DropNext(w) \/ DropEnds(w) \/ Takes(w)
    BY <2>2 DEF Transfer, OpenReturns, Flush, FlushEnds, CloseAgain, DropNext, DropEnds,
       Takes, OpenSucceeds, OpenFails, CloseSucceeds, CloseDeferred, CloseFails,
       CloseAsserts, swdVars
  <2> QED
    BY <1>2, <2>1, <2>2 DEF WorkerStep, Takes
<1>3. ASSUME ExitStep \/ IrqStep \/ UNCHANGED vars \/ \E c \in Clients : ClientStep(c)
      PROVE  swd' = swd
  BY <1>3 DEF ExitStep, ExitWakes, ExitLocks, ExitCloses, ExitSucceeds, ExitFails,
     ExitSleeps, IrqStep, IrqMcp, IrqUnknown, IrqQueues, IrqForwards, ClientStep,
     ReadCommand, Die, swdVars, vars
<1>4. ASSUME SwdStep, NEW s \in Sids
      PROVE  /\ swd[s] = "closed" => swd'[s] = "closed"
             /\ swd[s] \in {"exited", "closed"} => swd'[s] \in {"exited", "closed"}
  BY <1>1, <1>4 DEF SwdStep, SwdOpens, SwdCloses, SwdFindsNoCommand, TaNotifies, TaExits,
     swdVars
<1> QED
  BY <1>2, <1>3, <1>4 DEF Next, Rest, Aborted

LEMMA UnseenFrame ==
  ASSUME Unseen, UNCHANGED <<trustletSessions, deviceConnection, view>>,
         \A s \in Sids : swd[s] = "closed" => swd'[s] = "closed",
         \A u \in Workers : job'[u].pc = "transfer" => job'[u] = job[u],
         \A u \in Workers : job'[u].pc = "open" /\ mcpMessage'.kind = "rsp" =>
           job[u].pc = "open" /\ mcpMessage' = mcpMessage
  PROVE  Unseen'
BY DEF Unseen, Listed

\* A thread moves, and opens no session.
LEMMA UnseenMove ==
  ASSUME TypeOK, Unseen, UNCHANGED <<trustletSessions, deviceConnection, view>>,
         \A s \in Sids : swd[s] = "closed" => swd'[s] = "closed",
         NEW t \in Threads, NEW j, Become(t, j),
         j.pc # "transfer", j.pc = "open" => mcpMessage'.kind = "cmd",
         mcpMessage' = mcpMessage \/ mcpMessage'.kind = "cmd"
  PROVE  Unseen'
<1>1. \A u \in Workers : job'[u] = job[u] \/ job'[u] = j
  BY Moved DEF Threads
<1> QED
  BY <1>1, UnseenFrame

\* Sessions that are closed leave the list, or a view of a listed session changes.
LEMMA UnseenEnds ==
  ASSUME TypeOK, Unseen, NEW s \in Sids, Listed(s), deviceConnection' = deviceConnection,
         swd' = swd, mcpMessage' = mcpMessage,
         \/ trustletSessions' = trustletSessions
         \/ trustletSessions' = trustletSessions \ {s} /\ swd[s] = "closed",
         \/ view' = view \/ \E v : view' = [view EXCEPT ![s] = v],
         \A u \in Workers : job'[u].pc = "transfer" => job'[u] = job[u] /\ job[u].sid # s,
         \A u \in Workers : job'[u].pc = "open" => job[u].pc = "open"
  PROVE  Unseen'
<1>1. \A r \in Sids \ {s} : view'[r] = view[r] /\ (Listed(r)' <=> Listed(r))
  BY DEF Listed, TypeOK, ClientTypes
<1>2. \A r \in Sids : ~Listed(r)' /\ swd'[r] # "closed" => view'[r] = "none"
  BY <1>1 DEF Unseen, Listed
<1>3. \A r : Listed(r)' => Listed(r)
  BY DEF Listed
<1> QED
  BY <1>1, <1>2, <1>3 DEF Unseen

LEMMA UnseenOfOpen ==
  ASSUME TypeOK, MutexHeld, Core, Unseen, ~mcFault', NEW w \in Workers, OpenSucceeds(w)
  PROVE  Unseen'
<1>1. w \in Threads /\ Exchanging(w) /\ job[w].pc = "open" /\ McpReturns("open", "ok")
  BY DEF Threads, OpenSucceeds, Exchanging
<1> DEFINE s == mcpMessage.sid
<1>2. mcpMessage.kind = "rsp" /\ mcpMessage.result = "ok" /\ OpenAnswer
  BY <1>1, AnswerTaken
<1>3. s \in Sids /\ ~Listed(s) /\ view[s] = "none"
  BY <1>1, <1>2 DEF OpenAnswer, InSwd, Unseen
<1>4. /\ trustletSessions' = trustletSessions \cup {s}
      /\ deviceConnection' = [deviceConnection EXCEPT ![s] = job[w].client]
      /\ UNCHANGED <<view, swd>>
      /\ Become(w, [job[w] EXCEPT !.pc = "transfer", !.sid = s])
  BY DEF OpenSucceeds, clientVars, swdVars
<1>5. /\ job'[w].pc = "transfer" /\ job'[w].sid = s /\ job'[w].client = job[w].client
      /\ \A u \in Workers \ {w} : job'[u].pc \notin {"open", "transfer"}
  <2>1. \A u \in Workers \ {w} : job'[u] = job[u] /\ job[u].pc \notin {"open", "transfer"}
    BY <1>1, <1>4, Moved DEF MutexHeld, HoldingPcs, Threads
  <2>2. job'[w] = [job[w] EXCEPT !.pc = "transfer", !.sid = s] /\ job[w] \in Job
    BY <1>1, <1>4, Moved DEF TypeOK, DaemonTypes
  <2> QED
    BY <2>1, <2>2 DEF Job
<1>6. deviceConnection'[s] = job[w].client
  BY <1>3, <1>4 DEF TypeOK, SessionTypes
<1> QED
  BY <1>3, <1>4, <1>5, <1>6 DEF Unseen, Listed

LEMMA UnseenOfWorker ==
  ASSUME TypeOK, MutexHeld, Core, Unseen, ~mcFault, ~mcFault', NEW w \in Workers,
         WorkerStep(w), \A s \in Sids : swd[s] = "closed" => swd'[s] = "closed"
  PROVE  Unseen'
<1>1. w \in Threads /\ job[w] \in Job
  BY DEF Threads, TypeOK, DaemonTypes
<1>2. CASE (\E c \in Clients : OpenDevice(w, c)) \/ Flush(w) \/ Transfer(w)
  BY <1>2, UnseenFrame DEF OpenDevice, Flush, Transfer, sessionVars, mcpVars, clientVars
<1>3. ASSUME NEW c \in Clients, CloseDevice(w, c) \/ DropConnection(w, c)
      PROVE  Unseen'
  BY <1>1, <1>3, UnseenMove DEF CloseDevice, DropConnection, BeginDrop, sessionVars, mcpVars
<1>4. ASSUME NEW c \in Clients, OpenSession(w, c)
      PROVE  Unseen'
  <2>1. mcpMessage'.kind = "cmd" /\ UNCHANGED <<trustletSessions, deviceConnection, view>>
    BY <1>4 DEF OpenSession, SendMcp, sessionVars
  <2> QED
    BY <1>1, <1>4, <2>1, UnseenMove DEF OpenSession
<1>5. CASE OpenFails(w) \/ FlushEnds(w) \/ DropEnds(w) \/ CloseAgain(w) \/ CloseAsserts(w)
  <2>1. /\ UNCHANGED <<trustletSessions, deviceConnection, view>>
        /\ mcpMessage' = mcpMessage \/ mcpMessage'.kind = "cmd"
    <3>1. CASE CloseAgain(w)
      BY <3>1 DEF CloseAgain, sessionVars, clientVars, TypeOK, McpTypes, McpMessage
    <3>2. CASE OpenFails(w) \/ CloseAsserts(w)
      BY <3>2, WaitKeeps DEF OpenFails, CloseAsserts, sessionVars, clientVars
    <3>3. CASE FlushEnds(w) \/ DropEnds(w)
      BY <3>3 DEF FlushEnds, DropEnds, sessionVars, mcpVars, clientVars
    <3> QED
      BY <1>5, <3>1, <3>2, <3>3
  <2>2. PICK j : Become(w, j) /\ j.pc \notin {"open", "transfer"}
    BY <1>1, <1>5 DEF OpenFails, FlushEnds, DropEnds, CloseAgain, CloseAsserts, Idle, Job
  <2> QED
    BY <1>1, <2>1, <2>2, UnseenMove
<1>6. ASSUME NEW s \in Sids, UnknownSession(w, s)
      PROVE  Unseen'
  <2>1. /\ UNCHANGED <<trustletSessions, deviceConnection, swd, job, mcpMessage>>
        /\ view' = [view EXCEPT ![s] = "none"]
        /\ view[s] # "none"
    BY <1>6 DEF UnknownSession, sessionVars, mcpVars, swdVars
  <2>2. \A r \in Sids : r # s => view'[r] = view[r]
    BY <2>1 DEF TypeOK, ClientTypes
  <2> QED
    BY <2>1, <2>2 DEF Unseen, Listed
<1>7. ASSUME NEW s \in Sids, NqConnect(w, s)
      PROVE  Unseen'
  <2>1. /\ UNCHANGED <<trustletSessions, deviceConnection, swd, mcpMessage>>
        /\ view' = [view EXCEPT ![s] = IF opener[s] \in died THEN "none" ELSE "connected"]
        /\ Listed(s) /\ view[s] = "connecting"
        /\ Become(w, [pc |-> "flush", client |-> opener[s], sid |-> s, drop |-> FALSE])
    BY <1>7 DEF NqConnect, mcpVars, swdVars, Listed
  <2>2. /\ job'[w].pc = "flush"
        /\ \A u \in Workers \ {w} : job'[u] = job[u]
    BY <1>1, <2>1, Moved DEF Threads
  <2>3. \A u \in Workers : job[u].pc = "transfer" => job[u].sid # s
    BY <2>1 DEF Unseen
  <2>4. \A u \in Workers : /\ job'[u].pc = "transfer" => job'[u] = job[u] /\ job[u].sid # s
                           /\ job'[u].pc = "open" => job[u].pc = "open"
    BY <2>2, <2>3
  <2> QED
    BY <2>1, <2>4, UnseenEnds
<1>8. ASSUME NEW s \in Sids, NEW c, NEW d, BeginClose(w, s, c, d),
             UNCHANGED view, mutex_mcp \in {NULL, w}
      PROVE  Unseen'
  <2>1. /\ \/ deviceConnection' = deviceConnection
           \/ deviceConnection' = [deviceConnection EXCEPT ![s] = NULL]
        /\ mcpMessage'.kind = "cmd" /\ trustletSessions' = trustletSessions
        /\ Become(w, [pc |-> "close", client |-> c, sid |-> s, drop |-> d])
    BY <1>8 DEF BeginClose, SendMcp
  <2>2. \A u \in Workers : job'[u].pc # "transfer"
    BY <1>1, <1>8, <2>1, Moved, Alone DEF HoldingPcs, Threads
  <2> QED
    BY <1>8, <2>1, <2>2 DEF Unseen, Listed
<1>9. ASSUME NEW s \in Sids, CloseSession(w, s)
      PROVE  Unseen'
  BY <1>8, <1>9 DEF CloseSession
<1>10. CASE DropNext(w)
  <2>1. PICK s \in Sids : BeginClose(w, s, job[w].client, TRUE)
    BY <1>10 DEF DropNext, Owned, TypeOK, SessionTypes
  <2>2. mutex_mcp \in {NULL, w} /\ UNCHANGED view
    BY <1>1, <1>10 DEF DropNext, MutexHeld, HoldingPcs, clientVars
  <2> QED
    BY <1>8, <2>1, <2>2
<1>11. CASE CloseSucceeds(w) \/ CloseDeferred(w) \/ CloseFails(w)
  <2> DEFINE s == job[w].sid
  <2>1. PICK r \in Results :
          /\ Exchanging(w) /\ job[w].pc \in {"close", "closeAgain"}
          /\ McpReturns("close", r) /\ (CloseSucceeds(w) => r = "ok")
    BY <1>11 DEF CloseSucceeds, CloseDeferred, CloseFails, Exchanging, Results
  <2>2. CloseAnswer(s) /\ r = mcpMessage.result /\ mcpMessage.kind = "rsp"
    BY <1>1, <2>1, AnswerTaken
  <2>3. Listed(s) /\ s \in Sids /\ (CloseSucceeds(w) => swd[s] = "closed")
    BY <2>1, <2>2 DEF CloseAnswer, Listed, TypeOK, SessionTypes
  <2>4. /\ UNCHANGED <<deviceConnection, swd, mcpMessage>>
        /\ \/ trustletSessions' = trustletSessions
           \/ CloseSucceeds(w) /\ trustletSessions' = trustletSessions \ {s}
        /\ view' = view \/ \E v : view' = [view EXCEPT ![s] = v]
    BY <1>11, <2>1, WaitKeeps
    DEF CloseSucceeds, CloseDeferred, CloseFails, EndClose, DeleteSession, KeepSession,
        sessionVars, swdVars
  <2>5. PICK j : Become(w, j) /\ j.pc \notin {"open", "transfer"}
    <3>1. Become(w, Idle) \/ Become(w, [job[w] EXCEPT !.pc = "drop", !.sid = NULL])
      BY <1>11 DEF CloseSucceeds, CloseDeferred, CloseFails, EndClose
    <3>2. Idle.pc = "idle" /\ [job[w] EXCEPT !.pc = "drop", !.sid = NULL].pc = "drop"
      BY <1>1 DEF Idle, Job
    <3> QED
      BY <3>1, <3>2
  <2>6. \A u \in Workers : job'[u].pc \notin {"open", "transfer"}
    <3>1. mutex_mcp = w
      BY <1>1, <2>1 DEF MutexHeld, HoldingPcs
    <3> QED
      BY <1>1, <2>5, <3>1, Moved, Alone DEF HoldingPcs, Threads
  <2> QED
    BY <2>3, <2>4, <2>6, UnseenEnds
<1>12. CASE OpenReturns(w)
  <2> DEFINE s == job[w].sid
  <2>1. /\ job[w].pc = "transfer" /\ (\E v : view' = [view EXCEPT ![s] = v])
        /\ UNCHANGED <<trustletSessions, deviceConnection, swd, mcpMessage>>
        /\ Become(w, Idle)
    BY <1>12 DEF OpenReturns, sessionVars, mcpVars, swdVars
  <2>2. s \in Sids /\ Listed(s)
    BY <2>1 DEF Unseen
  <2>3. \A u \in Workers : job'[u].pc \notin {"open", "transfer"}
    <3>1. mutex_mcp = w
      BY <1>1, <2>1 DEF MutexHeld, HoldingPcs
    <3> QED
      BY <1>1, <2>1, <3>1, Moved, Alone DEF HoldingPcs, Threads, Idle
  <2> QED
    BY <2>1, <2>2, <2>3, UnseenEnds
<1> QED
  BY <1>2, <1>3, <1>4, <1>5, <1>6, <1>7, <1>9, <1>10, <1>11, <1>12, UnseenOfOpen DEF WorkerStep

LEMMA UnseenOfExit ==
  ASSUME TypeOK, MutexHeld, Core, Unseen, ~mcFault', ExitStep,
         \A s \in Sids : swd[s] = "closed" => swd'[s] = "closed"
  PROVE  Unseen'
<1>1. TAExit \in Threads /\ TAExit \notin Workers
  BY ConstantsAssumption DEF Threads
<1>2. PICK j : Become(TAExit, j)
  BY DEF ExitStep, ExitWakes, ExitLocks, ExitCloses, ExitSucceeds, ExitFails, ExitSleeps
<1>3. \A u \in Workers : job'[u] = job[u]
  BY <1>1, <1>2, Moved DEF Threads
<1>4. CASE ExitSucceeds
  <2> DEFINE s == job[TAExit].sid
  <2>1. Exchanging(TAExit) /\ McpReturns("close", "ok") /\ job[TAExit].pc = "exitClose"
    BY <1>4 DEF ExitSucceeds, Exchanging
  <2>2. CloseAnswer(s) /\ mcpMessage.result = "ok" /\ mcpMessage.kind = "rsp"
    BY <1>1, <2>1, AnswerTaken
  <2>3. Listed(s) /\ s \in Sids /\ swd[s] = "closed"
    BY <2>2 DEF CloseAnswer, Listed, TypeOK, SessionTypes
  <2>4. /\ UNCHANGED <<deviceConnection, swd, mcpMessage, view>>
        /\ trustletSessions' = trustletSessions \ {s}
    BY <1>4, <2>1, WaitKeeps DEF ExitSucceeds, DeleteSession, swdVars, clientVars
  <2>5. \A u \in Workers : job[u].pc \notin {"open", "transfer"}
    <3>1. mutex_mcp = TAExit
      BY <1>1, <2>1 DEF MutexHeld, HoldingPcs
    <3> QED
      BY <1>1, <3>1, Alone DEF HoldingPcs, Threads
  <2> QED
    BY <1>3, <2>3, <2>4, <2>5, UnseenEnds
<1>5. CASE ~ExitSucceeds
  <2>1. /\ UNCHANGED <<trustletSessions, deviceConnection, view>>
        /\ mcpMessage' = mcpMessage \/ mcpMessage'.kind = "cmd"
    <3>1. CASE ExitFails
      <4>1. PICK r : McpReturns("close", r)
        BY <3>1 DEF ExitFails
      <4>2. mcpMessage' = mcpMessage
        BY <4>1, WaitKeeps
      <4> QED
        BY <3>1, <4>2 DEF ExitFails, sessionVars, clientVars
    <3>2. CASE ExitCloses
      BY <3>2 DEF ExitCloses, SendMcp, sessionVars, clientVars
    <3>3. CASE ExitWakes \/ ExitLocks \/ ExitSleeps
      BY <3>3 DEF ExitWakes, ExitLocks, ExitSleeps, sessionVars, mcpVars, clientVars
    <3> QED
      BY <1>5, <3>1, <3>2, <3>3 DEF ExitStep
  <2> QED
    BY <1>3, <2>1, UnseenFrame
<1> QED
  BY <1>4, <1>5

LEMMA UnseenOfSwd ==
  ASSUME TypeOK, Core, Unseen, ~mcFault, SwdStep,
         \A s \in Sids : swd[s] = "closed" => swd'[s] = "closed"
  PROVE  Unseen'
<1>1. UNCHANGED <<trustletSessions, deviceConnection, view, job>>
  BY DEF SwdStep, SwdOpens, SwdCloses, SwdAnswers, SwdFindsNoCommand, TaNotifies, TaExits,
         sessionVars, clientVars
<1>2. ASSUME NEW u \in Workers, job[u].pc = "open", mcpMessage'.kind = "rsp"
      PROVE  ~Listed(mcpMessage'.sid)
  <2>1. mcpMessage.id = "open"
    BY <1>2 DEF Core, Answers, OpenAnswer, Threads
  <2>2. CASE SwdOpens
    <3>1. PICK s \in Sids \cup {NULL} :
            mcpMessage'.sid = s /\ (s \in Sids => swd[s] = "unused")
      BY <2>2, ConstantsAssumption DEF SwdOpens, SwdAnswers, TypeOK, McpTypes, McpMessage
    <3> QED
      BY <3>1, ConstantsAssumption
      DEF Listed, Core, WorldsAgree, InSwd, TypeOK, SessionTypes
  <2>3. CASE ~SwdOpens
    <3>1. mcpMessage' = mcpMessage
      BY <2>1, <2>3 DEF SwdStep, SwdCloses, SwdFindsNoCommand, TaNotifies, TaExits, mcpVars
    <3> QED
      BY <1>2, <3>1 DEF Unseen
  <2> QED
    BY <2>2, <2>3
<1> QED
  BY <1>1, <1>2 DEF Unseen, Listed

LEMMA UnseenStep ==
  ASSUME TypeOK, MutexHeld, Core, Unseen, ~mcFault, ~mcFault', Next
  PROVE  Unseen'
<1>1. \A s \in Sids : swd[s] = "closed" => swd'[s] = "closed"
  BY ClosedStays
<1>2. ASSUME NEW c \in Clients, ClientStep(c)
      PROVE  Unseen'
  BY <1>1, <1>2, UnseenFrame DEF ClientStep, ReadCommand, Die, sessionVars, mcpVars
<1>3. CASE IrqStep
  BY <1>1, <1>3, UnseenFrame DEF IrqStep, IrqMcp, IrqUnknown, IrqQueues, IrqForwards,
     sessionVars, mcpVars, clientVars
<1>4. CASE UNCHANGED vars
  BY <1>1, <1>4, UnseenFrame DEF vars, sessionVars, mcpVars, clientVars
<1> QED
  BY <1>1, <1>2, <1>3, <1>4, UnseenOfWorker, UnseenOfExit, UnseenOfSwd
  DEF Next, Rest, Aborted


-----------------------------------------------------------------------------
(* Who owns a session that its client may still connect.                   *)

LEMMA OwnersFrame ==
  ASSUME OwnersOpen, opener' = opener,
         \A s \in Sids : Asks(s)' => Asks(s),
         trustletSessions' \subseteq trustletSessions,
         deviceConnection' = deviceConnection,
         \A s \in Sids : notificationConnection'[s] => notificationConnection[s],
         \A u \in Workers, s \in Sids :
           Closes(u, s)' => Closes(u, s) /\ job'[u].client = job[u].client
  PROVE  OwnersOpen'
<1>1. \A s \in Sids : Listed(s)' => Listed(s)
  BY DEF Listed
<1>2. \A s \in Sids : Listed(s)' /\ Asks(s)' => deviceConnection'[s] \in {opener'[s], NULL}
  BY <1>1 DEF OwnersOpen
<1>3. \A u \in Workers, s \in Sids : Closes(u, s)' =>
        /\ Asks(s)' => opener'[s] = job'[u].client
        /\ s \in GpSids => ~notificationConnection'[s]
  BY DEF OwnersOpen
<1>4. \A s \in Sids : Orphan(s)' => s \in GpSids
  BY <1>1 DEF OwnersOpen, Orphan
<1> QED
  BY <1>2, <1>3, <1>4 DEF OwnersOpen

\* A thread moves and starts no close.
LEMMA OwnersMove ==
  ASSUME TypeOK, OwnersOpen, NEW t \in Threads, NEW j, Become(t, j),
         \/ j.pc \notin {"close", "closeAgain"} \/ t \notin Workers
         \/ /\ job[t].pc \in {"close", "closeAgain"}
            /\ j.client = job[t].client /\ j.sid = job[t].sid,
         opener' = opener,
         \A s \in Sids : Asks(s)' => Asks(s),
         trustletSessions' \subseteq trustletSessions,
         deviceConnection' = deviceConnection,
         \A s \in Sids : notificationConnection'[s] => notificationConnection[s]
  PROVE  OwnersOpen'
<1>1. job'[t] = j /\ \A u \in Threads \ {t} : job'[u] = job[u]
  BY Moved
<1>2. ASSUME NEW u \in Workers, NEW s \in Sids, Closes(u, s)'
      PROVE  Closes(u, s) /\ job'[u].client = job[u].client
  <2>1. CASE u # t
    BY <1>1, <1>2, <2>1 DEF Closes, Threads
  <2>2. CASE u = t
    BY <1>1, <1>2, <2>2 DEF Closes
  <2> QED
    BY <2>1, <2>2
<1> QED
  BY <1>2, OwnersFrame

\* A session is closed by the dispatcher of its owner, which has opened it.
LEMMA OwnersOfClose ==
  ASSUME TypeOK, OwnersOpen, NEW w \in Workers, NEW s \in Sids, NEW c \in Clients, NEW d,
         BeginClose(w, s, c, d), Listed(s), deviceConnection[s] = c,
         UNCHANGED <<opener, view>>
  PROVE  OwnersOpen'
<1>1. w \in Threads
  BY DEF Threads
<1>2. /\ job'[w] = [pc |-> "close", client |-> c, sid |-> s, drop |-> d]
      /\ \A u \in Workers \ {w} : job'[u] = job[u]
  BY <1>1, Moved DEF BeginClose, Threads
<1>3. /\ trustletSessions' = trustletSessions
      /\ \A r \in Sids \ {s} : /\ deviceConnection'[r] = deviceConnection[r]
                               /\ notificationConnection'[r] = notificationConnection[r]
      /\ \/ /\ s \in GpSids
            /\ deviceConnection'[s] = NULL /\ notificationConnection'[s] = FALSE
         \/ /\ s \notin GpSids
            /\ deviceConnection'[s] = c
            /\ notificationConnection'[s] = notificationConnection[s]
  BY DEF BeginClose, TypeOK, SessionTypes
<1>4. \A r \in Sids : /\ Asks(r)' <=> Asks(r)
                      /\ Listed(r)' <=> Listed(r)
                      /\ notificationConnection'[r] => notificationConnection[r]
  BY <1>3 DEF Asks, Listed
<1>5. c # NULL
  BY ConstantsAssumption
<1>6. Asks(s) => opener[s] = c
  BY <1>5 DEF OwnersOpen
<1>7. \A r \in Sids : Listed(r)' /\ Asks(r)' => deviceConnection'[r] \in {opener'[r], NULL}
  BY <1>3, <1>4 DEF OwnersOpen
<1>8. ASSUME NEW u \in Workers, NEW r \in Sids, Closes(u, r)'
      PROVE  /\ Asks(r)' => opener'[r] = job'[u].client
             /\ r \in GpSids => ~notificationConnection'[r]
  <2>1. CASE u = w
    <3>1. r = s /\ job'[u].client = c
      BY <1>2, <1>8, <2>1 DEF Closes
    <3> QED
      BY <1>3, <1>4, <1>6, <3>1
  <2>2. CASE u # w
    <3>1. Closes(u, r) /\ job'[u] = job[u]
      BY <1>2, <1>8, <2>2 DEF Closes
    <3> QED
      BY <1>4, <3>1 DEF OwnersOpen
  <2> QED
    BY <2>1, <2>2
<1>9. \A r \in Sids : Orphan(r)' => r \in GpSids
  <2>1. \A r \in Sids \ {s} : Orphan(r)' => Orphan(r)
    BY <1>3 DEF Orphan, Listed
  <2>2. Orphan(s)' => s \in GpSids
    BY <1>3, <1>5 DEF Orphan
  <2> QED
    BY <2>1, <2>2 DEF OwnersOpen
<1> QED
  BY <1>7, <1>8, <1>9 DEF OwnersOpen

\* The client of a new session owns it.
LEMMA OwnersOfOpen ==
  ASSUME TypeOK, MutexHeld, Served, Unseen, OwnersOpen, Core, ~mcFault', NEW w \in Workers,
         OpenSucceeds(w) \/ OpenReturns(w)
  PROVE  OwnersOpen'
<1>1. w \in Threads /\ job[w] \in Job /\ job[w].pc \in {"open", "transfer"}
  BY DEF Threads, TypeOK, DaemonTypes, OpenSucceeds, OpenReturns
<1>2. job[w].client \in Clients /\ job[w].client # NULL
  BY <1>1, ConstantsAssumption DEF Served
<1>3. \A u \in Workers, r \in Sids : ~Closes(u, r)'
  <2>1. \A u \in Workers : u # w => job'[u] = job[u] /\ job[u].pc \notin HoldingPcs
    BY <1>1, Moved, Alone DEF OpenSucceeds, OpenReturns, MutexHeld, HoldingPcs, Threads
  <2>2. job'[w].pc \in {"idle", "transfer"}
    <3>1. \/ Become(w, Idle)
          \/ Become(w, [job[w] EXCEPT !.pc = "transfer", !.sid = mcpMessage.sid])
      BY DEF OpenSucceeds, OpenReturns
    <3>2. /\ Idle.pc = "idle"
          /\ [job[w] EXCEPT !.pc = "transfer", !.sid = mcpMessage.sid].pc = "transfer"
      BY <1>1 DEF Idle, Job
    <3> QED
      BY <1>1, <3>1, <3>2, Moved
  <2> QED
    BY <2>1, <2>2 DEF Closes, HoldingPcs
<1>4. CASE OpenSucceeds(w)
  <2> DEFINE s == mcpMessage.sid
  <2>1. Exchanging(w) /\ job[w].pc = "open" /\ McpReturns("open", "ok")
    BY <1>4 DEF OpenSucceeds, Exchanging
  <2>2. mcpMessage.kind = "rsp" /\ mcpMessage.result = "ok" /\ OpenAnswer
    BY <1>1, <2>1, AnswerTaken
  <2>3. s \in Sids /\ view[s] = "none"
    BY <2>1, <2>2 DEF OpenAnswer, InSwd, Unseen
  <2>4. /\ trustletSessions' = trustletSessions \cup {s}
        /\ deviceConnection'[s] = job[w].client
        /\ \A r \in Sids \ {s} : deviceConnection'[r] = deviceConnection[r]
        /\ UNCHANGED <<opener, view>>
    BY <1>4, <2>3 DEF OpenSucceeds, clientVars, TypeOK, SessionTypes
  <2>5. \A r \in Sids : Asks(r)' => Asks(r) /\ r # s
    BY <2>3, <2>4 DEF Asks
  <2>6. \A r \in Sids \ {s} : Listed(r)' => Listed(r)
    BY <2>4 DEF Listed
  <2>7. \A r \in Sids : Listed(r)' /\ Asks(r)' => deviceConnection'[r] \in {opener'[r], NULL}
    BY <2>4, <2>5, <2>6 DEF OwnersOpen
  <2>8. \A r \in Sids : Orphan(r)' => Orphan(r) /\ r # s
    BY <1>2, <2>4, <2>6 DEF Orphan
  <2> QED
    BY <1>3, <2>7, <2>8 DEF OwnersOpen
<1>5. CASE OpenReturns(w)
  <2> DEFINE s == job[w].sid
  <2>1. /\ s \in Sids /\ Listed(s) /\ deviceConnection[s] = job[w].client
    BY <1>5 DEF OpenReturns, Unseen
  <2>2. /\ opener'[s] = job[w].client
        /\ \A r \in Sids \ {s} : opener'[r] = opener[r] /\ view'[r] = view[r]
        /\ UNCHANGED <<trustletSessions, deviceConnection>>
    BY <1>5, <2>1 DEF OpenReturns, sessionVars, TypeOK, ClientTypes
  <2>3. \A r \in Sids : /\ Orphan(r)' => Orphan(r)
                        /\ Listed(r)' => Listed(r)
                        /\ Asks(r)' => Asks(r) \/ r = s
    BY <2>1, <2>2 DEF Orphan, Listed, Asks
  <2>4. \A r \in Sids : Listed(r)' /\ Asks(r)' => deviceConnection'[r] \in {opener'[r], NULL}
    BY <2>1, <2>2, <2>3 DEF OwnersOpen
  <2> QED
    BY <1>3, <2>3, <2>4 DEF OwnersOpen
<1> QED
  BY <1>4, <1>5

\* A session is not connected while it is being closed: one dispatcher serves both.
LEMMA OwnersOfConnect ==
  ASSUME TypeOK, Served, OwnersOpen, NEW w \in Workers, NEW s \in Sids, NqConnect(w, s)
  PROVE  OwnersOpen'
<1>1. /\ view[s] = "connecting" /\ w = ServedBy[opener[s]] /\ job[w].pc = "idle"
      /\ UNCHANGED <<trustletSessions, deviceConnection, opener>>
      /\ view' = [view EXCEPT ![s] = IF opener[s] \in died THEN "none" ELSE "connected"]
      /\ notificationConnection' = [notificationConnection EXCEPT ![s] = TRUE]
      /\ Become(w, [pc |-> "flush", client |-> opener[s], sid |-> s, drop |-> FALSE])
  BY DEF NqConnect, Serves
<1>2. \A r \in Sids \ {s} : /\ view'[r] = view[r]
                            /\ notificationConnection'[r] = notificationConnection[r]
  BY <1>1 DEF TypeOK, SessionTypes, ClientTypes
<1>3. \A r \in Sids : /\ Asks(r)' => Asks(r)
                      /\ Listed(r)' => Listed(r)
                      /\ Orphan(r)' => Orphan(r)
  BY <1>1, <1>2 DEF Asks, Listed, Orphan
<1>4. \A u \in Workers, r \in Sids : Closes(u, r)' => Closes(u, r) /\ u # w /\ job'[u] = job[u]
  <2>1. job'[w].pc = "flush" /\ \A u \in Workers \ {w} : job'[u] = job[u]
    BY <1>1, Moved DEF Threads
  <2> QED
    BY <2>1 DEF Closes
<1>5. ASSUME NEW u \in Workers, NEW r \in Sids, Closes(u, r)'
      PROVE  /\ Asks(r)' => opener'[r] = job'[u].client
             /\ r \in GpSids => ~notificationConnection'[r]
  <2>1. Closes(u, r) /\ u # w /\ job'[u] = job[u]
    BY <1>4, <1>5
  <2>2. r # s
    <3>1. SUFFICES ASSUME r = s
                   PROVE  FALSE
      OBVIOUS
    <3>2. opener[s] = job[u].client
      BY <1>1, <2>1, <3>1 DEF OwnersOpen, Asks
    <3>3. ServedBy[job[u].client] = u
      BY <2>1 DEF Served, Closes
    <3> QED
      BY <1>1, <2>1, <3>2, <3>3
  <2>3. Asks(r)' => opener'[r] = job'[u].client
    BY <1>1, <1>3, <2>1 DEF OwnersOpen
  <2>4. r \in GpSids => ~notificationConnection'[r]
    BY <1>2, <2>1, <2>2 DEF OwnersOpen
  <2> QED
    BY <2>3, <2>4
<1>6. \A r \in Sids : Listed(r)' /\ Asks(r)' => deviceConnection'[r] \in {opener'[r], NULL}
  BY <1>1, <1>3 DEF OwnersOpen
<1>7. \A r \in Sids : Orphan(r)' => r \in GpSids
  BY <1>3 DEF OwnersOpen
<1> QED
  BY <1>5, <1>6, <1>7 DEF OwnersOpen

\* No close starts, and the clients' sessions stay as they are.
Keeps ==
  /\ opener' = opener
  /\ \A s \in Sids : Asks(s)' => Asks(s)
  /\ trustletSessions' \subseteq trustletSessions
  /\ deviceConnection' = deviceConnection
  /\ \A s \in Sids : notificationConnection'[s] => notificationConnection[s]

LEMMA KeepsAll ==
  ASSUME UNCHANGED <<opener, view, trustletSessions, deviceConnection, notificationConnection>>
  PROVE  Keeps
BY DEF Keeps, Asks

LEMMA KeepsViews ==
  ASSUME TypeOK, UNCHANGED <<opener, deviceConnection>>, NEW s,
         view' = view \/ view' = [view EXCEPT ![s] = "none"],
         \/ UNCHANGED <<trustletSessions, notificationConnection>>
         \/ DeleteSession(s)
  PROVE  Keeps
<1>1. \A r \in Sids : Asks(r)' => Asks(r)
  BY DEF Asks, TypeOK, ClientTypes
<1>2. \A r \in Sids : notificationConnection'[r] => notificationConnection[r]
  BY DEF DeleteSession, TypeOK, SessionTypes
<1>3. trustletSessions' \subseteq trustletSessions
  BY DEF DeleteSession
<1> QED
  BY <1>1, <1>2, <1>3 DEF Keeps

LEMMA KeepsMove ==
  ASSUME TypeOK, OwnersOpen, Keeps, NEW t \in Threads, NEW j, Become(t, j),
         \/ j.pc \notin {"close", "closeAgain"} \/ t \notin Workers
         \/ /\ job[t].pc \in {"close", "closeAgain"}
            /\ j.client = job[t].client /\ j.sid = job[t].sid
  PROVE  OwnersOpen'
BY OwnersMove DEF Keeps

LEMMA KeepsStill ==
  ASSUME OwnersOpen, Keeps, job' = job
  PROVE  OwnersOpen'
BY OwnersFrame DEF Keeps, Closes

\* What a handler does when the exchange of a close is over.
LEMMA OwnersOfEnd ==
  ASSUME TypeOK, OwnersOpen, NEW w \in Workers,
         CloseSucceeds(w) \/ CloseDeferred(w) \/ CloseFails(w)
  PROVE  OwnersOpen'
<1>1. w \in Threads /\ job[w] \in Job
  BY DEF Threads, TypeOK, DaemonTypes
<1>2. PICK r \in {"ok", "error"} : EndClose(w, r)
  BY DEF CloseSucceeds, CloseDeferred, CloseFails
<1>3. Keeps
  <2>1. view' = view \/ view' = [view EXCEPT ![job[w].sid] = "none"]
    BY <1>2 DEF EndClose
  <2>2. /\ UNCHANGED <<opener, deviceConnection>>
        /\ \/ UNCHANGED <<trustletSessions, notificationConnection>>
           \/ DeleteSession(job[w].sid)
    BY DEF CloseSucceeds, CloseDeferred, CloseFails, KeepSession, DeleteSession, sessionVars
  <2> QED
    BY <2>1, <2>2, KeepsViews
<1>4. \/ Become(w, [job[w] EXCEPT !.pc = "drop", !.sid = NULL])
      \/ Become(w, Idle)
  BY <1>2 DEF EndClose
<1>5. [job[w] EXCEPT !.pc = "drop", !.sid = NULL].pc = "drop" /\ Idle.pc = "idle"
  BY <1>1 DEF Job, Idle
<1> QED
  BY <1>1, <1>3, <1>4, <1>5, KeepsMove

LEMMA OwnersOfWorker ==
  ASSUME TypeOK, MutexHeld, Core, Served, Unseen, OwnersOpen, ~mcFault, ~mcFault',
         NEW w \in Workers, WorkerStep(w)
  PROVE  OwnersOpen'
<1>1. w \in Threads /\ job[w] \in Job
  BY DEF Threads, TypeOK, DaemonTypes
<1>2. CASE (\E c \in Clients : OpenDevice(w, c)) \/ Flush(w) \/ Transfer(w)
  <2>1. Keeps /\ job' = job
    BY <1>2, KeepsAll DEF OpenDevice, Flush, Transfer, sessionVars, clientVars
  <2> QED
    BY <2>1, KeepsStill
<1>3. ASSUME NEW c \in Clients, OpenSession(w, c)
      PROVE  OwnersOpen'
  <2>1. Keeps
    BY <1>3, KeepsAll DEF OpenSession, sessionVars
  <2> QED
    BY <1>1, <1>3, <2>1, KeepsMove DEF OpenSession
<1>4. CASE OpenFails(w) \/ FlushEnds(w) \/ DropEnds(w) \/ CloseAsserts(w)
  <2>1. Keeps
    BY <1>4, KeepsAll DEF OpenFails, FlushEnds, DropEnds, CloseAsserts, sessionVars, clientVars
  <2>2. \E j : Become(w, j) /\ j.pc \in {"idle", "aborted"}
    BY <1>1, <1>4 DEF OpenFails, FlushEnds, DropEnds, CloseAsserts, Idle, Job
  <2> QED
    BY <1>1, <2>1, <2>2, KeepsMove
<1>5. CASE CloseAgain(w)
  <2>1. Keeps
    BY <1>5, KeepsAll DEF CloseAgain, sessionVars, clientVars
  <2>2. /\ Become(w, [job[w] EXCEPT !.pc = "closeAgain"]) /\ job[w].pc = "close"
    BY <1>5 DEF CloseAgain
  <2>3. LET j == [job[w] EXCEPT !.pc = "closeAgain"] IN
          j.pc = "closeAgain" /\ j.client = job[w].client /\ j.sid = job[w].sid
    BY <1>1 DEF Job
  <2> QED
    BY <1>1, <2>1, <2>2, <2>3, KeepsMove
<1>6. ASSUME NEW s \in Sids, UnknownSession(w, s)
      PROVE  OwnersOpen'
  <2>1. /\ job' = job /\ view' = [view EXCEPT ![s] = "none"]
        /\ UNCHANGED <<opener, deviceConnection, trustletSessions, notificationConnection>>
    BY <1>6 DEF UnknownSession, sessionVars
  <2>2. Keeps
    BY <2>1, KeepsViews
  <2> QED
    BY <2>1, <2>2, KeepsStill
<1>7. ASSUME NEW s \in Sids, CloseSession(w, s)
      PROVE  OwnersOpen'
  <2>1. opener[s] \in Clients
    BY <1>7 DEF CloseSession, Command, TypeOK, ClientTypes
  <2> QED
    BY <1>7, <2>1, OwnersOfClose DEF CloseSession, Listed
<1>8. CASE DropNext(w)
  <2> DEFINE c == job[w].client
  <2>1. PICK s \in Owned(c) : BeginClose(w, s, c, TRUE)
    BY <1>8 DEF DropNext
  <2>2. s \in Sids /\ Listed(s) /\ deviceConnection[s] = c
    BY <2>1 DEF Owned, Listed, TypeOK, SessionTypes
  <2>3. job[w].pc = "drop" /\ UNCHANGED <<opener, view>>
    BY <1>8 DEF DropNext, clientVars
  <2>4. c \in Clients
    BY <2>3 DEF Served
  <2> QED
    BY <2>1, <2>2, <2>3, <2>4, OwnersOfClose
<1>9. ASSUME NEW c \in Clients, CloseDevice(w, c) \/ DropConnection(w, c)
      PROVE  OwnersOpen'
  <2>1. /\ Become(w, [pc |-> "drop", client |-> c, sid |-> NULL, drop |-> TRUE])
        /\ UNCHANGED <<opener, view, trustletSessions, deviceConnection,
                       notificationConnection>>
    BY <1>9 DEF CloseDevice, DropConnection, BeginDrop, sessionVars
  <2>2. Keeps
    BY <2>1, KeepsAll
  <2> QED
    BY <1>1, <2>1, <2>2, KeepsMove
<1> QED
  BY <1>2, <1>3, <1>4, <1>5, <1>6, <1>7, <1>8, <1>9, OwnersOfOpen, OwnersOfConnect,
     OwnersOfEnd DEF WorkerStep

LEMMA OwnersOfOther ==
  ASSUME TypeOK, OwnersOpen,
         \/ ExitStep \/ IrqStep \/ SwdStep \/ UNCHANGED vars
         \/ \E c \in Clients : ClientStep(c)
  PROVE  OwnersOpen'
<1>1. CASE ExitStep
  <2>1. TAExit \in Threads /\ TAExit \notin Workers
    BY ConstantsAssumption DEF Threads
  <2>2. PICK j : Become(TAExit, j)
    BY <1>1 DEF ExitStep, ExitWakes, ExitLocks, ExitCloses, ExitSucceeds, ExitFails,
                ExitSleeps
  <2>3. UNCHANGED <<opener, view, deviceConnection>>
    BY <1>1 DEF ExitStep, ExitWakes, ExitLocks, ExitCloses, ExitSucceeds, DeleteSession,
       ExitFails, ExitSleeps, sessionVars, clientVars
  <2>4. \/ UNCHANGED <<trustletSessions, notificationConnection>>
        \/ DeleteSession(job[TAExit].sid)
    BY <1>1 DEF ExitStep, ExitWakes, ExitLocks, ExitCloses, ExitSucceeds, ExitFails,
       ExitSleeps, sessionVars
  <2>5. Keeps
    BY <2>3, <2>4, KeepsViews
  <2> QED
    BY <2>1, <2>2, <2>5, KeepsMove
<1>2. CASE IrqStep \/ SwdStep \/ UNCHANGED vars \/ \E c \in Clients : ClientStep(c)
  <2>1. Keeps /\ job' = job
    BY <1>2, KeepsAll DEF IrqStep, IrqMcp, IrqUnknown, IrqQueues, IrqForwards, SwdStep,
       SwdOpens, SwdCloses, SwdAnswers, SwdFindsNoCommand, TaNotifies, TaExits,
       ClientStep, ReadCommand, Die, sessionVars, clientVars, vars
  <2> QED
    BY <2>1, KeepsStill
<1> QED
  BY <1>1, <1>2

\* Every step keeps what is known of the sessions' owners.
LEMMA OwnersStep ==
  ASSUME TypeOK, MutexHeld, Core, Owners, Next
  PROVE  Owners'
<1>1. Served' /\ Openers'
  BY ServedStep, OpenersStep DEF Owners
<1>2. ASSUME ~mcFault'
      PROVE  Unseen' /\ OwnersOpen'
  <2>1. ~mcFault
    BY <1>2, FaultStays
  <2>2. Served /\ Unseen /\ OwnersOpen
    BY <2>1 DEF Owners
  <2> QED
    BY <1>2, <2>1, <2>2, UnseenStep, OwnersOfWorker, OwnersOfOther DEF Next, Rest, Aborted
<1> QED
  BY <1>1, <1>2 DEF Owners


-----------------------------------------------------------------------------
(* The sessions that have no owner any more.                               *)

LEMMA IrqState ==
  ASSUME TypeOK, IrqStep, NEW s \in Sids
  PROVE  /\ sessionState[s] = "dead" => sessionState'[s] = "dead"
         /\ exitWakeups > 0 => exitWakeups' > 0
         /\ \/ sessionState'[s] = sessionState[s]
            \/ /\ sessionState'[s] = "dead" /\ nqIn # <<>>
               /\ Head(nqIn).sid = s /\ Head(nqIn).payload = "exit"
<1>1. sessionState \in [Sids -> {"running", "dead", "closeSend"}] /\ exitWakeups \in Nat
  BY DEF TypeOK, SessionTypes, DaemonTypes
<1>2. CASE IrqQueues
  BY <1>1, <1>2 DEF IrqQueues, QueueNotification
<1>3. CASE ~IrqQueues
  BY <1>1, <1>3 DEF IrqStep, IrqMcp, IrqUnknown, IrqForwards, sessionVars
<1> QED
  BY <1>2, <1>3

LEMMA FirstOf ==
  ASSUME NEW q \in Seq(Note), NEW n, NEW i \in DOMAIN q, q[i] = n, q # <<>>
  PROVE  Head(q) = n \/ \E k \in DOMAIN Tail(q) : Tail(q)[k] = n
<1>1. CASE i = 1
  BY <1>1
<1>2. CASE i # 1
  <2>1. i - 1 \in DOMAIN Tail(q) /\ Tail(q)[i - 1] = q[i]
    BY <1>2
  <2> QED
    BY <2>1
<1> QED
  BY <1>1, <1>2

\* handleIrq that takes the exit notification of a lonely session wakes the TA exit
\* handler, which finds it dead.
LEMMA IrqNote ==
  ASSUME TypeOK, NEW s \in Sids, s \in GpSids, Lonely(s), ExitNoted(s), IrqStep
  PROVE  ExitNoted(s)' \/ (sessionState'[s] = "dead" /\ exitWakeups' > 0)
<1> DEFINE n == [sid |-> s, payload |-> "exit"]
<1>1. nqIn # <<>> /\ nqIn' = Tail(nqIn)
  BY DEF IrqStep, IrqMcp, IrqUnknown, IrqQueues, IrqForwards
<1>2. nqIn \in Seq(Note) /\ exitWakeups \in Nat
      /\ sessionState \in [Sids -> {"running", "dead", "closeSend"}]
  BY DEF TypeOK, SwdTypes, DaemonTypes, SessionTypes
<1>3. Head(nqIn) = n \/ \E k \in DOMAIN Tail(nqIn) : Tail(nqIn)[k] = n
  BY <1>1, <1>2, FirstOf DEF ExitNoted
<1>4. CASE \E k \in DOMAIN Tail(nqIn) : Tail(nqIn)[k] = n
  BY <1>1, <1>4 DEF ExitNoted
<1>5. CASE Head(nqIn) = n
  <2>1. /\ s \in GpSids /\ ~notificationConnection[s] /\ s \in trustletSessions
        /\ deviceConnection[s] = NULL /\ s # SID_MCP
    BY ConstantsAssumption DEF Lonely, Orphan, Listed
  <2>2. IrqQueues
    BY <1>5, <2>1 DEF IrqStep, IrqMcp, IrqUnknown, IrqForwards
  <2>3. exitWakeups' = exitWakeups + 1
    BY <1>5, <2>1, <2>2 DEF IrqQueues, WakesExitHandler
  <2>4. sessionState'[s] = "dead"
    BY <1>2, <1>5, <2>1, <2>2 DEF IrqQueues, QueueNotification
  <2> QED
    BY <1>2, <2>3, <2>4
<1> QED
  BY <1>3, <1>4, <1>5

\* What the SWd does to the notifications and to a TA that has been asked to end.
LEMMA SwdNote ==
  ASSUME TypeOK, SwdStep, NEW s \in Sids
  PROVE  /\ ExitNoted(s) => ExitNoted(s)'
         /\ swd[s] = "running" /\ s \in GpSids => swd'[s] = "running" \/ ExitNoted(s)'
         /\ asked \subseteq asked'
<1>1. nqIn \in Seq(Note) /\ swd \in [Sids -> {"unused", "running", "exited", "closed"}]
  BY DEF TypeOK, SwdTypes
<1>2. nqIn' = nqIn \/ \E n \in Note : nqIn' = Append(nqIn, n)
  <2>1. McpNote \in Note /\ \A r \in Sids, p \in Payloads : [sid |-> r, payload |-> p] \in Note
    BY DEF McpNote, Note, Payloads
  <2>2. CASE SwdOpens \/ SwdCloses \/ SwdFindsNoCommand
    BY <2>1, <2>2 DEF SwdOpens, SwdCloses, SwdAnswers, SwdFindsNoCommand
  <2>3. ASSUME NEW r \in Sids, TaNotifies(r) \/ TaExits(r)
        PROVE  nqIn' = nqIn \/ \E n \in Note : nqIn' = Append(nqIn, n)
    BY <2>1, <2>3 DEF TaNotifies, TaExits, Payloads
  <2> QED
    BY <2>2, <2>3 DEF SwdStep
<1>3. \A i \in DOMAIN nqIn : i \in DOMAIN nqIn' /\ nqIn'[i] = nqIn[i]
  BY <1>1, <1>2, AppendOf
<1>4. ExitNoted(s) => ExitNoted(s)'
  BY <1>3 DEF ExitNoted
<1>5. ASSUME swd[s] = "running", s \in GpSids
      PROVE  swd'[s] = "running" \/ ExitNoted(s)'
  <2>1. CASE TaExits(s)
    <3>1. LET n == [sid |-> s, payload |-> "exit"] IN n \in Note /\ nqIn' = Append(nqIn, n)
      BY <2>1 DEF TaExits, Note, Payloads
    <3> QED
      BY <1>1, <3>1, AppendOf DEF ExitNoted
  <2>2. CASE ~TaExits(s)
    BY <1>1, <1>5, <2>2 DEF SwdStep, SwdOpens, SwdCloses, SwdFindsNoCommand, TaNotifies,
       TaExits, swdVars
  <2> QED
    BY <2>1, <2>2
<1>6. asked \subseteq asked'
  BY DEF SwdStep, SwdOpens, SwdCloses, SwdFindsNoCommand, TaNotifies, TaExits, swdVars
<1> QED
  BY <1>4, <1>5, <1>6

\* What is moved to a new session is its own.
LEMMA TransferOwn ==
  ASSUME TypeOK, MutexHeld, Notes, ~mcFault, NEW w \in Workers, Transfer(w)
  PROVE  /\ Head(unknown).sid = job[w].sid /\ Known(Head(unknown))
<1>1. /\ job[w].pc = "transfer" /\ unknown # <<>> /\ unknown \in Seq(Note)
  BY DEF Transfer, TypeOK, DaemonTypes
<1>2. 1 \in DOMAIN unknown /\ Head(unknown) = unknown[1]
  BY <1>1, TailOf
<1>3. \A u \in Workers : job[u].pc \in {"open", "transfer"} => u = w
  BY <1>1 DEF MutexHeld, HoldingPcs, Threads
<1> QED
  BY <1>1, <1>2, <1>3 DEF Notes, NotesKnown, UnknownIsOpening

\* Where the state of a session changes, besides in handleIrq.
LEMMA StateOf ==
  ASSUME TypeOK, Next, ~IrqStep,
         \A w \in Workers : ~Transfer(w) /\ ~OpenSucceeds(w) /\ ~DropNext(w),
         \A w \in Workers, s \in Sids : ~CloseSession(w, s)
  PROVE  /\ sessionState' = sessionState /\ trustletSessions' \subseteq trustletSessions
         /\ deviceConnection' = deviceConnection
<1>1. ASSUME NEW w \in Workers, WorkerStep(w)
      PROVE  /\ sessionState' = sessionState /\ trustletSessions' \subseteq trustletSessions
             /\ deviceConnection' = deviceConnection
  <2>1. CASE \/ \E c \in Clients : \/ OpenDevice(w, c) \/ OpenSession(w, c)
                                   \/ CloseDevice(w, c) \/ DropConnection(w, c)
             \/ \E s \in Sids : NqConnect(w, s) \/ UnknownSession(w, s)
    BY <2>1 DEF OpenDevice, OpenSession, CloseDevice, DropConnection, BeginDrop,
       NqConnect, UnknownSession, sessionVars
  <2>2. CASE \/ OpenReturns(w) \/ Flush(w) \/ FlushEnds(w) \/ CloseAgain(w) \/ DropEnds(w)
             \/ OpenFails(w) \/ CloseSucceeds(w) \/ CloseDeferred(w) \/ CloseFails(w)
             \/ CloseAsserts(w)
    BY <2>2 DEF OpenReturns, Flush, FlushEnds, CloseAgain, DropEnds, OpenFails,
       CloseSucceeds, DeleteSession, CloseDeferred, CloseFails, KeepSession, CloseAsserts,
       sessionVars
  <2> QED
    BY <1>1, <2>1, <2>2 DEF WorkerStep
<1>2. CASE \/ ExitStep \/ SwdStep \/ UNCHANGED vars \/ \E c \in Clients : ClientStep(c)
  BY <1>2 DEF ExitStep, ExitWakes, ExitLocks, ExitCloses, ExitSucceeds, DeleteSession,
     ExitFails, ExitSleeps, ClientStep, ReadCommand, Die, SwdStep, SwdOpens, SwdCloses,
     SwdAnswers, SwdFindsNoCommand, TaNotifies, TaExits, sessionVars, vars
<1> QED
  BY <1>1, <1>2 DEF Next, Rest, Aborted

\* What a close is begun with: no other session's state changes.
LEMMA BeginState ==
  ASSUME TypeOK, NEW w, NEW s \in Sids, NEW c, NEW d, BeginClose(w, s, c, d)
  PROVE  /\ trustletSessions' = trustletSessions
         /\ \A r \in Sids \ {s} : /\ sessionState'[r] = sessionState[r]
                                  /\ deviceConnection'[r] = deviceConnection[r]
                                  /\ notificationConnection'[r] = notificationConnection[r]
         /\ s \in GpSids => sessionState'[s] = "closeSend" /\ deviceConnection'[s] = NULL
         /\ s \notin GpSids => UNCHANGED <<sessionState, deviceConnection>>
         /\ mcpMessage'.kind = "cmd"
BY DEF BeginClose, SendMcp, TypeOK, SessionTypes

LEMMA DeadStep ==
  ASSUME TypeOK, MutexHeld, Notes, DeadEnded, Core, ~mcFault, ~mcFault', Next
  PROVE  DeadEnded'
<1>1. \A s \in Sids : swd[s] \in {"exited", "closed"} => swd'[s] \in {"exited", "closed"}
  BY ClosedStays
<1>2. CASE IrqStep
  <2>1. trustletSessions' = trustletSessions /\ nqIn \in Seq(Note)
    BY <1>2 DEF IrqStep, IrqMcp, IrqUnknown, IrqQueues, IrqForwards, sessionVars, TypeOK,
                SwdTypes
  <2>2. ASSUME NEW s \in Sids, nqIn # <<>>, Head(nqIn).sid = s, Head(nqIn).payload = "exit"
        PROVE  swd[s] \in {"exited", "closed"}
    <3>1. 1 \in DOMAIN nqIn /\ Head(nqIn) = nqIn[1] /\ s # SID_MCP
      BY <2>1, <2>2, TailOf, ConstantsAssumption
    <3> QED
      BY <2>2, <3>1 DEF Notes, NotesKnown, Known, KnownIn
  <2> QED
    BY <1>1, <1>2, <2>1, <2>2, IrqState DEF DeadEnded, Listed
<1>3. ASSUME NEW w \in Workers, Transfer(w)
      PROVE  DeadEnded'
  <2>1. /\ trustletSessions' = trustletSessions
        /\ QueueNotification(job[w].sid, Head(unknown))
    BY <1>3 DEF Transfer
  <2>2. \A s \in Sids : \/ sessionState'[s] = sessionState[s]
                        \/ s = job[w].sid /\ Head(unknown).payload = "exit"
    BY <2>1 DEF QueueNotification, TypeOK, SessionTypes
  <2>3. Head(unknown).sid = job[w].sid /\ Known(Head(unknown))
    BY <1>3, TransferOwn
  <2> QED
    BY <1>1, <2>1, <2>2, <2>3 DEF DeadEnded, Listed, Known, KnownIn
<1>4. ASSUME NEW w \in Workers, OpenSucceeds(w)
      PROVE  DeadEnded'
  <2>1. \A s \in Sids : \/ sessionState'[s] = "running"
                        \/ sessionState'[s] = sessionState[s] /\ (Listed(s)' => Listed(s))
    BY <1>4 DEF OpenSucceeds, TypeOK, SessionTypes, Listed
  <2> QED
    BY <1>1, <2>1 DEF DeadEnded
<1>5. ASSUME NEW w \in Workers, NEW s \in Sids, NEW c, NEW d, BeginClose(w, s, c, d)
      PROVE  DeadEnded'
  <2>1. \A r \in Sids : sessionState'[r] # "dead" \/ sessionState'[r] = sessionState[r]
    BY <1>5, BeginState
  <2>2. trustletSessions' = trustletSessions
    BY <1>5, BeginState
  <2> QED
    BY <1>1, <2>1, <2>2 DEF DeadEnded, Listed
<1>6. ASSUME NEW w \in Workers, DropNext(w) \/ \E s \in Sids : CloseSession(w, s)
      PROVE  DeadEnded'
  <2>1. PICK s, c, d : s \in Sids /\ BeginClose(w, s, c, d)
    BY <1>6 DEF DropNext, CloseSession, Owned, TypeOK, SessionTypes
  <2> QED
    BY <1>5, <2>1
<1>7. ASSUME sessionState' = sessionState, trustletSessions' \subseteq trustletSessions
      PROVE  DeadEnded'
  BY <1>1, <1>7 DEF DeadEnded, Listed
<1> QED
  BY <1>2, <1>3, <1>4, <1>6, <1>7, StateOf

\* After the step, no dispatcher waits for the answer to a close.
LEMMA NoCloser ==
  ASSUME MutexHeld', NEW t \in Threads, mutex_mcp' \in {NULL, t},
         job'[t].pc \notin {"close", "closeAgain"}
  PROVE  AgainCloses' /\ EndsAsked'
<1>1. \A w \in Workers : job'[w].pc \notin {"close", "closeAgain"}
  BY ConstantsAssumption DEF MutexHeld, HoldingPcs, Threads
<1> QED
  BY <1>1 DEF AgainCloses, EndsAsked, Deferred

\* Those that wait go on waiting, and know the same.
LEMMA CloserFrame ==
  ASSUME AgainCloses, EndsAsked,
         UNCHANGED <<sessionState, deviceConnection, mcpMessage, nqIn, swd, asked>>,
         \A w \in Workers : job'[w].pc \in {"close", "closeAgain"} => job'[w] = job[w]
  PROVE  AgainCloses' /\ EndsAsked'
<1>1. AgainCloses'
  BY DEF AgainCloses, HasEnded
<1>2. EndsAsked'
  BY DEF EndsAsked, Deferred, ExitNoted
<1> QED
  BY <1>1, <1>2

\* The one that closes a session is the only one to wait.
LEMMA CloserAlone ==
  ASSUME TypeOK, MutexHeld, NEW w \in Workers, NEW j, Become(w, j), mutex_mcp \in {NULL, w}
  PROVE  \A u \in Workers : job'[u].pc \in {"close", "closeAgain"} => u = w /\ job'[u] = j
<1>1. w \in Threads
  BY DEF Threads
<1>2. \A u \in Workers \ {w} : job'[u] = job[u] /\ job[u].pc \notin {"close", "closeAgain"}
  BY <1>1, Moved, Alone DEF HoldingPcs, Threads
<1> QED
  BY <1>1, <1>2, Moved

LEMMA CloserOfBegin ==
  ASSUME TypeOK, MutexHeld, NEW w \in Workers, NEW s \in Sids, NEW c, NEW d,
         BeginClose(w, s, c, d), mutex_mcp \in {NULL, w}
  PROVE  AgainCloses' /\ EndsAsked'
<1> DEFINE j == [pc |-> "close", client |-> c, sid |-> s, drop |-> d]
<1>1. \A u \in Workers : job'[u].pc \in {"close", "closeAgain"} => u = w /\ job'[u] = j
  BY CloserAlone DEF BeginClose
<1>2. \A u \in Workers : job'[u].pc \in {"close", "closeAgain"} =>
        job'[u].pc = "close" /\ job'[u].sid = s
  BY <1>1
<1>3. mcpMessage'.kind = "cmd" /\ (s \in GpSids => deviceConnection'[s] = NULL)
  BY BeginState
<1> QED
  BY <1>2, <1>3 DEF AgainCloses, EndsAsked, Deferred

LEMMA CloserOfAgain ==
  ASSUME TypeOK, MutexHeld, AgainCloses, EndsAsked, NEW w \in Workers, CloseAgain(w)
  PROVE  AgainCloses' /\ EndsAsked'
<1>1. job[w].pc = "close" /\ job[w] \in Job /\ mutex_mcp = w
  BY DEF CloseAgain, TypeOK, DaemonTypes, MutexHeld, HoldingPcs, Threads
<1> DEFINE j == [job[w] EXCEPT !.pc = "closeAgain"]
<1>2. \A u \in Workers : job'[u].pc \in {"close", "closeAgain"} => u = w /\ job'[u] = j
  BY <1>1, CloserAlone DEF CloseAgain
<1>3. j.sid = job[w].sid /\ j.pc = "closeAgain"
  BY <1>1 DEF Job
<1>4. /\ mcpMessage'.kind = "cmd" /\ HasEnded(job[w].sid)
      /\ UNCHANGED <<sessionState, deviceConnection>>
  BY DEF CloseAgain, sessionVars, TypeOK, McpTypes, McpMessage
<1>5. AgainCloses'
  BY <1>2, <1>3, <1>4 DEF AgainCloses, HasEnded
<1>6. EndsAsked'
  BY <1>1, <1>2, <1>3, <1>4 DEF EndsAsked, Deferred
<1> QED
  BY <1>5, <1>6

LEMMA CloserOfIrq ==
  ASSUME TypeOK, Core, OwnersOpen, AgainCloses, EndsAsked, ~mcFault, IrqStep
  PROVE  AgainCloses' /\ EndsAsked'
<1>1. UNCHANGED <<trustletSessions, deviceConnection, mcpMessage, swd, asked, job>>
  BY DEF IrqStep, IrqMcp, IrqUnknown, IrqQueues, IrqForwards, sessionVars, mcpVars, swdVars
<1>2. ASSUME NEW w \in Workers, job[w].pc \in {"close", "closeAgain"}
      PROVE  job[w].sid \in Sids /\ Listed(job[w].sid)
  BY <1>2 DEF Core, Answers, CloseAnswer, Listed, Threads, TypeOK, SessionTypes
<1>3. AgainCloses'
  BY <1>1, <1>2, IrqState DEF AgainCloses, HasEnded
<1>4. ASSUME NEW w \in Workers, Deferred(w), NEW s, s = job[w].sid
      PROVE  swd[s] = "running" \/ sessionState'[s] = "dead" \/ ExitNoted(s)'
  <2>1. s \in Sids /\ s \in GpSids /\ Lonely(s)
    BY <1>2, <1>4 DEF EndsAsked, Deferred, Orphan, Lonely, OwnersOpen, Closes
  <2>2. swd[s] = "running" \/ sessionState[s] = "dead" \/ ExitNoted(s)
    BY <1>4 DEF EndsAsked
  <2>3. sessionState[s] = "dead" => sessionState'[s] = "dead"
    BY <2>1, IrqState
  <2>4. ExitNoted(s) => sessionState'[s] = "dead" \/ ExitNoted(s)'
    BY <2>1, IrqNote
  <2> QED
    BY <2>2, <2>3, <2>4
<1>5. \A w \in Workers : Deferred(w)' => Deferred(w)
  BY <1>1 DEF Deferred
<1> QED
  BY <1>1, <1>3, <1>4, <1>5 DEF EndsAsked

LEMMA CloserOfSwd ==
  ASSUME TypeOK, Core, DeadEnded, AgainCloses, EndsAsked, ~mcFault, SwdStep
  PROVE  AgainCloses' /\ EndsAsked'
<1>1. UNCHANGED <<trustletSessions, deviceConnection, sessionState, job>>
  BY DEF SwdStep, SwdOpens, SwdCloses, SwdAnswers, SwdFindsNoCommand, TaNotifies, TaExits,
     sessionVars
<1>2. ASSUME NEW w \in Workers, job[w].pc \in {"close", "closeAgain"}
      PROVE  job[w].sid \in Sids /\ Listed(job[w].sid) /\ CloseAnswer(job[w].sid)
  BY <1>2 DEF Core, Answers, CloseAnswer, Listed, Threads, TypeOK, SessionTypes
<1>3. ASSUME NEW w \in Workers, job[w].pc \in {"close", "closeAgain"}, ~SwdCloses
      PROVE  mcpMessage' = mcpMessage
  BY <1>2, <1>3 DEF SwdStep, SwdOpens, CloseAnswer, SwdFindsNoCommand, TaNotifies, TaExits,
     mcpVars
<1>4. ASSUME NEW w \in Workers, job[w].pc \in {"close", "closeAgain"}, SwdCloses
      PROVE  LET s == job[w].sid IN
             /\ HasEnded(s) => mcpMessage'.result = "ok"
             /\ mcpMessage'.result = "closeTaskFailed" =>
                  s \in GpSids \cap asked' /\ swd'[s] = "running"
  <2> DEFINE s == job[w].sid
  <2>1. mcpMessage.sid = s /\ mcpMessage.kind = "cmd" /\ InSwd(s) /\ s \in Sids /\ Listed(s)
    BY <1>2, <1>4 DEF CloseAnswer, SwdCloses, SwdAnswers
  <2>2. mcpMessage \in McpMessage
    BY DEF TypeOK, McpTypes
  <2>3. CASE SwdAnswers("ok", s)
    BY <2>2, <2>3 DEF SwdAnswers, McpMessage
  <2>4. CASE /\ swd[s] = "running" /\ s \in GpSids
             /\ SwdAnswers("closeTaskFailed", s)
             /\ asked' = asked \cup {s}
             /\ UNCHANGED swd
    BY <2>1, <2>4 DEF DeadEnded, HasEnded
  <2>5. ~(swd[s] \in {"unused", "closed"})
    BY <2>1 DEF InSwd
  <2> QED
    BY <1>4, <2>1, <2>3, <2>4, <2>5 DEF SwdCloses
<1>5. AgainCloses'
  <2>1. ASSUME NEW w \in Workers, job[w].pc = "closeAgain", mcpMessage'.kind = "rsp"
        PROVE  mcpMessage'.result = "ok"
    BY <1>3, <1>4, <2>1 DEF AgainCloses
  <2> QED
    BY <1>1, <2>1 DEF AgainCloses, HasEnded
<1>6. ASSUME NEW w \in Workers, Deferred(w)'
      PROVE  LET s == job[w].sid IN
             /\ s \in GpSids \cap asked'
             /\ swd'[s] = "running" \/ sessionState'[s] = "dead" \/ ExitNoted(s)'
  <2>1. job[w].pc = "close" /\ mcpMessage'.result = "closeTaskFailed"
    BY <1>1, <1>6 DEF Deferred
  <2>2. CASE SwdCloses
    BY <1>4, <2>1, <2>2
  <2>3. CASE ~SwdCloses
    <3>1. Deferred(w) /\ job[w].sid \in Sids
      BY <1>1, <1>2, <1>3, <1>6, <2>1, <2>3 DEF Deferred
    <3>2. /\ job[w].sid \in GpSids \cap asked
          /\ \/ swd[job[w].sid] = "running"
             \/ sessionState[job[w].sid] = "dead" \/ ExitNoted(job[w].sid)
      BY <3>1 DEF EndsAsked
    <3> QED
      BY <1>1, <3>1, <3>2, SwdNote
  <2> QED
    BY <2>2, <2>3
<1> QED
  BY <1>1, <1>5, <1>6 DEF EndsAsked

LEMMA CloserOfWorker ==
  ASSUME TypeOK, MutexHeld, MutexHeld', Core, AgainCloses, EndsAsked,
         NEW w \in Workers, WorkerStep(w)
  PROVE  AgainCloses' /\ EndsAsked'
<1>1. w \in Threads /\ job[w] \in Job
  BY DEF Threads, TypeOK, DaemonTypes
<1>2. CASE (\E c \in Clients : OpenDevice(w, c)) \/ Flush(w) \/ \E s \in Sids : UnknownSession(w, s)
  <2>1. UNCHANGED <<sessionState, deviceConnection, mcpMessage, nqIn, swd, asked, job>>
    BY <1>2 DEF OpenDevice, Flush, UnknownSession, sessionVars, mcpVars, swdVars
  <2> QED
    BY <2>1, CloserFrame
<1>3. CASE FlushEnds(w) \/ \E s \in Sids : NqConnect(w, s)
  <2>1. UNCHANGED <<sessionState, deviceConnection, mcpMessage, nqIn, swd, asked>>
    BY <1>3 DEF FlushEnds, NqConnect, sessionVars, mcpVars, swdVars
  <2>2. job'[w].pc \in {"idle", "flush"} /\ \A u \in Threads \ {w} : job'[u] = job[u]
    <3>1. CASE FlushEnds(w)
      BY <1>1, <3>1, Moved DEF FlushEnds, Idle
    <3>2. ASSUME NEW s \in Sids, NqConnect(w, s)
          PROVE  job'[w].pc = "flush" /\ \A u \in Threads \ {w} : job'[u] = job[u]
      BY <1>1, <3>2, Moved DEF NqConnect
    <3> QED
      BY <1>3, <3>1, <3>2
  <2>3. \A u \in Workers : job'[u].pc \in {"close", "closeAgain"} => job'[u] = job[u]
    BY <2>2 DEF Threads
  <2> QED
    BY <2>1, <2>3, CloserFrame
<1>4. CASE \/ \E c \in Clients : OpenSession(w, c) \/ CloseDevice(w, c) \/ DropConnection(w, c)
           \/ OpenFails(w) \/ OpenReturns(w) \/ DropEnds(w)
  <2>1. mutex_mcp' \in {NULL, w}
    BY <1>4 DEF OpenSession, CloseDevice, DropConnection, BeginDrop, OpenFails, OpenReturns,
                DropEnds
  <2>2. ASSUME NEW c \in Clients, OpenSession(w, c) \/ CloseDevice(w, c) \/ DropConnection(w, c)
        PROVE  job'[w].pc \in {"open", "drop"}
    BY <1>1, <2>2, Moved DEF OpenSession, CloseDevice, DropConnection, BeginDrop
  <2>3. job'[w].pc \notin {"close", "closeAgain"}
    <3>1. CASE OpenFails(w) \/ OpenReturns(w) \/ DropEnds(w)
      BY <1>1, <3>1, Moved DEF OpenFails, OpenReturns, DropEnds, Idle
    <3> QED
      BY <1>4, <2>2, <3>1
  <2> QED
    BY <1>1, <2>1, <2>3, NoCloser
<1>5. CASE OpenSucceeds(w) \/ Transfer(w)
  <2>1. mutex_mcp' = mutex_mcp /\ job[w].pc \in {"open", "transfer"}
    BY <1>5 DEF OpenSucceeds, Transfer
  <2>2. mutex_mcp' = w
    BY <1>1, <2>1 DEF MutexHeld, HoldingPcs
  <2>3. job'[w].pc = "transfer"
    <3>1. CASE OpenSucceeds(w)
      <4>1. [job[w] EXCEPT !.pc = "transfer", !.sid = mcpMessage.sid].pc = "transfer"
        BY <1>1 DEF Job
      <4> QED
        BY <1>1, <3>1, <4>1, Moved DEF OpenSucceeds
    <3>2. CASE Transfer(w)
      BY <3>2 DEF Transfer
    <3> QED
      BY <1>5, <3>1, <3>2
  <2> QED
    BY <1>1, <2>2, <2>3, NoCloser
<1>6. CASE CloseSucceeds(w) \/ CloseDeferred(w) \/ CloseFails(w)
  <2>1. job[w].pc \in {"close", "closeAgain"}
    BY <1>6 DEF CloseSucceeds, CloseDeferred, CloseFails
  <2>2. mutex_mcp = w
    BY <1>1, <2>1 DEF MutexHeld, HoldingPcs
  <2>3. PICK r \in {"ok", "error"} : EndClose(w, r)
    BY <1>6 DEF CloseSucceeds, CloseDeferred, CloseFails
  <2>4. mutex_mcp' \in {NULL, w}
    BY <2>2, <2>3 DEF EndClose
  <2>5. Become(w, Idle) \/ Become(w, [job[w] EXCEPT !.pc = "drop", !.sid = NULL])
    BY <2>3 DEF EndClose
  <2>6. Idle.pc = "idle" /\ [job[w] EXCEPT !.pc = "drop", !.sid = NULL].pc = "drop"
    BY <1>1 DEF Idle, Job
  <2>7. job'[w].pc \notin {"close", "closeAgain"}
    BY <1>1, <2>5, <2>6, Moved
  <2> QED
    BY <1>1, <2>4, <2>7, NoCloser
<1>7. CASE CloseAsserts(w)
  <2>1. mutex_mcp' = w
    BY <1>1, <1>7 DEF CloseAsserts, MutexHeld, HoldingPcs
  <2>2. job'[w].pc = "aborted"
    BY <1>1, <1>7, Moved DEF CloseAsserts, Job
  <2> QED
    BY <1>1, <2>1, <2>2, NoCloser
<1>8. ASSUME NEW s \in Sids, CloseSession(w, s)
      PROVE  AgainCloses' /\ EndsAsked'
  BY <1>8, CloserOfBegin DEF CloseSession
<1>9. CASE DropNext(w)
  <2>1. PICK s \in Sids : BeginClose(w, s, job[w].client, TRUE)
    BY <1>9 DEF DropNext, Owned, TypeOK, SessionTypes
  <2>2. mutex_mcp = w
    BY <1>1, <1>9 DEF DropNext, MutexHeld, HoldingPcs
  <2> QED
    BY <2>1, <2>2, CloserOfBegin
<1> QED
  BY <1>2, <1>3, <1>4, <1>5, <1>6, <1>7, <1>8, <1>9, CloserOfAgain DEF WorkerStep

LEMMA CloserStep ==
  ASSUME TypeOK, MutexHeld, MutexHeld', Core, OwnersOpen, DeadEnded, AgainCloses, EndsAsked,
         ~mcFault, Next
  PROVE  AgainCloses' /\ EndsAsked'
<1>1. CASE ExitStep
  <2>1. TAExit \in Threads /\ TAExit \notin Workers
    BY ConstantsAssumption DEF Threads
  <2>2. PICK j : Become(TAExit, j)
    BY <1>1 DEF ExitStep, ExitWakes, ExitLocks, ExitCloses, ExitSucceeds, ExitFails,
                ExitSleeps
  <2>3. \A u \in Workers : job'[u] = job[u]
    BY <2>1, <2>2, Moved DEF Threads
  <2>4. CASE ExitWakes
    BY <2>3, <2>4, CloserFrame DEF ExitWakes, sessionVars, mcpVars, swdVars
  <2>5. CASE ~ExitWakes
    <3>1. mutex_mcp' \in {NULL, TAExit}
      <4>1. CASE ExitLocks \/ ExitSleeps
        BY <4>1 DEF ExitLocks, ExitSleeps
      <4>2. CASE ExitCloses \/ ExitSucceeds \/ ExitFails
        BY <2>1, <4>2 DEF ExitCloses, ExitSucceeds, ExitFails, MutexHeld, HoldingPcs
      <4> QED
        BY <1>1, <2>5, <4>1, <4>2 DEF ExitStep
    <3>2. job'[TAExit].pc \notin {"close", "closeAgain"}
      <4>1. CASE ExitLocks \/ ExitSleeps \/ ExitSucceeds \/ ExitFails
        BY <2>1, <4>1, Moved DEF ExitLocks, ExitSleeps, ExitSucceeds, ExitFails, Idle
      <4>2. CASE ExitCloses
        <5>1. PICK s : Become(TAExit, [Idle EXCEPT !.pc = "exitClose", !.sid = s])
          BY <4>2 DEF ExitCloses
        <5>2. [Idle EXCEPT !.pc = "exitClose", !.sid = s].pc = "exitClose"
          BY DEF Idle
        <5>3. job'[TAExit].pc = "exitClose"
          BY <2>1, <5>1, <5>2, Moved
        <5> QED
          BY <5>3
      <4> QED
        BY <1>1, <2>5, <4>1, <4>2 DEF ExitStep
    <3> QED
      BY <2>1, <3>1, <3>2, NoCloser
  <2> QED
    BY <2>4, <2>5
<1>2. CASE UNCHANGED vars \/ \E c \in Clients : ClientStep(c)
  <2>1. UNCHANGED <<sessionState, deviceConnection, mcpMessage, nqIn, swd, asked, job>>
    BY <1>2 DEF ClientStep, ReadCommand, Die, sessionVars, mcpVars, swdVars, vars
  <2> QED
    BY <2>1, CloserFrame
<1> QED
  BY <1>1, <1>2, CloserOfWorker, CloserOfIrq, CloserOfSwd DEF Next, Rest, Aborted

LEMMA OrphanFrame ==
  ASSUME OrphansTended,
         \A s \in Sids : Lonely(s)' => Tended(s)' \/ (Lonely(s) /\ (Tended(s) => Tended(s)'))
  PROVE  OrphansTended'
BY DEF OrphansTended

\* A dispatcher moves, and the session s is as it was.
LEMMA TendedMove ==
  ASSUME UNCHANGED <<nqIn, swd, asked, exitWakeups>>, NEW s \in Sids,
         sessionState'[s] = sessionState[s], job'[TAExit] = job[TAExit],
         \A u \in Workers : Closing(u, s) => Closing(u, s)', Tended(s)
  PROVE  Tended(s)'
<1>1. ExitNoted(s) => ExitNoted(s)'
  BY DEF ExitNoted
<1> QED
  BY <1>1 DEF Tended

LEMMA TendedByOther ==
  ASSUME TypeOK, NEW w \in Workers, NEW j, Become(w, j), NEW s, ~Closing(w, s)
  PROVE  /\ job'[TAExit] = job[TAExit]
         /\ \A u \in Workers : Closing(u, s) => Closing(u, s)'
<1>1. w \in Threads /\ TAExit # w /\ TAExit \in Threads
  BY ConstantsAssumption DEF Threads
<1>2. \A u \in Workers : Closing(u, s) => u # w /\ job'[u] = job[u]
  BY <1>1, Moved DEF Threads
<1> QED
  BY <1>1, <1>2, Moved DEF Closing

\* A session that is being closed is tended to.
LEMMA OrphansOfBegin ==
  ASSUME TypeOK, OrphansTended, NEW w \in Workers, NEW s \in Sids, NEW c, NEW d,
         BeginClose(w, s, c, d), job[w].pc \in {"idle", "drop"},
         UNCHANGED <<nqIn, swd, asked, exitWakeups>>
  PROVE  OrphansTended'
<1>1. w \in Threads /\ Become(w, [pc |-> "close", client |-> c, sid |-> s, drop |-> d])
  BY DEF Threads, BeginClose
<1>2. Tended(s)'
  <2>1. job'[w].pc = "close" /\ job'[w].sid = s
    BY <1>1, Moved
  <2>2. \E u \in Workers : job'[u].pc \in {"close", "closeAgain", "exitClose"} /\ job'[u].sid = s
    BY <2>1
  <2> QED
    BY <2>2 DEF Tended, Closing
<1>3. ASSUME NEW r \in Sids \ {s}, Lonely(r)'
      PROVE  Lonely(r) /\ (Tended(r) => Tended(r)')
  <2>1. /\ Lonely(r) /\ sessionState'[r] = sessionState[r]
    BY <1>3, BeginState DEF Lonely, Orphan, Listed
  <2>2. ~Closing(w, r)
    BY DEF Closing
  <2> QED
    BY <1>1, <2>1, <2>2, TendedByOther, TendedMove
<1> QED
  BY <1>2, <1>3, OrphanFrame

\* The close is over: the session has gone, or its TA has been asked to end.
LEMMA OrphansOfEnd ==
  ASSUME TypeOK, Core, OwnersOpen, EndsAsked, OrphansTended, ~mcFault', NEW w \in Workers,
         CloseSucceeds(w) \/ CloseDeferred(w) \/ CloseFails(w)
  PROVE  OrphansTended'
<1> DEFINE s == job[w].sid
<1>1. w \in Threads /\ job[w].pc \in {"close", "closeAgain"} /\ Exchanging(w)
  BY DEF Threads, CloseSucceeds, CloseDeferred, CloseFails, Exchanging
<1>2. PICK j : Become(w, j)
  BY DEF CloseSucceeds, CloseDeferred, CloseFails, EndClose
<1>3. /\ UNCHANGED <<nqIn, swd, asked, exitWakeups, sessionState, deviceConnection>>
      /\ trustletSessions' \subseteq trustletSessions
      /\ CloseSucceeds(w) => trustletSessions' = trustletSessions \ {s}
      /\ ~CloseSucceeds(w) => notificationConnection' = notificationConnection
      /\ \A r \in Sids \ {s} : notificationConnection'[r] = notificationConnection[r]
  BY DEF TypeOK, SessionTypes, CloseSucceeds, CloseDeferred, CloseFails, DeleteSession, KeepSession,
         sessionVars, swdVars
<1>4. ASSUME NEW r \in Sids, r # s, Lonely(r)'
      PROVE  Lonely(r) /\ (Tended(r) => Tended(r)')
  <2>1. Lonely(r)
    BY <1>3, <1>4 DEF Lonely, Orphan, Listed
  <2>2. ~Closing(w, r)
    BY <1>4 DEF Closing
  <2>3. /\ job'[TAExit] = job[TAExit]
        /\ \A u \in Workers : Closing(u, r) => Closing(u, r)'
    BY <1>2, <2>2, TendedByOther
  <2>4. sessionState'[r] = sessionState[r]
    BY <1>3
  <2>5. UNCHANGED <<nqIn, swd, asked, exitWakeups>>
    BY <1>3
  <2>6. Tended(r) => Tended(r)'
    BY <2>3, <2>4, <2>5, TendedMove
  <2> QED
    BY <2>1, <2>6
<1>5. ASSUME NEW r \in Sids, r = s, Lonely(r)'
      PROVE  Tended(r)'
  <2>1. ~CloseSucceeds(w) /\ Lonely(r)
    BY <1>3, <1>5 DEF Lonely, Orphan, Listed
  <2>2. r \in GpSids
    BY <2>1 DEF OwnersOpen, Lonely
  <2>3. CASE CloseDeferred(w)
    <3>1. McpReturns("close", "closeTaskFailed") /\ job[w].pc = "close" /\ ~HasEnded(s)
      BY <2>3 DEF CloseDeferred
    <3>2. mcpMessage.kind = "rsp" /\ mcpMessage.result = "closeTaskFailed"
      BY <1>1, <3>1, AnswerTaken
    <3>3. Deferred(w)
      BY <3>1, <3>2 DEF Deferred
    <3>4. r \in asked /\ (swd[r] = "running" \/ sessionState[r] = "dead" \/ ExitNoted(r))
      BY <1>5, <3>3 DEF EndsAsked
    <3>5. ExitNoted(r) => ExitNoted(r)'
      BY <1>3 DEF ExitNoted
    <3> QED
      BY <1>3, <1>5, <2>2, <3>1, <3>4, <3>5 DEF HasEnded, Tended
  <2>4. CASE CloseFails(w)
    <3>1. PICK q \in Results \ {"ok"} :
            /\ McpReturns("close", q) /\ job[w].pc = "close"
            /\ q = "closeTaskFailed" => s \notin GpSids
      BY <2>4 DEF CloseFails
    <3>2. CloseAnswer(s) /\ mcpMessage.kind = "rsp" /\ q = mcpMessage.result
      BY <1>1, <3>1, AnswerTaken
    <3>3. q = "closeTaskFailed"
      BY <3>1, <3>2 DEF CloseAnswer
    <3> QED
      BY <1>5, <2>2, <3>1, <3>3
  <2> QED
    BY <2>1, <2>3, <2>4
<1> QED
  BY <1>4, <1>5, OrphanFrame

LEMMA OrphansOfWorker ==
  ASSUME TypeOK, MutexHeld, Core, Notes, Served, Unseen, OwnersOpen, AgainCloses, EndsAsked,
         OrphansTended, ~mcFault, ~mcFault', NEW w \in Workers, WorkerStep(w)
  PROVE  OrphansTended'
<1>1. w \in Threads /\ job[w] \in Job
  BY DEF Threads, TypeOK, DaemonTypes
<1>2. CASE (\E c \in Clients : OpenDevice(w, c)) \/ Flush(w) \/ \E s \in Sids : UnknownSession(w, s)
  <2>1. UNCHANGED <<trustletSessions, sessionState, deviceConnection, notificationConnection,
                    exitWakeups, nqIn, swd, asked, job>>
    BY <1>2 DEF OpenDevice, Flush, UnknownSession, sessionVars, swdVars
  <2> QED
    BY <2>1 DEF OrphansTended, Lonely, Orphan, Listed, Tended, Closing, ExitNoted
<1>3. CASE \/ \E c \in Clients : OpenSession(w, c) \/ CloseDevice(w, c) \/ DropConnection(w, c)
           \/ \E s \in Sids : NqConnect(w, s)
           \/ OpenFails(w) \/ OpenReturns(w) \/ FlushEnds(w) \/ DropEnds(w)
  <2>1. /\ UNCHANGED <<trustletSessions, sessionState, deviceConnection, exitWakeups, nqIn,
                       swd, asked>>
        /\ job[w].pc \notin {"close", "closeAgain", "exitClose"}
    BY <1>3 DEF OpenSession, CloseDevice, DropConnection, BeginDrop, Command, Serves,
       NqConnect, OpenFails, OpenReturns, FlushEnds, DropEnds, sessionVars, swdVars
  <2>2. PICK j : Become(w, j)
    BY <1>3 DEF OpenSession, CloseDevice, DropConnection, BeginDrop, NqConnect, OpenFails,
                OpenReturns, FlushEnds, DropEnds
  <2>3. \A s : ~Closing(w, s)
    BY <2>1 DEF Closing
  <2>5. \A s \in Sids : notificationConnection[s] => notificationConnection'[s]
    BY <1>3 DEF OpenSession, CloseDevice, DropConnection, BeginDrop, NqConnect, OpenFails,
                OpenReturns, FlushEnds, DropEnds, sessionVars, TypeOK, SessionTypes
  <2>4. ASSUME NEW s \in Sids, Lonely(s)'
        PROVE  Lonely(s) /\ (Tended(s) => Tended(s)')
    <3>1. Lonely(s)
      BY <2>1, <2>4, <2>5 DEF Lonely, Orphan, Listed
    <3> QED
      BY <2>1, <2>2, <2>3, <3>1, TendedByOther, TendedMove
  <2> QED
    BY <2>4, OrphanFrame
<1>4. CASE OpenSucceeds(w)
  <2> DEFINE q == mcpMessage.sid
  <2>1. Exchanging(w) /\ job[w].pc = "open" /\ McpReturns("open", "ok")
    BY <1>4 DEF OpenSucceeds, Exchanging
  <2>2. q \in Sids
    <3>1. OpenAnswer /\ mcpMessage.kind = "rsp" /\ mcpMessage.result = "ok"
      BY <1>1, <2>1, AnswerTaken
    <3> QED
      BY <3>1 DEF OpenAnswer
  <2>3. job[w].client # NULL
    BY <2>1, ConstantsAssumption DEF Served
  <2>4. /\ UNCHANGED <<exitWakeups, nqIn, swd, asked>>
        /\ trustletSessions' = trustletSessions \cup {q}
        /\ deviceConnection'[q] = job[w].client
        /\ \A s \in Sids \ {q} : /\ sessionState'[s] = sessionState[s]
                                 /\ deviceConnection'[s] = deviceConnection[s]
                                 /\ notificationConnection'[s] = notificationConnection[s]
    BY <1>4, <2>2 DEF OpenSucceeds, swdVars, TypeOK, SessionTypes
  <2>5. PICK j : Become(w, j)
    BY <1>4 DEF OpenSucceeds
  <2>6. \A s : ~Closing(w, s)
    BY <2>1 DEF Closing
  <2>7. ASSUME NEW s \in Sids, Lonely(s)'
        PROVE  Lonely(s) /\ (Tended(s) => Tended(s)')
    <3>1. s # q
      BY <2>3, <2>4, <2>7 DEF Lonely, Orphan
    <3>2. Lonely(s)
      BY <2>4, <2>7, <3>1 DEF Lonely, Orphan, Listed
    <3> QED
      BY <2>4, <2>5, <2>6, <3>1, <3>2, TendedByOther, TendedMove
  <2> QED
    BY <2>7, OrphanFrame
<1>5. CASE Transfer(w)
  <2> DEFINE q == job[w].sid
  <2>1. q \in Sids /\ deviceConnection[q] = job[w].client /\ job[w].client # NULL
    BY <1>5, ConstantsAssumption DEF Transfer, Unseen, Served
  <2>2. /\ UNCHANGED <<trustletSessions, deviceConnection, notificationConnection, exitWakeups,
                       nqIn, swd, asked, job>>
        /\ \A s \in Sids \ {q} : sessionState'[s] = sessionState[s]
    BY <1>5, <2>1 DEF Transfer, QueueNotification, swdVars, TypeOK, SessionTypes
  <2>3. ASSUME NEW s \in Sids, Lonely(s)'
        PROVE  Lonely(s) /\ (Tended(s) => Tended(s)')
    <3>1. Lonely(s) /\ s # q
      BY <2>1, <2>2, <2>3 DEF Lonely, Orphan, Listed
    <3>2. job'[TAExit] = job[TAExit] /\ \A u \in Workers : Closing(u, s) => Closing(u, s)'
      BY <2>2 DEF Closing
    <3> QED
      BY <2>2, <3>1, <3>2, TendedMove
  <2> QED
    BY <2>3, OrphanFrame
<1>6. ASSUME NEW s \in Sids, CloseSession(w, s)
      PROVE  OrphansTended'
  BY <1>6, OrphansOfBegin DEF CloseSession, Command, Serves, swdVars
<1>7. CASE DropNext(w)
  <2>1. PICK s \in Sids : BeginClose(w, s, job[w].client, TRUE)
    BY <1>7 DEF DropNext, Owned, TypeOK, SessionTypes
  <2>2. job[w].pc = "drop" /\ UNCHANGED <<nqIn, swd, asked, exitWakeups>>
    BY <1>7 DEF DropNext, swdVars
  <2> QED
    BY <2>1, <2>2, OrphansOfBegin
<1>8. CASE CloseAgain(w)
  <2>1. /\ Become(w, [job[w] EXCEPT !.pc = "closeAgain"]) /\ job[w].pc = "close"
        /\ UNCHANGED <<trustletSessions, sessionState, deviceConnection,
                       notificationConnection, exitWakeups, nqIn, swd, asked>>
    BY <1>8 DEF CloseAgain, sessionVars, swdVars
  <2>2. job'[w].pc = "closeAgain" /\ job'[w].sid = job[w].sid
    BY <1>1, <2>1, Moved DEF Job
  <2>3. /\ job'[TAExit] = job[TAExit]
        /\ \A s \in Sids, u \in Workers : Closing(u, s) => Closing(u, s)'
    BY <1>1, <2>1, <2>2, Moved, ConstantsAssumption DEF Closing, Threads
  <2>4. \A s \in Sids : Lonely(s)' => Lonely(s)
    BY <2>1 DEF Lonely, Orphan, Listed
  <2>5. \A s \in Sids : Tended(s) => Tended(s)'
    BY <2>1, <2>3, TendedMove
  <2> QED
    BY <2>4, <2>5, OrphanFrame
<1>9. CASE CloseAsserts(w)
  <2>1. PICK r \in Results \ {"ok"} : McpReturns("close", r) /\ job[w].pc = "closeAgain"
    BY <1>9 DEF CloseAsserts
  <2>2. mcpMessage.kind = "rsp" /\ r = mcpMessage.result
    BY <1>1, <2>1, AnswerTaken DEF Exchanging
  <2> QED
    BY <2>1, <2>2 DEF AgainCloses
<1> QED
  BY <1>2, <1>3, <1>4, <1>5, <1>6, <1>7, <1>8, <1>9, OrphansOfEnd DEF WorkerStep

\* The TA exit handler sleeps only when no session is dead.
LEMMA OrphansOfExit ==
  ASSUME TypeOK, OrphansTended, ExitStep
  PROVE  OrphansTended'
<1>1. TAExit \in Threads /\ TAExit \notin Workers
  BY ConstantsAssumption DEF Threads
<1>2. PICK j : Become(TAExit, j)
  BY DEF ExitStep, ExitWakes, ExitLocks, ExitCloses, ExitSucceeds, ExitFails, ExitSleeps
<1>3. \A s \in Sids : \A u \in Workers : Closing(u, s) => Closing(u, s)'
  BY <1>1, <1>2, Moved DEF Closing, Threads
<1>4. /\ UNCHANGED <<nqIn, swd, asked, sessionState, deviceConnection>>
      /\ trustletSessions' \subseteq trustletSessions
      /\ \A s \in trustletSessions' : notificationConnection'[s] = notificationConnection[s]
  <2>1. CASE ExitSucceeds
    BY <2>1 DEF ExitSucceeds, DeleteSession, TypeOK, SessionTypes, swdVars
  <2>2. CASE ~ExitSucceeds
    BY <2>2 DEF ExitStep, ExitWakes, ExitLocks, ExitCloses, ExitFails, ExitSleeps, sessionVars,
       swdVars
  <2> QED
    BY <2>1, <2>2
<1>5. job'[TAExit].pc # "idle" \/ ExitSleeps
  <2>1. CASE ExitWakes \/ ExitLocks \/ ExitSucceeds \/ ExitFails
    BY <1>1, <2>1, Moved DEF ExitWakes, ExitLocks, ExitSucceeds, ExitFails, Idle
  <2>2. CASE ExitCloses
    <3>1. PICK s : Become(TAExit, [Idle EXCEPT !.pc = "exitClose", !.sid = s])
      BY <2>2 DEF ExitCloses
    <3>2. [Idle EXCEPT !.pc = "exitClose", !.sid = s].pc = "exitClose"
      BY DEF Idle
    <3>3. job'[TAExit].pc = "exitClose"
      BY <1>1, <3>1, <3>2, Moved
    <3> QED
      BY <3>3
  <2> QED
    BY <2>1, <2>2 DEF ExitStep
<1>6. ASSUME NEW s \in Sids, Lonely(s)'
      PROVE  Lonely(s) /\ (Tended(s) => Tended(s)')
  <2>1. Lonely(s)
    BY <1>4, <1>6 DEF Lonely, Orphan, Listed
  <2>2. ExitSleeps => sessionState[s] # "dead"
    BY <2>1 DEF ExitSleeps, Dead, Lonely, Orphan, Listed
  <2>3. ExitNoted(s) => ExitNoted(s)'
    BY <1>4 DEF ExitNoted
  <2>4. Tended(s) => Tended(s)'
    BY <1>3, <1>4, <1>5, <2>2, <2>3 DEF Tended
  <2> QED
    BY <2>1, <2>4
<1> QED
  BY <1>6, OrphanFrame

LEMMA OrphansStep ==
  ASSUME TypeOK, MutexHeld, Core, Notes, Served, Unseen, OwnersOpen, AgainCloses, EndsAsked,
         OrphansTended, ~mcFault, ~mcFault', Next
  PROVE  OrphansTended'
<1>1. CASE IrqStep
  <2>1. UNCHANGED <<trustletSessions, deviceConnection, notificationConnection, swd, asked, job>>
    BY <1>1 DEF IrqStep, IrqMcp, IrqUnknown, IrqQueues, IrqForwards, sessionVars, swdVars
  <2>2. ASSUME NEW s \in Sids, Lonely(s)'
        PROVE  Lonely(s) /\ (Tended(s) => Tended(s)')
    <3>1. Lonely(s)
      BY <2>1, <2>2 DEF Lonely, Orphan, Listed
    <3>2. /\ sessionState[s] = "dead" => sessionState'[s] = "dead"
          /\ exitWakeups > 0 => exitWakeups' > 0
      BY <1>1, IrqState
    <3>3. ExitNoted(s) => ExitNoted(s)' \/ (sessionState'[s] = "dead" /\ exitWakeups' > 0)
      BY <1>1, <3>1, IrqNote DEF OwnersOpen, Lonely
    <3>4. (\E w \in Workers : Closing(w, s)) => (\E w \in Workers : Closing(w, s)')
      BY <2>1 DEF Closing
    <3> QED
      BY <2>1, <3>1, <3>2, <3>3, <3>4 DEF Tended
  <2> QED
    BY <2>2, OrphanFrame
<1>2. CASE SwdStep
  <2>1. UNCHANGED <<trustletSessions, deviceConnection, notificationConnection, sessionState,
                    exitWakeups, job>>
    BY <1>2 DEF SwdStep, SwdOpens, SwdCloses, SwdAnswers, SwdFindsNoCommand, TaNotifies,
       TaExits, sessionVars
  <2>2. ASSUME NEW s \in Sids, Lonely(s)'
        PROVE  Lonely(s) /\ (Tended(s) => Tended(s)')
    <3>1. Lonely(s)
      BY <2>1, <2>2 DEF Lonely, Orphan, Listed
    <3>2. s \in GpSids
      BY <3>1 DEF OwnersOpen, Lonely
    <3>3. /\ ExitNoted(s) => ExitNoted(s)'
          /\ swd[s] = "running" => swd'[s] = "running" \/ ExitNoted(s)'
          /\ asked \subseteq asked'
      BY <1>2, <3>2, SwdNote
    <3>4. (\E w \in Workers : Closing(w, s)) => (\E w \in Workers : Closing(w, s)')
      BY <2>1 DEF Closing
    <3> QED
      BY <2>1, <3>1, <3>3, <3>4 DEF Tended
  <2> QED
    BY <2>2, OrphanFrame
<1>3. CASE UNCHANGED vars \/ \E c \in Clients : ClientStep(c)
  <2>1. UNCHANGED <<trustletSessions, sessionState, deviceConnection, notificationConnection,
                    exitWakeups, nqIn, swd, asked, job>>
    BY <1>3 DEF ClientStep, ReadCommand, Die, sessionVars, swdVars, vars
  <2> QED
    BY <2>1 DEF OrphansTended, Lonely, Orphan, Listed, Tended, Closing, ExitNoted
<1> QED
  BY <1>1, <1>2, <1>3, OrphansOfWorker, OrphansOfExit DEF Next, Rest, Aborted

\* Every step keeps what is known of the sessions that end.
LEMMA CleanedStep ==
  ASSUME TypeOK, MutexHeld, MutexHeld', Core, Notes, Owners, Cleaned, Next
  PROVE  Cleaned'
<1> SUFFICES ASSUME ~mcFault'
             PROVE  DeadEnded' /\ AgainCloses' /\ EndsAsked' /\ OrphansTended'
  BY DEF Cleaned
<1>1. ~mcFault
  BY FaultStays
<1>2. /\ Served /\ Unseen /\ OwnersOpen
      /\ DeadEnded /\ AgainCloses /\ EndsAsked /\ OrphansTended
  BY <1>1 DEF Owners, Cleaned
<1> QED
  BY <1>1, <1>2, DeadStep, CloserStep, OrphansStep

-----------------------------------------------------------------------------

\* At first nothing is opened, listed or under way.
LEMMA IInvInit ==
  ASSUME Init, Inv
  PROVE  IInv
<1>1. /\ \A t \in Threads : job[t].pc = "idle"
      /\ nqIn = <<>> /\ unknown = <<>> /\ trustletSessions = {}
      /\ \A s \in Sids : view[s] = "none"
  BY DEF Init, Idle
<1>2. Notes
  BY <1>1 DEF Notes, NotesKnown, ClosedNotes, UnknownIsOpening
<1>3. Owners
  BY <1>1 DEF Owners, Served, Openers, Asks, Unseen, OwnersOpen, Closes, Listed, Orphan, Threads
<1>4. Cleaned
  BY <1>1 DEF Cleaned, DeadEnded, AgainCloses, EndsAsked, Deferred, OrphansTended, Lonely, Orphan,
              Listed, Threads
<1> QED
  BY <1>2, <1>3, <1>4 DEF IInv

LEMMA IInvStep ==
  ASSUME IInv, Next, Inv'
  PROVE  IInv'
<1>1. /\ TypeOK /\ MutexHeld /\ MutexHeld' /\ Core
      /\ Notes /\ Owners /\ Cleaned
  BY DEF IInv, Inv, Core
<1> QED
  BY <1>1, NotesStep, OwnersStep, CleanedStep DEF IInv

\* IInv is inductive: Inv, with what is known of the notifications in the queues, of the
\* owners of the sessions, and of the sessions that end.
THEOREM Strengthened == Spec => []IInv
<1>1. Init /\ Inv => IInv
  BY IInvInit
<1>2. IInv /\ [Next]_vars /\ Inv' => IInv'
  <2>1. ASSUME IInv, UNCHANGED vars, Inv'
        PROVE  IInv'
    <3>1. /\ TypeOK /\ MutexHeld /\ MutexHeld' /\ Core
          /\ Notes /\ Owners /\ Cleaned
      BY <2>1 DEF IInv, Inv, Core
    <3>2. Notes' /\ Owners' /\ Cleaned'
      BY <2>1, <3>1
      DEF vars, sessionVars, mcpVars, clientVars, swdVars,
          Notes, NotesKnown, Known, KnownIn, ClosedNotes, UnknownIsOpening, McpNotes,
          Owners, Served, Openers, Unseen, OwnersOpen, Asks, Closes, Listed, Orphan, Lonely,
          Cleaned, DeadEnded, AgainCloses, HasEnded, EndsAsked, Deferred, ExitNoted,
          OrphansTended, Tended, Closing
    <3> QED
      BY <2>1, <3>2 DEF IInv
  <2> QED
    BY <2>1, IInvStep
<1> QED
  BY <1>1, <1>2, Invariance, PTL DEF Spec

\* openSession clears what handleIrq kept for unknown sessions, and holds mutex_mcp: what it
\* moves to the new session is that session's, for any number of clients and sessions.
THEOREM UnknownIsItsOwn == Spec => []UnknownIsOpening
<1>1. IInv => UnknownIsOpening
  BY DEF IInv, Notes, UnknownIsOpening
<1> QED
  BY <1>1, Strengthened, PTL

\* closeSession, handleIrq and handleTaExit lose no session whose client has left it: as long
\* as there is no fault, someone is about to close it.  The one exception is a session that
\* processNqConnect connected when it had no owner any more (ConnectedTooLate).
THEOREM OrphansAreClosed == Spec => []OrphanHasCleaner
<1>1. IInv => OrphanHasCleaner
  <2> SUFFICES ASSUME IInv, ~mcFault, NEW s \in trustletSessions, deviceConnection[s] = NULL,
                      ~notificationConnection[s]
               PROVE  \/ \E w \in Workers : Closing(w, s)
                      \/ /\ sessionState[s] = "dead"
                         /\ exitWakeups > 0 \/ job[TAExit].pc # "idle"
                      \/ s \in asked /\ swd[s] = "running"
                      \/ \E i \in DOMAIN nqIn : nqIn[i] = [sid |-> s, payload |-> "exit"]
    BY DEF OrphanHasCleaner, ConnectedTooLate
  <2>1. s \in Sids /\ Lonely(s)
    BY DEF IInv, Inv, TypeOK, SessionTypes, Lonely, Orphan, Listed
  <2>2. Tended(s)
    BY <2>1 DEF IInv, Cleaned, OrphansTended
  <2> QED
    BY <2>2 DEF Tended, ExitNoted
<1> QED
  BY <1>1, Strengthened, PTL

\* The assert() in closeSession fails only after a fault: the second close of a session whose
\* TA has ended is never refused.
THEOREM AssertFailsByFault == Spec => [](mcFault \/ AssertHolds)
<1>1. Init => mcFault \/ AssertHolds
  BY DEF Init, AssertHolds, Alive, Idle
<1>2. IInv /\ (mcFault \/ AssertHolds) /\ [Next]_vars => (mcFault \/ AssertHolds)'
  <2> SUFFICES ASSUME IInv, mcFault \/ AssertHolds, [Next]_vars, ~mcFault'
               PROVE  AssertHolds'
    OBVIOUS
  <2>1. CASE UNCHANGED vars
    BY <2>1 DEF vars, mcpVars, AssertHolds, Alive
  <2>2. CASE Next
    <3>1. /\ TypeOK /\ Core /\ Cleaned
      BY DEF IInv, Inv, Core
    <3>2. ~mcFault /\ Alive
      BY <2>2, <3>1, FaultStays DEF AssertHolds
    <3>3. ASSUME NEW t \in Threads, NEW j, Become(t, j), j.pc # "aborted"
          PROVE  Alive'
      BY <3>1, <3>2, <3>3, Moved DEF Alive
    <3>4. ASSUME NEW w \in Workers, WorkerStep(w)
          PROVE  Alive'
      <4>1. w \in Threads /\ job[w] \in Job
        BY <3>1 DEF Threads, TypeOK, DaemonTypes
      <4>2. ~CloseAsserts(w)
        <5>1. SUFFICES ASSUME CloseAsserts(w)
                       PROVE  FALSE
          OBVIOUS
        <5>2. PICK r \in Results \ {"ok"} : McpReturns("close", r) /\ job[w].pc = "closeAgain"
          BY <5>1 DEF CloseAsserts
        <5>3. mcpMessage.kind = "rsp" /\ r = mcpMessage.result
          BY <3>1, <4>1, <5>2, AnswerTaken DEF Exchanging
        <5> QED
          BY <3>1, <3>2, <5>2, <5>3 DEF Cleaned, AgainCloses
      <4>3. CASE \/ \E c \in Clients : OpenDevice(w, c)
                 \/ \E s \in Sids : UnknownSession(w, s)
                 \/ Flush(w) \/ Transfer(w)
        BY <3>2, <4>3 DEF OpenDevice, UnknownSession, Flush, Transfer, Alive
      <4>4. CASE OpenFails(w) \/ OpenReturns(w) \/ FlushEnds(w) \/ DropEnds(w)
        BY <3>3, <4>1, <4>4 DEF OpenFails, OpenReturns, FlushEnds, DropEnds, Idle
      <4>5. CASE \/ \E c \in Clients : \/ OpenSession(w, c)
                                       \/ CloseDevice(w, c) \/ DropConnection(w, c)
                 \/ \E s \in Sids : NqConnect(w, s) \/ CloseSession(w, s)
                 \/ DropNext(w)
        <5>1. PICK p \in {"open", "drop", "flush", "close"} :
                \E c, s, d : Become(w, [pc |-> p, client |-> c, sid |-> s, drop |-> d])
          BY <4>5 DEF OpenSession, CloseDevice, DropConnection, BeginDrop, NqConnect,
                      CloseSession, DropNext, BeginClose
        <5> QED
          BY <3>3, <4>1, <5>1
      <4>6. CASE OpenSucceeds(w) \/ CloseAgain(w)
        <5>1. \A p, s : /\ [job[w] EXCEPT !.pc = p].pc = p
                        /\ [job[w] EXCEPT !.pc = p, !.sid = s].pc = p
          BY <4>1 DEF Job
        <5>2. \/ Become(w, [job[w] EXCEPT !.pc = "closeAgain"])
              \/ Become(w, [job[w] EXCEPT !.pc = "transfer", !.sid = mcpMessage.sid])
          BY <4>6 DEF OpenSucceeds, CloseAgain
        <5> QED
          BY <3>3, <4>1, <5>1, <5>2
      <4>7. CASE CloseSucceeds(w) \/ CloseDeferred(w) \/ CloseFails(w)
        <5>1. Become(w, Idle) \/ Become(w, [job[w] EXCEPT !.pc = "drop", !.sid = NULL])
          BY <4>7 DEF CloseSucceeds, CloseDeferred, CloseFails, EndClose
        <5>2. Idle.pc = "idle" /\ [job[w] EXCEPT !.pc = "drop", !.sid = NULL].pc = "drop"
          BY <4>1 DEF Idle, Job
        <5> QED
          BY <3>3, <4>1, <5>1, <5>2
      <4> QED
        BY <3>4, <4>2, <4>3, <4>4, <4>5, <4>6, <4>7 DEF WorkerStep
    <3>5. ASSUME ExitStep
          PROVE  Alive'
      <4>1. TAExit \in Threads
        BY DEF Threads
      <4>2. CASE ExitWakes \/ ExitLocks \/ ExitSucceeds \/ ExitFails \/ ExitSleeps
        <5>1. \A p : [Idle EXCEPT !.pc = p].pc = p /\ Idle.pc = "idle"
          BY DEF Idle
        <5>2. \/ Become(TAExit, Idle)
              \/ \E p \in {"lock", "scan"} : Become(TAExit, [Idle EXCEPT !.pc = p])
          BY <4>2 DEF ExitWakes, ExitLocks, ExitSucceeds, ExitFails, ExitSleeps
        <5> QED
          BY <3>3, <4>1, <5>1, <5>2
      <4>3. CASE ExitCloses
        <5>1. PICK s : Become(TAExit, [Idle EXCEPT !.pc = "exitClose", !.sid = s])
          BY <4>3 DEF ExitCloses
        <5>2. [Idle EXCEPT !.pc = "exitClose", !.sid = s].pc = "exitClose"
          BY DEF Idle
        <5> QED
          BY <3>3, <4>1, <5>1, <5>2
      <4> QED
        BY <3>5, <4>2, <4>3 DEF ExitStep
    <3>6. ASSUME IrqStep \/ SwdStep \/ \E c \in Clients : ClientStep(c)
          PROVE  Alive'
      <4>1. job' = job
        BY <3>6 DEF ClientStep, ReadCommand, Die, IrqStep, IrqMcp, IrqUnknown, IrqQueues,
           IrqForwards, SwdStep, SwdOpens, SwdCloses, SwdAnswers, SwdFindsNoCommand,
           TaNotifies, TaExits
      <4> QED
        BY <3>2, <4>1 DEF Alive
    <3> QED
      BY <2>1, <2>2, <3>4, <3>5, <3>6 DEF Next, Rest, Aborted, AssertHolds
  <2> QED
    BY <2>1, <2>2
<1> QED
  BY <1>1, <1>2, Strengthened, PTL DEF Spec

\* The assert() in closeSession never fails when the SWd answers every command.
THEOREM AssertNeverFails == ~MayFault => (Spec => []AssertHolds)
<1> SUFFICES ASSUME ~MayFault PROVE Spec => []AssertHolds
  OBVIOUS
<1>1. Init => ~mcFault
  BY DEF Init
<1>2. TypeOK /\ ~mcFault /\ [Next]_vars => ~mcFault'
  BY FaultStep DEF vars, mcpVars, TypeOK, McpTypes
<1> QED
  BY <1>1, <1>2, TypeCorrect, AssertFailsByFault, PTL DEF Spec

-----------------------------------------------------------------------------
(* Each notification is counted once.  The counts of a queue follow what   *)
(* is appended to it and what is taken from it.                            *)

At(s, q) == {i \in DOMAIN q : q[i].sid = s}

LEMMA AtFinite ==
  ASSUME NEW q \in Seq(Note), NEW s
  PROVE  IsFiniteSet(At(s, q)) /\ NotesFor(s, q) = Cardinality(At(s, q)) /\ NotesFor(s, q) \in Nat
<1>1. IsFiniteSet(1..Len(q)) /\ At(s, q) \in SUBSET (1..Len(q))
  BY FS_Interval DEF At
<1>2. IsFiniteSet(At(s, q))
  BY <1>1, FS_Subset
<1>3. NotesFor(s, q) = Cardinality(At(s, q))
  BY DEF NotesFor, At
<1> QED
  BY <1>2, <1>3, FS_CardinalityType

LEMMA NotesOfNone ==
  ASSUME NEW s
  PROVE  NotesFor(s, <<>>) = 0
<1>1. {i \in DOMAIN <<>> : <<>>[i].sid = s} = {}
  OBVIOUS
<1> QED
  BY <1>1, FS_EmptySet DEF NotesFor

LEMMA NotesAppend ==
  ASSUME NEW q \in Seq(Note), NEW n \in Note, NEW s
  PROVE  NotesFor(s, Append(q, n)) = NotesFor(s, q) + (IF n.sid = s THEN 1 ELSE 0)
<1> DEFINE k == Len(q) + 1
<1>1. /\ Append(q, n) \in Seq(Note) /\ k \in DOMAIN Append(q, n) /\ Append(q, n)[k] = n
      /\ \A i \in DOMAIN q : i \in DOMAIN Append(q, n) /\ Append(q, n)[i] = q[i]
      /\ \A i \in DOMAIN Append(q, n) : i \in DOMAIN q \/ i = k
      /\ k \notin DOMAIN q
  BY AppendOf
<1>2. IsFiniteSet(At(s, q)) /\ NotesFor(s, q) = Cardinality(At(s, q)) /\ NotesFor(s, q) \in Nat
  BY AtFinite
<1>3. NotesFor(s, Append(q, n)) = Cardinality(At(s, Append(q, n)))
  BY <1>1, AtFinite
<1> HIDE DEF k
<1>4. CASE n.sid = s
  <2>1. At(s, Append(q, n)) = At(s, q) \cup {k} /\ k \notin At(s, q)
    BY <1>1, <1>4 DEF At
  <2>2. Cardinality(At(s, q) \cup {k}) = Cardinality(At(s, q)) + 1
    BY <1>2, <2>1, FS_AddElement
  <2> QED
    BY <1>2, <1>3, <1>4, <2>1, <2>2
<1>5. CASE n.sid # s
  <2>1. At(s, Append(q, n)) = At(s, q)
    BY <1>1, <1>5 DEF At
  <2> QED
    BY <1>2, <1>3, <1>5, <2>1
<1> QED
  BY <1>4, <1>5

LEMMA NotesTail ==
  ASSUME NEW q \in Seq(Note), q # <<>>, NEW s
  PROVE  NotesFor(s, q) = NotesFor(s, Tail(q)) + (IF Head(q).sid = s THEN 1 ELSE 0)
<1> DEFINE S == At(s, q)
           T == At(s, Tail(q))
           f == [i \in T |-> i + 1]
<1>1. /\ Tail(q) \in Seq(Note) /\ Head(q) = q[1] /\ 1 \in DOMAIN q
      /\ \A i \in DOMAIN Tail(q) : i + 1 \in DOMAIN q /\ Tail(q)[i] = q[i + 1] /\ i \in Nat \ {0}
      /\ \A i \in DOMAIN q : i # 1 => i - 1 \in DOMAIN Tail(q) /\ i \in Nat
  OBVIOUS
<1>2. /\ IsFiniteSet(S) /\ NotesFor(s, q) = Cardinality(S) /\ NotesFor(s, q) \in Nat
      /\ IsFiniteSet(T) /\ NotesFor(s, Tail(q)) = Cardinality(T) /\ NotesFor(s, Tail(q)) \in Nat
  BY <1>1, AtFinite
<1>3. Cardinality(S \ {1}) = Cardinality(T)
  <2>1. f \in [T -> S \ {1}]
    BY <1>1 DEF At
  <2>2. \A i, j \in T : f[i] = f[j] => i = j
    BY <1>1 DEF At
  <2>3. \A k \in S \ {1} : \E i \in T : f[i] = k
    <3>1. ASSUME NEW k \in S \ {1}
          PROVE  k - 1 \in T /\ f[k - 1] = k
      <4>1. k \in DOMAIN q /\ q[k].sid = s /\ k # 1
        BY DEF At
      <4>2. k - 1 \in DOMAIN Tail(q) /\ k \in Nat
        BY <1>1, <4>1
      <4>3. Tail(q)[k - 1] = q[k]
        BY <1>1, <4>2
      <4>4. k - 1 \in T
        BY <4>1, <4>2, <4>3 DEF At
      <4> QED
        BY <4>2, <4>4
    <3> QED
      BY <3>1
  <2> HIDE DEF f, S, T
  <2>4. f \in Bijection(T, S \ {1})
    BY <2>1, <2>2, <2>3, Fun_IsBij
  <2>5. ExistsBijection(T, S \ {1})
    BY <2>4, Fun_ExistsBij
  <2> QED
    BY <1>2, <2>5, FS_Bijection
<1>4. 1 \in S <=> Head(q).sid = s
  BY <1>1 DEF At
<1> HIDE DEF S, T
<1>5. Cardinality(S \ {1}) = IF 1 \in S THEN Cardinality(S) - 1 ELSE Cardinality(S)
  BY <1>2, FS_RemoveElement
<1> QED
  BY <1>2, <1>3, <1>4, <1>5

\* What has not been opened, or not been listed, has received nothing.
Fresh(s) == /\ swd[s] = "unused" => noted[s] = 0
            /\ swd[s] # "closed" /\ ~Listed(s) => delivered[s] = 0 /\ queued[s] = <<>>
\* A session that waits for its TA to end has no owner.
Owner(s) == deviceConnection[s] # NULL /\ sessionState[s] # "dead"
Kept(s) == Listed(s) /\ deviceConnection[s] # NULL => sessionState[s] # "closeSend"
\* The SWd's session has sent what has been received, or is on its way.
Conserved(s) == InSwd(s) => /\ Held(s) <= Sent(s)
                            /\ ~Listed(s) \/ Owner(s) => Held(s) = Sent(s)
Counted(s) == Fresh(s) /\ Kept(s) /\ Conserved(s)
AllCounted == ~mcFault => \A s \in Sids : Counted(s)

LEMMA CountTypes ==
  ASSUME TypeOK, NEW s \in Sids
  PROVE  /\ delivered[s] \in Nat /\ noted[s] \in Nat
         /\ queued[s] \in Seq(Note) /\ Len(queued[s]) \in Nat
         /\ unknown \in Seq(Note) /\ NotesFor(s, unknown) \in Nat
         /\ nqIn \in Seq(Note) /\ NotesFor(s, nqIn) \in Nat
         /\ Held(s) \in Nat /\ Sent(s) \in Nat
<1>1. /\ delivered[s] \in Nat /\ noted[s] \in Nat /\ queued[s] \in Seq(Note)
      /\ unknown \in Seq(Note) /\ nqIn \in Seq(Note)
  BY ConstantsAssumption
  DEF TypeOK, ClientTypes, SwdTypes, SessionTypes, DaemonTypes
<1>2. Len(queued[s]) \in Nat
  BY <1>1
<1>3. NotesFor(s, unknown) \in Nat /\ NotesFor(s, nqIn) \in Nat
  BY <1>1, AtFinite
<1>4. Held(s) \in Nat
  <2>1. \A i, j, k, l \in Nat: i + j + k + l \in Nat
    OBVIOUS
  <2> QED
    BY <1>1, <1>2, <1>3, <2>1 DEF Held
<1>5. Sent(s) \in Nat
  BY <1>1 DEF Sent
<1> QED
  BY <1>1, <1>2, <1>3, <1>4, <1>5

\* A step that leaves the numbers of a session, and gives it no owner.
LEMMA CountedFrame ==
  ASSUME TypeOK, NEW s \in Sids, Counted(s),
         swd'[s] = swd[s], noted'[s] = noted[s], Held(s)' = Held(s),
         delivered'[s] = delivered[s], queued'[s] = queued[s],
         Listed(s)' => Listed(s), Listed(s) /\ ~Listed(s)' => swd[s] = "closed",
         Listed(s) /\ deviceConnection'[s] # NULL =>
           deviceConnection[s] # NULL /\ sessionState'[s] = sessionState[s]
  PROVE  Counted(s)'
<1>1. Fresh(s)'
  BY DEF Counted, Fresh
<1>2. Kept(s)'
  BY DEF Counted, Kept
<1>3. Sent(s)' = Sent(s)
  BY DEF Sent
<1>4. Conserved(s)'
  <2> SUFFICES ASSUME InSwd(s)'
               PROVE  Held(s) <= Sent(s) /\ (~Listed(s)' \/ Owner(s)' => Held(s) = Sent(s))
    BY <1>3 DEF Conserved
  <2>1. InSwd(s) /\ (Listed(s)' <=> Listed(s))
    BY DEF InSwd
  <2>2. Listed(s) /\ Owner(s)' => Owner(s)
    BY DEF Owner
  <2> QED
    BY <2>1, <2>2 DEF Counted, Conserved
<1> QED
  BY <1>1, <1>2, <1>4 DEF Counted

\* The steps that pass no notification on: they change neither the queues nor the counts.
Passes == \/ IrqStep \/ SwdStep
          \/ \E w \in Workers : OpenSucceeds(w) \/ Transfer(w) \/ Flush(w)

LEMMA NothingPassed ==
  ASSUME TypeOK, MutexHeld, Notes, ~mcFault, Next, ~Passes
  PROVE  UNCHANGED <<swd, noted, delivered, queued, unknown, nqIn>>
<1>1. ASSUME NEW w \in Workers, WorkerStep(w)
      PROVE  UNCHANGED <<swd, noted, delivered, queued, unknown, nqIn>>
  <2>1. CASE \E c \in Clients : OpenSession(w, c)
    <3>1. /\ UNCHANGED <<swd, noted, delivered, queued, nqIn>>
          /\ unknown' = <<>> /\ mutex_mcp = NULL /\ job[w].pc = "idle"
      BY <2>1 DEF OpenSession, Command, Serves, swdVars, sessionVars
    <3>2. unknown = <<>>
      BY <3>1, MutexAlone DEF Notes, Threads
    <3> QED
      BY <3>1, <3>2
  <2>2. CASE \/ \E c \in Clients : \/ OpenDevice(w, c) \/ CloseDevice(w, c)
                                   \/ DropConnection(w, c)
             \/ \E s \in Sids : \/ NqConnect(w, s) \/ UnknownSession(w, s)
                                \/ CloseSession(w, s)
    BY <2>2 DEF OpenDevice, CloseDevice, DropConnection, BeginDrop, NqConnect,
       UnknownSession, CloseSession, BeginClose, swdVars, sessionVars
  <2>3. CASE \/ OpenReturns(w) \/ FlushEnds(w) \/ CloseAgain(w) \/ DropEnds(w)
             \/ DropNext(w) \/ OpenFails(w) \/ CloseSucceeds(w) \/ CloseDeferred(w)
             \/ CloseFails(w) \/ CloseAsserts(w)
    BY <2>3 DEF OpenReturns, FlushEnds, CloseAgain, DropEnds, DropNext, BeginClose, OpenFails,
       CloseSucceeds, DeleteSession, CloseDeferred, CloseFails, KeepSession, CloseAsserts,
       swdVars, sessionVars, clientVars
  <2> QED
    BY <1>1, <2>1, <2>2, <2>3 DEF WorkerStep, Passes
<1>2. CASE ExitStep \/ \E c \in Clients : ClientStep(c)
  BY <1>2 DEF ExitStep, ExitWakes, ExitLocks, ExitCloses, ExitSucceeds, DeleteSession,
     ExitFails, ExitSleeps, ClientStep, ReadCommand, Die, swdVars, sessionVars, clientVars
<1>3. CASE UNCHANGED vars
  BY <1>3 DEF vars, swdVars, sessionVars, clientVars
<1> QED
  BY <1>1, <1>2, <1>3 DEF Next, Rest, Aborted, Passes

\* No session that is listed gets an owner back.
LEMMA NoNewOwner ==
  ASSUME TypeOK, Next, ~Passes, NEW s \in Sids
  PROVE  /\ Listed(s)' => Listed(s)
         /\ deviceConnection'[s] # NULL =>
              deviceConnection[s] # NULL /\ sessionState'[s] = sessionState[s]
<1>1. CASE \E w \in Workers : DropNext(w) \/ \E r \in Sids : CloseSession(w, r)
  <2>1. PICK w, r, c, d : r \in Sids /\ BeginClose(w, r, c, d)
    BY <1>1 DEF DropNext, CloseSession, Owned, TypeOK, SessionTypes
  <2>2. /\ trustletSessions' = trustletSessions
        /\ s # r => sessionState'[s] = sessionState[s]
                    /\ deviceConnection'[s] = deviceConnection[s]
        /\ r \in GpSids => deviceConnection'[r] = NULL
        /\ r \notin GpSids => UNCHANGED <<sessionState, deviceConnection>>
    BY <2>1, BeginState
  <2> QED
    BY <2>2 DEF Listed
<1>2. CASE ~\E w \in Workers : DropNext(w) \/ \E r \in Sids : CloseSession(w, r)
  BY <1>2, StateOf DEF Passes, Listed
<1> QED
  BY <1>1, <1>2

\* What the step takes off the list has been closed.
Forgets == \A s \in trustletSessions \ trustletSessions' : swd[s] = "closed"

LEMMA CountedWithout ==
  ASSUME TypeOK, MutexHeld, Notes, ~mcFault, Next, ~Passes, Forgets,
         NEW s \in Sids, Counted(s)
  PROVE  Counted(s)'
<1>1. UNCHANGED <<swd, noted, delivered, queued, unknown, nqIn>>
  BY NothingPassed
<1>2. Held(s)' = Held(s)
  BY <1>1 DEF Held, NotesFor
<1>3. Listed(s) /\ ~Listed(s)' => swd[s] = "closed"
  BY DEF Forgets, Listed
<1> QED
  BY <1>1, <1>2, <1>3, NoNewOwner, CountedFrame

LEMMA HeldNext ==
  ASSUME NEW s
  PROVE  Held(s)' = delivered'[s] + Len(queued'[s]) + NotesFor(s, unknown') + NotesFor(s, nqIn')
BY DEF Held, NotesFor

\* What is queued for a session counts once, unless the session takes no more.
LEMMA QueueCounts ==
  ASSUME TypeOK, NEW r \in Sids, NEW n \in Note, QueueNotification(r, n), NEW s \in Sids
  PROVE  /\ sessionState'[s] = sessionState[s] \/ sessionState'[s] = "dead"
         /\ s # r => queued'[s] = queued[s]
         /\ \/ Len(queued'[r]) = Len(queued[r]) + 1
            \/ /\ Len(queued'[r]) = Len(queued[r])
               /\ sessionState[r] = "dead" => sessionState'[r] = "dead"
               /\ sessionState[r] \in {"dead", "closeSend"}
<1>1. /\ sessionState \in [Sids -> {"running", "dead", "closeSend"}]
      /\ queued \in [Sids -> Seq(Note)] /\ queued[r] \in Seq(Note)
  BY DEF TypeOK, SessionTypes
<1>2. Len(Append(queued[r], n)) = Len(queued[r]) + 1
  BY <1>1
<1> QED
  BY <1>1, <1>2 DEF QueueNotification

\* A notification that has been sent is passed on, or dropped for want of an owner.
LEMMA CountedPassed ==
  ASSUME TypeOK, NEW s \in Sids, Counted(s),
         UNCHANGED <<swd, noted, trustletSessions, deviceConnection>>,
         sessionState'[s] = sessionState[s] \/ sessionState'[s] = "dead",
         Held(s)' \in Nat, Held(s)' <= Held(s),
         Listed(s) /\ Owner(s)' => Held(s)' = Held(s),
         ~Listed(s) => Held(s)' = Held(s) /\ delivered'[s] = delivered[s]
                       /\ queued'[s] = queued[s]
  PROVE  Counted(s)'
<1>1. Fresh(s)'
  BY DEF Counted, Fresh, Listed
<1>2. Kept(s)'
  BY DEF Counted, Kept, Listed
<1>3. Sent(s)' = Sent(s)
  BY DEF Sent
<1>4. Held(s) \in Nat /\ Sent(s) \in Nat
  BY CountTypes
<1>5. Conserved(s)'
  <2> SUFFICES ASSUME InSwd(s)'
               PROVE  Held(s)' <= Sent(s) /\ (~Listed(s)' \/ Owner(s)' => Held(s)' = Sent(s))
    BY <1>3 DEF Conserved
  <2>1. InSwd(s) /\ (Listed(s)' <=> Listed(s))
    BY DEF InSwd, Listed
  <2>2. Owner(s)' => Owner(s)
    BY DEF Owner
  <2>3. Held(s) <= Sent(s) /\ (~Listed(s) \/ Owner(s) => Held(s) = Sent(s))
    BY <2>1 DEF Counted, Conserved
  <2> QED
    BY <1>4, <2>1, <2>2, <2>3
<1> QED
  BY <1>1, <1>2, <1>5 DEF Counted

\* openSession moves what was kept to the session it is for.
LEMMA CountedOfTransfer ==
  ASSUME TypeOK, MutexHeld, Notes, Unseen, ~mcFault, NEW w \in Workers, Transfer(w),
         NEW s \in Sids, Counted(s)
  PROVE  Counted(s)'
<1> DEFINE r == job[w].sid
           n == Head(unknown)
<1>1. /\ unknown # <<>> /\ unknown \in Seq(Note) /\ unknown' = Tail(unknown)
      /\ QueueNotification(r, n)
      /\ UNCHANGED <<swd, noted, trustletSessions, deviceConnection, delivered, nqIn>>
  BY DEF Transfer, TypeOK, DaemonTypes, swdVars, clientVars
<1>2. n \in Note /\ n.sid = r
  BY <1>1, TransferOwn
<1>3. r \in Sids /\ Listed(r)
  BY DEF Transfer, Unseen
<1> HIDE DEF r, n
<1>4. NotesFor(s, unknown) = NotesFor(s, unknown') + (IF r = s THEN 1 ELSE 0)
  BY <1>1, <1>2, NotesTail DEF n
<1>5. NotesFor(s, unknown') \in Nat
  BY <1>1, TailOf, AtFinite
<1>6. /\ sessionState'[s] = sessionState[s] \/ sessionState'[s] = "dead"
      /\ s # r => queued'[s] = queued[s]
      /\ \/ Len(queued'[r]) = Len(queued[r]) + 1
         \/ /\ Len(queued'[r]) = Len(queued[r])
            /\ sessionState[r] = "dead" => sessionState'[r] = "dead"
            /\ sessionState[r] \in {"dead", "closeSend"}
  BY <1>1, <1>2, <1>3, QueueCounts
<1>7. /\ delivered[s] \in Nat /\ Len(queued[s]) \in Nat /\ NotesFor(s, nqIn) \in Nat
      /\ Held(s) = delivered[s] + Len(queued[s]) + NotesFor(s, unknown) + NotesFor(s, nqIn)
      /\ Held(s)' = delivered[s] + Len(queued'[s]) + NotesFor(s, unknown') + NotesFor(s, nqIn)
  BY <1>1, CountTypes, HeldNext DEF Held
<1>8. Listed(s) /\ Owner(s)' => sessionState[s] # "closeSend" /\ sessionState'[s] # "dead"
  BY <1>1 DEF Owner, Counted, Kept
<1>9. /\ Held(s)' \in Nat /\ Held(s)' <= Held(s)
      /\ Listed(s) /\ Owner(s)' => Held(s)' = Held(s)
      /\ ~Listed(s) => Held(s)' = Held(s) /\ delivered'[s] = delivered[s]
                       /\ queued'[s] = queued[s]
  <2>1. CASE s = r
    <3>1. NotesFor(s, unknown) = NotesFor(s, unknown') + 1
      BY <1>4, <2>1
    <3>2. \/ Len(queued'[s]) = Len(queued[s]) + 1
          \/ /\ Len(queued'[s]) = Len(queued[s])
             /\ ~(Listed(s) /\ Owner(s)')
      BY <1>6, <1>8, <2>1
    <3>3. \/ Held(s)' = Held(s) /\ Held(s)' \in Nat
          \/ Held(s)' = Held(s) - 1 /\ Held(s)' \in Nat /\ ~(Listed(s) /\ Owner(s)')
      <4>1. PICK d \in Nat, l \in Nat, u \in Nat, k \in Nat :
              /\ d = delivered[s] /\ l = Len(queued[s]) /\ k = NotesFor(s, nqIn)
              /\ u = NotesFor(s, unknown')
        BY <1>5, <1>7
      <4>2. /\ Held(s) = d + l + (u + 1) + k
            /\ Held(s)' = d + Len(queued'[s]) + u + k
        BY <1>7, <3>1, <4>1
      <4>3. CASE Len(queued'[s]) = Len(queued[s]) + 1
        <5>1. Held(s)' = d + (l + 1) + u + k
          BY <4>1, <4>2, <4>3
        <5> QED
          BY <4>2, <5>1
      <4>4. CASE Len(queued'[s]) = Len(queued[s]) /\ ~(Listed(s) /\ Owner(s)')
        <5>1. Held(s)' = d + l + u + k
          BY <4>1, <4>2, <4>4
        <5> QED
          BY <4>2, <4>4, <5>1
      <4> QED
        BY <3>2, <4>3, <4>4
    <3>4. Held(s) \in Nat
      BY CountTypes
    <3> QED
      BY <1>3, <2>1, <3>3, <3>4
  <2>2. CASE s # r
    BY <1>1, <1>4, <1>5, <1>6, <1>7, <2>2
  <2> QED
    BY <2>1, <2>2
<1> QED
  BY <1>1, <1>6, <1>9, CountedPassed

\* processQueuedNotifications takes one from the session's queue and writes it.
LEMMA CountedOfFlush ==
  ASSUME TypeOK, NEW w \in Workers, Flush(w), NEW s \in Sids, Counted(s)
  PROVE  Counted(s)'
<1> DEFINE r == job[w].sid
<1>1. /\ r \in Sids /\ Listed(r) /\ queued[r] # <<>>
      /\ delivered' = [delivered EXCEPT ![r] = @ + 1]
      /\ queued' = [queued EXCEPT ![r] = Tail(@)]
      /\ UNCHANGED <<swd, noted, trustletSessions, deviceConnection, sessionState, unknown, nqIn>>
  BY DEF Flush, TypeOK, SessionTypes, Listed, swdVars
<1> HIDE DEF r
<1>2. delivered \in [Sids -> Nat] /\ queued \in [Sids -> Seq(Note)]
  BY DEF TypeOK, ClientTypes, SessionTypes
<1>3. /\ delivered[s] \in Nat /\ Len(queued[s]) \in Nat /\ NotesFor(s, nqIn) \in Nat
      /\ NotesFor(s, unknown) \in Nat
      /\ Held(s) = delivered[s] + Len(queued[s]) + NotesFor(s, unknown) + NotesFor(s, nqIn)
      /\ Held(s)' = delivered'[s] + Len(queued'[s]) + NotesFor(s, unknown) + NotesFor(s, nqIn)
  BY <1>1, CountTypes, HeldNext DEF Held
<1>4. s = r => delivered'[s] = delivered[s] + 1 /\ Len(queued'[s]) = Len(queued[s]) - 1
  <2>1. Len(Tail(queued[r])) = Len(queued[r]) - 1
    BY <1>1, <1>2
  <2> QED
    BY <1>1, <1>2, <2>1
<1>5. s # r => delivered'[s] = delivered[s] /\ queued'[s] = queued[s]
  BY <1>1, <1>2
<1>6. Held(s)' \in Nat /\ Held(s)' = Held(s)
  <2>1. CASE s = r
    <3>1. Len(queued'[s]) = Len(queued[s]) - 1 /\ delivered'[s] = delivered[s] + 1
      BY <1>4, <2>1
    <3>2. PICK d \in Nat, l \in Nat, u \in Nat, k \in Nat :
            /\ Held(s) = d + l + u + k
            /\ Held(s)' = (d + 1) + (l - 1) + u + k
      BY <1>3, <3>1
    <3> QED
      BY <3>2
  <2>2. CASE s # r
    BY <1>3, <1>5, <2>2
  <2> QED
    BY <2>1, <2>2
<1>7. Held(s)' <= Held(s)
  BY <1>6
<1> QED
  BY <1>1, <1>5, <1>6, <1>7, CountedPassed

\* handleIrq hands the first notification to its session.
LEMMA CountedOfQueues ==
  ASSUME TypeOK, IrqQueues, NEW s \in Sids, Counted(s)
  PROVE  Counted(s)'
<1> DEFINE n == Head(nqIn)
           r == n.sid
<1>1. /\ nqIn # <<>> /\ nqIn \in Seq(Note) /\ nqIn' = Tail(nqIn) /\ r \in trustletSessions
      /\ QueueNotification(r, n)
      /\ UNCHANGED <<swd, noted, trustletSessions, deviceConnection, delivered, unknown>>
  BY DEF IrqQueues, TypeOK, SwdTypes, swdVars, clientVars
<1>2. n \in Note /\ r \in Sids /\ Listed(r)
  BY <1>1 DEF TypeOK, SessionTypes, Listed
<1>3. NotesFor(s, nqIn) = NotesFor(s, nqIn') + (IF r = s THEN 1 ELSE 0)
  BY <1>1, NotesTail
<1> HIDE DEF n
<1>4. NotesFor(s, nqIn') \in Nat
  BY <1>1, TailOf, AtFinite
<1> HIDE DEF r
<1>5. /\ sessionState'[s] = sessionState[s] \/ sessionState'[s] = "dead"
      /\ s # r => queued'[s] = queued[s]
      /\ \/ Len(queued'[r]) = Len(queued[r]) + 1
         \/ /\ Len(queued'[r]) = Len(queued[r])
            /\ sessionState[r] = "dead" => sessionState'[r] = "dead"
            /\ sessionState[r] \in {"dead", "closeSend"}
  BY <1>1, <1>2, QueueCounts
<1>6. /\ delivered[s] \in Nat /\ Len(queued[s]) \in Nat /\ NotesFor(s, unknown) \in Nat
      /\ Held(s) = delivered[s] + Len(queued[s]) + NotesFor(s, unknown) + NotesFor(s, nqIn)
      /\ Held(s)' = delivered[s] + Len(queued'[s]) + NotesFor(s, unknown) + NotesFor(s, nqIn')
  BY <1>1, CountTypes, HeldNext DEF Held
<1>7. Listed(s) /\ Owner(s)' => sessionState[s] # "closeSend" /\ sessionState'[s] # "dead"
  BY <1>1 DEF Owner, Counted, Kept
<1>8. /\ Held(s)' \in Nat /\ Held(s)' <= Held(s)
      /\ Listed(s) /\ Owner(s)' => Held(s)' = Held(s)
      /\ ~Listed(s) => Held(s)' = Held(s) /\ delivered'[s] = delivered[s]
                       /\ queued'[s] = queued[s]
  <2>1. CASE s = r
    <3>1. NotesFor(s, nqIn) = NotesFor(s, nqIn') + 1
      BY <1>3, <2>1
    <3>2. \/ Len(queued'[s]) = Len(queued[s]) + 1
          \/ /\ Len(queued'[s]) = Len(queued[s])
             /\ ~(Listed(s) /\ Owner(s)')
      BY <1>5, <1>7, <2>1
    <3>3. \/ Held(s)' = Held(s) /\ Held(s)' \in Nat
          \/ Held(s)' = Held(s) - 1 /\ Held(s)' \in Nat /\ ~(Listed(s) /\ Owner(s)')
      <4>1. PICK d \in Nat, l \in Nat, u \in Nat, k \in Nat :
              /\ d = delivered[s] /\ l = Len(queued[s]) /\ u = NotesFor(s, unknown)
              /\ k = NotesFor(s, nqIn')
        BY <1>4, <1>6
      <4>2. /\ Held(s) = d + l + u + (k + 1)
            /\ Held(s)' = d + Len(queued'[s]) + u + k
        BY <1>6, <3>1, <4>1
      <4>3. CASE Len(queued'[s]) = Len(queued[s]) + 1
        <5>1. Held(s)' = d + (l + 1) + u + k
          BY <4>1, <4>2, <4>3
        <5> QED
          BY <4>2, <5>1
      <4>4. CASE Len(queued'[s]) = Len(queued[s]) /\ ~(Listed(s) /\ Owner(s)')
        <5>1. Held(s)' = d + l + u + k
          BY <4>1, <4>2, <4>4
        <5> QED
          BY <4>2, <4>4, <5>1
      <4> QED
        BY <3>2, <4>3, <4>4
    <3>4. Held(s) \in Nat
      BY CountTypes
    <3> QED
      BY <1>2, <2>1, <3>3, <3>4
  <2>2. CASE s # r
    BY <1>1, <1>3, <1>4, <1>5, <1>6, <2>2
  <2> QED
    BY <2>1, <2>2
<1> QED
  BY <1>1, <1>5, <1>8, CountedPassed

\* handleIrq writes the first notification to the client, keeps it for an unknown session, or
\* wakes the thread that waits for an MCP answer.
LEMMA CountedOfIrq ==
  ASSUME TypeOK, IrqMcp \/ IrqUnknown \/ IrqForwards, NEW s \in Sids, Counted(s)
  PROVE  Counted(s)'
<1> DEFINE n == Head(nqIn)
           b == IF n.sid = s THEN 1 ELSE 0
<1>1. /\ nqIn # <<>> /\ nqIn \in Seq(Note) /\ nqIn' = Tail(nqIn)
      /\ unknown \in Seq(Note) /\ delivered \in [Sids -> Nat] /\ s # SID_MCP
      /\ UNCHANGED <<swd, noted, trustletSessions, deviceConnection, sessionState, queued>>
  BY ConstantsAssumption DEF IrqMcp, IrqUnknown, IrqForwards, TypeOK, SwdTypes, DaemonTypes,
     ClientTypes, swdVars, sessionVars
<1>2. n \in Note /\ NotesFor(s, nqIn) = NotesFor(s, nqIn') + b
  BY <1>1, NotesTail
<1>3. NotesFor(s, nqIn') \in Nat
  BY <1>1, TailOf, AtFinite
<1>4. /\ delivered[s] \in Nat /\ Len(queued[s]) \in Nat /\ NotesFor(s, unknown) \in Nat
      /\ Held(s) = delivered[s] + Len(queued[s]) + NotesFor(s, unknown) + NotesFor(s, nqIn)
      /\ Held(s)' = delivered'[s] + Len(queued[s]) + NotesFor(s, unknown') + NotesFor(s, nqIn')
  BY <1>1, CountTypes, HeldNext DEF Held
<1>5. \/ /\ b = 0 /\ delivered'[s] = delivered[s] /\ NotesFor(s, unknown') = NotesFor(s, unknown)
      \/ /\ b = 1 /\ delivered'[s] = delivered[s]
         /\ NotesFor(s, unknown') = NotesFor(s, unknown) + 1
      \/ /\ b = 1 /\ Listed(s) /\ delivered'[s] = delivered[s] + 1
         /\ NotesFor(s, unknown') = NotesFor(s, unknown)
  <2>1. CASE IrqMcp
    BY <1>1, <2>1 DEF IrqMcp, clientVars
  <2>2. CASE IrqUnknown
    <3>1. unknown' = Append(unknown, n) /\ delivered' = delivered
      BY <2>2 DEF IrqUnknown, QueueUnknown, clientVars
    <3>2. NotesFor(s, unknown') = NotesFor(s, unknown) + b
      BY <1>1, <1>2, <3>1, NotesAppend
    <3> QED
      BY <1>4, <3>1, <3>2
  <2>3. CASE IrqForwards
    BY <1>1, <2>3 DEF IrqForwards, Listed
  <2> QED
    BY <2>1, <2>2, <2>3
<1> HIDE DEF b, n
<1>6. Held(s)' = Held(s) /\ Held(s)' \in Nat
  <2>1. PICK d \in Nat, l \in Nat, u \in Nat, k \in Nat :
          /\ d = delivered[s] /\ l = Len(queued[s]) /\ u = NotesFor(s, unknown)
          /\ k = NotesFor(s, nqIn')
    BY <1>3, <1>4
  <2>2. Held(s) = d + l + u + (k + b) /\ Held(s)' = delivered'[s] + l + NotesFor(s, unknown') + k
    BY <1>2, <1>4, <2>1
  <2>3. \/ Held(s) = d + l + u + (k + 0) /\ Held(s)' = d + l + u + k
        \/ Held(s) = d + l + u + (k + 1) /\ Held(s)' = d + l + (u + 1) + k
        \/ Held(s) = d + l + u + (k + 1) /\ Held(s)' = (d + 1) + l + u + k
    BY <1>5, <2>1, <2>2
  <2> QED
    BY <2>3
<1>7. ~Listed(s) => delivered'[s] = delivered[s]
  BY <1>5
<1>8. Held(s)' <= Held(s)
  BY <1>6
<1> QED
  BY <1>1, <1>6, <1>7, <1>8, CountedPassed

\* openSession lists the session that the SWd has opened, which has received nothing yet.
LEMMA CountedOfOpen ==
  ASSUME TypeOK, MutexHeld, Core, Unseen, ~mcFault', NEW w \in Workers, OpenSucceeds(w),
         NEW s \in Sids, Counted(s)
  PROVE  Counted(s)'
<1> DEFINE r == mcpMessage.sid
<1>1. w \in Threads /\ Exchanging(w) /\ job[w].pc = "open" /\ McpReturns("open", "ok")
  BY DEF Threads, OpenSucceeds, Exchanging
<1>2. mcpMessage.kind = "rsp" /\ mcpMessage.result = "ok" /\ OpenAnswer
  BY <1>1, AnswerTaken
<1>3. r \in Sids /\ InSwd(r) /\ ~Listed(r)
  BY <1>1, <1>2 DEF OpenAnswer, Unseen
<1>4. /\ trustletSessions' = trustletSessions \cup {r}
      /\ deviceConnection' = [deviceConnection EXCEPT ![r] = job[w].client]
      /\ sessionState' = [sessionState EXCEPT ![r] = "running"]
      /\ queued' = [queued EXCEPT ![r] = <<>>]
      /\ UNCHANGED <<swd, noted, delivered, unknown, nqIn>>
  BY DEF OpenSucceeds, clientVars, swdVars
<1>5. /\ deviceConnection \in [Sids -> Clients \cup {NULL}] /\ queued \in [Sids -> Seq(Note)]
      /\ sessionState \in [Sids -> {"running", "dead", "closeSend"}]
  BY DEF TypeOK, SessionTypes
<1> HIDE DEF r
<1>6. queued'[s] = queued[s]
  BY <1>3, <1>4, <1>5 DEF Counted, Fresh, InSwd
<1>7. Held(s)' = Held(s)
  BY <1>4, <1>6, HeldNext DEF Held
<1>8. CASE s # r
  BY <1>4, <1>5, <1>6, <1>7, <1>8, CountedFrame DEF Listed
<1>9. CASE s = r
  <2>1. Held(s) = Sent(s) /\ Sent(s)' = Sent(s) /\ Held(s) \in Nat
    BY <1>3, <1>4, <1>9, CountTypes DEF Counted, Conserved, Sent
  <2>2. /\ Listed(s)' /\ sessionState'[s] = "running" /\ swd'[s] = swd[s]
        /\ noted'[s] = noted[s]
    BY <1>3, <1>4, <1>5, <1>9 DEF Listed
  <2> QED
    BY <1>7, <2>1, <2>2 DEF Counted, Fresh, Kept, Conserved
<1> QED
  BY <1>8, <1>9

\* What the SWd sends, unless the MCP answer, it has counted.
LEMMA CountedOfSwd ==
  ASSUME TypeOK, Core, Notes, ~mcFault, SwdStep, NEW s \in Sids, Counted(s)
  PROVE  Counted(s)'
<1>1. /\ nqIn \in Seq(Note) /\ s # SID_MCP /\ noted \in [Sids -> 0..MaxNotes]
      /\ swd \in [Sids -> {"unused", "running", "exited", "closed"}]
      /\ McpNote \in Note /\ McpNote.sid = SID_MCP
      /\ UNCHANGED <<trustletSessions, deviceConnection, sessionState, delivered, queued, unknown>>
  <2>1. McpNote \in Note /\ McpNote.sid = SID_MCP
    BY DEF Note, McpNote, Payloads
  <2>2. UNCHANGED <<trustletSessions, deviceConnection, sessionState, delivered, queued, unknown>>
    BY DEF SwdStep, SwdOpens, SwdCloses, SwdAnswers, SwdFindsNoCommand, TaNotifies, TaExits,
       sessionVars, clientVars
  <2> QED
    BY <2>1, <2>2, ConstantsAssumption DEF TypeOK, SwdTypes
<1>2. /\ Held(s) = delivered[s] + Len(queued[s]) + NotesFor(s, unknown) + NotesFor(s, nqIn)
      /\ Held(s)' = delivered[s] + Len(queued[s]) + NotesFor(s, unknown) + NotesFor(s, nqIn')
  BY <1>1, HeldNext DEF Held
<1>3. CASE SwdFindsNoCommand \/ SwdOpens \/ SwdCloses
  <2>1. Held(s)' = Held(s) /\ noted' = noted
    <3>1. /\ nqIn' = nqIn \/ nqIn' = Append(nqIn, McpNote)
          /\ noted' = noted
      BY <1>3 DEF SwdFindsNoCommand, SwdOpens, SwdCloses, SwdAnswers, swdVars
    <3>2. NotesFor(s, Append(nqIn, McpNote)) =
            NotesFor(s, nqIn) + (IF McpNote.sid = s THEN 1 ELSE 0)
      BY <1>1, NotesAppend
    <3>3. NotesFor(s, nqIn) \in Nat
      BY <1>1, AtFinite
    <3>4. NotesFor(s, nqIn') = NotesFor(s, nqIn)
      <4>1. NotesFor(s, Append(nqIn, McpNote)) = NotesFor(s, nqIn)
        BY <1>1, <3>2, <3>3
      <4> QED
        BY <3>1, <4>1
    <3> QED
      BY <1>2, <3>1, <3>4
  <2>2. CASE swd'[s] = swd[s]
    BY <1>1, <2>1, <2>2, CountedFrame DEF Listed
  <2>3. CASE swd[s] = "unused" /\ swd'[s] = "running"
    <3>1. ~Listed(s) /\ noted[s] = 0 /\ delivered[s] = 0 /\ queued[s] = <<>>
      BY <2>3 DEF Core, WorldsAgree, InSwd, Listed, Counted, Fresh
    <3>2. At(s, nqIn) = {} /\ At(s, unknown) = {}
      BY <1>1, <2>3 DEF Notes, NotesKnown, Known, KnownIn, At
    <3>3. NotesFor(s, nqIn) = 0 /\ NotesFor(s, unknown) = 0
      BY <3>2, FS_EmptySet DEF NotesFor, At
    <3>4. Held(s) = 0 /\ Sent(s)' = 0
      BY <1>2, <2>1, <2>3, <3>1, <3>3 DEF Sent
    <3> QED
      BY <1>1, <2>1, <2>3, <3>1, <3>4 DEF Counted, Fresh, Kept, Conserved, Listed
  <2>4. CASE swd'[s] = "closed"
    BY <1>1, <2>4 DEF Counted, Fresh, Kept, Conserved, InSwd, Listed
  <2>5. \/ swd'[s] = swd[s] \/ swd'[s] = "closed"
        \/ swd[s] = "unused" /\ swd'[s] = "running"
    <3>1. CASE SwdFindsNoCommand
      BY <3>1 DEF SwdFindsNoCommand, swdVars
    <3>2. CASE SwdOpens
      BY <1>1, <3>2 DEF SwdOpens
    <3>3. CASE SwdCloses
      BY <1>1, <3>3 DEF SwdCloses
    <3> QED
      BY <1>3, <3>1, <3>2, <3>3
  <2> QED
    BY <2>2, <2>3, <2>4, <2>5
<1>4. ASSUME NEW r \in Sids, TaNotifies(r) \/ TaExits(r)
      PROVE  Counted(s)'
  <2>1. PICK n \in Note : n.sid = r /\ nqIn' = Append(nqIn, n)
    <3>1. \A p \in Payloads : [sid |-> r, payload |-> p] \in Note
      BY DEF Note
    <3> QED
      BY <1>4, <3>1 DEF TaNotifies, TaExits, Payloads
  <2>2. NotesFor(s, nqIn') = NotesFor(s, nqIn) + (IF r = s THEN 1 ELSE 0)
    BY <1>1, <2>1, NotesAppend
  <2>3. CASE r # s
    <3>1. swd'[s] = swd[s] /\ noted'[s] = noted[s]
      BY <1>1, <1>4, <2>3 DEF TaNotifies, TaExits
    <3>2. NotesFor(s, nqIn) \in Nat
      BY <1>1, AtFinite
    <3>3. Held(s)' = Held(s)
      BY <1>2, <2>2, <2>3, <3>2
    <3> QED
      BY <1>1, <3>1, <3>3, CountedFrame DEF Listed
  <2>4. CASE r = s
    <3>1. Held(s) \in Nat /\ Sent(s) \in Nat /\ InSwd(s)
      BY <1>4, <2>4, CountTypes DEF TaNotifies, TaExits, InSwd
    <3>2. Held(s)' = Held(s) + 1
      <4>1. PICK d \in Nat, l \in Nat, u \in Nat, k \in Nat :
              /\ d = delivered[s] /\ l = Len(queued[s]) /\ u = NotesFor(s, unknown)
              /\ k = NotesFor(s, nqIn)
        BY CountTypes
      <4>2. Held(s) = d + l + u + k /\ Held(s)' = d + l + u + (k + 1)
        BY <1>2, <2>2, <2>4, <4>1
      <4> QED
        BY <4>2
    <3>3. Sent(s)' = Sent(s) + 1
      <4>1. CASE TaNotifies(r)
        <5>1. noted'[s] = noted[s] + 1 /\ swd'[s] = "running" /\ swd[s] = "running"
              /\ noted[s] \in Nat
          BY <1>1, <2>4, <4>1, ConstantsAssumption DEF TaNotifies
        <5> QED
          BY <5>1 DEF Sent
      <4>2. CASE TaExits(r)
        <5>1. noted'[s] = noted[s] /\ swd'[s] = "exited" /\ swd[s] = "running"
              /\ noted[s] \in Nat
          BY <1>1, <2>4, <4>2, ConstantsAssumption DEF TaExits
        <5> QED
          BY <5>1 DEF Sent
      <4> QED
        BY <1>4, <4>1, <4>2
    <3>4. swd'[s] \in {"running", "exited"}
      BY <1>1, <1>4, <2>4 DEF TaNotifies, TaExits
    <3>5. Fresh(s)' /\ Kept(s)' /\ (Owner(s)' <=> Owner(s)) /\ (Listed(s)' <=> Listed(s))
      BY <1>1, <3>1, <3>4 DEF Counted, Fresh, Kept, Owner, Listed, InSwd
    <3>6. Held(s) <= Sent(s) /\ (~Listed(s) \/ Owner(s) => Held(s) = Sent(s))
      BY <3>1 DEF Counted, Conserved
    <3>7. Held(s)' <= Sent(s)' /\ (~Listed(s)' \/ Owner(s)' => Held(s)' = Sent(s)')
      BY <3>1, <3>2, <3>3, <3>5, <3>6
    <3> QED
      BY <3>5, <3>7 DEF Counted, Conserved
  <2> QED
    BY <2>3, <2>4
<1> QED
  BY <1>3, <1>4 DEF SwdStep

LEMMA CountedStep ==
  ASSUME TypeOK, MutexHeld, Core, Notes, Owners, AllCounted, Next, Forgets
  PROVE  AllCounted'
<1> SUFFICES ASSUME ~mcFault', NEW s \in Sids
             PROVE  Counted(s)'
  BY DEF AllCounted
<1>1. ~mcFault /\ Counted(s) /\ Unseen
  BY FaultStays DEF AllCounted, Owners
<1>2. CASE ~Passes
  BY <1>1, <1>2, CountedWithout
<1>3. CASE IrqStep
  BY <1>1, <1>3, CountedOfIrq, CountedOfQueues DEF IrqStep
<1>4. CASE SwdStep
  BY <1>1, <1>4, CountedOfSwd
<1>5. CASE \E w \in Workers : OpenSucceeds(w) \/ Transfer(w) \/ Flush(w)
  BY <1>1, <1>5, CountedOfOpen, CountedOfTransfer, CountedOfFlush
<1> QED
  BY <1>2, <1>3, <1>4, <1>5 DEF Passes

LEMMA CountedInit ==
  ASSUME Init
  PROVE  AllCounted
<1> SUFFICES ASSUME NEW s \in Sids
             PROVE  Counted(s)
  BY DEF AllCounted
<1>1. /\ swd[s] = "unused" /\ noted[s] = 0 /\ delivered[s] = 0 /\ queued[s] = <<>>
      /\ ~Listed(s) /\ ~InSwd(s)
  BY DEF Init, Listed, InSwd
<1> QED
  BY <1>1 DEF Counted, Fresh, Kept, Conserved

\* handleIrq, openSession and processNqConnect lose and double no notification, for any number
\* of clients, sessions and notifications: what is delivered, queued, kept for a session that
\* is not listed yet and on its way from the SWd is what its TA has sent.
THEOREM NotificationsConserved == Spec => []NotesConserved
<1>1. AllCounted /\ IInv => NotesConserved
  <2> SUFFICES ASSUME AllCounted, IInv, ~mcFault, NEW s \in trustletSessions, InSwd(s)
               PROVE  /\ Held(s) <= Sent(s)
                      /\ deviceConnection[s] # NULL /\ sessionState[s] # "dead" =>
                           Held(s) = Sent(s)
    BY DEF NotesConserved
  <2>1. s \in Sids
    BY DEF IInv, Inv, TypeOK, SessionTypes
  <2> QED
    BY <2>1 DEF AllCounted, Counted, Conserved, Owner
<1>2. IInv /\ AllCounted /\ [Next]_vars /\ [Forgets]_vars => AllCounted'
  <2>1. ASSUME IInv, AllCounted, UNCHANGED vars
        PROVE  AllCounted'
    BY <2>1 DEF AllCounted, Counted, Fresh, Kept, Conserved, Held, Sent, InSwd, Owner, Listed,
       NotesFor, vars, sessionVars, mcpVars, clientVars, swdVars
  <2>2. ASSUME IInv, AllCounted, Next, [Forgets]_vars
        PROVE  AllCounted'
    <3>1. TypeOK /\ MutexHeld /\ Core /\ Notes /\ Owners
      BY <2>2 DEF IInv, Inv, Core
    <3> QED
      BY <2>1, <2>2, <3>1, CountedStep
  <2> QED
    BY <2>1, <2>2
<1>3. [Forgets]_vars <=> [\A s \in trustletSessions \ trustletSessions' : swd[s] = "closed"]_vars
  BY DEF Forgets
<1> QED
  BY <1>1, <1>2, <1>3, CountedInit, Strengthened, Forgotten, PTL DEF Spec, ForgottenOnlyWhenClosed

=============================================================================
