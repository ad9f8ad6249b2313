------------------------- MODULE SharedBuffersProofs -------------------------
(***************************************************************************)
(* Proofs about SharedBuffers, for any clients, sessions, buffers and      *)
(* failures: the kernel keeps the pages of a buffer the secure world has   *)
(* mapped, the daemon's session knows every mapping of its TA, and each    *)
(* lock of a buffer is that of one session, of the command at work, or of  *)
(* a MAP command that was refused.                                         *)
(*                                                                         *)
(* A buffer is registered once, for one open or map, and its handle is     *)
(* never issued again.  The rest follows the handle: from the call to the  *)
(* job that serves it, to the MCP buffer, and to the session.              *)
(***************************************************************************)
EXTENDS SharedBuffers, FiniteSetTheorems, TLAPS

-----------------------------------------------------------------------------
(* The inductive invariant.                                                *)

\* The call brings a buffer of its own, registered for it.
Brings(c) == call[c].op \in {"open", "connect", "map"} /\ call[c].handle # 0

\* The handle of an open or a map is in no other call, and in no descriptor
\* but that of the mapping asked for.
Caller(c) ==
  LET k == call[c] IN
  /\ k.op \in {"connect", "map", "unmap", "close"} => k.sid \in Sids
  /\ k.op = "open" /\ k.reply = "ok" => k.sid \in Sids
  /\ k.op \in {"map", "unmap"} => k.handle \in Handles
  /\ k.handle <= issued
  /\ Brings(c) =>
       /\ k.buf \in Bufs
       /\ \A e \in Clients \ {c} : call[e].handle # k.handle
       /\ \A s \in Sids : \A d \in bulkBufferDescriptors[s] :
            d.handle = k.handle => k.op = "map" /\ ~d.secure
Callers ==
  /\ \A c \in Clients : Caller(c)
  /\ \A s \in Sids : \A d \in bulkBufferDescriptors[s] : d.handle <= issued

\* The job is at the call of a client that waits for it.
ForCall == At("lock") \/ At("open") \/ At("find") \/ At("map") \/ At("unmap")
           \/ ((At("close") \/ At("closeAgain")) /\ ~job.drop)
ForClient == ForCall \/ At("drop") \/ At("close") \/ At("closeAgain")

Serving ==
  /\ ForClient => job.client \in opened
  /\ ForCall => Pending(job.client)
  /\ At("lock") \/ At("open") =>
       call[job.client].op = "open" /\ call[job.client].handle = job.handle
  /\ At("find") \/ At("map") \/ At("unmap") =>
       /\ call[job.client].op = IF At("unmap") THEN "unmap" ELSE "map"
       /\ call[job.client].handle = job.handle /\ call[job.client].sid = job.sid
  /\ (At("close") \/ At("closeAgain")) /\ ~job.drop =>
       call[job.client].op = "close" /\ call[job.client].sid = job.sid
  /\ At("find") \/ At("map") \/ At("unmap") \/ At("close") \/ At("closeAgain")
       \/ At("exitClose") => job.sid \in Sids
  /\ At("lock") => job.handle \in tables
  /\ At("find") => job.handle \in Handles
  /\ At("map") \/ At("unmap") => job.handle \in buffers[job.sid]

\* What a buffer is locked for.
Using(h) == (At("open") \/ At("find")) /\ job.handle = h
Known(h) == \E s \in Sids : h \in buffers[s]
Needed(h) == Known(h) \/ Using(h) \/ h \in refused

\* The job has locked the buffer the call of c brings.
Taken(c) == job.client = c /\ (At("open") \/ At("find") \/ At("map"))

Locked ==
  /\ \A h \in Handles :
       /\ locks[h] = IF Needed(h) THEN 1 ELSE 0
       /\ locks[h] = 1 => h \in tables /\ h <= issued
       /\ ~(Known(h) /\ Using(h)) /\ ~(Known(h) /\ h \in refused)
       /\ ~(Using(h) /\ h \in refused)
       /\ \A s, r \in Sids : h \in buffers[s] /\ h \in buffers[r] => s = r
  /\ \A c \in Clients :
       Brings(c) /\ Pending(c) /\ ~Taken(c) => locks[call[c].handle] = 0

\* Before a fault the MCP buffer holds the command of the job at work.
Waits == At("open") \/ At("map") \/ At("unmap") \/ At("close")
         \/ At("closeAgain") \/ At("exitClose")
Current ==
  ~mcFault =>
    /\ ~Waits => mcp.cmd = "none"
    /\ At("open") => mcp.cmd = "open"
    /\ At("map") => mcp.cmd = "map" /\ job.sid \in trustletSessions
    /\ At("unmap") => mcp.cmd = "unmap"
    /\ At("close") \/ At("closeAgain") \/ At("exitClose") => mcp.cmd = "close"
    /\ At("open") \/ At("map") \/ At("unmap") => mcp.handle = job.handle
    /\ Waits /\ ~At("open") => mcp.sid = job.sid

Command ==
  /\ mcp.cmd \in {"map", "unmap", "close"} => mcp.sid \in Sids
  /\ mcp.cmd = "open" /\ mcp.answer = "ok" => mcp.sid \in Sids
  /\ mcp.cmd = "map" => mcp.handle \in buffers[mcp.sid]
  /\ mcp.cmd = "unmap" /\ mcp.answer = "ok" => <<mcp.sid, mcp.handle>> \notin mapped
  /\ mcp.cmd = "close" /\ mcp.answer = "ok" => swd[mcp.sid] = "closed"
  /\ mcp.answer = "closeTaskFailed" => mcp.sid \in GpSids
  /\ mcp.cmd \in {"open", "map"} =>
       /\ \A c \in Clients :
            call[c].op = "unmap" \/ (call[c].op = "map" /\ call[c].reply = "ok") =>
              call[c].handle # mcp.handle
       /\ \A s \in Sids : \A d \in bulkBufferDescriptors[s] :
            d.secure => d.handle # mcp.handle
  /\ mcp.cmd = "open" /\ mcp.answer = "ok" =>
       /\ mcp.sid \notin trustletSessions
       /\ buffers[mcp.sid] = {}
       /\ swd[mcp.sid] # "unused"
       /\ \A p \in mapped : p[1] = mcp.sid => p[2] = mcp.handle

\* The SWd maps for running sessions, and a session of the daemon has one.
Mappings ==
  /\ \A s \in Sids : swd[s] = "unused" => s \notin trustletSessions /\ buffers[s] = {}
  /\ \A p \in mapped :
       /\ swd[p[1]] \notin {"unused", "closed"}
       /\ p[1] \in trustletSessions => p[2] \in buffers[p[1]]
       /\ ~mcFault /\ p[1] \notin trustletSessions =>
            At("open") /\ mcp.answer = "ok" /\ mcp.sid = p[1] /\ mcp.handle = p[2]

Told ==
  \A c \in Clients :
    LET k == call[c] IN
    k.reply = "ok" =>
      /\ k.op = "unmap" => <<k.sid, k.handle>> \notin mapped
      /\ k.op = "close" /\ k.sid \notin GpSids => swd[k.sid] = "closed"

IInv == TypeOK /\ Callers /\ Serving /\ Locked /\ Current /\ Command /\ Mappings /\ Told

-----------------------------------------------------------------------------
(* What the operators of the model do, field by field.                     *)

Ops == {"none", "open", "connect", "map", "unmap", "close", "closeDevice"}
Nums == 0..MaxHandles
SidOrNone == Sids \cup {NULL}
ClientOrNone == Clients \cup {NULL}
Ats == {"idle", "lock", "open", "find", "map", "unmap", "close", "closeAgain",
        "drop", "scan", "exitClose", "aborted"}

SameCalls(c) == \A e \in Clients \ {c} : call'[e] = call[e]

CallIs(c, op, s, h, b, reply) ==
  /\ SameCalls(c)
  /\ call'[c].op = op /\ call'[c].sid = s /\ call'[c].handle = h
  /\ call'[c].buf = b /\ call'[c].reply = reply

JobIs(at, c, s, h, drop) ==
  /\ job'.at = at /\ job'.client = c /\ job'.sid = s
  /\ job'.handle = h /\ job'.drop = drop
JobAt(at) == JobIs(at, job.client, job.sid, job.handle, job.drop)
JobIdle == JobIs("idle", NULL, NULL, 0, FALSE)

McpIs(cmd, s, h, answer) ==
  mcp'.cmd = cmd /\ mcp'.sid = s /\ mcp'.handle = h /\ mcp'.answer = answer

\* The types of the fields.
Fields ==
  /\ \A c \in Clients :
       /\ call[c].op \in Ops /\ call[c].sid \in SidOrNone
       /\ call[c].handle \in Nums /\ call[c].buf \in Bufs \cup {NULL}
       /\ call[c].reply \in {"none", "ok", "error"}
  /\ job.at \in Ats /\ job.client \in ClientOrNone /\ job.sid \in SidOrNone
  /\ job.handle \in Nums /\ job.drop \in BOOLEAN
  /\ mcp.cmd \in {"none", "open", "map", "unmap", "close"}
  /\ mcp.sid \in SidOrNone /\ mcp.handle \in Nums
  /\ mcp.answer \in {"none", "ok", "error", "closeTaskFailed"}
  /\ \A s \in Sids : \A d \in bulkBufferDescriptors[s] :
       d.buf \in Bufs /\ d.handle \in Handles /\ d.secure \in BOOLEAN

LEMMA FieldTypes == ASSUME TypeOK PROVE Fields
  <1> USE DEF Ops, Nums, SidOrNone, ClientOrNone, Ats
  <1>1. ASSUME NEW c \in Clients
        PROVE  /\ call[c].op \in Ops /\ call[c].sid \in SidOrNone
               /\ call[c].handle \in Nums /\ call[c].buf \in Bufs \cup {NULL}
               /\ call[c].reply \in {"none", "ok", "error"}
    BY DEF TypeOK, Calling
  <1>2. /\ job.at \in Ats /\ job.client \in ClientOrNone /\ job.sid \in SidOrNone
        /\ job.handle \in Nums /\ job.drop \in BOOLEAN
    BY DEF TypeOK, Working
  <1>3. /\ mcp.cmd \in {"none", "open", "map", "unmap", "close"}
        /\ mcp.sid \in SidOrNone /\ mcp.handle \in Nums
        /\ mcp.answer \in {"none", "ok", "error", "closeTaskFailed"}
    BY DEF TypeOK, McpBuffer
  <1>4. ASSUME NEW s \in Sids, NEW d \in bulkBufferDescriptors[s]
        PROVE  d.buf \in Bufs /\ d.handle \in Handles /\ d.secure \in BOOLEAN
    BY DEF TypeOK, Descriptor
  <1> QED BY <1>1, <1>2, <1>3, <1>4 DEF Fields

LEMMA CallTo ==
  ASSUME TypeOK, NEW c \in Clients, NEW op \in Ops, NEW s \in SidOrNone,
         NEW h \in Nums, NEW b \in Bufs \cup {NULL},
         NEW reply \in {"none", "ok", "error"},
         call' = [call EXCEPT ![c] = [op |-> op, sid |-> s, handle |-> h,
                                      buf |-> b, reply |-> reply]]
  PROVE  call' \in [Clients -> Calling] /\ CallIs(c, op, s, h, b, reply)
  <1> DEFINE r == [op |-> op, sid |-> s, handle |-> h, buf |-> b, reply |-> reply]
  <1>1. r \in Calling
    BY DEF Calling, Ops, SidOrNone, Nums
  <1>2. /\ r.op = op /\ r.sid = s /\ r.handle = h /\ r.buf = b /\ r.reply = reply
    OBVIOUS
  <1>3. call' = [call EXCEPT ![c] = r]
    OBVIOUS
  <1> HIDE DEF r
  <1>4. call \in [Clients -> Calling]
    BY DEF TypeOK
  <1>5. call'[c] = r /\ call' \in [Clients -> Calling] /\ SameCalls(c)
    BY <1>1, <1>3, <1>4 DEF SameCalls
  <1> QED BY <1>2, <1>5 DEF CallIs

LEMMA CallsTo ==
  ASSUME TypeOK, NEW c \in Clients, NEW op \in Ops, NEW s \in SidOrNone,
         NEW h \in Nums, NEW b \in Bufs \cup {NULL}, Calls(c, op, s, h, b)
  PROVE  call' \in [Clients -> Calling] /\ CallIs(c, op, s, h, b, "none")
  BY CallTo DEF Calls

LEMMA LeavesTo ==
  ASSUME TypeOK, NEW c \in Clients, Leaves(c)
  PROVE  /\ call' \in [Clients -> Calling]
         /\ CallIs(c, "none", NULL, 0, NULL, "none")
  <1>1. /\ 0 \in Nums /\ NULL \in SidOrNone /\ NULL \in Bufs \cup {NULL}
        /\ "none" \in Ops /\ "none" \in {"none", "ok", "error"}
    BY ConstantsAssumption DEF Nums, SidOrNone, Ops
  <1> QED BY <1>1, CallTo DEF Leaves, NoCall

\* A client that has died is not answered.
AnswerIs(c, s, reply) ==
  \/ c \in alive /\ CallIs(c, call[c].op, s, call[c].handle, call[c].buf, reply)
  \/ c \notin alive /\ CallIs(c, "none", NULL, 0, NULL, "none")

LEMMA AnswerTo ==
  ASSUME TypeOK, NEW c \in Clients, NEW s \in SidOrNone,
         NEW reply \in {"none", "ok", "error"}, Answer(c, s, reply)
  PROVE  call' \in [Clients -> Calling] /\ AnswerIs(c, s, reply)
  <1>1. CASE c \in alive
    <2> DEFINE r == [call[c] EXCEPT !.sid = s, !.reply = reply]
    <2>1. call \in [Clients -> Calling] /\ call[c] \in Calling
      BY DEF TypeOK
    <2>2. /\ r \in Calling
          /\ r.op = call[c].op /\ r.sid = s /\ r.handle = call[c].handle
          /\ r.buf = call[c].buf /\ r.reply = reply
      BY <2>1 DEF Calling, SidOrNone
    <2>3. call' = [call EXCEPT ![c] = r]
      BY <1>1, <2>1 DEF Answer
    <2> HIDE DEF r
    <2>4. call'[c] = r /\ call' \in [Clients -> Calling] /\ SameCalls(c)
      BY <2>1, <2>2, <2>3 DEF SameCalls
    <2> QED BY <1>1, <2>2, <2>4 DEF AnswerIs, CallIs
  <1>2. CASE c \notin alive
    BY <1>2, LeavesTo DEF Answer, Leaves, AnswerIs
  <1> QED BY <1>1, <1>2

LEMMA JobTo ==
  ASSUME NEW at \in Ats, NEW c \in ClientOrNone, NEW s \in SidOrNone,
         NEW h \in Nums, NEW drop \in BOOLEAN,
         job' = [at |-> at, client |-> c, sid |-> s, handle |-> h, drop |-> drop]
  PROVE  job' \in Working /\ JobIs(at, c, s, h, drop)
  BY DEF Working, JobIs, Ats, ClientOrNone, SidOrNone, Nums

LEMMA NoJobTo ==
  ASSUME job' = NoJob PROVE job' \in Working /\ JobIdle
  <1>1. /\ NULL \in ClientOrNone /\ NULL \in SidOrNone /\ 0 \in Nums
        /\ "idle" \in Ats /\ FALSE \in BOOLEAN
    BY ConstantsAssumption DEF ClientOrNone, SidOrNone, Nums, Ats
  <1> QED BY <1>1, JobTo DEF NoJob, JobIdle

LEMMA GoesTo ==
  ASSUME TypeOK, NEW at \in Ats, Goes(at)
  PROVE  job' \in Working /\ JobAt(at)
  BY DEF Goes, TypeOK, Working, JobAt, JobIs, Ats

LEMMA SendTo ==
  ASSUME NEW cmd \in {"open", "map", "unmap", "close"}, NEW s \in SidOrNone,
         NEW h \in Nums, Send(cmd, s, h)
  PROVE  mcp' \in McpBuffer /\ McpIs(cmd, s, h, "none")
  BY DEF Send, McpBuffer, McpIs, SidOrNone, Nums

LEMMA NoCommandTo ==
  ASSUME mcp' = NoCommand
  PROVE  mcp' \in McpBuffer /\ McpIs("none", NULL, 0, "none")
  BY ConstantsAssumption DEF NoCommand, McpBuffer, McpIs

-----------------------------------------------------------------------------
(* The client's steps leave the daemon and the SWd alone.                  *)

DaemonAlone == UNCHANGED daemonVars /\ UNCHANGED swdVars

\* Nobody's table goes away that is locked, or about to be.
TablesStay ==
  \A h \in Handles :
    /\ h \in tables /\ locks[h] = 1 => h \in tables'
    /\ At("lock") /\ h = job.handle => h \in tables'

\* A descriptor is new only for the buffer of the call that ends, and for a
\* mapping only when the daemon has said that it is there.
NewlyKnown(c) ==
  \A s \in Sids : \A d \in bulkBufferDescriptors'[s] :
    \/ d \in bulkBufferDescriptors[s]
    \/ /\ call'[c].op = "none" /\ Brings(c) /\ d.handle = call[c].handle
       /\ d.secure => call[c].op = "map" /\ call[c].reply = "ok"

\* The client ends a call, or gives it up.
LEMMA LeaveKeeps ==
  ASSUME IInv, NEW c \in Clients,
         \/ call' = call
         \/ /\ CallIs(c, "none", NULL, 0, NULL, "none")
            /\ ~(ForCall /\ job.client = c),
         NewlyKnown(c),
         UNCHANGED <<issued, locks>>, DaemonAlone, TablesStay
  PROVE  /\ Callers' /\ Serving' /\ Locked' /\ Current' /\ Command'
         /\ Mappings' /\ Told'
  <1> USE DEF DaemonAlone, daemonVars, swdVars
  <1>0. Fields /\ \A h \in Handles : h # 0
    BY FieldTypes DEF IInv, Handles
  <1>1. \A e \in Clients :
          \/ call'[e] = call[e]
          \/ /\ call'[e].op = "none" /\ call'[e].handle = 0
             /\ call'[e].reply = "none" /\ ~(ForCall /\ job.client = e)
    BY DEF CallIs, SameCalls
  <1>2. Callers'
    <2>1. ASSUME NEW e \in Clients PROVE Caller(e)'
      <3>1. CASE call'[e] = call[e]
        BY <1>1, <3>1 DEF IInv, Callers, Caller, Brings, NewlyKnown
      <3>2. CASE /\ call'[e].op = "none" /\ call'[e].handle = 0
        BY <3>2 DEF IInv, TypeOK, Caller, Brings
      <3> QED BY <1>1, <3>1, <3>2
    <2>2. \A s \in Sids : \A d \in bulkBufferDescriptors'[s] : d.handle <= issued
      BY DEF IInv, Callers, Caller, NewlyKnown
    <2> QED BY <2>1, <2>2 DEF IInv, Callers
  <1>3. Serving'
    BY <1>1 DEF IInv, Serving, TablesStay, ForCall, ForClient, At, Pending,
         TypeOK, Handles
  <1>4. Locked'
    BY <1>1 DEF IInv, Locked, TablesStay, Needed, Known, Using, Taken, Brings,
         At, Pending
  <1>5. Current'
    BY DEF IInv, Current, Waits, At
  <1>6. Command'
    BY <1>1 DEF IInv, Command, NewlyKnown
  <1>7. Mappings'
    BY DEF IInv, Mappings, At
  <1>8. Told'
    BY <1>1 DEF IInv, Told
  <1> QED BY <1>2, <1>3, <1>4, <1>5, <1>6, <1>7, <1>8

LEMMA ClientTypes ==
  ASSUME TypeOK, DaemonAlone, alive' \subseteq Clients,
         call' \in [Clients -> Calling],
         sessionList' \in [Clients -> SUBSET Sids],
         bulkBufferDescriptors' \in [Sids -> SUBSET Descriptor],
         issued' \in 0..MaxHandles,
         owner' \in [Handles -> Clients \cup {NULL}],
         tables' \subseteq Handles, UNCHANGED locks
  PROVE  TypeOK'
  BY DEF TypeOK, DaemonAlone, daemonVars, swdVars

\* Only buffers of descriptors are unregistered: not one about to be locked.
LEMMA UnregisterTo ==
  ASSUME IInv, NEW H, Unregister(H),
         \A h \in H : \E s \in Sids : \E d \in bulkBufferDescriptors[s] : d.handle = h
  PROVE  /\ TablesStay /\ UNCHANGED <<issued, locks>>
         /\ owner' \in [Handles -> Clients \cup {NULL}]
         /\ tables' \subseteq Handles
  <1>0. Fields
    BY FieldTypes DEF IInv
  <1>1. owner' \in [Handles -> Clients \cup {NULL}] /\ tables' \subseteq Handles
        /\ UNCHANGED <<issued, locks>>
    BY DEF Unregister, IInv, TypeOK
  <1>2. ASSUME At("lock") PROVE job.handle \in tables'
    <2>1. /\ job.client \in Clients /\ call[job.client].op = "open"
          /\ call[job.client].handle = job.handle /\ job.handle \in tables
      BY <1>2 DEF IInv, Serving, ForClient, ForCall, TypeOK
    <2>2. Brings(job.client)
      BY <2>1 DEF Brings, IInv, TypeOK, Handles
    <2>3. job.handle \notin H
      BY <1>0, <2>1, <2>2 DEF IInv, Callers, Caller
    <2> QED BY <2>1, <2>3 DEF Unregister
  <1>3. ASSUME NEW h \in tables, locks[h] = 1 PROVE h \in tables'
    BY <1>3 DEF Unregister
  <1> QED BY <1>1, <1>2, <1>3 DEF TablesStay

LEMMA RemoveBulkBufTo ==
  ASSUME IInv, NEW s \in Sids, NEW b, RemoveBulkBuf(s, b)
  PROVE  /\ TablesStay /\ UNCHANGED <<issued, locks>>
         /\ owner' \in [Handles -> Clients \cup {NULL}]
         /\ tables' \subseteq Handles
         /\ bulkBufferDescriptors' \in [Sids -> SUBSET Descriptor]
         /\ \A r \in Sids :
              bulkBufferDescriptors'[r] \subseteq bulkBufferDescriptors[r]
  <1> DEFINE D == {d \in bulkBufferDescriptors[s] : d.buf = b}
             H == {d.handle : d \in D}
  <1>1. Unregister(H)
    BY DEF RemoveBulkBuf
  <1>2. \A h \in H : \E r \in Sids : \E d \in bulkBufferDescriptors[r] : d.handle = h
    OBVIOUS
  <1>3. /\ TablesStay /\ UNCHANGED <<issued, locks>>
        /\ owner' \in [Handles -> Clients \cup {NULL}]
        /\ tables' \subseteq Handles
    <2> HIDE DEF H
    <2> QED BY <1>1, <1>2, UnregisterTo
  <1>4. /\ bulkBufferDescriptors' \in [Sids -> SUBSET Descriptor]
        /\ \A r \in Sids :
             bulkBufferDescriptors'[r] \subseteq bulkBufferDescriptors[r]
    BY DEF RemoveBulkBuf, IInv, TypeOK
  <1> QED BY <1>3, <1>4

LEMMA GivesUpStep ==
  ASSUME IInv, NEW c \in Clients, OpenGivesUp(c) \/ CallFails(c) \/ SocketError(c)
  PROVE  IInv'
  <1>1. /\ Leaves(c) /\ DaemonAlone
        /\ UNCHANGED <<alive, sessionList, bulkBufferDescriptors, kernelVars>>
    BY DEF OpenGivesUp, CallFails, SocketError, DaemonAlone
  <1>2. /\ call' \in [Clients -> Calling]
        /\ CallIs(c, "none", NULL, 0, NULL, "none")
    BY <1>1, LeavesTo DEF IInv
  <1>3. ~(ForCall /\ job.client = c)
    BY DEF OpenGivesUp, CallFails, SocketError, Returned, Pending, IInv,
         Serving, ForClient
  <1>4. TablesStay
    BY <1>1 DEF kernelVars, TablesStay, IInv, Serving
  <1>5. TypeOK'
    BY <1>1, <1>2, ClientTypes DEF IInv, TypeOK, kernelVars
  <1> QED BY <1>1, <1>2, <1>3, <1>4, <1>5, LeaveKeeps DEF NewlyKnown, IInv,
       kernelVars

LEMMA ForgetsStep ==
  ASSUME IInv, NEW c \in Clients, MapRefused(c) \/ UnmapReturns(c)
  PROVE  IInv'
  <1>1. /\ Leaves(c) /\ DaemonAlone /\ RemoveBulkBuf(call[c].sid, call[c].buf)
        /\ UNCHANGED <<alive, sessionList>>
    BY DEF MapRefused, UnmapReturns, DaemonAlone
  <1>2. /\ call' \in [Clients -> Calling]
        /\ CallIs(c, "none", NULL, 0, NULL, "none")
    BY <1>1, LeavesTo DEF IInv
  <1>3. ~(ForCall /\ job.client = c) /\ call[c].sid \in Sids
    BY DEF MapRefused, UnmapReturns, Returned, Pending, IInv, Serving, Callers,
         Caller
  <1>4. /\ TablesStay /\ UNCHANGED <<issued, locks>>
        /\ owner' \in [Handles -> Clients \cup {NULL}]
        /\ tables' \subseteq Handles
        /\ bulkBufferDescriptors' \in [Sids -> SUBSET Descriptor]
        /\ \A r \in Sids :
             bulkBufferDescriptors'[r] \subseteq bulkBufferDescriptors[r]
    BY <1>1, <1>3, RemoveBulkBufTo
  <1>5. TypeOK'
    BY <1>1, <1>2, <1>4, ClientTypes DEF IInv, TypeOK
  <1> QED BY <1>1, <1>2, <1>3, <1>4, <1>5, LeaveKeeps DEF NewlyKnown, IInv

LEMMA CloseReturnsStep ==
  ASSUME IInv, NEW c \in Clients, CloseReturns(c)
  PROVE  IInv'
  <1> DEFINE s == call[c].sid
             H == {d.handle : d \in bulkBufferDescriptors[s]}
  <1>1. /\ Leaves(c) /\ DaemonAlone /\ Unregister(H)
        /\ UNCHANGED alive
        /\ sessionList' = [sessionList EXCEPT ![c] = @ \ {s}]
        /\ bulkBufferDescriptors' = [bulkBufferDescriptors EXCEPT ![s] = {}]
    BY DEF CloseReturns, DaemonAlone
  <1>2. /\ call' \in [Clients -> Calling]
        /\ CallIs(c, "none", NULL, 0, NULL, "none")
    BY <1>1, LeavesTo DEF IInv
  <1>3. ~(ForCall /\ job.client = c) /\ s \in Sids
    BY DEF CloseReturns, Returned, Pending, IInv, Serving, Callers, Caller
  <1>4. \A h \in H : \E r \in Sids : \E d \in bulkBufferDescriptors[r] : d.handle = h
    BY <1>3
  <1>5. /\ TablesStay /\ UNCHANGED <<issued, locks>>
        /\ owner' \in [Handles -> Clients \cup {NULL}]
        /\ tables' \subseteq Handles
    <2> HIDE DEF H
    <2> QED BY <1>1, <1>4, UnregisterTo
  <1>6. /\ bulkBufferDescriptors' \in [Sids -> SUBSET Descriptor]
        /\ sessionList' \in [Clients -> SUBSET Sids]
        /\ \A r \in Sids :
             bulkBufferDescriptors'[r] \subseteq bulkBufferDescriptors[r]
    BY <1>1, <1>3 DEF IInv, TypeOK
  <1>7. TypeOK'
    BY <1>1, <1>2, <1>5, <1>6, ClientTypes DEF IInv, TypeOK
  <1> QED BY <1>1, <1>2, <1>3, <1>5, <1>6, <1>7, LeaveKeeps DEF NewlyKnown, IInv

LEMMA GoneStep ==
  ASSUME IInv, NEW c \in Clients, Gone(c)
  PROVE  IInv'
  <1>1. /\ DaemonAlone /\ alive' = alive \ {c} /\ UNCHANGED <<sessionList, issued, locks,
                                                              tables>>
        /\ owner' = [h \in Handles |-> IF owner[h] = c THEN NULL ELSE owner[h]]
        /\ bulkBufferDescriptors' = [s \in Sids |->
             IF s \in sessionList[c] THEN {} ELSE bulkBufferDescriptors[s]]
    BY DEF Gone, DaemonAlone, Release
  <1>2. \/ call' = call
        \/ Leaves(c) /\ ~Pending(c)
    BY DEF Gone, Leaves
  <1>3. /\ call' \in [Clients -> Calling]
        /\ \/ call' = call
           \/ CallIs(c, "none", NULL, 0, NULL, "none") /\ ~(ForCall /\ job.client = c)
    BY <1>2, LeavesTo DEF IInv, TypeOK, Serving
  <1>4. TablesStay
    BY <1>1 DEF TablesStay, IInv, Serving
  <1>5. /\ bulkBufferDescriptors' \in [Sids -> SUBSET Descriptor]
        /\ owner' \in [Handles -> Clients \cup {NULL}]
        /\ \A r \in Sids :
             bulkBufferDescriptors'[r] \subseteq bulkBufferDescriptors[r]
    BY <1>1 DEF IInv, TypeOK
  <1>6. TypeOK'
    BY <1>1, <1>3, <1>5, ClientTypes DEF IInv, TypeOK
  <1> QED BY <1>1, <1>3, <1>4, <1>5, <1>6, LeaveKeeps DEF NewlyKnown, IInv

\* The call of the buffer goes on with NQ_CONNECT.
LEMMA OpenConnectingStep ==
  ASSUME IInv, NEW c \in Clients, OpenConnecting(c)
  PROVE  IInv'
  <1> DEFINE k == call[c]
  <1>1. /\ Calls(c, "connect", k.sid, k.handle, k.buf) /\ DaemonAlone
        /\ UNCHANGED <<alive, sessionList, bulkBufferDescriptors, kernelVars>>
        /\ k.op = "open" /\ k.reply = "ok" /\ k.sid \in Sids
    BY DEF OpenConnecting, DaemonAlone, Returned, IInv, Callers, Caller
  <1>2. /\ call' \in [Clients -> Calling]
        /\ CallIs(c, "connect", k.sid, k.handle, k.buf, "none")
    <2>1. /\ k.sid \in SidOrNone /\ k.handle \in Nums /\ k.buf \in Bufs \cup {NULL}
      BY FieldTypes DEF IInv, Fields
    <2> QED BY <1>1, <2>1, CallsTo DEF Ops, IInv
  <1>3. /\ \A e \in Clients \ {c} : call'[e] = call[e]
        /\ call'[c].op = "connect" /\ call'[c].sid = k.sid
        /\ call'[c].handle = k.handle /\ call'[c].buf = k.buf
        /\ call'[c].reply = "none"
    BY <1>2 DEF CallIs, SameCalls
  <1> HIDE DEF k
  <1>4. ~Pending(c) /\ ~Pending(c)' /\ \A e \in Clients \ {c} : Pending(e)' <=> Pending(e)
    BY <1>1, <1>3 DEF Pending, k
  <1>5. TypeOK'
    BY <1>1, <1>2, ClientTypes DEF IInv, TypeOK, kernelVars
  <1> USE DEF DaemonAlone, daemonVars, swdVars, kernelVars
  <1>6. Callers'
    <2>1. Caller(c)'
      BY <1>1, <1>3 DEF IInv, Callers, Caller, Brings, k
    <2>2. ASSUME NEW e \in Clients \ {c} PROVE Caller(e)'
      BY <1>1, <1>3 DEF IInv, Callers, Caller, Brings, k
    <2> QED BY <1>1, <2>1, <2>2 DEF IInv, Callers
  <1>7. Serving'
    BY <1>1, <1>3, <1>4 DEF IInv, Serving, ForCall, ForClient, At, TypeOK
  <1>8. Locked'
    BY <1>1, <1>3, <1>4 DEF IInv, Locked, Needed, Known, Using, Taken, Brings, At
  <1>9. Current' /\ Mappings'
    BY <1>1 DEF IInv, Current, Mappings, Waits, At
  <1>10. Command'
    BY <1>1, <1>3 DEF IInv, Command
  <1>11. Told'
    BY <1>1, <1>3 DEF IInv, Told
  <1> QED BY <1>5, <1>6, <1>7, <1>8, <1>9, <1>10, <1>11 DEF IInv

LEMMA OpenConnectsStep ==
  ASSUME IInv, NEW c \in Clients, OpenConnects(c)
  PROVE  IInv'
  <1> DEFINE s == call[c].sid
             d == [buf |-> call[c].buf, handle |-> call[c].handle, secure |-> FALSE]
  <1>1. /\ Leaves(c) /\ DaemonAlone /\ UNCHANGED <<alive, kernelVars>>
        /\ s \in Sids
        /\ call[c].op = "connect" /\ ~(ForCall /\ job.client = c)
        /\ sessionList' = [sessionList EXCEPT ![c] = @ \cup {s}]
        /\ bulkBufferDescriptors' = [bulkBufferDescriptors EXCEPT ![s] =
             IF call[c].handle = 0 THEN {} ELSE {d}]
    BY DEF OpenConnects, DaemonAlone, IInv, Callers, Caller, Returned, Serving,
         Pending
  <1>2. /\ call' \in [Clients -> Calling]
        /\ CallIs(c, "none", NULL, 0, NULL, "none")
    BY <1>1, LeavesTo DEF IInv
  <1>3. TablesStay
    BY <1>1 DEF TablesStay, kernelVars, IInv, Serving
  <1>4. /\ d.handle = call[c].handle /\ ~d.secure
        /\ call[c].handle # 0 => Brings(c) /\ d \in Descriptor
    <2>1. call[c].handle # 0 =>
            /\ Brings(c) /\ call[c].buf \in Bufs /\ call[c].handle \in Handles
      BY <1>1, FieldTypes DEF Brings, IInv, Callers, Caller, Fields, Nums,
           Handles
    <2> QED BY <2>1 DEF Descriptor
  <1> HIDE DEF d
  <1>5. /\ bulkBufferDescriptors' \in [Sids -> SUBSET Descriptor]
        /\ sessionList' \in [Clients -> SUBSET Sids]
        /\ NewlyKnown(c)
    BY <1>1, <1>2, <1>4 DEF IInv, TypeOK, NewlyKnown, CallIs
  <1>6. TypeOK'
    BY <1>1, <1>2, <1>5, ClientTypes DEF IInv, TypeOK, kernelVars
  <1> QED BY <1>1, <1>2, <1>3, <1>5, <1>6, LeaveKeeps DEF IInv, kernelVars

LEMMA MapReturnsStep ==
  ASSUME IInv, NEW c \in Clients, MapReturns(c)
  PROVE  IInv'
  <1> DEFINE s == call[c].sid
             d == [buf |-> call[c].buf, handle |-> call[c].handle, secure |-> FALSE]
             m == [d EXCEPT !.secure = TRUE]
  <1>1. /\ Leaves(c) /\ DaemonAlone /\ UNCHANGED <<alive, sessionList, kernelVars>>
        /\ s \in Sids
        /\ call[c].op = "map" /\ call[c].reply = "ok" /\ ~(ForCall /\ job.client = c)
        /\ bulkBufferDescriptors' = [bulkBufferDescriptors EXCEPT ![s] =
             (@ \ {d}) \cup {m}]
    BY DEF MapReturns, DaemonAlone, IInv, Callers, Caller, Returned, Serving,
         Pending
  <1>2. /\ call' \in [Clients -> Calling]
        /\ CallIs(c, "none", NULL, 0, NULL, "none")
    BY <1>1, LeavesTo DEF IInv
  <1>3. TablesStay
    BY <1>1 DEF TablesStay, kernelVars, IInv, Serving
  <1>4. m.handle = call[c].handle /\ Brings(c) /\ m \in Descriptor
    <2>1. Brings(c) /\ call[c].buf \in Bufs /\ call[c].handle \in Handles
      BY <1>1 DEF Brings, IInv, Callers, Caller, Handles
    <2> QED BY <2>1 DEF Descriptor
  <1> HIDE DEF d, m
  <1>5. /\ bulkBufferDescriptors' \in [Sids -> SUBSET Descriptor]
        /\ NewlyKnown(c)
    BY <1>1, <1>2, <1>4 DEF IInv, TypeOK, NewlyKnown, CallIs
  <1>6. TypeOK'
    BY <1>1, <1>2, <1>5, ClientTypes DEF IInv, TypeOK, kernelVars
  <1> QED BY <1>1, <1>2, <1>3, <1>5, <1>6, LeaveKeeps DEF IInv, kernelVars

\* A call of a buffer that has just been registered.
NewBuffer(op, s, h, b) ==
  /\ op \in {"open", "map"} /\ (op = "map" => s \in Sids)
  /\ h \in Handles /\ b \in Bufs
  /\ issued' \in Handles /\ issued < h /\ h <= issued'
  /\ \A r \in Sids : \A d \in bulkBufferDescriptors'[r] :
       \/ d \in bulkBufferDescriptors[r]
       \/ op = "map" /\ d.handle = h /\ ~d.secure

\* A call without, or of a buffer that has been mapped before.
NoBuffer(op, s, h) ==
  /\ UNCHANGED <<issued, bulkBufferDescriptors>>
  /\ op \in {"open", "unmap", "close", "closeDevice"}
  /\ op \in {"unmap", "close"} => s \in Sids
  /\ IF op = "unmap"
       THEN h \in Handles /\ \E r \in Sids : \E d \in bulkBufferDescriptors[r] : d.secure /\ d.handle = h
       ELSE h = 0

LEMMA BeginKeeps ==
  ASSUME IInv, NEW c \in Clients, NEW op, NEW s, NEW h, NEW b,
         call[c].op = "none", CallIs(c, op, s, h, b, "none"),
         NewBuffer(op, s, h, b) \/ NoBuffer(op, s, h),
         tables \subseteq tables', UNCHANGED locks, DaemonAlone
  PROVE  /\ Callers' /\ Serving' /\ Locked' /\ Current' /\ Command'
         /\ Mappings' /\ Told'
  <1> USE DEF DaemonAlone, daemonVars, swdVars
  <1>0. Fields
    BY FieldTypes DEF IInv
  <1>1. /\ \A e \in Clients \ {c} : call'[e] = call[e]
        /\ call'[c].op = op /\ call'[c].sid = s /\ call'[c].handle = h
        /\ call'[c].buf = b /\ call'[c].reply = "none"
    BY DEF CallIs, SameCalls
  <1>2. ~(ForCall /\ job.client = c)
    BY DEF IInv, Serving, Pending
  <1>3. Callers'
    <2>1. CASE NewBuffer(op, s, h, b)
      <3>1. \A e \in Clients : call[e].handle # h
        BY <1>0, <2>1 DEF NewBuffer, IInv, Callers, Caller, TypeOK, Fields,
             Nums, Handles
      <3>2. \A r \in Sids : \A d \in bulkBufferDescriptors[r] : d.handle # h
        BY <1>0, <2>1 DEF NewBuffer, IInv, Callers, TypeOK, Fields, Handles
      <3>3. issued <= issued' /\ \A n \in Nums : n <= issued => n <= issued'
        BY <2>1 DEF NewBuffer, IInv, TypeOK, Nums, Handles
      <3>4. /\ op \in {"open", "map"} /\ (op = "map" => s \in Sids)
            /\ h \in Handles /\ b \in Bufs /\ h <= issued'
            /\ \A r \in Sids : \A d \in bulkBufferDescriptors'[r] :
                 \/ d \in bulkBufferDescriptors[r]
                 \/ op = "map" /\ d.handle = h /\ ~d.secure
        BY <2>1 DEF NewBuffer
      <3>5. Caller(c)'
        BY <1>1, <2>1, <3>1, <3>2, <3>4 DEF Caller, Brings
      <3>6. ASSUME NEW e \in Clients \ {c} PROVE Caller(e)'
        BY <1>0, <1>1, <3>1, <3>3, <3>4 DEF IInv, Callers, Caller, Brings,
             Fields
      <3>7. \A r \in Sids : \A d \in bulkBufferDescriptors'[r] : d.handle <= issued'
        BY <1>0, <2>1, <3>3 DEF NewBuffer, IInv, Callers, Fields, Handles, Nums
      <3> QED BY <3>5, <3>6, <3>7 DEF Callers
    <2>2. CASE NoBuffer(op, s, h)
      <3>1. Caller(c)'
        BY <1>0, <1>1, <2>2 DEF NoBuffer, IInv, Callers, Caller, Brings,
             TypeOK, Handles
      <3>2. ASSUME NEW e \in Clients \ {c} PROVE Caller(e)'
        BY <1>0, <1>1, <2>2 DEF NoBuffer, IInv, Callers, Caller, Brings, Handles
      <3> QED BY <2>2, <3>1, <3>2 DEF NoBuffer, IInv, Callers
    <2> QED BY <2>1, <2>2
  <1>4. Serving'
    BY <1>1, <1>2 DEF IInv, Serving, ForCall, ForClient, At, Pending, TypeOK
  <1>5. Locked'
    <2>1. ASSUME NEW n \in Handles
          PROVE  locks[n] = 1 => n \in tables' /\ n <= issued'
      BY DEF NewBuffer, NoBuffer, IInv, TypeOK, Locked, Handles
    <2>2. ASSUME NEW e \in Clients, Brings(e)', Pending(e)', ~Taken(e)'
          PROVE  locks[call'[e].handle] = 0
      BY <1>1, <2>2 DEF NewBuffer, NoBuffer, IInv, TypeOK, Locked, Handles,
           Brings, Pending, Taken, At
    <2> QED BY <2>1, <2>2 DEF IInv, Locked, Needed, Known, Using, At
  <1>6. Current'
    BY DEF IInv, Current, Waits, At
  <1>7. Command'
    <2>1. \A r \in Sids : \A d \in bulkBufferDescriptors'[r] :
            d.secure => d \in bulkBufferDescriptors[r]
      BY DEF NewBuffer, NoBuffer
    <2>2. op = "unmap" => \E r \in Sids : \E d \in bulkBufferDescriptors[r] :
                            d.secure /\ d.handle = h
      BY DEF NewBuffer, NoBuffer
    <2> QED BY <1>1, <2>1, <2>2 DEF IInv, Command
  <1>8. Mappings'
    BY DEF IInv, Mappings, At
  <1>9. Told'
    BY <1>1 DEF IInv, Told
  <1> QED BY <1>3, <1>4, <1>5, <1>6, <1>7, <1>8, <1>9

LEMMA RegisterTo ==
  ASSUME TypeOK, NEW c \in Clients, Register(c)
  PROVE  /\ issued' = issued + 1 /\ issued' \in Handles
         /\ owner' \in [Handles -> Clients \cup {NULL}]
         /\ tables \subseteq tables' /\ tables' \subseteq Handles
         /\ UNCHANGED locks
  BY ConstantsAssumption DEF TypeOK, Register, Handles

LEMMA McOpenSessionStep ==
  ASSUME IInv, NEW c \in Clients, McOpenSession(c)
  PROVE  IInv'
  <1> USE DEF IInv
  <1>1. /\ DaemonAlone /\ call[c].op = "none"
        /\ UNCHANGED <<alive, sessionList, bulkBufferDescriptors>>
    BY DEF McOpenSession, DaemonAlone, Idle
  <1>2. ASSUME NEW b \in Bufs, Register(c), Calls(c, "open", NULL, issued', b)
        PROVE  IInv'
    <2>1. /\ issued' = issued + 1 /\ issued' \in Handles
          /\ owner' \in [Handles -> Clients \cup {NULL}]
          /\ tables \subseteq tables' /\ tables' \subseteq Handles
          /\ UNCHANGED locks
      BY <1>2, RegisterTo
    <2>2. /\ call' \in [Clients -> Calling]
          /\ CallIs(c, "open", NULL, issued', b, "none")
      BY <1>2, <2>1, CallsTo DEF Ops, SidOrNone, Nums, Handles
    <2>3. NewBuffer("open", NULL, issued', b)
      BY <1>1, <2>1 DEF NewBuffer, TypeOK, Handles
    <2>4. TypeOK'
      BY <1>1, <2>1, <2>2, ClientTypes DEF TypeOK, Handles
    <2> QED BY <1>1, <2>1, <2>2, <2>3, <2>4, BeginKeeps
  <1>3. CASE Calls(c, "open", NULL, 0, NULL) /\ UNCHANGED kernelVars
    <2>1. /\ call' \in [Clients -> Calling]
          /\ CallIs(c, "open", NULL, 0, NULL, "none")
      BY <1>3, CallsTo, ConstantsAssumption DEF Ops, SidOrNone, Nums
    <2>2. NoBuffer("open", NULL, 0)
      BY <1>1, <1>3 DEF NoBuffer, kernelVars
    <2>3. TypeOK'
      BY <1>1, <1>3, <2>1, ClientTypes DEF TypeOK, kernelVars
    <2> QED BY <1>1, <1>3, <2>1, <2>2, <2>3, BeginKeeps DEF kernelVars
  <1> QED BY <1>2, <1>3 DEF McOpenSession

LEMMA McMapStep ==
  ASSUME IInv, NEW c \in Clients, NEW s \in Sids, NEW b \in Bufs, McMap(c, s, b)
  PROVE  IInv'
  <1> USE DEF IInv
  <1> DEFINE d == [buf |-> b, handle |-> issued', secure |-> FALSE]
  <1>1. /\ DaemonAlone /\ call[c].op = "none" /\ Register(c)
        /\ Calls(c, "map", s, issued', b)
        /\ UNCHANGED <<alive, sessionList>>
        /\ bulkBufferDescriptors' = [bulkBufferDescriptors EXCEPT ![s] = @ \cup {d}]
    BY DEF McMap, DaemonAlone, Idle
  <1>2. /\ issued' = issued + 1 /\ issued' \in Handles
        /\ owner' \in [Handles -> Clients \cup {NULL}]
        /\ tables \subseteq tables' /\ tables' \subseteq Handles
        /\ UNCHANGED locks
    BY <1>1, RegisterTo
  <1>3. /\ call' \in [Clients -> Calling]
        /\ CallIs(c, "map", s, issued', b, "none")
    BY <1>1, <1>2, CallsTo DEF Ops, SidOrNone, Nums, Handles
  <1>4. d \in Descriptor /\ d.handle = issued' /\ ~d.secure
    BY <1>2 DEF Descriptor
  <1> HIDE DEF d
  <1>5. /\ bulkBufferDescriptors' \in [Sids -> SUBSET Descriptor]
        /\ NewBuffer("map", s, issued', b)
    BY <1>1, <1>2, <1>4 DEF NewBuffer, TypeOK, Handles
  <1>6. TypeOK'
    BY <1>1, <1>2, <1>3, <1>5, ClientTypes DEF TypeOK, Handles
  <1> QED BY <1>1, <1>2, <1>3, <1>5, <1>6, BeginKeeps

LEMMA CallsStep ==
  ASSUME IInv, NEW c \in Clients,
         \/ \E s \in Sids, b \in Bufs : \E d \in bulkBufferDescriptors[s] :
              McUnmap(c, s, d, b)
         \/ \E s \in Sids : McCloseSession(c, s)
         \/ McCloseDevice(c)
  PROVE  IInv'
  <1> USE DEF IInv
  <1>1. /\ DaemonAlone /\ call[c].op = "none"
        /\ UNCHANGED <<alive, sessionList, bulkBufferDescriptors, kernelVars>>
    BY DEF McUnmap, McCloseSession, McCloseDevice, DaemonAlone, Idle
  <1>2. PICK op \in {"unmap", "close", "closeDevice"}, s \in SidOrNone, h \in Nums,
             b \in Bufs \cup {NULL} :
          Calls(c, op, s, h, b) /\ NoBuffer(op, s, h)
    <2>1. ASSUME NEW s \in Sids, NEW b \in Bufs, NEW d \in bulkBufferDescriptors[s],
                 McUnmap(c, s, d, b)
          PROVE  /\ Calls(c, "unmap", s, d.handle, b) /\ NoBuffer("unmap", s, d.handle)
                 /\ d.handle \in Nums
      BY <1>1, <2>1, FieldTypes DEF McUnmap, NoBuffer, kernelVars, Fields,
           Handles, Nums
    <2>2. ASSUME NEW s \in Sids, McCloseSession(c, s)
          PROVE  Calls(c, "close", s, 0, NULL) /\ NoBuffer("close", s, 0)
      BY <1>1, <2>2 DEF McCloseSession, NoBuffer, kernelVars
    <2>3. ASSUME McCloseDevice(c)
          PROVE  Calls(c, "closeDevice", NULL, 0, NULL) /\ NoBuffer("closeDevice", NULL, 0)
      BY <1>1, <2>3 DEF McCloseDevice, NoBuffer, kernelVars
    <2>4. 0 \in Nums
      BY ConstantsAssumption DEF Nums
    <2> QED BY <2>1, <2>2, <2>3, <2>4 DEF SidOrNone
  <1>3. call' \in [Clients -> Calling] /\ CallIs(c, op, s, h, b, "none")
    BY <1>2, CallsTo DEF Ops
  <1>4. TypeOK'
    BY <1>1, <1>3, ClientTypes DEF TypeOK, kernelVars
  <1> QED BY <1>1, <1>2, <1>3, <1>4, BeginKeeps DEF kernelVars

LEMMA ClientStepKeeps ==
  ASSUME IInv, NEW c \in Clients, ClientStep(c) PROVE IInv'
  BY GivesUpStep, ForgetsStep, CloseReturnsStep, GoneStep,
     OpenConnectingStep, OpenConnectsStep, MapReturnsStep, McOpenSessionStep, McMapStep,
     CallsStep DEF ClientStep

-----------------------------------------------------------------------------
(* The secure world acts on the command in the MCP buffer.                 *)

OthersAlone == UNCHANGED clientVars /\ UNCHANGED kernelVars /\ UNCHANGED daemonVars

LEMMA OthersAloneKeeps ==
  ASSUME IInv, OthersAlone PROVE Callers' /\ Serving' /\ Locked'
  <1> USE DEF OthersAlone, clientVars, kernelVars, daemonVars
  <1>1. Callers'
    BY DEF IInv, Callers, Caller, Brings
  <1>2. Serving'
    BY DEF IInv, Serving, ForCall, ForClient, At, Pending
  <1>3. Locked'
    BY DEF IInv, Locked, Needed, Known, Using, Taken, Brings, At, Pending
  <1> QED BY <1>1, <1>2, <1>3

LEMMA AnswersTo ==
  ASSUME TypeOK, NEW cmd, NEW result \in {"ok", "error", "closeTaskFailed"},
         SwdAnswers(cmd, result)
  PROVE  /\ OthersAlone /\ mcp.cmd = cmd /\ mcp.answer = "none"
         /\ mcp' \in McpBuffer /\ McpIs(mcp.cmd, mcp.sid, mcp.handle, result)
  BY DEF SwdAnswers, OthersAlone, TypeOK, McpBuffer, McpIs

LEMMA SwdTypes ==
  ASSUME TypeOK, OthersAlone, mcp' \in McpBuffer,
         swd' \in [Sids -> {"unused", "running", "asked", "exited", "closed"}],
         exiting' \subseteq Sids, mapped' \subseteq Sids \X Handles
  PROVE  TypeOK'
  BY DEF TypeOK, OthersAlone, clientVars, kernelVars, daemonVars

LEMMA SwdOpensStep ==
  ASSUME IInv, SwdOpens PROVE IInv'
  <1> USE DEF OthersAlone, clientVars, kernelVars, daemonVars
  <1>0. Fields
    BY FieldTypes DEF IInv
  <1>1. PICK s \in Sids :
          /\ swd[s] = "unused" /\ mcp.cmd = "open" /\ mcp.answer = "none"
          /\ OthersAlone /\ mcp' = [mcp EXCEPT !.answer = "ok", !.sid = s]
          /\ swd' = [swd EXCEPT ![s] = "running"]
          /\ mapped' = mapped \cup Buffer(s, mcp.handle)
          /\ UNCHANGED exiting
    BY DEF SwdOpens
  <1>2. mcp' \in McpBuffer /\ McpIs("open", s, mcp.handle, "ok")
    BY <1>1 DEF IInv, TypeOK, McpBuffer, McpIs
  <1>3. \A p \in mapped' : p \in mapped \/ (p = <<s, mcp.handle>> /\ mcp.handle # 0)
    BY <1>1 DEF Buffer
  <1>4. /\ swd'[s] = "running" /\ \A r \in Sids \ {s} : swd'[r] = swd[r]
        /\ swd' \in [Sids -> {"unused", "running", "asked", "exited", "closed"}]
    BY <1>1 DEF IInv, TypeOK
  <1>5. \A p \in mapped : p[1] # s /\ p[1] \in Sids
    BY <1>1 DEF IInv, TypeOK, Mappings
  <1>6. mapped' \subseteq Sids \X Handles
    BY <1>0, <1>3 DEF IInv, TypeOK, Fields, Nums, Handles
  <1>7. TypeOK'
    BY <1>1, <1>2, <1>4, <1>6, SwdTypes DEF IInv, TypeOK
  <1>8. Current'
    BY <1>1, <1>2 DEF IInv, Current, Waits, At, McpIs
  <1>9. Command'
    BY <1>1, <1>2, <1>3, <1>4, <1>5 DEF IInv, Command, Mappings, McpIs
  <1>10. Mappings'
    BY <1>1, <1>2, <1>3, <1>4, <1>5 DEF IInv, Mappings, Current, Waits, At,
         McpIs
  <1>11. Told'
    BY <1>0, <1>1, <1>3, <1>4 DEF IInv, Told, Command, Callers, Caller, Fields
  <1> QED BY <1>1, <1>7, <1>8, <1>9, <1>10, <1>11, OthersAloneKeeps DEF IInv

LEMMA SwdMapsStep ==
  ASSUME IInv, SwdMaps PROVE IInv'
  <1> USE DEF OthersAlone, clientVars, kernelVars, daemonVars
  <1>0. Fields
    BY FieldTypes DEF IInv
  <1>1. /\ OthersAlone /\ mcp.cmd = "map" /\ mcp.answer = "none"
        /\ mcp' \in McpBuffer /\ McpIs("map", mcp.sid, mcp.handle, "ok")
        /\ mapped' = mapped \cup Buffer(mcp.sid, mcp.handle)
        /\ swd[mcp.sid] \in {"running", "asked"}
        /\ UNCHANGED <<swd, exiting>>
    BY AnswersTo DEF SwdMaps, IInv, McpIs
  <1>2. mcp.sid \in Sids /\ mcp.handle \in buffers[mcp.sid] /\ mcp.handle \in Handles
    BY <1>1 DEF IInv, Command, TypeOK
  <1>3. \A p \in mapped' : p \in mapped \/ p = <<mcp.sid, mcp.handle>>
    BY <1>1 DEF Buffer
  <1>4. mapped' \subseteq Sids \X Handles
    BY <1>2, <1>3 DEF IInv, TypeOK
  <1>5. TypeOK'
    BY <1>1, <1>4, SwdTypes DEF IInv, TypeOK
  <1>6. Current'
    BY <1>1 DEF IInv, Current, Waits, At, McpIs
  <1>7. Command'
    BY <1>1, <1>2, <1>3 DEF IInv, Command, McpIs
  <1>8. Mappings'
    <2>1. ~mcFault => mcp.sid \in trustletSessions
      BY <1>1 DEF IInv, Current, Waits, At
    <2>2. \A p \in mapped : p[1] \in Sids /\ p[2] \in Handles
      BY DEF IInv, TypeOK
    <2> QED BY <1>1, <1>2, <1>3, <2>1, <2>2 DEF IInv, Mappings, McpIs, At
  <1>9. Told'
    BY <1>0, <1>1, <1>2, <1>3 DEF IInv, Told, Command, Callers, Caller, Fields
  <1> QED BY <1>1, <1>5, <1>6, <1>7, <1>8, <1>9, OthersAloneKeeps DEF IInv

\* What takes mappings away, and opens nothing, keeps the rest.
LEMMA SwdShrinks ==
  ASSUME IInv, OthersAlone, mapped' \subseteq mapped,
         mcp.answer = "none",
         NEW result \in {"ok", "error", "closeTaskFailed"},
         mcp' \in McpBuffer, McpIs(mcp.cmd, mcp.sid, mcp.handle, result),
         mcp.cmd = "open" => result = "error",
         mcp.cmd = "unmap" /\ result = "ok" => <<mcp.sid, mcp.handle>> \notin mapped',
         mcp.cmd = "close" /\ result = "ok" => swd'[mcp.sid] = "closed",
         result = "closeTaskFailed" => mcp.sid \in GpSids,
         swd' \in [Sids -> {"unused", "running", "asked", "exited", "closed"}],
         \A s \in Sids : swd[s] = "unused" <=> swd'[s] = "unused",
         \A s \in Sids : swd[s] = "closed" => swd'[s] = "closed",
         \A p \in mapped' : swd'[p[1]] # "closed",
         UNCHANGED exiting
  PROVE  IInv'
  <1> USE DEF OthersAlone, clientVars, kernelVars, daemonVars
  <1>1. TypeOK'
    BY SwdTypes DEF IInv, TypeOK
  <1>2. Current'
    BY DEF IInv, Current, Waits, At, McpIs
  <1>3. Command'
    BY DEF IInv, Command, McpIs
  <1>4. Mappings'
    <2>1. \A p \in mapped' : p[1] \in Sids
      BY DEF IInv, TypeOK
    <2> QED BY <2>1 DEF IInv, Mappings, McpIs, At
  <1>5. Told'
    BY DEF IInv, Told, Callers, Caller
  <1> QED BY <1>1, <1>2, <1>3, <1>4, <1>5, OthersAloneKeeps DEF IInv

LEMMA SwdUnmapsStep ==
  ASSUME IInv, SwdUnmaps PROVE IInv'
  <1>1. /\ OthersAlone /\ mcp.cmd = "unmap" /\ mcp.answer = "none"
        /\ mcp' \in McpBuffer /\ McpIs(mcp.cmd, mcp.sid, mcp.handle, "ok")
        /\ mapped' = mapped \ Buffer(mcp.sid, mcp.handle)
        /\ UNCHANGED <<swd, exiting>>
    BY AnswersTo DEF SwdUnmaps, IInv
  <1>2. <<mcp.sid, mcp.handle>> \notin mapped'
    BY <1>1 DEF Buffer, IInv, TypeOK, Handles
  <1>3. \A p \in mapped : swd[p[1]] # "closed"
    BY DEF IInv, Mappings
  <1> QED BY <1>1, <1>2, <1>3, SwdShrinks DEF IInv, TypeOK

LEMMA SwdRefusesStep ==
  ASSUME IInv, SwdRefuses PROVE IInv'
  <1>1. /\ OthersAlone /\ mcp.answer = "none"
        /\ mcp' \in McpBuffer /\ McpIs(mcp.cmd, mcp.sid, mcp.handle, "error")
        /\ UNCHANGED <<swd, exiting, mapped>>
    BY AnswersTo DEF SwdRefuses, IInv
  <1>2. \A p \in mapped : swd[p[1]] # "closed"
    BY DEF IInv, Mappings
  <1> QED BY <1>1, <1>2, SwdShrinks DEF IInv, TypeOK

LEMMA SwdClosesStep ==
  ASSUME IInv, SwdCloses PROVE IInv'
  <1>1. CASE /\ SwdAnswers("close", "ok")
             /\ swd[mcp.sid] = "exited" \/ (swd[mcp.sid] = "running" /\ mcp.sid \notin GpSids)
             /\ swd' = [swd EXCEPT ![mcp.sid] = "closed"]
             /\ mapped' = {p \in mapped : p[1] # mcp.sid}
    <2>1. /\ OthersAlone /\ mcp.cmd = "close" /\ mcp.answer = "none"
          /\ mcp' \in McpBuffer /\ McpIs(mcp.cmd, mcp.sid, mcp.handle, "ok")
          /\ UNCHANGED exiting /\ mcp.sid \in Sids
      BY <1>1, AnswersTo DEF SwdCloses, IInv, Command
    <2>2. /\ swd' \in [Sids -> {"unused", "running", "asked", "exited", "closed"}]
          /\ swd'[mcp.sid] = "closed" /\ \A s \in Sids \ {mcp.sid} : swd'[s] = swd[s]
      BY <1>1, <2>1 DEF IInv, TypeOK
    <2>3. \A p \in mapped' : swd'[p[1]] # "closed"
      BY <1>1, <2>2 DEF IInv, TypeOK, Mappings
    <2> QED BY <1>1, <2>1, <2>2, <2>3, SwdShrinks
  <1>2. CASE /\ SwdAnswers("close", "closeTaskFailed")
             /\ swd[mcp.sid] \in {"running", "asked"} /\ mcp.sid \in GpSids
             /\ swd' = [swd EXCEPT ![mcp.sid] = "asked"]
             /\ UNCHANGED mapped
    <2>1. /\ OthersAlone /\ mcp.cmd = "close" /\ mcp.answer = "none"
          /\ mcp' \in McpBuffer
          /\ McpIs(mcp.cmd, mcp.sid, mcp.handle, "closeTaskFailed")
          /\ UNCHANGED exiting /\ mcp.sid \in Sids
      BY <1>2, AnswersTo DEF SwdCloses, IInv, Command
    <2>2. /\ swd' \in [Sids -> {"unused", "running", "asked", "exited", "closed"}]
          /\ swd'[mcp.sid] = "asked" /\ \A s \in Sids \ {mcp.sid} : swd'[s] = swd[s]
      BY <1>2, <2>1 DEF IInv, TypeOK
    <2>3. \A p \in mapped' : swd'[p[1]] # "closed"
      BY <1>2, <2>2 DEF IInv, TypeOK, Mappings
    <2> QED BY <1>2, <2>1, <2>2, <2>3, SwdShrinks
  <1> QED BY <1>1, <1>2 DEF SwdCloses

LEMMA TaExitsStep ==
  ASSUME IInv, NEW s \in Sids, TaExits(s) PROVE IInv'
  <1> USE DEF OthersAlone, clientVars, kernelVars, daemonVars
  <1>1. /\ OthersAlone /\ swd[s] \in {"running", "asked"}
        /\ swd' = [swd EXCEPT ![s] = "exited"] /\ UNCHANGED <<mcp, mapped>>
        /\ exiting' = exiting \cup {s}
    BY DEF TaExits
  <1>2. /\ swd' \in [Sids -> {"unused", "running", "asked", "exited", "closed"}]
        /\ swd'[s] = "exited" /\ \A r \in Sids \ {s} : swd'[r] = swd[r]
    BY <1>1 DEF IInv, TypeOK
  <1>3. TypeOK'
    BY <1>1, <1>2, SwdTypes DEF IInv, TypeOK
  <1>4. Current'
    BY <1>1 DEF IInv, Current, Waits, At
  <1>5. Command'
    BY <1>1, <1>2 DEF IInv, Command
  <1>6. Mappings'
    <2>1. \A p \in mapped : p[1] \in Sids
      BY DEF IInv, TypeOK
    <2> QED BY <1>1, <1>2, <2>1 DEF IInv, Mappings, At
  <1>7. Told'
    BY <1>1, <1>2 DEF IInv, Told, Callers, Caller
  <1> QED BY <1>1, <1>3, <1>4, <1>5, <1>6, <1>7, OthersAloneKeeps DEF IInv

LEMMA SwdStepKeeps ==
  ASSUME IInv, SwdStep \/ \E s \in Sids : TaExits(s) PROVE IInv'
  BY SwdOpensStep, SwdMapsStep, SwdUnmapsStep, SwdRefusesStep, SwdClosesStep,
     TaExitsStep DEF SwdStep

-----------------------------------------------------------------------------
(* The daemon's steps, frames first: registrations and the SWd stay.       *)

RestAlone ==
  UNCHANGED <<alive, sessionList, bulkBufferDescriptors, issued, owner, swd, exiting, mapped>>

\* A client is answered as the call it is in allows.
Replies(c) ==
  \E s \in SidOrNone, reply \in {"none", "ok", "error"} :
    /\ AnswerIs(c, s, reply)
    /\ call[c].op \in {"connect", "map", "unmap", "close"} => s = call[c].sid
    /\ reply = "ok" =>
         /\ call[c].op = "open" => s \in Sids
         /\ call[c].op = "unmap" => <<s, call[c].handle>> \notin mapped
         /\ call[c].op = "close" /\ s \notin GpSids => swd[s] = "closed"
         /\ call[c].op = "map" => mcp'.cmd \notin {"open", "map"}

LEMMA RepliesKeeps ==
  ASSUME IInv, RestAlone, call' = call \/ \E c \in Clients : Replies(c)
  PROVE  Callers' /\ Told'
  <1> USE DEF RestAlone
  <1>1. CASE call' = call
    BY <1>1 DEF IInv, Callers, Caller, Brings, Told
  <1>2. ASSUME NEW c \in Clients, Replies(c) PROVE Callers' /\ Told'
    <2>1. PICK s \in SidOrNone, reply \in {"none", "ok", "error"} :
            /\ AnswerIs(c, s, reply)
            /\ call[c].op \in {"connect", "map", "unmap", "close"} => s = call[c].sid
            /\ reply = "ok" =>
                 /\ call[c].op = "open" => s \in Sids
                 /\ call[c].op = "unmap" => <<s, call[c].handle>> \notin mapped
                 /\ call[c].op = "close" /\ s \notin GpSids => swd[s] = "closed"
      BY <1>2 DEF Replies
    <2>2. \A e \in Clients \ {c} : call'[e] = call[e]
      BY <2>1 DEF AnswerIs, CallIs, SameCalls
    <2>3. \/ /\ call'[c].op = call[c].op /\ call'[c].sid = s
             /\ call'[c].handle = call[c].handle /\ call'[c].buf = call[c].buf
             /\ call'[c].reply = reply
          \/ call'[c].op = "none" /\ call'[c].handle = 0 /\ call'[c].reply = "none"
      BY <2>1 DEF AnswerIs, CallIs
    <2>4. \A e \in Clients : Caller(e)'
      <3>1. Caller(c)'
        BY <2>1, <2>2, <2>3 DEF IInv, TypeOK, Callers, Caller, Brings, Handles
      <3>2. ASSUME NEW e \in Clients \ {c} PROVE Caller(e)'
        BY <2>2, <2>3, <3>2 DEF IInv, Callers, Caller, Brings
      <3> QED BY <3>1, <3>2
    <2>5. Callers'
      BY <2>4 DEF IInv, Callers
    <2>6. Told'
      BY <2>1, <2>2, <2>3 DEF IInv, Told
    <2> QED BY <2>5, <2>6
  <1> QED BY <1>1, <1>2

LEMMA DaemonTypes ==
  ASSUME TypeOK, RestAlone, call' \in [Clients -> Calling],
         locks' \in [Handles -> 0..1], tables' \subseteq Handles,
         trustletSessions' \subseteq Sids,
         deviceConnection' \in [Sids -> Clients \cup {NULL}],
         connected' \subseteq Sids, dead' \subseteq Sids, buffers' \in [Sids -> SUBSET Handles],
         opened' \subseteq Clients, job' \in Working, woken' \in BOOLEAN,
         mcFault' \in BOOLEAN, refused' \subseteq Handles, mcp' \in McpBuffer
  PROVE  TypeOK'
  BY DEF TypeOK, RestAlone

\* A call that ends is not pending any more, and no other begins or ends.
Pends(e) == Pending(e) /\ call'[e] = call[e]

LEMMA RepliesEnd ==
  ASSUME TypeOK, NEW c \in Clients, NEW s, NEW reply \in {"ok", "error"},
         AnswerIs(c, s, reply)
  PROVE  /\ ~Pending(c)' /\ \A e \in Clients \ {c} : call'[e] = call[e]
         /\ \A e \in Clients : Pending(e)' => Pends(e) /\ e # c
  BY DEF AnswerIs, CallIs, SameCalls, Pending, Pends

LEMMA ServeOpenStep ==
  ASSUME IInv, NEW c \in Clients, ServeOpen(c) PROVE IInv'
  <1> DEFINE h == call[c].handle
  <1>0. Fields
    BY FieldTypes DEF IInv
  <1>1. /\ At("idle") /\ c \in opened /\ Pending(c) /\ call[c].op = "open"
        /\ RestAlone
        /\ UNCHANGED <<kernelVars, trustletSessions, deviceConnection, connected, dead,
                       buffers, opened, woken, mcFault, refused>>
    BY DEF ServeOpen, Serves, RestAlone, kernelVars, At
  <1>2. h \in Nums /\ 0 \in Nums /\ NULL \in SidOrNone /\ c \in ClientOrNone
    BY <1>0, ConstantsAssumption DEF Fields, SidOrNone, ClientOrNone, Nums
  <1>3. CASE /\ h = 0 /\ Send("open", NULL, 0) /\ UNCHANGED call
             /\ job' = [NoJob EXCEPT !.at = "open", !.client = c]
    <2>1. mcp' \in McpBuffer /\ McpIs("open", NULL, 0, "none")
      BY <1>2, <1>3, SendTo DEF Nums
    <2>2. job' \in Working /\ JobIs("open", c, NULL, 0, FALSE)
      <3>1. job' = [at |-> "open", client |-> c, sid |-> NULL, handle |-> 0, drop |-> FALSE]
        BY <1>3 DEF NoJob
      <3> QED BY <1>2, <3>1, JobTo DEF Ats
    <2>3. TypeOK'
      BY <1>1, <1>3, <2>1, <2>2, DaemonTypes DEF IInv, TypeOK, kernelVars
    <2>4. Callers' /\ Told'
      BY <1>1, <1>3, RepliesKeeps
    <2>5. Serving'
      BY <1>1, <1>3, <2>2 DEF Serving, ForCall, ForClient, At, Pending, JobIs
    <2>6. Locked'
      BY <1>1, <1>3, <2>2 DEF IInv, Locked, Needed, Known, Using, Taken,
           Brings, At, Pending, JobIs, kernelVars, Handles
    <2>7. Current'
      BY <2>1, <2>2 DEF Current, Waits, At, JobIs, McpIs
    <2>8. Command'
      BY <1>0, <1>1, <1>3, <2>1 DEF IInv, Command, McpIs, RestAlone, Callers,
           Caller, Fields, Handles
    <2>9. Mappings'
      BY <1>1, <2>1, <2>2 DEF IInv, Mappings, RestAlone, At, JobIs
    <2> QED BY <2>3, <2>4, <2>5, <2>6, <2>7, <2>8, <2>9 DEF IInv
  <1>4. CASE /\ h # 0 /\ Resolves(h, c) /\ UNCHANGED <<call, mcp>>
             /\ job' = [NoJob EXCEPT !.at = "lock", !.client = c, !.handle = h]
    <2>2. job' \in Working /\ JobIs("lock", c, NULL, h, FALSE)
      <3>1. job' = [at |-> "lock", client |-> c, sid |-> NULL, handle |-> h, drop |-> FALSE]
        BY <1>4 DEF NoJob
      <3> HIDE DEF h
      <3> QED BY <1>2, <3>1, JobTo DEF Ats
    <2>3. TypeOK'
      BY <1>1, <1>4, <2>2, DaemonTypes DEF IInv, TypeOK, kernelVars
    <2>4. Callers' /\ Told'
      BY <1>1, <1>4, RepliesKeeps
    <2>5. Serving'
      BY <1>1, <1>4, <2>2 DEF Serving, ForCall, ForClient, At, Pending, JobIs,
           Resolves, kernelVars
    <2>6. Locked'
      BY <1>1, <1>4, <2>2 DEF IInv, Locked, Needed, Known, Using, Taken,
           Brings, At, Pending, JobIs, kernelVars
    <2>7. Current'
      BY <1>1, <1>4, <2>2 DEF IInv, Current, Waits, At, JobIs
    <2>8. Command'
      BY <1>1, <1>4 DEF IInv, Command, RestAlone
    <2>9. Mappings'
      BY <1>1, <1>4, <2>2 DEF IInv, Mappings, RestAlone, At, JobIs
    <2> QED BY <2>3, <2>4, <2>5, <2>6, <2>7, <2>8, <2>9 DEF IInv
  <1>5. CASE /\ Answer(c, NULL, "error") /\ UNCHANGED <<job, mcp>>
    <2>1. call' \in [Clients -> Calling] /\ AnswerIs(c, NULL, "error")
      BY <1>2, <1>5, AnswerTo DEF IInv
    <2>2. Replies(c)
      BY <1>1, <1>2, <2>1 DEF Replies
    <2>3. TypeOK'
      BY <1>1, <1>5, <2>1, DaemonTypes DEF IInv, TypeOK, kernelVars
    <2>4. Callers' /\ Told'
      BY <1>1, <2>2, RepliesKeeps
    <2>5. Serving'
      BY <1>1, <1>5 DEF Serving, ForCall, ForClient, At
    <2>6. Locked'
      BY <1>1, <1>5, <2>1, RepliesEnd DEF IInv, Locked, Needed, Known, Using,
           Taken, Brings, At, kernelVars, Pends
    <2>7. Current'
      BY <1>1, <1>5 DEF IInv, Current, Waits, At
    <2>8. Command'
      BY <1>1, <1>5, <2>1 DEF IInv, Command, RestAlone, AnswerIs, CallIs,
           SameCalls
    <2>9. Mappings'
      BY <1>1, <1>5 DEF IInv, Mappings, RestAlone, At
    <2> QED BY <2>3, <2>4, <2>5, <2>6, <2>7, <2>8, <2>9 DEF IInv
  <1> QED BY <1>3, <1>4, <1>5 DEF ServeOpen

\* The job ends, or stops between two closes, and locks stay as they are.
Rested ==
  /\ job'.at \in {"idle", "drop", "scan", "aborted"}
  /\ job'.at = "drop" => job'.client \in opened'
  /\ ~At("open") /\ ~At("find")
  /\ At("map") => \A e \in Clients : e = job.client => ~Pending(e)'
  /\ mcFault => mcFault'
  /\ mcp' = NoCommand \/ (mcp' = mcp /\ (mcFault' \/ ~Waits))
  /\ UNCHANGED <<kernelVars, trustletSessions, buffers, refused>>

LEMMA RestedKeeps ==
  ASSUME IInv, RestAlone, Rested,
         \/ call' = call
         \/ \E c \in Clients : Replies(c) /\ ~Pending(c)'
  PROVE  Callers' /\ Serving' /\ Locked' /\ Current' /\ Command' /\ Mappings' /\ Told'
  <1> USE DEF Rested
  <1>0. mcp' = NoCommand =>
          mcp'.cmd = "none" /\ mcp'.answer = "none"
    BY NoCommandTo DEF McpIs
  <1>1. Callers' /\ Told'
    BY RepliesKeeps
  <1>2. \A e \in Clients :
          call'[e] = call[e] \/ (Replies(e) /\ ~Pending(e)')
    <2>1. ASSUME NEW c \in Clients, Replies(c)
          PROVE  \A e \in Clients \ {c} : call'[e] = call[e]
      BY <2>1 DEF Replies, AnswerIs, CallIs, SameCalls
    <2> QED BY <2>1
  <1>3. Serving'
    BY DEF IInv, Serving, ForCall, ForClient, At
  <1>4. Locked'
    BY <1>2 DEF IInv, Locked, Needed, Known, Using, Taken, Brings, At, Pending,
         kernelVars
  <1>5. Current'
    BY <1>0 DEF IInv, Current, Waits, At
  <1>6. Command'
    <2>1. CASE mcp' = NoCommand
      BY <1>0, <2>1 DEF Command
    <2>2. CASE mcp' = mcp
      <3>1. ASSUME NEW c \in Clients, mcp.cmd \in {"open", "map"},
                   call'[c].op = "unmap" \/ (call'[c].op = "map" /\ call'[c].reply = "ok")
            PROVE  call'[c].handle # mcp.handle
        <4>1. CASE call'[c] = call[c]
          BY <3>1, <4>1 DEF IInv, Command
        <4>2. CASE Replies(c)
          BY <2>2, <3>1, <4>2 DEF IInv, Command, Replies, AnswerIs, CallIs
        <4> QED BY <1>2, <4>1, <4>2
      <3> QED BY <2>2, <3>1 DEF IInv, Command, RestAlone
    <2> QED BY <2>1, <2>2
  <1>7. Mappings'
    BY DEF IInv, Mappings, At, RestAlone
  <1> QED BY <1>1, <1>3, <1>4, <1>5, <1>6, <1>7

LEMMA RepliesBy ==
  ASSUME IInv, NEW c \in Clients, NEW s \in SidOrNone,
         NEW reply \in {"ok", "error"}, Answer(c, s, reply),
         call[c].op \in {"connect", "map", "unmap", "close"} => s = call[c].sid,
         reply = "ok" =>
           /\ call[c].op = "open" => s \in Sids
           /\ call[c].op = "unmap" => <<s, call[c].handle>> \notin mapped
           /\ call[c].op = "close" /\ s \notin GpSids => swd[s] = "closed"
           /\ call[c].op = "map" => mcp'.cmd \notin {"open", "map"}
  PROVE  call' \in [Clients -> Calling] /\ Replies(c) /\ ~Pending(c)'
         /\ \A e \in Clients : Pending(e)' => Pends(e) /\ e # c
  BY AnswerTo, RepliesEnd DEF IInv, Replies

\* Steps that answer a command at once.
LEMMA RefusesStep ==
  ASSUME IInv, NEW c \in Clients, At("idle"), Answer(c, call[c].sid, "error"), RestAlone,
         UNCHANGED <<kernelVars, daemonVars, mcp>>
  PROVE  IInv'
  <1>1. call[c].sid \in SidOrNone
    BY FieldTypes DEF IInv, Fields
  <1>2. call' \in [Clients -> Calling] /\ Replies(c) /\ ~Pending(c)'
    BY <1>1, RepliesBy
  <1>3. Rested
    BY DEF Rested, Waits, At, daemonVars
  <1>4. TypeOK'
    BY <1>2, DaemonTypes DEF IInv, TypeOK, daemonVars, kernelVars
  <1> QED BY <1>2, <1>3, <1>4, RestedKeeps DEF IInv

LEMMA DropsStep ==
  ASSUME IInv, NEW c \in Clients, ServeCloseDevice(c) \/ DropConnection(c)
  PROVE  IInv'
  <1>1. At("idle") /\ c \in opened /\ Drops(c)
    BY DEF ServeCloseDevice, DropConnection, Serves, At
  <1>2. job' \in Working /\ JobIs("drop", c, NULL, 0, TRUE)
    <2>1. NULL \in SidOrNone /\ 0 \in Nums /\ c \in ClientOrNone
      BY ConstantsAssumption DEF SidOrNone, Nums, ClientOrNone
    <2>2. job' = [at |-> "drop", client |-> c, sid |-> NULL, handle |-> 0, drop |-> TRUE]
      BY <1>1 DEF Drops, NoJob
    <2> QED BY <2>1, <2>2, JobTo DEF Ats
  <1>3. /\ RestAlone /\ UNCHANGED <<call, kernelVars, trustletSessions, deviceConnection,
                                    connected, dead, buffers, opened, woken, mcFault,
                                    refused, mcp>>
    BY <1>1 DEF Drops, RestAlone, clientVars, kernelVars, swdVars
  <1>4. Rested
    BY <1>1, <1>2, <1>3 DEF Rested, JobIs, Waits, At
  <1>5. TypeOK'
    BY <1>2, <1>3, DaemonTypes DEF IInv, TypeOK, kernelVars
  <1> QED BY <1>3, <1>4, <1>5, RestedKeeps DEF IInv

LEMMA ResultOf ==
  ASSUME IInv, NEW result, Answered(result) \/ WaitFails
  PROVE  /\ mcp' \in McpBuffer /\ mcFault' \in BOOLEAN
         /\ mcFault => mcFault'
         /\ mcp' = NoCommand \/ (mcp' = mcp /\ mcFault')
         /\ UNCHANGED <<swd, exiting, mapped>>
  BY NoCommandTo DEF Answered, WaitFails, IInv, TypeOK, swdVars

\* The client of the job.
LEMMA ServedCall ==
  ASSUME IInv, ForCall
  PROVE  /\ job.client \in Clients /\ job.client \in opened /\ Pending(job.client)
         /\ call[job.client].sid \in SidOrNone
         /\ At("lock") \/ At("open") => call[job.client].op = "open"
         /\ At("find") \/ At("map") => call[job.client].op = "map"
         /\ At("unmap") => call[job.client].op = "unmap"
         /\ At("close") \/ At("closeAgain") => call[job.client].op = "close"
         /\ ~At("lock") /\ ~At("open") => call[job.client].sid = job.sid
         /\ ~At("close") /\ ~At("closeAgain") => call[job.client].handle = job.handle
  BY FieldTypes DEF IInv, TypeOK, Serving, ForClient, ForCall, At, Fields

LEMMA MapEndsStep ==
  ASSUME IInv, MapEnds PROVE IInv'
  <1>1. PICK result \in {"ok", "error"}, reply \in {"ok", "error"} :
          /\ Answered(result) \/ WaitFails
          /\ reply = "ok" => Answered("ok")
          /\ Returns(reply)
    BY DEF MapEnds
  <1>2. At("map") /\ ForCall
        /\ UNCHANGED <<alive, sessionList, bulkBufferDescriptors, kernelVars,
                 trustletSessions, deviceConnection, connected, dead, buffers, opened,
                 woken, refused>>
    BY DEF MapEnds, ForCall
  <1>3. /\ mcp' \in McpBuffer /\ mcFault' \in BOOLEAN /\ (mcFault => mcFault')
        /\ mcp' = NoCommand \/ (mcp' = mcp /\ mcFault')
        /\ UNCHANGED <<swd, exiting, mapped>>
    BY <1>1, ResultOf
  <1>4. reply = "ok" => mcp'.cmd = "none"
    BY <1>1, NoCommandTo DEF Answered, McpIs
  <1>5. PICK c \in Clients : c = job.client
    BY <1>2, ServedCall
  <1>6. /\ call' \in [Clients -> Calling] /\ Replies(c) /\ ~Pending(c)'
    <2>1. Answer(c, call[c].sid, reply) /\ call[c].op = "map" /\ call[c].sid \in SidOrNone
      BY <1>1, <1>2, <1>5, ServedCall DEF Returns, At
    <2> QED BY <1>4, <2>1, RepliesBy
  <1>7. job' \in Working /\ JobIdle
    BY <1>1, NoJobTo DEF Returns
  <1>8. RestAlone
    BY <1>2, <1>3 DEF RestAlone, kernelVars
  <1>9. Rested
    BY <1>2, <1>3, <1>5, <1>6, <1>7 DEF Rested, JobIdle, JobIs, At
  <1>10. TypeOK'
    BY <1>2, <1>3, <1>6, <1>7, <1>8, DaemonTypes DEF IInv, TypeOK, kernelVars
  <1> QED BY <1>6, <1>8, <1>9, <1>10, RestedKeeps DEF IInv

\* The client is answered, or close() goes on.
LEMMA EndCloseTo ==
  ASSUME IInv, At("close") \/ At("closeAgain"),
         NEW reply \in {"ok", "error"}, EndClose(reply),
         reply = "ok" => job.sid \in GpSids \/ swd[job.sid] = "closed"
  PROVE  /\ call' \in [Clients -> Calling] /\ job' \in Working
         /\ job'.at \in {"idle", "drop"}
         /\ job'.at = "drop" => job'.client \in opened
         /\ \/ call' = call
            \/ \E c \in Clients : Replies(c) /\ ~Pending(c)'
  <1>1. CASE job.drop
    <2>1. job' \in Working /\ JobAt("drop") /\ call' = call
      BY <1>1, GoesTo DEF EndClose, IInv, Ats
    <2>2. job.client \in opened
      BY DEF IInv, Serving, ForClient
    <2> QED BY <2>1, <2>2 DEF JobAt, JobIs, IInv, TypeOK
  <1>2. CASE ~job.drop
    <2>1. ForCall
      BY <1>2 DEF ForCall
    <2>2. PICK c \in Clients : c = job.client
      BY <2>1, ServedCall
    <2>3. /\ Answer(c, call[c].sid, reply) /\ call[c].op = "close"
          /\ call[c].sid \in SidOrNone /\ call[c].sid = job.sid
      BY <1>2, <2>1, <2>2, ServedCall DEF EndClose, Returns, At
    <2>4. call' \in [Clients -> Calling] /\ Replies(c) /\ ~Pending(c)'
      BY <2>3, RepliesBy
    <2>5. job' \in Working /\ JobIdle
      BY <1>2, NoJobTo DEF EndClose, Returns
    <2> QED BY <2>4, <2>5 DEF JobIdle, JobIs
  <1> QED BY <1>1, <1>2

LEMMA CloseEndsStep ==
  ASSUME IInv, CloseDeferred \/ CloseFails PROVE IInv'
  <1>1. PICK result \in {"error", "closeTaskFailed"}, reply \in {"ok", "error"} :
          /\ Answered(result) \/ WaitFails
          /\ reply = "ok" => Answered("closeTaskFailed")
          /\ EndClose(reply)
    BY DEF CloseDeferred, CloseFails
  <1>2. At("close")
        /\ UNCHANGED <<alive, sessionList, bulkBufferDescriptors, kernelVars,
                 trustletSessions, deviceConnection, connected, dead, buffers, opened,
                 woken, refused>>
    BY DEF CloseDeferred, CloseFails
  <1>3. /\ mcp' \in McpBuffer /\ mcFault' \in BOOLEAN /\ (mcFault => mcFault')
        /\ mcp' = NoCommand \/ (mcp' = mcp /\ mcFault')
        /\ UNCHANGED <<swd, exiting, mapped>>
    BY <1>1, ResultOf
  <1>4. reply = "ok" => job.sid \in GpSids
    BY <1>1, <1>2 DEF Answered, IInv, Command, Current, Waits, At
  <1>5. /\ call' \in [Clients -> Calling] /\ job' \in Working
        /\ job'.at \in {"idle", "drop"}
        /\ job'.at = "drop" => job'.client \in opened
        /\ \/ call' = call
           \/ \E c \in Clients : Replies(c) /\ ~Pending(c)'
    BY <1>1, <1>2, <1>4, EndCloseTo
  <1>6. RestAlone
    BY <1>2, <1>3 DEF RestAlone, kernelVars
  <1>7. Rested
    BY <1>2, <1>3, <1>5 DEF Rested, At
  <1>8. TypeOK'
    BY <1>2, <1>3, <1>5, <1>6, DaemonTypes DEF IInv, TypeOK, kernelVars
  <1> QED BY <1>5, <1>6, <1>7, <1>8, RestedKeeps DEF IInv

\* Steps of the TA exit handler and of a close that answer nobody.
LEMMA QuietStep ==
  ASSUME IInv, CloseAsserts \/ ExitFails \/ ExitSleeps \/ ExitWakes PROVE IInv'
  <1>1. /\ UNCHANGED <<alive, sessionList, bulkBufferDescriptors, call, kernelVars,
                       trustletSessions, deviceConnection, connected, dead, buffers,
                       opened, refused>>
        /\ woken' \in BOOLEAN
        /\ At("closeAgain") \/ At("exitClose") \/ At("scan") \/ At("idle")
    BY DEF CloseAsserts, ExitFails, ExitSleeps, ExitWakes, clientVars, IInv,
         TypeOK
  <1>2. /\ mcp' = mcp /\ mcFault' \in BOOLEAN /\ (mcFault => mcFault')
        /\ mcFault' \/ ~Waits
        /\ UNCHANGED <<swd, exiting, mapped>>
    BY DEF CloseAsserts, ExitFails, ExitSleeps, ExitWakes, WaitFails, swdVars,
         Waits, At, IInv, TypeOK
  <1>3. job' \in Working /\ job'.at \in {"idle", "scan", "aborted"}
    <2>1. ASSUME CloseAsserts \/ ExitWakes
          PROVE  job' \in Working /\ job'.at \in {"idle", "scan", "aborted"}
      <3>1. PICK at \in {"scan", "aborted"} : Goes(at)
        BY <2>1 DEF CloseAsserts, ExitWakes
      <3>2. job' \in Working /\ JobAt(at)
        BY <3>1, GoesTo DEF IInv, Ats
      <3> QED BY <3>2 DEF JobAt, JobIs
    <2>2. ASSUME ExitFails
          PROVE  job' \in Working /\ job'.at \in {"idle", "scan", "aborted"}
      <3>1. job' = [at |-> "scan", client |-> NULL, sid |-> NULL, handle |-> 0, drop |-> FALSE]
        BY <2>2 DEF ExitFails, NoJob
      <3>2. NULL \in SidOrNone /\ 0 \in Nums /\ NULL \in ClientOrNone
        BY ConstantsAssumption DEF SidOrNone, Nums, ClientOrNone
      <3>3. job' \in Working /\ JobIs("scan", NULL, NULL, 0, FALSE)
        BY <3>1, <3>2, JobTo DEF Ats
      <3> QED BY <3>3 DEF JobIs
    <2>3. ASSUME ExitSleeps
          PROVE  job' \in Working /\ job'.at \in {"idle", "scan", "aborted"}
      BY <2>3, NoJobTo DEF ExitSleeps, JobIdle, JobIs
    <2> QED BY <2>1, <2>2, <2>3
  <1>4. RestAlone
    BY <1>1, <1>2 DEF RestAlone, kernelVars
  <1>5. Rested
    BY <1>1, <1>2, <1>3 DEF Rested, At
  <1>6. TypeOK'
    BY <1>1, <1>2, <1>3, <1>4, DaemonTypes DEF IInv, TypeOK, kernelVars
  <1> QED BY <1>1, <1>4, <1>5, <1>6, RestedKeeps DEF IInv

LEMMA IrqExitStep ==
  ASSUME IInv, NEW s \in Sids, IrqExit(s) PROVE IInv'
  <1>1. /\ UNCHANGED <<alive, sessionList, bulkBufferDescriptors, call, kernelVars,
                 trustletSessions, deviceConnection, connected, buffers, opened, job, mcFault,
                 refused, mcp, swd, mapped>>
        /\ woken' \in BOOLEAN /\ dead' \subseteq Sids /\ exiting' \subseteq Sids
    BY DEF IrqExit, clientVars, IInv, TypeOK
  <1>2. TypeOK'
    BY <1>1 DEF IInv, TypeOK, kernelVars
  <1>3. Callers' /\ Told'
    BY <1>1 DEF IInv, Callers, Caller, Brings, Told, kernelVars
  <1>4. Serving'
    BY <1>1 DEF IInv, Serving, ForCall, ForClient, At, Pending, kernelVars
  <1>5. Locked'
    BY <1>1 DEF IInv, Locked, Needed, Known, Using, Taken, Brings, At, Pending,
         kernelVars
  <1>6. Current' /\ Command' /\ Mappings'
    BY <1>1 DEF IInv, Current, Command, Mappings, Waits, At
  <1> QED BY <1>2, <1>3, <1>4, <1>5, <1>6 DEF IInv

\* NQ_CONNECT is answered beside the job, which is not for this client.
LEMMA NqConnectStep ==
  ASSUME IInv, NEW c \in Clients, NqConnect(c) PROVE IInv'
  <1> DEFINE s == call[c].sid
  <1>1. PICK reply \in {"ok", "error"} : Answer(c, s, reply)
    BY DEF NqConnect
  <1>2. /\ call[c].op = "connect" /\ job.client # c /\ s \in Sids
        /\ RestAlone /\ connected' \subseteq Sids
        /\ UNCHANGED <<kernelVars, trustletSessions, deviceConnection, dead, buffers,
                       opened, job, woken, mcFault, refused, mcp>>
    BY DEF NqConnect, Connecting, RestAlone, kernelVars, swdVars, IInv, TypeOK,
         Callers, Caller
  <1>3. /\ call' \in [Clients -> Calling] /\ Replies(c)
        /\ ~Pending(c)' /\ \A e \in Clients : Pending(e)' => Pends(e) /\ e # c
    BY <1>1, <1>2, RepliesBy DEF SidOrNone
  <1>4. \A e \in Clients \ {c} : call'[e] = call[e]
    BY <1>3 DEF Replies, AnswerIs, CallIs, SameCalls
  <1>5. TypeOK'
    BY <1>2, <1>3, DaemonTypes DEF IInv, TypeOK, kernelVars
  <1>6. Callers' /\ Told'
    BY <1>2, <1>3, RepliesKeeps
  <1>7. Serving'
    <2>1. job.client \in opened => job.client \in Clients \ {c}
      BY <1>2 DEF IInv, TypeOK
    <2>2. job.client \in opened => call'[job.client] = call[job.client]
      BY <1>4, <2>1
    <2> QED BY <1>2, <2>2 DEF IInv, Serving, ForCall, ForClient, At, Pending,
         kernelVars
  <1>8. Locked'
    BY <1>2, <1>3 DEF IInv, Locked, Needed, Known, Using, Taken, Brings, At,
         Pends, kernelVars
  <1>9. Current' /\ Mappings'
    BY <1>2 DEF IInv, Current, Mappings, Waits, At, RestAlone
  <1>10. Command'
    <2>1. call'[c].op \in {"connect", "none"}
      BY <1>2, <1>3 DEF Replies, AnswerIs, CallIs
    <2> QED BY <1>2, <1>4, <2>1 DEF IInv, Command, RestAlone
  <1> QED BY <1>5, <1>6, <1>7, <1>8, <1>9, <1>10 DEF IInv

\* A close is sent to the SWd: for a command, the end of a connection, or the
\* TA exit handler.
ClosesNow ==
  /\ job' \in Working /\ job'.at \in {"close", "closeAgain", "exitClose"}
  /\ job'.sid \in Sids
  /\ job'.at # "exitClose" =>
       /\ job'.client \in opened
       /\ ~job'.drop => /\ Pending(job'.client) /\ call[job'.client].op = "close"
                        /\ call[job'.client].sid = job'.sid
  /\ mcp' \in McpBuffer /\ McpIs("close", job'.sid, 0, "none")
  /\ ~At("open") /\ ~At("find") /\ ~At("map")
  /\ deviceConnection' \in [Sids -> Clients \cup {NULL}]
  /\ connected' \subseteq Sids /\ dead' \subseteq Sids
  /\ UNCHANGED <<call, kernelVars, trustletSessions, buffers, opened, woken, mcFault, refused>>

LEMMA ClosesKeeps ==
  ASSUME IInv, RestAlone, ClosesNow PROVE IInv'
  <1> USE DEF ClosesNow
  <1>1. TypeOK'
    BY DaemonTypes DEF IInv, TypeOK, kernelVars
  <1>2. Callers' /\ Told'
    BY RepliesKeeps
  <1>3. Serving'
    BY DEF Serving, ForCall, ForClient, At, Pending
  <1>4. Locked'
    BY DEF IInv, Locked, Needed, Known, Using, Taken, Brings, At, Pending,
         kernelVars
  <1>5. Current'
    BY DEF Current, Waits, At, McpIs
  <1>6. Command'
    BY DEF Command, McpIs
  <1>7. Mappings'
    BY DEF IInv, Mappings, RestAlone, At
  <1> QED BY <1>1, <1>2, <1>3, <1>4, <1>5, <1>6, <1>7 DEF IInv

LEMMA BeginCloseKeeps ==
  ASSUME IInv, NEW s \in Sids, NEW c \in Clients, NEW drop \in BOOLEAN,
         BeginClose(s, c, drop), UNCHANGED call, c \in opened,
         ~drop => Pending(c) /\ call[c].op = "close" /\ call[c].sid = s,
         ~At("open") /\ ~At("find") /\ ~At("map")
  PROVE  IInv'
  <1>1. /\ s \in SidOrNone /\ 0 \in Nums /\ c \in ClientOrNone
    BY ConstantsAssumption DEF SidOrNone, Nums, ClientOrNone
  <1>2. mcp' \in McpBuffer /\ McpIs("close", s, 0, "none")
    BY <1>1, SendTo DEF BeginClose
  <1>3. job' \in Working /\ JobIs("close", c, s, 0, drop)
    BY <1>1, JobTo DEF BeginClose, Ats
  <1>4. /\ deviceConnection' \in [Sids -> Clients \cup {NULL}]
        /\ connected' \subseteq Sids /\ dead' \subseteq Sids
    BY DEF BeginClose, IInv, TypeOK
  <1>5. /\ RestAlone
        /\ UNCHANGED <<kernelVars, trustletSessions, buffers, opened, woken, mcFault, refused>>
    BY DEF BeginClose, RestAlone, kernelVars
  <1>6. ClosesNow
    BY <1>2, <1>3, <1>4, <1>5 DEF ClosesNow, JobIs
  <1> QED BY <1>5, <1>6, ClosesKeeps

LEMMA ServeCloseStep ==
  ASSUME IInv, NEW c \in Clients, ServeClose(c) PROVE IInv'
  <1>1. At("idle") /\ c \in opened /\ Pending(c) /\ call[c].op = "close"
        /\ call[c].sid \in Sids
    BY DEF ServeClose, Serves, At, IInv, Callers, Caller
  <1>2. CASE BeginClose(call[c].sid, c, FALSE) /\ UNCHANGED call
    BY <1>1, <1>2, BeginCloseKeeps DEF At
  <1>3. CASE /\ Answer(c, call[c].sid, "error")
             /\ UNCHANGED <<alive, sessionList, bulkBufferDescriptors, kernelVars,
                            daemonVars, swdVars>>
    BY <1>1, <1>3, RefusesStep DEF RestAlone, kernelVars, swdVars
  <1> QED BY <1>2, <1>3 DEF ServeClose

LEMMA DropNextStep ==
  ASSUME IInv, DropNext PROVE IInv'
  <1>1. PICK s \in Sids : BeginClose(s, job.client, TRUE)
    BY DEF DropNext, Owned, IInv, TypeOK
  <1>2. At("drop") /\ UNCHANGED call
    BY DEF DropNext
  <1>3. job.client \in opened /\ job.client \in Clients
    BY <1>2 DEF IInv, TypeOK, Serving, ForClient
  <1> QED BY <1>1, <1>2, <1>3, BeginCloseKeeps DEF At

LEMMA CloseAgainStep ==
  ASSUME IInv, CloseAgain PROVE IInv'
  <1>1. /\ At("close") /\ Send("close", job.sid, 0) /\ Goes("closeAgain")
        /\ UNCHANGED <<call, kernelVars, trustletSessions, deviceConnection, connected,
                 dead, buffers, opened, woken, mcFault, refused>>
        /\ RestAlone
    BY DEF CloseAgain, RestAlone, clientVars, kernelVars
  <1>2. job.sid \in Sids /\ job.sid \in SidOrNone /\ 0 \in Nums /\ job.client \in opened
        /\ job.handle \in Nums
    BY <1>1, FieldTypes, ConstantsAssumption DEF IInv, Serving, ForClient,
         SidOrNone, Nums, Fields
  <1>3. mcp' \in McpBuffer /\ McpIs("close", job.sid, 0, "none")
    BY <1>1, <1>2, SendTo
  <1>4. job' \in Working /\ JobAt("closeAgain")
    BY <1>1, GoesTo DEF IInv, Ats
  <1>5. ~job.drop => /\ Pending(job.client) /\ call[job.client].op = "close"
                     /\ call[job.client].sid = job.sid
    BY <1>1 DEF IInv, Serving, ForCall
  <1>6. ClosesNow
    BY <1>1, <1>2, <1>3, <1>4, <1>5 DEF ClosesNow, JobAt, JobIs, IInv, TypeOK,
         At
  <1> QED BY <1>1, <1>6, ClosesKeeps

LEMMA ExitClosesStep ==
  ASSUME IInv, ExitCloses PROVE IInv'
  <1>1. PICK s \in Sids :
          /\ Send("close", s, 0)
          /\ job' = [NoJob EXCEPT !.at = "exitClose", !.sid = s]
    BY DEF ExitCloses, IInv, TypeOK
  <1>2. /\ At("scan") /\ RestAlone
        /\ UNCHANGED <<call, kernelVars, trustletSessions, deviceConnection, connected,
                 dead, buffers, opened, woken, mcFault, refused>>
    BY DEF ExitCloses, RestAlone, clientVars, kernelVars
  <1>3. s \in SidOrNone /\ 0 \in Nums /\ NULL \in ClientOrNone
    BY ConstantsAssumption DEF SidOrNone, Nums, ClientOrNone
  <1>4. mcp' \in McpBuffer /\ McpIs("close", s, 0, "none")
    BY <1>1, <1>3, SendTo
  <1>5. job' \in Working /\ JobIs("exitClose", NULL, s, 0, FALSE)
    <2>1. job' = [at |-> "exitClose", client |-> NULL, sid |-> s, handle |-> 0, drop |-> FALSE]
      BY <1>1 DEF NoJob
    <2> QED BY <1>3, <2>1, JobTo DEF Ats
  <1>6. ClosesNow
    BY <1>2, <1>4, <1>5 DEF ClosesNow, JobIs, IInv, TypeOK, At
  <1> QED BY <1>2, <1>6, ClosesKeeps

-----------------------------------------------------------------------------
(* Steps that lock or unlock.                                              *)

LEMMA LockTo ==
  ASSUME IInv, NEW h \in Handles, locks[h] = 0, Lock(h)
  PROVE  /\ locks' \in [Handles -> 0..1]
         /\ locks'[h] = 1 /\ \A n \in Handles \ {h} : locks'[n] = locks[n]
         /\ UNCHANGED <<issued, owner, tables>>
  BY DEF Lock, IInv, TypeOK

LEMMA UnlockTo ==
  ASSUME IInv, NEW H, \A h \in H \cap Handles : locks[h] = 1, Unlock(H)
  PROVE  /\ locks' \in [Handles -> 0..1] /\ tables' \subseteq Handles
         /\ \A h \in Handles : locks'[h] = IF h \in H THEN 0 ELSE locks[h]
         /\ \A h \in tables : h \notin H => h \in tables'
         /\ UNCHANGED <<issued, owner>>
  BY DEF Unlock, IInv, TypeOK, Locked

\* The buffer of a call that is not served yet is not locked.
LEMMA NotLocked ==
  ASSUME IInv, NEW c \in Clients, Brings(c), Pending(c), ~Taken(c),
         call[c].handle \in Handles
  PROVE  /\ locks[call[c].handle] = 0 /\ ~Needed(call[c].handle)
         /\ \A e \in Clients \ {c} : call[e].handle # call[c].handle
  BY DEF IInv, Locked, Callers, Caller, TypeOK

LEMMA ServeMapStep ==
  ASSUME IInv, NEW c \in Clients, ServeMap(c) PROVE IInv'
  <1> DEFINE h == call[c].handle
  <1>0. Fields
    BY FieldTypes DEF IInv
  <1>1. /\ At("idle") /\ c \in opened /\ Pending(c) /\ call[c].op = "map"
        /\ h \in Handles /\ call[c].sid \in Sids /\ Brings(c)
        /\ h \in Nums /\ call[c].sid \in SidOrNone /\ c \in ClientOrNone
    BY <1>0 DEF ServeMap, Serves, At, IInv, Callers, Caller, Brings, Fields,
         SidOrNone, ClientOrNone, Handles
  <1>2. CASE /\ h \in tables /\ Lock(h) /\ UNCHANGED call
             /\ job' = [NoJob EXCEPT !.at = "find", !.client = c,
                                     !.sid = call[c].sid, !.handle = h]
    <2>1. /\ locks[h] = 0 /\ ~Needed(h) /\ \A e \in Clients \ {c} : call[e].handle # h
      BY <1>1, NotLocked DEF Taken, At
    <2>2. job' \in Working /\ JobIs("find", c, call[c].sid, h, FALSE)
      <3>1. PICK s \in SidOrNone, n \in Nums : s = call[c].sid /\ n = h
        BY <1>1
      <3>2. job' = [at |-> "find", client |-> c, sid |-> s, handle |-> n, drop |-> FALSE]
        BY <1>2, <3>1 DEF NoJob
      <3>3. job' \in Working /\ JobIs("find", c, s, n, FALSE)
        BY <1>1, <3>2, JobTo DEF Ats
      <3> QED BY <3>1, <3>3
    <2>3. /\ locks' \in [Handles -> 0..1]
          /\ locks'[h] = 1 /\ \A n \in Handles \ {h} : locks'[n] = locks[n]
          /\ UNCHANGED <<issued, owner, tables>>
      BY <1>1, <1>2, <2>1, LockTo
    <2>4. /\ RestAlone
          /\ UNCHANGED <<trustletSessions, deviceConnection, connected, dead, buffers,
                         opened, woken, mcFault, refused, mcp>>
      BY <2>3 DEF ServeMap, RestAlone, swdVars
    <2>5. TypeOK'
      BY <1>2, <2>2, <2>3, <2>4, DaemonTypes DEF IInv, TypeOK
    <2>6. Callers' /\ Told'
      BY <1>2, <2>4, RepliesKeeps
    <2>7. Serving'
      BY <1>1, <1>2, <2>2, <2>4 DEF Serving, ForCall, ForClient, At, Pending,
           JobIs
    <2>8. Locked'
      <3>1. \A n \in Handles : Using(n)' <=> n = h
        BY <2>2 DEF Using, At, JobIs
      <3>2. \A n \in Handles : (Known(n)' <=> Known(n)) /\ ~Using(n)
        BY <1>1, <2>4 DEF Known, Using, At
      <3>3. \A e \in Clients : Taken(e)' <=> e = c
        BY <2>2 DEF Taken, At, JobIs
      <3>4. \A e \in Clients : ~Taken(e)
        BY <1>1 DEF Taken, At
      <3>5. \A n \in Handles : locks[n] = 1 => n \in tables /\ n <= issued
        BY DEF IInv, Locked
      <3>6. h <= issued
        BY DEF IInv, Callers, Caller
      <3>7. \A n \in Handles : Needed(n)' <=> Needed(n) \/ n = h
        BY <2>4, <3>1, <3>2 DEF Needed
      <3>8. ASSUME NEW n \in Handles
            PROVE  /\ locks'[n] = IF Needed(n)' THEN 1 ELSE 0
                   /\ locks'[n] = 1 => n \in tables' /\ n <= issued'
        BY <1>2, <2>1, <2>3, <3>5, <3>6, <3>7 DEF IInv, Locked
      <3>9. ASSUME NEW n \in Handles
            PROVE  /\ ~(Known(n)' /\ Using(n)') /\ ~(Known(n)' /\ n \in refused')
                   /\ ~(Using(n)' /\ n \in refused')
                   /\ \A r, q \in Sids : n \in buffers'[r] /\ n \in buffers'[q] => r = q
        BY <2>1, <2>4, <3>1, <3>2 DEF IInv, Locked, Needed
      <3>10. ASSUME NEW e \in Clients, Brings(e)', Pending(e)', ~Taken(e)'
             PROVE  locks'[call'[e].handle] = 0
        BY <1>2, <2>1, <2>3, <3>3, <3>4, <3>10, NotLocked, FieldTypes
           DEF IInv, Locked, Brings, Pending, Fields, Nums, Handles
      <3> QED BY <3>8, <3>9, <3>10 DEF Locked
    <2>9. Current'
      BY <1>1, <2>2, <2>4 DEF IInv, Current, Waits, At, JobIs
    <2>10. Command'
      BY <1>2, <2>4 DEF IInv, Command, RestAlone
    <2>11. Mappings'
      BY <1>1, <2>2, <2>4 DEF IInv, Mappings, RestAlone, At, JobIs
    <2> QED BY <2>5, <2>6, <2>7, <2>8, <2>9, <2>10, <2>11 DEF IInv
  <1>3. CASE Answer(c, call[c].sid, "error") /\ UNCHANGED <<job, kernelVars>>
    <2>1. RestAlone /\ UNCHANGED <<kernelVars, daemonVars, mcp>>
      BY <1>3 DEF ServeMap, RestAlone, kernelVars, daemonVars, swdVars
    <2> QED BY <1>1, <1>3, <2>1, RefusesStep
  <1> QED BY <1>2, <1>3 DEF ServeMap

LEMMA ServeUnmapStep ==
  ASSUME IInv, NEW c \in Clients, ServeUnmap(c) PROVE IInv'
  <1> DEFINE h == call[c].handle
             s == call[c].sid
  <1>0. Fields
    BY FieldTypes DEF IInv
  <1>1. /\ At("idle") /\ c \in opened /\ Pending(c) /\ call[c].op = "unmap"
        /\ h \in Handles /\ s \in Sids
        /\ h \in Nums /\ s \in SidOrNone /\ c \in ClientOrNone
        /\ RestAlone
        /\ UNCHANGED <<kernelVars, trustletSessions, deviceConnection, connected, dead,
                       buffers, opened, woken, mcFault, refused>>
    BY <1>0 DEF ServeUnmap, Serves, At, IInv, Callers, Caller, Fields,
         SidOrNone, ClientOrNone, RestAlone, kernelVars
  <1>2. CASE /\ h \in buffers[s] /\ Send("unmap", s, h) /\ UNCHANGED call
             /\ job' = [NoJob EXCEPT !.at = "unmap", !.client = c, !.sid = s,
                                     !.handle = h]
    <2>1. PICK r \in SidOrNone, n \in Nums : r = s /\ n = h
      BY <1>1
    <2>2. job' \in Working /\ JobIs("unmap", c, s, h, FALSE)
      <3>1. job' = [at |-> "unmap", client |-> c, sid |-> r, handle |-> n, drop |-> FALSE]
        BY <1>2, <2>1 DEF NoJob
      <3>2. job' \in Working /\ JobIs("unmap", c, r, n, FALSE)
        BY <1>1, <3>1, JobTo DEF Ats
      <3> QED BY <2>1, <3>2
    <2>3. mcp' \in McpBuffer /\ McpIs("unmap", s, h, "none")
      BY <1>1, <1>2, SendTo
    <2>4. TypeOK'
      BY <1>1, <1>2, <2>2, <2>3, DaemonTypes DEF IInv, TypeOK, kernelVars
    <2>5. Callers' /\ Told'
      BY <1>1, <1>2, RepliesKeeps
    <2>6. Serving'
      BY <1>1, <1>2, <2>2 DEF Serving, ForCall, ForClient, At, Pending, JobIs
    <2>7. Locked'
      BY <1>1, <1>2, <2>2 DEF IInv, Locked, Needed, Known, Using, Taken,
           Brings, At, Pending, JobIs, kernelVars
    <2>8. Current'
      BY <2>2, <2>3 DEF Current, Waits, At, JobIs, McpIs
    <2>9. Command'
      BY <1>1, <2>3 DEF Command, McpIs
    <2>10. Mappings'
      BY <1>1, <2>2 DEF IInv, Mappings, RestAlone, At, JobIs
    <2> QED BY <2>4, <2>5, <2>6, <2>7, <2>8, <2>9, <2>10 DEF IInv
  <1>3. CASE Answer(c, s, "error") /\ UNCHANGED <<job, mcp>>
    BY <1>1, <1>3, RefusesStep DEF daemonVars
  <1> QED BY <1>2, <1>3 DEF ServeUnmap

LEMMA OpenLocksStep ==
  ASSUME IInv, OpenLocks PROVE IInv'
  <1> DEFINE h == job.handle
  <1>0. Fields
    BY FieldTypes DEF IInv
  <1>1. /\ At("lock") /\ Lock(h) /\ Send("open", NULL, h) /\ Goes("open")
        /\ UNCHANGED <<call, trustletSessions, deviceConnection, connected, dead, buffers,
                       opened, woken, mcFault, refused>>
    BY DEF OpenLocks, clientVars
  <1>2. PICK c \in Clients : c = job.client
    BY <1>1 DEF IInv, TypeOK, Serving, ForClient, ForCall
  <1>3. /\ c \in opened /\ Pending(c) /\ call[c].op = "open" /\ call[c].handle = h
        /\ h \in tables /\ h \in Handles /\ Brings(c) /\ ~Taken(c)
        /\ h \in Nums /\ NULL \in SidOrNone
    <2>1. /\ c \in opened /\ Pending(c) /\ call[c].op = "open" /\ call[c].handle = h
          /\ h \in tables /\ h \in Handles
      BY <1>1, <1>2 DEF IInv, TypeOK, Serving, ForClient, ForCall
    <2>2. h # 0
      BY <2>1 DEF Handles
    <2>3. h \in Nums /\ NULL \in SidOrNone
      BY <1>0 DEF Fields, SidOrNone
    <2> QED BY <1>1, <2>1, <2>2, <2>3 DEF Brings, Taken, At
  <1>4. /\ locks[h] = 0 /\ ~Needed(h) /\ \A e \in Clients \ {c} : call[e].handle # h
    BY <1>3, NotLocked
  <1>5. /\ locks' \in [Handles -> 0..1]
        /\ locks'[h] = 1 /\ \A n \in Handles \ {h} : locks'[n] = locks[n]
        /\ UNCHANGED <<issued, owner, tables>>
    BY <1>1, <1>3, <1>4, LockTo
  <1>6. mcp' \in McpBuffer /\ McpIs("open", NULL, h, "none")
    BY <1>1, <1>3, SendTo
  <1>7. job' \in Working /\ JobAt("open")
    BY <1>1, GoesTo DEF IInv, Ats
  <1>8. RestAlone
    BY <1>5 DEF OpenLocks, RestAlone, clientVars
  <1>9. TypeOK'
    BY <1>1, <1>5, <1>6, <1>7, <1>8, DaemonTypes DEF IInv, TypeOK
  <1>10. Callers' /\ Told'
    BY <1>1, <1>8, RepliesKeeps
  <1>11. Serving'
    BY <1>1, <1>2, <1>3, <1>7 DEF Serving, ForCall, ForClient, At, Pending,
         JobAt, JobIs
  <1>12. Locked'
    <2>1. \A n \in Handles : Using(n)' <=> n = h
      BY <1>7 DEF Using, At, JobAt, JobIs
    <2>2. \A n \in Handles : (Known(n)' <=> Known(n)) /\ ~Using(n)
      BY <1>1 DEF Known, Using, At
    <2>3. \A e \in Clients : Taken(e)' <=> e = c
      BY <1>2, <1>7 DEF Taken, At, JobAt, JobIs
    <2>4. \A e \in Clients : ~Taken(e)
      BY <1>1 DEF Taken, At
    <2>5. \A n \in Handles : locks[n] = 1 => n \in tables /\ n <= issued
      BY DEF IInv, Locked
    <2>6. h <= issued
      BY <1>2, <1>3 DEF IInv, Callers, Caller
    <2>7. \A n \in Handles : Needed(n)' <=> Needed(n) \/ n = h
      BY <1>1, <2>1, <2>2 DEF Needed
    <2>8. ASSUME NEW n \in Handles
          PROVE  /\ locks'[n] = IF Needed(n)' THEN 1 ELSE 0
                 /\ locks'[n] = 1 => n \in tables' /\ n <= issued'
      BY <1>3, <1>4, <1>5, <2>5, <2>6, <2>7 DEF IInv, Locked
    <2>9. ASSUME NEW n \in Handles
          PROVE  /\ ~(Known(n)' /\ Using(n)') /\ ~(Known(n)' /\ n \in refused')
                 /\ ~(Using(n)' /\ n \in refused')
                 /\ \A r, q \in Sids : n \in buffers'[r] /\ n \in buffers'[q] => r = q
      BY <1>1, <1>4, <2>1, <2>2 DEF IInv, Locked, Needed
    <2>10. ASSUME NEW e \in Clients, Brings(e)', Pending(e)', ~Taken(e)'
           PROVE  locks'[call'[e].handle] = 0
      BY <1>1, <1>4, <1>5, <2>3, <2>4, <2>10, NotLocked, FieldTypes
         DEF IInv, Locked, Brings, Pending, Fields, Nums, Handles
    <2> QED BY <2>8, <2>9, <2>10 DEF Locked
  <1>13. Current'
    BY <1>6, <1>7 DEF Current, Waits, At, JobAt, JobIs, McpIs
  <1>14. Command'
    <2>1. \A s \in Sids : \A d \in bulkBufferDescriptors[s] : d.handle # h
      BY <1>3 DEF IInv, Callers, Caller
    <2> QED BY <1>1, <1>3, <1>4, <1>6, <1>8, <2>1 DEF Command, McpIs, RestAlone
  <1>15. Mappings'
    BY <1>1, <1>7, <1>8 DEF IInv, Mappings, RestAlone, At, JobAt, JobIs
  <1> QED BY <1>9, <1>10, <1>11, <1>12, <1>13, <1>14, <1>15 DEF IInv

LEMMA MapFindsStep ==
  ASSUME IInv, MapFinds PROVE IInv'
  <1> DEFINE h == job.handle
             s == job.sid
  <1>0. Fields
    BY FieldTypes DEF IInv
  <1>1. /\ At("find") /\ Send("map", s, h) /\ Goes("map") /\ s \in trustletSessions
        /\ buffers' = [buffers EXCEPT ![s] = @ \cup {h}]
        /\ RestAlone
        /\ UNCHANGED <<call, kernelVars, trustletSessions, deviceConnection, connected,
                       dead, opened, woken, mcFault, refused>>
    BY DEF MapFinds, FindsSession, clientVars, RestAlone, kernelVars
  <1>2. PICK c \in Clients : c = job.client
    BY <1>1, ServedCall DEF ForCall
  <1>3. /\ c \in opened /\ Pending(c) /\ call[c].op = "map" /\ call[c].handle = h
        /\ call[c].sid = s
    BY <1>1, <1>2, ServedCall DEF ForCall, At
  <1>4. /\ h \in Handles /\ s \in Sids /\ h \in Nums /\ s \in SidOrNone
    BY <1>0, <1>1 DEF IInv, Serving, Fields
  <1>5. Brings(c) /\ Taken(c)
    BY <1>1, <1>2, <1>3, <1>4 DEF Brings, Taken, Handles
  <1>6. mcp' \in McpBuffer /\ McpIs("map", s, h, "none")
    BY <1>1, <1>4, SendTo
  <1>7. job' \in Working /\ JobAt("map")
    BY <1>1, GoesTo DEF IInv, Ats
  <1>8. /\ buffers' \in [Sids -> SUBSET Handles] /\ buffers'[s] = buffers[s] \cup {h}
        /\ \A r \in Sids \ {s} : buffers'[r] = buffers[r]
    BY <1>1, <1>4 DEF IInv, TypeOK
  <1>9. TypeOK'
    BY <1>1, <1>6, <1>7, <1>8, DaemonTypes DEF IInv, TypeOK, kernelVars
  <1>10. Callers' /\ Told'
    BY <1>1, RepliesKeeps
  <1>11. Serving'
    BY <1>1, <1>2, <1>3, <1>4, <1>7, <1>8 DEF Serving, ForCall, ForClient, At,
         Pending, JobAt, JobIs
  <1>12. Locked'
    <2>1. Using(h) /\ ~Known(h) /\ h \notin refused
      BY <1>1, <1>4 DEF IInv, Locked, Using
    <2>2. \A n \in Handles : ~Using(n)' /\ (Using(n) <=> n = h)
      BY <1>1, <1>7 DEF Using, At, JobAt, JobIs
    <2>3. \A n \in Handles : Known(n)' <=> Known(n) \/ n = h
      BY <1>4, <1>8 DEF Known
    <2>4. \A n \in Handles : Needed(n)' <=> Needed(n)
      BY <1>1, <2>1, <2>2, <2>3 DEF Needed
    <2>5. \A e \in Clients : Taken(e)' <=> Taken(e)
      BY <1>1, <1>7 DEF Taken, At, JobAt, JobIs
    <2>6. ASSUME NEW n \in Handles
          PROVE  /\ ~(Known(n)' /\ Using(n)') /\ ~(Known(n)' /\ n \in refused')
                 /\ ~(Using(n)' /\ n \in refused')
                 /\ \A r, q \in Sids : n \in buffers'[r] /\ n \in buffers'[q] => r = q
      BY <1>1, <1>8, <2>1, <2>2, <2>3 DEF IInv, Locked, Known
    <2>7. ASSUME NEW e \in Clients, Brings(e)', Pending(e)', ~Taken(e)'
          PROVE  locks'[call'[e].handle] = 0
      BY <1>1, <2>5, <2>7 DEF IInv, Locked, Brings, Pending, kernelVars
    <2> QED BY <1>1, <2>4, <2>6, <2>7 DEF IInv, Locked, kernelVars
  <1>13. Current'
    BY <1>1, <1>6, <1>7 DEF Current, Waits, At, JobAt, JobIs, McpIs
  <1>14. Command'
    <2>1. \A r \in Sids : \A d \in bulkBufferDescriptors[r] : d.secure => d.handle # h
      BY <1>3, <1>5 DEF IInv, Callers, Caller
    <2>2. \A e \in Clients \ {c} : call[e].handle # h
      BY <1>3, <1>5 DEF IInv, Callers, Caller
    <2> QED BY <1>1, <1>3, <1>4, <1>6, <1>8, <2>1, <2>2 DEF Command, McpIs,
         RestAlone, Pending
  <1>15. Mappings'
    <2>1. swd[s] # "unused"
      BY <1>1, <1>4 DEF IInv, Mappings
    <2>2. \A p \in mapped : p[1] \in Sids
      BY DEF IInv, TypeOK
    <2> QED BY <1>1, <1>7, <1>8, <2>1, <2>2 DEF IInv, Mappings, RestAlone, At,
         JobAt, JobIs
  <1> QED BY <1>9, <1>10, <1>11, <1>12, <1>13, <1>14, <1>15 DEF IInv

\* Nothing is under way, and the MCP buffer is free, or the SWd has failed.
AtRest ==
  /\ job' \in Working /\ job'.at \in {"idle", "drop", "scan"}
  /\ job'.at = "drop" => job'.client \in opened'

LEMMA AtRestKeeps ==
  ASSUME IInv, AtRest, mcp' = NoCommand PROVE Serving' /\ Current' /\ Command'
  <1>1. mcp'.cmd = "none" /\ mcp'.answer = "none"
    BY NoCommandTo DEF McpIs
  <1>2. Serving'
    BY DEF AtRest, Serving, ForCall, ForClient, At
  <1>3. Current'
    BY <1>1 DEF AtRest, Current, Waits, At
  <1>4. Command'
    BY <1>1 DEF Command
  <1> QED BY <1>2, <1>3, <1>4

\* The client of the job is answered, and the job ends.
LEMMA ReturnsTo ==
  ASSUME IInv, ForCall, NEW s \in SidOrNone, NEW reply \in {"ok", "error"},
         Answer(job.client, s, reply), job' = NoJob,
         ~At("lock") /\ ~At("open") => s = job.sid,
         reply = "ok" => /\ At("open") => s \in Sids
                         /\ At("unmap") => <<s, job.handle>> \notin mapped
                         /\ At("open") \/ At("unmap")
  PROVE  /\ call' \in [Clients -> Calling]
         /\ \E c \in Clients : Replies(c) /\ ~Pending(c)'
         /\ \A e \in Clients : Pending(e)' => Pends(e) /\ e # job.client
         /\ job' \in Working /\ JobIdle /\ AtRest
  <1>1. PICK c \in Clients : c = job.client
    BY ServedCall
  <1>2. /\ call' \in [Clients -> Calling] /\ Replies(c) /\ ~Pending(c)'
        /\ \A e \in Clients : Pending(e)' => Pends(e) /\ e # c
    <2>1. Answer(c, s, reply)
      BY <1>1
    <2>2. call[c].op \in {"connect", "map", "unmap", "close"} => s = call[c].sid
      BY <1>1, ServedCall DEF At
    <2>3. reply = "ok" =>
            /\ call[c].op = "open" => s \in Sids
            /\ call[c].op = "unmap" => <<s, call[c].handle>> \notin mapped
            /\ call[c].op = "close" /\ s \notin GpSids => swd[s] = "closed"
            /\ call[c].op = "map" => mcp'.cmd \notin {"open", "map"}
      BY <1>1, ServedCall DEF At
    <2> QED BY <2>1, <2>2, <2>3, RepliesBy
  <1>3. job' \in Working /\ JobIdle
    BY NoJobTo
  <1> QED BY <1>1, <1>2, <1>3 DEF AtRest, JobIdle, JobIs

LEMMA MapFindsNothingStep ==
  ASSUME IInv, MapFindsNothing PROVE IInv'
  <1> DEFINE h == job.handle
  <1>1. /\ At("find") /\ ForCall /\ Returns("error")
        /\ refused' = refused \cup {h} /\ RestAlone
        /\ UNCHANGED <<kernelVars, trustletSessions, deviceConnection, connected, dead,
                       buffers, opened, woken, mcFault, mcp>>
    BY DEF MapFindsNothing, RestAlone, kernelVars, swdVars, ForCall
  <1>2. h \in Handles
    BY <1>1 DEF IInv, Serving
  <1>3. /\ call' \in [Clients -> Calling]
        /\ \E c \in Clients : Replies(c) /\ ~Pending(c)'
        /\ \A e \in Clients : Pending(e)' => Pends(e) /\ e # job.client
        /\ job' \in Working /\ JobIdle /\ AtRest
    <2>1. call[job.client].sid = job.sid /\ call[job.client].sid \in SidOrNone
      BY <1>1, ServedCall DEF At
    <2> QED BY <1>1, <2>1, ReturnsTo DEF Returns
  <1>4. TypeOK'
    BY <1>1, <1>2, <1>3, DaemonTypes DEF IInv, TypeOK, kernelVars
  <1>5. Callers' /\ Told'
    BY <1>1, <1>3, RepliesKeeps
  <1>6. Serving'
    BY <1>3 DEF AtRest, Serving, ForCall, ForClient, At
  <1>7. Locked'
    <2>1. Using(h) /\ ~Known(h)
      BY <1>1, <1>2 DEF IInv, Locked, Using
    <2>2. \A n \in Handles : ~Using(n)' /\ (Using(n) <=> n = h) /\ (Known(n)' <=> Known(n))
      BY <1>1, <1>3 DEF Using, At, JobIdle, JobIs, Known
    <2>3. \A n \in Handles : Needed(n)' <=> Needed(n)
      BY <1>1, <2>2 DEF Needed
    <2>4. ASSUME NEW e \in Clients, Brings(e)', Pending(e)', ~Taken(e)'
          PROVE  locks'[call'[e].handle] = 0
      BY <1>1, <1>3, <2>4 DEF IInv, Locked, Brings, Pends, Taken, kernelVars
    <2> QED BY <1>1, <2>1, <2>2, <2>3, <2>4 DEF IInv, Locked, kernelVars
  <1>8. Current'
    BY <1>1, <1>3 DEF IInv, Current, AtRest, Waits, At
  <1>9. Command'
    <2>1. PICK c \in Clients : Replies(c)
      BY <1>3
    <2>2. \A e \in Clients \ {c} : call'[e] = call[e]
      BY <2>1 DEF Replies, AnswerIs, CallIs, SameCalls
    <2>3. /\ call'[c].op = "unmap" \/ (call'[c].op = "map" /\ call'[c].reply = "ok")
          /\ mcp.cmd \in {"open", "map"}
          => call'[c].handle # mcp.handle
      BY <1>1, <2>1 DEF IInv, Command, Replies, AnswerIs, CallIs
    <2> QED BY <1>1, <2>2, <2>3 DEF IInv, Command, RestAlone
  <1>10. Mappings'
    BY <1>1, <1>3 DEF IInv, Mappings, RestAlone, At
  <1> QED BY <1>4, <1>5, <1>6, <1>7, <1>8, <1>9, <1>10 DEF IInv

LEMMA OpenSucceedsStep ==
  ASSUME IInv, OpenSucceeds PROVE IInv'
  <1> DEFINE h == job.handle
             s == mcp.sid
  <1>1. /\ At("open") /\ ForCall /\ Answered("ok")
        /\ trustletSessions' = trustletSessions \cup {s}
        /\ deviceConnection' = [deviceConnection EXCEPT ![s] = job.client]
        /\ buffers' = [buffers EXCEPT ![s] = {h} \ {0}]
        /\ Answer(job.client, s, "ok") /\ job' = NoJob
        /\ UNCHANGED <<alive, sessionList, bulkBufferDescriptors, kernelVars,
                       connected, dead, opened, woken, refused>>
    BY DEF OpenSucceeds, ForCall
  <1>2. /\ mcp.cmd = "open" /\ mcp.answer = "ok" /\ mcp.handle = h /\ mcp' = NoCommand
        /\ ~mcFault /\ UNCHANGED <<mcFault, swd, exiting, mapped>>
    BY <1>1 DEF Answered, IInv, Current, Waits
  <1>3. /\ s \in Sids /\ s \notin trustletSessions /\ buffers[s] = {}
        /\ swd[s] # "unused" /\ \A p \in mapped : p[1] = s => p[2] = h
        /\ s \in SidOrNone
    BY <1>2 DEF IInv, Command, SidOrNone
  <1>4. RestAlone
    BY <1>1, <1>2 DEF RestAlone, kernelVars
  <1>5. /\ call' \in [Clients -> Calling]
        /\ \E c \in Clients : Replies(c) /\ ~Pending(c)'
        /\ \A e \in Clients : Pending(e)' => Pends(e) /\ e # job.client
        /\ job' \in Working /\ JobIdle /\ AtRest
    BY <1>1, <1>3, ReturnsTo DEF At
  <1>6. h \in Nums /\ (h # 0 => h \in Handles)
    BY FieldTypes DEF IInv, Fields, Nums, Handles
  <1>7. /\ buffers' \in [Sids -> SUBSET Handles] /\ buffers'[s] = {h} \ {0}
        /\ \A r \in Sids \ {s} : buffers'[r] = buffers[r]
    BY <1>1, <1>3, <1>6 DEF IInv, TypeOK
  <1>8. /\ deviceConnection' \in [Sids -> Clients \cup {NULL}]
        /\ mcp' \in McpBuffer
    BY <1>1, <1>2, <1>3, NoCommandTo, ServedCall DEF IInv, TypeOK
  <1>9. TypeOK'
    BY <1>1, <1>2, <1>3, <1>4, <1>5, <1>7, <1>8, DaemonTypes DEF IInv, TypeOK,
         kernelVars
  <1>10. Callers' /\ Told'
    BY <1>4, <1>5, RepliesKeeps
  <1>11. Serving' /\ Current' /\ Command'
    BY <1>2, <1>5, AtRestKeeps
  <1>12. Locked'
    <2>1. h # 0 => Using(h) /\ ~Known(h) /\ h \notin refused
      BY <1>1, <1>6 DEF IInv, Locked, Using
    <2>2. \A n \in Handles : n # 0
      BY DEF Handles
    <2>3. \A n \in Handles : ~Using(n)' /\ (Using(n) <=> n = h)
      BY <1>1, <1>5 DEF Using, At, JobIdle, JobIs
    <2>4. \A n \in Handles : Known(n)' <=> Known(n) \/ n = h
      BY <1>3, <1>7, <2>2 DEF Known
    <2>5. \A n \in Handles : Needed(n)' <=> Needed(n)
      BY <1>1, <2>3, <2>4 DEF Needed
    <2>6. ASSUME NEW e \in Clients, Brings(e)', Pending(e)', ~Taken(e)'
          PROVE  locks'[call'[e].handle] = 0
      BY <1>1, <1>5, <2>6 DEF IInv, Locked, Brings, Pends, Taken, kernelVars
    <2>7. ASSUME NEW n \in Handles
          PROVE  /\ ~(Known(n)' /\ Using(n)') /\ ~(Known(n)' /\ n \in refused')
                 /\ ~(Using(n)' /\ n \in refused')
                 /\ \A r, q \in Sids : n \in buffers'[r] /\ n \in buffers'[q] => r = q
      BY <1>1, <1>7, <2>1, <2>2, <2>3, <2>4 DEF IInv, Locked, Known
    <2> QED BY <1>1, <2>5, <2>6, <2>7 DEF IInv, Locked, kernelVars
  <1>13. Mappings'
    <2>1. \A p \in mapped : p[1] \in Sids /\ p[2] \in Handles /\ p[2] # 0
      BY DEF IInv, TypeOK, Handles
    <2> QED BY <1>1, <1>2, <1>3, <1>4, <1>7, <2>1 DEF IInv, Mappings,
         RestAlone, At
  <1> QED BY <1>9, <1>10, <1>11, <1>12, <1>13 DEF IInv

\* What is unlocked is not needed any more.
LEMMA UnlockKeeps ==
  ASSUME IInv, NEW H, Unlock(H), \A h \in H \cap Handles : locks[h] = 1,
         \A n \in Handles :
           /\ Needed(n)' <=> Needed(n) /\ n \notin H
           /\ ~(Known(n)' /\ Using(n)') /\ ~(Known(n)' /\ n \in refused')
           /\ ~(Using(n)' /\ n \in refused'),
         \A s \in Sids : buffers'[s] \subseteq buffers[s],
         \A e \in Clients : Pending(e)' => Pends(e) /\ ~Taken(e)
  PROVE  Locked'
  <1>1. /\ \A h \in Handles : locks'[h] = IF h \in H THEN 0 ELSE locks[h]
        /\ \A h \in tables : h \notin H => h \in tables'
        /\ UNCHANGED issued
    BY UnlockTo
  <1>2. ASSUME NEW e \in Clients, Brings(e)', Pending(e)', ~Taken(e)'
        PROVE  locks'[call'[e].handle] = 0
    <2>1. call'[e] = call[e] /\ Brings(e) /\ Pending(e) /\ ~Taken(e)
      BY <1>2 DEF Pends, Brings
    <2>2. locks[call[e].handle] = 0
      BY <2>1 DEF IInv, Locked
    <2>3. call[e].handle \in Handles
      BY <2>1, FieldTypes DEF IInv, Fields, Brings, Nums, Handles
    <2> QED BY <1>1, <2>1, <2>2, <2>3
  <1>3. ASSUME NEW n \in Handles
        PROVE  /\ locks'[n] = IF Needed(n)' THEN 1 ELSE 0
               /\ locks'[n] = 1 => n \in tables' /\ n <= issued'
               /\ \A s, r \in Sids : n \in buffers'[s] /\ n \in buffers'[r] => s = r
    BY <1>1 DEF IInv, Locked
  <1> QED BY <1>2, <1>3 DEF Locked

LEMMA OpenFailsStep ==
  ASSUME IInv, OpenFails PROVE IInv'
  <1> DEFINE h == job.handle
  <1>1. /\ At("open") /\ ForCall
        /\ Answered("error") \/ WaitFails
        /\ Unlock({h}) /\ Returns("error")
        /\ UNCHANGED <<alive, sessionList, bulkBufferDescriptors, trustletSessions,
                 deviceConnection, connected, dead, buffers, opened, woken, refused>>
    BY DEF OpenFails, ForCall
  <1>2. /\ mcp' \in McpBuffer /\ mcFault' \in BOOLEAN /\ (mcFault => mcFault')
        /\ mcp' = NoCommand \/ (mcp' = mcp /\ mcFault')
        /\ UNCHANGED <<swd, exiting, mapped>>
    BY <1>1, ResultOf
  <1>3. /\ call' \in [Clients -> Calling]
        /\ \E c \in Clients : Replies(c) /\ ~Pending(c)'
        /\ \A e \in Clients : Pending(e)' => Pends(e) /\ e # job.client
        /\ job' \in Working /\ JobIdle /\ AtRest
    <2>1. call[job.client].sid \in SidOrNone
      BY <1>1, ServedCall
    <2> QED BY <1>1, <2>1, ReturnsTo DEF Returns, At
  <1>4. \A n \in Handles : (Using(n) <=> n = h) /\ ~Using(n)' /\ (Known(n)' <=> Known(n))
    BY <1>1, <1>3 DEF Using, At, JobIdle, JobIs, Known
  <1>5. \A n \in {h} \cap Handles : locks[n] = 1
    BY <1>4 DEF IInv, Locked, Needed
  <1>6. locks' \in [Handles -> 0..1] /\ tables' \subseteq Handles /\ UNCHANGED <<issued,
                                                                                 owner>>
    BY <1>1, <1>5, UnlockTo
  <1>7. RestAlone
    BY <1>1, <1>2, <1>6 DEF RestAlone
  <1>8. TypeOK'
    BY <1>1, <1>2, <1>3, <1>6, <1>7, DaemonTypes DEF IInv, TypeOK
  <1>9. Callers' /\ Told'
    BY <1>3, <1>7, RepliesKeeps
  <1>10. Locked'
    <2>1. \A n \in Handles :
            /\ Needed(n)' <=> Needed(n) /\ n \notin {h}
            /\ ~(Known(n)' /\ Using(n)') /\ ~(Known(n)' /\ n \in refused')
            /\ ~(Using(n)' /\ n \in refused')
      BY <1>1, <1>4 DEF IInv, Locked, Needed
    <2>2. \A e \in Clients : Pending(e)' => Pends(e) /\ ~Taken(e)
      BY <1>3 DEF Taken
    <2> QED BY <1>1, <1>5, <2>1, <2>2, UnlockKeeps
  <1>11. Serving' /\ Current'
    <2>1. mcp' = NoCommand => mcp'.cmd = "none"
      BY NoCommandTo DEF McpIs
    <2> QED BY <1>2, <1>3, <2>1 DEF AtRest, Serving, ForCall, ForClient, At,
         Current, Waits
  <1>12. Command'
    <2>1. CASE mcp' = NoCommand
      BY <1>3, <2>1, AtRestKeeps
    <2>2. CASE mcp' = mcp
      <3>1. PICK c \in Clients : Replies(c)
        BY <1>3
      <3>2. \A e \in Clients \ {c} : call'[e] = call[e]
        BY <3>1 DEF Replies, AnswerIs, CallIs, SameCalls
      <3>3. /\ call'[c].op = "unmap" \/ (call'[c].op = "map" /\ call'[c].reply = "ok")
            /\ mcp.cmd \in {"open", "map"}
            => call'[c].handle # mcp.handle
        BY <2>2, <3>1 DEF IInv, Command, Replies, AnswerIs, CallIs
      <3> QED BY <1>1, <1>7, <2>2, <3>2, <3>3 DEF IInv, Command, RestAlone
    <2> QED BY <1>2, <2>1, <2>2
  <1>13. Mappings'
    <2>1. ~mcFault' => ~mcFault /\ mcp.answer # "ok"
      BY <1>1, <1>2 DEF Answered, WaitFails
    <2> QED BY <1>1, <1>7, <2>1 DEF IInv, Mappings, RestAlone
  <1> QED BY <1>8, <1>9, <1>10, <1>11, <1>12, <1>13 DEF IInv

LEMMA UnmapEndsStep ==
  ASSUME IInv, UnmapEnds PROVE IInv'
  <1> DEFINE h == job.handle
             s == job.sid
  <1>1. /\ At("unmap") /\ ForCall
        /\ UNCHANGED <<alive, sessionList, bulkBufferDescriptors, trustletSessions,
                 deviceConnection, connected, dead, opened, woken, refused>>
    BY DEF UnmapEnds, ForCall
  <1>2. /\ job.client \in Clients /\ call[job.client].sid = s
        /\ call[job.client].sid \in SidOrNone /\ s \in SidOrNone
    BY <1>1, ServedCall DEF At
  <1>3. /\ s \in Sids /\ h \in buffers[s] /\ h \in Handles
    BY <1>1 DEF IInv, TypeOK, Serving
  <1>4. CASE /\ Answered("ok") /\ Unlock({h}) /\ Returns("ok")
             /\ buffers' = [buffers EXCEPT ![s] = @ \ {h}]
    <2>1. /\ mcp.cmd = "unmap" /\ mcp.answer = "ok" /\ mcp.handle = h /\ mcp.sid = s
          /\ mcp' = NoCommand /\ ~mcFault /\ UNCHANGED <<mcFault, swd, exiting, mapped>>
      BY <1>1, <1>4 DEF Answered, IInv, Current, Waits, At
    <2>2. <<s, h>> \notin mapped
      BY <2>1 DEF IInv, Command
    <2>3. /\ call' \in [Clients -> Calling]
          /\ \E c \in Clients : Replies(c) /\ ~Pending(c)'
          /\ \A e \in Clients : Pending(e)' => Pends(e) /\ e # job.client
          /\ job' \in Working /\ JobIdle /\ AtRest
      BY <1>1, <1>2, <1>4, <2>2, ReturnsTo DEF Returns, At
    <2>4. /\ buffers' \in [Sids -> SUBSET Handles] /\ buffers'[s] = buffers[s] \ {h}
          /\ \A r \in Sids \ {s} : buffers'[r] = buffers[r]
      BY <1>3, <1>4 DEF IInv, TypeOK
    <2>5. \A n \in {h} \cap Handles : locks[n] = 1
      BY <1>3 DEF IInv, Locked, Needed, Known
    <2>6. locks' \in [Handles -> 0..1] /\ tables' \subseteq Handles /\ UNCHANGED <<issued,
                                                                                   owner>>
      BY <1>4, <2>5, UnlockTo
    <2>7. RestAlone
      BY <1>1, <2>1, <2>6 DEF RestAlone
    <2>8. mcp' \in McpBuffer
      BY <2>1, NoCommandTo
    <2>9. TypeOK'
      BY <1>1, <2>1, <2>3, <2>4, <2>6, <2>7, <2>8, DaemonTypes DEF IInv, TypeOK
    <2>10. Callers' /\ Told'
      BY <2>3, <2>7, RepliesKeeps
    <2>11. Serving' /\ Current' /\ Command'
      BY <2>1, <2>3, AtRestKeeps
    <2>12. Locked'
      <3>1. \A n \in Handles : Known(n)' <=> Known(n) /\ n # h
        BY <1>3, <2>4 DEF IInv, Locked, Known
      <3>2. \A n \in Handles : ~Using(n) /\ ~Using(n)'
        BY <1>1, <2>3 DEF Using, At, JobIdle, JobIs
      <3>3. h \notin refused
        BY <1>3 DEF IInv, Locked, Known
      <3>4. \A n \in Handles :
              /\ Needed(n)' <=> Needed(n) /\ n \notin {h}
              /\ ~(Known(n)' /\ Using(n)') /\ ~(Known(n)' /\ n \in refused')
              /\ ~(Using(n)' /\ n \in refused')
        BY <1>1, <3>1, <3>2, <3>3 DEF IInv, Locked, Needed
      <3>5. \A e \in Clients : Pending(e)' => Pends(e) /\ ~Taken(e)
        BY <2>3 DEF Taken
      <3>6. \A r \in Sids : buffers'[r] \subseteq buffers[r]
        BY <2>4
      <3> QED BY <1>4, <2>5, <3>4, <3>5, <3>6, UnlockKeeps
    <2>13. Mappings'
      <3>1. \A p \in mapped : p[1] \in Sids /\ p = <<p[1], p[2]>>
        BY DEF IInv, TypeOK
      <3> QED BY <1>1, <2>1, <2>2, <2>4, <3>1 DEF IInv, Mappings, At
    <2> QED BY <2>9, <2>10, <2>11, <2>12, <2>13 DEF IInv
  <1>5. CASE /\ Answered("error") \/ WaitFails
             /\ Returns("error")
             /\ UNCHANGED <<buffers, kernelVars>>
    <2>1. /\ mcp' \in McpBuffer /\ mcFault' \in BOOLEAN /\ (mcFault => mcFault')
          /\ mcp' = NoCommand \/ (mcp' = mcp /\ mcFault')
          /\ UNCHANGED <<swd, exiting, mapped>>
      BY <1>5, ResultOf
    <2>2. /\ call' \in [Clients -> Calling]
          /\ \E c \in Clients : Replies(c) /\ ~Pending(c)'
          /\ job' \in Working /\ JobIdle
      BY <1>1, <1>2, <1>5, ReturnsTo DEF Returns, At
    <2>3. RestAlone
      BY <1>1, <1>5, <2>1 DEF RestAlone, kernelVars
    <2>4. Rested
      BY <1>1, <1>5, <2>1, <2>2 DEF Rested, JobIdle, JobIs, At
    <2>5. TypeOK'
      BY <1>1, <1>5, <2>1, <2>2, <2>3, DaemonTypes DEF IInv, TypeOK, kernelVars
    <2> QED BY <2>2, <2>3, <2>4, <2>5, RestedKeeps DEF IInv
  <1> QED BY <1>4, <1>5 DEF UnmapEnds

LEMMA CloseSucceedsStep ==
  ASSUME IInv, CloseSucceeds PROVE IInv'
  <1> DEFINE s == job.sid
             H == buffers[s]
  <1>1. /\ At("close") \/ At("closeAgain")
        /\ Answered("ok") /\ Unlock(H) /\ EndClose("ok")
        /\ trustletSessions' = trustletSessions \ {s}
        /\ buffers' = [buffers EXCEPT ![s] = {}]
        /\ connected' = connected \ {s}
        /\ UNCHANGED <<alive, sessionList, bulkBufferDescriptors, deviceConnection, dead,
                 opened, woken, refused>>
    BY DEF CloseSucceeds, FreeSession
  <1>2. s \in Sids
    BY <1>1 DEF IInv, Serving
  <1>3. /\ mcp.cmd = "close" /\ mcp.answer = "ok" /\ mcp.sid = s
        /\ mcp' = NoCommand /\ ~mcFault /\ UNCHANGED <<mcFault, swd, exiting, mapped>>
    BY <1>1 DEF Answered, IInv, Current, Waits, At
  <1>4. swd[s] = "closed"
    BY <1>3 DEF IInv, Command
  <1>5. /\ call' \in [Clients -> Calling] /\ job' \in Working
        /\ job'.at \in {"idle", "drop"}
        /\ job'.at = "drop" => job'.client \in opened
        /\ \/ call' = call
           \/ \E c \in Clients : Replies(c) /\ ~Pending(c)'
    BY <1>1, <1>4, EndCloseTo
  <1>6. \A n \in H \cap Handles : locks[n] = 1
    BY <1>2 DEF IInv, Locked, Needed, Known
  <1>7. locks' \in [Handles -> 0..1] /\ tables' \subseteq Handles /\ UNCHANGED <<issued,
                                                                                 owner>>
    <2> HIDE DEF H
    <2> QED BY <1>1, <1>6, UnlockTo
  <1>8. RestAlone
    BY <1>1, <1>3, <1>7 DEF RestAlone
  <1>9. /\ buffers' \in [Sids -> SUBSET Handles] /\ buffers'[s] = {}
        /\ \A r \in Sids \ {s} : buffers'[r] = buffers[r]
    BY <1>1, <1>2 DEF IInv, TypeOK
  <1>10. mcp' \in McpBuffer
    BY <1>3, NoCommandTo
  <1>11. TypeOK'
    BY <1>1, <1>3, <1>5, <1>7, <1>8, <1>9, <1>10, DaemonTypes DEF IInv, TypeOK
  <1>12. Callers' /\ Told'
    BY <1>5, <1>8, RepliesKeeps
  <1>13. Serving' /\ Current' /\ Command'
    BY <1>1, <1>3, <1>5, AtRestKeeps DEF AtRest
  <1>14. Locked'
    <2>1. \A n \in Handles : Known(n)' <=> Known(n) /\ n \notin H
      BY <1>2, <1>9 DEF IInv, Locked, Known
    <2>2. \A n \in Handles : ~Using(n) /\ ~Using(n)'
      BY <1>1, <1>5 DEF Using, At
    <2>3. \A n \in Handles : n \in H => n \notin refused
      BY <1>2 DEF IInv, Locked, Known
    <2>4. \A n \in Handles :
            /\ Needed(n)' <=> Needed(n) /\ n \notin H
            /\ ~(Known(n)' /\ Using(n)') /\ ~(Known(n)' /\ n \in refused')
            /\ ~(Using(n)' /\ n \in refused')
      BY <1>1, <2>1, <2>2, <2>3 DEF IInv, Locked, Needed
    <2>5. \A e \in Clients : Pending(e)' => Pends(e) /\ ~Taken(e)
      <3>1. \A e \in Clients : ~Taken(e)
        BY <1>1 DEF Taken, At
      <3>2. ASSUME NEW c \in Clients, Replies(c), ~Pending(c)'
            PROVE  \A e \in Clients : Pending(e)' => Pends(e)
        BY <3>2 DEF Replies, AnswerIs, CallIs, SameCalls, Pends, Pending
      <3> QED BY <1>5, <3>1, <3>2 DEF Pends, Pending
    <2>6. \A r \in Sids : buffers'[r] \subseteq buffers[r]
      BY <1>9
    <2> HIDE DEF H
    <2> QED BY <1>1, <1>6, <2>4, <2>5, <2>6, UnlockKeeps
  <1>15. Mappings'
    <2>1. \A p \in mapped : p[1] \in Sids /\ p[1] # s
      BY <1>4 DEF IInv, TypeOK, Mappings
    <2> QED BY <1>1, <1>3, <1>9, <2>1 DEF IInv, Mappings, At
  <1> QED BY <1>11, <1>12, <1>13, <1>14, <1>15 DEF IInv

LEMMA DropEndsStep ==
  ASSUME IInv, DropEnds PROVE IInv'
  <1>1. /\ At("drop") /\ Clean /\ opened' = opened \ {job.client} /\ EndDrop
        /\ UNCHANGED <<alive, sessionList, bulkBufferDescriptors, trustletSessions,
                 deviceConnection, connected, dead, buffers, woken, mcFault, refused, mcp, swd,
                 exiting, mapped>>
    BY DEF DropEnds, swdVars
  <1>2. /\ UNCHANGED <<issued, owner, locks>> /\ tables' \subseteq tables
        /\ \A h \in tables : locks[h] > 0 => h \in tables'
        /\ RestAlone
    BY <1>1 DEF Clean, RestAlone
  <1>3. PICK c \in Clients : c = job.client
    BY <1>1 DEF IInv, TypeOK, Serving, ForClient
  <1>4. job' = NoJob /\ (call' = call \/ (Answer(c, call[c].sid, "ok") /\ call[c].op = "closeDevice"))
    BY <1>1, <1>3 DEF EndDrop, Returns
  <1>5. job' \in Working /\ JobIdle
    BY <1>4, NoJobTo
  <1>6. /\ call' \in [Clients -> Calling]
        /\ \/ call' = call
           \/ Replies(c) /\ ~Pending(c)'
        /\ \A e \in Clients : Pending(e)' => Pends(e)
    <2>1. CASE call' = call
      BY <2>1 DEF IInv, TypeOK, Pends, Pending
    <2>2. CASE Answer(c, call[c].sid, "ok") /\ call[c].op = "closeDevice"
      <3>1. call[c].sid \in SidOrNone
        BY FieldTypes DEF IInv, Fields
      <3> QED BY <2>2, <3>1, RepliesBy
    <2> QED BY <1>4, <2>1, <2>2
  <1>7. TypeOK'
    BY <1>1, <1>2, <1>5, <1>6, DaemonTypes DEF IInv, TypeOK
  <1>8. Callers' /\ Told'
    BY <1>2, <1>6, RepliesKeeps
  <1>9. Serving'
    BY <1>5 DEF Serving, ForCall, ForClient, At, JobIdle, JobIs
  <1>10. Locked'
    <2>1. \A n \in Handles : (Known(n)' <=> Known(n)) /\ ~Using(n) /\ ~Using(n)'
      BY <1>1, <1>5 DEF Known, Using, At, JobIdle, JobIs
    <2>2. \A n \in Handles : Needed(n)' <=> Needed(n)
      BY <1>1, <2>1 DEF Needed
    <2>3. \A e \in Clients : ~Taken(e)
      BY <1>1 DEF Taken, At
    <2>4. ASSUME NEW e \in Clients, Brings(e)', Pending(e)', ~Taken(e)'
          PROVE  locks'[call'[e].handle] = 0
      BY <1>2, <1>6, <2>3, <2>4 DEF IInv, Locked, Brings, Pends
    <2> QED BY <1>1, <1>2, <2>1, <2>2, <2>4 DEF IInv, Locked
  <1>11. Current'
    BY <1>1, <1>5 DEF IInv, Current, Waits, At, JobIdle, JobIs
  <1>12. Command'
    <2>1. CASE call' = call
      BY <1>1, <2>1 DEF IInv, Command
    <2>2. CASE Replies(c)
      <3>1. \A e \in Clients \ {c} : call'[e] = call[e]
        BY <2>2 DEF Replies, AnswerIs, CallIs, SameCalls
      <3>2. /\ call'[c].op = "unmap" \/ (call'[c].op = "map" /\ call'[c].reply = "ok")
            /\ mcp.cmd \in {"open", "map"}
            => call'[c].handle # mcp.handle
        BY <1>1, <2>2 DEF IInv, Command, Replies, AnswerIs, CallIs
      <3> QED BY <1>1, <3>1, <3>2 DEF IInv, Command
    <2> QED BY <1>6, <2>1, <2>2
  <1>13. Mappings'
    BY <1>1, <1>5 DEF IInv, Mappings, At, JobIdle, JobIs
  <1> QED BY <1>7, <1>8, <1>9, <1>10, <1>11, <1>12, <1>13 DEF IInv

LEMMA ExitDeletesStep ==
  ASSUME IInv, ExitDeletes PROVE IInv'
  <1> DEFINE s == job.sid
  <1>1. /\ At("exitClose") /\ Answered("ok")
        /\ trustletSessions' = trustletSessions \ {s}
        /\ job' = [NoJob EXCEPT !.at = "scan"]
        /\ UNCHANGED <<alive, sessionList, bulkBufferDescriptors, call, kernelVars,
                       deviceConnection, dead, buffers, opened, woken, refused>>
        /\ connected' = connected \ {s}
    BY DEF ExitDeletes, clientVars
  <1>2. /\ mcp.cmd = "close" /\ mcp.answer = "ok" /\ mcp.sid = s /\ s \in Sids
        /\ mcp' = NoCommand /\ ~mcFault /\ UNCHANGED <<mcFault, swd, exiting, mapped>>
    BY <1>1 DEF Answered, IInv, Current, Waits, At, Serving
  <1>3. swd[s] = "closed"
    BY <1>2 DEF IInv, Command
  <1>4. job' \in Working /\ JobIs("scan", NULL, NULL, 0, FALSE)
    <2>1. NULL \in SidOrNone /\ 0 \in Nums /\ NULL \in ClientOrNone
      BY ConstantsAssumption DEF SidOrNone, Nums, ClientOrNone
    <2>2. job' = [at |-> "scan", client |-> NULL, sid |-> NULL, handle |-> 0, drop |-> FALSE]
      BY <1>1 DEF NoJob
    <2> QED BY <2>1, <2>2, JobTo DEF Ats
  <1>5. RestAlone /\ mcp' \in McpBuffer
    BY <1>1, <1>2, NoCommandTo DEF RestAlone, kernelVars
  <1>6. TypeOK'
    BY <1>1, <1>2, <1>4, <1>5, DaemonTypes DEF IInv, TypeOK, kernelVars
  <1>7. Callers' /\ Told'
    BY <1>1, <1>5, RepliesKeeps
  <1>8. Serving' /\ Current' /\ Command'
    BY <1>2, <1>4, AtRestKeeps DEF AtRest, JobIs
  <1>9. Locked'
    BY <1>1, <1>4 DEF IInv, Locked, Needed, Known, Using, Taken, Brings, At,
         Pending, JobIs, kernelVars
  <1>10. Mappings'
    <2>1. \A p \in mapped : p[1] \in Sids /\ p[1] # s
      BY <1>3 DEF IInv, TypeOK, Mappings
    <2> QED BY <1>1, <1>2, <2>1 DEF IInv, Mappings, At
  <1> QED BY <1>6, <1>7, <1>8, <1>9, <1>10 DEF IInv

-----------------------------------------------------------------------------
(* The invariant holds at the start and is kept by every step.             *)

LEMMA InitKeeps == Init => IInv
  <1> SUFFICES ASSUME Init PROVE IInv
    OBVIOUS
  <1>1. NoCall \in Calling /\ NoCall.op = "none" /\ NoCall.handle = 0
        /\ NoCall.reply = "none"
    BY ConstantsAssumption DEF NoCall, Calling
  <1>2. NoJob \in Working /\ NoJob.at = "idle"
    BY ConstantsAssumption DEF NoJob, Working
  <1>3. NoCommand \in McpBuffer /\ NoCommand.cmd = "none" /\ NoCommand.answer = "none"
    BY ConstantsAssumption DEF NoCommand, McpBuffer
  <1>4. TypeOK
    <2>1. call \in [Clients -> Calling] /\ job \in Working /\ mcp \in McpBuffer
      BY <1>1, <1>2, <1>3 DEF Init
    <2>2. /\ issued \in 0..MaxHandles /\ owner \in [Handles -> Clients \cup {NULL}]
          /\ locks \in [Handles -> 0..1] /\ tables \subseteq Handles
      BY ConstantsAssumption DEF Init
    <2>3. /\ sessionList \in [Clients -> SUBSET Sids]
          /\ bulkBufferDescriptors \in [Sids -> SUBSET Descriptor]
          /\ deviceConnection \in [Sids -> Clients \cup {NULL}]
          /\ buffers \in [Sids -> SUBSET Handles]
          /\ swd \in [Sids -> {"unused", "running", "asked", "exited", "closed"}]
      BY DEF Init
    <2> QED BY <2>1, <2>2, <2>3 DEF Init, TypeOK
  <1>5. Callers /\ Told
    BY <1>1 DEF Init, Callers, Caller, Brings, Told
  <1>6. Serving /\ Current /\ Command
    BY <1>2, <1>3 DEF Init, Serving, ForCall, ForClient, At, Current, Waits,
         Command
  <1>7. Locked
    BY <1>1, <1>2 DEF Init, Locked, Needed, Known, Using, At, Brings
  <1>8. Mappings
    BY DEF Init, Mappings
  <1> QED BY <1>4, <1>5, <1>6, <1>7, <1>8 DEF IInv

LEMMA ServeStep ==
  ASSUME IInv, NEW c \in Clients, Serve(c) \/ DropConnection(c) PROVE IInv'
  BY ServeOpenStep, ServeMapStep, ServeUnmapStep, ServeCloseStep, NqConnectStep,
     DropsStep DEF Serve

LEMMA JobStepKeeps ==
  ASSUME IInv, JobStep PROVE IInv'
  BY OpenLocksStep, OpenSucceedsStep, OpenFailsStep, MapFindsStep,
     MapFindsNothingStep, MapEndsStep, UnmapEndsStep, CloseSucceedsStep,
     CloseAgainStep, CloseEndsStep, QuietStep, DropNextStep, DropEndsStep,
     ExitClosesStep, ExitDeletesStep DEF JobStep

LEMMA NextKeeps == IInv /\ [Next]_vars => IInv'
  <1> SUFFICES ASSUME IInv, [Next]_vars PROVE IInv'
    OBVIOUS
  <1>1. CASE UNCHANGED vars
    <2> USE <1>1 DEF vars, clientVars, kernelVars, daemonVars, swdVars
    <2>1. TypeOK' /\ Callers' /\ Told'
      BY DEF IInv, TypeOK, Callers, Caller, Brings, Told
    <2>2. Serving' /\ Current' /\ Command' /\ Mappings'
      BY DEF IInv, Serving, ForCall, ForClient, At, Pending, Current, Waits,
           Command, Mappings
    <2>3. Locked'
      BY DEF IInv, Locked, Needed, Known, Using, Taken, Brings, At, Pending
    <2> QED BY <2>1, <2>2, <2>3 DEF IInv
  <1>2. CASE \E c \in Clients : ClientStep(c) \/ Serve(c) \/ DropConnection(c)
    BY <1>2, ClientStepKeeps, ServeStep
  <1>3. CASE JobStep \/ ExitWakes
    BY <1>3, JobStepKeeps, QuietStep
  <1>4. CASE SwdStep \/ \E s \in Sids : IrqExit(s) \/ TaExits(s)
    BY <1>4, SwdStepKeeps, IrqExitStep
  <1>5. CASE Rest
    BY <1>1, <1>5 DEF Rest
  <1> QED BY <1>1, <1>2, <1>3, <1>4, <1>5 DEF Next

LEMMA Invariant == Spec => []IInv
  BY InitKeeps, NextKeeps, PTL DEF Spec

\* A session's buffers are its own: the cardinality LocksMatch counts with is
\* one or zero.
LEMMA OneSession ==
  ASSUME IInv, NEW h \in Handles
  PROVE  Cardinality({s \in Sids : h \in buffers[s]}) = IF Known(h) THEN 1 ELSE 0
  <1> DEFINE S == {s \in Sids : h \in buffers[s]}
  <1>1. CASE Known(h)
    <2>1. PICK s \in Sids : h \in buffers[s]
      BY <1>1 DEF Known
    <2>2. S = {s}
      BY <2>1 DEF IInv, Locked
    <2> QED BY <1>1, <2>2, FS_Singleton
  <1>2. CASE ~Known(h)
    <2>1. S = {}
      BY <1>2 DEF Known
    <2> QED BY <1>2, <2>1, FS_EmptySet
  <1> QED BY <1>1, <1>2

-----------------------------------------------------------------------------

\* Every lock of a buffer is that of one session, of the command at work or of
\* a refused MAP, and whoever is told that a mapping is gone is told the truth
\* (lockWsmL2() of processMapBulkBuf() and openSession() against the unlock of
\* processUnmapBulkBuf() and freeSession()).
THEOREM SharedBuffersInvariant == Spec => []Inv
  <1>1. ASSUME IInv PROVE Inv
    <2>1. LocksMatch
      <3>1. ASSUME NEW h \in Handles
            PROVE  locks[h] = Cardinality({s \in Sids : h \in buffers[s]})
                     + (IF job.at \in {"open", "find"} /\ job.handle = h THEN 1 ELSE 0)
                     + (IF h \in refused THEN 1 ELSE 0)
        <4>1. /\ locks[h] = IF Needed(h) THEN 1 ELSE 0
              /\ ~(Known(h) /\ Using(h)) /\ ~(Known(h) /\ h \in refused)
              /\ ~(Using(h) /\ h \in refused)
          BY <1>1 DEF IInv, Locked
        <4>2. Using(h) <=> job.at \in {"open", "find"} /\ job.handle = h
          BY DEF Using, At
        <4>3. Cardinality({s \in Sids : h \in buffers[s]}) = IF Known(h) THEN 1 ELSE 0
          BY <1>1, OneSession
        <4> QED BY <4>1, <4>2, <4>3 DEF Needed
      <3> QED BY <3>1 DEF LocksMatch
    <2>2. GoneWhenTold
      BY <1>1 DEF IInv, Told, Mappings, GoneWhenTold, Callers, Caller
    <2> QED BY <1>1, <2>1, <2>2 DEF IInv, Inv
  <1> QED BY <1>1, Invariant, PTL

\* The kernel keeps the pages of a buffer the SWd has mapped, whatever clients
\* do and in whatever order the daemon learns of it.
THEOREM PinnedAlways == Spec => []PinnedWhileMapped
  <1>1. ASSUME IInv PROVE PinnedWhileMapped
    <2>1. ASSUME NEW p \in mapped, ~mcFault \/ p[1] \in trustletSessions
          PROVE  p[2] \in tables
      <3>1. p[1] \in Sids /\ p[2] \in Handles
        BY <1>1 DEF IInv, TypeOK
      <3>2. Needed(p[2])
        BY <1>1, <2>1, <3>1 DEF IInv, Mappings, Current, Needed, Known, Using,
             At
      <3> QED BY <1>1, <3>1, <3>2 DEF IInv, Locked
    <2> QED BY <2>1 DEF PinnedWhileMapped
  <1> QED BY <1>1, Invariant, PTL

\* A session knows the mappings of its TA, also those whose MAP or UNMAP was
\* not answered in time: freeSession() can unlock them.
THEOREM DaemonKnowsAlways == Spec => []DaemonKnows
  <1>1. ASSUME IInv PROVE DaemonKnows
    BY <1>1 DEF IInv, Mappings, DaemonKnows
  <1> QED BY <1>1, Invariant, PTL

==============================================================================
