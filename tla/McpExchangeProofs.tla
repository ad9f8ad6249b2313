--------------------------- MODULE McpExchangeProofs ---------------------------
(***************************************************************************)
(* Proofs about McpExchange, for any dispatchers, queues, old sessions and *)
(* numbers of retries.                                                     *)
(*                                                                         *)
(* That a thread takes no answer to another's command needs to know who    *)
(* may write the buffer: those with mutex_mcp, one loader of a token, or   *)
(* start() alone.  That the waits stay in step with the answers counts the *)
(* traces of a command: its notification, that of the answer, and the      *)
(* semaphore.  start() may find one trace of an earlier daemon too many.   *)
(***************************************************************************)
EXTENDS McpExchange, TLAPS

-----------------------------------------------------------------------------
(* The inductive invariant.                                                *)

Joining == {"joining irq", "joining scheduler", "joining exit handler"}
Places ==
  {"idle", "locking", "writing", "notifying", "testing", "waiting", "checking",
   "reading", "leaving", "ended"} \cup Joining
Job == [at : Places, cmd : Commands, left : 0..Retries]

\* The command of t is in the buffer, unless another has been written over it.
Written(t) ==
  job[t].at \in {"notifying", "testing", "waiting", "checking", "reading"} \cup Joining
Busy(t) == job[t].at = "writing" \/ Written(t)
IsToken(t) == job[t].cmd.id = "TOKEN"

Role(t) ==
  /\ t = Main /\ job[t].at # "idle" =>
       ~Serving /\ job[t].cmd = [id |-> "CLOSE", of |-> closing]
  /\ t = TAExit => job[t].cmd = NoCommand
  /\ t = TAExit /\ (job[t].at = "locking" \/ Busy(t)) => Serving
  /\ t \in Dispatchers /\ job[t].at # "idle" =>
       Serving /\ job[t].cmd.of = t /\ job[t].cmd.id # "CLOSE"
  /\ IsToken(t) => t \in Dispatchers
  /\ IsToken(t) => job[t].at # "locking" /\ "token" \in results[t]
  /\ job[t].at = "locking" => t # Main
  /\ Busy(t) /\ t # Main /\ ~IsToken(t) => mutex_mcp = t
  /\ job[t].at = "locking" \/ Busy(t) => job[t].left # 0
  /\ job[t].at \in Joining => terminate
  /\ job[t].at \in {"leaving", "ended"} => t = TAExit /\ terminate
  /\ t \in woken => job[t].at = "waiting"
Roles ==
  /\ \A t \in Threads : Role(t)
  /\ ~Serving /\ ~terminate => exitWakeups = 0

\* A loader of a token and an exchange under mutex_mcp may overlap, no others.
OneLoader ==
  \A t, u \in Threads :
    /\ IsToken(t) /\ job[t].at # "idle" /\ IsToken(u) /\ job[u].at # "idle" => t = u
Mine ==
  \A t \in Threads :
    /\ Written(t) /\ (mcpMessage.cmd.id = "TOKEN" <=> IsToken(t)) =>
         mcpMessage.cmd = job[t].cmd
    /\ "another's" \notin results[t]

\* No old session has been left, no trace of a command is missing or too many.
Well == ~mcFault /\ ~terminate /\ ~mciReused /\ ~TokenLoaded
Clear == nqOut = 0 /\ nqIn = 0 /\ m_count = 0
Asked == mcpMessage.kind = "cmd" /\ nqOut = 1 /\ nqIn = 0 /\ m_count = 0
Told ==
  mcpMessage.kind = "rsp" /\ nqOut = 0 /\ m_count \in 0..1 /\ nqIn + m_count = 1
Phase(t) ==
  /\ "unanswered" \notin results[t]
  /\ job[t].at = "reading" => mcpMessage.kind = "rsp"
  /\ irq = "running" =>
       /\ job[t].at = "notifying" => mcpMessage.kind = "cmd" /\ Clear
       /\ job[t].at \in {"testing", "waiting"} => Asked \/ Told
       /\ t \in woken => m_count = 1
       /\ job[t].at \in {"checking", "reading"} => mcpMessage.kind = "rsp" /\ Clear
InStep ==
  Well =>
    /\ \A t \in Threads : Phase(t)
    /\ mcpMessage.cmd.id # "TOKEN"
    /\ mcpMessage.kind = "cmd" => \E t \in Threads : Written(t)
    /\ irq = "running" /\ (\A t \in Threads : ~Written(t)) => Clear

\* start() at its first or second try.
Again == "unanswered" \in results[Main]
Traces == nqOut + nqIn + m_count
Attempt ==
  LET at == job[Main].at IN
  /\ m_count >= 0
  /\ Main \in woken => m_count > 0
  /\ at = "writing" /\ Again => mcpMessage.cmd = job[Main].cmd
  /\ Written(Main) => mcpMessage.kind # "none"
  /\ Written(Main) /\ mcpMessage.kind = "rsp" => closing \notin old
  /\ at = "reading" /\ Again => closing \notin old
  /\ irq = "running" =>
       /\ Traces <= 2
       /\ at \notin {"testing", "waiting"} => Traces <= 1
       /\ Again /\ at = "checking" => closing \notin old
       /\ Again /\ at \in {"writing", "notifying", "testing", "waiting"}
            /\ closing \in old => nqIn = 0 /\ m_count = 0
       /\ ~Again /\ mcpMessage.kind = "cmd" /\ nqOut = 0 =>
            at \in {"idle", "writing", "notifying"}
Starting ==
  /\ ~mciReused => Serving
  /\ ~Serving => mcpMessage.cmd.id # "TOKEN"
  /\ ~mcFault /\ ~terminate =>
       (\A i \in old : i >= closing) /\ (~Serving => Attempt)

IAlways == TypeOK /\ Roles /\ OneLoader /\ Mine
IInv == IAlways /\ InStep /\ Starting

-----------------------------------------------------------------------------
(* What the operators do, field by field.                                  *)

LEMMA Fields ==
  ASSUME TypeOK, NEW t \in Threads
  PROVE  /\ job[t].at \in Places /\ job[t].cmd \in Commands /\ job[t].left \in 0..Retries
         /\ job[t].cmd.id \in Ids /\ job[t].cmd.of \in Threads \cup OldSessions
BY DEF TypeOK, Places, Joining, Commands

LEMMA JobType == TypeOK => job \in [Threads -> Job]
BY DEF TypeOK, Job, Places, Joining

\* A thread goes to another place, the others stay.
Moves(t, at, cmd) ==
  /\ job' \in [Threads -> Job]
  /\ job'[t].at = at /\ job'[t].cmd = cmd
  /\ at = "locking" \/ Busy(t)' => job'[t].left # 0
  /\ \A u \in Threads \ {t} : job'[u] = job[u]

LEMMA MovesAt ==
  ASSUME TypeOK, NEW t \in Threads, NEW at \in Places,
         job' = [job EXCEPT ![t].at = at],
         job[t].left # 0 \/ at \in {"idle", "leaving", "ended"}
  PROVE  Moves(t, at, job[t].cmd)
<1>1. job \in [Threads -> Job]
  BY JobType
<1> DEFINE r == [job[t] EXCEPT !.at = at]
<1>2. r \in Job /\ r.at = at /\ r.cmd = job[t].cmd /\ r.left = job[t].left
  BY <1>1 DEF Job
<1>3. job' = [job EXCEPT ![t] = r]
  OBVIOUS
<1>4. job'[t] = r /\ job' \in [Threads -> Job] /\ \A u \in Threads \ {t} : job'[u] = job[u]
  BY <1>1, <1>2, <1>3
<1> QED
  BY <1>2, <1>4 DEF Moves, Busy, Written, Joining

LEMMA MovesBack ==
  ASSUME TypeOK, NEW t \in Threads, NEW at \in Places, NEW left \in 0..Retries,
         job' = [job EXCEPT ![t].at = at, ![t].left = left], left # 0
  PROVE  Moves(t, at, job[t].cmd)
<1>1. job \in [Threads -> Job]
  BY JobType
<1> DEFINE r == [job[t] EXCEPT !.at = at]
           q == [r EXCEPT !.left = left]
<1>2. r \in Job /\ r.at = at /\ r.cmd = job[t].cmd
  BY <1>1 DEF Job
<1>3. q \in Job /\ q.at = at /\ q.cmd = job[t].cmd /\ q.left = left
  BY <1>2 DEF Job
<1>4. job' = [job EXCEPT ![t] = q]
  BY <1>1
<1>5. job'[t] = q /\ job' \in [Threads -> Job] /\ \A u \in Threads \ {t} : job'[u] = job[u]
  BY <1>1, <1>3, <1>4
<1> QED
  BY <1>3, <1>5 DEF Moves

LEMMA MovesTo ==
  ASSUME TypeOK, NEW t \in Threads, NEW at \in Places, NEW cmd \in Commands,
         job' = [job EXCEPT ![t] = [at |-> at, cmd |-> cmd, left |-> Retries]]
  PROVE  Moves(t, at, cmd)
<1>1. job \in [Threads -> Job] /\ Retries \in 0..Retries /\ Retries # 0
  BY JobType, ConstantsAssumption
<1> DEFINE r == [at |-> at, cmd |-> cmd, left |-> Retries]
<1>2. r \in Job /\ r.at = at /\ r.cmd = cmd /\ r.left = Retries
  BY <1>1 DEF Job
<1>3. job'[t] = r /\ job' \in [Threads -> Job] /\ \A u \in Threads \ {t} : job'[u] = job[u]
  BY <1>1, <1>2
<1> QED
  BY <1>1, <1>2, <1>3 DEF Moves

LEMMA TypesKept ==
  ASSUME job' \in [Threads -> Job],
         mutex_mcp' \in Threads \cup {NULL},
         mcpMessage' \in [kind : {"none", "cmd", "rsp"}, cmd : Commands],
         nqOut' \in 0..NqSize, nqIn' \in 0..NqSize, m_count' \in Int,
         woken' \in SUBSET Threads,
         results' \in [Threads -> SUBSET {"mine", "another's", "unanswered", "token"}],
         sent' \in 0..MaxCommands, exitWakeups' \in Nat,
         irq' \in {"running", "exiting", "ended"}, scheduler' \in {"running", "ended"},
         {mcFault', terminate', killed', halted', mciReused'} \subseteq BOOLEAN,
         old' \in SUBSET OldSessions, closing' \in 1..(OldCount + 1)
  PROVE  TypeOK'
BY DEF TypeOK, Job, Places, Joining

LEMMA Constants ==
  /\ TAExit \in Threads /\ Main \in Threads /\ TAExit # Main
  /\ Main \notin Dispatchers /\ TAExit \notin Dispatchers
  /\ Dispatchers \subseteq Threads /\ NULL \notin Threads
  /\ NoCommand \in Commands /\ NoCommand.id = "CLOSE" /\ NoCommand.of = TAExit
  /\ OldCount \in Nat \ {0} /\ NqSize \in Nat \ {0} /\ Retries \in Nat \ {0}
  /\ MaxCommands \in Nat
BY ConstantsAssumption DEF Threads, Commands, NoCommand, Ids

LEMMA Numbers ==
  ASSUME TypeOK
  PROVE  /\ closing \in Int /\ closing >= 1 /\ closing <= OldCount + 1
         /\ nqOut \in Nat /\ nqOut <= NqSize /\ nqIn \in Nat /\ nqIn <= NqSize
         /\ m_count \in Int /\ sent \in Nat /\ exitWakeups \in Nat
<1>1. OldCount \in Nat /\ NqSize \in Nat /\ MaxCommands \in Nat
  BY Constants
<1>2. closing \in 1..(OldCount + 1) /\ nqOut \in 0..NqSize /\ nqIn \in 0..NqSize
  BY DEF TypeOK
<1>3. m_count \in Int /\ sent \in 0..MaxCommands /\ exitWakeups \in Nat
  BY DEF TypeOK
<1> QED
  BY <1>1, <1>2, <1>3

LEMMA ServingGrows ==
  ASSUME TypeOK, closing' = closing \/ closing' = closing + 1
  PROVE  Serving => Serving'
<1>1. closing \in Int /\ OldCount \in Int
  BY Numbers, Constants
<1> QED
  BY <1>1 DEF Serving

\* A step of t leaves what the other threads have to them; a signal may wake
\* one that waits.
Others(t) ==
  /\ \A u \in Threads \ {t} :
       /\ job'[u] = job[u] /\ results'[u] = results[u]
       /\ mutex_mcp = u => mutex_mcp' = u
  /\ \A u \in woken' : u \in woken \/ job[u].at = "waiting"

LEMMA OthersKeep ==
  ASSUME TypeOK, Roles, NEW t \in Threads, Others(t), terminate => terminate',
         closing' = closing \/ (t = Main /\ closing' = closing + 1)
  PROVE  \A u \in Threads \ {t} : Role(u)'
<1> SUFFICES ASSUME NEW u \in Threads \ {t} PROVE Role(u)'
  OBVIOUS
<1>1. Role(u) /\ job'[u] = job[u] /\ results'[u] = results[u]
  BY DEF Others, Roles
<1>2. /\ mutex_mcp = u => mutex_mcp' = u
      /\ u \in woken' => u \in woken \/ job[u].at = "waiting"
      /\ Serving => Serving'
      /\ u = Main => (Serving' <=> Serving) /\ closing' = closing
  BY ServingGrows DEF Others, Serving
<1>3. (Busy(u)' <=> Busy(u)) /\ (IsToken(u)' <=> IsToken(u))
  BY <1>1 DEF Busy, Written, IsToken
<1> QED
  BY <1>1, <1>2, <1>3 DEF Role

LEMMA RolesStep ==
  ASSUME TypeOK, Roles, NEW t \in Threads, Others(t), terminate => terminate',
         closing' = closing \/ (t = Main /\ closing' = closing + 1),
         Role(t)',
         exitWakeups' = exitWakeups \/ terminate' \/ Serving
  PROVE  Roles'
<1>1. \A u \in Threads : Role(u)'
  BY OthersKeep
<1>2. Serving => Serving'
  BY ServingGrows
<1> QED
  BY <1>1, <1>2 DEF Roles

LEMMA LoaderStep ==
  ASSUME OneLoader, NEW t \in Threads, Others(t),
         IsToken(t)' /\ job'[t].at # "idle" => IsToken(t) /\ job[t].at # "idle"
  PROVE  OneLoader'
<1>1. \A u \in Threads :
        IsToken(u)' /\ job'[u].at # "idle" => IsToken(u) /\ job[u].at # "idle"
  BY DEF Others, IsToken
<1> QED
  BY <1>1 DEF OneLoader

LEMMA MineStep ==
  ASSUME Mine, NEW t \in Threads, Others(t), mcpMessage'.cmd = mcpMessage.cmd,
         Written(t)' => Written(t) /\ job'[t].cmd = job[t].cmd,
         "another's" \notin results'[t]
  PROVE  Mine'
<1> SUFFICES ASSUME NEW u \in Threads
             PROVE  /\ Written(u)' /\ (mcpMessage'.cmd.id = "TOKEN" <=> IsToken(u)') =>
                         mcpMessage'.cmd = job'[u].cmd
                    /\ "another's" \notin results'[u]
  BY DEF Mine
<1>1. CASE u = t
  BY <1>1 DEF Mine, IsToken
<1>2. CASE u # t
  <2>1. job'[u] = job[u] /\ results'[u] = results[u]
    BY <1>2 DEF Others
  <2>2. (Written(u)' <=> Written(u)) /\ (IsToken(u)' <=> IsToken(u))
    BY <2>1 DEF Written, IsToken
  <2> QED
    BY <2>1, <2>2 DEF Mine
<1> QED
  BY <1>1, <1>2

\* The end of an exchange.
Over(t, result) ==
  /\ results' \in [Threads -> SUBSET {"mine", "another's", "unanswered", "token"}]
  /\ results'[t] = results[t] \cup {result}
  /\ mutex_mcp' \in Threads \cup {NULL}
  /\ closing' \in 1..(OldCount + 1)
  /\ mutex_mcp # t => mutex_mcp' = mutex_mcp
  /\ \A u \in Threads \ {t} : results'[u] = results[u]
  /\ \/ /\ t = Main /\ result = "unanswered" /\ ~Again
        /\ Moves(t, "writing", job[t].cmd) /\ closing' = closing
     \/ /\ ~(t = Main /\ result = "unanswered" /\ ~Again)
        /\ Moves(t, "idle", job[t].cmd)
        /\ closing' = IF t = Main THEN closing + 1 ELSE closing

LEMMA ReturnEnds ==
  ASSUME TypeOK, Roles, NEW t \in Threads, job[t].at # "idle",
         NEW result \in {"mine", "another's", "unanswered"}, Return(t, result)
  PROVE  Over(t, result)
<1>1. /\ results' \in [Threads -> SUBSET {"mine", "another's", "unanswered", "token"}]
      /\ results'[t] = results[t] \cup {result}
      /\ \A u \in Threads \ {t} : results'[u] = results[u]
  BY DEF Return, TypeOK
<1>2. /\ mutex_mcp' \in Threads \cup {NULL} /\ (mutex_mcp # t => mutex_mcp' = mutex_mcp)
  BY DEF Return, TypeOK
<1>3. t = Main => closing \in 1..OldCount
  BY Constants, Numbers DEF Roles, Role, Serving
<1>4. closing' \in 1..(OldCount + 1)
  BY <1>3, Constants, Numbers DEF Return
<1>5. CASE t = Main /\ result = "unanswered" /\ ~Again
  <2>1. job' = [job EXCEPT ![t].at = "writing", ![t].left = Retries] /\ closing' = closing
    BY <1>5 DEF Return, Again
  <2>2. Moves(t, "writing", job[t].cmd)
      <3>1. Retries \in 0..Retries /\ Retries # 0 /\ "writing" \in Places
      BY Constants DEF Places
    <3> QED
      BY <2>1, <3>1, MovesBack
  <2> QED
    BY <1>1, <1>2, <1>4, <1>5, <2>1, <2>2 DEF Over
<1>6. CASE ~(t = Main /\ result = "unanswered" /\ ~Again)
  <2>1. /\ job' = [job EXCEPT ![t].at = "idle"]
        /\ closing' = IF t = Main THEN closing + 1 ELSE closing
    BY <1>6 DEF Return, Again
  <2>2. Moves(t, "idle", job[t].cmd)
    BY <2>1, MovesAt DEF Places
  <2> QED
    BY <1>1, <1>2, <1>4, <1>6, <2>1, <2>2 DEF Over
<1> QED
  BY <1>5, <1>6

LEMMA SignalWakes ==
  ASSUME TypeOK, Signal
  PROVE  /\ m_count' = m_count + 1 /\ m_count' \in Int
         /\ woken' \in SUBSET Threads /\ woken \subseteq woken'
         /\ \A u \in woken' : u \in woken \/ job[u].at = "waiting"
<1>1. m_count \in Int /\ woken \subseteq Threads
  BY DEF TypeOK
<1>2. m_count' = m_count + 1
  BY DEF Signal
<1>3. CASE Sleepers = {}
  BY <1>1, <1>2, <1>3 DEF Signal
<1>4. CASE Sleepers # {}
  <2>1. PICK u \in Sleepers : woken' = woken \cup {u}
    BY <1>4 DEF Signal
  <2> QED
    BY <1>1, <1>2, <2>1 DEF Sleepers
<1> QED
  BY <1>3, <1>4

-----------------------------------------------------------------------------
(* A thread takes no answer to another's command.                          *)

LEMMA MovesRole ==
  ASSUME TypeOK, NEW t \in Threads, NEW at, NEW cmd, Moves(t, at, cmd)
  PROVE  /\ job'[t].at = at /\ job'[t].cmd = cmd /\ job' \in [Threads -> Job]
         /\ \A u \in Threads \ {t} : job'[u] = job[u]
         /\ IsToken(t)' <=> cmd.id = "TOKEN"
         /\ Written(t)' <=> at \in {"notifying", "testing", "waiting", "checking",
                                     "reading"} \cup Joining
         /\ Busy(t)' <=> at = "writing" \/ Written(t)'
         /\ at = "locking" \/ Busy(t)' => job'[t].left # 0
BY DEF Moves, IsToken, Written, Busy

\* A step within an exchange.
LEMMA GoOn ==
  ASSUME IAlways, TypeOK', NEW t \in Threads, NEW at \in Places, Written(t),
         Moves(t, at, job[t].cmd), Written(t)',
         UNCHANGED <<mutex_mcp, mcpMessage, results, closing>>,
         woken' \subseteq woken, t \in woken' => at = "waiting",
         terminate => terminate', at \in Joining => terminate',
         exitWakeups' = exitWakeups \/ terminate'
  PROVE  IAlways'
<1> USE DEF IAlways
<1>1. /\ job'[t].at = at /\ job'[t].cmd = job[t].cmd
      /\ (IsToken(t)' <=> IsToken(t)) /\ Busy(t) /\ Busy(t)'
      /\ job'[t].left # 0 /\ job[t].at # "idle" /\ at # "idle"
      /\ at \notin {"locking", "leaving", "ended", "writing"}
  BY MovesRole DEF IsToken, Busy, Written, Joining
<1>2. Others(t)
  BY MovesRole DEF Others, Roles, Role
<1>3. Role(t) /\ (Serving' <=> Serving)
  BY DEF Roles, Serving
<1>4. Role(t)'
  BY <1>1, <1>3 DEF Role
<1>5. Roles'
  BY <1>2, <1>4, RolesStep
<1>6. OneLoader'
  BY <1>1, <1>2, LoaderStep
<1>7. Mine'
  BY <1>1, <1>2, MineStep DEF Mine
<1> QED
  BY <1>5, <1>6, <1>7

\* The end of an exchange.
LEMMA OverKeeps ==
  ASSUME IAlways, TypeOK', NEW t \in Threads, Written(t),
         NEW result \in {"mine", "unanswered"}, Over(t, result),
         UNCHANGED <<mcpMessage, terminate, exitWakeups>>,
         woken' \subseteq woken \ {t}
  PROVE  IAlways'
<1> USE DEF IAlways
<1>1. PICK at \in {"writing", "idle"} : Moves(t, at, job[t].cmd) /\ (at = "writing" => t = Main)
  BY DEF Over
<1>2. /\ closing' = closing \/ (t = Main /\ closing' = closing + 1)
      /\ at = "writing" => closing' = closing
  <2>1. CASE t = Main /\ result = "unanswered" /\ ~Again
    BY <2>1 DEF Over
  <2>2. CASE ~(t = Main /\ result = "unanswered" /\ ~Again)
    <3>1. Moves(t, "idle", job[t].cmd) /\ closing' = IF t = Main THEN closing + 1 ELSE closing
      BY <2>2 DEF Over
    <3>2. job'[t].at = "idle" /\ job'[t].at = at
      BY <1>1, <3>1 DEF Moves
    <3> QED
      BY <3>1, <3>2
  <2> QED
    BY <2>1, <2>2
<1>3. /\ job'[t].at = at /\ job'[t].cmd = job[t].cmd
      /\ (IsToken(t)' <=> IsToken(t)) /\ Busy(t) /\ ~Written(t)'
      /\ (Busy(t)' => at = "writing" /\ job'[t].left # 0) /\ job[t].at # "idle"
  BY <1>1, MovesRole DEF IsToken, Busy, Written, Joining
<1>4. /\ results'[t] = results[t] \cup {result}
      /\ \A u \in Threads \ {t} : results'[u] = results[u]
      /\ mutex_mcp # t => mutex_mcp' = mutex_mcp
  BY DEF Over
<1>5. Others(t)
  BY <1>1, <1>4, MovesRole DEF Others
<1>6. Role(t) /\ (at = "writing" => (Serving' <=> Serving))
  BY <1>2 DEF Roles, Serving
<1>7. Role(t)'
  BY <1>1, <1>2, <1>3, <1>4, <1>6, Constants DEF Role, Joining, IsToken
<1>8. Roles'
  BY <1>2, <1>5, <1>7, RolesStep
<1>9. OneLoader'
  BY <1>3, <1>5, LoaderStep
<1>10. Mine'
  BY <1>3, <1>4, <1>5, MineStep DEF Mine
<1> QED
  BY <1>8, <1>9, <1>10

\* A step of none of the threads.
LEMMA StayKeeps ==
  ASSUME IAlways, TypeOK', UNCHANGED <<mutex_mcp, job, results, closing, terminate>>,
         mcpMessage'.cmd = mcpMessage.cmd,
         \A u \in woken' : u \in woken \/ job[u].at = "waiting",
         exitWakeups' = exitWakeups \/ Serving
  PROVE  IAlways'
<1> USE DEF IAlways
<1>1. Others(Main) /\ Main \in Threads
  BY Constants DEF Others
<1>2. /\ (Written(Main)' <=> Written(Main)) /\ (IsToken(Main)' <=> IsToken(Main))
      /\ (Busy(Main)' <=> Busy(Main)) /\ (Serving' <=> Serving)
  BY DEF Written, IsToken, Busy, Serving
<1>3. Role(Main)'
  <2>1. Role(Main)
    BY <1>1 DEF Roles
  <2> QED
    BY <1>1, <1>2, <2>1 DEF Role
<1>4. Roles'
  BY <1>1, <1>3, RolesStep
<1>5. OneLoader'
  BY <1>1, <1>2, LoaderStep
<1>6. Mine'
  BY <1>1, <1>2, MineStep DEF Mine
<1> QED
  BY <1>4, <1>5, <1>6

LEMMA BeginKeeps ==
  ASSUME IAlways, NEW t \in Threads, Begin(t)
  PROVE  IAlways'
<1> USE DEF IAlways
<1>1. PICK id \in Does[t] :
        /\ id = "TOKEN" => RegistryFree
        /\ job' = [job EXCEPT ![t] =
                     [at |-> IF id = "TOKEN" THEN "writing" ELSE "locking",
                      cmd |-> [id |-> id, of |-> t], left |-> Retries]]
        /\ results' = [results EXCEPT ![t] =
                         IF id = "TOKEN" THEN @ \cup {"token"} ELSE @]
  BY DEF Begin
<1>2. /\ t \in Dispatchers /\ Serving /\ job[t].at = "idle" /\ sent' = sent + 1
      /\ sent < MaxCommands
      /\ UNCHANGED <<mutex_mcp, mcpVars, semVars, mcFault, threadVars, swdVars, closing>>
  BY DEF Begin
<1> DEFINE at == IF id = "TOKEN" THEN "writing" ELSE "locking"
           cmd == [id |-> id, of |-> t]
<1>3. /\ id \in {"SESSION", "TOKEN"} /\ t # Main /\ t # TAExit
      /\ at \in Places /\ cmd \in Commands
  BY <1>1, <1>2, ConstantsAssumption DEF Places, Commands, Ids
<1>4. Moves(t, at, cmd)
  BY <1>1, <1>3, MovesTo
<1>5. /\ job'[t].at = at /\ job'[t].cmd = cmd /\ job' \in [Threads -> Job]
      /\ (IsToken(t)' <=> id = "TOKEN") /\ job'[t].left # 0 /\ ~Written(t)'
      /\ \A u \in Threads \ {t} : job'[u] = job[u]
  <2>1. cmd.id = id /\ (at = "writing" \/ at = "locking")
    OBVIOUS
  <2> HIDE DEF at, cmd
  <2> QED
    BY <1>4, <2>1, MovesRole DEF Joining
<1>6. /\ results' \in [Threads -> SUBSET {"mine", "another's", "unanswered", "token"}]
      /\ \A u \in Threads \ {t} : results'[u] = results[u]
      /\ id = "TOKEN" => "token" \in results'[t]
      /\ "another's" \notin results[t] => "another's" \notin results'[t]
  BY <1>1, <1>3 DEF TypeOK
<1>7. sent' \in 0..MaxCommands
  BY <1>2, Numbers, Constants
<1>8. TypeOK'
  BY <1>2, <1>5, <1>6, <1>7, TypesKept DEF TypeOK, mcpVars, semVars, threadVars, swdVars
<1>9. Others(t)
  BY <1>2, <1>5, <1>6 DEF Others, semVars
<1>10. Role(t) /\ (Serving' <=> Serving)
  BY <1>2 DEF Roles, Serving
<1>11. Role(t)'
  BY <1>2, <1>3, <1>5, <1>6, <1>10 DEF Role, Busy, Joining, semVars
<1>12. Roles'
  BY <1>2, <1>9, <1>11, RolesStep DEF threadVars
<1>13. OneLoader'
  <2>1. CASE id = "TOKEN"
    <3>1. \A u \in Threads : job[u].at = "idle" \/ ~IsToken(u)
      BY <1>1, <2>1 DEF RegistryFree, IsToken
    <3>2. \A u \in Threads \ {t} : job'[u].at = "idle" \/ ~IsToken(u)'
      BY <1>5, <3>1 DEF IsToken
    <3> QED
      BY <3>2 DEF OneLoader
  <2>2. CASE id # "TOKEN"
    BY <1>5, <1>9, <2>2, LoaderStep
  <2> QED
    BY <2>1, <2>2
<1>14. Mine'
  BY <1>2, <1>5, <1>6, <1>9, MineStep DEF Mine, mcpVars
<1> QED
  BY <1>8, <1>12, <1>13, <1>14

LEMMA ExitWakesKeeps ==
  ASSUME IAlways, ExitWakes
  PROVE  IAlways'
<1> USE DEF IAlways
<1>1. /\ job[TAExit].at = "idle" /\ exitWakeups > 0 /\ exitWakeups' = exitWakeups - 1
      /\ job' = [job EXCEPT ![TAExit] =
                   [at |-> IF terminate THEN "leaving" ELSE "locking",
                    cmd |-> NoCommand, left |-> Retries]]
      /\ UNCHANGED <<mutex_mcp, mcpVars, semVars, mcFault, results, sent, irq,
                     scheduler, terminate, killed, swdVars, closing>>
  BY DEF ExitWakes
<1> DEFINE at == IF terminate THEN "leaving" ELSE "locking"
<1>2. at \in Places
  BY Constants DEF Places
<1>3. Moves(TAExit, at, NoCommand)
  BY <1>1, <1>2, Constants, MovesTo
<1>4. /\ job'[TAExit].at = at /\ job'[TAExit].cmd = NoCommand /\ job' \in [Threads -> Job]
      /\ ~IsToken(TAExit)' /\ (at = "locking" => job'[TAExit].left # 0)
      /\ ~Written(TAExit)' /\ ~Busy(TAExit)'
      /\ \A u \in Threads \ {TAExit} : job'[u] = job[u]
  <2>1. at \in {"leaving", "locking"}
    OBVIOUS
  <2>2. NoCommand.id = "CLOSE" /\ TAExit \in Threads
    BY Constants
  <2> HIDE DEF at
  <2>3. /\ job'[TAExit].at = at /\ job'[TAExit].cmd = NoCommand /\ job' \in [Threads -> Job]
        /\ \A u \in Threads \ {TAExit} : job'[u] = job[u]
        /\ at = "locking" => job'[TAExit].left # 0
    BY <1>3, <2>2 DEF Moves
  <2> QED
    BY <2>1, <2>2, <2>3 DEF IsToken, Written, Busy, Joining
<1>5. exitWakeups' \in Nat
  BY <1>1, Numbers
<1>6. TypeOK'
  BY <1>1, <1>4, <1>5, TypesKept DEF TypeOK, mcpVars, semVars, swdVars
<1>7. Others(TAExit)
  BY <1>1, <1>4 DEF Others, semVars
<1>8. Role(TAExit) /\ (Serving' <=> Serving)
  BY <1>1, Constants DEF Roles, Serving
<1>9. ~terminate => Serving
  BY <1>1 DEF Roles
<1>10. Role(TAExit)'
  BY <1>1, <1>4, <1>8, <1>9, Constants DEF Role, Joining, semVars
<1>11. Roles'
  BY <1>1, <1>7, <1>9, <1>10, Constants, RolesStep
<1>12. OneLoader'
  BY <1>4, <1>7, Constants, LoaderStep
<1>13. Mine'
  BY <1>1, <1>4, <1>7, Constants, MineStep DEF Mine, mcpVars
<1> QED
  BY <1>6, <1>11, <1>12, <1>13

LEMMA ExitLeavesKeeps ==
  ASSUME IAlways, ExitLeaves
  PROVE  IAlways'
<1> USE DEF IAlways
<1>1. /\ job[TAExit].at = "leaving" /\ Signal
      /\ job' = [job EXCEPT ![TAExit].at = "ended"]
      /\ UNCHANGED <<mutex_mcp, mcpVars, mcFault, results, sent, threadVars,
                     swdVars, closing>>
  BY DEF ExitLeaves
<1>2. Moves(TAExit, "ended", job[TAExit].cmd)
  BY <1>1, Constants, MovesAt DEF Places
<1>3. /\ job'[TAExit].at = "ended" /\ job'[TAExit].cmd = job[TAExit].cmd
      /\ job' \in [Threads -> Job] /\ (IsToken(TAExit)' <=> IsToken(TAExit))
      /\ ~Written(TAExit)' /\ ~Busy(TAExit)'
      /\ \A u \in Threads \ {TAExit} : job'[u] = job[u]
  <2>1. TAExit \in Threads
    BY Constants
  <2> QED
    BY <1>2, <2>1 DEF Moves, IsToken, Written, Busy, Joining
<1>4. TypeOK'
  BY <1>1, <1>3, SignalWakes, TypesKept DEF TypeOK, mcpVars, threadVars, swdVars
<1>5. Others(TAExit)
  BY <1>1, <1>3, SignalWakes DEF Others
<1>6. Role(TAExit) /\ (Serving' <=> Serving) /\ terminate
  BY <1>1, Constants DEF Roles, Role, Serving
<1>7. TAExit \notin woken'
  BY <1>1, <1>6, SignalWakes DEF Role
<1>8. Role(TAExit)'
  BY <1>1, <1>3, <1>6, <1>7, Constants DEF Role, Joining, threadVars
<1>9. Roles'
  BY <1>1, <1>5, <1>8, Constants, RolesStep DEF threadVars
<1>10. OneLoader'
  BY <1>1, <1>3, <1>5, Constants, LoaderStep
<1>11. Mine'
  BY <1>1, <1>3, <1>5, Constants, MineStep DEF Mine, mcpVars
<1> QED
  BY <1>4, <1>9, <1>10, <1>11

LEMMA CloseOldKeeps ==
  ASSUME IAlways, CloseOld
  PROVE  IAlways'
<1> USE DEF IAlways
<1> DEFINE cmd == [id |-> "CLOSE", of |-> closing]
<1>1. /\ ~Serving /\ job[Main].at = "idle"
      /\ job' = [job EXCEPT ![Main] = [at |-> "writing", cmd |-> cmd, left |-> Retries]]
      /\ results' = [results EXCEPT ![Main] = {}]
      /\ UNCHANGED <<mutex_mcp, mcpVars, semVars, mcFault, sent, threadVars,
                     swdVars, closing>>
  BY DEF CloseOld
<1>2. cmd \in Commands /\ cmd.id = "CLOSE" /\ "writing" \in Places
  <2>1. closing \in OldSessions
    BY <1>1, Numbers, Constants DEF Serving, OldSessions
  <2> QED
    BY <2>1 DEF Commands, Ids, Places
<1> HIDE DEF cmd
<1>3. Moves(Main, "writing", cmd)
  BY <1>1, <1>2, Constants, MovesTo
<1>4. /\ job'[Main].at = "writing" /\ job'[Main].cmd = cmd /\ job' \in [Threads -> Job]
      /\ ~IsToken(Main)' /\ ~Written(Main)' /\ job'[Main].left # 0
      /\ \A u \in Threads \ {Main} : job'[u] = job[u]
  <2>1. Main \in Threads
    BY Constants
  <2> QED
    BY <1>2, <1>3, <2>1 DEF Moves, IsToken, Written, Busy, Joining
<1>5. /\ results' \in [Threads -> SUBSET {"mine", "another's", "unanswered", "token"}]
      /\ results'[Main] = {} /\ \A u \in Threads \ {Main} : results'[u] = results[u]
  BY <1>1, Constants DEF TypeOK
<1>6. TypeOK'
  BY <1>1, <1>4, <1>5, TypesKept DEF TypeOK, mcpVars, semVars, threadVars, swdVars
<1>7. Others(Main)
  BY <1>1, <1>4, <1>5 DEF Others, semVars
<1>8. Role(Main) /\ (Serving' <=> Serving)
  BY <1>1, Constants DEF Roles, Serving
<1>9. Role(Main)'
  BY <1>1, <1>4, <1>5, <1>8, Constants DEF Role, Joining, cmd, semVars
<1>10. Roles'
  BY <1>1, <1>7, <1>9, Constants, RolesStep DEF threadVars
<1>11. OneLoader'
  BY <1>4, <1>7, Constants, LoaderStep
<1>12. Mine'
  BY <1>1, <1>4, <1>5, <1>7, Constants, MineStep DEF mcpVars
<1> QED
  BY <1>6, <1>10, <1>11, <1>12

LEMMA LockKeeps ==
  ASSUME IAlways, NEW t \in Threads, Lock(t)
  PROVE  IAlways'
<1> USE DEF IAlways
<1>1. /\ job[t].at = "locking" /\ mutex_mcp = NULL /\ mutex_mcp' = t
      /\ job' = [job EXCEPT ![t].at = "writing"]
      /\ UNCHANGED <<mcpVars, semVars, mcFault, results, sent, threadVars,
                     swdVars, closing>>
  BY DEF Lock
<1>2. Role(t) /\ (Serving' <=> Serving)
  BY <1>1 DEF Roles, Serving
<1>3. Moves(t, "writing", job[t].cmd)
  BY <1>1, <1>2, MovesAt DEF Places, Role
<1>4. /\ job'[t].at = "writing" /\ job'[t].cmd = job[t].cmd /\ job' \in [Threads -> Job]
      /\ (IsToken(t)' <=> IsToken(t)) /\ ~Written(t)' /\ job'[t].left # 0
      /\ \A u \in Threads \ {t} : job'[u] = job[u]
  BY <1>3 DEF Moves, IsToken, Written, Busy, Joining
<1>5. TypeOK'
  BY <1>1, <1>4, TypesKept DEF TypeOK, mcpVars, semVars, threadVars, swdVars
<1>6. Others(t)
  BY <1>1, <1>4, Constants DEF Others, semVars
<1>7. Role(t)'
  BY <1>1, <1>2, <1>4 DEF Role, Joining, semVars, threadVars, IsToken
<1>8. Roles'
  BY <1>1, <1>6, <1>7, RolesStep DEF threadVars
<1>9. OneLoader'
  BY <1>1, <1>4, <1>6, LoaderStep
<1>10. Mine'
  BY <1>1, <1>4, <1>6, MineStep DEF Mine, mcpVars
<1> QED
  BY <1>5, <1>8, <1>9, <1>10

\* Two threads are in exchanges only when one of them loads a token.
LEMMA Overlap ==
  ASSUME TypeOK, Roles, OneLoader, NEW t \in Threads, NEW u \in Threads,
         Busy(t), Busy(u), IsToken(t) <=> IsToken(u)
  PROVE  t = u
<1>1. Role(t) /\ Role(u)
  BY DEF Roles
<1>2. job[t].at # "idle" /\ job[u].at # "idle"
  BY DEF Busy, Written, Joining
<1>3. CASE IsToken(t)
  BY <1>2, <1>3 DEF OneLoader
<1>4. CASE ~IsToken(t)
  <2>1. t = Main <=> u = Main
    BY <1>1, <1>2 DEF Role, Threads
  <2> QED
    BY <1>1, <1>4, <2>1 DEF Role
<1> QED
  BY <1>3, <1>4

LEMMA WriteKeeps ==
  ASSUME IAlways, NEW t \in Threads, Write(t)
  PROVE  IAlways'
<1> USE DEF IAlways
<1>1. /\ job[t].at = "writing" /\ mcpMessage' = [kind |-> "cmd", cmd |-> job[t].cmd]
      /\ job' = [job EXCEPT ![t].at = "notifying"]
      /\ UNCHANGED <<mutex_mcp, nqOut, nqIn, semVars, mcFault, results, sent,
                     threadVars, swdVars, closing>>
  BY DEF Write
<1>2. Role(t) /\ (Serving' <=> Serving)
  BY <1>1 DEF Roles, Serving
<1>3. Busy(t) /\ job[t].left # 0
  BY <1>1, <1>2 DEF Busy, Role
<1>4. Moves(t, "notifying", job[t].cmd)
  BY <1>1, <1>3, MovesAt DEF Places
<1>5. /\ job'[t].at = "notifying" /\ job'[t].cmd = job[t].cmd /\ job' \in [Threads -> Job]
      /\ (IsToken(t)' <=> IsToken(t)) /\ job'[t].left # 0
      /\ \A u \in Threads \ {t} : job'[u] = job[u]
  BY <1>4 DEF Moves, IsToken, Written, Busy, Joining
<1>6. mcpMessage' \in [kind : {"none", "cmd", "rsp"}, cmd : Commands] /\ mcpMessage'.cmd = job[t].cmd
  BY <1>1, Fields
<1>7. TypeOK'
  BY <1>1, <1>5, <1>6, TypesKept DEF TypeOK, semVars, threadVars, swdVars
<1>8. Others(t)
  BY <1>1, <1>5 DEF Others, semVars
<1>9. Role(t)'
  BY <1>1, <1>2, <1>3, <1>5 DEF Role, Joining, semVars, threadVars, IsToken
<1>10. Roles'
  BY <1>1, <1>8, <1>9, RolesStep DEF threadVars
<1>11. OneLoader'
  BY <1>1, <1>5, <1>8, LoaderStep
<1>12. Mine'
  <2> SUFFICES ASSUME NEW u \in Threads
               PROVE  /\ Written(u)' /\ (mcpMessage'.cmd.id = "TOKEN" <=> IsToken(u)') =>
                           mcpMessage'.cmd = job'[u].cmd
                      /\ "another's" \notin results'[u]
    BY DEF Mine
  <2>1. "another's" \notin results'[u]
    BY <1>1 DEF Mine
  <2>2. CASE u = t
    BY <1>5, <1>6, <2>1, <2>2
  <2>3. CASE u # t
    <3>1. job'[u] = job[u]
      BY <1>5, <2>3
    <3>2. (Written(u)' <=> Written(u)) /\ (IsToken(u)' <=> IsToken(u))
      BY <3>1 DEF Written, IsToken
    <3>3. ~(Written(u) /\ (IsToken(t) <=> IsToken(u)))
      BY <1>3, <2>3, Overlap DEF Busy
    <3> QED
      BY <1>6, <2>1, <3>2, <3>3 DEF IsToken
  <2> QED
    BY <2>2, <2>3
<1> QED
  BY <1>7, <1>10, <1>11, <1>12

LEMMA NotifyKeeps ==
  ASSUME IAlways, NEW t \in Threads, Notify(t)
  PROVE  IAlways'
<1> USE DEF IAlways
<1>1. /\ job[t].at = "notifying"
      /\ nqOut' = IF nqOut < NqSize THEN nqOut + 1 ELSE nqOut
      /\ job' = [job EXCEPT ![t].at = "testing"]
      /\ UNCHANGED <<mutex_mcp, mcpMessage, nqIn, semVars, mcFault, results, sent,
                     threadVars, swdVars, closing>>
  BY DEF Notify
<1>2. Role(t) /\ Written(t) /\ job[t].left # 0
  BY <1>1 DEF Roles, Written, Role, Busy
<1>3. Moves(t, "testing", job[t].cmd) /\ "testing" \in Places
  BY <1>1, <1>2, MovesAt DEF Places
<1>4. Written(t)' /\ job' \in [Threads -> Job]
  BY <1>3 DEF Moves, Written
<1>5. nqOut' \in 0..NqSize
  BY <1>1, Numbers, Constants
<1>6. TypeOK'
  BY <1>1, <1>4, <1>5, TypesKept DEF TypeOK, semVars, threadVars, swdVars
<1>7. t \notin woken
  BY <1>1, <1>2 DEF Role
<1> QED
  BY <1>1, <1>2, <1>3, <1>4, <1>6, <1>7, GoOn DEF semVars, threadVars, Joining

LEMMA TestSemaphoreKeeps ==
  ASSUME IAlways, NEW t \in Threads, TestSemaphore(t)
  PROVE  IAlways'
<1> USE DEF IAlways
<1>1. job[t].at = "testing" /\ UNCHANGED <<mcpVars, woken, mcFault, sent, threadVars, swdVars>>
  BY DEF TestSemaphore
<1>2. Role(t) /\ Written(t) /\ job[t].left # 0 /\ job[t].at # "idle"
  BY <1>1 DEF Roles, Written, Role, Busy
<1>3. t \notin woken
  BY <1>1, <1>2 DEF Role
<1>4. CASE Return(t, "unanswered") /\ UNCHANGED m_count
  <2>1. Over(t, "unanswered")
    BY <1>2, <1>4, ReturnEnds
  <2>2. job' \in [Threads -> Job]
    BY <2>1 DEF Over, Moves
  <2>3. TypeOK'
    BY <1>1, <1>4, <2>1, <2>2, TypesKept DEF TypeOK, Over, mcpVars, threadVars, swdVars
  <2> QED
    BY <1>1, <1>2, <1>3, <2>1, <2>3, OverKeeps DEF mcpVars, threadVars
<1>5. ASSUME NEW at \in {"checking", "waiting"}, job' = [job EXCEPT ![t].at = at],
             m_count' \in Int, UNCHANGED <<mutex_mcp, results, closing>>
      PROVE  IAlways'
  <2>1. Moves(t, at, job[t].cmd) /\ at \in Places
    BY <1>2, <1>5, MovesAt DEF Places
  <2>2. Written(t)' /\ job' \in [Threads -> Job]
    BY <2>1 DEF Moves, Written
  <2>3. TypeOK'
    BY <1>1, <1>5, <2>2, TypesKept DEF TypeOK, mcpVars, threadVars, swdVars
  <2> QED
    BY <1>1, <1>2, <1>3, <1>5, <2>1, <2>2, <2>3, GoOn DEF mcpVars, threadVars, Joining
<1>6. CASE /\ m_count' = m_count - 1 /\ job' = [job EXCEPT ![t].at = "checking"]
           /\ UNCHANGED <<mutex_mcp, results, closing>>
  BY <1>5, <1>6, Numbers
<1>7. CASE /\ job' = [job EXCEPT ![t].at = "waiting"]
           /\ UNCHANGED <<m_count, mutex_mcp, results, closing>>
  BY <1>5, <1>7, Numbers
<1> QED
  BY <1>4, <1>6, <1>7 DEF TestSemaphore

LEMMA WakeUpKeeps ==
  ASSUME IAlways, NEW t \in Threads, WakeUp(t)
  PROVE  IAlways'
<1> USE DEF IAlways
<1>1. /\ job[t].at = "waiting" /\ m_count' = m_count - 1 /\ woken' = woken \ {t}
      /\ job' = [job EXCEPT ![t].at = "checking"]
      /\ UNCHANGED <<mutex_mcp, mcpVars, mcFault, results, sent, threadVars,
                     swdVars, closing>>
  BY DEF WakeUp
<1>2. Role(t) /\ Written(t) /\ job[t].left # 0
  BY <1>1 DEF Roles, Written, Role, Busy
<1>3. Moves(t, "checking", job[t].cmd) /\ "checking" \in Places
  BY <1>1, <1>2, MovesAt DEF Places
<1>4. Written(t)' /\ job' \in [Threads -> Job] /\ m_count' \in Int
  BY <1>1, <1>3, Numbers DEF Moves, Written
<1>5. TypeOK'
  BY <1>1, <1>4, TypesKept DEF TypeOK, mcpVars, threadVars, swdVars
<1> QED
  BY <1>1, <1>2, <1>3, <1>4, <1>5, GoOn DEF mcpVars, threadVars, Joining

LEMMA TimeOutKeeps ==
  ASSUME IAlways, NEW t \in Threads, TimeOut(t)
  PROVE  IAlways'
<1> USE DEF IAlways
<1>1. /\ job[t].at = "waiting" /\ woken' = woken \ {t}
      /\ UNCHANGED <<mcpVars, m_count, sent, threadVars, swdVars>>
  BY DEF TimeOut
<1>2. Role(t) /\ Written(t) /\ job[t].left # 0 /\ job[t].at # "idle"
  BY <1>1 DEF Roles, Written, Role, Busy
<1>3. CASE halted \/ job[t].left = 1
  <2>1. mcFault' = TRUE /\ Return(t, "unanswered")
    BY <1>3 DEF TimeOut
  <2>2. Over(t, "unanswered")
    BY <1>2, <2>1, ReturnEnds
  <2>3. job' \in [Threads -> Job]
    BY <2>2 DEF Over, Moves
  <2>4. TypeOK'
    BY <1>1, <2>1, <2>2, <2>3, TypesKept DEF TypeOK, Over, mcpVars, threadVars, swdVars
  <2> QED
    BY <1>1, <1>2, <2>2, <2>4, OverKeeps DEF mcpVars, threadVars
<1>4. CASE ~(halted \/ job[t].left = 1)
  <2> DEFINE left == job[t].left - 1
  <2>1. /\ job' = [job EXCEPT ![t].at = "testing", ![t].left = left]
        /\ UNCHANGED <<mcFault, mutex_mcp, results, closing>>
    BY <1>4, JobType DEF TimeOut, Job
  <2>2. left \in 0..Retries /\ left # 0 /\ "testing" \in Places
    BY <1>2, <1>4, Fields, Constants DEF Places
  <2>3. Moves(t, "testing", job[t].cmd)
    BY <2>1, <2>2, MovesBack
  <2>4. Written(t)' /\ job' \in [Threads -> Job]
    BY <2>3 DEF Moves, Written
  <2>5. TypeOK'
    BY <1>1, <2>1, <2>4, TypesKept DEF TypeOK, mcpVars, threadVars, swdVars
  <2> QED
    BY <1>1, <1>2, <2>1, <2>2, <2>3, <2>4, <2>5, GoOn DEF mcpVars, threadVars, Joining
<1> QED
  BY <1>3, <1>4

LEMMA CheckThreadsKeeps ==
  ASSUME IAlways, NEW t \in Threads, CheckThreads(t)
  PROVE  IAlways'
<1> USE DEF IAlways
<1>1. /\ job[t].at = "checking"
      /\ UNCHANGED <<mutex_mcp, mcpVars, semVars, mcFault, results, sent, irq,
                     scheduler, killed, swdVars, closing>>
  BY DEF CheckThreads
<1>2. Role(t) /\ Written(t) /\ job[t].left # 0
  BY <1>1 DEF Roles, Written, Role, Busy
<1>3. t \notin woken
  BY <1>1, <1>2 DEF Role
<1>4. CASE Healthy
  <2>1. job' = [job EXCEPT ![t].at = "reading"] /\ UNCHANGED <<terminate, exitWakeups>>
    BY <1>4 DEF CheckThreads
  <2>2. Moves(t, "reading", job[t].cmd) /\ "reading" \in Places
    BY <1>2, <2>1, MovesAt DEF Places
  <2>3. Written(t)' /\ job' \in [Threads -> Job]
    BY <2>2 DEF Moves, Written
  <2>4. TypeOK'
    BY <1>1, <2>1, <2>3, TypesKept DEF TypeOK, mcpVars, semVars, swdVars
  <2> QED
    BY <1>1, <1>2, <1>3, <2>1, <2>2, <2>3, <2>4, GoOn DEF mcpVars, semVars, Joining
<1>5. CASE ~Healthy
  <2>1. /\ job' = [job EXCEPT ![t].at = "joining irq"]
        /\ terminate' = TRUE /\ exitWakeups' = exitWakeups + 1
    BY <1>5 DEF CheckThreads
  <2>2. Moves(t, "joining irq", job[t].cmd) /\ "joining irq" \in Places
    BY <1>2, <2>1, MovesAt DEF Places, Joining
  <2>3. Written(t)' /\ job' \in [Threads -> Job] /\ exitWakeups' \in Nat
    <3>1. exitWakeups \in Nat /\ exitWakeups' = exitWakeups + 1
      BY <2>1, Numbers
    <3>2. exitWakeups' \in Nat
      BY <3>1
    <3>3. Written(t)' /\ job' \in [Threads -> Job]
      BY <2>2 DEF Moves, Written, Joining
    <3> QED
      BY <3>2, <3>3
  <2>4. TypeOK'
    BY <1>1, <2>1, <2>3, TypesKept DEF TypeOK, mcpVars, semVars, swdVars
  <2>5. terminate'
    BY <2>1
  <2> QED
    BY <1>1, <1>2, <1>3, <2>2, <2>3, <2>4, <2>5, GoOn DEF mcpVars, semVars
<1> QED
  BY <1>4, <1>5

LEMMA JoinKeeps ==
  ASSUME IAlways, NEW t \in Threads, JoinIrq(t) \/ JoinScheduler(t)
  PROVE  IAlways'
<1> USE DEF IAlways
<1>1. PICK at \in {"joining scheduler", "joining exit handler"} :
        job' = [job EXCEPT ![t].at = at]
  BY DEF JoinIrq, JoinScheduler
<1>2. /\ job[t].at \in Joining
      /\ UNCHANGED <<mutex_mcp, mcpVars, semVars, mcFault, results, sent,
                     threadVars, swdVars, closing>>
  BY DEF JoinIrq, JoinScheduler, Joining
<1>3. Role(t) /\ Written(t) /\ job[t].left # 0
  BY <1>2 DEF Roles, Written, Role, Busy
<1>4. Moves(t, at, job[t].cmd) /\ at \in Places
  BY <1>1, <1>3, MovesAt DEF Places, Joining
<1>5. /\ Written(t)' /\ job' \in [Threads -> Job] /\ t \notin woken /\ terminate
  BY <1>2, <1>3, <1>4 DEF Moves, Written, Joining, Role
<1>6. TypeOK'
  BY <1>2, <1>5, TypesKept DEF TypeOK, mcpVars, semVars, threadVars, swdVars
<1> QED
  BY <1>2, <1>3, <1>4, <1>5, <1>6, GoOn DEF mcpVars, semVars, threadVars

\* What ReadAnswer returns is the answer to the thread's own command.
LEMMA ReadsMine ==
  ASSUME TypeOK, Mine, NEW t \in Threads, ReadAnswer(t)
  PROVE  \/ mcpMessage.kind = "rsp" /\ mcpMessage.cmd = job[t].cmd /\ Return(t, "mine")
         \/ /\ Return(t, "unanswered")
            /\ mcpMessage.kind # "rsp" \/ mcpMessage.cmd.id # job[t].cmd.id
<1>1. CASE mcpMessage.kind # "rsp" \/ mcpMessage.cmd.id # job[t].cmd.id
  BY <1>1 DEF ReadAnswer
<1>2. CASE mcpMessage.kind = "rsp" /\ mcpMessage.cmd.id = job[t].cmd.id
  <2>1. mcpMessage.cmd = job[t].cmd
    BY <1>2 DEF ReadAnswer, Mine, Written, IsToken
  <2> QED
    BY <1>2, <2>1 DEF ReadAnswer
<1> QED
  BY <1>1, <1>2

LEMMA ReadAnswerKeeps ==
  ASSUME IAlways, NEW t \in Threads, ReadAnswer(t) \/ JoinExitHandler(t)
  PROVE  IAlways'
<1> USE DEF IAlways
<1>1. PICK result \in {"mine", "unanswered"} : Return(t, result)
  BY ReadsMine DEF JoinExitHandler
<1>2. /\ job[t].at \in {"reading", "joining exit handler"}
      /\ UNCHANGED <<mcpVars, semVars, mcFault, sent, threadVars, swdVars>>
  BY DEF ReadAnswer, JoinExitHandler
<1>3. Role(t) /\ Written(t) /\ job[t].at # "idle"
  BY <1>2 DEF Roles, Written, Joining
<1>4. Over(t, result)
  BY <1>1, <1>3, ReturnEnds
<1>5. job' \in [Threads -> Job] /\ t \notin woken
  BY <1>2, <1>3, <1>4 DEF Over, Moves, Role
<1>6. TypeOK'
  BY <1>2, <1>4, <1>5, TypesKept DEF TypeOK, Over, mcpVars, semVars, threadVars, swdVars
<1> QED
  BY <1>2, <1>3, <1>4, <1>5, <1>6, OverKeeps DEF mcpVars, semVars, threadVars

LEMMA DeviceKeeps ==
  ASSUME IAlways, IrqSignals \/ IrqFails \/ IrqEnds \/ SchedulerEnds
  PROVE  IAlways'
<1> USE DEF IAlways
<1>1. CASE IrqSignals
  <2>1. /\ nqIn > 0 /\ nqIn' = nqIn - 1 /\ Signal
        /\ UNCHANGED <<mutex_mcp, mcpMessage, nqOut, mcFault, job, results, sent,
                       threadVars, swdVars, closing>>
    BY <1>1 DEF IrqSignals
  <2>2. nqIn' \in 0..NqSize /\ job' \in [Threads -> Job]
    BY <2>1, Numbers, Constants, JobType
  <2>3. TypeOK'
    BY <2>1, <2>2, SignalWakes, TypesKept DEF TypeOK, threadVars, swdVars
  <2> QED
    BY <2>1, <2>3, SignalWakes, StayKeeps DEF threadVars
<1>2. CASE IrqFails
  <2>1. /\ irq' = "exiting" /\ Signal
        /\ UNCHANGED <<mutex_mcp, mcpVars, mcFault, job, results, sent, scheduler,
                       terminate, killed, exitWakeups, swdVars, closing>>
    BY <1>2 DEF IrqFails
  <2>2. TypeOK'
    BY <2>1, JobType, SignalWakes, TypesKept DEF TypeOK, mcpVars, swdVars
  <2> QED
    BY <2>1, <2>2, SignalWakes, StayKeeps DEF mcpVars
<1>3. CASE IrqEnds
  <2>1. /\ irq' = "ended" /\ killed' = ~terminate
        /\ UNCHANGED <<mutex_mcp, mcpVars, semVars, mcFault, job, results, sent,
                       scheduler, terminate, exitWakeups, swdVars, closing>>
    BY <1>3 DEF IrqEnds
  <2>2. killed' \in BOOLEAN
    BY <2>1
  <2>3. TypeOK'
    BY <2>1, <2>2, JobType, TypesKept DEF TypeOK, mcpVars, semVars, swdVars
  <2> QED
    BY <2>1, <2>3, StayKeeps DEF mcpVars, semVars
<1>4. CASE SchedulerEnds
  <2>1. /\ scheduler' = "ended"
        /\ UNCHANGED <<mutex_mcp, mcpVars, semVars, mcFault, job, results, sent,
                       irq, terminate, killed, exitWakeups, swdVars, closing>>
    BY <1>4 DEF SchedulerEnds
  <2>2. TypeOK'
    BY <2>1, JobType, TypesKept DEF TypeOK, mcpVars, semVars, swdVars
  <2> QED
    BY <2>1, <2>2, StayKeeps DEF mcpVars, semVars
<1> QED
  BY <1>1, <1>2, <1>3, <1>4

\* The SWd answers the command in the buffer.
LEMMA SwdAnswersIs ==
  ASSUME TypeOK, SwdAnswers
  PROVE  /\ mcpMessage' \in [kind : {"none", "cmd", "rsp"}, cmd : Commands]
         /\ mcpMessage.kind = "cmd" /\ mcpMessage'.kind = "rsp"
         /\ mcpMessage'.cmd = mcpMessage.cmd
         /\ nqOut > 0 /\ nqOut' = nqOut - 1 /\ nqIn < NqSize /\ nqIn' = nqIn + 1
         /\ nqOut' \in 0..NqSize /\ nqIn' \in 0..NqSize
         /\ old' \subseteq old
         /\ mcpMessage.cmd.id = "CLOSE" => mcpMessage.cmd.of \notin old'
<1>1. /\ mcpMessage' \in [kind : {"none", "cmd", "rsp"}, cmd : Commands]
      /\ mcpMessage.kind = "cmd" /\ mcpMessage'.kind = "rsp"
      /\ mcpMessage'.cmd = mcpMessage.cmd
  BY DEF SwdAnswers, TypeOK
<1>2. nqOut > 0 /\ nqOut' = nqOut - 1 /\ nqIn < NqSize /\ nqIn' = nqIn + 1
  BY DEF SwdAnswers
<1>3. nqOut' \in 0..NqSize /\ nqIn' \in 0..NqSize
  BY <1>2, Numbers, Constants
<1>4. old' = IF mcpMessage.cmd.id = "CLOSE" THEN old \ {mcpMessage.cmd.of} ELSE old
  BY DEF SwdAnswers
<1> QED
  BY <1>1, <1>2, <1>3, <1>4

LEMMA SwdKeeps ==
  ASSUME IAlways, Swd
  PROVE  IAlways'
<1> USE DEF IAlways
<1>1. CASE SwdAnswers
  <2>1. UNCHANGED <<mutex_mcp, semVars, mcFault, job, results, sent, threadVars,
                    halted, mciReused, closing>>
    BY <1>1 DEF SwdAnswers
  <2>2. old' \subseteq OldSessions
    BY <1>1, SwdAnswersIs DEF TypeOK
  <2>3. TypeOK'
    BY <1>1, <2>1, <2>2, SwdAnswersIs, JobType, TypesKept DEF TypeOK, semVars, threadVars
  <2> QED
    BY <1>1, <2>1, <2>3, SwdAnswersIs, StayKeeps DEF semVars, threadVars
<1>2. CASE SwdFindsNoCommand
  <2>1. /\ nqOut > 0 /\ nqOut' = nqOut - 1
        /\ UNCHANGED <<mutex_mcp, mcpMessage, nqIn, semVars, mcFault, job, results,
                       sent, threadVars, swdVars, closing>>
    BY <1>2 DEF SwdFindsNoCommand
  <2>2. nqOut' \in 0..NqSize
    BY <2>1, Numbers, Constants
  <2>3. TypeOK'
    BY <2>1, <2>2, JobType, TypesKept DEF TypeOK, semVars, threadVars, swdVars
  <2> QED
    BY <2>1, <2>3, StayKeeps DEF semVars, threadVars
<1>3. CASE SwdHalts
  <2>1. /\ halted' = TRUE
        /\ UNCHANGED <<mutex_mcp, mcpVars, semVars, mcFault, job, results, sent,
                       threadVars, old, mciReused, closing>>
    BY <1>3 DEF SwdHalts
  <2>2. TypeOK'
    BY <2>1, JobType, TypesKept DEF TypeOK, mcpVars, semVars, threadVars
  <2> QED
    BY <2>1, <2>2, StayKeeps DEF mcpVars, semVars, threadVars
<1>4. CASE TaEnds
  <2>1. /\ Serving /\ sent < MaxCommands /\ sent' = sent + 1
        /\ exitWakeups' = exitWakeups + 1
        /\ UNCHANGED <<mutex_mcp, mcpVars, semVars, mcFault, job, results, irq,
                       scheduler, terminate, killed, swdVars, closing>>
    BY <1>4 DEF TaEnds
  <2>2. sent' \in 0..MaxCommands /\ exitWakeups' \in Nat
    BY <2>1, Numbers, Constants
  <2>3. TypeOK'
    BY <2>1, <2>2, JobType, TypesKept DEF TypeOK, mcpVars, semVars, swdVars
  <2> QED
    BY <2>1, <2>3, StayKeeps DEF mcpVars, semVars
<1> QED
  BY <1>1, <1>2, <1>3, <1>4 DEF Swd

LEMMA AlwaysStep ==
  ASSUME IAlways, [Next]_vars
  PROVE  IAlways'
<1>1. CASE UNCHANGED vars
  <2>1. UNCHANGED <<mutex_mcp, mcpVars, semVars, mcFault, job, results, sent,
                    threadVars, swdVars, closing>>
    BY <1>1 DEF vars, mcpVars, semVars, threadVars, swdVars
  <2>2. TypeOK'
    BY <2>1, JobType, TypesKept DEF IAlways, TypeOK, mcpVars, semVars, threadVars, swdVars
  <2> QED
    BY <2>1, <2>2, StayKeeps DEF mcpVars, semVars, threadVars
<1>2. ASSUME NEW t \in Threads, Begin(t) \/ Exchange(t) \/ Waits(t)
      PROVE  IAlways'
  BY <1>2, BeginKeeps, LockKeeps, WriteKeeps, NotifyKeeps, TestSemaphoreKeeps, WakeUpKeeps,
     TimeOutKeeps, CheckThreadsKeeps, JoinKeeps, ReadAnswerKeeps DEF Exchange, Waits
<1>3. CASE CloseOld \/ DeviceThreads \/ IrqFails \/ SchedulerEnds \/ Swd
  BY <1>3, CloseOldKeeps, ExitWakesKeeps, ExitLeavesKeeps, DeviceKeeps, SwdKeeps
     DEF DeviceThreads
<1> QED
  BY <1>1, <1>2, <1>3 DEF Next

LEMMA AlwaysInit == Init => IAlways
<1> SUFFICES ASSUME Init PROVE IAlways
  OBVIOUS
<1>1. \A t \in Threads :
        /\ job[t] = [at |-> "idle", cmd |-> NoCommand, left |-> 0]
        /\ results[t] = {} /\ ~Written(t) /\ ~Busy(t) /\ ~IsToken(t)
  BY Constants DEF Init, Written, Busy, IsToken, Joining
<1>2. /\ mcpMessage \in [kind : {"none", "cmd", "rsp"}, cmd : Commands]
      /\ nqOut \in 0..NqSize /\ nqIn \in 0..NqSize
  <2>1. PICK c \in [id : {"SESSION", "CLOSE"}, of : OldSessions] :
          /\ \E k \in {"none", "cmd", "rsp"} :
               \/ mcpMessage = [kind |-> k, cmd |-> NoCommand]
               \/ mcpMessage = [kind |-> k, cmd |-> c]
          /\ nqOut \in 0..1 /\ nqIn \in 0..1
    BY DEF Init
  <2>2. c \in Commands /\ NoCommand \in Commands
    BY Constants DEF Commands, Ids
  <2> QED
    BY <2>1, <2>2, Constants
<1>3. closing \in 1..(OldCount + 1) /\ old \subseteq OldSessions
  BY Constants DEF Init
<1>4. TypeOK
  <2>1. job \in [Threads -> Job]
    BY Constants DEF Init, Job, Places
  <2>2. results \in [Threads -> SUBSET {"mine", "another's", "unanswered", "token"}]
    BY DEF Init
  <2> QED
    <3>1. mutex_mcp = NULL /\ m_count = 0 /\ woken = {} /\ sent = 0 /\ exitWakeups = 0
      BY DEF Init
    <3>2. irq = "running" /\ scheduler = "running"
      BY DEF Init
    <3>3. {mcFault, terminate, killed, halted, mciReused} \subseteq BOOLEAN
      BY DEF Init
    <3>4. sent \in 0..MaxCommands
      BY <3>1, Constants
    <3>5. job \in [Threads -> [at : {"idle", "locking", "writing", "notifying", "testing",
                                    "waiting", "checking", "reading", "joining irq",
                                    "joining scheduler", "joining exit handler",
                                    "leaving", "ended"},
                              cmd : Commands, left : 0..Retries]]
      BY <2>1 DEF Job, Places, Joining
    <3>6. /\ mutex_mcp \in Threads \cup {NULL} /\ m_count \in Int
          /\ woken \in SUBSET Threads /\ exitWakeups \in Nat
      BY <3>1
    <3> QED
      BY <1>2, <1>3, <2>2, <3>2, <3>3, <3>4, <3>5, <3>6 DEF TypeOK
<1>5. Roles
  BY <1>1, Constants DEF Init, Roles, Role, Joining
<1> QED
  BY <1>1, <1>4, <1>5 DEF IAlways, OneLoader, Mine

-----------------------------------------------------------------------------
(* The waits and the answers stay in step.                                 *)

\* What a step cannot undo.
LEMMA Sticky ==
  ASSUME IAlways, Next
  PROVE  /\ mcFault => mcFault'
         /\ terminate => terminate'
         /\ mciReused' = mciReused
         /\ irq' = "running" => irq = "running"
         /\ Serving /\ TokenLoaded => TokenLoaded'
<1> USE DEF IAlways, mcpVars, semVars, threadVars, swdVars
<1>1. ASSUME NEW t \in Threads, Return(t, "mine") \/ Return(t, "another's")
                                  \/ Return(t, "unanswered")
      PROVE  \A u \in Threads : results[u] \subseteq results'[u]
  <2>1. \E r \in {"mine", "another's", "unanswered"} :
          results' = [results EXCEPT ![t] = @ \cup {r}]
    BY <1>1 DEF Return
  <2> QED
    BY <2>1 DEF TypeOK
<1>2. ASSUME NEW t \in Threads, Begin(t) \/ Exchange(t) \/ Waits(t)
      PROVE  /\ mcFault => mcFault'
             /\ terminate => terminate'
             /\ mciReused' = mciReused /\ irq' = irq
             /\ \A u \in Threads : results[u] \subseteq results'[u]
  <2>1. CASE Begin(t)
    <3>1. PICK id \in Does[t] :
            results' = [results EXCEPT ![t] = IF id = "TOKEN" THEN @ \cup {"token"} ELSE @]
      BY <2>1 DEF Begin
    <3>2. \A u \in Threads : results[u] \subseteq results'[u]
      BY <3>1 DEF TypeOK
    <3>3. UNCHANGED <<mcFault, threadVars, swdVars>>
      BY <2>1 DEF Begin
    <3> QED
      BY <3>2, <3>3
  <2>2. CASE Lock(t) \/ Write(t) \/ Notify(t) \/ JoinIrq(t) \/ JoinScheduler(t)
    <3>1. UNCHANGED <<mcFault, results, threadVars, swdVars>>
      BY <2>2 DEF Lock, Write, Notify, JoinIrq, JoinScheduler
    <3> QED
      BY <3>1
  <2>3. CASE TestSemaphore(t)
    BY <1>1, <2>3 DEF TestSemaphore
  <2>4. CASE CheckThreads(t)
    BY <2>4 DEF CheckThreads
  <2>5. CASE JoinExitHandler(t)
    BY <1>1, <2>5 DEF JoinExitHandler
  <2>6. CASE ReadAnswer(t)
    <3>1. Return(t, "mine") \/ Return(t, "unanswered")
      BY <2>6, ReadsMine
    <3> QED
      BY <1>1, <2>6, <3>1 DEF ReadAnswer
  <2>7. CASE WakeUp(t)
    BY <2>7 DEF WakeUp
  <2>8. CASE TimeOut(t)
    BY <1>1, <2>8 DEF TimeOut
  <2> QED
    BY <1>2, <2>1, <2>2, <2>3, <2>4, <2>5, <2>6, <2>7, <2>8 DEF Exchange, Waits
<1>3. CASE \E t \in Threads : Begin(t) \/ Exchange(t) \/ Waits(t)
  BY <1>2, <1>3 DEF TokenLoaded
<1>4. CASE CloseOld
  BY <1>4 DEF CloseOld
<1>5. CASE DeviceThreads \/ IrqFails \/ SchedulerEnds \/ Swd
  <2>1. results' = results /\ mcFault' = mcFault /\ terminate' = terminate
    BY <1>5 DEF DeviceThreads, IrqSignals, IrqEnds, ExitWakes, ExitLeaves, IrqFails,
         SchedulerEnds, Swd, SwdAnswers, SwdFindsNoCommand, SwdHalts, TaEnds
  <2>2. mciReused' = mciReused /\ (irq' = "running" => irq = "running")
    BY <1>5 DEF DeviceThreads, IrqSignals, IrqEnds, ExitWakes, ExitLeaves, IrqFails,
         SchedulerEnds, Swd, SwdAnswers, SwdFindsNoCommand, SwdHalts, TaEnds
  <2> QED
    BY <2>1, <2>2 DEF TokenLoaded
<1> QED
  BY <1>3, <1>4, <1>5 DEF Next

\* While all is well, one thread at most is in an exchange, and none loads a token.
LEMMA WellBack ==
  ASSUME IAlways, Starting, Next, Well'
  PROVE  Well
BY Sticky DEF Well, Starting

LEMMA Lonely ==
  ASSUME IAlways, Starting, Well
  PROVE  /\ Serving
         /\ job[Main].at = "idle"
         /\ \A t \in Threads : ~IsToken(t)
         /\ \A t, u \in Threads : Busy(t) /\ Busy(u) => t = u
<1> USE DEF IAlways
<1>1. Serving
  BY DEF Well, Starting
<1>2. job[Main].at = "idle"
  BY <1>1, Constants DEF Roles, Role
<1>3. \A t \in Threads : ~IsToken(t)
  BY DEF Well, TokenLoaded, Roles, Role
<1> QED
  BY <1>1, <1>2, <1>3, Overlap

\* A step of the thread in the exchange.
LEMMA PhaseStep ==
  ASSUME IAlways, InStep, Starting, Well, IAlways', NEW t \in Threads, Busy(t),
         Others(t), Phase(t)', mcpMessage'.cmd.id # "TOKEN",
         mcpMessage'.kind = "cmd" => Written(t)',
         irq' = "running" /\ ~Written(t)' => Clear'
  PROVE  InStep'
<1>1. \A u \in Threads \ {t} : ~Busy(u) /\ Phase(u) /\ Role(u)'
  BY Lonely DEF InStep, IAlways, Roles
<1>2. ASSUME NEW u \in Threads \ {t} PROVE Phase(u)' /\ ~Written(u)'
  <2>1. job'[u] = job[u] /\ results'[u] = results[u]
    BY DEF Others
  <2>2. ~Busy(u)'
    BY <1>1, <2>1 DEF Busy, Written
  <2>3. u \notin woken'
    BY <1>1, <2>2 DEF Role, Busy, Written
  <2> QED
    BY <1>1, <2>1, <2>2, <2>3 DEF Phase, Busy, Written
<1> QED
  BY <1>2 DEF InStep

\* A step of a thread outside of an exchange.
LEMMA PhaseOutside ==
  ASSUME IAlways, InStep, Well, IAlways', NEW t \in Threads, ~Written(t), ~Written(t)',
         \A u \in Threads \ {t} : job'[u] = job[u] /\ results'[u] = results[u],
         "unanswered" \notin results'[t],
         UNCHANGED <<mcpVars, semVars, irq>>
  PROVE  InStep'
<1> USE DEF mcpVars, semVars
<1>1. Phase(t)'
  <2>1. Role(t)'
    BY DEF IAlways, Roles
  <2> QED
    BY <2>1 DEF Phase, Role, Written
<1>2. ASSUME NEW u \in Threads \ {t} PROVE Phase(u)' /\ (Written(u)' <=> Written(u))
  <2>1. Phase(u)
    BY DEF InStep
  <2> QED
    BY <2>1 DEF Phase, Written, Clear, Asked, Told
<1>3. Clear' <=> Clear
  BY DEF Clear
<1> QED
  BY <1>1, <1>2, <1>3 DEF InStep

\* A step of none of the threads.
LEMMA PhaseStay ==
  ASSUME IAlways, InStep, Well, UNCHANGED <<job, results>>,
         \A t \in Threads : Phase(t)',
         mcpMessage'.cmd = mcpMessage.cmd,
         mcpMessage'.kind = "cmd" => mcpMessage.kind = "cmd",
         irq' = "running" => irq = "running",
         irq' = "running" /\ Clear /\ (\A t \in Threads : ~Written(t)) => Clear'
  PROVE  InStep'
<1>1. \A t \in Threads : Written(t)' <=> Written(t)
  BY DEF Written
<1> QED
  BY <1>1 DEF InStep

\* The steps of a thread in an exchange.
LEMMA ExchangeInStep ==
  ASSUME IAlways, InStep, Starting, Well, IAlways', Well', "spurious" \notin Failures,
         NEW t \in Threads, Exchange(t) \/ Waits(t)
  PROVE  InStep'
<1> USE DEF mcpVars, semVars, threadVars, swdVars
<1>1. /\ Serving /\ job[Main].at = "idle" /\ ~IsToken(t)
      /\ \A u \in Threads : Busy(u) /\ Busy(t) => u = t
  BY Lonely
<1>2. /\ Phase(t) /\ mcpMessage.cmd.id # "TOKEN" /\ "unanswered" \notin results[t]
      /\ mcpMessage.kind = "cmd" => \E u \in Threads : Written(u)
      /\ irq = "running" /\ (\A u \in Threads : ~Written(u)) => Clear
  BY DEF InStep, Phase
<1>3. TypeOK /\ Role(t) /\ Role(t)'
  BY DEF IAlways, Roles
<1>4. job \in [Threads -> Job] /\ m_count \in Int /\ nqOut \in Nat /\ nqIn \in Nat
      /\ NqSize \in Nat /\ NqSize >= 1
  BY <1>3, JobType, Numbers, Constants
<1>5. CASE Lock(t)
  <2>1. /\ job[t].at = "locking" /\ job' = [job EXCEPT ![t].at = "writing"]
        /\ UNCHANGED <<mcpVars, semVars, mcFault, results, sent, threadVars,
                       swdVars, closing>>
    BY <1>5 DEF Lock
  <2>2. job'[t].at = "writing" /\ \A u \in Threads \ {t} : job'[u] = job[u]
    BY <1>4, <2>1 DEF Job
  <2> QED
    BY <1>2, <2>1, <2>2, PhaseOutside DEF Written, Joining
<1>6. CASE Write(t)
  <2>1. /\ job[t].at = "writing" /\ mcpMessage' = [kind |-> "cmd", cmd |-> job[t].cmd]
        /\ job' = [job EXCEPT ![t].at = "notifying"]
        /\ UNCHANGED <<mutex_mcp, nqOut, nqIn, semVars, mcFault, results, sent,
                       threadVars, swdVars, closing>>
    BY <1>6 DEF Write
  <2>2. job'[t].at = "notifying" /\ \A u \in Threads \ {t} : job'[u] = job[u]
    BY <1>4, <2>1 DEF Job
  <2>3. Busy(t) /\ ~Written(t) /\ Written(t)'
    BY <2>1, <2>2 DEF Busy, Written, Joining
  <2>4. mcpMessage'.kind = "cmd" /\ mcpMessage'.cmd.id # "TOKEN"
    BY <1>1, <2>1 DEF IsToken
  <2>5. irq = "running" => Clear /\ Clear'
    BY <1>1, <1>2, <2>1, <2>3 DEF Busy, Clear
  <2>6. Phase(t)'
    BY <1>2, <1>3, <2>1, <2>2, <2>4, <2>5 DEF Phase, Role
  <2>7. Others(t)
    BY <2>1, <2>2 DEF Others
  <2> QED
    BY <2>3, <2>4, <2>6, <2>7, PhaseStep
<1>7. CASE Notify(t)
  <2>1. /\ job[t].at = "notifying"
        /\ nqOut' = IF nqOut < NqSize THEN nqOut + 1 ELSE nqOut
        /\ job' = [job EXCEPT ![t].at = "testing"]
        /\ UNCHANGED <<mutex_mcp, mcpMessage, nqIn, semVars, mcFault, results, sent,
                       threadVars, swdVars, closing>>
    BY <1>7 DEF Notify
  <2>2. job'[t].at = "testing" /\ \A u \in Threads \ {t} : job'[u] = job[u]
    BY <1>4, <2>1 DEF Job
  <2>3. Busy(t) /\ Written(t)'
    BY <2>1, <2>2 DEF Busy, Written
  <2>4. irq = "running" => Asked'
    BY <1>2, <1>4, <2>1 DEF Phase, Clear, Asked
  <2>5. Phase(t)'
    BY <1>2, <1>3, <2>1, <2>2, <2>4 DEF Phase, Role
  <2>6. Others(t)
    BY <2>1, <2>2 DEF Others
  <2> QED
    BY <1>2, <2>1, <2>3, <2>5, <2>6, PhaseStep
<1>8. ASSUME NEW at \in {"checking", "waiting"}, job' = [job EXCEPT ![t].at = at],
             job[t].at \in {"testing", "waiting"},
             UNCHANGED <<mutex_mcp, mcpVars, mcFault, results, sent, threadVars,
                         swdVars, closing>>,
             woken' = woken \ {t},
             at = "checking" => m_count' = m_count - 1 /\ (irq = "running" => m_count # 0),
             at = "waiting" => m_count' = m_count
      PROVE  InStep'
  <2>1. job'[t].at = at /\ \A u \in Threads \ {t} : job'[u] = job[u]
    BY <1>4, <1>8 DEF Job
  <2>2. Busy(t) /\ Written(t) /\ Written(t)'
    BY <1>8, <2>1 DEF Busy, Written
  <2>3. irq = "running" /\ at = "checking" => mcpMessage.kind = "rsp" /\ Clear'
    BY <1>2, <1>4, <1>8 DEF Phase, Asked, Told, Clear
  <2>4. irq = "running" /\ at = "waiting" => Asked' \/ Told'
    BY <1>2, <1>8 DEF Phase, Asked, Told
  <2>5. Phase(t)'
    BY <1>2, <1>3, <1>8, <2>1, <2>3, <2>4 DEF Phase
  <2>6. Others(t)
    BY <1>8, <2>1 DEF Others
  <2> QED
    BY <1>2, <1>8, <2>2, <2>5, <2>6, PhaseStep
<1>9. CASE TestSemaphore(t)
  <2>1. job[t].at = "testing" /\ UNCHANGED <<mcpVars, woken, mcFault, sent, threadVars, swdVars>>
    BY <1>9 DEF TestSemaphore
  <2>2. t \notin woken /\ woken = woken \ {t}
    BY <1>3, <2>1 DEF Role
  <2>3. CASE /\ m_count # 0 /\ m_count' = m_count - 1
             /\ job' = [job EXCEPT ![t].at = "checking"]
             /\ UNCHANGED <<mutex_mcp, results, closing>>
    BY <1>8, <2>1, <2>2, <2>3
  <2>4. CASE /\ job' = [job EXCEPT ![t].at = "waiting"]
             /\ UNCHANGED <<m_count, mutex_mcp, results, closing>>
    BY <1>8, <2>1, <2>2, <2>4
  <2> QED
    BY <1>9, <2>3, <2>4 DEF TestSemaphore, Well
<1>10. CASE WakeUp(t)
  <2>1. t \in woken /\ job[t].at = "waiting"
    BY <1>10 DEF WakeUp
  <2>2. irq = "running" => m_count # 0
    BY <1>2, <2>1 DEF Phase
  <2> QED
    BY <1>8, <1>10, <2>1, <2>2 DEF WakeUp
<1>11. CASE TimeOut(t)
  <2>1. /\ job[t].at = "waiting" /\ woken' = woken \ {t} /\ ~(halted \/ job[t].left = 1)
        /\ UNCHANGED <<mcpVars, m_count, sent, threadVars, swdVars>>
    BY <1>11 DEF TimeOut, Well
  <2>2. /\ job' = [job EXCEPT ![t].at = "testing", ![t].left = @ - 1]
        /\ UNCHANGED <<mcFault, mutex_mcp, results, closing>>
    BY <1>11, <2>1 DEF TimeOut
  <2>3. job'[t].at = "testing" /\ \A u \in Threads \ {t} : job'[u] = job[u]
    BY <1>4, <2>2 DEF Job
  <2>4. Busy(t) /\ Written(t)'
    BY <2>1, <2>3 DEF Busy, Written
  <2>5. irq = "running" => Asked' \/ Told'
    BY <1>2, <2>1 DEF Phase, Asked, Told
  <2>6. Phase(t)'
    BY <1>2, <2>1, <2>2, <2>3, <2>5 DEF Phase
  <2>7. Others(t)
    BY <2>1, <2>2, <2>3 DEF Others
  <2> QED
    BY <1>2, <2>1, <2>4, <2>6, <2>7, PhaseStep
<1>12. CASE CheckThreads(t)
  <2>1. /\ job[t].at = "checking" /\ Healthy
        /\ job' = [job EXCEPT ![t].at = "reading"]
        /\ UNCHANGED <<mutex_mcp, mcpVars, semVars, mcFault, results, sent, irq>>
    BY <1>12 DEF CheckThreads, Well
  <2>2. job'[t].at = "reading" /\ \A u \in Threads \ {t} : job'[u] = job[u]
    BY <1>4, <2>1 DEF Job
  <2>3. Busy(t) /\ Written(t)'
    BY <2>1, <2>2 DEF Busy, Written
  <2>4. mcpMessage.kind = "rsp" /\ Clear /\ Clear' /\ t \notin woken
    BY <1>2, <1>3, <2>1 DEF Phase, Healthy, Clear, Role
  <2>5. Phase(t)'
    BY <1>2, <2>1, <2>2, <2>4 DEF Phase
  <2>6. Others(t)
    BY <2>1, <2>2 DEF Others
  <2> QED
    BY <1>2, <2>1, <2>3, <2>5, <2>6, PhaseStep
<1>13. CASE ReadAnswer(t)
  <2>1. job[t].at = "reading" /\ UNCHANGED <<mcpVars, semVars, mcFault, sent, threadVars, swdVars>>
    BY <1>13 DEF ReadAnswer
  <2>2. Written(t) /\ Busy(t) /\ mcpMessage.kind = "rsp" /\ mcpMessage.cmd = job[t].cmd
    BY <1>1, <1>2, <2>1 DEF Phase, IAlways, Mine, Written, Busy, IsToken
  <2>3. Return(t, "mine")
    BY <1>13, <2>2 DEF ReadAnswer
  <2>4. Over(t, "mine")
    BY <1>3, <2>1, <2>3, ReturnEnds DEF IAlways
  <2>5. /\ job'[t].at = "idle" /\ \A u \in Threads \ {t} : job'[u] = job[u]
        /\ results'[t] = results[t] \cup {"mine"}
        /\ \A u \in Threads \ {t} : results'[u] = results[u]
        /\ mutex_mcp # t => mutex_mcp' = mutex_mcp
    BY <2>4 DEF Over, Moves
  <2>6. irq = "running" => Clear /\ Clear'
    BY <1>2, <2>1 DEF Phase, Clear
  <2>7. Others(t)
    BY <2>1, <2>5 DEF Others
  <2>8. Phase(t)'
    BY <1>2, <1>3, <2>1, <2>2, <2>5 DEF Phase, Role
  <2> QED
    BY <1>2, <2>1, <2>2, <2>6, <2>7, <2>8, PhaseStep
<1>14. ~JoinIrq(t) /\ ~JoinScheduler(t) /\ ~JoinExitHandler(t)
  BY <1>3 DEF JoinIrq, JoinScheduler, JoinExitHandler, Role, Joining, Well
<1> QED
  BY <1>5, <1>6, <1>7, <1>9, <1>10, <1>11, <1>12, <1>13, <1>14 DEF Exchange, Waits

LEMMA OthersInStep ==
  ASSUME IAlways, InStep, Starting, Well, IAlways', Well', Next,
         ~\E t \in Threads : Exchange(t) \/ Waits(t)
  PROVE  InStep'
<1> USE DEF mcpVars, semVars, threadVars, swdVars
<1>1. Serving /\ TypeOK /\ TypeOK'
  BY Lonely DEF IAlways
<1>2. \A t \in Threads : Phase(t) /\ Role(t) /\ Role(t)'
  BY DEF InStep, IAlways, Roles
<1>3. job \in [Threads -> Job] /\ m_count \in Int /\ nqOut \in Nat /\ nqIn \in Nat
  BY <1>1, JobType, Numbers
<1>4. ASSUME NEW t \in Threads, Begin(t) PROVE InStep'
  <2>1. PICK id \in Does[t] :
          /\ job' = [job EXCEPT ![t] =
                       [at |-> IF id = "TOKEN" THEN "writing" ELSE "locking",
                        cmd |-> [id |-> id, of |-> t], left |-> Retries]]
          /\ results' = [results EXCEPT ![t] =
                           IF id = "TOKEN" THEN @ \cup {"token"} ELSE @]
    BY <1>4 DEF Begin
  <2>2. /\ job[t].at = "idle" /\ job'[t].at \in {"writing", "locking"}
        /\ \A u \in Threads \ {t} : job'[u] = job[u]
    BY <1>3, <1>4, <2>1 DEF Begin
  <2>3. /\ \A u \in Threads \ {t} : results'[u] = results[u]
        /\ "unanswered" \notin results'[t]
    BY <1>1, <1>2, <2>1 DEF TypeOK, Phase
  <2>4. ~Written(t) /\ ~Written(t)'
    BY <2>2 DEF Written, Joining
  <2>5. UNCHANGED <<mcpVars, semVars, irq>>
    BY <1>4 DEF Begin
  <2> QED
    BY <2>2, <2>3, <2>4, <2>5, PhaseOutside
<1>5. CASE ExitWakes
  <2>1. /\ job[TAExit].at = "idle" /\ UNCHANGED <<mcpVars, semVars, irq, results>>
        /\ job' = [job EXCEPT ![TAExit] =
                     [at |-> IF terminate THEN "leaving" ELSE "locking",
                      cmd |-> NoCommand, left |-> Retries]]
    BY <1>5 DEF ExitWakes
  <2>2. TAExit \in Threads
    BY Constants
  <2>3. /\ job'[TAExit].at \in {"leaving", "locking"}
        /\ \A u \in Threads \ {TAExit} : job'[u] = job[u]
    BY <1>3, <2>1, <2>2
  <2>4. ~Written(TAExit) /\ ~Written(TAExit)'
    BY <2>1, <2>3 DEF Written, Joining
  <2>5. "unanswered" \notin results'[TAExit]
    BY <1>2, <2>1, <2>2 DEF Phase
  <2> QED
    BY <2>1, <2>2, <2>3, <2>4, <2>5, PhaseOutside
<1>6. ~ExitLeaves
  BY <1>2, Constants DEF ExitLeaves, Role, Well
<1>7. ~CloseOld
  BY <1>1 DEF CloseOld
<1>8. CASE IrqSignals
  <2>1. /\ irq = "running" /\ nqIn > 0 /\ nqIn' = nqIn - 1 /\ Signal
        /\ UNCHANGED <<mcpMessage, nqOut, job, results, irq>>
    BY <1>8 DEF IrqSignals
  <2>2. m_count' = m_count + 1
    BY <1>1, <2>1, SignalWakes
  <2>3. ~Clear /\ ~Asked /\ (Told => Told' /\ m_count' = 1)
    BY <1>3, <2>1, <2>2 DEF Clear, Asked, Told
  <2>4. ASSUME NEW t \in Threads PROVE Phase(t)'
    <3>1. Phase(t) /\ (t \in woken' => job'[t].at = "waiting")
      BY <1>2 DEF Role
    <3> QED
      BY <2>1, <2>3, <3>1 DEF Phase
  <2> QED
    BY <2>1, <2>3, <2>4, PhaseStay
<1>9. CASE IrqFails \/ IrqEnds
  <2>1. irq' # "running" /\ UNCHANGED <<mcpMessage, job, results>>
    BY <1>9 DEF IrqFails, IrqEnds
  <2>2. \A t \in Threads : Phase(t)'
    BY <1>2, <2>1 DEF Phase
  <2> QED
    BY <2>1, <2>2, PhaseStay
<1>10. CASE SchedulerEnds \/ SwdHalts \/ TaEnds
  <2>1. UNCHANGED <<mcpMessage, nqOut, nqIn, m_count, woken, irq, job, results>>
    BY <1>10 DEF SchedulerEnds, SwdHalts, TaEnds
  <2>2. \A t \in Threads : Phase(t)'
    BY <1>2, <2>1 DEF Phase, Clear, Asked, Told
  <2> QED
    BY <2>1, <2>2, PhaseStay DEF Clear
<1>11. CASE SwdAnswers
  <2>1. /\ mcpMessage.kind = "cmd" /\ mcpMessage'.kind = "rsp"
        /\ mcpMessage'.cmd = mcpMessage.cmd
        /\ nqOut > 0 /\ nqOut' = nqOut - 1 /\ nqIn' = nqIn + 1
    BY <1>1, <1>11, SwdAnswersIs
  <2>2. UNCHANGED <<m_count, woken, irq, job, results>>
    BY <1>11 DEF SwdAnswers
  <2>3. ~Clear /\ ~Told /\ (Asked => Told')
    BY <1>3, <2>1, <2>2 DEF Clear, Asked, Told
  <2>4. \A t \in Threads : Phase(t)'
    BY <1>2, <2>1, <2>2, <2>3 DEF Phase
  <2> QED
    BY <2>1, <2>2, <2>3, <2>4, PhaseStay
<1>12. CASE SwdFindsNoCommand
  <2>1. /\ nqOut > 0 /\ mcpMessage.kind # "cmd"
        /\ UNCHANGED <<mcpMessage, nqIn, m_count, woken, irq, job, results>>
    BY <1>12 DEF SwdFindsNoCommand
  <2>2. ~Clear /\ ~Told /\ ~Asked
    BY <1>3, <2>1 DEF Clear, Asked, Told
  <2>3. \A t \in Threads : Phase(t)'
    BY <1>2, <2>1, <2>2 DEF Phase
  <2> QED
    BY <2>1, <2>2, <2>3, PhaseStay
<1> QED
  BY <1>4, <1>5, <1>6, <1>7, <1>8, <1>9, <1>10, <1>11, <1>12 DEF Next, DeviceThreads, Swd

LEMMA InStepKept ==
  ASSUME IInv, Next, IAlways', "spurious" \notin Failures
  PROVE  InStep'
<1> SUFFICES ASSUME Well' PROVE InStep'
  BY DEF InStep
<1>1. Well
  BY WellBack DEF IInv
<1> QED
  BY <1>1, ExchangeInStep, OthersInStep DEF IInv

-----------------------------------------------------------------------------
(* start() leaves no session of an earlier daemon.                         *)

LEMMA Shrinks ==
  ASSUME IAlways, Next
  PROVE  /\ old' \subseteq old
         /\ Serving => Serving'
<1> USE DEF IAlways, mcpVars, semVars, threadVars, swdVars
<1>1. ASSUME NEW t \in Threads, NEW r, Return(t, r)
      PROVE  closing' = closing \/ closing' = closing + 1
  BY <1>1 DEF Return
<1>2. CASE SwdAnswers
  BY <1>2, SwdAnswersIs DEF SwdAnswers, Serving
<1>3. CASE ~SwdAnswers
  <2>1. old' = old
    BY <1>3 DEF Next, Begin, Exchange, Lock, Write, Notify, TestSemaphore, CheckThreads,
       JoinIrq, JoinScheduler, JoinExitHandler, ReadAnswer, Waits, WakeUp, TimeOut, CloseOld,
       DeviceThreads, IrqSignals, IrqEnds, ExitWakes, ExitLeaves, IrqFails, SchedulerEnds,
       Swd, SwdFindsNoCommand, SwdHalts, TaEnds
  <2>2. closing' = closing \/ closing' = closing + 1
    <3>1. ASSUME NEW t \in Threads,
                 TestSemaphore(t) \/ JoinExitHandler(t) \/ TimeOut(t) \/ ReadAnswer(t)
          PROVE  closing' = closing \/ closing' = closing + 1
      BY <1>1, <3>1 DEF TestSemaphore, JoinExitHandler, TimeOut, ReadAnswer
    <3>2. CASE ~\E t \in Threads :
                  TestSemaphore(t) \/ JoinExitHandler(t) \/ TimeOut(t) \/ ReadAnswer(t)
      BY <1>3, <3>2 DEF Next, Begin, Exchange, Lock, Write, Notify, CheckThreads,
         JoinIrq, JoinScheduler, Waits, WakeUp, CloseOld,
         DeviceThreads, IrqSignals, IrqEnds, ExitWakes, ExitLeaves, IrqFails, SchedulerEnds,
         Swd, SwdFindsNoCommand, SwdHalts, TaEnds
    <3> QED
      BY <3>1, <3>2
  <2> QED
    BY <2>1, <2>2, ServingGrows
<1> QED
  BY <1>2, <1>3

\* Before start() is over, no other thread has work to do.
LEMMA StartsAlone ==
  ASSUME IAlways, ~Serving, ~terminate
  PROVE  /\ exitWakeups = 0
         /\ \A t \in Threads \ {Main} : job[t].at = "idle"
<1>1. exitWakeups = 0
  BY DEF IAlways, Roles
<1>2. ASSUME NEW t \in Threads \ {Main} PROVE job[t].at = "idle"
  <2>1. Role(t) /\ job[t].at \in Places
    BY Fields DEF IAlways, Roles
  <2>2. CASE t \in Dispatchers
    BY <2>1, <2>2 DEF Role
  <2>3. CASE t = TAExit
    BY <2>1, <2>3 DEF Role, Places, Busy, Written
  <2> QED
    BY <2>2, <2>3 DEF Threads
<1> QED
  BY <1>1, <1>2

\* The first command of a start is that of an old session, or start()'s own.
LEMMA NoTokenAtStart ==
  ASSUME IAlways, Starting, ~Serving, Next
  PROVE  mcpMessage'.cmd.id # "TOKEN"
<1> USE DEF IAlways
<1>1. mcpMessage.cmd.id # "TOKEN"
  BY DEF Starting
<1>2. ASSUME NEW t \in Threads, Write(t)
      PROVE  mcpMessage'.cmd.id # "TOKEN"
  <2>1. job[t].at = "writing" /\ mcpMessage'.cmd = job[t].cmd
    BY <1>2 DEF Write
  <2>2. t \notin Dispatchers
    BY <2>1 DEF Roles, Role
  <2>3. ~IsToken(t)
    BY <2>2 DEF Roles, Role
  <2> QED
    BY <2>1, <2>3 DEF IsToken
<1>3. CASE ~\E t \in Threads : Write(t)
  <2>1. CASE SwdAnswers
    BY <1>1, <2>1, SwdAnswersIs
  <2>2. CASE ~SwdAnswers
    <3>1. mcpMessage' = mcpMessage
      BY <1>3, <2>2 DEF mcpVars, Next, Begin, Exchange, Lock, Notify, TestSemaphore,
         CheckThreads, JoinIrq, JoinScheduler, JoinExitHandler, ReadAnswer, Waits, WakeUp,
         TimeOut, CloseOld, DeviceThreads, IrqSignals, IrqEnds, ExitWakes, ExitLeaves,
         IrqFails, SchedulerEnds, Swd, SwdFindsNoCommand, SwdHalts, TaEnds
    <3> QED
      BY <1>1, <3>1
  <2> QED
    BY <2>1, <2>2
<1> QED
  BY <1>2, <1>3

\* What holds of the buffer while start() waits or tries again.
LEMMA StartFacts ==
  ASSUME IAlways, Starting, ~Serving, ~mcFault, ~terminate
  PROVE  /\ TypeOK /\ Attempt /\ (\A i \in old : i >= closing)
         /\ Main \in Threads /\ Role(Main)
         /\ job[Main].at # "idle" => job[Main].cmd = [id |-> "CLOSE", of |-> closing]
         /\ Written(Main) => mcpMessage.cmd = job[Main].cmd
         /\ job \in [Threads -> Job] /\ results[Main] \subseteq {"mine", "another's", "unanswered", "token"}
         /\ closing \in Int /\ m_count \in Int /\ nqOut \in Nat /\ nqIn \in Nat
         /\ NqSize \in Nat /\ NqSize >= 1
         /\ \A i \in old : i \in Int
<1>1. TypeOK /\ Attempt /\ (\A i \in old : i >= closing) /\ Main \in Threads
  BY Constants DEF IAlways, Starting
<1>2. Role(Main)
  BY <1>1 DEF IAlways, Roles
<1>3. job[Main].at # "idle" => job[Main].cmd = [id |-> "CLOSE", of |-> closing]
  BY <1>2 DEF Role
<1>4. ~IsToken(Main)
  BY <1>2, Constants DEF Role
<1>5. Written(Main) => mcpMessage.cmd = job[Main].cmd
  BY <1>1, <1>4 DEF IAlways, Mine, Starting, IsToken
<1>6. \A i \in old : i \in Int
  <2>1. old \subseteq 1..OldCount /\ OldCount \in Nat
    BY <1>1, Constants DEF TypeOK, OldSessions
  <2> QED
    BY <2>1
<1>7. job \in [Threads -> Job]
  BY <1>1, JobType
<1>8. results[Main] \subseteq {"mine", "another's", "unanswered", "token"}
  BY <1>1 DEF TypeOK
<1>9. /\ closing \in Int /\ m_count \in Int /\ nqOut \in Nat /\ nqIn \in Nat
      /\ NqSize \in Nat /\ NqSize >= 1
  BY <1>1, Numbers, Constants
<1> QED
  BY <1>1, <1>2, <1>3, <1>5, <1>6, <1>7, <1>8, <1>9

LEMMA MainStarts ==
  ASSUME IAlways, Starting, ~Serving, ~mcFault, ~terminate, ~mcFault', ~terminate',
         "spurious" \notin Failures,
         CloseOld \/ Exchange(Main) \/ Waits(Main)
  PROVE  (\A i \in old' : i >= closing') /\ (~Serving' => Attempt')
<1> USE DEF mcpVars, semVars, threadVars, swdVars
<1>1. /\ TypeOK /\ Attempt /\ (\A i \in old : i >= closing)
      /\ Main \in Threads /\ Role(Main)
      /\ job[Main].at # "idle" => job[Main].cmd = [id |-> "CLOSE", of |-> closing]
      /\ Written(Main) => mcpMessage.cmd = job[Main].cmd
      /\ job \in [Threads -> Job]
      /\ closing \in Int /\ m_count \in Int /\ nqOut \in Nat /\ nqIn \in Nat
      /\ NqSize \in Nat /\ NqSize >= 1
      /\ \A i \in old : i \in Int
  BY StartFacts
<1>2. results \in [Threads -> SUBSET {"mine", "another's", "unanswered", "token"}]
  BY <1>1 DEF TypeOK
<1>3. CASE CloseOld
  <2>1. /\ job[Main].at = "idle"
        /\ job' = [job EXCEPT ![Main] = [at |-> "writing", left |-> Retries,
                     cmd |-> [id |-> "CLOSE", of |-> closing]]]
        /\ results' = [results EXCEPT ![Main] = {}]
        /\ UNCHANGED <<nqOut, nqIn, mcpMessage, m_count, woken, irq, old, closing>>
    BY <1>3 DEF CloseOld
  <2>2. job'[Main].at = "writing" /\ ~Again' /\ ~Written(Main)'
    BY <1>1, <1>2, <2>1 DEF Again, Written, Joining
  <2> QED
    BY <1>1, <2>1, <2>2 DEF Attempt, Traces
<1>4. CASE Write(Main)
  <2>1. /\ job[Main].at = "writing" /\ mcpMessage' = [kind |-> "cmd", cmd |-> job[Main].cmd]
        /\ job' = [job EXCEPT ![Main].at = "notifying"]
        /\ UNCHANGED <<nqOut, nqIn, m_count, woken, results, irq, old, closing>>
    BY <1>4 DEF Write
  <2>2. job'[Main].at = "notifying" /\ (Again' <=> Again) /\ mcpMessage'.kind = "cmd"
    BY <1>1, <2>1 DEF Again, Job
  <2> QED
    BY <1>1, <2>1, <2>2 DEF Attempt, Traces
<1>5. CASE Notify(Main)
  <2>1. /\ job[Main].at = "notifying"
        /\ nqOut' = IF nqOut < NqSize THEN nqOut + 1 ELSE nqOut
        /\ job' = [job EXCEPT ![Main].at = "testing"]
        /\ UNCHANGED <<mcpMessage, nqIn, m_count, woken, results, irq, old, closing>>
    BY <1>5 DEF Notify
  <2>2. job'[Main].at = "testing" /\ (Again' <=> Again) /\ Written(Main) /\ Written(Main)'
    BY <1>1, <2>1 DEF Again, Job, Written
  <2>3. nqOut' # 0 /\ nqOut' <= nqOut + 1 /\ nqOut' \in Nat
    BY <1>1, <2>1
  <2> QED
    BY <1>1, <2>1, <2>2, <2>3 DEF Attempt, Traces
<1>6. ASSUME job[Main].at \in {"testing", "waiting"}, m_count > 0 /\ m_count' = m_count - 1,
             job' = [job EXCEPT ![Main].at = "checking"], woken' = woken \ {Main},
             UNCHANGED <<nqOut, nqIn, mcpMessage, results, irq, old, closing>>
      PROVE  (\A i \in old' : i >= closing') /\ (~Serving' => Attempt')
  <2>1. job'[Main].at = "checking" /\ (Again' <=> Again) /\ Written(Main) /\ Written(Main)'
    BY <1>1, <1>6 DEF Again, Job, Written
  <2> QED
    BY <1>1, <1>6, <2>1 DEF Attempt, Traces
<1>7. CASE TestSemaphore(Main)
  <2>1. job[Main].at = "testing" /\ UNCHANGED <<mcpVars, woken, mcFault, sent, threadVars, swdVars>>
    BY <1>7 DEF TestSemaphore
  <2>2. Main \notin woken
    BY <1>1, <2>1 DEF Role
  <2>3. CASE /\ m_count # 0 /\ m_count' = m_count - 1
             /\ job' = [job EXCEPT ![Main].at = "checking"]
             /\ UNCHANGED <<mutex_mcp, results, closing>>
    <3>1. m_count > 0 /\ woken' = woken \ {Main}
      BY <1>1, <2>1, <2>2, <2>3 DEF Attempt
    <3> QED
      BY <1>6, <2>1, <2>3, <3>1
  <2>4. CASE /\ m_count = 0 /\ job' = [job EXCEPT ![Main].at = "waiting"]
             /\ UNCHANGED <<m_count, mutex_mcp, results, closing>>
    <3>1. job'[Main].at = "waiting" /\ (Again' <=> Again) /\ Written(Main) /\ Written(Main)'
      BY <1>1, <2>1, <2>4 DEF Again, Job, Written
    <3> QED
      BY <1>1, <2>1, <2>2, <2>4, <3>1 DEF Attempt, Traces
  <2> QED
    BY <1>7, <2>3, <2>4 DEF TestSemaphore
<1>8. CASE WakeUp(Main)
  <2>1. /\ Main \in woken /\ job[Main].at = "waiting" /\ m_count' = m_count - 1
        /\ job' = [job EXCEPT ![Main].at = "checking"] /\ woken' = woken \ {Main}
        /\ UNCHANGED <<nqOut, nqIn, mcpMessage, results, irq, old, closing>>
    BY <1>8 DEF WakeUp
  <2>2. m_count > 0
    BY <1>1, <2>1 DEF Attempt
  <2> QED
    BY <1>6, <2>1, <2>2
<1>9. CASE TimeOut(Main)
  <2>1. /\ job[Main].at = "waiting" /\ woken' = woken \ {Main} /\ ~(halted \/ job[Main].left = 1)
        /\ UNCHANGED <<mcpVars, m_count, sent, threadVars, swdVars>>
    BY <1>9 DEF TimeOut
  <2>2. /\ job' = [job EXCEPT ![Main].at = "testing", ![Main].left = @ - 1]
        /\ UNCHANGED <<mcFault, mutex_mcp, results, closing>>
    BY <1>9, <2>1 DEF TimeOut
  <2>3. job'[Main].at = "testing" /\ (Again' <=> Again) /\ Written(Main) /\ Written(Main)'
    BY <1>1, <2>1, <2>2 DEF Again, Job, Written
  <2> QED
    BY <1>1, <2>1, <2>2, <2>3 DEF Attempt, Traces
<1>10. CASE CheckThreads(Main)
  <2>1. /\ job[Main].at = "checking" /\ irq = "running"
        /\ job' = [job EXCEPT ![Main].at = "reading"]
        /\ UNCHANGED <<mutex_mcp, mcpVars, semVars, results, irq, swdVars, closing>>
    BY <1>10 DEF CheckThreads, Healthy
  <2>2. job'[Main].at = "reading" /\ (Again' <=> Again) /\ Written(Main) /\ Written(Main)'
    BY <1>1, <2>1 DEF Again, Job, Written
  <2> QED
    BY <1>1, <2>1, <2>2 DEF Attempt, Traces
<1>11. CASE ReadAnswer(Main)
  <2>1. job[Main].at = "reading" /\ UNCHANGED <<mcpVars, semVars, mcFault, sent, threadVars, swdVars>>
    BY <1>11 DEF ReadAnswer
  <2>2. /\ Written(Main) /\ mcpMessage.cmd = job[Main].cmd
        /\ Main \notin woken /\ Roles /\ Mine
    BY <1>1, <2>1 DEF Written, Role, IAlways
  <2>3. \/ mcpMessage.kind = "rsp" /\ Return(Main, "mine")
        \/ mcpMessage.kind # "rsp" /\ Return(Main, "unanswered")
    BY <1>1, <1>11, <2>2, ReadsMine
  <2>4. CASE mcpMessage.kind # "rsp" /\ Return(Main, "unanswered") /\ ~Again
    <3>1. Over(Main, "unanswered")
      BY <1>1, <2>1, <2>2, <2>4, ReturnEnds
    <3>2. /\ job'[Main].at = "writing" /\ job'[Main].cmd = job[Main].cmd
          /\ closing' = closing /\ results'[Main] = results[Main] \cup {"unanswered"}
      BY <2>4, <3>1 DEF Over, Moves
    <3>3. mcpMessage.kind = "cmd"
      <4>1. mcpMessage.kind \in {"none", "cmd", "rsp"}
        BY <1>1 DEF TypeOK
      <4> QED
        BY <1>1, <2>2, <2>4, <4>1 DEF Attempt
    <3>4. irq = "running" => nqIn = 0 /\ m_count = 0 /\ Traces <= 1
      BY <1>1, <2>1, <2>4, <3>3 DEF Attempt, Traces
    <3>5. Again' /\ ~Written(Main)'
      BY <3>2 DEF Again, Written, Joining
    <3> QED
      BY <1>1, <2>1, <2>2, <3>2, <3>4, <3>5 DEF Attempt, Traces
  <2>5. ASSUME NEW result \in {"mine", "unanswered"}, Return(Main, result),
               ~(result = "unanswered" /\ ~Again), closing \notin old
        PROVE  (\A i \in old' : i >= closing') /\ (~Serving' => Attempt')
    <3>1. Over(Main, result)
      BY <1>1, <2>1, <2>2, <2>5, ReturnEnds
    <3>2. job'[Main].at = "idle" /\ closing' = closing + 1
      BY <2>5, <3>1 DEF Over, Moves
    <3>3. \A i \in old' : i >= closing'
      BY <1>1, <2>1, <2>5, <3>2
    <3>4. ~Written(Main)'
      BY <3>2 DEF Written, Joining
    <3> QED
      BY <1>1, <2>1, <2>2, <3>2, <3>3, <3>4 DEF Attempt, Traces
  <2>6. mcpMessage.kind = "rsp" \/ Again => closing \notin old
    BY <1>1, <2>1, <2>2 DEF Attempt
  <2> QED
    BY <2>3, <2>4, <2>5, <2>6
<1>12. ~Lock(Main) /\ ~JoinIrq(Main) /\ ~JoinScheduler(Main) /\ ~JoinExitHandler(Main)
  BY <1>1 DEF Lock, JoinIrq, JoinScheduler, JoinExitHandler, Role, Joining
<1> QED
  BY <1>3, <1>4, <1>5, <1>7, <1>8, <1>9, <1>10, <1>11, <1>12 DEF Exchange, Waits

LEMMA OthersStart ==
  ASSUME IAlways, Starting, ~Serving, ~mcFault, ~terminate, Next,
         ~(CloseOld \/ Exchange(Main) \/ Waits(Main))
  PROVE  (\A i \in old' : i >= closing') /\ (~Serving' => Attempt')
<1> USE DEF mcpVars, semVars, threadVars, swdVars
<1>1. /\ TypeOK /\ Attempt /\ (\A i \in old : i >= closing)
      /\ Main \in Threads /\ Role(Main)
      /\ job[Main].at # "idle" => job[Main].cmd = [id |-> "CLOSE", of |-> closing]
      /\ Written(Main) => mcpMessage.cmd = job[Main].cmd
      /\ closing \in Int /\ m_count \in Int /\ nqOut \in Nat /\ nqIn \in Nat
      /\ NqSize \in Nat /\ NqSize >= 1
      /\ \A i \in old : i \in Int
  BY StartFacts
<1>2. exitWakeups = 0 /\ \A t \in Threads \ {Main} : job[t].at = "idle"
  BY StartsAlone
<1>3. \A t \in Threads : ~Begin(t)
  BY DEF Begin
<1>4. \A t \in Threads \ {Main} : ~Exchange(t) /\ ~Waits(t)
  BY <1>2 DEF Exchange, Lock, Write, Notify, TestSemaphore, CheckThreads, JoinIrq,
     JoinScheduler, JoinExitHandler, ReadAnswer, Waits, WakeUp, TimeOut
<1>5. ~ExitWakes /\ ~ExitLeaves /\ ~TaEnds
  BY <1>2, Constants DEF ExitWakes, ExitLeaves, TaEnds
<1>6. CASE IrqSignals
  <2>1. /\ irq = "running" /\ nqIn > 0 /\ nqIn' = nqIn - 1 /\ Signal
        /\ UNCHANGED <<mcpMessage, nqOut, job, results, irq, old, closing>>
    BY <1>6 DEF IrqSignals
  <2>2. m_count' = m_count + 1
    BY <1>1, <2>1, SignalWakes
  <2>3. (Again' <=> Again) /\ (Written(Main)' <=> Written(Main))
    BY <2>1 DEF Again, Written
  <2> QED
    BY <1>1, <2>1, <2>2, <2>3 DEF Attempt, Traces
<1>7. CASE IrqFails
  <2>1. /\ irq' = "exiting" /\ Signal
        /\ UNCHANGED <<mcpMessage, job, results, old, closing>>
    BY <1>7 DEF IrqFails
  <2>2. m_count' = m_count + 1
    BY <1>1, <2>1, SignalWakes
  <2>3. (Again' <=> Again) /\ (Written(Main)' <=> Written(Main))
    BY <2>1 DEF Again, Written
  <2> QED
    BY <1>1, <2>1, <2>2, <2>3 DEF Attempt
<1>8. CASE IrqEnds \/ SchedulerEnds \/ SwdHalts
  <2>1. /\ UNCHANGED <<mcpMessage, nqOut, nqIn, m_count, woken, job, results, old, closing>>
        /\ irq' = "running" => irq = "running"
    BY <1>8 DEF IrqEnds, SchedulerEnds, SwdHalts
  <2>2. (Again' <=> Again) /\ (Written(Main)' <=> Written(Main)) /\ Traces' = Traces
    BY <2>1 DEF Again, Written, Traces
  <2> QED
    BY <1>1, <2>1, <2>2 DEF Attempt
<1>9. CASE SwdAnswers
  <2>1. /\ mcpMessage.kind = "cmd" /\ mcpMessage'.kind = "rsp"
        /\ mcpMessage'.cmd = mcpMessage.cmd
        /\ nqOut > 0 /\ nqOut' = nqOut - 1 /\ nqIn' = nqIn + 1
        /\ old' \subseteq old
        /\ mcpMessage.cmd.id = "CLOSE" => mcpMessage.cmd.of \notin old'
    BY <1>1, <1>9, SwdAnswersIs
  <2>2. UNCHANGED <<m_count, woken, irq, job, results, closing>>
    BY <1>9 DEF SwdAnswers
  <2>3. (Again' <=> Again) /\ (Written(Main)' <=> Written(Main)) /\ Traces' = Traces
    BY <1>1, <2>1, <2>2 DEF Again, Written, Traces
  <2>4. Written(Main) \/ (job[Main].at = "writing" /\ Again) => closing \notin old'
    <3>1. ASSUME Written(Main) \/ (job[Main].at = "writing" /\ Again)
          PROVE  closing \notin old'
      <4>1. job[Main].at # "idle"
        BY <3>1 DEF Written, Joining
      <4>2. mcpMessage.cmd = job[Main].cmd
        BY <1>1, <3>1 DEF Attempt
      <4>3. mcpMessage.cmd.id = "CLOSE" /\ mcpMessage.cmd.of = closing
        BY <1>1, <4>1, <4>2
      <4> QED
        BY <2>1, <4>3
    <3> QED
      BY <3>1
  <2>5. job[Main].at \in {"writing", "notifying", "testing", "waiting", "checking", "reading"}
          /\ Again => closing \notin old'
    BY <2>4 DEF Written
  <2> QED
    BY <1>1, <2>1, <2>2, <2>3, <2>4, <2>5 DEF Attempt
<1>10. CASE SwdFindsNoCommand
  <2>1. /\ nqOut > 0 /\ mcpMessage.kind # "cmd" /\ nqOut' = nqOut - 1
        /\ UNCHANGED <<mcpMessage, nqIn, m_count, woken, irq, job, results, old, closing>>
    BY <1>10 DEF SwdFindsNoCommand
  <2>2. (Again' <=> Again) /\ (Written(Main)' <=> Written(Main))
    BY <2>1 DEF Again, Written
  <2> QED
    BY <1>1, <2>1, <2>2 DEF Attempt, Traces
<1> QED
  BY <1>3, <1>4, <1>5, <1>6, <1>7, <1>8, <1>9, <1>10 DEF Next, DeviceThreads, Swd

LEMMA StartingKept ==
  ASSUME IInv, Next, IAlways', "spurious" \notin Failures
  PROVE  Starting'
<1> USE DEF IInv
<1>1. mciReused' = mciReused /\ old' \subseteq old /\ (Serving => Serving')
  BY Sticky, Shrinks
<1>0. ASSUME ~mcFault', ~terminate' PROVE ~mcFault /\ ~terminate
  BY <1>0, Sticky
<1>2. CASE Serving
  <2>1. ~mcFault /\ ~terminate => old = {}
    <3>1. \A i \in old : i \in Int /\ i <= OldCount
      <4>1. old \subseteq 1..OldCount /\ OldCount \in Nat
        BY Constants DEF IAlways, TypeOK, OldSessions
      <4> QED
        BY <4>1
    <3>2. closing \in Int /\ OldCount \in Int /\ closing > OldCount
      BY <1>2, Numbers, Constants DEF IAlways, Serving
    <3> QED
      BY <3>1, <3>2 DEF Starting
  <2>2. ASSUME ~mcFault', ~terminate' PROVE old' = {}
    BY <1>0, <1>1, <2>1, <2>2
  <2>3. ASSUME ~mcFault', ~terminate' PROVE \A i \in old' : i >= closing'
    BY <2>2, <2>3
  <2> QED
    BY <1>1, <1>2, <2>3 DEF Starting
<1>3. CASE ~Serving
  <2>1. ~Serving' => mcpMessage'.cmd.id # "TOKEN"
    BY <1>3, NoTokenAtStart
  <2>2. ASSUME ~mcFault', ~terminate'
        PROVE  (\A i \in old' : i >= closing') /\ (~Serving' => Attempt')
    <3>1. ~mcFault /\ ~terminate
      BY <1>0, <2>2
    <3> QED
      BY <1>3, <2>2, <3>1, MainStarts, OthersStart
  <2>3. mciReused'
    BY <1>1, <1>3 DEF Starting
  <2> QED
    BY <2>1, <2>2, <2>3 DEF Starting
<1> QED
  BY <1>2, <1>3

-----------------------------------------------------------------------------
(* The theorems.                                                           *)

LEMMA InitHolds == Init => IInv
<1> SUFFICES ASSUME Init PROVE IInv
  OBVIOUS
<1>1. PICK c \in [id : {"SESSION", "CLOSE"}, of : OldSessions] :
        \/ /\ mcpMessage = [kind |-> "none", cmd |-> NoCommand]
           /\ nqOut = 0 /\ nqIn = 0
        \/ /\ mciReused /\ mcpMessage = [kind |-> "cmd", cmd |-> c]
           /\ nqOut \in 0..1 /\ nqIn = 0
        \/ /\ mciReused /\ mcpMessage = [kind |-> "rsp", cmd |-> c]
           /\ nqOut = 0 /\ nqIn \in 0..1
  BY DEF Init
<1>2. /\ mcpMessage.cmd.id # "TOKEN" /\ nqOut \in Nat /\ nqIn \in Nat /\ nqOut + nqIn <= 1
      /\ ~mciReused => mcpMessage.kind = "none" /\ nqOut = 0 /\ nqIn = 0
  BY <1>1, Constants
<1>3. \A t \in Threads : job[t].at = "idle" /\ results[t] = {} /\ ~Written(t)
  BY DEF Init, Written, Joining
<1>4. m_count = 0 /\ woken = {} /\ Main \in Threads
  BY Constants DEF Init
<1>5. InStep
  BY <1>2, <1>3, <1>4 DEF InStep, Well, Phase, Clear
<1>6. Starting
  <2>1. OldCount \in Nat \ {0}
    BY Constants
  <2>2. mciReused => closing = 1 /\ ~Serving /\ old \subseteq 1..OldCount
    BY <2>1 DEF Init, Serving, OldSessions
  <2>3. ~mciReused => Serving /\ old = {}
    BY <2>1 DEF Init, Serving
  <2>4. \A i \in old : i >= closing
    BY <2>1, <2>2, <2>3
  <2>5. Attempt
    BY <1>2, <1>3, <1>4 DEF Attempt, Traces
  <2> QED
    BY <1>2, <2>3, <2>4, <2>5 DEF Starting
<1> QED
  BY <1>5, <1>6, AlwaysInit DEF IInv

LEMMA StepHolds ==
  ASSUME IInv, [Next]_vars, "spurious" \notin Failures
  PROVE  IInv'
<1>1. IAlways'
  BY AlwaysStep DEF IInv
<1>2. CASE Next
  BY <1>1, <1>2, InStepKept, StartingKept DEF IInv
<1>3. CASE UNCHANGED vars
  <2>1. InStep' <=> InStep
    BY <1>3 DEF vars, InStep, Well, TokenLoaded, Phase, Clear, Asked, Told, Written
  <2>2. Starting' <=> Starting
    BY <1>3 DEF vars, Starting, Attempt, Serving, Again, Written, Traces
  <2> QED
    BY <1>1, <2>1, <2>2 DEF IInv
<1> QED
  BY <1>2, <1>3

\* A thread takes no answer but the one to its own command, though the response
\* id does not say whose it is, loadToken() exchanges without mutex_mcp, waits
\* are repeated or end early, and an earlier daemon has left its answers.
THEOREM AnswersAreMine == Spec => []AnswerIsMine
<1>1. IAlways => AnswerIsMine
  BY DEF IAlways, Mine, AnswerIsMine
<1> QED
  BY <1>1, AlwaysInit, AlwaysStep, PTL DEF Spec

\* CSemaphore::wait() does not look at the counter after it has been woken, so
\* that the following needs condition variables that wake only who is signalled.
THEOREM McpExchangeIInv == "spurious" \notin Failures => (Spec => []IInv)
<1> SUFFICES ASSUME "spurious" \notin Failures PROVE Spec => []IInv
  OBVIOUS
<1>1. Init => IInv
  BY InitHolds
<1>2. IInv /\ [Next]_vars => IInv'
  BY StepHolds
<1> QED
  BY <1>1, <1>2, PTL DEF Spec

\* An exchange of mshNotifyAndWait() fails only for a fault, a thread that has
\* died, a token loaded meanwhile or a reused MCI: semaphore and buffer do not
\* get out of step by themselves.
THEOREM McpExchangeInvariant == "spurious" \notin Failures => (Spec => []Inv)
<1> SUFFICES ASSUME "spurious" \notin Failures PROVE Spec => []Inv
  OBVIOUS
<1>1. IInv => Inv
  <2> SUFFICES ASSUME IInv PROVE Inv
    OBVIOUS
  <2>1. TypeOK /\ AnswerIsMine
    BY DEF IInv, IAlways, Mine, AnswerIsMine
  <2>2. Well => \A t \in Threads : "unanswered" \notin results[t]
    BY DEF IInv, InStep, Phase
  <2>3. FailsForAReason
    BY <2>2 DEF FailsForAReason, Well
  <2> QED
    BY <2>1, <2>3 DEF Inv
<1> QED
  BY <1>1, McpExchangeIInv, PTL

\* When start() serves clients, no session of an earlier daemon is open, although that
\* daemon may have left a command or an answer, and one notification, in the MCI.
THEOREM RestartClosesAll == "spurious" \notin Failures => (Spec => []RestartCloses)
<1> SUFFICES ASSUME "spurious" \notin Failures PROVE Spec => []RestartCloses
  OBVIOUS
<1>1. IInv => RestartCloses
  <2> SUFFICES ASSUME IInv, Serving, ~mcFault, ~terminate PROVE old = {}
    BY DEF RestartCloses
  <2>1. \A i \in old : i >= closing
    BY DEF IInv, Starting
  <2>2. old \subseteq 1..OldCount /\ closing \in Int /\ closing > OldCount /\ OldCount \in Nat
    BY Numbers, Constants DEF IInv, IAlways, TypeOK, OldSessions, Serving
  <2> QED
    BY <2>1, <2>2
<1> QED
  BY <1>1, McpExchangeIInv, PTL

\* No thread writes over a command the SWd has not answered, while there is no
\* fault and no token is loaded: mutex_mcp is held until the answer is there.
THEOREM NoCommandLost == "spurious" \notin Failures => (Spec => NoLostCommand)
<1> SUFFICES ASSUME "spurious" \notin Failures PROVE Spec => NoLostCommand
  OBVIOUS
<1>1. IInv /\ [Next]_vars =>
        [mcpMessage.kind = "cmd" /\ ~mcFault /\ ~terminate /\ ~mciReused /\ ~TokenLoaded
           => mcpMessage'.cmd = mcpMessage.cmd]_vars
  <2> SUFFICES ASSUME IInv, Next, mcpMessage.kind = "cmd", Well
               PROVE  mcpMessage'.cmd = mcpMessage.cmd
    BY DEF Well
  <2>1. PICK u \in Threads : Written(u)
    BY DEF IInv, InStep
  <2>2. ASSUME NEW t \in Threads, Write(t) PROVE FALSE
    <3>1. Busy(t) /\ ~Written(t)
      BY <2>2 DEF Write, Busy, Written, Joining
    <3> QED
      BY <2>1, <3>1, Lonely DEF IInv, Busy
  <2>3. CASE SwdAnswers
    BY <2>3, SwdAnswersIs DEF IInv, IAlways
  <2>4. CASE ~SwdAnswers
    BY <2>2, <2>4 DEF mcpVars, Next, Begin, Exchange, Lock, Notify, TestSemaphore,
       CheckThreads, JoinIrq, JoinScheduler, JoinExitHandler, ReadAnswer, Waits, WakeUp,
       TimeOut, CloseOld, DeviceThreads, IrqSignals, IrqEnds, ExitWakes, ExitLeaves,
       IrqFails, SchedulerEnds, Swd, SwdFindsNoCommand, SwdHalts, TaEnds
  <2> QED
    BY <2>3, <2>4
<1> QED
  BY <1>1, McpExchangeIInv, PTL DEF Spec, NoLostCommand

================================================================================
