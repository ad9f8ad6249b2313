---------------------------- MODULE Provisioning ----------------------------
(***************************************************************************)
(* The provisioning engine of RootPA: a thread asks the service enabler     *)
(* (SE) for work, executes the commands in its answers and sends the        *)
(* results back, until an answer names no further relation.  The client     *)
(* learns of its progress by callbacks.                                     *)
(*                                                                         *)
(* The strings of the engine are on the heap, and up to three pointers may  *)
(* hold the same one: a pointer is modelled as the block it points to, and  *)
(* a block as its kind, the answer it came with and, for a relation or a    *)
(* response, what it says.  Running out of memory is not modelled.          *)
(***************************************************************************)
EXTENDS Integers, Sequences

CONSTANTS Relations,     \* what the SE may ask for next
          Requests,      \* what the client may ask for
          MaxAnswers     \* the SE names no relation after so many answers

ASSUME RelationsAssumption ==
         /\ Relations \subseteq {"self", "system_info", "command_result", "next", "other"}
         /\ Requests \subseteq {"register", "install", "unregister"}
         /\ MaxAnswers \in Nat

\* A pointer that holds no block, and the two relations that are literals.
Null == <<"null", 0, "none">>
INITIAL_POST == <<"static", 0, "initial_post">>
INITIAL_DELETE == <<"static", 0, "initial_delete">>

VARIABLES pc,        \* "idle", "loop" (the head of the loop), "closing", "exiting", "done",
                     \* "undefined" when a string has been used that is gone
          request,   \* what the client asked for
          link, rel, command, response,
          used,      \* the pointers of the last request to the SE
          pending,   \* the request that waits for the recovery from a factory reset
          ret,       \* "ok", "error" or "missing": a container is not in the registry
          heap,      \* the blocks that are allocated, and that the engine was given
          misused,   \* a block was used or freed that is not
          answers,   \* the number of answers of the SE
          last,      \* the last request, the body of its first attempt, what the SE
                     \* asked for then, and the strings lost in attempts so far
          told       \* the callbacks

pointers == <<link, rel, command, used, pending>>
engineVars == <<pc, request, pointers, response, ret, heap, misused, answers, last, told>>

NoUse == [link |-> Null, rel |-> Null, command |-> Null]
NoPending == [link |-> Null, rel |-> Null]
NoRequest == [what |-> "none", body |-> "none", next |-> "unknown", lost |-> {}]

EngineInit == /\ pc = "idle" /\ request = "none"
              /\ link = Null /\ rel = Null /\ command = Null /\ response = Null
              /\ used = NoUse /\ pending = NoPending
              /\ ret = "ok"
              /\ heap = {} /\ misused = FALSE
              /\ answers = 0 /\ last = NoRequest /\ told = <<>>

Says(p) == p[3]
\* The blocks of the heap the pointers of S hold.
Blocks(S) == {p \in S: p[1] \notin {"null", "static"}}
Tell(state) == told' = Append(told, state)

(***************************************************************************)
(* The start of the thread, up to the loop.                                 *)
(***************************************************************************)
\* The session to the content management TA could not be opened.
CmtlUnreachable(r) == /\ pc = "idle"
                      /\ request' = r
                      /\ Tell("error")
                      /\ pc' = "exiting"
                      /\ UNCHANGED <<pointers, response, ret, heap, misused, answers, last>>

\* createBasicLink() and the request for the installation of a Trustlet; then the
\* recovery from a factory reset is put first when there is no token and no root.
StartProvisioning(r) ==
  /\ pc = "idle"
  /\ request' = r
  /\ \E ready, reset \in BOOLEAN:
       LET basic == <<"link", 0, "address">>
           body == IF r = "install" THEN <<"response", 0, "install">> ELSE Null
           first == IF r = "unregister" THEN INITIAL_DELETE ELSE INITIAL_POST
           recover == reset /\ ready /\ r # "unregister"
           root == <<"link", 0, "root">>
       IN /\ response' = body
          /\ link' = IF recover THEN root ELSE basic
          /\ rel' = IF recover THEN INITIAL_DELETE ELSE first
          /\ pending' = IF recover THEN [link |-> basic, rel |-> first] ELSE NoPending
          /\ heap' = Blocks({basic, body}) \cup (IF recover THEN {root} ELSE {})
          /\ pc' = IF ready THEN "loop" ELSE "closing"
          /\ ret' = IF ready THEN "ok" ELSE "error"
          /\ told' = IF ready THEN <<"connecting">> ELSE <<"connecting", "error">>
  /\ UNCHANGED <<command, used, misused, answers, last>>

(***************************************************************************)
(* The end of a round: n holds the pointers the round leaves, h the heap.   *)
(***************************************************************************)
\* Mutant: that the used pointers may be the current ones is forgotten.
EndOfRoundTwice(n, h, more) ==
  LET gone == IF more THEN {} ELSE Blocks({n.link, n.rel, n.command})
      keep == more /\ n.rel # Null /\ Says(n.rel) = "self"
      drop == IF keep THEN {} ELSE Blocks({n.used.link, n.used.rel, n.used.command})
  IN /\ heap' = h \ (gone \cup drop \cup {n.response})
     /\ misused' = (misused \/ ~(gone \subseteq h) \/ ~(drop \subseteq h \ gone))
     /\ link' = (IF more THEN n.link ELSE Null)
     /\ rel' = (IF more THEN n.rel ELSE Null)
     /\ command' = (IF more THEN n.command ELSE Null)
     /\ used' = (IF keep THEN n.used ELSE NoUse)
     /\ response' = Null
     /\ pc' = (IF more THEN "loop" ELSE "closing")

\* When there is no more work, everything is freed: the used pointers that are also
\* the current ones once.  Otherwise the used ones, unless the next relation is
\* "self".
EndOfRound(n, h, more) ==
  LET now == {n.link, n.rel, n.command}
      Old(u, c) == IF ~more /\ u = c THEN Null ELSE u
      old == {Old(n.used.link, n.link), Old(n.used.rel, n.rel),
              Old(n.used.command, n.command)}
      gone == IF more THEN {} ELSE Blocks(now)
      keep == more /\ n.rel # Null /\ Says(n.rel) = "self"
      drop == IF keep THEN {} ELSE Blocks(old)
  IN /\ heap' = h \ (gone \cup drop \cup {n.response})
     /\ misused' = (misused \/ ~(gone \subseteq h) \/ ~(drop \subseteq h \ gone))
     /\ link' = (IF more THEN n.link ELSE Null)
     /\ rel' = (IF more THEN n.rel ELSE Null)
     /\ command' = (IF more THEN n.command ELSE Null)
     /\ used' = (IF keep THEN n.used ELSE NoUse)
     /\ response' = Null
     /\ pc' = (IF more THEN "loop" ELSE "closing")

Current == [link |-> link, rel |-> rel, command |-> command, response |-> response,
            used |-> used]
\* The round uses the current pointers for a request.
Using == [Current EXCEPT !.used = [link |-> link, rel |-> rel, command |-> command]]
Without(n) == [n EXCEPT !.link = Null, !.rel = Null, !.command = Null]

Dangling == ~(Blocks({link, rel, command}) \subseteq heap)
InRound == pc = "loop" /\ ~Dangling /\ UNCHANGED <<request, pending>>
Asked(what) == InRound /\ rel # Null /\ Says(rel) = what

(***************************************************************************)
(* httpCommunicate(): all the attempts of one request.  The command, the    *)
(* relation and the link of the answer are new; the link and relation come  *)
(* with a header, the link also alone.  The attempts share headerChunk: one *)
(* that breaks off after its header leaves its relation to the next, which  *)
(* overwrites what it gets anew, and those strings are lost.                *)
(***************************************************************************)
Unreachable(n) == [n EXCEPT !.rel = Null, !.command = Null]
Answered(n, a) ==
  [n EXCEPT !.link = IF a.linked THEN <<"link", answers + 1, "given">> ELSE Null,
            !.rel = IF a.next = "none" THEN Null ELSE <<"rel", answers + 1, a.next>>,
            !.command = <<"command", answers + 1, "xml">>]
\* What the headers may say in the end: a relation has come with a link.
NextRelations == {"none"} \cup (IF answers < MaxAnswers THEN Relations ELSE {})
Answers == {a \in [next: NextRelations, linked: BOOLEAN]: a.next # "none" => a.linked}

\* What the attempts of a request may have overwritten by the time that they hold a:
\* a string of a kind only if they hold one.  All that is lost of a kind counts as one.
Overwritten(a) ==
  {{<<kind, 0, "overwritten">>: kind \in kinds}:
     kinds \in {{}} \cup (IF a.linked THEN {{"link"}} ELSE {})
                   \cup (IF a.next # "none" THEN {{"link", "rel"}} ELSE {})}

\* The outcomes of a request with the given body, when n holds the pointers and h is
\* the heap before.  When all attempts have failed, what the last one got is freed.
Communicate(n, h, body) ==
  LET asked(next, lost) == [what |-> Says(rel), body |-> body, next |-> next,
                            lost |-> last.lost \cup lost]
      Outcome(m, next, code, lost) ==
        [round |-> m, heap |-> h \cup Blocks({m.link, m.rel, m.command}), code |-> code,
         answers |-> answers + 1, last |-> asked(next, lost)]
  IN {[round |-> Unreachable(n), heap |-> h, code |-> "error",
       answers |-> answers, last |-> asked("unknown", lost)]:
        lost \in UNION {Overwritten(a): a \in Answers}}
     \cup UNION {{Outcome(Answered(n, a), a.next, code, lost):
                     code \in {"ok", "error"}, lost \in Overwritten(a)}: a \in Answers}

Report(code) == IF code = "error" THEN Tell("error") ELSE UNCHANGED told
\* The round ends with outcome o; the work when the request has failed.
Received(o) == /\ answers' = o.answers
               /\ last' = o.last
               /\ EndOfRound(o.round, o.heap, o.code = "ok")

\* DELETE, the first POST and GET: an error ends the work.
Simple(body) == \E o \in Communicate(Using, heap, body):
                  /\ ret' = o.code
                  /\ Report(o.code)
                  /\ Received(o)
InitialDelete == Asked("initial_delete") /\ Simple("none")

InitialPost == /\ Asked("initial_post")
               /\ Simple(IF response = Null THEN "none" ELSE Says(response))

GetNext == Asked("next") /\ Simple("none")

\* An error from before is told again; only one of this request ends the work.
PutSystemInfo ==
  /\ Asked("system_info")
  /\ \/ \E known \in BOOLEAN:
          LET info == <<"response", answers + 1, "info">>
              before == IF known THEN ret ELSE "error"
          IN \E o \in Communicate([Using EXCEPT !.response = info], heap \cup {info},
                                  "info"):
               /\ ret' = IF o.code = "ok" THEN before ELSE o.code
               /\ IF ret' = "ok" THEN UNCHANGED told ELSE Tell("error")
               /\ Received(o)
     \/ \* The information could not be built.
        /\ ret' = "error"
        /\ Tell("error")
        /\ EndOfRound(Using, heap, FALSE)
        /\ UNCHANGED <<answers, last>>

\* handleXmlMessage() executes the commands.  When there is nothing to be returned,
\* the pointers are cleared, and the next round finds no relation.
PostResult ==
  /\ Asked("command_result")
  /\ \/ \E code \in {"ok", "error", "missing"}:
          LET result == <<"response", answers + 1, "result">> IN
          \E o \in Communicate([Using EXCEPT !.response = result], heap \cup {result},
                              "result"):
            /\ ret' = IF o.code = "ok" THEN code ELSE o.code
            /\ Report(ret')
            /\ Received(o)
     \/ /\ ret' = "error"
        /\ Tell("error")
        /\ EndOfRound(Without(Using), heap, TRUE)
        /\ UNCHANGED <<answers, last>>

\* Mutant: the client is not told.
NotUnderstoodSilent == /\ Asked("other")
                       /\ ret' = "error"
                       /\ EndOfRound(Using, heap, FALSE)
                       /\ UNCHANGED <<answers, last, told>>

NotUnderstood == /\ Asked("other")
                 /\ ret' = "error"
                 /\ Tell("error")
                 /\ EndOfRound(Using, heap, FALSE)
                 /\ UNCHANGED <<answers, last>>

\* Mutant: the pointers are not restored.
RepeatNothing == /\ Asked("self")
                 /\ EndOfRound(Current, heap, TRUE)
                 /\ UNCHANGED <<ret, answers, last, told>>

\* The last request is to be repeated.
Repeat ==
  /\ Asked("self")
  /\ LET again == rel # used.rel /\ link # used.link /\ command # used.command
         gone == Blocks({link, rel, command})
         n == [Current EXCEPT !.link = used.link, !.rel = used.rel,
                              !.command = used.command]
     IN IF again THEN EndOfRound(n, heap \ gone, TRUE) ELSE EndOfRound(Current, heap, TRUE)
  /\ UNCHANGED <<ret, answers, last, told>>

\* From then on anything may happen.
Undefined == /\ pc = "loop" /\ Dangling
             /\ pc' = "undefined"
             /\ UNCHANGED <<request, pointers, response, ret, heap, misused, answers,
                            last, told>>

\* The recovery from a factory reset is over.
Recovered == /\ pc = "loop" /\ rel = Null /\ pending.link # Null
             /\ heap' = heap \ {link}
             /\ link' = pending.link
             /\ rel' = pending.rel
             /\ pending' = NoPending
             /\ UNCHANGED <<pc, request, command, response, used, ret, misused,
                            answers, last, told>>

Finished == /\ InRound /\ rel = Null /\ pending.link = Null
            /\ Tell("finished")
            /\ EndOfRound(Current, heap, FALSE)
            /\ UNCHANGED <<ret, answers, last>>

(***************************************************************************)
(* The end of the thread.                                                   *)
(***************************************************************************)
CloseSeClient == /\ pc = "closing"
                 /\ heap' = heap \ {link, response}
                 /\ link' = Null
                 /\ response' = Null
                 /\ pc' = "exiting"
                 /\ UNCHANGED <<request, rel, command, used, pending, ret, misused,
                                answers, last, told>>
Exit == /\ pc = "exiting"
        /\ Tell("exiting")
        /\ pc' = "done"
        /\ UNCHANGED <<request, pointers, response, ret, heap, misused, answers, last>>

Loop == \/ InitialDelete \/ InitialPost \/ GetNext \/ PutSystemInfo \/ PostResult
        \/ NotUnderstood \/ Repeat \/ Undefined \/ Recovered \/ Finished
EngineNext == \/ \E r \in Requests: CmtlUnreachable(r) \/ StartProvisioning(r)
              \/ Loop \/ CloseSeClient \/ Exit

EngineSpec == EngineInit /\ [][EngineNext]_engineVars
\* The thread runs, and each request ends, with an answer or by its timeouts.
EngineFairSpec == EngineSpec /\ WF_engineVars(Loop \/ CloseSeClient \/ Exit)

(***************************************************************************)
(* Properties                                                              *)
(***************************************************************************)
\* What each pointer may hold.
Links == {Null} \cup {"link"} \X Nat \X {"address", "root", "given"}
RelationPointers == {Null, INITIAL_POST, INITIAL_DELETE} \cup {"rel"} \X Nat \X Relations
Commands == {Null} \cup {"command"} \X Nat \X {"xml"}
Responses == {Null} \cup {"response"} \X Nat \X {"install", "info", "result"}

EngineTypeOK ==
  /\ pc \in {"idle", "loop", "undefined", "closing", "exiting", "done"}
  /\ request \in Requests \cup {"none"}
  /\ link \in Links /\ rel \in RelationPointers /\ command \in Commands
  /\ response \in Responses
  /\ used \in [link: Links, rel: RelationPointers, command: Commands]
  /\ pending \in [link: Links, rel: RelationPointers]
  /\ ret \in {"ok", "error", "missing"}
  /\ heap \subseteq Blocks(Links \cup RelationPointers \cup Commands \cup Responses)
  /\ misused \in BOOLEAN
  /\ answers \in 0..MaxAnswers + 2
  /\ told \in Seq({"connecting", "error", "finished", "exiting"})

\* No string is used or freed when it is gone, although the current and the used
\* pointers may be the same, but for a repetition: of the relation "self" the engine
\* frees what it is about to use (see Undefined).
MemorySafe ==
  /\ ~misused
  /\ Blocks({response, pending.link}) \subseteq heap
  /\ last.next # "self" =>
       Blocks({link, rel, command, used.link, used.rel, used.command}) \subseteq heap

\* Each string the engine gets is freed in the end ("in order to make sure both
\* original and user pointers are released", provisioningengine.c:441), but for the link
\* that waits when the recovery from a factory reset is cut short.  What
\* httpCommunicate() has overwritten before the engine got it stays allocated.
Allocated == heap \cup last.lost
AllReleased == pc \in {"exiting", "done"} => Allocated = Blocks({pending.link}) \cup last.lost

EngineInv == EngineTypeOK /\ MemorySafe /\ AllReleased

\* The client is told how it ended: finished only when the SE asked for nothing more,
\* or just after the error because of which its answer was not looked at.
ToldTheEnd ==
  /\ pc = "done" => told[Len(told)] = "exiting"
  /\ pc \in {"closing", "exiting", "done"} =>
       LET n == IF pc = "done" THEN Len(told) - 1 ELSE Len(told)
       IN \/ told[n] = "error"
          \/ /\ told[n] = "finished"
             /\ last.next = "none" \/ told[n - 1] = "error"

\* The thread ends when the SE stops asking.
Ends == [](pc # "idle" => <>(pc \in {"done", "undefined"}))

=============================================================================
