------------------------------ MODULE Registry ------------------------------
(***************************************************************************)
(* The registry: the files in which the daemon keeps the authentication     *)
(* token, the tree of containers (root, service providers, Trustlets) and   *)
(* the blobs of the Trusted Applications; the registry commands that the    *)
(* worker executes one at a time, call by call on these files; and RootPA,   *)
(* which stores the containers that come out of the content management TA   *)
(* with one or more of these commands.                                      *)
(*                                                                         *)
(* A command is a sequence of tasks.  A step may fail, the daemon may die   *)
(* and be started again, RootPA may die or stop waiting: at most            *)
(* MaxFailures times, in the ways listed in Failures.                       *)
(***************************************************************************)
EXTENDS Naturals, Sequences, FiniteSets

CONSTANTS SPs,        \* service providers
          TAs,        \* Trusted Applications
          NONE,       \* no file
          EMPTY,      \* a file that has been truncated
          TORN,       \* a part of a container or blob
          GARBAGE,    \* memory nobody has written, of the size of a token
          Failures, MaxFailures

ASSUME FailuresAssumption ==
         /\ Failures \subseteq {"refused", "short", "unnoticed", "crash", "timeout"}
         /\ MaxFailures \in Nat

\* What a file that is whole says: the children of a container, the provider in a
\* .spid file, nothing for the others.
Says == (SUBSET SPs) \cup (SUBSET TAs)
Broken == {NONE, EMPTY, TORN, GARBAGE}
Whole(c) == c \notin Broken

ASSUME ContentsAssumption == /\ Cardinality(Broken) = 4
                             /\ \A c \in Broken, s \in Says: c # s

Auth == <<"auth">>
Backup == <<"backup">>
Root == <<"root">>
Sp(p) == <<"sp", p>>
Tl(u, p) == <<"tl", u, p>>
Tabin(u) == <<"tabin", u>>
Spid(u) == <<"spid", u>>
Files == {Auth, Backup, Root} \cup {Sp(p): p \in SPs} \cup {Tabin(u): u \in TAs}
           \cup {Spid(u): u \in TAs} \cup {Tl(u, p): u \in TAs, p \in SPs}

VARIABLES file,       \* file[f]: the content of file f
          job,        \* the command in execution: its tasks, and whether its client waits
          queued,     \* the commands behind it
          up,         \* the daemon runs
          client,     \* RootPA: the commands left to send, and what it does if one fails
          failed,     \* the failures so far
          listed      \* history: the children each container listed when it was last whole

vars == <<file, job, queued, up, client, failed, listed>>

(***************************************************************************)
(* Commands of the daemon, as the tasks they start with.                    *)
(***************************************************************************)
Store(f, c) == << <<"open", f, c>> >>
StoreTABlob(u, p) == << <<"open", Tabin(u), {}>>, <<"open", Spid(u), {p}>> >>
DeleteAuthToken == << <<"rename">> >>
ReadAuthToken == << <<"read">> >>
CleanupRoot == << <<"cleanRoot">> >>
CleanupSp(p) == << <<"cleanSp", p>> >>
CleanupTrustlet(u, p) == << <<"cleanTl", u, p>> >>
Refused == << <<"refuse">> >>   \* an argument is invalid

NoJob == [todo |-> <<>>, wanted |-> FALSE]
NoCommand == [steps |-> <<>>, regardless |-> FALSE, undo |-> <<>>, answer |-> "none"]
Busy == job.todo # <<>>
Waiting == client.steps # <<>> /\ client.answer = "none"

Init == /\ file = [f \in Files |-> NONE]
        /\ job = NoJob
        /\ queued = <<>>
        /\ up = TRUE
        /\ client = NoCommand
        /\ failed = 0
        /\ listed = [f \in Files |-> {}]

\* One more failure of this kind.
Fails(kind) == /\ kind \in Failures
               /\ failed < MaxFailures
               /\ failed' = failed + 1
Fine == UNCHANGED failed

(***************************************************************************)
(* RootPA.  A CMP command begins when the content management TA has got the *)
(* containers it needs; its session goes through the same worker, so no     *)
(* earlier command is left by then.  The TA's answer holds the containers   *)
(* to be stored.                                                            *)
(***************************************************************************)
Begins(steps, regardless, undo) ==
  /\ client = NoCommand
  /\ up /\ ~Busy
  /\ client' = [NoCommand EXCEPT !.steps = steps, !.regardless = regardless,
                                 !.undo = undo]
  /\ job' = [todo |-> Head(steps), wanted |-> TRUE]
  /\ UNCHANGED <<file, queued, up, failed, listed>>
Stores(steps) == Begins(steps, FALSE, <<>>)

IsWhole(f) == Whole(file[f])
RootLists(p) == IsWhole(Root) /\ p \in file[Root]
SpLists(p, u) == RootLists(p) /\ IsWhole(Sp(p)) /\ u \in file[Sp(p)]

GenerateAuthToken == Stores(<<Store(Auth, {})>>)

\* Mutant: the token is not asked for.
RootContRegisterAnyhow == Stores(<<Store(Root, {}), ReadAuthToken, DeleteAuthToken>>)

\* The SoC has been authenticated with the token.
RootContRegister ==
  /\ IsWhole(Auth)
  /\ Stores(<<Store(Root, {}), ReadAuthToken, DeleteAuthToken>>)

RootContLock == IsWhole(Root) /\ Stores(<<Store(Root, file[Root])>>)

RootContUnregister == IsWhole(Root) /\ Stores(<<CleanupRoot>>)

SpContRegister(p) ==
  /\ IsWhole(Root) /\ ~RootLists(p)
  /\ Stores(<<Store(Sp(p), {}), Store(Root, file[Root] \cup {p})>>)

SpContLock(p) == /\ RootLists(p) /\ IsWhole(Sp(p))
                 /\ Stores(<<Store(Sp(p), file[Sp(p)])>>)

SpContUnregister(p) ==
  /\ RootLists(p)
  /\ Begins(<<CleanupSp(p), Store(Root, file[Root] \ {p})>>, TRUE, <<>>)

\* Mutant: the parent is written first.
TltContRegisterParentFirst(u, p) ==
  /\ RootLists(p) /\ IsWhole(Sp(p)) /\ ~SpLists(p, u)
  /\ Begins(<<Store(Sp(p), file[Sp(p)] \cup {u}), Store(Tl(u, p), {})>>, FALSE,
            <<CleanupTrustlet(u, p)>>)

TltContRegister(u, p) ==
  /\ RootLists(p) /\ IsWhole(Sp(p)) /\ ~SpLists(p, u)
  /\ Begins(<<Store(Tl(u, p), {}), Store(Sp(p), file[Sp(p)] \cup {u})>>, FALSE,
            <<CleanupTrustlet(u, p)>>)

TltContLock(u, p) == /\ SpLists(p, u) /\ IsWhole(Tl(u, p))
                     /\ Stores(<<Store(Tl(u, p), {})>>)

\* Mutant: the parent goes on listing the Trustlet.
TltContUnregisterChildOnly(u, p) ==
  /\ SpLists(p, u)
  /\ Begins(<<CleanupTrustlet(u, p)>>, TRUE, <<>>)

TltContUnregister(u, p) ==
  /\ SpLists(p, u)
  /\ Begins(<<CleanupTrustlet(u, p), Store(Sp(p), file[Sp(p)] \ {u})>>, TRUE, <<>>)

\* storeTA() asks for the container first; the secure world checks the blob.
StoreTA(u, p) == /\ file[Tl(u, p)] \notin {NONE, EMPTY}
                 /\ Stores(<<StoreTABlob(u, p)>>)

CmpCommand == \/ GenerateAuthToken \/ RootContRegister \/ RootContLock
              \/ RootContUnregister
              \/ \E p \in SPs:
                   \/ SpContRegister(p) \/ SpContLock(p) \/ SpContUnregister(p)
                   \/ \E u \in TAs:
                        \/ TltContRegister(u, p) \/ TltContLock(u, p)
                        \/ TltContUnregister(u, p) \/ StoreTA(u, p)

\* Mutant: the size of what is stored is not checked.
RecoveryUnchecked(answer) ==
  << Store(Auth, IF answer = "ok" THEN {} ELSE GARBAGE), CleanupRoot >>

\* What is written back when the token cannot be deleted.  The pointer that is
\* tested is set whether or not the token was read: then the buffer holds what the
\* daemon sent with its error, or, if it did not answer, what malloc() returned, at
\* a size the registry does not accept.
Recovery(answer) == << CASE answer = "ok" -> Store(Auth, {})
                         [] answer = "error" -> Store(Auth, GARBAGE)
                         [] OTHER -> Refused,
                       CleanupRoot >>

\* RootPA has an answer: it sends the next command, or, when the last one has failed,
\* the first one of the recovery.
\* Without a daemon the command fails at once.
Continue ==
  LET reading == Head(client.steps) = ReadAuthToken
      goesOn == client.answer = "ok" \/ client.regardless \/ reading
      left == Tail(client.steps)
      rest == IF goesOn THEN left ELSE IF left = <<>> THEN client.undo ELSE <<>>
      undo == IF reading THEN Recovery(client.answer)
              ELSE IF goesOn THEN client.undo ELSE <<>>
  IN /\ client.answer # "none"
     /\ IF rest = <<>>
        THEN client' = NoCommand /\ UNCHANGED <<job, queued>>
        ELSE /\ client' = [client EXCEPT !.steps = rest, !.undo = undo,
                                         !.answer = IF up THEN "none" ELSE "lost"]
             /\ IF ~up THEN UNCHANGED <<job, queued>>
                ELSE LET new == [todo |-> Head(rest), wanted |-> TRUE] IN
                     IF Busy THEN queued' = Append(queued, new) /\ UNCHANGED job
                             ELSE job' = new /\ UNCHANGED queued
     /\ UNCHANGED <<file, up, failed, listed>>

\* Nobody waits for the commands in the daemon any more.
Unwanted == /\ job' = [job EXCEPT !.wanted = FALSE]
            /\ queued' = [i \in DOMAIN queued |-> [queued[i] EXCEPT !.wanted = FALSE]]

\* DAEMON_TIMEOUT is over; the daemon goes on with the command.
TimeOut == /\ Waiting
           /\ Fails("timeout")
           /\ client' = [client EXCEPT !.answer = "lost"]
           /\ Unwanted
           /\ UNCHANGED <<file, up, listed>>

RootPADies == /\ client # NoCommand
              /\ Fails("crash")
              /\ client' = NoCommand
              /\ Unwanted
              /\ UNCHANGED <<file, up, listed>>

(***************************************************************************)
(* The daemon.  The first task of the command in execution is done; a       *)
(* command ends with its last task or with the first one that fails.        *)
(***************************************************************************)
Task == Head(job.todo)
Does(kind) == up /\ Busy /\ Task[1] = kind
Answers(code) ==
  /\ client' = IF job.wanted THEN [client EXCEPT !.answer = code] ELSE client
  /\ IF queued = <<>> THEN job' = NoJob /\ UNCHANGED queued
                      ELSE job' = Head(queued) /\ queued' = Tail(queued)
Proceed(more) ==
  LET todo == more \o Tail(job.todo) IN
  IF todo = <<>> THEN Answers("ok")
  ELSE job' = [job EXCEPT !.todo = todo] /\ UNCHANGED <<queued, client>>

SetFile(f, c) == /\ file' = [file EXCEPT ![f] = c]
                 /\ listed' = IF Whole(c) THEN [listed EXCEPT ![f] = c] ELSE listed
Keep == UNCHANGED <<file, listed>>

\* fopen(..., "wb") truncates the file.
Open == /\ Does("open")
        /\ LET f == Task[2] IN
           \/ /\ SetFile(f, EMPTY)
              /\ Proceed(<< <<"fill", f, Task[3]>> >>)
              /\ Fine
           \/ Fails("refused") /\ Keep /\ Answers("error")
        /\ UNCHANGED up

\* fwrite(), fflush() and fclose().  ferror() is only asked after fwrite(), which
\* fails when the content exceeds the stream's buffer; what fflush() and fclose()
\* return is ignored.
Fill == /\ Does("fill")
        /\ LET f == Task[2] IN
           \/ SetFile(f, Task[3]) /\ Proceed(<<>>) /\ Fine
           \/ \E c \in {EMPTY, TORN}:
                /\ SetFile(f, c)
                /\ \/ Fails("short") /\ Answers("error")
                   \/ Fails("unnoticed") /\ Proceed(<<>>)
        /\ UNCHANGED up

\* mcRegistryDeleteAuthToken() keeps the token as the backup.
Rename == /\ Does("rename")
          /\ \/ /\ file[Auth] # NONE
                /\ file' = [file EXCEPT ![Backup] = file[Auth], ![Auth] = NONE]
                /\ UNCHANGED listed
                /\ Proceed(<<>>)
                /\ Fine
             \/ file[Auth] = NONE /\ Keep /\ Answers("error") /\ Fine
             \/ Fails("refused") /\ Keep /\ Answers("error")
          /\ UNCHANGED up

\* A token is read when the file has its size.
TokenSize(f) == file[f] \in {{}, GARBAGE}
Read == /\ Does("read")
        /\ \/ Answers(IF TokenSize(Auth) THEN "ok" ELSE "error") /\ Fine
           \/ Fails("refused") /\ Answers("error")
        /\ Keep /\ UNCHANGED up

Refuse == Does("refuse") /\ Answers("error") /\ Keep /\ Fine /\ UNCHANGED up

\* The orders in which the children of a container may be listed.
Orders(S) == {s \in [1..Cardinality(S) -> S]: \A x \in S: \E i \in DOMAIN s: s[i] = x}

\* A container that cannot be read is an error, one that is too short is not.
Cleanup(f, ChildTasks) ==
  /\ \/ file[f] \in {NONE, EMPTY} /\ Answers("error")
     \/ file[f] \in {TORN, GARBAGE} /\ Proceed(<<>>)
     \/ IsWhole(f) /\ \E s \in ChildTasks: Proceed(Append(s, <<"remove", f>>))
  /\ Fine /\ Keep /\ UNCHANGED up
CleanRoot == /\ Does("cleanRoot")
             /\ Cleanup(Root, {[i \in DOMAIN s |-> <<"cleanSp", s[i]>>]:
                                 s \in Orders(file[Root])})
CleanSp == /\ Does("cleanSp")
           /\ LET p == Task[2] IN
              Cleanup(Sp(p), {[i \in DOMAIN s |-> <<"cleanTl", s[i], p>>]:
                                s \in Orders(file[Sp(p)])})

\* deleteSPTA() looks for the .spid file that names the provider, with a blob whose
\* header can be read; the header may be in the part that was stored.
BlobFound(u, p) == file[Spid(u)] = {p} /\ file[Tabin(u)] \notin {NONE, EMPTY}
CleanTl ==
  /\ Does("cleanTl")
  /\ LET u == Task[2]
         p == Task[3]
         blob == << <<"discard", Tabin(u)>>, <<"discard", Spid(u)>> >>
     IN \/ BlobFound(u, p) /\ Proceed(Append(blob, <<"remove", Tl(u, p)>>))
        \/ /\ ~BlobFound(u, p) \/ file[Tabin(u)] = TORN
           /\ Proceed(<< <<"remove", Tl(u, p)>> >>)
  /\ Fine /\ Keep /\ UNCHANGED up

\* remove(): the container of a cleanup has to be there, and its blob (Discard) not.
Remove == /\ Does("remove")
          /\ LET f == Task[2] IN
             \/ file[f] # NONE /\ SetFile(f, NONE) /\ Proceed(<<>>) /\ Fine
             \/ file[f] = NONE /\ Keep /\ Answers("error") /\ Fine
             \/ Fails("refused") /\ Keep /\ Answers("error")
          /\ UNCHANGED up
Discard == /\ Does("discard")
           /\ \/ SetFile(Task[2], NONE) /\ Fine
              \/ Fails("refused") /\ Keep
           /\ Proceed(<<>>)
           /\ UNCHANGED up

Daemon == \/ Open \/ Fill \/ Rename \/ Read \/ Refuse
          \/ CleanRoot \/ CleanSp \/ CleanTl \/ Remove \/ Discard

DaemonDies == /\ up
              /\ Fails("crash")
              /\ up' = FALSE
              /\ job' = NoJob
              /\ queued' = <<>>
              /\ client' = IF Waiting THEN [client EXCEPT !.answer = "lost"] ELSE client
              /\ Keep
DaemonStarts == ~up /\ up' = TRUE /\ UNCHANGED <<file, job, queued, client, failed, listed>>

Next == CmpCommand \/ Continue \/ TimeOut \/ RootPADies \/ Daemon \/ DaemonDies \/ DaemonStarts
Spec == Init /\ [][Next]_vars

\* installEndorsementToken(): the first of these that can be read goes to the secure
\* world when the daemon starts and when the root has been removed.
Endorsed == IF TokenSize(Auth) THEN file[Auth]
            ELSE IF TokenSize(Backup) THEN file[Backup]
            ELSE IF file[Root] \in {NONE, EMPTY} THEN NONE
            ELSE file[Root]

(***************************************************************************)
(* Properties                                                              *)
(***************************************************************************)
TypeOK == /\ \A f \in Files: IsWhole(f) => file[f] \in Says
          /\ up \in BOOLEAN
          /\ failed \in 0..MaxFailures
          /\ client.answer \in {"none", "ok", "error", "lost"}
\* One command is executed at a time; commands given up wait before the one RootPA
\* waits for.
OneCommand == /\ ~up => ~Busy
              /\ ~Busy => queued = <<>>
              /\ Len(queued) <= 2
              /\ Waiting => (IF queued = <<>> THEN job ELSE queued[Len(queued)]).wanted
\* The backup is a token (mcRegistryDeleteAuthToken() renames a file nobody checks).
BackupWhole == IsWhole(Backup) \/ file[Backup] = NONE

Inv == TypeOK /\ OneCommand /\ BackupWhole

\* Once a root has been registered, no single failure leaves the daemon without a
\* token for the secure world: the recovery of pacmp3.c:412-418 and the search order
\* of installEndorsementToken() see to it.
TokenKept == file[Backup] # NONE => Whole(Endorsed)

\* A container gets a new child only when the child's container has been stored
\* (pacmp3.c:468 and 523: the parent is written last).
AddedChildStored ==
  [][ /\ \A p \in SPs: p \in listed'[Root] \ listed[Root] => IsWhole(Sp(p))
      /\ \A p \in SPs, u \in TAs:
           u \in listed'[Sp(p)] \ listed[Sp(p)] => IsWhole(Tl(u, p)) ]_vars

\* When nothing has failed, each container listed in the tree is stored, and the blob
\* of a TA has gone with its container: what storeContainers() and the recursive
\* clean-up of the daemon do agree.
TreeWhole ==
  client = NoCommand /\ failed = 0 =>
    \A p \in SPs: /\ RootLists(p) => IsWhole(Sp(p))
                  /\ \A u \in TAs: /\ SpLists(p, u) => IsWhole(Tl(u, p))
                                   /\ BlobFound(u, p) => IsWhole(Tl(u, p))

=============================================================================
