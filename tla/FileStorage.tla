----------------------------- MODULE FileStorage -----------------------------
(***************************************************************************)
(* The file storage daemon (FSD), a thread of the daemon that keeps the     *)
(* persistent objects of the TAs as files.  The storage driver (STH) of the *)
(* secure world writes a request into a buffer shared with the FSD and      *)
(* notifies it; the FSD works on the files of the TA and notifies back.     *)
(* One TA is modelled, with its directory; uninstalling it (the registry's  *)
(* CleanupGPTAStorage(), another thread) empties and removes the directory  *)
(* meanwhile.  The daemon may die between any two system calls: the files    *)
(* stay as they are then.                                                   *)
(***************************************************************************)
EXTENDS Naturals

CONSTANTS Objects,    \* the objects of the TA
          Payloads,   \* what an object may hold
          NONE,       \* no file, no request or no status
          EMPTY,      \* the content of a file just created
          Failures  \* what may go wrong: a file cannot be created or written
                    \* ("full"), renamed or removed ("refused"), opened or read
                    \* ("io"); the session breaks, the daemon dies ("crash"), or
                    \* is not root ("unreadable")

ASSUME FailuresAssumption ==
         Failures \subseteq {"full", "refused", "io", "session", "crash", "unreadable"}

VARIABLES dir,        \* the TA has a directory
          file,       \* file[o]: the file of the object
          new,        \* new[o]: the file it is replaced with (extension .new)
          dci,        \* the request in the shared buffer, NONE when STH is done
          status,     \* its status field, NONE before the FSD has set it
          fsd,        \* where the FSD's thread is
          sth,        \* where the STH is
          toFsd, toSth,  \* a notification is on its way
          cleaner,    \* where the thread that uninstalls the TA is
          listed      \* the files readdir() has still to return to it

sessionVars == <<sth, toFsd, toSth>>
fileVars == <<dir, file, new>>
cleanVars == <<cleaner, listed>>
vars == <<dir, file, new, dci, status, fsd, sth, toFsd, toSth, cleaner, listed>>

Opening == {"open", "first", "sync"}
Writing == {"mkdir", "create", "openNew", "write", "rename"}
Unwinding == {"unwind", "unwindNew"}   \* remove(Filepath), then remove(Filepath_new)
Deleting == {"remove", "rmdir"}
FsdPlaces == Opening \cup {"listen", "execute", "notify", "ended"}
               \cup Writing \cup Unwinding \cup Deleting
SthPlaces == {"closed", "opened", "ready", "waits"}

Names == {"file", "new"} \X Objects   \* the entries the directory may have
Entry(n) == IF n[1] = "file" THEN file[n[2]] ELSE new[n[2]]
Entries == {n \in Names: Entry(n) # NONE}

\* What the driver sees of it: a file is an object, and a write whose file has been
\* removed has failed.
Outcome == IF fsd = "unwindNew" THEN "NO_SPACE" ELSE status
Uninstalling == {o \in Objects: <<"file", o>> \in listed}
Store == INSTANCE ObjectStore WITH object <- file, request <- dci, result <- Outcome,
                                   uninstalling <- Uninstalling,
                                   Faults <- Failures

ASSUME ConstantsAssumption ==
         /\ NONE # EMPTY
         /\ Payloads \cap {NONE, EMPTY} = {}
         /\ Store!Contents \cap (Store!Errors \cup {"SUCCESS"}) = {}
         /\ NONE \notin Store!Requests

TypeOK ==
  /\ dir \in BOOLEAN
  /\ file \in [Objects -> Store!Contents]
  /\ new \in [Objects -> Store!Contents]
  /\ dci \in Store!Requests \cup {NONE}
  /\ status \in Store!Contents \cup Store!Errors \cup {"SUCCESS"}
  /\ fsd \in FsdPlaces
  /\ sth \in SthPlaces
  /\ toFsd \in BOOLEAN /\ toSth \in BOOLEAN
  /\ cleaner \in {"idle", "listing", "rmdir"}
  /\ listed \subseteq Names

Init == /\ dir = FALSE
        /\ file = [o \in Objects |-> NONE]
        /\ new = [o \in Objects |-> NONE]
        /\ dci = NONE
        /\ status = NONE
        /\ fsd = "open"
        /\ sth = "closed"
        /\ toFsd = FALSE /\ toSth = FALSE
        /\ cleaner = "idle"
        /\ listed = {}

\* A file of the directory gets a content (SetNew: the .new file).
SetFile(o, c) == file' = [file EXCEPT ![o] = c]
SetNew(o, c) == new' = [new EXCEPT ![o] = c]
Moves(from, to) == fsd = from /\ fsd' = to
\* The request is done: its status goes to the buffer.
Returns(code) == /\ status' = code
                 /\ fsd' = "notify"

(***************************************************************************)
(* The FSD opens the session and greets the driver.  Whatever fails ends    *)
(* the thread for good.                                                     *)
(***************************************************************************)
FSD_Open == /\ fsd = "open"
            /\ \/ /\ fsd' = "first"
                  /\ sth' = "opened"
                  /\ toFsd' = TRUE
               \/ /\ "session" \in Failures
                  /\ fsd' = "ended"
                  /\ UNCHANGED <<sth, toFsd>>
            /\ UNCHANGED <<toSth, dci, status>> /\ UNCHANGED fileVars
            /\ UNCHANGED cleanVars

\* mcWaitNotification(), and mcNotify() with CMD_ST_SYNC or to confirm it.
Greet == /\ toFsd
         /\ \/ Moves("first", "sync")
            \/ Moves("sync", "listen")
         /\ toFsd' = FALSE
         /\ toSth' = TRUE
         /\ UNCHANGED <<sth, dci, status>> /\ UNCHANGED fileVars
         /\ UNCHANGED cleanVars

\* The TA behind the session has gone: the wait fails and so does a notify.
SessionFails == /\ "session" \in Failures
                /\ fsd \in (Opening \ {"open"}) \cup {"listen", "notify"}
                /\ fsd' = "ended"
                /\ sth' = "closed"
                /\ toFsd' = FALSE /\ toSth' = FALSE
                /\ dci' = NONE /\ status' = NONE
                /\ UNCHANGED fileVars /\ UNCHANGED cleanVars

\* Mutant: the notification is not consumed.
ListenAgain == /\ toFsd
               /\ Moves("listen", "execute")
               /\ UNCHANGED <<sth, toFsd, toSth, dci, status>> /\ UNCHANGED fileVars
               /\ UNCHANGED cleanVars

\* FSD_listenDci() gets the notification.
Listen == /\ toFsd
          /\ Moves("listen", "execute")
          /\ toFsd' = FALSE
          /\ UNCHANGED <<sth, toSth, dci, status>> /\ UNCHANGED fileVars
          /\ UNCHANGED cleanVars

\* ... and has the request executed, then notifies the driver.
Notify == /\ Moves("notify", "listen")
          /\ toSth' = TRUE
          /\ UNCHANGED <<sth, toFsd, dci, status>> /\ UNCHANGED fileVars
          /\ UNCHANGED cleanVars

(***************************************************************************)
(* The operations on files.  In an action, o is the object of the request.  *)
(***************************************************************************)
Executes(type) == fsd = "execute" /\ dci.type = type

\* fopen() of a file; the one left by an exclusive open() has the mode S_IWUSR,
\* which only root can read.
Readable(o) == file[o] # NONE /\ (file[o] = EMPTY => "unreadable" \notin Failures)

\* A file that can be opened is read to its end, be it shorter than the buffer or
\* empty.  Whatever fopen() fails for, there is no such file; and a file that
\* cannot be read is none for LOOK.
FSD_LookFile == /\ Executes("LOOK") \/ Executes("READ")
                /\ \/ /\ Readable(dci.object)
                      /\ Returns(file[dci.object])
                   \/ /\ ~Readable(dci.object) \/ "io" \in Failures
                      /\ Returns("NOT_FOUND")
                   \/ /\ Readable(dci.object) /\ "io" \in Failures
                      /\ Returns(IF dci.type = "LOOK" THEN "NOT_FOUND" ELSE "CORRUPT")
                /\ UNCHANGED <<dci>> /\ UNCHANGED fileVars
                /\ UNCHANGED sessionVars /\ UNCHANGED cleanVars

FSD_WriteFile == /\ Executes("WRITE")
                 /\ \/ /\ dir' = TRUE
                       /\ fsd' = IF dci.exclusive THEN "create" ELSE "openNew"
                       /\ UNCHANGED status
                    \/ /\ ("full" \in Failures /\ ~dir) \/ "io" \in Failures
                       /\ Returns("NO_SPACE")
                       /\ UNCHANGED dir
                 /\ UNCHANGED <<file, new, dci>>
                 /\ UNCHANGED sessionVars /\ UNCHANGED cleanVars

\* open(Filepath, O_CREAT | O_EXCL): the file is left empty.
OpenExclusive ==
  /\ fsd = "create"
  /\ LET o == dci.object IN
     \/ /\ dir
        /\ file[o] = NONE
        /\ SetFile(o, EMPTY)
        /\ fsd' = "openNew"
        /\ UNCHANGED status
     \/ /\ ~dir \/ file[o] # NONE \/ "full" \in Failures
        /\ Returns("CORRUPT")
        /\ UNCHANGED file
  /\ UNCHANGED <<dir, new, dci>>
  /\ UNCHANGED sessionVars /\ UNCHANGED cleanVars

\* remove(Filepath), which may fail: that is only logged.
Removes(o) == SetFile(o, NONE) \/ ("refused" \in Failures /\ UNCHANGED file)
RemovesNew(o) == SetNew(o, NONE) \/ ("refused" \in Failures /\ UNCHANGED new)

\* Mutant: the file itself is opened and truncated.
OpenInPlace ==
  /\ fsd = "openNew"
  /\ LET o == dci.object IN
     \/ /\ dir
        /\ SetFile(o, EMPTY)
        /\ SetNew(o, EMPTY)
        /\ fsd' = "write"
        /\ UNCHANGED status
     \/ /\ ~dir \/ "full" \in Failures
        /\ Removes(o)
        /\ Returns("NO_SPACE")
        /\ UNCHANGED new
  /\ UNCHANGED <<dir, dci>>
  /\ UNCHANGED sessionVars /\ UNCHANGED cleanVars

\* fopen(Filepath_new): when it fails, the file is removed and not the new one.
OpenNew ==
  /\ fsd = "openNew"
  /\ LET o == dci.object IN
     \/ /\ dir
        /\ SetNew(o, EMPTY)
        /\ fsd' = "write"
        /\ UNCHANGED <<file, status>>
     \/ /\ ~dir \/ "full" \in Failures
        /\ Removes(o)
        /\ Returns("NO_SPACE")
        /\ UNCHANGED new
  /\ UNCHANGED <<dir, dci>>
  /\ UNCHANGED sessionVars /\ UNCHANGED cleanVars

\* fwrite() and fclose(): what is written to a file that has been removed is lost.
WriteNew ==
  /\ fsd = "write"
  /\ LET o == dci.object IN
     \/ /\ new' = IF new[o] = NONE THEN new ELSE [new EXCEPT ![o] = dci.payload]
        /\ fsd' = "rename"
     \/ /\ "full" \in Failures
        /\ fsd' = "unwind"
        /\ UNCHANGED new
  /\ UNCHANGED <<dir, file, dci, status>>
  /\ UNCHANGED sessionVars /\ UNCHANGED cleanVars

\* rename() replaces the file by the new one in one step.
Rename ==
  /\ fsd = "rename"
  /\ LET o == dci.object IN
     \/ /\ new[o] # NONE
        /\ SetFile(o, new[o])
        /\ SetNew(o, NONE)
        /\ Returns("SUCCESS")
     \/ /\ new[o] = NONE \/ "refused" \in Failures
        /\ fsd' = "unwind"
        /\ UNCHANGED <<file, new, status>>
  /\ UNCHANGED <<dir, dci>>
  /\ UNCHANGED sessionVars /\ UNCHANGED cleanVars

\* A write that failed removes the file (Unwind) and the new one (UnwindNew).
Unwind == /\ Moves("unwind", "unwindNew")
          /\ Removes(dci.object)
          /\ UNCHANGED <<dir, new, dci, status>>
          /\ UNCHANGED sessionVars /\ UNCHANGED cleanVars

\* Mutant: the error path listens again and leaves the driver without an answer.
UnwindSilently == /\ Moves("unwindNew", "listen")
                  /\ RemovesNew(dci.object)
                  /\ UNCHANGED <<dir, file, dci, status>>
                  /\ UNCHANGED sessionVars /\ UNCHANGED cleanVars

UnwindNew == /\ fsd = "unwindNew"
             /\ RemovesNew(dci.object)
             /\ Returns("NO_SPACE")
             /\ UNCHANGED <<dir, file, dci>>
             /\ UNCHANGED sessionVars /\ UNCHANGED cleanVars

\* fopen() tells whether there is a file to remove; one that it cannot open is
\* taken as absent.
FSD_DeleteFile == /\ Executes("DELETE")
                  /\ \/ Readable(dci.object) /\ fsd' = "remove"
                     \/ /\ ~Readable(dci.object) \/ "io" \in Failures
                        /\ fsd' = "rmdir"
                  /\ UNCHANGED <<dci, status>> /\ UNCHANGED fileVars
                  /\ UNCHANGED sessionVars /\ UNCHANGED cleanVars

RemoveFile == /\ Moves("remove", "rmdir")
              /\ Removes(dci.object)
              /\ UNCHANGED <<dir, new, dci, status>>
              /\ UNCHANGED sessionVars /\ UNCHANGED cleanVars

\* rmdir() succeeds on an empty directory; one in use, or none, is no error.
\* Its outcome is the answer, whatever became of the file.
RemoveDir == /\ fsd = "rmdir"
             /\ \/ /\ dir' = (dir /\ Entries # {})
                   /\ Returns("SUCCESS")
                \/ /\ "refused" \in Failures
                   /\ Returns("NO_SPACE")
                   /\ UNCHANGED dir
             /\ UNCHANGED <<file, new, dci>>
             /\ UNCHANGED sessionVars /\ UNCHANGED cleanVars

(***************************************************************************)
(* The registry's CleanupGPTAStorage(), in the thread of a registry command.*)
(***************************************************************************)
CleanupGPTAStorage == /\ cleaner = "idle"
                      /\ dir
                      /\ cleaner' = "listing"
                      /\ listed' = Entries
                      /\ UNCHANGED <<fsd, dci, status>> /\ UNCHANGED fileVars
                      /\ UNCHANGED sessionVars

\* The next entry is removed, whoever works on it; a failure is only logged.
CleanEntry == /\ cleaner = "listing"
              /\ \E n \in listed:
                   /\ listed' = listed \ {n}
                   /\ IF n[1] = "file"
                      THEN Removes(n[2]) /\ UNCHANGED new
                      ELSE RemovesNew(n[2]) /\ UNCHANGED file
              /\ UNCHANGED <<dir, cleaner, fsd, dci, status>>
              /\ UNCHANGED sessionVars

\* After the last one rmdir(): it fails when an entry is left, or the FSD has made
\* a new one, and the caller goes on.
CleanDir == /\ cleaner = "listing"
            /\ listed = {}
            /\ cleaner' = "idle"
            /\ \/ dir' = (dir /\ Entries # {})
               \/ "refused" \in Failures /\ UNCHANGED dir
            /\ UNCHANGED <<file, new, listed, fsd, dci, status>>
            /\ UNCHANGED sessionVars

\* The daemon dies and is started again; the session is closed by then.
CrashRestart == /\ "crash" \in Failures
                /\ fsd' = "open"
                /\ sth' = "closed"
                /\ toFsd' = FALSE /\ toSth' = FALSE
                /\ dci' = NONE /\ status' = NONE
                /\ cleaner' = "idle" /\ listed' = {}
                /\ UNCHANGED fileVars

(***************************************************************************)
(* The storage driver, external: it notifies when it has started, confirms  *)
(* the greeting, then asks one request after the other and takes the answer.*)
(***************************************************************************)
SthGreets == /\ sth = "opened"
             /\ toSth
             /\ toSth' = FALSE
             /\ IF fsd = "sync" THEN toFsd' = TRUE /\ UNCHANGED sth
                                ELSE sth' = "ready" /\ UNCHANGED toFsd
             /\ UNCHANGED <<dci, status, fsd>> /\ UNCHANGED fileVars
             /\ UNCHANGED cleanVars

SthAsks(r) == /\ sth = "ready"
              /\ sth' = "waits"
              /\ dci' = r
              /\ status' = NONE
              /\ toFsd' = TRUE
              /\ UNCHANGED <<toSth, fsd>> /\ UNCHANGED fileVars
              /\ UNCHANGED cleanVars

SthTakesAnswer == /\ sth = "waits"
                  /\ toSth
                  /\ sth' = "ready"
                  /\ toSth' = FALSE
                  /\ dci' = NONE /\ status' = NONE
                  /\ UNCHANGED <<toFsd, fsd>> /\ UNCHANGED fileVars
                  /\ UNCHANGED cleanVars

FsdOpens == FSD_Open \/ Greet
FsdServes == \/ Listen \/ Notify \/ FSD_LookFile
             \/ FSD_WriteFile \/ OpenExclusive \/ OpenNew \/ WriteNew \/ Rename
             \/ Unwind \/ UnwindNew
             \/ FSD_DeleteFile \/ RemoveFile \/ RemoveDir
Cleans == CleanupGPTAStorage \/ CleanEntry \/ CleanDir
Sth == SthGreets \/ SthTakesAnswer \/ \E r \in Store!Requests: SthAsks(r)

Next == FsdOpens \/ FsdServes \/ SessionFails \/ Cleans \/ CrashRestart \/ Sth
Spec == Init /\ [][Next]_vars

\* The FSD's thread is scheduled; the driver takes what it is sent.
FairSpec == /\ Spec
            /\ WF_vars(FsdOpens) /\ WF_vars(FsdServes)
            /\ WF_vars(SthGreets) /\ WF_vars(SthTakesAnswer)

(***************************************************************************)
(* Properties                                                              *)
(***************************************************************************)
\* The buffer belongs to one side at a time: while the FSD works on a request the
\* driver waits for that request and no notification is on its way; an answer is
\* sent once, with the status of this request (FSD_listenDci()).  What is in the
\* directory exists only with it.
Working == Writing \cup Unwinding \cup Deleting \cup {"execute"}
OneRequest ==
  /\ fsd \in Working => dci # NONE /\ status = NONE
  /\ fsd \in Writing \cup Unwinding => dci.type = "WRITE"
  /\ fsd = "create" => dci.exclusive
  /\ fsd \in Deleting => dci.type = "DELETE"
  /\ fsd = "notify" => dci # NONE /\ status # NONE
  /\ fsd \in Working \cup {"notify"} => sth = "waits" /\ ~toFsd /\ ~toSth
  /\ sth = "waits" => fsd \in Working \cup {"notify", "listen"}
  /\ sth = "waits" /\ toSth => status # NONE
  /\ sth = "waits" /\ toFsd => status = NONE
  /\ sth = "waits" <=> dci # NONE
  /\ ~(toFsd /\ toSth)
Greeting ==
  /\ fsd \in {"open", "ended"} => sth = "closed" /\ ~toFsd /\ ~toSth
  /\ fsd \in {"first", "sync"} => sth = "opened"
  /\ fsd = "first" => ~toSth
  /\ sth = "opened" => fsd \in {"first", "sync", "listen"}
  /\ sth = "opened" /\ fsd = "listen" => ~toFsd
  /\ sth = "ready" => fsd = "listen" /\ ~toFsd /\ ~toSth
  /\ sth = "closed" => fsd \in {"open", "ended"}
InDirectory == ~dir => Entries = {}
\* What an uninstallation has still to remove is its own, and is gone with it.
Listing == cleaner # "listing" => listed = {}
\* A file that DELETE has left behind could not be opened or removed.
Gone == fsd = "rmdir" => \/ ~Readable(dci.object)
                         \/ Failures \cap {"io", "refused"} # {}
\* What is renamed is the whole new content.
Filled == fsd = "rename" => new[dci.object] \in {NONE, dci.payload}

Inv == TypeOK /\ OneRequest /\ Greeting /\ InDirectory /\ Listing /\ Gone /\ Filled

\* The files, and the crash of the daemon between any two system calls, are an
\* object store: a write takes effect at once or fails, a read returns what the
\* last write left, or an error where the file system fails one, and an object that
\* no request is about and no uninstallation listed does not change (FSD_WriteFile()
\* fills a new file and renames it).
StoresObjects == Store!Spec

\* A request is answered, or the FSD's thread has ended: each path through
\* FSD_ExecuteCommand() comes back to the notification.
Answered == (sth = "waits") ~> (sth # "waits" \/ fsd = "ended")

==============================================================================
