----------------------------- MODULE ObjectStore -----------------------------
(***************************************************************************)
(* What the file storage daemon gives to the storage driver of the secure   *)
(* world (STH): a store of persistent objects that answers one request at   *)
(* a time.  An object is its content, NONE when there is no such object, or *)
(* EMPTY: an object that was created exclusively and has not got its        *)
(* content.  FileStorage is shown to implement it.                          *)
(***************************************************************************)
EXTENDS Naturals

CONSTANTS Objects,    \* the objects of a TA
          Payloads,   \* what an object may hold
          NONE,       \* no object, or no request
          EMPTY,      \* created and not written
          Faults      \* what may fail: reading ("io") or removing ("refused") an
                      \* object, or reading one without content ("unreadable")

Errors == {"NOT_FOUND", "CORRUPT", "NO_SPACE"}

Requests == [type: {"LOOK", "READ", "DELETE"}, object: Objects]
              \cup [type: {"WRITE"}, object: Objects, payload: Payloads,
                    exclusive: BOOLEAN]

Contents == Payloads \cup {NONE, EMPTY}

VARIABLES object,     \* object[o]: what a read of o finds
          request,    \* the request in the shared buffer
          result,     \* its outcome: NONE until it is decided
          uninstalling   \* the objects that the uninstallation of the TA takes away

vars == <<object, request, result, uninstalling>>

TypeOK == /\ object \in [Objects -> Contents]
          /\ request \in Requests \cup {NONE}
          /\ result \in Contents \cup Errors \cup {"SUCCESS"}
          /\ uninstalling \subseteq Objects

Init == /\ object = [o \in Objects |-> NONE]
        /\ request = NONE
        /\ result = NONE
        /\ uninstalling = {}

Ask(r) == /\ request = NONE
          /\ request' = r
          /\ result' = NONE
          /\ UNCHANGED <<object, uninstalling>>

Pending(type) == request # NONE /\ request.type = type /\ result = NONE

\* The object gets its content and the writer its success at once.
Write == /\ Pending("WRITE")
         /\ object' = [object EXCEPT ![request.object] = request.payload]
         /\ result' = "SUCCESS"
         /\ UNCHANGED <<request, uninstalling>>

\* An exclusive write claims a name that is free.
Create == /\ Pending("WRITE")
          /\ request.exclusive
          /\ object[request.object] = NONE
          /\ object' = [object EXCEPT ![request.object] = EMPTY]
          /\ UNCHANGED <<request, result, uninstalling>>

\* A write that fails leaves the object as it was, or takes it away.
WriteFails == /\ Pending("WRITE")
              /\ object' \in {object, [object EXCEPT ![request.object] = NONE]}
              /\ result' \in {"CORRUPT", "NO_SPACE"}
              /\ UNCHANGED <<request, uninstalling>>

\* An object that is there is returned as it is now; one that is not there, or that
\* has never got its content and cannot be read for that, is not found.
Find == /\ Pending("LOOK") \/ Pending("READ")
        /\ LET found == object[request.object] IN
           \/ found # NONE /\ result' = found
           \/ found = NONE /\ result' = "NOT_FOUND"
           \/ found = EMPTY /\ "unreadable" \in Faults /\ result' = "NOT_FOUND"
        /\ UNCHANGED <<object, request, uninstalling>>

\* A file system that fails: an object that is there is told as corrupt, or as not
\* there, as if it had never been.
FindFails == /\ "io" \in Faults
             /\ Pending("LOOK") \/ Pending("READ")
             /\ result' \in {"NOT_FOUND", "CORRUPT"}
             /\ UNCHANGED <<object, request, uninstalling>>

Remove == /\ Pending("DELETE")
          /\ object' = [object EXCEPT ![request.object] = NONE]
          /\ UNCHANGED <<request, result, uninstalling>>

\* Success is told when the object is not there, and also when it could not be
\* opened or removed: the outcome of remove() is overwritten by that of rmdir().
Deleted == /\ Pending("DELETE")
           /\ LET left == object[request.object] IN
              \/ left = NONE
              \/ left = EMPTY /\ "unreadable" \in Faults
              \/ Faults \cap {"io", "refused"} # {}
           /\ result' = "SUCCESS"
           /\ UNCHANGED <<object, request, uninstalling>>

\* The directory of the objects could not be removed.
DeleteFails == /\ "refused" \in Faults
               /\ Pending("DELETE")
               /\ result' = "NO_SPACE"
               /\ UNCHANGED <<object, request, uninstalling>>

Answer == /\ request # NONE
          /\ result # NONE
          /\ request' = NONE
          /\ result' = NONE
          /\ UNCHANGED <<object, uninstalling>>

\* The TA is uninstalled: the objects it has then are taken away one by one, or
\* spared when the file system refuses.  One written meanwhile stays, or goes when
\* its turn comes.
BeginUninstall == /\ uninstalling = {}
                  /\ uninstalling' = {o \in Objects: object[o] # NONE}
                  /\ UNCHANGED <<object, request, result>>

Uninstall(o) == /\ uninstalling' = uninstalling \ {o}
                /\ \/ object' = [object EXCEPT ![o] = NONE]
                   \/ "refused" \in Faults /\ UNCHANGED object
                /\ UNCHANGED <<request, result>>

\* The session or the daemon goes away in the middle of a request: the objects stay.
Crash == /\ request' = NONE
         /\ result' = NONE
         /\ uninstalling' \in {uninstalling, {}}
         /\ UNCHANGED object

Next == \/ \E r \in Requests: Ask(r)
        \/ Write \/ Create \/ WriteFails \/ Find \/ FindFails
        \/ Remove \/ Deleted \/ DeleteFails \/ Answer \/ Crash
        \/ BeginUninstall
        \/ \E o \in uninstalling: Uninstall(o)

Spec == Init /\ [][Next]_vars

==============================================================================
