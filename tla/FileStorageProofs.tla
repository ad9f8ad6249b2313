------------------------- MODULE FileStorageProofs -------------------------
(***************************************************************************)
(* Theorems about the file storage daemon: its invariant, and that it       *)
(* implements an object store (ObjectStore) whatever fails and whenever the *)
(* daemon dies.                                                             *)
(***************************************************************************)
EXTENDS FileStorage, TLAPS

USE FailuresAssumption, ConstantsAssumption

\* A write request has a payload and a mode.
LEMMA WriteRequest ==
  ASSUME NEW r \in Store!Requests, r.type = "WRITE"
  PROVE  r.payload \in Payloads /\ r.exclusive \in BOOLEAN
BY DEF Store!Requests

\* Every request is about an object of the TA.
LEMMA RequestObject ==
  ASSUME NEW r \in Store!Requests
  PROVE  r.object \in Objects
BY DEF Store!Requests

\* The types hold throughout: each step keeps the fields of the FSD, its files and
\* its buffer in their sets.
LEMMA TypeInvariant ==
  ASSUME Inv, [Next]_vars
  PROVE  TypeOK'
<1> USE DEF TypeOK, Store!Contents, Store!Errors, FsdPlaces, Opening, Writing, Unwinding,
            Deleting, SthPlaces, SetFile, SetNew, Removes, RemovesNew, Moves, Returns, Executes,
            fileVars, sessionVars, cleanVars
<1>1. CASE FsdOpens  BY <1>1 DEF FsdOpens, FSD_Open, Greet, Inv
<1>2. CASE SessionFails  BY <1>2 DEF SessionFails, Inv
<1>3. CASE FsdServes
  <2> dci # NONE => dci.object \in Objects  BY RequestObject DEF Inv
  <2>1. CASE Listen \/ Notify  BY <2>1 DEF Listen, Notify, Inv
  <2>2. CASE FSD_LookFile  BY <2>2 DEF FSD_LookFile, Inv, OneRequest, Working
  <2>3. CASE FSD_WriteFile  BY <2>3 DEF FSD_WriteFile, Inv
  <2>4. CASE OpenExclusive  BY <2>4 DEF OpenExclusive, Inv
  <2>5. CASE OpenNew  BY <2>5 DEF OpenNew, Inv
  <2>6. CASE WriteNew
    BY <2>6, WriteRequest DEF WriteNew, Inv, OneRequest, Working
  <2>7. CASE Rename  BY <2>7 DEF Rename, Inv, OneRequest, Working
  <2>8. CASE Unwind \/ UnwindNew  BY <2>8 DEF Unwind, UnwindNew, Inv
  <2>9. CASE FSD_DeleteFile  BY <2>9 DEF FSD_DeleteFile, Inv
  <2>10. CASE RemoveFile  BY <2>10 DEF RemoveFile, Inv
  <2>11. CASE RemoveDir
    <3>1. dir' \in BOOLEAN  BY <2>11 DEF RemoveDir, Inv
    <3> QED  BY <2>11, <3>1 DEF RemoveDir, Inv
  <2> QED
    BY <1>3, <2>1, <2>2, <2>3, <2>4, <2>5, <2>6, <2>7, <2>8, <2>9, <2>10, <2>11 DEF FsdServes
<1>4. CASE Cleans
  <2>1. CASE CleanupGPTAStorage
    BY <2>1 DEF CleanupGPTAStorage, Inv, Entries
  <2>2. CASE CleanEntry
    <3>1. PICK n \in Names: /\ listed' = listed \ {n}
                            /\ IF n[1] = "file"
                               THEN Removes(n[2]) /\ UNCHANGED new
                               ELSE RemovesNew(n[2]) /\ UNCHANGED file
      BY <2>2 DEF CleanEntry, Inv
    <3>2. file' \in [Objects -> Store!Contents] /\ new' \in [Objects -> Store!Contents]
      <4>1. n[2] \in Objects  BY DEF Names
      <4> QED  BY <3>1, <4>1 DEF Inv
    <3> QED  BY <3>1, <3>2, <2>2 DEF CleanEntry, Inv
  <2>3. CASE CleanDir
    <3>1. dir' \in BOOLEAN  BY <2>3 DEF CleanDir, Inv
    <3> QED  BY <2>3, <3>1 DEF CleanDir, Inv
  <2> QED  BY <1>4, <2>1, <2>2, <2>3 DEF Cleans
<1>5. CASE CrashRestart  BY <1>5 DEF CrashRestart, Inv
<1>6. CASE Sth
  <2>1. CASE SthGreets
    <3>1. toFsd' \in BOOLEAN /\ sth' \in SthPlaces  BY <2>1 DEF SthGreets, Inv
    <3> QED  BY <2>1, <3>1 DEF SthGreets, Inv
  <2>2. CASE SthTakesAnswer  BY <2>2 DEF SthTakesAnswer, Inv
  <2>3. ASSUME NEW r \in Store!Requests, SthAsks(r)
        PROVE  TypeOK'
    BY <2>3 DEF SthAsks, Inv
  <2> QED  BY <1>6, <2>1, <2>2, <2>3 DEF Sth
<1>7. CASE UNCHANGED vars  BY <1>7 DEF vars, Inv
<1> QED  BY <1>1, <1>2, <1>3, <1>4, <1>5, <1>6, <1>7 DEF Next

\* The buffer stays with one side at a time: no step of the FSD, the driver or a
\* restart answers a request twice or works without one.
LEMMA BufferInvariant ==
  ASSUME Inv, [Next]_vars
  PROVE  OneRequest' /\ Greeting'
<1> USE DEF TypeOK, OneRequest, Greeting, Working, Writing, Unwinding, Deleting, Opening,
            SetFile, SetNew, Removes, RemovesNew, Moves, Returns, Executes, fileVars,
            sessionVars, cleanVars
<1>1. CASE FsdOpens  BY <1>1 DEF FsdOpens, FSD_Open, Greet, Inv
<1>2. CASE SessionFails  BY <1>2 DEF SessionFails, Inv
<1>3. CASE FsdServes
  <2>1. CASE Listen \/ Notify  BY <2>1 DEF Listen, Notify, Inv, SthPlaces
  <2>2. CASE FSD_LookFile
    BY <2>2, RequestObject DEF FSD_LookFile, Readable, Inv, Store!Contents, Store!Errors
  <2>3. CASE FSD_WriteFile  BY <2>3 DEF FSD_WriteFile, Inv, Store!Contents, Store!Errors
  <2>4. CASE OpenExclusive  BY <2>4 DEF OpenExclusive, Inv, Store!Contents, Store!Errors
  <2>5. CASE OpenNew  BY <2>5 DEF OpenNew, Inv, Store!Contents, Store!Errors
  <2>6. CASE WriteNew  BY <2>6 DEF WriteNew, Inv
  <2>7. CASE Rename  BY <2>7 DEF Rename, Inv, Store!Contents, Store!Errors
  <2>8. CASE Unwind \/ UnwindNew
    BY <2>8 DEF Unwind, UnwindNew, Inv, Store!Contents, Store!Errors
  <2>9. CASE FSD_DeleteFile \/ RemoveFile \/ RemoveDir
    BY <2>9 DEF FSD_DeleteFile, RemoveFile, RemoveDir, Inv, Store!Contents, Store!Errors
  <2> QED  BY <1>3, <2>1, <2>2, <2>3, <2>4, <2>5, <2>6, <2>7, <2>8, <2>9 DEF FsdServes
<1>4. CASE Cleans
  BY <1>4 DEF Cleans, CleanupGPTAStorage, CleanEntry, CleanDir, Inv
<1>5. CASE CrashRestart  BY <1>5 DEF CrashRestart, Inv
<1>6. CASE Sth
  BY <1>6 DEF Sth, SthGreets, SthTakesAnswer, SthAsks, Inv
<1>7. CASE UNCHANGED vars  BY <1>7 DEF vars, Inv
<1> QED  BY <1>1, <1>2, <1>3, <1>4, <1>5, <1>6, <1>7 DEF Next

\* What is in the directory exists only with it: files are made while it is there
\* and rmdir() spares it while one is left.
LEMMA DirectoryInvariant ==
  ASSUME Inv, [Next]_vars
  PROVE  InDirectory'
<1>0. \A o \in Objects: ~dir => file[o] = NONE /\ new[o] = NONE
  <2> SUFFICES ASSUME NEW o \in Objects, ~dir
               PROVE  file[o] = NONE /\ new[o] = NONE
    OBVIOUS
  <2>1. <<"file", o>> \in Names /\ <<"new", o>> \in Names  BY DEF Names
  <2>2. Entry(<<"file", o>>) = NONE /\ Entry(<<"new", o>>) = NONE
    BY <2>1 DEF Inv, InDirectory, Entries
  <2> QED  BY <2>2 DEF Entry
<1>e. Entries = {} => \A o \in Objects: file[o] = NONE /\ new[o] = NONE
  <2> SUFFICES ASSUME NEW o \in Objects, Entries = {}
               PROVE  file[o] = NONE /\ new[o] = NONE
    OBVIOUS
  <2>1. <<"file", o>> \in Names /\ <<"new", o>> \in Names  BY DEF Names
  <2>2. Entry(<<"file", o>>) = NONE /\ Entry(<<"new", o>>) = NONE
    BY <2>1 DEF Entries
  <2> QED  BY <2>2 DEF Entry
<1>1. SUFFICES \A o \in Objects: ~dir' => file'[o] = NONE /\ new'[o] = NONE
  BY DEF InDirectory, Entries, Entry, Names
<1> USE DEF TypeOK, SetFile, SetNew, Removes, RemovesNew, Moves, Returns, Executes, fileVars,
            sessionVars, cleanVars
<1>2. CASE UNCHANGED fileVars  BY <1>0, <1>2
<1>3. CASE FsdServes
  <2> dci # NONE => dci.object \in Objects  BY RequestObject DEF Inv
  <2>1. CASE FSD_WriteFile  BY <2>1, <1>0 DEF FSD_WriteFile, Inv
  <2>2. CASE OpenExclusive  BY <2>2, <1>0 DEF OpenExclusive, Inv
  <2>3. CASE OpenNew  BY <2>3, <1>0 DEF OpenNew, Inv
  <2>4. CASE WriteNew  BY <2>4, <1>0 DEF WriteNew, Inv
  <2>5. CASE Rename
    BY <2>5, <1>0 DEF Rename, Inv, OneRequest, Working, Writing
  <2>6. CASE Unwind \/ UnwindNew  BY <2>6, <1>0 DEF Unwind, UnwindNew, Inv
  <2>7. CASE RemoveFile  BY <2>7, <1>0 DEF RemoveFile, Inv
  <2>8. CASE RemoveDir
    <3>1. CASE dir' = dir  BY <1>0, <3>1, <2>8 DEF RemoveDir
    <3>2. CASE Entries = {}
      BY <3>2, <2>8, <1>e DEF RemoveDir
    <3> QED  BY <2>8, <3>1, <3>2 DEF RemoveDir, Inv
  <2> QED
    BY <1>2, <1>3, <2>1, <2>2, <2>3, <2>4, <2>5, <2>6, <2>7, <2>8
    DEF FsdServes, Listen, Notify, FSD_LookFile, FSD_DeleteFile
<1>4. CASE Cleans
  <2>1. CASE CleanEntry
    <3>1. PICK n \in Names: IF n[1] = "file"
                            THEN Removes(n[2]) /\ UNCHANGED new
                            ELSE RemovesNew(n[2]) /\ UNCHANGED file
      BY <2>1 DEF CleanEntry, Inv
    <3>2. UNCHANGED dir  BY <2>1 DEF CleanEntry
    <3> QED  BY <3>1, <3>2, <1>0 DEF Inv
  <2>2. CASE CleanDir
    <3>1. CASE dir' = dir  BY <1>0, <3>1, <2>2 DEF CleanDir
    <3>2. CASE Entries = {}
      BY <3>2, <2>2, <1>e DEF CleanDir
    <3> QED  BY <2>2, <3>1, <3>2 DEF CleanDir, Inv
  <2> QED  BY <1>2, <1>4, <2>1, <2>2 DEF Cleans, CleanupGPTAStorage
<1> QED
  BY <1>2, <1>3, <1>4 DEF Next, vars, FsdOpens, FSD_Open, Greet, SessionFails,
     CrashRestart, Sth, SthGreets, SthTakesAnswer, SthAsks

\* What a write is about to rename is what the driver wrote, or was removed by the
\* thread that uninstalls the TA.
LEMMA FilledInvariant ==
  ASSUME Inv, [Next]_vars
  PROVE  Filled'
<1> USE DEF TypeOK, SetFile, SetNew, Removes, RemovesNew, Moves, Returns, Executes, fileVars,
            sessionVars, cleanVars
<1>1. CASE WriteNew
  <2>1. dci.object \in Objects
    BY <1>1, RequestObject DEF WriteNew, Inv, OneRequest, Working, Writing
  <2> QED  BY <1>1, <2>1 DEF WriteNew, Inv, Filled
<1>2. CASE CleanEntry
  <2>1. PICK n \in Names: UNCHANGED new \/ RemovesNew(n[2])
    BY <1>2 DEF CleanEntry, Inv
  <2>2. fsd = "rename" => dci.object \in Objects
    BY RequestObject DEF Inv, OneRequest, Working, Writing
  <2>3. UNCHANGED <<fsd, dci>>  BY <1>2 DEF CleanEntry
  <2> QED  BY <2>1, <2>2, <2>3 DEF Inv, Filled
<1> QED
  BY <1>1, <1>2
  DEF Next, vars, FsdOpens, FSD_Open, Greet, SessionFails, CrashRestart, Sth, SthGreets,
      SthTakesAnswer, SthAsks, Cleans, CleanupGPTAStorage, CleanDir, FsdServes, Listen, Notify,
      FSD_LookFile, FSD_WriteFile, OpenExclusive, OpenNew, Rename, Unwind, UnwindNew,
      FSD_DeleteFile, RemoveFile, RemoveDir, Inv, Filled, OneRequest, Working, Writing

\* An uninstallation has entries to remove only while it runs, and a file that DELETE
\* leaves behind could not be opened or removed.
LEMMA RemovalInvariant ==
  ASSUME Inv, [Next]_vars
  PROVE  Listing' /\ Gone'
<1> USE DEF SetFile, SetNew, Removes, RemovesNew, Moves, Returns, Executes, fileVars, sessionVars,
            cleanVars
<1>1. Listing'
  BY DEF Inv, Listing, Next, vars, FsdOpens, FSD_Open, Greet, SessionFails, CrashRestart, Sth,
     SthGreets, SthTakesAnswer, SthAsks, Cleans, CleanupGPTAStorage, CleanEntry, CleanDir,
     FsdServes, Listen, Notify, FSD_LookFile, FSD_WriteFile, OpenExclusive, OpenNew, WriteNew,
     Rename, Unwind, UnwindNew, FSD_DeleteFile, RemoveFile, RemoveDir
<1>2. Gone'
  <2> SUFFICES ASSUME fsd' = "rmdir", Failures \cap {"io", "refused"} = {}
               PROVE  ~Readable(dci.object)'
    BY DEF Gone
  <2>0. CASE UNCHANGED <<fsd, file, dci>>
    BY <2>0 DEF Inv, Gone, Readable
  <2>1. CASE FSD_DeleteFile
    BY <2>1 DEF FSD_DeleteFile, Readable
  <2>2. CASE RemoveFile
    <3>1. dci.object \in Objects
      BY <2>2, RequestObject DEF RemoveFile, Inv, TypeOK, OneRequest, Working, Deleting
    <3> QED  BY <2>2, <3>1 DEF RemoveFile, Readable, Inv, TypeOK
  <2>3. CASE CleanEntry
    <3>1. PICK n \in Names: Removes(n[2]) \/ UNCHANGED file
      BY <2>3 DEF CleanEntry, Inv, TypeOK
    <3>2. UNCHANGED <<fsd, dci>>  BY <2>3 DEF CleanEntry
    <3>3. dci.object \in Objects
      BY <3>2, RequestObject DEF Inv, TypeOK, OneRequest, Working, Deleting
    <3> QED  BY <3>1, <3>2, <3>3 DEF Readable, Inv, TypeOK, Gone
  <2> QED
    BY <2>0, <2>1, <2>2, <2>3
    DEF Inv, OneRequest, Greeting, Working, Deleting, Next, vars, FsdOpens, FSD_Open, Greet,
        SessionFails, CrashRestart, Sth, SthGreets, SthTakesAnswer, SthAsks, Cleans,
        CleanupGPTAStorage, CleanDir, FsdServes, Listen, Notify, FSD_LookFile, FSD_WriteFile,
        OpenExclusive, OpenNew, WriteNew, Rename, Unwind, UnwindNew, RemoveDir
<1> QED  BY <1>1, <1>2

\* The invariant of the FSD: the buffer belongs to one side at a time
\* (FSD_listenDci() and the driver take turns), for all objects and contents.
THEOREM FileStorageInvariant == Spec => []Inv
<1>1. Init => Inv
  BY DEF Init, Inv, TypeOK, OneRequest, Greeting, InDirectory, Listing, Gone, Filled, Working,
     Writing, Unwinding, Deleting, FsdPlaces, Opening, SthPlaces, Entries, Entry, Names,
     Store!Contents
<1>2. Inv /\ [Next]_vars => Inv'
  BY TypeInvariant, BufferInvariant, DirectoryInvariant, RemovalInvariant, FilledInvariant
  DEF Inv
<1> QED  BY <1>1, <1>2, PTL DEF Spec

(***************************************************************************)
(* The refinement: each step is one of the object store, or none.           *)
(***************************************************************************)

\* A step of the FSD on a request is a step of the object store: writes take effect
\* with rename() or fail, and a read returns the object.
LEMMA ServesAsStore ==
  ASSUME Inv, FsdServes
  PROVE  [Store!Next]_(Store!vars)
<1> USE DEF Store!vars, Store!Pending, Outcome, Uninstalling, Moves, Returns, Executes,
            SetFile, SetNew, Removes, RemovesNew, fileVars, sessionVars, cleanVars
<1> DEFINE o == dci.object
<1>0. fsd \in Working => dci \in Store!Requests /\ dci # NONE /\ status = NONE
  BY DEF Inv, TypeOK, OneRequest
<1>1. CASE Listen
  BY <1>1 DEF Listen
<1>2. CASE Notify
  BY <1>2 DEF Notify
<1>3. CASE FSD_LookFile
  <2>1. CASE Readable(o) /\ Returns(file[o])
    <3>1. Store!Find  BY <1>0, <1>3, <2>1 DEF FSD_LookFile, Readable, Store!Find, Working
    <3> QED  BY <3>1 DEF Store!Next
  <2>2. CASE ~Readable(o) /\ Returns("NOT_FOUND")
    <3>1. Store!Find  BY <1>0, <1>3, <2>2 DEF FSD_LookFile, Readable, Store!Find, Working
    <3> QED  BY <3>1 DEF Store!Next
  <2>3. CASE "io" \in Failures /\ (Returns("NOT_FOUND") \/ Returns("CORRUPT"))
    <3>1. Store!FindFails  BY <1>0, <1>3, <2>3 DEF FSD_LookFile, Store!FindFails, Working
    <3> QED  BY <3>1 DEF Store!Next
  <2> QED  BY <1>3, <2>1, <2>2, <2>3 DEF FSD_LookFile
<1>4. CASE FSD_WriteFile
  <2>1. CASE UNCHANGED status
    BY <2>1, <1>4 DEF FSD_WriteFile
  <2>2. CASE Returns("NO_SPACE")
    <3>1. Store!WriteFails
      BY <2>2, <1>4, <1>0 DEF FSD_WriteFile, Store!WriteFails, Working
    <3> QED  BY <3>1 DEF Store!Next
  <2> QED  BY <1>4, <2>1, <2>2 DEF FSD_WriteFile
<1>5. CASE OpenExclusive
  <2>1. CASE file[o] = NONE /\ SetFile(o, EMPTY) /\ fsd' = "openNew" /\ UNCHANGED status
    <3>1. Store!Create
      BY <2>1, <1>5, <1>0 DEF OpenExclusive, Store!Create, Working, Writing, Inv, OneRequest
    <3> QED  BY <3>1 DEF Store!Next
  <2>2. CASE Returns("CORRUPT") /\ UNCHANGED file
    <3>1. Store!WriteFails
      BY <2>2, <1>5, <1>0
      DEF OpenExclusive, Store!WriteFails, Working, Writing, Inv, OneRequest
    <3> QED  BY <3>1 DEF Store!Next
  <2> QED  BY <1>5, <2>1, <2>2 DEF OpenExclusive
<1>6. CASE OpenNew
  <2>1. CASE fsd' = "write" /\ UNCHANGED <<file, status>>
    BY <2>1, <1>6 DEF OpenNew
  <2>2. CASE Removes(o) /\ Returns("NO_SPACE")
    <3>1. Store!WriteFails
      BY <2>2, <1>6, <1>0 DEF OpenNew, Store!WriteFails, Working, Writing, Inv, OneRequest
    <3> QED  BY <3>1 DEF Store!Next
  <2> QED  BY <1>6, <2>1, <2>2 DEF OpenNew
<1>7. CASE WriteNew
  BY <1>7 DEF WriteNew
<1>8. CASE Rename
  <2>1. CASE new[o] # NONE /\ SetFile(o, new[o]) /\ Returns("SUCCESS")
    <3>1. Store!Write
      BY <2>1, <1>8, <1>0 DEF Rename, Store!Write, Working, Writing, Inv, OneRequest, Filled
    <3> QED  BY <3>1 DEF Store!Next
  <2>2. CASE fsd' = "unwind" /\ UNCHANGED <<file, new, status>>
    BY <2>2, <1>8 DEF Rename
  <2> QED  BY <1>8, <2>1, <2>2 DEF Rename
<1>9. CASE Unwind
  <2>1. Store!WriteFails
    BY <1>9, <1>0 DEF Unwind, Store!WriteFails, Working, Unwinding, Inv, OneRequest
  <2> QED  BY <2>1 DEF Store!Next
<1>10. CASE UnwindNew
  BY <1>10 DEF UnwindNew
<1>11. CASE FSD_DeleteFile
  BY <1>11 DEF FSD_DeleteFile
<1>12. CASE RemoveFile
  <2>1. CASE SetFile(o, NONE)
    <3>1. Store!Remove
      BY <2>1, <1>12, <1>0 DEF RemoveFile, Store!Remove, Working, Deleting, Inv, OneRequest
    <3> QED  BY <3>1 DEF Store!Next
  <2>2. CASE UNCHANGED file  BY <2>2, <1>12 DEF RemoveFile
  <2> QED  BY <1>12, <2>1, <2>2 DEF RemoveFile
<1>13. CASE RemoveDir
  <2>1. CASE Returns("SUCCESS")
    <3>1. Store!Deleted
      BY <1>13, <2>1, <1>0
      DEF RemoveDir, Store!Deleted, Working, Deleting, Inv, OneRequest, Gone, Readable
    <3> QED  BY <3>1 DEF Store!Next
  <2>2. CASE "refused" \in Failures /\ Returns("NO_SPACE")
    <3>1. Store!DeleteFails
      BY <1>13, <2>2, <1>0 DEF RemoveDir, Store!DeleteFails, Working, Deleting, Inv, OneRequest
    <3> QED  BY <3>1 DEF Store!Next
  <2> QED  BY <1>13, <2>1, <2>2 DEF RemoveDir
<1> QED
  BY <1>1, <1>2, <1>3, <1>4, <1>5, <1>6, <1>7, <1>8, <1>9, <1>10, <1>11, <1>12, <1>13
  DEF FsdServes

\* The file storage daemon implements the object store: with any objects and
\* contents, whichever system calls may fail (the store's faults are those of the
\* file system) and wherever the daemon dies, a write is done at once or fails, a
\* read returns what the last write left, or an error if reading may fail, and an
\* object changes only for a request about it or an uninstallation that found it
\* (FSD_WriteFile(), FSD_ReadFile(), FSD_DeleteFile(), CleanupGPTAStorage()).
THEOREM FilesStoreObjects == Spec => StoresObjects
<1>1. Init => Store!Init
  BY DEF Init, Store!Init, Outcome, Uninstalling
<1>2. Inv /\ [Next]_vars => [Store!Next]_(Store!vars)
  <2> SUFFICES ASSUME Inv, [Next]_vars
               PROVE  [Store!Next]_(Store!vars)
    OBVIOUS
  <2> USE DEF Store!vars, Outcome, Uninstalling, Moves, SetFile, SetNew, Removes, RemovesNew,
              fileVars, sessionVars, cleanVars
  <2>1. CASE FsdOpens
    BY <2>1 DEF FsdOpens, FSD_Open, Greet
  <2>2. CASE FsdServes
    BY <2>2, ServesAsStore
  <2>3. CASE SessionFails \/ CrashRestart
    <3>1. Store!Crash
      BY <2>3 DEF SessionFails, CrashRestart, Store!Crash, Opening
    <3> QED  BY <3>1 DEF Store!Next
  <2>4. CASE Cleans
    <3>1. CASE CleanupGPTAStorage
      <4>1. Uninstalling = {}
        BY <3>1 DEF CleanupGPTAStorage, Inv, Listing
      <4>2. Uninstalling' = {a \in Objects: file[a] # NONE}
        BY <3>1 DEF CleanupGPTAStorage, Entries, Names, Entry
      <4>3. Store!BeginUninstall
        BY <3>1, <4>1, <4>2 DEF CleanupGPTAStorage, Store!BeginUninstall
      <4> QED  BY <4>3 DEF Store!Next
    <3>2. CASE CleanEntry
      <4>1. PICK n \in Names: /\ n \in listed
                              /\ listed' = listed \ {n}
                              /\ IF n[1] = "file"
                                 THEN Removes(n[2]) /\ UNCHANGED new
                                 ELSE RemovesNew(n[2]) /\ UNCHANGED file
        BY <3>2 DEF CleanEntry, Inv, TypeOK
      <4>2. n = <<n[1], n[2]>> /\ n[1] \in {"file", "new"} /\ n[2] \in Objects
        BY DEF Names
      <4>3. CASE n[1] = "file"
        <5>1. n[2] \in Uninstalling /\ Uninstalling' = Uninstalling \ {n[2]}
          BY <4>1, <4>2, <4>3
        <5>2. Store!Uninstall(n[2])
          BY <3>2, <4>1, <4>3, <5>1 DEF CleanEntry, Store!Uninstall
        <5> QED  BY <5>1, <5>2 DEF Store!Next
      <4>4. CASE n[1] = "new"
        <5>1. Uninstalling' = Uninstalling
          BY <4>1, <4>2, <4>4
        <5> QED  BY <3>2, <4>1, <4>4, <5>1 DEF CleanEntry
      <4> QED  BY <4>2, <4>3, <4>4
    <3>3. CASE CleanDir
      BY <3>3 DEF CleanDir
    <3> QED  BY <2>4, <3>1, <3>2, <3>3 DEF Cleans
  <2>5. CASE Sth
    <3>1. CASE SthGreets  BY <3>1 DEF SthGreets
    <3>2. CASE SthTakesAnswer
      <4>1. Store!Answer
        BY <3>2 DEF SthTakesAnswer, Store!Answer, Inv, OneRequest, Working
      <4> QED  BY <4>1 DEF Store!Next
    <3>3. ASSUME NEW r \in Store!Requests, SthAsks(r)
          PROVE  Store!Next
      <4>1. Store!Ask(r)
        BY <3>3 DEF SthAsks, Store!Ask, Inv, OneRequest, Greeting
      <4> QED  BY <4>1 DEF Store!Next
    <3> QED  BY <2>5, <3>1, <3>2, <3>3 DEF Sth
  <2>6. CASE UNCHANGED vars
    BY <2>6 DEF vars
  <2> QED  BY <2>1, <2>2, <2>3, <2>4, <2>5, <2>6 DEF Next
<1> QED
  BY <1>1, <1>2, FileStorageInvariant, PTL DEF Spec, StoresObjects, Store!Spec

==============================================================================
